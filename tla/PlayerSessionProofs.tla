------------------------ MODULE PlayerSessionProofs ------------------------
(***************************************************************************)
(* Proofs about PlayerSession for any number of indices and addresses and  *)
(* any length of the packet queue: the types, and that a reused index never *)
(* lets one player replace another or inherit his admin rights.            *)
(***************************************************************************)
EXTENDS PlayerSession, FiniteSetTheorems, TLAPS

(* The packet queue. *)

\* Append keeps every packet where it is and puts the new one last.
LEMMA AppendPacket ==
    ASSUME NEW q \in Seq(Packet), NEW p \in Packet
    PROVE  /\ Append(q, p) \in Seq(Packet)
           /\ Len(Append(q, p)) = Len(q) + 1
           /\ DOMAIN Append(q, p) = 1 .. Len(q) + 1
           /\ \A k \in 1 .. Len(q) : Append(q, p)[k] = q[k]
           /\ Append(q, p)[Len(q) + 1] = p
  OBVIOUS

\* Receiving a packet moves every other one a place forward.
LEMMA TailPacket ==
    ASSUME NEW q \in Seq(Packet), q # <<>>
    PROVE  /\ Tail(q) \in Seq(Packet)
           /\ Head(q) = q[1] /\ Head(q) \in Packet
           /\ Len(q) \in Nat \ {0}
           /\ DOMAIN q = 1 .. Len(q)
           /\ DOMAIN Tail(q) = 1 .. Len(q) - 1
           /\ \A k \in 1 .. Len(q) - 1 : Tail(q)[k] = q[k + 1]
  OBVIOUS

\* A packet has the fields of a packet.
LEMMA PacketFields ==
    ASSUME NEW p \in Packet
    PROVE  p.kind \in Kinds /\ p.addr \in Addrs /\ p.index \in Players /\ p.addr # NoAddr
  BY SessionAssumption DEF Packet

-----------------------------------------------------------------------------
(* Types. *)

\* Deleting players counts finite sets of them.
LEMMA AgainFinite ==
    ASSUME NEW K \in SUBSET Players, NEW again \in Again(K)
    PROVE  /\ Cardinality(K) \in Nat
           /\ Cardinality(again) \in Nat
           /\ again \in SUBSET Players
  <1>1. again \in SUBSET Players
    BY DEF Again
  <1>2. IsFiniteSet(K) /\ IsFiniteSet(again)
    BY <1>1, FS_Subset, SessionAssumption
  <1> QED
    BY <1>1, <1>2, FS_CardinalityType

\* Deleting players keeps the pool and the rosters well typed.
LEMMA DeleteAllTyped ==
    ASSUME TypeOK, NEW K \in SUBSET Players, NEW again \in Again(K), DeleteAll(K, again)
    PROVE  /\ slot' \in [Players -> BOOLEAN]
           /\ admin' \in [Players -> BOOLEAN]
           /\ playerCount' \in Int
           /\ owner' \in [Players -> Addrs \cup {NoAddr}]
           /\ loginBy' \in [Players -> Addrs \cup {NoAddr}]
           /\ announced' \in [Players -> SUBSET Players]
  BY AgainFinite DEF TypeOK, DeleteAll, AnnounceQuit

\* The steps of RakNet and its clients.
LEMMA NetworkTyped == TypeOK /\ Network => TypeOK'
  <1> SUFFICES ASSUME TypeOK, Network PROVE TypeOK'
    OBVIOUS
  <1> USE DEF TypeOK, netVars, poolVars, viewVars, modeVars
  <1>p. ASSUME NEW i \in Players, playerId[i] # NoAddr, NEW kind \in Kinds
        PROVE  [kind |-> kind, addr |-> playerId[i], index |-> i] \in Packet
    BY <1>p DEF Packet
  <1>1. ASSUME NEW i \in Players, NEW a \in Addrs, Connect(i, a) PROVE TypeOK'
    BY <1>1 DEF Connect
  <1>2. ASSUME NEW i \in Players, SendJoin(i) PROVE TypeOK'
    BY <1>2, <1>p, AppendPacket DEF SendJoin, Kinds
  <1>3. ASSUME NEW i \in Players, NEW c \in Commands, SendCommand(i, c) PROVE TypeOK'
    BY <1>3, <1>p, AppendPacket DEF SendCommand, Kinds
  <1>4. ASSUME NEW i \in Players, ClientQuit(i) PROVE TypeOK'
    BY <1>4 DEF ClientQuit
  <1>5. ASSUME NEW i \in Players, Lose(i) PROVE TypeOK'
    BY <1>5, <1>p, AppendPacket DEF Lose, EndConnection, Departure, Kinds
  <1>6. ASSUME NEW i \in Players, Close(i) PROVE TypeOK'
    BY <1>6, <1>p, AppendPacket DEF Close, EndConnection, Departure, Kinds
  <1> QED
    BY <1>1, <1>2, <1>3, <1>4, <1>5, <1>6 DEF Network

\* The handlers of UpdateNetwork.
LEMMA HandlePacketTyped == TypeOK /\ HandlePacket => TypeOK'
  <1> SUFFICES ASSUME TypeOK, HandlePacket PROVE TypeOK'
    OBVIOUS
  <1> USE DEF TypeOK, netVars, poolVars, viewVars, modeVars
  <1>h. packets # <<>>
    BY DEF HandlePacket, JoinIgnored, JoinRejected, JoinAccepted, JoinKicked,
           JoinKickedCrashes, RconLogin, RconFinish, RconIgnored, HandleGone,
           HandleGoneCrashes, Receive, Receiving
  <1>t. /\ Tail(packets) \in Seq(Packet)
        /\ Head(packets).index \in Players
        /\ Head(packets).addr \in Addrs
    BY <1>h, TailPacket, PacketFields
  <1>1. ASSUME JoinIgnored PROVE TypeOK'
    BY <1>1, <1>t DEF JoinIgnored, Receive
  <1>2. ASSUME JoinRejected PROVE TypeOK'
    BY <1>2, <1>t DEF JoinRejected, Receive
  <1>3. ASSUME JoinAccepted PROVE TypeOK'
    <2>1. announced' \in [Players -> SUBSET Players]
      BY <1>3, <1>t DEF JoinAccepted, InitPlayersForPlayer, AnnounceJoin, InUse
    <2> QED
      BY <1>3, <1>t, <2>1 DEF JoinAccepted, Receive
  <1>4. ASSUME NEW byGameMode \in BOOLEAN, JoinKicked(byGameMode) PROVE TypeOK'
    <2>1. playerCount' \in Int
      <3>1. PICK again \in Again({Head(packets).index}) :
                playerCount' = playerCount - Cardinality(again)
        BY <1>4 DEF JoinKicked
      <3> QED
        BY <3>1, <1>t, AgainFinite
    <2>2. announced' \in [Players -> SUBSET Players]
      BY <1>4, <1>t DEF JoinKicked, InitPlayersForPlayer, AnnounceQuit, AnnounceJoin, InUse
    <2> QED
      BY <1>4, <1>t, <2>1, <2>2 DEF JoinKicked, Receive
  <1>5. ASSUME JoinKickedCrashes PROVE TypeOK'
    BY <1>5, <1>t DEF JoinKickedCrashes, Receive, Crash
  <1>6. ASSUME RconLogin PROVE TypeOK'
    BY <1>6, <1>t DEF RconLogin, Receive
  <1>7. ASSUME RconFinish PROVE TypeOK'
    BY <1>7, <1>t DEF RconFinish, Receive
  <1>8. ASSUME RconIgnored PROVE TypeOK'
    BY <1>8, <1>t DEF RconIgnored, Receive
  <1>9. ASSUME HandleGone PROVE TypeOK'
    <2> DEFINE i == Head(packets).index
    <2>1. CASE slot[i]
      <3>1. PICK again \in Again({i}) : Delete(i, again) /\ closing' = Kicked(again)
        BY <1>9, <2>1 DEF HandleGone
      <3>2. DeleteAll({i}, again)
        BY <3>1 DEF Delete
      <3> HIDE DEF i
      <3> QED
        BY <1>9, <1>t, <3>1, <3>2, DeleteAllTyped DEF HandleGone, Receive, Delete, Kicked, i
    <2>2. CASE ~slot[i]
      BY <1>9, <1>t, <2>2 DEF HandleGone, Receive
    <2> QED
      BY <2>1, <2>2
  <1>10. ASSUME HandleGoneCrashes PROVE TypeOK'
    BY <1>10, <1>t DEF HandleGoneCrashes, Receive, Crash
  <1> QED
    BY <1>1, <1>2, <1>3, <1>4, <1>5, <1>6, <1>7, <1>8, <1>9, <1>10 DEF HandlePacket

\* The world tick.
LEMMA TickTyped == TypeOK /\ Tick => TypeOK'
  <1> SUFFICES ASSUME TypeOK, Tick PROVE TypeOK'
    OBVIOUS
  <1> USE DEF TypeOK, netVars, poolVars, viewVars, modeVars
  <1>1. ASSUME WorldTick PROVE TypeOK'
    BY <1>1 DEF WorldTick
  <1>2. ASSUME RestartTick PROVE TypeOK'
    BY <1>2, SessionAssumption DEF RestartTick
  <1>3. ASSUME NEW byScript \in SUBSET InUse, NEW byMode \in SUBSET (InUse \ byScript),
               ReInit(byScript, byMode)
        PROVE  TypeOK'
    <2> DEFINE kicked == byScript \cup byMode
    <2>1. kicked \in SUBSET Players
      BY DEF InUse
    <2>2. PICK again \in Again(kicked) : DeleteAll(kicked, again)
      BY <1>3 DEF ReInit
    <2>3. /\ closing' \in [Players -> BOOLEAN]
          /\ gmKnows' \in [Players -> BOOLEAN]
          /\ told' \in [Players -> BOOLEAN]
      BY <1>3 DEF ReInit, Kicked
    <2> HIDE DEF kicked
    <2> QED
      BY <1>3, <2>1, <2>2, <2>3, DeleteAllTyped DEF ReInit
  <1> QED
    BY <1>1, <1>2, <1>3 DEF Tick

\* A kick from a script or the console, and the steps around the restart.
LEMMA MainLoopTyped ==
    ASSUME TypeOK,
           \/ EndNetwork
           \/ \E i \in Players : KickPlayer(i)
           \/ \E i \in Players : KickPlayerCrashes(i)
           \/ FinishGameMode
           \/ EndShutdown
    PROVE  TypeOK'
  <1> USE DEF TypeOK, netVars, poolVars, viewVars, modeVars
  <1>1. ASSUME EndNetwork PROVE TypeOK'
    BY <1>1 DEF EndNetwork
  <1>2. ASSUME NEW i \in Players, KickPlayer(i) PROVE TypeOK'
    <2>1. PICK again \in Again({i}) : Delete(i, again)
      BY <1>2 DEF KickPlayer
    <2>2. DeleteAll({i}, again)
      BY <2>1 DEF Delete
    <2>3. closing' \in [Players -> BOOLEAN]
      BY <1>2 DEF KickPlayer, Kicked
    <2>4. /\ gmKnows' \in [Players -> BOOLEAN]
          /\ told' \in [Players -> BOOLEAN]
      BY <2>1 DEF Delete
    <2>5. /\ slot' \in [Players -> BOOLEAN]
          /\ admin' \in [Players -> BOOLEAN]
          /\ playerCount' \in Int
          /\ owner' \in [Players -> Addrs \cup {NoAddr}]
          /\ loginBy' \in [Players -> Addrs \cup {NoAddr}]
          /\ announced' \in [Players -> SUBSET Players]
      BY <2>2, DeleteAllTyped
    <2> QED
      BY <1>2, <2>3, <2>4, <2>5 DEF KickPlayer
  <1>3. ASSUME NEW i \in Players, KickPlayerCrashes(i) PROVE TypeOK'
    BY <1>3 DEF KickPlayerCrashes, Crash
  <1>4. ASSUME FinishGameMode PROVE TypeOK'
    BY <1>4 DEF FinishGameMode
  <1>5. ASSUME ShutdownForGameModeRestart PROVE TypeOK'
    <2>1. waited' \in 0 .. RestartWait
      BY <1>5, SessionAssumption DEF ShutdownForGameModeRestart
    <2>2. gmKnows' \in [Players -> BOOLEAN] /\ told' \in [Players -> BOOLEAN]
      BY <1>5 DEF ShutdownForGameModeRestart
    <2> QED
      BY <1>5, <2>1, <2>2 DEF ShutdownForGameModeRestart
  <1>6. ASSUME ShutdownCrashes PROVE TypeOK'
    BY <1>6 DEF ShutdownCrashes, Crash
  <1>7. ASSUME EndLoop PROVE TypeOK'
    BY <1>7 DEF EndLoop
  <1> QED
    BY <1>1, <1>2, <1>3, <1>4, <1>5, <1>6, <1>7 DEF EndShutdown

\* Every variable keeps its type: in particular the packet queue holds whole
\* packets of known indices, and the restart wait never passes its bound.
THEOREM TypesAlways == Spec => []TypeOK
  <1>1. Init => TypeOK
    <2> SUFFICES ASSUME Init PROVE TypeOK
      OBVIOUS
    <2>1. packets \in Seq(Packet)
      BY DEF Init
    <2>2. waited \in 0 .. RestartWait /\ playerCount \in Int
      BY SessionAssumption DEF Init
    <2>3. announced \in [Players -> SUBSET Players]
      BY DEF Init
    <2> QED
      BY <2>1, <2>2, <2>3 DEF Init, TypeOK
  <1>2. TypeOK /\ [Next]_vars => TypeOK'
    <2> SUFFICES ASSUME TypeOK, [Next]_vars PROVE TypeOK'
      OBVIOUS
    <2>1. CASE Next
      BY <2>1, NetworkTyped, HandlePacketTyped, TickTyped, MainLoopTyped DEF Next
    <2>2. CASE UNCHANGED vars
      BY <2>2 DEF vars, netVars, poolVars, viewVars, modeVars, TypeOK
    <2> QED
      BY <2>1, <2>2
  <1> QED
    BY <1>1, <1>2, PTL DEF Spec

-----------------------------------------------------------------------------
(* The order of the queue.  Every step is one of a few kinds, as far as the *)
(* queue, the connections and the occupants are concerned.                  *)

\* The step puts nobody new into the pool.
PoolShrinks == \A i \in Players : slot'[i] => slot[i] /\ owner'[i] = owner[i]

\* Deleting players only empties slots.
LEMMA DeleteAllShrinks ==
    ASSUME TypeOK, NEW K \in SUBSET Players, NEW again, DeleteAll(K, again)
    PROVE  PoolShrinks /\ \A i \in K : ~slot'[i]
  BY DEF DeleteAll, PoolShrinks, TypeOK

\* Steps that leave the queue and the connections alone.
LEMMA QueueKept ==
    ASSUME TypeOK, QueueInv, PoolShrinks, UNCHANGED <<playerId, joined, packets>>
    PROVE  QueueInv'
  <1>1. \A k \in DOMAIN packets : packets[k].index \in Players
    BY PacketFields DEF TypeOK
  <1>2. PlayersOwned'
    BY DEF PoolShrinks, QueueInv, PlayersOwned
  <1>3. DepartureQueued'
    BY DEF PoolShrinks, QueueInv, DepartureQueued
  <1>4. DepartureFirst'
    BY <1>1 DEF PoolShrinks, QueueInv, DepartureFirst
  <1>5. LiveLast'
    BY DEF QueueInv, LiveLast
  <1>6. JoinsOnce'
    BY <1>1 DEF PoolShrinks, QueueInv, JoinsOnce
  <1> QED
    BY <1>2, <1>3, <1>4, <1>5, <1>6 DEF QueueInv

\* Steps that handle the first packet and put nobody into the pool.
LEMMA QueueDrained ==
    ASSUME TypeOK, QueueInv, PoolShrinks,
           packets # <<>>, packets' = Tail(packets), UNCHANGED <<playerId, joined>>,
           Head(packets).kind = "gone" => ~slot'[Head(packets).index]
    PROVE  QueueInv'
  <1>1. /\ DOMAIN packets = 1 .. Len(packets)
        /\ Len(packets) \in Nat \ {0}
        /\ DOMAIN packets' = 1 .. Len(packets) - 1
        /\ \A k \in 1 .. Len(packets) - 1 : packets'[k] = packets[k + 1]
        /\ Head(packets) = packets[1]
    BY TailPacket DEF TypeOK
  <1>2. \A k \in DOMAIN packets' : k + 1 \in DOMAIN packets /\ packets'[k] = packets[k + 1]
    BY <1>1
  <1>3. \A k \in DOMAIN packets : packets[k].index \in Players
    BY PacketFields DEF TypeOK
  <1>4. PlayersOwned'
    BY DEF PoolShrinks, QueueInv, PlayersOwned
  <1>d. \A i \in Players, n \in DOMAIN packets :
           slot'[i] /\ packets[n] = Departure(owner[i], i) => n # 1
    BY <1>1 DEF Departure
  <1>5. DepartureQueued'
    <2> SUFFICES ASSUME NEW i \in Players, slot'[i], owner'[i] # playerId'[i]
                 PROVE  \E n \in DOMAIN packets' : packets'[n] = Departure(owner'[i], i)
      BY DEF DepartureQueued
    <2>1. slot[i] /\ owner'[i] = owner[i]
      BY DEF PoolShrinks
    <2>2. PICK n \in DOMAIN packets : packets[n] = Departure(owner[i], i)
      BY <2>1 DEF QueueInv, DepartureQueued
    <2>3. n - 1 \in DOMAIN packets' /\ packets'[n - 1] = packets[n]
      BY <1>1, <1>d, <2>2
    <2> QED
      BY <2>1, <2>2, <2>3
  <1>6. DepartureFirst'
    <2> SUFFICES ASSUME NEW k \in DOMAIN packets',
                        slot'[packets'[k].index],
                        packets'[k].addr # owner'[packets'[k].index]
                 PROVE  \E n \in 1 .. k-1 :
                            packets'[n] = Departure(owner'[packets'[k].index], packets'[k].index)
      BY DEF DepartureFirst
    <2> DEFINE i == packets'[k].index
    <2>1. k + 1 \in DOMAIN packets /\ packets'[k] = packets[k + 1] /\ i \in Players
      BY <1>2, <1>3
    <2>2. slot[i] /\ owner'[i] = owner[i]
      BY <2>1 DEF PoolShrinks
    <2>3. PICK n \in 1 .. (k + 1) - 1 : packets[n] = Departure(owner[i], i)
      BY <2>1, <2>2 DEF QueueInv, DepartureFirst
    <2>4. n # 1
      BY <1>1, <1>d, <2>1, <2>3
    <2>5. n - 1 \in 1 .. k - 1 /\ packets'[n - 1] = packets[n]
      BY <1>1, <2>1, <2>3, <2>4
    <2> QED
      BY <2>2, <2>3, <2>5
  <1>7. LiveLast'
    <2> SUFFICES ASSUME NEW k \in DOMAIN packets', NEW m \in DOMAIN packets',
                        packets'[k].addr = playerId'[packets'[k].index],
                        packets'[m].index = packets'[k].index,
                        packets'[m].addr # packets'[k].addr
                 PROVE  m < k
      BY DEF LiveLast
    <2>1. m + 1 < k + 1
      BY <1>2 DEF QueueInv, LiveLast
    <2> QED
      BY <1>1, <2>1
  <1>8. JoinsOnce'
    <2>1. \A i \in Players : slot'[i] /\ owner'[i] = playerId'[i] => joined'[i]
      BY DEF PoolShrinks, QueueInv, JoinsOnce
    <2>2. ASSUME NEW k \in DOMAIN packets', packets'[k].kind = "join"
          PROVE  /\ packets'[k].addr = playerId'[packets'[k].index] => joined'[packets'[k].index]
                 /\ ~(slot'[packets'[k].index] /\ packets'[k].addr = owner'[packets'[k].index])
      BY <1>2, <1>3, <2>2 DEF PoolShrinks, QueueInv, JoinsOnce
    <2>3. ASSUME NEW k \in DOMAIN packets', NEW m \in DOMAIN packets',
                 packets'[k].kind = "join", packets'[m].kind = "join",
                 packets'[k].addr = packets'[m].addr,
                 packets'[k].index = packets'[m].index
          PROVE  k = m
      <3>1. k + 1 = m + 1
        BY <1>2, <2>3 DEF QueueInv, JoinsOnce
      <3> QED
        BY <1>1, <3>1
    <2> QED
      BY <2>1, <2>2, <2>3 DEF JoinsOnce
  <1> QED
    BY <1>4, <1>5, <1>6, <1>7, <1>8 DEF QueueInv

\* A packet from a live connection goes to the end of the queue.
LEMMA QueueExtended ==
    ASSUME TypeOK, QueueInv, NEW i \in Players, playerId[i] # NoAddr,
           NEW kind \in Kinds,
           packets' = Append(packets, [kind |-> kind, addr |-> playerId[i], index |-> i]),
           UNCHANGED <<playerId, slot, owner>>,
           IF kind = "join" THEN ~joined[i] /\ joined' = [joined EXCEPT ![i] = TRUE]
                            ELSE joined' = joined
    PROVE  QueueInv'
  <1> DEFINE new == [kind |-> kind, addr |-> playerId[i], index |-> i]
             L == Len(packets)
  <1>1. new \in Packet
    BY DEF TypeOK, Packet
  <1>2. /\ L \in Nat
        /\ DOMAIN packets = 1 .. L
        /\ DOMAIN packets' = 1 .. L + 1
        /\ \A k \in 1 .. L : packets'[k] = packets[k]
        /\ packets'[L + 1] = new
    BY <1>1, AppendPacket DEF TypeOK
  <1>3. \A k \in 1 .. L : packets[k].index \in Players
    BY <1>2, PacketFields DEF TypeOK
  <1>4. new.kind = kind /\ new.addr = playerId[i] /\ new.index = i
    OBVIOUS
  <1> HIDE DEF new, L
  <1>5. PlayersOwned'
    BY DEF QueueInv, PlayersOwned
  <1>6. DepartureQueued'
    BY <1>2 DEF QueueInv, DepartureQueued
  <1>7. DepartureFirst'
    <2> SUFFICES ASSUME NEW k \in 1 .. L + 1,
                        slot'[packets'[k].index],
                        packets'[k].addr # owner'[packets'[k].index]
                 PROVE  \E n \in 1 .. k-1 :
                            packets'[n] = Departure(owner'[packets'[k].index], packets'[k].index)
      BY <1>2 DEF DepartureFirst
    <2>1. CASE k \in 1 .. L
      <3>1. PICK n \in 1 .. k - 1 :
                packets[n] = Departure(owner[packets[k].index], packets[k].index)
        BY <1>2, <2>1 DEF QueueInv, DepartureFirst
      <3> QED
        BY <1>2, <2>1, <3>1
    <2>2. CASE k = L + 1
      <3>1. PICK n \in 1 .. L : packets[n] = Departure(owner[i], i)
        BY <1>2, <1>4, <2>2 DEF QueueInv, DepartureQueued
      <3> QED
        BY <1>2, <1>4, <2>2, <3>1
    <2> QED
      BY <1>2, <2>1, <2>2
  <1>8. LiveLast'
    <2> SUFFICES ASSUME NEW k \in 1 .. L + 1, NEW m \in 1 .. L + 1,
                        packets'[k].addr = playerId'[packets'[k].index],
                        packets'[m].index = packets'[k].index,
                        packets'[m].addr # packets'[k].addr
                 PROVE  m < k
      BY <1>2 DEF LiveLast
    <2>1. m # L + 1
      BY <1>2, <1>4
    <2>2. CASE k = L + 1
      BY <1>2, <2>1, <2>2
    <2>3. CASE k \in 1 .. L
      BY <1>2, <2>1, <2>3 DEF QueueInv, LiveLast
    <2> QED
      BY <1>2, <2>2, <2>3
  <1>9. JoinsOnce'
    <2>1. ASSUME NEW j \in Players, slot'[j], owner'[j] = playerId'[j] PROVE joined'[j]
      BY <2>1 DEF QueueInv, JoinsOnce, TypeOK
    <2>2. ASSUME NEW k \in 1 .. L + 1, packets'[k].kind = "join"
          PROVE  /\ packets'[k].addr = playerId'[packets'[k].index] => joined'[packets'[k].index]
                 /\ ~(slot'[packets'[k].index] /\ packets'[k].addr = owner'[packets'[k].index])
      <3>1. CASE k \in 1 .. L
        <4>1. ~(slot[packets[k].index] /\ packets[k].addr = owner[packets[k].index])
          BY <1>2, <2>2, <3>1 DEF QueueInv, JoinsOnce
        <4>2. packets[k].addr = playerId[packets[k].index] => joined[packets[k].index]
          BY <1>2, <2>2, <3>1 DEF QueueInv, JoinsOnce
        <4>3. joined[packets[k].index] => joined'[packets[k].index]
          BY <1>3, <3>1 DEF TypeOK
        <4> QED
          BY <1>2, <3>1, <4>1, <4>2, <4>3
      <3>2. CASE k = L + 1
        BY <1>2, <1>4, <2>2, <3>2 DEF QueueInv, JoinsOnce, TypeOK
      <3> QED
        BY <1>2, <3>1, <3>2
    <2>3. ASSUME NEW k \in 1 .. L + 1, NEW m \in 1 .. L + 1,
                 packets'[k].kind = "join", packets'[m].kind = "join",
                 packets'[k].addr = packets'[m].addr,
                 packets'[k].index = packets'[m].index
          PROVE  k = m
      <3>1. ASSUME NEW n \in 1 .. L, kind = "join",
                   packets[n].kind = "join", packets[n].addr = playerId[i], packets[n].index = i
            PROVE  FALSE
        BY <1>2, <3>1 DEF QueueInv, JoinsOnce
      <3>2. CASE k \in 1 .. L /\ m \in 1 .. L
        BY <1>2, <2>3, <3>2 DEF QueueInv, JoinsOnce
      <3>3. CASE k = L + 1 /\ m \in 1 .. L
        BY <1>2, <1>4, <2>3, <3>1, <3>3
      <3>4. CASE k \in 1 .. L /\ m = L + 1
        BY <1>2, <1>4, <2>3, <3>1, <3>4
      <3> QED
        BY <1>2, <3>2, <3>3, <3>4
    <2> QED
      BY <1>2, <2>1, <2>2, <2>3 DEF JoinsOnce
  <1> QED
    BY <1>5, <1>6, <1>7, <1>8, <1>9 DEF QueueInv

\* A connection ends: its notification goes to the end of the queue.
LEMMA QueueClosed ==
    ASSUME TypeOK, QueueInv, NEW i \in Players, playerId[i] # NoAddr, EndConnection(i)
    PROVE  QueueInv'
  <1> DEFINE new == Departure(playerId[i], i)
             L == Len(packets)
  <1>1. new \in Packet
    BY DEF TypeOK, Packet, Departure, Kinds
  <1>2. /\ L \in Nat
        /\ DOMAIN packets = 1 .. L
        /\ DOMAIN packets' = 1 .. L + 1
        /\ \A k \in 1 .. L : packets'[k] = packets[k]
        /\ packets'[L + 1] = new
    BY <1>1, AppendPacket DEF TypeOK, EndConnection
  <1>3. \A k \in 1 .. L : packets[k].index \in Players /\ packets[k].addr # NoAddr
    BY <1>2, PacketFields DEF TypeOK
  <1>4. /\ new.kind = "gone" /\ new.addr = playerId[i] /\ new.index = i
        /\ UNCHANGED <<slot, owner>>
        /\ playerId' = [playerId EXCEPT ![i] = NoAddr]
        /\ joined' = [joined EXCEPT ![i] = FALSE]
    BY DEF EndConnection, Departure, poolVars
  <1>n. new = Departure(playerId[i], i)
    OBVIOUS
  <1> HIDE DEF new, L
  <1>5. PlayersOwned'
    BY <1>4 DEF QueueInv, PlayersOwned
  <1>6. DepartureQueued'
    <2> SUFFICES ASSUME NEW j \in Players, slot'[j], owner'[j] # playerId'[j]
                 PROVE  \E n \in 1 .. L + 1 : packets'[n] = Departure(owner'[j], j)
      BY <1>2 DEF DepartureQueued
    <2>1. CASE owner[j] # playerId[j]
      <3>1. PICK n \in 1 .. L : packets[n] = Departure(owner[j], j)
        BY <1>2, <1>4, <2>1 DEF QueueInv, DepartureQueued
      <3> QED
        BY <1>2, <1>4, <3>1
    <2>2. CASE owner[j] = playerId[j]
      <3>1. j = i
        BY <1>4, <2>2 DEF TypeOK
      <3> QED
        BY <1>2, <1>4, <1>n, <2>2, <3>1
    <2> QED
      BY <2>1, <2>2
  <1>7. DepartureFirst'
    <2> SUFFICES ASSUME NEW k \in 1 .. L + 1,
                        slot'[packets'[k].index],
                        packets'[k].addr # owner'[packets'[k].index]
                 PROVE  \E n \in 1 .. k-1 :
                            packets'[n] = Departure(owner'[packets'[k].index], packets'[k].index)
      BY <1>2 DEF DepartureFirst
    <2>1. CASE k \in 1 .. L
      <3>1. PICK n \in 1 .. k - 1 :
                packets[n] = Departure(owner[packets[k].index], packets[k].index)
        BY <1>2, <1>4, <2>1 DEF QueueInv, DepartureFirst
      <3> QED
        BY <1>2, <1>4, <2>1, <3>1
    <2>2. CASE k = L + 1
      <3>1. PICK n \in 1 .. L : packets[n] = Departure(owner[i], i)
        BY <1>2, <1>4, <2>2 DEF QueueInv, DepartureQueued
      <3> QED
        BY <1>2, <1>4, <2>2, <3>1
    <2> QED
      BY <1>2, <2>1, <2>2
  <1>8. LiveLast'
    <2> SUFFICES ASSUME NEW k \in 1 .. L + 1, NEW m \in 1 .. L + 1,
                        packets'[k].addr = playerId'[packets'[k].index],
                        packets'[m].index = packets'[k].index,
                        packets'[m].addr # packets'[k].addr
                 PROVE  m < k
      BY <1>2 DEF LiveLast
    <2>1. k # L + 1 /\ packets'[k].index # i
      BY <1>2, <1>3, <1>4 DEF TypeOK
    <2>2. m # L + 1
      BY <1>2, <1>4, <2>1
    <2>3. k \in 1 .. L /\ m \in 1 .. L
      BY <1>2, <2>1, <2>2
    <2>4. packets[k].addr = playerId[packets[k].index]
      BY <1>2, <1>3, <1>4, <2>1, <2>3 DEF TypeOK
    <2> QED
      BY <1>2, <2>3, <2>4 DEF QueueInv, LiveLast
  <1>9. JoinsOnce'
    <2>1. ASSUME NEW j \in Players, slot'[j], owner'[j] = playerId'[j] PROVE joined'[j]
      <3>1. j # i
        BY <1>4, <2>1, SessionAssumption DEF QueueInv, PlayersOwned, TypeOK
      <3> QED
        BY <1>4, <2>1, <3>1 DEF QueueInv, JoinsOnce, TypeOK
    <2>2. ASSUME NEW k \in 1 .. L + 1, packets'[k].kind = "join"
          PROVE  /\ packets'[k].addr = playerId'[packets'[k].index] => joined'[packets'[k].index]
                 /\ ~(slot'[packets'[k].index] /\ packets'[k].addr = owner'[packets'[k].index])
      <3>1. k \in 1 .. L
        BY <1>2, <1>4, <2>2
      <3>2. ~(slot[packets[k].index] /\ packets[k].addr = owner[packets[k].index])
        BY <1>2, <2>2, <3>1 DEF QueueInv, JoinsOnce
      <3>3. packets[k].addr = playerId[packets[k].index] => joined[packets[k].index]
        BY <1>2, <2>2, <3>1 DEF QueueInv, JoinsOnce
      <3> QED
        BY <1>2, <1>3, <1>4, <3>1, <3>2, <3>3 DEF TypeOK
    <2>3. ASSUME NEW k \in 1 .. L + 1, NEW m \in 1 .. L + 1,
                 packets'[k].kind = "join", packets'[m].kind = "join",
                 packets'[k].addr = packets'[m].addr,
                 packets'[k].index = packets'[m].index
          PROVE  k = m
      <3>1. k \in 1 .. L /\ m \in 1 .. L
        BY <1>2, <1>4, <2>3
      <3> QED
        BY <1>2, <2>3, <3>1 DEF QueueInv, JoinsOnce
    <2> QED
      BY <1>2, <2>1, <2>2, <2>3 DEF JoinsOnce
  <1> QED
    BY <1>5, <1>6, <1>7, <1>8, <1>9 DEF QueueInv

\* A new connection: nothing in the queue or the pool carries its PlayerID.
LEMMA QueueConnected ==
    ASSUME TypeOK, QueueInv, NEW i \in Players, NEW a \in Addrs, Connect(i, a)
    PROVE  QueueInv'
  <1>1. /\ playerId[i] = NoAddr
        /\ \A k \in DOMAIN packets : packets[k].addr # a
        /\ playerId' = [playerId EXCEPT ![i] = a]
        /\ UNCHANGED <<packets, joined, slot, owner>>
    BY DEF Connect, Fresh, poolVars
  <1>2. \A j \in Players : slot[j] => owner[j] # a \/ (j # i /\ owner[j] = playerId[j])
    <2> SUFFICES ASSUME NEW j \in Players, slot[j], owner[j] = a, owner[j] # playerId[j]
                 PROVE  FALSE
      BY <1>1, SessionAssumption DEF TypeOK
    <2>1. PICK n \in DOMAIN packets : packets[n] = Departure(owner[j], j)
      BY DEF QueueInv, DepartureQueued
    <2> QED
      BY <1>1, <2>1 DEF Departure
  <1>3. \A k \in DOMAIN packets : packets[k].index \in Players /\ packets[k].addr # NoAddr
    BY PacketFields DEF TypeOK
  <1>4. PlayersOwned'
    BY <1>1 DEF QueueInv, PlayersOwned
  <1>5. DepartureQueued'
    <2> SUFFICES ASSUME NEW j \in Players, slot[j], owner[j] # playerId'[j]
                 PROVE  \E n \in DOMAIN packets : packets[n] = Departure(owner[j], j)
      BY <1>1 DEF DepartureQueued
    <2>1. owner[j] # playerId[j]
      BY <1>1, SessionAssumption DEF QueueInv, PlayersOwned, TypeOK
    <2> QED
      BY <2>1 DEF QueueInv, DepartureQueued
  <1>6. DepartureFirst'
    BY <1>1 DEF QueueInv, DepartureFirst
  <1>7. LiveLast'
    <2> SUFFICES ASSUME NEW k \in DOMAIN packets, NEW m \in DOMAIN packets,
                        packets[k].addr = playerId'[packets[k].index],
                        packets[m].index = packets[k].index,
                        packets[m].addr # packets[k].addr
                 PROVE  m < k
      BY <1>1 DEF LiveLast
    <2>1. packets[k].addr = playerId[packets[k].index]
      BY <1>1, <1>3 DEF TypeOK
    <2> QED
      BY <2>1 DEF QueueInv, LiveLast
  <1>8. JoinsOnce'
    <2>1. ASSUME NEW j \in Players, slot[j], owner[j] = playerId'[j] PROVE joined[j]
      BY <1>1, <1>2, <2>1 DEF QueueInv, JoinsOnce, TypeOK
    <2>2. ASSUME NEW k \in DOMAIN packets, packets[k].kind = "join",
                 packets[k].addr = playerId'[packets[k].index]
          PROVE  joined[packets[k].index]
      BY <1>1, <1>3, <2>2 DEF QueueInv, JoinsOnce, TypeOK
    <2> QED
      BY <1>1, <2>1, <2>2 DEF QueueInv, JoinsOnce
  <1> QED
    BY <1>4, <1>5, <1>6, <1>7, <1>8 DEF QueueInv

\* No player is in the way when a ClientJoin is accepted.
LEMMA FreeSlot == TypeOK /\ QueueInv => JoinFindsFreeSlot
  <1> SUFFICES ASSUME TypeOK, QueueInv, packets # <<>>,
                      Head(packets).kind = "join", Active(Head(packets)),
                      slot[Head(packets).index]
               PROVE  FALSE
    BY DEF JoinFindsFreeSlot
  <1>1. 1 \in DOMAIN packets /\ Head(packets) = packets[1]
    BY TailPacket DEF TypeOK
  <1>2. packets[1].addr # owner[packets[1].index]
    BY <1>1 DEF QueueInv, JoinsOnce
  <1>3. \E n \in 1 .. 0 : packets[n] = Departure(owner[packets[1].index], packets[1].index)
    BY <1>1, <1>2 DEF QueueInv, DepartureFirst
  <1> QED
    BY <1>3

\* A ClientJoin is accepted: the newcomer owns the slot at his index.
LEMMA QueueJoined ==
    ASSUME TypeOK, QueueInv, JoinAccepted
    PROVE  QueueInv'
  <1> DEFINE i == Head(packets).index
             a == Head(packets).addr
             L == Len(packets)
  <1>1. /\ packets # <<>> /\ packets' = Tail(packets)
        /\ Head(packets).kind = "join"
        /\ playerId[i] = a
        /\ slot' = [slot EXCEPT ![i] = TRUE]
        /\ owner' = [owner EXCEPT ![i] = a]
        /\ UNCHANGED <<playerId, joined>>
    BY DEF JoinAccepted, Receive, Receiving, Active, netVars
  <1>2. /\ DOMAIN packets = 1 .. L
        /\ L \in Nat \ {0}
        /\ DOMAIN packets' = 1 .. L - 1
        /\ \A k \in 1 .. L - 1 : packets'[k] = packets[k + 1]
        /\ Head(packets) = packets[1]
    BY <1>1, TailPacket DEF TypeOK
  <1>3. \A k \in DOMAIN packets' : k + 1 \in DOMAIN packets /\ packets'[k] = packets[k + 1]
    BY <1>2
  <1>4. \A k \in DOMAIN packets : packets[k].index \in Players
    BY PacketFields DEF TypeOK
  <1>5. i \in Players /\ a \in Addrs
    BY <1>1, TailPacket, PacketFields DEF TypeOK
  <1>6. packets[1].kind = "join" /\ packets[1].index = i /\ packets[1].addr = a /\ 1 \in DOMAIN packets
    BY <1>1, <1>2
  <1> HIDE DEF i, a, L
  <1>a. \A k \in DOMAIN packets : packets[k].index = i => packets[k].addr = a
    <2> SUFFICES ASSUME NEW k \in DOMAIN packets, packets[k].index = i, packets[k].addr # a
                 PROVE  FALSE
      OBVIOUS
    <2>1. k < 1
      BY <1>1, <1>6 DEF QueueInv, LiveLast
    <2> QED
      BY <1>2, <2>1
  <1>j. \A k \in DOMAIN packets' :
            packets'[k].kind = "join" => ~(packets'[k].index = i /\ packets'[k].addr = a)
    <2> SUFFICES ASSUME NEW k \in DOMAIN packets', packets'[k].kind = "join",
                        packets'[k].index = i, packets'[k].addr = a
                 PROVE  FALSE
      OBVIOUS
    <2>1. k + 1 = 1
      BY <1>3, <1>6 DEF QueueInv, JoinsOnce
    <2> QED
      BY <1>2, <2>1
  <1>7. PlayersOwned'
    BY <1>1, <1>5 DEF QueueInv, PlayersOwned, TypeOK
  <1>8. DepartureQueued'
    <2> SUFFICES ASSUME NEW j \in Players, slot'[j], owner'[j] # playerId'[j]
                 PROVE  \E n \in DOMAIN packets' : packets'[n] = Departure(owner'[j], j)
      BY DEF DepartureQueued
    <2>1. j # i /\ slot[j] /\ owner'[j] = owner[j] /\ owner[j] # playerId[j]
      BY <1>1, <1>5 DEF TypeOK
    <2>2. PICK n \in DOMAIN packets : packets[n] = Departure(owner[j], j)
      BY <2>1 DEF QueueInv, DepartureQueued
    <2>3. n # 1
      BY <1>6, <2>2 DEF Departure
    <2>4. n - 1 \in DOMAIN packets' /\ packets'[n - 1] = packets[n]
      BY <1>2, <2>3
    <2> QED
      BY <2>1, <2>2, <2>4
  <1>9. DepartureFirst'
    <2> SUFFICES ASSUME NEW k \in DOMAIN packets',
                        slot'[packets'[k].index],
                        packets'[k].addr # owner'[packets'[k].index]
                 PROVE  \E n \in 1 .. k-1 :
                            packets'[n] = Departure(owner'[packets'[k].index], packets'[k].index)
      BY DEF DepartureFirst
    <2> DEFINE j == packets'[k].index
    <2>1. k + 1 \in DOMAIN packets /\ packets'[k] = packets[k + 1] /\ j \in Players
      BY <1>3, <1>4
    <2>2. j # i
      BY <1>1, <1>5, <1>a, <2>1 DEF TypeOK
    <2>3. slot[j] /\ owner'[j] = owner[j]
      BY <1>1, <2>1, <2>2 DEF TypeOK
    <2>4. PICK n \in 1 .. (k + 1) - 1 : packets[n] = Departure(owner[j], j)
      BY <2>1, <2>3 DEF QueueInv, DepartureFirst
    <2>5. n # 1
      BY <1>6, <2>4 DEF Departure
    <2>6. n - 1 \in 1 .. k - 1 /\ packets'[n - 1] = packets[n]
      BY <1>2, <2>1, <2>4, <2>5
    <2> QED
      BY <2>3, <2>4, <2>6
  <1>10. LiveLast'
    <2> SUFFICES ASSUME NEW k \in DOMAIN packets', NEW m \in DOMAIN packets',
                        packets'[k].addr = playerId'[packets'[k].index],
                        packets'[m].index = packets'[k].index,
                        packets'[m].addr # packets'[k].addr
                 PROVE  m < k
      BY DEF LiveLast
    <2>1. m + 1 < k + 1
      BY <1>1, <1>3 DEF QueueInv, LiveLast
    <2> QED
      BY <1>2, <2>1
  <1>11. JoinsOnce'
    <2>1. ASSUME NEW j \in Players, slot'[j], owner'[j] = playerId'[j] PROVE joined'[j]
      <3>1. CASE j = i
        BY <1>1, <1>6, <3>1 DEF QueueInv, JoinsOnce
      <3>2. CASE j # i
        BY <1>1, <2>1, <3>2 DEF QueueInv, JoinsOnce, TypeOK
      <3> QED
        BY <3>1, <3>2
    <2>2. ASSUME NEW k \in DOMAIN packets', packets'[k].kind = "join"
          PROVE  /\ packets'[k].addr = playerId'[packets'[k].index] => joined'[packets'[k].index]
                 /\ ~(slot'[packets'[k].index] /\ packets'[k].addr = owner'[packets'[k].index])
      <3>1. packets[k + 1].kind = "join" /\ k + 1 \in DOMAIN packets
        BY <1>3, <2>2
      <3>2. packets[k + 1].addr = playerId[packets[k + 1].index] => joined[packets[k + 1].index]
        BY <3>1 DEF QueueInv, JoinsOnce
      <3>3. ~(slot[packets[k + 1].index] /\ packets[k + 1].addr = owner[packets[k + 1].index])
        BY <3>1 DEF QueueInv, JoinsOnce
      <3>4. ~(packets'[k].index = i /\ packets'[k].addr = a)
        BY <1>j, <2>2
      <3> QED
        BY <1>1, <1>3, <1>4, <3>1, <3>2, <3>3, <3>4 DEF TypeOK
    <2>3. ASSUME NEW k \in DOMAIN packets', NEW m \in DOMAIN packets',
                 packets'[k].kind = "join", packets'[m].kind = "join",
                 packets'[k].addr = packets'[m].addr,
                 packets'[k].index = packets'[m].index
          PROVE  k = m
      <3>1. k + 1 = m + 1
        BY <1>3, <2>3 DEF QueueInv, JoinsOnce
      <3> QED
        BY <1>2, <3>1
    <2> QED
      BY <2>1, <2>2, <2>3 DEF JoinsOnce
  <1> QED
    BY <1>7, <1>8, <1>9, <1>10, <1>11 DEF QueueInv

\* Every step of the system keeps the order of the queue.
LEMMA NetworkKeepsQueue == TypeOK /\ QueueInv /\ Network => QueueInv'
  <1> SUFFICES ASSUME TypeOK, QueueInv, Network PROVE QueueInv'
    OBVIOUS
  <1>1. ASSUME NEW i \in Players, NEW a \in Addrs, Connect(i, a) PROVE QueueInv'
    BY <1>1, QueueConnected
  <1>2. ASSUME NEW i \in Players, SendJoin(i) PROVE QueueInv'
    BY <1>2, QueueExtended DEF SendJoin, Kinds, poolVars
  <1>3. ASSUME NEW i \in Players, NEW c \in Commands, SendCommand(i, c) PROVE QueueInv'
    BY <1>3, QueueExtended DEF SendCommand, Kinds, Commands, poolVars, netVars
  <1>4. ASSUME NEW i \in Players, ClientQuit(i) PROVE QueueInv'
    BY <1>4, QueueKept DEF ClientQuit, PoolShrinks, poolVars
  <1>5. ASSUME NEW i \in Players, Lose(i) PROVE QueueInv'
    BY <1>5, QueueClosed DEF Lose
  <1>6. ASSUME NEW i \in Players, Close(i) PROVE QueueInv'
    BY <1>6, QueueClosed DEF Close
  <1> QED
    BY <1>1, <1>2, <1>3, <1>4, <1>5, <1>6 DEF Network

LEMMA HandlePacketKeepsQueue == TypeOK /\ QueueInv /\ HandlePacket => QueueInv'
  <1> SUFFICES ASSUME TypeOK, QueueInv, HandlePacket PROVE QueueInv'
    OBVIOUS
  <1> USE DEF Receive, Receiving, netVars, poolVars
  <1>1. ASSUME JoinIgnored PROVE QueueInv'
    BY <1>1, QueueDrained DEF JoinIgnored, PoolShrinks
  <1>2. ASSUME JoinRejected PROVE QueueInv'
    BY <1>2, QueueDrained DEF JoinRejected, PoolShrinks
  <1>3. ASSUME JoinAccepted PROVE QueueInv'
    BY <1>3, QueueJoined
  <1>4. ASSUME NEW byGameMode \in BOOLEAN, JoinKicked(byGameMode) PROVE QueueInv'
    <2>1. packets # <<>> /\ packets' = Tail(packets) /\ Head(packets).kind = "join"
      BY <1>4 DEF JoinKicked
    <2>2. PoolShrinks
      BY <1>4 DEF JoinKicked, PoolShrinks, TypeOK
    <2> QED
      BY <1>4, <2>1, <2>2, QueueDrained DEF JoinKicked
  <1>5. ASSUME JoinKickedCrashes \/ HandleGoneCrashes PROVE QueueInv'
    BY <1>5, QueueKept DEF JoinKickedCrashes, HandleGoneCrashes, Crash, PoolShrinks
  <1>6. ASSUME RconLogin PROVE QueueInv'
    BY <1>6, QueueDrained DEF RconLogin, PoolShrinks
  <1>7. ASSUME RconFinish PROVE QueueInv'
    BY <1>7, QueueDrained DEF RconFinish, PoolShrinks
  <1>8. ASSUME RconIgnored PROVE QueueInv'
    BY <1>8, QueueDrained DEF RconIgnored, PoolShrinks, Commands
  <1>9. ASSUME HandleGone PROVE QueueInv'
    <2> DEFINE i == Head(packets).index
    <2>1. packets # <<>> /\ packets' = Tail(packets) /\ UNCHANGED <<playerId, joined>>
      BY <1>9 DEF HandleGone
    <2>2. i \in Players
      BY <2>1, TailPacket, PacketFields DEF TypeOK
    <2>3. PoolShrinks /\ ~slot'[i]
      <3>1. CASE slot[i]
        <4>1. PICK again \in Again({i}) : DeleteAll({i}, again)
          BY <1>9, <3>1 DEF HandleGone, Delete
        <4> QED
          BY <2>2, <4>1, DeleteAllShrinks
      <3>2. CASE ~slot[i]
        BY <1>9, <3>2 DEF HandleGone, PoolShrinks
      <3> QED
        BY <3>1, <3>2
    <2> QED
      BY <2>1, <2>3, QueueDrained
  <1> QED
    BY <1>1, <1>2, <1>3, <1>4, <1>5, <1>6, <1>7, <1>8, <1>9 DEF HandlePacket

LEMMA MainLoopKeepsQueue ==
    ASSUME TypeOK, QueueInv,
           \/ EndNetwork
           \/ Tick
           \/ \E i \in Players : KickPlayer(i)
           \/ \E i \in Players : KickPlayerCrashes(i)
           \/ FinishGameMode
           \/ EndShutdown
    PROVE  QueueInv'
  <1> USE DEF netVars, poolVars
  <1>1. ASSUME EndNetwork \/ WorldTick \/ RestartTick \/ FinishGameMode PROVE QueueInv'
    BY <1>1, QueueKept DEF EndNetwork, WorldTick, RestartTick, FinishGameMode, PoolShrinks
  <1>2. ASSUME NEW byScript \in SUBSET InUse, NEW byMode \in SUBSET (InUse \ byScript),
               ReInit(byScript, byMode)
        PROVE  QueueInv'
    <2>1. PICK again \in Again(byScript \cup byMode) : DeleteAll(byScript \cup byMode, again)
      BY <1>2 DEF ReInit
    <2>2. PoolShrinks
      BY <2>1, DeleteAllShrinks DEF InUse
    <2> QED
      BY <1>2, <2>2, QueueKept DEF ReInit
  <1>3. ASSUME NEW i \in Players, KickPlayer(i) PROVE QueueInv'
    <2>1. PICK again \in Again({i}) : DeleteAll({i}, again)
      BY <1>3 DEF KickPlayer, Delete
    <2>2. PoolShrinks
      BY <2>1, DeleteAllShrinks
    <2> QED
      BY <1>3, <2>2, QueueKept DEF KickPlayer
  <1>4. ASSUME NEW i \in Players, KickPlayerCrashes(i) PROVE QueueInv'
    BY <1>4, QueueKept DEF KickPlayerCrashes, Crash, PoolShrinks
  <1>5. ASSUME ShutdownForGameModeRestart \/ EndLoop PROVE QueueInv'
    BY <1>5, QueueKept DEF ShutdownForGameModeRestart, EndLoop, PoolShrinks
  <1>6. ASSUME ShutdownCrashes PROVE QueueInv'
    BY <1>6, QueueKept DEF ShutdownCrashes, Crash, PoolShrinks
  <1> QED
    BY <1>1, <1>2, <1>3, <1>4, <1>5, <1>6 DEF Tick, EndShutdown

\* The strengthening is an invariant: for any number of connections and any
\* queue, what is still queued says who had each index and who has it now.
THEOREM QueueAlways == Spec => []QueueInv
  <1>1. Init => QueueInv
    BY DEF Init, QueueInv, PlayersOwned, DepartureQueued, DepartureFirst, LiveLast, JoinsOnce
  <1>2. TypeOK /\ QueueInv /\ [Next]_vars => QueueInv'
    <2> SUFFICES ASSUME TypeOK, QueueInv, [Next]_vars PROVE QueueInv'
      OBVIOUS
    <2>1. CASE Next
      BY <2>1, NetworkKeepsQueue, HandlePacketKeepsQueue, MainLoopKeepsQueue DEF Next
    <2>2. CASE UNCHANGED vars
      BY <2>2, QueueKept DEF vars, netVars, poolVars, PoolShrinks
    <2> QED
      BY <2>1, <2>2
  <1> QED
    BY <1>1, <1>2, TypesAlways, PTL DEF Spec

\* CPlayerPool::New never finds its slot occupied: an accepted ClientJoin comes
\* after the notification that deleted whoever had the index before.
THEOREM JoinAlwaysFindsFreeSlot == Spec => []JoinFindsFreeSlot
  BY QueueAlways, TypesAlways, FreeSlot, PTL

-----------------------------------------------------------------------------
(* Who is in the pool, and who is an admin. *)

\* The step makes nobody an admin, and whoever stays one stays in his slot.
AdminsShrink ==
    \A i \in Players :
        admin'[i] => admin[i] /\ loginBy'[i] = loginBy[i]
                        /\ (slot[i] => slot'[i]) /\ owner'[i] = owner[i]

\* Deleting players makes nobody an admin.
LEMMA DeleteAllAdmins ==
    ASSUME TypeOK, NEW K \in SUBSET Players, NEW again, DeleteAll(K, again)
    PROVE  AdminsShrink
  BY DEF DeleteAll, AdminsShrink, TypeOK

\* Only an accepted ClientJoin fills a slot, and only a login makes an admin.
LEMMA PoolSteps ==
    ASSUME TypeOK, Next
    PROVE  /\ PoolShrinks \/ JoinAccepted
           /\ AdminsShrink \/ RconLogin
  <1> USE DEF poolVars
  <1>1. CASE UNCHANGED poolVars
    BY <1>1 DEF PoolShrinks, AdminsShrink
  <1>2. ASSUME NEW K \in SUBSET Players, NEW again, DeleteAll(K, again)
        PROVE  PoolShrinks /\ AdminsShrink
    BY <1>2, DeleteAllShrinks, DeleteAllAdmins
  <1>3. CASE Network
    BY <1>1, <1>3 DEF Network, Connect, SendJoin, SendCommand, ClientQuit, Lose, Close,
                      EndConnection
  <1>4. CASE HandlePacket
    <2>h. packets # <<>> => Head(packets).index \in Players
      BY TailPacket, PacketFields DEF TypeOK
    <2>1. ASSUME JoinAccepted PROVE AdminsShrink
      BY <2>1, <2>h DEF JoinAccepted, Receive, Receiving, AdminsShrink, TypeOK
    <2>2. ASSUME NEW byGameMode \in BOOLEAN, JoinKicked(byGameMode)
          PROVE  PoolShrinks /\ AdminsShrink
      BY <2>2, <2>h DEF JoinKicked, Receive, Receiving, PoolShrinks, AdminsShrink, TypeOK
    <2>3. ASSUME RconLogin PROVE PoolShrinks
      BY <2>3 DEF RconLogin, PoolShrinks
    <2>4. ASSUME HandleGone PROVE PoolShrinks /\ AdminsShrink
      <3> DEFINE i == Head(packets).index
      <3>1. i \in Players
        BY <2>4, <2>h DEF HandleGone, Receive, Receiving
      <3>2. CASE slot[i]
        <4>1. PICK again \in Again({i}) : DeleteAll({i}, again)
          BY <2>4, <3>2 DEF HandleGone, Delete
        <4> QED
          BY <1>2, <3>1, <4>1
      <3>3. CASE ~slot[i]
        BY <1>1, <2>4, <3>3 DEF HandleGone, PoolShrinks, AdminsShrink
      <3> QED
        BY <3>2, <3>3
    <2>5. ASSUME \/ JoinIgnored \/ JoinRejected \/ JoinKickedCrashes
                 \/ RconFinish \/ RconIgnored \/ HandleGoneCrashes
          PROVE  UNCHANGED poolVars
      BY <2>5 DEF JoinIgnored, JoinRejected, JoinKickedCrashes, RconFinish, RconIgnored,
                  HandleGoneCrashes, Crash
    <2> QED
      BY <1>1, <1>4, <2>1, <2>2, <2>3, <2>4, <2>5 DEF HandlePacket
  <1>5. CASE Tick
    <2>1. ASSUME NEW byScript \in SUBSET InUse, NEW byMode \in SUBSET (InUse \ byScript),
                 ReInit(byScript, byMode)
          PROVE  PoolShrinks /\ AdminsShrink
      <3>1. PICK again \in Again(byScript \cup byMode) : DeleteAll(byScript \cup byMode, again)
        BY <2>1 DEF ReInit
      <3> QED
        BY <1>2, <3>1 DEF InUse
    <2> QED
      BY <1>1, <1>5, <2>1 DEF Tick, WorldTick, RestartTick
  <1>6. CASE \E i \in Players : KickPlayer(i)
    <2>1. PICK i \in Players : KickPlayer(i)
      BY <1>6
    <2>2. PICK again \in Again({i}) : DeleteAll({i}, again)
      BY <2>1 DEF KickPlayer, Delete
    <2> QED
      BY <1>2, <2>2
  <1>7. CASE \/ EndNetwork \/ FinishGameMode \/ EndShutdown
             \/ \E i \in Players : KickPlayerCrashes(i)
    BY <1>1, <1>7 DEF EndNetwork, FinishGameMode, EndShutdown, ShutdownForGameModeRestart,
                      ShutdownCrashes, EndLoop, KickPlayerCrashes, Crash
  <1> QED
    BY <1>3, <1>4, <1>5, <1>6, <1>7 DEF Next

\* A slot passes from one player to another only through Delete, however fast
\* RakNet gives his connection index to the next connection.
THEOREM OccupantIsNeverReplaced == Spec => OccupantNeverReplaced
  <1>1. TypeOK /\ QueueInv /\ [Next]_vars
            => [\A i \in Players : slot[i] /\ slot'[i] => owner'[i] = owner[i]]_vars
    <2> SUFFICES ASSUME TypeOK, QueueInv, Next, NEW i \in Players, slot[i], slot'[i]
                 PROVE  owner'[i] = owner[i]
      OBVIOUS
    <2>1. CASE PoolShrinks
      BY <2>1 DEF PoolShrinks
    <2>2. CASE JoinAccepted
      <3>1. ~slot[Head(packets).index] /\ Head(packets).index \in Players
        BY <2>2, FreeSlot, TailPacket, PacketFields
           DEF JoinAccepted, Receive, Receiving, JoinFindsFreeSlot, TypeOK
      <3> QED
        BY <2>2, <3>1 DEF JoinAccepted, TypeOK
    <2> QED
      BY <2>1, <2>2, PoolSteps
  <1> QED
    BY <1>1, QueueAlways, TypesAlways, PTL DEF Spec, OccupantNeverReplaced

\* A login only ever makes its own sender an admin: a packet still queued for
\* the index of a player who is gone, or who is not there yet, does not.
LEMMA LoginOfOccupant ==
    ASSUME TypeOK, QueueInv, RconLogin
    PROVE  Head(packets).addr = owner[Head(packets).index]
  <1>1. packets # <<>> /\ slot[Head(packets).index]
    BY DEF RconLogin, Receive, Receiving
  <1>2. 1 \in DOMAIN packets /\ Head(packets) = packets[1]
    BY <1>1, TailPacket DEF TypeOK
  <1> SUFFICES ASSUME packets[1].addr # owner[packets[1].index] PROVE FALSE
    BY <1>2
  <1>3. \E n \in 1 .. 0 : packets[n] = Departure(owner[packets[1].index], packets[1].index)
    BY <1>1, <1>2 DEF QueueInv, DepartureFirst
  <1> QED
    BY <1>3

\* Whoever is an admin is in the pool and sent the login himself: admin rights
\* never pass to the next user of a connection index.
THEOREM AdminAlwaysBelongs == Spec => []AdminBelongsToOccupant
  <1>1. Init => AdminBelongsToOccupant
    BY DEF Init, AdminBelongsToOccupant
  <1>2. TypeOK /\ QueueInv /\ AdminBelongsToOccupant /\ [Next]_vars => AdminBelongsToOccupant'
    <2> SUFFICES ASSUME TypeOK, QueueInv, AdminBelongsToOccupant, [Next]_vars
                 PROVE  AdminBelongsToOccupant'
      OBVIOUS
    <2>1. CASE UNCHANGED vars
      BY <2>1 DEF vars, poolVars, AdminBelongsToOccupant
    <2>2. CASE AdminsShrink
      BY <2>2 DEF AdminsShrink, AdminBelongsToOccupant
    <2>3. CASE RconLogin
      <3> DEFINE i == Head(packets).index
      <3>1. /\ i \in Players
            /\ slot[i]
            /\ Head(packets).addr = owner[i]
            /\ admin' = [admin EXCEPT ![i] = TRUE]
            /\ loginBy' = [loginBy EXCEPT ![i] = Head(packets).addr]
            /\ UNCHANGED <<slot, owner>>
        BY <2>3, LoginOfOccupant, TailPacket, PacketFields
           DEF RconLogin, Receive, Receiving, TypeOK
      <3> HIDE DEF i
      <3> QED
        BY <3>1 DEF AdminBelongsToOccupant, TypeOK
    <2> QED
      BY <2>1, <2>2, <2>3, PoolSteps
  <1> QED
    BY <1>1, <1>2, QueueAlways, TypesAlways, PTL DEF Spec
=============================================================================
