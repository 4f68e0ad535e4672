------------------------ MODULE PlayerRosterProofs ------------------------
(***************************************************************************)
(* More proofs about PlayerSession: the counter, everybody's player list,  *)
(* what a player has been sent, and when the process may die.  They rest   *)
(* on the types and the queue invariant of PlayerSessionProofs.            *)
(***************************************************************************)
EXTENDS PlayerSessionProofs

(* What a step does to the pool. *)

\* It leaves the slots, the connections and the player lists alone.
Quiet ==
    /\ UNCHANGED <<slot, owner, playerId, playerCount, announced>>
    /\ closing' = closing \/ \E i \in Players : closing' = [closing EXCEPT ![i] = TRUE]
    /\ \A i \in Players : closing[i] => closing'[i]
    /\ \/ ~up'
       \/ gameState' = "restarting"
       \/ UNCHANGED <<up, gameState, gmKnows, told>>

\* The connections that now have the indices of cut are to be closed: RakNet is
\* told so for all who are kicked, and for nobody when the player has gone.
Cut(K, cut) ==
    /\ closing' = Kicked(cut)
    /\ cut = K \/ (Receiving("gone") /\ K = {Head(packets).index})

\* It deletes the players of K.
Removed(K, again) ==
    /\ DeleteAll(K, again)
    /\ playerId' = playerId
    /\ \E cut \in SUBSET K : Cut(K, cut)
    /\ \A i \in Players : closing[i] => closing'[i]
    /\ \/ /\ UNCHANGED <<up, gameState, told>>
          /\ \A i \in Players : i \notin K => gmKnows'[i] = gmKnows[i]
       \/ \A i \in Players : slot'[i] => gmKnows'[i] /\ (playerId[i] # NoAddr => told'[i])

\* It ends a connection.
Ended(i) == playerId[i] # NoAddr /\ EndConnection(i)

LEMMA Effects ==
    ASSUME TypeOK, [Next]_vars
    PROVE  \/ Quiet
           \/ \E i \in Players, a \in Addrs : Connect(i, a)
           \/ \E i \in Players : Ended(i)
           \/ JoinAccepted
           \/ \E byGameMode \in BOOLEAN : JoinKicked(byGameMode)
           \/ \E K \in SUBSET InUse : \E again \in Again(K) : Removed(K, again)
  <1> USE DEF netVars, poolVars, viewVars, modeVars
  <1>d. ASSUME NEW i \in Players, slot[i], NEW again \in Again({i}), Delete(i, again),
               \/ closing' = Kicked(again) /\ Receiving("gone") /\ i = Head(packets).index
               \/ closing' = Kicked({i}),
               UNCHANGED <<up, gameState, playerId>>
        PROVE  \E K \in SUBSET InUse : \E ag \in Again(K) : Removed(K, ag)
    <2>1. {i} \in SUBSET InUse
      BY <1>d DEF InUse
    <2>2. \A j \in Players : closing[j] => closing'[j]
      BY <1>d DEF Kicked
    <2>3. \A j \in Players : j \notin {i} => gmKnows'[j] = gmKnows[j]
      BY <1>d DEF Delete, TypeOK
    <2>5. \E cut \in SUBSET {i} : Cut({i}, cut)
      <3>1. again \in SUBSET {i}
        BY DEF Again
      <3> QED
        BY <1>d, <3>1 DEF Cut
    <2>4. Removed({i}, again)
      BY <1>d, <2>2, <2>3, <2>5 DEF Delete, Removed
    <2> QED
      BY <2>1, <2>4
  <1>1. CASE Network
    <2>1. ASSUME NEW i \in Players, SendJoin(i) PROVE Quiet
      BY <2>1 DEF SendJoin, Quiet
    <2>2. ASSUME NEW i \in Players, NEW c \in Commands, SendCommand(i, c) PROVE Quiet
      BY <2>2 DEF SendCommand, Quiet
    <2>3. ASSUME NEW i \in Players, ClientQuit(i) PROVE Quiet
      BY <2>3 DEF ClientQuit, Quiet, TypeOK
    <2>4. ASSUME NEW i \in Players, Lose(i) \/ Close(i) PROVE Ended(i)
      BY <2>4 DEF Lose, Close, Ended
    <2> QED
      BY <1>1, <2>1, <2>2, <2>3, <2>4 DEF Network
  <1>2. CASE HandlePacket
    <2>1. CASE JoinRejected
      <3>1. Head(packets).index \in Players
        BY <2>1, TailPacket, PacketFields DEF JoinRejected, Receive, Receiving, TypeOK
      <3> QED
        BY <2>1, <3>1 DEF JoinRejected, Quiet, TypeOK
    <2>2. CASE \/ JoinIgnored \/ JoinKickedCrashes \/ RconLogin \/ RconFinish \/ RconIgnored
               \/ HandleGoneCrashes
      BY <2>2 DEF JoinIgnored, JoinKickedCrashes, RconLogin, RconFinish, RconIgnored,
                  HandleGoneCrashes, Crash, Quiet
    <2>3. CASE HandleGone
      <3>1. CASE slot[Head(packets).index]
        <4>1. Head(packets).index \in Players
          BY <2>3, TailPacket, PacketFields DEF HandleGone, Receive, Receiving, TypeOK
        <4>2. PICK again \in Again({Head(packets).index}) :
                    Delete(Head(packets).index, again) /\ closing' = Kicked(again)
          BY <2>3, <3>1 DEF HandleGone
        <4>3. UNCHANGED <<up, gameState, playerId>> /\ Receiving("gone")
          BY <2>3 DEF HandleGone, Receive
        <4> QED
          BY <3>1, <4>1, <4>2, <4>3, <1>d
      <3>2. CASE ~slot[Head(packets).index]
        BY <2>3, <3>2 DEF HandleGone, Quiet
      <3> QED
        BY <3>1, <3>2
    <2> QED
      BY <1>2, <2>1, <2>2, <2>3 DEF HandlePacket
  <1>3. CASE Tick
    <2>1. ASSUME NEW byScript \in SUBSET InUse, NEW byMode \in SUBSET (InUse \ byScript),
                 ReInit(byScript, byMode)
          PROVE  \E K \in SUBSET InUse : \E again \in Again(K) : Removed(K, again)
      <3> DEFINE kicked == byScript \cup byMode
      <3>1. PICK again \in Again(kicked) : DeleteAll(kicked, again)
        BY <2>1 DEF ReInit
      <3>2. /\ playerId' = playerId
            /\ \A i \in Players : closing[i] => closing'[i]
            /\ gmKnows' = [i \in Players |-> slot[i] /\ i \notin byMode]
            /\ told' = [i \in Players |-> playerId[i] # NoAddr /\ (told[i] \/ slot[i])]
        BY <2>1 DEF ReInit, Kicked
      <3>3. \A i \in Players : slot'[i] => slot[i] /\ i \notin kicked
        BY <3>1 DEF DeleteAll
      <3>4. \A i \in Players : slot'[i] => gmKnows'[i] /\ (playerId[i] # NoAddr => told'[i])
        BY <3>2, <3>3
      <3>6. Cut(kicked, kicked)
        BY <2>1 DEF ReInit, Cut
      <3>5. Removed(kicked, again)
        BY <3>1, <3>2, <3>4, <3>6 DEF Removed
      <3> QED
        BY <3>5
    <2>2. CASE WorldTick \/ RestartTick
      BY <2>2 DEF WorldTick, RestartTick, Quiet
    <2> QED
      BY <1>3, <2>1, <2>2 DEF Tick
  <1>4. ASSUME NEW i \in Players, KickPlayer(i)
        PROVE  \E K \in SUBSET InUse : \E again \in Again(K) : Removed(K, again)
    <2>1. PICK again \in Again({i}) : Delete(i, again)
      BY <1>4 DEF KickPlayer
    <2>2. slot[i] /\ closing' = Kicked({i}) /\ UNCHANGED <<up, gameState, playerId>>
      BY <1>4 DEF KickPlayer
    <2> QED
      BY <2>1, <2>2, <1>d
  <1>5. CASE EndNetwork \/ FinishGameMode \/ EndShutdown \/ \E i \in Players : KickPlayerCrashes(i)
    BY <1>5 DEF EndNetwork, FinishGameMode, EndShutdown, ShutdownForGameModeRestart,
                ShutdownCrashes, EndLoop, KickPlayerCrashes, Crash, Quiet
  <1>6. CASE UNCHANGED vars
    BY <1>6 DEF vars, Quiet
  <1> QED
    BY <1>1, <1>2, <1>3, <1>4, <1>5, <1>6 DEF Next

\* A join that is accepted meets a free slot.
LEMMA JoinMeets ==
    ASSUME TypeOK, QueueInv, Receive("join"), Active(Head(packets))
    PROVE  /\ Head(packets).index \in Players
           /\ ~slot[Head(packets).index]
           /\ playerId[Head(packets).index] = Head(packets).addr
           /\ Head(packets).addr \in Addrs /\ Head(packets).addr # NoAddr
  <1>1. packets # <<>> /\ Head(packets).kind = "join"
    BY DEF Receive, Receiving
  <1>2. Head(packets) \in Packet
    BY <1>1, TailPacket DEF TypeOK
  <1>3. ~slot[Head(packets).index]
    BY <1>1, FreeSlot DEF JoinFindsFreeSlot
  <1> QED
    BY <1>2, <1>3, PacketFields DEF Active

\* A connection that is new at its index is not that of the player there.
LEMMA ConnectMeets ==
    ASSUME TypeOK, QueueInv, NEW i \in Players, NEW a \in Addrs, Connect(i, a), slot[i]
    PROVE  owner[i] # a
  <1>1. playerId[i] = NoAddr /\ Fresh(a) /\ a # NoAddr
    BY SessionAssumption DEF Connect
  <1>2. ASSUME owner[i] = a PROVE FALSE
    <2>1. \E n \in DOMAIN packets : packets[n] = Departure(a, i)
      BY <1>1, <1>2 DEF QueueInv, DepartureQueued
    <2> QED
      BY <1>1, <2>1 DEF Fresh, Departure
  <1> QED
    BY <1>2

-----------------------------------------------------------------------------
(* The counter. *)

\* Both sides of the count are integers, before and after a step.
LEMMA CountTyped ==
    ASSUME TypeOK, TypeOK'
    PROVE  /\ playerCount \in Int /\ Cardinality(InUse) \in Int
           /\ playerCount' \in Int /\ Cardinality(InUse') \in Int
  <1>1. InUse \in SUBSET Players /\ InUse' \in SUBSET Players
    BY DEF InUse
  <1>2. Cardinality(InUse) \in Nat /\ Cardinality(InUse') \in Nat
    BY <1>1, FS_Subset, FS_CardinalityType, SessionAssumption
  <1> QED
    BY <1>2 DEF TypeOK

\* No step makes the counter too high, and only a repeated Delete makes it too low.
LEMMA CountStep ==
    ASSUME TypeOK, QueueInv, [Next]_vars
    PROVE  \E d \in Nat :
               /\ playerCount' - Cardinality(InUse') = playerCount - Cardinality(InUse) - d
               /\ ~KickLeavers => d = 0
  <1> DEFINE Off(d) == /\ d \in Nat
                       /\ playerCount' - Cardinality(InUse') = playerCount - Cardinality(InUse) - d
                       /\ ~KickLeavers => d = 0
  <1>f. IsFiniteSet(InUse) /\ Cardinality(InUse) \in Nat /\ playerCount \in Int
    BY FS_Subset, FS_CardinalityType, SessionAssumption DEF InUse, TypeOK
  <1>a. ASSUME NEW K \in SUBSET Players, NEW again \in Again(K)
        PROVE  Cardinality(again) \in Nat /\ (~KickLeavers => Cardinality(again) = 0)
    BY AgainFinite, FS_EmptySet DEF Again
  <1>1. CASE slot' = slot /\ playerCount' = playerCount
    <2>1. InUse' = InUse
      BY <1>1 DEF InUse
    <2>2. Off(0)
      BY <1>1, <1>f, <2>1
    <2> QED
      BY <2>2
  <1>2. CASE JoinAccepted
    <2> DEFINE i == Head(packets).index
    <2>1. /\ i \in Players /\ ~slot[i]
          /\ slot' = [slot EXCEPT ![i] = TRUE]
          /\ playerCount' = playerCount + 1
      BY <1>2, JoinMeets DEF JoinAccepted
    <2> HIDE DEF i
    <2>2. InUse' = InUse \cup {i} /\ i \notin InUse
      BY <2>1 DEF InUse, TypeOK
    <2>3. Cardinality(InUse') = Cardinality(InUse) + 1
      BY <1>f, <2>2, FS_AddElement
    <2>4. Off(0)
      BY <1>f, <2>1, <2>3
    <2> QED
      BY <2>4
  <1>3. ASSUME NEW byGameMode \in BOOLEAN, JoinKicked(byGameMode) PROVE \E d : Off(d)
    <2> DEFINE i == Head(packets).index
    <2>1. /\ i \in Players /\ ~slot[i]
          /\ slot' = [slot EXCEPT ![i] = FALSE]
      BY <1>3, JoinMeets DEF JoinKicked
    <2>2. PICK again \in Again({i}) : playerCount' = playerCount - Cardinality(again)
      BY <1>3 DEF JoinKicked
    <2> HIDE DEF i
    <2>3. InUse' = InUse
      BY <2>1 DEF InUse, TypeOK
    <2>4. Cardinality(again) \in Nat /\ (~KickLeavers => Cardinality(again) = 0)
      BY <1>a, <2>1
    <2>5. Off(Cardinality(again))
      BY <1>f, <2>2, <2>3, <2>4
    <2> QED
      BY <2>5
  <1>4. ASSUME NEW K \in SUBSET InUse, NEW again \in Again(K), Removed(K, again)
        PROVE  \E d : Off(d)
    <2>1. /\ slot' = [i \in Players |-> slot[i] /\ i \notin K]
          /\ playerCount' = playerCount - Cardinality(K) - Cardinality(again)
      BY <1>4 DEF Removed, DeleteAll
    <2>2. InUse' = InUse \ K /\ InUse \cap K = K /\ K \in SUBSET Players
      BY <2>1 DEF InUse
    <2>3. Cardinality(InUse \ K) = Cardinality(InUse) - Cardinality(InUse \cap K)
      BY <1>f, FS_Difference
    <2>4. Cardinality(K) \in Nat
      BY <2>2, AgainFinite
    <2>5. Cardinality(again) \in Nat /\ (~KickLeavers => Cardinality(again) = 0)
      BY <1>a, <2>2
    <2>6. Cardinality(InUse') = Cardinality(InUse) - Cardinality(K)
      BY <2>2, <2>3
    <2>7. Off(Cardinality(again))
      BY <1>f, <2>1, <2>4, <2>5, <2>6
    <2> QED
      BY <2>7
  <1>5. ASSUME NEW i \in Players, NEW a \in Addrs, Connect(i, a) PROVE \E d : Off(d)
    BY <1>1, <1>5 DEF Connect, poolVars
  <1>6. ASSUME NEW i \in Players, Ended(i) PROVE \E d : Off(d)
    BY <1>1, <1>6 DEF Ended, EndConnection, poolVars
  <1>7. CASE Quiet
    BY <1>1, <1>7 DEF Quiet
  <1>8. \E d : Off(d)
    BY <1>1, <1>2, <1>3, <1>4, <1>5, <1>6, <1>7, Effects
  <1> QED
    BY <1>8

\* m_iPlayerCount is the number of slots in use, as long as scripts do not kick
\* a player from his own OnPlayerDisconnect.
THEOREM CountAlwaysMatches == ASSUME ~KickLeavers PROVE Spec => []CountMatchesSlots
  <1>1. Init => CountMatchesSlots
    BY FS_EmptySet DEF Init, CountMatchesSlots, InUse
  <1>2. TypeOK /\ QueueInv /\ CountMatchesSlots /\ [Next]_vars /\ TypeOK' => CountMatchesSlots'
    <2> SUFFICES ASSUME TypeOK, QueueInv, CountMatchesSlots, [Next]_vars, TypeOK'
                 PROVE  CountMatchesSlots'
      OBVIOUS
    <2>1. playerCount' - Cardinality(InUse') = playerCount - Cardinality(InUse) - 0
      BY CountStep
    <2> QED
      BY <2>1, CountTyped DEF CountMatchesSlots
  <1> QED
    BY <1>1, <1>2, QueueAlways, TypesAlways, PTL DEF Spec

\* Whatever scripts do, m_iPlayerCount is never above the number of slots in use:
\* the double Delete of a leaver who is kicked makes the server look emptier,
\* never fuller, and nothing makes up for it.
THEOREM CountNeverTooHigh == Spec => [](playerCount <= Cardinality(InUse))
  <1> DEFINE Low == playerCount <= Cardinality(InUse)
  <1>1. Init => Low
    <2> SUFFICES ASSUME Init PROVE Low
      OBVIOUS
    <2>1. playerCount = 0 /\ InUse = {}
      BY DEF Init, InUse
    <2>2. Cardinality({}) = 0
      BY FS_EmptySet
    <2> QED
      BY <2>1, <2>2
  <1>2. TypeOK /\ QueueInv /\ Low /\ [Next]_vars /\ TypeOK' => Low'
    <2> SUFFICES ASSUME TypeOK, QueueInv, Low, [Next]_vars, TypeOK' PROVE Low'
      OBVIOUS
    <2>1. PICK d \in Nat :
              playerCount' - Cardinality(InUse') = playerCount - Cardinality(InUse) - d
      BY CountStep
    <2> QED
      BY <2>1, CountTyped
  <1> HIDE DEF Low
  <1>3. Spec => []Low
    BY <1>1, <1>2, QueueAlways, TypesAlways, PTL DEF Spec
  <1> QED
    BY <1>3 DEF Low

-----------------------------------------------------------------------------
(* Everybody's list of players. *)

\* Nobody was told of a player who is not there, and an index without a
\* connection was told nothing.
RosterInv ==
    /\ \A c \in Players : announced[c] \subseteq InUse \ {c}
    /\ \A c \in Players : playerId[c] = NoAddr => announced[c] = {}
    /\ RosterExact

LEMMA RosterJoined ==
    ASSUME TypeOK, QueueInv, RosterInv, JoinAccepted
    PROVE  RosterInv'
  <1> DEFINE i == Head(packets).index
  <1>1. i \in Players /\ ~slot[i] /\ playerId[i] # NoAddr
    BY JoinMeets DEF JoinAccepted
  <1>2. /\ slot' = [slot EXCEPT ![i] = TRUE]
        /\ owner' = [owner EXCEPT ![i] = Head(packets).addr]
        /\ announced' = InitPlayersForPlayer(AnnounceJoin(announced, i), i)
        /\ UNCHANGED <<playerId, closing>>
    BY DEF JoinAccepted, netVars
  <1> HIDE DEF i
  <1>3. /\ announced'[i] = announced[i] \cup (InUse \ {i})
        /\ \A c \in Players : c # i =>
              announced'[c] = IF playerId[c] # NoAddr THEN announced[c] \cup {i} ELSE announced[c]
    BY <1>1, <1>2 DEF InitPlayersForPlayer, AnnounceJoin
  <1>4. InUse' = InUse \cup {i}
    BY <1>1, <1>2 DEF InUse, TypeOK
  <1>5. \A c \in Players : c # i => slot'[c] = slot[c] /\ owner'[c] = owner[c]
    BY <1>1, <1>2 DEF TypeOK
  <1>6. \A c \in Players : announced'[c] \subseteq InUse' \ {c}
    BY <1>3, <1>4 DEF RosterInv
  <1>7. \A c \in Players : playerId'[c] = NoAddr => announced'[c] = {}
    BY <1>1, <1>2, <1>3 DEF RosterInv
  <1>8. RosterExact'
    <2> SUFFICES ASSUME NEW c \in Players, slot'[c], playerId[c] = owner'[c], ~closing[c]
                 PROVE  announced'[c] = InUse' \ {c}
      BY <1>2 DEF RosterExact, Present
    <2>1. CASE c = i
      BY <2>1, <1>3, <1>4 DEF RosterInv
    <2>2. CASE c # i
      <3>1. slot[c] /\ playerId[c] = owner[c]
        BY <2>2, <1>5
      <3>2. announced[c] = InUse \ {c}
        BY <3>1 DEF RosterInv, RosterExact, Present
      <3>3. playerId[c] # NoAddr
        BY <3>1, SessionAssumption DEF QueueInv, PlayersOwned
      <3> QED
        BY <2>2, <3>2, <3>3, <1>3, <1>4
    <2> QED
      BY <2>1, <2>2
  <1> QED
    BY <1>6, <1>7, <1>8 DEF RosterInv

LEMMA RosterJoinKicked ==
    ASSUME TypeOK, QueueInv, RosterInv, NEW byGameMode \in BOOLEAN, JoinKicked(byGameMode)
    PROVE  RosterInv'
  <1> DEFINE i == Head(packets).index
  <1>1. i \in Players /\ ~slot[i] /\ playerId[i] # NoAddr
    BY JoinMeets DEF JoinKicked
  <1>2. /\ slot' = [slot EXCEPT ![i] = FALSE]
        /\ owner' = [owner EXCEPT ![i] = NoAddr]
        /\ announced' = InitPlayersForPlayer(AnnounceQuit(AnnounceJoin(announced, i), {i}), i)
        /\ playerId' = playerId
        /\ closing' = [closing EXCEPT ![i] = TRUE]
    BY DEF JoinKicked
  <1> HIDE DEF i
  <1>3. slot' = slot /\ InUse' = InUse
    BY <1>1, <1>2 DEF InUse, TypeOK
  <1>4. \A c \in Players : announced[c] \subseteq InUse \ {c} /\ announced[c] \in SUBSET Players
    BY DEF RosterInv, TypeOK
  <1>5. i \notin InUse
    BY <1>1 DEF InUse
  <1>6. \A c \in Players : AnnounceQuit(AnnounceJoin(announced, i), {i})[c] = announced[c]
    BY <1>4, <1>5 DEF AnnounceQuit, AnnounceJoin
  <1>7. AnnounceQuit(AnnounceJoin(announced, i), {i}) = [c \in Players |->
            AnnounceQuit(AnnounceJoin(announced, i), {i})[c]]
    BY DEF AnnounceQuit
  <1>8. /\ announced'[i] = InUse \ {i}
        /\ \A c \in Players : c # i => announced'[c] = announced[c]
    BY <1>1, <1>2, <1>4, <1>6, <1>7 DEF InitPlayersForPlayer
  <1>9. \A c \in Players : c # i => owner'[c] = owner[c] /\ closing'[c] = closing[c]
    BY <1>1, <1>2 DEF TypeOK
  <1>10. RosterExact'
    <2> SUFFICES ASSUME NEW c \in Players, slot[c], playerId[c] = owner'[c], ~closing'[c]
                 PROVE  announced'[c] = InUse \ {c}
      BY <1>2, <1>3 DEF RosterExact, Present
    <2>1. c # i
      BY <1>1
    <2> QED
      BY <2>1, <1>8, <1>9 DEF RosterInv, RosterExact, Present
  <1> QED
    BY <1>1, <1>2, <1>3, <1>4, <1>8, <1>10 DEF RosterInv

LEMMA RosterRemoved ==
    ASSUME TypeOK, QueueInv, RosterInv, NEW K \in SUBSET InUse, NEW again \in Again(K),
           Removed(K, again)
    PROVE  RosterInv'
  <1>1. /\ slot' = [i \in Players |-> slot[i] /\ i \notin K]
        /\ owner' = [i \in Players |-> IF i \in K THEN NoAddr ELSE owner[i]]
        /\ announced' = [c \in Players |->
                IF playerId[c] # NoAddr THEN announced[c] \ K ELSE announced[c]]
        /\ playerId' = playerId
        /\ \A i \in Players : closing[i] => closing'[i]
    BY DEF Removed, DeleteAll, AnnounceQuit
  <1>2. InUse' = InUse \ K
    BY <1>1 DEF InUse
  <1>3. \A c \in Players : announced'[c] \subseteq InUse' \ {c}
    BY <1>1, <1>2 DEF RosterInv
  <1>4. \A c \in Players : playerId'[c] = NoAddr => announced'[c] = {}
    BY <1>1 DEF RosterInv
  <1>5. RosterExact'
    <2> SUFFICES ASSUME NEW c \in Players, slot'[c], playerId[c] = owner'[c], ~closing'[c]
                 PROVE  announced'[c] = InUse' \ {c}
      BY <1>1 DEF RosterExact, Present
    <2>1. slot[c] /\ c \notin K /\ playerId[c] = owner[c] /\ ~closing[c]
      BY <1>1
    <2>2. announced[c] = InUse \ {c}
      BY <2>1 DEF RosterInv, RosterExact, Present
    <2>3. playerId[c] # NoAddr
      BY <2>1, SessionAssumption DEF QueueInv, PlayersOwned
    <2> QED
      BY <2>2, <2>3, <1>1, <1>2
  <1> QED
    BY <1>3, <1>4, <1>5 DEF RosterInv

LEMMA RosterConnected ==
    ASSUME TypeOK, QueueInv, RosterInv, NEW i \in Players, NEW a \in Addrs, Connect(i, a)
    PROVE  RosterInv'
  <1>1. /\ playerId[i] = NoAddr
        /\ playerId' = [playerId EXCEPT ![i] = a] /\ a # NoAddr
        /\ UNCHANGED <<slot, owner, announced, closing>>
    BY SessionAssumption DEF Connect, poolVars, viewVars
  <1>2. playerId'[i] = a /\ \A c \in Players : c # i => playerId'[c] = playerId[c]
    BY <1>1 DEF TypeOK
  <1>3. InUse' = InUse
    BY <1>1 DEF InUse
  <1>4. RosterExact'
    <2> SUFFICES ASSUME NEW c \in Players, slot[c], playerId'[c] = owner[c], ~closing[c]
                 PROVE  announced[c] = InUse \ {c}
      BY <1>1, <1>3 DEF RosterExact, Present
    <2>1. c # i
      BY <1>2, ConnectMeets
    <2> QED
      BY <2>1, <1>2 DEF RosterInv, RosterExact, Present
  <1> QED
    BY <1>1, <1>2, <1>3, <1>4 DEF RosterInv

LEMMA RosterEnded ==
    ASSUME TypeOK, QueueInv, RosterInv, NEW i \in Players, Ended(i)
    PROVE  RosterInv'
  <1>1. /\ playerId' = [playerId EXCEPT ![i] = NoAddr]
        /\ closing' = [closing EXCEPT ![i] = FALSE]
        /\ announced' = [announced EXCEPT ![i] = {}]
        /\ UNCHANGED <<slot, owner>>
    BY DEF Ended, EndConnection, poolVars
  <1>2. /\ playerId'[i] = NoAddr /\ announced'[i] = {}
        /\ \A c \in Players : c # i => /\ playerId'[c] = playerId[c]
                                       /\ announced'[c] = announced[c]
                                       /\ closing'[c] = closing[c]
    BY <1>1 DEF TypeOK
  <1>3. InUse' = InUse
    BY <1>1 DEF InUse
  <1>4. RosterExact'
    <2> SUFFICES ASSUME NEW c \in Players, slot[c], playerId'[c] = owner[c], ~closing'[c]
                 PROVE  announced'[c] = InUse \ {c}
      BY <1>1, <1>3 DEF RosterExact, Present
    <2>1. c # i
      BY <1>2, SessionAssumption DEF QueueInv, PlayersOwned
    <2> QED
      BY <2>1, <1>2 DEF RosterInv, RosterExact, Present
  <1> QED
    BY <1>2, <1>3, <1>4 DEF RosterInv

LEMMA RosterStep == TypeOK /\ QueueInv /\ RosterInv /\ [Next]_vars => RosterInv'
  <1> SUFFICES ASSUME TypeOK, QueueInv, RosterInv, [Next]_vars PROVE RosterInv'
    OBVIOUS
  <1>1. CASE Quiet
    BY <1>1 DEF Quiet, RosterInv, RosterExact, Present, InUse
  <1> QED
    BY <1>1, Effects, RosterJoined, RosterJoinKicked, RosterRemoved, RosterConnected, RosterEnded

\* A connected player's list of the others is exact, at every point between
\* two callbacks, however joins, leaves, kicks and restarts come together.
THEOREM RosterAlwaysExact == Spec => []RosterExact
  <1>1. Init => RosterInv
    BY DEF Init, RosterInv, RosterExact, Present, InUse
  <1>2. RosterInv => RosterExact
    BY DEF RosterInv
  <1> QED
    BY <1>1, <1>2, RosterStep, QueueAlways, TypesAlways, PTL DEF Spec

-----------------------------------------------------------------------------
(* What a player has been sent, and when the process dies. *)

\* The pools and the game mode are there exactly while the game runs.
WorldInv == (world <=> gameState = "running") /\ (gameMode <=> gameState = "running")

LEMMA WorldStep == WorldInv /\ CrashOnlyWhileRestarting /\ TypeOK /\ [Next]_vars
                        => WorldInv' /\ CrashOnlyWhileRestarting'
  <1> SUFFICES ASSUME WorldInv, CrashOnlyWhileRestarting, TypeOK, [Next]_vars
               PROVE  WorldInv' /\ CrashOnlyWhileRestarting'
    OBVIOUS
  <1> USE DEF modeVars
  <1>1. CASE /\ UNCHANGED <<gameState, world, gameMode>>
             /\ up' = up \/ ~world \/ ~gameMode
    BY <1>1 DEF WorldInv, CrashOnlyWhileRestarting, TypeOK
  <1>2. CASE Network
    BY <1>1, <1>2 DEF Network, Connect, SendJoin, SendCommand, ClientQuit, Lose, Close,
                      EndConnection
  <1>3. CASE HandlePacket
    BY <1>1, <1>3 DEF HandlePacket, JoinIgnored, JoinRejected, JoinAccepted, JoinKicked,
                      JoinKickedCrashes, RconLogin, RconFinish, RconIgnored, HandleGone,
                      HandleGoneCrashes, Crash
  <1>4. CASE Tick
    <2>1. CASE WorldTick \/ RestartTick
      BY <1>1, <2>1 DEF WorldTick, RestartTick
    <2>2. ASSUME NEW byScript, NEW byMode, ReInit(byScript, byMode)
          PROVE  WorldInv' /\ CrashOnlyWhileRestarting'
      BY <2>2 DEF ReInit, WorldInv, CrashOnlyWhileRestarting
    <2> QED
      BY <1>4, <2>1, <2>2 DEF Tick
  <1>5. CASE ShutdownForGameModeRestart
    BY <1>5 DEF ShutdownForGameModeRestart, WorldInv, CrashOnlyWhileRestarting
  <1>6. CASE \/ EndNetwork \/ FinishGameMode \/ ShutdownCrashes \/ EndLoop
             \/ \E i \in Players : KickPlayer(i) \/ KickPlayerCrashes(i)
    BY <1>1, <1>6 DEF EndNetwork, FinishGameMode, ShutdownCrashes, EndLoop, KickPlayer,
                      KickPlayerCrashes, Crash
  <1>7. CASE UNCHANGED vars
    BY <1>1, <1>7 DEF vars
  <1> QED
    BY <1>2, <1>3, <1>4, <1>5, <1>6, <1>7 DEF Next, EndShutdown

LEMMA WorldAlways == Spec => [](WorldInv /\ CrashOnlyWhileRestarting)
  <1>1. Init => WorldInv /\ CrashOnlyWhileRestarting
    BY DEF Init, WorldInv, CrashOnlyWhileRestarting
  <1> QED
    BY <1>1, WorldStep, TypesAlways, PTL DEF Spec

\* No pool and no game mode is missing when it is used, but in the window of a
\* restart.
THEOREM CrashesOnlyWhileRestarting == Spec => []CrashOnlyWhileRestarting
  BY WorldAlways, PTL

\* Whoever is in the pool of a running game is known to the game mode that runs
\* and, if his connection is still there, has been sent its world; those who
\* joined while it was restarting as well.
THEOREM PlayersAlwaysInitialised == Spec => []EveryPlayerInitialised
  <1>1. Init => EveryPlayerInitialised
    BY DEF Init, EveryPlayerInitialised
  <1>2. TypeOK /\ QueueInv /\ WorldInv /\ EveryPlayerInitialised /\ [Next]_vars
            => EveryPlayerInitialised'
    <2> SUFFICES ASSUME TypeOK, QueueInv, WorldInv, EveryPlayerInitialised, [Next]_vars,
                        up', gameState' = "running", NEW i \in Players, slot'[i]
                 PROVE  gmKnows'[i] /\ (playerId'[i] = owner'[i] => told'[i])
      BY DEF EveryPlayerInitialised, Present
    <2>1. CASE Quiet
      BY <2>1 DEF Quiet, EveryPlayerInitialised, Present
    <2>2. ASSUME NEW j \in Players, NEW a \in Addrs, Connect(j, a)
          PROVE  gmKnows'[i] /\ (playerId'[i] = owner'[i] => told'[i])
      <3>1. /\ UNCHANGED <<slot, owner, gmKnows, told, up, gameState>>
            /\ playerId' = [playerId EXCEPT ![j] = a]
        BY <2>2 DEF Connect, poolVars, viewVars, modeVars
      <3>2. CASE i = j
        BY <2>2, <3>1, <3>2, ConnectMeets DEF EveryPlayerInitialised, TypeOK
      <3>3. CASE i # j
        BY <3>1, <3>3 DEF EveryPlayerInitialised, Present, TypeOK
      <3> QED
        BY <3>2, <3>3
    <2>3. ASSUME NEW j \in Players, Ended(j)
          PROVE  gmKnows'[i] /\ (playerId'[i] = owner'[i] => told'[i])
      <3>1. /\ UNCHANGED <<slot, owner, gmKnows, up, gameState>>
            /\ playerId' = [playerId EXCEPT ![j] = NoAddr]
            /\ told' = [told EXCEPT ![j] = FALSE]
        BY <2>3 DEF Ended, EndConnection, poolVars, modeVars
      <3>2. owner[i] # NoAddr
        BY <3>1, SessionAssumption DEF QueueInv, PlayersOwned
      <3> QED
        BY <3>1, <3>2 DEF EveryPlayerInitialised, Present, TypeOK
    <2>4. CASE JoinAccepted
      <3> DEFINE k == Head(packets).index
      <3>1. /\ k \in Players
            /\ slot' = [slot EXCEPT ![k] = TRUE]
            /\ owner' = [owner EXCEPT ![k] = Head(packets).addr]
            /\ gmKnows' = [gmKnows EXCEPT ![k] = @ \/ gameMode]
            /\ told' = [told EXCEPT ![k] = (gameState = "running")]
            /\ UNCHANGED <<playerId, up, gameState>>
        BY <2>4, JoinMeets DEF JoinAccepted, netVars, modeVars
      <3> HIDE DEF k
      <3>2. gameMode
        BY <3>1 DEF WorldInv
      <3>3. CASE i = k
        BY <3>1, <3>2, <3>3 DEF TypeOK
      <3>4. CASE i # k
        BY <3>1, <3>4 DEF EveryPlayerInitialised, Present, TypeOK
      <3> QED
        BY <3>3, <3>4
    <2>5. ASSUME NEW byGameMode \in BOOLEAN, JoinKicked(byGameMode)
          PROVE  gmKnows'[i] /\ (playerId'[i] = owner'[i] => told'[i])
      <3> DEFINE k == Head(packets).index
      <3>1. /\ k \in Players
            /\ slot' = [slot EXCEPT ![k] = FALSE]
            /\ owner' = [owner EXCEPT ![k] = NoAddr]
            /\ gmKnows' = [gmKnows EXCEPT ![k] = gameMode /\ ~byGameMode]
            /\ told' = [told EXCEPT ![k] = TRUE]
            /\ UNCHANGED <<playerId, up, gameState>>
        BY <2>5, JoinMeets DEF JoinKicked, modeVars
      <3> HIDE DEF k
      <3>2. i # k
        BY <3>1 DEF TypeOK
      <3> QED
        BY <3>1, <3>2 DEF EveryPlayerInitialised, Present, TypeOK
    <2>6. ASSUME NEW K \in SUBSET InUse, NEW again \in Again(K), Removed(K, again)
          PROVE  gmKnows'[i] /\ (playerId'[i] = owner'[i] => told'[i])
      <3>1. slot[i] /\ i \notin K /\ owner'[i] = owner[i] /\ playerId' = playerId
        BY <2>6 DEF Removed, DeleteAll
      <3>2. playerId'[i] = owner'[i] => playerId[i] # NoAddr
        BY <3>1, SessionAssumption DEF QueueInv, PlayersOwned
      <3>3. CASE \A j \in Players : slot'[j] => gmKnows'[j] /\ (playerId[j] # NoAddr => told'[j])
        BY <3>2, <3>3
      <3>4. CASE /\ UNCHANGED <<up, gameState, told>>
                 /\ \A j \in Players : j \notin K => gmKnows'[j] = gmKnows[j]
        BY <3>1, <3>4 DEF EveryPlayerInitialised, Present
      <3> QED
        BY <2>6, <3>3, <3>4 DEF Removed
    <2> QED
      BY <2>1, <2>2, <2>3, <2>4, <2>5, <2>6, Effects
  <1> QED
    BY <1>1, <1>2, WorldAlways, QueueAlways, TypesAlways, PTL DEF Spec

-----------------------------------------------------------------------------
(* The session implements Roster. *)

\* Only a connection can be closing, and the notification that a connection has
\* gone never meets that connection.
LineInv ==
    /\ \A i \in Players : playerId[i] = NoAddr => ~closing[i]
    /\ \A k \in DOMAIN packets : packets[k].kind = "gone" =>
           playerId[packets[k].index] # packets[k].addr

\* Steps that neither make nor end a connection, and queue no notification.
LEMMA LineKept ==
    ASSUME TypeOK, LineInv, playerId' = playerId,
           \A i \in Players : closing'[i] => closing[i] \/ playerId[i] # NoAddr,
           \/ packets' = packets
           \/ packets # <<>> /\ packets' = Tail(packets)
           \/ \E p \in Packet : p.kind # "gone" /\ packets' = Append(packets, p)
    PROVE  LineInv'
  <1>1. \A i \in Players : playerId'[i] = NoAddr => ~closing'[i]
    BY DEF LineInv
  <1>2. \A k \in DOMAIN packets' : packets'[k].kind = "gone" =>
            \E m \in DOMAIN packets : packets'[k] = packets[m]
    <2>1. CASE packets' = packets
      BY <2>1
    <2>2. CASE packets # <<>> /\ packets' = Tail(packets)
      <3> SUFFICES ASSUME NEW k \in DOMAIN packets'
                   PROVE  \E m \in DOMAIN packets : packets'[k] = packets[m]
        OBVIOUS
      <3>1. k \in 1 .. Len(packets) - 1 /\ packets'[k] = packets[k + 1]
        BY <2>2, TailPacket DEF TypeOK
      <3>2. k + 1 \in DOMAIN packets
        BY <3>1, <2>2, TailPacket DEF TypeOK
      <3> QED
        BY <3>1, <3>2
    <2>3. ASSUME NEW p \in Packet, p.kind # "gone", packets' = Append(packets, p)
          PROVE  \A k \in DOMAIN packets' : packets'[k].kind = "gone" =>
                     \E m \in DOMAIN packets : packets'[k] = packets[m]
      BY <2>3, AppendPacket DEF TypeOK
    <2> QED
      BY <2>1, <2>2, <2>3
  <1> QED
    BY <1>1, <1>2 DEF LineInv

LEMMA LineStep == TypeOK /\ LineInv /\ [Next]_vars => LineInv'
  <1> SUFFICES ASSUME TypeOK, LineInv, [Next]_vars PROVE LineInv'
    OBVIOUS
  <1> USE DEF netVars
  <1>1. CASE Network
    <2>1. ASSUME NEW i \in Players, NEW a \in Addrs, Connect(i, a) PROVE LineInv'
      <3>1. /\ playerId' = [playerId EXCEPT ![i] = a] /\ a # NoAddr /\ Fresh(a)
            /\ UNCHANGED <<packets, closing>>
        BY <2>1, SessionAssumption DEF Connect
      <3> QED
        BY <3>1 DEF LineInv, Fresh, TypeOK
    <2>2. ASSUME NEW i \in Players, SendJoin(i) \/ \E c \in Commands : SendCommand(i, c)
          PROVE  LineInv'
      <3>1. PICK kind \in Kinds : /\ kind # "gone" /\ playerId[i] # NoAddr
                                  /\ packets' = Append(packets, [kind |-> kind,
                                                      addr |-> playerId[i], index |-> i])
                                  /\ UNCHANGED <<playerId, closing>>
        BY <2>2 DEF SendJoin, SendCommand, Kinds, Commands
      <3>2. [kind |-> kind, addr |-> playerId[i], index |-> i] \in Packet
        BY <3>1 DEF Packet, TypeOK
      <3>3. [kind |-> kind, addr |-> playerId[i], index |-> i].kind # "gone"
        BY <3>1
      <3> HIDE DEF Packet
      <3> QED
        BY <3>1, <3>2, <3>3, LineKept
    <2>3. ASSUME NEW i \in Players, ClientQuit(i) PROVE LineInv'
      BY <2>3, LineKept DEF ClientQuit, TypeOK
    <2>4. ASSUME NEW i \in Players, Lose(i) \/ Close(i) PROVE LineInv'
      <3>1. /\ playerId[i] \in Addrs
            /\ playerId' = [playerId EXCEPT ![i] = NoAddr]
            /\ closing' = [closing EXCEPT ![i] = FALSE]
            /\ packets' = Append(packets, Departure(playerId[i], i))
        BY <2>4 DEF Lose, Close, EndConnection, TypeOK
      <3>2. Departure(playerId[i], i) \in Packet
        BY <3>1 DEF Departure, Packet, Kinds
      <3>3. \A k \in DOMAIN packets' : packets'[k].index \in Players /\ packets'[k].addr # NoAddr
        BY <3>1, <3>2, AppendPacket, PacketFields DEF TypeOK
      <3>4. \A k \in DOMAIN packets' : packets'[k].index # i =>
                k \in DOMAIN packets /\ packets'[k] = packets[k]
        BY <3>1, <3>2, AppendPacket DEF TypeOK, Departure
      <3> QED
        BY <3>1, <3>3, <3>4 DEF LineInv, TypeOK
    <2> QED
      BY <1>1, <2>1, <2>2, <2>3, <2>4 DEF Network
  <1>2. CASE HandlePacket
    <2>1. /\ playerId' = playerId
          /\ packets # <<>>
          /\ packets' = packets \/ packets' = Tail(packets)
      BY <1>2 DEF HandlePacket, JoinIgnored, JoinRejected, JoinAccepted, JoinKicked,
                  JoinKickedCrashes, RconLogin, RconFinish, RconIgnored, HandleGone,
                  HandleGoneCrashes, Receive, Receiving, Crash
    <2>2. Head(packets).index \in Players /\ Head(packets).addr # NoAddr
      BY <2>1, TailPacket, PacketFields DEF TypeOK
    <2>3. \A i \in Players : closing'[i] => closing[i] \/ playerId[i] # NoAddr
      BY <1>2, <2>2 DEF HandlePacket, JoinIgnored, JoinRejected, JoinAccepted, JoinKicked,
                  JoinKickedCrashes, RconLogin, RconFinish, RconIgnored, HandleGone,
                  HandleGoneCrashes, Crash, Active, Kicked, TypeOK
    <2> QED
      BY <2>1, <2>3, LineKept
  <1>3. CASE \/ Tick \/ EndNetwork \/ FinishGameMode \/ EndShutdown
             \/ \E i \in Players : KickPlayer(i) \/ KickPlayerCrashes(i)
    <2>1. UNCHANGED <<playerId, packets>>
      BY <1>3 DEF Tick, WorldTick, RestartTick, ReInit, EndNetwork, FinishGameMode, EndShutdown,
                  ShutdownForGameModeRestart, ShutdownCrashes, EndLoop, KickPlayer,
                  KickPlayerCrashes, Crash
    <2>2. closing' = closing \/ \E K : closing' = Kicked(K)
      BY <1>3 DEF Tick, WorldTick, RestartTick, ReInit, EndNetwork, FinishGameMode, EndShutdown,
                  ShutdownForGameModeRestart, ShutdownCrashes, EndLoop, KickPlayer,
                  KickPlayerCrashes, Crash
    <2> QED
      BY <2>1, <2>2, LineKept DEF Kicked
  <1>4. CASE UNCHANGED vars
    BY <1>4, LineKept DEF vars
  <1> QED
    BY <1>1, <1>2, <1>3, <1>4 DEF Next

LEMMA RosterInvAlways == Spec => [](TypeOK /\ QueueInv /\ RosterInv /\ LineInv)
  <1>1. Init => RosterInv /\ LineInv
    BY DEF Init, RosterInv, RosterExact, Present, InUse, LineInv
  <1> QED
    BY <1>1, RosterStep, LineStep, QueueAlways, TypesAlways, PTL DEF Spec

\* One step of Roster, or none, as the session maps it.
RosterMove == [PlayerRoster!RosterNext]_(PlayerRoster!rosterVars)

LEMMA RosterStarts == Init => PlayerRoster!RosterInit
  BY DEF Init, PlayerRoster!RosterInit, Line, Member, List

\* The members of Roster are the players in the pool.
LEMMA MembersInUse ==
    ASSUME TypeOK, QueueInv
    PROVE  PlayerRoster!Members = InUse
  BY SessionAssumption DEF PlayerRoster!Members, Member, InUse, QueueInv, PlayersOwned

\* Steps that leave players and connections alone close a connection at most.
LEMMA QuietHangsUp ==
    ASSUME TypeOK, RosterInv, Quiet
    PROVE  (\E i \in Players : PlayerRoster!HangUp(i)) \/ UNCHANGED PlayerRoster!rosterVars
  <1>1. Member' = Member
    BY DEF Quiet, Member
  <1>2. CASE closing' = closing
    <2>1. Line' = Line /\ List' = List
      BY <1>2 DEF Quiet, Line, List
    <2> QED
      BY <1>1, <2>1 DEF PlayerRoster!rosterVars
  <1>3. ASSUME NEW i \in Players, closing' = [closing EXCEPT ![i] = TRUE]
        PROVE  PlayerRoster!HangUp(i) \/ UNCHANGED PlayerRoster!rosterVars
    <2>1. Line' = [Line EXCEPT ![i] = NoAddr] /\ List' = [List EXCEPT ![i] = {}]
      BY <1>3 DEF Quiet, Line, List, TypeOK
    <2>2. CASE Line[i] # NoAddr
      BY <1>1, <2>1, <2>2 DEF PlayerRoster!HangUp
    <2>3. CASE Line[i] = NoAddr
      <3>1. List[i] = {}
        BY <2>3 DEF Line, List, RosterInv
      <3>2. Line' = Line /\ List' = List
        BY <2>1, <2>3, <3>1 DEF Line, List
      <3> QED
        BY <1>1, <3>2 DEF PlayerRoster!rosterVars
    <2> QED
      BY <2>2, <2>3
  <1> QED
    BY <1>2, <1>3 DEF Quiet

LEMMA ConnectCalls ==
    ASSUME TypeOK, QueueInv, LineInv, NEW i \in Players, NEW a \in Addrs, Connect(i, a)
    PROVE  PlayerRoster!Call(i, a)
  <1>1. /\ playerId[i] = NoAddr /\ a # NoAddr /\ Fresh(a)
        /\ playerId' = [playerId EXCEPT ![i] = a]
        /\ UNCHANGED <<closing, slot, owner, announced>>
    BY SessionAssumption DEF Connect, poolVars, viewVars
  <1>2. ~closing[i]
    BY <1>1 DEF LineInv
  <1>3. Line[i] = NoAddr /\ Line' = [Line EXCEPT ![i] = a]
    BY <1>1, <1>2 DEF Line, TypeOK
  <1>4. Member' = Member /\ List' = List
    BY <1>1 DEF Member, List
  <1>5. ASSUME NEW k \in Players PROVE Line[k] # a /\ Member[k] # a
    <2>1. playerId[k] # a /\ Line[k] # a
      BY <1>1 DEF Fresh, Line
    <2>2. ASSUME slot[k], owner[k] = a PROVE FALSE
      <3>1. \E n \in DOMAIN packets : packets[n] = Departure(a, k)
        BY <2>1, <2>2 DEF QueueInv, DepartureQueued
      <3> QED
        BY <1>1, <3>1 DEF Fresh, Departure
    <2> QED
      BY <1>1, <2>1, <2>2 DEF Member
  <1> QED
    BY <1>3, <1>4, <1>5 DEF PlayerRoster!Call

LEMMA EndedHangsUp ==
    ASSUME TypeOK, NEW i \in Players, Ended(i)
    PROVE  PlayerRoster!HangUp(i) \/ UNCHANGED PlayerRoster!rosterVars
  <1>1. /\ playerId[i] # NoAddr
        /\ playerId' = [playerId EXCEPT ![i] = NoAddr]
        /\ closing' = [closing EXCEPT ![i] = FALSE]
        /\ announced' = [announced EXCEPT ![i] = {}]
        /\ UNCHANGED <<slot, owner>>
    BY DEF Ended, EndConnection, poolVars
  <1>2. Member' = Member
    BY <1>1 DEF Member
  <1>3. Line' = [Line EXCEPT ![i] = NoAddr] /\ List' = [List EXCEPT ![i] = {}]
    BY <1>1 DEF Line, List, TypeOK
  <1>4. CASE ~closing[i]
    <2>1. Line[i] # NoAddr
      BY <1>1, <1>4 DEF Line
    <2> QED
      BY <1>2, <1>3, <2>1 DEF PlayerRoster!HangUp
  <1>5. CASE closing[i]
    <2>1. Line' = Line /\ List' = List
      BY <1>3, <1>5 DEF Line, List
    <2> QED
      BY <1>2, <2>1 DEF PlayerRoster!rosterVars
  <1> QED
    BY <1>4, <1>5

LEMMA JoinEnters ==
    ASSUME TypeOK, QueueInv, RosterInv, JoinAccepted
    PROVE  \E i \in Players : PlayerRoster!Enter(i)
  <1> DEFINE i == Head(packets).index
  <1>1. /\ i \in Players /\ ~slot[i] /\ ~closing[i]
        /\ playerId[i] = Head(packets).addr /\ playerId[i] # NoAddr
    BY JoinMeets DEF JoinAccepted, Active
  <1>2. /\ slot' = [slot EXCEPT ![i] = TRUE]
        /\ owner' = [owner EXCEPT ![i] = playerId[i]]
        /\ announced' = InitPlayersForPlayer(AnnounceJoin(announced, i), i)
        /\ UNCHANGED <<playerId, closing>>
    BY <1>1 DEF JoinAccepted, netVars
  <1> HIDE DEF i
  <1>3. Line[i] = playerId[i] /\ Member[i] = NoAddr /\ Line' = Line
    BY <1>1, <1>2 DEF Line, Member
  <1>4. Member' = [Member EXCEPT ![i] = Line[i]]
    BY <1>1, <1>2, <1>3 DEF Member, TypeOK
  <1>5. /\ announced'[i] = announced[i] \cup (InUse \ {i})
        /\ \A c \in Players : c # i =>
              announced'[c] = IF playerId[c] # NoAddr THEN announced[c] \cup {i} ELSE announced[c]
    BY <1>1, <1>2 DEF InitPlayersForPlayer, AnnounceJoin
  <1>6. announced'[i] = InUse
    BY <1>1, <1>5 DEF RosterInv, InUse
  <1>7. List' = [c \in Players |->
                    IF c = i THEN InUse
                    ELSE IF Line[c] # NoAddr THEN List[c] \cup {i} ELSE List[c]]
    BY <1>1, <1>2, <1>5, <1>6 DEF List, Line
  <1> QED
    BY <1>1, <1>3, <1>4, <1>7, MembersInUse DEF PlayerRoster!Enter

\* A player whom OnPlayerConnect kicks was never in the pool for anybody.
LEMMA JoinKickedHangsUp ==
    ASSUME TypeOK, QueueInv, RosterInv, NEW byGameMode \in BOOLEAN, JoinKicked(byGameMode)
    PROVE  \E i \in Players : PlayerRoster!HangUp(i)
  <1> DEFINE i == Head(packets).index
  <1>1. i \in Players /\ ~slot[i] /\ ~closing[i] /\ playerId[i] # NoAddr
    BY JoinMeets DEF JoinKicked, Active
  <1>2. /\ slot' = [slot EXCEPT ![i] = FALSE]
        /\ owner' = [owner EXCEPT ![i] = NoAddr]
        /\ announced' = InitPlayersForPlayer(AnnounceQuit(AnnounceJoin(announced, i), {i}), i)
        /\ playerId' = playerId
        /\ closing' = [closing EXCEPT ![i] = TRUE]
    BY DEF JoinKicked
  <1> HIDE DEF i
  <1>3. Member' = Member
    BY <1>1, <1>2 DEF Member, TypeOK
  <1>4. Line[i] # NoAddr /\ Line' = [Line EXCEPT ![i] = NoAddr]
    BY <1>1, <1>2 DEF Line, TypeOK
  <1>5. \A c \in Players : announced[c] \subseteq InUse \ {c} /\ announced[c] \in SUBSET Players
    BY DEF RosterInv, TypeOK
  <1>6. \A c \in Players : c # i => announced'[c] = announced[c]
    BY <1>1, <1>2, <1>5 DEF InitPlayersForPlayer, AnnounceQuit, AnnounceJoin, InUse
  <1>7. List' = [List EXCEPT ![i] = {}]
    BY <1>1, <1>2, <1>6 DEF List, TypeOK
  <1> QED
    BY <1>1, <1>3, <1>4, <1>7 DEF PlayerRoster!HangUp

\* Whoever is deleted is disconnected, if he is still there.
LEMMA RemovedLeaves ==
    ASSUME TypeOK, QueueInv, RosterInv, LineInv,
           NEW K \in SUBSET InUse, NEW again \in Again(K), Removed(K, again)
    PROVE  \E cut \in SUBSET K : PlayerRoster!Leave(K, cut)
  <1>1. PICK cut \in SUBSET K : Cut(K, cut)
    BY DEF Removed
  <1>2. /\ slot' = [i \in Players |-> slot[i] /\ i \notin K]
        /\ owner' = [i \in Players |-> IF i \in K THEN NoAddr ELSE owner[i]]
        /\ announced' = [c \in Players |->
                IF playerId[c] # NoAddr THEN announced[c] \ K ELSE announced[c]]
        /\ playerId' = playerId
        /\ closing' = [i \in Players |-> closing[i] \/ (i \in cut /\ playerId[i] # NoAddr)]
    BY <1>1 DEF Removed, DeleteAll, AnnounceQuit, Cut, Kicked
  <1>3. Member' = [i \in Players |-> IF i \in K THEN NoAddr ELSE Member[i]]
    BY <1>2 DEF Member
  <1>4. Line' = [i \in Players |-> IF i \in cut THEN NoAddr ELSE Line[i]]
    BY <1>2 DEF Line
  <1>5. \A i \in Players : playerId[i] = NoAddr => announced[i] = {}
    BY DEF RosterInv
  <1>6. List' = [i \in Players |-> IF i \in cut THEN {} ELSE List[i] \ K]
    BY <1>2, <1>5 DEF List
  <1>7. ASSUME NEW i \in K, Line[i] = Member[i] PROVE i \in cut
    <2>1. i \in Players /\ slot[i] /\ owner[i] \in Addrs
      BY DEF InUse, QueueInv, PlayersOwned
    <2>2. playerId[i] = owner[i]
      BY <1>7, <2>1, SessionAssumption DEF Line, Member
    <2>3. ASSUME Receiving("gone"), i = Head(packets).index PROVE FALSE
      <3>1. /\ 1 \in DOMAIN packets /\ Head(packets) = packets[1]
            /\ packets[1].kind = "gone" /\ packets[1].index = i
        BY <2>3, TailPacket DEF Receiving, TypeOK
      <3>2. packets[1].addr # owner[i]
        BY <2>2, <3>1 DEF LineInv
      <3> QED
        BY <2>1, <3>1, <3>2 DEF QueueInv, DepartureFirst
    <2> QED
      BY <1>1, <2>3 DEF Cut
  <1>8. K \subseteq PlayerRoster!Members
    BY MembersInUse
  <1>9. PlayerRoster!Leave(K, cut)
    BY <1>3, <1>4, <1>6, <1>7, <1>8 DEF PlayerRoster!Leave
  <1> QED
    BY <1>9

LEMMA RosterMoves == TypeOK /\ QueueInv /\ RosterInv /\ LineInv /\ [Next]_vars => RosterMove
  <1> SUFFICES ASSUME TypeOK, QueueInv, RosterInv, LineInv, [Next]_vars PROVE RosterMove
    OBVIOUS
  <1>1. CASE Quiet
    BY <1>1, QuietHangsUp DEF RosterMove, PlayerRoster!RosterNext
  <1>2. ASSUME NEW i \in Players, NEW a \in Addrs, Connect(i, a) PROVE RosterMove
    BY <1>2, ConnectCalls DEF RosterMove, PlayerRoster!RosterNext
  <1>3. ASSUME NEW i \in Players, Ended(i) PROVE RosterMove
    BY <1>3, EndedHangsUp DEF RosterMove, PlayerRoster!RosterNext
  <1>4. CASE JoinAccepted
    BY <1>4, JoinEnters DEF RosterMove, PlayerRoster!RosterNext
  <1>5. ASSUME NEW byGameMode \in BOOLEAN, JoinKicked(byGameMode) PROVE RosterMove
    BY <1>5, JoinKickedHangsUp DEF RosterMove, PlayerRoster!RosterNext
  <1>6. ASSUME NEW K \in SUBSET InUse, NEW again \in Again(K), Removed(K, again)
        PROVE  RosterMove
    <2>1. K \in SUBSET Players
      BY DEF InUse
    <2> QED
      BY <1>6, <2>1, RemovedLeaves DEF RosterMove, PlayerRoster!RosterNext
  <1> QED
    BY <1>1, <1>2, <1>3, <1>4, <1>5, <1>6, Effects

\* The session implements Roster: a connection becomes one player at most, at
\* the place it has, a player who is deleted does not stay connected, and the
\* lists of those who are connected change with each join and each quit.
THEOREM SessionKeepsRoster == Spec => KeepsRoster
  <1>1. TypeOK /\ QueueInv /\ RosterInv /\ LineInv /\ [Next]_vars
            => [PlayerRoster!RosterNext]_(PlayerRoster!rosterVars)
    BY RosterMoves DEF RosterMove
  <1> QED
    BY <1>1, RosterStarts, RosterInvAlways, PTL DEF Spec, KeepsRoster, PlayerRoster!RosterSpec

=============================================================================
