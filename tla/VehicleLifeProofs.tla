------------------------- MODULE VehicleLifeProofs -------------------------
(***************************************************************************)
(* Proofs about VehicleLife for any players, lives and delays.  They rest  *)
(* on what the RPCs under way to a client do to what it shows (Chain).     *)
(***************************************************************************)
EXTENDS VehicleLife, SequenceTheorems, TLAPS

\* What an RPC makes of a client that shows, or will show, life v.
After(m, v) ==
    CASE m.op = "spawn" -> m.life
      [] m.op = "destroy" -> 0
      [] m.op = "respawn" -> IF v = 0 THEN 0 ELSE m.life

\* The RPCs of s, in their order, lead a client from v to t.
Chain(s, v, t) ==
    \E c \in [0 .. Len(s) -> Nat] :
        /\ c[0] = v
        /\ c[Len(s)] = t
        /\ \A k \in 1 .. Len(s) : c[k] = After(s[k], c[k - 1])

\* What client p shows as soon as it may.
Final(p) == IF due[p] # 0 THEN due[p] ELSE shows[p]

\* What client p is meant to show.
Meant(p) == IF p \in untold THEN 0 ELSE life

\* Nothing is under way for who is not on the server.
GoneHaveNothing ==
    \A p \in Players \ Here :
        /\ down[p] = <<>> /\ shows[p] = 0 /\ due[p] = 0
        /\ p \notin late \cup slow \cup untold

\* Where no RPC overtook another, those under way lead to what is meant.
Chained ==
    /\ \A p \in Players : due[p] # 0 => shows[p] # 0
    /\ \A p \in Here \ late : Chain(down[p], Final(p), Meant(p))

\* Five seconds after a respawn the clients that have caught up know of this life only.
Settled ==
    life # 0 /\ respawned # "now" => \A p \in Here \ (slow \cup late) :
        /\ shows[p] \in {0, life}
        /\ due[p] \in {0, life}
        /\ \A k \in DOMAIN down[p] : down[p][k].op # "destroy" /\ down[p][k].life = life

\* Who drives was noted in this life, and was the last to send as the driver, or was
\* put there since.
Driven ==
    /\ ~stale
    /\ occupied =>
        /\ life # 0 /\ respawned # "now"
        /\ driver # None /\ wheel \in {None, driver}

VehicleInv == TypeOK /\ GoneHaveNothing /\ Chained /\ Settled /\ Driven

-----------------------------------------------------------------------------
(* Sequences of RPCs. *)

\* A message, once or twice, behind what is there.
LEMMA Told ==
    ASSUME NEW s \in Seq(Down), NEW m \in Down, NEW times \in 1 .. 2
    PROVE  LET t == s \o [k \in 1 .. times |-> m]
           IN  /\ t \in Seq(Down) /\ Len(t) = Len(s) + times
               /\ \A k \in 1 .. Len(s) : t[k] = s[k]
               /\ \A k \in Len(s) + 1 .. Len(s) + times : t[k] = m
  <1> DEFINE r == [k \in 1 .. times |-> m]
             t == s \o r
  <1>1. r \in Seq(Down) /\ Len(r) = times
    OBVIOUS
  <1>2. t \in Seq(Down) /\ Len(t) = Len(s) + times
    BY <1>1, ConcatProperties
  <1>3. \A k \in 1 .. Len(s) : t[k] = s[k]
    BY <1>1, ConcatProperties
  <1>4. ASSUME NEW k \in Len(s) + 1 .. Len(s) + times PROVE t[k] = m
    <2>1. k \in 1 .. Len(s) + Len(r) /\ k > Len(s) /\ k - Len(s) \in 1 .. times
      BY <1>1
    <2>2. t[k] = r[k - Len(s)]
      BY <2>1, <1>1, ConcatProperties
    <2> QED
      BY <2>1, <2>2
  <1> QED
    BY <1>2, <1>3, <1>4

\* The second of two equal RPCs changes nothing.
LEMMA AfterTwice ==
    ASSUME NEW m \in Down, NEW v \in Nat
    PROVE  /\ After(m, v) \in Nat
           /\ After(m, After(m, v)) = After(m, v)
  BY VehicleAssumption DEF After, Down

LEMMA ChainGrows ==
    ASSUME NEW s \in Seq(Down), NEW v, NEW w, Chain(s, v, w),
           NEW m \in Down, NEW times \in 1 .. 2
    PROVE  Chain(s \o [k \in 1 .. times |-> m], v, After(m, w))
  <1> DEFINE t == s \o [k \in 1 .. times |-> m]
  <1>1. /\ t \in Seq(Down) /\ Len(t) = Len(s) + times /\ Len(s) \in Nat
        /\ \A k \in 1 .. Len(s) : t[k] = s[k]
        /\ \A k \in Len(s) + 1 .. Len(s) + times : t[k] = m
    BY Told, LenProperties
  <1> HIDE DEF t
  <1>2. PICK c \in [0 .. Len(s) -> Nat] :
            /\ c[0] = v
            /\ c[Len(s)] = w
            /\ \A k \in 1 .. Len(s) : c[k] = After(s[k], c[k - 1])
    BY DEF Chain
  <1>3. w \in Nat /\ After(m, w) \in Nat /\ After(m, After(m, w)) = After(m, w)
    <2>1. w \in Nat
      BY <1>1, <1>2
    <2> QED
      BY <2>1, AfterTwice
  <1> DEFINE a == After(m, w)
             d == [k \in 0 .. Len(t) |-> IF k <= Len(s) THEN c[k] ELSE a]
  <1>4. a \in Nat /\ After(m, a) = a /\ a = After(m, w)
    BY <1>3
  <1> HIDE DEF a
  <1>5. /\ d \in [0 .. Len(t) -> Nat]
        /\ d[0] = v
        /\ d[Len(t)] = a
    BY <1>1, <1>2, <1>4
  <1>6. ASSUME NEW k \in 1 .. Len(t) PROVE d[k] = After(t[k], d[k - 1])
    <2>1. CASE k \in 1 .. Len(s)
      <3>1. d[k] = c[k] /\ d[k - 1] = c[k - 1] /\ t[k] = s[k]
        BY <1>1, <2>1
      <3> QED
        BY <1>2, <2>1, <3>1
    <2>2. CASE k = Len(s) + 1
      <3>1. d[k] = a /\ d[k - 1] = w /\ t[k] = m
        BY <1>1, <1>2, <2>2
      <3> QED
        BY <1>4, <3>1
    <2>3. CASE k \notin 1 .. Len(s) /\ k # Len(s) + 1
      <3>1. d[k] = a /\ d[k - 1] = a /\ t[k] = m
        BY <1>1, <2>3
      <3> QED
        BY <1>4, <3>1
    <2> QED
      BY <2>1, <2>2, <2>3
  <1> HIDE DEF d
  <1>7. Chain(t, v, a)
    BY <1>5, <1>6 DEF Chain
  <1> QED
    BY <1>4, <1>7 DEF t

\* Any RPC may be taken out; when it is the first the others move up.
LEMMA Removed ==
    ASSUME NEW s \in Seq(Down), NEW k \in DOMAIN s
    PROVE  /\ RemoveAt(s, k) \in Seq(Down)
           /\ k = 1 => /\ Len(RemoveAt(s, k)) = Len(s) - 1
                       /\ \A l \in 1 .. Len(s) - 1 : RemoveAt(s, k)[l] = s[l + 1]
  <1>1. Len(s) \in Nat /\ DOMAIN s = 1 .. Len(s) /\ \A l \in 1 .. Len(s) : s[l] \in Down
    BY LenProperties, ElementOfSeq
  <1>2. k \in 1 .. Len(s)
    BY <1>1
  <1>3. /\ SubSeq(s, 1, k - 1) \in Seq(Down)
        /\ Len(SubSeq(s, 1, k - 1)) = IF 1 <= k - 1 THEN k - 1 ELSE 0
    <2>1. 1 \in Int /\ k - 1 \in Int /\ \A l \in 1 .. k - 1 : s[l] \in Down
      BY <1>1, <1>2
    <2>2. k - 1 - 1 + 1 = k - 1
      BY <2>1
    <2> QED
      BY <2>1, <2>2, SubSeqProperties
  <1>4. /\ SubSeq(s, k + 1, Len(s)) \in Seq(Down)
        /\ Len(SubSeq(s, k + 1, Len(s))) = Len(s) - k
        /\ \A l \in 1 .. Len(s) - k : SubSeq(s, k + 1, Len(s))[l] = s[k + l]
    <2>1. k + 1 \in Int /\ Len(s) \in Int /\ \A l \in k + 1 .. Len(s) : s[l] \in Down
      BY <1>1, <1>2
    <2>2. /\ Len(s) - (k + 1) + 1 = Len(s) - k
          /\ (IF k + 1 <= Len(s) THEN Len(s) - (k + 1) + 1 ELSE 0) = Len(s) - k
      BY <1>1, <1>2
    <2>3. \A l \in 1 .. Len(s) - k : k + 1 + l - 1 = k + l
      BY <1>1, <1>2
    <2>4. /\ SubSeq(s, k + 1, Len(s)) \in Seq(Down)
          /\ Len(SubSeq(s, k + 1, Len(s)))
                = IF k + 1 <= Len(s) THEN Len(s) - (k + 1) + 1 ELSE 0
          /\ \A l \in 1 .. Len(s) - (k + 1) + 1 :
                SubSeq(s, k + 1, Len(s))[l] = s[k + 1 + l - 1]
      BY <2>1, SubSeqProperties
    <2> QED
      BY <2>2, <2>3, <2>4
  <1>5. RemoveAt(s, k) \in Seq(Down)
    BY <1>3, <1>4, ConcatProperties DEF RemoveAt
  <1>6. k = 1 => RemoveAt(s, k) = SubSeq(s, k + 1, Len(s))
    <2> SUFFICES ASSUME k = 1 PROVE RemoveAt(s, k) = SubSeq(s, k + 1, Len(s))
      OBVIOUS
    <2>1. SubSeq(s, 1, k - 1) = <<>>
      BY <1>3, EmptySeq
    <2> QED
      BY <1>4, <2>1, ConcatEmptySeq DEF RemoveAt
  <1>7. ASSUME k = 1
        PROVE  /\ Len(RemoveAt(s, k)) = Len(s) - 1
               /\ \A l \in 1 .. Len(s) - 1 : RemoveAt(s, k)[l] = s[l + 1]
    <2>1. \A l \in 1 .. Len(s) - 1 : 1 + l = l + 1
      OBVIOUS
    <2> QED
      BY <1>4, <1>6, <1>7, <2>1
  <1> QED
    BY <1>5, <1>7

LEMMA ChainShrinks ==
    ASSUME NEW s \in Seq(Down), NEW v, NEW w, Chain(s, v, w), 1 \in DOMAIN s
    PROVE  Chain(RemoveAt(s, 1), After(s[1], v), w)
  <1> DEFINE t == RemoveAt(s, 1)
  <1>1. /\ Len(s) \in Nat /\ Len(s) >= 1
        /\ Len(t) = Len(s) - 1 /\ \A l \in 1 .. Len(s) - 1 : t[l] = s[l + 1]
    BY Removed, LenProperties
  <1> HIDE DEF t
  <1>2. PICK c \in [0 .. Len(s) -> Nat] :
            /\ c[0] = v
            /\ c[Len(s)] = w
            /\ \A k \in 1 .. Len(s) : c[k] = After(s[k], c[k - 1])
    BY DEF Chain
  <1> DEFINE d == [k \in 0 .. Len(t) |-> c[k + 1]]
  <1>3. \A k \in 0 .. Len(t) : k + 1 \in 1 .. Len(s) /\ k + 1 - 1 = k
    BY <1>1
  <1>4. d \in [0 .. Len(t) -> Nat]
    BY <1>2, <1>3
  <1>5. d[0] = After(s[1], v) /\ d[Len(t)] = w
    BY <1>1, <1>2
  <1>6. ASSUME NEW k \in 1 .. Len(t) PROVE d[k] = After(t[k], d[k - 1])
    <2>1. /\ k + 1 \in 1 .. Len(s) /\ k + 1 - 1 = k /\ k - 1 + 1 = k
          /\ k \in 0 .. Len(t) /\ k - 1 \in 0 .. Len(t) /\ t[k] = s[k + 1]
      BY <1>1
    <2>2. c[k + 1] = After(s[k + 1], c[k])
      BY <1>2, <2>1
    <2>3. d[k] = c[k + 1] /\ d[k - 1] = c[k]
      BY <2>1
    <2> QED
      BY <2>1, <2>2, <2>3
  <1> HIDE DEF d
  <1> QED
    BY <1>4, <1>5, <1>6 DEF Chain, t

LEMMA ChainEmpty == ASSUME NEW v \in Nat, NEW w PROVE Chain(<<>>, v, w) <=> v = w
  <1>1. Len(<<>>) = 0
    OBVIOUS
  <1>2. v = w => Chain(<<>>, v, w)
    <2> SUFFICES ASSUME v = w PROVE Chain(<<>>, v, w)
      OBVIOUS
    <2> DEFINE c == [k \in 0 .. 0 |-> v]
    <2>1. c \in [0 .. 0 -> Nat] /\ c[0] = v /\ \A k \in 1 .. 0 : FALSE
      OBVIOUS
    <2> HIDE DEF c
    <2> QED
      BY <1>1, <2>1 DEF Chain
  <1> QED
    BY <1>1, <1>2 DEF Chain

-----------------------------------------------------------------------------
(* Types. *)

\* RPCs for the clients of T, and no others.
LEMMA TellTypes ==
    ASSUME TypeOK, NEW T \in SUBSET Players,
           NEW op \in {"spawn", "respawn", "destroy"}, NEW n \in 0 .. MaxLives,
           [op |-> op, life |-> n] \in Down,
           NEW times \in 1 .. 2, Tell(T, op, n, times)
    PROVE  /\ down' \in [Players -> Seq(Down)]
           /\ UNCHANGED <<shows, due>>
           /\ \A p \in Players \ T : down'[p] = down[p]
           /\ \A p \in T :
                down'[p] = down[p] \o [k \in 1 .. times |-> [op |-> op, life |-> n]]
  <1> DEFINE m == [op |-> op, life |-> n]
  <1>1. m \in Down
    OBVIOUS
  <1>2. \A p \in Players : down[p] \in Seq(Down)
    BY DEF TypeOK
  <1>3. \A p \in Players : down'[p] = IF p \in T THEN down[p] \o [k \in 1 .. times |-> m]
                                                ELSE down[p]
    BY DEF Tell
  <1>4. down' = [p \in Players |-> down'[p]]
    BY DEF Tell
  <1>5. UNCHANGED <<shows, due>>
    BY DEF Tell
  <1> HIDE DEF m
  <1>6. ASSUME NEW p \in Players PROVE down'[p] \in Seq(Down)
    <2>1. down[p] \o [k \in 1 .. times |-> m] \in Seq(Down)
      BY <1>1, <1>2, Told
    <2> QED
      BY <1>2, <1>3, <2>1
  <1>7. down' \in [Players -> Seq(Down)]
    BY <1>4, <1>6
  <1> QED
    BY <1>1, <1>3, <1>5, <1>7 DEF m

LEMMA RespawnTypes ==
    ASSUME TypeOK, NEW times \in 1 .. 2, Respawn(times)
    PROVE  TypeOK'
  <1>1. lives + 1 \in 0 .. MaxLives /\ lives + 1 # 0
    BY VehicleAssumption DEF Respawn, TypeOK
  <1>2. Here \in SUBSET Players /\ [op |-> "respawn", life |-> lives + 1] \in Down
    BY <1>1 DEF Here, Down
  <1>3. down' \in [Players -> Seq(Down)] /\ UNCHANGED <<shows, due>>
    BY <1>1, <1>2, TellTypes DEF Respawn
  <1> QED
    BY <1>1, <1>3 DEF Respawn, TypeOK

LEMMA NewTypes ==
    ASSUME TypeOK, CreateVehicle \/ AddStaticVehicle
    PROVE  TypeOK'
  <1>1. New /\ lives + 1 \in 0 .. MaxLives /\ lives + 1 # 0
    BY VehicleAssumption DEF CreateVehicle, AddStaticVehicle, New, TypeOK
  <1>2. /\ Here \in SUBSET Players /\ 1 \in 1 .. 2
        /\ [op |-> "spawn", life |-> lives + 1] \in Down
    BY <1>1 DEF Here, Down
  <1>3. /\ down' \in [Players -> Seq(Down)] /\ UNCHANGED <<shows, due>>
        /\ untold' \subseteq Players
    <2>1. CASE CreateVehicle
      BY <1>1, <1>2, <2>1, TellTypes DEF CreateVehicle
    <2>2. CASE AddStaticVehicle
      BY <1>2, <2>2 DEF AddStaticVehicle, TypeOK
    <2> QED
      BY <2>1, <2>2
  <1> QED
    BY <1>1, <1>3 DEF New, InitialDriver, TypeOK

LEMMA DeleteTypes == ASSUME TypeOK, Delete PROVE TypeOK'
  <1>1. /\ Here \in SUBSET Players /\ 1 \in 1 .. 2
        /\ 0 \in 0 .. MaxLives /\ [op |-> "destroy", life |-> 0] \in Down
    BY VehicleAssumption DEF Here, Down
  <1>2. down' \in [Players -> Seq(Down)] /\ UNCHANGED <<shows, due>>
    BY <1>1, TellTypes DEF Delete
  <1> QED
    BY <1>2 DEF Delete, TypeOK

\* What the server makes of a packet changes what it knows, and nothing on the network.
LEMMA ReceiveTypes ==
    ASSUME TypeOK, NEW p \in Players, NEW m \in Packets(p), Receive(p, m)
    PROVE  TypeOK'
  <1>1. UNCHANGED <<noticing, shows, due, down, late, untold, slow>>
    BY DEF Receive, netVars
  <1>2. CASE StoreInCar(p, m)
    <2>1. m.wreck \in BOOLEAN
      BY <1>2 DEF StoreInCar, Packets
    <2>2. /\ driver' \in Players \cup {None} /\ occupied' \in BOOLEAN
          /\ seen' \in {"now", "passed"} /\ dead' \in BOOLEAN /\ stale' \in BOOLEAN
      <3>1. CASE life # 0 /\ respawned # "now"
        <4>1. /\ dead' = (dead \/ m.wreck) /\ driver' = p
              /\ occupied' = TRUE /\ seen' = "now"
              /\ stale' = (m.life # life /\ p \notin slow \cup late)
          BY <1>2, <3>1 DEF StoreInCar, Update
        <4>2. dead' \in BOOLEAN
          BY <4>1, <2>1 DEF TypeOK
        <4>3. stale' \in BOOLEAN
          BY <4>1
        <4> QED
          BY <4>1, <4>2, <4>3
      <3>2. CASE ~(life # 0 /\ respawned # "now")
        BY <1>2, <3>2 DEF StoreInCar, Update, TypeOK
      <3> QED
        BY <3>1, <3>2
    <2>3. /\ place' = [place EXCEPT ![p] = "driver"] /\ wheel' = p
          /\ UNCHANGED <<life, lives, notified, respawned>>
      BY <1>2 DEF StoreInCar
    <2> QED
      BY <1>1, <2>2, <2>3 DEF TypeOK, Places
  <1>3. CASE StoreOther(p, m)
    BY <1>1, <1>3 DEF StoreOther, TypeOK, Places, vehicleVars
  <1>4. CASE VehicleDestroyed(m)
    BY <1>1, <1>4 DEF VehicleDestroyed, TypeOK, recordVars
  <1> QED
    BY <1>2, <1>3, <1>4 DEF Receive

LEMMA LeaveTypes == ASSUME TypeOK, NEW p \in Players, Leave(p) PROVE TypeOK'
  <1>1. /\ down' \in [Players -> Seq(Down)]
        /\ shows' \in [Players -> 0 .. MaxLives] /\ due' \in [Players -> 0 .. MaxLives]
    BY <<>> \in Seq(Down), VehicleAssumption DEF Leave, TypeOK
  <1>2. /\ place' \in [Players -> Places] /\ wheel' \in Players \cup {None}
        /\ late' \subseteq Players /\ slow' \subseteq Players /\ untold' \subseteq Players
    BY DEF Leave, TypeOK, Places
  <1> QED
    BY <1>1, <1>2 DEF Leave, TypeOK, vehicleVars

LEMMA JoinTypes == ASSUME TypeOK, NEW p \in Players, Join(p) PROVE TypeOK'
  <1>1. /\ {p} \in SUBSET Players /\ 1 \in 1 .. 2 /\ life \in 0 .. MaxLives
        /\ life # 0 => [op |-> "spawn", life |-> life] \in Down
    BY VehicleAssumption DEF TypeOK, Down
  <1>2. down' \in [Players -> Seq(Down)] /\ UNCHANGED <<shows, due>>
    BY <1>1, TellTypes DEF Join, TypeOK
  <1> QED
    BY <1>2 DEF Join, TypeOK, Places, vehicleVars

LEMMA ClientTypes ==
    ASSUME TypeOK, NEW p \in Players, Reborn(p) \/ \E k \in DOMAIN down[p] : Deliver(p, k)
    PROVE  TypeOK'
  <1>1. CASE Reborn(p)
    BY <1>1, VehicleAssumption DEF Reborn, TypeOK, vehicleVars, recordVars
  <1>2. ASSUME NEW k \in DOMAIN down[p], Deliver(p, k) PROVE TypeOK'
    <2> DEFINE m == down[p][k]
    <2>1. down[p] \in Seq(Down) /\ m \in Down /\ RemoveAt(down[p], k) \in Seq(Down)
      <3>1. down[p] \in Seq(Down)
        BY DEF TypeOK
      <3> QED
        BY <3>1, Removed, ElementOfSeq, LenProperties
    <2>2. /\ m.life \in 0 .. MaxLives /\ 0 \in 0 .. MaxLives
          /\ m.op \in {"spawn", "respawn", "destroy"}
      BY <2>1, VehicleAssumption DEF Down
    <2>3. Apply(p, m)
      BY <1>2 DEF Deliver
    <2>4. down' \in [Players -> Seq(Down)] /\ late' \subseteq Players
      BY <1>2, <2>1 DEF Deliver, TypeOK
    <2> HIDE DEF m
    <2>5. shows' \in [Players -> 0 .. MaxLives] /\ due' \in [Players -> 0 .. MaxLives]
      BY <2>2, <2>3 DEF Apply, TypeOK
    <2> QED
      BY <1>2, <2>4, <2>5 DEF Deliver, TypeOK, vehicleVars, recordVars
  <1> QED
    BY <1>1, <1>2

LEMMA TypeInit == Init => TypeOK
  <1>1. 0 \in 0 .. MaxLives
    BY VehicleAssumption
  <1>2. <<>> \in Seq(Down)
    OBVIOUS
  <1> QED
    BY <1>1, <1>2 DEF Init, TypeOK, Places

LEMMA TypeStep == TypeOK /\ [Next]_vars => TypeOK'
  <1> SUFFICES ASSUME TypeOK, [Next]_vars PROVE TypeOK'
    OBVIOUS
  <1>1. CASE CreateVehicle \/ AddStaticVehicle
    BY <1>1, NewTypes
  <1>2. CASE Delete
    BY <1>2, DeleteTypes
  <1>3. CASE SetVehicleToRespawn
    BY <1>3, 2 \in 1 .. 2, RespawnTypes DEF SetVehicleToRespawn
  <1>4. CASE CheckForIdleRespawn
    BY <1>4, 1 \in 1 .. 2, RespawnTypes DEF CheckForIdleRespawn
  <1>5. CASE RespawnDead
    BY <1>5, 1 \in 1 .. 2, RespawnTypes DEF RespawnDead
  <1>6. CASE BeginDeath
    BY <1>6 DEF BeginDeath, TypeOK, recordVars, netVars
  <1>7. CASE EndDeath
    BY <1>7 DEF EndDeath, TypeOK, recordVars, netVars
  <1>8. CASE Settle
    BY <1>8 DEF Settle, TypeOK, recordVars, netVars, Here
  <1>9. CASE Mature
    BY <1>9 DEF Mature, TypeOK, recordVars, netVars
  <1>10. CASE Pass
    BY <1>10 DEF Pass, TypeOK, recordVars, netVars
  <1>11. ASSUME NEW p \in Players, PutPlayerInVehicle(p) PROVE TypeOK'
    BY <1>11 DEF PutPlayerInVehicle, TypeOK, netVars
  <1>12. ASSUME NEW p \in Players, NEW m \in Packets(p), Receive(p, m) PROVE TypeOK'
    BY <1>12, ReceiveTypes
  <1>13. ASSUME NEW p \in Players, Leave(p) PROVE TypeOK'
    BY <1>13, LeaveTypes
  <1>14. ASSUME NEW p \in Players, Join(p) PROVE TypeOK'
    BY <1>14, JoinTypes
  <1>15. ASSUME NEW p \in Players, Reborn(p) \/ \E k \in DOMAIN down[p] : Deliver(p, k)
         PROVE  TypeOK'
    BY <1>15, ClientTypes
  <1>16. CASE UNCHANGED vars
    BY <1>16 DEF vars, vehicleVars, recordVars, netVars, TypeOK
  <1> QED
    BY <1>1, <1>2, <1>3, <1>4, <1>5, <1>6, <1>7, <1>8, <1>9, <1>10, <1>11, <1>12, <1>13,
       <1>14, <1>15, <1>16 DEF Next

\* Every variable of VehicleLife keeps its type, for any players, lives and delays.
THEOREM VehicleTypesAlways == Spec => []TypeOK
  BY TypeInit, TypeStep, PTL DEF Spec

-----------------------------------------------------------------------------
(* The invariant. *)

LEMMA InvInit == Init => VehicleInv
  <1> SUFFICES ASSUME Init PROVE VehicleInv
    OBVIOUS
  <1>1. TypeOK
    BY TypeInit
  <1>2. GoneHaveNothing
    BY DEF Init, GoneHaveNothing
  <1>3. Chained /\ Settled /\ Driven
    BY DEF Init, Chained, Settled, Driven, Here
  <1> QED
    BY <1>1, <1>2, <1>3 DEF VehicleInv

\* The clients of T are told, which leads them to what is meant now; the others
\* are on their way to it as before.
LEMMA TellKeepsChains ==
    ASSUME TypeOK, Chained, NEW T \in SUBSET Players,
           NEW op \in {"spawn", "respawn", "destroy"}, NEW n \in 0 .. MaxLives,
           [op |-> op, life |-> n] \in Down,
           NEW times \in 1 .. 2, Tell(T, op, n, times),
           UNCHANGED late,
           \A p \in Here' : p \in Here \/ (p \in T /\ Chain(down[p], Final(p), Meant(p))),
           \A p \in T : Meant(p)' = After([op |-> op, life |-> n], Meant(p)),
           \A p \in Here \ T : Meant(p)' = Meant(p)
    PROVE  Chained'
  <1> DEFINE m == [op |-> op, life |-> n]
  <1>1. /\ m \in Down
        /\ UNCHANGED <<shows, due>>
        /\ \A p \in Players \ T : down'[p] = down[p]
        /\ \A p \in T : down'[p] = down[p] \o [k \in 1 .. times |-> m]
    BY TellTypes
  <1>2. \A p \in T : Meant(p)' = After(m, Meant(p))
    OBVIOUS
  <1> HIDE DEF m
  <1>3. \A p \in Players : down[p] \in Seq(Down) /\ Final(p)' = Final(p)
    BY <1>1 DEF TypeOK, Final
  <1>4. ASSUME NEW p \in Here' \ late' PROVE Chain(down'[p], Final(p)', Meant(p)')
    <2>1. p \in Players
      BY DEF Here
    <2>2. Chain(down[p], Final(p), Meant(p))
      BY <1>4 DEF Chained
    <2>3. CASE p \in T
      <3>1. Chain(down[p] \o [k \in 1 .. times |-> m], Final(p), After(m, Meant(p)))
        BY <1>1, <1>3, <2>1, <2>2, ChainGrows
      <3> QED
        BY <3>1, <1>1, <1>2, <1>3, <2>1, <2>3
    <2>4. CASE p \notin T
      BY <1>1, <1>3, <2>1, <2>2, <2>4
    <2> QED
      BY <2>3, <2>4
  <1>5. \A p \in Players : due'[p] # 0 => shows'[p] # 0
    BY <1>1 DEF Chained
  <1> QED
    BY <1>4, <1>5 DEF Chained

\* Who is not here is told nothing.
LEMMA TellKeepsGone ==
    ASSUME TypeOK, GoneHaveNothing, NEW T \in SUBSET Here',
           NEW op \in {"spawn", "respawn", "destroy"}, NEW n \in 0 .. MaxLives,
           [op |-> op, life |-> n] \in Down,
           NEW times \in 1 .. 2, Tell(T, op, n, times),
           Here \subseteq Here', late' = late,
           slow' \subseteq slow \cup Here, untold' \subseteq untold \cup Here
    PROVE  GoneHaveNothing'
  <1>1. T \in SUBSET Players
    BY DEF Here
  <1>2. UNCHANGED <<shows, due>> /\ \A p \in Players \ T : down'[p] = down[p]
    BY <1>1, TellTypes
  <1> QED
    BY <1>2 DEF GoneHaveNothing

\* A vehicle that is new: everybody here is told of it, or nobody.
LEMMA NewKeeps ==
    ASSUME VehicleInv, TypeOK', CreateVehicle \/ AddStaticVehicle
    PROVE  VehicleInv'
  <1>1. /\ New /\ life = 0 /\ life' = lives + 1 /\ lives + 1 \in 0 .. MaxLives /\ lives + 1 # 0
        /\ respawned' = "now" /\ occupied' = FALSE /\ stale' = FALSE /\ slow' = {}
        /\ UNCHANGED <<place, late>>
    <2>1. New
      BY DEF CreateVehicle, AddStaticVehicle
    <2>2. lives \in 0 .. MaxLives
      BY DEF VehicleInv, TypeOK
    <2> QED
      BY <2>1, <2>2, VehicleAssumption DEF New
  <1>2. /\ Here \in SUBSET Players /\ Here' = Here /\ 1 \in 1 .. 2
        /\ [op |-> "spawn", life |-> lives + 1] \in Down
    BY <1>1 DEF Here, Down
  <1>3. CASE CreateVehicle
    <2>1. Tell(Here, "spawn", lives + 1, 1) /\ untold' = {}
      BY <1>3 DEF CreateVehicle
    <2>2. \A p \in Here : Meant(p)' = After([op |-> "spawn", life |-> lives + 1], Meant(p))
      BY <1>1, <2>1 DEF Meant, After
    <2>3. Chained'
      BY <1>1, <1>2, <2>1, <2>2, TellKeepsChains DEF VehicleInv
    <2>4. GoneHaveNothing'
      BY <1>1, <1>2, <2>1, TellKeepsGone DEF VehicleInv
    <2> QED
      BY <1>1, <2>3, <2>4 DEF VehicleInv, Settled, Driven
  <1>4. CASE AddStaticVehicle
    <2>1. untold' = Here /\ UNCHANGED <<shows, due, down>>
      BY <1>4 DEF AddStaticVehicle
    <2>2. \A p \in Here : Meant(p)' = Meant(p) /\ Final(p)' = Final(p)
      BY <1>1, <2>1 DEF Meant, Final
    <2>3. Chained'
      BY <1>1, <1>2, <2>1, <2>2 DEF VehicleInv, Chained
    <2>4. GoneHaveNothing'
      BY <1>1, <1>2, <2>1 DEF VehicleInv, GoneHaveNothing
    <2> QED
      BY <1>1, <2>3, <2>4 DEF VehicleInv, Settled, Driven
  <1> QED
    BY <1>3, <1>4

\* A life that is over.
LEMMA DeleteKeeps == ASSUME VehicleInv, TypeOK', Delete PROVE VehicleInv'
  <1>1. /\ life' = 0 /\ occupied' = FALSE /\ stale' = FALSE /\ slow' = {} /\ untold' = {}
        /\ Tell(Here, "destroy", 0, 1) /\ UNCHANGED <<place, late>>
    BY DEF Delete
  <1>2. /\ Here \in SUBSET Players /\ Here' = Here /\ 1 \in 1 .. 2
        /\ 0 \in 0 .. MaxLives /\ [op |-> "destroy", life |-> 0] \in Down
    BY <1>1, VehicleAssumption DEF Here, Down
  <1>3. \A p \in Here : Meant(p)' = After([op |-> "destroy", life |-> 0], Meant(p))
    BY <1>1 DEF Meant, After
  <1>4. Chained'
    BY <1>1, <1>2, <1>3, TellKeepsChains DEF VehicleInv
  <1>5. GoneHaveNothing'
    BY <1>1, <1>2, TellKeepsGone DEF VehicleInv
  <1> QED
    BY <1>1, <1>4, <1>5 DEF VehicleInv, Settled, Driven

\* The same vehicle in its next life: whoever shows it will show that.
LEMMA RespawnKeeps ==
    ASSUME VehicleInv, TypeOK', NEW times \in 1 .. 2, Respawn(times)
    PROVE  VehicleInv'
  <1>1. /\ life # 0 /\ life' = lives + 1 /\ lives + 1 \in 0 .. MaxLives /\ lives + 1 # 0
        /\ respawned' = "now" /\ occupied' = FALSE /\ stale' = FALSE /\ slow' = {}
        /\ Tell(Here, "respawn", lives + 1, times) /\ UNCHANGED <<place, late, untold>>
    BY VehicleAssumption DEF Respawn, VehicleInv, TypeOK
  <1>2. /\ Here \in SUBSET Players /\ Here' = Here
        /\ [op |-> "respawn", life |-> lives + 1] \in Down
    BY <1>1 DEF Here, Down
  <1>3. \A p \in Here : Meant(p)' = After([op |-> "respawn", life |-> lives + 1], Meant(p))
    BY <1>1 DEF Meant, After
  <1>4. Chained'
    BY <1>1, <1>2, <1>3, TellKeepsChains DEF VehicleInv
  <1>5. GoneHaveNothing'
    BY <1>1, <1>2, TellKeepsGone DEF VehicleInv
  <1> QED
    BY <1>1, <1>4, <1>5 DEF VehicleInv, Settled, Driven

\* When five seconds have passed, who has caught up knows of this life only.
LEMMA SettleKeeps == ASSUME VehicleInv, TypeOK', Settle PROVE VehicleInv'
  <1>1. /\ UNCHANGED <<life, occupied, driver, stale, wheel, place, shows, due, down, late,
                       untold>>
        /\ slow' = {p \in Here : ~CaughtUp(p)}
        /\ respawned = "now" /\ respawned' = "young"
    BY DEF Settle, recordVars, netVars
  <1>2. GoneHaveNothing' /\ Chained' /\ Driven'
    BY <1>1 DEF VehicleInv, GoneHaveNothing, Chained, Driven, Here, Final, Meant
  <1>3. Settled'
    <2> SUFFICES ASSUME NEW p \in Here, p \notin slow' \cup late
                 PROVE  /\ shows[p] \in {0, life}
                        /\ due[p] \in {0, life}
                        /\ DOMAIN down[p] = {}
      BY <1>1 DEF Settled, Here
    <2>1. down[p] = <<>> /\ due[p] = 0
      BY <1>1 DEF CaughtUp
    <2>2. Chain(<<>>, shows[p], Meant(p))
      BY <2>1 DEF VehicleInv, Chained, Final
    <2>3. shows[p] \in Nat
      BY VehicleAssumption DEF Here, VehicleInv, TypeOK
    <2>4. shows[p] = Meant(p)
      BY <2>2, <2>3, ChainEmpty
    <2> QED
      BY <2>1, <2>4 DEF Meant
  <1> QED
    BY <1>2, <1>3 DEF VehicleInv

\* Steps that tell nobody anything.
LEMMA QuietKeeps ==
    ASSUME VehicleInv, TypeOK', Driven',
           UNCHANGED <<life, netVars, slow>>, Here' = Here,
           respawned' = "now" <=> respawned = "now"
    PROVE  VehicleInv'
  <1>1. GoneHaveNothing' /\ Chained'
    BY DEF VehicleInv, GoneHaveNothing, Chained, netVars, Final, Meant
  <1>2. Settled'
    BY DEF VehicleInv, Settled, netVars
  <1> QED
    BY <1>1, <1>2 DEF VehicleInv

LEMMA ReceiveKeeps ==
    ASSUME VehicleInv, TypeOK', NEW p \in Players, NEW m \in Packets(p), Receive(p, m)
    PROVE  VehicleInv'
  <1>1. p \in Here /\ UNCHANGED <<life, respawned, netVars, slow>>
    BY DEF Receive, StoreInCar, StoreOther, VehicleDestroyed, vehicleVars
  <1>2. Here' = Here
    BY <1>1 DEF Receive, StoreInCar, StoreOther, VehicleDestroyed, recordVars, Here,
                VehicleInv, TypeOK
  <1>3. Driven'
    <2>1. CASE StoreInCar(p, m)
      <3>1. CASE life # 0 /\ respawned # "now"
        <4>1. /\ driver' = p /\ wheel' = p /\ m.kind = "drive"
              /\ stale' = (m.life # life /\ p \notin slow \cup late)
          BY <2>1, <3>1 DEF StoreInCar, Update
        <4>2. m.life = shows[p] /\ shows[p] # 0
          BY <4>1 DEF Packets
        <4>3. stale' = FALSE
          BY <4>1, <4>2, <3>1, <1>1 DEF VehicleInv, Settled
        <4>4. p # None
          BY VehicleAssumption
        <4> QED
          BY <4>1, <4>3, <4>4, <3>1, <1>1 DEF Driven
      <3>2. CASE ~(life # 0 /\ respawned # "now")
        BY <2>1, <3>2 DEF StoreInCar, Update, VehicleInv, Driven
      <3> QED
        BY <3>1, <3>2
    <2>2. CASE StoreOther(p, m)
      BY <2>2 DEF StoreOther, vehicleVars, VehicleInv, Driven
    <2>3. CASE VehicleDestroyed(m)
      BY <2>3 DEF VehicleDestroyed, recordVars, VehicleInv, Driven
    <2> QED
      BY <2>1, <2>2, <2>3 DEF Receive
  <1> QED
    BY <1>1, <1>2, <1>3, QuietKeeps

LEMMA LeaveKeeps == ASSUME VehicleInv, TypeOK', NEW p \in Players, Leave(p) PROVE VehicleInv'
  <1>1. /\ UNCHANGED <<life, respawned, occupied, driver, stale>>
        /\ wheel' \in {None, wheel}
        /\ late' = late \ {p} /\ slow' = slow \ {p} /\ untold' = untold \ {p}
    BY DEF Leave, vehicleVars
  <1>2. /\ Here' = Here \ {p}
        /\ shows'[p] = 0 /\ due'[p] = 0 /\ down'[p] = <<>>
        /\ \A q \in Players \ {p} :
               shows'[q] = shows[q] /\ due'[q] = due[q] /\ down'[q] = down[q]
    BY DEF Leave, VehicleInv, TypeOK, Here
  <1>3. GoneHaveNothing'
    BY <1>1, <1>2 DEF VehicleInv, GoneHaveNothing
  <1>4. Chained'
    <2>1. \A q \in Here' : q \in Players /\ q # p /\ q \in Here
      BY <1>2 DEF Here
    <2>2. \A q \in Here' : Final(q)' = Final(q) /\ Meant(q)' = Meant(q)
                           /\ down'[q] = down[q] /\ (q \in late' <=> q \in late)
      BY <1>1, <1>2, <2>1 DEF Final, Meant
    <2> QED
      BY <1>2, <2>1, <2>2 DEF VehicleInv, Chained
  <1>5. Settled'
    <2>1. \A q \in Here' : q \in Players /\ q # p /\ q \in Here
      BY <1>2 DEF Here
    <2> QED
      BY <1>1, <1>2, <2>1 DEF VehicleInv, Settled
  <1>6. Driven'
    BY <1>1 DEF VehicleInv, Driven
  <1> QED
    BY <1>3, <1>4, <1>5, <1>6 DEF VehicleInv

LEMMA JoinKeeps == ASSUME VehicleInv, TypeOK', NEW p \in Players, Join(p) PROVE VehicleInv'
  <1>1. /\ UNCHANGED <<life, respawned, occupied, driver, stale, wheel, late, slow, untold>>
        /\ p \notin Here /\ life \in 0 .. MaxLives /\ life \in Nat
    BY VehicleAssumption DEF Join, vehicleVars, VehicleInv, TypeOK
  <1>2. Here' = Here \cup {p}
    BY DEF Join, VehicleInv, TypeOK, Here
  <1>3. shows[p] = 0 /\ due[p] = 0 /\ down[p] = <<>> /\ p \notin late \cup slow \cup untold
    BY <1>1 DEF VehicleInv, GoneHaveNothing
  <1>4. Driven'
    BY <1>1 DEF VehicleInv, Driven
  <1>5. CASE life = 0
    <2>1. UNCHANGED <<shows, due, down>>
      BY <1>5 DEF Join
    <2>2. Chain(<<>>, 0, 0)
      BY ChainEmpty
    <2>3. Chained'
      <3>1. \A q \in Players : Final(q)' = Final(q) /\ Meant(q)' = Meant(q)
        BY <1>1, <2>1 DEF Final, Meant
      <3>2. down[p] = <<>> /\ Final(p) = 0 /\ Meant(p) = 0
        BY <1>3, <1>5 DEF Final, Meant
      <3>3. \A q \in Here' \ late : q \in Players /\ Chain(down[q], Final(q), Meant(q))
        BY <1>2, <2>2, <3>2 DEF VehicleInv, Chained, Here
      <3> QED
        BY <1>1, <2>1, <3>1, <3>3 DEF VehicleInv, Chained
    <2>4. GoneHaveNothing' /\ Settled'
      BY <1>1, <1>2, <1>5, <2>1 DEF VehicleInv, GoneHaveNothing, Settled
    <2> QED
      BY <1>4, <2>3, <2>4 DEF VehicleInv
  <1>6. CASE life # 0
    <2>1. Tell({p}, "spawn", life, 1)
      BY <1>6 DEF Join
    <2>2. /\ {p} \in SUBSET Players /\ {p} \in SUBSET Here' /\ 1 \in 1 .. 2
          /\ [op |-> "spawn", life |-> life] \in Down
      BY <1>1, <1>2, <1>6, VehicleAssumption DEF Down
    <2>3. /\ UNCHANGED <<shows, due>>
          /\ \A q \in Players \ {p} : down'[q] = down[q]
          /\ down'[p] = down[p] \o [k \in 1 .. 1 |-> [op |-> "spawn", life |-> life]]
      BY <1>1, <2>1, <2>2, TellTypes DEF VehicleInv
    <2>4. GoneHaveNothing'
      BY <1>1, <1>2, <2>1, <2>2, TellKeepsGone DEF VehicleInv
    <2> DEFINE m == [op |-> "spawn", life |-> life]
    <2>5. /\ m \in Down /\ m.op = "spawn" /\ m.life = life /\ After(m, 0) = life
          /\ down'[p] = <<>> \o [k \in 1 .. 1 |-> m]
      BY <1>3, <2>2, <2>3 DEF After
    <2> HIDE DEF m
    <2>6. Chained'
      <3>1. Chain(<<>>, 0, 0) /\ <<>> \in Seq(Down)
        BY ChainEmpty
      <3>2. Chain(down'[p], 0, life)
        BY <2>2, <2>5, <3>1, ChainGrows
      <3>3. \A q \in Players : Final(q)' = Final(q) /\ Meant(q)' = Meant(q)
        BY <1>1, <2>3 DEF Final, Meant
      <3>4. Final(p) = 0 /\ Meant(p) = life
        BY <1>3 DEF Final, Meant
      <3>5. \A q \in Here' \ late' : Chain(down'[q], Final(q)', Meant(q)')
        BY <1>1, <1>2, <2>3, <3>2, <3>3, <3>4 DEF VehicleInv, Chained, Here
      <3> QED
        BY <2>3, <3>5 DEF VehicleInv, Chained
    <2>7. Settled'
      <3>1. /\ Len(down'[p]) = 1 /\ down'[p] \in Seq(Down)
            /\ \A k \in 1 .. 1 : down'[p][k] = m
        <4>1. <<>> \in Seq(Down) /\ Len(<<>>) = 0
          OBVIOUS
        <4> DEFINE t == <<>> \o [k \in 1 .. 1 |-> m]
        <4>2. /\ t \in Seq(Down) /\ Len(t) = Len(<<>>) + 1
              /\ \A k \in Len(<<>>) + 1 .. Len(<<>>) + 1 : t[k] = m
          BY <2>2, <2>5, <4>1, Told
        <4> HIDE DEF t
        <4>3. Len(t) = 1 /\ \A k \in 1 .. 1 : t[k] = m
          BY <4>1, <4>2
        <4> QED
          BY <2>5, <4>2, <4>3 DEF t
      <3>2. \A k \in DOMAIN down'[p] : down'[p][k] = m
        BY <3>1
      <3> QED
        BY <1>1, <1>2, <1>3, <2>3, <2>5, <3>2 DEF VehicleInv, Settled, Here
    <2> QED
      BY <1>4, <2>4, <2>6, <2>7 DEF VehicleInv
  <1> QED
    BY <1>5, <1>6

\* An RPC arrives: who got all in their order is one further on his way.
LEMMA DeliverKeeps ==
    ASSUME VehicleInv, TypeOK', NEW p \in Players, NEW k \in DOMAIN down[p], Deliver(p, k)
    PROVE  VehicleInv'
  <1> DEFINE s == down[p]
             m == s[k]
  <1>1. /\ UNCHANGED <<life, respawned, occupied, driver, stale, wheel, place, slow, untold>>
        /\ Apply(p, m) /\ down' = [down EXCEPT ![p] = RemoveAt(s, k)]
        /\ late' = IF k = 1 THEN late ELSE late \cup {p}
    BY DEF Deliver, vehicleVars, recordVars
  <1>2. /\ s \in Seq(Down) /\ m \in Down /\ Len(s) \in Nat /\ DOMAIN s = 1 .. Len(s)
        /\ \A q \in Players : shows[q] \in Nat /\ due[q] \in Nat
    <2>1. s \in Seq(Down)
      BY DEF VehicleInv, TypeOK
    <2> QED
      BY <2>1, ElementOfSeq, LenProperties, VehicleAssumption DEF VehicleInv, TypeOK
  <1>3. s # <<>>
    BY <1>2
  <1>4. p \in Here /\ Here' = Here
    BY <1>1, <1>3 DEF VehicleInv, GoneHaveNothing, Here
  <1>5. /\ m.op \in {"spawn", "respawn", "destroy"} /\ m.life \in Nat
        /\ m.op = "respawn" => m.life # 0
    BY <1>2, VehicleAssumption DEF Down
  <1> HIDE DEF m
  <1>6. /\ \A q \in Players \ {p} :
               shows'[q] = shows[q] /\ due'[q] = due[q] /\ down'[q] = down[q]
        /\ down'[p] = RemoveAt(s, k)
        /\ shows'[p] = CASE m.op = "spawn" -> m.life [] m.op = "destroy" -> 0
                         [] m.op = "respawn" -> shows[p]
        /\ due'[p] = IF m.op = "respawn" /\ shows[p] # 0 THEN m.life ELSE 0
    BY <1>1 DEF Apply, VehicleInv, TypeOK
  <1> HIDE DEF s
  <1>7. GoneHaveNothing'
    BY <1>1, <1>4, <1>6 DEF VehicleInv, GoneHaveNothing
  <1>8. Chained'
    <2>1. \A q \in Players : due'[q] # 0 => shows'[q] # 0
      <3>1. due[p] # 0 => shows[p] # 0
        BY DEF VehicleInv, Chained
      <3> QED
        BY <3>1, <1>5, <1>6 DEF VehicleInv, Chained
    <2>2. \A q \in Players : Meant(q)' = Meant(q)
      BY <1>1 DEF Meant
    <2>3. \A q \in Players \ {p} : Final(q)' = Final(q)
      BY <1>6 DEF Final
    <2>4. ASSUME p \notin late' PROVE Chain(down'[p], Final(p)', Meant(p))
      <3>1. k = 1 /\ p \notin late
        BY <1>1, <2>4
      <3>2. Chain(s, Final(p), Meant(p))
        BY <1>4, <3>1 DEF VehicleInv, Chained, s
      <3>3. Chain(RemoveAt(s, 1), After(s[1], Final(p)), Meant(p))
        BY <1>2, <3>1, <3>2, ChainShrinks DEF s
      <3>4. Final(p)' = After(m, Final(p))
        <4>1. due[p] # 0 => shows[p] # 0
          BY DEF VehicleInv, Chained
        <4>2. CASE m.op = "spawn" \/ m.op = "destroy"
          BY <4>2, <1>5, <1>6 DEF Final, After
        <4>3. CASE m.op = "respawn"
          BY <4>1, <4>3, <1>5, <1>6 DEF Final, After
        <4> QED
          BY <4>2, <4>3, <1>5
      <3> QED
        BY <1>6, <3>1, <3>3, <3>4 DEF m
    <2>5. \A q \in Here \ late' : Chain(down'[q], Final(q)', Meant(q)')
      BY <1>1, <1>6, <2>2, <2>3, <2>4 DEF VehicleInv, Chained, Here
    <2> QED
      BY <1>4, <2>1, <2>5 DEF Chained
  <1>9. Settled'
    <2> SUFFICES ASSUME life # 0, respawned # "now", NEW q \in Here, q \notin slow \cup late'
                 PROVE  /\ shows'[q] \in {0, life}
                        /\ due'[q] \in {0, life}
                        /\ \A l \in DOMAIN down'[q] :
                              down'[q][l].op # "destroy" /\ down'[q][l].life = life
      BY <1>1, <1>4 DEF Settled
    <2>1. q \in Players /\ q \notin late
      BY <1>1 DEF Here
    <2>2. /\ shows[q] \in {0, life}
          /\ due[q] \in {0, life}
          /\ \A l \in DOMAIN down[q] : down[q][l].op # "destroy" /\ down[q][l].life = life
      BY <2>1 DEF VehicleInv, Settled
    <2>3. CASE q # p
      BY <1>6, <2>1, <2>2, <2>3
    <2>4. CASE q = p
      <3>1. k = 1
        BY <1>1, <2>4
      <3>2. m.op # "destroy" /\ m.life = life
        BY <2>2, <2>4 DEF m, s
      <3>3. shows'[p] \in {0, life} /\ due'[p] \in {0, life}
        BY <1>5, <1>6, <2>2, <2>4, <3>2
      <3>4. /\ RemoveAt(s, k) \in Seq(Down)
            /\ Len(RemoveAt(s, k)) = Len(s) - 1
            /\ \A l \in 1 .. Len(s) - 1 : RemoveAt(s, k)[l] = s[l + 1]
        BY <1>2, <3>1, Removed DEF s
      <3>5. DOMAIN RemoveAt(s, k) = 1 .. Len(s) - 1
        BY <3>4, LenProperties
      <3>6. \A l \in 1 .. Len(s) - 1 : l + 1 \in DOMAIN s
        BY <1>2
      <3>7. \A l \in DOMAIN RemoveAt(s, k) :
                RemoveAt(s, k)[l].op # "destroy" /\ RemoveAt(s, k)[l].life = life
        BY <2>2, <2>4, <3>4, <3>5, <3>6 DEF s
      <3> QED
        BY <1>6, <2>4, <3>3, <3>7
    <2> QED
      BY <2>3, <2>4
  <1>10. Driven'
    BY <1>1 DEF VehicleInv, Driven
  <1> QED
    BY <1>7, <1>8, <1>9, <1>10 DEF VehicleInv

LEMMA RebornKeeps == ASSUME VehicleInv, TypeOK', NEW p \in Players, Reborn(p) PROVE VehicleInv'
  <1>1. /\ UNCHANGED <<life, respawned, occupied, driver, stale, wheel, place, down, late,
                       slow, untold>>
        /\ due[p] # 0
    BY DEF Reborn, vehicleVars, recordVars
  <1>2. p \in Here /\ Here' = Here
    BY <1>1 DEF VehicleInv, GoneHaveNothing, Here
  <1>3. /\ shows'[p] = due[p] /\ due'[p] = 0
        /\ \A q \in Players \ {p} : shows'[q] = shows[q] /\ due'[q] = due[q]
    BY DEF Reborn, VehicleInv, TypeOK
  <1>4. GoneHaveNothing' /\ Driven'
    BY <1>1, <1>2, <1>3 DEF VehicleInv, GoneHaveNothing, Driven
  <1>5. Chained'
    <2>1. \A q \in Players : Final(q)' = Final(q) /\ Meant(q)' = Meant(q)
      BY <1>1, <1>3 DEF Final, Meant
    <2>2. \A q \in Players : due'[q] # 0 => shows'[q] # 0
      BY <1>3 DEF VehicleInv, Chained
    <2>3. \A q \in Here : q \in Players
      BY DEF Here
    <2> QED
      BY <1>1, <1>2, <2>1, <2>2, <2>3 DEF VehicleInv, Chained
  <1>6. Settled'
    BY <1>1, <1>2, <1>3 DEF VehicleInv, Settled, Here
  <1> QED
    BY <1>4, <1>5, <1>6 DEF VehicleInv

LEMMA InvStep == VehicleInv /\ [Next]_vars => VehicleInv'
  <1> SUFFICES ASSUME VehicleInv, [Next]_vars PROVE VehicleInv'
    OBVIOUS
  <1>0. TypeOK'
    BY TypeStep DEF VehicleInv
  <1>1. CASE CreateVehicle \/ AddStaticVehicle
    BY <1>0, <1>1, NewKeeps
  <1>2. CASE Delete
    BY <1>0, <1>2, DeleteKeeps
  <1>3. CASE SetVehicleToRespawn
    BY <1>0, <1>3, 2 \in 1 .. 2, RespawnKeeps DEF SetVehicleToRespawn
  <1>4. CASE CheckForIdleRespawn
    BY <1>0, <1>4, 1 \in 1 .. 2, RespawnKeeps DEF CheckForIdleRespawn
  <1>5. CASE RespawnDead
    BY <1>0, <1>5, 1 \in 1 .. 2, RespawnKeeps DEF RespawnDead
  <1>6. CASE BeginDeath \/ EndDeath \/ Mature \/ Pass \/ UNCHANGED vars
    <2>1. /\ UNCHANGED <<life, occupied, driver, stale, wheel, place, netVars, slow>>
          /\ respawned' = "now" <=> respawned = "now"
      BY <1>6 DEF BeginDeath, EndDeath, Mature, Pass, vars, vehicleVars, recordVars
    <2>2. Here' = Here /\ Driven'
      BY <2>1 DEF Here, VehicleInv, Driven
    <2> QED
      BY <1>0, <2>1, <2>2, QuietKeeps
  <1>7. CASE Settle
    BY <1>0, <1>7, SettleKeeps
  <1>8. ASSUME NEW p \in Players, PutPlayerInVehicle(p) PROVE VehicleInv'
    <2>1. /\ UNCHANGED <<life, occupied, stale, place, respawned, netVars, slow>>
          /\ driver' = p /\ wheel' = None /\ p # None
      BY <1>8, VehicleAssumption DEF PutPlayerInVehicle
    <2>2. Here' = Here /\ Driven'
      BY <2>1 DEF Here, VehicleInv, Driven
    <2> QED
      BY <1>0, <2>1, <2>2, QuietKeeps
  <1>9. ASSUME NEW p \in Players, NEW m \in Packets(p), Receive(p, m) PROVE VehicleInv'
    BY <1>0, <1>9, ReceiveKeeps
  <1>10. ASSUME NEW p \in Players, Leave(p) PROVE VehicleInv'
    BY <1>0, <1>10, LeaveKeeps
  <1>11. ASSUME NEW p \in Players, Join(p) PROVE VehicleInv'
    BY <1>0, <1>11, JoinKeeps
  <1>12. ASSUME NEW p \in Players, Reborn(p) PROVE VehicleInv'
    BY <1>0, <1>12, RebornKeeps
  <1>13. ASSUME NEW p \in Players, NEW k \in DOMAIN down[p], Deliver(p, k) PROVE VehicleInv'
    BY <1>0, <1>13, DeliverKeeps
  <1> QED
    BY <1>1, <1>2, <1>3, <1>4, <1>5, <1>6, <1>7, <1>8, <1>9, <1>10, <1>11, <1>12, <1>13
       DEF Next

-----------------------------------------------------------------------------
(* Theorems. *)

\* Five seconds after a respawn the server believes nothing about an earlier life
\* that comes from a client who has caught up by then.
THEOREM AlwaysDrivenInThisLife == Spec => []DrivenInThisLife
  <1>1. VehicleInv => DrivenInThisLife
    BY DEF VehicleInv, Driven, DrivenInThisLife
  <1> QED
    BY <1>1, InvInit, InvStep, PTL DEF Spec

\* The idle check never takes a vehicle from under its last driver, unless a script
\* has chosen another one.
THEOREM WheelAlwaysKeepsCar == Spec => WheelKeepsCar
  <1>1. VehicleInv /\ [Next]_vars =>
            [CheckForIdleRespawn => wheel = None \/ place[wheel] # "driver"]_vars
    BY DEF VehicleInv, Driven, CheckForIdleRespawn, IsOccupied
  <1> QED
    BY <1>1, InvInit, InvStep, PTL DEF Spec, WheelKeepsCar

\* A client that has got what was sent to it, in its order, and has done it, shows the
\* vehicle as the server has it, through any number of spawns, respawns and
\* destructions; or never shows one that it was not told of.
THEOREM ClientsAlwaysCatchUp == Spec => []ClientsCatchUp
  <1>1. VehicleInv => ClientsCatchUp
    <2> SUFFICES ASSUME VehicleInv, NEW p \in Here \ late, down[p] = <<>>, due[p] = 0
                 PROVE  shows[p] = Meant(p)
      BY DEF ClientsCatchUp, Meant
    <2>1. Chain(<<>>, shows[p], Meant(p)) /\ shows[p] \in Nat
      BY VehicleAssumption DEF VehicleInv, Chained, Final, TypeOK, Here
    <2> QED
      BY <2>1, ChainEmpty
  <1> QED
    BY <1>1, InvInit, InvStep, PTL DEF Spec

=============================================================================
