-------------------------- MODULE ObjectPoolProofs --------------------------
(***************************************************************************)
(* Proofs about ObjectPool for any players, any number of object ids and   *)
(* any distances: the types, the bookkeeping of the shared ids, what the   *)
(* RPCs sent to each client amount to, and that a client which got them in *)
(* their order shows the objects it should.                                *)
(***************************************************************************)
EXTENDS ObjectPool, SequenceTheorems, TLAPS

(* Objects and what happens to them. *)

\* Creating, moving, stopping and ticking an object make an object again.
LEMMA ObjectTyped ==
    /\ \A p \in Place : AtRest(p) \in Object
    /\ \A o \in Object, t \in Place : Moving(o, t) \in Object
    /\ \A o \in Object : Stopped(o) \in Object /\ o.pos \in Place /\ Goal(o) \in Place
  BY DEF AtRest, Moving, Stopped, Goal, Object

LEMMA StepTyped ==
    ASSUME NEW o \in Object
    PROVE  Step(o) \in Object
  <1>1. o.pos \in Place /\ o.target \in Place /\ o.moving \in BOOLEAN
    BY DEF Object
  <1>2. CASE o.target \in o.pos - 1 .. o.pos + 1
    BY <1>1, <1>2 DEF Step, AtRest, Object
  <1>3. CASE o.target \notin o.pos - 1 .. o.pos + 1
    <2>1. CASE o.target > o.pos
      <3>1. o.pos + 1 \in Place
        BY <1>1, <2>1, ObjectAssumption DEF Place
      <3> QED
        BY <1>1, <1>3, <2>1, <3>1 DEF Step, Object
    <2>2. CASE ~(o.target > o.pos)
      <3>1. o.pos - 1 \in Place
        BY <1>1, <1>3, <2>2, ObjectAssumption DEF Place
      <3> QED
        BY <1>1, <1>3, <2>2, <3>1 DEF Step, Object
    <2> QED
      BY <2>1, <2>2
  <1> QED
    BY <1>2, <1>3

\* A step of a moving object does not change where it is going.
LEMMA StepKeepsGoal ==
    ASSUME NEW o \in Object, o.moving
    PROVE  Goal(Step(o)) = Goal(o)
  <1>1. CASE o.target \in o.pos - 1 .. o.pos + 1
    BY <1>1 DEF Step, Goal, AtRest, Object
  <1>2. CASE o.target \notin o.pos - 1 .. o.pos + 1
    BY <1>2 DEF Step, Goal, Object
  <1> QED
    BY <1>1, <1>2

\* NULL is neither an object nor a place.
LEMMA NullIsNothing == NoObject \notin Object /\ NoObject \notin Place
  BY ObjectAssumption DEF Object, Place

-----------------------------------------------------------------------------
(* The network. *)

NetTyped ==
    /\ wire \in [Players -> [Objects -> Seq(RPC)]]
    /\ view \in [Players -> [Objects -> Place \cup {NoObject}]]
    /\ told \in [Players -> [Objects -> Place \cup {NoObject}]]
    /\ overtaken \in [Players -> SUBSET Objects]

\* The RPCs of w lead a client from v to t, one by one.
Chain(w, v, t) ==
    /\ \A k \in DOMAIN w :
          w[k].after = Effect(w[k].op, w[k].place, IF k = 1 THEN v ELSE w[k - 1].after)
    /\ t = IF w = <<>> THEN v ELSE w[Len(w)].after

\* Where no RPC overtook another, those under way lead to what was meant.
Chained ==
    \A i \in Players, j \in Objects :
        j \notin overtaken[i] => Chain(wire[i][j], view[i][j], told[i][j])

NetInv == NetTyped /\ Chained

LEMMA ChainGrows ==
    ASSUME NEW w \in Seq(RPC), NEW v, NEW t, Chain(w, v, t),
           NEW r \in RPC, r.after = Effect(r.op, r.place, t)
    PROVE  Chain(Append(w, r), v, r.after)
  <1> DEFINE u == Append(w, r)
  <1>1. /\ u \in Seq(RPC) /\ u # <<>> /\ Len(u) = Len(w) + 1 /\ Len(w) \in Nat
        /\ \A k \in 1 .. Len(w) : u[k] = w[k]
        /\ u[Len(w) + 1] = r
    BY AppendProperties, LenProperties
  <1>2. DOMAIN u = 1 .. Len(w) + 1 /\ DOMAIN w = 1 .. Len(w)
    BY <1>1, LenProperties
  <1> HIDE DEF u
  <1>3. ASSUME NEW k \in DOMAIN u
        PROVE  u[k].after = Effect(u[k].op, u[k].place, IF k = 1 THEN v ELSE u[k - 1].after)
    <2>1. CASE k \in 1 .. Len(w)
      <3>1. k # 1 => k - 1 \in 1 .. Len(w)
        BY <2>1
      <3> QED
        BY <1>1, <1>2, <2>1, <3>1 DEF Chain
    <2>2. CASE k = Len(w) + 1
      <3>1. CASE Len(w) = 0
        <4>1. w = <<>>
          BY <3>1, EmptySeq
        <4> QED
          BY <1>1, <2>2, <3>1, <4>1 DEF Chain
      <3>2. CASE Len(w) # 0
        <4>1. w # <<>> /\ k # 1 /\ k - 1 = Len(w) /\ k - 1 \in 1 .. Len(w)
          BY <1>1, <2>2, <3>2, EmptySeq
        <4> QED
          BY <1>1, <2>2, <4>1 DEF Chain
      <3> QED
        BY <3>1, <3>2
    <2> QED
      BY <1>1, <1>2, <2>1, <2>2
  <1> QED
    BY <1>1, <1>3 DEF Chain, u

LEMMA Removed ==
    ASSUME NEW w \in Seq(RPC), NEW k \in DOMAIN w
    PROVE  /\ RemoveAt(w, k) \in Seq(RPC)
           /\ k = 1 => /\ Len(RemoveAt(w, k)) = Len(w) - 1
                       /\ \A l \in 1 .. Len(w) - 1 : RemoveAt(w, k)[l] = w[l + 1]
  <1>1. Len(w) \in Nat /\ DOMAIN w = 1 .. Len(w) /\ \A l \in 1 .. Len(w) : w[l] \in RPC
    BY LenProperties, ElementOfSeq
  <1>2. k \in 1 .. Len(w)
    BY <1>1
  <1>3. /\ SubSeq(w, 1, k - 1) \in Seq(RPC)
        /\ Len(SubSeq(w, 1, k - 1)) = IF 1 <= k - 1 THEN k - 1 ELSE 0
    <2>1. 1 \in Int /\ k - 1 \in Int /\ \A l \in 1 .. k - 1 : w[l] \in RPC
      BY <1>1, <1>2
    <2>2. k - 1 - 1 + 1 = k - 1
      BY <2>1
    <2> QED
      BY <2>1, <2>2, SubSeqProperties
  <1>4. /\ SubSeq(w, k + 1, Len(w)) \in Seq(RPC)
        /\ Len(SubSeq(w, k + 1, Len(w))) = Len(w) - k
        /\ \A l \in 1 .. Len(w) - k : SubSeq(w, k + 1, Len(w))[l] = w[k + l]
    <2>1. k + 1 \in Int /\ Len(w) \in Int /\ \A l \in k + 1 .. Len(w) : w[l] \in RPC
      BY <1>1, <1>2
    <2>2. /\ Len(w) - (k + 1) + 1 = Len(w) - k
          /\ (IF k + 1 <= Len(w) THEN Len(w) - (k + 1) + 1 ELSE 0) = Len(w) - k
      BY <1>1, <1>2
    <2>3. \A l \in 1 .. Len(w) - k : k + 1 + l - 1 = k + l
      BY <1>1, <1>2
    <2>4. /\ SubSeq(w, k + 1, Len(w)) \in Seq(RPC)
          /\ Len(SubSeq(w, k + 1, Len(w)))
                = IF k + 1 <= Len(w) THEN Len(w) - (k + 1) + 1 ELSE 0
          /\ \A l \in 1 .. Len(w) - (k + 1) + 1 :
                SubSeq(w, k + 1, Len(w))[l] = w[k + 1 + l - 1]
      BY <2>1, SubSeqProperties
    <2> QED
      BY <2>2, <2>3, <2>4
  <1>5. RemoveAt(w, k) \in Seq(RPC)
    BY <1>3, <1>4, ConcatProperties DEF RemoveAt
  <1>6. k = 1 => RemoveAt(w, k) = SubSeq(w, k + 1, Len(w))
    <2> SUFFICES ASSUME k = 1 PROVE RemoveAt(w, k) = SubSeq(w, k + 1, Len(w))
      OBVIOUS
    <2>1. SubSeq(w, 1, k - 1) = <<>>
      BY <1>3, EmptySeq
    <2> QED
      BY <1>4, <2>1, ConcatEmptySeq DEF RemoveAt
  <1>7. ASSUME k = 1
        PROVE  /\ Len(RemoveAt(w, k)) = Len(w) - 1
               /\ \A l \in 1 .. Len(w) - 1 : RemoveAt(w, k)[l] = w[l + 1]
    <2>1. \A l \in 1 .. Len(w) - 1 : 1 + l = l + 1
      OBVIOUS
    <2> QED
      BY <1>4, <1>6, <1>7, <2>1
  <1> QED
    BY <1>5, <1>7

LEMMA ChainShrinks ==
    ASSUME NEW w \in Seq(RPC), NEW v, NEW t, Chain(w, v, t), 1 \in DOMAIN w
    PROVE  Chain(RemoveAt(w, 1), Effect(w[1].op, w[1].place, v), t)
  <1> DEFINE u == RemoveAt(w, 1)
  <1>1. /\ Len(w) \in Nat /\ 1 <= Len(w) /\ DOMAIN w = 1 .. Len(w)
        /\ u \in Seq(RPC) /\ Len(u) = Len(w) - 1 /\ \A l \in 1 .. Len(w) - 1 : u[l] = w[l + 1]
    BY Removed, LenProperties
  <1>2. DOMAIN u = 1 .. Len(w) - 1
    BY <1>1, LenProperties
  <1> HIDE DEF u
  <1>3. w # <<>> /\ w[1].after = Effect(w[1].op, w[1].place, v) /\ t = w[Len(w)].after
    BY <1>1, EmptySeq DEF Chain
  <1>4. ASSUME NEW l \in DOMAIN u
        PROVE  u[l].after = Effect(u[l].op, u[l].place,
                                   IF l = 1 THEN w[1].after ELSE u[l - 1].after)
    <2>1. l \in 1 .. Len(w) - 1 /\ l + 1 \in DOMAIN w /\ l + 1 # 1 /\ l + 1 - 1 = l
      BY <1>1, <1>2
    <2>2. w[l + 1].after = Effect(w[l + 1].op, w[l + 1].place, w[l].after)
      BY <2>1 DEF Chain
    <2>3. u[l] = w[l + 1]
      BY <1>1, <2>1
    <2>4. l # 1 => u[l - 1] = w[l]
      <3> SUFFICES ASSUME l # 1 PROVE u[l - 1] = w[l]
        OBVIOUS
      <3>1. l - 1 \in 1 .. Len(w) - 1 /\ l - 1 + 1 = l
        BY <1>1, <2>1
      <3> QED
        BY <1>1, <3>1
    <2> QED
      BY <2>2, <2>3, <2>4
  <1>5. t = IF u = <<>> THEN w[1].after ELSE u[Len(u)].after
    <2>1. CASE Len(w) = 1
      BY <1>1, <1>3, <2>1, EmptySeq
    <2>2. CASE Len(w) # 1
      <3>1. Len(w) - 1 \in 1 .. Len(w) - 1 /\ Len(w) - 1 + 1 = Len(w) /\ u # <<>>
        BY <1>1, <2>2, EmptySeq
      <3> QED
        BY <1>1, <1>3, <3>1
    <2> QED
      BY <2>1, <2>2
  <1> QED
    BY <1>3, <1>4, <1>5 DEF Chain, u

LEMMA EffectTyped ==
    ASSUME NEW op \in {"create", "destroy", "goto"},
           NEW p \in Place \cup {NoObject}, NEW v \in Place \cup {NoObject}
    PROVE  Effect(op, p, v) \in Place \cup {NoObject}
  BY DEF Effect

\* Whatever is sent to whomever.
LEMMA TellKeepsNet ==
    ASSUME NetInv, NEW S, NEW J, NEW op \in {"create", "destroy", "goto"}, NEW place,
           \A j \in J : place[j] \in Place \cup {NoObject},
           Tell(S, J, op, place)
    PROVE  NetInv'
  <1> DEFINE Meant(i, j) == Effect(op, place[j], told[i][j])
             R(i, j) == [op |-> op, place |-> place[j], after |-> Meant(i, j)]
  <1>1. \A i \in Players, j \in Objects : j \in J =>
            Meant(i, j) \in Place \cup {NoObject} /\ R(i, j) \in RPC
    <2> SUFFICES ASSUME NEW i \in Players, NEW j \in Objects, j \in J
                 PROVE  Meant(i, j) \in Place \cup {NoObject} /\ R(i, j) \in RPC
      OBVIOUS
    <2>1. told[i][j] \in Place \cup {NoObject} /\ place[j] \in Place \cup {NoObject}
      BY DEF NetInv, NetTyped
    <2>2. Meant(i, j) \in Place \cup {NoObject}
      BY <2>1, EffectTyped
    <2> QED
      BY <2>1, <2>2 DEF RPC
  <1>2. /\ told' = [i \in Players |-> [j \in Objects |->
               IF i \in S /\ j \in J THEN Meant(i, j) ELSE told[i][j]]]
        /\ wire' = [i \in Players |-> [j \in Objects |->
               IF i \in S /\ j \in J THEN Append(wire[i][j], R(i, j)) ELSE wire[i][j]]]
        /\ UNCHANGED <<view, overtaken>>
    BY DEF Tell
  <1>3. \A i \in Players, j \in Objects :
            /\ R(i, j).op = op /\ R(i, j).place = place[j] /\ R(i, j).after = Meant(i, j)
            /\ Meant(i, j) = Effect(op, place[j], told[i][j])
    OBVIOUS
  <1> HIDE DEF Meant, R
  <1>4. ASSUME NEW i \in Players, NEW j \in Objects
        PROVE  /\ wire'[i][j] \in Seq(RPC)
               /\ told'[i][j] \in Place \cup {NoObject}
               /\ j \notin overtaken[i] => Chain(wire'[i][j], view[i][j], told'[i][j])
    <2>1. /\ wire[i][j] \in Seq(RPC) /\ told[i][j] \in Place \cup {NoObject}
          /\ j \notin overtaken[i] => Chain(wire[i][j], view[i][j], told[i][j])
      BY DEF NetInv, NetTyped, Chained
    <2>2. CASE i \in S /\ j \in J
      <3>1. wire'[i][j] = Append(wire[i][j], R(i, j)) /\ told'[i][j] = R(i, j).after
        BY <1>2, <1>3, <2>2
      <3>2. R(i, j) \in RPC /\ R(i, j).after = Effect(R(i, j).op, R(i, j).place, told[i][j])
        BY <1>1, <1>3, <2>2
      <3>3. wire'[i][j] \in Seq(RPC)
        BY <2>1, <3>1, <3>2, AppendProperties
      <3>4. told'[i][j] \in Place \cup {NoObject}
        BY <1>1, <1>3, <2>2, <3>1
      <3> QED
        BY <2>1, <3>1, <3>2, <3>3, <3>4, ChainGrows
    <2>3. CASE ~(i \in S /\ j \in J)
      BY <1>2, <2>1, <2>3
    <2> QED
      BY <2>2, <2>3
  <1>5. NetTyped'
    <2>1. /\ wire' = [i \in Players |-> [j \in Objects |-> wire'[i][j]]]
          /\ told' = [i \in Players |-> [j \in Objects |-> told'[i][j]]]
      BY <1>2
    <2> QED
      BY <1>2, <1>4, <2>1 DEF NetInv, NetTyped
  <1> QED
    BY <1>2, <1>4, <1>5 DEF NetInv, Chained

LEMMA DisconnectKeepsNet ==
    ASSUME NetInv, NEW i \in Players, Disconnect(i)
    PROVE  NetInv'
  <1>1. NetTyped'
    <2>1. Silence \in [Objects -> Seq(RPC)] /\ Empty \in [Objects -> Place \cup {NoObject}]
      BY DEF Silence, Empty
    <2> QED
      BY <2>1 DEF Disconnect, NetInv, NetTyped
  <1>2. ASSUME NEW m \in Players, NEW j \in Objects, j \notin overtaken'[m]
        PROVE  Chain(wire'[m][j], view'[m][j], told'[m][j])
    <2>1. CASE m = i
      <3>1. wire'[m][j] = <<>> /\ view'[m][j] = NoObject /\ told'[m][j] = NoObject
        BY <2>1 DEF Disconnect, NetInv, NetTyped, Silence, Empty
      <3> QED
        BY <3>1 DEF Chain
    <2>2. CASE m # i
      <3>1. /\ wire'[m] = wire[m] /\ view'[m] = view[m] /\ told'[m] = told[m]
            /\ overtaken'[m] = overtaken[m]
        BY <2>2 DEF Disconnect, NetInv, NetTyped
      <3> QED
        BY <1>2, <3>1 DEF NetInv, Chained
    <2> QED
      BY <2>1, <2>2
  <1> QED
    BY <1>1, <1>2 DEF NetInv, Chained

LEMMA DeliverKeepsNet ==
    ASSUME NetInv, NEW i \in Players, NEW j \in Objects, NEW k, Deliver(i, j, k)
    PROVE  NetInv'
  <1> DEFINE w == wire[i][j]
             e == Effect(w[k].op, w[k].place, view[i][j])
  <1>1. w \in Seq(RPC) /\ k \in DOMAIN w /\ view[i][j] \in Place \cup {NoObject}
    BY DEF Deliver, NetInv, NetTyped
  <1>2. w[k] \in RPC /\ RemoveAt(w, k) \in Seq(RPC)
    BY <1>1, Removed, ElementOfSeq, LenProperties
  <1>3. e \in Place \cup {NoObject}
    BY <1>1, <1>2, EffectTyped DEF RPC
  <1>4. /\ view' = [view EXCEPT ![i][j] = e]
        /\ wire' = [wire EXCEPT ![i][j] = RemoveAt(w, k)]
        /\ overtaken' = IF k = 1 THEN overtaken ELSE [overtaken EXCEPT ![i] = @ \cup {j}]
        /\ told' = told
    BY DEF Deliver
  <1>5. k = 1 /\ j \notin overtaken[i] => Chain(RemoveAt(w, k), e, told[i][j])
    BY <1>1, ChainShrinks DEF NetInv, Chained
  <1> HIDE DEF w, e
  <1>6. NetTyped'
    BY <1>2, <1>3, <1>4 DEF NetInv, NetTyped
  <1>7. ASSUME NEW m \in Players, NEW l \in Objects, l \notin overtaken'[m]
        PROVE  Chain(wire'[m][l], view'[m][l], told'[m][l])
    <2>1. l \notin overtaken[m] /\ (m = i /\ l = j => k = 1)
      BY <1>4, <1>7 DEF NetInv, NetTyped
    <2>2. CASE m = i /\ l = j
      <3>1. wire'[m][l] = RemoveAt(w, k) /\ view'[m][l] = e
        BY <1>4, <2>2 DEF NetInv, NetTyped
      <3> QED
        BY <1>4, <1>5, <2>1, <2>2, <3>1
    <2>3. CASE ~(m = i /\ l = j)
      <3>1. wire'[m][l] = wire[m][l] /\ view'[m][l] = view[m][l]
        BY <1>4, <2>3 DEF NetInv, NetTyped
      <3> QED
        BY <1>4, <2>1, <3>1 DEF NetInv, Chained
    <2> QED
      BY <2>2, <2>3
  <1> QED
    BY <1>6, <1>7 DEF NetInv, Chained

\* A client that is in step shows what it was told.
LEMMA InStepShows ==
    ASSUME NetInv, NEW i \in Players, NEW j \in Objects, InStep(i, j)
    PROVE  view[i][j] = told[i][j]
  BY DEF NetInv, Chained, Chain, InStep

\* What the RPCs for one object come to.
LEMMA SendTold ==
    ASSUME told \in [Players -> [Objects -> Place \cup {NoObject}]],
           NEW S, NEW j \in Objects, NEW p, Send(S, j, p),
           NEW m \in Players, NEW k \in Objects
    PROVE  told'[m][k] = IF m \in S /\ k = j /\ told[m][j] # NoObject THEN p ELSE told[m][k]
  BY DEF Send, Tell, Effect

LEMMA HideTold ==
    ASSUME told \in [Players -> [Objects -> Place \cup {NoObject}]],
           NEW S, NEW J, Hide(S, J),
           NEW m \in Players, NEW k \in Objects
    PROVE  told'[m][k] = IF m \in S /\ k \in J THEN NoObject ELSE told[m][k]
  BY DEF Hide, Tell, Effect

\* Changing one personal object leaves all others alone.
LEMMA SetPersonal ==
    ASSUME personal \in [Players -> [Objects -> Object \cup {NoObject}]],
           NEW i \in Players, NEW j \in Objects, NEW o \in Object \cup {NoObject}
    PROVE  /\ [personal EXCEPT ![i][j] = o] \in [Players -> [Objects -> Object \cup {NoObject}]]
           /\ \A m \in Players, k \in Objects :
                 [personal EXCEPT ![i][j] = o][m][k] =
                     IF m = i /\ k = j THEN o ELSE personal[m][k]
  OBVIOUS

-----------------------------------------------------------------------------
(* Types. *)

LEMMA EmptyTyped ==
    /\ Empty \in [Objects -> Object \cup {NoObject}]
    /\ Empty \in [Objects -> Place \cup {NoObject}]
    /\ \A j \in Objects : Empty[j] = NoObject
  BY DEF Empty

\* The server's part of TypeOK.
PoolTyped ==
    /\ stage \in {"running", "ending", "down"}
    /\ slot \in SUBSET Players
    /\ pending \in SUBSET Players
    /\ global \in [Objects -> Object \cup {NoObject}]
    /\ personal \in [Players -> [Objects -> Object \cup {NoObject}]]
    /\ playersObject \in SUBSET Objects

LEMMA TypeParts == TypeOK <=> PoolTyped /\ NetTyped
  BY DEF TypeOK, PoolTyped, NetTyped

LEMMA InitTyped == Init => TypeOK /\ NetInv
  <1> SUFFICES ASSUME Init PROVE TypeOK /\ NetInv
    OBVIOUS
  <1>1. PoolTyped
    BY EmptyTyped DEF Init, PoolTyped
  <1>2. NetTyped
    BY EmptyTyped DEF Init, NetTyped, Silence
  <1>3. \A i \in Players, j \in Objects :
            wire[i][j] = <<>> /\ view[i][j] = NoObject /\ told[i][j] = NoObject
    BY EmptyTyped DEF Init, Silence
  <1>4. Chained
    BY <1>3 DEF Chained, Chain
  <1> QED
    BY <1>1, <1>2, <1>4, TypeParts DEF NetInv

LEMMA PlayersTyped ==
    ASSUME TypeOK,
           \/ \E i \in Players : New(i) \/ InitForPlayer(i) \/ Delete(i)
           \/ BeginShutdown \/ EndShutdown \/ ReInit
    PROVE  PoolTyped'
  <1> USE EmptyTyped DEF TypeOK, PoolTyped
  <1>1. CASE \E i \in Players : New(i)
    BY <1>1 DEF New, poolVars
  <1>2. CASE \E i \in Players : InitForPlayer(i)
    BY <1>2 DEF InitForPlayer, poolVars
  <1>3. CASE \E i \in Players : Delete(i)
    BY <1>3 DEF Delete
  <1>4. CASE BeginShutdown
    BY <1>4 DEF BeginShutdown, poolVars
  <1>5. CASE EndShutdown
    BY <1>5 DEF EndShutdown
  <1>6. CASE ReInit
    BY <1>6 DEF ReInit, poolVars
  <1> QED
    BY <1>1, <1>2, <1>3, <1>4, <1>5, <1>6

LEMMA PlayersKeepNet ==
    ASSUME TypeOK, NetInv,
           \/ \E i \in Players : New(i) \/ InitForPlayer(i) \/ Delete(i)
           \/ BeginShutdown \/ EndShutdown \/ ReInit
    PROVE  NetInv'
  <1>1. ASSUME UNCHANGED netVars PROVE NetInv'
    BY <1>1 DEF netVars, NetInv, NetTyped, Chained
  <1>2. ASSUME NEW i \in Players, InitForPlayer(i), stage = "running" /\ i \in slot
        PROVE  NetInv'
    <2> DEFINE J == {j \in Objects : global[j] # NoObject}
               place == [j \in J |-> global[j].pos]
    <2>1. Tell({i}, J, "create", place)
      BY <1>2 DEF InitForPlayer
    <2>2. \A j \in J : place[j] \in Place \cup {NoObject}
      BY ObjectTyped DEF TypeOK
    <2> HIDE DEF J, place
    <2> QED
      BY <2>1, <2>2, TellKeepsNet
  <1>3. CASE BeginShutdown
    <2>1. Tell(Players, Objects, "destroy", Empty)
      BY <1>3 DEF BeginShutdown, Hide
    <2> QED
      BY <2>1, EmptyTyped, TellKeepsNet
  <1>4. CASE \E i \in Players : Delete(i)
    BY <1>4, DisconnectKeepsNet DEF Delete
  <1>5. CASE \E i \in Players : New(i) \/ (InitForPlayer(i) /\ ~(stage = "running" /\ i \in slot))
    BY <1>1, <1>5 DEF New, InitForPlayer
  <1>6. CASE EndShutdown \/ ReInit
    BY <1>1, <1>6 DEF EndShutdown, ReInit
  <1> QED
    BY <1>2, <1>3, <1>4, <1>5, <1>6

LEMMA NativesTyped ==
    ASSUME TypeOK, Natives
    PROVE  PoolTyped'
  <1> USE ObjectTyped DEF TypeOK, PoolTyped
  <1>1. ASSUME NEW id \in Objects, NEW p \in Place, CreateObject(id, p) PROVE PoolTyped'
    BY <1>1 DEF CreateObject
  <1>2. ASSUME NEW j \in Objects, DestroyObject(j) PROVE PoolTyped'
    BY <1>2 DEF DestroyObject
  <1>3. ASSUME NEW j \in Objects, NEW t \in Place, MoveObject(j, t) PROVE PoolTyped'
    BY <1>3 DEF MoveObject
  <1>4. ASSUME NEW j \in Objects, StopObject(j) PROVE PoolTyped'
    <2>1. Stopped(global[j]) \in Object
      BY <1>4 DEF StopObject
    <2> QED
      BY <1>4, <2>1 DEF StopObject
  <1>5. ASSUME NEW i \in Players, NEW id \in Objects, NEW p \in Place,
               CreatePlayerObject(i, id, p) PROVE PoolTyped'
    <2>1. personal' \in [Players -> [Objects -> Object \cup {NoObject}]]
      BY <1>5, SetPersonal DEF CreatePlayerObject
    <2> QED
      BY <1>5, <2>1 DEF CreatePlayerObject
  <1>6. ASSUME NEW i \in Players, NEW j \in Objects, DestroyPlayerObject(i, j) PROVE PoolTyped'
    <2>1. personal' \in [Players -> [Objects -> Object \cup {NoObject}]]
      BY <1>6, SetPersonal DEF DestroyPlayerObject
    <2> QED
      BY <1>6, <2>1 DEF DestroyPlayerObject
  <1>7. ASSUME NEW i \in Players, NEW j \in Objects, NEW t \in Place,
               MovePlayerObject(i, j, t) PROVE PoolTyped'
    <2>1. personal[i][j] \in Object
      BY <1>7 DEF MovePlayerObject
    <2>2. personal' \in [Players -> [Objects -> Object \cup {NoObject}]]
      BY <1>7, <2>1, SetPersonal DEF MovePlayerObject
    <2> QED
      BY <1>7, <2>2 DEF MovePlayerObject
  <1>8. ASSUME NEW i \in Players, NEW j \in Objects, StopPlayerObject(i, j) PROVE PoolTyped'
    <2>1. Stopped(personal[i][j]) \in Object
      BY <1>8 DEF StopPlayerObject
    <2>2. personal' \in [Players -> [Objects -> Object \cup {NoObject}]]
      BY <1>8, <2>1, SetPersonal DEF StopPlayerObject
    <2> QED
      BY <1>8, <2>2 DEF StopPlayerObject
  <1> QED
    BY <1>1, <1>2, <1>3, <1>4, <1>5, <1>6, <1>7, <1>8 DEF Natives

\* One of the three RPCs about one object.
LEMMA OneKeepsNet ==
    ASSUME NetInv, NEW S, NEW j, NEW p \in Place,
           Show(S, j, p) \/ Send(S, j, p) \/ Hide(S, {j}), j \in Objects
    PROVE  NetInv'
  <1> DEFINE place == [k \in {j} |-> p]
  <1>1. \A k \in {j} : place[k] \in Place \cup {NoObject}
    OBVIOUS
  <1>2. Tell(S, {j}, "create", place) \/ Tell(S, {j}, "goto", place)
            \/ Tell(S, {j}, "destroy", Empty)
    BY DEF Show, Send, Hide
  <1>3. \A k \in {j} : Empty[k] \in Place \cup {NoObject}
    BY EmptyTyped
  <1> HIDE DEF place
  <1> QED
    BY <1>1, <1>2, <1>3, TellKeepsNet

LEMMA NativesKeepNet ==
    ASSUME TypeOK, NetInv, Natives
    PROVE  NetInv'
  <1>0. 0 \in Place
    BY ObjectAssumption DEF Place
  <1>1. ASSUME NEW id \in Objects, NEW p \in Place, CreateObject(id, p) PROVE NetInv'
    BY <1>1, OneKeepsNet DEF CreateObject
  <1>2. ASSUME NEW j \in Objects, DestroyObject(j) PROVE NetInv'
    BY <1>0, <1>2, OneKeepsNet DEF DestroyObject
  <1>3. ASSUME NEW j \in Objects, NEW t \in Place, MoveObject(j, t) PROVE NetInv'
    BY <1>3, OneKeepsNet DEF MoveObject
  <1>4. ASSUME NEW j \in Objects, StopObject(j) PROVE NetInv'
    <2>1. global[j].pos \in Place
      BY <1>4, ObjectTyped DEF StopObject, TypeOK
    <2> QED
      BY <1>4, <2>1, OneKeepsNet DEF StopObject
  <1>5. ASSUME NEW i \in Players, NEW id \in Objects, NEW p \in Place,
               CreatePlayerObject(i, id, p) PROVE NetInv'
    BY <1>5, OneKeepsNet DEF CreatePlayerObject
  <1>6. ASSUME NEW i \in Players, NEW j \in Objects, DestroyPlayerObject(i, j) PROVE NetInv'
    BY <1>0, <1>6, OneKeepsNet DEF DestroyPlayerObject
  <1>7. ASSUME NEW i \in Players, NEW j \in Objects, NEW t \in Place,
               MovePlayerObject(i, j, t) PROVE NetInv'
    BY <1>7, OneKeepsNet DEF MovePlayerObject
  <1>8. ASSUME NEW i \in Players, NEW j \in Objects, StopPlayerObject(i, j) PROVE NetInv'
    <2>1. personal[i][j].pos \in Place
      BY <1>8, ObjectTyped DEF StopPlayerObject, TypeOK
    <2> QED
      BY <1>8, <2>1, OneKeepsNet DEF StopPlayerObject
  <1> QED
    BY <1>1, <1>2, <1>3, <1>4, <1>5, <1>6, <1>7, <1>8 DEF Natives

LEMMA ProcessTyped ==
    ASSUME TypeOK, Process
    PROVE  PoolTyped' /\ UNCHANGED netVars
  <1>1. ASSUME NEW i \in Players, NEW j \in Objects, ProcessPersonal(i, j)
        PROVE  PoolTyped' /\ UNCHANGED netVars
    BY <1>1, StepTyped DEF ProcessPersonal, TypeOK, PoolTyped
  <1>2. ASSUME NEW j \in Objects, ProcessGlobal(j)
        PROVE  PoolTyped' /\ UNCHANGED netVars
    BY <1>2, StepTyped DEF ProcessGlobal, TypeOK, PoolTyped
  <1> QED
    BY <1>1, <1>2 DEF Process

Delivery == \E i \in Players, j \in Objects, k \in 1 .. MaxWire : Deliver(i, j, k)

\* The server does not notice a delivery, nor does it change what was sent.
LEMMA DeliveryQuiet ==
    ASSUME Delivery
    PROVE  UNCHANGED <<stage, slot, pending, global, personal, playersObject, told>>
  BY DEF Delivery, Deliver, poolVars

LEMMA TypesStep == TypeOK /\ NetInv /\ [Next]_vars => TypeOK' /\ NetInv'
  <1> SUFFICES ASSUME TypeOK, NetInv, [Next]_vars PROVE PoolTyped' /\ NetInv'
    BY DEF NetInv, TypeOK, PoolTyped, NetTyped
  <1>1. CASE UNCHANGED vars
    BY <1>1 DEF vars, netVars, poolVars, TypeOK, PoolTyped, NetInv, NetTyped, Chained
  <1>2. CASE Process
    BY <1>2, ProcessTyped DEF netVars, NetInv, NetTyped, Chained
  <1>3. CASE Delivery
    BY <1>3, DeliveryQuiet, DeliverKeepsNet DEF Delivery, TypeOK, PoolTyped
  <1>4. CASE Natives
    BY <1>4, NativesTyped, NativesKeepNet
  <1>5. CASE \/ \E i \in Players : New(i) \/ InitForPlayer(i) \/ Delete(i)
             \/ BeginShutdown \/ EndShutdown \/ ReInit
    BY <1>5, PlayersTyped, PlayersKeepNet
  <1> QED
    BY <1>1, <1>2, <1>3, <1>4, <1>5 DEF Next, Delivery

LEMMA NetAlways == Spec => [](TypeOK /\ NetInv)
  BY InitTyped, TypesStep, PTL DEF Spec

\* Every reachable state is well typed.
THEOREM ObjectTypesAlways == Spec => []TypeOK
  BY NetAlways, PTL

-----------------------------------------------------------------------------
(* The bookkeeping of the shared ids. *)

\* An object that is moved, stopped or ticked is still an object, so that the
\* ids in use stay the same.
LEMMA PersonalStays ==
    ASSUME TypeOK, IndexInv, NEW i \in Players, NEW j \in Objects, NEW o \in Object,
           personal[i][j] # NoObject,
           personal' = [personal EXCEPT ![i][j] = o],
           slot' = slot, global' = global, playersObject' = playersObject
    PROVE  IndexInv'
  <1>1. \A m \in Players, k \in Objects :
            personal'[m][k] = IF m = i /\ k = j THEN o ELSE personal[m][k]
    BY SetPersonal DEF TypeOK
  <1>2. \A m \in Players, k \in Objects : personal'[m][k] # NoObject <=> personal[m][k] # NoObject
    BY <1>1, NullIsNothing
  <1>3. i \in slot
    BY EmptyTyped DEF IndexInv, OwnersInPool
  <1>4. \A m \in Players \ slot : personal'[m] = personal[m]
    BY <1>3 DEF TypeOK
  <1> QED
    BY <1>2, <1>4 DEF IndexInv, NeverBoth, MarkExact, OwnersInPool

LEMMA GlobalStays ==
    ASSUME IndexInv, NEW j \in Objects, NEW o \in Object \cup {NoObject}, TypeOK,
           j \notin playersObject,
           global' = [global EXCEPT ![j] = o],
           slot' = slot, personal' = personal, playersObject' = playersObject
    PROVE  IndexInv'
  BY DEF IndexInv, NeverBoth, MarkExact, OwnersInPool, TypeOK

LEMMA PlayersKeepIndex ==
    ASSUME TypeOK, IndexInv,
           \/ \E i \in Players : New(i) \/ InitForPlayer(i) \/ Delete(i)
           \/ BeginShutdown \/ EndShutdown \/ ReInit
    PROVE  IndexInv'
  <1> USE DEF IndexInv, NeverBoth, MarkExact, OwnersInPool
  <1>1. CASE \E i \in Players : New(i)
    BY <1>1 DEF New, poolVars
  <1>2. CASE \E i \in Players : InitForPlayer(i)
    BY <1>2 DEF InitForPlayer, poolVars
  <1>3. ASSUME NEW i \in Players, Delete(i) PROVE IndexInv'
    <2>1. personal'[i] = Empty /\ \A m \in Players \ {i} : personal'[m] = personal[m]
      BY <1>3 DEF Delete, TypeOK
    <2>2. NeverBoth'
      BY <1>3 DEF Delete
    <2>3. MarkExact'
      BY <1>3, <2>1, EmptyTyped DEF Delete
    <2>4. OwnersInPool'
      BY <1>3, <2>1 DEF Delete
    <2> QED
      BY <2>2, <2>3, <2>4
  <1>4. CASE BeginShutdown
    BY <1>4 DEF BeginShutdown, poolVars
  <1>5. CASE EndShutdown
    BY <1>5, EmptyTyped DEF EndShutdown
  <1>6. CASE ReInit
    BY <1>6 DEF ReInit, poolVars
  <1> QED
    BY <1>1, <1>2, <1>3, <1>4, <1>5, <1>6

LEMMA NativesKeepIndex ==
    ASSUME TypeOK, IndexInv, Natives
    PROVE  IndexInv'
  <1> USE ObjectTyped
  <1>1. ASSUME NEW id \in Objects, NEW p \in Place, CreateObject(id, p) PROVE IndexInv'
    BY <1>1, GlobalStays DEF CreateObject, First, FreeGlobal
  <1>2. ASSUME NEW j \in Objects, global[j] # NoObject PROVE j \notin playersObject /\ global[j] \in Object
    BY <1>2 DEF IndexInv, NeverBoth, TypeOK
  <1>3. ASSUME NEW j \in Objects, DestroyObject(j) PROVE IndexInv'
    BY <1>2, <1>3, GlobalStays DEF DestroyObject
  <1>4. ASSUME NEW j \in Objects, NEW t \in Place, MoveObject(j, t) PROVE IndexInv'
    BY <1>2, <1>4, GlobalStays DEF MoveObject
  <1>5. ASSUME NEW j \in Objects, StopObject(j) PROVE IndexInv'
    BY <1>2, <1>5, GlobalStays DEF StopObject
  <1>6. ASSUME NEW i \in Players, NEW id \in Objects, NEW p \in Place,
               CreatePlayerObject(i, id, p) PROVE IndexInv'
    <2>1. global[id] = NoObject /\ i \in slot
      BY <1>6 DEF CreatePlayerObject, First, FreeFor
    <2>2. \A m \in Players, k \in Objects :
              personal'[m][k] = IF m = i /\ k = id THEN AtRest(p) ELSE personal[m][k]
      BY <1>6, SetPersonal DEF CreatePlayerObject, TypeOK
    <2>3. NeverBoth'
      BY <1>6, <2>1 DEF CreatePlayerObject, IndexInv, NeverBoth
    <2>4. MarkExact'
      BY <1>6, <2>2, NullIsNothing DEF CreatePlayerObject, IndexInv, MarkExact
    <2>5. OwnersInPool'
      BY <1>6, <2>1 DEF CreatePlayerObject, IndexInv, OwnersInPool, TypeOK
    <2> QED
      BY <2>3, <2>4, <2>5 DEF IndexInv
  <1>7. ASSUME NEW i \in Players, NEW j \in Objects, DestroyPlayerObject(i, j) PROVE IndexInv'
    <2>1. \A m \in Players, k \in Objects :
              personal'[m][k] = IF m = i /\ k = j THEN NoObject ELSE personal[m][k]
      BY <1>7, SetPersonal DEF DestroyPlayerObject, TypeOK
    <2>2. NeverBoth'
      BY <1>7 DEF DestroyPlayerObject, IndexInv, NeverBoth
    <2>3. MarkExact'
      BY <1>7, <2>1 DEF DestroyPlayerObject, IndexInv, MarkExact
    <2>4. OwnersInPool'
      BY <1>7 DEF DestroyPlayerObject, IndexInv, OwnersInPool, TypeOK
    <2> QED
      BY <2>2, <2>3, <2>4 DEF IndexInv
  <1>8. ASSUME NEW i \in Players, NEW j \in Objects, NEW t \in Place,
               MovePlayerObject(i, j, t) PROVE IndexInv'
    <2>1. personal[i][j] \in Object
      BY <1>8 DEF MovePlayerObject, TypeOK
    <2> QED
      BY <1>8, <2>1, PersonalStays DEF MovePlayerObject
  <1>9. ASSUME NEW i \in Players, NEW j \in Objects, StopPlayerObject(i, j) PROVE IndexInv'
    <2>1. personal[i][j] \in Object
      BY <1>9 DEF StopPlayerObject, TypeOK
    <2> QED
      BY <1>9, <2>1, PersonalStays DEF StopPlayerObject
  <1> QED
    BY <1>1, <1>3, <1>4, <1>5, <1>6, <1>7, <1>8, <1>9 DEF Natives

LEMMA ProcessKeepsIndex ==
    ASSUME TypeOK, IndexInv, Process
    PROVE  IndexInv'
  <1>1. ASSUME NEW i \in Players, NEW j \in Objects, ProcessPersonal(i, j) PROVE IndexInv'
    <2>1. Step(personal[i][j]) \in Object
      BY <1>1, StepTyped DEF ProcessPersonal, TypeOK
    <2> QED
      BY <1>1, <2>1, PersonalStays DEF ProcessPersonal
  <1>2. ASSUME NEW j \in Objects, ProcessGlobal(j) PROVE IndexInv'
    <2>1. Step(global[j]) \in Object
      BY <1>2, StepTyped DEF ProcessGlobal, TypeOK
    <2> QED
      BY <1>2, <2>1, GlobalStays DEF ProcessGlobal
  <1> QED
    BY <1>1, <1>2 DEF Process

\* No id is ever global and personal at once, the marks are exact, and a
\* personal object never outlives the stay of its player.
THEOREM IndexAlways == Spec => []IndexInv
  <1>1. Init => IndexInv
    BY EmptyTyped DEF Init, IndexInv, NeverBoth, MarkExact, OwnersInPool
  <1>2. TypeOK /\ IndexInv /\ [Next]_vars => IndexInv'
    <2> SUFFICES ASSUME TypeOK, IndexInv, [Next]_vars PROVE IndexInv'
      OBVIOUS
    <2>1. CASE UNCHANGED vars
      BY <2>1 DEF vars, poolVars, IndexInv, NeverBoth, MarkExact, OwnersInPool
    <2>2. CASE Delivery
      BY <2>2, DeliveryQuiet DEF IndexInv, NeverBoth, MarkExact, OwnersInPool
    <2>3. CASE Next /\ ~Delivery
      BY <2>3, PlayersKeepIndex, NativesKeepIndex, ProcessKeepsIndex DEF Next, Delivery
    <2> QED
      BY <2>1, <2>2, <2>3
  <1> QED
    BY <1>1, <1>2, ObjectTypesAlways, PTL DEF Spec

-----------------------------------------------------------------------------
(* What a native does to the objects and the clients. *)

\* What a client has of an object that becomes o: a new one it is shown, others
\* it is told of if it has them.
Shown(o, old, seen) ==
    IF o # NoObject /\ (old = NoObject \/ seen # NoObject) THEN Goal(o) ELSE NoObject

\* Global object j becomes o.
GlobalTold(j, o) ==
    /\ stage # "down" /\ j \notin playersObject
    /\ global[j] = NoObject => Creating
    /\ global' = [global EXCEPT ![j] = o]
    /\ \A i \in slot, k \in Objects :
           told'[i][k] = IF k = j THEN Shown(o, global[j], told[i][j]) ELSE told[i][k]
    /\ \A i \in Players \ slot, k \in Objects :
           told[i][k] = NoObject => told'[i][k] = NoObject
    /\ UNCHANGED <<stage, slot, pending, personal, playersObject>>

\* Object j of player i becomes o.
PersonalTold(i, j, o) ==
    /\ stage # "down" /\ global[j] = NoObject
    /\ personal[i][j] = NoObject => Creating
    /\ \A m \in Players, k \in Objects :
           personal'[m][k] = IF m = i /\ k = j THEN o ELSE personal[m][k]
    /\ \A m \in Players, k \in Objects :
           told'[m][k] = IF m = i /\ k = j THEN Shown(o, personal[i][j], told[i][j])
                                           ELSE told[m][k]
    /\ UNCHANGED <<stage, slot, pending, global>>

\* Where an object is told to go.
LEMMA Goals ==
    /\ \A p \in Place : AtRest(p) \in Object /\ Goal(AtRest(p)) = p
    /\ \A o \in Object : /\ o # NoObject
                         /\ Stopped(o) \in Object /\ Goal(Stopped(o)) = o.pos
                         /\ o.pos \in Place /\ Goal(o) \in Place
    /\ \A o \in Object, t \in Place : Moving(o, t) \in Object /\ Goal(Moving(o, t)) = t
  <1>1. \A o \in Object, t \in Place : Goal(Moving(o, t)) = t
    BY DEF Goal, Moving, Object
  <1>2. /\ \A p \in Place : Goal(AtRest(p)) = p
        /\ \A o \in Object : Goal(Stopped(o)) = o.pos
    BY DEF Goal, Stopped, AtRest
  <1> QED
    BY <1>1, <1>2, ObjectTyped, NullIsNothing

LEMMA GlobalNatives ==
    ASSUME TypeOK, IndexInv,
           \/ \E id \in Objects, p \in Place : CreateObject(id, p)
           \/ \E j \in Objects : DestroyObject(j) \/ StopObject(j)
           \/ \E j \in Objects, t \in Place : MoveObject(j, t)
    PROVE  \E j \in Objects, o \in Object \cup {NoObject} : GlobalTold(j, o)
  <1>0. /\ told \in [Players -> [Objects -> Place \cup {NoObject}]]
        /\ slot \in SUBSET Players /\ Players \in SUBSET Players
    BY DEF TypeOK
  <1>1. ASSUME NEW id \in Objects, NEW p \in Place, CreateObject(id, p)
        PROVE  GlobalTold(id, AtRest(p))
    <2>1. /\ \A i \in slot, k \in Objects : told'[i][k] = IF k = id THEN p ELSE told[i][k]
          /\ \A i \in Players \ slot, k \in Objects : told'[i][k] = told[i][k]
      <3>1. Show(slot, id, p)
        BY <1>1 DEF CreateObject
      <3>2. ASSUME NEW i \in Players, NEW k \in Objects
            PROVE  told'[i][k] = IF i \in slot /\ k = id THEN p ELSE told[i][k]
        BY <1>0, <3>1 DEF Show, Tell, Effect
      <3> QED
        BY <1>0, <3>2
    <2> QED
      BY <1>1, <2>1, Goals DEF GlobalTold, Shown, CreateObject, Creating, First, FreeGlobal
  <1>2. ASSUME NEW j \in Objects, DestroyObject(j) PROVE GlobalTold(j, NoObject)
    <2>1. \A i \in Players, k \in Objects : told'[i][k] = IF k = j THEN NoObject ELSE told[i][k]
      <3>1. Hide(Players, {j})
        BY <1>2 DEF DestroyObject
      <3> QED
        BY <1>0, <3>1, HideTold
    <2> QED
      BY <1>0, <1>2, <2>1 DEF GlobalTold, Shown, DestroyObject, IndexInv, NeverBoth
  <1>3. ASSUME NEW j \in Objects, NEW o \in Object, stage # "down", global[j] # NoObject,
               global' = [global EXCEPT ![j] = o], Send(Players, j, Goal(o)),
               UNCHANGED <<stage, slot, pending, personal, playersObject>>
        PROVE  GlobalTold(j, o)
    <2>1. \A i \in Players, k \in Objects :
              told'[i][k] = IF k = j /\ told[i][j] # NoObject THEN Goal(o) ELSE told[i][k]
      <3>1. ASSUME NEW i \in Players, NEW k \in Objects
            PROVE  told'[i][k] = IF i \in Players /\ k = j /\ told[i][j] # NoObject
                                 THEN Goal(o) ELSE told[i][k]
        BY <1>0, <1>3, SendTold
      <3> QED
        BY <1>0, <3>1
    <2> QED
      BY <1>0, <1>3, <2>1, Goals DEF GlobalTold, Shown, IndexInv, NeverBoth
  <1>4. ASSUME NEW j \in Objects, StopObject(j) PROVE GlobalTold(j, Stopped(global[j]))
    <2>1. global[j] \in Object
      BY <1>4 DEF StopObject, TypeOK
    <2>2. /\ Stopped(global[j]) \in Object
          /\ Goal(Stopped(global[j])) = global[j].pos
      BY <2>1, Goals
    <2>3. global' = [global EXCEPT ![j] = Stopped(global[j])]
      BY <1>4 DEF StopObject
    <2> QED
      BY <1>3, <1>4, <2>2, <2>3 DEF StopObject
  <1>5. ASSUME NEW j \in Objects, NEW t \in Place, MoveObject(j, t)
        PROVE  GlobalTold(j, Moving(global[j], t)) /\ Moving(global[j], t) \in Object
    <2>1. global[j] \in Object
      BY <1>5 DEF MoveObject, TypeOK
    <2>2. Moving(global[j], t) \in Object /\ Goal(Moving(global[j], t)) = t
      BY <2>1, Goals
    <2>3. global' = [global EXCEPT ![j] = Moving(global[j], t)]
      BY <1>5 DEF MoveObject
    <2> QED
      BY <1>3, <1>5, <2>2, <2>3 DEF MoveObject
  <1>6. ASSUME NEW j \in Objects, StopObject(j) PROVE Stopped(global[j]) \in Object
    BY <1>6, Goals DEF StopObject, TypeOK
  <1>7. CASE \E id \in Objects, p \in Place : CreateObject(id, p)
    BY <1>1, <1>7, Goals
  <1>8. CASE \E j \in Objects : DestroyObject(j) \/ StopObject(j)
    BY <1>2, <1>4, <1>6, <1>8
  <1>9. CASE \E j \in Objects, t \in Place : MoveObject(j, t)
    BY <1>5, <1>9
  <1> QED
    BY <1>7, <1>8, <1>9

LEMMA PersonalNatives ==
    ASSUME TypeOK, IndexInv,
           \/ \E i \in Players, id \in Objects, p \in Place : CreatePlayerObject(i, id, p)
           \/ \E i \in Players, j \in Objects :
                  DestroyPlayerObject(i, j) \/ StopPlayerObject(i, j)
           \/ \E i \in Players, j \in Objects, t \in Place : MovePlayerObject(i, j, t)
    PROVE  \E i \in slot, j \in Objects, o \in Object \cup {NoObject} : PersonalTold(i, j, o)
  <1>0. /\ told \in [Players -> [Objects -> Place \cup {NoObject}]]
        /\ personal \in [Players -> [Objects -> Object \cup {NoObject}]]
        /\ slot \in SUBSET Players
    BY DEF TypeOK
  <1>1. ASSUME NEW i \in Players, NEW id \in Objects, NEW p \in Place,
               CreatePlayerObject(i, id, p)
        PROVE  i \in slot /\ PersonalTold(i, id, AtRest(p))
    <2>1. \A m \in Players, k \in Objects :
              told'[m][k] = IF m = i /\ k = id THEN p ELSE told[m][k]
      <3>1. Show({i}, id, p)
        BY <1>1 DEF CreatePlayerObject
      <3>2. ASSUME NEW m \in Players, NEW k \in Objects
            PROVE  told'[m][k] = IF m \in {i} /\ k = id THEN p ELSE told[m][k]
        BY <1>0, <3>1 DEF Show, Tell, Effect
      <3> QED
        BY <1>0, <3>2
    <2>2. \A m \in Players, k \in Objects :
              personal'[m][k] = IF m = i /\ k = id THEN AtRest(p) ELSE personal[m][k]
      BY <1>0, <1>1, SetPersonal DEF CreatePlayerObject
    <2> QED
      BY <1>1, <2>1, <2>2, Goals DEF PersonalTold, Shown, CreatePlayerObject, Creating, First, FreeFor
  <1>2. ASSUME NEW i \in Players, NEW j \in Objects, DestroyPlayerObject(i, j)
        PROVE  i \in slot /\ PersonalTold(i, j, NoObject)
    <2>1. \A m \in Players, k \in Objects :
              told'[m][k] = IF m = i /\ k = j THEN NoObject ELSE told[m][k]
      <3>1. Hide({i}, {j})
        BY <1>2 DEF DestroyPlayerObject
      <3> QED
        BY <1>0, <3>1, HideTold
    <2>2. \A m \in Players, k \in Objects :
              personal'[m][k] = IF m = i /\ k = j THEN NoObject ELSE personal[m][k]
      BY <1>0, <1>2, SetPersonal DEF DestroyPlayerObject
    <2> QED
      BY <1>2, <2>1, <2>2 DEF PersonalTold, Shown, DestroyPlayerObject, IndexInv, NeverBoth
  <1>3. ASSUME NEW i \in slot, NEW j \in Objects, NEW o \in Object, stage # "down",
               personal[i][j] # NoObject,
               personal' = [personal EXCEPT ![i][j] = o], Send({i}, j, Goal(o)),
               UNCHANGED <<stage, slot, pending, global>>
        PROVE  PersonalTold(i, j, o)
    <2>1. \A m \in Players, k \in Objects :
              told'[m][k] = IF m = i /\ k = j /\ told[i][j] # NoObject
                            THEN Goal(o) ELSE told[m][k]
      <3>1. ASSUME NEW m \in Players, NEW k \in Objects
            PROVE  told'[m][k] = IF m \in {i} /\ k = j /\ told[m][j] # NoObject
                                 THEN Goal(o) ELSE told[m][k]
        BY <1>0, <1>3, SendTold
      <3> QED
        BY <1>0, <3>1
    <2>2. \A m \in Players, k \in Objects :
              personal'[m][k] = IF m = i /\ k = j THEN o ELSE personal[m][k]
      BY <1>0, <1>3, SetPersonal
    <2>3. global[j] = NoObject
      BY <1>0, <1>3 DEF IndexInv, NeverBoth, MarkExact
    <2> QED
      BY <1>3, <2>1, <2>2, <2>3, NullIsNothing DEF PersonalTold, Shown
  <1>4. ASSUME NEW i \in Players, NEW j \in Objects, StopPlayerObject(i, j)
        PROVE  i \in slot /\ \E o \in Object : PersonalTold(i, j, o)
    <2>1. personal[i][j] \in Object /\ i \in slot
      BY <1>0, <1>4 DEF StopPlayerObject
    <2>2. /\ Stopped(personal[i][j]) \in Object
          /\ Goal(Stopped(personal[i][j])) = personal[i][j].pos
      BY <2>1, Goals
    <2>3. personal' = [personal EXCEPT ![i][j] = Stopped(personal[i][j])]
      BY <1>4 DEF StopPlayerObject
    <2>4. PersonalTold(i, j, Stopped(personal[i][j]))
      BY <1>3, <1>4, <2>1, <2>2, <2>3 DEF StopPlayerObject
    <2> QED
      BY <2>1, <2>2, <2>4
  <1>5. ASSUME NEW i \in Players, NEW j \in Objects, NEW t \in Place,
               MovePlayerObject(i, j, t)
        PROVE  i \in slot /\ \E o \in Object : PersonalTold(i, j, o)
    <2>1. personal[i][j] \in Object /\ i \in slot
      BY <1>0, <1>5 DEF MovePlayerObject
    <2>2. /\ Moving(personal[i][j], t) \in Object
          /\ Goal(Moving(personal[i][j], t)) = t
      BY <2>1, Goals
    <2>3. personal' = [personal EXCEPT ![i][j] = Moving(personal[i][j], t)]
      BY <1>5 DEF MovePlayerObject
    <2>4. PersonalTold(i, j, Moving(personal[i][j], t))
      BY <1>3, <1>5, <2>1, <2>2, <2>3 DEF MovePlayerObject
    <2> QED
      BY <2>1, <2>2, <2>4
  <1>6. CASE \E i \in Players, id \in Objects, p \in Place : CreatePlayerObject(i, id, p)
    BY <1>1, <1>6, Goals
  <1>7. CASE \E i \in Players, j \in Objects :
                 DestroyPlayerObject(i, j) \/ StopPlayerObject(i, j)
    BY <1>2, <1>4, <1>7
  <1>8. CASE \E i \in Players, j \in Objects, t \in Place : MovePlayerObject(i, j, t)
    BY <1>5, <1>8
  <1> QED
    BY <1>6, <1>7, <1>8

LEMMA NativesTell ==
    ASSUME TypeOK, IndexInv, Natives
    PROVE  \/ \E j \in Objects, o \in Object \cup {NoObject} : GlobalTold(j, o)
           \/ \E i \in slot, j \in Objects, o \in Object \cup {NoObject} :
                  PersonalTold(i, j, o)
  BY GlobalNatives, PersonalNatives DEF Natives

-----------------------------------------------------------------------------
(* No client misses an object. *)

\* ViewComplete and NoGhosts for what the clients were told, arrived or not.
ToldComplete ==
    \A i \in slot, j \in Objects : stage = "running" =>
        /\ i \notin pending /\ global[j] # NoObject => told[i][j] # NoObject
        /\ personal[i][j] # NoObject => told[i][j] = Goal(personal[i][j])

NoToldGhosts ==
    \A i \in slot, j \in Objects :
        told[i][j] # NoObject => global[j] # NoObject \/ personal[i][j] # NoObject

\* Nobody else has anything.
Outside == \A i \in Players \ slot : told[i] = Empty

EmptyPool ==
    stage = "down" => /\ global = Empty
                      /\ personal = [i \in Players |-> Empty]
                      /\ playersObject = {}

CompleteInv == ToldComplete /\ EmptyPool /\ Outside

\* What a newcomer is told, and what everybody is told at the end of a game.
LEMMA InitTold ==
    ASSUME TypeOK, NEW i \in Players, InitForPlayer(i), stage = "running", i \in slot
    PROVE  /\ \A j \in Objects :
                 told'[i][j] = IF global[j] # NoObject THEN global[j].pos ELSE told[i][j]
           /\ \A m \in Players \ {i} : told'[m] = told[m]
  <1> DEFINE J == {j \in Objects : global[j] # NoObject}
             place == [j \in J |-> global[j].pos]
  <1>1. told' = [m \in Players |-> [j \in Objects |->
            IF m \in {i} /\ j \in J THEN place[j] ELSE told[m][j]]]
    BY DEF InitForPlayer, Tell, Effect
  <1>2. \A m \in Players : told[m] = [j \in Objects |-> told[m][j]]
    BY DEF TypeOK
  <1> QED
    BY <1>1, <1>2

LEMMA AllHidden ==
    ASSUME TypeOK, Hide(Players, Objects)
    PROVE  \A m \in Players : told'[m] = Empty
  BY DEF TypeOK, Hide, Tell, Effect, Empty

LEMMA PlayersKeepComplete ==
    ASSUME TypeOK, IndexInv, CompleteInv,
           \/ \E i \in Players : New(i) \/ InitForPlayer(i) \/ Delete(i)
           \/ BeginShutdown \/ EndShutdown \/ ReInit
    PROVE  CompleteInv'
  <1> USE EmptyTyped DEF CompleteInv
  <1>1. ASSUME NEW i \in Players, New(i) PROVE CompleteInv'
    <2>1. told' = told /\ told[i] = Empty
      BY <1>1 DEF New, netVars, Outside
    <2>2. personal[i] = Empty
      BY <1>1 DEF New, IndexInv, OwnersInPool
    <2>3. ToldComplete'
      BY <1>1, <2>1, <2>2 DEF New, poolVars, ToldComplete, TypeOK
    <2> QED
      BY <1>1, <2>1, <2>3 DEF New, poolVars, EmptyPool, Outside
  <1>2. ASSUME NEW i \in Players, InitForPlayer(i) PROVE CompleteInv'
    <2>1. CASE stage = "running" /\ i \in slot
      <3>1. \A j \in Objects : global[j] # NoObject => global[j].pos \in Place
        BY ObjectTyped DEF TypeOK
      <3>2. /\ \A j \in Objects :
                  told'[i][j] = IF global[j] # NoObject THEN global[j].pos ELSE told[i][j]
            /\ \A m \in Players \ {i} : told'[m] = told[m]
        BY <1>2, <2>1, InitTold
      <3>3. \A j \in Objects : personal[i][j] # NoObject => global[j] = NoObject
        BY DEF IndexInv, NeverBoth, MarkExact
      <3>4. ToldComplete'
        <4>1. UNCHANGED <<stage, slot, global, personal>> /\ pending' = pending \ {i}
          BY <1>2 DEF InitForPlayer, poolVars
        <4> SUFFICES ASSUME NEW m \in slot, NEW j \in Objects
                     PROVE  /\ m \notin pending' /\ global[j] # NoObject => told'[m][j] # NoObject
                            /\ personal[m][j] # NoObject => told'[m][j] = Goal(personal[m][j])
          BY <4>1 DEF ToldComplete
        <4>2. CASE m = i
          BY <2>1, <3>1, <3>2, <3>3, <4>2, NullIsNothing DEF ToldComplete
        <4>3. CASE m # i
          <5>1. told'[m] = told[m]
            BY <3>2, <4>3 DEF TypeOK
          <5> QED
            BY <2>1, <4>1, <4>3, <5>1 DEF ToldComplete
        <4> QED
          BY <4>2, <4>3
      <3> QED
        BY <1>2, <2>1, <3>2, <3>4 DEF InitForPlayer, poolVars, EmptyPool, Outside
    <2>2. CASE ~(stage = "running" /\ i \in slot)
      BY <1>2, <2>2 DEF InitForPlayer, poolVars, netVars, ToldComplete, EmptyPool, Outside
    <2> QED
      BY <2>1, <2>2
  <1>3. ASSUME NEW i \in Players, Delete(i) PROVE CompleteInv'
    <2>1. /\ \A m \in slot' : told'[m] = told[m] /\ personal'[m] = personal[m]
          /\ slot' \subseteq slot
      BY <1>3 DEF Delete, Disconnect, TypeOK
    <2>2. Outside'
      BY <1>3 DEF Delete, Disconnect, Outside, TypeOK
    <2> QED
      BY <1>3, <2>1, <2>2 DEF Delete, ToldComplete, EmptyPool
  <1>4. CASE BeginShutdown
    <2>1. \A m \in Players : told'[m] = Empty
      BY <1>4, AllHidden DEF BeginShutdown
    <2> QED
      BY <1>4, <2>1 DEF BeginShutdown, ToldComplete, EmptyPool, Outside
  <1>6. CASE EndShutdown
    BY <1>6 DEF EndShutdown, netVars, ToldComplete, EmptyPool, Outside
  <1>5. CASE ReInit
    <2>1. \A i \in slot, j \in Objects : personal'[i][j] = NoObject /\ i \in pending'
      BY <1>5 DEF ReInit, poolVars, EmptyPool, TypeOK
    <2> QED
      BY <1>5, <2>1 DEF ReInit, netVars, ToldComplete, EmptyPool, Outside
  <1> QED
    BY <1>1, <1>2, <1>3, <1>4, <1>5, <1>6

LEMMA NativesKeepComplete ==
    ASSUME TypeOK, NetInv, IndexInv, CompleteInv, Natives
    PROVE  CompleteInv'
  <1> USE NullIsNothing, Goals DEF CompleteInv, Shown
  <1>0. /\ told \in [Players -> [Objects -> Place \cup {NoObject}]]
        /\ told' \in [Players -> [Objects -> Place \cup {NoObject}]]
        /\ slot \in SUBSET Players
    BY NativesKeepNet DEF TypeOK, NetInv, NetTyped
  <1>1. ASSUME NEW j \in Objects, NEW o \in Object \cup {NoObject}, GlobalTold(j, o)
        PROVE  CompleteInv'
    <2>1. \A i \in slot : personal[i][j] = NoObject
      BY <1>1 DEF GlobalTold, IndexInv, MarkExact, TypeOK
    <2>2. \A k \in Objects : global'[k] = IF k = j THEN o ELSE global[k]
      BY <1>1 DEF GlobalTold, TypeOK
    <2>3. ToldComplete'
      <3> SUFFICES ASSUME NEW i \in slot, NEW k \in Objects, stage = "running"
                   PROVE  /\ i \notin pending /\ global'[k] # NoObject => told'[i][k] # NoObject
                          /\ personal[i][k] # NoObject => told'[i][k] = Goal(personal[i][k])
        BY <1>1 DEF GlobalTold, ToldComplete
      <3>1. CASE k = j
        <4>1. o # NoObject => Goal(o) # NoObject
          OBVIOUS
        <4>2. told'[i][k] = Shown(o, global[j], told[i][j])
          BY <1>1, <3>1 DEF GlobalTold
        <4> QED
          BY <2>1, <2>2, <3>1, <4>1, <4>2 DEF ToldComplete
      <3>2. CASE k # j
        <4>1. told'[i][k] = told[i][k]
          BY <1>1, <3>2 DEF GlobalTold
        <4>2. global'[k] = global[k]
          BY <2>2, <3>2
        <4> QED
          BY <4>1, <4>2 DEF ToldComplete
      <3> QED
        BY <3>1, <3>2
    <2>4. Outside'
      <3> SUFFICES ASSUME NEW i \in Players \ slot, NEW k \in Objects
                   PROVE  told'[i][k] = NoObject
        BY <1>0, <1>1 DEF GlobalTold, Outside, Empty
      <3> QED
        BY <1>0, <1>1, EmptyTyped DEF GlobalTold, Outside
    <2> QED
      BY <1>1, <2>3, <2>4 DEF GlobalTold, EmptyPool
  <1>2. ASSUME NEW i \in slot, NEW j \in Objects, NEW o \in Object \cup {NoObject},
               PersonalTold(i, j, o)
        PROVE  CompleteInv'
    <2>1. stage = "running" /\ personal[i][j] # NoObject => told[i][j] # NoObject
      BY DEF ToldComplete, TypeOK
    <2>2. ToldComplete'
      <3> SUFFICES ASSUME NEW m \in slot, NEW k \in Objects, stage = "running"
                   PROVE  /\ m \notin pending /\ global[k] # NoObject => told'[m][k] # NoObject
                          /\ personal'[m][k] # NoObject => told'[m][k] = Goal(personal'[m][k])
        BY <1>2 DEF PersonalTold, ToldComplete
      <3>1. m \in Players
        BY DEF TypeOK
      <3>2. CASE m = i /\ k = j
        BY <1>2, <2>1, <3>1, <3>2 DEF PersonalTold
      <3>3. CASE ~(m = i /\ k = j)
        BY <1>2, <3>1, <3>3 DEF PersonalTold, ToldComplete
      <3> QED
        BY <3>2, <3>3
    <2>4. Outside'
      <3> SUFFICES ASSUME NEW m \in Players \ slot, NEW k \in Objects
                   PROVE  told'[m][k] = NoObject
        BY <1>0, <1>2 DEF PersonalTold, Outside, Empty
      <3> QED
        BY <1>0, <1>2, EmptyTyped DEF PersonalTold, Outside
    <2> QED
      BY <1>2, <2>2, <2>4 DEF PersonalTold, EmptyPool
  <1> QED
    BY <1>1, <1>2, NativesTell

LEMMA ProcessKeepsComplete ==
    ASSUME TypeOK, CompleteInv, Process
    PROVE  CompleteInv'
  <1> USE NullIsNothing DEF CompleteInv
  <1>1. ASSUME NEW i \in Players, NEW j \in Objects, ProcessPersonal(i, j) PROVE CompleteInv'
    <2>1. personal[i][j] \in Object
      BY <1>1 DEF ProcessPersonal, TypeOK
    <2>2. /\ Step(personal[i][j]) # NoObject
          /\ Goal(Step(personal[i][j])) = Goal(personal[i][j])
      BY <1>1, <2>1, StepTyped, StepKeepsGoal DEF ProcessPersonal
    <2>3. \A m \in Players, k \in Objects :
              personal'[m][k] = IF m = i /\ k = j THEN Step(personal[i][j]) ELSE personal[m][k]
      BY <1>1, <2>1, StepTyped, SetPersonal DEF ProcessPersonal, TypeOK
    <2> QED
      BY <1>1, <2>2, <2>3 DEF ProcessPersonal, netVars, ToldComplete, EmptyPool, Outside, TypeOK
  <1>2. ASSUME NEW j \in Objects, ProcessGlobal(j) PROVE CompleteInv'
    <2>1. Step(global[j]) # NoObject
      BY <1>2, StepTyped DEF ProcessGlobal, TypeOK
    <2>2. \A k \in Objects : global'[k] # NoObject <=> global[k] # NoObject
      BY <1>2, <2>1 DEF ProcessGlobal, TypeOK
    <2> QED
      BY <1>2, <2>2 DEF ProcessGlobal, netVars, ToldComplete, EmptyPool, Outside
  <1> QED
    BY <1>1, <1>2 DEF Process

\* Delivery is no business of the server's.
LEMMA DeliveryKeepsComplete ==
    ASSUME CompleteInv, Delivery
    PROVE  CompleteInv'
  BY DeliveryQuiet DEF CompleteInv, ToldComplete, EmptyPool, Outside

LEMMA ToldAlwaysComplete == Spec => []CompleteInv
  <1>1. Init => CompleteInv
    <2> SUFFICES ASSUME Init PROVE CompleteInv
      OBVIOUS
    <2>1. Outside
      BY DEF Init, Outside
    <2> QED
      BY <2>1 DEF Init, CompleteInv, ToldComplete, EmptyPool
  <1>2. TypeOK /\ NetInv /\ IndexInv /\ CompleteInv /\ [Next]_vars => CompleteInv'
    <2> SUFFICES ASSUME TypeOK, NetInv, IndexInv, CompleteInv, [Next]_vars PROVE CompleteInv'
      OBVIOUS
    <2>1. CASE UNCHANGED vars
      BY <2>1 DEF vars, poolVars, netVars, CompleteInv, ToldComplete, EmptyPool, Outside
    <2>2. CASE Delivery
      BY <2>2, DeliveryKeepsComplete
    <2>3. CASE Next /\ ~Delivery
      BY <2>3, PlayersKeepComplete, NativesKeepComplete, ProcessKeepsComplete
      DEF Next, Delivery
    <2> QED
      BY <2>1, <2>2, <2>3
  <1> QED
    BY <1>1, <1>2, NetAlways, IndexAlways, PTL DEF Spec

\* A client that got what it was sent in that order shows every global object and
\* its own, in every session: also when scripts create objects while the game mode
\* is going down.
THEOREM ViewAlwaysComplete == Spec => []ViewComplete
  <1>1. TypeOK /\ NetInv /\ CompleteInv => ViewComplete
    <2> SUFFICES ASSUME TypeOK, NetInv, CompleteInv,
                        NEW i \in slot, NEW j \in Objects, stage = "running", InStep(i, j)
                 PROVE  /\ i \notin pending /\ global[j] # NoObject => view[i][j] # NoObject
                        /\ personal[i][j] # NoObject => view[i][j] = Goal(personal[i][j])
      BY DEF ViewComplete
    <2>1. view[i][j] = told[i][j]
      BY InStepShows DEF TypeOK
    <2> QED
      BY <2>1 DEF CompleteInv, ToldComplete
  <1> QED
    BY <1>1, NetAlways, ToldAlwaysComplete, PTL

-----------------------------------------------------------------------------
(* No client shows more. *)

\* Outside the running game no client is left anything.
QuietStage == stage # "running" => \A i \in slot : told[i] = Empty

GhostInv == NoToldGhosts /\ QuietStage

LEMMA PlayersKeepQuiet ==
    ASSUME TypeOK, IndexInv, CompleteInv, GhostInv,
           \/ \E i \in Players : New(i) \/ InitForPlayer(i) \/ Delete(i)
           \/ BeginShutdown \/ EndShutdown \/ ReInit
    PROVE  GhostInv'
  <1> USE EmptyTyped DEF GhostInv
  <1>1. ASSUME NEW i \in Players, New(i) PROVE GhostInv'
    <2>1. told' = told /\ told[i] = Empty
      BY <1>1 DEF New, netVars, CompleteInv, Outside
    <2> QED
      BY <1>1, <2>1 DEF New, poolVars, NoToldGhosts, QuietStage, TypeOK
  <1>2. ASSUME NEW i \in Players, InitForPlayer(i) PROVE GhostInv'
    <2>1. CASE stage = "running" /\ i \in slot
      <3>1. /\ \A j \in Objects :
                  told'[i][j] = IF global[j] # NoObject THEN global[j].pos ELSE told[i][j]
            /\ \A m \in Players \ {i} : told'[m] = told[m]
        BY <1>2, <2>1, InitTold
      <3> QED
        <4>1. UNCHANGED <<stage, slot, global, personal>>
          BY <1>2 DEF InitForPlayer, poolVars
        <4>2. \A m \in slot : m # i => told'[m] = told[m]
          BY <3>1 DEF TypeOK
        <4> QED
          BY <2>1, <3>1, <4>1, <4>2 DEF NoToldGhosts, QuietStage
    <2>2. CASE ~(stage = "running" /\ i \in slot)
      BY <1>2, <2>2 DEF InitForPlayer, poolVars, netVars, NoToldGhosts, QuietStage
    <2> QED
      BY <2>1, <2>2
  <1>3. ASSUME NEW i \in Players, Delete(i) PROVE GhostInv'
    <2>1. /\ \A m \in slot' : told'[m] = told[m] /\ personal'[m] = personal[m]
          /\ slot' \subseteq slot
      BY <1>3 DEF Delete, Disconnect, TypeOK
    <2> QED
      BY <1>3, <2>1 DEF Delete, NoToldGhosts, QuietStage
  <1>4. CASE BeginShutdown
    <2>1. \A m \in slot' : told'[m] = Empty
      BY <1>4, AllHidden DEF BeginShutdown, TypeOK
    <2> QED
      BY <2>1 DEF NoToldGhosts, QuietStage
  <1>5. CASE EndShutdown
    <2>1. \A m \in slot' : told'[m] = Empty
      BY <1>5 DEF EndShutdown, netVars, QuietStage
    <2> QED
      BY <2>1 DEF NoToldGhosts, QuietStage
  <1>6. CASE ReInit
    BY <1>6 DEF ReInit, poolVars, netVars, NoToldGhosts, QuietStage
  <1> QED
    BY <1>1, <1>2, <1>3, <1>4, <1>5, <1>6

\* Outside the running game nothing is created, and clients have nothing that
\* an RPC could move.
LEMMA NativesKeepQuiet ==
    ASSUME TypeOK, NetInv, IndexInv, GhostInv, ~ExitCreates, Natives
    PROVE  GhostInv'
  <1> USE NullIsNothing DEF GhostInv, Shown
  <1>0. /\ told' \in [Players -> [Objects -> Place \cup {NoObject}]]
        /\ told \in [Players -> [Objects -> Place \cup {NoObject}]]
        /\ slot \in SUBSET Players
    BY NativesKeepNet DEF TypeOK, NetInv, NetTyped
  <1>1. ASSUME NEW j \in Objects, NEW o \in Object \cup {NoObject}, GlobalTold(j, o)
        PROVE  GhostInv'
    <2>1. \A k \in Objects : global'[k] = IF k = j THEN o ELSE global[k]
      BY <1>1 DEF GlobalTold, TypeOK
    <2>2. \A i \in slot : personal[i][j] = NoObject
      BY <1>1 DEF GlobalTold, IndexInv, MarkExact, TypeOK
    <2>3. NoToldGhosts'
      BY <1>1, <2>1, <2>2 DEF GlobalTold, NoToldGhosts
    <2>4. ASSUME stage # "running", NEW i \in slot PROVE told'[i] = Empty
      <3>1. \A k \in Objects : told[i][k] = NoObject
        BY <2>4, EmptyTyped DEF QuietStage
      <3>2. \A k \in Objects : told'[i][k] = NoObject
        BY <1>1, <2>4, <3>1 DEF GlobalTold, Creating
      <3> QED
        BY <1>0, <3>2 DEF Empty
    <2> QED
      BY <1>1, <2>3, <2>4 DEF GlobalTold, QuietStage
  <1>2. ASSUME NEW i \in slot, NEW j \in Objects, NEW o \in Object \cup {NoObject},
               PersonalTold(i, j, o)
        PROVE  GhostInv'
    <2>1. NoToldGhosts'
      BY <1>0, <1>2 DEF PersonalTold, NoToldGhosts
    <2>2. ASSUME stage # "running", NEW m \in slot PROVE told'[m] = Empty
      <3>1. \A k \in Objects : told[m][k] = NoObject
        BY <2>2, EmptyTyped DEF QuietStage
      <3>2. \A k \in Objects : told'[m][k] = NoObject
        BY <1>0, <1>2, <2>2, <3>1 DEF PersonalTold, Creating
      <3> QED
        BY <1>0, <3>2 DEF Empty
    <2> QED
      BY <1>2, <2>1, <2>2 DEF PersonalTold, QuietStage
  <1> QED
    BY <1>1, <1>2, NativesTell

LEMMA ProcessKeepsQuiet ==
    ASSUME TypeOK, GhostInv, Process
    PROVE  GhostInv'
  <1> USE NullIsNothing DEF GhostInv
  <1>1. ASSUME NEW i \in Players, NEW j \in Objects, ProcessPersonal(i, j) PROVE GhostInv'
    <2>1. personal[i][j] \in Object
      BY <1>1 DEF ProcessPersonal, TypeOK
    <2>2. Step(personal[i][j]) \in Object \cup {NoObject} /\ Step(personal[i][j]) # NoObject
      BY <2>1, StepTyped
    <2>3. \A m \in Players, k \in Objects :
              personal'[m][k] = IF m = i /\ k = j THEN Step(personal[i][j]) ELSE personal[m][k]
      BY <1>1, <2>2, SetPersonal DEF ProcessPersonal, TypeOK
    <2> QED
      BY <1>1, <2>2, <2>3 DEF ProcessPersonal, netVars, NoToldGhosts, QuietStage, TypeOK
  <1>2. ASSUME NEW j \in Objects, ProcessGlobal(j) PROVE GhostInv'
    <2>1. Step(global[j]) # NoObject
      BY <1>2, StepTyped DEF ProcessGlobal, TypeOK
    <2>2. \A k \in Objects : global'[k] # NoObject <=> global[k] # NoObject
      BY <1>2, <2>1 DEF ProcessGlobal, TypeOK
    <2> QED
      BY <1>2, <2>2 DEF ProcessGlobal, netVars, NoToldGhosts, QuietStage
  <1> QED
    BY <1>1, <1>2 DEF Process

\* As long as scripts create nothing while the game mode is going down, every
\* client that got what it was sent in that order shows every global object and its
\* own, and nothing else.
THEOREM ViewAlwaysExact ==
    ASSUME ~ExitCreates
    PROVE  Spec => []ViewExact
  <1>1. Init => GhostInv
    BY EmptyTyped DEF Init, GhostInv, NoToldGhosts, QuietStage
  <1>2. TypeOK /\ NetInv /\ IndexInv /\ CompleteInv /\ GhostInv /\ [Next]_vars => GhostInv'
    <2> SUFFICES ASSUME TypeOK, NetInv, IndexInv, CompleteInv, GhostInv, [Next]_vars
                 PROVE  GhostInv'
      OBVIOUS
    <2>1. CASE UNCHANGED vars
      BY <2>1 DEF vars, poolVars, netVars, GhostInv, NoToldGhosts, QuietStage
    <2>2. CASE Delivery
      BY <2>2, DeliveryQuiet DEF GhostInv, NoToldGhosts, QuietStage
    <2>3. CASE Next /\ ~Delivery
      BY <2>3, PlayersKeepQuiet, NativesKeepQuiet, ProcessKeepsQuiet DEF Next, Delivery
    <2> QED
      BY <2>1, <2>2, <2>3
  <1>3. TypeOK /\ NetInv /\ GhostInv => NoGhosts
    <2> SUFFICES ASSUME TypeOK, NetInv, GhostInv, NEW i \in slot, NEW j \in Objects,
                        view[i][j] # NoObject, InStep(i, j)
                 PROVE  global[j] # NoObject \/ personal[i][j] # NoObject
      BY DEF NoGhosts
    <2>1. view[i][j] = told[i][j]
      BY InStepShows DEF TypeOK
    <2> QED
      BY <2>1 DEF GhostInv, NoToldGhosts
  <1>4. ViewComplete /\ NoGhosts => ViewExact
    BY DEF ViewExact
  <1> QED
    BY <1>1, <1>2, <1>3, <1>4, NetAlways, IndexAlways, ToldAlwaysComplete,
       ViewAlwaysComplete, PTL DEF Spec

-----------------------------------------------------------------------------
(* Which moves a client can miss. *)

\* Follows for what the client was told, arrived or not.
ToldFollows(i, j) ==
    global[j] # NoObject /\ global[j].moving => told[i][j] = global[j].target

\* Nobody who stays initialised loses a move that he follows, or misses one
\* that begins.
StaysFollowed ==
    \A i \in slot \cap slot', j \in Objects :
        (/\ stage = "running" /\ i \notin pending
         /\ stage' = "running" /\ i \notin pending'
         /\ ToldFollows(i, j)) => ToldFollows(i, j)'

LEMMA PlayersKeepMoves ==
    ASSUME TypeOK,
           \/ \E i \in Players : New(i) \/ InitForPlayer(i) \/ Delete(i)
           \/ BeginShutdown \/ EndShutdown \/ ReInit
    PROVE  StaysFollowed
  <1>1. ASSUME NEW i \in Players, New(i) PROVE StaysFollowed
    BY <1>1 DEF New, poolVars, netVars, StaysFollowed, ToldFollows
  <1>2. ASSUME NEW i \in Players, InitForPlayer(i) PROVE StaysFollowed
    <2>1. \A m \in slot : m \notin pending => told'[m] = told[m]
      <3>1. CASE stage = "running" /\ i \in slot
        BY <1>2, <3>1, InitTold DEF InitForPlayer, TypeOK
      <3>2. CASE ~(stage = "running" /\ i \in slot)
        BY <1>2, <3>2 DEF InitForPlayer, netVars
      <3> QED
        BY <3>1, <3>2
    <2> QED
      BY <1>2, <2>1 DEF InitForPlayer, poolVars, StaysFollowed, ToldFollows
  <1>3. ASSUME NEW i \in Players, Delete(i) PROVE StaysFollowed
    <2>1. slot' \subseteq slot /\ \A m \in slot' : told'[m] = told[m]
      BY <1>3 DEF Delete, Disconnect, TypeOK
    <2> QED
      BY <1>3, <2>1 DEF Delete, StaysFollowed, ToldFollows
  <1>4. CASE BeginShutdown \/ EndShutdown \/ ReInit
    BY <1>4 DEF BeginShutdown, EndShutdown, ReInit, StaysFollowed
  <1> QED
    BY <1>1, <1>2, <1>3, <1>4

\* A move is sent to all clients that have the object, and those are all.
LEMMA NativesKeepMoves ==
    ASSUME TypeOK, IndexInv, ToldComplete, Natives
    PROVE  StaysFollowed
  <1>1. ASSUME NEW j \in Objects, NEW o \in Object \cup {NoObject}, GlobalTold(j, o)
        PROVE  StaysFollowed
    <2>1. \A k \in Objects : global'[k] = IF k = j THEN o ELSE global[k]
      BY <1>1 DEF GlobalTold, TypeOK
    <2> SUFFICES ASSUME NEW i \in slot, NEW k \in Objects, stage = "running", i \notin pending,
                        ToldFollows(i, k)
                 PROVE  ToldFollows(i, k)'
      BY <1>1 DEF GlobalTold, StaysFollowed
    <2>2. CASE k = j
      <3>1. global[j] # NoObject => told[i][j] # NoObject
        BY DEF ToldComplete
      <3>2. o # NoObject => told'[i][j] = Goal(o)
        BY <1>1, <3>1 DEF GlobalTold, Shown
      <3> QED
        BY <2>1, <2>2, <3>2 DEF ToldFollows, Goal
    <2>3. CASE k # j
      BY <1>1, <2>1, <2>3 DEF GlobalTold, ToldFollows
    <2> QED
      BY <2>2, <2>3
  <1>2. ASSUME NEW i \in slot, NEW j \in Objects, NEW o \in Object \cup {NoObject},
               PersonalTold(i, j, o)
        PROVE  StaysFollowed
    <2>1. slot \in SUBSET Players
      BY DEF TypeOK
    <2> QED
      BY <1>2, <2>1 DEF PersonalTold, StaysFollowed, ToldFollows
  <1> QED
    BY <1>1, <1>2, NativesTell

LEMMA ProcessKeepsMoves ==
    ASSUME TypeOK, Process
    PROVE  StaysFollowed
  <1>1. ASSUME NEW i \in Players, NEW j \in Objects, ProcessPersonal(i, j)
        PROVE  StaysFollowed
    BY <1>1 DEF ProcessPersonal, netVars, StaysFollowed, ToldFollows
  <1>2. ASSUME NEW j \in Objects, ProcessGlobal(j) PROVE StaysFollowed
    <2>1. global[j] \in Object /\ global[j].moving
      BY <1>2 DEF ProcessGlobal, TypeOK
    <2>2. Step(global[j]).moving => Step(global[j]).target = global[j].target
      BY <2>1 DEF Step, AtRest, Object
    <2>3. \A k \in Objects : global'[k] = IF k = j THEN Step(global[j]) ELSE global[k]
      BY <1>2 DEF ProcessGlobal, TypeOK
    <2> QED
      BY <1>2, <2>1, <2>2, <2>3 DEF ProcessGlobal, netVars, StaysFollowed, ToldFollows
  <1> QED
    BY <1>1, <1>2 DEF Process

\* Being in step, a client that follows shows where the object goes.
LEMMA FollowsTold ==
    ASSUME NetInv, slot \in SUBSET Players, NEW i \in slot, NEW j \in Objects
    PROVE  Follows(i, j) <=> ToldFollows(i, j)
  <1>1. InStep(i, j) => view[i][j] = told[i][j]
    BY InStepShows
  <1> QED
    BY <1>1 DEF Follows, ToldFollows

\* Whoever is initialised is sent every move that begins from then on, and sees it
\* if the RPCs come as they were sent: a client misses only moves that were under
\* way when InitForPlayer created the objects on it.
THEOREM MovesNeverLost == Spec => NoMoveLost
  <1> DEFINE Stays ==
                 \A i \in slot \cap slot', j \in Objects :
                     (/\ stage = "running" /\ i \notin pending
                      /\ stage' = "running" /\ i \notin pending'
                      /\ Follows(i, j)) => Follows(i, j)'
  <1>1. ASSUME TypeOK, NetInv, IndexInv, CompleteInv, Next PROVE StaysFollowed
    <2>1. CASE Delivery
      BY <2>1, DeliveryQuiet DEF StaysFollowed, ToldFollows
    <2>2. CASE Next /\ ~Delivery
      BY <1>1, <2>2, PlayersKeepMoves, NativesKeepMoves, ProcessKeepsMoves
      DEF Next, Delivery, CompleteInv
    <2> QED
      BY <1>1, <2>1, <2>2
  <1>2. ASSUME TypeOK, NetInv, TypeOK', NetInv', StaysFollowed PROVE Stays
    <2> SUFFICES ASSUME NEW i \in slot \cap slot', NEW j \in Objects,
                        stage = "running", i \notin pending,
                        stage' = "running", i \notin pending', Follows(i, j)
                 PROVE  Follows(i, j)'
      OBVIOUS
    <2>1. ToldFollows(i, j)
      BY <1>2, FollowsTold DEF TypeOK
    <2>2. ToldFollows(i, j)'
      BY <1>2, <2>1 DEF StaysFollowed
    <2>3. Follows(i, j)' <=> ToldFollows(i, j)'
      <3>1. NetInv' /\ i \in Players /\ i \in slot'
        BY <1>2 DEF TypeOK
      <3>2. InStep(i, j)' => view'[i][j] = told'[i][j]
        BY <3>1 DEF NetInv, Chained, Chain, InStep
      <3> QED
        BY <3>2 DEF Follows, ToldFollows
    <2> QED
      BY <2>2, <2>3
  <1>3. TypeOK /\ NetInv /\ IndexInv /\ CompleteInv /\ TypeOK' /\ NetInv' /\ [Next]_vars
            => [Stays]_vars
    BY <1>1, <1>2
  <1> HIDE DEF Stays
  <1>4. Spec => [][Stays]_vars
    BY <1>3, NetAlways, IndexAlways, ToldAlwaysComplete, PTL DEF Spec
  <1> QED
    BY <1>4 DEF NoMoveLost, Stays
=============================================================================
