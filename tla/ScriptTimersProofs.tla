------------------------- MODULE ScriptTimersProofs -------------------------
(***************************************************************************)
(* Proofs about ScriptTimers for any scripts, intervals and number of      *)
(* timers.  ListInv says where the pass stands in the list; the other      *)
(* invariants rest on it.                                                  *)
(***************************************************************************)
EXTENDS ScriptTimers, TLAPS

\* Where the pass stands: on an entry, with itor_tmp behind it, and only the
\* entry that is being called has run below zero.
ListInv ==
    /\ phase # "idle" => itor \in Alive
    /\ phase = "call" => itorTmp > itor /\ timers[itor].remaining <= 0
    /\ \A t \in Alive : t <= count
    /\ \A t \in Alive : timers[t].remaining < 0 => phase = "call" /\ t = itor

TypedList == TypeOK /\ ListInv

\* The pass in progress, if any, has not come to t yet.
Unvisited(t) == (phase = "visit" /\ t >= itor) \/ (phase = "call" /\ t > itor)

\* What a timer has counted is at most a tick more than the time that passed,
\* and not more than that time while the current tick is still to be counted.
OnTime(t) ==
    ~timers[t].killed =>
        age[t] + Tick >= timers[t].total - timers[t].remaining
                             + (IF Unvisited(t) THEN Tick ELSE 0)

EarlyInv == TypedList /\ NeverTooEarly /\ \A t \in Alive : OnTime(t)

-----------------------------------------------------------------------------
(* Entries of the list. *)

\* An entry's fields, and that it is an entry.
LEMMA Entry ==
    ASSUME NEW o \in Timer
    PROVE  /\ o # NoTimer
           /\ o.total \in Nat /\ o.remaining \in Int
           /\ o.repeating \in BOOLEAN /\ o.killed \in BOOLEAN /\ o.owner \in Scripts
  <1>1. /\ o.total \in Nat /\ o.remaining \in Int
        /\ o.repeating \in BOOLEAN /\ o.killed \in BOOLEAN /\ o.owner \in Scripts
    BY TimerAssumption DEF Timer
  <1>2. o \in [total : Int, remaining : Int, repeating : BOOLEAN,
               killed : BOOLEAN, owner : FilterScripts \cup {Mode}]
    BY <1>1 DEF Timer, Scripts
  <1> QED
    BY <1>1, <1>2, TimerAssumption

\* What New, Kill, the countdown and the rearming make of an entry is an entry.
LEMMA ArmedEntry ==
    ASSUME NEW n \in Intervals, NEW rep \in BOOLEAN, NEW s \in Scripts
    PROVE  /\ Armed(n, rep, s) \in Timer
           /\ Armed(n, rep, s).total = n /\ Armed(n, rep, s).remaining = n
           /\ Armed(n, rep, s).owner = s
           /\ Armed(n, rep, s).repeating = rep /\ ~Armed(n, rep, s).killed
  BY TimerAssumption DEF Timer, Armed

LEMMA LoweredEntry ==
    ASSUME NEW o \in Timer, NEW r \in Int
    PROVE  /\ [o EXCEPT !.remaining = r] \in Timer
           /\ [o EXCEPT !.remaining = r].total = o.total
           /\ [o EXCEPT !.remaining = r].remaining = r
           /\ [o EXCEPT !.remaining = r].owner = o.owner
           /\ [o EXCEPT !.remaining = r].killed = o.killed
           /\ [o EXCEPT !.remaining = r].repeating = o.repeating
  BY DEF Timer

LEMMA KilledEntry ==
    ASSUME NEW o \in Timer
    PROVE  /\ Killed(o) \in Timer
           /\ Killed(o).total = o.total /\ Killed(o).remaining = 0
           /\ Killed(o).owner = o.owner /\ Killed(o).killed
  <1> DEFINE a == [o EXCEPT !.remaining = 0]
             b == [a EXCEPT !.killed = TRUE]
  <1>1. a \in Timer /\ a.total = o.total /\ a.remaining = 0 /\ a.owner = o.owner
    BY LoweredEntry
  <1> HIDE DEF a
  <1>2. b \in Timer /\ b.total = o.total /\ b.remaining = 0 /\ b.owner = o.owner /\ b.killed
    BY <1>1 DEF Timer
  <1>3. Killed(o) = [b EXCEPT !.repeating = FALSE]
    BY DEF Killed, a
  <1> HIDE DEF b
  <1> QED
    BY <1>2, <1>3 DEF Timer

LEMMA RearmedEntry ==
    ASSUME NEW o \in Timer
    PROVE  /\ Rearmed(o) \in Timer
           /\ Rearmed(o).total = o.total /\ Rearmed(o).remaining = o.total
           /\ Rearmed(o).owner = o.owner /\ Rearmed(o).killed = o.killed
           /\ Rearmed(o).repeating = o.repeating
  <1>1. o.total \in Int
    BY Entry
  <1> QED
    BY <1>1, LoweredEntry DEF Rearmed

\* A successor is behind what it succeeds, and an entry or the end.
LEMMA SuccBehind ==
    ASSUME NEW S \in SUBSET Ids, NEW n, NEW t \in 0 .. End, Succ(n, t, S)
    PROVE  /\ n \in S \cup {End} /\ n \in 1 .. End
           /\ n \in Ids => n \in S /\ n > t
           /\ t \in Ids => n > t
  <1>1. MaxTimers \in Nat
    BY TimerAssumption
  <1>2. CASE n \in S /\ n > t
    BY <1>1, <1>2 DEF Ids, End
  <1>3. CASE n = End /\ \A k \in S : k <= t
    BY <1>1, <1>3 DEF Ids, End
  <1> QED
    BY <1>2, <1>3 DEF Succ

\* One entry changes.
LEMMA Replaced ==
    ASSUME TypeOK, NEW t \in Ids, NEW o \in Timer \cup {NoTimer},
           timers' = [timers EXCEPT ![t] = o]
    PROVE  /\ timers' \in [Ids -> Timer \cup {NoTimer}]
           /\ \A k \in Ids : timers'[k] = IF k = t THEN o ELSE timers[k]
  BY DEF TypeOK

\* A script's entries go.
LEMMA Dropped ==
    ASSUME TypeOK, NEW s \in Scripts, timers' = DeleteForMode(s)
    PROVE  /\ timers' \in [Ids -> Timer \cup {NoTimer}]
           /\ \A k \in Ids :
                  timers'[k] = IF k \in Alive /\ timers[k].owner = s THEN NoTimer ELSE timers[k]
  BY DEF TypeOK, DeleteForMode

-----------------------------------------------------------------------------
(* Types, and where the pass stands. *)

LEMMA InitTypedList == Init => TypedList
  <1> SUFFICES ASSUME Init PROVE TypedList
    OBVIOUS
  <1>1. Alive = {}
    BY DEF Init, Alive
  <1>2. TypeOK
    BY <1>1, TimerAssumption DEF Init, TypeOK, Ids, End
  <1>3. ListInv
    BY <1>1 DEF Init, ListInv
  <1> QED
    BY <1>2, <1>3 DEF TypedList

LEMMA NewKeepsList ==
    ASSUME TypedList, NEW s \in Scripts, NEW n \in Intervals, NEW rep \in BOOLEAN,
           New(s, n, rep)
    PROVE  TypedList'
  <1> DEFINE o == Armed(n, rep, s)
  <1>1. o \in Timer /\ o.total = n /\ o.remaining = n /\ o # NoTimer /\ n \in Nat
    BY ArmedEntry, Entry, TimerAssumption
  <1> HIDE DEF o
  <1>2. count + 1 \in Ids /\ count' = count + 1 /\ count \in 0 .. MaxTimers
    BY TimerAssumption DEF New, TypedList, TypeOK, Ids
  <1>3. /\ timers' \in [Ids -> Timer \cup {NoTimer}]
        /\ \A k \in Ids : timers'[k] = IF k = count + 1 THEN o ELSE timers[k]
    BY <1>1, <1>2, Replaced DEF New, o, TypedList
  <1>4. Alive' = Alive \cup {count + 1}
    BY <1>1, <1>2, <1>3 DEF Alive
  <1>5. \A t \in Alive : t # count + 1 /\ timers'[t] = timers[t]
    BY <1>2, <1>3 DEF TypedList, ListInv, Alive, Ids
  <1>6. TypeOK'
    <2>1. \A t \in Alive' : timers'[t].remaining \in -Tick .. timers'[t].total
      BY <1>1, <1>2, <1>3, <1>4, <1>5, TimerAssumption DEF TypedList, TypeOK
    <2>2. age' \in [Ids -> Nat]
      BY <1>2 DEF New, TypedList, TypeOK
    <2>3. count' \in 0 .. MaxTimers
      BY <1>2, TimerAssumption DEF Ids
    <2> QED
      BY <1>3, <2>1, <2>2, <2>3 DEF New, TypedList, TypeOK
  <1>7. ListInv'
    <2>1. phase' = phase /\ itor' = itor /\ itorTmp' = itorTmp
      BY DEF New
    <2>2. \A t \in Alive' : t <= count'
      BY <1>2, <1>4 DEF TypedList, ListInv, Alive, Ids
    <2>3. \A t \in Alive' : timers'[t].remaining < 0 => phase = "call" /\ t = itor
      BY <1>1, <1>2, <1>3, <1>4, <1>5 DEF TypedList, ListInv
    <2> QED
      BY <1>4, <1>5, <2>1, <2>2, <2>3 DEF TypedList, ListInv
  <1> QED
    BY <1>6, <1>7 DEF TypedList

LEMMA KillKeepsList ==
    ASSUME TypedList, NEW t \in Ids, Kill(t)
    PROVE  TypedList'
  <1> DEFINE o == Killed(timers[t])
  <1>1. t \in Alive /\ timers[t] \in Timer
    BY DEF Kill, Alive, TypedList, TypeOK
  <1>2. o \in Timer /\ o.total = timers[t].total /\ o.total \in Nat /\ o.remaining = 0 /\ o # NoTimer
    BY <1>1, KilledEntry, Entry
  <1>3. timers' = [timers EXCEPT ![t] = o]
    BY <1>1 DEF Kill
  <1> HIDE DEF o
  <1>4. /\ timers' \in [Ids -> Timer \cup {NoTimer}]
        /\ \A k \in Ids : timers'[k] = IF k = t THEN o ELSE timers[k]
    BY <1>2, <1>3, Replaced DEF TypedList
  <1>5. Alive' = Alive
    BY <1>1, <1>2, <1>4 DEF Alive
  <1>6. TypeOK'
    <2>1. \A k \in Alive' : timers'[k].remaining \in -Tick .. timers'[k].total
      BY <1>2, <1>4, <1>5, TimerAssumption DEF TypedList, TypeOK, Alive
    <2> QED
      BY <1>4, <2>1 DEF Kill, TypedList, TypeOK
  <1>7. ListInv'
    <2>1. phase' = phase /\ itor' = itor /\ itorTmp' = itorTmp /\ count' = count
      BY DEF Kill
    <2>2. \A k \in Alive' : timers'[k].remaining < 0 => phase = "call" /\ k = itor
      BY <1>2, <1>4, <1>5 DEF TypedList, ListInv, Alive
    <2>3. phase = "call" => timers'[itor].remaining <= 0
      BY <1>2, <1>4 DEF TypedList, ListInv, Alive
    <2> QED
      BY <1>5, <2>1, <2>2, <2>3 DEF TypedList, ListInv
  <1> QED
    BY <1>6, <1>7 DEF TypedList

\* Unloading takes entries away, never the one that is being called.
LEMMA DropKeepsList ==
    ASSUME TypedList, NEW s \in Scripts, timers' = DeleteForMode(s),
           phase = "idle" \/ (phase = "call" /\ timers[itor].owner # s),
           loaded' = loaded \ {s}, UNCHANGED <<count, phase, itor, itorTmp, age>>
    PROVE  TypedList'
  <1>1. /\ timers' \in [Ids -> Timer \cup {NoTimer}]
        /\ \A k \in Ids :
               timers'[k] = IF k \in Alive /\ timers[k].owner = s THEN NoTimer ELSE timers[k]
    BY Dropped DEF TypedList
  <1>2. \A k \in Alive' : k \in Alive /\ timers'[k] = timers[k]
    BY <1>1 DEF Alive
  <1>3. phase # "idle" => itor \in Alive' /\ timers'[itor] = timers[itor]
    BY <1>1 DEF TypedList, ListInv, Alive
  <1>4. TypeOK'
    BY <1>1, <1>2 DEF TypedList, TypeOK
  <1>5. ListInv'
    <2>1. phase' = phase /\ itor' = itor /\ itorTmp' = itorTmp /\ count' = count
      OBVIOUS
    <2> QED
      BY <1>2, <1>3, <2>1 DEF TypedList, ListInv
  <1> QED
    BY <1>4, <1>5 DEF TypedList

\* The pass starts, goes on or ends; the entries in the list are the same.
LEMMA BeginPassKeepsList ==
    ASSUME TypedList, BeginPass
    PROVE  TypedList'
  <1>1. Alive' = Alive /\ Alive \subseteq Ids
    BY DEF BeginPass, Alive
  <1>2. itor' \in Alive /\ itor' \in 1 .. End
    <2>1. 0 \in 0 .. End
      BY TimerAssumption DEF End
    <2>2. ~ \A k \in Alive : k <= 0
      <3>1. PICK k \in Alive : TRUE
        BY DEF BeginPass
      <3>2. k \in 1 .. MaxTimers
        BY <1>1 DEF Ids
      <3> QED
        BY <3>1, <3>2, TimerAssumption
    <2> QED
      BY <1>1, <2>1, <2>2, SuccBehind DEF BeginPass, Succ
  <1>3. age' \in [Ids -> Nat]
    <2>1. \A t \in Alive : Older(t) \in Nat
      <3>1. \A t \in Alive : age[t] \in Nat /\ timers[t].total \in Nat
        BY Entry DEF TypedList, TypeOK, Alive
      <3> QED
        BY <3>1, TimerAssumption DEF Older
    <2>2. age' = [t \in Ids |-> IF t \in Alive THEN Older(t) ELSE age[t]]
      BY DEF BeginPass
    <2>3. age \in [Ids -> Nat]
      BY DEF TypedList, TypeOK
    <2> QED
      BY <2>1, <2>2, <2>3
  <1>4. TypeOK'
    BY <1>1, <1>2, <1>3 DEF BeginPass, TypedList, TypeOK
  <1>5. ListInv'
    BY <1>1, <1>2 DEF BeginPass, TypedList, ListInv
  <1> QED
    BY <1>4, <1>5 DEF TypedList

\* The entry the pass stands on, and what the countdown makes of it.
LEMMA AtItor ==
    ASSUME TypedList, phase # "idle"
    PROVE  /\ itor \in Alive /\ itor \in Ids /\ timers[itor] \in Timer
           /\ phase = "visit" =>
                  /\ timers[itor].remaining \in 0 .. timers[itor].total
                  /\ Elapsed(itor) \in -Tick .. timers[itor].total - Tick
  <1>1. itor \in Alive /\ itor \in Ids /\ timers[itor] \in Timer
    BY DEF TypedList, ListInv, TypeOK, Alive
  <1>2. timers[itor].total \in Nat
    BY <1>1, Entry
  <1>3. phase = "visit" => timers[itor].remaining \in 0 .. timers[itor].total
    BY <1>1, <1>2, TimerAssumption DEF TypedList, TypeOK, ListInv
  <1> QED
    BY <1>1, <1>2, <1>3, TimerAssumption DEF Elapsed

\* The countdown at itor.
LEMMA CountedDown ==
    ASSUME TypedList, phase = "visit",
           timers' = [timers EXCEPT ![itor].remaining = Elapsed(itor)]
    PROVE  /\ timers' \in [Ids -> Timer \cup {NoTimer}]
           /\ \A k \in Ids \ {itor} : timers'[k] = timers[k]
           /\ timers'[itor].remaining = Elapsed(itor)
           /\ timers'[itor].total = timers[itor].total
           /\ timers'[itor].killed = timers[itor].killed
           /\ timers'[itor].owner = timers[itor].owner
           /\ timers'[itor].repeating = timers[itor].repeating
           /\ Alive' = Alive
           /\ \A k \in Alive : timers'[k].remaining \in -Tick .. timers'[k].total
  <1> DEFINE o == [timers[itor] EXCEPT !.remaining = Elapsed(itor)]
  <1>1. /\ itor \in Alive /\ itor \in Ids /\ timers[itor] \in Timer
        /\ Elapsed(itor) \in -Tick .. timers[itor].total - Tick
        /\ Elapsed(itor) \in Int
    BY AtItor
  <1>2. /\ o \in Timer /\ o # NoTimer /\ o.remaining = Elapsed(itor)
        /\ o.total = timers[itor].total /\ o.total \in Nat
        /\ o.killed = timers[itor].killed /\ o.owner = timers[itor].owner
        /\ o.repeating = timers[itor].repeating
    BY <1>1, LoweredEntry, Entry
  <1>3. timers' = [timers EXCEPT ![itor] = o]
    OBVIOUS
  <1> HIDE DEF o
  <1>4. /\ timers' \in [Ids -> Timer \cup {NoTimer}]
        /\ \A k \in Ids : timers'[k] = IF k = itor THEN o ELSE timers[k]
    BY <1>1, <1>2, <1>3, Replaced DEF TypedList
  <1>5. Alive' = Alive
    BY <1>1, <1>2, <1>4 DEF Alive
  <1>6. \A k \in Alive : timers'[k].remaining \in -Tick .. timers'[k].total
    BY <1>1, <1>2, <1>4, TimerAssumption DEF TypedList, TypeOK, Alive
  <1> QED
    BY <1>1, <1>2, <1>4, <1>5, <1>6

LEMMA VisitEarlyKeepsList ==
    ASSUME TypedList, VisitEarly
    PROVE  TypedList'
  <1>1. /\ phase = "visit" /\ Elapsed(itor) > 0 /\ itor \in Alive /\ itor \in Ids
        /\ Alive \in SUBSET Ids
    BY AtItor DEF VisitEarly, Due, Alive
  <1>2. /\ timers' \in [Ids -> Timer \cup {NoTimer}]
        /\ \A k \in Ids \ {itor} : timers'[k] = timers[k]
        /\ timers'[itor].remaining = Elapsed(itor)
        /\ Alive' = Alive
        /\ \A k \in Alive : timers'[k].remaining \in -Tick .. timers'[k].total
    BY <1>1, CountedDown DEF VisitEarly
  <1>3. itor' \in Alive \cup {End} /\ itor' \in 1 .. End
    BY <1>1, SuccBehind DEF VisitEarly, TypedList, TypeOK
  <1>4. TypeOK'
    BY <1>2, <1>3 DEF VisitEarly, Stop, TypedList, TypeOK
  <1>5. ListInv'
    <2>1. phase' # "call" /\ (phase' # "idle" => itor' \in Alive) /\ count' = count
      BY <1>3 DEF VisitEarly, Stop
    <2>2. \A t \in Alive : ~(timers'[t].remaining < 0)
      BY <1>1, <1>2 DEF TypedList, ListInv, Alive
    <2> QED
      BY <1>2, <2>1, <2>2 DEF TypedList, ListInv
  <1> QED
    BY <1>4, <1>5 DEF TypedList

LEMMA VisitDueKeepsList ==
    ASSUME TypedList, VisitDue
    PROVE  TypedList'
  <1>1. /\ phase = "visit" /\ Elapsed(itor) <= 0 /\ itor \in Alive /\ itor \in Ids
        /\ Alive \in SUBSET Ids
    BY AtItor DEF VisitDue, Due, Alive
  <1>2. /\ timers' \in [Ids -> Timer \cup {NoTimer}]
        /\ \A k \in Ids \ {itor} : timers'[k] = timers[k]
        /\ timers'[itor].remaining = Elapsed(itor)
        /\ Alive' = Alive
        /\ \A k \in Alive : timers'[k].remaining \in -Tick .. timers'[k].total
    BY <1>1, CountedDown DEF VisitDue
  <1>3. itorTmp' \in 1 .. End /\ itorTmp' > itor
    BY <1>1, SuccBehind DEF VisitDue, TypedList, TypeOK
  <1>4. TypeOK'
    BY <1>2, <1>3 DEF VisitDue, TypedList, TypeOK
  <1>5. ListInv'
    <2>1. phase' = "call" /\ itor' = itor /\ count' = count
      BY DEF VisitDue
    <2>2. \A t \in Alive : timers'[t].remaining < 0 => t = itor
      BY <1>1, <1>2 DEF TypedList, ListInv, Alive
    <2> QED
      BY <1>1, <1>2, <1>3, <2>1, <2>2 DEF TypedList, ListInv
  <1> QED
    BY <1>4, <1>5 DEF TypedList

\* The entry at itor is armed again or erased, the pass goes on further back.
LEMMA Advanced ==
    ASSUME TypedList, phase # "idle", NEW n \in 1 .. End, n > itor, Advance(n)
    PROVE  /\ timers' \in [Ids -> Timer \cup {NoTimer}]
           /\ \A k \in Ids \ {itor} : timers'[k] = timers[k]
           /\ itor \in Alive' => timers'[itor] = Rearmed(timers[itor])
           /\ itor \in Alive' <=> timers[itor].repeating
           /\ Alive' \subseteq Alive /\ \A k \in Alive : k # itor => k \in Alive'
           /\ age' \in [Ids -> Nat] /\ age'[itor] = 0
           /\ \A k \in Ids \ {itor} : age'[k] = age[k]
           /\ itor' \in 1 .. End /\ itor' > itor /\ itor' \in Alive' \cup {End}
           /\ phase' \in {"idle", "visit"} /\ (phase' = "visit" <=> itor' # End)
  <1>1. itor \in Alive /\ itor \in Ids /\ timers[itor] \in Timer
    BY AtItor
  <1> DEFINE o == IF timers[itor].repeating THEN Rearmed(timers[itor]) ELSE NoTimer
  <1>2. /\ o \in Timer \cup {NoTimer} /\ (o # NoTimer => o = Rearmed(timers[itor]))
        /\ o # NoTimer <=> timers[itor].repeating
    BY <1>1, RearmedEntry, Entry
  <1>3. timers' = [timers EXCEPT ![itor] = o]
    BY DEF Advance
  <1> HIDE DEF o
  <1>4. /\ timers' \in [Ids -> Timer \cup {NoTimer}]
        /\ \A k \in Ids : timers'[k] = IF k = itor THEN o ELSE timers[k]
    BY <1>1, <1>2, <1>3, Replaced DEF TypedList
  <1>5. Alive' \subseteq Alive /\ \A k \in Alive : k # itor => k \in Alive'
    BY <1>1, <1>4 DEF Alive
  <1>6. /\ itor \in Alive' => timers'[itor] = Rearmed(timers[itor])
        /\ itor \in Alive' <=> timers[itor].repeating
    BY <1>1, <1>2, <1>4 DEF Alive
  <1>7. itor' \in 1 .. End /\ itor' > itor /\ itor' \in Alive' \cup {End}
    <2>1. MaxTimers \in Nat /\ Alive \in SUBSET Ids /\ itor \in 1 .. MaxTimers
      BY <1>1, TimerAssumption DEF Alive, Ids
    <2>2. CASE n = End
      BY <2>1, <2>2 DEF Advance, End
    <2>3. CASE n # End
      <3>1. Succ(itor', n, Alive) /\ n \in 0 .. End /\ n \in Ids
        BY <2>1, <2>3 DEF Advance, End, Ids
      <3>2. itor' \in Alive \cup {End} /\ itor' \in 1 .. End /\ itor' > n
        BY <2>1, <3>1, SuccBehind
      <3> QED
        BY <1>5, <2>1, <3>2 DEF End
    <2> QED
      BY <2>2, <2>3
  <1>8. /\ age' \in [Ids -> Nat] /\ age'[itor] = 0
        /\ \A k \in Ids \ {itor} : age'[k] = age[k]
    BY <1>1 DEF Advance, TypedList, TypeOK
  <1>9. phase' \in {"idle", "visit"} /\ (phase' = "visit" <=> itor' # End)
    BY DEF Advance, Stop
  <1> QED
    BY <1>4, <1>5, <1>6, <1>7, <1>8, <1>9

LEMMA AdvanceKeepsList ==
    ASSUME TypedList, phase # "idle", NEW n \in 1 .. End, n > itor, Advance(n),
           itorTmp' \in 1 .. End, UNCHANGED <<loaded, count>>
    PROVE  TypedList'
  <1>1. /\ timers' \in [Ids -> Timer \cup {NoTimer}]
        /\ \A k \in Ids \ {itor} : timers'[k] = timers[k]
        /\ itor \in Alive' => timers'[itor] = Rearmed(timers[itor])
        /\ Alive' \subseteq Alive
        /\ age' \in [Ids -> Nat] /\ itor' \in 1 .. End /\ itor' \in Alive' \cup {End}
        /\ phase' \in {"idle", "visit"} /\ (phase' = "visit" <=> itor' # End)
    BY Advanced
  <1>2. itor \in Alive' => timers'[itor].remaining = timers'[itor].total /\ timers'[itor].total \in Nat
    BY <1>1, AtItor, RearmedEntry, Entry
  <1>3. \A k \in Alive' : timers'[k].remaining \in 0 .. timers'[k].total
    <2> SUFFICES ASSUME NEW k \in Alive'
                 PROVE  timers'[k].remaining \in 0 .. timers'[k].total
      OBVIOUS
    <2>1. k \in Alive /\ k \in Ids
      BY <1>1 DEF Alive
    <2>2. CASE k = itor
      BY <1>2, <2>2
    <2>3. CASE k # itor
      <3>1. timers'[k] = timers[k] /\ ~(timers[k].remaining < 0)
        BY <1>1, <2>1, <2>3 DEF TypedList, ListInv
      <3>2. timers[k].remaining \in -Tick .. timers[k].total
        BY <2>1 DEF TypedList, TypeOK
      <3> QED
        BY <3>1, <3>2, TimerAssumption
    <2> QED
      BY <2>2, <2>3
  <1>4. TypeOK'
    BY <1>1, <1>3, TimerAssumption DEF TypedList, TypeOK
  <1>5. ListInv'
    <2>1. \A t \in Alive' : ~(timers'[t].remaining < 0)
      BY <1>3
    <2> QED
      BY <1>1, <2>1 DEF TypedList, ListInv
  <1> QED
    BY <1>4, <1>5 DEF TypedList

\* Both ways a due entry is done with go on behind its successor.
LEMMA DoneDue ==
    ASSUME TypedList, VisitKilled \/ Return
    PROVE  /\ phase # "idle" /\ itorTmp' \in 1 .. End /\ UNCHANGED <<loaded, count>>
           /\ \E n \in 1 .. End : n > itor /\ Advance(n)
  <1>1. CASE VisitKilled
    <2>1. itor \in Ids /\ Alive \in SUBSET Ids /\ itor \in 0 .. End
      BY <1>1, AtItor DEF VisitKilled, Alive, TypedList, TypeOK
    <2>2. itorTmp' \in 1 .. End /\ itorTmp' > itor
      BY <1>1, <2>1, SuccBehind DEF VisitKilled
    <2> QED
      BY <1>1, <2>2 DEF VisitKilled
  <1>2. CASE Return
    BY <1>2 DEF Return, TypedList, TypeOK, ListInv
  <1> QED
    BY <1>1, <1>2

LEMMA NextKeepsList == TypedList /\ [Next]_vars => TypedList'
  <1> SUFFICES ASSUME TypedList, [Next]_vars PROVE TypedList'
    OBVIOUS
  <1>1. ASSUME NEW s \in Scripts, NEW n \in Intervals, NEW rep \in BOOLEAN, New(s, n, rep)
        PROVE  TypedList'
    BY <1>1, NewKeepsList
  <1>2. ASSUME NEW t \in Ids, Kill(t) PROVE TypedList'
    BY <1>2, KillKeepsList
  <1>3. CASE Process
    <2>1. CASE VisitKilled \/ Return
      BY <2>1, DoneDue, AdvanceKeepsList
    <2> QED
      BY <1>3, <2>1, BeginPassKeepsList, VisitEarlyKeepsList, VisitDueKeepsList DEF Process
  <1>4. ASSUME NEW s \in FilterScripts, LoadFilterScript(s) PROVE TypedList'
    BY <1>4 DEF LoadFilterScript, Scripts, TypedList, TypeOK, ListInv, Alive
  <1>5. ASSUME NEW s \in FilterScripts, RemoveFilterScript(s) PROVE TypedList'
    BY <1>5, DropKeepsList DEF RemoveFilterScript, Scripts
  <1>6. CASE Unload
    BY <1>6, DropKeepsList DEF Unload, Scripts
  <1>7. CASE Load
    BY <1>7 DEF Load, Scripts, TypedList, TypeOK, ListInv, Alive
  <1>8. CASE UNCHANGED vars
    BY <1>8 DEF vars, TypedList, TypeOK, ListInv, Alive
  <1> QED
    BY <1>1, <1>2, <1>3, <1>4, <1>5, <1>6, <1>7, <1>8 DEF Next

\* The type invariant holds for any scripts, intervals and number of timers.
THEOREM TimerTypesAlways == Spec => []TypeOK
  <1>1. Spec => []TypedList
    BY InitTypedList, NextKeepsList, PTL DEF Spec
  <1> QED
    BY <1>1, PTL DEF TypedList

-----------------------------------------------------------------------------
(* No timer outlives its script. *)

OwnedInv == TypedList /\ TimersOwned

LEMMA NextKeepsOwned == OwnedInv /\ [Next]_vars => OwnedInv'
  <1> SUFFICES ASSUME OwnedInv, [Next]_vars PROVE OwnedInv'
    OBVIOUS
  <1> USE DEF OwnedInv
  <1>1. TypedList'
    BY NextKeepsList
  <1>2. ASSUME NEW s \in Scripts, NEW n \in Intervals, NEW rep \in BOOLEAN, New(s, n, rep)
        PROVE  TimersOwned'
    <2>1. Armed(n, rep, s) \in Timer \cup {NoTimer} /\ Armed(n, rep, s).owner = s
      BY ArmedEntry
    <2>2. count + 1 \in Ids
      BY <1>2, TimerAssumption DEF New, TypedList, TypeOK, Ids
    <2>3. \A k \in Ids : timers'[k] = IF k = count + 1 THEN Armed(n, rep, s) ELSE timers[k]
      BY <1>2, <2>1, <2>2, Replaced DEF New, TypedList
    <2> QED
      BY <1>2, <2>1, <2>3 DEF New, TimersOwned, Alive
  <1>3. ASSUME NEW t \in Ids, Kill(t) PROVE TimersOwned'
    <2>1. t \in Alive /\ timers[t] \in Timer
      BY <1>3 DEF Kill, Alive, TypedList, TypeOK
    <2>2. Killed(timers[t]) \in Timer \cup {NoTimer} /\ Killed(timers[t]).owner = timers[t].owner
      BY <2>1, KilledEntry
    <2>3. timers' = [timers EXCEPT ![t] = Killed(timers[t])]
      BY <1>3 DEF Kill
    <2>4. \A k \in Ids : timers'[k] = IF k = t THEN Killed(timers[t]) ELSE timers[k]
      BY <2>2, <2>3, Replaced DEF TypedList
    <2> QED
      BY <1>3, <2>1, <2>2, <2>4 DEF Kill, TimersOwned, Alive
  <1>4. CASE BeginPass
    BY <1>1, <1>4 DEF BeginPass, TimersOwned, Alive
  <1>5. CASE VisitEarly \/ VisitDue
    <2>1. /\ \A k \in Ids \ {itor} : timers'[k] = timers[k]
          /\ timers'[itor].owner = timers[itor].owner
          /\ Alive' = Alive /\ Alive \subseteq Ids
      BY <1>5, CountedDown DEF VisitEarly, VisitDue, Alive
    <2>2. \A k \in Alive : timers'[k].owner = timers[k].owner
      BY <2>1
    <2>3. loaded' = loaded
      BY <1>5 DEF VisitEarly, VisitDue
    <2> QED
      BY <1>1, <2>1, <2>2, <2>3 DEF TimersOwned
  <1>6. CASE VisitKilled \/ Return
    <2>1. phase # "idle" /\ loaded' = loaded
      BY <1>6, DoneDue
    <2>2. PICK n \in 1 .. End : n > itor /\ Advance(n)
      BY <1>6, DoneDue
    <2>3. /\ \A k \in Ids \ {itor} : timers'[k] = timers[k]
          /\ itor \in Alive' => timers'[itor] = Rearmed(timers[itor])
          /\ Alive' \subseteq Alive /\ Alive' \subseteq Ids
      BY <2>1, <2>2, Advanced DEF Alive
    <2>4. Rearmed(timers[itor]).owner = timers[itor].owner
      BY <2>1, AtItor, RearmedEntry
    <2>5. \A k \in Alive' : timers'[k].owner = timers[k].owner
      BY <2>3, <2>4
    <2> QED
      BY <1>1, <2>1, <2>3, <2>5 DEF TimersOwned
  <1>7. ASSUME NEW s \in Scripts, timers' = DeleteForMode(s), loaded' = loaded \ {s}
        PROVE  TimersOwned'
    BY <1>7, Dropped DEF TypedList, TimersOwned, Alive
  <1>8. ASSUME NEW s \in FilterScripts, LoadFilterScript(s) \/ RemoveFilterScript(s)
        PROVE  TimersOwned'
    BY <1>7, <1>8 DEF LoadFilterScript, RemoveFilterScript, Scripts, TimersOwned, Alive
  <1>9. CASE Load \/ Unload
    BY <1>1, <1>7, <1>9 DEF Load, Unload, Scripts, TimersOwned, Alive
  <1>10. CASE UNCHANGED vars
    BY <1>1, <1>10 DEF vars, TimersOwned, Alive
  <1> QED
    BY <1>1, <1>2, <1>3, <1>4, <1>5, <1>6, <1>8, <1>9, <1>10 DEF Next, Process

\* Every timer's script is loaded: no callback runs in an AMX that is gone.
THEOREM TimersAlwaysOwned == Spec => []TimersOwned
  <1>1. Init => OwnedInv
    BY InitTypedList DEF Init, OwnedInv, TimersOwned, Alive
  <1>2. Spec => []OwnedInv
    BY <1>1, NextKeepsOwned, PTL DEF Spec
  <1> QED
    BY <1>2, PTL DEF OwnedInv

-----------------------------------------------------------------------------
(* The iterators stay valid. *)

ValidInv == TypedList /\ IteratorsValid

LEMMA NextKeepsValid ==
    ASSUME ~UnloadInCallback
    PROVE  ValidInv /\ [Next]_vars => ValidInv'
  <1> SUFFICES ASSUME ValidInv, [Next]_vars PROVE ValidInv'
    OBVIOUS
  <1> USE DEF ValidInv
  <1>1. TypedList'
    BY NextKeepsList
  <1>2. phase' # "idle" => itor' \in Alive'
    BY <1>1 DEF TypedList, ListInv
  <1>3. ASSUME NEW s \in Scripts, NEW n \in Intervals, NEW rep \in BOOLEAN, New(s, n, rep)
        PROVE  IteratorsValid'
    <2>1. Armed(n, rep, s) \in Timer \cup {NoTimer} /\ Armed(n, rep, s) # NoTimer
      BY ArmedEntry, Entry
    <2>2. count + 1 \in Ids
      BY <1>3, TimerAssumption DEF New, TypedList, TypeOK, Ids
    <2>3. \A k \in Ids : timers'[k] = IF k = count + 1 THEN Armed(n, rep, s) ELSE timers[k]
      BY <1>3, <2>1, <2>2, Replaced DEF New, TypedList
    <2>4. Alive \subseteq Alive'
      BY <2>1, <2>3 DEF Alive
    <2> QED
      BY <1>2, <1>3, <2>4 DEF New, IteratorsValid
  <1>4. ASSUME NEW t \in Ids, Kill(t) PROVE IteratorsValid'
    <2>1. t \in Alive /\ timers[t] \in Timer
      BY <1>4 DEF Kill, Alive, TypedList, TypeOK
    <2>2. Killed(timers[t]) \in Timer \cup {NoTimer} /\ Killed(timers[t]) # NoTimer
      BY <2>1, KilledEntry, Entry
    <2>3. timers' = [timers EXCEPT ![t] = Killed(timers[t])]
      BY <1>4 DEF Kill
    <2>4. \A k \in Ids : timers'[k] = IF k = t THEN Killed(timers[t]) ELSE timers[k]
      BY <2>2, <2>3, Replaced DEF TypedList
    <2>5. Alive \subseteq Alive'
      BY <2>2, <2>4 DEF Alive
    <2> QED
      BY <1>2, <1>4, <2>5 DEF Kill, IteratorsValid
  <1>5. CASE VisitDue
    <2>1. itor \in Ids /\ Alive \in SUBSET Ids /\ itor \in 0 .. End
      BY <1>5, AtItor DEF VisitDue, Alive, TypedList, TypeOK
    <2>2. itorTmp' \in Alive \cup {End}
      BY <1>5, <2>1, SuccBehind DEF VisitDue
    <2>3. Alive' = Alive
      BY <1>5, CountedDown DEF VisitDue
    <2> QED
      BY <1>1, <1>2, <2>2, <2>3 DEF IteratorsValid
  <1>6. CASE BeginPass \/ VisitEarly \/ VisitKilled \/ Return
    <2>1. phase' # "call"
      BY <1>6 DEF BeginPass, VisitEarly, VisitKilled, Return, Advance, Stop
    <2> QED
      BY <1>1, <1>2, <2>1 DEF IteratorsValid
  <1>7. ASSUME NEW s \in FilterScripts, LoadFilterScript(s) \/ RemoveFilterScript(s)
        PROVE  IteratorsValid'
    BY <1>2, <1>7 DEF LoadFilterScript, RemoveFilterScript, IteratorsValid, Alive
  <1>8. CASE Load \/ Unload
    BY <1>1, <1>2, <1>8 DEF Load, Unload, IteratorsValid
  <1>9. CASE UNCHANGED vars
    BY <1>1, <1>2, <1>9 DEF vars, IteratorsValid, Alive
  <1> QED
    BY <1>1, <1>3, <1>4, <1>5, <1>6, <1>7, <1>8, <1>9 DEF Next, Process

\* Unless a timer callback unloads a filterscript, the pass never stands on an
\* entry that is gone.
THEOREM IteratorsAlwaysValid ==
    ASSUME ~UnloadInCallback
    PROVE  Spec => []IteratorsValid
  <1>1. Init => ValidInv
    BY InitTypedList DEF Init, ValidInv, IteratorsValid
  <1>2. ValidInv /\ [Next]_vars => ValidInv'
    BY NextKeepsValid
  <1>3. Spec => []ValidInv
    BY <1>1, <1>2, PTL DEF Spec
  <1> QED
    BY <1>3, PTL DEF ValidInv

-----------------------------------------------------------------------------
(* No timer is called too early. *)

\* The numbers OnTime speaks of.
LEMMA Numbers ==
    ASSUME TypedList
    PROVE  /\ Tick \in Nat /\ Tick > 0 /\ Alive \subseteq Ids /\ Ids \subseteq Nat
           /\ itor \in Nat /\ age \in [Ids -> Nat]
           /\ \A t \in Alive : /\ timers[t].total \in Nat
                              /\ timers[t].remaining \in Int
                              /\ age[t] \in Nat
  <1>1. \A t \in Alive : timers[t] \in Timer
    BY DEF TypedList, TypeOK, Alive
  <1>2. \A t \in Alive : timers[t].total \in Nat /\ timers[t].remaining \in Int
    BY <1>1, Entry
  <1> QED
    BY <1>2, TimerAssumption DEF TypedList, TypeOK, Alive, Ids, End

LEMMA NewKeepsEarly ==
    ASSUME EarlyInv, NEW s \in Scripts, NEW n \in Intervals, NEW rep \in BOOLEAN,
           New(s, n, rep)
    PROVE  NeverTooEarly' /\ \A t \in Alive' : OnTime(t)'
  <1> USE DEF EarlyInv
  <1> DEFINE o == Armed(n, rep, s)
  <1>1. o \in Timer /\ o.total = n /\ o.remaining = n /\ n \in Nat
    BY ArmedEntry, TimerAssumption
  <1> HIDE DEF o
  <1>2. count + 1 \in Ids /\ count' = count + 1 /\ count \in 0 .. MaxTimers
    BY TimerAssumption DEF New, TypedList, TypeOK, Ids
  <1>3. \A k \in Ids : timers'[k] = IF k = count + 1 THEN o ELSE timers[k]
    BY <1>1, <1>2, Replaced DEF New, o, TypedList
  <1>4. \A t \in Alive : t # count + 1 /\ t \in Ids
    BY <1>2 DEF TypedList, ListInv, Alive, Ids
  <1>5. \A t \in Ids : t # count + 1 => age'[t] = age[t]
    BY Numbers DEF New
  <1>6. age'[count + 1] = 0
    BY <1>2, Numbers DEF New
  <1>7. phase' = phase /\ itor' = itor
    BY DEF New
  <1>8. NeverTooEarly'
    <2>1. phase = "call" => itor \in Alive
      BY DEF TypedList, ListInv
    <2> QED
      BY <1>3, <1>4, <1>5, <1>7, <2>1 DEF NeverTooEarly
  <1>9. ASSUME NEW t \in Alive' PROVE OnTime(t)'
    <2>1. t \in Ids
      BY DEF Alive
    <2>2. CASE t = count + 1
      <3>1. timers'[t] = o /\ age'[t] = 0
        BY <1>2, <1>3, <1>6, <2>2
      <3> QED
        BY <1>1, <3>1, Numbers DEF OnTime
    <2>3. CASE t # count + 1
      <3>1. t \in Alive /\ timers'[t] = timers[t] /\ age'[t] = age[t]
        BY <1>3, <1>5, <2>1, <2>3 DEF Alive
      <3> QED
        BY <1>7, <3>1 DEF OnTime, Unvisited
    <2> QED
      BY <2>2, <2>3
  <1> QED
    BY <1>8, <1>9

LEMMA KillKeepsEarly ==
    ASSUME EarlyInv, NEW t \in Ids, Kill(t)
    PROVE  NeverTooEarly' /\ \A k \in Alive' : OnTime(k)'
  <1> USE DEF EarlyInv
  <1> DEFINE o == Killed(timers[t])
  <1>1. t \in Alive /\ timers[t] \in Timer
    BY DEF Kill, Alive, TypedList, TypeOK
  <1>2. o \in Timer /\ o.total = timers[t].total /\ o.killed
    BY <1>1, KilledEntry
  <1>3. timers' = [timers EXCEPT ![t] = o]
    BY <1>1 DEF Kill
  <1> HIDE DEF o
  <1>4. \A k \in Ids : timers'[k] = IF k = t THEN o ELSE timers[k]
    BY <1>2, <1>3, Replaced DEF TypedList
  <1>5. phase' = phase /\ itor' = itor /\ age' = age
    BY DEF Kill
  <1>6. NeverTooEarly'
    <2>1. phase = "call" => itor \in Ids
      BY DEF TypedList, ListInv, Alive
    <2>2. phase = "call" => timers'[itor].total = timers[itor].total
      BY <1>2, <1>4, <2>1
    <2> QED
      BY <1>5, <2>2 DEF NeverTooEarly
  <1>7. ASSUME NEW k \in Alive' PROVE OnTime(k)'
    <2>1. k \in Ids
      BY DEF Alive
    <2>2. CASE k = t
      BY <1>2, <1>4, <2>1, <2>2 DEF OnTime
    <2>3. CASE k # t
      <3>1. k \in Alive /\ timers'[k] = timers[k]
        BY <1>4, <2>1, <2>3 DEF Alive
      <3> QED
        BY <1>5, <3>1 DEF OnTime, Unvisited
    <2> QED
      BY <2>2, <2>3
  <1> QED
    BY <1>6, <1>7

\* The tick is counted in every timer's age, and is still to be counted down.
LEMMA BeginPassKeepsEarly ==
    ASSUME EarlyInv, BeginPass
    PROVE  NeverTooEarly' /\ \A k \in Alive' : OnTime(k)'
  <1> USE DEF EarlyInv
  <1>1. phase = "idle" /\ phase' = "visit" /\ timers' = timers /\ Alive' = Alive
    BY DEF BeginPass, Alive
  <1>2. ASSUME NEW k \in Alive PROVE OnTime(k)'
    <2>1. age'[k] = Older(k)
      BY Numbers DEF BeginPass
    <2>2. timers[k].remaining >= 0
      BY <1>1, Numbers DEF TypedList, ListInv
    <2>3. ~timers[k].killed => age[k] + Tick >= timers[k].total - timers[k].remaining
      BY <1>1, Numbers DEF OnTime, Unvisited
    <2>4. ~timers[k].killed => Older(k) >= timers[k].total - timers[k].remaining
      BY <2>2, <2>3, Numbers DEF Older
    <2>5. Older(k) \in Nat
      BY Numbers DEF Older
    <2> QED
      BY <1>1, <2>1, <2>4, <2>5, Numbers DEF OnTime
  <1> QED
    BY <1>1, <1>2 DEF NeverTooEarly

\* The tick is counted down at itor.
LEMMA VisitKeepsEarly ==
    ASSUME EarlyInv, VisitEarly \/ VisitDue
    PROVE  NeverTooEarly' /\ \A k \in Alive' : OnTime(k)'
  <1> USE DEF EarlyInv
  <1>1. /\ phase = "visit" /\ itor \in Alive /\ age' = age
        /\ timers' = [timers EXCEPT ![itor].remaining = Elapsed(itor)]
    BY AtItor DEF VisitEarly, VisitDue
  <1>2. /\ \A k \in Ids \ {itor} : timers'[k] = timers[k]
        /\ timers'[itor].remaining = timers[itor].remaining - Tick
        /\ timers'[itor].total = timers[itor].total
        /\ timers'[itor].killed = timers[itor].killed
        /\ Alive' = Alive
    BY <1>1, CountedDown DEF Elapsed
  <1>3. ~timers[itor].killed =>
            age[itor] + Tick >= timers'[itor].total - timers'[itor].remaining
    BY <1>1, <1>2, Numbers DEF OnTime, Unvisited
  <1>4. \A k \in Alive : Unvisited(k)' => k > itor
    <2>1. CASE VisitEarly
      <3>1. Alive \in SUBSET Ids /\ itor \in 0 .. End
        BY <2>1 DEF Alive, TypedList, TypeOK
      <3>2. itor' > itor /\ itor' \in Nat
        BY <1>1, <2>1, <3>1, SuccBehind DEF VisitEarly
      <3>3. phase' # "call"
        BY <2>1 DEF VisitEarly, Stop
      <3> QED
        BY <3>2, <3>3, Numbers DEF Unvisited
    <2>2. CASE VisitDue
      BY <2>2 DEF VisitDue, Unvisited
    <2> QED
      BY <2>1, <2>2
  <1>5. ASSUME NEW k \in Alive PROVE OnTime(k)'
    <2>1. CASE k = itor
      <3>1. ~Unvisited(k)'
        BY <1>4, <2>1, Numbers
      <3> QED
        BY <1>1, <1>2, <1>3, <2>1, <3>1, Numbers DEF OnTime
    <2>2. CASE k # itor
      <3>1. timers'[k] = timers[k]
        BY <1>2, <2>2, Numbers
      <3>2. Unvisited(k)' => Unvisited(k)
        BY <1>1, <1>4, Numbers DEF Unvisited
      <3>3. /\ OnTime(k) /\ age'[k] = age[k] /\ age[k] \in Nat /\ Tick \in Nat
            /\ timers[k].total \in Nat /\ timers[k].remaining \in Int
        BY <1>1, Numbers
      <3> QED
        BY <3>1, <3>2, <3>3 DEF OnTime
    <2> QED
      BY <2>1, <2>2
  <1>6. NeverTooEarly'
    <2>1. CASE VisitEarly
      BY <2>1 DEF VisitEarly, Stop, NeverTooEarly
    <2>2. CASE VisitDue
      <3>1. ~timers[itor].killed /\ itor' = itor
        BY <2>2 DEF VisitDue
      <3>2. timers'[itor].remaining <= 0
        BY <1>2, <2>2 DEF VisitDue, Due, Elapsed
      <3> QED
        BY <1>1, <1>2, <1>3, <3>1, <3>2, Numbers DEF NeverTooEarly
    <2> QED
      BY <2>1, <2>2
  <1> QED
    BY <1>2, <1>5, <1>6

\* An entry that is armed again starts from nothing, and is behind the pass.
LEMMA DoneKeepsEarly ==
    ASSUME EarlyInv, VisitKilled \/ Return
    PROVE  NeverTooEarly' /\ \A k \in Alive' : OnTime(k)'
  <1> USE DEF EarlyInv
  <1>1. phase # "idle"
    BY DoneDue
  <1>2. PICK n \in 1 .. End : n > itor /\ Advance(n)
    BY DoneDue
  <1>3. /\ \A k \in Ids \ {itor} : timers'[k] = timers[k] /\ age'[k] = age[k]
        /\ itor \in Alive' => timers'[itor] = Rearmed(timers[itor])
        /\ Alive' \subseteq Alive /\ age'[itor] = 0
        /\ itor' > itor /\ itor' \in 1 .. End
        /\ phase' # "call"
    BY <1>1, <1>2, Advanced
  <1>4. ASSUME NEW k \in Alive' PROVE OnTime(k)'
    <2>1. k \in Alive /\ k \in Ids
      BY <1>3, Numbers
    <2>2. Unvisited(k)' => k > itor
      BY <1>3, <2>1, Numbers DEF Unvisited
    <2>3. CASE k = itor
      <3>1. timers'[k] = Rearmed(timers[itor]) /\ age'[k] = 0 /\ timers[itor] \in Timer
        BY <1>1, <1>3, <2>3, AtItor
      <3>2. timers'[k].remaining = timers'[k].total /\ timers'[k].total \in Nat
        BY <3>1, RearmedEntry, Entry
      <3>3. ~Unvisited(k)'
        BY <2>2, <2>3, Numbers
      <3> QED
        BY <3>1, <3>2, <3>3, Numbers DEF OnTime
    <2>4. CASE k # itor
      <3>1. timers'[k] = timers[k] /\ age'[k] = age[k]
        BY <1>3, <2>1, <2>4
      <3>2. Unvisited(k)' => Unvisited(k)
        BY <1>1, <2>1, <2>2, Numbers DEF Unvisited, TypedList, TypeOK
      <3> QED
        BY <2>1, <3>1, <3>2, Numbers DEF OnTime
    <2> QED
      BY <2>3, <2>4
  <1> QED
    BY <1>3, <1>4 DEF NeverTooEarly

LEMMA DropKeepsEarly ==
    ASSUME EarlyInv, NEW s \in Scripts, timers' = DeleteForMode(s),
           phase = "idle" \/ (phase = "call" /\ timers[itor].owner # s),
           UNCHANGED <<phase, itor, age>>
    PROVE  NeverTooEarly' /\ \A k \in Alive' : OnTime(k)'
  <1> USE DEF EarlyInv
  <1>1. \A k \in Ids :
            timers'[k] = IF k \in Alive /\ timers[k].owner = s THEN NoTimer ELSE timers[k]
    BY Dropped DEF TypedList
  <1>2. \A k \in Alive' : k \in Alive /\ timers'[k] = timers[k]
    BY <1>1 DEF Alive
  <1>3. phase = "call" => timers'[itor] = timers[itor]
    BY <1>1 DEF TypedList, ListInv, Alive
  <1>4. phase' = phase /\ itor' = itor /\ age' = age
    OBVIOUS
  <1>5. NeverTooEarly'
    BY <1>3, <1>4 DEF NeverTooEarly
  <1>6. \A k \in Alive' : OnTime(k)'
    BY <1>2, <1>4 DEF OnTime, Unvisited
  <1> QED
    BY <1>5, <1>6

LEMMA NextKeepsEarly == EarlyInv /\ [Next]_vars => EarlyInv'
  <1> SUFFICES ASSUME EarlyInv, [Next]_vars PROVE EarlyInv'
    OBVIOUS
  <1>1. TypedList'
    BY NextKeepsList DEF EarlyInv
  <1> SUFFICES NeverTooEarly' /\ \A k \in Alive' : OnTime(k)'
    BY <1>1 DEF EarlyInv
  <1>2. ASSUME NEW s \in Scripts, NEW n \in Intervals, NEW rep \in BOOLEAN, New(s, n, rep)
        PROVE  NeverTooEarly' /\ \A k \in Alive' : OnTime(k)'
    BY <1>2, NewKeepsEarly
  <1>3. ASSUME NEW t \in Ids, Kill(t)
        PROVE  NeverTooEarly' /\ \A k \in Alive' : OnTime(k)'
    BY <1>3, KillKeepsEarly
  <1>4. CASE Process
    BY <1>4, BeginPassKeepsEarly, VisitKeepsEarly, DoneKeepsEarly DEF Process
  <1>5. ASSUME NEW s \in FilterScripts, RemoveFilterScript(s)
        PROVE  NeverTooEarly' /\ \A k \in Alive' : OnTime(k)'
    BY <1>5, DropKeepsEarly DEF RemoveFilterScript, Scripts
  <1>6. CASE Unload
    BY <1>6, DropKeepsEarly DEF Unload, Scripts
  <1>7. CASE UNCHANGED <<timers, phase, itor, age>>
    <2>1. Alive' = Alive
      BY <1>7 DEF Alive
    <2>2. timers' = timers /\ phase' = phase /\ itor' = itor /\ age' = age
      BY <1>7
    <2> QED
      BY <2>1, <2>2 DEF EarlyInv, NeverTooEarly, OnTime, Unvisited
  <1> QED
    BY <1>2, <1>3, <1>4, <1>5, <1>6, <1>7 DEF Next, Load, LoadFilterScript, vars

\* A timer is called at most one tick before its interval has passed, for any
\* intervals, ticks and callbacks.
THEOREM TimersNeverTooEarly == Spec => []NeverTooEarly
  <1>1. Init => EarlyInv
    BY InitTypedList DEF Init, EarlyInv, NeverTooEarly, Alive
  <1>2. Spec => []EarlyInv
    BY <1>1, NextKeepsEarly, PTL DEF Spec
  <1> QED
    BY <1>2, PTL DEF EarlyInv

-----------------------------------------------------------------------------
(* The promise of SetTimer and KillTimer. *)

\* The same handles are to be called as before.
Untouched ==
    \A t \in Ids :
        /\ Pending(t)' <=> Pending(t)
        /\ Pending(t) => /\ timers'[t].owner = timers[t].owner
                         /\ timers'[t].repeating = timers[t].repeating

LEMMA SameHandles == Untouched => On' = On /\ Once' = Once
  <1> SUFFICES ASSUME Untouched PROVE On' = On /\ Once' = Once
    OBVIOUS
  <1>1. \A s \in Scripts : {t \in Ids : Pending(t) /\ timers[t].owner = s}'
                         = {t \in Ids : Pending(t) /\ timers[t].owner = s}
    BY DEF Untouched
  <1>2. Once' = Once
    BY DEF Untouched, Once
  <1> QED
    BY <1>1, <1>2 DEF On

\* Of each script and of all, without the handles in K.
LEMMA FewerHandles ==
    ASSUME NEW K \in SUBSET Ids,
           \A t \in Ids : Pending(t)' <=> Pending(t) /\ t \notin K,
           \A t \in Ids \ K : Pending(t) => /\ timers'[t].owner = timers[t].owner
                                            /\ timers'[t].repeating = timers[t].repeating
    PROVE  /\ On' = [s \in Scripts |-> On[s] \ K]
           /\ Once' = Once \ K
  <1>1. \A s \in Scripts : {t \in Ids : Pending(t) /\ timers[t].owner = s}'
                         = {t \in Ids : Pending(t) /\ timers[t].owner = s} \ K
    OBVIOUS
  <1>2. Once' = Once \ K
    BY DEF Once
  <1> QED
    BY <1>1, <1>2 DEF On

LEMMA PendingEntry ==
    ASSUME TypedList, NEW t \in Ids, Pending(t)
    PROVE  t \in Alive /\ timers[t].owner \in Scripts /\ t \in On[timers[t].owner]
  <1>1. t \in Alive /\ timers[t] \in Timer
    BY DEF Pending, TypedList, TypeOK, Alive
  <1>2. timers[t].owner \in Scripts
    BY <1>1, Entry
  <1> QED
    BY <1>1, <1>2 DEF On

LEMMA NewGives ==
    ASSUME TypedList, NEW s \in Scripts, NEW n \in Intervals, NEW rep \in BOOLEAN,
           New(s, n, rep)
    PROVE  Promise!PromiseNext
  <1> DEFINE o == Armed(n, rep, s)
             k == count + 1
  <1>1. o \in Timer /\ o # NoTimer /\ o.owner = s /\ o.repeating = rep /\ ~o.killed
    BY ArmedEntry, Entry
  <1> HIDE DEF o
  <1>2. k \in Ids /\ k \notin 1 .. count /\ 1 .. count' = 1 .. count \cup {k}
    BY TimerAssumption DEF New, TypedList, TypeOK, Ids
  <1>3. timers' = [timers EXCEPT ![k] = o]
    BY DEF New, o
  <1> HIDE DEF k
  <1>4. \A t \in Ids : timers'[t] = IF t = k THEN o ELSE timers[t]
    BY <1>1, <1>2, <1>3, Replaced DEF TypedList
  <1>5. k \notin Alive
    BY <1>2 DEF TypedList, ListInv, TypeOK, Alive, Ids
  <1>6. UNCHANGED <<loaded, phase, itor>> /\ Turn = "scripts" /\ s \in loaded
    BY DEF New, Scripting, Turn
  <1>7. phase = "call" => itor # k
    BY <1>5 DEF TypedList, ListInv
  <1>8. \A t \in Ids : Pending(t)' <=> Pending(t) \/ t = k
    BY <1>1, <1>4, <1>5, <1>6, <1>7 DEF Pending, Alive
  <1>9. \A t \in Ids : t # k => timers'[t] = timers[t]
    BY <1>4
  <1>10. On' = [On EXCEPT ![s] = @ \cup {k}]
    <2>1. \A r \in Scripts : On'[r] = IF r = s THEN On[r] \cup {k} ELSE On[r]
      BY <1>1, <1>2, <1>4, <1>5, <1>8 DEF On, Pending
    <2> QED
      BY <2>1 DEF On
  <1>11. Once' = IF rep THEN Once ELSE Once \cup {k}
    BY <1>1, <1>2, <1>4, <1>5, <1>8 DEF Once, Pending
  <1>12. Turn' = Turn /\ Calling' = Calling
    BY <1>6 DEF Turn, Calling
  <1> QED
    BY <1>2, <1>6, <1>10, <1>11, <1>12 DEF Promise!PromiseNext, Promise!Give

LEMMA KillTakesBack ==
    ASSUME TypedList, NEW k \in Ids, Kill(k)
    PROVE  Promise!PromiseNext
  <1>1. k \in Alive /\ timers[k] \in Timer
    BY DEF Kill, Alive, TypedList, TypeOK
  <1>2. Killed(timers[k]) \in Timer \cup {NoTimer} /\ Killed(timers[k]).killed
    BY <1>1, KilledEntry
  <1>3. timers' = [timers EXCEPT ![k] = Killed(timers[k])]
    BY <1>1 DEF Kill
  <1>4. \A t \in Ids : timers'[t] = IF t = k THEN Killed(timers[k]) ELSE timers[t]
    BY <1>2, <1>3, Replaced DEF TypedList
  <1>5. UNCHANGED <<loaded, count, phase, itor>> /\ Turn = "scripts"
    BY DEF Kill, Scripting, Turn
  <1>6. \A t \in Ids : Pending(t)' <=> Pending(t) /\ t \notin {k}
    BY <1>2, <1>4, <1>5 DEF Pending, Alive
  <1>7. On' = [s \in Scripts |-> On[s] \ {k}] /\ Once' = Once \ {k}
    BY <1>4, <1>6, FewerHandles
  <1>8. Turn' = Turn /\ Calling' = Calling
    BY <1>5 DEF Turn, Calling
  <1> QED
    BY <1>5, <1>7, <1>8 DEF Promise!PromiseNext, Promise!TakeBack

\* A script takes its handles with it, and no others.
LEMMA DropCloses ==
    ASSUME TypedList, NEW r \in Scripts, r \in loaded, timers' = DeleteForMode(r),
           phase = "idle" \/ phase = "call",
           loaded' = loaded \ {r}, UNCHANGED <<count, phase, itor>>
    PROVE  Promise!PromiseNext
  <1> DEFINE K == On[r]
  <1>1. \A t \in Ids :
            timers'[t] = IF t \in Alive /\ timers[t].owner = r THEN NoTimer ELSE timers[t]
    BY Dropped DEF TypedList
  <1>2. K \in SUBSET Ids /\ \A t \in Ids : t \in K <=> Pending(t) /\ timers[t].owner = r
    BY DEF On
  <1> HIDE DEF K
  <1>3. \A t \in Ids : Pending(t)' <=> Pending(t) /\ t \notin K
    BY <1>1, <1>2 DEF Pending, Alive
  <1>4. \A t \in Ids \ K : Pending(t) => timers'[t] = timers[t]
    BY <1>1, <1>2
  <1>5. On' = [s \in Scripts |-> On[s] \ K] /\ Once' = Once \ K
    BY <1>2, <1>3, <1>4, FewerHandles
  <1>6. \A s \in Scripts : On[s] \ K = IF s = r THEN {} ELSE On[s]
    BY <1>2 DEF On, K
  <1>7. On' = [On EXCEPT ![r] = {}] /\ Once' = Once \ On[r]
    BY <1>5, <1>6 DEF On, K
  <1>8. Turn = "scripts" /\ Turn' = Turn /\ Calling' = Calling
    BY DEF Turn, Calling
  <1> QED
    BY <1>7, <1>8 DEF Promise!PromiseNext, Promise!Close

\* The tick begins, and the pass goes over entries that are not due.
LEMMA SearchLooks ==
    ASSUME TypedList, BeginPass \/ VisitEarly
    PROVE  Promise!PromiseNext \/ UNCHANGED Promise!promiseVars
  <1>1. CASE BeginPass
    <2>1. /\ phase = "idle" /\ phase' = "visit"
          /\ UNCHANGED <<loaded, count, timers>>
      BY <1>1 DEF BeginPass
    <2>2. Untouched
      BY <2>1 DEF Untouched, Pending, Alive
    <2>3. /\ Turn = "scripts" /\ Turn' = "server"
          /\ Calling = {} /\ Calling' = {}
      BY <2>1 DEF Turn, Calling
    <2> QED
      BY <2>1, <2>2, <2>3, SameHandles DEF Promise!PromiseNext, Promise!Look
  <1>2. CASE VisitEarly
    <2>1. /\ phase = "visit" /\ phase' \in {"idle", "visit"}
          /\ UNCHANGED <<loaded, count>>
          /\ timers' = [timers EXCEPT ![itor].remaining = Elapsed(itor)]
      BY <1>2 DEF VisitEarly, Stop
    <2>2. /\ \A t \in Ids \ {itor} : timers'[t] = timers[t]
          /\ timers'[itor].killed = timers[itor].killed
          /\ timers'[itor].owner = timers[itor].owner
          /\ timers'[itor].repeating = timers[itor].repeating
          /\ Alive' = Alive
      BY <2>1, CountedDown
    <2>3. Untouched
      BY <2>1, <2>2 DEF Untouched, Pending
    <2>4. Turn = "server" /\ Calling = {} /\ Calling' = {}
      BY <2>1 DEF Turn, Calling
    <2>5. Turn' = "server" \/ Turn' = "scripts"
      BY DEF Turn
    <2> QED
      BY <2>1, <2>3, <2>4, <2>5, SameHandles
      DEF Promise!PromiseNext, Promise!Rest, Promise!promiseVars
  <1> QED
    BY <1>1, <1>2

\* The entry that is due: its script is there, and one call is its last.
LEMMA DueCalls ==
    ASSUME OwnedInv, VisitDue
    PROVE  Promise!PromiseNext
  <1> USE DEF OwnedInv
  <1> DEFINE r == timers[itor].owner
             K == Once \cap {itor}
  <1>1. /\ phase = "visit" /\ phase' = "call" /\ ~timers[itor].killed
        /\ UNCHANGED <<loaded, count, itor>>
        /\ timers' = [timers EXCEPT ![itor].remaining = Elapsed(itor)]
    BY DEF VisitDue
  <1>2. itor \in Alive /\ itor \in Ids /\ timers[itor] \in Timer
    BY <1>1, AtItor
  <1>3. /\ \A t \in Ids \ {itor} : timers'[t] = timers[t]
        /\ timers'[itor].killed = timers[itor].killed
        /\ timers'[itor].owner = timers[itor].owner
        /\ timers'[itor].repeating = timers[itor].repeating
        /\ Alive' = Alive
    BY <1>1, CountedDown
  <1>4. Pending(itor)
    BY <1>1, <1>2 DEF Pending
  <1>5. r \in Scripts /\ r \in loaded /\ itor \in On[r]
    BY <1>2, <1>4, PendingEntry DEF TimersOwned
  <1>6. \A t \in Ids : Pending(t)' <=> Pending(t) /\ t \notin K
    BY <1>1, <1>2, <1>3, <1>4 DEF Pending, Once
  <1>7. On' = [s \in Scripts |-> On[s] \ K] /\ Once' = Once \ K
    BY <1>3, <1>6, FewerHandles DEF Once
  <1>8. \A s \in Scripts : s # r => itor \notin On[s]
    BY DEF On
  <1> HIDE DEF r
  <1>9. On' = [On EXCEPT ![r] = @ \ (Once \cap {itor})] /\ Once' = Once \ {itor}
    <2>1. \A s \in Scripts :
              On[s] \ K = IF s = r THEN On[s] \ (Once \cap {itor}) ELSE On[s]
      BY <1>8
    <2>2. [On EXCEPT ![r] = @ \ (Once \cap {itor})]
              = [s \in Scripts |-> IF s = r THEN On[s] \ (Once \cap {itor}) ELSE On[s]]
      BY DEF On
    <2> QED
      BY <1>7, <2>1, <2>2
  <1>10. /\ Turn = "server" /\ Turn' = "scripts"
         /\ Calling' = {itor}
    BY <1>1 DEF Turn, Calling
  <1> QED
    BY <1>1, <1>2, <1>5, <1>9, <1>10 DEF Promise!PromiseNext, Promise!Call

\* What is erased in the end was killed, or has had its call.
LEMMA DoneEnds ==
    ASSUME TypedList, VisitKilled \/ Return
    PROVE  Promise!PromiseNext \/ UNCHANGED Promise!promiseVars
  <1>1. phase # "idle" /\ UNCHANGED <<loaded, count>>
    BY DoneDue
  <1>2. PICK n \in 1 .. End : n > itor /\ Advance(n)
    BY DoneDue
  <1>3. /\ \A t \in Ids \ {itor} : timers'[t] = timers[t]
        /\ itor \in Alive' => timers'[itor] = Rearmed(timers[itor])
        /\ itor \in Alive' <=> timers[itor].repeating
        /\ Alive' \subseteq Alive /\ \A t \in Alive : t # itor => t \in Alive'
        /\ phase' \in {"idle", "visit"}
    BY <1>1, <1>2, Advanced
  <1>4. itor \in Alive /\ itor \in Ids /\ timers[itor] \in Timer
    BY <1>1, AtItor
  <1>5. /\ Rearmed(timers[itor]).owner = timers[itor].owner
        /\ Rearmed(timers[itor]).killed = timers[itor].killed
        /\ Rearmed(timers[itor]).repeating = timers[itor].repeating
    BY <1>4, RearmedEntry
  <1>6. phase = "visit" => timers[itor].killed
    BY DEF VisitKilled, Return
  <1>7. ASSUME NEW t \in Ids, t = itor PROVE Pending(t)' <=> Pending(t)
    <2>1. phase = "call" \/ timers[t].killed
      BY <1>1, <1>6, <1>7 DEF TypedList, TypeOK
    <2>2. t \in Alive /\ (t \in Alive' <=> timers[t].repeating) /\ phase' # "call"
      BY <1>3, <1>4, <1>7
    <2>3. t \in Alive' => timers'[t].killed = timers[t].killed
      BY <1>3, <1>5, <1>7
    <2> QED
      BY <1>7, <2>1, <2>2, <2>3 DEF Pending
  <1>8. \A t \in Ids : t # itor => (Pending(t)' <=> Pending(t))
    BY <1>1, <1>3 DEF Pending
  <1>9. Untouched
    <2> SUFFICES ASSUME NEW t \in Ids
                 PROVE  /\ Pending(t)' <=> Pending(t)
                        /\ Pending(t) => /\ timers'[t].owner = timers[t].owner
                                         /\ timers'[t].repeating = timers[t].repeating
      BY DEF Untouched
    <2>1. CASE t = itor
      <3>1. Pending(t)' => t \in Alive'
        BY DEF Pending
      <3> QED
        BY <1>3, <1>5, <1>7, <2>1, <3>1
    <2>2. CASE t # itor
      BY <1>3, <1>8, <2>2
    <2> QED
      BY <2>1, <2>2
  <1>10. Calling' = {} /\ Turn' \in {"server", "scripts"}
    BY <1>3 DEF Calling, Turn
  <1>11. CASE phase = "call"
    <2>1. Calling # {}
      BY <1>11 DEF Calling
    <2> QED
      BY <1>1, <1>9, <1>10, <2>1, SameHandles DEF Promise!PromiseNext, Promise!CallEnds
  <1>12. CASE phase = "visit"
    <2>1. Calling = {} /\ Turn = "server"
      BY <1>12 DEF Calling, Turn
    <2> QED
      BY <1>1, <1>9, <1>10, <2>1, SameHandles
      DEF Promise!PromiseNext, Promise!Rest, Promise!promiseVars
  <1> QED
    BY <1>1, <1>11, <1>12 DEF TypedList, TypeOK

LEMMA LoadOpens ==
    ASSUME TypedList, NEW s \in Scripts, s \notin loaded, loaded' = loaded \cup {s},
           phase # "visit", UNCHANGED <<count, timers, phase, itor>>
    PROVE  Promise!PromiseNext
  <1>1. Untouched
    BY DEF Untouched, Pending, Alive
  <1>2. Turn = "scripts" /\ Turn' = Turn /\ Calling' = Calling
    BY DEF Turn, Calling
  <1> QED
    BY <1>1, <1>2, SameHandles DEF Promise!PromiseNext, Promise!Open

LEMMA NextKeepsPromise ==
    OwnedInv /\ [Next]_vars => [Promise!PromiseNext]_(Promise!promiseVars)
  <1> SUFFICES ASSUME OwnedInv, [Next]_vars
               PROVE  Promise!PromiseNext \/ UNCHANGED Promise!promiseVars
    OBVIOUS
  <1>0. TypedList
    BY DEF OwnedInv
  <1>1. ASSUME NEW s \in Scripts, NEW n \in Intervals, NEW rep \in BOOLEAN, New(s, n, rep)
        PROVE  Promise!PromiseNext
    BY <1>0, <1>1, NewGives
  <1>2. ASSUME NEW t \in Ids, Kill(t) PROVE Promise!PromiseNext
    BY <1>0, <1>2, KillTakesBack
  <1>3. CASE Process
    BY <1>0, <1>3, SearchLooks, DueCalls, DoneEnds DEF Process
  <1>4. ASSUME NEW s \in FilterScripts, LoadFilterScript(s) PROVE Promise!PromiseNext
    BY <1>0, <1>4, LoadOpens DEF LoadFilterScript, Scripting, Scripts
  <1>5. ASSUME NEW s \in FilterScripts, RemoveFilterScript(s) PROVE Promise!PromiseNext
    BY <1>0, <1>5, DropCloses DEF RemoveFilterScript, Scripts
  <1>6. CASE Unload
    BY <1>0, <1>6, DropCloses DEF Unload, Scripts
  <1>7. CASE Load
    BY <1>0, <1>7, LoadOpens DEF Load, Scripts
  <1>8. CASE UNCHANGED vars
    <2>1. Untouched
      BY <1>8 DEF vars, Untouched, Pending, Alive
    <2> QED
      BY <1>8, <2>1, SameHandles DEF vars, Turn, Calling, Promise!promiseVars
  <1> QED
    BY <1>1, <1>2, <1>3, <1>4, <1>5, <1>6, <1>7, <1>8 DEF Next

\* The list and the pass through it keep the promise of SetTimer and KillTimer,
\* for any scripts, intervals and number of timers, and whatever callbacks do.
THEOREM TimersKeepPromise == Spec => KeepsPromise
  <1>1. Init => Promise!PromiseInit
    <2> SUFFICES ASSUME Init PROVE Promise!PromiseInit
      OBVIOUS
    <2>1. Alive = {}
      BY DEF Init, Alive
    <2>2. On = [s \in Scripts |-> {}] /\ Once = {}
      BY <2>1 DEF On, Once, Pending
    <2> QED
      BY <2>2 DEF Init, Promise!PromiseInit, Turn, Calling
  <1>2. Init => OwnedInv
    BY InitTypedList DEF Init, OwnedInv, TimersOwned, Alive
  <1> QED
    BY <1>1, <1>2, NextKeepsOwned, NextKeepsPromise, PTL
    DEF Spec, KeepsPromise, Promise!PromiseSpec
=============================================================================
