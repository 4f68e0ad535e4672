---------------------------- MODULE ScriptTimers ----------------------------
(***************************************************************************)
(* The timers that scripts set: one list for the game mode and all         *)
(* filterscripts, walked once per tick.  The walk calls the scripts back   *)
(* in the middle of the list, and they set and kill timers there.          *)
(***************************************************************************)
EXTENDS Integers, FiniteSets

CONSTANTS
    FilterScripts,    \* filterscripts, by their AMX
    Mode,             \* the AMX of the game mode
    Intervals,        \* intervals scripts ask for
    Tick,             \* time between two passes
    MaxTimers,        \* bound on m_dwTimerCount
    NoTimer,          \* no entry in m_Timers
    UnloadInCallback  \* timer callbacks send "unloadfs" with SendRconCommand

ASSUME TimerAssumption ==
    /\ Mode \notin FilterScripts
    /\ Intervals \subseteq Nat
    /\ Tick \in Nat \ {0}
    /\ MaxTimers \in Nat
    /\ NoTimer \notin [total : Int, remaining : Int, repeating : BOOLEAN,
                       killed : BOOLEAN, owner : FilterScripts \cup {Mode}]
    /\ UnloadInCallback \in BOOLEAN

VARIABLES
    loaded,   \* scripts whose AMX exists
    count,    \* m_dwTimerCount
    timers,   \* m_Timers
    phase,    \* "idle": outside Process; "visit": at itor; "call": in its callback
    itor,     \* the loop's iterator; End is m_Timers.end()
    itorTmp,  \* itor_tmp
    age       \* history: time since the timer was last armed

vars == <<loaded, count, timers, phase, itor, itorTmp, age>>

Scripts == FilterScripts \cup {Mode}
Ids     == 1 .. MaxTimers
End     == MaxTimers + 1
Timer   == [total : Intervals, remaining : Int, repeating : BOOLEAN,
            killed : BOOLEAN, owner : Scripts]

Alive == {t \in Ids : timers[t] # NoTimer}

TypeOK ==
    /\ loaded \in SUBSET Scripts
    /\ count \in 0 .. MaxTimers
    /\ timers \in [Ids -> Timer \cup {NoTimer}]
    /\ \A t \in Alive : timers[t].remaining \in -Tick .. timers[t].total
    /\ phase \in {"idle", "visit", "call"}
    /\ itor \in 1 .. End
    /\ itorTmp \in 1 .. End
    /\ age \in [Ids -> Nat]

Init ==
    /\ loaded = Scripts
    /\ count = 0
    /\ timers = [t \in Ids |-> NoTimer]
    /\ phase = "idle"
    /\ itor = End
    /\ itorTmp = End
    /\ age = [t \in Ids |-> 0]

\* n is the first of S behind t: what itor++ makes of t.
Succ(n, t, S) ==
    \/ n \in S /\ n > t /\ \A k \in S : k > t => n <= k
    \/ n = End /\ \A k \in S : k <= t

\* Scripts run: in a callback of a timer, or in some other callback.
Scripting == phase \in {"idle", "call"}

-----------------------------------------------------------------------------
(* What scripts do. *)

\* Mutant: iRemainingTime is not set.
ArmedLate(n, rep, s) ==
    [total |-> n, remaining |-> 0, repeating |-> rep, killed |-> FALSE, owner |-> s]

\* The entry that CScriptTimers::New and NewEx make.
Armed(n, rep, s) ==
    [total |-> n, remaining |-> n, repeating |-> rep, killed |-> FALSE, owner |-> s]

\* SetTimer and SetTimerEx.
New(s, n, rep) ==
    /\ Scripting
    /\ s \in loaded
    /\ count < MaxTimers
    /\ count' = count + 1
    /\ timers' = [timers EXCEPT ![count + 1] = Armed(n, rep, s)]
    /\ age' = [age EXCEPT ![count + 1] = 0]
    /\ UNCHANGED <<loaded, phase, itor, itorTmp>>

\* Mutants: the entry is erased at once; bRepeating stays.
KilledNow(o) == NoTimer
KilledRepeating(o) == [o EXCEPT !.remaining = 0, !.killed = TRUE]

Killed(o) == [o EXCEPT !.remaining = 0, !.killed = TRUE, !.repeating = FALSE]

\* KillTimer: the entry stays until the next pass finds it due.
Kill(t) ==
    /\ Scripting
    /\ t \in Alive
    /\ timers' = [timers EXCEPT ![t] = Killed(@)]
    /\ UNCHANGED <<loaded, count, phase, itor, itorTmp, age>>

-----------------------------------------------------------------------------
(* CScriptTimers::Process. *)

\* Mutant: a timer is due if it would be before the next tick.
DueSoon(r) == r < Tick

Due(r) == r <= 0

Elapsed(t) == timers[t].remaining - Tick

\* A tick later; a timer's age is counted up to its interval.
Older(t) == IF age[t] + Tick <= timers[t].total THEN age[t] + Tick ELSE timers[t].total

\* The tick: CNetGame::Process calls it while the game runs.
BeginPass ==
    /\ phase = "idle"
    /\ Mode \in loaded
    /\ Alive # {}
    /\ phase' = "visit"
    /\ Succ(itor', 0, Alive)
    /\ age' = [t \in Ids |-> IF t \in Alive THEN Older(t) ELSE age[t]]
    /\ UNCHANGED <<loaded, count, timers, itorTmp>>

Stop == IF itor' = End THEN "idle" ELSE "visit"

\* Not due yet: itor++.
VisitEarly ==
    /\ phase = "visit"
    /\ ~Due(Elapsed(itor))
    /\ timers' = [timers EXCEPT ![itor].remaining = Elapsed(itor)]
    /\ Succ(itor', itor, Alive)
    /\ phase' = Stop
    /\ UNCHANGED <<loaded, count, itorTmp, age>>

\* Due: the script is called.  Which entry follows is looked up before that.
VisitDue ==
    /\ phase = "visit"
    /\ Due(Elapsed(itor))
    /\ ~timers[itor].killed
    /\ timers' = [timers EXCEPT ![itor].remaining = Elapsed(itor)]
    /\ Succ(itorTmp', itor, Alive)
    /\ phase' = "call"
    /\ UNCHANGED <<loaded, count, itor, age>>

\* Mutant: iRemainingTime is not set back.
RearmedNot(o) == o

Rearmed(o) == [o EXCEPT !.remaining = o.total]

\* After the callback, or in place of it: the entry at itor is armed again or
\* erased, the loop goes on behind its successor n.
Advance(n) ==
    /\ timers' = [timers EXCEPT ![itor] = IF @.repeating THEN Rearmed(@) ELSE NoTimer]
    /\ age' = [age EXCEPT ![itor] = 0]
    /\ IF n = End THEN itor' = End ELSE Succ(itor', n, Alive)
    /\ phase' = Stop

\* Due, but killed: not called.
VisitKilled ==
    /\ phase = "visit"
    /\ Due(Elapsed(itor))
    /\ timers[itor].killed
    /\ Succ(itorTmp', itor, Alive)
    /\ Advance(itorTmp')
    /\ UNCHANGED <<loaded, count>>

\* The callback returns.  With an iterator to an erased entry what follows is
\* undefined, and the model stops there.
Return ==
    /\ phase = "call"
    /\ itor \in Alive
    /\ itorTmp \in Alive \cup {End}
    /\ Advance(itorTmp)
    /\ UNCHANGED <<loaded, count, itorTmp>>

-----------------------------------------------------------------------------
(* Scripts come and go. *)

\* Mutant: the loop ends after the first entry it erases.
DeleteForModeOnce(s) ==
    [t \in Ids |->
        IF /\ t \in Alive /\ timers[t].owner = s
           /\ \A k \in Alive : timers[k].owner = s => t <= k
        THEN NoTimer ELSE timers[t]]

\* CScriptTimers::DeleteForMode starts again after each entry it erases.
DeleteForMode(s) ==
    [t \in Ids |-> IF t \in Alive /\ timers[t].owner = s THEN NoTimer ELSE timers[t]]

\* loadfs, of a file the loader accepts.
LoadFilterScript(s) ==
    /\ Scripting
    /\ s \in FilterScripts \ loaded
    /\ loaded' = loaded \cup {s}
    /\ UNCHANGED <<count, timers, phase, itor, itorTmp, age>>

\* unloadfs: RemoveFilterScript after OnFilterScriptExit, which may set timers.
\* A callback that unloads its own script frees the AMX it runs in: left out.
RemoveFilterScript(s) ==
    /\ phase = "idle" \/ (phase = "call" /\ UnloadInCallback /\ timers[itor].owner # s)
    /\ s \in FilterScripts \cap loaded
    /\ loaded' = loaded \ {s}
    /\ timers' = DeleteForMode(s)
    /\ UNCHANGED <<count, phase, itor, itorTmp, age>>

\* ShutdownForGameModeRestart, from CGameMode::Unload's DeleteForMode on, and
\* ReInitWhenRestarting; both between two passes.
Unload ==
    /\ phase = "idle"
    /\ Mode \in loaded
    /\ loaded' = loaded \ {Mode}
    /\ timers' = DeleteForMode(Mode)
    /\ UNCHANGED <<count, phase, itor, itorTmp, age>>

Load ==
    /\ phase = "idle"
    /\ Mode \notin loaded
    /\ loaded' = loaded \cup {Mode}
    /\ UNCHANGED <<count, timers, phase, itor, itorTmp, age>>

-----------------------------------------------------------------------------
Process == BeginPass \/ VisitEarly \/ VisitDue \/ VisitKilled \/ Return

Next ==
    \/ \E s \in Scripts, n \in Intervals, rep \in BOOLEAN : New(s, n, rep)
    \/ \E t \in Ids : Kill(t)
    \/ Process
    \/ \E s \in FilterScripts : LoadFilterScript(s)
    \/ \E s \in FilterScripts : RemoveFilterScript(s)
    \/ Unload
    \/ Load

Spec == Init /\ [][Next]_vars

\* Callbacks return, a restart ends, and the tick comes round again and again,
\* also when restarts keep getting in between.
Fairness ==
    /\ SF_vars(BeginPass)
    /\ WF_vars(VisitEarly) /\ WF_vars(VisitDue) /\ WF_vars(VisitKilled)
    /\ WF_vars(Return)
    /\ WF_vars(Load)

FairSpec == Spec /\ Fairness

-----------------------------------------------------------------------------
(* Properties. *)

\* No timer outlives its script: a timer's callback runs in an AMX that exists.
TimersOwned == \A t \in Alive : timers[t].owner \in loaded

\* An entry that will be called: not killed, not in its only call.
Pending(t) ==
    /\ t \in Alive
    /\ ~timers[t].killed
    /\ phase = "call" /\ t = itor => timers[t].repeating

On      == [s \in Scripts |-> {t \in Ids : Pending(t) /\ timers[t].owner = s}]
Once    == {t \in Ids : Pending(t) /\ ~timers[t].repeating}
Turn    == IF phase = "visit" THEN "server" ELSE "scripts"
Calling == IF phase = "call" THEN {itor} ELSE {}

Promise == INSTANCE TimerPromise WITH
    Handles <- Ids, open <- loaded, given <- 1 .. count,
    on <- On, once <- Once, turn <- Turn, calling <- Calling

\* The list and the pass through it keep the promise of SetTimer and KillTimer:
\* no handle is given out twice, none is called after KillTimer, after its only
\* call or after its script, two never at a time, and the pass loses none.
KeepsPromise == Promise!PromiseSpec

\* The pass never stands on an entry that is gone, whatever the callback does.
\* scrtimers.cpp, DeleteForMode: "Can't continue iteration if a node is deleted".
IteratorsValid ==
    /\ phase # "idle" => itor \in Alive
    /\ phase = "call" => itorTmp \in Alive \cup {End}

\* A timer is called at most one tick before its interval has passed; a timer
\* set by a callback may be counted in the very pass that is under way.
NeverTooEarly == phase = "call" => age[itor] + Tick >= timers[itor].total

\* A killed timer's entry, and its parameters' memory, come back.
KilledGoes ==
    \A t \in Ids : (t \in Alive /\ timers[t].killed) ~> (t \notin Alive)

\* Every timer is called unless it is killed or its script goes, although each
\* one that fires makes the pass skip the next.
EveryTimerFires ==
    \A t \in Ids :
        (t \in Alive) ~> (t \notin Alive \/ timers[t].killed \/ (phase = "call" /\ itor = t))
=============================================================================
