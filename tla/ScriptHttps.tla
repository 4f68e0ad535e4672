---------------------------- MODULE ScriptHttps ----------------------------
(***************************************************************************)
(* HTTP requests of scripts, composed with the scripts themselves.  Each   *)
(* request has a thread of its own, which shares the request's record with *)
(* the main thread and tells it through one integer, iState.  The main     *)
(* thread polls, calls the script back by the AMX pointer it has kept, and *)
(* deletes the record.                                                     *)
(* A ticket is the number of a request; several requests may have had the  *)
(* same slot.                                                              *)
(***************************************************************************)
EXTENDS FilterScripts

CONSTANTS
    MaxHttps,    \* MAX_HTTP_REQUESTS
    MaxTickets,  \* bound: requests made in all
    MaxWork      \* bound: programs loaded and requests made, together

ASSUME HttpsAssumption ==
    /\ MaxHttps \in Nat \ {0}
    /\ MaxTickets \in Nat \ {0}
    /\ MaxWork \in Nat

VARIABLES
    https,   \* pHttps: the ticket in each slot, or NoTicket
    state,   \* iState of each request's record
    thread,  \* where each request's thread is
    caller,  \* pAMX of each request
    silent,  \* bSilent of each request
    at,      \* the loop variable of Process; 0 outside it
    calling, \* Process is in amx_Exec
    tickets, \* history: requests made so far
    asker,   \* history: the program that made the request
    told,    \* history: the program that got the answer
    left,    \* history: a program went while a request of its was open
    late     \* history: a thread wrote into a record that had been deleted

httpVars ==
    <<https, state, thread, caller, silent, at, calling, tickets, asker, told, left, late>>
vars == <<scriptVars, httpVars>>

HttpSlots == 1 .. MaxHttps
Tickets   == 1 .. MaxTickets
NoTicket  == 0
Nobody    == 0

HttpsTypeOK ==
    /\ https \in [HttpSlots -> Tickets \cup {NoTicket}]
    /\ state \in [Tickets -> {"none", "waiting", "processing", "processed"}]
    /\ thread \in [Tickets -> {"none", "started", "working", "answered", "written", "ended"}]
    /\ caller \in [Tickets -> Addrs \cup {None}]
    /\ silent \in [Tickets -> BOOLEAN]
    /\ at \in 0 .. MaxHttps
    /\ calling \in BOOLEAN
    /\ tickets \in 0 .. MaxTickets
    /\ asker \in [Tickets -> Programs \cup {Nobody}]
    /\ told \in [Tickets -> Programs \cup {Nobody}]
    /\ {left, late} \subseteq BOOLEAN

TypeOK == ScriptsTypeOK /\ HttpsTypeOK

Init ==
    /\ ScriptsInit
    /\ https = [h \in HttpSlots |-> NoTicket]
    /\ state = [t \in Tickets |-> "none"]
    /\ thread = [t \in Tickets |-> "none"]
    /\ caller = [t \in Tickets |-> None]
    /\ silent = [t \in Tickets |-> FALSE]
    /\ at = 0
    /\ calling = FALSE
    /\ tickets = 0
    /\ asker = [t \in Tickets |-> Nobody]
    /\ told = [t \in Tickets |-> Nobody]
    /\ left = FALSE
    /\ late = FALSE

Open == {t \in Tickets : \E h \in HttpSlots : https[h] = t}

\* Requests that still have to call program p.
OpenFor(p) == {t \in Open : asker[t] = p /\ ~silent[t] /\ told[t] = Nobody}

\* While the game mode restarts, its return is kept in reserve.
WorkLeft == loads + tickets + (IF mode = None THEN 1 ELSE 0) < MaxWork

-----------------------------------------------------------------------------
(* The native HTTP: CScriptHttps::New, called by the script that runs.     *)

FreeHttpSlot(h) ==
    /\ https[h] = NoTicket
    /\ \A k \in 1 .. h - 1 : https[k] # NoTicket

\* Mutant: the AMX that is kept is the game mode's, whoever called.
ModesAmx == IF mode = None THEN Top.addr ELSE mode

CallersAmx == Top.addr

\* The result of StartThread is ignored: without a thread the request waits
\* for ever.
New(h, quiet, started) ==
    /\ up
    /\ stack # <<>>
    /\ TopAlive
    /\ tickets < MaxTickets
    /\ WorkLeft
    /\ FreeHttpSlot(h)
    /\ LET t == tickets + 1
       IN  /\ tickets' = t
           /\ https' = [https EXCEPT ![h] = t]
           /\ state' = [state EXCEPT ![t] = "waiting"]
           /\ thread' = [thread EXCEPT ![t] = IF started THEN "started" ELSE "none"]
           /\ caller' = [caller EXCEPT ![t] = CallersAmx]
           /\ silent' = [silent EXCEPT ![t] = quiet]
           /\ asker' = [asker EXCEPT ![t] = Top.prog]
    /\ UNCHANGED <<scriptVars, at, calling, told, left, late>>

-----------------------------------------------------------------------------
(* HttpThread, at single stores to the shared record. *)

Worker(t, from, to, st) ==
    /\ up
    /\ thread[t] = from
    /\ thread' = [thread EXCEPT ![t] = to]
    /\ state' = [state EXCEPT ![t] = st]
    /\ UNCHANGED <<scriptVars, https, caller, silent, at, calling, tickets, asker, told, left>>

Begin(t) == Worker(t, "started", "working", "processing") /\ UNCHANGED late

\* ProcessURL: the document, or an error code, is in the record.
ProcessURL(t) == Worker(t, "working", "answered", state[t]) /\ UNCHANGED late

\* The two last stores, iState and field_79, are unordered: either may come
\* first, and the main thread may run between them.
Finish(t) ==
    /\ \/ Worker(t, "answered", "written", "processed")
       \/ Worker(t, "answered", "ended", "processed")
    /\ UNCHANGED late

\* field_79 = 0, possibly into a record that was deleted in the meantime: a
\* write to heap memory that is free, or somebody else's by now.
LastWrite(t) ==
    /\ Worker(t, "written", "ended", state[t])
    /\ late' = (late \/ t \notin Open)

\* What such a write does to the heap may end the process, then or later.  (What
\* else it may do is left out.)
HeapCrashes ==
    /\ late
    /\ ThreadCrashes
    /\ UNCHANGED httpVars

-----------------------------------------------------------------------------
(* CScriptHttps::Process, polled by the main loop while the game runs. *)

BeginPass ==
    /\ up
    /\ stack = <<>>
    /\ mode # None
    /\ at = 0
    /\ at' = 1
    /\ UNCHANGED <<scriptVars, https, state, thread, caller, silent, calling, tickets, asker,
                   told, left, late>>

\* Mutant: the loop runs one slot too far.
NextSlotTooFar == at + 1

NextSlot == IF at = MaxHttps THEN 0 ELSE at + 1

Visiting == up /\ at # 0 /\ ~calling /\ stack = <<>>

Processed(h) == https[h] # NoTicket /\ state[https[h]] = "processed"

Skip ==
    /\ Visiting
    /\ ~Processed(at)
    /\ at' = NextSlot
    /\ UNCHANGED <<scriptVars, https, state, thread, caller, silent, calling, tickets, asker,
                   told, left, late>>

\* Mutant: the record stays in its slot.
DeleteForgotten ==
    /\ at' = NextSlot
    /\ calling' = FALSE
    /\ UNCHANGED <<https, state, thread, caller, silent, tickets, asker, told, left, late>>

\* delete pHttps[i]; pHttps[i] = NULL
Delete ==
    /\ https' = [https EXCEPT ![at] = NoTicket]
    /\ at' = NextSlot
    /\ calling' = FALSE
    /\ UNCHANGED <<state, thread, caller, silent, tickets, asker, told, left, late>>

\* Mutant: delete stands inside the branch for requests that are not silent.
DropHeard ==
    /\ Visiting
    /\ Processed(at)
    /\ IF silent[https[at]]
       THEN /\ at' = NextSlot
            /\ UNCHANGED <<https, state, thread, caller, silent, calling, tickets, asker, told,
                           left, late>>
       ELSE Delete
    /\ UNCHANGED scriptVars

\* The request is silent, or no such public is found in what pAMX points to.
Drop ==
    /\ Visiting
    /\ Processed(at)
    /\ Delete
    /\ UNCHANGED scriptVars

\* Mutant: the slot is cleared before the callback.
DeliverCleared ==
    /\ Visiting
    /\ Processed(at)
    /\ LET t == https[at]
       IN  /\ ~silent[t]
           /\ CallProgram(caller[t])
           /\ told' = [told EXCEPT ![t] = amx[caller[t]]]
    /\ calling' = TRUE
    /\ https' = [https EXCEPT ![at] = NoTicket]
    /\ UNCHANGED <<state, thread, caller, silent, at, tickets, asker, left, late>>

\* The callback is executed, by whatever program is at that address by now.
Deliver ==
    /\ Visiting
    /\ Processed(at)
    /\ LET t == https[at]
       IN  /\ ~silent[t]
           /\ CallProgram(caller[t])
           /\ told' = [told EXCEPT ![t] = amx[caller[t]]]
    /\ calling' = TRUE
    /\ UNCHANGED <<https, state, thread, caller, silent, at, tickets, asker, left, late>>

\* ... and there may be none: the script was unloaded.
DeliverCrashes ==
    /\ Visiting
    /\ Processed(at)
    /\ ~silent[https[at]]
    /\ CallProgramCrashes(caller[https[at]])
    /\ UNCHANGED httpVars

\* amx_Exec returns.
EndDeliver ==
    /\ calling
    /\ ReturnProgram
    /\ Delete

-----------------------------------------------------------------------------
(* The rest of the server. *)

\* Commands and callbacks that free no program.
Scripting ==
    /\ \/ (at = 0 \/ stack # <<>>) /\ Commands /\ (WorkLeft \/ UNCHANGED loads)
       \/ EndLoad
       \/ EndUnloadCrashes
       \/ EndEvent
       \/ EndMode
       \/ FreedProgramRuns
       \/ (at = 0 \/ stack # <<>>) /\ BeginEvent
       \/ at = 0 /\ (UnloadCrashes \/ LoadMode)
    /\ UNCHANGED httpVars

\* Those that free one.
Unloading ==
    /\ \/ Unloads /\ (WorkLeft \/ UNCHANGED loads)
       \/ at = 0 /\ Unload /\ WorkLeft
    /\ left' = (left \/ \E a \in Addrs :
                    /\ amx[a] \in Programs /\ amx'[a] # amx[a]
                    /\ OpenFor(amx[a]) # {})
    /\ UNCHANGED <<https, state, thread, caller, silent, at, calling, tickets, asker, told, late>>

Next ==
    \/ \E h \in HttpSlots, quiet, started \in BOOLEAN : New(h, quiet, started)
    \/ \E t \in Tickets : Begin(t) \/ ProcessURL(t) \/ Finish(t) \/ LastWrite(t)
    \/ HeapCrashes
    \/ BeginPass \/ Skip \/ Drop \/ Deliver \/ DeliverCrashes \/ EndDeliver
    \/ Scripting \/ Unloading

Spec == Init /\ [][Next]_vars

\* One return of the innermost callback, or one step of its walk.
Returning ==
    \/ (EndLoad \/ EndEvent \/ EndMode \/ EndUnloadCrashes) /\ UNCHANGED httpVars
    \/ Unloading /\ Unloads
    \/ EndDeliver

(***************************************************************************)
(* Every callback returns, whatever callbacks and commands are nested in   *)
(* it: strong fairness for each depth.  The main loop comes by Process,    *)
(* and by the end of a restart, again and again, although callbacks may be *)
(* in between: strong fairness.  Nothing is assumed of the threads, which  *)
(* wait for the network, and of what scripts and admins ask for.           *)
(***************************************************************************)
Fairness ==
    /\ \A d \in 1 .. MaxDepth : SF_vars(Len(stack) = d /\ Returning)
    /\ SF_vars(at = 0 /\ LoadMode /\ UNCHANGED httpVars)
    /\ WF_vars(Skip)
    /\ WF_vars(Drop \/ Deliver \/ DeliverCrashes)
    /\ SF_vars(BeginPass)

FairSpec == Spec /\ Fairness

-----------------------------------------------------------------------------
(* Properties. *)

\* A thread that has not finished still has its record: nothing but the store
\* of field_79 can come after delete.
WorkersHaveRecords ==
    \A t \in Tickets : thread[t] \in {"started", "working", "answered"} => t \in Open

\* Who is told an answer has asked for it, or the one who asked is gone and
\* another program lies at its address (Process does not notice).
ToldWhoAsked ==
    \A t \in Tickets : told[t] \notin {Nobody, asker[t]} =>
        \A a \in Addrs : amx[a] # asker[t]

\* The process survives all this, unless a script's file was refused or missing,
\* a script was told to unload itself, a script went with a request open, or a
\* thread's last store came after its record was deleted.
CrashNeedsFault == ~up => faults # {} \/ left \/ late

Promise == INSTANCE HttpPromise WITH
    Requests <- Tickets, Scripts <- Programs, Places <- MaxHttps, Nobody <- Nobody,
    asked <- 1 .. tickets,
    answered <- {t \in Tickets : thread[t] \in {"answered", "written", "ended"}},
    open <- Open,
    told <- told

\* The slots, threads and callbacks implement the promise: an answer is told
\* once, and not before the thread has it, and a slot is not given away while
\* the thread works for it.
KeepsPromise == Promise!PromiseSpec

\* The programs of the composed system behave as FilterScripts says: what
\* Process does to them are calls by a kept AMX pointer.
KeepsScripts == ScriptsSpec

\* A processed request gives its slot back, as long as the process lives.
SlotsComeBack ==
    \A t \in Tickets : (t \in Open /\ state[t] = "processed") ~> (t \notin Open \/ ~up)
=============================================================================
