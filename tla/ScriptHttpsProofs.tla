------------------------- MODULE ScriptHttpsProofs -------------------------
(***************************************************************************)
(* Proofs about ScriptHttps for any number of slots, requests, addresses,  *)
(* scripts and nested callbacks.  The programs keep the invariant of       *)
(* FilterScriptsProofs, since every step is one of theirs or leaves them   *)
(* alone; HttpsInv is about the requests on top of that.                   *)
(***************************************************************************)
EXTENDS ScriptHttps, FilterScriptsProofs, FiniteSetTheorems

\* Requests are numbered in order, and one is in one slot at most.
TicketsGood ==
    /\ \A h \in HttpSlots : https[h] <= tickets
    /\ \A h, k \in HttpSlots : https[h] = https[k] /\ https[h] # NoTicket => h = k
    /\ \A t \in Tickets : t > tickets => state[t] = "none" /\ thread[t] = "none" /\ told[t] = Nobody

\* The program that asked is at the address that was kept, or it is gone.
AskersGood ==
    \A t \in Tickets : t <= tickets =>
        /\ caller[t] \in Addrs
        /\ asker[t] \in Programs /\ asker[t] <= loads
        /\ \A a \in Addrs : amx[a] = asker[t] => a = caller[t]

\* How far a thread is shows in iState, and a slot is kept for it.
ThreadsGood ==
    \A t \in Tickets :
        /\ thread[t] = "started" => state[t] = "waiting"
        /\ thread[t] \in {"working", "answered"} => state[t] = "processing"
        /\ thread[t] \in {"written", "ended"} <=> state[t] = "processed"
        /\ thread[t] \in {"started", "working", "answered"} => t \in Open

\* Process keeps its record while the callback runs, and only that record's
\* answer has been told.
PassGood ==
    /\ calling => at \in HttpSlots /\ https[at] # NoTicket /\ state[https[at]] = "processed"
    /\ \A t \in Open : told[t] # Nobody => calling /\ https[at] = t

\* An open request whose script is gone is on record.
LeftGood ==
    \A t \in Open : ~silent[t] /\ told[t] = Nobody /\ amx[caller[t]] # asker[t] => left

HttpsInv ==
    /\ HttpsTypeOK
    /\ TicketsGood
    /\ AskersGood
    /\ ThreadsGood
    /\ PassGood
    /\ ToldWhoAsked
    /\ LeftGood
    /\ CrashNeedsFault

-----------------------------------------------------------------------------
(* The programs. *)

\* The request Process stands at, when it is processed.
LEMMA Visited ==
    ASSUME HttpsInv, at # 0, Processed(at)
    PROVE  /\ at \in HttpSlots
           /\ https[at] \in Open /\ https[at] \in Tickets /\ https[at] <= tickets
           /\ caller[https[at]] \in Addrs
           /\ state[https[at]] = "processed"
           /\ thread[https[at]] \in {"written", "ended"}
           /\ asker[https[at]] \in Programs
           /\ \A a \in Addrs : amx[a] = asker[https[at]] => a = caller[https[at]]
  <1>1. at \in HttpSlots
    BY DEF HttpsInv, HttpsTypeOK, HttpSlots
  <1>2. https[at] \in Tickets /\ https[at] <= tickets
    BY <1>1 DEF HttpsInv, HttpsTypeOK, TicketsGood, Processed
  <1>3. https[at] \in Open
    BY <1>1, <1>2 DEF Open
  <1>4. state[https[at]] = "processed"
    BY DEF Processed
  <1> QED
    BY <1>1, <1>2, <1>3, <1>4 DEF HttpsInv, AskersGood, ThreadsGood

\* A step of the composed system is a step of the programs, or leaves them alone.
LEMMA StepOfScripts ==
    ASSUME HttpsInv, [Next]_vars
    PROVE  [ScriptsNext]_scriptVars
  <1>1. CASE Scripting \/ Unloading
    BY <1>1 DEF Scripting, Unloading, ScriptsNext, Return
  <1>2. ASSUME NEW h \in HttpSlots, NEW quiet \in BOOLEAN, NEW started \in BOOLEAN,
               New(h, quiet, started)
        PROVE  UNCHANGED scriptVars
    BY <1>2 DEF New
  <1>3. ASSUME NEW t \in Tickets, Begin(t) \/ ProcessURL(t) \/ Finish(t) \/ LastWrite(t)
        PROVE  UNCHANGED scriptVars
    BY <1>3 DEF Begin, ProcessURL, Finish, LastWrite, Worker
  <1>4. CASE BeginPass \/ Skip \/ Drop
    BY <1>4 DEF BeginPass, Skip, Drop
  <1>5. CASE Deliver \/ DeliverCrashes
    <2>1. caller[https[at]] \in Addrs
      BY <1>5, Visited DEF Deliver, DeliverCrashes, Visiting
    <2>2. CallProgram(caller[https[at]]) \/ CallProgramCrashes(caller[https[at]])
      BY <1>5 DEF Deliver, DeliverCrashes
    <2> QED
      BY <2>1, <2>2 DEF ScriptsNext
  <1>6. CASE EndDeliver \/ HeapCrashes
    BY <1>6 DEF EndDeliver, HeapCrashes, ScriptsNext
  <1>7. CASE UNCHANGED vars
    BY <1>7 DEF vars
  <1> QED
    BY <1>1, <1>2, <1>3, <1>4, <1>5, <1>6, <1>7 DEF Next

\* Programs do not move, a number is used once, and faults are remembered.
OldStay ==
    /\ \A a \in Addrs : \/ amx'[a] = amx[a]
                        \/ amx'[a] \in {Free, Zeroed, Wild}
                        \/ amx'[a] = loads + 1 /\ loads' = loads + 1
    /\ loads' = loads \/ loads' = loads + 1
    /\ faults \subseteq faults'

LEMMA ScriptsOldStay ==
    ASSUME ScriptsInv, [ScriptsNext]_scriptVars
    PROVE  OldStay
  <1>0. amx \in [Addrs -> Programs \cup {Free, Zeroed, Wild}] /\ loads \in Nat
    BY DEF ScriptsInv, Good, Typed
  <1>1. ASSUME NEW n \in Files, NEW i \in Slots, NEW a \in Addrs, BeginLoad(n, i, a)
        PROVE  OldStay
    BY <1>0, <1>1 DEF BeginLoad, Allocate, OldStay
  <1>2. ASSUME NEW n \in Files, NEW i \in Slots, NEW a \in Addrs, LoadFails(n, i, a)
        PROVE  OldStay
    BY <1>0, <1>2 DEF LoadFails, OldStay
  <1>3. ASSUME NEW n \in Files, NEW i \in Slots, NEW op \in {"exit", "reload"},
               BeginUnload(n, i, op)
        PROVE  OldStay
    BY <1>3 DEF BeginUnload, OldStay
  <1>4. CASE EndUnload
    BY <1>0, <1>4 DEF EndUnload, HeapWithout, OldStay
  <1>5. ASSUME NEW i \in Slots, NEW a \in Addrs, EndReload(i, a)
        PROVE  OldStay
    <2>1. /\ amx' = [HeapWithout(Top.slot) EXCEPT ![a] = loads + 1]
          /\ loads' = loads + 1 /\ faults' = faults
      BY <1>5 DEF EndReload, Allocate
    <2>2. \A b \in Addrs : HeapWithout(Top.slot)[b] \in {amx[b], Free}
      BY <1>0 DEF HeapWithout
    <2>3. HeapWithout(Top.slot) \in [Addrs -> Programs \cup {Free, Zeroed, Wild}]
      BY <1>0 DEF HeapWithout
    <2> QED
      BY <2>1, <2>2, <2>3 DEF OldStay
  <1>6. CASE BeginEvent \/ EndEvent
    <2>1. UNCHANGED <<amx, loads, faults>>
      BY <1>6 DEF BeginEvent, EndEvent, CallBehind, CallMode, CallCrashes, ModeCrashes, Crash
    <2> QED
      BY <2>1 DEF OldStay
  <1>7. CASE EndLoad \/ EndMode \/ ReturnProgram
    BY <1>7 DEF EndLoad, EndMode, ReturnProgram, OldStay
  <1>8. CASE EndUnloadCrashes \/ FreedProgramRuns \/ ThreadCrashes \/ UnloadCrashes
    BY <1>8 DEF EndUnloadCrashes, FreedProgramRuns, ThreadCrashes, UnloadCrashes, ModeCrashes,
                Crash, OldStay
  <1>9. CASE Unload
    BY <1>0, <1>9 DEF Unload, OldStay
  <1>10. CASE LoadMode
    <2>1. ASSUME NEW a \in Addrs, Load(a) PROVE OldStay
      BY <1>0, <2>1 DEF Load, Allocate, OldStay
    <2>2. ASSUME NEW a \in Addrs, NEW c \in {Wild, Zeroed}, LoadModeFails(a, c) PROVE OldStay
      BY <1>0, <2>2 DEF LoadModeFails, OldStay
    <2> QED
      BY <1>10, <2>1, <2>2 DEF LoadMode
  <1>11. ASSUME NEW a \in Addrs, CallProgram(a) \/ CallProgramCrashes(a) PROVE OldStay
    BY <1>11 DEF CallProgram, CallProgramCrashes, Crash, OldStay
  <1>12. CASE UNCHANGED scriptVars
    BY <1>12 DEF scriptVars, OldStay
  <1> QED
    BY <1>1, <1>2, <1>3, <1>4, <1>5, <1>6, <1>7, <1>8, <1>9, <1>10, <1>11, <1>12
    DEF ScriptsNext, Commands, Return, Unloads

\* Commands and callbacks other than the end of an unload free nothing.
LEMMA ScriptingFreesNothing ==
    ASSUME ScriptsInv, Scripting, NEW a \in Addrs, amx[a] \in Programs
    PROVE  amx'[a] = amx[a]
  <1>0. amx \in [Addrs -> Programs \cup {Free, Zeroed, Wild}]
    BY DEF ScriptsInv, Good, Typed
  <1>1. CASE Commands
    <2>1. ASSUME NEW n \in Files, NEW i \in Slots, NEW b \in Addrs, BeginLoad(n, i, b)
          PROVE  amx'[a] = amx[a]
      BY <1>0, <2>1, Marks DEF BeginLoad, Allocate
    <2>2. ASSUME NEW n \in Files, NEW i \in Slots, NEW b \in Addrs, LoadFails(n, i, b)
          PROVE  amx'[a] = amx[a]
      BY <1>0, <2>2, Marks DEF LoadFails
    <2>3. ASSUME NEW n \in Files, NEW i \in Slots, NEW op \in {"exit", "reload"},
                 BeginUnload(n, i, op)
          PROVE  amx'[a] = amx[a]
      BY <2>3 DEF BeginUnload
    <2> QED
      BY <1>1, <2>1, <2>2, <2>3 DEF Commands
  <1>2. CASE BeginEvent \/ EndEvent
    <2>1. amx' = amx
      BY <1>2 DEF BeginEvent, EndEvent, CallBehind, CallMode, CallCrashes, ModeCrashes, Crash
    <2> QED
      BY <2>1
  <1>3. CASE EndLoad \/ EndMode
    BY <1>3 DEF EndLoad, EndMode
  <1>4. CASE EndUnloadCrashes \/ FreedProgramRuns \/ UnloadCrashes
    BY <1>4 DEF EndUnloadCrashes, FreedProgramRuns, UnloadCrashes, ModeCrashes, Crash
  <1>5. CASE LoadMode
    <2>1. ASSUME NEW b \in Addrs, Load(b) PROVE amx'[a] = amx[a]
      BY <1>0, <2>1, Marks DEF Load, Allocate
    <2>2. ASSUME NEW b \in Addrs, NEW c \in {Wild, Zeroed}, LoadModeFails(b, c)
          PROVE  amx'[a] = amx[a]
      BY <1>0, <2>2, Marks DEF LoadModeFails
    <2> QED
      BY <1>5, <2>1, <2>2 DEF LoadMode
  <1> QED
    BY <1>1, <1>2, <1>3, <1>4, <1>5 DEF Scripting

\* A script or command that kills the process does so because of a fault.
LEMMA ScriptingCrash ==
    ASSUME ScriptsInv, Scripting, up' # up
    PROVE  faults # {}
  <1>1. CASE EndUnloadCrashes
    BY <1>1, EndUnloadCrashFault
  <1>2. CASE FreedProgramRuns
    BY <1>2, FreedProgramFault
  <1>3. CASE BeginEvent \/ EndEvent
    <2>1. ASSUME NEW k \in Int, NEW below, CallBehind(k, below) PROVE up' = up
      BY <2>1 DEF CallBehind, CallMode
    <2>2. ASSUME NEW below, CallMode(below) PROVE up' = up
      BY <2>2 DEF CallMode
    <2>3. CASE BeginEvent
      <3>1. 0 \in 0 .. MaxScripts /\ 0 \in Int
        BY ScriptsAssumption
      <3>2. CallCrashes(0)
        BY <2>1, <2>2, <2>3, <3>1 DEF BeginEvent
      <3> QED
        BY <3>1, <3>2, WalkFault
    <2>4. CASE EndEvent
      <3>1. Top.slot \in 0 .. MaxScripts /\ Top.slot \in Int
        BY <2>4, TopFrame, ScriptsAssumption DEF EndEvent, Returns, Frame
      <3>2. CallCrashes(Top.slot) \/ ModeCrashes
        BY <2>1, <2>2, <2>4, <3>1 DEF EndEvent
      <3> QED
        BY <3>1, <3>2, WalkFault, ModeFault
    <2> QED
      BY <1>3, <2>3, <2>4
  <1>4. ASSUME Commands \/ EndLoad \/ EndMode PROVE up' = up
    BY <1>4 DEF Commands, BeginLoad, LoadFails, BeginUnload, EndLoad, EndMode
  <1>5. CASE LoadMode
    BY <1>5 DEF LoadMode, Load, LoadModeFails
  <1>6. CASE UnloadCrashes
    BY <1>6, ModeFault DEF UnloadCrashes
  <1> QED
    BY <1>1, <1>2, <1>3, <1>4, <1>5, <1>6 DEF Scripting

-----------------------------------------------------------------------------
(* The requests. *)

LEMMA HttpsInvInit == Init => HttpsInv
  <1> SUFFICES ASSUME Init PROVE HttpsInv
    OBVIOUS
  <1>0. Open = {}
    BY DEF Init, Open, NoTicket, Tickets
  <1>1. HttpsTypeOK
    <2>1. /\ https \in [HttpSlots -> Tickets \cup {NoTicket}]
          /\ state \in [Tickets -> {"none", "waiting", "processing", "processed"}]
          /\ thread \in [Tickets -> {"none", "started", "working", "answered", "written", "ended"}]
          /\ caller \in [Tickets -> Addrs \cup {None}]
          /\ asker \in [Tickets -> Programs \cup {Nobody}]
          /\ told \in [Tickets -> Programs \cup {Nobody}]
      BY DEF Init
    <2>2. silent \in [Tickets -> BOOLEAN] /\ calling \in BOOLEAN /\ {left, late} \subseteq BOOLEAN
      BY DEF Init
    <2>3. at \in 0 .. MaxHttps /\ tickets \in 0 .. MaxTickets
      BY HttpsAssumption DEF Init
    <2> QED
      BY <2>1, <2>2, <2>3 DEF HttpsTypeOK
  <1>2. TicketsGood
    BY DEF Init, TicketsGood, NoTicket
  <1>3. AskersGood
    BY DEF Init, AskersGood, Tickets
  <1>4. ThreadsGood
    BY DEF Init, ThreadsGood
  <1>5. PassGood
    BY <1>0 DEF Init, PassGood
  <1>6. ToldWhoAsked
    BY DEF Init, ToldWhoAsked
  <1>7. LeftGood
    BY <1>0 DEF LeftGood
  <1>8. CrashNeedsFault
    BY DEF Init, ScriptsInit, CrashNeedsFault
  <1> QED
    BY <1>1, <1>2, <1>3, <1>4, <1>5, <1>6, <1>7, <1>8 DEF HttpsInv

\* What is said of the programs that asked stays true while they only go.
LEMMA AskersStay ==
    ASSUME ScriptsInv, HttpsInv, OldStay, UNCHANGED <<tickets, caller, asker>>
    PROVE  AskersGood'
  <1> SUFFICES ASSUME NEW t \in Tickets, t <= tickets
               PROVE  /\ caller[t] \in Addrs
                      /\ asker[t] \in Programs /\ asker[t] <= loads'
                      /\ \A a \in Addrs : amx'[a] = asker[t] => a = caller[t]
    BY DEF AskersGood
  <1>1. /\ caller[t] \in Addrs
        /\ asker[t] \in Programs /\ asker[t] <= loads
        /\ \A a \in Addrs : amx[a] = asker[t] => a = caller[t]
    BY DEF HttpsInv, AskersGood
  <1>2. loads \in Nat /\ asker[t] \in Nat \ {0}
    BY <1>1 DEF ScriptsInv, Good, Typed, Programs
  <1>3. asker[t] <= loads'
    BY <1>1, <1>2 DEF OldStay
  <1>4. ASSUME NEW a \in Addrs, amx'[a] = asker[t] PROVE a = caller[t]
    BY <1>1, <1>2, <1>4 DEF OldStay, Free, Zeroed, Wild
  <1> QED
    BY <1>1, <1>3, <1>4

LEMMA ToldStay ==
    ASSUME ScriptsInv, HttpsInv, OldStay, UNCHANGED <<tickets, told, asker>>
    PROVE  ToldWhoAsked'
  <1> SUFFICES ASSUME NEW t \in Tickets, told[t] \notin {Nobody, asker[t]}, NEW a \in Addrs
               PROVE  amx'[a] # asker[t]
    BY DEF ToldWhoAsked
  <1>1. amx[a] # asker[t]
    BY DEF HttpsInv, ToldWhoAsked
  <1>2. t <= tickets
    BY DEF HttpsInv, HttpsTypeOK, TicketsGood, Tickets
  <1>3. asker[t] \in Nat \ {0} /\ asker[t] <= loads /\ loads \in Nat
    BY <1>2 DEF HttpsInv, AskersGood, ScriptsInv, Good, Typed, Programs
  <1> QED
    BY <1>1, <1>3 DEF OldStay, Free, Zeroed, Wild

\* Steps of the rest of the server.
LEMMA ServerKeeps ==
    ASSUME ScriptsInv, HttpsInv, OldStay,
           UNCHANGED <<https, state, thread, caller, silent, at, calling, tickets, asker, told>>,
           left' \in BOOLEAN, left => left', late' = late,
           \A a \in Addrs : amx[a] \in Programs /\ amx'[a] # amx[a] /\ OpenFor(amx[a]) # {} => left',
           ~up' => ~up \/ faults # {} \/ left \/ late
    PROVE  HttpsInv'
  <1>1. HttpsTypeOK'
    BY DEF HttpsInv, HttpsTypeOK
  <1>2. TicketsGood' /\ ThreadsGood' /\ PassGood'
    BY DEF HttpsInv, TicketsGood, ThreadsGood, PassGood, Open
  <1>3. AskersGood' /\ ToldWhoAsked'
    BY AskersStay, ToldStay
  <1>4. LeftGood'
    <2> SUFFICES ASSUME NEW t \in Open, ~silent[t], told[t] = Nobody, amx'[caller[t]] # asker[t]
                 PROVE  left'
      BY DEF LeftGood, Open
    <2>1. CASE amx[caller[t]] # asker[t]
      BY <2>1 DEF HttpsInv, LeftGood
    <2>2. CASE amx[caller[t]] = asker[t]
      <3>1. t \in Tickets /\ t <= tickets
        BY DEF HttpsInv, TicketsGood, Open
      <3>2. caller[t] \in Addrs /\ asker[t] \in Programs
        BY <3>1 DEF HttpsInv, AskersGood
      <3>3. t \in OpenFor(amx[caller[t]])
        BY <2>2 DEF OpenFor
      <3> QED
        BY <2>2, <3>2, <3>3
    <2> QED
      BY <2>1, <2>2
  <1>5. CrashNeedsFault'
    BY DEF HttpsInv, CrashNeedsFault, OldStay
  <1> QED
    BY <1>1, <1>2, <1>3, <1>4, <1>5 DEF HttpsInv

LEMMA ScriptingKeeps ==
    ASSUME ScriptsInv, HttpsInv, OldStay, Scripting
    PROVE  HttpsInv'
  <1>1. UNCHANGED httpVars
    BY DEF Scripting
  <1>2. left \in BOOLEAN
    BY DEF HttpsInv, HttpsTypeOK
  <1>3. ~up' => ~up \/ faults # {} \/ left \/ late
    BY ScriptingCrash
  <1> QED
    BY <1>1, <1>2, <1>3, ScriptingFreesNothing, ServerKeeps DEF httpVars

LEMMA UnloadingKeeps ==
    ASSUME ScriptsInv, HttpsInv, OldStay, Unloading
    PROVE  HttpsInv'
  <1>1. UNCHANGED <<https, state, thread, caller, silent, at, calling, tickets, asker, told, late>>
    BY DEF Unloading
  <1>2. left \in BOOLEAN
    BY DEF HttpsInv, HttpsTypeOK
  <1>3. left' = (left \/ \E a \in Addrs :
                    /\ amx[a] \in Programs /\ amx'[a] # amx[a]
                    /\ OpenFor(amx[a]) # {})
    BY DEF Unloading
  <1>4. up' = up
    BY DEF Unloading, Unloads, EndUnload, EndReload, Unload
  <1>5. left' \in BOOLEAN /\ (left => left')
    BY <1>2, <1>3
  <1>6. \A a \in Addrs : amx[a] \in Programs /\ amx'[a] # amx[a] /\ OpenFor(amx[a]) # {} => left'
    BY <1>3
  <1> QED
    BY <1>1, <1>4, <1>5, <1>6, ServerKeeps

\* A script makes a request.
LEMMA NewKeeps ==
    ASSUME ScriptsInv, HttpsInv, NEW h \in HttpSlots, NEW quiet \in BOOLEAN,
           NEW started \in BOOLEAN, New(h, quiet, started)
    PROVE  HttpsInv'
  <1> DEFINE n == tickets + 1
  <1>0. HttpsTypeOK
    BY DEF HttpsInv
  <1>1. n \in Tickets /\ n > tickets /\ tickets \in Nat /\ n # NoTicket
    <2>1. tickets \in 0 .. MaxTickets /\ tickets < MaxTickets /\ MaxTickets \in Nat
      BY <1>0, HttpsAssumption DEF New, HttpsTypeOK
    <2> QED
      BY <2>1 DEF Tickets, NoTicket
  <1>2. /\ tickets' = n
        /\ https' = [https EXCEPT ![h] = n] /\ https[h] = NoTicket
        /\ state' = [state EXCEPT ![n] = "waiting"]
        /\ thread' = [thread EXCEPT ![n] = IF started THEN "started" ELSE "none"]
        /\ caller' = [caller EXCEPT ![n] = Top.addr]
        /\ silent' = [silent EXCEPT ![n] = quiet]
        /\ asker' = [asker EXCEPT ![n] = Top.prog]
        /\ UNCHANGED <<amx, loads, faults, up, at, calling, told, left, late>>
    BY DEF New, FreeHttpSlot, CallersAmx, scriptVars
  <1>3. /\ Top.addr \in Addrs /\ Top.prog \in Programs /\ Top.prog <= loads
        /\ amx[Top.addr] = Top.prog
    BY TopFrame DEF New, TopAlive
  <1>4. told[n] = Nobody
    BY <1>1 DEF HttpsInv, TicketsGood
  <1>5. /\ https'[h] = n /\ \A k \in HttpSlots : k # h => https'[k] = https[k]
        /\ state'[n] = "waiting" /\ \A t \in Tickets : t # n => state'[t] = state[t]
        /\ thread'[n] \in {"started", "none"}
        /\ \A t \in Tickets : t # n => thread'[t] = thread[t]
        /\ caller'[n] = Top.addr /\ \A t \in Tickets : t # n => caller'[t] = caller[t]
        /\ asker'[n] = Top.prog /\ \A t \in Tickets : t # n => asker'[t] = asker[t]
        /\ \A t \in Tickets : t # n => silent'[t] = silent[t]
    BY <1>0, <1>1, <1>2 DEF HttpsTypeOK
  <1>6. \A k \in HttpSlots : https[k] <= tickets /\ https[k] \in Nat
    BY <1>0 DEF HttpsInv, TicketsGood, HttpsTypeOK, Tickets, NoTicket
  <1>7. Open' = Open \cup {n}
    <2>1. \A t \in Tickets : (\E k \in HttpSlots : https'[k] = t)
                                <=> (\E k \in HttpSlots : https[k] = t) \/ t = n
      <3>1. \A t \in Tickets : t # NoTicket
        BY DEF Tickets, NoTicket
      <3> QED
        BY <1>2, <1>5, <3>1
    <2> QED
      BY <2>1, <1>1 DEF Open
  <1>8. HttpsTypeOK'
    <2>1. https' \in [HttpSlots -> Tickets \cup {NoTicket}] /\ tickets' \in 0 .. MaxTickets
      BY <1>0, <1>1, <1>2 DEF HttpsTypeOK, Tickets
    <2>2. /\ state' \in [Tickets -> {"none", "waiting", "processing", "processed"}]
          /\ thread' \in [Tickets -> {"none", "started", "working", "answered", "written", "ended"}]
      BY <1>0, <1>2 DEF HttpsTypeOK
    <2>3. /\ caller' \in [Tickets -> Addrs \cup {None}]
          /\ asker' \in [Tickets -> Programs \cup {Nobody}]
      BY <1>0, <1>2, <1>3 DEF HttpsTypeOK
    <2>4. silent' \in [Tickets -> BOOLEAN]
      BY <1>0, <1>2 DEF HttpsTypeOK
    <2>5. /\ at' \in 0 .. MaxHttps /\ calling' \in BOOLEAN
          /\ told' \in [Tickets -> Programs \cup {Nobody}] /\ {left', late'} \subseteq BOOLEAN
      BY <1>0, <1>2 DEF HttpsTypeOK
    <2> QED
      BY <2>1, <2>2, <2>3, <2>4, <2>5 DEF HttpsTypeOK
  <1> HIDE DEF n
  <1>9. TicketsGood'
    <2>1. \A k \in HttpSlots : https'[k] <= tickets'
      BY <1>1, <1>2, <1>5, <1>6 DEF n
    <2>2. \A j, k \in HttpSlots : https'[j] = https'[k] /\ https'[j] # NoTicket => j = k
      <3>1. \A k \in HttpSlots : https[k] # n
        BY <1>1, <1>6
      <3> QED
        BY <1>5, <3>1 DEF HttpsInv, TicketsGood
    <2>3. \A t \in Tickets : t > tickets' =>
                state'[t] = "none" /\ thread'[t] = "none" /\ told'[t] = Nobody
      <3> SUFFICES ASSUME NEW t \in Tickets, t > n
                   PROVE  state'[t] = "none" /\ thread'[t] = "none" /\ told'[t] = Nobody
        BY <1>2
      <3>1. t # n /\ t > tickets
        BY <1>1 DEF n, Tickets
      <3> QED
        BY <3>1, <1>2, <1>5 DEF HttpsInv, TicketsGood
    <2> QED
      BY <2>1, <2>2, <2>3 DEF TicketsGood
  <1>10. AskersGood'
    <2> SUFFICES ASSUME NEW t \in Tickets, t <= n
                 PROVE  /\ caller'[t] \in Addrs
                        /\ asker'[t] \in Programs /\ asker'[t] <= loads
                        /\ \A a \in Addrs : amx[a] = asker'[t] => a = caller'[t]
      BY <1>2 DEF AskersGood
    <2>1. CASE t = n
      <3>1. \A a \in Addrs : amx[a] = Top.prog => a = Top.addr
        BY <1>3 DEF ScriptsInv, Good, HeapGood
      <3> QED
        BY <2>1, <3>1, <1>3, <1>5
    <2>2. CASE t # n
      <3>1. t <= tickets
        BY <2>2, <1>1 DEF n, Tickets
      <3> QED
        BY <2>2, <3>1, <1>5 DEF HttpsInv, AskersGood
    <2> QED
      BY <2>1, <2>2
  <1>11. ThreadsGood'
    BY <1>5, <1>7 DEF HttpsInv, ThreadsGood
  <1>12. PassGood'
    <2>1. calling => /\ at \in HttpSlots /\ at # h /\ https[at] # NoTicket
                     /\ state[https[at]] = "processed"
      BY <1>2 DEF HttpsInv, PassGood
    <2>2. calling => https[at] \in Tickets /\ https[at] # n
      BY <2>1, <1>0, <1>1, <1>6 DEF HttpsTypeOK
    <2> QED
      BY <2>1, <2>2, <1>2, <1>4, <1>5, <1>7 DEF HttpsInv, PassGood
  <1>13. ToldWhoAsked'
    BY <1>2, <1>4, <1>5 DEF HttpsInv, ToldWhoAsked
  <1>14. LeftGood'
    <2> SUFFICES ASSUME NEW t \in Open', ~silent'[t], told[t] = Nobody,
                        amx[caller'[t]] # asker'[t]
                 PROVE  left
      BY <1>2 DEF LeftGood
    <2>1. t # n
      BY <1>3, <1>5
    <2>2. t \in Open /\ t \in Tickets
      BY <2>1, <1>7 DEF Open
    <2> QED
      BY <2>1, <2>2, <1>5 DEF HttpsInv, LeftGood
  <1>15. CrashNeedsFault'
    BY <1>2 DEF HttpsInv, CrashNeedsFault
  <1> QED
    BY <1>8, <1>9, <1>10, <1>11, <1>12, <1>13, <1>14, <1>15 DEF HttpsInv

\* A thread goes on.
LEMMA WorkerKeeps ==
    ASSUME ScriptsInv, HttpsInv, NEW t \in Tickets,
           Begin(t) \/ ProcessURL(t) \/ Finish(t) \/ LastWrite(t)
    PROVE  HttpsInv'
  <1>0. HttpsTypeOK
    BY DEF HttpsInv
  <1>1. PICK from \in {"started", "working", "answered", "written"},
             to \in {"working", "answered", "written", "ended"},
             st \in {"processing", "processed"} :
            /\ Worker(t, from, to, st)
            /\ to \in {"working", "answered"} =>
                    st = "processing" /\ from \in {"started", "working"}
            /\ to \in {"written", "ended"} => st = "processed"
            /\ from = "written" => to = "ended"
    <2>1. thread[t] = "working" => state[t] = "processing"
      BY DEF HttpsInv, ThreadsGood
    <2>2. thread[t] = "written" => state[t] = "processed"
      BY DEF HttpsInv, ThreadsGood
    <2>3. CASE Begin(t)
      BY <2>3 DEF Begin
    <2>4. CASE ProcessURL(t)
      <3>1. state[t] = "processing"
        BY <2>1, <2>4 DEF ProcessURL, Worker
      <3> QED
        BY <2>4, <3>1 DEF ProcessURL
    <2>5. CASE Finish(t)
      BY <2>5 DEF Finish
    <2>6. CASE LastWrite(t)
      <3>1. state[t] = "processed"
        BY <2>2, <2>6 DEF LastWrite, Worker
      <3> QED
        BY <2>6, <3>1 DEF LastWrite
    <2> QED
      BY <2>3, <2>4, <2>5, <2>6
  <1>2. /\ thread[t] = from
        /\ thread' = [thread EXCEPT ![t] = to]
        /\ state' = [state EXCEPT ![t] = st]
        /\ UNCHANGED <<amx, loads, faults, up, https, caller, silent, at, calling, tickets,
                       asker, told, left>>
        /\ late' \in {late, late \/ t \notin Open}
    BY <1>1 DEF Worker, Begin, ProcessURL, Finish, LastWrite, scriptVars
  <1>3. /\ thread'[t] = to /\ state'[t] = st
        /\ \A r \in Tickets : r # t => thread'[r] = thread[r] /\ state'[r] = state[r]
    BY <1>0, <1>2 DEF HttpsTypeOK
  <1>4. Open' = Open
    BY <1>2 DEF Open
  <1>5. HttpsTypeOK'
    <2>1. /\ state' \in [Tickets -> {"none", "waiting", "processing", "processed"}]
          /\ thread' \in [Tickets -> {"none", "started", "working", "answered", "written", "ended"}]
      BY <1>0, <1>2 DEF HttpsTypeOK
    <2>2. late' \in BOOLEAN
      BY <1>0, <1>2 DEF HttpsTypeOK
    <2> QED
      BY <1>0, <1>2, <2>1, <2>2 DEF HttpsTypeOK
  <1>6. TicketsGood'
    <2>1. ~(t > tickets)
      BY <1>2 DEF HttpsInv, TicketsGood
    <2>2. \A r \in Tickets : r > tickets =>
                state'[r] = "none" /\ thread'[r] = "none" /\ told[r] = Nobody
      BY <2>1, <1>3 DEF HttpsInv, TicketsGood
    <2> QED
      BY <2>2, <1>2 DEF HttpsInv, TicketsGood
  <1>7. AskersGood' /\ ToldWhoAsked' /\ LeftGood' /\ CrashNeedsFault'
    BY <1>2, <1>4 DEF HttpsInv, AskersGood, ToldWhoAsked, LeftGood, CrashNeedsFault
  <1>8. ThreadsGood'
    <2>1. to \in {"working", "answered"} => t \in Open
      BY <1>1, <1>2 DEF HttpsInv, ThreadsGood
    <2> QED
      BY <2>1, <1>1, <1>3, <1>4 DEF HttpsInv, ThreadsGood
  <1>9. PassGood'
    <2>1. calling => /\ at \in HttpSlots /\ https[at] \in Tickets
                     /\ state[https[at]] = "processed"
      BY <1>0 DEF HttpsInv, PassGood, HttpsTypeOK
    <2>2. state[t] = "processed" => st = "processed"
      BY <1>1, <1>2 DEF HttpsInv, ThreadsGood
    <2> QED
      BY <2>1, <2>2, <1>2, <1>3, <1>4 DEF HttpsInv, PassGood
  <1> QED
    BY <1>5, <1>6, <1>7, <1>8, <1>9 DEF HttpsInv

\* Process moves on without deleting.
LEMMA LookKeeps ==
    ASSUME ScriptsInv, HttpsInv, BeginPass \/ Skip
    PROVE  HttpsInv'
  <1>1. /\ UNCHANGED <<amx, loads, faults, up, https, state, thread, caller, silent, tickets,
                       asker, told, left, late, calling>>
        /\ ~calling
        /\ at' \in 0 .. MaxHttps
    <2>1. at \in 0 .. MaxHttps /\ MaxHttps \in Nat \ {0}
      BY HttpsAssumption DEF HttpsInv, HttpsTypeOK
    <2>2. CASE BeginPass
      <3>1. ~calling
        BY <2>2 DEF BeginPass, HttpsInv, PassGood, HttpSlots
      <3> QED
        BY <2>1, <2>2, <3>1 DEF BeginPass, scriptVars
    <2>3. CASE Skip
      BY <2>1, <2>3 DEF Skip, NextSlot, Visiting, scriptVars
    <2> QED
      BY <2>2, <2>3
  <1>2. Open' = Open
    BY <1>1 DEF Open
  <1>3. HttpsTypeOK'
    BY <1>1 DEF HttpsInv, HttpsTypeOK
  <1>4. TicketsGood' /\ AskersGood' /\ ToldWhoAsked' /\ CrashNeedsFault'
    BY <1>1 DEF HttpsInv, TicketsGood, AskersGood, ToldWhoAsked, CrashNeedsFault
  <1>5. ThreadsGood' /\ PassGood' /\ LeftGood'
    BY <1>1, <1>2 DEF HttpsInv, ThreadsGood, PassGood, LeftGood
  <1> QED
    BY <1>3, <1>4, <1>5 DEF HttpsInv

\* What delete leaves open.
LEMMA Deleted ==
    ASSUME HttpsInv, at \in HttpSlots, https[at] # NoTicket, Delete
    PROVE  Open' = Open \ {https[at]}
  <1>1. /\ https' = [https EXCEPT ![at] = NoTicket]
        /\ https \in [HttpSlots -> Tickets \cup {NoTicket}]
        /\ \A t \in Tickets : t # NoTicket
    BY DEF Delete, HttpsInv, HttpsTypeOK, Tickets, NoTicket
  <1>2. \A t \in Tickets : (\E k \in HttpSlots : https'[k] = t)
                              <=> (\E k \in HttpSlots : https[k] = t) /\ t # https[at]
    BY <1>1 DEF HttpsInv, TicketsGood
  <1> QED
    BY <1>2 DEF Open

\* Process deletes a record, after the callback or without one.
LEMMA DeleteKeeps ==
    ASSUME ScriptsInv, HttpsInv, at # 0, Processed(at), Delete,
           UNCHANGED <<amx, loads, faults, up>>
    PROVE  HttpsInv'
  <1>0. HttpsTypeOK /\ at \in 0 .. MaxHttps /\ MaxHttps \in Nat \ {0}
    BY HttpsAssumption DEF HttpsInv, HttpsTypeOK
  <1>1. /\ at \in HttpSlots /\ https[at] # NoTicket
        /\ thread[https[at]] \in {"written", "ended"}
    BY Visited DEF Processed
  <1>2. /\ https' = [https EXCEPT ![at] = NoTicket]
        /\ calling' = FALSE /\ at' \in 0 .. MaxHttps
        /\ UNCHANGED <<state, thread, caller, silent, tickets, asker, told, left, late>>
    BY <1>0 DEF Delete, NextSlot
  <1>3. https'[at] = NoTicket /\ \A k \in HttpSlots : k # at => https'[k] = https[k]
    BY <1>0, <1>1, <1>2 DEF HttpsTypeOK
  <1>4. Open' = Open \ {https[at]}
    BY <1>1, Deleted
  <1>5. HttpsTypeOK'
    <2>1. https' \in [HttpSlots -> Tickets \cup {NoTicket}]
      BY <1>0, <1>2 DEF HttpsTypeOK
    <2> QED
      BY <1>0, <1>2, <2>1 DEF HttpsTypeOK
  <1>6. TicketsGood'
    <2>1. tickets \in Nat
      BY <1>0 DEF HttpsTypeOK
    <2>2. \A k \in HttpSlots : https'[k] <= tickets
      BY <2>1, <1>3 DEF HttpsInv, TicketsGood, NoTicket
    <2> QED
      BY <2>2, <1>2, <1>3 DEF HttpsInv, TicketsGood
  <1>7. AskersGood' /\ ToldWhoAsked' /\ CrashNeedsFault'
    BY <1>2 DEF HttpsInv, AskersGood, ToldWhoAsked, CrashNeedsFault
  <1>8. ThreadsGood'
    BY <1>1, <1>2, <1>4 DEF HttpsInv, ThreadsGood
  <1>9. PassGood'
    BY <1>1, <1>2, <1>4 DEF HttpsInv, PassGood
  <1>10. LeftGood'
    BY <1>2, <1>4 DEF HttpsInv, LeftGood
  <1> QED
    BY <1>5, <1>6, <1>7, <1>8, <1>9, <1>10 DEF HttpsInv

\* Process calls the script back.
LEMMA DeliverKeeps ==
    ASSUME ScriptsInv, HttpsInv, Deliver
    PROVE  HttpsInv'
  <1> DEFINE t == https[at]
  <1>0. HttpsTypeOK
    BY DEF HttpsInv
  <1>1. at # 0 /\ ~calling /\ Processed(at)
    BY DEF Deliver, Visiting
  <1>2. /\ at \in HttpSlots /\ t \in Open /\ t \in Tickets /\ t <= tickets
        /\ t # NoTicket /\ state[t] = "processed"
        /\ \A a \in Addrs : amx[a] = asker[t] => a = caller[t]
    BY <1>1, Visited DEF Processed
  <1>3. /\ told' = [told EXCEPT ![t] = amx[caller[t]]]
        /\ amx[caller[t]] \in Programs
        /\ calling' = TRUE
        /\ UNCHANGED <<amx, loads, faults, up, https, state, thread, caller, silent, at,
                       tickets, asker, left, late>>
    BY DEF Deliver, CallProgram
  <1>4. told'[t] = amx[caller[t]] /\ \A r \in Tickets : r # t => told'[r] = told[r]
    BY <1>0, <1>2, <1>3 DEF HttpsTypeOK
  <1>5. Open' = Open
    BY <1>3 DEF Open
  <1>6. HttpsTypeOK'
    <2>1. told' \in [Tickets -> Programs \cup {Nobody}]
      BY <1>0, <1>2, <1>3 DEF HttpsTypeOK
    <2>2. calling' \in BOOLEAN
      BY <1>3
    <2> QED
      BY <1>0, <1>3, <2>1, <2>2 DEF HttpsTypeOK
  <1>7. TicketsGood'
    <2>1. ~(t > tickets)
      BY <1>0, <1>2 DEF HttpsTypeOK, Tickets
    <2>2. \A r \in Tickets : r > tickets =>
                state[r] = "none" /\ thread[r] = "none" /\ told'[r] = Nobody
      BY <2>1, <1>4 DEF HttpsInv, TicketsGood
    <2> QED
      BY <2>2, <1>3 DEF HttpsInv, TicketsGood
  <1>8. AskersGood' /\ CrashNeedsFault'
    BY <1>3 DEF HttpsInv, AskersGood, CrashNeedsFault
  <1>9. ThreadsGood'
    BY <1>3, <1>5 DEF HttpsInv, ThreadsGood
  <1>10. PassGood'
    <2>1. \A r \in Open : r # t => told'[r] = Nobody
      BY <1>1, <1>4 DEF HttpsInv, PassGood, Open
    <2> QED
      BY <2>1, <1>2, <1>3, <1>5 DEF PassGood
  <1>11. ToldWhoAsked'
    <2> SUFFICES ASSUME NEW r \in Tickets, told'[r] \notin {Nobody, asker[r]}, NEW a \in Addrs
                 PROVE  amx[a] # asker[r]
      BY <1>3 DEF ToldWhoAsked
    <2>1. CASE r = t
      BY <2>1, <1>2, <1>4
    <2>2. CASE r # t
      BY <2>2, <1>4 DEF HttpsInv, ToldWhoAsked
    <2> QED
      BY <2>1, <2>2
  <1>12. LeftGood'
    <2>1. amx[caller[t]] # Nobody
      BY <1>3 DEF Programs, Nobody
    <2> QED
      BY <2>1, <1>3, <1>4, <1>5 DEF HttpsInv, LeftGood, Open
  <1> QED
    BY <1>6, <1>7, <1>8, <1>9, <1>10, <1>11, <1>12 DEF HttpsInv

\* ... but the script was unloaded, and there is no program any more.
LEMMA DeliverCrashesKeeps ==
    ASSUME ScriptsInv, HttpsInv, DeliverCrashes
    PROVE  HttpsInv'
  <1> DEFINE t == https[at]
  <1>1. at # 0 /\ ~calling /\ Processed(at) /\ ~silent[t] /\ amx[caller[t]] \notin Programs
    BY DEF DeliverCrashes, Visiting, CallProgramCrashes
  <1>2. t \in Open /\ asker[t] \in Programs
    BY <1>1, Visited
  <1>3. told[t] = Nobody
    BY <1>1, <1>2 DEF HttpsInv, PassGood
  <1>4. left
    BY <1>1, <1>2, <1>3 DEF HttpsInv, LeftGood
  <1>5. UNCHANGED httpVars /\ UNCHANGED <<amx, loads, faults>>
    BY DEF DeliverCrashes, CallProgramCrashes, Crash
  <1>6. left \in BOOLEAN
    BY DEF HttpsInv, HttpsTypeOK
  <1>7. OldStay
    BY <1>5 DEF OldStay
  <1> QED
    BY <1>4, <1>5, <1>6, <1>7, ServerKeeps DEF httpVars

LEMMA HttpsInvStep == ScriptsInv /\ HttpsInv /\ [Next]_vars => HttpsInv'
  <1> SUFFICES ASSUME ScriptsInv, HttpsInv, [Next]_vars PROVE HttpsInv'
    OBVIOUS
  <1>1. OldStay
    BY StepOfScripts, ScriptsOldStay
  <1>2. CASE Scripting
    BY <1>1, <1>2, ScriptingKeeps
  <1>3. CASE Unloading
    BY <1>1, <1>3, UnloadingKeeps
  <1>4. ASSUME NEW h \in HttpSlots, NEW quiet \in BOOLEAN, NEW started \in BOOLEAN,
               New(h, quiet, started)
        PROVE  HttpsInv'
    BY <1>4, NewKeeps
  <1>5. ASSUME NEW t \in Tickets, Begin(t) \/ ProcessURL(t) \/ Finish(t) \/ LastWrite(t)
        PROVE  HttpsInv'
    BY <1>5, WorkerKeeps
  <1>6. CASE BeginPass \/ Skip
    BY <1>6, LookKeeps
  <1>7. CASE Drop
    BY <1>7, DeleteKeeps DEF Drop, Visiting, scriptVars
  <1>8. CASE EndDeliver
    <2>1. at # 0 /\ Processed(at)
      BY <1>8 DEF EndDeliver, HttpsInv, PassGood, HttpSlots, Processed
    <2>2. Delete /\ UNCHANGED <<amx, loads, faults, up>>
      BY <1>8 DEF EndDeliver, ReturnProgram
    <2> QED
      BY <2>1, <2>2, DeleteKeeps
  <1>9. CASE Deliver
    BY <1>9, DeliverKeeps
  <1>10. CASE DeliverCrashes
    BY <1>10, DeliverCrashesKeeps
  <1>11. CASE UNCHANGED vars
    <2>1. UNCHANGED <<https, state, thread, caller, silent, at, calling, tickets, asker, told, late>>
      BY <1>11 DEF vars, httpVars
    <2>2. left' = left /\ up' = up /\ amx' = amx /\ left \in BOOLEAN
      BY <1>11 DEF vars, httpVars, scriptVars, HttpsInv, HttpsTypeOK
    <2> QED
      BY <1>1, <2>1, <2>2, ServerKeeps
  <1>12. CASE HeapCrashes
    <2>1. UNCHANGED httpVars /\ late /\ UNCHANGED <<amx, loads, faults>>
      BY <1>12 DEF HeapCrashes, ThreadCrashes, Crash
    <2>2. left \in BOOLEAN
      BY DEF HttpsInv, HttpsTypeOK
    <2> QED
      BY <1>1, <2>1, <2>2, ServerKeeps DEF httpVars
  <1> QED
    BY <1>2, <1>3, <1>4, <1>5, <1>6, <1>7, <1>8, <1>9, <1>10, <1>11, <1>12 DEF Next

-----------------------------------------------------------------------------
(* The promise.  Answered names what HttpPromise's variable is mapped to. *)

Answered == {t \in Tickets : thread[t] \in {"answered", "written", "ended"}}

\* One step of HttpPromise, or none, as ScriptHttps maps it.
PromiseStep == [Promise!PromiseNext]_(Promise!promiseVars)

\* A request finds a slot, so fewer than MaxHttps are open.
LEMMA RoomForOne ==
    ASSUME HttpsInv, NEW h \in HttpSlots, https[h] = NoTicket
    PROVE  Cardinality(Open) < MaxHttps
  <1> DEFINE Taken == {k \in HttpSlots : https[k] # NoTicket}
             f == [k \in Taken |-> https[k]]
  <1>1. https \in [HttpSlots -> Tickets \cup {NoTicket}]
    BY DEF HttpsInv, HttpsTypeOK
  <1>2. f \in Surjection(Taken, Open)
    <2>1. \A k \in Taken : https[k] \in Open
      BY <1>1 DEF Open
    <2>2. f \in [Taken -> Open]
      BY <2>1
    <2>3. \A t \in Open : \E k \in Taken : f[k] = t
      <3>1. \A t \in Tickets : t # NoTicket
        BY DEF Tickets, NoTicket
      <3> QED
        BY <3>1 DEF Open
    <2> QED
      BY <2>2, <2>3 DEF Surjection
  <1>3. MaxHttps \in Nat \ {0}
    BY HttpsAssumption
  <1>4. IsFiniteSet(HttpSlots) /\ Cardinality(HttpSlots) = MaxHttps
    BY <1>3, FS_Interval, 1 \in Int DEF HttpSlots
  <1>5. IsFiniteSet(HttpSlots \ {h}) /\ Cardinality(HttpSlots \ {h}) = MaxHttps - 1
    BY <1>4, FS_RemoveElement
  <1>6. Taken \in SUBSET (HttpSlots \ {h})
    OBVIOUS
  <1>7. IsFiniteSet(Taken) /\ Cardinality(Taken) <= MaxHttps - 1
    BY <1>5, <1>6, FS_Subset
  <1>8. IsFiniteSet(Open) /\ Cardinality(Open) <= Cardinality(Taken)
    BY <1>2, <1>7, FS_Surjection
  <1>9. Cardinality(Open) \in Nat /\ Cardinality(Taken) \in Nat
    BY <1>7, <1>8, FS_CardinalityType
  <1> QED
    BY <1>3, <1>7, <1>8, <1>9

LEMMA PromiseStarts == Init => Promise!PromiseInit
  <1> SUFFICES ASSUME Init PROVE Promise!PromiseInit
    OBVIOUS
  <1>1. Open = {}
    BY DEF Init, Open, NoTicket, Tickets
  <1>2. 1 .. tickets = {}
    BY DEF Init
  <1>3. Answered = {}
    BY DEF Init, Answered
  <1> QED
    BY <1>1, <1>2, <1>3 DEF Init, Promise!PromiseInit, Answered

LEMMA NewAsks ==
    ASSUME HttpsInv, NEW h \in HttpSlots, NEW quiet \in BOOLEAN, NEW started \in BOOLEAN,
           New(h, quiet, started)
    PROVE  Promise!Ask(tickets + 1) /\ tickets + 1 \in Tickets
  <1>1. HttpsTypeOK /\ tickets \in Nat /\ tickets + 1 \in Tickets
    BY HttpsAssumption DEF HttpsInv, HttpsTypeOK, New, Tickets
  <1>2. /\ https' = [https EXCEPT ![h] = tickets + 1] /\ https[h] = NoTicket
        /\ thread' = [thread EXCEPT ![tickets + 1] = IF started THEN "started" ELSE "none"]
        /\ tickets' = tickets + 1 /\ told' = told
    BY DEF New, FreeHttpSlot
  <1>3. thread[tickets + 1] = "none"
    BY <1>1 DEF HttpsInv, TicketsGood
  <1>4. Answered' = Answered
    BY <1>1, <1>2, <1>3 DEF Answered, HttpsTypeOK
  <1>5. 1 .. tickets' = 1 .. tickets \cup {tickets + 1} /\ tickets + 1 \notin 1 .. tickets
    BY <1>1, <1>2
  <1>6. Open' = Open \cup {tickets + 1}
    <2>1. \A t \in Tickets : (\E k \in HttpSlots : https'[k] = t)
                                <=> (\E k \in HttpSlots : https[k] = t) \/ t = tickets + 1
      <3>1. \A t \in Tickets : t # NoTicket
        BY DEF Tickets, NoTicket
      <3>2. https'[h] = tickets + 1 /\ \A k \in HttpSlots : k # h => https'[k] = https[k]
        BY <1>1, <1>2 DEF HttpsTypeOK
      <3> QED
        BY <1>2, <3>1, <3>2
    <2> QED
      BY <2>1, <1>1 DEF Open
  <1>7. Cardinality(Open) < MaxHttps
    BY <1>2, RoomForOne
  <1>8. Promise!Cardinality(Open) = Cardinality(Open)
    BY DEF Promise!Cardinality, Cardinality
  <1> QED
    BY <1>1, <1>2, <1>4, <1>5, <1>6, <1>7, <1>8 DEF Promise!Ask, Answered

LEMMA WorkerAnswers ==
    ASSUME HttpsInv, NEW t \in Tickets,
           Begin(t) \/ ProcessURL(t) \/ Finish(t) \/ LastWrite(t)
    PROVE  Promise!Answer(t) \/ UNCHANGED Promise!promiseVars
  <1>1. HttpsTypeOK
    BY DEF HttpsInv
  <1>2. UNCHANGED <<tickets, told, https>> /\ Open' = Open
    BY DEF Begin, ProcessURL, Finish, LastWrite, Worker, Open
  <1>3. CASE ProcessURL(t)
    <2>1. thread[t] = "working" /\ thread' = [thread EXCEPT ![t] = "answered"]
      BY <1>3 DEF ProcessURL, Worker
    <2>2. t \in Open /\ t \notin Answered
      BY <2>1 DEF HttpsInv, ThreadsGood, Answered
    <2>3. Answered' = Answered \cup {t}
      BY <1>1, <2>1 DEF Answered, HttpsTypeOK
    <2> QED
      BY <1>2, <2>2, <2>3 DEF Promise!Answer, Answered
  <1>4. CASE ~ProcessURL(t)
    <2>1. \/ thread[t] = "started" /\ thread' = [thread EXCEPT ![t] = "working"]
          \/ thread[t] = "answered" /\ thread' = [thread EXCEPT ![t] = "written"]
          \/ thread[t] = "answered" /\ thread' = [thread EXCEPT ![t] = "ended"]
          \/ thread[t] = "written" /\ thread' = [thread EXCEPT ![t] = "ended"]
      BY <1>4 DEF Begin, Finish, LastWrite, Worker
    <2>2. Answered' = Answered
      BY <1>1, <2>1 DEF Answered, HttpsTypeOK
    <2> QED
      BY <1>2, <2>2 DEF Promise!promiseVars, Answered
  <1> QED
    BY <1>3, <1>4

LEMMA DeleteCloses ==
    ASSUME HttpsInv, at # 0, Processed(at), Delete
    PROVE  https[at] \in Tickets /\ Promise!Close(https[at])
  <1>1. /\ at \in HttpSlots /\ https[at] \in Open /\ https[at] \in Tickets
        /\ https[at] # NoTicket
        /\ https[at] \in Answered
    BY Visited DEF Processed, Answered
  <1>2. Open' = Open \ {https[at]}
    BY <1>1, Deleted
  <1>3. UNCHANGED <<thread, tickets, told>>
    BY DEF Delete
  <1>4. Answered' = Answered
    BY <1>3 DEF Answered
  <1> QED
    BY <1>1, <1>2, <1>3, <1>4 DEF Promise!Close, Answered

LEMMA DeliverTells ==
    ASSUME HttpsInv, Deliver
    PROVE  /\ https[at] \in Tickets /\ amx[caller[https[at]]] \in Programs
           /\ Promise!Tell(https[at], amx[caller[https[at]]])
  <1>1. at # 0 /\ ~calling /\ Processed(at)
    BY DEF Deliver, Visiting
  <1>2. https[at] \in Open /\ https[at] \in Tickets /\ https[at] \in Answered
    BY <1>1, Visited DEF Answered
  <1>3. told[https[at]] = Nobody
    BY <1>1, <1>2 DEF HttpsInv, PassGood
  <1>4. /\ told' = [told EXCEPT ![https[at]] = amx[caller[https[at]]]]
        /\ amx[caller[https[at]]] \in Programs
        /\ UNCHANGED <<thread, tickets, https>>
    BY DEF Deliver, CallProgram
  <1>5. Answered' = Answered /\ Open' = Open
    BY <1>4 DEF Answered, Open
  <1> QED
    BY <1>2, <1>3, <1>4, <1>5 DEF Promise!Tell, Answered

LEMMA PromiseSteps == HttpsInv /\ [Next]_vars => PromiseStep
  <1> SUFFICES ASSUME HttpsInv, [Next]_vars PROVE PromiseStep
    OBVIOUS
  <1>1. CASE UNCHANGED <<https, thread, tickets, told>>
    <2>1. UNCHANGED Promise!promiseVars
      BY <1>1 DEF Promise!promiseVars, Open
    <2> QED
      BY <2>1 DEF PromiseStep
  <1>2. ASSUME NEW h \in HttpSlots, NEW quiet \in BOOLEAN, NEW started \in BOOLEAN,
               New(h, quiet, started)
        PROVE  PromiseStep
    BY <1>2, NewAsks DEF PromiseStep, Promise!PromiseNext
  <1>3. ASSUME NEW t \in Tickets, Begin(t) \/ ProcessURL(t) \/ Finish(t) \/ LastWrite(t)
        PROVE  PromiseStep
    BY <1>3, WorkerAnswers DEF PromiseStep, Promise!PromiseNext
  <1>4. CASE Drop
    BY <1>4, DeleteCloses DEF Drop, Visiting, PromiseStep, Promise!PromiseNext
  <1>5. CASE EndDeliver
    <2>1. at # 0 /\ Processed(at) /\ Delete
      BY <1>5 DEF EndDeliver, HttpsInv, PassGood, HttpSlots, Processed
    <2> QED
      BY <2>1, DeleteCloses DEF PromiseStep, Promise!PromiseNext
  <1>6. CASE Deliver
    BY <1>6, DeliverTells DEF PromiseStep, Promise!PromiseNext
  <1>7. CASE Scripting \/ Unloading \/ BeginPass \/ Skip \/ DeliverCrashes \/ HeapCrashes
             \/ UNCHANGED vars
    <2>1. UNCHANGED <<https, thread, tickets, told>>
      BY <1>7 DEF HeapCrashes, Scripting, Unloading, BeginPass, Skip, DeliverCrashes, httpVars, vars
    <2> QED
      BY <1>1, <2>1
  <1> QED
    BY <1>2, <1>3, <1>4, <1>5, <1>6, <1>7 DEF Next

-----------------------------------------------------------------------------
(* Theorems. *)

LEMMA HttpsInvAlways == Spec => [](ScriptsInv /\ HttpsInv)
  <1>1. Init => ScriptsInv /\ HttpsInv
    BY ScriptsInvInit, HttpsInvInit DEF Init
  <1>2. ScriptsInv /\ HttpsInv /\ [Next]_vars => ScriptsInv' /\ HttpsInv'
    BY StepOfScripts, ScriptsInvStep, HttpsInvStep
  <1> QED
    BY <1>1, <1>2, PTL DEF Spec

\* Scripts, requests, threads and Process keep their types.
THEOREM HttpsTypesAlways == Spec => []TypeOK
  <1>1. ScriptsInv /\ HttpsInv => TypeOK
    BY ScriptsInvShows DEF TypeOK, HttpsInv
  <1> QED
    BY <1>1, HttpsInvAlways, PTL

\* Process deletes no record that its thread may still fill in.
THEOREM WorkersAlwaysHaveRecords == Spec => []WorkersHaveRecords
  <1>1. HttpsInv => WorkersHaveRecords
    BY DEF HttpsInv, ThreadsGood, WorkersHaveRecords
  <1> QED
    BY <1>1, HttpsInvAlways, PTL

\* An answer goes to the script that asked, as long as that script exists:
\* never to another one at a reused address while the first is loaded.
THEOREM AlwaysToldWhoAsked == Spec => []ToldWhoAsked
  <1>1. HttpsInv => ToldWhoAsked
    BY DEF HttpsInv
  <1> QED
    BY <1>1, HttpsInvAlways, PTL

\* Scripts and their requests take the process down only after a refused file
\* (a script's or the game mode's), a script unloading itself, a script leaving
\* with a request open, or a thread writing into a record already deleted.
THEOREM CrashAlwaysNeedsFault == Spec => []CrashNeedsFault
  <1>1. HttpsInv => CrashNeedsFault
    BY DEF HttpsInv
  <1> QED
    BY <1>1, HttpsInvAlways, PTL

\* Requests do to the programs nothing that FilterScripts does not allow, so
\* that every theorem about FilterScripts holds of the composed system.
THEOREM HttpsKeepScripts == Spec => KeepsScripts
  <1>1. Init => ScriptsInit
    BY DEF Init
  <1>2. ScriptsInv /\ HttpsInv /\ [Next]_vars => [ScriptsNext]_scriptVars
    BY StepOfScripts
  <1> QED
    BY <1>1, <1>2, HttpsInvAlways, PTL DEF Spec, KeepsScripts, ScriptsSpec

\* So the slots' pointers and names are right while Process calls scripts back.
THEOREM SlotsRightWithHttps == Spec => []SlotsInv
  BY HttpsKeepScripts, SlotsAlwaysRight, PTL DEF KeepsScripts

\* ... and no script is freed without its OnFilterScriptExit.
THEOREM ExitBeforeFreeWithHttps == Spec => ExitBeforeFree
  BY HttpsKeepScripts, AlwaysExitBeforeFree, PTL DEF KeepsScripts

\* Slots, threads and callbacks implement HttpPromise: a request has one of
\* MaxHttps places until its answer is complete, and at most one is told, once.
THEOREM HttpsKeepPromise == Spec => KeepsPromise
  <1>1. ScriptsInv /\ HttpsInv /\ [Next]_vars => [Promise!PromiseNext]_(Promise!promiseVars)
    BY PromiseSteps DEF PromiseStep
  <1> QED
    BY <1>1, PromiseStarts, HttpsInvAlways, PTL DEF Spec, KeepsPromise, Promise!PromiseSpec

=============================================================================
