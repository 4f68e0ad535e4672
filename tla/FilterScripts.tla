--------------------------- MODULE FilterScripts ---------------------------
(***************************************************************************)
(* The programs the server runs: the game mode and the filterscripts in    *)
(* their slots.  One thread; what is hard is that every callback may load  *)
(* and unload filterscripts (SendRconCommand) before it returns, so that   *)
(* LoadFilterScript and RemoveFilterScript nest in each other.             *)
(* A program is the number of its load, so that a program loaded where     *)
(* another one was is told apart from it.                                  *)
(***************************************************************************)
EXTENDS Integers, Sequences

CONSTANTS
    Addrs,       \* where an AMX may be allocated
    Files,       \* filterscripts whose file can be opened
    Refused,     \* those of them that aux_LoadProgram refuses
    ModeFile,    \* the game mode's file
    MaxScripts,  \* MAX_FILTER_SCRIPTS
    MaxLoads,    \* bound: attempts to load a program
    MaxDepth,    \* bound: callbacks inside callbacks
    None         \* no address (NULL), no name ("")

ASSUME ScriptsAssumption ==
    /\ Addrs # {}
    /\ Refused \subseteq Files
    /\ ModeFile \notin Files
    /\ MaxScripts \in Nat \ {0}
    /\ MaxLoads \in Nat \ {0}
    /\ MaxDepth \in Nat \ {0}
    /\ None \notin Addrs \cup Files \cup {ModeFile}

VARIABLES
    amx,     \* what lies at an address: a program, Zeroed, Wild or Free
    slot,    \* m_pFilterScripts
    name,    \* m_szFilterScriptName
    count,   \* m_iFilterScriptCount
    mode,    \* where the game mode's AMX is, None while it restarts
    stack,   \* the callbacks under way, the innermost last
    loads,   \* history: attempts to load a program so far
    fileOf,  \* history: the file each program was loaded from
    faults,  \* history: "refused": a file was, or was not there; "self": a script
             \* was unloaded while a callback into it was under way
    up       \* the process lives

scriptVars == <<amx, slot, name, count, mode, stack, loads, fileOf, faults, up>>

Slots    == 1 .. MaxScripts
Programs == 1 .. MaxLoads
Free     == 0     \* not allocated
Zeroed   == -1    \* an AMX after memset, with no program
Wild     == -2    \* an AMX that nobody has written, as the heap held it
Ops      == {"init", "exit", "reload", "event", "mode", "direct"}
Frame    == [op : Ops, slot : 0 .. MaxScripts, addr : Addrs, prog : Programs]

ScriptsTypeOK ==
    /\ amx \in [Addrs -> Programs \cup {Free, Zeroed, Wild}]
    /\ slot \in [Slots -> Addrs \cup {None}]
    /\ name \in [Slots -> Files \cup {None}]
    /\ count \in Nat
    /\ mode \in Addrs \cup {None}
    /\ stack \in Seq(Frame)
    /\ loads \in 0 .. MaxLoads
    /\ fileOf \in [Programs -> Files \cup {ModeFile, None}]
    /\ faults \in SUBSET {"refused", "self"}
    /\ up \in BOOLEAN

\* Which address comes first is all the same.
FirstAddr == CHOOSE a \in Addrs : TRUE

\* The server has started its game mode and no filterscript yet.
ScriptsInit ==
    /\ mode = FirstAddr
    /\ amx = [a \in Addrs |-> IF a = FirstAddr THEN 1 ELSE Free]
    /\ slot = [i \in Slots |-> None]
    /\ name = [i \in Slots |-> None]
    /\ count = 0
    /\ stack = <<>>
    /\ loads = 1
    /\ fileOf = [p \in Programs |-> IF p = 1 THEN ModeFile ELSE None]
    /\ faults = {}
    /\ up = TRUE

Top == stack[Len(stack)]
Pop == SubSeq(stack, 1, Len(stack) - 1)

\* The program that runs still exists.  What a freed one may still do is
\* reduced to: it returns, or the process dies.
TopAlive == stack # <<>> => amx[Top.addr] = Top.prog

Running(p) == \E k \in DOMAIN stack : stack[k].prog = p

\* Somebody can give a command: the console between two callbacks, or the
\* running script.
Commanding == up /\ Len(stack) < MaxDepth /\ TopAlive

Returns(op) == up /\ stack # <<>> /\ Top.op = op

Crash ==
    /\ up' = FALSE
    /\ stack' = <<>>
    /\ UNCHANGED <<amx, slot, name, count, mode, loads, fileOf, faults>>

-----------------------------------------------------------------------------
(* Loading. *)

\* The search stops at the first free slot: names behind it are not compared.
SpareSlot(ptrs, names, n, i) ==
    /\ count < MaxScripts
    /\ ptrs[i] = None
    /\ \A j \in 1 .. i - 1 : ptrs[j] # None /\ names[j] # n

\* Bounds: one load and one address stay in reserve for the game mode's return.
LoadsLeft == IF mode = None THEN loads + 1 < MaxLoads ELSE loads < MaxLoads
RoomLeft(heap, a) == mode = None => \E b \in Addrs \ {a} : heap[b] = Free

\* A new program at address a of a heap.
Allocate(heap, a, f) ==
    /\ heap[a] = Free
    /\ loads < MaxLoads
    /\ loads' = loads + 1
    /\ amx' = [heap EXCEPT ![a] = loads + 1]
    /\ fileOf' = [fileOf EXCEPT ![loads + 1] = f]

\* LoadFilterScript and LoadFilterScriptFromMemory, up to OnFilterScriptInit.
BeginLoad(n, i, a) ==
    /\ Commanding
    /\ LoadsLeft
    /\ n \notin Refused
    /\ SpareSlot(slot, name, n, i)
    /\ RoomLeft(amx, a)
    /\ Allocate(amx, a, n)
    /\ slot' = [slot EXCEPT ![i] = a]
    /\ stack' = Append(stack, [op |-> "init", slot |-> i, addr |-> a, prog |-> loads + 1])
    /\ UNCHANGED <<name, count, mode, faults, up>>

\* aux_LoadProgram refuses: the zeroed AMX stays in the slot.
LoadFails(n, i, a) ==
    /\ Commanding
    /\ LoadsLeft
    /\ n \in Refused
    /\ SpareSlot(slot, name, n, i)
    /\ RoomLeft(amx, a)
    /\ amx[a] = Free
    /\ amx' = [amx EXCEPT ![a] = Zeroed]
    /\ slot' = [slot EXCEPT ![i] = a]
    /\ loads' = loads + 1
    /\ faults' = faults \cup {"refused"}
    /\ UNCHANGED <<name, count, mode, stack, fileOf, up>>

\* After OnFilterScriptInit: only now the slot gets its name.
EndLoad ==
    /\ Returns("init")
    /\ name' = [name EXCEPT ![Top.slot] = fileOf[Top.prog]]
    /\ count' = count + 1
    /\ stack' = Pop
    /\ UNCHANGED <<amx, slot, mode, loads, fileOf, faults, up>>

-----------------------------------------------------------------------------
(* Unloading. *)

\* UnloadOneFilterScript takes the first slot of that name.
Named(n, i) == name[i] = n /\ \A j \in 1 .. i - 1 : name[j] # n

\* Mutants: the slot keeps its pointer; the slot keeps its name.
AllPtrs(i) == slot
AllNames(i) == name

\* What RemoveFilterScript has done to slot i in the end.
HeapWithout(i) == [amx EXCEPT ![slot[i]] = Free]
PtrsWithout(i) == [slot EXCEPT ![i] = None]
NamesWithout(i) == [name EXCEPT ![i] = None]

\* Mutant: OnFilterScriptExit is not called.
UnloadQuietly(n, i, op) ==
    /\ Commanding
    /\ Named(n, i)
    /\ slot[i] # None
    /\ amx' = HeapWithout(i)
    /\ slot' = PtrsWithout(i)
    /\ name' = NamesWithout(i)
    /\ UNCHANGED <<count, mode, stack, loads, fileOf, faults, up>>

\* ... and RemoveFilterScript calls OnFilterScriptExit before anything else.
\* unloadfs ends with that ("exit"), reloadfs loads the file again ("reload").
BeginUnload(n, i, op) ==
    /\ Commanding
    /\ Named(n, i)
    /\ slot[i] # None
    /\ LET p == amx[slot[i]]
       IN  /\ stack' = Append(stack, [op |-> op, slot |-> i, addr |-> slot[i], prog |-> p])
           /\ faults' = IF Running(p) THEN faults \cup {"self"} ELSE faults
    /\ UNCHANGED <<amx, slot, name, count, mode, loads, fileOf, up>>

\* After OnFilterScriptExit: whatever is in the slot by now is freed.  A
\* reloadfs that finds no file or no slot ends here as well.
EndUnload ==
    /\ Returns("exit") \/ Returns("reload")
    /\ slot[Top.slot] # None
    /\ amx' = HeapWithout(Top.slot)
    /\ slot' = PtrsWithout(Top.slot)
    /\ name' = NamesWithout(Top.slot)
    /\ stack' = Pop
    /\ UNCHANGED <<count, mode, loads, fileOf, faults, up>>

\* con_reloadfs goes on to LoadFilterScript, whoever gave the command.
EndReload(i, a) ==
    /\ Returns("reload")
    /\ slot[Top.slot] # None
    /\ LoadsLeft
    /\ LET n     == fileOf[Top.prog]
           ptrs  == PtrsWithout(Top.slot)
           names == NamesWithout(Top.slot)
       IN  /\ SpareSlot(ptrs, names, n, i)
           /\ RoomLeft(HeapWithout(Top.slot), a)
           /\ Allocate(HeapWithout(Top.slot), a, n)
           /\ slot' = [ptrs EXCEPT ![i] = a]
           /\ name' = names
    /\ stack' = Append(Pop, [op |-> "init", slot |-> i, addr |-> a, prog |-> loads + 1])
    /\ UNCHANGED <<count, mode, faults, up>>

\* The script unloaded itself in OnFilterScriptExit: the pointer is NULL.
EndUnloadCrashes ==
    /\ Returns("exit") \/ Returns("reload")
    /\ slot[Top.slot] = None
    /\ Crash

-----------------------------------------------------------------------------
(* Callbacks.  CallPublic and the On... functions walk the slots until one *)
(* of the callbacks stops the walk; then the game mode has its turn, for   *)
(* most callbacks whatever the walk came to.  A script without the public  *)
(* is one whose callback returns at once.                                  *)

Between(k, i) == \A j \in k + 1 .. i - 1 : slot[j] = None

\* m_bInitialised of the game mode.
Initialised == mode # None /\ amx[mode] \in Programs

CallMode(below) ==
    /\ \/ stack' = below
       \/ /\ Initialised
          /\ stack' = Append(below, [op |-> "mode", slot |-> 0, addr |-> mode,
                                     prog |-> amx[mode]])
    /\ UNCHANGED <<amx, slot, name, count, mode, loads, fileOf, faults, up>>

\* The walk goes on behind slot k, on top of the callbacks below.
CallBehind(k, below) ==
    \/ \E i \in k + 1 .. MaxScripts :
        /\ slot[i] # None /\ Between(k, i)
        /\ amx[slot[i]] \in Programs
        /\ stack' = Append(below, [op |-> "event", slot |-> i, addr |-> slot[i],
                                   prog |-> amx[slot[i]]])
        /\ UNCHANGED <<amx, slot, name, count, mode, loads, fileOf, faults, up>>
    \/ Between(k, MaxScripts + 1) /\ CallMode(below)

\* OnPlayerDisconnect, OnIncomingConnection and others look for their public in
\* the game mode's AMX without asking for m_bInitialised.
ModeCrashes ==
    /\ mode # None /\ ~Initialised
    /\ Crash

\* amx_FindPublic reads the header of an AMX that has none.
CallCrashes(k) ==
    \/ /\ \E i \in k + 1 .. MaxScripts :
            /\ slot[i] # None /\ Between(k, i)
            /\ amx[slot[i]] \notin Programs
       /\ Crash
    \/ Between(k, MaxScripts + 1) /\ ModeCrashes

\* By the main loop, or inside a callback: Kick, SetVehicleToRespawn and others
\* call back before they return, and so does CallRemoteFunction, which has the
\* game mode first and the slots behind it (another walk here).
BeginEvent ==
    /\ Commanding
    /\ CallBehind(0, stack) \/ CallMode(stack) \/ CallCrashes(0)

EndEvent ==
    /\ Returns("event")
    /\ \/ CallBehind(Top.slot, Pop)
       \/ CallMode(Pop)
       \/ CallCrashes(Top.slot)
       \/ ModeCrashes

EndMode ==
    /\ Returns("mode")
    /\ stack' = Pop
    /\ UNCHANGED <<amx, slot, name, count, mode, loads, fileOf, faults, up>>

\* Timers and HTTP answers call one program, by an AMX they have kept.
CallProgram(a) ==
    /\ up
    /\ stack = <<>>
    /\ amx[a] \in Programs
    /\ stack' = <<[op |-> "direct", slot |-> 0, addr |-> a, prog |-> amx[a]]>>
    /\ UNCHANGED <<amx, slot, name, count, mode, loads, fileOf, faults, up>>

CallProgramCrashes(a) ==
    /\ up
    /\ stack = <<>>
    /\ amx[a] \notin Programs
    /\ Crash

ReturnProgram ==
    /\ Returns("direct")
    /\ stack' = Pop
    /\ UNCHANGED <<amx, slot, name, count, mode, loads, fileOf, faults, up>>

\* A program that has been freed under its own feet may take the process along.
FreedProgramRuns ==
    /\ up
    /\ ~TopAlive
    /\ Crash

\* Another thread may take the process down at any moment; ScriptHttps says when.
ThreadCrashes ==
    /\ up
    /\ Crash

-----------------------------------------------------------------------------
(* The game mode's restart: CGameMode::Unload, the delete behind it, and   *)
(* the new one 12 seconds later.  OnGameModeExit and OnGameModeInit are    *)
(* calls of the kinds above, before the one and after the other.           *)

\* Unload looks for OnGameModeExit whatever Load came to: the process does not
\* survive that with a zeroed AMX, and with a wild one it may.
Unload ==
    /\ up
    /\ stack = <<>>
    /\ mode # None
    /\ amx[mode] # Zeroed
    /\ loads < MaxLoads
    /\ amx' = [amx EXCEPT ![mode] = Free]
    /\ mode' = None
    /\ UNCHANGED <<slot, name, count, stack, loads, fileOf, faults, up>>

UnloadCrashes ==
    /\ up
    /\ stack = <<>>
    /\ ModeCrashes

Load(a) ==
    /\ up
    /\ stack = <<>>
    /\ mode = None
    /\ Allocate(amx, a, ModeFile)
    /\ mode' = a
    /\ UNCHANGED <<slot, name, count, stack, faults, up>>

\* CGameMode::Load gives up when the file cannot be opened (Wild) or when
\* aux_LoadProgram refuses it (Zeroed); Init keeps the object all the same.
LoadModeFails(a, content) ==
    /\ up
    /\ stack = <<>>
    /\ mode = None
    /\ loads < MaxLoads
    /\ amx[a] = Free
    /\ amx' = [amx EXCEPT ![a] = content]
    /\ mode' = a
    /\ loads' = loads + 1
    /\ faults' = faults \cup {"refused"}
    /\ UNCHANGED <<slot, name, count, stack, fileOf, up>>

LoadMode == \E a \in Addrs : Load(a) \/ \E c \in {Wild, Zeroed} : LoadModeFails(a, c)

\* Steps between which nothing of the walk is kept but the stack.
Commands ==
    \/ \E n \in Files, i \in Slots, a \in Addrs : BeginLoad(n, i, a)
    \/ \E n \in Files, i \in Slots, a \in Addrs : LoadFails(n, i, a)
    \/ \E n \in Files, i \in Slots, op \in {"exit", "reload"} : BeginUnload(n, i, op)

Unloads == EndUnload \/ \E i \in Slots, a \in Addrs : EndReload(i, a)

Return == EndLoad \/ Unloads \/ EndUnloadCrashes \/ EndEvent \/ EndMode \/ FreedProgramRuns

ScriptsNext ==
    \/ Commands
    \/ Return
    \/ BeginEvent
    \/ Unload \/ UnloadCrashes
    \/ LoadMode
    \/ \E a \in Addrs : CallProgram(a) \/ CallProgramCrashes(a)
    \/ ReturnProgram
    \/ ThreadCrashes

ScriptsSpec == ScriptsInit /\ [][ScriptsNext]_scriptVars

-----------------------------------------------------------------------------
(* Properties. *)

\* A name stands for the program in its slot, in spite of slots that are
\* filled and emptied while LoadFilterScript waits for OnFilterScriptInit.
NamesTrue ==
    \A i \in Slots : name[i] # None =>
        /\ slot[i] # None
        /\ amx[slot[i]] \in Programs
        /\ fileOf[amx[slot[i]]] = name[i]

\* No pointer in a slot or to the game mode dangles, no two share a program, and
\* there is a program behind each unless a file was refused.
PointersValid ==
    /\ \A i \in Slots : slot[i] # None => amx[slot[i]] # Free /\ slot[i] # mode
    /\ \A i, j \in Slots : slot[i] = slot[j] /\ slot[i] # None => i = j
    /\ mode # None => amx[mode] # Free
    /\ "refused" \in faults \/ \A a \in Addrs : amx[a] \notin {Zeroed, Wild}

\* The slots' pointers and names are right at every point of every callback.
SlotsInv == NamesTrue /\ PointersValid

\* RemoveFilterScript runs the script's OnFilterScriptExit and then frees the
\* slot by its index: it is still the same script, unless a script was told
\* to unload itself.
ExitBeforeFree ==
    [][\A a \in Addrs : amx[a] \in Programs /\ amx'[a] # amx[a] =>
        \/ a = mode /\ stack = <<>>
        \/ stack # <<>> /\ Top.op \in {"exit", "reload"} /\ Top.prog = amx[a]
        \/ "self" \in faults]_scriptVars
=============================================================================
