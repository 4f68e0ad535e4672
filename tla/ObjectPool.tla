----------------------------- MODULE ObjectPool -----------------------------
(***************************************************************************)
(* The object pool: global objects, which everybody sees, and personal     *)
(* objects, which one player sees, share one range of object ids.  A       *)
(* client knows an object by its id alone, so the server must never give   *)
(* one id two meanings for the same client.                                *)
(*                                                                         *)
(* Everything here runs on the main thread, but scripts are called back    *)
(* from the middle of joining, restarting and moving, and may call any     *)
(* native there.  What the server sends is RELIABLE: it arrives, in any    *)
(* order.  Only creations, RELIABLE_ORDERED, keep theirs.                  *)
(***************************************************************************)
EXTENDS Integers, FiniteSets, SequencesExt

CONSTANTS
    Players,     \* player ids
    MaxObjects,  \* MAX_OBJECTS; id 0 is never given out
    Far,         \* bound: places are 0 .. Far, a moving object does one per tick
    MaxWire,     \* bound: RPCs under way to a client about one id
    MaxLate,     \* bound: ids, over all clients, of which an RPC overtook another
    NoObject,    \* NULL
    ExitCreates  \* scripts create objects in OnGameModeExit or OnPlayerDisconnect
                 \* while the game mode is being shut down

ASSUME ObjectAssumption ==
    /\ MaxObjects \in Nat \ {0}
    /\ Far \in Nat
    /\ MaxWire \in Nat
    /\ MaxLate \in Nat
    /\ NoObject \notin Int
    /\ NoObject \notin [pos : Int, target : Int, moving : BOOLEAN]
    /\ ExitCreates \in BOOLEAN

VARIABLES
    stage,          \* "running"; "ending": clients told, pool still there; "down": no pool
    slot,           \* the players in the player pool
    pending,        \* players whose InitForPlayer is still to come in this handler
    global,         \* m_pObjects and m_bObjectSlotState
    personal,       \* m_pPlayerObjects and m_bPlayerObjectSlotState
    playersObject,  \* m_bPlayersObject
    wire,           \* RPCs under way to each client about each id, as sent
    view,           \* where each client puts each object in the end, or NoObject
    told,           \* history: the same, had the RPCs sent arrived, as sent
    overtaken       \* history: the ids of which an RPC overtook another

poolVars == <<global, personal, playersObject>>
netVars == <<wire, view, told, overtaken>>
vars == <<stage, slot, pending, poolVars, netVars>>

Objects == 1 .. MaxObjects - 1
Place   == 0 .. Far
Object  == [pos : Place, target : Place, moving : BOOLEAN]

\* ScrCreateObject, ScrDestroyObject (and GameModeRestart), and ScrMoveObject or
\* ScrStopObject.  `after' is history: told behind it.
RPC == [op : {"create", "destroy", "goto"}, place : Place \cup {NoObject},
        after : Place \cup {NoObject}]

Empty == [j \in Objects |-> NoObject]

TypeOK ==
    /\ stage \in {"running", "ending", "down"}
    /\ slot \in SUBSET Players
    /\ pending \in SUBSET Players
    /\ global \in [Objects -> Object \cup {NoObject}]
    /\ personal \in [Players -> [Objects -> Object \cup {NoObject}]]
    /\ playersObject \in SUBSET Objects
    /\ wire \in [Players -> [Objects -> Seq(RPC)]]
    /\ view \in [Players -> [Objects -> Place \cup {NoObject}]]
    /\ told \in [Players -> [Objects -> Place \cup {NoObject}]]
    /\ overtaken \in [Players -> SUBSET Objects]

Silence == [j \in Objects |-> <<>>]

Init ==
    /\ stage = "running"
    /\ slot = {}
    /\ pending = {}
    /\ global = Empty
    /\ personal = [i \in Players |-> Empty]
    /\ playersObject = {}
    /\ wire = [i \in Players |-> Silence]
    /\ view = [i \in Players |-> Empty]
    /\ told = [i \in Players |-> Empty]
    /\ overtaken = [i \in Players |-> {}]

\* The search for a free id starts at 1 and takes the first.
First(id, S) == id \in S /\ \A k \in S : id <= k

\* CObject::CObject at place p.  The target matters only while moving.
AtRest(p) == [pos |-> p, target |-> p, moving |-> FALSE]

\* CObject::MoveTo, and CObject::Stop.
Moving(o, t) == [o EXCEPT !.target = t, !.moving = TRUE]
Stopped(o) == AtRest(o.pos)

-----------------------------------------------------------------------------
(* The network. *)

\* What an RPC does to a client that has put the object at v.  A creation
\* replaces what is there, the others ask whether there is something.
Effect(op, p, v) ==
    CASE op = "create"  -> p
      [] op = "destroy" -> NoObject
      [] op = "goto"    -> IF v = NoObject THEN NoObject ELSE p

\* RPCs to the connections of S about the ids of J, with place[j].
Tell(S, J, op, place) ==
    LET Meant(i, j) == Effect(op, place[j], told[i][j])
    IN  /\ \A i \in S, j \in J : Len(wire[i][j]) < MaxWire
        /\ told' = [i \in Players |-> [j \in Objects |->
               IF i \in S /\ j \in J THEN Meant(i, j) ELSE told[i][j]]]
        /\ wire' = [i \in Players |-> [j \in Objects |->
               IF i \in S /\ j \in J
               THEN Append(wire[i][j], [op |-> op, place |-> place[j], after |-> Meant(i, j)])
               ELSE wire[i][j]]]
        /\ UNCHANGED <<view, overtaken>>

Show(S, j, p) == Tell(S, {j}, "create", [k \in {j} |-> p])
Send(S, j, p) == Tell(S, {j}, "goto", [k \in {j} |-> p])
Hide(S, J)    == Tell(S, J, "destroy", Empty)

\* A creation waits for the creations sent before it.
MayCome(w, k) == w[k].op = "create" => \A l \in 1 .. k - 1 : w[l].op # "create"

\* One more RPC may overtake another one (a bound).
LateLeft ==
    Cardinality({x \in Players \X Objects : x[2] \in overtaken[x[1]]}) < MaxLate

\* The k-th RPC about j under way to i arrives.
Deliver(i, j, k) ==
    LET w == wire[i][j]
    IN  /\ k \in DOMAIN w
        /\ MayCome(w, k)
        /\ k = 1 \/ LateLeft
        /\ view' = [view EXCEPT ![i][j] = Effect(w[k].op, w[k].place, @)]
        /\ wire' = [wire EXCEPT ![i][j] = RemoveAt(@, k)]
        /\ overtaken' = IF k = 1 THEN overtaken ELSE [overtaken EXCEPT ![i] = @ \cup {j}]
        /\ UNCHANGED <<stage, slot, pending, poolVars, told>>

-----------------------------------------------------------------------------
(* Players come and go. *)

\* CPlayerPool::New for a new client, up to the OnPlayerConnect callbacks.
New(i) ==
    /\ stage # "ending"
    /\ pending = {}
    /\ i \notin slot
    /\ slot' = slot \cup {i}
    /\ pending' = {i}
    /\ UNCHANGED <<stage, poolVars, netVars>>

\* ProcessClientJoin, and one round of ReInitWhenRestarting: every global object
\* is created on the client where it is now, unless the game is restarting.  A
\* player whom a script kicked in the meantime is told nothing any more.
InitForPlayer(i) ==
    /\ i \in pending
    /\ pending' = pending \ {i}
    /\ IF stage = "running" /\ i \in slot
       THEN LET J == {j \in Objects : global[j] # NoObject}
            IN  Tell({i}, J, "create", [j \in J |-> global[j].pos])
       ELSE UNCHANGED netVars
    /\ UNCHANGED <<stage, slot, poolVars>>

\* With the connection ends everything on it.
Disconnect(i) ==
    /\ wire' = [wire EXCEPT ![i] = Silence]
    /\ view' = [view EXCEPT ![i] = Empty]
    /\ told' = [told EXCEPT ![i] = Empty]
    /\ overtaken' = [overtaken EXCEPT ![i] = {}]

\* Mutant: only the slots are cleared, m_bPlayersObject stays.
DeleteForgetsMark(i) ==
    /\ stage # "down"
    /\ i \in slot
    /\ slot' = slot \ {i}
    /\ personal' = [personal EXCEPT ![i] = Empty]
    /\ Disconnect(i)
    /\ UNCHANGED <<stage, pending, global, playersObject>>

\* CPlayerPool::Delete: DeleteForPlayer for every id, at the end of the callbacks.
Delete(i) ==
    /\ stage # "down"
    /\ i \in slot
    /\ slot' = slot \ {i}
    /\ personal' = [personal EXCEPT ![i] = Empty]
    /\ playersObject' = {j \in playersObject :
           personal[i][j] = NoObject \/ \E k \in Players \ {i} : personal[k][j] # NoObject}
    /\ Disconnect(i)
    /\ UNCHANGED <<stage, pending, global>>

-----------------------------------------------------------------------------
(* Natives for global objects. *)

\* Mutant: an id that somebody has a personal object at counts as free.
FreeGlobalUnmarked == {j \in Objects : global[j] = NoObject}

FreeGlobal == {j \in Objects : global[j] = NoObject /\ j \notin playersObject}

Creating == stage = "running" \/ (stage = "ending" /\ ExitCreates)

\* CreateObject.  With no free id it returns 0xFF and does nothing.
CreateObject(id, p) ==
    /\ Creating
    /\ First(id, FreeGlobal)
    /\ global' = [global EXCEPT ![id] = AtRest(p)]
    /\ Show(slot, id, p)
    /\ UNCHANGED <<stage, slot, pending, personal, playersObject>>

\* DestroyObject.  The RPC goes to every connection.
DestroyObject(j) ==
    /\ stage # "down"
    /\ global[j] # NoObject
    /\ global' = [global EXCEPT ![j] = NoObject]
    /\ Hide(Players, {j})
    /\ UNCHANGED <<stage, slot, pending, personal, playersObject>>

\* Mutant: an object that is moving is sent elsewhere without telling anybody.
MoveObjectAgain(j, t) ==
    /\ stage # "down"
    /\ global[j] # NoObject
    /\ global' = [global EXCEPT ![j] = Moving(@, t)]
    /\ IF global[j].moving THEN UNCHANGED netVars ELSE Send(Players, j, t)
    /\ UNCHANGED <<stage, slot, pending, personal, playersObject>>

\* MoveObject.  The RPC goes to every connection.
MoveObject(j, t) ==
    /\ stage # "down"
    /\ global[j] # NoObject
    /\ global' = [global EXCEPT ![j] = Moving(@, t)]
    /\ Send(Players, j, t)
    /\ UNCHANGED <<stage, slot, pending, personal, playersObject>>

\* StopObject.
StopObject(j) ==
    /\ stage # "down"
    /\ global[j] # NoObject
    /\ global' = [global EXCEPT ![j] = Stopped(@)]
    /\ Send(Players, j, global[j].pos)
    /\ UNCHANGED <<stage, slot, pending, personal, playersObject>>

-----------------------------------------------------------------------------
(* Natives for personal objects. *)

\* Mutant: an id that a global object has counts as free.
FreeForOwnOnly(i) == {j \in Objects : personal[i][j] = NoObject}

FreeFor(i) == {j \in Objects : global[j] = NoObject /\ personal[i][j] = NoObject}

\* CreatePlayerObject: only for a player in the pool.
CreatePlayerObject(i, id, p) ==
    /\ Creating
    /\ i \in slot
    /\ First(id, FreeFor(i))
    /\ personal' = [personal EXCEPT ![i][id] = AtRest(p)]
    /\ playersObject' = playersObject \cup {id}
    /\ Show({i}, id, p)
    /\ UNCHANGED <<stage, slot, pending, global>>

\* DestroyPlayerObject and CObjectPool::DeleteForPlayer: the last one to have
\* the id gives it back.
DestroyPlayerObject(i, j) ==
    /\ stage # "down"
    /\ i \in slot
    /\ j \in playersObject
    /\ personal[i][j] # NoObject
    /\ personal' = [personal EXCEPT ![i][j] = NoObject]
    /\ playersObject' = IF \E k \in Players \ {i} : personal[k][j] # NoObject
                        THEN playersObject
                        ELSE playersObject \ {j}
    /\ Hide({i}, {j})
    /\ UNCHANGED <<stage, slot, pending, global>>

\* MovePlayerObject.
MovePlayerObject(i, j, t) ==
    /\ stage # "down"
    /\ i \in slot
    /\ personal[i][j] # NoObject
    /\ personal' = [personal EXCEPT ![i][j] = Moving(@, t)]
    /\ Send({i}, j, t)
    /\ UNCHANGED <<stage, slot, pending, global, playersObject>>

\* StopPlayerObject.
StopPlayerObject(i, j) ==
    /\ stage # "down"
    /\ i \in slot
    /\ personal[i][j] # NoObject
    /\ personal' = [personal EXCEPT ![i][j] = Stopped(@)]
    /\ Send({i}, j, personal[i][j].pos)
    /\ UNCHANGED <<stage, slot, pending, global, playersObject>>

-----------------------------------------------------------------------------
(* The tick. *)

\* Mutant: the step that would reach the target overshoots it.
StepOvershoots(o) == [o EXCEPT !.pos = IF o.target > @ THEN @ + 1 ELSE @ - 1]

\* CObject::Process: one step towards the target; the last step ends the move.
Step(o) ==
    IF o.target \in o.pos - 1 .. o.pos + 1
    THEN AtRest(o.target)
    ELSE [o EXCEPT !.pos = IF o.target > @ THEN @ + 1 ELSE @ - 1]

\* The body of CObjectPool::Process's loops for one object.  Nothing is carried
\* from one object to the next, and callbacks may run in between.  Scripts give
\* positive speeds: with speed 0 no move would ever end.
ProcessPersonal(i, j) ==
    /\ stage = "running" /\ pending = {}
    /\ i \in slot
    /\ j \in playersObject
    /\ personal[i][j] # NoObject
    /\ personal[i][j].moving
    /\ personal' = [personal EXCEPT ![i][j] = Step(@)]
    /\ UNCHANGED <<stage, slot, pending, global, playersObject, netVars>>

ProcessGlobal(j) ==
    /\ stage = "running" /\ pending = {}
    /\ j \notin playersObject
    /\ global[j] # NoObject
    /\ global[j].moving
    /\ global' = [global EXCEPT ![j] = Step(@)]
    /\ UNCHANGED <<stage, slot, pending, personal, playersObject, netVars>>

-----------------------------------------------------------------------------
(* The restart of the game mode. *)

\* ShutdownForGameModeRestart tells the clients, which empty their pools, and
\* then calls OnPlayerDisconnect and OnGameModeExit ...
BeginShutdown ==
    /\ stage = "running" /\ pending = {}
    /\ stage' = "ending"
    /\ Hide(Players, Objects)
    /\ UNCHANGED <<slot, pending, poolVars>>

\* ... and deletes the pool.
EndShutdown ==
    /\ stage = "ending"
    /\ stage' = "down"
    /\ global' = Empty
    /\ personal' = [i \in Players |-> Empty]
    /\ playersObject' = {}
    /\ UNCHANGED <<slot, pending, netVars>>

\* ReInitWhenRestarting: Init makes a new pool (and calls OnGameModeInit), then
\* the players follow one by one, with OnPlayerConnect in between.
ReInit ==
    /\ stage = "down" /\ pending = {}
    /\ stage' = "running"
    /\ pending' = slot
    /\ UNCHANGED <<slot, poolVars, netVars>>

-----------------------------------------------------------------------------
Natives ==
    \/ \E id \in Objects, p \in Place : CreateObject(id, p)
    \/ \E j \in Objects : DestroyObject(j)
    \/ \E j \in Objects, t \in Place : MoveObject(j, t)
    \/ \E j \in Objects : StopObject(j)
    \/ \E i \in Players, id \in Objects, p \in Place : CreatePlayerObject(i, id, p)
    \/ \E i \in Players, j \in Objects : DestroyPlayerObject(i, j)
    \/ \E i \in Players, j \in Objects, t \in Place : MovePlayerObject(i, j, t)
    \/ \E i \in Players, j \in Objects : StopPlayerObject(i, j)

Process ==
    \/ \E i \in Players, j \in Objects : ProcessPersonal(i, j)
    \/ \E j \in Objects : ProcessGlobal(j)

Next ==
    \/ \E i \in Players : New(i)
    \/ \E i \in Players : InitForPlayer(i)
    \/ \E i \in Players : Delete(i)
    \/ Natives
    \/ Process
    \/ BeginShutdown
    \/ EndShutdown
    \/ ReInit
    \/ \E i \in Players, j \in Objects, k \in 1 .. MaxWire : Deliver(i, j, k)

Spec == Init /\ [][Next]_vars

\* Handlers run to their end, whatever natives scripts call in the middle of
\* them, a restart is finished, the tick comes round again and again, also when
\* joins and restarts keep getting in between, and RPCs arrive.
Fairness ==
    /\ \A i \in Players : SF_vars(InitForPlayer(i))
    /\ WF_vars(EndShutdown)
    /\ WF_vars(ReInit)
    /\ \A j \in Objects : SF_vars(ProcessGlobal(j))
    /\ \A i \in Players, j \in Objects : WF_vars(\E k \in 1 .. MaxWire : Deliver(i, j, k))

FairSpec == Spec /\ Fairness

-----------------------------------------------------------------------------
(* Properties. *)

\* No id is both global and personal.
NeverBoth == \A j \in playersObject : global[j] = NoObject

\* m_bPlayersObject is set exactly while somebody has a personal object there.
MarkExact ==
    \A j \in Objects : j \in playersObject <=> \E i \in Players : personal[i][j] # NoObject

\* Whoever joins at a player id finds no personal objects of the player before.
OwnersInPool == \A i \in Players \ slot : personal[i] = Empty

\* The bookkeeping of the shared ids.
IndexInv == NeverBoth /\ MarkExact /\ OwnersInPool

\* Where the object ends up if nobody interferes.
Goal(o) == IF o.moving THEN o.target ELSE o.pos

\* Nothing about j is under way to i, and all that was arrived as it was sent.
InStep(i, j) == wire[i][j] = <<>> /\ j \notin overtaken[i]

\* A client that has been initialised shows all global objects, and one that is
\* in the pool its own, where the server has them.
ViewComplete ==
    \A i \in slot, j \in Objects : stage = "running" /\ InStep(i, j) =>
        /\ i \notin pending /\ global[j] # NoObject => view[i][j] # NoObject
        /\ personal[i][j] # NoObject => view[i][j] = Goal(personal[i][j])

NoGhosts ==
    \A i \in slot, j \in Objects :
        view[i][j] # NoObject /\ InStep(i, j) =>
            global[j] # NoObject \/ personal[i][j] # NoObject

\* Every client shows what it should, and nothing else, as soon as it has got
\* the RPCs; where one overtook another this is not promised, nor true.
ViewExact == ViewComplete /\ NoGhosts

\* A move ends at the target unless a script (or the object's end) stops it.
MoveArrives ==
    \A j \in Objects, t \in Place :
        (global[j] # NoObject /\ global[j].moving /\ global[j].target = t)
            ~> (global[j] = NoObject \/ ~global[j].moving \/ global[j].target # t)

\* scrcustom.cpp, n_MoveObject: "It may have been moved before, make sure all
\* players are up to date": everybody who has got the RPCs as they were sent sees
\* a moving object go where it goes.
MovesReachEverybody ==
    \A i \in slot \ pending, j \in Objects :
        (stage = "running" /\ global[j] # NoObject /\ global[j].moving /\ InStep(i, j))
            => view[i][j] = global[j].target

\* The RPCs sent to i amount to the present move of j, or to none if it rests
\* (in whatever place), and the client shows that when it has got them.
Follows(i, j) ==
    global[j] # NoObject /\ global[j].moving =>
        /\ told[i][j] = global[j].target
        /\ InStep(i, j) => view[i][j] = global[j].target

\* Whoever is initialised is sent every move that begins from then on, and sees
\* each one to its end: MovesReachEverybody fails for moves under way by then only.
NoMoveLost ==
    [][\A i \in slot \cap slot', j \in Objects :
           (/\ stage = "running" /\ i \notin pending
            /\ stage' = "running" /\ i \notin pending'
            /\ Follows(i, j)) => Follows(i, j)']_vars
=============================================================================
