# TLA+ models of the SA-MP 0.2X server

This directory holds TLA+ modules that model the San Andreas Multiplayer server
(`src/server`), TLC configurations that check them on small instances, and TLAPS proofs of
what matters most for instances of any size. Every definition is written from the C++ source;
`PROJECT.json` maps it to its lines.

Inside this directory:

    tlc -workers 2 -config PlayerSession.cfg MCPlayerSession.tla    # one run
    tlc -workers 2 -config ScriptTimers.cfg ScriptTimers.tla        # this one has no MC module
    tlapm PlayerSessionProofs.tla                                   # one proof module

## 1. The system

The server is a single process. Its main thread runs the loop of `server/main.cpp:353-372`
every few milliseconds:

 1. `CNetGame::Process` (`netgame.cpp:568-606`): `UpdateNetwork` drains the packet queue of
    RakNet to the end and handles each packet; then, while the game runs, players, vehicles,
    objects, script timers and HTTP answers get their tick; while a restart is under way, the
    12 second window is counted instead.
 2. `bGameModeFinished`: when a script (`GameModeExit`) or the console (`gmx`, `changemode`)
    asked for it, `ShutdownForGameModeRestart` takes the world down.

Scripts (one game mode, up to 16 filterscripts) are called back from all over this code and
may call almost any native in return: many of the hazards below are re-entrancy of one thread.
Three other threads exist: RakNet's update thread, one thread for each HTTP request of a
script, and on Windows the console reader, which hands its line over synchronously.

### Components

| component (main source) | state | operations | what is hard | what makes it correct |
|---|---|---|---|---|
| Player session: `netgame.cpp`, `playerpool.cpp`, `netrpc.cpp` | pool slots, count, admin flags, game state, restart time | join, leave, kick, RCON login, restart | index reuse before the leave is read; kicks inside callbacks; leaving while restarting | a slot never passes from one player to another except through Delete; everybody's player list is exact; a restart ends with every player initialised |
| RakNet (third party): `raknet/` | connection table, packet queue | connect, close, time out | its own thread | only its queue and its index table are relied on |
| Object pool: `objectpool.cpp`, `object.cpp` | global and per-player object slots, movement | create, destroy, move, per-tick movement, cleanup of a leaver | two kinds of object share 254 numbers; destructions and moves may overtake each other on the wire | an index is never global and personal at once; a client that got the RPCs as they were sent shows what the server has |
| Script timers: `scrtimers.cpp` | list of timers, owner script | set, kill, tick, delete all of a script | callbacks change the list under the iterator | no timer of an unloaded script fires; every timer gets its turn |
| Filterscripts: `filterscripts.cpp` | 16 script slots, count | load, unload, callbacks into each | loads, unloads and further callbacks from inside a callback; a game mode that failed to load; count and slots drift | a loaded script is in one slot; unloading leaves nothing behind |
| Game mode rotation: `netgame.cpp:238-328`, `console.cpp:180-203` | current mode, repeat count | next script, `gmx`, `changemode`, loading | counters at their ends; a load that fails is not noticed | each configured mode runs as often as configured; what runs was asked for |
| Script HTTP: `scripthttps.cpp`, `httpclient.cpp` | 200 request slots, one thread each | new request, worker, delivery | a worker writes after the main thread freed the request | each request is answered once and its slot comes back |
| Vehicles: `vehiclepool.cpp`, `vehicle.cpp` | slot, driver, position, death and idle timers | create, delete, enter, exit, respawn | driver id outlives the driver, and scripts set it; RPCs come in any order | an unused vehicle comes back; an occupied one never respawns |
| Ban list: `netgame.cpp:1303-1390` | list in memory, `samp.ban` | add, remove, reload, check | rewrite of the file is two steps | a crash loses no ban |
| Player state: `player.cpp` | spawned, vehicle, checkpoints, spectating | spawn, die, enter, exit | sync packets against script calls | callbacks come in matching pairs |
| Pickup, menu, text draw, gang zone pools | slots and who sees what | create, destroy, show, hide | "has it" flags of a player who left | a newcomer sees nothing he was not shown |
| Game client: `saco/net` | mirror of the server's pools | RPCs from the server | unordered reliable RPCs; reconnects | the mirror converges to the server |
| Console variables, game mode loader, natives, query, anti-cheat, plugins, HTTP client, AMX, SQLite, GUI, launcher, tools | | | | see `PROJECT.json`: partly or not modelled, with reasons |

`PROJECT.json` lists under `hazards` each hard spot at its line and the properties that watch it.

## 2. Modules

### PlayerSession and Roster

The core: how a connection becomes a player, how the player goes, and how the game mode
restarts under the players' feet. The state is RakNet's part (`playerId`, `closing`, `joined`
per connection index, and `packets`, the FIFO that `Receive` reads), the pool (`slot`,
`playerCount`, `admin`), the mode (`gameState`, `world`, `gameMode`, `waited`, `finished`) and
where the main loop is (`phase`). Five history variables record what the code sent or to whom
a slot was given: `owner`, `loginBy`, `announced`, `gmKnows`, `told`.

| actions | code |
|---|---|
| `Connect`, `SendJoin`, `SendCommand`, `ClientQuit`, `Lose`, `Close` | clients and RakNet's thread; interleave with everything |
| `JoinIgnored`, `JoinRejected`, `JoinAccepted`, `JoinKicked`, `JoinKickedCrashes` | the outcomes of RPC `ClientJoin` |
| `RconLogin`, `RconFinish`, `RconIgnored` | `Packet_RconCommand` |
| `HandleGone`, `HandleGoneCrashes` | the two notifications that a connection ended |
| `EndNetwork`, `WorldTick`, `RestartTick`, `ReInit` | the rest of `Process` |
| `ShutdownForGameModeRestart`, `ShutdownCrashes`, `EndLoop` | the end of the main loop |
| `KickPlayer`, `KickPlayerCrashes`, `FinishGameMode` | scripts and console, at any point of the main loop |

What is abstracted, and why it may be:

 * A connection starts when RakNet says CONNECTED. One that dies during the handshake never
   reaches the pool and produces no notification.
 * RakNet::Kick sets the closing mode through a command that its thread executes at once or
   later; the model sets it at once. The main thread only asks for `Active` in between.
 * `Fresh`: the client binds an ephemeral port on every connection attempt
   (`saco/net/netgame.cpp:311` passes port 0), so an address does not come back while packets
   of its previous life are queued.
 * A kick of somebody else inside a callback has the same effect as `KickPlayer` just before
   or after the handler and is not repeated inside it. A kick of the player the callback is about
   is different, and is modelled: `JoinKicked`, the sets of `ReInit`, `Again`.
 * `GameModeExit` called while the game mode is being shut down is swallowed by
   `main.cpp:363`, as in the model, where `finished'` is FALSE after the shutdown.
 * A NULL pool is dereferenced at an offset of more than 200 KB, which no build maps: `Crash`.
 * An RCON packet that is no login and no mode change has no effect on this state.

Constants: `Players` (indices), `Addrs`, `MaxCommands` (RCON packets in the queue at once),
`RestartWait` (ticks in the window) and `KickLeavers`: may scripts kick a player from his own
`OnPlayerDisconnect`? The main runs and the proofs about the count need FALSE; the run
`PlayerSessionKick` shows what TRUE does.

Run **PlayerSession**: 2 indices, 3 addresses, 1 RCON packet, a window of 1 tick. Two indices
are what it takes for a player to be told of another; three addresses let one index change
hands while both the leave and the next join are queued and the other index is taken too. The
one RCON packet may cross any of it. 755,364 states up to symmetry.

`Roster` is the abstract specification: a `line` to each place, a `member` there, and the `list`
of members that whoever is on the line has been told of. It knows no packets, queues and
restarts: a caller gets a line, perhaps at the place of a member who has hung up (`Call`), a
line is dropped (`HangUp`), a caller becomes a member (`Enter`), members leave and are cut off
(`Leave`), and each of the last three changes the lists with it. The refinement mapping: a
connection that is being closed is off the line (`Line`), the member at an index is the connection
that joined as the player of the slot (`Member`), `announced` is the list (`List`). What is
checked:

 * `KeepsRoster`: the session implements `Roster`. `CPlayerPool::New` does not look whether the
   slot is in use, and `Enter` is possible only if it is not. It need not look: the queue is
   read in order, so the previous player's departure comes first although RakNet gave the index
   away long before. The same property says that a player who is deleted does not stay connected,
   and that everybody's player list follows each join, quit and kick, those from `OnPlayerConnect`
   and from the callbacks of a restart included. Three consequences have names and theorems of
   their own and are not checked again in the run: `JoinFindsFreeSlot`, `OccupantNeverReplaced`
   (a slot passes from one player to another only through `Delete`), and `RosterExact` (whoever is
   connected and in the pool has been told of exactly the others).
 * `AdminBelongsToOccupant`: the same argument for the login packet, which carries an index.
 * `QueueInv`: the inductive invariant behind these two (section 4).
 * `CountMatchesSlots`: the counter agrees with the slots, through joins, leaves, kicks in
   `OnPlayerConnect`, restarts.
 * `EveryPlayerInitialised`: when the game runs, everybody in the pool is known to the running
   game mode and has been sent its world, those who joined during the restart included.
 * `CrashOnlyWhileRestarting`: the NULL pools are reachable in the restart window and never
   outside it.

Run **PlayerSessionLive** (2 indices, 2 addresses, no RCON): a restart window ends
(`RestartCompletes`), a finished game mode is shut down (`FinishIsHonoured`), a player whose
connection is gone leaves the pool (`GoneIsNoticed`). Fairness: the main loop's steps and
RakNet's closing of a closing connection are weakly fair, as the loops of both threads
justify. One assumption is about load: `UpdateNetwork` is a `while` over `Receive()`, which
ends only if the queue is empty at some time; `[]<>(packets = <<>>)` says the clients do not
flood the server for ever. Nothing else is assumed of clients, scripts or the console.

Run **PlayerSessionLeaving** (a violation): `Delete` ends with "Remove all personal objects
(checking done by the function)", but during the restart window there is no object pool to do the
checking. A player whose leave is read then brings the server down.

Run **PlayerSessionKick** (a violation, `KickLeavers` TRUE): `Delete` clears the slot after the
callbacks, so a `Kick` from `OnPlayerDisconnect` deletes the same player twice and the counter
is one too low from then on.

Deadlock is not checked in these runs because a crashed server stops.

### ObjectPool

`CObjectPool` has two tables over one range of ids: global objects, which everybody sees
(`global`), and personal ones, which one player sees (`personal`). `playersObject` is
`m_bPlayersObject`, the mark that keeps the two apart. A client knows an object only by its id;
`view[i][j]` is where client `i` puts object `j` in the end, or `NoObject`.

The network: creations are sent `RELIABLE_ORDERED`, destructions, moves and stops `RELIABLE`, which
arrives for certain and in no order. So `wire[i][j]` holds the RPCs about `j` on their way to `i`, and
`Deliver` takes any of them, but a creation only when no earlier creation is left (`MayCome`). `Effect`
is what the client does with it: a creation replaces what is there, the others do nothing if there
is no object. RPCs about different ids do not touch each other, so a wire for each id loses nothing.
Two history variables: `told[i][j]` is where the client would put the object had it got everything as
sent, and `overtaken` are the ids of which an RPC did overtake another. The message of a restart
(which makes clients empty their pools) is taken as a destruction of each id.

| actions | code |
|---|---|
| `New`, `InitForPlayer`, `Delete` | joining (`pending` is the time between the slot being taken and `InitForPlayer`, with the `OnPlayerConnect` callbacks in it) and leaving |
| `CreateObject`, `DestroyObject`, `MoveObject`, `StopObject` | natives for global objects |
| `CreatePlayerObject`, `DestroyPlayerObject`, `MovePlayerObject`, `StopPlayerObject` | natives for personal objects |
| `ProcessGlobal`, `ProcessPersonal` | the body of `CObjectPool::Process` for one object |
| `BeginShutdown`, `EndShutdown`, `ReInit` | the restart; in stage "ending" the clients have already been told and scripts still run |
| `Deliver` | an RPC arrives at a client |

Natives are enabled at every point, `pending` included: any callback may call them. Left out:
`SetObjectPos`, `SetObjectRot` and their personal forms, which write a field and broadcast it,
`AttachObjectToPlayer`, and the getters. Abstracted: the
client's own interpolation is replaced by its goal; a moving object does one place a tick, with
positive speed. Places are a line, since only equality and "not there yet" matter.

Constants: `MaxObjects` (id 0 is never given out, so 2 means one id), `Far`, the bounds `MaxWire` (RPCs
under way to a client about one id) and `MaxLate` (ids, over all clients, of which an RPC overtook
another), and `ExitCreates`:
may scripts create objects in `OnPlayerDisconnect` or `OnGameModeExit` of a shutdown? With TRUE
the clients, told of the restart before these callbacks, keep such objects as ghosts that the
server does not know; the runs and `ViewAlwaysExact` need FALSE. The clients miss nothing either
way: `ViewAlwaysComplete` is proved for both.

Run **ObjectPool**: 2 players, one id, 2 places, two RPCs under way, one of which may overtake the
other: 316,686 states. Ids interact only in the search for the first free one; one id is enough for a
global and several personal objects to compete for it. Two players are an owner and a second owner, for
whom the mark must survive the first one's leaving. A destruction and the next creation are two RPCs,
and so are two moves: two under way are what it takes for one to overtake.

 * `IndexInv`: no id is global and personal at once, the mark is exact, and no personal object
   outlives the stay of its player, so that the next player at the index does not find it.
 * `ViewExact` is `ViewComplete`, that in the running game an initialised client shows every global
   object, and its own where the server has them, and `NoGhosts`, that it never shows an object
   that the server does not have, through joins, leaves and restarts. Both are about a client and an
   id in step (`InStep`): nothing about the id is under way, and what came came as it was sent. Where an RPC
   overtook another the code promises nothing, and the model has the outcome: a destruction that comes
   behind the next creation takes the new object away, one that comes before the creation leaves a
   ghost, a move that comes before the creation is lost. Without the second half of `InStep` TLC finds
   either part violated in five steps.
 * `NoMoveLost`: an initialised client is sent every move that begins from then on, and in step it
   sees it to its end, whatever is moved again, stopped, destroyed or created under the same id.
 * `MoveArrives`: a moving global object arrives or is redirected, stopped or destroyed. Weak fairness for
   the restart and for the arrival of RPCs; strong fairness for `InitForPlayer`, which ends the handler of
   a join, and for `ProcessGlobal`, because joins and restarts disable the tick for a while, again and again.

Run **ObjectPoolMoves** (a violation): `MovesReachEverybody`, the purpose that `n_MoveObject` states
("make sure all players are up to date"), fails for a client whose RPCs come in order: `OnPlayerConnect`
creates and moves an object, the newcomer is sent both, and `InitForPlayer` then creates the object again, at
rest where it is now. `NoMoveLost` is the
other side of it: moves under way at the initialisation are the only ones a client can miss.

Nothing stops in this model, so deadlock is checked.

### ScriptTimers and TimerPromise

One list holds the timers of the game mode and of all filterscripts. `CScriptTimers::Process`
walks it, and calls scripts in the middle of the walk. The model has the list (`timers`, by id,
which is also the order of the `std::map`), both iterators (`itor`, `itorTmp`) and where the
walk is (`phase`). `age` is history: the time since a timer was last armed.

| actions | code |
|---|---|
| `New`, `Kill` | `SetTimer`, `SetTimerEx`, `KillTimer`, also from a timer's callback |
| `BeginPass`, `VisitEarly`, `VisitDue`, `VisitKilled`, `Return` | the loop of `Process`, cut where scripts run |
| `LoadFilterScript`, `RemoveFilterScript` | `loadfs`, `unloadfs` |
| `Unload`, `Load` | the game mode's end and its next start |

The loop looks its successor up before the callback (`VisitDue`), erases or re-arms the entry
after it, and then goes on *behind* that successor, since the `for` statement counts the
iterator up once more: an entry that fires makes the pass jump over the next. The model keeps
that. Parameters of `SetTimerEx` are left out, and so is a callback that unloads its own
script, which frees the AMX it runs in.

Run **ScriptTimers**: one filterscript and the game mode, three timers, intervals 3 and 5 with a
tick of 2, so that due times fall between ticks. 213,224 states.

`TimerPromise` is the abstract specification: what `SetTimer` and `KillTimer` promise a script,
without the list, the walk and the countdown. Its state is the scripts that are there (`open`), the
handles given out, each script's handles still to be called (`on`), those of them that are for
one call (`once`), whose turn it is and what is being called. Under the mapping a timer in the
list is `on` unless it was killed or is in its only call (`Pending`), and it is the server's turn
while the walk looks for the next entry.

 * `KeepsPromise`: `ScriptTimers` implements it. A handle is given out once; none is called after
   `KillTimer`, after its only call or after the end of its script, those set in
   `OnFilterScriptExit` included; two are never called at a time; and in the server's turn nothing
   is taken back, so that no walk loses a timer, although it erases entries and jumps over others.
   That no timer outlives its script (`TimersOwned`, a theorem of its own) is part of it.
 * `IteratorsValid`: neither iterator stands on an erased entry when it is used.
 * `NeverTooEarly`: a timer is called at most one tick before its interval has passed (the tick
   it was set in may be charged in full).
 * `KilledGoes`, `EveryTimerFires`: a killed timer leaves the list and every other is called,
   in spite of the entries that are jumped over. Fairness: a callback returns, a restart ends,
   and the tick comes again and again although restarts may interrupt it (strong fairness for
   `BeginPass`). `EveryTimerFires` needs intervals longer than a tick; see the hazards.

Run **ScriptTimersUnload** (a violation): with `UnloadInCallback` a callback may send `unloadfs`
for another script; `DeleteForMode` then erases the entry that the walk is about to step on.

Deadlock is checked: a tick or a script action is always possible.

### GameModeRotation

Which script the server runs next: `index` and `repeat` are the two counters, `gamemode` the
console's variables, `gameModeFile` is `szGameModeFile`, `finished` is `bGameModeFinished`.
History: what the last accepted request `asked` for, whether one was `refused` since, whether
the console `moved` the index away from the script, and how many `turns` in a row the rotation
gave one script.

| actions | code |
|---|---|
| `Start`, `StartFails` | the constructor of `CNetGame` |
| `GameModeExit`, `GameModeExitFails` | the native, which rotates or ends the process |
| `Gmx`, `GmxRefused`, `Changemode`, `ChangemodeRefused`, `SetVariable` | console |
| `ShutdownForGameModeRestart`, `ReInitWhenRestarting` | main loop |
| `CallOfNoModeCrashes` | `OnPlayerDisconnect`, `OnIncomingConnection` or `OnGameModeExit` for a mode that was not loaded |

`GetNextScriptFile` and `Cut` keep the one effect of `strtok` that matters: it cuts the repeat
count off, in the variable's own buffer. `Load` is `CGameMode::Load` with both ways to fail: there is no
file (`Readable`), or it is no program and `aux_LoadProgram` refuses it (`Valid`). `Init` looks at neither and
the game runs on; `loaded` is the file that was opened, and `Initialised` is `m_bInitialised`. A file is
what it is for the whole run. At most 15
variables are set (`RotationAssumption`): with all 16, `strtok(NULL)` goes on in text left
by somebody else.

Run **GameModeRotation**: two scripts, a file that is no program and a name without file, four server.cfg
files, two lines the console may write, counters down to -2. 48,765 states.

 * `RotationInv`: the file that `Init` will load is the one last asked for or does not exist;
   the index stands for it unless a refused `gmx`, a `changemode` or a new line moved it.
 * `LoadsWhatWasAccepted`: a script that starts was asked for.
 * `ModeMissingForAReason`: the game runs without a mode only while a request was refused and none
   accepted since, while the end of the game is asked for, or because the very file that was asked for
   is no program. The first does happen: a mistyped `changemode` in the 12 seconds of a restart overwrites the file
   name, although the code says "do nothing if we can't set the requested script". So does the last:
   `SetNextScriptFile` accepts whatever `fopen` opens.
 * `RepeatsCurrent`: `GameModeExit` with repeats left sets up the same script again and cannot end the
   server, unless the console has moved the index: after a refused `gmx` it can.

Run **GameModeRotationRepeats** (a violation): the repeat counts of server.cfg have no effect. A
script repeats for ever, because the count that was cut off reads as 0 and is lowered to -1.
`CountsNothing` says so for every server.cfg and is proved, not run: the counter is below zero after
each `GameModeExit`, which then stays with one variable until `gmx` or `changemode` sets a 0.

Deadlock is not checked: `exit(1)` ends the process, and the bound on `repeat` ends the rest.

### FilterScripts

The programs the server runs: the game mode and the filterscripts. What makes `filterscripts.cpp`
hard is that it is re-entrant: `LoadFilterScript` and `RemoveFilterScript` both call the script in
the middle, a script may send `loadfs`, `unloadfs` and `reloadfs` from any callback, and natives such as
`CallRemoteFunction`, `Kick` or `SetVehicleToRespawn` call back before they return, so that callbacks
nest. The model therefore cuts each operation at its callback and keeps a `stack` of those under way;
what an operation has in local variables across the callback (the slot's index, never the pointer) is in
its frame. `amx` is the heap: what lies at an address is a program, a zeroed AMX (`Zeroed`), one that nobody
has written yet (`Wild`), or nothing. A program is the number of its load, so that one that is loaded
where another was is told apart from it.

| actions | code |
|---|---|
| `BeginLoad`, `EndLoad` | `LoadFilterScript` and `LoadFilterScriptFromMemory` before and after `OnFilterScriptInit`; the name and the count come after it |
| `LoadFails` | `aux_LoadProgram` refuses the file, and its zeroed AMX stays in the slot |
| `BeginUnload`, `EndUnload`, `EndReload`, `EndUnloadCrashes` | `UnloadOneFilterScript` and `RemoveFilterScript` around `OnFilterScriptExit`, for `unloadfs` and `reloadfs` |
| `BeginEvent`, `EndEvent`, `EndMode` | the walk of a callback through the slots, and the game mode behind it (or before it: `CallRemoteFunction`); on an empty stack or inside any callback |
| `CallCrashes`, `ModeCrashes` | the walk finds an AMX without a program, whose header `amx_FindPublic` reads: a refused filterscript, or a game mode that failed to load, for the callbacks that do not ask for `m_bInitialised` |
| `CallProgram`, `ReturnProgram`, `CallProgramCrashes` | a call by an AMX pointer that somebody has kept |
| `Unload`, `UnloadCrashes`, `Load`, `LoadModeFails` | the game mode's end and its next start. The load fails when the file cannot be opened (the AMX stays `Wild`) or is refused (`Zeroed`); `Init` keeps the mode all the same |
| `FreedProgramRuns` | a script that was freed in its own callback goes on |
| `ThreadCrashes` | another thread takes the process down; `ScriptHttps` says when |

Left out or abstracted: `UnloadFilterScripts` and the loads of server.cfg (start and end of the
process), and what a script computes. The code never initialises the array of names; the model
starts it with no names. A filterscript's file can always be opened (`Files`), or it is
refused by the loader every time (`Refused`); that of the game mode may fail at any load. Programs that are
freed while a callback of theirs runs may return or take the process along: what they do in between is
undefined. A look into an AMX that was never written crashes or finds nothing (`Unload` may go on from
`Wild`, not from `Zeroed`). The natives that call back differ only in what they do besides; what the walk of
one of them keeps across a callback is a slot's index and no more. `OnPlayerConnect` and others ask
`m_bInitialised`, `OnPlayerDisconnect` and `OnIncomingConnection` do not: a call of the mode may do either.

`FilterScripts` has no run of its own: `ScriptHttps` composes it, fires all its actions and checks
its properties.

 * `SlotsInv`: a name stands for the live program in its slot, no pointer dangles, no two places
   share a program, at every point of every callback; and there is a program behind each pointer unless
   a file was refused. This is not obvious from the code, since a
   slot is filled without a name, others are freed and filled meanwhile, and then the name is
   written by index.
 * `ExitBeforeFree`: a program that is freed has just returned from its own `OnFilterScriptExit`,
   although the code remembers a slot index and not the script across that callback. The exception is a
   script that is told to unload itself.

The count is kept as the code keeps it, which is up only: after sixteen loads the server refuses
more. No comment says otherwise, so this is a hazard and not a finding.

### ScriptHttps and HttpPromise

`EXTENDS FilterScripts`. A script asks for a URL; the request has a slot (`https`), a record
(`state`, `caller`, `silent`) and a thread of its own. The thread and the main thread share the
record without a lock. `CScriptHttps::Process` is cut at its callback (`at`, `calling`), because
the callback may make requests and unload scripts, the one that runs included.

| actions | code |
|---|---|
| `New` | `CScriptHttps::New`, from any script that runs; the thread may fail to start, which nobody checks |
| `Begin`, `ProcessURL`, `Finish`, `LastWrite` | `HttpThread` at single stores; `iState` and `field_79` are unordered |
| `HeapCrashes` | what a store into a deleted record did to the heap ends the process, then or later |
| `BeginPass`, `Skip`, `Drop`, `Deliver`, `DeliverCrashes`, `EndDeliver` | the loop of `Process` |
| `Scripting`, `Unloading` | everything of `FilterScripts`; the second notes if a program goes with a request open |

An empty URL is refused after the slot was taken; it keeps the slot just as `New` without a thread
does. The result of `ProcessURL` (answer or error code) is data.

`HttpPromise` is the abstract specification: a request takes one of `Places`, keeps it until its
answer is there, and at most one script is told, once. `KeepsPromise` is the refinement
(`INSTANCE HttpPromise WITH ...`): `asked` is the tickets given out, `answered` the threads that
have their answer, `open` the tickets in slots.

Run **ScriptHttps**: 3 addresses, 3 filterscripts of which one is refused, 2 slots, 3 loads, callbacks
two deep, 1 HTTP slot, 2 requests, at most 4 loads and requests together (`MaxWork`). 395,463 states. Three
addresses hold the game mode and two filterscripts at once, so that slots are filled, emptied and refilled
while `LoadFilterScript` waits for another script's `OnFilterScriptInit`; with three loads, an address is
used again; depth two is a script that acts on another, or on itself, from a callback, and one walk inside
another; the one HTTP slot is used by both requests in turn, so that a late thread meets a slot of
somebody else. `MaxWork` keeps the full number of loads and the full number of requests from
multiplying: 3 loads with 1 request, or 2 with 2. Besides `SlotsInv` and `ExitBeforeFree`:

 * `WorkersHaveRecords`: `Process` deletes no record that its thread has still to fill in. Only the
   last store, of `field_79`, may come after `delete`; that race is in the model: `LastWrite` sets `late`,
   and the process may then end at any time (`HeapCrashes`). What else the store may overwrite is left out.
 * `ToldWhoAsked`: `Process` keeps a bare AMX pointer and does not notice that its script went, but
   nobody else is told the answer while the script that asked is loaded.
 * `CrashNeedsFault`: the process dies only after a refused or missing file (of a filterscript or of the
   game mode), a self-unload, a script that went with a request open, or a store into a deleted record.
   Each of the four alone does happen.
 * `KeepsPromise`, as above.
 * `SlotsComeBack`: a processed request gives its slot back, unless the process dies. Fairness: callbacks
   return whatever is nested in them (strong, for each depth, since a callback may itself make calls);
   `Process` goes on; strong for `BeginPass` and for the end of a restart, since the main loop comes by
   again and again although callbacks are in between. None for threads, scripts or the console.

Deadlock is not checked, because a crashed process stops and the bounds on loads and requests stop
the rest.

### VehicleLife

One vehicle id. The server learns of the vehicle only from the clients' packets, and clients learn
late what the server did. The state: the vehicle (`dead`, `notified`, `occupied`, `driver` and the
two clocks `respawned` and `seen`), each player's state (`place`), and the clients: the life
that each shows (`shows`), the one its vehicle is marked to respawn into (`due`), and the RPCs on their way to
it (`down`). `life` numbers what lies between two spawns.

| actions | code |
|---|---|
| `CreateVehicle`, `AddStaticVehicle`, `Delete`, `SetVehicleToRespawn`, `PutPlayerInVehicle` | natives, also from `OnVehicleDeath`. `AddStaticVehicle` tells nobody; `PutPlayerInVehicle` with seat 0 sets `m_byteDriverID` without a packet |
| `CheckForIdleRespawn`, `BeginDeath`, `EndDeath`, `RespawnDead` | `CVehicle::Process`, cut at `OnVehicleDeath` |
| `Settle`, `Mature`, `Pass` | time: 5 and 10 seconds since the respawn, the respawn delay since it was last seen occupied |
| `Receive` | in-car, passenger and other sync packets, and `VehicleDestroyed` |
| `Join`, `Leave` | players come and go; the index in `m_byteDriverID` stays |
| `Deliver`, `Reborn` | the client: an RPC arrives, any of those under way (all are `RELIABLE`, without order); a vehicle that `ScrRespawnVehicle` marked is made anew in a later frame |

Sync packets and `VehicleDestroyed` are `SEQUENCED` on one channel: they come in their order or not at
all. They are therefore taken as sent at the moment they come. A packet that was sent before the
client had some RPC and comes after it looks to the server like one from a client that gets the RPC
later, and RPCs may be as late as they like: five seconds are no bound on anything but `Update`'s clock, and
`Settle` waits for nobody. Clients send whatever they like about the vehicle they show.
History: `slow` are the clients who had not caught up with a respawn (`CaughtUp`) when its five seconds were
over, `late` those to whom an RPC came before an earlier one, `untold` those nobody told of a vehicle of
`AddStaticVehicle`, `wheel` who sent the last driver's packet, `stale` whether a packet about another life was
believed from a client that is neither slow nor late. Not in the model: trailers and trains, health set by
scripts, positions, `RemovePlayerFromVehicle` and other seats (what a client does when told is among what it
may do anyway), colours and parts, the new pool of a restarted game mode.

Run **VehicleLife**: 2 players, 2 lives, 2 RPCs under way to a client (`MaxWire`), one client to whom
they come out of order (`MaxLate`). 815,558 states. One respawn is enough for a packet to
meet the wrong life; two players are an old driver and somebody else, or one with and one without late RPCs;
two RPCs are what it takes for one to overtake.

 * `DrivenInThisLife`: what the server records is about the life the vehicle is in. This is what
   the five seconds are for, and without them it fails. It is said of clients in time: one that has not
   caught up after five seconds (`slow`), or got RPCs in another order (`late`), is believed, as in the code.
 * `ClientsCatchUp`: a client that got the RPCs in their order, and has done what they say, shows the vehicle
   in the life that the server has it in, or no vehicle if there is none, although an RPC carries the id only,
   a respawn is taken by whatever vehicle the client shows, and a client that joins is sent only the present
   state. A client that was there when `AddStaticVehicle` was called shows nothing, also after respawns,
   which it ignores. Where one RPC overtook another nothing is promised: a destruction that comes behind the
   next spawn leaves the client without the vehicle for good.
 * `WheelKeepsCar`: the idle respawn never takes a vehicle whose last driver, as far as the server
   knows, sits at its wheel, although `IsOccupied` looks at one index only, which is never cleared. The
   exception is the code's: once a script has called `PutPlayerInVehicle` for somebody else, that player is
   the only one looked for, until the driver's next packet; if he never gets in, the vehicle is respawned
   under the driver as soon as the delay is over.
 * `WreckIsRespawned`, `AbandonedIsRespawned`: a wreck, or a used vehicle nobody is in, comes back, even
   if the notification of its death was lost, or its driver left the server. Fairness: the times that are
   waited for pass (a driver who restarts the clock again and again is what `WreckIsRespawned` excepts),
   RPCs arrive, the callback returns, and the main loop, which tries each time with one chance in
   twenty, succeeds in the end (weak: the condition stays true until it does). Nothing is assumed of
   packets: clients may be silent for ever.

What was seen and is no disagreement with any text: passengers alone do not keep a vehicle (a
comment in `IsOccupied` speaks of passengers, the code looks at the driver's index); a wreck may
be respawned as idle without `OnVehicleDeath`; `Respawn` keeps `m_byteDriverID`. A script that
destroys the vehicle in `OnVehicleDeath` leaves `Process` writing to freed memory; the model has
the deletion, and not what that write hits.

Deadlock is not checked: the bound on lives stops the vehicle.

## 3. Plan

In order of importance; each module gets an MC module or configuration, properties with their
mutants, and, where listed, proofs.

Done: `PlayerSession` with `Roster`, `ObjectPool`, `ScriptTimers` with `TimerPromise`,
`GameModeRotation`, `FilterScripts`, `ScriptHttps` with `HttpPromise`, `VehicleLife`, each with its
proofs.

Next:

 1. `BanList`: memory against file, with crashes between `remove` and `rename`.
 2. `ScriptPools`, `PlayerLife`: shown/has flags against reality; paired callbacks.
 3. `ClientRoster`: the client's player list under unordered reliable RPCs, composed with the
    announcements of `PlayerSession` (objects and vehicles are done).
 4. `ScriptTimers` composed with `FilterScripts`: its `LoadFilterScript` and `RemoveFilterScript` are one
    step each, which `FilterScripts` cuts at the callback.

## 4. Proofs

`PlayerSessionProofs` proves, for any finite set of indices, any addresses and any bounds:

 * `TypesAlways`: `Spec => []TypeOK`.
 * `QueueAlways`: `Spec => []QueueInv`. None of the three safety properties is inductive: they
   speak of the head of the queue or of one slot, and what makes them true is the order of
   everything behind the head. `QueueInv` says what that order tells: if the player of a slot is
   not the connection that has the index, his departure is queued (`DepartureQueued`), ahead of
   whatever others sent from that index (`DepartureFirst`); the connection that has the index
   sent last (`LiveLast`); and one connection sends one join (`JoinsOnce`).
 * `JoinAlwaysFindsFreeSlot`, `OccupantIsNeverReplaced`, `AdminAlwaysBelongs`: the three safety
   properties from it.

The proof splits the actions by what they do to the queue: extend it (`QueueExtended`), drain it
(`QueueDrained`), append a departure (`QueueClosed`), or leave it (`QueueKept`); `Connect` and
`JoinAccepted` get lemmas of their own. It uses `SessionAssumption` only.

`PlayerRosterProofs` proves the other invariants of the session and its refinement. `Effects` sorts all steps by
what they do to pool, connections and player lists; each proof is then about six cases.

 * `CountAlwaysMatches`, assuming `~KickLeavers`: an accepted join meets a free slot (from `QueueInv`),
   a delete takes players that are there. `CountNeverTooHigh` needs no assumption: a script that kicks
   a leaver makes the counter too low, and nothing makes it too high.
 * `RosterAlwaysExact`: `RosterInv` adds that nobody was told of a player who is not there, and that
   an index without a connection was told nothing, since a connection that is just being
   established gets broadcasts before its own join.
 * `CrashesOnlyWhileRestarting`, with `WorldInv` (pools and game mode exist exactly while the game runs),
   and `PlayersAlwaysInitialised`, which also needs that a new connection is never taken for the
   one whose departure is still queued (`ConnectMeets`).
 * `SessionKeepsRoster`: `Spec => KeepsRoster`, without any assumption about scripts. Each of the six cases of
   `Effects` is a step of `Roster` or a stutter: `ConnectCalls`, `QuietHangsUp`, `EndedHangsUp`,
   `JoinEnters`, `JoinKickedHangsUp`, `RemovedLeaves`. That the join enters at a free place is
   `QueueInv`, that a caller is nobody's old acquaintance is `Fresh`, and that a notification cuts off
   nobody who has called since needs `LineInv`: a departure in the queue is never that of the
   connection that has the index now.

`ObjectPoolProofs`, for any players, ids and places (`ObjectAssumption`):

 * `ObjectTypesAlways`, and `IndexAlways`: `Spec => []IndexInv`. `IndexInv` is inductive together
   with the types: `NeverBoth` needs the mark to be exact when a global object is created, and
   the mark is exact only because a leaver's objects go with him (`OwnersInPool`).
 * `ViewAlwaysComplete`: `Spec => []ViewComplete`, for either value of `ExitCreates`. RPCs come in any order,
   so the proof keeps apart what is sent and what arrives. What is sent: the proof
   sorts the eight natives into two effects (`NativesTell`): a global object becomes another and
   every client that has it is told (`GlobalTold`), or a personal one does (`PersonalTold`); the
   invariant says of `told` what the theorem says of `view`, and `EmptyPool` that the server has no object
   while its pools are down. What arrives: for an id of which no RPC overtook another, the RPCs under way lead
   step by step from `view` to `told`, by their history field `after`; so when none is left the two are
   the same. `Deliver` of the first takes one link off, `Tell` adds one at the end, any other `Deliver` puts
   the id among `overtaken`.
 * `ViewAlwaysExact`: `ViewExact`, assuming `~ExitCreates`. `NoGhosts` needs that clients have been told of
   nothing outside the running game (`QuietStage`), which is where the assumption is used;
   `GhostInv` is the conjunction.
 * `MovesNeverLost`: `Spec => NoMoveLost`, from the same effects and the same chain: whoever has an object is
   told of each change of its goal, and whoever is initialised has been told of it.

`ScriptTimersProofs`, for any scripts, intervals, tick and number of timers
(`TimerAssumption`):

 * `TimerTypesAlways`; `TimersAlwaysOwned`, from the inductive `OwnedInv`.
 * `IteratorsAlwaysValid`, assuming `~UnloadInCallback`: only the walk itself erases entries
   while it is under way.
 * `TimersNeverTooEarly`: the invariant relates the age of a timer to what it has left, and
   differs before and behind the place where the walk stands, because the age grows at the start of
   a pass and the remaining time when the entry is visited.
 * `TimersKeepPromise`: `Spec => KeepsPromise`, callbacks that unload scripts included. Most steps leave
   every handle as it is (`Untouched`); the others give one (`NewGives`), take one back (`KillTakesBack`),
   take a script's (`DropCloses`), or call one (`DueCalls`). A timer that is called belongs to a script
   that is there, by `OwnedInv`.

`GameModeRotationProofs`, for any scripts, server.cfg and bounds (`RotationAssumption`):
`RotationTypesAlways`; `RotationAlways`, the inductive invariant `RotationInv`; and from it
`ModeAlwaysMissingForAReason` and the two step properties `AlwaysLoadsWhatWasAccepted` and
`AlwaysRepeatsCurrent`. `ConfigNeverCounts` proves `CountsNothing` from the invariant `repeat <= 0`, which
holds because the text after `strtok`'s cut never gives a number: what
`GameModeRotationRepeats` shows of one server.cfg is so for all.

`FilterScriptsProofs`, for any slots, addresses, files, loads and depth (`ScriptsAssumption`):
`ScriptsTypesAlways`, `SlotsAlwaysRight`, `AlwaysExitBeforeFree`. `SlotsInv` is not inductive, because
what `EndLoad` and `EndUnload` do depends on a frame that was pushed many steps ago. The invariant
`Good` adds what the frames know: a script in `OnFilterScriptInit` is still in its slot, which has
no name (`FrameGood`), nothing is unloaded on top of it from the same slot (`StackGood`), and, as
long as no script was told to unload itself, every frame's program is still where it was
(`CalmGood`). `Good` takes the values of the variables as arguments, so that `reloadfs`, one step
that unloads and loads, is two uses of the same lemmas (`FreeGood`, `LoadGood`).

`ScriptHttpsProofs`, with `HttpsAssumption` in addition:

 * `HttpsKeepScripts`: every step of the composition is a step of `FilterScripts` or leaves its
   variables alone. Its invariant and theorems carry over (`SlotsRightWithHttps`,
   `ExitBeforeFreeWithHttps`).
 * `HttpsTypesAlways`, `WorkersAlwaysHaveRecords`, `AlwaysToldWhoAsked`, `CrashAlwaysNeedsFault`, from
   `HttpsInv`: slots hold each ticket once, `state` tells how far the thread is, `Process` keeps
   its slot while it is in the callback, and the program that asked is at the kept address or nowhere.
 * `HttpsKeepPromise`: the refinement of `HttpPromise`. That a place is left when a slot is found
   is a counting argument (`RoomForOne`).

`VehicleLifeProofs`, for any players, lives and RPCs under way (`VehicleAssumption`): `VehicleTypesAlways`,
`AlwaysDrivenInThisLife`, `WheelAlwaysKeepsCar`, `ClientsAlwaysCatchUp`, all from `VehicleInv`:

 * `Chained`: to a client that is not late, the RPCs under way lead in their order from the vehicle it shows
   (or is about to show, `Final`) to the one it is meant to show (`Meant`: the present life, or none if nobody
   told it). A respawn is a link only from a client that has a vehicle, which is why it never goes astray.
   When nothing is left, the two ends meet: `ClientsCatchUp`.
 * `Settled`: five seconds after a respawn, a client that is neither slow nor late shows, will show and is
   about to hear of this life only. So a packet that `Update` accepts from it is about this life: `Driven`, and with it
   `DrivenInThisLife`.
 * `Driven` also says that the driver at `wheel` is the one in `m_byteDriverID` once the vehicle counts as
   occupied, which `PutPlayerInVehicle` breaks by forgetting `wheel`, and the next packet mends: `WheelKeepsCar`.
 * `GoneHaveNothing`: to who is not connected nothing is on its way.

Only model-checked: liveness under fairness (`RestartCompletes`, `FinishIsHonoured`, `GoneIsNoticed`,
`MoveArrives`, `KilledGoes`, `EveryTimerFires`, `SlotsComeBack`, `WreckIsRespawned`,
`AbandonedIsRespawned`), which is out of the prover's reach. Every safety property that a passing
run checks is also proved.

## 5. Not modelled

Every part left out is listed in `PROJECT.json` with its reason: third-party code, pure I/O and
formatting, the client's rendering and memory patches, stand-alone tools.
