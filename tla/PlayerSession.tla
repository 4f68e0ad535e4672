--------------------------- MODULE PlayerSession ---------------------------
(***************************************************************************)
(* The life of a player on the server: RakNet connections and the packet   *)
(* queue they feed, the player pool, and the restart of the game mode.     *)
(*                                                                         *)
(* Two threads meet here.  RakNet's network thread accepts connections,    *)
(* frees their indices and appends to one FIFO packet queue; the server's  *)
(* main loop drains that queue, runs one world tick and then looks whether *)
(* the game mode asked to finish.  A pool slot is indexed by the RakNet    *)
(* connection index, and RakNet reuses an index as soon as its connection  *)
(* is gone, possibly long before the main loop reads that it is gone.      *)
(***************************************************************************)
EXTENDS Integers, Sequences, FiniteSets

CONSTANTS
    Players,      \* connection indices, 0 .. maxplayers-1 in the code
    Addrs,        \* RakNet PlayerIDs (address and port)
    NoAddr,       \* UNASSIGNED_PLAYER_ID
    MaxCommands,  \* bound: RCON packets waiting in the queue
    RestartWait,  \* world ticks that make up the 12 second restart window
    KickLeavers   \* a script may Kick a player from his own OnPlayerDisconnect

ASSUME SessionAssumption ==
    /\ IsFiniteSet(Players)
    /\ NoAddr \notin Addrs
    /\ MaxCommands \in Nat
    /\ RestartWait \in Nat
    /\ KickLeavers \in BOOLEAN

VARIABLES
    up,           \* the server process is alive
    phase,        \* where the main loop is
    gameState,    \* m_iGameState
    world,        \* the vehicle, pickup, object, menu... pools exist
    gameMode,     \* m_pGameMode is not NULL
    finished,     \* bGameModeFinished
    waited,       \* fRestartWaitTime, in ticks
    playerId,     \* remoteSystemList[i].playerId while isActive
    closing,      \* connectMode is one of DISCONNECT_...
    joined,       \* the client at i has sent its ClientJoin
    packets,      \* packetPool: what Receive() will return, in order
    slot,         \* m_bPlayerSlotState
    playerCount,  \* m_iPlayerCount
    admin,        \* m_bIsAnAdmin
    owner,        \* history: whose ClientJoin filled the slot
    loginBy,      \* history: who sent the login that set m_bIsAnAdmin
    announced,    \* history: the players this connection has been told of
    gmKnows,      \* history: last told the game mode OnPlayerConnect
    told          \* history: this connection was sent the current world

netVars  == <<playerId, closing, joined>>
poolVars == <<slot, playerCount, admin, owner, loginBy>>
viewVars == <<announced, gmKnows, told>>
modeVars == <<gameState, world, gameMode, waited>>
vars == <<up, phase, finished, packets, netVars, poolVars, viewVars, modeVars>>

Commands == {"login", "gmx"}
Kinds    == {"join", "gone"} \cup Commands
Packet   == [kind : Kinds, addr : Addrs, index : Players]

\* The notification that the connection of a at index i is gone.
Departure(a, i) == [kind |-> "gone", addr |-> a, index |-> i]

InUse == {i \in Players : slot[i]}

TypeOK ==
    /\ up \in BOOLEAN
    /\ phase \in {"network", "world", "shutdown"}
    /\ gameState \in {"running", "restarting"}
    /\ world \in BOOLEAN
    /\ gameMode \in BOOLEAN
    /\ finished \in BOOLEAN
    /\ waited \in 0 .. RestartWait
    /\ playerId \in [Players -> Addrs \cup {NoAddr}]
    /\ closing \in [Players -> BOOLEAN]
    /\ joined \in [Players -> BOOLEAN]
    /\ packets \in Seq(Packet)
    /\ slot \in [Players -> BOOLEAN]
    /\ playerCount \in Int
    /\ admin \in [Players -> BOOLEAN]
    /\ owner \in [Players -> Addrs \cup {NoAddr}]
    /\ loginBy \in [Players -> Addrs \cup {NoAddr}]
    /\ announced \in [Players -> SUBSET Players]
    /\ gmKnows \in [Players -> BOOLEAN]
    /\ told \in [Players -> BOOLEAN]

\* CNetGame::CNetGame and Init(true): an empty pool, the first game mode loaded.
Init ==
    /\ up = TRUE
    /\ phase = "network"
    /\ gameState = "running"
    /\ world = TRUE
    /\ gameMode = TRUE
    /\ finished = FALSE
    /\ waited = 0
    /\ playerId = [i \in Players |-> NoAddr]
    /\ closing = [i \in Players |-> FALSE]
    /\ joined = [i \in Players |-> FALSE]
    /\ packets = <<>>
    /\ slot = [i \in Players |-> FALSE]
    /\ playerCount = 0
    /\ admin = [i \in Players |-> FALSE]
    /\ owner = [i \in Players |-> NoAddr]
    /\ loginBy = [i \in Players |-> NoAddr]
    /\ announced = [i \in Players |-> {}]
    /\ gmKnows = [i \in Players |-> FALSE]
    /\ told = [i \in Players |-> FALSE]

-----------------------------------------------------------------------------
(* RakNet's network thread and the clients behind it. *)

\* A PlayerID that no live connection and no queued packet still carries: a
\* client connects with clientPort 0, which binds a new port every time.
Fresh(a) ==
    /\ \A i \in Players : playerId[i] # a
    /\ \A k \in DOMAIN packets : packets[k].addr # a

\* AssignPlayerIDToRemoteSystemList: an inactive index is taken at once.  (The
\* code takes the lowest one; which one is free is all that matters here.)
Connect(i, a) ==
    /\ up
    /\ playerId[i] = NoAddr
    /\ Fresh(a)
    /\ playerId' = [playerId EXCEPT ![i] = a]
    /\ UNCHANGED <<up, phase, finished, packets, closing, joined, poolVars, viewVars, modeVars>>

\* Mutant: the client repeats its ClientJoin.
SendJoinAgain(i) ==
    /\ up
    /\ playerId[i] # NoAddr
    /\ ~closing[i]
    /\ packets' = Append(packets, [kind |-> "join", addr |-> playerId[i], index |-> i])
    /\ UNCHANGED <<up, phase, finished, netVars, poolVars, viewVars, modeVars>>

\* The client answers ID_CONNECTION_REQUEST_ACCEPTED with one ClientJoin RPC.
SendJoin(i) ==
    /\ up
    /\ playerId[i] # NoAddr
    /\ ~closing[i]
    /\ ~joined[i]
    /\ joined' = [joined EXCEPT ![i] = TRUE]
    /\ packets' = Append(packets, [kind |-> "join", addr |-> playerId[i], index |-> i])
    /\ UNCHANGED <<up, phase, finished, playerId, closing, poolVars, viewVars, modeVars>>

\* An ID_RCON_COMMAND packet; RakNet stamps it with the index it arrived on.
SendCommand(i, c) ==
    /\ up
    /\ playerId[i] # NoAddr
    /\ ~closing[i]
    /\ Cardinality({k \in DOMAIN packets : packets[k].kind \in Commands}) < MaxCommands
    /\ packets' = Append(packets, [kind |-> c, addr |-> playerId[i], index |-> i])
    /\ UNCHANGED <<up, phase, finished, netVars, poolVars, viewVars, modeVars>>

\* The client says goodbye: its connection stays active until the last ack.
ClientQuit(i) ==
    /\ up
    /\ playerId[i] # NoAddr
    /\ ~closing[i]
    /\ closing' = [closing EXCEPT ![i] = TRUE]
    /\ UNCHANGED <<up, phase, finished, packets, playerId, joined, poolVars, viewVars, modeVars>>

\* Mutant: the connection goes without a notification.
EndConnectionSilently(i) ==
    /\ playerId' = [playerId EXCEPT ![i] = NoAddr]
    /\ closing' = [closing EXCEPT ![i] = FALSE]
    /\ joined' = [joined EXCEPT ![i] = FALSE]
    /\ announced' = [announced EXCEPT ![i] = {}]
    /\ told' = [told EXCEPT ![i] = FALSE]
    /\ UNCHANGED <<up, phase, finished, packets, poolVars, gmKnows, modeVars>>

\* UpdateCycle ends a connection: the notification is queued for the main loop
\* and only then is the index free for the next connection.
EndConnection(i) ==
    /\ packets' = Append(packets, Departure(playerId[i], i))
    /\ playerId' = [playerId EXCEPT ![i] = NoAddr]
    /\ closing' = [closing EXCEPT ![i] = FALSE]
    /\ joined' = [joined EXCEPT ![i] = FALSE]
    /\ announced' = [announced EXCEPT ![i] = {}]
    /\ told' = [told EXCEPT ![i] = FALSE]
    /\ UNCHANGED <<up, phase, finished, poolVars, gmKnows, modeVars>>

\* The reliability layer gives up on a silent peer (ID_CONNECTION_LOST).
Lose(i) == up /\ playerId[i] # NoAddr /\ ~closing[i] /\ EndConnection(i)

\* A connection that was kicked or has said goodbye (ID_DISCONNECTION_NOTIFICATION).
Close(i) == up /\ playerId[i] # NoAddr /\ closing[i] /\ EndConnection(i)

-----------------------------------------------------------------------------
(* What CPlayerPool::New and Delete tell the other connections. *)

\* RPC_ServerJoin for i, broadcast to every connection but its own.
AnnounceJoin(view, i) ==
    [c \in Players |-> IF c # i /\ playerId[c] # NoAddr THEN view[c] \cup {i} ELSE view[c]]

\* RPC_ServerQuit for the players of K.
AnnounceQuit(view, K) ==
    [c \in Players |-> IF playerId[c] # NoAddr THEN view[c] \ K ELSE view[c]]

\* InitPlayersForPlayer: the newcomer is told of everybody already there.
InitPlayersForPlayer(view, i) == [view EXCEPT ![i] = @ \cup (InUse \ {i})]

\* A NULL pool or game mode is dereferenced: the process is gone.
Crash == up' = FALSE /\ UNCHANGED <<phase, finished, packets, netVars, poolVars, viewVars, modeVars>>

\* RakServer::Kick for the connections that now have the indices of K.
Kicked(K) == [i \in Players |-> closing[i] \/ (i \in K /\ playerId[i] # NoAddr)]

\* The players of K that are deleted twice: Delete clears the slot only after
\* OnPlayerDisconnect, so a Kick from there deletes the same player again.
Again(K) == IF KickLeavers THEN SUBSET K ELSE {{}}

\* CPlayerPool::Delete of the players of K, of those in again twice.
DeleteAll(K, again) ==
    /\ slot' = [i \in Players |-> slot[i] /\ i \notin K]
    /\ admin' = [i \in Players |-> admin[i] /\ i \notin K]
    /\ playerCount' = playerCount - Cardinality(K) - Cardinality(again)
    /\ owner' = [i \in Players |-> IF i \in K THEN NoAddr ELSE owner[i]]
    /\ loginBy' = [i \in Players |-> IF i \in K THEN NoAddr ELSE loginBy[i]]
    /\ announced' = AnnounceQuit(announced, K)

\* Delete of one player.  It tells the game mode, if there is one, and its last
\* step walks the object pool for personal objects: it crashes when there is none.
Delete(i, again) ==
    /\ world
    /\ DeleteAll({i}, again)
    /\ gmKnows' = [gmKnows EXCEPT ![i] = @ /\ ~gameMode]
    /\ UNCHANGED told

-----------------------------------------------------------------------------
(* The main loop, first part: UpdateNetwork drains the packet queue. *)

Receiving(kind) ==
    /\ up
    /\ phase = "network"
    /\ packets # <<>>
    /\ Head(packets).kind = kind

Receive(kind) == Receiving(kind) /\ packets' = Tail(packets)

\* GetIndexFromPlayerID finds the sender only while its connection is active,
\* and GetPlayerIDFromIndex only while it is CONNECTED.
Active(p) == playerId[p.index] = p.addr /\ ~closing[p.index]

\* ClientJoin, refused: the sender is gone or going ("possible bot").
JoinIgnored ==
    /\ Receive("join")
    /\ ~Active(Head(packets))
    /\ UNCHANGED <<up, phase, finished, netVars, poolVars, viewVars, modeVars>>

\* ClientJoin, refused for its version, challenge, mod or nickname: RakNet kick.
JoinRejected ==
    /\ Receive("join")
    /\ Active(Head(packets))
    /\ closing' = [closing EXCEPT ![Head(packets).index] = TRUE]
    /\ UNCHANGED <<up, phase, finished, playerId, joined, poolVars, viewVars, modeVars>>

\* ClientJoin, accepted: CPlayerPool::New, both OnPlayerConnect callbacks, and
\* ProcessClientJoin, which sends the world unless it is being restarted.
JoinAccepted ==
    LET i == Head(packets).index
    IN  /\ Receive("join")
        /\ Active(Head(packets))
        /\ slot' = [slot EXCEPT ![i] = TRUE]
        /\ admin' = [admin EXCEPT ![i] = FALSE]
        /\ playerCount' = playerCount + 1
        /\ owner' = [owner EXCEPT ![i] = Head(packets).addr]
        /\ loginBy' = [loginBy EXCEPT ![i] = NoAddr]
        /\ announced' = InitPlayersForPlayer(AnnounceJoin(announced, i), i)
        /\ gmKnows' = [gmKnows EXCEPT ![i] = @ \/ gameMode]
        /\ told' = [told EXCEPT ![i] = (gameState = "running")]
        /\ UNCHANGED <<up, phase, finished, netVars, modeVars>>

\* The same, with a script that calls Kick(playerid) in OnPlayerConnect.  New
\* and ProcessClientJoin carry on for the player who has just been deleted, and
\* when the kick came from a filterscript the game mode is still called.
JoinKicked(byGameMode) ==
    LET i == Head(packets).index
    IN  /\ Receive("join")
        /\ Active(Head(packets))
        /\ world
        /\ closing' = [closing EXCEPT ![i] = TRUE]
        /\ slot' = [slot EXCEPT ![i] = FALSE]
        /\ admin' = [admin EXCEPT ![i] = FALSE]
        /\ \E again \in Again({i}) : playerCount' = playerCount - Cardinality(again)
        /\ owner' = [owner EXCEPT ![i] = NoAddr]
        /\ loginBy' = [loginBy EXCEPT ![i] = NoAddr]
        /\ announced' = InitPlayersForPlayer(AnnounceQuit(AnnounceJoin(announced, i), {i}), i)
        /\ gmKnows' = [gmKnows EXCEPT ![i] = gameMode /\ ~byGameMode]
        /\ told' = [told EXCEPT ![i] = TRUE]
        /\ UNCHANGED <<up, phase, finished, playerId, joined, modeVars>>

\* The filterscript's kick when the join falls into the restart window.
JoinKickedCrashes ==
    /\ Receiving("join")
    /\ Active(Head(packets))
    /\ ~world
    /\ Crash

\* Mutant: nobody looks whether there is a player at the packet's index.
RconLoginUnchecked ==
    LET i == Head(packets).index
    IN  /\ Receive("login")
        /\ admin' = [admin EXCEPT ![i] = TRUE]
        /\ loginBy' = [loginBy EXCEPT ![i] = Head(packets).addr]
        /\ UNCHANGED <<up, phase, finished, netVars, slot, playerCount, owner, viewVars, modeVars>>

\* "login <password>": the player at the packet's index becomes an admin.
RconLogin ==
    LET i == Head(packets).index
    IN  /\ Receive("login")
        /\ slot[i]
        /\ ~admin[i]
        /\ admin' = [admin EXCEPT ![i] = TRUE]
        /\ loginBy' = [loginBy EXCEPT ![i] = Head(packets).addr]
        /\ UNCHANGED <<up, phase, finished, netVars, slot, playerCount, owner, viewVars, modeVars>>

\* "gmx" or "changemode" from an admin, with a script file that can be read.
RconFinish ==
    /\ Receive("gmx")
    /\ slot[Head(packets).index] /\ admin[Head(packets).index]
    /\ finished' = TRUE
    /\ UNCHANGED <<up, phase, netVars, poolVars, viewVars, modeVars>>

\* An RCON packet with no effect: nobody there, no admin, a wrong password.
RconIgnored ==
    /\ \E c \in Commands : Receive(c)
    /\ UNCHANGED <<up, phase, finished, netVars, poolVars, viewVars, modeVars>>

\* Mutant: the notification is dropped.
HandleGoneIgnored ==
    Receive("gone") /\ UNCHANGED <<up, phase, finished, netVars, poolVars, viewVars, modeVars>>

\* Mutant: Delete without its test for a slot in use.
HandleGoneUnguarded ==
    LET i == Head(packets).index
    IN  /\ Receive("gone")
        /\ Delete(i, {})
        /\ UNCHANGED <<up, phase, finished, netVars, modeVars>>

\* Packet_DisconnectionNotification and Packet_ConnectionLost: Delete, which
\* returns at once for a slot that is not in use.
HandleGone ==
    LET i == Head(packets).index
    IN  /\ Receive("gone")
        /\ IF slot[i]
           THEN \E again \in Again({i}) : Delete(i, again) /\ closing' = Kicked(again)
           ELSE UNCHANGED <<closing, poolVars, viewVars>>
        /\ UNCHANGED <<up, phase, finished, playerId, joined, modeVars>>

\* The same while restarting: the object pool is NULL.
HandleGoneCrashes ==
    /\ Receiving("gone")
    /\ slot[Head(packets).index]
    /\ ~world
    /\ Crash

\* Receive() has returned NULL.
EndNetwork ==
    /\ up
    /\ phase = "network"
    /\ packets = <<>>
    /\ phase' = "world"
    /\ UNCHANGED <<up, finished, packets, netVars, poolVars, viewVars, modeVars>>

-----------------------------------------------------------------------------
(* The main loop, second part: the world tick, scripts and the console. *)

\* Process while running: the pools, the timers and HTTP answers run scripts.
WorldTick ==
    /\ up
    /\ phase = "world"
    /\ gameState = "running"
    /\ phase' = "shutdown"
    /\ UNCHANGED <<up, finished, packets, netVars, poolVars, viewVars, modeVars>>

\* Mutants: the wait is never compared with the 12 seconds; it never grows.
RestartTickUnbounded ==
    /\ up
    /\ phase = "world"
    /\ gameState = "restarting"
    /\ waited' = waited + 1
    /\ phase' = "shutdown"
    /\ UNCHANGED <<up, finished, packets, netVars, poolVars, viewVars, gameState, world, gameMode>>

RestartTickStuck ==
    /\ up
    /\ phase = "world"
    /\ gameState = "restarting"
    /\ waited < RestartWait
    /\ phase' = "shutdown"
    /\ UNCHANGED <<up, finished, packets, netVars, poolVars, viewVars, modeVars>>

\* Process while restarting, before the 12 seconds are over.
RestartTick ==
    /\ up
    /\ phase = "world"
    /\ gameState = "restarting"
    /\ waited < RestartWait
    /\ waited' = waited + 1
    /\ phase' = "shutdown"
    /\ UNCHANGED <<up, finished, packets, netVars, poolVars, viewVars, gameState, world, gameMode>>

\* Mutant: only the game mode comes back, not the pools, and nobody is told.
ReInitModeOnly(byScript, byMode) ==
    /\ up
    /\ phase = "world"
    /\ gameState = "restarting"
    /\ waited = RestartWait
    /\ gameState' = "running"
    /\ gameMode' = TRUE
    /\ phase' = "shutdown"
    /\ UNCHANGED <<up, finished, packets, netVars, poolVars, viewVars, world, waited>>

\* ReInitWhenRestarting: Init builds the pools and loads the game mode, then
\* every player gets the world and OnPlayerConnect.  There the filterscripts
\* kick the players of byScript and the game mode those of byMode.
ReInit(byScript, byMode) ==
    LET kicked == byScript \cup byMode
    IN  /\ up
        /\ phase = "world"
        /\ gameState = "restarting"
        /\ waited = RestartWait
        /\ gameState' = "running"
        /\ world' = TRUE
        /\ gameMode' = TRUE
        /\ phase' = "shutdown"
        /\ \E again \in Again(kicked) : DeleteAll(kicked, again)
        /\ closing' = Kicked(kicked)
        /\ gmKnows' = [i \in Players |-> slot[i] /\ i \notin byMode]
        /\ told' = [i \in Players |-> playerId[i] # NoAddr /\ (told[i] \/ slot[i])]
        /\ UNCHANGED <<up, finished, waited, packets, playerId, joined>>

\* KickPlayer, from a script's Kick or Ban or from a console command.  RakNet
\* is told to close whatever connection now has the index.
KickPlayer(i) ==
    /\ up
    /\ slot[i]
    /\ closing' = Kicked({i})
    /\ \E again \in Again({i}) : Delete(i, again)
    /\ UNCHANGED <<up, phase, finished, packets, playerId, joined, modeVars>>

\* The same while restarting: the object pool is NULL.
KickPlayerCrashes(i) == up /\ slot[i] /\ ~world /\ Crash

\* GameModeExit, "gmx" or "changemode": the next script file can be read.
FinishGameMode ==
    /\ up
    /\ finished' = TRUE
    /\ UNCHANGED <<up, phase, packets, netVars, poolVars, viewVars, modeVars>>

-----------------------------------------------------------------------------
(* The main loop, third part: bGameModeFinished. *)

\* DeactivateAll calls m_pGameMode->OnPlayerDisconnect for everyone in the
\* pool; the game mode and the world pools are deleted and set to NULL.
ShutdownForGameModeRestart ==
    /\ up
    /\ phase = "shutdown"
    /\ finished
    /\ gameMode \/ InUse = {}
    /\ finished' = FALSE
    /\ phase' = "network"
    /\ gameState' = "restarting"
    /\ world' = FALSE
    /\ gameMode' = FALSE
    /\ waited' = 0
    /\ gmKnows' = [i \in Players |-> FALSE]
    /\ told' = [i \in Players |-> FALSE]
    /\ UNCHANGED <<up, packets, netVars, poolVars, announced>>

\* A second restart before the first is over: m_pGameMode is already NULL.
ShutdownCrashes ==
    /\ up
    /\ phase = "shutdown"
    /\ finished
    /\ ~gameMode
    /\ InUse # {}
    /\ Crash

\* Mutant: the loop goes round without looking at bGameModeFinished.
EndLoopUnchecked ==
    /\ up
    /\ phase = "shutdown"
    /\ phase' = "network"
    /\ UNCHANGED <<up, finished, packets, netVars, poolVars, viewVars, modeVars>>

\* The game mode goes on: round the main loop again.
EndLoop ==
    /\ up
    /\ phase = "shutdown"
    /\ ~finished
    /\ phase' = "network"
    /\ UNCHANGED <<up, finished, packets, netVars, poolVars, viewVars, modeVars>>

-----------------------------------------------------------------------------
HandlePacket ==
    \/ JoinIgnored
    \/ JoinRejected
    \/ JoinAccepted
    \/ \E byGameMode \in BOOLEAN : JoinKicked(byGameMode)
    \/ JoinKickedCrashes
    \/ RconLogin
    \/ RconFinish
    \/ RconIgnored
    \/ HandleGone
    \/ HandleGoneCrashes

Tick ==
    \/ WorldTick
    \/ RestartTick
    \/ \E byScript \in SUBSET InUse :
          \E byMode \in SUBSET (InUse \ byScript) : ReInit(byScript, byMode)

EndShutdown ==
    \/ ShutdownForGameModeRestart
    \/ ShutdownCrashes
    \/ EndLoop

Network ==
    \/ \E i \in Players, a \in Addrs : Connect(i, a)
    \/ \E i \in Players : SendJoin(i)
    \/ \E i \in Players, c \in Commands : SendCommand(i, c)
    \/ \E i \in Players : ClientQuit(i)
    \/ \E i \in Players : Lose(i)
    \/ \E i \in Players : Close(i)

Next ==
    \/ Network
    \/ HandlePacket
    \/ EndNetwork
    \/ Tick
    \/ \E i \in Players : KickPlayer(i)
    \/ \E i \in Players : KickPlayerCrashes(i)
    \/ FinishGameMode
    \/ EndShutdown

Spec == Init /\ [][Next]_vars

\* The main loop never blocks and RakNet's update thread keeps running; the
\* handlers keep up with the traffic, so the queue is empty time and again.
\* Nothing is assumed of clients, scripts or the console.
Fairness ==
    /\ WF_vars(HandlePacket)
    /\ SF_vars(EndNetwork)
    /\ WF_vars(Tick)
    /\ WF_vars(EndShutdown)
    /\ \A i \in Players : WF_vars(Close(i))
    /\ []<>(packets = <<>>)

FairSpec == Spec /\ Fairness

-----------------------------------------------------------------------------
(* Properties. *)

\* The connection now at index i is the one that joined as the player in slot i.
Present(i) == slot[i] /\ playerId[i] = owner[i]

\* A ClientJoin that will be accepted always finds its slot free: the player
\* who had the index before has been deleted by then, although RakNet gave the
\* index away before the main loop knew (CPlayerPool::New would overwrite).
JoinFindsFreeSlot ==
    (packets # <<>> /\ Head(packets).kind = "join" /\ Active(Head(packets)))
        => ~slot[Head(packets).index]

\* A slot passes from one player to another only through Delete.
OccupantNeverReplaced ==
    [][\A i \in Players : slot[i] /\ slot'[i] => owner'[i] = owner[i]]_vars

\* m_bIsAnAdmin is set only for a player whose own connection sent the login,
\* however often the index has been reused since.
AdminBelongsToOccupant ==
    \A i \in Players : admin[i] => slot[i] /\ loginBy[i] = owner[i]

\* Why the three properties above hold: what is still in the queue, read in
\* order, tells who had and who has each index.

\* A player in the pool came from a connection.
PlayersOwned == \A i \in Players : slot[i] => owner[i] \in Addrs

\* If his connection is gone, the notification is still in the queue ...
DepartureQueued ==
    \A i \in Players : slot[i] /\ owner[i] # playerId[i] =>
        \E n \in DOMAIN packets : packets[n] = Departure(owner[i], i)

\* ... in front of everything that others sent from his index.
DepartureFirst ==
    \A k \in DOMAIN packets :
        LET i == packets[k].index
        IN  slot[i] /\ packets[k].addr # owner[i] =>
                \E n \in 1 .. k-1 : packets[n] = Departure(owner[i], i)

\* The connection that now has an index was the last to send from it.
LiveLast ==
    \A k, m \in DOMAIN packets :
        /\ packets[k].addr = playerId[packets[k].index]
        /\ packets[m].index = packets[k].index
        /\ packets[m].addr # packets[k].addr
        => m < k

\* A connection sends one ClientJoin, and none is left when it has a player.
JoinsOnce ==
    /\ \A i \in Players : slot[i] /\ owner[i] = playerId[i] => joined[i]
    /\ \A k \in DOMAIN packets :
           packets[k].kind = "join" =>
               LET i == packets[k].index
               IN  /\ packets[k].addr = playerId[i] => joined[i]
                   /\ ~(slot[i] /\ packets[k].addr = owner[i])
    /\ \A k, m \in DOMAIN packets :
           /\ packets[k].kind = "join" /\ packets[m].kind = "join"
           /\ packets[k].addr = packets[m].addr /\ packets[k].index = packets[m].index
           => k = m

QueueInv ==
    /\ PlayersOwned
    /\ DepartureQueued
    /\ DepartureFirst
    /\ LiveLast
    /\ JoinsOnce

\* m_iPlayerCount agrees with the slots, kicks inside OnPlayerConnect included.
CountMatchesSlots == playerCount = Cardinality(InUse)

\* A player who is still connected has been told of exactly the others that
\* are in the pool: nobody missing, nobody left over.
RosterExact ==
    \A i \in Players : (Present(i) /\ ~closing[i]) => announced[i] = InUse \ {i}

\* While the game runs, whoever is in the pool has been announced to the
\* running game mode and, if still connected, has been sent its world.
EveryPlayerInitialised ==
    (up /\ gameState = "running") =>
        \A i \in Players : slot[i] => gmKnows[i] /\ (Present(i) => told[i])

\* The server never dereferences a missing pool or game mode while it runs:
\* only the restart window has that hole.
CrashOnlyWhileRestarting == ~up => gameState = "restarting"

\* The session as Roster sees it: a connection that is being closed is no longer
\* on the line, and a player is the connection that joined as him.
Line   == [i \in Players |-> IF closing[i] THEN NoAddr ELSE playerId[i]]
Member == [i \in Players |-> IF slot[i] THEN owner[i] ELSE NoAddr]
List   == [i \in Players |-> IF closing[i] THEN {} ELSE announced[i]]

PlayerRoster == INSTANCE Roster WITH
    Places <- Players, People <- Addrs, Nobody <- NoAddr,
    line <- Line, member <- Member, list <- List

\* Joins, leaves, kicks, lost connections, reused indices and restarts implement
\* Roster: no connection gets a second player, a player who is deleted does not
\* stay connected, and the lists follow step by step.
KeepsRoster == PlayerRoster!RosterSpec

\* A restart window ends: in a running game, in another restart, or in a crash.
RestartCompletes ==
    gameState = "restarting" ~> (gameState = "running" \/ finished \/ ~up)

\* A game mode that asked to finish is shut down.
FinishIsHonoured == finished ~> (~finished \/ ~up)

\* A player whose connection is gone does not stay in the pool.
GoneIsNoticed ==
    \A i \in Players : (slot[i] /\ playerId[i] # owner[i]) ~> (~slot[i] \/ ~up)

\* playerpool.cpp, Delete: "Remove all personal objects (checking done by the
\* function)".  The callee is said to check what there is to remove, so the
\* server survives the notification that a player is gone whenever it comes.
LeavingIsSafe == [][Receiving("gone") /\ HandlePacket => up']_vars
=============================================================================
