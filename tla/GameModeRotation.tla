-------------------------- MODULE GameModeRotation --------------------------
(***************************************************************************)
(* Which game mode the server runs next.  server.cfg sets the variables    *)
(* gamemode0 .. gamemode15, each to a script's name and a repeat count.    *)
(* GameModeExit of a script moves along them; the console moves with gmx   *)
(* or names a script with changemode.  The script that was set is loaded   *)
(* by Init, when the server starts and 12 seconds after each shutdown.     *)
(*                                                                         *)
(* Source: src/server/netgame.cpp, console.cpp, scrcustom.cpp, main.cpp.   *)
(***************************************************************************)
EXTENDS Integers, FiniteSets

CONSTANTS Modes,        \* the script names somebody may write
          Readable,     \* those with a file under gamemodes/
          Valid,        \* those whose file aux_LoadProgram takes for a program
          NoMode,       \* no script at all
          MaxSlot,      \* the last of the 16 variables that anybody sets
          Configs,      \* the gamemode lines that server.cfg may have
          NewLines,     \* what the console may set such a variable to
          MaxRepeat,    \* bound: the repeat count stays within -MaxRepeat .. MaxRepeat
          MaxTurns      \* bound: up to which turns are counted

Slots == 0 .. MaxSlot

\* The text of a variable: a name and the number behind it, 0 when none is left.
Lines == [mode : Modes, repeats : 0 .. MaxRepeat]

Settings == {g \in UNION {[s -> Lines] : s \in SUBSET Slots} : 0 \in DOMAIN g}

\* At least gamemode0 is set, and at least gamemode15 is not: see NextSlot.
ASSUME RotationAssumption ==
    /\ Valid \subseteq Readable /\ Readable \subseteq Modes /\ NoMode \notin Modes
    /\ MaxRepeat \in Nat \ {0} /\ MaxTurns \in Nat \ {0}
    /\ MaxSlot \in 0 .. 14
    /\ Configs \subseteq Settings
    /\ NewLines \subseteq Lines

VARIABLES
    gameState,          \* "starting", "running", "restarting" or "exited"
    gamemode,           \* the console's variables gamemode0, gamemode1, ... that are set
    index,              \* m_iCurrentGameModeIndex
    repeat,             \* m_iCurrentGameModeRepeat
    firstLoaded,        \* m_bFirstGameModeLoaded
    gameModeFile,       \* szGameModeFile: what Init will load
    finished,           \* bGameModeFinished
    loaded,             \* the file m_pGameMode has opened, or NoMode
    \* History.
    config,             \* server.cfg
    asked,              \* the script of the last request that was accepted
    refused,            \* a request was refused after that one
    moved,              \* index no longer stands for the script in asked
    turns               \* times in a row that SetNextScriptFile(NULL) set one script up

rotation == <<index, repeat, firstLoaded, gameModeFile>>
history == <<config, asked, refused, moved, turns>>
vars == <<gameState, gamemode, rotation, finished, loaded, history>>

TypeOK ==
    /\ gameState \in {"starting", "running", "restarting", "exited"}
    /\ {gamemode, config} \subseteq Settings
    /\ index \in DOMAIN gamemode
    /\ repeat \in -MaxRepeat .. MaxRepeat
    /\ gameModeFile \in Modes \cup {NoMode}
    /\ {loaded, asked} \subseteq Readable \cup {NoMode}
    /\ {firstLoaded, finished, refused, moved} \subseteq BOOLEAN
    /\ turns \in 0 .. MaxTurns

Init ==
    /\ gameState = "starting" /\ gamemode \in Configs /\ config = gamemode
    /\ index = 0 /\ repeat = 0 /\ firstLoaded = FALSE /\ gameModeFile = NoMode
    /\ finished = FALSE /\ loaded = NoMode
    /\ asked = NoMode /\ refused = FALSE /\ moved = FALSE /\ turns = 0

-----------------------------------------------------------------------------
(* The next script *)

\* GetNextScriptFile counts the index up from where it is told to, and goes back
\* to 0 from a variable that is not set.
NextSlot(from) == IF from + 1 \in DOMAIN gamemode THEN from + 1 ELSE 0

\* It then cuts the name off with strtok, in the variable's own buffer: the
\* repeat count behind the name is out of sscanf's reach, now and later.
Cut(line) == [line EXCEPT !.repeats = 0]

\* Mutant: the index is not put back to 0 when the variables end.
GetNextScriptFileNoCycle(from) ==
    /\ index' = from + 1
    /\ gamemode' = [gamemode EXCEPT ![NextSlot(from)] = Cut(@)]
    /\ UNCHANGED config

GetNextScriptFile(from) ==
    /\ index' = NextSlot(from)
    /\ gamemode' = [gamemode EXCEPT ![NextSlot(from)] = Cut(@)]
    /\ UNCHANGED config

\* Mutant: nobody looks whether the file can be read.
AcceptUnread(mode) == gameModeFile' = mode /\ asked' = mode /\ refused' = FALSE

\* SetNextScriptFile writes szGameModeFile before it looks whether there is such
\* a file.
Accept(mode) ==
    /\ mode \in Readable
    /\ gameModeFile' = mode /\ asked' = mode /\ refused' = FALSE

Refuse(mode) ==
    /\ mode \notin Readable
    /\ gameModeFile' = mode /\ refused' = TRUE
    /\ UNCHANGED <<repeat, firstLoaded, asked>>

\* SetNextScriptFile(NULL) starts from the script before the current one when the
\* current one has repeats left.
RotateFromHere == index \* Mutant: the index is not lowered.

RotateFrom == IF repeat # 0 \/ ~firstLoaded THEN index - 1 ELSE index

\* What it does to the repeat count: a count of 0 is filled up from the text that
\* GetNextScriptFile returned.
CountDown(line) == (IF repeat = 0 THEN line.repeats ELSE repeat) - 1

Rotate ==
    LET mode == gamemode[NextSlot(RotateFrom)].mode IN
    /\ GetNextScriptFile(RotateFrom)
    /\ Accept(mode)
    /\ repeat' = CountDown(Cut(gamemode[NextSlot(RotateFrom)]))
    /\ repeat' >= -MaxRepeat
    /\ firstLoaded' = TRUE
    /\ moved' = FALSE
    /\ turns' = CASE index' # index -> 1
                  [] finished \/ turns = MaxTurns -> turns
                  [] OTHER -> turns + 1

RotateRefused ==
    LET mode == gamemode[NextSlot(RotateFrom)].mode IN
    /\ GetNextScriptFile(RotateFrom)
    /\ Refuse(mode)
    /\ UNCHANGED <<moved, turns>>

-----------------------------------------------------------------------------
(* Init of the game *)

\* CGameMode::Load opens the file again.  When there is none it leaves m_amx as the
\* heap held it; when there is one m_amx is cleared first, and aux_LoadProgram may
\* still refuse it.  Init looks at neither: the game runs on.
Load(mode) ==
    /\ gameState' = "running"
    /\ loaded' = IF mode \in Readable THEN mode ELSE NoMode

\* m_bInitialised: there is a game mode to call.
Initialised == loaded \in Valid

\* The constructor of CNetGame: no script, no server.
Start ==
    /\ gameState = "starting"
    /\ Rotate
    /\ Load(gameModeFile')
    /\ UNCHANGED finished

StartFails ==
    /\ gameState = "starting"
    /\ RotateRefused
    /\ gameState' = "exited"
    /\ UNCHANGED <<finished, loaded>>

Up == gameState \in {"running", "restarting"}

\* Native GameModeExit, from any callback of any script, OnGameModeExit included:
\* what is asked there is as if it were asked just before Shutdown.
GameModeExit ==
    /\ Up
    /\ Rotate
    /\ finished' = TRUE
    /\ UNCHANGED <<gameState, loaded>>

\* It ends the process when it cannot have a script.
GameModeExitFails ==
    /\ Up
    /\ RotateRefused
    /\ gameState' = "exited"
    /\ UNCHANGED <<finished, loaded>>

-----------------------------------------------------------------------------
(* Console *)

\* Mutant: gmx looks at the next variable without stepping the index.
GmxPeeks ==
    /\ Up
    /\ Accept(gamemode[NextSlot(index)].mode)
    /\ repeat' = 0 /\ finished' = TRUE
    /\ moved' = FALSE /\ turns' = 0
    /\ UNCHANGED <<gameState, gamemode, config, index, firstLoaded, loaded>>

\* gmx steps the index itself and then names the script it found.
Gmx ==
    LET mode == gamemode[NextSlot(index)].mode IN
    /\ Up
    /\ GetNextScriptFile(index)
    /\ Accept(mode)
    /\ repeat' = 0 /\ finished' = TRUE
    /\ moved' = FALSE /\ turns' = 0
    /\ UNCHANGED <<gameState, firstLoaded, loaded>>

GmxRefused ==
    LET mode == gamemode[NextSlot(index)].mode IN
    /\ Up
    /\ GetNextScriptFile(index)
    /\ Refuse(mode)
    /\ moved' = TRUE /\ turns' = 0
    /\ UNCHANGED <<gameState, finished, loaded>>

\* Mutant: the name is checked and not stored.
ChangemodeForgets(mode) ==
    /\ Up
    /\ mode \in Readable /\ asked' = mode /\ refused' = FALSE
    /\ repeat' = 0 /\ finished' = TRUE
    /\ moved' = TRUE /\ turns' = 0
    /\ UNCHANGED <<gameState, gamemode, config, index, firstLoaded, gameModeFile, loaded>>

Changemode(mode) ==
    /\ Up
    /\ Accept(mode)
    /\ repeat' = 0 /\ finished' = TRUE
    /\ moved' = TRUE /\ turns' = 0
    /\ UNCHANGED <<gameState, gamemode, config, index, firstLoaded, loaded>>

ChangemodeRefused(mode) ==
    /\ Up
    /\ Refuse(mode)
    /\ UNCHANGED <<gameState, gamemode, config, index, finished, loaded, moved, turns>>

\* "gamemode<i> <name> <count>": the variables stay writable.
SetVariable(i, line) ==
    /\ Up
    /\ gamemode' = [j \in DOMAIN gamemode \cup {i} |-> IF j = i THEN line ELSE gamemode[j]]
    /\ moved' = TRUE /\ turns' = 0
    /\ UNCHANGED <<gameState, rotation, finished, loaded, config, asked, refused>>

-----------------------------------------------------------------------------
(* Main loop *)

\* CGameMode::Unload asks the AMX for OnGameModeExit whether it was loaded or not.  An
\* AMX that was cleared has no header to look in; what the heap held may do.
ShutdownForGameModeRestart ==
    /\ Up /\ finished
    /\ Initialised \/ loaded = NoMode
    /\ gameState' = "restarting"
    /\ loaded' = NoMode /\ finished' = FALSE
    /\ UNCHANGED <<gamemode, rotation, history>>

\* OnGameModeExit when the game ends, and before that OnPlayerDisconnect or
\* OnIncomingConnection: none of them looks at m_bInitialised.
CallOfNoModeCrashes ==
    /\ gameState = "running" /\ ~Initialised
    /\ gameState' = "exited"
    /\ UNCHANGED <<gamemode, rotation, finished, loaded, history>>

ReInitWhenRestarting ==
    /\ gameState = "restarting"
    /\ Load(gameModeFile)
    /\ UNCHANGED <<gamemode, rotation, finished, history>>

-----------------------------------------------------------------------------
Next ==
    \/ Start \/ StartFails
    \/ GameModeExit \/ GameModeExitFails
    \/ Gmx \/ GmxRefused
    \/ \E mode \in Modes : Changemode(mode) \/ ChangemodeRefused(mode)
    \/ \E i \in Slots, line \in NewLines : SetVariable(i, line)
    \/ ShutdownForGameModeRestart \/ CallOfNoModeCrashes \/ ReInitWhenRestarting

Spec == Init /\ [][Next]_vars

-----------------------------------------------------------------------------
(* Properties *)

\* What Init loads is what the last accepted request asked for, or a file that is
\* not there: szGameModeFile is overwritten before the file is looked for, also by
\* a changemode in the 12 seconds of a restart.
FileInv == IF refused THEN gameModeFile \notin Readable ELSE gameModeFile = asked

\* A script that starts is the one the last accepted request asked for.
LoadsWhatWasAccepted ==
    [][loaded' # loaded /\ loaded' # NoMode => loaded' = asked']_vars

\* The game runs without a game mode only if a request was refused (an accepted one
\* since then will end that), or if the file it was asked for is no program: never
\* because another script was loaded than the one that was asked for.
ModeMissingForAReason ==
    gameState = "running" /\ ~Initialised => refused \/ finished \/ loaded = asked

\* "repeats of this script, cycle to the current": GameModeExit with repeats left
\* loads the same script again, and so cannot end the server.  A gmx that was refused
\* (it has moved the index), a changemode and a new line break that: moved.
RepeatsCurrent ==
    [][(GameModeExit \/ GameModeExitFails) /\ repeat # 0 /\ ~moved
         => asked' = asked /\ gameState' # "exited"]_vars

\* What becomes of the repeat counts of server.cfg: none is ever counted.  A
\* GameModeExit leaves the count below zero, and below zero the next one stays
\* with the same variable: only gmx, changemode and the first script find a 0.
CountsNothing ==
    [][/\ Start \/ GameModeExit => repeat' < 0
       /\ GameModeExit /\ repeat # 0 => index' = index
       /\ repeat # 0 /\ repeat' = 0 => Gmx \/ \E mode \in Modes : Changemode(mode)]_vars

\* The line that the index names is that of the script last asked for, so that
\* counting the index down and up again repeats it (SetNextScriptFile, gmx).
CurrentLine == Up => /\ asked \in Readable
                     /\ ~moved => gamemode[index].mode = asked

\* The inductive invariant of the rotation.
RotationInv == FileInv /\ CurrentLine

\* "it will attempt to rotate scripts as per configuration": a script comes up as many
\* times in a row as server.cfg says, then the next.
TurnsAsConfigured ==
    Up /\ index \in DOMAIN config => turns <= config[index].repeats
=============================================================================
