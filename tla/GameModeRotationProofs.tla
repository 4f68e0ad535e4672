----------------------- MODULE GameModeRotationProofs -----------------------
(***************************************************************************)
(* Proofs about GameModeRotation for every set of scripts, every server.cfg *)
(* and every bound.                                                        *)
(***************************************************************************)
EXTENDS GameModeRotation, TLAPS

\* The slot that GetNextScriptFile finds is one that is set; counting down and up
\* again comes back to the same one.
LEMMA NextSlotIsSet ==
    ASSUME TypeOK
    PROVE  /\ \A i \in Int : NextSlot(i) \in DOMAIN gamemode
           /\ NextSlot(index - 1) = index
           /\ index \in Int
           /\ RotateFrom \in Int
BY DEF TypeOK, Settings, Slots, NextSlot, RotateFrom

\* Reading a line with strtok keeps the settings well formed and each line's script.
LEMMA CutKeepsNames ==
    ASSUME TypeOK, NEW i \in Int, GetNextScriptFile(i), RotationAssumption
    PROVE  /\ {gamemode', config'} \subseteq Settings
           /\ index' \in DOMAIN gamemode'
           /\ index' = NextSlot(i)
           /\ gamemode'[index'].mode = gamemode[NextSlot(i)].mode
           /\ gamemode[NextSlot(i)].mode \in Modes
           /\ Cut(gamemode[NextSlot(i)]) \in Lines
<1> DEFINE n == NextSlot(i)
<1>1. n \in DOMAIN gamemode
  BY NextSlotIsSet
<1>2. PICK s \in SUBSET Slots : gamemode \in [s -> Lines]
  BY DEF TypeOK, Settings
<1>3. gamemode[n] \in Lines /\ DOMAIN gamemode = s
  BY <1>1, <1>2
<1>4. 0 \in 0 .. MaxRepeat
  BY DEF RotationAssumption
<1>5. /\ Cut(gamemode[n]) \in Lines
      /\ Cut(gamemode[n]).mode = gamemode[n].mode
      /\ gamemode[n].mode \in Modes
  BY <1>3, <1>4 DEF Cut, Lines
<1>6. gamemode' = [gamemode EXCEPT ![n] = Cut(gamemode[n])] /\ index' = n /\ config' = config
  BY DEF GetNextScriptFile
<1>7. gamemode' \in [s -> Lines] /\ gamemode'[n] = Cut(gamemode[n])
  BY <1>1, <1>2, <1>3, <1>5, <1>6
<1>8. 0 \in s /\ config \in Settings
  BY <1>3 DEF TypeOK, Settings
<1>9. gamemode' \in Settings
  BY <1>7, <1>8 DEF Settings
<1> QED
  BY <1>1, <1>3, <1>5, <1>6, <1>7, <1>8, <1>9

\* A line that the console sets keeps the settings well formed.
LEMMA SetKeepsSettings ==
    ASSUME TypeOK, RotationAssumption, NEW i \in Slots, NEW line \in NewLines,
           SetVariable(i, line)
    PROVE  gamemode' \in Settings /\ index' \in DOMAIN gamemode'
<1>1. PICK s \in SUBSET Slots : gamemode \in [s -> Lines]
  BY DEF TypeOK, Settings
<1>2. line \in Lines
  BY DEF RotationAssumption
<1>3. gamemode' \in [s \cup {i} -> Lines] /\ DOMAIN gamemode = s
  BY <1>1, <1>2 DEF SetVariable
<1>4. 0 \in s /\ index \in s /\ index' = index
  BY <1>3 DEF TypeOK, Settings, SetVariable, rotation
<1>5. s \cup {i} \in SUBSET Slots /\ DOMAIN gamemode' = s \cup {i}
  BY <1>3
<1>6. gamemode' \in Settings
  BY <1>3, <1>4, <1>5 DEF Settings
<1> QED
  BY <1>4, <1>5, <1>6

\* Accepting a script: the file that is set is there, and was asked for.
LEMMA AcceptSets ==
    ASSUME NEW mode, Accept(mode), RotationAssumption
    PROVE  /\ gameModeFile' = mode /\ asked' = mode /\ mode \in Readable /\ mode \in Modes
           /\ refused' = FALSE
           /\ FileInv'
BY DEF Accept, FileInv, RotationAssumption

-----------------------------------------------------------------------------
(* The two outcomes of SetNextScriptFile(NULL), shared by Start and GameModeExit *)

\* Counting the repeats down stays within the bound.
LEMMA CountDownBounds ==
    ASSUME TypeOK, RotationAssumption, NEW line \in Lines
    PROVE  CountDown(line) \in Int /\ CountDown(line) <= MaxRepeat
BY DEF TypeOK, RotationAssumption, Lines, CountDown

\* A rotation that finds a script: everything it sets has its type, and the index
\* stands for the script that was asked for.
LEMMA RotateFacts ==
    ASSUME TypeOK, RotationAssumption, Rotate
    PROVE  /\ {gamemode', config'} \subseteq Settings /\ index' \in DOMAIN gamemode'
           /\ repeat' \in -MaxRepeat .. MaxRepeat
           /\ firstLoaded' = TRUE /\ refused' = FALSE /\ moved' = FALSE
           /\ turns' \in 0 .. MaxTurns
           /\ asked' \in Readable /\ asked' \in Modes /\ gameModeFile' = asked'
           /\ gamemode'[index'].mode = asked'
           /\ FileInv'
<1> DEFINE mode == gamemode[NextSlot(RotateFrom)].mode
           line == Cut(gamemode[NextSlot(RotateFrom)])
<1>1. /\ GetNextScriptFile(RotateFrom) /\ Accept(mode)
      /\ repeat' = CountDown(line) /\ repeat' >= -MaxRepeat
      /\ firstLoaded' = TRUE /\ moved' = FALSE
      /\ turns' = CASE index' # index -> 1
                    [] finished \/ turns = MaxTurns -> turns
                    [] OTHER -> turns + 1
  BY DEF Rotate
<1>2. RotateFrom \in Int
  BY NextSlotIsSet
<1>3. /\ {gamemode', config'} \subseteq Settings /\ index' \in DOMAIN gamemode'
      /\ gamemode'[index'].mode = mode
      /\ line \in Lines
  BY <1>1, <1>2, CutKeepsNames
<1>4. /\ gameModeFile' = mode /\ asked' = mode /\ mode \in Readable /\ mode \in Modes
      /\ refused' = FALSE /\ FileInv'
  BY <1>1, AcceptSets
<1>5. CountDown(line) \in Int /\ CountDown(line) <= MaxRepeat
  BY <1>3, CountDownBounds
<1>6. repeat' \in -MaxRepeat .. MaxRepeat
  <2> HIDE DEF line
  <2> QED BY <1>1, <1>5 DEF RotationAssumption
<1>7. turns' \in 0 .. MaxTurns
  <2>1. turns \in 0 .. MaxTurns /\ MaxTurns \in Nat \ {0}
    BY DEF TypeOK, RotationAssumption
  <2>2. CASE index' # index
    BY <1>1, <2>1, <2>2
  <2>3. CASE index' = index
    BY <1>1, <2>1, <2>3
  <2> QED BY <2>2, <2>3
<1> QED
  <2> HIDE DEF mode
  <2> QED BY <1>1, <1>3, <1>4, <1>6, <1>7

\* A rotation that does not: the settings keep their type, and what was asked for stays.
LEMMA RotateRefusedFacts ==
    ASSUME TypeOK, RotationAssumption, RotateRefused
    PROVE  /\ {gamemode', config'} \subseteq Settings /\ index' \in DOMAIN gamemode'
           /\ gameModeFile' \in Modes /\ refused' = TRUE
           /\ UNCHANGED <<repeat, firstLoaded, asked, moved, turns>>
           /\ gamemode[NextSlot(RotateFrom)].mode \notin Readable
           /\ FileInv'
<1>1. /\ GetNextScriptFile(RotateFrom)
      /\ Refuse(gamemode[NextSlot(RotateFrom)].mode)
      /\ UNCHANGED <<moved, turns>>
  BY DEF RotateRefused
<1>2. RotateFrom \in Int
  BY NextSlotIsSet
<1>3. /\ {gamemode', config'} \subseteq Settings /\ index' \in DOMAIN gamemode'
      /\ gamemode[NextSlot(RotateFrom)].mode \in Modes
  BY <1>1, <1>2, CutKeepsNames
<1> QED
  BY <1>1, <1>3 DEF Refuse, FileInv

\* What Load leaves running is a script that is there, or nothing.
LEMMA LoadSets ==
    ASSUME NEW mode, Load(mode)
    PROVE  /\ gameState' = "running"
           /\ loaded' \in Readable \cup {NoMode}
           /\ loaded' = (IF mode \in Readable THEN mode ELSE NoMode)
BY DEF Load

-----------------------------------------------------------------------------
(* Types *)

LEMMA TypeStep ==
    ASSUME TypeOK, RotationAssumption, [Next]_vars
    PROVE  TypeOK'
<1> USE DEF TypeOK
<1>1. CASE Start
  <2>1. Rotate /\ Load(gameModeFile') /\ finished' = finished
    BY <1>1 DEF Start
  <2>2. gameState' = "running" /\ loaded' \in Readable \cup {NoMode}
    BY <2>1, LoadSets
  <2> QED BY <2>1, <2>2, RotateFacts
<1>2. CASE StartFails \/ GameModeExitFails
  <2>1. RotateRefused /\ gameState' = "exited" /\ UNCHANGED <<finished, loaded>>
    BY <1>2 DEF StartFails, GameModeExitFails
  <2> QED BY <2>1, RotateRefusedFacts
<1>3. CASE GameModeExit
  <2>1. Rotate /\ finished' = TRUE /\ UNCHANGED <<gameState, loaded>>
    BY <1>3 DEF GameModeExit
  <2> QED BY <2>1, RotateFacts
<1>4. CASE Gmx
  <2>1. /\ GetNextScriptFile(index) /\ Accept(gamemode[NextSlot(index)].mode)
        /\ repeat' = 0 /\ finished' = TRUE /\ moved' = FALSE /\ turns' = 0
        /\ UNCHANGED <<gameState, firstLoaded, loaded>>
    BY <1>4 DEF Gmx
  <2>2. index \in Int
    BY NextSlotIsSet
  <2>3. {gamemode', config'} \subseteq Settings /\ index' \in DOMAIN gamemode'
    BY <2>1, <2>2, CutKeepsNames
  <2>4. {gameModeFile', asked'} \subseteq Readable /\ Readable \subseteq Modes /\ refused' = FALSE
    BY <2>1, AcceptSets DEF RotationAssumption
  <2>5. 0 \in -MaxRepeat .. MaxRepeat /\ 0 \in 0 .. MaxTurns
    BY DEF RotationAssumption
  <2> QED BY <2>1, <2>3, <2>4, <2>5
<1>5. CASE GmxRefused
  <2>1. /\ GetNextScriptFile(index) /\ Refuse(gamemode[NextSlot(index)].mode)
        /\ moved' = TRUE /\ turns' = 0
        /\ UNCHANGED <<gameState, finished, loaded>>
    BY <1>5 DEF GmxRefused
  <2>2. index \in Int
    BY NextSlotIsSet
  <2>3. /\ {gamemode', config'} \subseteq Settings /\ index' \in DOMAIN gamemode'
        /\ gamemode[NextSlot(index)].mode \in Modes
    BY <2>1, <2>2, CutKeepsNames
  <2>4. gameModeFile' \in Modes /\ refused' = TRUE /\ UNCHANGED <<repeat, firstLoaded, asked>>
    BY <2>1, <2>3 DEF Refuse
  <2>5. 0 \in 0 .. MaxTurns
    BY DEF RotationAssumption
  <2> QED BY <2>1, <2>3, <2>4, <2>5
<1>6. ASSUME NEW mode \in Modes, Changemode(mode)
      PROVE  TypeOK'
  <2>1. {gameModeFile', asked'} \subseteq Readable /\ refused' = FALSE
    BY <1>6, AcceptSets DEF Changemode
  <2>2. 0 \in -MaxRepeat .. MaxRepeat /\ 0 \in 0 .. MaxTurns /\ Readable \subseteq Modes
    BY DEF RotationAssumption
  <2> QED BY <1>6, <2>1, <2>2 DEF Changemode
<1>7. ASSUME NEW mode \in Modes, ChangemodeRefused(mode)
      PROVE  TypeOK'
  <2>1. gameModeFile' = mode /\ refused' = TRUE /\ UNCHANGED <<repeat, firstLoaded, asked>>
    BY <1>7 DEF ChangemodeRefused, Refuse
  <2> QED BY <1>7, <2>1 DEF ChangemodeRefused
<1>8. ASSUME NEW i \in Slots, NEW line \in NewLines, SetVariable(i, line)
      PROVE  TypeOK'
  <2>1. gamemode' \in Settings /\ index' \in DOMAIN gamemode'
    BY <1>8, SetKeepsSettings
  <2>2. 0 \in 0 .. MaxTurns
    BY DEF RotationAssumption
  <2> QED BY <1>8, <2>1, <2>2 DEF SetVariable, rotation
<1>9. CASE ShutdownForGameModeRestart \/ CallOfNoModeCrashes
  BY <1>9 DEF ShutdownForGameModeRestart, CallOfNoModeCrashes, rotation, history
<1>10. CASE ReInitWhenRestarting
  <2>1. gameState' = "running" /\ loaded' \in Readable \cup {NoMode}
    BY <1>10, LoadSets DEF ReInitWhenRestarting
  <2> QED BY <1>10, <2>1 DEF ReInitWhenRestarting, rotation, history
<1>11. CASE UNCHANGED vars
  BY <1>11 DEF vars, rotation, history
<1> QED
  BY <1>1, <1>2, <1>3, <1>4, <1>5, <1>6, <1>7, <1>8, <1>9, <1>10, <1>11 DEF Next

\* Every variable keeps its type, and the index stays that of a variable that is set,
\* however gmx, changemode and GameModeExit step it (CNetGame::GetNextScriptFile).
THEOREM RotationTypesAlways == RotationAssumption => (Spec => []TypeOK)
<1>1. RotationAssumption /\ Init => TypeOK
  <2> SUFFICES ASSUME RotationAssumption, Init PROVE TypeOK
    OBVIOUS
  <2>1. gamemode \in Settings /\ config = gamemode /\ 0 \in DOMAIN gamemode
    BY DEF Init, RotationAssumption, Settings
  <2>2. 0 \in -MaxRepeat .. MaxRepeat /\ 0 \in 0 .. MaxTurns
    BY DEF RotationAssumption
  <2> QED BY <2>1, <2>2 DEF Init, TypeOK
<1>2. RotationAssumption /\ TypeOK /\ [Next]_vars => TypeOK'
  BY TypeStep
<1> QED
  BY <1>1, <1>2, RotationAssumption, PTL DEF Spec

-----------------------------------------------------------------------------
(* What is loaded, and what the index stands for *)

LEMMA RotationInvStep ==
    ASSUME TypeOK, RotationAssumption, RotationInv, [Next]_vars
    PROVE  RotationInv'
<1> USE DEF RotationInv
<1>1. CASE Start \/ GameModeExit
  <2>1. Rotate
    BY <1>1 DEF Start, GameModeExit
  <2> QED BY <2>1, RotateFacts DEF CurrentLine
<1>2. CASE StartFails \/ GameModeExitFails
  <2>1. RotateRefused /\ gameState' = "exited"
    BY <1>2 DEF StartFails, GameModeExitFails
  <2> QED BY <2>1, RotateRefusedFacts DEF CurrentLine, Up
<1>3. CASE Gmx
  <2>1. GetNextScriptFile(index) /\ Accept(gamemode[NextSlot(index)].mode) /\ moved' = FALSE
    BY <1>3 DEF Gmx
  <2>2. index \in Int
    BY NextSlotIsSet
  <2>3. gamemode'[index'].mode = gamemode[NextSlot(index)].mode
    BY <2>1, <2>2, CutKeepsNames
  <2>4. /\ asked' = gamemode[NextSlot(index)].mode /\ asked' \in Readable
        /\ FileInv'
    BY <2>1 DEF Accept, FileInv
  <2> QED BY <2>3, <2>4 DEF CurrentLine
<1>4. CASE GmxRefused
  <2>1. Refuse(gamemode[NextSlot(index)].mode) /\ moved' = TRUE /\ gameState' = gameState
    BY <1>4 DEF GmxRefused
  <2> QED BY <2>1 DEF CurrentLine, Up, Refuse, FileInv
<1>5. ASSUME NEW mode \in Modes, Changemode(mode)
      PROVE  RotationInv'
  BY <1>5 DEF Changemode, Accept, FileInv, CurrentLine, Up
<1>6. ASSUME NEW mode \in Modes, ChangemodeRefused(mode)
      PROVE  RotationInv'
  BY <1>6 DEF ChangemodeRefused, Refuse, FileInv, CurrentLine, Up
<1>7. ASSUME NEW i \in Slots, NEW line \in NewLines, SetVariable(i, line)
      PROVE  RotationInv'
  BY <1>7 DEF SetVariable, rotation, FileInv, CurrentLine, Up
<1>8. CASE ShutdownForGameModeRestart \/ CallOfNoModeCrashes \/ ReInitWhenRestarting \/ UNCHANGED vars
  <2>1. /\ UNCHANGED <<gamemode, rotation, history>>
        /\ gameState' = gameState \/ Up \/ gameState' = "exited"
    BY <1>8 DEF ShutdownForGameModeRestart, CallOfNoModeCrashes, ReInitWhenRestarting, vars, Up
  <2>2. UNCHANGED <<gamemode, index, gameModeFile, asked, refused, moved>>
    BY <2>1 DEF rotation, history
  <2> QED BY <2>1, <2>2 DEF FileInv, CurrentLine, Up
<1> QED
  BY <1>1, <1>2, <1>3, <1>4, <1>5, <1>6, <1>7, <1>8 DEF Next

\* What Init will load is what was last asked for or is not there; and the index stands
\* for it unless the console has moved it (SetNextScriptFile, con_gmx, con_changemode).
THEOREM RotationAlways == Spec => []RotationInv
<1>1. Init => RotationInv
  BY DEF Init, RotationInv, FileInv, CurrentLine, Up
<1>2. TypeOK /\ RotationAssumption /\ RotationInv /\ [Next]_vars => RotationInv'
  BY RotationInvStep
<1>3. Spec => []TypeOK
  BY RotationTypesAlways, RotationAssumption
<1> QED
  BY <1>1, <1>2, <1>3, RotationAssumption, PTL DEF Spec

\* The game goes without a game mode only after a refused request, or when the script
\* that was asked for is the one that did not load.
LEMMA ModeMissingStep ==
    ASSUME TypeOK, RotationAssumption, RotationInv, ModeMissingForAReason, [Next]_vars
    PROVE  ModeMissingForAReason'
<1> USE DEF ModeMissingForAReason, Initialised
<1>1. CASE Start
  <2>1. /\ gameModeFile' = asked' /\ asked' \in Readable
        /\ Load(gameModeFile')
    BY <1>1, RotateFacts DEF Start
  <2>2. loaded' = asked'
    BY <2>1, LoadSets
  <2> QED BY <2>2
<1>2. CASE StartFails \/ GameModeExitFails
  BY <1>2 DEF StartFails, GameModeExitFails
<1>3. CASE GameModeExit \/ Gmx
  BY <1>3 DEF GameModeExit, Gmx
<1>4. CASE GmxRefused
  BY <1>4 DEF GmxRefused, Refuse
<1>5. ASSUME NEW mode \in Modes, Changemode(mode) \/ ChangemodeRefused(mode)
      PROVE  ModeMissingForAReason'
  BY <1>5 DEF Changemode, ChangemodeRefused, Refuse
<1>6. ASSUME NEW i \in Slots, NEW line \in NewLines, SetVariable(i, line)
      PROVE  ModeMissingForAReason'
  BY <1>6 DEF SetVariable
<1>7. CASE ShutdownForGameModeRestart \/ CallOfNoModeCrashes
  BY <1>7 DEF ShutdownForGameModeRestart, CallOfNoModeCrashes
<1>8. CASE ReInitWhenRestarting
  <2>1. Up /\ Load(gameModeFile) /\ UNCHANGED <<refused, asked>>
    BY <1>8 DEF ReInitWhenRestarting, Up, history
  <2>2. ~refused => gameModeFile = asked /\ asked \in Readable
    BY <2>1 DEF RotationInv, FileInv, CurrentLine
  <2>3. ~refused => loaded' = asked
    BY <2>1, <2>2, LoadSets
  <2> QED BY <2>1, <2>3
<1>9. CASE UNCHANGED vars
  BY <1>9 DEF vars, history
<1> QED
  BY <1>1, <1>2, <1>3, <1>4, <1>5, <1>6, <1>7, <1>8, <1>9 DEF Next

\* The game goes without a game mode only if a request was refused during the restart or
\* the file that was asked for is no program (CGameMode::Load is given what
\* SetNextScriptFile left in szGameModeFile, and may fail at either of its two tests).
THEOREM ModeAlwaysMissingForAReason == Spec => []ModeMissingForAReason
<1>1. Init => ModeMissingForAReason
  BY DEF Init, ModeMissingForAReason
<1>2. TypeOK /\ RotationAssumption /\ RotationInv /\ ModeMissingForAReason /\ [Next]_vars
        => ModeMissingForAReason'
  BY ModeMissingStep
<1>3. Spec => []TypeOK
  BY RotationTypesAlways, RotationAssumption
<1> QED
  BY <1>1, <1>2, <1>3, RotationAlways, RotationAssumption, PTL DEF Spec

-----------------------------------------------------------------------------
(* Steps *)

LEMMA LoadsAcceptedStep ==
    ASSUME TypeOK, RotationAssumption, RotationInv, [Next]_vars,
           loaded' # loaded, loaded' # NoMode
    PROVE  loaded' = asked'
<1>1. Start \/ ReInitWhenRestarting
  BY DEF Next, StartFails, GameModeExit, GameModeExitFails, Gmx, GmxRefused, Changemode,
         ChangemodeRefused, SetVariable, ShutdownForGameModeRestart, CallOfNoModeCrashes,
         vars
<1>2. CASE Start
  <2>1. gameModeFile' = asked' /\ Load(gameModeFile')
    BY <1>2, RotateFacts DEF Start
  <2> QED BY <2>1, LoadSets
<1>3. CASE ReInitWhenRestarting
  <2>1. Load(gameModeFile) /\ asked' = asked
    BY <1>3 DEF ReInitWhenRestarting, history
  <2>2. gameModeFile \in Readable /\ loaded' = gameModeFile
    BY <2>1, LoadSets
  <2>3. ~refused /\ gameModeFile = asked
    BY <2>2 DEF RotationInv, FileInv, TypeOK
  <2> QED BY <2>1, <2>2, <2>3
<1> QED BY <1>1, <1>2, <1>3

\* A script that starts is the one that the last accepted request asked for
\* (CNetGame::Init, CGameMode::Load).
THEOREM AlwaysLoadsWhatWasAccepted == Spec => LoadsWhatWasAccepted
<1>1. TypeOK /\ RotationAssumption /\ RotationInv /\ [Next]_vars
        => [loaded' # loaded /\ loaded' # NoMode => loaded' = asked']_vars
  BY LoadsAcceptedStep
<1>2. Spec => []TypeOK
  BY RotationTypesAlways, RotationAssumption
<1> QED
  BY <1>1, <1>2, RotationAlways, RotationAssumption, PTL DEF Spec, LoadsWhatWasAccepted

LEMMA RepeatStep ==
    ASSUME TypeOK, RotationAssumption, RotationInv,
           GameModeExit \/ GameModeExitFails, repeat # 0, ~moved
    PROVE  asked' = asked /\ gameState' # "exited"
<1>1. Up
  BY DEF GameModeExit, GameModeExitFails
<1>2. gamemode[index].mode = asked /\ asked \in Readable
  BY <1>1 DEF RotationInv, CurrentLine
<1>3. NextSlot(RotateFrom) = index
  BY NextSlotIsSet DEF RotateFrom
<1>4. ~GameModeExitFails
  <2>1. RotateRefused => gamemode[NextSlot(RotateFrom)].mode \notin Readable
    BY DEF RotateRefused, Refuse
  <2> QED BY <1>2, <1>3, <2>1 DEF GameModeExitFails
<1>5. Rotate /\ gameState' = gameState
  BY <1>4 DEF GameModeExit
<1>6. asked' = gamemode[NextSlot(RotateFrom)].mode
  BY <1>5 DEF Rotate, Accept
<1> QED
  BY <1>1, <1>2, <1>3, <1>5, <1>6 DEF Up

\* GameModeExit with repeats left sets the same script again and cannot end the server
\* (SetNextScriptFile counts the index down, GetNextScriptFile up again).
THEOREM AlwaysRepeatsCurrent == Spec => RepeatsCurrent
<1>1. TypeOK /\ RotationAssumption /\ RotationInv /\ [Next]_vars
        => [(GameModeExit \/ GameModeExitFails) /\ repeat # 0 /\ ~moved
              => asked' = asked /\ gameState' # "exited"]_vars
  BY RepeatStep
<1>2. Spec => []TypeOK
  BY RotationTypesAlways, RotationAssumption
<1> QED
  BY <1>1, <1>2, RotationAlways, RotationAssumption, PTL DEF Spec, RepeatsCurrent

-----------------------------------------------------------------------------
(* The repeat counts of server.cfg *)

\* GetNextScriptFile has cut the count off before it is read, so the repeat count
\* goes from 0 to -1 and on down.
LEMMA RotateCountsBelow ==
    ASSUME TypeOK, RotationAssumption, repeat <= 0, Rotate
    PROVE  /\ repeat' \in Int /\ repeat' < 0
           /\ GameModeExit /\ repeat # 0 => index' = index
<1>1. NextSlot(RotateFrom) \in DOMAIN gamemode
  BY NextSlotIsSet
<1>2. gamemode[NextSlot(RotateFrom)] \in Lines
  BY <1>1 DEF TypeOK, Settings
<1>3. Cut(gamemode[NextSlot(RotateFrom)]).repeats = 0
  BY <1>2 DEF Cut, Lines
<1>4. repeat \in Int
  BY DEF TypeOK, RotationAssumption
<1>5. repeat' \in Int /\ repeat' < 0
  BY <1>3, <1>4 DEF Rotate, CountDown
<1>6. repeat # 0 => index' = index
  BY NextSlotIsSet DEF Rotate, GetNextScriptFile, RotateFrom
<1> QED
  BY <1>5, <1>6

LEMMA CountsStep ==
    ASSUME TypeOK, RotationAssumption, repeat <= 0, Next
    PROVE  /\ repeat' <= 0
           /\ Start \/ GameModeExit => repeat' < 0
           /\ GameModeExit /\ repeat # 0 => index' = index
           /\ repeat # 0 /\ repeat' = 0 => Gmx \/ \E mode \in Modes : Changemode(mode)
<1>1. Start \/ GameModeExit => Rotate
  BY DEF Start, GameModeExit
<1>2. \/ Start \/ GameModeExit
      \/ Gmx \/ \E mode \in Modes : Changemode(mode)
      \/ repeat' = repeat
  BY DEF Next, StartFails, GameModeExitFails, GmxRefused, ChangemodeRefused, SetVariable,
         RotateRefused, Refuse, ShutdownForGameModeRestart, CallOfNoModeCrashes,
         ReInitWhenRestarting, rotation
<1>3. Rotate => repeat' \in Int /\ repeat' < 0 /\ (GameModeExit /\ repeat # 0 => index' = index)
  BY RotateCountsBelow
<1>4. Gmx \/ (\E mode \in Modes : Changemode(mode)) => repeat' = 0
  BY DEF Gmx, Changemode
<1>5. repeat \in Int
  BY DEF TypeOK, RotationAssumption
<1>6. CASE Rotate
  BY <1>1, <1>3, <1>6
<1>7. CASE ~Rotate
  BY <1>1, <1>2, <1>4, <1>5, <1>7
<1> QED
  BY <1>6, <1>7

\* For every server.cfg the repeat counts come to nothing: from the first script on,
\* GameModeExit keeps to one script, and only the console moves the rotation on.
THEOREM ConfigNeverCounts == Spec => CountsNothing
<1>1. Init => repeat <= 0
  BY DEF Init
<1>2. TypeOK /\ RotationAssumption /\ repeat <= 0 /\ [Next]_vars => (repeat <= 0)'
  <2>1. CASE Next
    BY <2>1, CountsStep
  <2>2. CASE UNCHANGED vars
    BY <2>2 DEF vars, rotation
  <2> QED BY <2>1, <2>2
<1>3. TypeOK /\ RotationAssumption /\ repeat <= 0 /\ [Next]_vars
        => [/\ Start \/ GameModeExit => repeat' < 0
            /\ GameModeExit /\ repeat # 0 => index' = index
            /\ repeat # 0 /\ repeat' = 0 =>
                  Gmx \/ \E mode \in Modes : Changemode(mode)]_vars
  BY CountsStep
<1>4. Spec => []TypeOK
  BY RotationTypesAlways, RotationAssumption
<1> QED
  BY <1>1, <1>2, <1>3, <1>4, RotationAssumption, PTL DEF Spec, CountsNothing
=============================================================================
