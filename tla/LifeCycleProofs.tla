--------------------------- MODULE LifeCycleProofs ----------------------------
(***************************************************************************)
(* Theorems about PythonApplicationManager, for every set of external      *)
(* applications, and about InputControllers, for every set of applications *)
(* and any number of controllers.                                          *)
(***************************************************************************)
EXTENDS InputControllers, TLAPS

-----------------------------------------------------------------------------
(***************************************************************************)
(* The life cycle of applications.                                         *)
(***************************************************************************)

\* Init and every step keep the types.
THEOREM TypeCorrect == Spec => []TypeOK
<1> USE ManagerAssumption DEF Phases, InLoop, Steps, States, Screens, InManager
<1>1. Init => TypeOK
  BY DEF Init, TypeOK, Applications
<1>2. TypeOK /\ [Next]_vars => TypeOK'
  <2> SUFFICES ASSUME TypeOK, [Next]_vars
               PROVE  TypeOK'
    OBVIOUS
  <2> USE DEF TypeOK
  <2>1. CASE ClearScreen
    BY <2>1 DEF ClearScreen, StopInterpreter, Goes
  <2>2. CASE ClearDownloads
    BY <2>2 DEF ClearDownloads, managerVars, Goes
  <2>3. CASE CreateContext
    BY <2>3 DEF CreateContext, Goes
  <2>4. CASE CreateInterpreter
    BY <2>4 DEF CreateInterpreter, Goes
  <2>5. CASE StartupSucceeds
    BY <2>5 DEF StartupSucceeds, Return, Goes
  <2>6. CASE StartupFails
    BY <2>6 DEF StartupFails, StopInterpreter, Goes
  <2>7. CASE EmergencyAfterStart
    BY <2>7 DEF EmergencyAfterStart, ShowEmergencyScreen, StopInterpreter, Return, Goes
  <2>8. CASE CheckRenderThread
    BY <2>8 DEF CheckRenderThread, StopInterpreter, managerVars
  <2>9. CASE NoActivation \/ CallbacksEnd
    BY <2>9 DEF NoActivation, CallbacksEnd, managerVars
  <2>10. CASE CallbackFails
    BY <2>10 DEF CallbackFails, ShowEmergencyScreen, StopInterpreter
  <2>11. ASSUME NEW a \in ExternalApplications, Activate(a)
         PROVE  TypeOK'
    BY <2>11 DEF Activate, managerVars, Goes, Applications
  <2>12. CASE ApplicationWorks
    BY <2>12 DEF ApplicationWorks, managerVars
  <2>13. CASE RenderThreadFails \/ Exit
    BY <2>13 DEF RenderThreadFails, Exit, StopInterpreter, managerVars
  <2>14. CASE UNCHANGED vars
    BY <2>14 DEF vars, managerVars
  <2>15. QED
    BY <2>1, <2>2, <2>3, <2>4, <2>5, <2>6, <2>7, <2>8, <2>9, <2>10, <2>11, <2>12, <2>13, <2>14
       DEF Next, Start, MainLoop
<1>3. QED
  BY <1>1, <1>2, PTL DEF Spec

-----------------------------------------------------------------------------
(***************************************************************************)
(* The inductive invariant: what each step of a start finds.               *)
(***************************************************************************)

\* No interpreter and no context exist.
NothingRuns == interpreter = NoApplication /\ context = NoApplication /\ ~kept

\* An interpreter exists with its context and belongs to the manager, or nothing runs.
RunsWhole == NothingRuns \/ (interpreter # NoApplication /\ context = interpreter /\ kept)

\* What the main loop leaves to a start, and what the steps of the start have achieved.
StartProgress ==
  /\ process \in InLoop \/ step = "clearScreen" => RunsWhole
  /\ step \in {"clearDownloads", "createContext", "emergency"} => NothingRuns
  /\ step = "createInterpreter" => interpreter = NoApplication /\ context = starting /\ ~kept
  /\ step = "execute" => interpreter = starting /\ context = starting /\ ~kept

\* Before an interpreter exists, the screen and the downloads are emptied for it.
StartIsPrepared ==
  /\ step \in {"clearDownloads", "createContext", "createInterpreter"} => screen = Blank
  /\ step \in {"createContext", "createInterpreter"} => downloads = NoApplication

\* Nothing has shown the emergency screen while the process starts.
StartupIsDark == process = "startup" => screen # Emergency

\* When main() has ended nothing runs any more.
EndsWhole == process \in {"exited", "failed"} => NothingRuns

IInv ==
  /\ StartProgress
  /\ StartIsPrepared
  /\ StartupIsDark
  /\ EndsWhole
  /\ StateIsTrue
  /\ ApplicationStartsClean

\* Every step keeps the inductive invariant.
LEMMA StepKeepsIInv == TypeOK /\ IInv /\ [Next]_vars => IInv'
<1> SUFFICES ASSUME TypeOK, IInv, [Next]_vars
             PROVE  IInv'
  OBVIOUS
<1> USE ManagerAssumption
    DEF IInv, StartProgress, StartIsPrepared, StartupIsDark, EndsWhole, StateIsTrue,
        ApplicationStartsClean, NothingRuns, RunsWhole, InLoop, InManager, TypeOK, Applications
<1>1. CASE ClearScreen
  BY <1>1 DEF ClearScreen, StopInterpreter, Goes, Blank, Emergency
<1>2. CASE ClearDownloads
  BY <1>2 DEF ClearDownloads, managerVars, Goes
<1>3. CASE CreateContext
  BY <1>3 DEF CreateContext, Goes
<1>4. CASE CreateInterpreter
  BY <1>4 DEF CreateInterpreter, Goes
<1>5. CASE StartupSucceeds
  BY <1>5 DEF StartupSucceeds, Return, Goes
<1>6. CASE StartupFails
  BY <1>6 DEF StartupFails, StopInterpreter, Goes
<1>7. CASE EmergencyAfterStart
  BY <1>7 DEF EmergencyAfterStart, ShowEmergencyScreen, StopInterpreter, Return, Goes
<1>8. CASE CheckRenderThread
  BY <1>8 DEF CheckRenderThread, StopInterpreter, managerVars
<1>9. CASE NoActivation \/ CallbacksEnd
  BY <1>9 DEF NoActivation, CallbacksEnd, managerVars
<1>10. CASE CallbackFails
  BY <1>10 DEF CallbackFails, ShowEmergencyScreen, StopInterpreter
<1>11. ASSUME NEW a \in ExternalApplications, Activate(a)
       PROVE  IInv'
  BY <1>11 DEF Activate, managerVars, Goes
<1>12. CASE ApplicationWorks
  BY <1>12 DEF ApplicationWorks, managerVars
<1>13. CASE RenderThreadFails \/ Exit
  BY <1>13 DEF RenderThreadFails, Exit, StopInterpreter, managerVars
<1>14. CASE UNCHANGED vars
  BY <1>14 DEF vars, managerVars
<1>15. QED
  BY <1>1, <1>2, <1>3, <1>4, <1>5, <1>6, <1>7, <1>8, <1>9, <1>10, <1>11, <1>12, <1>13, <1>14
     DEF Next, Start, MainLoop

\* The inductive invariant holds in every reachable state.
LEMMA InductiveInvariant == Spec => []IInv
<1>1. Init => IInv
  BY ManagerAssumption
     DEF Init, IInv, StartProgress, StartIsPrepared, StartupIsDark, EndsWhole, StateIsTrue,
         ApplicationStartsClean, NothingRuns, RunsWhole, InLoop, Blank, Emergency
<1>2. QED
  BY <1>1, StepKeepsIInv, TypeCorrect, PTL DEF Spec

\* Whichever steps failed before, nothing of an earlier application is left when a
\* context and an interpreter are created.
THEOREM PreviousIsGone == Spec => []PreviousApplicationIsGone
<1>1. IInv => PreviousApplicationIsGone
  BY DEF IInv, StartProgress, NothingRuns, PreviousApplicationIsGone
<1>2. QED
  BY <1>1, InductiveInvariant, PTL

\* In the main loop m_state names what runs and what is shown.
THEOREM StateNamesTheTruth == Spec => []StateIsTrue
<1>1. IInv => StateIsTrue
  BY DEF IInv
<1>2. QED
  BY <1>1, InductiveInvariant, PTL

\* An interpreter finds only its own widgets and files.
THEOREM ApplicationsAreSeparated == Spec => []ApplicationStartsClean
<1>1. IInv => ApplicationStartsClean
  BY DEF IInv
<1>2. QED
  BY <1>1, InductiveInvariant, PTL

\* The emergency screen is replaced only by the activation of a deployment.
THEOREM EmergencyScreenIsKept == Spec => EmergencyScreenStays
<1>1. TypeOK /\ IInv /\ [Next]_vars => [KeepsEmergencyScreen]_vars
  <2> SUFFICES ASSUME TypeOK, IInv, Next, screen = Emergency, screen' # Emergency
               PROVE  process = "activating"
    BY DEF KeepsEmergencyScreen
  <2>1. CASE ClearScreen
    BY <2>1 DEF ClearScreen, InManager, IInv, StartupIsDark
  <2>2. CASE ApplicationWorks
    <3>1. screen \in {Blank, interpreter} /\ interpreter \in Applications
      BY <2>2 DEF ApplicationWorks, IInv, ApplicationStartsClean, TypeOK
    <3>2. QED
      BY <3>1, ManagerAssumption DEF Blank, Emergency
  <2>3. CASE EmergencyAfterStart \/ CallbackFails
    BY <2>3 DEF EmergencyAfterStart, CallbackFails, ShowEmergencyScreen
  <2>4. QED
    BY <2>1, <2>2, <2>3 DEF Next, Start, MainLoop, ClearDownloads, CreateContext, CreateInterpreter,
       StartupSucceeds, StartupFails, CheckRenderThread, NoActivation, CallbacksEnd, Activate,
       RenderThreadFails, Exit
<1>2. QED
  BY <1>1, TypeCorrect, InductiveInvariant, PTL DEF Spec, EmergencyScreenStays

-----------------------------------------------------------------------------
(***************************************************************************)
(* The controllers they use.                                               *)
(***************************************************************************)

\* Whatever applications do with controllers, the life cycle is the one of
\* PythonApplicationManager: all that is proved about it holds here too.
THEOREM ControllersKeepLifeCycle == InputSpec => Spec
<1>1. InputInit => Init
  BY DEF InputInit
<1>2. [InputNext]_allVars => [Next]_vars
  <2> SUFFICES ASSUME [InputNext]_allVars
               PROVE  [Next]_vars
    OBVIOUS
  <2>1. CASE WithControllers(Next)
    BY <2>1 DEF WithControllers
  <2>2. ASSUME NEW c \in Controllers, UseController(c)
        PROVE  UNCHANGED vars
    BY <2>2 DEF UseController, PythonCalls, MakeGamepad, MakeKeys, Close, ConnectGamepad,
                RefreshGamepad, CalibrateJoystick, ConnectKeys, RefreshKeys
  <2>3. CASE StatusDisplayGoes
    BY <2>3 DEF StatusDisplayGoes
  <2>4. CASE UNCHANGED allVars
    BY <2>4 DEF allVars
  <2>5. QED
    BY <2>1, <2>2, <2>3, <2>4 DEF InputNext
<1>3. QED
  BY <1>1, <1>2, PTL DEF InputSpec, Spec

\* What the steps of controllers need to know about the life cycle.
LifeCycleInv == TypeOK /\ IInv

LEMMA LifeCycle == InputSpec => []LifeCycleInv
<1>1. TypeOK /\ IInv => LifeCycleInv
  BY DEF LifeCycleInv
<1>2. QED
  BY <1>1, ControllersKeepLifeCycle, TypeCorrect, InductiveInvariant, PTL

-----------------------------------------------------------------------------
(***************************************************************************)
(* How a step of the manager looks from here: it ends an interpreter,      *)
(* creates one where there was none, or keeps it.                          *)
(***************************************************************************)

LEMMA ManagerStepCases ==
  ASSUME LifeCycleInv, Next
  PROVE  \/ interpreter # NoApplication /\ interpreter' = NoApplication
         \/ interpreter = NoApplication
         \/ interpreter' = interpreter
<1> USE DEF LifeCycleInv, TypeOK, IInv, StartProgress
<1>1. CASE CreateInterpreter
  BY <1>1 DEF CreateInterpreter
<1>2. CASE ClearScreen \/ StartupFails
  BY <1>2 DEF ClearScreen, StartupFails, StopInterpreter
<1>3. CASE EmergencyAfterStart \/ CallbackFails
  BY <1>3 DEF EmergencyAfterStart, CallbackFails, ShowEmergencyScreen, StopInterpreter
<1>4. CASE CheckRenderThread \/ Exit
  BY <1>4 DEF CheckRenderThread, Exit, StopInterpreter, managerVars
<1>5. CASE ClearDownloads \/ CreateContext \/ StartupSucceeds \/ NoActivation \/ CallbacksEnd
             \/ ApplicationWorks \/ RenderThreadFails
  BY <1>5 DEF ClearDownloads, CreateContext, StartupSucceeds, NoActivation, CallbacksEnd,
              ApplicationWorks, RenderThreadFails, managerVars
<1>6. ASSUME NEW a \in ExternalApplications, Activate(a)
      PROVE  interpreter' = interpreter
  BY <1>6 DEF Activate, managerVars
<1>7. QED
  BY <1>1, <1>2, <1>3, <1>4, <1>5, <1>6 DEF Next, Start, MainLoop

\* A call of Python happens in an application.
LEMMA CallsHaveAnApplication ==
  ASSUME LifeCycleInv, PythonCalls
  PROVE  /\ interpreter \in Applications
         /\ interpreter # Nobody /\ interpreter # Abandoned
         /\ interpreter' = interpreter
BY InputAssumption DEF LifeCycleInv, TypeOK, PythonCalls, vars, managerVars

-----------------------------------------------------------------------------
(***************************************************************************)
(* The inductive invariant: types and claims together.                     *)
(***************************************************************************)

InputIInv == InputTypeOK /\ ClaimsMatchControllers /\ ConnectedControllerIsReady

\* Destroying controllers and status display releases exactly what they held.
LEMMA DestroyKeepsIInv ==
  ASSUME InputIInv, NEW gone \in SUBSET (Controllers \cup {StatusDisplay}), Destroy(gone),
         \A c \in Controllers : c \in gone \/ owner[c] \in {interpreter', Abandoned, Nobody}
  PROVE  InputIInv'
<1> USE InputAssumption DEF InputIInv, Destroy, boardVars, Exists
<1>1. InputTypeOK'
  BY DEF InputTypeOK, NoBoard, Gamepad, Keys, ButtonReadings
<1>2. ClaimsMatchControllers'
  <2> USE DEF ClaimsMatchControllers, InputTypeOK, NoBoard, Gamepad, Keys
  <2>1. (hatUsers \ {StatusDisplay} = {c \in Controllers : board[c] = Keys})'
    OBVIOUS
  <2>2. (outputLines <=> hatUsers # {})'
    OBVIOUS
  <2>3. (\A c \in Controllers : inputLines = c <=> board[c] = Keys /\ connected[c])'
    OBVIOUS
  <2>4. (openDevices = {c \in Controllers : board[c] = Gamepad}
                         \cup (IF hatUsers = {} THEN {} ELSE {Hat}))'
    <3>1. CASE hatUsers' = {}
      BY <3>1
    <3>2. CASE hatUsers' # {}
      <4>1. hatUsers # {} /\ Hat \notin gone
        BY <3>2
      <4>2. openDevices' = openDevices \ gone
        BY <3>2
      <4>3. {c \in Controllers : board'[c] = Gamepad} = {c \in Controllers : board[c] = Gamepad} \ gone
        OBVIOUS
      <4>4. QED
        BY <3>2, <4>1, <4>2, <4>3
    <3>3. QED
      BY <3>1, <3>2
  <2>5. QED
    BY <2>1, <2>2, <2>3, <2>4
<1>3. ConnectedControllerIsReady'
  BY DEF ConnectedControllerIsReady, InputTypeOK, NoBoard, Gamepad, Keys
<1>4. QED
  BY <1>1, <1>2, <1>3

\* So does the end of an interpreter, if it does not abandon them with what they hold.
LEMMA InterpreterEndsKeepsIInv ==
  ASSUME LifeCycleInv, InputIInv, interpreter # NoApplication, interpreter' = NoApplication,
         InterpreterEnds
  PROVE  InputIInv'
<1>1. CASE Destroy(OwnControllers)
  <2>1. OwnControllers \in SUBSET (Controllers \cup {StatusDisplay})
    BY DEF OwnControllers
  <2>2. \A c \in Controllers : c \in OwnControllers \/ owner[c] \in {interpreter', Abandoned, Nobody}
    BY DEF OwnControllers, Usable, Exists, InputIInv, InputTypeOK
  <2>3. QED
    BY <1>1, <2>1, <2>2, DestroyKeepsIInv
<1>2. CASE /\ owner' = [c \in Controllers |-> IF c \in OwnControllers THEN Abandoned ELSE owner[c]]
           /\ UNCHANGED <<board, connected, buttons, joystick, claimVars, boardVars>>
  <2> USE <1>2, InputAssumption DEF InputIInv, claimVars, boardVars, Exists
  <2>1. InputTypeOK'
    BY DEF InputTypeOK, OwnControllers, Usable
  <2>2. ClaimsMatchControllers' /\ ConnectedControllerIsReady'
    BY DEF ClaimsMatchControllers, ConnectedControllerIsReady
  <2>3. QED
    BY <2>1, <2>2
<1>3. QED
  BY <1>1, <1>2 DEF InterpreterEnds

\* A step of the life cycle keeps the invariant.
LEMMA ManagerStepKeepsIInv ==
  ASSUME LifeCycleInv, InputIInv, WithControllers(Next)
  PROVE  InputIInv'
<1>1. CASE interpreter # NoApplication /\ interpreter' = NoApplication
  BY <1>1, InterpreterEndsKeepsIInv DEF WithControllers
<1>2. CASE ~(interpreter # NoApplication /\ interpreter' = NoApplication)
  <2>1. UNCHANGED inputVars
    BY <1>2 DEF WithControllers
  <2>2. interpreter = NoApplication \/ interpreter' = interpreter
    BY <1>2, ManagerStepCases DEF WithControllers
  <2> USE <2>1, InputAssumption DEF InputIInv, inputVars, driverVars, claimVars, boardVars, Exists
  <2>3. InputTypeOK'
    <3>1. \A c \in Controllers : owner[c] \in {interpreter', Abandoned, Nobody}
      BY <2>2, ManagerAssumption DEF InputTypeOK
    <3>2. QED
      BY <3>1 DEF InputTypeOK
  <2>4. ClaimsMatchControllers' /\ ConnectedControllerIsReady'
    BY DEF ClaimsMatchControllers, ConnectedControllerIsReady
  <2>5. QED
    BY <2>3, <2>4
<1>3. QED
  BY <1>1, <1>2

\* Making a controller keeps the invariant, whether the constructor throws or not.
LEMMA ThrowingKeepsIInv ==
  ASSUME InputIInv, interpreter' = interpreter, UNCHANGED inputVars
  PROVE  InputIInv'
<1> USE DEF InputIInv, inputVars, driverVars, claimVars, boardVars, Exists
<1>1. InputTypeOK'
  BY DEF InputTypeOK
<1>2. ClaimsMatchControllers'
  BY DEF ClaimsMatchControllers
<1>3. ConnectedControllerIsReady'
  BY DEF ConnectedControllerIsReady
<1>4. QED
  BY <1>1, <1>2, <1>3

LEMMA MakingGamepadKeepsIInv ==
  ASSUME LifeCycleInv, InputIInv, NEW c \in Controllers, MakeGamepad(c)
  PROVE  InputIInv'
<1>1. PythonCalls
  BY DEF MakeGamepad
<1>2. interpreter \in Applications /\ interpreter # Nobody /\ interpreter # Abandoned
      /\ interpreter' = interpreter
  BY <1>1, CallsHaveAnApplication
<1>3. CASE UNCHANGED inputVars
  BY <1>2, <1>3, ThrowingKeepsIInv
<1>4. CASE Made(c, Gamepad) /\ openDevices' = openDevices \cup {c}
  <2> USE <1>2, <1>4, InputAssumption
      DEF MakeGamepad, Made, InputIInv, InputTypeOK, Exists, boardVars, NoBoard, Gamepad, Keys
  <2>1. InputTypeOK'
    OBVIOUS
  <2>2. ClaimsMatchControllers'
    <3> USE DEF ClaimsMatchControllers
    <3>1. (hatUsers \ {StatusDisplay} = {d \in Controllers : board[d] = Keys})'
      OBVIOUS
    <3>2. (outputLines <=> hatUsers # {})'
      OBVIOUS
    <3>3. (\A d \in Controllers : inputLines = d <=> board[d] = Keys /\ connected[d])'
      OBVIOUS
    <3>4. (openDevices = {d \in Controllers : board[d] = Gamepad}
                           \cup (IF hatUsers = {} THEN {} ELSE {Hat}))'
      OBVIOUS
    <3>5. QED
      BY <3>1, <3>2, <3>3, <3>4
  <2>3. ConnectedControllerIsReady'
    BY DEF ConnectedControllerIsReady
  <2>4. QED
    BY <2>1, <2>2, <2>3
<1>5. QED
  BY <1>3, <1>4 DEF MakeGamepad, OpenI2cDeviceFails, inputVars, claimVars

LEMMA MakingKeysKeepsIInv ==
  ASSUME LifeCycleInv, InputIInv, NEW c \in Controllers, MakeKeys(c)
  PROVE  InputIInv'
<1>1. PythonCalls
  BY DEF MakeKeys
<1>2. interpreter \in Applications /\ interpreter # Nobody /\ interpreter # Abandoned
      /\ interpreter' = interpreter
  BY <1>1, CallsHaveAnApplication
<1>3. CASE UNCHANGED inputVars
  BY <1>2, <1>3, ThrowingKeepsIInv
<1>4. CASE Made(c, Keys) /\ OpenHat(c)
  <2> USE <1>2, <1>4, InputAssumption
      DEF MakeKeys, OpenHat, Made, InputIInv, InputTypeOK, Exists, boardVars, NoBoard, Gamepad, Keys
  <2>1. InputTypeOK'
    BY ZenonT(60)
  <2>2. ClaimsMatchControllers'
    <3> USE DEF ClaimsMatchControllers
    <3>1. (hatUsers \ {StatusDisplay} = {d \in Controllers : board[d] = Keys})'
      OBVIOUS
    <3>2. (outputLines <=> hatUsers # {})'
      OBVIOUS
    <3>3. (\A d \in Controllers : inputLines = d <=> board[d] = Keys /\ connected[d])'
      OBVIOUS
    <3>4. (openDevices = {d \in Controllers : board[d] = Gamepad}
                           \cup (IF hatUsers = {} THEN {} ELSE {Hat}))'
      OBVIOUS
    <3>5. QED
      BY <3>1, <3>2, <3>3, <3>4
  <2>3. ConnectedControllerIsReady'
    BY DEF ConnectedControllerIsReady
  <2>4. QED
    BY <2>1, <2>2, <2>3
<1>5. QED
  BY <1>3, <1>4 DEF MakeKeys, OpenHatFails, OpenI2cDeviceFails, inputVars, claimVars

\* Closing one, too.
LEMMA ClosingKeepsIInv ==
  ASSUME LifeCycleInv, InputIInv, NEW c \in Controllers, Close(c)
  PROVE  InputIInv'
<1>1. PythonCalls /\ Destroy({c})
  BY DEF Close
<1>2. interpreter' = interpreter
  BY <1>1, CallsHaveAnApplication
<1>3. \A d \in Controllers : d \in {c} \/ owner[d] \in {interpreter', Abandoned, Nobody}
  BY <1>2 DEF InputIInv, InputTypeOK
<1>4. QED
  BY <1>1, <1>3, DestroyKeepsIInv

\* The calls that use a gamepad claim and release nothing; all they leave connected has
\* been read.
LEMMA GamepadKeepsIInv ==
  ASSUME LifeCycleInv, InputIInv, NEW c \in Controllers,
         ConnectGamepad(c) \/ RefreshGamepad(c) \/ CalibrateJoystick(c)
  PROVE  InputIInv'
<1>1. PythonCalls /\ ClaimsUnchanged /\ Usable(c) /\ board[c] = Gamepad
  BY DEF ConnectGamepad, RefreshGamepad, CalibrateJoystick
<1>2. interpreter \in Applications /\ interpreter # Nobody /\ interpreter # Abandoned
      /\ interpreter' = interpreter
  BY <1>1, CallsHaveAnApplication
<1> USE <1>1, <1>2, InputAssumption
    DEF InputIInv, InputTypeOK, ClaimsMatchControllers, Exists, Usable, ClaimsUnchanged, claimVars,
        boardVars, UpdateReadings, Reading, ButtonReadings, NoBoard, Gamepad, Keys
<1>3. CASE ConnectGamepad(c)
  <2>1. PICK reached \in ConnectSteps :
          /\ \/ /\ inputsConfigured' = (reached \in {"buttons", "joystick", "done"})
                /\ resetBy' = c
             \/ reached = "reset" /\ UNCHANGED boardVars
          /\ UpdateReadings(c, reached \in {"joystick", "done"}, reached = "done")
          /\ connected' = [connected EXCEPT ![c] = reached = "done"]
    BY <1>3 DEF ConnectGamepad
  <2>2. /\ connected' \in [Controllers -> BOOLEAN]
        /\ \A d \in Controllers : connected'[d] => Exists(d)'
        /\ resetBy' \in Controllers \cup {Nobody}
        /\ inputsConfigured' \in BOOLEAN
    <3>1. connected' \in [Controllers -> BOOLEAN]
      BY <2>1
    <3>2. \A d \in Controllers : connected'[d] => Exists(d)'
      BY <2>1
    <3>3. resetBy' \in Controllers \cup {Nobody}
      BY <2>1
    <3>4. inputsConfigured' \in BOOLEAN
      <4>1. CASE inputsConfigured' = (reached \in {"buttons", "joystick", "done"})
        BY <4>1
      <4>2. CASE UNCHANGED boardVars
        BY <4>2
      <4>3. QED
        BY <2>1, <4>1, <4>2
    <3>5. QED
      BY <3>1, <3>2, <3>3, <3>4
  <2>3. buttons' \in [Controllers -> ButtonReadings] /\ joystick' \in [Controllers -> BOOLEAN]
    BY <2>1
  <2>4. InputTypeOK'
    BY <2>2, <2>3
  <2>5. ClaimsMatchControllers'
    BY <2>1
  <2>6. ConnectedControllerIsReady'
    BY <2>1, ZenonT(60) DEF ConnectedControllerIsReady, ConnectSteps
  <2>7. QED
    BY <2>4, <2>5, <2>6
<1>4. CASE RefreshGamepad(c) \/ CalibrateJoystick(c)
  <2>1. UNCHANGED <<connected, boardVars>> /\ connected[c]
    BY <1>4 DEF RefreshGamepad, CalibrateJoystick
  <2>2. PICK newButtons, newJoystick \in BOOLEAN : UpdateReadings(c, newButtons, newJoystick)
    BY <1>4 DEF RefreshGamepad, CalibrateJoystick, TransferSucceeds
  <2>3. InputTypeOK'
    BY <2>1, <2>2
  <2>4. ClaimsMatchControllers'
    BY <2>1
  <2>5. ConnectedControllerIsReady'
    BY <2>1, <2>2 DEF ConnectedControllerIsReady
  <2>6. QED
    BY <2>3, <2>4, <2>5
<1>5. QED
  BY <1>3, <1>4

\* The calls that use the keys of the HAT.
LEMMA KeysKeepIInv ==
  ASSUME LifeCycleInv, InputIInv, NEW c \in Controllers, ConnectKeys(c) \/ RefreshKeys(c)
  PROVE  InputIInv'
<1>1. PythonCalls
  BY DEF ConnectKeys, RefreshKeys
<1>2. interpreter \in Applications /\ interpreter # Nobody /\ interpreter # Abandoned
      /\ interpreter' = interpreter
  BY <1>1, CallsHaveAnApplication
<1> USE <1>2, InputAssumption
    DEF InputIInv, InputTypeOK, Exists, Usable, ConnectKeys, RefreshKeys, ReadKeys, ClaimsUnchanged,
        claimVars, boardVars, ButtonReadings, NoBoard, Gamepad, Keys
<1>3. InputTypeOK'
  <2>1. connected' \in [Controllers -> BOOLEAN] /\ \A d \in Controllers : connected'[d] => Exists(d)'
    <3>1. connected' = connected \/ connected' = [connected EXCEPT ![c] = TRUE]
      OBVIOUS
    <3>2. connected' \in [Controllers -> BOOLEAN]
      BY <3>1
    <3>3. owner' = owner /\ owner[c] # Nobody
      OBVIOUS
    <3>4. \A d \in Controllers : connected'[d] => Exists(d)'
      BY <3>1, <3>3
    <3>5. QED
      BY <3>2, <3>4
  <2>2. buttons' \in [Controllers -> ButtonReadings] /\ joystick' \in [Controllers -> BOOLEAN]
    OBVIOUS
  <2>3. inputLines' \in Controllers \cup {Nobody}
    OBVIOUS
  <2>4. UNCHANGED <<owner, board, hatUsers, outputLines, openDevices, boardVars>>
    OBVIOUS
  <2>5. QED
    BY <2>1, <2>2, <2>3, <2>4
<1>4. ClaimsMatchControllers'
  BY DEF ClaimsMatchControllers
<1>5. ConnectedControllerIsReady'
  BY DEF ConnectedControllerIsReady
<1>6. QED
  BY <1>3, <1>4, <1>5

-----------------------------------------------------------------------------
\* The inductive invariant holds in every reachable state.
LEMMA InputInductiveInvariant == InputSpec => []InputIInv
<1>1. InputInit => InputIInv
  <2> SUFFICES ASSUME InputInit
               PROVE  InputIInv
    OBVIOUS
  <2> USE InputAssumption DEF InputInit, Init, HasHat, Exists, NoBoard, Gamepad, Keys
  <2>1. InputTypeOK
    BY DEF InputTypeOK, ButtonReadings
  <2>2. ClaimsMatchControllers
    BY DEF ClaimsMatchControllers
  <2>3. ConnectedControllerIsReady
    BY DEF ConnectedControllerIsReady
  <2>4. QED
    BY <2>1, <2>2, <2>3 DEF InputIInv
<1>2. LifeCycleInv /\ InputIInv /\ [InputNext]_allVars => InputIInv'
  <2> SUFFICES ASSUME LifeCycleInv, InputIInv, [InputNext]_allVars
               PROVE  InputIInv'
    OBVIOUS
  <2>1. CASE WithControllers(Next)
    BY <2>1, ManagerStepKeepsIInv
  <2>2. ASSUME NEW c \in Controllers, UseController(c)
        PROVE  InputIInv'
    BY <2>2, MakingGamepadKeepsIInv, MakingKeysKeepsIInv, ClosingKeepsIInv, GamepadKeepsIInv,
       KeysKeepIInv DEF UseController
  <2>3. CASE StatusDisplayGoes
    <3>1. interpreter' = interpreter /\ Destroy({StatusDisplay})
      BY <2>3 DEF StatusDisplayGoes, vars, managerVars
    <3>2. \A d \in Controllers : owner[d] \in {interpreter', Abandoned, Nobody}
      BY <3>1 DEF InputIInv, InputTypeOK
    <3>3. QED
      BY <3>1, <3>2, DestroyKeepsIInv
  <2>4. CASE UNCHANGED allVars
    BY <2>4, ThrowingKeepsIInv DEF allVars, vars, managerVars
  <2>5. QED
    BY <2>1, <2>2, <2>3, <2>4 DEF InputNext
<1>3. QED
  BY <1>1, <1>2, LifeCycle, PTL DEF InputSpec

\* Types; what Python can reach belongs to the application that runs.
THEOREM InputTypeCorrect == InputSpec => []InputTypeOK
<1>1. InputIInv => InputTypeOK
  BY DEF InputIInv
<1>2. QED
  BY <1>1, InputInductiveInvariant, PTL

\* Lines and devices are held by exactly the driver objects that exist.
THEOREM ClaimsAreControllers == InputSpec => []ClaimsMatchControllers
<1>1. InputIInv => ClaimsMatchControllers
  BY DEF InputIInv
<1>2. QED
  BY <1>1, InputInductiveInvariant, PTL

\* A connected controller has been read and is configured, unless another object has
\* reset the processor since.
THEOREM ConnectedMeansReady == InputSpec => []ConnectedControllerIsReady
<1>1. InputIInv => ConnectedControllerIsReady
  BY DEF InputIInv
<1>2. QED
  BY <1>1, InputInductiveInvariant, PTL

\* What holds of the life cycle alone holds with controllers: the state of the manager
\* names what runs.
THEOREM StateNamesTheTruthWithControllers == InputSpec => []StateIsTrue
BY ControllersKeepLifeCycle, StateNamesTheTruth, PTL
===============================================================================
