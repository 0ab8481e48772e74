---------------------------- MODULE InputControllers ----------------------------
(***************************************************************************)
(* The input controllers of the running application: the Python objects    *)
(* (mod_iot_input.c), the drivers behind them (adafruit_mini_i2c_gamepad,  *)
(* seengreat_oled_hat), and what they claim from Linux: open I2C devices   *)
(* (i2c_device.cpp) and GPIO lines.                                        *)
(*                                                                         *)
(* Controllers live in the interpreter of PythonApplicationManager, so     *)
(* this module extends it and adds to each of its steps what happens to    *)
(* them.  A call of Python is one step: only the main thread makes calls,  *)
(* and each can fail at any of its transfers.                              *)
(*                                                                         *)
(* MicroPython itself is external.  Whether mp_embed_deinit() finalises    *)
(* the objects that are left is not visible in this repository: both are   *)
(* allowed, and a controller that is not finalised is abandoned.           *)
(***************************************************************************)
EXTENDS PythonApplicationManager

CONSTANTS
  Controllers,    \* bound: the driver objects that exist at a time
  Hat,            \* the shared SeenGreatOledHat
  StatusDisplay,  \* the status display of main(), which may hold the HAT
  Nobody,         \* no owner of a claim
  Abandoned       \* owner of a controller whose interpreter ended without finalising it

ASSUME InputAssumption ==
  /\ Controllers \cap {Hat, StatusDisplay, Nobody} = {}
  /\ Hat \notin {Nobody, StatusDisplay}
  /\ {Nobody, Abandoned} \cap (Applications \cup {NoApplication}) = {}
  /\ Abandoned # Nobody

VARIABLES
  owner,             \* application that made the controller, Abandoned, or Nobody
  board,             \* its board
  connected,         \* m_isConnected of a gamepad, m_inputLines >= 0 of the HAT's keys
  buttons,           \* what the stored buttons were read from
  joystick,          \* TRUE: a joystick position has been read
  hatUsers,          \* holders of the shared_ptr to the HAT
  inputLines,        \* controller that has claimed the key lines, or Nobody
  outputLines,       \* TRUE: the D/C and reset lines are claimed
  openDevices,       \* who has an I2C device open
  inputsConfigured,  \* the gamepad's processor has its button inputs configured
  resetBy            \* history: the controller that reset this processor last

driverVars == <<owner, board, connected, buttons, joystick>>
claimVars == <<hatUsers, inputLines, outputLines, openDevices>>
boardVars == <<inputsConfigured, resetBy>>
inputVars == <<driverVars, claimVars, boardVars>>
allVars   == <<vars, inputVars>>

NoBoard == "none"
Gamepad == "adafruit_mini_i2c_gamepad"
Keys    == "seengreat_oled_hat"

\* Buttons that were never read, read from inputs without pull-up, or read properly.
ButtonReadings == {"unread", "floating", "real"}

Exists(c)    == owner[c] # Nobody
HasHat(u)    == u \in hatUsers

\* The status display takes the HAT at startup, if there is one.
InputInit ==
  /\ Init
  /\ owner = [c \in Controllers |-> Nobody]
  /\ board = [c \in Controllers |-> NoBoard]
  /\ connected = [c \in Controllers |-> FALSE]
  /\ buttons = [c \in Controllers |-> "unread"]
  /\ joystick = [c \in Controllers |-> FALSE]
  /\ hatUsers \in {{}, {StatusDisplay}}
  /\ inputLines = Nobody
  /\ outputLines = HasHat(StatusDisplay)
  /\ openDevices = IF HasHat(StatusDisplay) THEN {Hat} ELSE {}
  /\ inputsConfigured \in BOOLEAN
  /\ resetBy = Nobody

-----------------------------------------------------------------------------
(***************************************************************************)
(* Making and releasing controllers.                                       *)
(***************************************************************************)

\* main.py or a callback makes a call.
PythonCalls ==
  /\ interpreter # NoApplication
  /\ step = "execute" \/ process = "callbacks"
  /\ UNCHANGED vars

\* Python has the controller and has not closed it.
Usable(c) == owner[c] = interpreter

\* The Python object takes the driver object that was made.
Made(c, kind) ==
  /\ owner' = [owner EXCEPT ![c] = interpreter]
  /\ board' = [board EXCEPT ![c] = kind]
  /\ UNCHANGED <<connected, buttons, joystick>>

\* Fault: a device that refuses its address stays open.
LeaveI2cDeviceOpen(u) ==
  \/ openDevices' = openDevices \cup {u}
  \/ UNCHANGED openDevices

\* A constructor of I2cDevice, or the code around it, fails: what it opened is closed.
OpenI2cDeviceFails(u) == UNCHANGED openDevices

\* AdafruitMiniI2cGamepad(): only opens the I2C device.
MakeGamepad(c) ==
  /\ PythonCalls /\ ~Exists(c)
  /\ \/ Made(c, Gamepad) /\ openDevices' = openDevices \cup {c}
     \/ OpenI2cDeviceFails(c) /\ UNCHANGED driverVars
  /\ UNCHANGED <<hatUsers, inputLines, outputLines, boardVars>>

\* SeenGreatOledHat::open(): the shared HAT, or a new one that claims its lines,
\* resets the OLED and opens its I2C device.
OpenHat(u) ==
  /\ hatUsers' = hatUsers \cup {u}
  /\ IF hatUsers # {}
     THEN UNCHANGED <<outputLines, openDevices>>
     ELSE /\ ~outputLines
          /\ outputLines' = TRUE
          /\ openDevices' = openDevices \cup {Hat}

\* It throws after a failed claim, reset or transfer and closes what it has.
OpenHatFails ==
  /\ hatUsers = {}
  /\ OpenI2cDeviceFails(Hat)
  /\ UNCHANGED <<hatUsers, outputLines>>

\* SeenGreatOledHatController().
MakeKeys(c) ==
  /\ PythonCalls /\ ~Exists(c)
  /\ \/ Made(c, Keys) /\ OpenHat(c)
     \/ OpenHatFails /\ UNCHANGED driverVars
  /\ UNCHANGED <<inputLines, boardVars>>

\* The destructors: a gamepad closes its I2C device, the keys close their lines, and
\* the last holder of the HAT closes the lines and the device of the HAT.
Destroy(gone) ==
  /\ owner' = [c \in Controllers |-> IF c \in gone THEN Nobody ELSE owner[c]]
  /\ board' = [c \in Controllers |-> IF c \in gone THEN NoBoard ELSE board[c]]
  /\ connected' = [c \in Controllers |-> connected[c] /\ c \notin gone]
  /\ buttons' = [c \in Controllers |-> IF c \in gone THEN "unread" ELSE buttons[c]]
  /\ joystick' = [c \in Controllers |-> joystick[c] /\ c \notin gone]
  /\ hatUsers' = hatUsers \ gone
  /\ inputLines' = IF inputLines \in gone THEN Nobody ELSE inputLines
  /\ outputLines' = (hatUsers' # {})
  /\ openDevices' = (openDevices \ gone) \ (IF hatUsers' = {} THEN {Hat} ELSE {})
  /\ UNCHANGED boardVars

\* close(), or __del__ when the collector finds the object unreachable.
Close(c) ==
  /\ PythonCalls /\ Usable(c)
  /\ Destroy({c})

-----------------------------------------------------------------------------
(***************************************************************************)
(* The gamepad.                                                            *)
(***************************************************************************)

\* A transfer of I2cDevice succeeds or throws: the driver repeats interrupted calls and
\* does not accept short ones.
TransferSucceeds == BOOLEAN

ClaimsUnchanged == UNCHANGED <<owner, board, claimVars>>

Reading == IF inputsConfigured' THEN "real" ELSE "floating"

\* updateButtons() and updateJoystick(), as far as the transfers before them succeed.
UpdateReadings(c, newButtons, newJoystick) ==
  /\ buttons' = IF newButtons THEN [buttons EXCEPT ![c] = Reading] ELSE buttons
  /\ joystick' = IF newJoystick THEN [joystick EXCEPT ![c] = TRUE] ELSE joystick

\* Where connect() can fail: the write of the reset; the identity, which may also be
\* another product's; configuring the inputs; reading buttons; reading the joystick.
ConnectSteps == {"reset", "identify", "configure", "buttons", "joystick", "done"}

\* Fault: the connection that existed is not taken back first.
ConnectGamepadKeepsFlag(c) ==
  /\ PythonCalls /\ Usable(c) /\ board[c] = Gamepad
  /\ \E reached \in ConnectSteps :
       /\ \/ /\ inputsConfigured' = (reached \in {"buttons", "joystick", "done"})
             /\ resetBy' = c
          \/ reached = "reset" /\ UNCHANGED boardVars
       /\ UpdateReadings(c, reached \in {"joystick", "done"}, reached = "done")
       /\ connected' = [connected EXCEPT ![c] = @ \/ reached = "done"]
  /\ ClaimsUnchanged

\* AdafruitMiniI2cGamepad::connect(), which gets as far as `reached`.  A reset whose
\* write fails may have reached the processor.
ConnectGamepad(c) ==
  /\ PythonCalls /\ Usable(c) /\ board[c] = Gamepad
  /\ \E reached \in ConnectSteps :
       /\ \/ /\ inputsConfigured' = (reached \in {"buttons", "joystick", "done"})
             /\ resetBy' = c
          \/ reached = "reset" /\ UNCHANGED boardVars
       /\ UpdateReadings(c, reached \in {"joystick", "done"}, reached = "done")
       /\ connected' = [connected EXCEPT ![c] = reached = "done"]
  /\ ClaimsUnchanged

\* refreshInputState(): the joystick is read after the buttons are stored.
RefreshGamepad(c) ==
  /\ PythonCalls /\ Usable(c) /\ board[c] = Gamepad /\ connected[c]
  /\ UNCHANGED boardVars
  /\ \E joystickIsRead \in TransferSucceeds : UpdateReadings(c, TRUE, joystickIsRead)
  /\ UNCHANGED connected
  /\ ClaimsUnchanged
\* calibrateJoystick(): the joystick is at its measured centre, or nothing has changed.
CalibrateJoystick(c) ==
  /\ PythonCalls /\ Usable(c) /\ board[c] = Gamepad /\ connected[c]
  /\ UNCHANGED boardVars
  /\ UpdateReadings(c, FALSE, TRUE)
  /\ UNCHANGED connected
  /\ ClaimsUnchanged

-----------------------------------------------------------------------------
(***************************************************************************)
(* The keys and the joystick of the SeenGreat HAT.                         *)
(***************************************************************************)

\* refreshInputState(): one call of the kernel reads all lines, whose pull-ups were
\* requested with them.
ReadKeys(c) ==
  /\ buttons' = [buttons EXCEPT ![c] = "real"]
  /\ joystick' = [joystick EXCEPT ![c] = TRUE]

\* SeenGreatOledHatController::connect() claims the lines, which must be free, and
\* reads them; a second call returns at once.  If reading fails it closes the lines.
ConnectKeys(c) ==
  /\ PythonCalls /\ Usable(c) /\ board[c] = Keys /\ ~connected[c]
  /\ inputLines = Nobody
  /\ inputLines' = c
  /\ ReadKeys(c)
  /\ connected' = [connected EXCEPT ![c] = TRUE]
  /\ UNCHANGED <<owner, board, hatUsers, outputLines, openDevices, boardVars>>

RefreshKeys(c) ==
  /\ PythonCalls /\ Usable(c) /\ board[c] = Keys /\ connected[c]
  /\ ReadKeys(c)
  /\ UNCHANGED <<connected, boardVars>>
  /\ ClaimsUnchanged

-----------------------------------------------------------------------------
(***************************************************************************)
(* The life of the application and of the process.                         *)
(***************************************************************************)

OwnControllers == {c \in Controllers : Exists(c) /\ Usable(c)}

\* ~MicroPythonRuntime() ends the interpreter, which may finalise what is left in it.
InterpreterEnds ==
  \/ Destroy(OwnControllers)
  \/ /\ owner' = [c \in Controllers |-> IF c \in OwnControllers THEN Abandoned ELSE owner[c]]
     /\ UNCHANGED <<board, connected, buttons, joystick, claimVars, boardVars>>

\* A step of the manager, and of the controllers if it ends the interpreter.  The main
\* loop gives the status display back before it stops the manager.
WithControllers(managerStep) ==
  /\ managerStep
  /\ process' = "exited" => ~HasHat(StatusDisplay)
  /\ IF interpreter # NoApplication /\ interpreter' = NoApplication
     THEN InterpreterEnds
     ELSE UNCHANGED inputVars

\* The main loop destroys the status display when an update fails or when it ends; an
\* exception destroys it after the manager.
StatusDisplayGoes ==
  /\ process \in {"checking", "failed"}
  /\ HasHat(StatusDisplay)
  /\ Destroy({StatusDisplay})
  /\ UNCHANGED vars

-----------------------------------------------------------------------------
UseController(c) ==
  \/ MakeGamepad(c) \/ MakeKeys(c) \/ Close(c)
  \/ ConnectGamepad(c) \/ RefreshGamepad(c) \/ CalibrateJoystick(c)
  \/ ConnectKeys(c) \/ RefreshKeys(c)

InputNext ==
  \/ WithControllers(Next)
  \/ \E c \in Controllers : UseController(c)
  \/ StatusDisplayGoes

InputSpec == InputInit /\ [][InputNext]_allVars

\* The fairness of PythonApplicationManager: controllers only add to its steps.
FairInputSpec == /\ InputSpec
                 /\ WF_allVars(WithControllers(Start))
                 /\ WF_allVars(WithControllers(CheckRenderThread))
                 /\ WF_allVars(WithControllers(NoActivation))
                 /\ WF_allVars(WithControllers(CallbacksEnd))

-----------------------------------------------------------------------------
(***************************************************************************)
(* Properties.                                                             *)
(***************************************************************************)

\* Types; a controller that Python can use belongs to the application that runs, and
\* the next object in its place starts unconnected.
InputTypeOK ==
  /\ owner \in [Controllers -> Applications \cup {Abandoned, Nobody}]
  /\ \A c \in Controllers : owner[c] \in {interpreter, Abandoned, Nobody}
  /\ board \in [Controllers -> {NoBoard, Gamepad, Keys}]
  /\ \A c \in Controllers : Exists(c) <=> board[c] # NoBoard
  /\ connected \in [Controllers -> BOOLEAN]
  /\ \A c \in Controllers : connected[c] => Exists(c)
  /\ buttons \in [Controllers -> ButtonReadings]
  /\ joystick \in [Controllers -> BOOLEAN]
  /\ hatUsers \subseteq Controllers \cup {StatusDisplay}
  /\ inputLines \in Controllers \cup {Nobody}
  /\ outputLines \in BOOLEAN
  /\ openDevices \subseteq Controllers \cup {Hat}
  /\ inputsConfigured \in BOOLEAN
  /\ resetBy \in Controllers \cup {Nobody}

\* Linux lines and devices are held by exactly the driver objects that exist, whatever
\* failed while they were made, connected or destroyed: nothing is kept by a
\* constructor that threw, nothing is lost by the one who still shares the HAT.
ClaimsMatchControllers ==
  /\ hatUsers \ {StatusDisplay} = {c \in Controllers : board[c] = Keys}
  /\ outputLines <=> hatUsers # {}
  /\ \A c \in Controllers : inputLines = c <=> board[c] = Keys /\ connected[c]
  /\ openDevices = {c \in Controllers : board[c] = Gamepad}
                      \cup (IF hatUsers = {} THEN {} ELSE {Hat})

\* A connected controller has read its buttons and its joystick, and a connected
\* gamepad reads configured inputs, unless another object has reset the processor
\* since: a connect() that fails half-way takes its own connection back.
ConnectedControllerIsReady ==
  \A c \in Controllers : connected[c] =>
    /\ buttons[c] # "unread" /\ joystick[c]
    /\ board[c] = Gamepad => \/ inputsConfigured /\ buttons[c] = "real"
                            \/ resetBy # c
=============================================================================
