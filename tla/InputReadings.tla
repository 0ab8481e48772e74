----------------------------- MODULE InputReadings -----------------------------
(***************************************************************************)
(* What a connected input controller says of the hand on it: the joystick  *)
(* and buttons of input/input_controller_base.cpp, read from the bytes of  *)
(* the Adafruit gamepad and from the keys of the SeenGreat HAT.  When and  *)
(* whether a reading succeeds is in InputControllers.                      *)
(*                                                                         *)
(* A byte of the gamepad's inputs is the set of its bits that are 1.  Axes *)
(* are alike, so a position has an x and a y and most operators are of one *)
(* axis.                                                                   *)
(***************************************************************************)
EXTENDS Integers, SequencesExt, FiniteSetsExt

CONSTANTS
  MaximumValue,   \* joystickAxisMaximumValue
  InputNumber,    \* gamepadButtonInputMappings: the input of each button
  RestValues,     \* external: what the analog inputs say of an untouched stick
  RawValues,      \* bound: what they say at all
  DeadZones,      \* bound: the dead zones an application asks for
  Grips,          \* bound: the sets of buttons that a hand holds down at once
  SampleRuns      \* bound: the positions that a calibration reads, one after the other

Middle          == 512
DefaultDeadZone == 100

\* No two buttons share an input, and a key of the HAT moves the stick out of the dead zone.
ASSUME ReadingsAssumption ==
  /\ MaximumValue \in Nat /\ MaximumValue > Middle + DefaultDeadZone
  /\ RestValues \subseteq RawValues /\ RawValues \subseteq Nat
  /\ RestValues # {} /\ IsFiniteSet(RestValues)
  /\ \A b \in DOMAIN InputNumber : InputNumber[b] \in 0..31
  /\ \A b, c \in DOMAIN InputNumber : InputNumber[b] = InputNumber[c] => b = c
  /\ DeadZones \subseteq Int /\ Grips \subseteq SUBSET DOMAIN InputNumber
  /\ \A run \in SampleRuns : run \in Seq([{"x", "y"} -> RawValues]) /\ run # << >>

VARIABLES
  board,      \* "gamepad" or "hat"
  position,   \* m_x, m_y
  centre,     \* m_centreX, m_centreY
  deadZone,
  pressed,    \* the buttons in m_pressedMask
  stick,      \* history: what the board said of the stick when it was last read
  held,       \* history: the buttons held down when they were last read
  calibrated  \* history: the centre was measured with the stick at rest

readingVars == <<board, position, centre, deadZone, pressed, stick, held, calibrated>>

Buttons  == DOMAIN InputNumber
Keys     == {"K1", "K2", "K3", "Press"}
Arrows   == {"up", "down", "left", "right"}
Untouched == [x |-> MaximumValue - Middle, y |-> MaximumValue - Middle]

\* A connected board has been read once; the centre and the dead zone are the defaults.
ReadingsInit ==
  /\ board \in {"gamepad", "hat"}
  /\ position = [x |-> Middle, y |-> Middle]
  /\ centre = [x |-> Middle, y |-> Middle] /\ deadZone = DefaultDeadZone
  /\ pressed = {} /\ held = {}
  /\ stick = (IF board = "hat" THEN {} ELSE Untouched)
  /\ calibrated = FALSE

-----------------------------------------------------------------------------
(***************************************************************************)
(* The gamepad.                                                            *)
(***************************************************************************)

Clamp(value, low, high) == Max({low, Min({value, high})})

\* readAnalogInputValue(): two bytes, the higher one first.
AnalogValue(bytes) == bytes[1] * 256 + bytes[2]

\* One axis of readJoystickPosition(): the board is mounted the other way round.
AxisPosition(raw) ==
  Clamp(MaximumValue - AnalogValue(<<raw \div 256, raw % 256>>), 0, MaximumValue)
StickPosition(s) == [x |-> AxisPosition(s.x), y |-> AxisPosition(s.y)]

\* Fault: the bytes are joined with the lowest one first.
DecodeLittleEndian(bytes) == UNION {{8 * (i - 1) + b : b \in bytes[i]} : i \in 1..4}

\* decodeBigEndianBytesAsUint32(): the bits of four bytes, the highest byte first.
DecodeBigEndian(bytes) == UNION {{8 * (4 - i) + b : b \in bytes[i]} : i \in 1..4}

\* encodeUint32AsBigEndianBytes(), which is also how the gamepad sends its inputs.
EncodeBigEndian(bits) == [i \in 1..4 |-> {b \in 0..7 : 8 * (4 - i) + b \in bits}]

\* What the gamepad sends: inputs are pulled up, a button held down pulls its input down,
\* and the inputs without a button may say anything.
LevelBytes(down, others) ==
  EncodeBigEndian({InputNumber[b] : b \in Buttons \ down}
                    \cup (others \ {InputNumber[b] : b \in Buttons}))

\* readPressedButtonMask(): a button is pressed when its input is low.
PressedButtons(bytes) ==
  LET levels == DecodeBigEndian(bytes) \cap {InputNumber[b] : b \in Buttons}
  IN  {b \in Buttons : InputNumber[b] \notin levels}

\* refreshInputState() of the gamepad.
RefreshGamepad ==
  /\ board = "gamepad"
  /\ \E x, y \in RawValues, down \in Grips, others \in {{}, 0..31} :
       /\ pressed' = PressedButtons(LevelBytes(down, others)) /\ held' = down
       /\ stick' = [x |-> x, y |-> y] /\ position' = StickPosition(stick')
  /\ UNCHANGED <<board, centre, deadZone, calibrated>>

\* The samples are added up and divided by their number.
Mean(values) == SumFunctionOnSet(values, DOMAIN values) \div Len(values)

\* calibrateJoystick(): the centre is the mean of the samples, and so is the position.  A
\* dead zone that is not allowed is refused after the samples were read.
CalibrateJoystick ==
  /\ board = "gamepad"
  /\ \E samples \in SampleRuns, zone \in DeadZones \cap (0..MaximumValue) :
       /\ centre' = [axis \in {"x", "y"} |->
                       Mean([i \in DOMAIN samples |-> AxisPosition(samples[i][axis])])]
       /\ deadZone' = zone
       /\ position' = centre'
       /\ stick' = Last(samples)
       /\ calibrated' = \A i \in DOMAIN samples : Range(samples[i]) \subseteq RestValues
  /\ UNCHANGED <<board, pressed, held>>

-----------------------------------------------------------------------------
(***************************************************************************)
(* The HAT.                                                                *)
(***************************************************************************)

\* One axis of mapSeenGreatPressedKeys(): opposite keys cancel each other.
KeyAxis(low, high, keys) ==
  IF (low \in keys) = (high \in keys) THEN Middle
  ELSE IF low \in keys THEN 0 ELSE MaximumValue

\* refreshInputState() of the HAT: eight lines are read at once.
RefreshHat ==
  /\ board = "hat"
  /\ \E down \in SUBSET (Arrows \cup Keys) :
       /\ position' = [x |-> KeyAxis("left", "right", down), y |-> KeyAxis("down", "up", down)]
       /\ pressed' = down \cap Keys
       /\ held' = down \cap Keys /\ stick' = down \cap Arrows
  /\ UNCHANGED <<board, centre, deadZone, calibrated>>

ReadingsNext == RefreshGamepad \/ CalibrateJoystick \/ RefreshHat

\* direction(): as the words it is made of, "center" being none.  A dead zone is not
\* negative, so no two opposite ones are among them.
Direction ==
  {d \in Arrows : CASE d = "left"  -> position.x < centre.x - deadZone
                    [] d = "right" -> position.x > centre.x + deadZone
                    [] d = "down"  -> position.y < centre.y - deadZone
                    [] d = "up"    -> position.y > centre.y + deadZone}

-----------------------------------------------------------------------------
(***************************************************************************)
(* Property.                                                               *)
(***************************************************************************)

\* Which way a stick is pushed that is not at rest: small values are right and up.
Pushed ==
  {d \in Arrows : CASE d = "left"  -> stick.x > Max(RestValues)
                    [] d = "right" -> stick.x < Min(RestValues)
                    [] d = "down"  -> stick.y > Max(RestValues)
                    [] d = "up"    -> stick.y < Min(RestValues)}

Opposite == [up |-> "down", down |-> "up", left |-> "right", right |-> "left"]

\* What a program reads follows the hand on the board.  The pressed buttons are the held
\* ones, whatever the unused inputs say.  On the HAT the direction is that of the keys
\* held, without opposite ones.  On the gamepad, once it was calibrated at rest with a
\* dead zone not smaller than what the stick wobbles, a stick at rest has no direction,
\* a pushed one none but where it is pushed, and one that is pushed all the way has that
\* one if the dead zone leaves room for it.
ReadingsFollowHand ==
  /\ pressed = held
  /\ IF board = "hat" THEN Direction = {d \in stick : Opposite[d] \notin stick}
     ELSE calibrated /\ deadZone >= Max(RestValues) - Min(RestValues) =>
            /\ Direction \subseteq Pushed
            /\ stick.x = 0 /\ centre.x + deadZone < MaximumValue => "right" \in Direction
            /\ stick.y = MaximumValue /\ centre.y - deadZone > 0 => "down" \in Direction
=============================================================================
