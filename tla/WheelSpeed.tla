----------------------------- MODULE WheelSpeed -----------------------------
(***************************************************************************)
(* The arithmetic of the drive loop (wheel.c): from the speed and the      *)
(* angle of a command to the bytes the two motors get, as operators.       *)
(*                                                                         *)
(* The code computes in double.  With velocity and angle integers, and     *)
(* 2.222 written as 2222 / 1000, the argument of ceil() is a whole number  *)
(* only when it is 0 (for velocities up to 200), so the rounding errors of *)
(* the double arithmetic never reach its result; 127.0 / 100.0 times a     *)
(* whole number truncates to the same byte as the exact quotient.          *)
(***************************************************************************)
EXTENDS Integers

\* ceil(n / d) and trunc(n / d) for d > 0: \div rounds down.
CeilDiv(n, d) == -((-n) \div d)
TruncDiv(n, d) == IF n >= 0 THEN n \div d ELSE CeilDiv(n, d)

\* if (angle < 0.0) angle = 360.0 + angle;
Normal(a) == IF a < 0 THEN 360 + a ELSE a

\* The mutated form of Turn: every quadrant has the middle of the first one.
TurnMutant(v, a, middle, sign) == CeilDiv(sign * v * (a - 45) * 2222, 100000)

\* ceil((velocity * ((angle - middle) * 2.222 * sign)) / 100)
Turn(v, a, middle, sign) == CeilDiv(sign * v * (a - middle) * 2222, 100000)

\* if (angle > low && angle < high)
Within(b, low, high) == low < b /\ b < high

\* WHEEL_GetSpeed; the speeds stay 0 when no test of the angle succeeds.
GetSpeed(v, a) ==
  LET b == Normal(a) IN
  CASE b = 90              -> [left |-> v, right |-> v]
    [] Within(b, 0, 90)    -> [left |-> v, right |-> Turn(v, b, 45, 1)]
    [] b \in {0, 360}      -> [left |-> v, right |-> -v]
    [] Within(b, 90, 180)  -> [left |-> Turn(v, b, 135, -1), right |-> v]
    [] b = 180             -> [left |-> -v, right |-> v]
    [] Within(b, 180, 270) -> [left |-> -v, right |-> Turn(v, b, 225, -1)]
    [] b = 270             -> [left |-> -v, right |-> -v]
    [] Within(b, 270, 360) -> [left |-> Turn(v, b, 315, 1), right |-> -v]
    [] OTHER               -> [left |-> 0, right |-> 0]

\* The mutated form of MotorCommand: the reverse byte is that of the full-range
\* command QIK_CMD_M0_REVERSE_128.
MotorCommandMutant(s) ==
  CASE s > 0 -> [cmd |-> "forward", byte |-> (TruncDiv(127 * s, 100)) % 256]
    [] s < 0 -> [cmd |-> "reverse", byte |-> (128 + TruncDiv(127 * (-s), 100)) % 256]
    [] OTHER -> [cmd |-> "brake", byte |-> 0]

\* The command for a wheel: speed * (127.0 / 100.0), cut to an unsigned char.
\* Beyond 201 the cast of the double is undefined in C; the builds this runs on
\* keep the low byte.
MotorCommand(s) ==
  CASE s > 0 -> [cmd |-> "forward", byte |-> (TruncDiv(127 * s, 100)) % 256]
    [] s < 0 -> [cmd |-> "reverse", byte |-> (TruncDiv(127 * (-s), 100)) % 256]
    [] OTHER -> [cmd |-> "brake", byte |-> 0]

\* The command for both wheels when the brake is on: int to unsigned char.
BrakeCommand(strength) == [cmd |-> "brake", byte |-> strength % 256]
=============================================================================
