-------------------------------- MODULE Motor --------------------------------
(***************************************************************************)
(* The way of one command to a motor: WHEEL_ControlSpeed computes what the *)
(* wheels get (WheelSpeed), the driver packs it and adds the CRC byte by   *)
(* byte (Packet), the line may flip bits, and a receiver that checks as    *)
(* crcCheck of pololu.c does accepts the packet or rejects it.  The other  *)
(* commands of both drivers take the same way.                             *)
(***************************************************************************)
EXTENDS WheelSpeed, Packet

CONSTANTS
  Velocity, Angle,  \* speeds and angles of a command
  Strength,         \* its brakes, when it asks for one
  Param,            \* parameter bytes of the other qik commands
  Speed             \* speeds of the pololu commands

\* Whole numbers; parameters are bytes, and a pololu speed fits its two bytes.
ASSUME ConstantAssumption ==
  /\ Velocity \subseteq Int /\ Angle \subseteq Int
  /\ Strength \subseteq Nat \ {0}
  /\ Param \subseteq 0..255 /\ Speed \subseteq 0..8191

VARIABLES
  velocity, angle, brake, leftSpeed, rightSpeed,  \* locals of WHEEL_ControlSpeed
  motor,            \* the commands it has for the two motors
  packet, i, crc,   \* the packet the driver sends, and its loop over the bytes
  step,             \* how far the command has come
  damaged, verdict  \* at the receiver

locals == <<velocity, angle, brake, leftSpeed, rightSpeed, motor>>
driver == <<packet, i, crc>>
receiver == <<damaged, verdict>>
vars == <<locals, driver, step, receiver>>

None == Full(<<>>)
Stop == [M0 |-> BrakeCommand(0), M1 |-> BrakeCommand(0)]

\* What the drivers are asked for besides motor commands: GET_FW_VERSION,
\* GET_ERROR_BYTE and the currents, the configuration; and the pololu commands.
QikRequests ==
  QIK_SendCommand
    \cup {QIK_SendCommandParam(3, p) : p \in Param}
    \cup {QIK_SetConfigParam(q, v) : q \in 0..11, v \in Param}

PololuRequests ==
  POLOLU_Command
    \cup (UNION {POLOLU_CommandParam(p) : p \in Param})
    \cup (UNION {POLOLU_Motor(s) : s \in Speed})

Init ==
  /\ \/ /\ step = "command" /\ packet = None
        /\ \/ brake = 0 /\ velocity \in Velocity /\ angle \in Angle
           \/ brake \in Strength /\ velocity = 0 /\ angle = 0
     \/ /\ step = "crc" /\ packet \in QikRequests \cup PololuRequests
        /\ brake = 0 /\ velocity = 0 /\ angle = 0
  /\ leftSpeed = 0 /\ rightSpeed = 0 /\ motor = Stop
  /\ i = 0 /\ crc = 0
  /\ damaged = FALSE /\ verdict = "none"

WHEEL_GetSpeed ==
  /\ step = "command" /\ brake <= 0
  /\ step' = "speed"
  /\ leftSpeed' = GetSpeed(velocity, angle).left
  /\ rightSpeed' = GetSpeed(velocity, angle).right
  /\ UNCHANGED <<velocity, angle, brake, motor, driver, receiver>>

\* Brakes both motors, or drives each at its own speed.
WHEEL_ControlSpeed ==
  /\ \/ /\ step = "command" /\ brake > 0
        /\ motor' = [M0 |-> BrakeCommand(brake), M1 |-> BrakeCommand(brake)]
     \/ /\ step = "speed"
        /\ motor' = [M0 |-> MotorCommand(leftSpeed), M1 |-> MotorCommand(rightSpeed)]
  /\ step' = "motor"
  /\ UNCHANGED <<velocity, angle, brake, leftSpeed, rightSpeed, driver, receiver>>

\* The driver gets the command for a motor.  The packets for the two motors share
\* nothing, so a behaviour follows one of them; the locals are left behind.
ToDriver ==
  /\ step = "motor"
  /\ \E m \in {"M0", "M1"} : packet' = QIK_SendCommandParam(Code[m][motor[m].cmd], motor[m].byte)
  /\ step' = "crc"
  /\ velocity' = 0 /\ angle' = 0 /\ brake' = 0 /\ leftSpeed' = 0 /\ rightSpeed' = 0
  /\ motor' = Stop
  /\ UNCHANGED <<i, crc, receiver>>

\* One round of the loop over the bytes that the CRC covers.
GetCRC ==
  /\ step = "crc" /\ i < packet.covered
  /\ crc' = NextCRC(crc, packet.bytes[i + 1])
  /\ i' = i + 1
  /\ UNCHANGED <<locals, packet, step, receiver>>

\* COMPORT_Send of the packet with the CRC as its last byte.
Wire == Append(packet.bytes, crc)

Send ==
  /\ step = "crc" /\ i = packet.covered
  /\ step' = "line"
  /\ UNCHANGED <<locals, driver, receiver>>

\* The line (external) delivers the packet with none, one or two bits flipped.
Power == <<1, 2, 4, 8, 16, 32, 64, 128>>
Flip(bytes, b) == [bytes EXCEPT ![b \div 8 + 1] = Exor(@, Power[(b % 8) + 1])]

Flipped ==
  LET Bit == 0..(8 * Len(Wire) - 1) IN
  {Wire} \cup {Flip(Wire, a) : a \in Bit} \cup {Flip(Flip(Wire, a), b) : a, b \in Bit}

Deliver ==
  /\ step = "line"
  /\ \E data \in Flipped :
       /\ damaged' = (data # Wire)
       /\ verdict' = IF crcCheck(data) THEN "accepted" ELSE "rejected"
  /\ step' = "done"
  /\ UNCHANGED <<locals, driver>>

Next == WHEEL_GetSpeed \/ WHEEL_ControlSpeed \/ ToDriver \/ GetCRC \/ Send \/ Deliver

Spec == Init /\ [][Next]_vars

-----------------------------------------------------------------------------
Abs(x) == IF x < 0 THEN -x ELSE x
Turned == step = "speed" /\ Normal(angle) \in 0..360

\* Framing: for velocities up to 100 and brakes up to 127 only the first byte of
\* the packet has its top bit set, so that the controller never takes another
\* byte for the start of a packet.
Framed ==
  /\ step = "motor" /\ Abs(velocity) <= 100 /\ brake <= 127 =>
       \A m \in {"M0", "M1"} : motor[m].byte < 128
  /\ step = "line" => crc < 128

\* The quadrants fit together: one degree more or less changes a wheel by at
\* most 2.3 percent of the velocity and one unit of rounding, across every
\* boundary and also from 359 to 0 and from -1 to 0.
Smooth ==
  Turned =>
    LET next == GetSpeed(velocity, (Normal(angle) + 1) % 360)
        bound == 1 + CeilDiv(23 * Abs(velocity), 1000)
    IN Abs(next.left - leftSpeed) <= bound /\ Abs(next.right - rightSpeed) <= bound

\* Left and right mirrored: turning the stick about the forward axis exchanges
\* the wheels exactly, so the vehicle has no preferred side.
MirrorSymmetric ==
  Turned =>
    GetSpeed(velocity, (540 - Normal(angle)) % 360) = [left |-> rightSpeed, right |-> leftSpeed]

\* The table-driven loop computes at every byte the remainder of the division by
\* the polynomial that the table stands for.
TableIsRemainder == step = "crc" => crc = Remainders(packet.bytes)[i]

\* A packet whose CRC covers all of it is accepted exactly if it arrives as it
\* was sent; one or two flipped bits, those of the CRC included, never make the
\* motors do something else.
AcceptedIfIntact ==
  step = "done" /\ packet.covered = Len(packet.bytes) => (verdict = "accepted" <=> ~damaged)
=============================================================================
