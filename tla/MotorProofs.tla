---------------------------- MODULE MotorProofs ----------------------------
(* Theorems about Motor, for any velocities, angles, brakes and parameters. *)
EXTENDS Motor, WheelSpeedProofs, SequenceTheorems, WellFoundedInduction

Byte == 0..255
SevenBits == 0..127
Commands == [cmd : {"forward", "reverse", "brake"}, byte : Byte]

\* Each variable of the way to the line has its type.
TypeOK ==
  /\ step \in {"command", "speed", "motor", "crc", "line", "done"}
  /\ velocity \in Int /\ angle \in Int /\ brake \in Nat
  /\ leftSpeed \in Int /\ rightSpeed \in Int
  /\ motor \in [{"M0", "M1"} -> Commands]
  /\ packet.bytes \in Seq(Byte) /\ packet.covered \in 0..Len(packet.bytes)
  /\ i \in 0..packet.covered /\ crc \in SevenBits

\* The wheels' speeds, and the commands for both motors, are those of the command,
\* and the driver begins with its first byte.
FromCommand ==
  /\ step \in {"command", "speed", "motor"} => i = 0 /\ crc = 0
  /\ step = "speed" =>
       /\ brake = 0
       /\ leftSpeed = GetSpeed(velocity, angle).left
       /\ rightSpeed = GetSpeed(velocity, angle).right
  /\ step = "motor" =>
       IF brake > 0
         THEN motor = [M0 |-> BrakeCommand(brake), M1 |-> BrakeCommand(brake)]
         ELSE motor = [M0 |-> MotorCommand(GetSpeed(velocity, angle).left),
                       M1 |-> MotorCommand(GetSpeed(velocity, angle).right)]

\* The running value is the remainder of the bytes so far, through to the line; the
\* loop ends with the last byte it covers, and no packet that is covered whole has
\* more than five.
Divided ==
  /\ step \in {"crc", "line", "done"} => crc = Remainders(packet.bytes)[i]
  /\ step \in {"line", "done"} => i = packet.covered
  /\ packet.covered = Len(packet.bytes) => Len(packet.bytes) <= 5

\* The inductive invariant of Motor.
IInv == TypeOK /\ FromCommand /\ Divided /\ AcceptedIfIntact

-----------------------------------------------------------------------------
(* Speeds and commands of any size. *)

\* An angle beyond a full turn leaves the wheels alone.
LEMMA BeyondTurn ==
  ASSUME NEW v \in Int, NEW a \in Int, NEW b \in Int, b = Normal(a), b < 0 \/ 360 < b
  PROVE  GetSpeed(v, a) = [left |-> 0, right |-> 0]
<1> DEFINE n == Normal(a)
<1>1. n \in Int /\ n = b
  OBVIOUS
<1>2. /\ n # 90 /\ ~Within(n, 0, 90) /\ n \notin {0, 360} /\ ~Within(n, 90, 180)
      /\ n # 180 /\ ~Within(n, 180, 270) /\ n # 270 /\ ~Within(n, 270, 360)
  BY <1>1 DEF Within
<1> QED
  BY <1>2, Zenon DEF GetSpeed

\* Every speed is a whole number.
LEMMA SpeedInt ==
  ASSUME NEW v \in Int, NEW a \in Int
  PROVE  GetSpeed(v, a).left \in Int /\ GetSpeed(v, a).right \in Int
<1>1. PICK b \in Int : b = Normal(a)
  BY DEF Normal
<1>2. CASE b < 0 \/ 360 < b
  BY <1>1, <1>2, BeyondTurn
<1>3. CASE 0 <= b /\ b <= 360
  <2>1. IsSpeed(GetSpeed(v, a), v, b)
    BY <1>1, Arms
  <2>2. \A m \in Int, s \in {1, -1} : Turn(v, b, m, s) \in Int
    BY TurnRounded
  <2>3. /\ Turn(v, b, 45, 1) \in Int /\ Turn(v, b, 135, -1) \in Int
        /\ Turn(v, b, 225, -1) \in Int /\ Turn(v, b, 315, 1) \in Int
    BY <2>2
  <2>4. \/ b = 90 \/ Within(b, 0, 90) \/ b \in {0, 360} \/ Within(b, 90, 180) \/ b = 180
        \/ Within(b, 180, 270) \/ b = 270 \/ Within(b, 270, 360)
    BY <1>3 DEF Within
  <2> QED
    BY <2>1, <2>3, <2>4 DEF IsSpeed
<1> QED
  BY <1>2, <1>3

\* Velocities of up to 100 percent stay that, beyond a full turn too.
LEMMA AnySpeedRange ==
  ASSUME NEW v \in Int, -100 <= v, v <= 100, NEW a \in Int
  PROVE  InRange(GetSpeed(v, a).left) /\ InRange(GetSpeed(v, a).right)
<1>1. PICK b \in Int : b = Normal(a) /\ (b < 0 \/ 360 < b \/ (-360 <= a /\ a <= 360))
  BY SMT DEF Normal
<1>2. CASE b < 0 \/ 360 < b
  BY <1>1, <1>2, BeyondTurn DEF InRange
<1>3. CASE -360 <= a /\ a <= 360
  BY <1>3, SpeedRange
<1> QED
  BY <1>1, <1>2, <1>3

\* An angle that is in the full turn once it is not negative is at most one away.
LEMMA TurnedAngle ==
  ASSUME NEW a \in Int, Normal(a) \in 0..360
  PROVE  -360 <= a /\ a <= 360
<1>1. Normal(a) \in Int /\ 0 <= Normal(a) /\ Normal(a) <= 360
  BY SMT
<1> QED
  BY <1>1, SMT DEF Normal

\* Near, in terms of the absolute value.
LEMMA NearAbs ==
  ASSUME NEW x \in Int, NEW y \in Int, NEW v \in Int, Near(x, y, v)
  PROVE  Abs(x - y) <= 1 + CeilDiv(23 * Abs(v), 1000)
BY SMT DEF Near, Abs, CeilDiv

\* The commands for both motors are commands.
LEMMA CommandType ==
  ASSUME NEW s \in Int
  PROVE  MotorCommand(s) \in Commands
<1>1. CASE s > 0
  <2>1. ~(s < 0)
    BY <1>1
  <2>2. MotorCommand(s) = [cmd |-> "forward", byte |-> TruncDiv(127 * s, 100) % 256]
    BY <1>1, <2>1, Zenon DEF MotorCommand
  <2>3. TruncDiv(127 * s, 100) % 256 \in Byte
    BY <1>1 DEF TruncDiv, Byte
  <2> QED
    BY <2>2, <2>3 DEF Commands
<1>2. CASE s < 0
  <2>1. ~(s > 0)
    BY <1>2
  <2>2. MotorCommand(s) = [cmd |-> "reverse", byte |-> TruncDiv(127 * (-s), 100) % 256]
    BY <1>2, <2>1, Zenon DEF MotorCommand
  <2>3. TruncDiv(127 * (-s), 100) % 256 \in Byte
    BY <1>2 DEF TruncDiv, Byte
  <2> QED
    BY <2>2, <2>3 DEF Commands
<1>3. CASE s = 0
  <2>1. ~(s > 0) /\ ~(s < 0)
    BY <1>3
  <2>2. MotorCommand(s) = [cmd |-> "brake", byte |-> 0]
    BY <2>1, Zenon DEF MotorCommand
  <2> QED
    BY <2>2 DEF Commands, Byte
<1> QED
  BY <1>1, <1>2, <1>3

LEMMA BrakeType ==
  ASSUME NEW s \in Nat
  PROVE  BrakeCommand(s) \in Commands /\ (s < 128 => BrakeCommand(s).byte < 128)
BY DEF BrakeCommand, Commands, Byte

-----------------------------------------------------------------------------
(* Exclusive or, bit by bit. *)

\* The bit of x at a place, a power of two.
Bit(x, p) == (x \div p) % 2
Places == {1, 2, 4, 8, 16, 32, 64, 128}

LEMMA BitValue ==
  ASSUME NEW x \in Int, NEW p \in Places
  PROVE  Bit(x, p) \in {0, 1}
BY SMT DEF Bit, Places

\* A byte is the sum of its bits.
LEMMA FromBits ==
  ASSUME NEW x \in Byte
  PROVE  x = Bit(x, 1) + 2 * Bit(x, 2) + 4 * Bit(x, 4) + 8 * Bit(x, 8)
               + 16 * Bit(x, 16) + 32 * Bit(x, 32) + 64 * Bit(x, 64) + 128 * Bit(x, 128)
BY SMTT(60) DEF Bit, Byte

\* Any eight bits are those of their sum.
LEMMA ToBits ==
  ASSUME NEW a \in {0, 1}, NEW b \in {0, 1}, NEW c \in {0, 1}, NEW d \in {0, 1},
         NEW e \in {0, 1}, NEW f \in {0, 1}, NEW g \in {0, 1}, NEW h \in {0, 1},
         NEW x, x = a + 2 * b + 4 * c + 8 * d + 16 * e + 32 * f + 64 * g + 128 * h
  PROVE  /\ x \in Byte
         /\ Bit(x, 1) = a /\ Bit(x, 2) = b /\ Bit(x, 4) = c /\ Bit(x, 8) = d
         /\ Bit(x, 16) = e /\ Bit(x, 32) = f /\ Bit(x, 64) = g /\ Bit(x, 128) = h
BY SMTT(60) DEF Bit, Byte

\* Bytes with the same bits are the same.
LEMMA SameBits ==
  ASSUME NEW x \in Byte, NEW y \in Byte, \A p \in Places : Bit(x, p) = Bit(y, p)
  PROVE  x = y
<1>1. /\ Bit(x, 1) = Bit(y, 1) /\ Bit(x, 2) = Bit(y, 2) /\ Bit(x, 4) = Bit(y, 4)
      /\ Bit(x, 8) = Bit(y, 8) /\ Bit(x, 16) = Bit(y, 16) /\ Bit(x, 32) = Bit(y, 32)
      /\ Bit(x, 64) = Bit(y, 64) /\ Bit(x, 128) = Bit(y, 128)
  BY SMT DEF Places
<1> QED
  BY <1>1, FromBits, SMT

\* The sum that Exor looks up.
LEMMA SumBits ==
  ASSUME NEW a \in Int, NEW b \in Int
  PROVE  /\ Sum8(a, b) \in Byte
         /\ \A p \in Places : Bit(Sum8(a, b), p) = (Bit(a, p) + Bit(b, p)) % 2
<1> DEFINE s(p) == (Bit(a, p) + Bit(b, p)) % 2
<1>1. \A p \in Places : s(p) \in {0, 1} /\ Differ(a, b, p) = p * s(p)
  <2> SUFFICES ASSUME NEW p \in Places PROVE s(p) \in {0, 1} /\ Differ(a, b, p) = p * s(p)
    OBVIOUS
  <2>1. Bit(a, p) \in {0, 1} /\ Bit(b, p) \in {0, 1}
    BY BitValue
  <2>2. Differ(a, b, p) = IF Bit(a, p) = Bit(b, p) THEN 0 ELSE p
    BY DEF Differ, Bit
  <2>3. p \in Int
    BY SMT DEF Places
  <2> QED
    BY <2>1, <2>2, <2>3, SMT
<1> HIDE DEF s
<1>2. /\ s(1) \in {0, 1} /\ s(2) \in {0, 1} /\ s(4) \in {0, 1} /\ s(8) \in {0, 1}
      /\ s(16) \in {0, 1} /\ s(32) \in {0, 1} /\ s(64) \in {0, 1} /\ s(128) \in {0, 1}
  BY <1>1, SMT DEF Places
<1>3. /\ Differ(a, b, 1) = 1 * s(1) /\ Differ(a, b, 2) = 2 * s(2)
      /\ Differ(a, b, 4) = 4 * s(4) /\ Differ(a, b, 8) = 8 * s(8)
      /\ Differ(a, b, 16) = 16 * s(16) /\ Differ(a, b, 32) = 32 * s(32)
      /\ Differ(a, b, 64) = 64 * s(64) /\ Differ(a, b, 128) = 128 * s(128)
  BY <1>1, SMT DEF Places
<1>4. Sum8(a, b) = s(1) + 2 * s(2) + 4 * s(4) + 8 * s(8)
                     + 16 * s(16) + 32 * s(32) + 64 * s(64) + 128 * s(128)
  BY <1>2, <1>3, SMT DEF Sum8
<1>5. /\ Sum8(a, b) \in Byte
      /\ Bit(Sum8(a, b), 1) = s(1) /\ Bit(Sum8(a, b), 2) = s(2)
      /\ Bit(Sum8(a, b), 4) = s(4) /\ Bit(Sum8(a, b), 8) = s(8)
      /\ Bit(Sum8(a, b), 16) = s(16) /\ Bit(Sum8(a, b), 32) = s(32)
      /\ Bit(Sum8(a, b), 64) = s(64) /\ Bit(Sum8(a, b), 128) = s(128)
  BY <1>2, <1>4, ToBits
<1>6. \A p \in Places : Bit(Sum8(a, b), p) = s(p)
  BY <1>5, SMT DEF Places
<1> QED
  BY <1>5, <1>6 DEF s

\* What Exor finds in its table.
LEMMA Copied ==
  ASSUME NEW n \in Nat, NEW All \in [1..n -> Byte], NEW k \in 1..n
  PROVE  SubSeq(All, 1, n)[k] = All[k]
<1>1. All \in Seq(Byte) /\ Len(All) = n
  BY SMT
<1> QED
  BY <1>1, SMT

LEMMA ExorSum ==
  ASSUME NEW a \in Byte, NEW b \in Byte
  PROVE  Exor(a, b) = Sum8(a, b)
<1> DEFINE All == [n \in 1..Pairs |-> Sum8((n - 1) \div 256, (n - 1) % 256)]
<1>1. Pairs \in Nat
  BY SMT DEF Pairs
<1>2. All \in [1..Pairs -> Byte]
  <2> SUFFICES ASSUME NEW n \in 1..Pairs
               PROVE  Sum8((n - 1) \div 256, (n - 1) % 256) \in Byte
    BY SMT
  <2>1. (n - 1) \div 256 \in Int /\ (n - 1) % 256 \in Int
    BY <1>1, SMT
  <2> QED
    BY <2>1, SumBits, SMT
<1>3. PICK k \in Int : /\ k = 256 * a + b + 1 /\ 1 <= k /\ k <= Pairs
                       /\ (k - 1) \div 256 = a /\ (k - 1) % 256 = b
  <2>1. a \in Int /\ 0 <= a /\ a <= 255 /\ b \in Int /\ 0 <= b /\ b <= 255
    BY SMT DEF Byte
  <2> QED
    BY <2>1, SMT DEF Pairs
<1>4. Exor(a, b) = SubSeq(All, 1, Pairs)[k]
  BY <1>3, SMT DEF Exor, XorTable
<1>5. k \in 1..Pairs
  BY <1>1, <1>3, SMT
<1>6. All[k] = Sum8(a, b)
  BY <1>3, <1>5, Zenon
<1> HIDE DEF All
<1> QED
  BY <1>1, <1>2, <1>4, <1>5, <1>6, Copied

\* The exclusive or of two bytes is a byte, and its bits are those of both.
LEMMA ExorBits ==
  ASSUME NEW a \in Byte, NEW b \in Byte
  PROVE  /\ Exor(a, b) \in Byte
         /\ \A p \in Places : Bit(Exor(a, b), p) = (Bit(a, p) + Bit(b, p)) % 2
<1>1. a \in Int /\ b \in Int
  BY SMT DEF Byte
<1> QED
  BY <1>1, ExorSum, SumBits

\* Exclusive or commutes, associates, and a byte cancels itself.
LEMMA ExorCommutes ==
  ASSUME NEW a \in Byte, NEW b \in Byte
  PROVE  Exor(a, b) = Exor(b, a)
<1>1. ASSUME NEW p \in Places PROVE Bit(Exor(a, b), p) = Bit(Exor(b, a), p)
  <2>1. Bit(a, p) \in {0, 1} /\ Bit(b, p) \in {0, 1}
    BY BitValue, SMT DEF Byte
  <2> QED
    BY <2>1, ExorBits, SMT
<1> QED
  BY <1>1, ExorBits, SameBits

LEMMA ExorAssociates ==
  ASSUME NEW a \in Byte, NEW b \in Byte, NEW c \in Byte
  PROVE  Exor(Exor(a, b), c) = Exor(a, Exor(b, c))
<1>1. Exor(a, b) \in Byte /\ Exor(b, c) \in Byte
  BY ExorBits
<1>2. ASSUME NEW p \in Places PROVE Bit(Exor(Exor(a, b), c), p) = Bit(Exor(a, Exor(b, c)), p)
  <2>1. Bit(a, p) \in {0, 1} /\ Bit(b, p) \in {0, 1} /\ Bit(c, p) \in {0, 1}
    BY BitValue, SMT DEF Byte
  <2>2. /\ Bit(Exor(a, b), p) = (Bit(a, p) + Bit(b, p)) % 2
        /\ Bit(Exor(b, c), p) = (Bit(b, p) + Bit(c, p)) % 2
        /\ Bit(Exor(Exor(a, b), c), p) = (Bit(Exor(a, b), p) + Bit(c, p)) % 2
        /\ Bit(Exor(a, Exor(b, c)), p) = (Bit(a, p) + Bit(Exor(b, c), p)) % 2
    BY <1>1, ExorBits
  <2> QED
    BY <2>1, <2>2, SMT
<1> QED
  BY <1>1, <1>2, ExorBits, SameBits

LEMMA ExorCancels ==
  ASSUME NEW a \in Byte, NEW b \in Byte
  PROVE  /\ Exor(a, 0) = a
         /\ Exor(a, b) = 0 <=> a = b
<1>1. 0 \in Byte /\ \A p \in Places : Bit(0, p) = 0
  BY SMT DEF Byte, Bit, Places
<1>2. ASSUME NEW p \in Places PROVE Bit(Exor(a, 0), p) = Bit(a, p)
  <2>1. Bit(a, p) \in {0, 1}
    BY BitValue, SMT DEF Byte
  <2> QED
    BY <1>1, <2>1, ExorBits, SMT
<1>3. Exor(a, 0) = a
  BY <1>1, <1>2, ExorBits, SameBits
<1>4. \A p \in Places : /\ Bit(a, p) \in {0, 1} /\ Bit(b, p) \in {0, 1}
                        /\ Bit(Exor(a, b), p) = (Bit(a, p) + Bit(b, p)) % 2
  <2>1. a \in Int /\ b \in Int
    BY SMT DEF Byte
  <2> QED
    BY <2>1, BitValue, ExorBits
<1>5. ASSUME a = b PROVE Exor(a, b) = 0
  <2>1. ASSUME NEW p \in Places PROVE Bit(Exor(a, b), p) = Bit(0, p)
    BY <1>1, <1>4, <1>5, <2>1, SMT
  <2> QED
    BY <1>1, <2>1, ExorBits, SameBits
<1>6. ASSUME Exor(a, b) = 0 PROVE a = b
  <2>1. ASSUME NEW p \in Places PROVE Bit(a, p) = Bit(b, p)
    <3>1. (Bit(a, p) + Bit(b, p)) % 2 = 0 /\ Bit(a, p) \in {0, 1} /\ Bit(b, p) \in {0, 1}
      BY <1>1, <1>4, <1>6
    <3> QED
      BY <3>1, SMT
  <2> QED
    BY <2>1, SameBits
<1> QED
  BY <1>3, <1>5, <1>6

-----------------------------------------------------------------------------
(* Division by the polynomial. *)

\* Byte x has these bits, the lowest first.
HasBits(x, a, b, c, d, e, f, g, h) ==
  /\ x \in Byte
  /\ Bit(x, 1) = a /\ Bit(x, 2) = b /\ Bit(x, 4) = c /\ Bit(x, 8) = d
  /\ Bit(x, 16) = e /\ Bit(x, 32) = f /\ Bit(x, 64) = g /\ Bit(x, 128) = h

LEMMA BitsOf ==
  ASSUME NEW x \in Byte
  PROVE  HasBits(x, Bit(x, 1), Bit(x, 2), Bit(x, 4), Bit(x, 8),
                    Bit(x, 16), Bit(x, 32), Bit(x, 64), Bit(x, 128))
BY DEF HasBits

\* Half of a byte has the bits of the byte, shifted.
LEMMA HalfBits ==
  ASSUME NEW z \in Byte
  PROVE  HasBits(z \div 2, Bit(z, 2), Bit(z, 4), Bit(z, 8), Bit(z, 16), Bit(z, 32), Bit(z, 64),
                 Bit(z, 128), 0)
<1>1. z \in Int
  BY SMT DEF Byte
<1>2. /\ Bit(z, 1) \in {0, 1} /\ Bit(z, 2) \in {0, 1} /\ Bit(z, 4) \in {0, 1} /\ Bit(z, 8) \in {0, 1}
      /\ Bit(z, 16) \in {0, 1} /\ Bit(z, 32) \in {0, 1} /\ Bit(z, 64) \in {0, 1}
      /\ Bit(z, 128) \in {0, 1} /\ 0 \in {0, 1}
  BY <1>1, BitValue, SMT DEF Places
<1>3. PICK y \in Int : y = z \div 2
  BY <1>1, SMT
<1>4. y = Bit(z, 2) + 2 * Bit(z, 4) + 4 * Bit(z, 8) + 8 * Bit(z, 16) + 16 * Bit(z, 32)
            + 32 * Bit(z, 64) + 64 * Bit(z, 128) + 128 * 0
  BY <1>2, <1>3, FromBits, SMT
<1>5. HasBits(y, Bit(z, 2), Bit(z, 4), Bit(z, 8), Bit(z, 16), Bit(z, 32), Bit(z, 64),
              Bit(z, 128), 0)
  BY <1>2, <1>4, ToBits DEF HasBits
<1> QED
  BY <1>3, <1>5

\* One step of the division shifts the bits, and a lowest bit that is set is
\* subtracted at the places of the polynomial.
LEMMA HalveBits ==
  ASSUME NEW x, NEW a \in {0, 1}, NEW b \in {0, 1}, NEW c \in {0, 1}, NEW d \in {0, 1},
         NEW e \in {0, 1}, NEW f \in {0, 1}, NEW g \in {0, 1}, NEW h \in {0, 1},
         HasBits(x, a, b, c, d, e, f, g, h)
  PROVE  HasBits(Halve(x), b, c, d, (e + a) % 2, f, g, (h + a) % 2, 0)
<1> DEFINE z == IF x % 2 = 1 THEN Exor(x, 145) ELSE x
<1>1. x \in Byte /\ x \in Int /\ x % 2 = a
  BY SMT DEF HasBits, Byte, Bit
<1>2. /\ z \in Byte
      /\ Bit(z, 2) = b /\ Bit(z, 4) = c /\ Bit(z, 8) = d /\ Bit(z, 16) = (e + a) % 2
      /\ Bit(z, 32) = f /\ Bit(z, 64) = g /\ Bit(z, 128) = (h + a) % 2
  <2>1. CASE a = 0
    <3>1. z = x
      BY <1>1, <2>1
    <3>2. (e + a) % 2 = e /\ (h + a) % 2 = h
      BY <2>1, SMT
    <3> QED
      BY <3>1, <3>2 DEF HasBits
  <2>2. CASE a = 1
    <3>1. z = Exor(x, 145)
      BY <1>1, <2>2
    <3>2. /\ 145 \in Byte
          /\ Bit(145, 2) = 0 /\ Bit(145, 4) = 0 /\ Bit(145, 8) = 0 /\ Bit(145, 16) = 1
          /\ Bit(145, 32) = 0 /\ Bit(145, 64) = 0 /\ Bit(145, 128) = 1
      BY SMT DEF Byte, Bit
    <3>3. z \in Byte /\ \A p \in Places : Bit(z, p) = (Bit(x, p) + Bit(145, p)) % 2
      BY <1>1, <3>1, <3>2, ExorBits, SMT
    <3>4. /\ Bit(z, 2) = (b + 0) % 2 /\ Bit(z, 4) = (c + 0) % 2 /\ Bit(z, 8) = (d + 0) % 2
          /\ Bit(z, 16) = (e + 1) % 2 /\ Bit(z, 32) = (f + 0) % 2 /\ Bit(z, 64) = (g + 0) % 2
          /\ Bit(z, 128) = (h + 1) % 2
      BY <3>2, <3>3, SMT DEF HasBits, Places
    <3>5. /\ (b + 0) % 2 = b /\ (c + 0) % 2 = c /\ (d + 0) % 2 = d
          /\ (f + 0) % 2 = f /\ (g + 0) % 2 = g
      BY SMT
    <3> QED
      BY <2>2, <3>3, <3>4, <3>5
  <2> QED
    BY <2>1, <2>2
<1>3. Halve(x) = z \div 2
  BY DEF Halve
<1> HIDE DEF z
<1>4. HasBits(z \div 2, Bit(z, 2), Bit(z, 4), Bit(z, 8), Bit(z, 16), Bit(z, 32), Bit(z, 64),
              Bit(z, 128), 0)
  BY <1>2, HalfBits
<1> QED
  BY <1>2, <1>3, <1>4 DEF HasBits

\* A sum of bits modulo 2 is a bit.
LEMMA Parity ==
  ASSUME NEW x \in Int
  PROVE  x % 2 \in {0, 1}
BY SMT

\* Eight steps: each bit of the remainder is the sum of these bits.
LEMMA DivideBits ==
  ASSUME NEW x, NEW a \in {0, 1}, NEW b \in {0, 1}, NEW c \in {0, 1}, NEW d \in {0, 1},
         NEW e \in {0, 1}, NEW f \in {0, 1}, NEW g \in {0, 1}, NEW h \in {0, 1},
         HasBits(x, a, b, c, d, e, f, g, h)
  PROVE  HasBits(Divide(x),
                 (a + b + e) % 2, (b + c + f) % 2, (c + d + g) % 2, (d + e + h) % 2,
                 (b + f) % 2, (c + g) % 2, (a + d + h) % 2, 0)
<1> DEFINE x1 == Halve(x)
           x2 == Halve(x1)
           x3 == Halve(x2)
           x4 == Halve(x3)
           x5 == Halve(x4)
           x6 == Halve(x5)
           x7 == Halve(x6)
           x8 == Halve(x7)
<1>0. Divide(x) = x8
  BY DEF Divide
<1> HIDE DEF x1, x2, x3, x4, x5, x6, x7, x8
<1>a. /\ (e + a) % 2 \in {0, 1} /\ (h + a) % 2 \in {0, 1} /\ (f + b) % 2 \in {0, 1}
      /\ (g + c) % 2 \in {0, 1} /\ (h + a + d) % 2 \in {0, 1} /\ (a + b + e) % 2 \in {0, 1}
      /\ (b + c + f) % 2 \in {0, 1} /\ (c + d + g) % 2 \in {0, 1}
      /\ 0 \in {0, 1}
  BY Parity, SMT
<1>1. HasBits(x1, b, c, d, (e + a) % 2, f, g, (h + a) % 2, 0)
  BY HalveBits DEF x1
<1>2. HasBits(x2, c, d, (e + a) % 2, (f + b) % 2, g, (h + a) % 2, b, 0)
  <2>1. HasBits(x2, c, d, (e + a) % 2, (f + b) % 2, g, (h + a) % 2, (0 + b) % 2, 0)
    BY <1>1, <1>a, HalveBits DEF x2
  <2> QED
    BY <2>1, SMT
<1>3. HasBits(x3, d, (e + a) % 2, (f + b) % 2, (g + c) % 2, (h + a) % 2, b, c, 0)
  <2>1. HasBits(x3, d, (e + a) % 2, (f + b) % 2, (g + c) % 2, (h + a) % 2, b, (0 + c) % 2, 0)
    BY <1>2, <1>a, HalveBits DEF x3
  <2> QED
    BY <2>1, SMT
<1>4. HasBits(x4, (e + a) % 2, (f + b) % 2, (g + c) % 2, (h + a + d) % 2, b, c, d, 0)
  <2>1. HasBits(x4, (e + a) % 2, (f + b) % 2, (g + c) % 2, (((h + a) % 2) + d) % 2, b, c, (0 + d) % 2, 0)
    BY <1>3, <1>a, HalveBits DEF x4
  <2>2. (((h + a) % 2) + d) % 2 = (h + a + d) % 2 /\ (0 + d) % 2 = d
    BY SMT
  <2> QED
    BY <2>1, <2>2
<1>5. HasBits(x5, (f + b) % 2, (g + c) % 2, (h + a + d) % 2, (a + b + e) % 2, c, d, (e + a) % 2, 0)
  <2>1. HasBits(x5, (f + b) % 2, (g + c) % 2, (h + a + d) % 2, (b + ((e + a) % 2)) % 2, c, d,
                (0 + ((e + a) % 2)) % 2, 0)
    BY <1>4, <1>a, HalveBits DEF x5
  <2>2. (b + ((e + a) % 2)) % 2 = (a + b + e) % 2 /\ (0 + ((e + a) % 2)) % 2 = (e + a) % 2
    BY SMT
  <2> QED
    BY <2>1, <2>2
<1>6. HasBits(x6, (g + c) % 2, (h + a + d) % 2, (a + b + e) % 2, (b + c + f) % 2, d, (e + a) % 2,
              (f + b) % 2, 0)
  <2>1. HasBits(x6, (g + c) % 2, (h + a + d) % 2, (a + b + e) % 2, (c + ((f + b) % 2)) % 2, d,
                (e + a) % 2, (0 + ((f + b) % 2)) % 2, 0)
    BY <1>5, <1>a, HalveBits DEF x6
  <2>2. (c + ((f + b) % 2)) % 2 = (b + c + f) % 2 /\ (0 + ((f + b) % 2)) % 2 = (f + b) % 2
    BY SMT
  <2> QED
    BY <2>1, <2>2
<1>7. HasBits(x7, (h + a + d) % 2, (a + b + e) % 2, (b + c + f) % 2, (c + d + g) % 2, (e + a) % 2,
              (f + b) % 2, (g + c) % 2, 0)
  <2>1. HasBits(x7, (h + a + d) % 2, (a + b + e) % 2, (b + c + f) % 2, (d + ((g + c) % 2)) % 2,
                (e + a) % 2, (f + b) % 2, (0 + ((g + c) % 2)) % 2, 0)
    BY <1>6, <1>a, HalveBits DEF x7
  <2>2. (d + ((g + c) % 2)) % 2 = (c + d + g) % 2 /\ (0 + ((g + c) % 2)) % 2 = (g + c) % 2
    BY SMT
  <2> QED
    BY <2>1, <2>2
<1>8. HasBits(x8, (a + b + e) % 2, (b + c + f) % 2, (c + d + g) % 2, (d + e + h) % 2,
              (b + f) % 2, (c + g) % 2, (a + d + h) % 2, 0)
  <2>1. HasBits(x8, (a + b + e) % 2, (b + c + f) % 2, (c + d + g) % 2, (((e + a) % 2) + ((h + a + d) % 2)) % 2,
                (f + b) % 2, (g + c) % 2, (0 + ((h + a + d) % 2)) % 2, 0)
    BY <1>7, <1>a, HalveBits DEF x8
  <2>2. /\ (((e + a) % 2) + ((h + a + d) % 2)) % 2 = (d + e + h) % 2
        /\ (f + b) % 2 = (b + f) % 2 /\ (g + c) % 2 = (c + g) % 2
        /\ (0 + ((h + a + d) % 2)) % 2 = (a + d + h) % 2
    BY SMT
  <2> QED
    BY <2>1, <2>2
<1> QED
  BY <1>0, <1>8

\* What those bits amount to.
Remainder(x) ==
  ((Bit(x, 1) + Bit(x, 2) + Bit(x, 16)) % 2)
    + 2 * ((Bit(x, 2) + Bit(x, 4) + Bit(x, 32)) % 2)
    + 4 * ((Bit(x, 4) + Bit(x, 8) + Bit(x, 64)) % 2)
    + 8 * ((Bit(x, 8) + Bit(x, 16) + Bit(x, 128)) % 2)
    + 16 * ((Bit(x, 2) + Bit(x, 32)) % 2)
    + 32 * ((Bit(x, 4) + Bit(x, 64)) % 2)
    + 64 * ((Bit(x, 1) + Bit(x, 8) + Bit(x, 128)) % 2)

\* The table holds that for every byte.
LEMMA TableValue ==
  ASSUME NEW x \in Int, 0 <= x, x <= 255
  PROVE  CRC_Table[x + 1] = Remainder(x)
<1>1. ASSUME 0 <= x, x <= 63 PROVE CRC_Table[x + 1] = Remainder(x)
  BY <1>1, SMTT(60) DEF CRC_Table, Remainder, Bit
<1>2. ASSUME 64 <= x, x <= 127 PROVE CRC_Table[x + 1] = Remainder(x)
  BY <1>2, SMTT(60) DEF CRC_Table, Remainder, Bit
<1>3. ASSUME 128 <= x, x <= 191 PROVE CRC_Table[x + 1] = Remainder(x)
  BY <1>3, SMTT(60) DEF CRC_Table, Remainder, Bit
<1>4. ASSUME 192 <= x, x <= 255 PROVE CRC_Table[x + 1] = Remainder(x)
  BY <1>4, SMTT(60) DEF CRC_Table, Remainder, Bit
<1> QED
  BY <1>1, <1>2, <1>3, <1>4, SMT

\* The table is the division by the polynomial, and its bits are those sums.
LEMMA TableIsDivision ==
  ASSUME NEW x \in Byte
  PROVE  /\ CRC_Table[x + 1] = Divide(x)
         /\ HasBits(Divide(x),
              (Bit(x, 1) + Bit(x, 2) + Bit(x, 16)) % 2, (Bit(x, 2) + Bit(x, 4) + Bit(x, 32)) % 2,
              (Bit(x, 4) + Bit(x, 8) + Bit(x, 64)) % 2, (Bit(x, 8) + Bit(x, 16) + Bit(x, 128)) % 2,
              (Bit(x, 2) + Bit(x, 32)) % 2, (Bit(x, 4) + Bit(x, 64)) % 2,
              (Bit(x, 1) + Bit(x, 8) + Bit(x, 128)) % 2, 0)
<1>1. x \in Int /\ 0 <= x /\ x <= 255
  BY SMT DEF Byte
<1>2. /\ Bit(x, 1) \in {0, 1} /\ Bit(x, 2) \in {0, 1} /\ Bit(x, 4) \in {0, 1} /\ Bit(x, 8) \in {0, 1}
      /\ Bit(x, 16) \in {0, 1} /\ Bit(x, 32) \in {0, 1} /\ Bit(x, 64) \in {0, 1}
      /\ Bit(x, 128) \in {0, 1}
  BY <1>1, BitValue, SMT DEF Places
<1>3. HasBits(Divide(x),
              (Bit(x, 1) + Bit(x, 2) + Bit(x, 16)) % 2, (Bit(x, 2) + Bit(x, 4) + Bit(x, 32)) % 2,
              (Bit(x, 4) + Bit(x, 8) + Bit(x, 64)) % 2, (Bit(x, 8) + Bit(x, 16) + Bit(x, 128)) % 2,
              (Bit(x, 2) + Bit(x, 32)) % 2, (Bit(x, 4) + Bit(x, 64)) % 2,
              (Bit(x, 1) + Bit(x, 8) + Bit(x, 128)) % 2, 0)
  BY <1>2, BitsOf, DivideBits
<1>4. Divide(x) = Remainder(x)
  <2>1. Divide(x) \in Byte
    BY <1>3 DEF HasBits
  <2>2. Divide(x) = Bit(Divide(x), 1) + 2 * Bit(Divide(x), 2) + 4 * Bit(Divide(x), 4)
               + 8 * Bit(Divide(x), 8) + 16 * Bit(Divide(x), 16) + 32 * Bit(Divide(x), 32)
               + 64 * Bit(Divide(x), 64) + 128 * Bit(Divide(x), 128)
    BY <2>1, FromBits
  <2> QED
    BY <1>2, <1>3, <2>2, SMT DEF HasBits, Remainder
<1> QED
  BY <1>1, <1>3, <1>4, TableValue

\* The sum of sums of bits.
LEMMA SumOfSums ==
  ASSUME NEW a \in {0, 1}, NEW b \in {0, 1}, NEW c \in {0, 1},
         NEW u \in {0, 1}, NEW v \in {0, 1}, NEW w \in {0, 1}
  PROVE  /\ (((a + u) % 2) + ((b + v) % 2)) % 2 = (((a + b) % 2) + ((u + v) % 2)) % 2
         /\ (((a + u) % 2) + ((b + v) % 2) + ((c + w) % 2)) % 2
              = (((a + b + c) % 2) + ((u + v + w) % 2)) % 2
BY SMT

\* Division keeps to seven bits, and it is linear.
LEMMA DivideRange ==
  ASSUME NEW x \in Byte
  PROVE  Divide(x) \in SevenBits /\ Divide(x) \in Byte
<1>1. Divide(x) \in Byte /\ Bit(Divide(x), 128) = 0
  BY TableIsDivision DEF HasBits
<1> QED
  BY <1>1, SMT DEF Bit, Byte, SevenBits

LEMMA DivideLinear ==
  ASSUME NEW x \in Byte, NEW y \in Byte
  PROVE  Divide(Exor(x, y)) = Exor(Divide(x), Divide(y))
<1> DEFINE z == Exor(x, y)
<1>1. z \in Byte /\ \A p \in Places : Bit(z, p) = (Bit(x, p) + Bit(y, p)) % 2
  BY ExorBits
<1>2. \A p \in Places : Bit(x, p) \in {0, 1} /\ Bit(y, p) \in {0, 1}
  BY BitValue, SMT DEF Byte
<1>3. /\ Divide(x) \in Byte /\ Divide(y) \in Byte /\ Divide(z) \in Byte
  BY <1>1, DivideRange
<1>4. /\ Exor(Divide(x), Divide(y)) \in Byte
      /\ \A p \in Places :
           Bit(Exor(Divide(x), Divide(y)), p) = (Bit(Divide(x), p) + Bit(Divide(y), p)) % 2
  BY <1>3, ExorBits
<1> HIDE DEF z
<1>5. ASSUME NEW p \in Places
      PROVE  Bit(Divide(z), p) = (Bit(Divide(x), p) + Bit(Divide(y), p)) % 2
  <2> DEFINE Two(u, r, s) == (Bit(u, r) + Bit(u, s)) % 2
             Three(u, r, s, t) == (Bit(u, r) + Bit(u, s) + Bit(u, t)) % 2
  <2>1. \A r, s, t \in Places :
          /\ Two(z, r, s) = (Two(x, r, s) + Two(y, r, s)) % 2
          /\ Three(z, r, s, t) = (Three(x, r, s, t) + Three(y, r, s, t)) % 2
    BY <1>1, <1>2, SumOfSums
  <2>2. ASSUME NEW u \in Byte
        PROVE  /\ Bit(Divide(u), 1) = Three(u, 1, 2, 16) /\ Bit(Divide(u), 2) = Three(u, 2, 4, 32)
               /\ Bit(Divide(u), 4) = Three(u, 4, 8, 64) /\ Bit(Divide(u), 8) = Three(u, 8, 16, 128)
               /\ Bit(Divide(u), 16) = Two(u, 2, 32) /\ Bit(Divide(u), 32) = Two(u, 4, 64)
               /\ Bit(Divide(u), 64) = Three(u, 1, 8, 128) /\ Bit(Divide(u), 128) = 0
    BY TableIsDivision DEF HasBits
  <2> HIDE DEF Two, Three
  <2>3. /\ 1 \in Places /\ 2 \in Places /\ 4 \in Places /\ 8 \in Places
        /\ 16 \in Places /\ 32 \in Places /\ 64 \in Places /\ 128 \in Places
    BY DEF Places
  <2>4. /\ Three(z, 1, 2, 16) = (Three(x, 1, 2, 16) + Three(y, 1, 2, 16)) % 2
        /\ Three(z, 2, 4, 32) = (Three(x, 2, 4, 32) + Three(y, 2, 4, 32)) % 2
        /\ Three(z, 4, 8, 64) = (Three(x, 4, 8, 64) + Three(y, 4, 8, 64)) % 2
        /\ Three(z, 8, 16, 128) = (Three(x, 8, 16, 128) + Three(y, 8, 16, 128)) % 2
        /\ Two(z, 2, 32) = (Two(x, 2, 32) + Two(y, 2, 32)) % 2
        /\ Two(z, 4, 64) = (Two(x, 4, 64) + Two(y, 4, 64)) % 2
        /\ Three(z, 1, 8, 128) = (Three(x, 1, 8, 128) + Three(y, 1, 8, 128)) % 2
        /\ 0 = (0 + 0) % 2
    BY <2>1, <2>3, SMT
  <2>5. p \in {1, 2, 4, 8, 16, 32, 64, 128}
    BY DEF Places
  <2> QED
    BY <1>1, <2>2, <2>4, <2>5, SMT
<1>6. \A p \in Places : Bit(Divide(z), p) = Bit(Exor(Divide(x), Divide(y)), p)
  BY <1>4, <1>5
<1>7. Divide(z) = Exor(Divide(x), Divide(y))
  BY <1>3, <1>4, <1>6, SameBits
<1> QED
  BY <1>7 DEF z

\* A step of the loop is a step of the division.
LEMMA NextCRCDivides ==
  ASSUME NEW c \in SevenBits, NEW byte \in Byte
  PROVE  NextCRC(c, byte) = Divide(Exor(c, byte)) /\ NextCRC(c, byte) \in SevenBits
<1>1. c \in Byte
  BY SMT DEF Byte, SevenBits
<1>2. Exor(c, byte) \in Byte
  BY <1>1, ExorBits
<1> QED
  BY <1>2, TableIsDivision, DivideRange DEF NextCRC

-----------------------------------------------------------------------------
(* The loop over the bytes. *)

\* An element of a sequence.
LEMMA Entry ==
  ASSUME NEW S, NEW table \in Seq(S), NEW k \in 1..Len(table)
  PROVE  table[k] \in S
OBVIOUS

\* Induction over the rounds of a loop, for a set of rounds.
LEMMA Rounds ==
  ASSUME NEW n \in Nat, NEW S, 0 \in S, \A k \in 1..n : k - 1 \in S => k \in S
  PROVE  \A k \in 0..n : k \in S
<1> DEFINE T == {k \in 0..n : k \notin S}
<1> SUFFICES ASSUME T # {} PROVE FALSE
  OBVIOUS
<1>1. \E x \in T : \A y \in T : x <= y
  <2> DEFINE R == OpToRel(<, Nat)
  <2>1. \E x \in T : \A y \in T : ~ (<<y, x>> \in R)
    <3> HIDE DEF R
    <3>1. IsWellFoundedOn(R, Nat)
      BY NatLessThanWellFounded DEF R
    <3>2. T \subseteq Nat
      OBVIOUS
    <3> HIDE DEF T
    <3> QED
      BY <3>1, <3>2, WFMin
  <2>2. \A x, y \in Nat : y < x => <<y, x>> \in R
    BY DEF OpToRel
  <2> HIDE DEF R
  <2>3. PICK x \in T : \A y \in T : ~ (<<y, x>> \in R)
    BY <2>1
  <2>4. \A y \in T : x \in Nat /\ y \in Nat /\ ~ (y < x)
    <3>1. T \subseteq Nat
      OBVIOUS
    <3> HIDE DEF T
    <3> QED
      BY <2>2, <2>3, <3>1
  <2>5. \A y \in T : x <= y
    BY <2>4
  <2> QED
    BY <2>5
<1>2. PICK x \in T : \A y \in T : x <= y
  BY <1>1
<1>3. x \in 1..n /\ x - 1 \in 0..n
  BY <1>2
<1>4. x - 1 \in S
  BY <1>2, <1>3
<1> QED
  BY <1>2, <1>3, <1>4

\* The remainders obey the loop's equation, as one function.
LEMMA Solution ==
  ASSUME NEW data \in Seq(Byte), NEW n \in 0..Len(data)
  PROVE  \E f \in [0..n -> SevenBits] :
           f[0] = 0 /\ \A k \in 1..n : f[k] = Divide(Exor(f[k - 1], data[k]))
<1> DEFINE Solved(m, f) ==
             f[0] = 0 /\ \A k \in 1..m : f[k] = Divide(Exor(f[k - 1], data[k]))
           S == {m \in 0..n : \E f \in [0..m -> SevenBits] : Solved(m, f)}
<1>1. 0 \in S
  <2> DEFINE g == [k \in 0..0 |-> 0]
  <2>1. 0 \in SevenBits
    BY SMT DEF SevenBits
  <2>2. g \in [0..0 -> SevenBits]
    BY <2>1, SMT
  <2>3. g[0] = 0
    BY SMT
  <2>4. 0 \in 0..n /\ 1..0 = {}
    BY SMT
  <2> HIDE DEF g
  <2> QED
    BY <2>2, <2>3, <2>4
<1>2. ASSUME NEW m \in 1..n, m - 1 \in S PROVE m \in S
  <2>1. PICK f \in [0..(m - 1) -> SevenBits] : Solved(m - 1, f)
    BY <1>2
  <2>2. PICK r \in SevenBits : r = Divide(Exor(f[m - 1], data[m]))
    <3>1. f[m - 1] \in SevenBits /\ data[m] \in Byte
      BY <2>1, SMT
    <3> QED
      BY <3>1, NextCRCDivides
  <2> DEFINE g == [k \in 0..m |-> IF k = m THEN r ELSE f[k]]
  <2>3. g \in [0..m -> SevenBits]
    BY <2>1, <2>2, SMT
  <2>4. g[m] = r /\ \A k \in 0..(m - 1) : g[k] = f[k]
    BY SMT
  <2>5. Solved(m, g)
    <3>1. g[0] = 0
      BY <2>1, <2>4, SMT
    <3>2. ASSUME NEW k \in 1..m PROVE g[k] = Divide(Exor(g[k - 1], data[k]))
      <4> HIDE DEF g
      <4>1. g[k - 1] = f[k - 1]
        BY <2>4, SMT
      <4>2. CASE k = m
        BY <2>2, <2>4, <4>1, <4>2
      <4>3. CASE k # m
        <5>1. k \in 1..(m - 1) /\ k \in 0..(m - 1)
          BY <4>3, SMT
        <5>2. f[k] = Divide(Exor(f[k - 1], data[k]))
          BY <2>1, <5>1
        <5> QED
          BY <2>4, <4>1, <5>1, <5>2
      <4> QED
        BY <4>2, <4>3
    <3> QED
      BY <3>1, <3>2
  <2>6. m \in 0..n
    BY SMT
  <2> HIDE DEF g, Solved
  <2> QED
    BY <2>3, <2>5, <2>6
<1>3. n \in Nat /\ n \in 0..n
  BY SMT
<1> HIDE DEF S
<1>4. n \in S
  BY <1>1, <1>2, <1>3, Rounds
<1> QED
  BY <1>4 DEF S

\* Remainders is the solution.
LEMMA RemaindersLoop ==
  ASSUME NEW data \in Seq(Byte)
  PROVE  /\ Remainders(data) \in [0..Len(data) -> SevenBits]
         /\ Remainders(data)[0] = 0
         /\ \A k \in 1..Len(data) :
              Remainders(data)[k] = Divide(Exor(Remainders(data)[k - 1], data[k]))
<1> DEFINE n == Len(data)
           Body(f) == [k \in 0..n |-> IF k = 0 THEN 0 ELSE Divide(Exor(f[k - 1], data[k]))]
<1>1. n \in Nat /\ n \in 0..n
  BY SMT
<1>2. PICK f \in [0..n -> SevenBits] :
        f[0] = 0 /\ \A k \in 1..n : f[k] = Divide(Exor(f[k - 1], data[k]))
  BY <1>1, Solution
<1>3. f = Body(f)
  <2>1. \A k \in 0..n : f[k] = IF k = 0 THEN 0 ELSE Divide(Exor(f[k - 1], data[k]))
    <3> SUFFICES ASSUME NEW k \in 0..n
                 PROVE  f[k] = IF k = 0 THEN 0 ELSE Divide(Exor(f[k - 1], data[k]))
      OBVIOUS
    <3>1. k = 0 \/ k \in 1..n
      BY <1>1, SMT
    <3>2. CASE k = 0
      BY <1>2, <3>2
    <3>3. CASE k # 0
      BY <1>2, <3>1, <3>3
    <3> QED
      BY <3>2, <3>3
  <2> HIDE DEF n
  <2> QED
    BY <1>2, <2>1, Zenon
<1>4. Remainders(data) = CHOOSE g : g = Body(g)
  BY DEF Remainders
<1> HIDE DEF Body
<1>5. Remainders(data) = Body(Remainders(data))
  BY <1>3, <1>4
<1> DEFINE r == Remainders(data)
<1> USE DEF Body
<1>6. r[0] = 0 /\ \A k \in 1..n : r[k] = Divide(Exor(r[k - 1], data[k]))
  <2> HIDE DEF n, r
  <2>1. r = [k \in 0..n |-> IF k = 0 THEN 0 ELSE Divide(Exor(r[k - 1], data[k]))]
    BY <1>5 DEF r
  <2> HIDE DEF Body
  <2>2. \A k \in 0..n : r[k] = IF k = 0 THEN 0 ELSE Divide(Exor(r[k - 1], data[k]))
    BY <2>1, Zenon
  <2>3. 0 \in 0..n
    BY <1>1, SMT
  <2>4. \A k \in 1..n : k \in 0..n /\ k # 0
    BY <1>1, SMT
  <2>5. r[0] = 0
    BY <2>2, <2>3
  <2>6. ASSUME NEW k \in 1..n PROVE r[k] = Divide(Exor(r[k - 1], data[k]))
    BY <2>2, <2>4
  <2> QED
    BY <2>5, <2>6
<1>7. \A k \in 0..n : r[k] = f[k]
  <2> DEFINE S == {k \in 0..n : r[k] = f[k]}
  <2>1. 0 \in S
    BY <1>1, <1>2, <1>6, SMT
  <2>2. ASSUME NEW k \in 1..n, k - 1 \in S PROVE k \in S
    <3>1. k \in 0..n
      BY <1>1, SMT
    <3> QED
      BY <1>2, <1>6, <2>2, <3>1
  <2> HIDE DEF S, r, n
  <2>3. \A k \in 0..n : k \in S
    BY <1>1, <2>1, <2>2, Rounds
  <2> QED
    BY <2>3 DEF S
<1>8. r = f
  <2> HIDE DEF n, r
  <2>1. r = [k \in 0..n |-> IF k = 0 THEN 0 ELSE Divide(Exor(r[k - 1], data[k]))]
    BY <1>5 DEF r
  <2>2. f = [k \in 0..n |-> IF k = 0 THEN 0 ELSE Divide(Exor(f[k - 1], data[k]))]
    BY <1>3
  <2> HIDE DEF Body
  <2>3. r = [k \in 0..n |-> r[k]] /\ f = [k \in 0..n |-> f[k]]
    BY <2>1, <2>2, Zenon
  <2> QED
    BY <1>7, <2>3, Zenon
<1> QED
  BY <1>2, <1>6, <1>8

\* crcGet of the first bytes is their remainder.
LEMMA crcGetRemainder ==
  ASSUME NEW data \in Seq(Byte), NEW n \in 0..Len(data)
  PROVE  crcGet(data, n) = Remainders(data)[n]
<1> DEFINE r == Remainders(data)
           Body(f) == [k \in 0..n |-> IF k = 0 THEN 0 ELSE NextCRC(f[k - 1], data[k])]
           g == [k \in 0..n |-> r[k]]
           c == CHOOSE f : f = Body(f)
<1>1. n \in Nat /\ n \in 0..n /\ \A k \in 1..n : k \in 1..Len(data)
  BY SMT
<1>2. /\ r[0] = 0
      /\ \A k \in 0..n : r[k] \in SevenBits
      /\ \A k \in 1..n : r[k] = NextCRC(r[k - 1], data[k])
  <2>1. r[0] = 0
    BY RemaindersLoop
  <2>2. \A k \in 0..n : r[k] \in SevenBits
    BY RemaindersLoop, SMT
  <2>3. ASSUME NEW k \in 1..n PROVE r[k] = NextCRC(r[k - 1], data[k])
    <3>1. k - 1 \in 0..n /\ data[k] \in Byte
      BY SMT
    <3>2. r[k - 1] \in SevenBits
      BY <2>2, <3>1
    <3>3. r[k] = Divide(Exor(r[k - 1], data[k]))
      BY <1>1, RemaindersLoop
    <3> QED
      BY <3>1, <3>2, <3>3, NextCRCDivides
  <2> QED
    BY <2>1, <2>2, <2>3
<1>3. crcGet(data, n) = c[n]
  BY DEF crcGet
<1> HIDE DEF r
<1>4. g = Body(g)
  <2>1. ASSUME NEW k \in 0..n
        PROVE  r[k] = IF k = 0 THEN 0 ELSE NextCRC(g[k - 1], data[k])
    <3>1. CASE k = 0
      BY <1>2, <3>1
    <3>2. CASE k # 0
      <4>1. k \in 1..n /\ k - 1 \in 0..n
        BY <3>2, SMT
      <4>2. g[k - 1] = r[k - 1]
        BY <4>1
      <4> QED
        BY <1>2, <3>2, <4>1, <4>2
    <3> QED
      BY <3>1, <3>2
  <2> QED
    BY <2>1, Zenon
<1> HIDE DEF g, Body
<1>5. c = Body(c)
  BY <1>4
<1> HIDE DEF c
<1>6. \A k \in 0..n : c[k] = IF k = 0 THEN 0 ELSE NextCRC(c[k - 1], data[k])
  <2>1. c = [k \in 0..n |-> IF k = 0 THEN 0 ELSE NextCRC(c[k - 1], data[k])]
    BY <1>5 DEF Body
  <2> QED
    BY <2>1, Zenon
<1> DEFINE S == {k \in 0..n : c[k] = r[k]}
<1>7. 0 \in S
  <2>1. 0 \in 0..n
    BY <1>1, SMT
  <2> QED
    BY <1>2, <1>6, <2>1
<1>8. ASSUME NEW k \in 1..n, k - 1 \in S PROVE k \in S
  <2>1. k \in 0..n /\ k # 0
    BY <1>1, SMT
  <2>2. c[k] = NextCRC(c[k - 1], data[k])
    BY <1>6, <2>1
  <2> QED
    BY <1>2, <1>8, <2>1, <2>2
<1> HIDE DEF S
<1>9. \A k \in 0..n : k \in S
  BY <1>1, <1>7, <1>8, Rounds
<1> QED
  BY <1>1, <1>3, <1>9 DEF S, r

-----------------------------------------------------------------------------
(* What one or two flipped bits do to the remainder. *)

\* What a single flipped bit leaves in the running value, by the rounds after it.
Echo == << {9, 18, 19, 36, 38, 65, 72, 76}, {13, 26, 39, 52, 78, 91, 101, 104},
           {43, 51, 61, 81, 86, 93, 102, 122}, {3, 6, 12, 24, 48, 73, 96, 108},
           {27, 41, 53, 54, 69, 82, 92, 106} >>

LEMMA EchoStart ==
  ASSUME NEW p \in Places
  PROVE  Divide(p) \in Echo[1]
<1>1. p \in Byte
  BY SMT DEF Places, Byte
<1>2. CRC_Table[p + 1] \in {9, 18, 19, 36, 38, 65, 72, 76}
  BY SMTT(60) DEF Places, CRC_Table
<1> QED
  BY <1>1, <1>2, TableIsDivision, SMT DEF Echo

LEMMA EchoStep ==
  ASSUME NEW j \in 1..4, NEW x \in Echo[j]
  PROVE  Divide(x) \in Echo[j + 1]
<1>1. CASE j = 1
  <2>1. x \in {9, 18, 19, 36, 38, 65, 72, 76}
    BY <1>1, SMT DEF Echo
  <2>2. x \in Byte
    BY <2>1, SMT DEF Byte
  <2>3. CRC_Table[x + 1] \in {13, 26, 39, 52, 78, 91, 101, 104}
    BY <2>1, SMTT(60) DEF CRC_Table
  <2> QED
    BY <1>1, <2>2, <2>3, TableIsDivision, SMT DEF Echo
<1>2. CASE j = 2
  <2>1. x \in {13, 26, 39, 52, 78, 91, 101, 104}
    BY <1>2, SMT DEF Echo
  <2>2. x \in Byte
    BY <2>1, SMT DEF Byte
  <2>3. CRC_Table[x + 1] \in {43, 51, 61, 81, 86, 93, 102, 122}
    BY <2>1, SMTT(60) DEF CRC_Table
  <2> QED
    BY <1>2, <2>2, <2>3, TableIsDivision, SMT DEF Echo
<1>3. CASE j = 3
  <2>1. x \in {43, 51, 61, 81, 86, 93, 102, 122}
    BY <1>3, SMT DEF Echo
  <2>2. x \in Byte
    BY <2>1, SMT DEF Byte
  <2>3. CRC_Table[x + 1] \in {3, 6, 12, 24, 48, 73, 96, 108}
    BY <2>1, SMTT(60) DEF CRC_Table
  <2> QED
    BY <1>3, <2>2, <2>3, TableIsDivision, SMT DEF Echo
<1>4. CASE j = 4
  <2>1. x \in {3, 6, 12, 24, 48, 73, 96, 108}
    BY <1>4, SMT DEF Echo
  <2>2. x \in Byte
    BY <2>1, SMT DEF Byte
  <2>3. CRC_Table[x + 1] \in {27, 41, 53, 54, 69, 82, 92, 106}
    BY <2>1, SMTT(60) DEF CRC_Table
  <2> QED
    BY <1>4, <2>2, <2>3, TableIsDivision, SMT DEF Echo
<1> QED
  BY <1>1, <1>2, <1>3, <1>4, SMT

\* No echo is nothing, another flipped bit, or what the polynomial would cancel.
LEMMA EchoClean ==
  ASSUME NEW j \in 1..5, NEW x \in Echo[j]
  PROVE  x \in SevenBits /\ x # 0 /\ x # 17 /\ x \notin Places
BY SMT DEF Echo, SevenBits, Places

\* Only nothing, and the polynomial itself, are divided without remainder.
LEMMA NoRemainder ==
  ASSUME NEW x \in Byte, Divide(x) = 0
  PROVE  x = 0 \/ x = 145
<1>1. x \in Int /\ 0 <= x /\ x <= 255
  BY SMT DEF Byte
<1>2. CRC_Table[x + 1] = 0
  BY TableIsDivision
<1>3. Remainder(x) = 0
  BY <1>1, <1>2, TableValue
<1>4. \A p \in Places : Bit(x, p) \in {0, 1}
  BY <1>1, BitValue
<1>5. /\ Bit(x, 1) \in {0, 1} /\ Bit(x, 2) \in {0, 1} /\ Bit(x, 4) \in {0, 1} /\ Bit(x, 8) \in {0, 1}
      /\ Bit(x, 16) \in {0, 1} /\ Bit(x, 32) \in {0, 1} /\ Bit(x, 64) \in {0, 1}
      /\ Bit(x, 128) \in {0, 1}
  BY <1>4, SMT DEF Places
<1> QED
  BY <1>3, <1>5, FromBits, SMTT(60) DEF Remainder

\* The bit of a power of two.
LEMMA PowerBit ==
  ASSUME NEW p \in Places, NEW q \in Places
  PROVE  Bit(p, q) = IF p = q THEN 1 ELSE 0
BY SMTT(60) DEF Bit, Places

\* Two different bits are not the polynomial, and not nothing.
LEMMA TwoBits ==
  ASSUME NEW p \in Places, NEW q \in Places, p # q
  PROVE  Exor(p, q) # 0 /\ Exor(p, q) # 145
<1>1. p \in Byte /\ q \in Byte
  BY SMT DEF Byte, Places
<1>2. Exor(p, q) # 0
  BY <1>1, ExorCancels
<1>3. ASSUME Exor(p, q) = 145 PROVE FALSE
  <2>1. 1 \in Places /\ 16 \in Places /\ 128 \in Places
    BY DEF Places
  <2>2. Bit(145, 1) = 1 /\ Bit(145, 16) = 1 /\ Bit(145, 128) = 1
    BY SMT DEF Bit
  <2>3. /\ (Bit(p, 1) + Bit(q, 1)) % 2 = 1 /\ (Bit(p, 16) + Bit(q, 16)) % 2 = 1
        /\ (Bit(p, 128) + Bit(q, 128)) % 2 = 1
    BY <1>1, <1>3, <2>1, <2>2, ExorBits
  <2>4. /\ Bit(p, 1) = (IF p = 1 THEN 1 ELSE 0) /\ Bit(q, 1) = (IF q = 1 THEN 1 ELSE 0)
        /\ Bit(p, 16) = (IF p = 16 THEN 1 ELSE 0) /\ Bit(q, 16) = (IF q = 16 THEN 1 ELSE 0)
        /\ Bit(p, 128) = (IF p = 128 THEN 1 ELSE 0) /\ Bit(q, 128) = (IF q = 128 THEN 1 ELSE 0)
    BY <2>1, PowerBit
  <2>5. (p = 1 \/ q = 1) /\ (p = 16 \/ q = 16) /\ (p = 128 \/ q = 128)
    BY <2>3, <2>4, SMT
  <2> QED
    BY <2>5, SMT
<1> QED
  BY <1>2, <1>3

\* A second flipped bit never cancels what the first has left.
LEMMA EchoAndBit ==
  ASSUME NEW j \in 1..5, NEW x \in Echo[j], NEW q \in Places
  PROVE  Exor(x, q) \in Byte /\ Divide(Exor(x, q)) # 0
<1>1. x \in SevenBits /\ x # 0 /\ x # 17 /\ x \notin Places
  BY EchoClean
<1>2. x \in Byte /\ q \in Byte
  BY <1>1, SMT DEF SevenBits, Byte, Places
<1>3. Exor(x, q) # 0
  BY <1>1, <1>2, ExorCancels
<1>4. ASSUME Exor(x, q) = 145 PROVE FALSE
  <2>1. 1 \in Places /\ 16 \in Places /\ 128 \in Places /\ \A p \in Places : p \in Places
    BY DEF Places
  <2>2. Bit(x, 128) = 0
    BY <1>1, SMT DEF Bit, SevenBits
  <2>3. (Bit(x, 128) + Bit(q, 128)) % 2 = Bit(145, 128)
    BY <1>2, <1>4, <2>1, ExorBits
  <2>4. Bit(145, 128) = 1 /\ Bit(q, 128) = IF q = 128 THEN 1 ELSE 0
    <3>1. Bit(145, 128) = 1
      BY SMT DEF Bit
    <3> QED
      BY <2>1, <3>1, PowerBit
  <2>5. q = 128
    BY <2>2, <2>3, <2>4, SMT
  <2>6. x = 17
    <3>1. 17 \in Byte /\ \A p \in Places : Bit(17, p) = (Bit(145, p) + Bit(128, p)) % 2
      BY SMT DEF Bit, Byte, Places
    <3>2. ASSUME NEW p \in Places PROVE Bit(x, p) = Bit(17, p)
      <4>1. Bit(145, p) = (Bit(x, p) + Bit(128, p)) % 2
        BY <1>2, <1>4, <2>5, ExorBits
      <4>2. Bit(x, p) \in {0, 1} /\ Bit(128, p) \in {0, 1}
        BY <1>2, <2>1, BitValue, SMT DEF Byte
      <4> QED
        BY <3>1, <4>1, <4>2, SMT
    <3> QED
      BY <1>2, <3>1, <3>2, SameBits
  <2> QED
    BY <1>1, <2>6
<1>5. Exor(x, q) \in Byte
  BY <1>2, ExorBits
<1> QED
  BY <1>3, <1>4, <1>5, NoRemainder

\* What is flipped in the byte at place k, by one bit p in the byte at a and one
\* bit q in the byte at b.
Error(k, a, p, b, q) == Exor(IF k = a THEN p ELSE 0, IF k = b THEN q ELSE 0)

LEMMA ErrorIs ==
  ASSUME NEW k, NEW a, NEW b, NEW p \in Places, NEW q \in Places
  PROVE  /\ Error(k, a, p, b, q) \in Byte
         /\ k # a /\ k # b => Error(k, a, p, b, q) = 0
         /\ k = a /\ k # b => Error(k, a, p, b, q) = p
         /\ k # a /\ k = b => Error(k, a, p, b, q) = q
         /\ k = a /\ k = b => Error(k, a, p, b, q) = Exor(p, q)
<1>1. p \in Byte /\ q \in Byte /\ 0 \in Byte
  BY SMT DEF Places, Byte
<1>2. Exor(0, 0) = 0 /\ Exor(p, 0) = p /\ Exor(0, q) = q
  BY <1>1, ExorCancels, ExorCommutes
<1>3. Exor(p, q) \in Byte
  BY <1>1, ExorBits
<1> QED
  BY <1>1, <1>2, <1>3 DEF Error

\* The difference that one or two flipped bits make to the running value, up to
\* the longest packet there is, never is the one they make to the CRC.
LEMMA Detected ==
  ASSUME NEW n \in 0..5, NEW a \in 1..(n + 1), NEW b \in a..(n + 2),
         NEW p \in Places, NEW q \in Places, ~(a = b /\ p = q),
         NEW d \in [0..n -> SevenBits], d[0] = 0,
         \A k \in 1..n : d[k] = Divide(Exor(d[k - 1], Error(k, a, p, b, q)))
  PROVE  d[n] # Error(n + 1, a, p, b, q)
<1>1. p \in Byte /\ q \in Byte /\ 0 \in Byte /\ p # 0 /\ q # 0
  BY SMT DEF Places, Byte
<1>2. \A x \in SevenBits : x \in Byte /\ x # 145
  BY SMT DEF SevenBits, Byte
<1>3. n \in Nat /\ a \in Nat /\ b \in Nat /\ 1 <= a /\ a <= b /\ n <= 5 /\ a <= n + 1
  BY SMT
<1> DEFINE e(k) == Error(k, a, p, b, q)
           S == {k \in 0..n : /\ k < a => d[k] = 0
                              /\ a <= k /\ k < b => d[k] \in Echo[k - a + 1]
                              /\ b <= k => d[k] # 0}
<1> HIDE DEF e
<1>4. 0 \in S
  BY <1>3, SMT
<1>5. ASSUME NEW k \in 1..n, k - 1 \in S PROVE k \in S
  <2>1. k \in 0..n /\ k \in Nat /\ k - 1 \in 0..n /\ 1 <= k /\ k <= n
    BY <1>3, SMT
  <2>2. PICK x \in SevenBits : x = d[k - 1]
    BY <2>1
  <2>3. d[k] = Divide(Exor(x, e(k)))
    BY <2>2 DEF e
  <2>4. CASE k < a
    <3>1. x = 0 /\ e(k) = 0
      BY <1>3, <1>5, <2>1, <2>2, <2>4, ErrorIs, SMT DEF e
    <3>2. Exor(0, 0) = 0
      BY <1>1, ExorCancels
    <3>3. Divide(0) = 0
      <4>1. CRC_Table[0 + 1] = 0
        BY SMTT(60) DEF CRC_Table
      <4> QED
        BY <1>1, <4>1, TableIsDivision
    <3> QED
      BY <1>3, <2>1, <2>3, <2>4, <3>1, <3>2, <3>3, SMT
  <2>5. CASE k = a /\ a # b
    <3>1. x = 0 /\ e(k) = p
      BY <1>3, <1>5, <2>1, <2>2, <2>5, ErrorIs, SMT DEF e
    <3>2. Exor(0, p) = p
      BY <1>1, ExorCancels, ExorCommutes
    <3>3. d[k] \in Echo[1]
      BY <2>3, <3>1, <3>2, EchoStart
    <3>4. k - a + 1 = 1 /\ k < b
      BY <1>3, <2>1, <2>5, SMT
    <3> QED
      BY <1>3, <2>1, <2>5, <3>3, <3>4, SMT
  <2>6. CASE k = a /\ a = b
    <3>1. x = 0 /\ e(k) = Exor(p, q)
      BY <1>3, <1>5, <2>1, <2>2, <2>6, ErrorIs, SMT DEF e
    <3>2. Exor(0, Exor(p, q)) = Exor(p, q)
      BY <1>1, ExorBits, ExorCancels, ExorCommutes
    <3>3. d[k] = Divide(Exor(p, q))
      BY <2>3, <3>1, <3>2
    <3>4. d[k] # 0
      BY <1>1, <2>6, <3>3, ExorBits, TwoBits, NoRemainder
    <3> QED
      BY <1>3, <2>1, <2>6, <3>4, SMT
  <2>7. CASE a < k /\ k < b
    <3>1. PICK j \in 1..4 : j = k - a
      BY <1>3, <2>1, <2>7, SMT
    <3>2. k - 1 - a + 1 = j /\ k - a + 1 = j + 1
      BY <1>3, <2>1, <3>1, SMT
    <3>3. d[k - 1] \in Echo[k - 1 - a + 1]
      BY <1>3, <1>5, <2>1, <2>7, SMT
    <3>4. x \in Echo[j]
      BY <2>2, <3>2, <3>3
    <3>5. Exor(x, e(k)) = x
      BY <1>2, <1>3, <2>1, <2>7, ErrorIs, ExorCancels, SMT DEF e
    <3>6. d[k] \in Echo[k - a + 1]
      BY <2>3, <3>2, <3>4, <3>5, EchoStep
    <3> QED
      BY <1>3, <2>1, <2>7, <3>6, SMT
  <2>8. CASE a < k /\ k = b
    <3>1. PICK j \in 1..4 : j = k - a
      BY <1>3, <2>1, <2>8, SMT
    <3>2. k - 1 - a + 1 = j
      BY <1>3, <2>1, <3>1, SMT
    <3>3. d[k - 1] \in Echo[k - 1 - a + 1]
      BY <1>3, <1>5, <2>1, <2>8, SMT
    <3>4. x \in Echo[j] /\ j \in 1..5
      BY <2>2, <3>1, <3>2, <3>3, SMT
    <3>5. e(k) = q
      BY <1>3, <2>1, <2>8, ErrorIs, SMT DEF e
    <3>6. d[k] # 0
      BY <2>3, <3>4, <3>5, EchoAndBit
    <3> QED
      BY <1>3, <2>1, <2>8, <3>6, SMT
  <2>9. CASE b < k
    <3>1. x # 0
      BY <1>3, <1>5, <2>1, <2>2, <2>9, SMT
    <3>2. Exor(x, e(k)) = x
      BY <1>2, <1>3, <2>1, <2>9, ErrorIs, ExorCancels, SMT DEF e
    <3>3. d[k] # 0
      BY <1>2, <2>3, <3>1, <3>2, NoRemainder
    <3> QED
      BY <1>3, <2>1, <2>9, <3>3, SMT
  <2> QED
    BY <1>3, <2>1, <2>4, <2>5, <2>6, <2>7, <2>8, <2>9, SMT
<1>6. \A k \in 0..n : k \in S
  <2> HIDE DEF S
  <2> QED
    BY <1>3, <1>4, <1>5, Rounds
<1>7. n \in S
  BY <1>3, <1>6, SMT
<1> SUFFICES d[n] # e(n + 1)
  BY DEF e
<1>8. CASE a = n + 1 /\ b # a
  <2>1. d[n] = 0 /\ e(n + 1) = p
    BY <1>3, <1>7, <1>8, ErrorIs, SMT DEF e
  <2> QED
    BY <1>1, <2>1
<1>9. CASE a = n + 1 /\ b = a
  <2>1. d[n] = 0 /\ e(n + 1) = Exor(p, q)
    BY <1>3, <1>7, <1>9, ErrorIs, SMT DEF e
  <2> QED
    BY <1>9, <2>1, TwoBits
<1>10. CASE a <= n /\ n < b
  <2>1. PICK j \in 1..5 : j = n - a + 1
    BY <1>3, <1>10, SMT
  <2>2. d[n] \in Echo[j]
    BY <1>3, <1>7, <1>10, <2>1, SMT
  <2>3. d[n] # 0 /\ d[n] \notin Places
    BY <2>2, EchoClean
  <2>4. e(n + 1) = q \/ e(n + 1) = 0
    BY <1>3, <1>10, ErrorIs, SMT DEF e
  <2> QED
    BY <2>3, <2>4
<1>11. CASE b <= n
  <2>1. d[n] # 0 /\ e(n + 1) = 0
    BY <1>3, <1>7, <1>11, ErrorIs, SMT DEF e
  <2> QED
    BY <2>1
<1> QED
  BY <1>3, <1>8, <1>9, <1>10, <1>11, SMT

\* Exclusive or keeps seven bits.
LEMMA ExorSeven ==
  ASSUME NEW x \in SevenBits, NEW y \in SevenBits
  PROVE  x \in Byte /\ y \in Byte /\ Exor(x, y) \in SevenBits
<1>1. x \in Byte /\ y \in Byte /\ Bit(x, 128) = 0 /\ Bit(y, 128) = 0 /\ 128 \in Places
  BY SMT DEF SevenBits, Byte, Bit, Places
<1>2. Exor(x, y) \in Byte /\ Bit(Exor(x, y), 128) = (0 + 0) % 2
  BY <1>1, ExorBits
<1> QED
  BY <1>1, <1>2, SMT DEF Bit, Byte, SevenBits

\* Of two differences, and what is left when one of them cancels.
LEMMA ExorSwap ==
  ASSUME NEW f \in Byte, NEW g \in Byte, NEW w \in Byte, NEW e \in Byte
  PROVE  Exor(Exor(f, w), Exor(g, Exor(w, e))) = Exor(Exor(f, g), e)
<1>1. ASSUME NEW x \in Byte, NEW y \in Byte, NEW p \in Places
      PROVE  /\ Exor(x, y) \in Byte
             /\ Bit(Exor(x, y), p) = (Bit(x, p) + Bit(y, p)) % 2
             /\ Bit(x, p) \in {0, 1}
  <2>1. x \in Int
    BY SMT DEF Byte
  <2> QED
    BY <2>1, ExorBits, BitValue
<1>2. /\ Exor(f, w) \in Byte /\ Exor(w, e) \in Byte /\ Exor(f, g) \in Byte
      /\ Exor(g, Exor(w, e)) \in Byte
  BY ExorBits
<1>3. /\ Exor(Exor(f, w), Exor(g, Exor(w, e))) \in Byte /\ Exor(Exor(f, g), e) \in Byte
  BY <1>2, ExorBits
<1>4. ASSUME NEW p \in Places
      PROVE  Bit(Exor(Exor(f, w), Exor(g, Exor(w, e))), p) = Bit(Exor(Exor(f, g), e), p)
  <2>1. /\ Bit(Exor(f, w), p) = (Bit(f, p) + Bit(w, p)) % 2
        /\ Bit(Exor(w, e), p) = (Bit(w, p) + Bit(e, p)) % 2
        /\ Bit(Exor(f, g), p) = (Bit(f, p) + Bit(g, p)) % 2
        /\ Bit(Exor(g, Exor(w, e)), p) = (Bit(g, p) + Bit(Exor(w, e), p)) % 2
        /\ Bit(Exor(Exor(f, w), Exor(g, Exor(w, e))), p)
             = (Bit(Exor(f, w), p) + Bit(Exor(g, Exor(w, e)), p)) % 2
        /\ Bit(Exor(Exor(f, g), e), p) = (Bit(Exor(f, g), p) + Bit(e, p)) % 2
    BY <1>1, <1>2
  <2>2. Bit(f, p) \in {0, 1} /\ Bit(g, p) \in {0, 1} /\ Bit(w, p) \in {0, 1} /\ Bit(e, p) \in {0, 1}
    BY <1>1
  <2> QED
    BY <2>1, <2>2, SMT
<1> QED
  BY <1>3, <1>4, SameBits

\* A packet that arrives with one or two bits flipped is rejected.
LEMMA Rejected ==
  ASSUME NEW bytes \in Seq(Byte), NEW data \in Seq(Byte), NEW n \in 0..5,
         Len(bytes) = n, Len(data) = n + 1,
         NEW a \in 1..(n + 1), NEW b \in a..(n + 2),
         NEW p \in Places, NEW q \in Places, ~(a = b /\ p = q),
         \A k \in 1..n : data[k] = Exor(bytes[k], Error(k, a, p, b, q)),
         data[n + 1] = Exor(Remainders(bytes)[n], Error(n + 1, a, p, b, q))
  PROVE  ~crcCheck(data)
<1> DEFINE f == Remainders(bytes)
           g == Remainders(data)
           e(k) == Error(k, a, p, b, q)
           d == [k \in 0..n |-> Exor(f[k], g[k])]
<1>1. n \in Nat /\ n \in 0..n /\ 0 \in 0..n /\ n \in 0..Len(data)
  BY SMT
<1>2. \A k \in 0..n : f[k] \in SevenBits /\ g[k] \in SevenBits
  <2>1. f \in [0..n -> SevenBits] /\ g \in [0..(n + 1) -> SevenBits]
    BY RemaindersLoop
  <2>2. \A k \in 0..n : k \in 0..(n + 1)
    BY SMT
  <2> HIDE DEF f, g
  <2> QED
    BY <2>1, <2>2
<1>3. d \in [0..n -> SevenBits]
  BY <1>2, ExorSeven
<1>4. d[0] = 0
  <2>1. f[0] = 0 /\ g[0] = 0
    BY RemaindersLoop
  <2>2. Exor(0, 0) = 0
    <3>1. 0 \in Byte
      BY SMT DEF Byte
    <3> QED
      BY <3>1, ExorCancels
  <2> QED
    BY <1>1, <2>1, <2>2
<1>5. ASSUME NEW k \in 1..n PROVE d[k] = Divide(Exor(d[k - 1], e(k)))
  <2>1. /\ k \in 0..n /\ k - 1 \in 0..n /\ k \in 1..Len(bytes) /\ k \in 1..Len(data)
    BY <1>1, SMT
  <2>2. bytes[k] \in Byte /\ e(k) \in Byte
    BY <2>1, ErrorIs, Entry
  <2>3. f[k] = Divide(Exor(f[k - 1], bytes[k])) /\ g[k] = Divide(Exor(g[k - 1], Exor(bytes[k], e(k))))
    BY <2>1, RemaindersLoop
  <2>4. f[k - 1] \in Byte /\ g[k - 1] \in Byte
    BY <1>2, <2>1, ExorSeven
  <2> HIDE DEF f, g, e
  <2>5. d[k] = Exor(f[k], g[k]) /\ d[k - 1] = Exor(f[k - 1], g[k - 1])
    BY <2>1
  <2> HIDE DEF d
  <2>6. Exor(f[k - 1], bytes[k]) \in Byte /\ Exor(bytes[k], e(k)) \in Byte
    BY <2>2, <2>4, ExorBits
  <2>7. Exor(g[k - 1], Exor(bytes[k], e(k))) \in Byte
    BY <2>4, <2>6, ExorBits
  <2>8. d[k] = Divide(Exor(Exor(f[k - 1], bytes[k]), Exor(g[k - 1], Exor(bytes[k], e(k)))))
    BY <2>3, <2>5, <2>6, <2>7, DivideLinear
  <2>9. Exor(Exor(f[k - 1], bytes[k]), Exor(g[k - 1], Exor(bytes[k], e(k))))
          = Exor(Exor(f[k - 1], g[k - 1]), e(k))
    <3>1. PICK u \in Byte, v \in Byte, w \in Byte, r \in Byte :
            u = f[k - 1] /\ v = g[k - 1] /\ w = bytes[k] /\ r = e(k)
      BY <2>2, <2>4
    <3>2. Exor(Exor(u, w), Exor(v, Exor(w, r))) = Exor(Exor(u, v), r)
      BY ExorSwap
    <3> QED
      BY <3>1, <3>2
  <2> QED
    BY <2>5, <2>8, <2>9
<1>6. d[n] # e(n + 1)
  <2> HIDE DEF d
  <2> QED
    BY <1>3, <1>4, <1>5, Detected
<1>7. crcGet(data, Len(data) - 1) = g[n] /\ Last(data) = Exor(f[n], e(n + 1))
  <2>1. Len(data) - 1 = n
    BY <1>1, SMT
  <2> QED
    BY <1>1, <2>1, crcGetRemainder DEF Last
<1>8. ASSUME g[n] = Exor(f[n], e(n + 1)) PROVE FALSE
  <2>1. f[n] \in Byte /\ e(n + 1) \in Byte
    BY <1>1, <1>2, ExorSeven, ErrorIs
  <2> HIDE DEF f, g, e
  <2>2. d[n] = Exor(f[n], Exor(f[n], e(n + 1)))
    BY <1>1, <1>8
  <2>3. Exor(Exor(f[n], f[n]), e(n + 1)) = Exor(f[n], Exor(f[n], e(n + 1)))
    BY <2>1, ExorAssociates
  <2>4. Exor(f[n], f[n]) = 0 /\ Exor(0, e(n + 1)) = e(n + 1)
    <3>1. 0 \in Byte
      BY SMT DEF Byte
    <3> QED
      BY <2>1, <3>1, ExorCancels, ExorCommutes
  <2> QED
    BY <1>6, <2>2, <2>3, <2>4
<1> QED
  BY <1>7, <1>8 DEF crcCheck

\* A packet that arrives as it was sent is accepted.
LEMMA Accepted ==
  ASSUME NEW bytes \in Seq(Byte), NEW c \in Byte, c = Remainders(bytes)[Len(bytes)]
  PROVE  crcCheck(Append(bytes, c))
<1> DEFINE n == Len(bytes)
           data == Append(bytes, c)
           f == Remainders(bytes)
           g == Remainders(data)
<1>1. /\ n \in Nat /\ n \in 0..n
      /\ data \in Seq(Byte) /\ Len(data) = n + 1 /\ n \in 0..Len(data)
      /\ data[n + 1] = c /\ \A k \in 1..n : data[k] = bytes[k]
  BY SMT
<1>2. /\ f[0] = 0 /\ g[0] = 0
      /\ \A k \in 1..n : f[k] = Divide(Exor(f[k - 1], bytes[k]))
      /\ \A k \in 1..n : g[k] = Divide(Exor(g[k - 1], data[k]))
  <2>1. f[0] = 0 /\ \A k \in 1..n : f[k] = Divide(Exor(f[k - 1], bytes[k]))
    BY RemaindersLoop
  <2>2. g[0] = 0 /\ \A k \in 1..Len(data) : g[k] = Divide(Exor(g[k - 1], data[k]))
    <3> HIDE DEF data
    <3> QED
      BY <1>1, RemaindersLoop
  <2>3. \A k \in 1..n : k \in 1..Len(data)
    BY <1>1, SMT
  <2> HIDE DEF f, g, data, n
  <2> QED
    BY <2>1, <2>2, <2>3
<1> DEFINE S == {k \in 0..n : f[k] = g[k]}
<1>3. 0 \in S
  BY <1>1, <1>2, SMT
<1>4. ASSUME NEW k \in 1..n, k - 1 \in S PROVE k \in S
  <2>1. k \in 0..n
    BY <1>1, SMT
  <2>2. f[k - 1] = g[k - 1]
    BY <1>4
  <2> HIDE DEF f, g, data, n
  <2> QED
    BY <1>1, <1>2, <2>1, <2>2
<1>5. \A k \in 0..n : k \in S
  <2> HIDE DEF S, n
  <2> QED
    BY <1>1, <1>3, <1>4, Rounds
<1>6. f[n] = g[n]
  BY <1>1, <1>5
<1>7. crcGet(data, n) = g[n]
  <2> HIDE DEF data
  <2> QED
    BY <1>1, crcGetRemainder
<1>8. Len(data) - 1 = n /\ Last(data) = c
  <2>1. Len(data) - 1 = n
    BY <1>1, SMT
  <2> HIDE DEF data, n
  <2> QED
    BY <1>1, <2>1 DEF Last
<1> QED
  BY <1>6, <1>7, <1>8 DEF crcCheck

-----------------------------------------------------------------------------
(* What the line may deliver. *)

\* A flipped bit is a power of two, added to one byte of the packet.
LEMMA FlipOne ==
  ASSUME NEW w \in Seq(Byte), NEW m \in 0..(8 * Len(w) - 1)
  PROVE  \E a \in 1..Len(w), p \in Places :
           /\ Flip(w, m) \in Seq(Byte) /\ Len(Flip(w, m)) = Len(w)
           /\ Flip(w, m)[a] = Exor(w[a], p)
           /\ \A k \in 1..Len(w) : k # a => Flip(w, m)[k] = w[k]
<1>1. PICK a \in 1..Len(w) : a = m \div 8 + 1
  BY SMT
<1>2. PICK j \in 1..8 : j = (m % 8) + 1
  BY SMT
<1>3. PICK p \in Places : p = Power[j]
  BY SMT DEF Power, Places
<1>4. Flip(w, m) = [w EXCEPT ![a] = Exor(w[a], p)]
  BY <1>1, <1>2, <1>3 DEF Flip
<1>5. PICK x \in Byte : x = Exor(w[a], p)
  <2>1. w[a] \in Byte /\ p \in Byte
    <3>1. p \in Byte
      BY SMT DEF Places, Byte
    <3> QED
      BY <3>1, Entry
  <2> QED
    BY <2>1, ExorBits
<1>6. /\ [w EXCEPT ![a] = x] \in Seq(Byte) /\ Len([w EXCEPT ![a] = x]) = Len(w)
      /\ [w EXCEPT ![a] = x][a] = x
      /\ \A k \in 1..Len(w) : k # a => [w EXCEPT ![a] = x][k] = w[k]
  BY SMT
<1> QED
  BY <1>4, <1>5, <1>6

\* data is w with the bits p and q flipped in the bytes at a and b.
Damage(data, w, a, p, b, q) ==
  /\ data \in Seq(Byte) /\ Len(data) = Len(w)
  /\ \A k \in 1..Len(w) : data[k] = Exor(w[k], Error(k, a, p, b, q))

\* One or two flips that make a difference are damage, the first byte first.
LEMMA OneFlip ==
  ASSUME NEW n \in Nat, NEW w \in Seq(Byte), Len(w) = n + 1, NEW m \in 0..(8 * Len(w) - 1)
  PROVE  \E a \in 1..(n + 1), b \in 1..(n + 2), p, q \in Places :
           a <= b /\ ~(a = b /\ p = q) /\ Damage(Flip(w, m), w, a, p, b, q)
<1> DEFINE data == Flip(w, m)
<1>0. 1..Len(w) = 1..(n + 1)
  OBVIOUS
<1>1. PICK a \in 1..(n + 1), p \in Places :
        /\ data \in Seq(Byte) /\ Len(data) = Len(w)
        /\ data[a] = Exor(w[a], p)
        /\ \A k \in 1..Len(w) : k # a => data[k] = w[k]
  <2>1. PICK a \in 1..Len(w), p \in Places :
          /\ data \in Seq(Byte) /\ Len(data) = Len(w)
          /\ data[a] = Exor(w[a], p)
          /\ \A k \in 1..Len(w) : k # a => data[k] = w[k]
    BY FlipOne
  <2> QED
    BY <1>0, <2>1
<1> HIDE DEF data
<1>2. PICK q \in Places : q = 1
  BY DEF Places
<1>3. PICK b \in 1..(n + 2) : a <= b /\ b = n + 2
  BY SMT
<1>4. ASSUME NEW k \in 1..Len(w) PROVE data[k] = Exor(w[k], Error(k, a, p, b, q))
  <2>1. k # b /\ w[k] \in Byte
    BY <1>3, SMT
  <2>2. CASE k = a
    <3>1. Error(k, a, p, b, q) = p
      BY <2>1, <2>2, ErrorIs
    <3> QED
      BY <1>1, <2>2, <3>1
  <2>3. CASE k # a
    <3>1. Error(k, a, p, b, q) = 0
      BY <2>1, <2>3, ErrorIs
    <3>2. Exor(w[k], 0) = w[k]
      BY <1>2, <2>1, ExorCancels
    <3> QED
      BY <1>1, <2>3, <3>1, <3>2
  <2> QED
    BY <2>2, <2>3
<1>5. a # b
  BY <1>3, SMT
<1>6. Damage(data, w, a, p, b, q)
  BY <1>1, <1>4 DEF Damage
<1> QED
  BY <1>3, <1>5, <1>6 DEF data

LEMMA TwoFlips ==
  ASSUME NEW n \in Nat, NEW w \in Seq(Byte), Len(w) = n + 1,
         NEW m \in 0..(8 * Len(w) - 1), NEW l \in 0..(8 * Len(w) - 1),
         Flip(Flip(w, m), l) # w
  PROVE  \E a \in 1..(n + 1), b \in 1..(n + 2), p, q \in Places :
           a <= b /\ ~(a = b /\ p = q) /\ Damage(Flip(Flip(w, m), l), w, a, p, b, q)
<1> DEFINE v == Flip(w, m)
           data == Flip(v, l)
<1>1. PICK a \in 1..(n + 1), p \in Places :
        /\ v \in Seq(Byte) /\ Len(v) = Len(w)
        /\ v[a] = Exor(w[a], p)
        /\ \A k \in 1..Len(w) : k # a => v[k] = w[k]
  BY FlipOne
<1>2. PICK b \in 1..(n + 1), q \in Places :
        /\ data \in Seq(Byte) /\ Len(data) = Len(w)
        /\ data[b] = Exor(v[b], q)
        /\ \A k \in 1..Len(w) : k # b => data[k] = v[k]
  <2> HIDE DEF v
  <2>1. l \in 0..(8 * Len(v) - 1) /\ 1..Len(v) = 1..(n + 1) /\ Len(v) = Len(w)
    BY <1>1
  <2>2. PICK b \in 1..Len(v), q \in Places :
          /\ data \in Seq(Byte) /\ Len(data) = Len(v)
          /\ data[b] = Exor(v[b], q)
          /\ \A k \in 1..Len(v) : k # b => data[k] = v[k]
    BY <1>1, <2>1, FlipOne
  <2> QED
    BY <2>1, <2>2
<1>3. data # w
  OBVIOUS
<1> HIDE DEF v, data
<1>4. \A k \in 1..Len(w) : w[k] \in Byte /\ k \in 1..(n + 1)
  BY SMT
<1>5. p \in Byte /\ q \in Byte
  BY SMT DEF Places, Byte
<1>6. ASSUME NEW k \in 1..Len(w)
      PROVE  data[k] = Exor(w[k], Error(k, a, p, b, q))
  <2>1. w[k] \in Byte
    BY <1>4
  <2>2. CASE k = a /\ k = b
    <3>1. Error(k, a, p, b, q) = Exor(p, q)
      BY <2>2, ErrorIs
    <3>2. Exor(Exor(w[k], p), q) = Exor(w[k], Exor(p, q))
      BY <1>5, <2>1, ExorAssociates
    <3> QED
      BY <1>1, <1>2, <2>2, <3>1, <3>2
  <2>3. CASE k = a /\ k # b
    <3>1. Error(k, a, p, b, q) = p
      BY <2>3, ErrorIs
    <3> QED
      BY <1>1, <1>2, <2>3, <3>1
  <2>4. CASE k # a /\ k = b
    <3>1. Error(k, a, p, b, q) = q
      BY <2>4, ErrorIs
    <3> QED
      BY <1>1, <1>2, <2>4, <3>1
  <2>5. CASE k # a /\ k # b
    <3>1. Error(k, a, p, b, q) = 0
      BY <2>5, ErrorIs
    <3>2. Exor(w[k], 0) = w[k]
      BY <1>5, <2>1, ExorCancels
    <3> QED
      BY <1>1, <1>2, <2>5, <3>1, <3>2
  <2> QED
    BY <2>2, <2>3, <2>4, <2>5
<1>7. Damage(data, w, a, p, b, q)
  BY <1>2, <1>6 DEF Damage
<1>8. Damage(data, w, b, q, a, p)
  <2>1. ASSUME NEW k \in 1..Len(w) PROVE Error(k, a, p, b, q) = Error(k, b, q, a, p)
    <3>1. 0 \in Byte
      BY SMT DEF Byte
    <3> QED
      BY <1>5, <3>1, ExorCommutes DEF Error
  <2> QED
    BY <1>7, <2>1 DEF Damage
<1>9. ASSUME a = b, p = q PROVE FALSE
  <2>1. ASSUME NEW k \in 1..Len(w) PROVE data[k] = w[k]
    <3>1. CASE k = a
      <4>1. Error(k, a, p, b, q) = Exor(p, p)
        BY <1>9, <3>1, ErrorIs
      <4>2. Exor(p, p) = 0 /\ Exor(w[k], 0) = w[k]
        BY <1>4, <1>5, ExorCancels
      <4> QED
        BY <1>6, <4>1, <4>2
    <3>2. CASE k # a
      BY <1>1, <1>2, <1>9, <3>2
    <3> QED
      BY <3>1, <3>2
  <2>2. data = w
    BY <1>2, <2>1, SeqEqual
  <2> QED
    BY <1>3, <2>2
<1>10. CASE a <= b
  <2>1. b \in 1..(n + 2)
    BY SMT
  <2> QED
    BY <1>7, <1>9, <1>10, <2>1 DEF data, v
<1>11. CASE b < a
  <2>1. a \in 1..(n + 2) /\ b <= a /\ a # b
    BY <1>11, SMT
  <2> QED
    BY <1>8, <2>1 DEF data, v
<1>12. a <= b \/ b < a
  BY SMT
<1> QED
  BY <1>10, <1>11, <1>12

\* The receiver accepts what was sent, and nothing else that the line delivers.
LEMMA Verdict ==
  ASSUME NEW n \in 0..5, packet.bytes \in Seq(Byte), Len(packet.bytes) = n,
         crc \in SevenBits, crc = Remainders(packet.bytes)[n], NEW data \in Flipped
  PROVE  crcCheck(data) <=> data = Wire
<1>1. PICK bytes \in Seq(Byte), c \in Byte : /\ bytes = packet.bytes /\ c = crc /\ Len(bytes) = n
                                           /\ c = Remainders(bytes)[n]
  BY SMT DEF SevenBits, Byte
<1>2. /\ Wire = Append(bytes, c) /\ Wire \in Seq(Byte) /\ Len(Wire) = n + 1 /\ n \in Nat
      /\ Wire[n + 1] = c /\ \A k \in 1..n : Wire[k] = bytes[k] /\ k \in 1..Len(Wire)
      /\ n + 1 \in 1..Len(Wire)
  BY <1>1, SMT DEF Wire
<1>3. crcCheck(Wire)
  BY <1>1, <1>2, Accepted
<1>4. ASSUME data # Wire PROVE ~crcCheck(data)
  <2>1. PICK a \in 1..(n + 1), b \in 1..(n + 2), p \in Places, q \in Places :
          a <= b /\ ~(a = b /\ p = q) /\ Damage(data, Wire, a, p, b, q)
    <3>1. \/ \E m \in 0..(8 * Len(Wire) - 1) : data = Flip(Wire, m)
          \/ \E m, l \in 0..(8 * Len(Wire) - 1) : data = Flip(Flip(Wire, m), l)
      <4> DEFINE Bits == 0..(8 * Len(Wire) - 1)
      <4>1. Flipped = {Wire} \cup {Flip(Wire, m) : m \in Bits}
                        \cup {Flip(Flip(Wire, m), l) : m, l \in Bits}
        BY DEF Flipped
      <4> HIDE DEF Bits
      <4>2. (\E m \in Bits : data = Flip(Wire, m)) \/ (\E m, l \in Bits : data = Flip(Flip(Wire, m), l))
        BY <1>4, <4>1, SMT
      <4> QED
        BY <4>2 DEF Bits
    <3>0. PICK w \in Seq(Byte) : w = Wire /\ Len(w) = n + 1
      BY <1>2
    <3>2. ASSUME NEW m \in 0..(8 * Len(Wire) - 1), data = Flip(Wire, m)
          PROVE  \E a \in 1..(n + 1), b \in 1..(n + 2), p, q \in Places :
                   a <= b /\ ~(a = b /\ p = q) /\ Damage(data, Wire, a, p, b, q)
      BY <1>2, <3>0, <3>2, OneFlip
    <3>3. ASSUME NEW m \in 0..(8 * Len(Wire) - 1), NEW l \in 0..(8 * Len(Wire) - 1),
                 data = Flip(Flip(Wire, m), l)
          PROVE  \E a \in 1..(n + 1), b \in 1..(n + 2), p, q \in Places :
                   a <= b /\ ~(a = b /\ p = q) /\ Damage(data, Wire, a, p, b, q)
      <4>1. /\ m \in 0..(8 * Len(w) - 1) /\ l \in 0..(8 * Len(w) - 1)
            /\ Flip(Flip(w, m), l) # w /\ data = Flip(Flip(w, m), l)
        BY <1>4, <3>0, <3>3
      <4>2. \E a \in 1..(n + 1), b \in 1..(n + 2), p, q \in Places :
              a <= b /\ ~(a = b /\ p = q) /\ Damage(Flip(Flip(w, m), l), w, a, p, b, q)
        BY <1>2, <3>0, <4>1, TwoFlips, ZenonT(30)
      <4> QED
        BY <3>0, <4>1, <4>2
    <3> QED
      BY <3>1, <3>2, <3>3
  <2>2. /\ data \in Seq(Byte) /\ Len(data) = n + 1
        /\ \A k \in 1..n : data[k] = Exor(bytes[k], Error(k, a, p, b, q))
        /\ data[n + 1] = Exor(Remainders(bytes)[n], Error(n + 1, a, p, b, q))
    BY <1>1, <1>2, <2>1 DEF Damage
  <2>3. b \in a..(n + 2)
    BY <2>1, SMT
  <2> QED
    BY <1>1, <2>1, <2>2, <2>3, Rejected
<1> QED
  BY <1>3, <1>4

-----------------------------------------------------------------------------
(* Packets are bytes, at most five when the CRC covers them all. *)

Packed(p) ==
  /\ p.bytes \in Seq(Byte) /\ p.covered \in 0..Len(p.bytes)
  /\ p.covered = Len(p.bytes) => Len(p.bytes) <= 5

\* What is packed in full.
LEMMA FullPacket ==
  ASSUME NEW bytes \in Seq(Byte), Len(bytes) <= 5
  PROVE  Packed(Full(bytes))
BY DEF Full, Packed

\* What any caller may ask a driver for.
LEMMA RequestBytes ==
  ASSUME NEW r \in QikRequests \cup PololuRequests
  PROVE  Packed(r)
<1>1. Start \in Byte /\ DeviceID \in Byte /\ \A b \in Param : b \in Byte
  BY ConstantAssumption, SMT DEF Start, DeviceID, Byte
<1>2. CASE r \in QIK_SendCommand
  <2>1. PICK c \in {1, 2, 16, 17} : r = Full(<<Start, DeviceID, c>>)
    BY <1>2 DEF QIK_SendCommand
  <2>2. <<Start, DeviceID, c>> \in Seq(Byte) /\ Len(<<Start, DeviceID, c>>) <= 5
    BY <1>1, SMT DEF Byte
  <2> QED
    BY <2>1, <2>2, FullPacket
<1>3. CASE \E b \in Param : r = QIK_SendCommandParam(3, b)
  <2>1. PICK b \in Param : r = Full(<<Start, DeviceID, 3, b>>)
    BY <1>3 DEF QIK_SendCommandParam
  <2>2. <<Start, DeviceID, 3, b>> \in Seq(Byte) /\ Len(<<Start, DeviceID, 3, b>>) <= 5
    BY <1>1, SMT DEF Byte
  <2> QED
    BY <2>1, <2>2, FullPacket
<1>4. CASE \E q \in 0..11, b \in Param : r = QIK_SetConfigParam(q, b)
  <2>1. PICK q \in 0..11, b \in Param : r = QIK_SetConfigParam(q, b)
    BY <1>4
  <2>2. <<Start, DeviceID, 4, q, b, 85, 42>> \in Seq(Byte)
    BY <1>1, SMT DEF Byte
  <2> QED
    BY <2>1, <2>2, SMT DEF QIK_SetConfigParam, Packed
<1>5. CASE r \in POLOLU_Command
  <2>1. PICK c \in {3, 96} : r = Full(<<Start, 1, c>>)
    BY <1>5 DEF POLOLU_Command
  <2>2. <<Start, 1, c>> \in Seq(Byte) /\ Len(<<Start, 1, c>>) <= 5
    BY <1>1, SMT DEF Byte
  <2> QED
    BY <2>1, <2>2, FullPacket
<1>6. CASE \E b \in Param : r \in POLOLU_CommandParam(b)
  <2>1. PICK b \in Param, c \in {18, 33} : r = Full(<<Start, 1, c, b>>)
    BY <1>6 DEF POLOLU_CommandParam
  <2>2. <<Start, 1, c, b>> \in Seq(Byte) /\ Len(<<Start, 1, c, b>>) <= 5
    BY <1>1, SMT DEF Byte
  <2> QED
    BY <2>1, <2>2, FullPacket
<1>7. CASE \E s \in Speed : r \in POLOLU_Motor(s)
  <2>1. PICK s \in Speed, c \in {5, 6} : r = Full(<<Start, 1, c, s % 32, s \div 32>>)
    BY <1>7 DEF POLOLU_Motor
  <2>2. s \in Int /\ 0 <= s /\ s <= 8191
    BY ConstantAssumption, SMT
  <2>3. s % 32 \in Byte /\ s \div 32 \in Byte
    BY <2>2, SMT DEF Byte
  <2>4. <<Start, 1, c, s % 32, s \div 32>> \in Seq(Byte) /\ Len(<<Start, 1, c, s % 32, s \div 32>>) <= 5
    BY <1>1, <2>3, SMT DEF Byte
  <2> QED
    BY <2>1, <2>4, FullPacket
<1>8. ASSUME r \in QikRequests
      PROVE  \/ r \in QIK_SendCommand
             \/ \E b \in Param : r = QIK_SendCommandParam(3, b)
             \/ \E q \in 0..11, b \in Param : r = QIK_SetConfigParam(q, b)
  BY <1>8 DEF QikRequests
<1>9. ASSUME r \in PololuRequests
      PROVE  \/ r \in POLOLU_Command
             \/ \E b \in Param : r \in POLOLU_CommandParam(b)
             \/ \E s \in Speed : r \in POLOLU_Motor(s)
  BY <1>9 DEF PololuRequests
<1> QED
  BY <1>2, <1>3, <1>4, <1>5, <1>6, <1>7, <1>8, <1>9

\* Motor commands are packed in full, too.
LEMMA CommandBytes ==
  ASSUME NEW m \in {"M0", "M1"}, NEW c \in Commands
  PROVE  LET p == QIK_SendCommandParam(Code[m][c.cmd], c.byte)
         IN Packed(p)
<1>1. Start \in Byte /\ DeviceID \in Byte
  BY SMT DEF Start, DeviceID, Byte
<1>2. c.cmd \in {"forward", "reverse", "brake"} /\ c.byte \in Byte
  BY DEF Commands
<1>3. Code[m][c.cmd] \in {6, 7, 8, 10, 12, 14}
  BY <1>2 DEF Code
<1>4. Code[m][c.cmd] \in Byte
  BY <1>3, SMT DEF Byte
<1>5. /\ <<Start, DeviceID, Code[m][c.cmd], c.byte>> \in Seq(Byte)
      /\ Len(<<Start, DeviceID, Code[m][c.cmd], c.byte>>) <= 5
  BY <1>1, <1>2, <1>4, SMT
<1> QED
  BY <1>5, FullPacket DEF QIK_SendCommandParam

-----------------------------------------------------------------------------
(* The invariant. *)

\* It holds initially: of a command still to come, and of a request.
LEMMA InitIInv == Init => IInv
<1> SUFFICES ASSUME Init PROVE IInv
  OBVIOUS
<1>1. velocity \in Int /\ angle \in Int /\ brake \in Nat
  <2>1. /\ velocity = 0 \/ velocity \in Velocity
        /\ angle = 0 \/ angle \in Angle
        /\ brake = 0 \/ brake \in Strength
    BY DEF Init
  <2>2. Velocity \subseteq Int /\ Angle \subseteq Int /\ Strength \subseteq Nat
    BY ConstantAssumption, SMT
  <2>3. /\ velocity \in Velocity => velocity \in Int
        /\ angle \in Angle => angle \in Int
        /\ brake \in Strength => brake \in Nat
    BY <2>2, Zenon
  <2> QED
    BY <2>1, <2>3, SMT
<1>2. motor \in [{"M0", "M1"} -> Commands]
  BY BrakeType, SMT DEF Init, Stop
<1>3. Packed(packet)
  <2>1. CASE packet = None
    <3>1. <<>> \in Seq(Byte) /\ Len(<<>>) <= 5
      OBVIOUS
    <3> QED
      BY <2>1, <3>1, FullPacket DEF None
  <2>2. CASE packet \in QikRequests \cup PololuRequests
    BY <2>2, RequestBytes
  <2> QED
    BY <2>1, <2>2 DEF Init
<1>4. i \in 0..packet.covered /\ crc \in SevenBits
  BY <1>3, SMT DEF Init, SevenBits, Packed
<1>5. TypeOK
  BY <1>1, <1>2, <1>3, <1>4, SMT DEF Init, TypeOK, Packed
<1>6. FromCommand /\ AcceptedIfIntact
  BY SMT DEF Init, FromCommand, AcceptedIfIntact
<1>7. Remainders(packet.bytes)[0] = 0
  BY <1>3, RemaindersLoop DEF Packed
<1>8. Divided
  BY <1>3, <1>7, SMT DEF Init, Divided, Packed
<1> QED
  BY <1>5, <1>6, <1>8 DEF IInv

\* Every step keeps it.
LEMMA StepIInv == IInv /\ [Next]_vars => IInv'
<1> SUFFICES ASSUME IInv, [Next]_vars PROVE IInv'
  OBVIOUS
<1>1. TypeOK /\ FromCommand /\ Divided /\ AcceptedIfIntact
  BY DEF IInv
<1>2. CASE WHEEL_GetSpeed
  <2>1. leftSpeed' \in Int /\ rightSpeed' \in Int
    BY <1>1, <1>2, SpeedInt DEF WHEEL_GetSpeed, TypeOK
  <2>2. TypeOK'
    BY <1>1, <1>2, <2>1, SMT DEF WHEEL_GetSpeed, TypeOK, driver
  <2>3. FromCommand'
    BY <1>1, <1>2, SMT DEF WHEEL_GetSpeed, TypeOK, FromCommand, driver
  <2>4. Divided' /\ AcceptedIfIntact'
    BY <1>1, <1>2, SMT DEF WHEEL_GetSpeed, Divided, AcceptedIfIntact, driver
  <2> QED
    BY <2>2, <2>3, <2>4 DEF IInv
<1>3. CASE WHEEL_ControlSpeed
  <2>0. Divided' /\ AcceptedIfIntact'
    BY <1>1, <1>3, SMT DEF WHEEL_ControlSpeed, Divided, AcceptedIfIntact, driver
  <2>1. CASE brake > 0
    <3>1. motor' = [M0 |-> BrakeCommand(brake), M1 |-> BrakeCommand(brake)]
      BY <1>1, <1>3, <2>1, SMT DEF WHEEL_ControlSpeed, FromCommand
    <3>2. motor' \in [{"M0", "M1"} -> Commands]
      BY <1>1, <3>1, BrakeType, SMT DEF TypeOK
    <3>3. TypeOK'
      BY <1>1, <1>3, <3>2, SMT DEF WHEEL_ControlSpeed, TypeOK, driver
    <3> QED
      BY <1>1, <1>3, <2>0, <2>1, <3>1, <3>3, SMT DEF WHEEL_ControlSpeed, IInv, FromCommand, driver
  <2>2. CASE ~(brake > 0)
    <3>1. /\ step = "speed"
          /\ motor' = [M0 |-> MotorCommand(leftSpeed), M1 |-> MotorCommand(rightSpeed)]
      BY <1>3, <2>2 DEF WHEEL_ControlSpeed
    <3>2. motor' \in [{"M0", "M1"} -> Commands]
      BY <1>1, <3>1, CommandType, SMT DEF TypeOK
    <3>3. TypeOK'
      BY <1>1, <1>3, <3>2, SMT DEF WHEEL_ControlSpeed, TypeOK, driver
    <3> QED
      BY <1>1, <1>3, <2>0, <2>2, <3>1, <3>3, SMT DEF WHEEL_ControlSpeed, IInv, FromCommand, driver
  <2> QED
    BY <2>1, <2>2
<1>4. CASE ToDriver
  <2>1. PICK m \in {"M0", "M1"} :
          packet' = QIK_SendCommandParam(Code[m][motor[m].cmd], motor[m].byte)
    BY <1>4 DEF ToDriver
  <2>2. motor[m] \in Commands
    BY <1>1 DEF TypeOK
  <2>3. /\ packet'.bytes \in Seq(Byte) /\ packet'.covered \in 0..Len(packet'.bytes)
        /\ packet'.covered = Len(packet'.bytes) => Len(packet'.bytes) <= 5
    BY <2>1, <2>2, CommandBytes DEF Packed
  <2>4. i' = 0 /\ crc' = 0
    BY <1>1, <1>4 DEF ToDriver, FromCommand
  <2>5. motor' \in [{"M0", "M1"} -> Commands]
    BY <1>4, BrakeType, SMT DEF ToDriver, Stop
  <2>6. TypeOK'
    BY <1>1, <1>4, <2>3, <2>4, <2>5, SMT DEF ToDriver, TypeOK
  <2>7. Remainders(packet'.bytes)[0] = 0
    BY <2>3, RemaindersLoop
  <2>8. Divided' /\ AcceptedIfIntact'
    BY <1>4, <2>3, <2>4, <2>7, SMT DEF ToDriver, Divided, AcceptedIfIntact
  <2> QED
    BY <1>4, <2>6, <2>8, SMT DEF ToDriver, IInv, FromCommand
<1>5. CASE GetCRC
  <2>1. /\ i \in 0..Len(packet.bytes) /\ i + 1 \in 1..Len(packet.bytes)
        /\ i + 1 \in 0..packet.covered /\ (i + 1) - 1 = i
    BY <1>1, <1>5, SMT DEF GetCRC, TypeOK
  <2>2. packet.bytes[i + 1] \in Byte
    BY <1>1, <2>1, Entry DEF TypeOK
  <2>3. /\ crc' \in SevenBits
        /\ crc' = Divide(Exor(crc, packet.bytes[i + 1]))
    BY <1>1, <1>5, <2>2, NextCRCDivides DEF GetCRC, TypeOK
  <2>4. crc' = Remainders(packet.bytes)[i + 1]
    <3>1. Remainders(packet.bytes)[i + 1]
            = Divide(Exor(Remainders(packet.bytes)[i], packet.bytes[i + 1]))
      BY <1>1, <2>1, RemaindersLoop DEF TypeOK
    <3>2. crc = Remainders(packet.bytes)[i]
      BY <1>1, <1>5 DEF GetCRC, Divided
    <3> QED
      BY <2>3, <3>1, <3>2
  <2>5. TypeOK'
    BY <1>1, <1>5, <2>1, <2>3, SMT DEF GetCRC, TypeOK, locals
  <2>6. Divided' /\ AcceptedIfIntact'
    BY <1>1, <1>5, <2>4, SMT DEF GetCRC, Divided, AcceptedIfIntact
  <2> QED
    BY <1>1, <1>5, <2>5, <2>6, SMT DEF GetCRC, IInv, FromCommand
<1>6. CASE Send
  <2>1. TypeOK' /\ FromCommand'
    BY <1>1, <1>6, SMT DEF Send, TypeOK, FromCommand, locals, driver
  <2>2. Divided' /\ AcceptedIfIntact'
    BY <1>1, <1>6, SMT DEF Send, Divided, AcceptedIfIntact, driver
  <2> QED
    BY <2>1, <2>2 DEF IInv
<1>7. CASE Deliver
  <2>1. TypeOK' /\ FromCommand' /\ Divided'
    BY <1>1, <1>7, SMT DEF Deliver, TypeOK, FromCommand, Divided, locals, driver
  <2>2. AcceptedIfIntact'
    <3>1. PICK data \in Flipped :
            /\ damaged' = (data # Wire)
            /\ verdict' = IF crcCheck(data) THEN "accepted" ELSE "rejected"
      BY <1>7 DEF Deliver
    <3>2. ASSUME packet.covered = Len(packet.bytes) PROVE crcCheck(data) <=> data = Wire
      <4>1. PICK n \in 0..5 : n = Len(packet.bytes)
        <5>1. packet.bytes \in Seq(Byte) /\ Len(packet.bytes) <= 5
          BY <1>1, <3>2 DEF TypeOK, Divided
        <5>2. Len(packet.bytes) \in Nat
          BY <5>1, LenProperties
        <5>3. PICK n \in Nat : n = Len(packet.bytes)
          BY <5>2
        <5>4. n <= 5
          BY <5>1, <5>3
        <5>5. n \in 0..5
          BY <5>4
        <5> QED
          BY <5>3, <5>5
      <4>2. crc \in SevenBits /\ crc = Remainders(packet.bytes)[n]
        BY <1>1, <1>7, <3>2, <4>1 DEF Deliver, TypeOK, Divided
      <4> QED
        BY <1>1, <4>1, <4>2, Verdict DEF TypeOK
    <3>3. ASSUME crcCheck(data) <=> data = Wire PROVE (verdict' = "accepted" <=> ~damaged')
      BY <3>1, <3>3
    <3>4. packet' = packet
      BY <1>7 DEF Deliver, driver
    <3> QED
      BY <3>2, <3>3, <3>4 DEF AcceptedIfIntact
  <2> QED
    BY <2>1, <2>2 DEF IInv
<1>8. CASE UNCHANGED vars
  <2>1. TypeOK' /\ FromCommand'
    BY <1>1, <1>8, SMT DEF TypeOK, FromCommand, vars, locals, driver
  <2>2. Divided' /\ AcceptedIfIntact'
    BY <1>1, <1>8, SMT DEF Divided, AcceptedIfIntact, vars, driver, receiver
  <2> QED
    BY <2>1, <2>2 DEF IInv
<1> QED
  BY <1>2, <1>3, <1>4, <1>5, <1>6, <1>7, <1>8 DEF Next

\* The way to the line, for any velocities, angles, brakes and parameters.
THEOREM Invariance == Spec => []IInv
BY InitIInv, StepIInv, PTL DEF Spec

\* Every variable on the way to the line has its type; the CRC has seven bits.
THEOREM TypeCorrect == Spec => []TypeOK
<1>1. IInv => TypeOK
  BY DEF IInv
<1> QED
  BY <1>1, Invariance, PTL

\* However a command and its packet come about, no byte of a motor command and no
\* CRC is one that a controller takes for the start of a packet.
THEOREM FramedPackets == Spec => []Framed
<1>1. IInv => Framed
  <2> SUFFICES ASSUME IInv PROVE Framed
    OBVIOUS
  <2>1. TypeOK /\ FromCommand
    BY DEF IInv
  <2>2. crc < 128
    BY <2>1, SMT DEF TypeOK, SevenBits
  <2>3. ASSUME step = "motor", Abs(velocity) <= 100, brake <= 127, NEW m \in {"M0", "M1"}
        PROVE  motor[m].byte < 128
    <3>1. CASE brake > 0
      <4>1. motor[m] = BrakeCommand(brake)
        BY <2>1, <2>3, <3>1, SMT DEF FromCommand
      <4>2. brake \in Nat /\ brake < 128
        BY <2>1, <2>3, SMT DEF TypeOK
      <4> QED
        BY <4>1, <4>2, BrakeType
    <3>2. CASE ~(brake > 0)
      <4>1. PICK v \in Int, a \in Int : v = velocity /\ a = angle /\ -100 <= v /\ v <= 100
        BY <2>1, <2>3, SMT DEF TypeOK, Abs
      <4>2. motor[m] = MotorCommand(GetSpeed(v, a).left) \/ motor[m] = MotorCommand(GetSpeed(v, a).right)
        BY <2>1, <2>3, <3>2, <4>1, SMT DEF FromCommand
      <4>3. InRange(GetSpeed(v, a).left) /\ InRange(GetSpeed(v, a).right)
        BY <4>1, AnySpeedRange
      <4> QED
        BY <4>2, <4>3, CommandByte DEF InRange
    <3> QED
      BY <3>1, <3>2
  <2> QED
    BY <2>2, <2>3 DEF Framed
<1> QED
  BY <1>1, Invariance, PTL

\* Whatever a driver is asked to send, its loop over the table computes at every
\* byte the remainder of the division by the polynomial.
THEOREM TableDivides == Spec => []TableIsRemainder
<1>1. IInv => TableIsRemainder
  BY DEF IInv, Divided, TableIsRemainder
<1> QED
  BY <1>1, Invariance, PTL

\* Whatever a driver sends whole, the receiver accepts it if it arrives as it was
\* sent, and never with one or two bits flipped.
THEOREM IntactAccepted == Spec => []AcceptedIfIntact
<1>1. IInv => AcceptedIfIntact
  BY DEF IInv
<1> QED
  BY <1>1, Invariance, PTL

\* WHEEL_GetSpeed has no preferred side, whatever it is given.
THEOREM Symmetry == Spec => []MirrorSymmetric
<1>1. IInv => MirrorSymmetric
  <2> SUFFICES ASSUME IInv, Turned PROVE MirrorSymmetric
    BY DEF MirrorSymmetric
  <2>1. PICK v \in Int, a \in Int : v = velocity /\ a = angle
    BY DEF IInv, TypeOK
  <2>2. leftSpeed = GetSpeed(v, a).left /\ rightSpeed = GetSpeed(v, a).right
    BY <2>1 DEF IInv, FromCommand, Turned
  <2>3. -360 <= a /\ a <= 360
    BY <2>1, TurnedAngle DEF Turned
  <2> QED
    BY <2>1, <2>2, <2>3, Mirrored DEF MirrorSymmetric
<1> QED
  BY <1>1, Invariance, PTL

\* The quadrants of WHEEL_GetSpeed fit together, whatever it is given.
THEOREM SmoothQuadrants == Spec => []Smooth
<1>1. IInv => Smooth
  <2> SUFFICES ASSUME IInv, Turned PROVE Smooth
    BY DEF Smooth
  <2>1. PICK v \in Int, a \in Int : v = velocity /\ a = angle
    BY DEF IInv, TypeOK
  <2>2. leftSpeed = GetSpeed(v, a).left /\ rightSpeed = GetSpeed(v, a).right
    BY <2>1 DEF IInv, FromCommand, Turned
  <2>3. -360 <= a /\ a <= 360
    BY <2>1, TurnedAngle DEF Turned
  <2>4. Close(GetSpeed(v, (Normal(a) + 1) % 360), GetSpeed(v, a), v)
    BY <2>3, SmoothSteering
  <2>5. PICK x \in Int, y \in Int, z \in Int, w \in Int :
          /\ x = GetSpeed(v, (Normal(a) + 1) % 360).left
          /\ y = GetSpeed(v, (Normal(a) + 1) % 360).right
          /\ z = GetSpeed(v, a).left /\ w = GetSpeed(v, a).right
    <3>1. (Normal(a) + 1) % 360 \in Int
      BY SMT DEF Normal
    <3> QED
      BY <3>1, SpeedInt
  <2>6. Near(x, z, v) /\ Near(y, w, v)
    BY <2>4, <2>5 DEF Close
  <2> DEFINE next(u, b) == GetSpeed(u, (Normal(b) + 1) % 360)
             bound(u) == 1 + CeilDiv(23 * Abs(u), 1000)
  <2>7. Abs(x - z) <= bound(v) /\ Abs(y - w) <= bound(v)
    BY <2>6, NearAbs
  <2>8. next(v, a).left = x /\ next(v, a).right = y /\ leftSpeed = z /\ rightSpeed = w
    BY <2>2, <2>5
  <2>9. /\ Abs(next(velocity, angle).left - leftSpeed) <= bound(velocity)
        /\ Abs(next(velocity, angle).right - rightSpeed) <= bound(velocity)
    <3> HIDE DEF next, bound
    <3> QED
      BY <2>1, <2>7, <2>8
  <2> QED
    BY <2>9 DEF Smooth
<1> QED
  BY <1>1, Invariance, PTL
=============================================================================
