------------------------------- MODULE Packet -------------------------------
(***************************************************************************)
(* The packets of the two motor controller drivers (qik.c, pololu.c) and   *)
(* the 7-bit CRC they end in, as operators.                                *)
(***************************************************************************)
EXTENDS Integers, Sequences, FiniteSets, SequencesExt

\* QIK_CRC_Table and POLOLU_CRC_Table (they are equal), from index 1.
CRC_Table == <<
      0,  65,  19,  82,  38, 103,  53, 116,  76,  13,  95,  30, 106,  43, 121,  56,
      9,  72,  26,  91,  47, 110,  60, 125,  69,   4,  86,  23,  99,  34, 112,  49,
     18,  83,   1,  64,  52, 117,  39, 102,  94,  31,  77,  12, 120,  57, 107,  42,
     27,  90,   8,  73,  61, 124,  46, 111,  87,  22,  68,   5, 113,  48,  98,  35,
     36, 101,  55, 118,   2,  67,  17,  80, 104,  41, 123,  58,  78,  15,  93,  28,
     45, 108,  62, 127,  11,  74,  24,  89,  97,  32, 114,  51,  71,   6,  84,  21,
     54, 119,  37, 100,  16,  81,   3,  66, 122,  59, 105,  40,  92,  29,  79,  14,
     63, 126,  44, 109,  25,  88,  10,  75, 115,  50,  96,  33,  85,  20,  70,   7,
     72,   9,  91,  26, 110,  47, 125,  60,   4,  69,  23,  86,  34,  99,  49, 112,
     65,   0,  82,  19, 103,  38, 116,  53,  13,  76,  30,  95,  43, 106,  56, 121,
     90,  27,  73,   8, 124,  61, 111,  46,  22,  87,   5,  68,  48, 113,  35,  98,
     83,  18,  64,   1, 117,  52, 102,  39,  31,  94,  12,  77,  57, 120,  42, 107,
    108,  45, 127,  62,  74,  11,  89,  24,  32,  97,  51, 114,   6,  71,  21,  84,
    101,  36, 118,  55,  67,   2,  80,  17,  41, 104,  58, 123,  15,  78,  28,  93,
    126,  63, 109,  44,  88,  25,  75,  10,  50, 115,  33,  96,  20,  85,   7,  70,
    119,  54, 100,  37,  81,  16,  66,   3,  59, 122,  40, 105,  29,  92,  14,  79 >>

-----------------------------------------------------------------------------
(* The packets, without their CRC. *)

Start == 170        \* QIK_START_BYTE, POLOLU_COMMAND_BYTE
DeviceID == 10      \* QIK_DEFAULT_DEVICE_ID

Full(bytes) == [bytes |-> bytes, covered |-> Len(bytes)]

\* GET_FW_VERSION, GET_ERROR_BYTE, M0_GET_CURRENT, M1_GET_CURRENT.
QIK_SendCommand == {Full(<<Start, DeviceID, c>>) : c \in {1, 2, 16, 17}}

\* The code of a command for a motor: M0 6, 8, 10; M1 7, 12, 14.
Code ==
  [M0 |-> [brake |-> 6, forward |-> 8, reverse |-> 10],
   M1 |-> [brake |-> 7, forward |-> 12, reverse |-> 14]]

\* QIK_M0_Forward and its five sisters.
QIK_SendCommandParam(c, p) == Full(<<Start, DeviceID, c, p>>)

\* SET_CONFIG_PARAM: the CRC is computed from four of its seven bytes.
QIK_SetConfigParam(q, v) == [bytes |-> <<Start, DeviceID, 4, q, v, 85, 42>>, covered |-> 4]

\* EXIT_SAFE_START and STOP_MOTOR; MOTOR_BRAKE and GET_VARIABLE; MOTOR_FORWARD
\* and MOTOR_REVERSE with the speed in two parts.
POLOLU_Command == {Full(<<Start, 1, c>>) : c \in {3, 96}}
POLOLU_CommandParam(p) == {Full(<<Start, 1, c, p>>) : c \in {18, 33}}
POLOLU_Motor(s) == {Full(<<Start, 1, c, s % 32, s \div 32>>) : c \in {5, 6}}

-----------------------------------------------------------------------------
(* The CRC.  One step of the loop of QIK_GetCRC and crcGet, the check of   *)
(* pololu.c, and what the table stands for.                                *)

\* a ^ b of two bytes: the sum of the powers of two that are in one of them only.
\* From a table (a tuple, so that TLC computes it once).
Differ(a, b, power) == IF (a \div power) % 2 = (b \div power) % 2 THEN 0 ELSE power
Sum8(a, b) ==
  Differ(a, b, 1) + Differ(a, b, 2) + Differ(a, b, 4) + Differ(a, b, 8)
    + Differ(a, b, 16) + Differ(a, b, 32) + Differ(a, b, 64) + Differ(a, b, 128)
Pairs == 256 * 256
XorTable == SubSeq([n \in 1..Pairs |-> Sum8((n - 1) \div 256, (n - 1) % 256)], 1, Pairs)
Exor(a, b) == XorTable[256 * a + b + 1]

\* The mutated form of NextCRC: the running value is not fed back.
NextCRCMutant(crc, byte) == CRC_Table[byte + 1]

\* crc = QIK_CRC_Table[crc ^ data[i]];
NextCRC(crc, byte) == CRC_Table[Exor(crc, byte) + 1]

\* crcGet of the first length bytes.
crcGet(data, length) ==
  LET crc[n \in 0..length] == IF n = 0 THEN 0 ELSE NextCRC(crc[n - 1], data[n])
  IN crc[length]

\* The mutated form of crcCheck: the last data byte is left out.
crcCheckMutant(data) == crcGet(data, Len(data) - 2) = Last(data)

crcCheck(data) == crcGet(data, Len(data) - 1) = Last(data)

\* Division by the polynomial 1001 0001 (x^7 + x^3 + 1, lowest bit first), bit
\* by bit.
Halve(x) == (IF x % 2 = 1 THEN Exor(x, 145) ELSE x) \div 2
Divide(x) == Halve(Halve(Halve(Halve(Halve(Halve(Halve(Halve(x))))))))

\* The remainders of the first bytes of data, of none at 0.
Remainders(data) ==
  LET r[n \in 0..Len(data)] == IF n = 0 THEN 0 ELSE Divide(Exor(r[n - 1], data[n]))
  IN r
=============================================================================
