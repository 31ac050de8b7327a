-------------------------- MODULE WheelSpeedProofs --------------------------
(* Theorems about the arithmetic of the drive loop, for any whole velocity. *)
EXTENDS WheelSpeed, TLAPS

\* The speeds r on the axes and in the quadrants between them.
IsSpeed(r, v, b) ==
  /\ b = 90 => r = [left |-> v, right |-> v]
  /\ Within(b, 0, 90) => r = [left |-> v, right |-> Turn(v, b, 45, 1)]
  /\ b \in {0, 360} => r = [left |-> v, right |-> -v]
  /\ Within(b, 90, 180) => r = [left |-> Turn(v, b, 135, -1), right |-> v]
  /\ b = 180 => r = [left |-> -v, right |-> v]
  /\ Within(b, 180, 270) => r = [left |-> -v, right |-> Turn(v, b, 225, -1)]
  /\ b = 270 => r = [left |-> -v, right |-> -v]
  /\ Within(b, 270, 360) => r = [left |-> Turn(v, b, 315, 1), right |-> -v]

\* They are what WHEEL_GetSpeed computes: no two of its tests of the angle succeed.
LEMMA Arms ==
  ASSUME NEW v \in Int, NEW a \in Int, NEW b \in Int, b = Normal(a)
  PROVE  IsSpeed(GetSpeed(v, a), v, b)
<1> DEFINE n == Normal(a)
<1>1. n \in Int /\ n = b
  OBVIOUS
<1>2. ASSUME n = 90
      PROVE  GetSpeed(v, a) = [left |-> v, right |-> v]
  <2>1. /\ ~Within(n, 0, 90) /\ n \notin {0, 360} /\ ~Within(n, 90, 180) /\ n # 180
        /\ ~Within(n, 180, 270) /\ n # 270 /\ ~Within(n, 270, 360)
    BY <1>1, <1>2 DEF Within
  <2> QED
    BY <1>2, <2>1, Zenon DEF GetSpeed
<1>3. ASSUME Within(n, 0, 90)
      PROVE  GetSpeed(v, a) = [left |-> v, right |-> Turn(v, n, 45, 1)]
  <2>1. /\ n # 90 /\ n \notin {0, 360} /\ ~Within(n, 90, 180) /\ n # 180
        /\ ~Within(n, 180, 270) /\ n # 270 /\ ~Within(n, 270, 360)
    BY <1>1, <1>3 DEF Within
  <2> QED
    BY <1>3, <2>1, Zenon DEF GetSpeed
<1>4. ASSUME n \in {0, 360}
      PROVE  GetSpeed(v, a) = [left |-> v, right |-> -v]
  <2>1. /\ n # 90 /\ ~Within(n, 0, 90) /\ ~Within(n, 90, 180) /\ n # 180
        /\ ~Within(n, 180, 270) /\ n # 270 /\ ~Within(n, 270, 360)
    BY <1>1, <1>4 DEF Within
  <2> QED
    BY <1>4, <2>1, Zenon DEF GetSpeed
<1>5. ASSUME Within(n, 90, 180)
      PROVE  GetSpeed(v, a) = [left |-> Turn(v, n, 135, -1), right |-> v]
  <2>1. /\ n # 90 /\ ~Within(n, 0, 90) /\ n \notin {0, 360} /\ n # 180
        /\ ~Within(n, 180, 270) /\ n # 270 /\ ~Within(n, 270, 360)
    BY <1>1, <1>5 DEF Within
  <2> QED
    BY <1>5, <2>1, Zenon DEF GetSpeed
<1>6. ASSUME n = 180
      PROVE  GetSpeed(v, a) = [left |-> -v, right |-> v]
  <2>1. /\ n # 90 /\ ~Within(n, 0, 90) /\ n \notin {0, 360} /\ ~Within(n, 90, 180)
        /\ ~Within(n, 180, 270) /\ n # 270 /\ ~Within(n, 270, 360)
    BY <1>1, <1>6 DEF Within
  <2> QED
    BY <1>6, <2>1, Zenon DEF GetSpeed
<1>7. ASSUME Within(n, 180, 270)
      PROVE  GetSpeed(v, a) = [left |-> -v, right |-> Turn(v, n, 225, -1)]
  <2>1. /\ n # 90 /\ ~Within(n, 0, 90) /\ n \notin {0, 360} /\ ~Within(n, 90, 180)
        /\ n # 180 /\ n # 270 /\ ~Within(n, 270, 360)
    BY <1>1, <1>7 DEF Within
  <2> QED
    BY <1>7, <2>1, Zenon DEF GetSpeed
<1>8. ASSUME n = 270
      PROVE  GetSpeed(v, a) = [left |-> -v, right |-> -v]
  <2>1. /\ n # 90 /\ ~Within(n, 0, 90) /\ n \notin {0, 360} /\ ~Within(n, 90, 180)
        /\ n # 180 /\ ~Within(n, 180, 270) /\ ~Within(n, 270, 360)
    BY <1>1, <1>8 DEF Within
  <2> QED
    BY <1>8, <2>1, Zenon DEF GetSpeed
<1>9. ASSUME Within(n, 270, 360)
      PROVE  GetSpeed(v, a) = [left |-> Turn(v, n, 315, 1), right |-> -v]
  <2>1. /\ n # 90 /\ ~Within(n, 0, 90) /\ n \notin {0, 360} /\ ~Within(n, 90, 180)
        /\ n # 180 /\ ~Within(n, 180, 270) /\ n # 270
    BY <1>1, <1>9 DEF Within
  <2> QED
    BY <1>9, <2>1, Zenon DEF GetSpeed
<1> HIDE DEF n
<1> QED
  BY <1>1, <1>2, <1>3, <1>4, <1>5, <1>6, <1>7, <1>8, <1>9 DEF IsSpeed

-----------------------------------------------------------------------------
(* Rounding. *)

\* CeilDiv rounds up, by less than one.
LEMMA CeilBounds ==
  ASSUME NEW n \in Int, NEW d \in {1000, 100000}
  PROVE  /\ CeilDiv(n, d) \in Int
         /\ n <= d * CeilDiv(n, d) /\ d * CeilDiv(n, d) < n + d
<1>1. CASE d = 1000
  BY <1>1 DEF CeilDiv
<1>2. CASE d = 100000
  BY <1>2 DEF CeilDiv
<1> QED
  BY <1>1, <1>2

\* What is rounded in a quadrant: the distance from its middle, times the velocity,
\* in units of 2.222 percent.
Lean(v, b, m, s) == s * (v * (b - m))

\* The speed there is that, rounded up.
Rounded(x, t) == 2222 * x <= 100000 * t /\ 100000 * t < 2222 * x + 100000

LEMMA TurnRounded ==
  ASSUME NEW v \in Int, NEW b \in Int, NEW m \in Int, NEW s \in {1, -1}
  PROVE  /\ Lean(v, b, m, s) \in Int /\ Turn(v, b, m, s) \in Int
         /\ Rounded(Lean(v, b, m, s), Turn(v, b, m, s))
<1>1. PICK x \in Int : x = Lean(v, b, m, s)
  BY DEF Lean
<1>2. s * v * (b - m) * 2222 = 2222 * x
  BY <1>1 DEF Lean
<1>3. Turn(v, b, m, s) = CeilDiv(2222 * x, 100000)
  BY <1>2 DEF Turn
<1>4. 2222 * x \in Int
  OBVIOUS
<1> QED
  BY <1>1, <1>3, <1>4, CeilBounds DEF Rounded

\* One degree more moves a wheel by 2.222 percent of the velocity, up to rounding.
Near(x, y, v) ==
  LET abs == IF v < 0 THEN -v ELSE v
      bound == 1 + CeilDiv(23 * abs, 1000)
  IN x - y <= bound /\ y - x <= bound

\* Two speeds whose distance is less than that before rounding are near.
LEMMA NearIf ==
  ASSUME NEW x \in Int, NEW y \in Int, NEW v \in Int,
         100000 * (x - y) < 2300 * v + 100000 \/ 100000 * (x - y) < -2300 * v + 100000,
         100000 * (y - x) < 2300 * v + 100000 \/ 100000 * (y - x) < -2300 * v + 100000
  PROVE  Near(x, y, v)
<1>1. CASE v >= 0
  <2>1. 23 * v \in Int
    OBVIOUS
  <2>2. CeilDiv(23 * v, 1000) \in Int /\ 23 * v <= 1000 * CeilDiv(23 * v, 1000)
    BY <2>1, CeilBounds
  <2> QED
    BY <1>1, <2>2 DEF Near
<1>2. CASE v < 0
  <2>1. 23 * (-v) \in Int
    OBVIOUS
  <2>2. CeilDiv(23 * (-v), 1000) \in Int /\ 23 * (-v) <= 1000 * CeilDiv(23 * (-v), 1000)
    BY <2>1, CeilBounds
  <2> QED
    BY <1>2, <2>2 DEF Near
<1> QED
  BY <1>1, <1>2

\* Inside a quadrant,
LEMMA TurnNear ==
  ASSUME NEW v \in Int, NEW b \in Int, NEW m \in Int, NEW s \in {1, -1}
  PROVE  Near(Turn(v, b + 1, m, s), Turn(v, b, m, s), v)
<1>1. /\ Lean(v, b, m, s) \in Int /\ Turn(v, b, m, s) \in Int
      /\ Rounded(Lean(v, b, m, s), Turn(v, b, m, s))
  BY TurnRounded
<1>2. b + 1 \in Int
  OBVIOUS
<1>3. /\ Lean(v, b + 1, m, s) \in Int /\ Turn(v, b + 1, m, s) \in Int
      /\ Rounded(Lean(v, b + 1, m, s), Turn(v, b + 1, m, s))
  BY <1>2, TurnRounded
<1>4. Lean(v, b + 1, m, s) = Lean(v, b, m, s) + v \/ Lean(v, b + 1, m, s) = Lean(v, b, m, s) - v
  BY DEF Lean
<1> QED
  BY <1>1, <1>3, <1>4, NearIf DEF Rounded

\* and across its ends, where the wheel goes at full speed in one direction.
LEMMA TurnEnds ==
  ASSUME NEW v \in Int, NEW m \in Int, NEW s \in {1, -1}, NEW w \in Int, w = s * v
  PROVE  /\ Near(w, Turn(v, m + 44, m, s), v)
         /\ Near(Turn(v, m - 44, m, s), -w, v)
<1>1. w = v \/ w = -v
  OBVIOUS
<1>2. PICK h \in Int, l \in Int : h = m + 44 /\ l = m - 44
  OBVIOUS
<1>3. Lean(v, h, m, s) = 44 * w /\ Lean(v, l, m, s) = (-44) * w
  BY <1>2 DEF Lean
<1>4. Turn(v, h, m, s) \in Int /\ Rounded(Lean(v, h, m, s), Turn(v, h, m, s))
  BY TurnRounded
<1>5. Turn(v, l, m, s) \in Int /\ Rounded(Lean(v, l, m, s), Turn(v, l, m, s))
  BY TurnRounded
<1>6. Near(w, Turn(v, h, m, s), v)
  BY <1>1, <1>3, <1>4, NearIf DEF Rounded
<1>7. Near(Turn(v, l, m, s), -w, v)
  BY <1>1, <1>3, <1>5, NearIf DEF Rounded
<1> QED
  BY <1>2, <1>6, <1>7

-----------------------------------------------------------------------------
(* Steering. *)

\* The angles a client may send, brought to those of a full turn, which stay.
LEMMA Turns ==
  ASSUME NEW a \in Int, -360 <= a, a <= 360
  PROVE  /\ Normal(a) \in Int /\ 0 <= Normal(a) /\ Normal(a) <= 360
         /\ 0 <= a => Normal(a) = a
BY DEF Normal

\* Angles that mirror each other about n / 2 give the same speed, if the middles do.
LEMMA TurnMirror ==
  ASSUME NEW v \in Int, NEW b \in Int, NEW c \in Int, NEW m \in Int, NEW k \in Int,
         b + c = m + k, NEW s \in {1, -1}, NEW t \in {1, -1}, t = -s
  PROVE  Turn(v, c, k, t) = Turn(v, b, m, s)
<1>1. t * v * (c - k) * 2222 = s * v * (b - m) * 2222
  <2>1. c - k = -(b - m)
    OBVIOUS
  <2>2. CASE s = 1
    BY <2>1, <2>2
  <2>3. CASE s = -1
    BY <2>1, <2>3
  <2> QED
    BY <2>2, <2>3
<1> QED
  BY <1>1 DEF Turn

\* Left and right mirrored, for any velocity: turning the stick about the forward
\* axis exchanges the speeds of the wheels.
THEOREM Mirrored ==
  ASSUME NEW v \in Int, NEW a \in Int, -360 <= a, a <= 360
  PROVE  GetSpeed(v, (540 - Normal(a)) % 360) =
           [left |-> GetSpeed(v, a).right, right |-> GetSpeed(v, a).left]
<1>1. PICK b \in Int : b = Normal(a) /\ 0 <= b /\ b <= 360
  BY Turns
<1>2. PICK c \in Int : c = (540 - b) % 360
  OBVIOUS
<1>3. 0 <= c /\ c < 360 /\ (b <= 180 => c = 180 - b) /\ (180 < b => c = 540 - b)
  BY <1>1, <1>2
<1>4. c = Normal(c)
  BY <1>3, Turns
<1>5. IsSpeed(GetSpeed(v, a), v, b) /\ IsSpeed(GetSpeed(v, c), v, c)
  BY <1>1, <1>4, Arms
<1> DEFINE Swap(r) == [left |-> r.right, right |-> r.left]
<1>6. \A x, y : Swap([left |-> x, right |-> y]) = [left |-> y, right |-> x]
  OBVIOUS
<1> HIDE DEF Swap
<1>7. SUFFICES GetSpeed(v, c) = Swap(GetSpeed(v, a))
  BY <1>1, <1>2 DEF Swap
<1>8. b = 90 \/ b \in {0, 360} \/ b = 180 \/ b = 270 \/ Within(b, 0, 90)
      \/ Within(b, 90, 180) \/ Within(b, 180, 270) \/ Within(b, 270, 360)
  BY <1>1 DEF Within
<1>9. CASE b = 90
  <2>1. GetSpeed(v, a) = [left |-> v, right |-> v]
    BY <1>5, <1>9 DEF IsSpeed
  <2>2. c = 90
    BY <1>1, <1>3, <1>9
  <2>3. GetSpeed(v, c) = [left |-> v, right |-> v]
    BY <1>5, <2>2 DEF IsSpeed
  <2> QED
    BY <1>6, <2>1, <2>3
<1>10. CASE b \in {0, 360}
  <2>1. GetSpeed(v, a) = [left |-> v, right |-> -v]
    BY <1>5, <1>10 DEF IsSpeed
  <2>2. c = 180
    BY <1>1, <1>3, <1>10
  <2>3. GetSpeed(v, c) = [left |-> -v, right |-> v]
    BY <1>5, <2>2 DEF IsSpeed
  <2> QED
    BY <1>6, <2>1, <2>3
<1>11. CASE b = 180
  <2>1. GetSpeed(v, a) = [left |-> -v, right |-> v]
    BY <1>5, <1>11 DEF IsSpeed
  <2>2. c \in {0, 360}
    BY <1>1, <1>3, <1>11
  <2>3. GetSpeed(v, c) = [left |-> v, right |-> -v]
    BY <1>5, <2>2 DEF IsSpeed
  <2> QED
    BY <1>6, <2>1, <2>3
<1>12. CASE b = 270
  <2>1. GetSpeed(v, a) = [left |-> -v, right |-> -v]
    BY <1>5, <1>12 DEF IsSpeed
  <2>2. c = 270
    BY <1>1, <1>3, <1>12
  <2>3. GetSpeed(v, c) = [left |-> -v, right |-> -v]
    BY <1>5, <2>2 DEF IsSpeed
  <2> QED
    BY <1>6, <2>1, <2>3
<1>13. CASE Within(b, 0, 90)
  <2>1. GetSpeed(v, a) = [left |-> v, right |-> Turn(v, b, 45, 1)]
    BY <1>5, <1>13 DEF IsSpeed
  <2>2. Within(c, 90, 180) /\ c = 180 - b
    BY <1>1, <1>3, <1>13 DEF Within
  <2>3. GetSpeed(v, c) = [left |-> Turn(v, c, 135, -1), right |-> v]
    BY <1>5, <2>2 DEF IsSpeed
  <2>4. Turn(v, c, 135, -1) = Turn(v, b, 45, 1)
    BY <1>3, <2>2, TurnMirror
  <2> QED
    BY <1>6, <2>1, <2>3, <2>4
<1>14. CASE Within(b, 90, 180)
  <2>1. GetSpeed(v, a) = [left |-> Turn(v, b, 135, -1), right |-> v]
    BY <1>5, <1>14 DEF IsSpeed
  <2>2. Within(c, 0, 90) /\ c = 180 - b
    BY <1>1, <1>3, <1>14 DEF Within
  <2>3. GetSpeed(v, c) = [left |-> v, right |-> Turn(v, c, 45, 1)]
    BY <1>5, <2>2 DEF IsSpeed
  <2>4. Turn(v, c, 45, 1) = Turn(v, b, 135, -1)
    BY <1>3, <2>2, TurnMirror
  <2> QED
    BY <1>6, <2>1, <2>3, <2>4
<1>15. CASE Within(b, 180, 270)
  <2>1. GetSpeed(v, a) = [left |-> -v, right |-> Turn(v, b, 225, -1)]
    BY <1>5, <1>15 DEF IsSpeed
  <2>2. Within(c, 270, 360) /\ c = 540 - b
    BY <1>1, <1>3, <1>15 DEF Within
  <2>3. GetSpeed(v, c) = [left |-> Turn(v, c, 315, 1), right |-> -v]
    BY <1>5, <2>2 DEF IsSpeed
  <2>4. Turn(v, c, 315, 1) = Turn(v, b, 225, -1)
    BY <1>3, <2>2, TurnMirror
  <2> QED
    BY <1>6, <2>1, <2>3, <2>4
<1>16. CASE Within(b, 270, 360)
  <2>1. GetSpeed(v, a) = [left |-> Turn(v, b, 315, 1), right |-> -v]
    BY <1>5, <1>16 DEF IsSpeed
  <2>2. Within(c, 180, 270) /\ c = 540 - b
    BY <1>1, <1>3, <1>16 DEF Within
  <2>3. GetSpeed(v, c) = [left |-> -v, right |-> Turn(v, c, 225, -1)]
    BY <1>5, <2>2 DEF IsSpeed
  <2>4. Turn(v, c, 225, -1) = Turn(v, b, 315, 1)
    BY <1>3, <2>2, TurnMirror
  <2> QED
    BY <1>6, <2>1, <2>3, <2>4
<1> QED
  BY <1>8, <1>9, <1>10, <1>11, <1>12, <1>13, <1>14, <1>15, <1>16

\* Both wheels near, and what that is for speeds given by their parts.
Close(r, q, v) == Near(r.left, q.left, v) /\ Near(r.right, q.right, v)

LEMMA CloseParts ==
  ASSUME NEW v, NEW x, NEW y, NEW z, NEW w, Near(x, z, v), Near(y, w, v)
  PROVE  Close([left |-> x, right |-> y], [left |-> z, right |-> w], v)
BY DEF Close

\* A speed is near itself.
LEMMA Same ==
  ASSUME NEW v \in Int, NEW x \in Int
  PROVE  Near(x, x, v)
<1>1. 100000 * (x - x) = 0
  OBVIOUS
<1>2. 0 < 2300 * v + 100000 \/ 0 < -2300 * v + 100000
  OBVIOUS
<1> QED
  BY <1>1, <1>2, NearIf

\* The quadrants of the steering fit together, for any velocity: one degree more
\* changes a wheel by at most 2.3 percent of it and one unit of rounding, on the
\* axes too and from the last degree to the first.
THEOREM SmoothSteering ==
  ASSUME NEW v \in Int, NEW a \in Int, -360 <= a, a <= 360
  PROVE  Close(GetSpeed(v, (Normal(a) + 1) % 360), GetSpeed(v, a), v)
<1>1. PICK b \in Int : b = Normal(a) /\ 0 <= b /\ b <= 360
  BY Turns
<1>2. PICK c \in Int : c = (b + 1) % 360
  OBVIOUS
<1>3. 0 <= c /\ c < 360 /\ (b < 359 => c = b + 1) /\ (b = 359 => c = 0) /\ (b = 360 => c = 1)
  BY <1>1, <1>2
<1>4. c = Normal(c)
  BY <1>3, Turns
<1>5. IsSpeed(GetSpeed(v, a), v, b) /\ IsSpeed(GetSpeed(v, c), v, c)
  BY <1>1, <1>4, Arms
<1>6. SUFFICES Close(GetSpeed(v, c), GetSpeed(v, a), v)
  BY <1>1, <1>2
<1>7. -v \in Int /\ Near(v, v, v) /\ Near(-v, -v, v)
  BY Same
<1>8. \A m \in Int : Near(v, Turn(v, m + 44, m, 1), v) /\ Near(Turn(v, m - 44, m, 1), -v, v)
  <2> TAKE m \in Int
  <2>1. v = 1 * v /\ 1 \in {1, -1}
    OBVIOUS
  <2> QED
    BY <2>1, TurnEnds
<1>9. \A m \in Int : Near(-v, Turn(v, m + 44, m, -1), v) /\ Near(Turn(v, m - 44, m, -1), v, v)
  <2> TAKE m \in Int
  <2>1. -v = (-1) * v /\ -(-v) = v /\ -1 \in {1, -1}
    OBVIOUS
  <2> QED
    BY <1>7, <2>1, TurnEnds
<1>10. CASE b \in {0, 360}
  <2>1. GetSpeed(v, a) = [left |-> v, right |-> -v]
    BY <1>5, <1>10 DEF IsSpeed, Within
  <2>2. c = 1
    BY <1>3, <1>10 DEF Within
  <2>3. GetSpeed(v, c) = [left |-> v, right |-> Turn(v, 1, 45, 1)]
    BY <1>5, <2>2 DEF IsSpeed, Within
  <2>4. Near(Turn(v, 1, 45, 1), -v, v)
    BY <1>8, 45 - 44 = 1
  <2> QED
    BY <1>7, <2>1, <2>3, <2>4, CloseParts
<1>11. CASE 0 < b /\ b < 89
  <2>1. GetSpeed(v, a) = [left |-> v, right |-> Turn(v, b, 45, 1)]
    BY <1>5, <1>11 DEF IsSpeed, Within
  <2>2. Within(c, 0, 90) /\ c = b + 1
    BY <1>3, <1>11 DEF Within
  <2>3. GetSpeed(v, c) = [left |-> v, right |-> Turn(v, c, 45, 1)]
    BY <1>5, <2>2 DEF IsSpeed, Within
  <2>4. Near(Turn(v, c, 45, 1), Turn(v, b, 45, 1), v)
    BY <2>2, TurnNear
  <2> QED
    BY <1>7, <2>1, <2>3, <2>4, CloseParts
<1>12. CASE b = 89
  <2>1. GetSpeed(v, a) = [left |-> v, right |-> Turn(v, 89, 45, 1)]
    BY <1>5, <1>12 DEF IsSpeed, Within
  <2>2. c = 90
    BY <1>3, <1>12 DEF Within
  <2>3. GetSpeed(v, c) = [left |-> v, right |-> v]
    BY <1>5, <2>2 DEF IsSpeed, Within
  <2>4. Near(v, Turn(v, 89, 45, 1), v)
    BY <1>8, 45 + 44 = 89
  <2> QED
    BY <1>7, <2>1, <2>3, <2>4, CloseParts
<1>13. CASE b = 90
  <2>1. GetSpeed(v, a) = [left |-> v, right |-> v]
    BY <1>5, <1>13 DEF IsSpeed, Within
  <2>2. c = 91
    BY <1>3, <1>13 DEF Within
  <2>3. GetSpeed(v, c) = [left |-> Turn(v, 91, 135, -1), right |-> v]
    BY <1>5, <2>2 DEF IsSpeed, Within
  <2>4. Near(Turn(v, 91, 135, -1), v, v)
    BY <1>9, 135 - 44 = 91
  <2> QED
    BY <1>7, <2>1, <2>3, <2>4, CloseParts
<1>14. CASE 90 < b /\ b < 179
  <2>1. GetSpeed(v, a) = [left |-> Turn(v, b, 135, -1), right |-> v]
    BY <1>5, <1>14 DEF IsSpeed, Within
  <2>2. Within(c, 90, 180) /\ c = b + 1
    BY <1>3, <1>14 DEF Within
  <2>3. GetSpeed(v, c) = [left |-> Turn(v, c, 135, -1), right |-> v]
    BY <1>5, <2>2 DEF IsSpeed, Within
  <2>4. Near(Turn(v, c, 135, -1), Turn(v, b, 135, -1), v)
    BY <2>2, TurnNear
  <2> QED
    BY <1>7, <2>1, <2>3, <2>4, CloseParts
<1>15. CASE b = 179
  <2>1. GetSpeed(v, a) = [left |-> Turn(v, 179, 135, -1), right |-> v]
    BY <1>5, <1>15 DEF IsSpeed, Within
  <2>2. c = 180
    BY <1>3, <1>15 DEF Within
  <2>3. GetSpeed(v, c) = [left |-> -v, right |-> v]
    BY <1>5, <2>2 DEF IsSpeed, Within
  <2>4. Near(-v, Turn(v, 179, 135, -1), v)
    BY <1>9, 135 + 44 = 179
  <2> QED
    BY <1>7, <2>1, <2>3, <2>4, CloseParts
<1>16. CASE b = 180
  <2>1. GetSpeed(v, a) = [left |-> -v, right |-> v]
    BY <1>5, <1>16 DEF IsSpeed, Within
  <2>2. c = 181
    BY <1>3, <1>16 DEF Within
  <2>3. GetSpeed(v, c) = [left |-> -v, right |-> Turn(v, 181, 225, -1)]
    BY <1>5, <2>2 DEF IsSpeed, Within
  <2>4. Near(Turn(v, 181, 225, -1), v, v)
    BY <1>9, 225 - 44 = 181
  <2> QED
    BY <1>7, <2>1, <2>3, <2>4, CloseParts
<1>17. CASE 180 < b /\ b < 269
  <2>1. GetSpeed(v, a) = [left |-> -v, right |-> Turn(v, b, 225, -1)]
    BY <1>5, <1>17 DEF IsSpeed, Within
  <2>2. Within(c, 180, 270) /\ c = b + 1
    BY <1>3, <1>17 DEF Within
  <2>3. GetSpeed(v, c) = [left |-> -v, right |-> Turn(v, c, 225, -1)]
    BY <1>5, <2>2 DEF IsSpeed, Within
  <2>4. Near(Turn(v, c, 225, -1), Turn(v, b, 225, -1), v)
    BY <2>2, TurnNear
  <2> QED
    BY <1>7, <2>1, <2>3, <2>4, CloseParts
<1>18. CASE b = 269
  <2>1. GetSpeed(v, a) = [left |-> -v, right |-> Turn(v, 269, 225, -1)]
    BY <1>5, <1>18 DEF IsSpeed, Within
  <2>2. c = 270
    BY <1>3, <1>18 DEF Within
  <2>3. GetSpeed(v, c) = [left |-> -v, right |-> -v]
    BY <1>5, <2>2 DEF IsSpeed, Within
  <2>4. Near(-v, Turn(v, 269, 225, -1), v)
    BY <1>9, 225 + 44 = 269
  <2> QED
    BY <1>7, <2>1, <2>3, <2>4, CloseParts
<1>19. CASE b = 270
  <2>1. GetSpeed(v, a) = [left |-> -v, right |-> -v]
    BY <1>5, <1>19 DEF IsSpeed, Within
  <2>2. c = 271
    BY <1>3, <1>19 DEF Within
  <2>3. GetSpeed(v, c) = [left |-> Turn(v, 271, 315, 1), right |-> -v]
    BY <1>5, <2>2 DEF IsSpeed, Within
  <2>4. Near(Turn(v, 271, 315, 1), -v, v)
    BY <1>8, 315 - 44 = 271
  <2> QED
    BY <1>7, <2>1, <2>3, <2>4, CloseParts
<1>20. CASE 270 < b /\ b < 359
  <2>1. GetSpeed(v, a) = [left |-> Turn(v, b, 315, 1), right |-> -v]
    BY <1>5, <1>20 DEF IsSpeed, Within
  <2>2. Within(c, 270, 360) /\ c = b + 1
    BY <1>3, <1>20 DEF Within
  <2>3. GetSpeed(v, c) = [left |-> Turn(v, c, 315, 1), right |-> -v]
    BY <1>5, <2>2 DEF IsSpeed, Within
  <2>4. Near(Turn(v, c, 315, 1), Turn(v, b, 315, 1), v)
    BY <2>2, TurnNear
  <2> QED
    BY <1>7, <2>1, <2>3, <2>4, CloseParts
<1>21. CASE b = 359
  <2>1. GetSpeed(v, a) = [left |-> Turn(v, 359, 315, 1), right |-> -v]
    BY <1>5, <1>21 DEF IsSpeed, Within
  <2>2. c = 0
    BY <1>3, <1>21 DEF Within
  <2>3. GetSpeed(v, c) = [left |-> v, right |-> -v]
    BY <1>5, <2>2 DEF IsSpeed, Within
  <2>4. Near(v, Turn(v, 359, 315, 1), v)
    BY <1>8, 315 + 44 = 359
  <2> QED
    BY <1>7, <2>1, <2>3, <2>4, CloseParts
<1>22. b \in {0, 360} \/ b = 90 \/ b = 180 \/ b = 270 \/ b = 89 \/ b = 179 \/ b = 269 \/ b = 359
       \/ (0 < b /\ b < 89) \/ (90 < b /\ b < 179) \/ (180 < b /\ b < 269) \/ (270 < b /\ b < 359)
  BY <1>1
<1> QED
  BY <1>10, <1>11, <1>12, <1>13, <1>14, <1>15, <1>16, <1>17, <1>18, <1>19, <1>20, <1>21, <1>22

-----------------------------------------------------------------------------
(* Framing. *)

\* No quadrant takes a wheel above the velocity.
LEMMA TurnRange ==
  ASSUME NEW v \in Int, NEW b \in Int, NEW m \in Int, NEW s \in {1, -1},
         -100 <= v, v <= 100, m - 45 < b, b < m + 45
  PROVE  Turn(v, b, m, s) \in Int /\ -100 <= Turn(v, b, m, s) /\ Turn(v, b, m, s) <= 100
<1>1. /\ Lean(v, b, m, s) \in Int /\ Turn(v, b, m, s) \in Int
      /\ Rounded(Lean(v, b, m, s), Turn(v, b, m, s))
  BY TurnRounded
<1>2. PICK k \in Int : k = b - m /\ -44 <= k /\ k <= 44
  OBVIOUS
<1>3. -4400 <= v * k /\ v * k <= 4400
  <2>1. (100 - v) * (44 - k) >= 0 /\ (100 + v) * (44 + k) >= 0
    BY <1>2
  <2>2. (100 - v) * (44 + k) >= 0 /\ (100 + v) * (44 - k) >= 0
    BY <1>2
  <2> QED
    BY <1>2, <2>1, <2>2
<1>4. Lean(v, b, m, s) = v * k \/ Lean(v, b, m, s) = -(v * k)
  BY <1>2 DEF Lean
<1>5. -4400 <= Lean(v, b, m, s) /\ Lean(v, b, m, s) <= 4400
  BY <1>2, <1>3, <1>4
<1> QED
  BY <1>1, <1>5 DEF Rounded

\* A speed that a motor controller takes for what it is: up to 100 percent.
InRange(s) == s \in Int /\ -100 <= s /\ s <= 100

\* For a velocity of up to 100 percent both wheels stay within it.
LEMMA SpeedRange ==
  ASSUME NEW v \in Int, -100 <= v, v <= 100, NEW a \in Int, -360 <= a, a <= 360
  PROVE  InRange(GetSpeed(v, a).left) /\ InRange(GetSpeed(v, a).right)
<1>1. PICK b \in Int : b = Normal(a) /\ 0 <= b /\ b <= 360
  BY Turns
<1>2. IsSpeed(GetSpeed(v, a), v, b)
  BY <1>1, Arms
<1>3. InRange(v) /\ InRange(-v)
  BY DEF InRange
<1>4. CASE Within(b, 0, 90)
  <2>1. InRange(Turn(v, b, 45, 1))
    BY <1>4, TurnRange DEF Within, InRange
  <2> QED
    BY <1>2, <1>3, <1>4, <2>1 DEF IsSpeed
<1>5. CASE Within(b, 90, 180)
  <2>1. InRange(Turn(v, b, 135, -1))
    BY <1>5, TurnRange DEF Within, InRange
  <2> QED
    BY <1>2, <1>3, <1>5, <2>1 DEF IsSpeed
<1>6. CASE Within(b, 180, 270)
  <2>1. InRange(Turn(v, b, 225, -1))
    BY <1>6, TurnRange DEF Within, InRange
  <2> QED
    BY <1>2, <1>3, <1>6, <2>1 DEF IsSpeed
<1>7. CASE Within(b, 270, 360)
  <2>1. InRange(Turn(v, b, 315, 1))
    BY <1>7, TurnRange DEF Within, InRange
  <2> QED
    BY <1>2, <1>3, <1>7, <2>1 DEF IsSpeed
<1>8. CASE b \in {0, 360} \/ b = 90 \/ b = 180 \/ b = 270
  BY <1>2, <1>3, <1>8 DEF IsSpeed
<1> QED
  BY <1>1, <1>4, <1>5, <1>6, <1>7, <1>8 DEF Within

\* The byte of a command for such a speed has its top bit clear.
LEMMA CommandByte ==
  ASSUME NEW s \in Int, -100 <= s, s <= 100
  PROVE  MotorCommand(s).byte \in Int /\ 0 <= MotorCommand(s).byte /\ MotorCommand(s).byte < 128
<1>1. CASE s > 0
  <2>1. ~(s < 0)
    BY <1>1
  <2>2. MotorCommand(s) = [cmd |-> "forward", byte |-> TruncDiv(127 * s, 100) % 256]
    BY <1>1, <2>1, Zenon DEF MotorCommand
  <2>3. MotorCommand(s).byte = ((127 * s) \div 100) % 256
    BY <1>1, <2>2 DEF TruncDiv
  <2> QED
    BY <1>1, <2>3
<1>2. CASE s < 0
  <2>1. ~(s > 0)
    BY <1>2
  <2>2. MotorCommand(s) = [cmd |-> "reverse", byte |-> TruncDiv(127 * (-s), 100) % 256]
    BY <1>2, <2>1, Zenon DEF MotorCommand
  <2>3. MotorCommand(s).byte = ((127 * (-s)) \div 100) % 256
    BY <1>2, <2>2 DEF TruncDiv
  <2> QED
    BY <1>2, <2>3
<1>3. CASE s = 0
  <2>1. ~(s > 0) /\ ~(s < 0)
    BY <1>3
  <2>2. MotorCommand(s) = [cmd |-> "brake", byte |-> 0]
    BY <2>1, Zenon DEF MotorCommand
  <2> QED
    BY <2>2
<1> QED
  BY <1>1, <1>2, <1>3

\* From the stick to the line: for a velocity of up to 100 percent neither motor
\* gets a byte that its controller would take for the start of a packet.
THEOREM FramedCommands ==
  ASSUME NEW v \in Int, -100 <= v, v <= 100, NEW a \in Int, -360 <= a, a <= 360
  PROVE  /\ 0 <= MotorCommand(GetSpeed(v, a).left).byte
         /\ MotorCommand(GetSpeed(v, a).left).byte < 128
         /\ 0 <= MotorCommand(GetSpeed(v, a).right).byte
         /\ MotorCommand(GetSpeed(v, a).right).byte < 128
<1>1. PICK l \in Int : l = GetSpeed(v, a).left /\ -100 <= l /\ l <= 100
  BY SpeedRange DEF InRange
<1>2. PICK r \in Int : r = GetSpeed(v, a).right /\ -100 <= r /\ r <= 100
  BY SpeedRange DEF InRange
<1>3. 0 <= MotorCommand(l).byte /\ MotorCommand(l).byte < 128
  BY <1>1, CommandByte
<1>4. 0 <= MotorCommand(r).byte /\ MotorCommand(r).byte < 128
  BY <1>2, CommandByte
<1> QED
  BY <1>1, <1>2, <1>3, <1>4
=============================================================================
