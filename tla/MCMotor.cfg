SPECIFICATION Spec
CONSTANTS
  Velocity <- MCVelocity
  Angle <- MCAngle
  Strength <- MCStrength
  Param = {0, 64, 127}
  Speed = {0, 31, 32, 3200}
INVARIANTS
  Framed
  Smooth
  MirrorSymmetric
  TableIsRemainder
  AcceptedIfIntact
CHECK_DEADLOCK FALSE
