------------------------------ MODULE MCMotor ------------------------------
(* Instances of Motor for TLC. *)
EXTENDS Motor

\* Every angle in degrees of both conventions (0..360 and -180..180), some that
\* are out of range; velocities at the edges and in between, with both signs, and
\* beyond the range; brakes at the edges of the parameter byte and of its width.
MCVelocity == {-100, -99, -50, -1, 0, 1, 2, 33, 45, 50, 79, 99, 100, 101, 150}
MCAngle == -365..365
MCStrength == {1, 2, 127, 128, 255, 256, 300}
=============================================================================
