----------------------------- MODULE WheelDrive -----------------------------
(* The thread, the line and the motor controller of Wheel implement the    *)
(* promise of Drive.                                                       *)
EXTENDS Wheel

\* The port is open, all through the life of the thread.
Open == main \in {"connected", "started", "join", "closed"}

Sound == Open /\ lost = 0 /\ excess = 0

Mode == IF ~Open THEN "closed" ELSE IF Sound THEN "sound" ELSE "faulty"

\* The motor packets under way, and how many the round in hand has sent.
Left == Len(tx) - Cardinality(Queries(tx))
RoundSize == IF pc = "M1" THEN 1 ELSE IF pc \in {"ask", "await", "publish"} THEN 2 ELSE 0

Stale == Sound /\ Left > RoundSize

\* A decision is taken when its first packet is sent; the round is over when the
\* status is published.  In between, the controller is as far as the packets that
\* are left say.
Phase ==
  IF RoundSize = 0 THEN "rest"
  ELSE IF Left >= RoundSize THEN "M0"
  ELSE IF Left + 1 = RoundSize THEN "M1"
  ELSE "report"

Wanted == IF pc = "M1" THEN Decision ELSE WHEEL_Data

Abstract == INSTANCE Drive
              WITH mode <- Mode, stale <- Stale, phase <- Phase,
                   wanted <- Wanted, report <- status

\* Seen from outside, the drive loop on a sound line carries out one decision
\* after the other on both motors and reports each when it is done.
ImplementsDrive == Abstract!Spec
=============================================================================
