------------------------------- MODULE Drive -------------------------------
(***************************************************************************)
(* What the drive loop promises, whatever its thread, its buffers and the  *)
(* line do.  While nothing is lost or added, one decision after another is *)
(* carried out: M0 gets it, then M1, then it is reported, and only then    *)
(* the next one is taken; no motor gets anything else.  What a killed run  *)
(* has left on the line may still move the motors, but nothing that was    *)
(* decided later overtakes it.  A faulty line promises nothing until the   *)
(* port is opened again.                                                   *)
(***************************************************************************)
CONSTANTS
  Motion,  \* what a motor can be told to do
  Halt     \* what it does before it is told anything

VARIABLES
  mode,    \* of the line: "closed", "sound" or "faulty"
  stale,   \* whether something from before the port was opened is under way
  phase,   \* the next step of the round: "M0", "M1", "report"; "rest" between rounds
  wanted,  \* what has been decided
  motor,   \* what each motor does
  report   \* what the client is told they do

vars == <<mode, stale, phase, wanted, motor, report>>

Motor == {"M0", "M1"}

Closed ==
  /\ mode = "closed" /\ ~stale
  /\ phase = "rest" /\ wanted = Halt /\ report = Halt

Init == Closed /\ motor = [m \in Motor |-> Halt]

Open ==
  /\ mode = "closed"
  /\ mode' \in {"sound", "faulty"}
  /\ stale' \in BOOLEAN
  /\ UNCHANGED <<phase, wanted, motor, report>>

\* The port is given up, or the daemon is killed.
Close == Closed' /\ UNCHANGED motor

Decide ==
  /\ mode = "sound" /\ phase = "rest"
  /\ wanted' \in Motion
  /\ phase' = "M0"
  /\ UNCHANGED <<mode, stale, motor, report>>

After == [M0 |-> "M1", M1 |-> "report"]

Move ==
  /\ mode = "sound" /\ ~stale /\ phase \in Motor
  /\ motor' = [motor EXCEPT ![phase] = wanted]
  /\ phase' = After[phase]
  /\ UNCHANGED <<mode, stale, wanted, report>>

Report ==
  /\ mode = "sound" /\ phase = "report"
  /\ report' = wanted
  /\ phase' = "rest"
  /\ UNCHANGED <<mode, stale, wanted, motor>>

\* What is left from before the port was opened reaches a motor.
Drift ==
  /\ mode = "closed" \/ stale
  /\ \E m \in Motor, d \in Motion : motor' = [motor EXCEPT ![m] = d]
  /\ stale' \in {stale, FALSE}
  /\ UNCHANGED <<mode, phase, wanted, report>>

\* Something is lost or added; nothing is promised from here on.
Fault == mode \in {"sound", "faulty"} /\ mode' = "faulty"

Next == Open \/ Close \/ Decide \/ Move \/ Report \/ Drift \/ Fault

Spec == Init /\ [][Next]_vars
=============================================================================
