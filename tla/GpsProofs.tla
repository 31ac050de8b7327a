------------------------------ MODULE GpsProofs ------------------------------
(* Theorems about Gps. *)
EXTENDS Gps, TLAPS

\* The places of the loop between gps_open and gps_close.
Inside == {"register", "loop", "wait", "read", "again", "sleep", "cleanup", "close"}

\* Each variable has its type.
TypeOK ==
  /\ main \in {"init", "failed", "running", "join", "closed"} /\ GPS_Run \in BOOLEAN
  /\ pc \in Inside \cup {"unborn", "open", "done"}
  /\ session \in {"none", "open", "closed"} /\ watching \in BOOLEAN
  /\ report \in Report \cup {"none"}

\* The session is open exactly while the thread is between gps_open and gps_close,
\* and gpsd watches only then, and not once it has been told to stop.
IInv ==
  /\ TypeOK
  /\ session = "open" <=> pc \in Inside
  /\ watching => pc \in Inside \ {"close"}
  /\ main \in {"init", "failed"} => pc = "unborn"

\* The invariant holds initially.
LEMMA InitIInv == Init => IInv
BY DEF Init, IInv, TypeOK, Inside, Report

\* Every step keeps it: those of main, those of the thread, those of gpsd.
LEMMA StepIInv == IInv /\ [Next]_vars => IInv'
<1> SUFFICES ASSUME IInv, [Next]_vars PROVE IInv'
  OBVIOUS
<1> USE DEF IInv, TypeOK, Inside, Goto, thread, gpsd
<1>1. CASE GPS_Init
  BY <1>1 DEF GPS_Init
<1>2. CASE GPS_Close
  BY <1>2 DEF GPS_Close
<1>3. CASE Join
  BY <1>3 DEF Join
<1>4. CASE gps_open
  BY <1>4 DEF gps_open
<1>5. CASE Register
  BY <1>5 DEF Register
<1>6. CASE Loop
  BY <1>6 DEF Loop
<1>7. CASE Wait
  BY <1>7 DEF Wait
<1>8. CASE Read
  BY <1>8 DEF Read, Report
<1>9. CASE Cleanup
  <2>1. CASE pc = "cleanup"
    BY <1>9, <2>1 DEF Cleanup
  <2>2. CASE pc = "close"
    BY <1>9, <2>2 DEF Cleanup
  <2> QED
    BY <1>9, <2>1, <2>2 DEF Cleanup
<1>10. CASE Deliver
  BY <1>10 DEF Deliver, Report
<1>11. CASE StopWatch
  BY <1>11 DEF StopWatch, Report
<1>12. CASE Break
  BY <1>12 DEF Break, Report
<1>13. CASE UNCHANGED vars
  BY <1>13 DEF vars
<1> QED
  BY <1>1, <1>2, <1>3, <1>4, <1>5, <1>6, <1>7, <1>8, <1>9, <1>10, <1>11, <1>12, <1>13
  DEF Next, ThreadStep

\* GPS_Control gives its session back on every way out, errors included, and
\* uses none that is not open.
THEOREM SessionAlwaysReleased == Spec => []SessionReleased
<1>1. IInv => SessionReleased
  BY DEF IInv, Inside, TypeOK, SessionReleased
<1> QED
  BY <1>1, InitIInv, StepIInv, PTL DEF Spec
=============================================================================
