-------------------------------- MODULE Gps --------------------------------
(***************************************************************************)
(* The GPS client (gps_api.c): a thread that opens a session with gpsd,    *)
(* asks for reports, asks again when they stop coming, and gives the       *)
(* session back when it is told to end or meets an error.  Nothing starts  *)
(* it at this commit: its calls in main are commented out.                 *)
(***************************************************************************)
VARIABLES
  main,      \* how far GPS_Init and GPS_Close have come
  GPS_Run,
  pc,        \* where GPS_Control is
  bad,       \* what ended it before its time
  session,   \* with gpsd
  watching,  \* whether gpsd reports to the session
  report     \* what is waiting to be read

thread == <<pc, bad>>
gpsd == <<session, watching, report>>
vars == <<main, GPS_Run, thread, gpsd>>

\* status > 0 with all coordinates, status > 0 with longitude or altitude NaN (a
\* fix in two dimensions has no altitude), status 0, and a connection that broke.
Report == {"fix", "no altitude", "searching", "broken"}

Init ==
  /\ main = "init" /\ GPS_Run = FALSE
  /\ pc = "unborn" /\ bad = "nothing"
  /\ session = "none" /\ watching = FALSE /\ report = "none"

Goto(from, to) == pc = from /\ pc' = to

-----------------------------------------------------------------------------
GPS_Init ==
  /\ main = "init"
  /\ GPS_Run' = TRUE
  /\ \/ main' = "running" /\ Goto("unborn", "open")
     \/ main' = "failed" /\ UNCHANGED pc
  /\ UNCHANGED <<bad, gpsd>>

GPS_Close ==
  /\ main = "running"
  /\ main' = "join" /\ GPS_Run' = FALSE
  /\ UNCHANGED <<thread, gpsd>>

Join ==
  /\ main = "join" /\ pc = "done"
  /\ main' = "closed"
  /\ UNCHANGED <<GPS_Run, thread, gpsd>>

-----------------------------------------------------------------------------
(* GPS_Control *)

gps_open ==
  /\ \/ Goto("open", "register") /\ session' = "open" /\ UNCHANGED bad
     \/ Goto("open", "done") /\ bad' = "unreachable" /\ UNCHANGED session
  /\ UNCHANGED <<main, GPS_Run, watching, report>>

\* The mutated form of Register: only the first call asks for reports.
RegisterMutant ==
  /\ \/ Goto("register", "loop") /\ watching' = TRUE
     \/ Goto("again", "sleep") /\ UNCHANGED watching
  /\ UNCHANGED <<main, GPS_Run, bad, session, report>>

\* gps_stream(WATCH_ENABLE): at the start, and when a wait brought nothing.
Register ==
  /\ \/ Goto("register", "loop")
     \/ Goto("again", "sleep")
  /\ watching' = TRUE
  /\ UNCHANGED <<main, GPS_Run, bad, session, report>>

\* The mutated form of Loop: the flag is tested only before the first round.
LoopMutant ==
  /\ \/ Goto("loop", IF GPS_Run THEN "wait" ELSE "cleanup")
     \/ Goto("sleep", "wait")
  /\ UNCHANGED <<main, GPS_Run, bad, gpsd>>

\* while (GPS_Run), and once more behind the sleep that ends each round.
Loop ==
  /\ \/ Goto("loop", IF GPS_Run THEN "wait" ELSE "cleanup")
     \/ Goto("sleep", IF GPS_Run THEN "loop" ELSE "cleanup")
  /\ UNCHANGED <<main, GPS_Run, bad, gpsd>>

\* gps_waiting for half a second.
Wait ==
  /\ Goto("wait", IF report # "none" THEN "read" ELSE "again")
  /\ UNCHANGED <<main, GPS_Run, bad, gpsd>>

\* The mutated form of Read: an error returns without the cleanup.
ReadMutant ==
  /\ report' = "none"
  /\ IF report \in {"broken", "no altitude"}
       THEN Goto("read", "done") /\ bad' = report
       ELSE Goto("read", "sleep") /\ UNCHANGED bad
  /\ UNCHANGED <<main, GPS_Run, session, watching>>

\* gps_read, and what is made of it: an error and a fix without an altitude end
\* the loop, anything else is printed.
Read ==
  /\ report' = "none"
  /\ IF report \in {"broken", "no altitude"}
       THEN Goto("read", "cleanup") /\ bad' = report
       ELSE Goto("read", "sleep") /\ UNCHANGED bad
  /\ UNCHANGED <<main, GPS_Run, session, watching>>

\* gps_stream(WATCH_DISABLE), then gps_close.
Cleanup ==
  /\ \/ Goto("cleanup", "close") /\ watching' = FALSE /\ UNCHANGED <<session, report>>
     \/ Goto("close", "done") /\ session' = "closed" /\ report' = "none" /\ UNCHANGED watching
  /\ UNCHANGED <<main, GPS_Run, bad>>

-----------------------------------------------------------------------------
(* gpsd (external) *)

Deliver ==
  /\ session = "open" /\ watching /\ report = "none"
  /\ report' \in Report \ {"broken"}
  /\ UNCHANGED <<main, GPS_Run, thread, session, watching>>

\* It stops reporting after a while, or the connection breaks.
StopWatch ==
  /\ session = "open" /\ watching
  /\ watching' = FALSE
  /\ UNCHANGED <<main, GPS_Run, thread, session, report>>

Break ==
  /\ session = "open"
  /\ report' = "broken"
  /\ UNCHANGED <<main, GPS_Run, thread, session, watching>>

ThreadStep == gps_open \/ Register \/ Loop \/ Wait \/ Read \/ Cleanup

Next ==
  \/ GPS_Init \/ GPS_Close \/ Join
  \/ ThreadStep
  \/ Deliver \/ StopWatch \/ Break

Spec == Init /\ [][Next]_vars

\* The thread is scheduled and its waits are bounded.  gpsd reports every second
\* and watches for some seconds, so a watch that is asked for again and again
\* brings a report in the end.
FairSpec == Spec /\ WF_vars(ThreadStep) /\ WF_vars(Join) /\ SF_vars(Deliver)

-----------------------------------------------------------------------------
\* No session outlives the thread, whichever way the thread ended, and none is
\* read or closed that was never opened.
SessionReleased ==
  /\ pc = "done" => session # "open" /\ ~watching
  /\ pc \in {"wait", "read", "again", "close"} => session = "open"

\* GPS_Close returns.
CloseReturns == main = "join" ~> main = "closed"

\* Although gpsd stops reporting every now and then, a client that is not closed
\* reads report after report; what ends that is gpsd out of reach, a broken
\* connection, or a fix without an altitude.
KeepsReading == (<>[](main = "running")) => ([]<>(pc = "read") \/ <>[](bad # "nothing"))
=============================================================================
