------------------------------ MODULE Control ------------------------------
(***************************************************************************)
(* What the remote-control service promises, whatever its threads do: the  *)
(* vehicle obeys at most one client, over the connection it was granted    *)
(* control on; control passes only through nobody; once the service closes *)
(* nobody is granted control again; and an orderly exit leaves nobody in   *)
(* control.                                                                *)
(***************************************************************************)
CONSTANTS
  Client,   \* who may be in control
  Conn      \* connections control is exercised over

VARIABLES
  holders,  \* the clients in control
  conn,     \* the connection commands are taken from
  status    \* of the service

vars == <<holders, conn, status>>

Init ==
  /\ holders = {}
  /\ conn \notin Conn
  /\ status = "serving"

Grant(t) ==
  /\ status = "serving"
  /\ holders = {}
  /\ conn \in Conn
  /\ holders' = {t}
  /\ UNCHANGED <<conn, status>>

\* The next connection is selected only while nobody is in control.
Select(f) ==
  /\ status = "serving"
  /\ holders = {}
  /\ conn' = f
  /\ UNCHANGED <<holders, status>>

\* The client goes, or is dismissed.
Release ==
  /\ holders # {}
  /\ holders' = {}
  /\ UNCHANGED <<conn, status>>

Close ==
  /\ status = "serving"
  /\ status' = "closing"
  /\ UNCHANGED <<holders, conn>>

Exit ==
  /\ status = "closing"
  /\ holders = {}
  /\ status' = "exited"
  /\ UNCHANGED <<holders, conn>>

\* A start that fails, a crash or a fatal signal.
Abort ==
  /\ status \in {"serving", "closing"}
  /\ status' = "aborted"
  /\ holders' = {}
  /\ UNCHANGED conn

Next ==
  \/ \E t \in Client : Grant(t)
  \/ \E f \in Conn : Select(f)
  \/ Release \/ Close \/ Exit \/ Abort

Spec == Init /\ [][Next]_vars
=============================================================================
