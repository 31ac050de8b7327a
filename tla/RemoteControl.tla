--------------------------- MODULE RemoteControl ---------------------------
(* The threads of Remote implement the promise of Control. *)
EXTENDS Remote

Holders == {t \in Client : proc \notin {"failed", "crashed", "killed"} /\ InControl(t)}

Status ==
  CASE proc \in {"failed", "crashed", "killed"} -> "aborted"
    [] proc = "exited" -> "exited"
    [] proc = "running" /\ pc["server"] \in {"stop", "join", "stoplog", "dead"} -> "closing"
    [] OTHER -> "serving"

Abstract == INSTANCE Control
              WITH Conn <- Fd, holders <- Holders, conn <- sockNew, status <- Status

\* Seen from outside, the threads, flags and sockets of remote.c do nothing but
\* grant control to one client at a time and take it back.
ImplementsControl == Abstract!Spec
=============================================================================
