-------------------------- MODULE RemoteInductive --------------------------
(* Why the invariants of Remote hold: a strengthening that every step keeps. *)
EXTENDS RemoteControl

\* Control is always that of the last thread created, which is the only one
\* the server can cancel.
HandleIsControl ==
  \A t \in Client : InControl(t) => t = threadClient

\* From pthread_cancel to pthread_create, before the first client, and once the
\* server is through its last join, nobody is in control.
NobodyInControl ==
  pc["server"] \in {"unborn", "assign", "arm", "create", "stoplog", "dead"} =>
    \A t \in Client : ~InControl(t)

\* REMOTE_ClientRun is set whenever it is tested while a client is in control:
\* the server cannot miss a client it has to replace or to join.
FlagCoversControl ==
  /\ pc["server"] \in {"startlog", "loop", "accept", "replace", "stop"} =>
       \A t \in Client : InControl(t) => ClientRun
  /\ pc["server"] = "create" => ClientRun

\* The connection in the server's hand is open, and not the one in use.
NewIsFresh ==
  pc["server"] \in Connecting =>
    /\ newSock \in Fd /\ Open(newSock)
    /\ pc["server"] \in {"arm", "create"} => sockNew = newSock
    /\ \A t \in Client : InControl(t) => newSock # sockNew

\* The listening socket lives from REMOTE_Init to TCPSERVER_Disconnect.
ListeningSocket ==
  /\ pc["main"] = "init" => pc["server"] = "unborn" /\ sock = NoFd
  /\ pc["main"] \in {"runlog", "wait", "close", "join", "disconnect"} =>
       sock \in Fd /\ file[sock] = "listen"

\* How far main is in its shutdown.
ShutdownOrder ==
  /\ pc["main"] \in {"disconnect", "exit"} => pc["server"] = "dead"
  /\ pc["main"] = "exit" => sock \in Fd /\ file[sock] = "free"
  /\ proc = "exited" => pc["main"] = "exit"

\* A cancelled thread applies its late command only between two cancellation
\* points it will not get past again.
LateCount ==
  \A t \in Client :
    /\ late[t] \in {0, 1}
    /\ ~cancel[t] => late[t] = 0
    /\ late[t] = 1 => pc[t] \notin {"rxlog", "parse"}

\* The inductive invariant of Remote.
IInv ==
  /\ TypeOK
  /\ HandleIsControl
  /\ NobodyInControl
  /\ FlagCoversControl
  /\ ControlOwnsSocket
  /\ NewIsFresh
  /\ ListeningSocket
  /\ ShutdownOrder
  /\ LateCount
  /\ HolderInPrint

\* A cancelled client keeps its slot, and with it the memory of its connection,
\* until the server is through its last join: no later client takes it over.
CancelledKeepSlot ==
  \A t \in Client : cancel[t] =>
    /\ pc[t] = "free" => pc["server"] \in {"stoplog", "dead"}
    /\ t = threadClient =>
         pc["server"] \in {"assign", "arm", "create", "stop", "join", "stoplog", "dead"}

\* What goes on top of it for the connections.
ConnectionInv == CancelledKeepSlot /\ LeakOnlyByCancel
=============================================================================
