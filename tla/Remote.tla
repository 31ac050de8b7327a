------------------------------- MODULE Remote -------------------------------
(***************************************************************************)
(* The remote-control service of ds2d: the main thread of ds2d.c with its  *)
(* signal handler, the server thread REMOTE_Server, the REMOTE_Client      *)
(* threads it starts and cancels (remote.c), the socket calls they make    *)
(* (tcpServer.c) and the mutex of DEBUG_Print (debug.c).                   *)
(*                                                                         *)
(* All threads share plain globals; the only synchronisation is            *)
(* pthread_create, pthread_cancel, pthread_(try)join and the debug mutex.  *)
(* SLEEP_Delay orders nothing, so a sleep is no more than a place where a  *)
(* thread may rest; it matters only as a cancellation point.               *)
(***************************************************************************)
EXTENDS Naturals, FiniteSets

CONSTANTS
  Client,       \* slots pthread_create has for REMOTE_Client threads
  Fd,           \* descriptors the process may have open
  NoFd,         \* the zero the globals start with: no socket of the service
  Garbage,      \* what the uninitialised local threadClient may hold
  DebugMain,    \* options.debug
  DebugRemote,  \* options.debugRemote
  DebugTcp      \* options.debugTcpServer

GarbageKind == {"dead", "stray", "self", "unmapped"}

ASSUME ConstantAssumption ==
  /\ Client \cap ({"main", "handler", "server", "none", "orphan"} \cup GarbageKind) = {}
  /\ Fd \subseteq Nat
  /\ NoFd \notin Fd
  /\ Garbage \subseteq GarbageKind
  /\ {DebugMain, DebugRemote, DebugTcp} \subseteq BOOLEAN
  /\ DebugRemote \/ DebugTcp => DebugMain   \* options.c sets debug with each of them

VARIABLES
  proc,          \* "running", or how the process ended
  run,           \* ds2d.c: cleared by terminate()
  ServerRun,     \* REMOTE_ServerRun
  ClientRun,     \* REMOTE_ClientRun
  sock,          \* REMOTE_ServerTCP.sock
  sockNew,       \* REMOTE_ServerTCP.sockNew
  newSock,       \* local of REMOTE_Server
  threadClient,  \* local of REMOTE_Server: a handle, or garbage
  pc,            \* where each thread is
  cancel,        \* cancellation requests, per client thread
  mine,          \* history: the connection a client thread was started for
  late,          \* history: commands it applied after being cancelled
  file,          \* the kernel's view of each descriptor
  mutex          \* holder of DEBUG_Mutex

flags == <<run, ServerRun, ClientRun>>
sockets == <<sock, sockNew, newSock, file>>
threads == <<threadClient, cancel, mine, late>>
vars == <<proc, flags, sockets, threads, pc, mutex>>

Thread == {"main", "handler", "server"} \cup Client

MainLabel == {"init", "runlog", "wait", "close", "join", "disconnect", "exit"}
HandlerLabel == {"idle", "termlog", "set"}
ServerLabel == {"unborn", "startlog", "loop", "accept", "replace", "tryjoin", "connlog",
                "cancel", "assign", "arm", "create", "stop", "join", "stoplog", "dead"}
ClientLabel == {"free", "loop", "recv", "rxlog", "parse", "cmdlog", "pause", "send1",
                "send2", "nap", "endlog", "close", "zombie"}
LabelOf(t) == CASE t = "main" -> MainLabel
                [] t = "handler" -> HandlerLabel
                [] t = "server" -> ServerLabel
                [] OTHER -> ClientLabel
Label == MainLabel \cup HandlerLabel \cup ServerLabel \cup ClientLabel

\* The server holds a connection it has accepted and not yet handed over.
Connecting == {"replace", "tryjoin", "connlog", "cancel", "assign", "arm", "create"}

\* A thread slot is live from pthread_create until the thread has ended; a
\* "zombie" has ended but has not been joined, a "free" slot has been joined.
Live(t) == pc[t] \notin {"free", "zombie"}
InControl(t) == Live(t) /\ ~cancel[t]
Open(f) == file[f] \in {"open", "rst"}

-----------------------------------------------------------------------------
Init ==
  /\ proc = "running"
  /\ run = TRUE /\ ServerRun = FALSE /\ ClientRun = FALSE
  /\ sock = NoFd /\ sockNew = NoFd /\ newSock = NoFd
  /\ threadClient \in Garbage
  /\ pc = [t \in Thread |-> CASE t = "main" -> "init"
                              [] t = "handler" -> "idle"
                              [] t = "server" -> "unborn"
                              [] OTHER -> "free"]
  /\ cancel = [t \in Client |-> FALSE]
  /\ mine = [t \in Client |-> NoFd]
  /\ late = [t \in Client |-> 0]
  /\ file = [f \in Fd |-> "free"]
  /\ mutex = "none"

\* The descriptor socket and accept return: the lowest free one, if any.
FreshFd == {f \in Fd : file[f] = "free" /\ \A g \in Fd : file[g] = "free" => f <= g}

Goto(t, label) == pc' = [pc EXCEPT ![t] = label]

\* A step of t at label `from'; the handler runs on top of the main thread.
At(t, from) ==
  /\ proc = "running"
  /\ pc[t] = from
  /\ t = "main" => pc["handler"] = "idle"

-----------------------------------------------------------------------------
(* DEBUG_Print: a no-op unless its flag is set, else lock, print, unlock.  *)

LogFlag == [runlog |-> DebugMain, termlog |-> DebugMain, startlog |-> DebugRemote,
            connlog |-> DebugRemote, stoplog |-> DebugRemote, rxlog |-> DebugTcp,
            cmdlog |-> DebugRemote, endlog |-> DebugRemote]
LogNext == [runlog |-> "wait", termlog |-> "set", startlog |-> "loop",
            connlog |-> "cancel", stoplog |-> "dead", rxlog |-> "parse",
            cmdlog |-> "pause", endlog |-> "close"]

\* At a DEBUG_Print whose message is switched on.
Printing(t) == pc[t] \in DOMAIN LogFlag /\ LogFlag[pc[t]]

LockDebug(t) ==
  /\ mutex = "none"
  /\ mutex' = t
  /\ UNCHANGED pc

\* The mutated form of UnlockDebug: it returns with the mutex locked.
UnlockDebugMutant(t) ==
  /\ mutex = t
  /\ UNCHANGED mutex
  /\ Goto(t, LogNext[pc[t]])

UnlockDebug(t) ==
  /\ mutex = t
  /\ mutex' = "none"
  /\ Goto(t, LogNext[pc[t]])

DEBUG_Print(t) ==
  /\ pc[t] \in DOMAIN LogFlag
  /\ At(t, pc[t])
  /\ \/ Printing(t) /\ LockDebug(t)
     \/ Printing(t) /\ UnlockDebug(t)
     \/ ~Printing(t) /\ Goto(t, LogNext[pc[t]]) /\ UNCHANGED mutex
  /\ UNCHANGED <<proc, flags, sockets, threads>>

-----------------------------------------------------------------------------
(* ds2d.c: main and the signal handler terminate().                        *)

\* Socket, bind, listen and the server thread; any failure ends the process.
REMOTE_Init ==
  /\ At("main", "init")
  /\ \/ \E f \in FreshFd :
          /\ sock' = f
          /\ file' = [file EXCEPT ![f] = "listen"]
          /\ ServerRun' = TRUE
          /\ pc' = [pc EXCEPT !["main"] = "runlog", !["server"] = "startlog"]
          /\ UNCHANGED proc
     \/ /\ proc' = "failed"
        /\ UNCHANGED <<sock, file, ServerRun, pc>>
  /\ UNCHANGED <<run, ClientRun, sockNew, newSock, threads, mutex>>

\* while (run) SLEEP_Delay(1.0);
MainLoop ==
  /\ At("main", "wait")
  /\ ~run
  /\ Goto("main", "close")
  /\ UNCHANGED <<proc, flags, sockets, threads, mutex>>

REMOTE_Close ==
  /\ At("main", "close")
  /\ ServerRun' = FALSE
  /\ Goto("main", "join")
  /\ UNCHANGED <<proc, run, ClientRun, sockets, threads, mutex>>

\* The mutated form of JoinServer: the join is forgotten.
JoinServerMutant ==
  /\ At("main", "join")
  /\ Goto("main", "disconnect")
  /\ UNCHANGED <<proc, flags, sockets, threads, mutex>>

JoinServer ==
  /\ At("main", "join")
  /\ pc["server"] = "dead"
  /\ Goto("main", "disconnect")
  /\ UNCHANGED <<proc, flags, sockets, threads, mutex>>

TCPSERVER_Disconnect ==
  /\ At("main", "disconnect")
  /\ file' = [file EXCEPT ![sock] = "free"]
  /\ Goto("main", "exit")
  /\ UNCHANGED <<proc, flags, sock, sockNew, newSock, threads, mutex>>

\* Returning from main ends every thread that is still alive.
Exit ==
  /\ At("main", "exit")
  /\ proc' = "exited"
  /\ UNCHANGED <<flags, sockets, threads, pc, mutex>>

\* SIGINT or SIGTERM, delivered to the main thread.  A signal that arrives
\* once run is cleared would change nothing and is left out.
Signal ==
  /\ At("handler", "idle")
  /\ run
  /\ Goto("handler", "termlog")
  /\ UNCHANGED <<proc, flags, sockets, threads, mutex>>

terminate ==
  /\ At("handler", "set")
  /\ run' = FALSE
  /\ Goto("handler", "idle")
  /\ UNCHANGED <<proc, ServerRun, ClientRun, sockets, threads, mutex>>

-----------------------------------------------------------------------------
(* remote.c: REMOTE_Server.                                                *)

ServerLoop ==
  /\ At("server", "loop")
  /\ Goto("server", IF ServerRun THEN "accept" ELSE "stop")
  /\ UNCHANGED <<proc, flags, sockets, threads, mutex>>

\* A mutated form of TCPSERVER_NewConnection: the connection goes straight into
\* the shared field.
NewConnectionSharedMutant ==
  /\ At("server", "accept")
  /\ \/ \E f \in FreshFd :
          /\ newSock' = f
          /\ sockNew' = f
          /\ file' = [file EXCEPT ![f] = "open"]
          /\ Goto("server", "replace")
     \/ /\ Goto("server", "loop")
        /\ UNCHANGED <<newSock, sockNew, file>>
  /\ UNCHANGED <<proc, flags, sock, threads, mutex>>

\* Another: the result -1 of accept is not tested (NoFd stands for it).
NewConnectionUntestedMutant ==
  /\ At("server", "accept")
  /\ \/ \E f \in FreshFd :
          /\ newSock' = f
          /\ file' = [file EXCEPT ![f] = "open"]
     \/ /\ newSock' = NoFd
        /\ UNCHANGED file
  /\ Goto("server", "replace")
  /\ UNCHANGED <<proc, flags, sock, sockNew, threads, mutex>>

\* accept() yields a fresh descriptor, or -1 after the receive timeout of one
\* second or when the process is out of descriptors.
TCPSERVER_NewConnection ==
  /\ At("server", "accept")
  /\ \/ \E f \in FreshFd :
          /\ newSock' = f
          /\ file' = [file EXCEPT ![f] = "open"]
          /\ Goto("server", "replace")
     \/ /\ Goto("server", "loop")
        /\ UNCHANGED <<newSock, file>>
  /\ UNCHANGED <<proc, flags, sock, sockNew, threads, mutex>>

\* if (REMOTE_ClientRun == TRUE) { REMOTE_ClientRun = FALSE; ...
Replace ==
  /\ At("server", "replace")
  /\ Goto("server", IF ClientRun THEN "tryjoin" ELSE "connlog")
  /\ ClientRun' = FALSE
  /\ UNCHANGED <<proc, run, ServerRun, sockets, threads, mutex>>

\* ... pthread_tryjoin_np(): frees the slot if the old client has ended.
TryJoin ==
  /\ At("server", "tryjoin")
  /\ pc' = [pc EXCEPT !["server"] = "connlog",
                      ![threadClient] = IF @ = "zombie" THEN "free" ELSE @]
  /\ UNCHANGED <<proc, flags, sockets, threads, mutex>>

\* The mutated form of PthreadCancel: the request is never made.
PthreadCancelMutant ==
  /\ At("server", "cancel")
  /\ Goto("server", "assign")
  /\ UNCHANGED <<proc, flags, sockets, threads, mutex>>

\* pthread_cancel(threadClient).  A thread that has ended ignores it.  On the
\* first connection threadClient is uninitialised: the call finds no thread,
\* faults, or hits the server thread itself, which then dies in SLEEP_Delay.
PthreadCancel ==
  /\ At("server", "cancel")
  /\ \/ /\ threadClient \in Client
        /\ cancel' = [cancel EXCEPT ![threadClient] = @ \/ Live(threadClient)]
        /\ Goto("server", "assign")
        /\ UNCHANGED proc
     \/ /\ threadClient \in {"dead", "stray"}
        /\ Goto("server", "assign")
        /\ UNCHANGED <<cancel, proc>>
     \/ /\ threadClient = "self"
        /\ Goto("server", "dead")
        /\ UNCHANGED <<cancel, proc>>
     \/ /\ threadClient = "unmapped"
        /\ proc' = "crashed"
        /\ UNCHANGED <<cancel, pc>>
  /\ UNCHANGED <<flags, sockets, threadClient, mine, late, mutex>>

\* REMOTE_ServerTCP.sockNew = newSock;
Assign ==
  /\ At("server", "assign")
  /\ sockNew' = newSock
  /\ Goto("server", "arm")
  /\ UNCHANGED <<proc, flags, sock, newSock, file, threads, mutex>>

\* REMOTE_ClientRun = TRUE;
Arm ==
  /\ At("server", "arm")
  /\ ClientRun' = TRUE
  /\ Goto("server", "create")
  /\ UNCHANGED <<proc, run, ServerRun, sockets, threads, mutex>>

CreateClient(t) ==
  /\ pc[t] = "free"
  /\ threadClient' = t
  /\ cancel' = [cancel EXCEPT ![t] = FALSE]
  /\ mine' = [mine EXCEPT ![t] = newSock]
  /\ late' = [late EXCEPT ![t] = 0]
  /\ pc' = [pc EXCEPT !["server"] = "loop", ![t] = "loop"]
  /\ UNCHANGED <<ServerRun, file>>

\* The mutated form of CreateFails: the new connection is not closed.
CreateFailsMutant ==
  /\ ServerRun' = FALSE
  /\ Goto("server", "stop")
  /\ UNCHANGED <<file, threads>>

CreateFails ==
  /\ file' = [file EXCEPT ![newSock] = "free"]
  /\ ServerRun' = FALSE
  /\ Goto("server", "stop")
  /\ UNCHANGED threads

\* pthread_create: fails for want of a slot or of memory, and the server then
\* closes the new connection and gives up for good.
PthreadCreate ==
  /\ At("server", "create")
  /\ (\E t \in Client : CreateClient(t)) \/ CreateFails
  /\ UNCHANGED <<proc, run, ClientRun, sock, sockNew, newSock, mutex>>

\* The mutated form of Stop: the client is joined but never told to end.
StopMutant ==
  /\ At("server", "stop")
  /\ Goto("server", IF ClientRun THEN "join" ELSE "stoplog")
  /\ UNCHANGED <<proc, flags, sockets, threads, mutex>>

\* if (REMOTE_ClientRun == TRUE) { REMOTE_ClientRun = FALSE; ...
Stop ==
  /\ At("server", "stop")
  /\ Goto("server", IF ClientRun THEN "join" ELSE "stoplog")
  /\ ClientRun' = FALSE
  /\ UNCHANGED <<proc, run, ServerRun, sockets, threads, mutex>>

\* ... pthread_join(threadClient): waits for a live thread, returns at once for
\* one that was joined before or for a dead handle, and never for a stray one.
JoinClient ==
  /\ At("server", "join")
  /\ \/ /\ threadClient \in Client
        /\ ~Live(threadClient)
        /\ pc' = [pc EXCEPT !["server"] = "stoplog", ![threadClient] = "free"]
     \/ threadClient = "dead" /\ Goto("server", "stoplog")
  /\ UNCHANGED <<proc, flags, sockets, threads, mutex>>

-----------------------------------------------------------------------------
(* remote.c: REMOTE_Client, one action per step of the loop.  At a         *)
(* cancellation point a cancelled thread makes no step but Cancelled.      *)

\* The mutated form of CancelPoint: cancellation is disabled in the thread.
CancelPointMutant == {}

\* recvfrom, nanosleep, sendto and close act on a pending request on entry.
CancelPoint == {"recv", "pause", "send1", "send2", "nap", "close"}

AtClient(t, label) ==
  /\ At(t, label)
  /\ ~(cancel[t] /\ label \in CancelPoint)

\* while (REMOTE_ClientRun)
ClientLoop(t) ==
  /\ AtClient(t, "loop")
  /\ Goto(t, IF ClientRun THEN "recv" ELSE "endlog")
  /\ UNCHANGED <<proc, flags, sockets, threads, mutex>>

\* Data, or 0: the timeout of one second, end of file, or an error.
TCPSERVER_Receive(t) ==
  /\ AtClient(t, "recv")
  /\ \/ sockNew \in Fd /\ file[sockNew] = "open" /\ Goto(t, "rxlog")
     \/ Goto(t, "nap")
  /\ UNCHANGED <<proc, flags, sockets, threads, mutex>>

\* sscanf into ds2_data: the command takes effect.
Parse(t) ==
  /\ AtClient(t, "parse")
  /\ late' = [late EXCEPT ![t] = IF cancel[t] THEN @ + 1 ELSE @]
  /\ Goto(t, "cmdlog")
  /\ UNCHANGED <<proc, flags, sockets, threadClient, cancel, mine, mutex>>

\* SLEEP_Delay(0.01), then sprintf of the status into the buffer.
Pause(t) ==
  /\ AtClient(t, "pause")
  /\ Goto(t, "send1")
  /\ UNCHANGED <<proc, flags, sockets, threads, mutex>>

\* What TCPSERVER_Send can return: 0 for every error, 1 otherwise.
SendResult == {0, 1}

\* sendto.  On a connection the peer has reset it reports the error, or raises
\* SIGPIPE, which ds2d leaves at its default action: the process dies.
TCPSERVER_Send(t, from, to) ==
  /\ AtClient(t, from)
  /\ \/ \E ret \in SendResult :
          /\ ret = 1 => sockNew \in Fd /\ file[sockNew] # "rst"
          /\ Goto(t, IF ret < 0 THEN "endlog" ELSE to)
          /\ UNCHANGED proc
     \/ /\ sockNew \in Fd /\ file[sockNew] = "rst"
        /\ proc' = "killed"
        /\ UNCHANGED pc
  /\ UNCHANGED <<flags, sockets, threads, mutex>>

\* SLEEP_Delay(0.001) at the end of the loop.
Nap(t) ==
  /\ AtClient(t, "nap")
  /\ Goto(t, "loop")
  /\ UNCHANGED <<proc, flags, sockets, threads, mutex>>

\* close(REMOTE_ServerTCP.sockNew), and the thread returns.
TCPSERVER_Close(t) ==
  /\ AtClient(t, "close")
  /\ file' = [f \in Fd |-> IF f = sockNew THEN "free" ELSE file[f]]
  /\ Goto(t, "zombie")
  /\ UNCHANGED <<proc, flags, sock, sockNew, newSock, threads, mutex>>

\* The thread acts on a cancellation request: it ends where it is, closing
\* nothing, and if it was inside DEBUG_Print the mutex stays locked for ever.
Cancelled(t) ==
  /\ proc = "running"
  /\ cancel[t]
  /\ pc[t] \in CancelPoint \/ (Printing(t) /\ mutex = t)
  /\ mutex' = IF mutex = t THEN "orphan" ELSE mutex
  /\ Goto(t, "zombie")
  /\ UNCHANGED <<proc, flags, sockets, threads>>

-----------------------------------------------------------------------------
(* The peers (external).  A peer that closes in good order only makes      *)
(* recvfrom return 0 for ever, which TCPSERVER_Receive can always do.      *)

\* A reset: the peer crashed, or answered data sent after it had closed.
PeerResets(f) ==
  /\ proc = "running"
  /\ file[f] = "open"
  /\ file' = [file EXCEPT ![f] = "rst"]
  /\ UNCHANGED <<proc, flags, sock, sockNew, newSock, threads, pc, mutex>>

-----------------------------------------------------------------------------
MainStep ==
  \/ REMOTE_Init \/ MainLoop \/ REMOTE_Close \/ JoinServer
  \/ TCPSERVER_Disconnect \/ Exit \/ DEBUG_Print("main")

HandlerStep == terminate \/ DEBUG_Print("handler")

ServerStep ==
  \/ ServerLoop \/ TCPSERVER_NewConnection \/ Replace \/ TryJoin \/ PthreadCancel
  \/ Assign \/ Arm \/ PthreadCreate \/ Stop \/ JoinClient \/ DEBUG_Print("server")

ClientStep(t) ==
  \/ ClientLoop(t) \/ TCPSERVER_Receive(t) \/ Parse(t) \/ Pause(t)
  \/ TCPSERVER_Send(t, "send1", "send2") \/ TCPSERVER_Send(t, "send2", "nap")
  \/ Nap(t) \/ TCPSERVER_Close(t) \/ Cancelled(t) \/ DEBUG_Print(t)

Environment == Signal \/ \E f \in Fd : PeerResets(f)

Next ==
  \/ MainStep \/ HandlerStep \/ ServerStep
  \/ \E t \in Client : ClientStep(t)
  \/ Environment

Spec == Init /\ [][Next]_vars

\* Every thread the kernel can run is eventually run.  The waits inside a step
\* are bounded: accept and recvfrom time out after one second, sendto after
\* five, SLEEP_Delay returns.  Signals and peers promise nothing.
Fairness ==
  /\ WF_vars(MainStep) /\ WF_vars(HandlerStep) /\ WF_vars(ServerStep)
  /\ \A t \in Client : WF_vars(ClientStep(t))

FairSpec == Spec /\ Fairness

\* A thread rests at least 1 ms between two DEBUG_Print calls in its loop, so
\* the handler, waiting for the mutex, is not overtaken for ever.
DebugFairSpec == FairSpec /\ SF_vars(DEBUG_Print("handler"))

-----------------------------------------------------------------------------
(* Invariants.                                                             *)

PcOK == pc \in [Thread -> Label] /\ \A t \in Thread : pc[t] \in LabelOf(t)

\* Each variable has its type; between accept and pthread_create the server
\* holds a real descriptor (remote.c:77 tests for -1).
TypeOK ==
  /\ proc \in {"running", "failed", "exited", "crashed", "killed"}
  /\ run \in BOOLEAN /\ ServerRun \in BOOLEAN /\ ClientRun \in BOOLEAN
  /\ sock \in Fd \cup {NoFd} /\ sockNew \in Fd \cup {NoFd} /\ newSock \in Fd \cup {NoFd}
  /\ threadClient \in Client \cup Garbage
  /\ PcOK
  /\ cancel \in [Client -> BOOLEAN]
  /\ mine \in [Client -> Fd \cup {NoFd}]
  /\ late \in [Client -> Nat]
  /\ file \in [Fd -> {"free", "listen", "open", "rst"}]
  /\ mutex \in Thread \cup {"none", "orphan"}
  /\ pc["server"] \in Connecting => newSock \in Fd

\* At most one client thread has control of the vehicle: every other live one
\* has a cancellation request pending.  The client that is replaced is never
\* joined, so this rests on the order of cancel and create alone.
OneInControl ==
  \A t, u \in Client : InControl(t) /\ InControl(u) => t = u

\* All client threads use the one field REMOTE_ServerTCP.sockNew.  For the
\* thread in control it names the connection that thread was started for, and
\* that connection is still open.
ControlOwnsSocket ==
  \A t \in Client : InControl(t) => sockNew = mine[t] /\ sockNew \in Fd /\ Open(sockNew)

\* A cancelled thread that is past recvfrom still applies its command, but
\* only that one: the vehicle gets at most one stale command per replacement.
LateAtMostOnce ==
  \A t \in Client : late[t] <= 1

\* A connection is leaked only by a cancelled client (or by a server that the
\* garbage handle made cancel itself): every other open one is in the server's
\* hand or belongs to a live client.
LeakOnlyByCancel ==
  \A f \in Fd : Open(f) =>
    \/ f = newSock /\ pc["server"] \in Connecting
    \/ \E t \in Client : mine[t] = f /\ (Live(t) \/ cancel[t])
    \/ f = newSock /\ threadClient = "self" /\ pc["server"] = "dead"

\* When the process ends by way of main, the server thread has ended, the
\* listening socket is closed and no client is in control any more.
ShutdownComplete ==
  proc = "exited" =>
    /\ pc["server"] = "dead"
    /\ sock \in Fd /\ file[sock] = "free"
    /\ \A t \in Client : ~InControl(t)

\* The debug mutex is held by a thread inside DEBUG_Print, at a message that is
\* switched on, and by nobody else, unless a client was cancelled in there.
HolderInPrint == mutex \in Thread => Printing(mutex)

-----------------------------------------------------------------------------
(* Action properties.                                                      *)

\* When a client thread closes a connection it is its own, never that of the
\* client that replaced it.
ClosesOwn(t) ==
  pc[t] = "close" /\ pc'[t] = "zombie" =>
    \A f \in Fd : Open(f) /\ file'[f] = "free" => f = mine[t]

NoForeignClose == [][\A t \in Client : ClosesOwn(t)]_vars

-----------------------------------------------------------------------------
(* Liveness.                                                               *)

\* What nothing gets out of: the debug mutex left locked by a cancelled client,
\* or held by the main thread that the handler interrupted and waits for.
MutexStuck == mutex = "orphan" \/ (mutex = "main" /\ pc["handler"] = "termlog")

\* Once run is cleared the process ends: main joins the server, which joins
\* the client in control.  Two things can stop it: a join on a stray handle
\* (pthread_create failed on the first connection), and the debug mutex.
TerminateCompletes ==
  ~run ~> \/ proc # "running"
          \/ pc["server"] = "join" /\ threadClient = "stray"
          \/ MutexStuck

\* A replaced client thread goes away by itself, though nobody joins it.
CancelledGone ==
  \A t \in Client : cancel[t] ~> proc # "running" \/ ~Live(t) \/ MutexStuck

\* A termination signal takes effect, although its handler prints first, unless
\* it is stuck at the debug mutex.
SignalTakesEffect == pc["handler"] = "termlog" ~> ~run \/ proc # "running" \/ MutexStuck
=============================================================================
