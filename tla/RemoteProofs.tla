---------------------------- MODULE RemoteProofs ----------------------------
(* Theorems about Remote, for any number of client threads and descriptors. *)
EXTENDS RemoteInductive, TLAPS

\* The labels at which a thread may be inside DEBUG_Print.
LogLabel == {"runlog", "termlog", "startlog", "connlog", "stoplog", "rxlog", "cmdlog", "endlog"}

\* The labels of DEBUG_Print, and where each of them leads.
LEMMA LogLabels ==
  /\ DOMAIN LogFlag = LogLabel
  /\ LogNext["runlog"] = "wait" /\ LogNext["termlog"] = "set"
  /\ LogNext["startlog"] = "loop" /\ LogNext["connlog"] = "cancel"
  /\ LogNext["stoplog"] = "dead" /\ LogNext["rxlog"] = "parse"
  /\ LogNext["cmdlog"] = "pause" /\ LogNext["endlog"] = "close"
BY DEF LogFlag, LogNext, LogLabel

\* What DEBUG_Print does to control and to the mutex.
LEMMA PrintStep ==
  ASSUME TypeOK, NEW t \in Thread, DEBUG_Print(t)
  PROVE  /\ pc[t] \in LogLabel
         /\ At(t, pc[t])
         /\ UNCHANGED <<proc, flags, sockets, threads>>
         /\ \/ mutex = "none" /\ mutex' = t /\ pc' = pc /\ Printing(t)
            \/ mutex = t /\ mutex' = "none" /\ pc' = [pc EXCEPT ![t] = LogNext[pc[t]]]
            \/ mutex' = mutex /\ pc' = [pc EXCEPT ![t] = LogNext[pc[t]]] /\ ~Printing(t)
BY LogLabels DEF DEBUG_Print, LockDebug, UnlockDebug, Goto, Printing

-----------------------------------------------------------------------------
\* The labels of each thread, and that threads are told apart by name.
LEMMA Labels ==
  /\ LabelOf("main") = MainLabel /\ LabelOf("handler") = HandlerLabel
  /\ LabelOf("server") = ServerLabel
  /\ \A t \in Client : t \notin {"main", "handler", "server"} /\ LabelOf(t) = ClientLabel
  /\ \A t \in Thread : LabelOf(t) \subseteq Label
BY ConstantAssumption DEF LabelOf, Label, Thread

\* Where DEBUG_Print takes the server and the clients; nobody is born or dies.
LEMMA PrintMoves ==
  ASSUME TypeOK, NEW t \in Thread, DEBUG_Print(t)
  PROVE  /\ \A u \in Client :
              \/ pc'[u] = pc[u]
              \/ pc[u] = "rxlog" /\ pc'[u] = "parse"
              \/ pc[u] = "cmdlog" /\ pc'[u] = "pause"
              \/ pc[u] = "endlog" /\ pc'[u] = "close"
         /\ \/ pc'["server"] = pc["server"]
            \/ pc["server"] = "startlog" /\ pc'["server"] = "loop"
            \/ pc["server"] = "connlog" /\ pc'["server"] = "cancel"
            \/ pc["server"] = "stoplog" /\ pc'["server"] = "dead"
<1>1. \A u \in Thread : pc[u] \in LabelOf(u)
  BY DEF TypeOK, PcOK
<1>2. pc[t] \in LogLabel
  BY PrintStep
<1>3. pc' = pc \/ pc' = [pc EXCEPT ![t] = LogNext[pc[t]]]
  BY PrintStep
<1>4. pc \in [Thread -> Label]
  BY DEF TypeOK, PcOK
<1>5. \A u \in Thread : pc'[u] = pc[u] \/ (u = t /\ pc'[u] = LogNext[pc[u]])
  BY <1>3, <1>4
<1>6. ASSUME NEW u \in Client, pc'[u] # pc[u]
      PROVE  \/ pc[u] = "rxlog" /\ pc'[u] = "parse"
             \/ pc[u] = "cmdlog" /\ pc'[u] = "pause"
             \/ pc[u] = "endlog" /\ pc'[u] = "close"
  <2>1. u \in Thread /\ LabelOf(u) = ClientLabel
    BY Labels DEF Thread
  <2>2. pc[u] \in ClientLabel \cap LogLabel /\ pc'[u] = LogNext[pc[u]]
    BY <1>1, <1>2, <1>5, <1>6, <2>1
  <2>3. pc[u] \in {"rxlog", "cmdlog", "endlog"}
    BY <2>2 DEF ClientLabel, LogLabel
  <2> QED
    BY <2>2, <2>3, LogLabels
<1>7. ASSUME pc'["server"] # pc["server"]
      PROVE  \/ pc["server"] = "startlog" /\ pc'["server"] = "loop"
             \/ pc["server"] = "connlog" /\ pc'["server"] = "cancel"
             \/ pc["server"] = "stoplog" /\ pc'["server"] = "dead"
  <2>1. "server" \in Thread /\ LabelOf("server") = ServerLabel
    BY Labels DEF Thread
  <2>2. pc["server"] \in ServerLabel \cap LogLabel /\ pc'["server"] = LogNext[pc["server"]]
    BY <1>1, <1>2, <1>5, <1>7, <2>1
  <2>3. pc["server"] \in {"startlog", "connlog", "stoplog"}
    BY <2>2 DEF ServerLabel, LogLabel
  <2> QED
    BY <2>2, <2>3, LogLabels
<1> QED
  BY <1>6, <1>7

\* A thread that goes to a label of its own keeps every pc in place.
LEMMA Move ==
  ASSUME PcOK, NEW t \in Thread, NEW l \in LabelOf(t), pc' = [pc EXCEPT ![t] = l]
  PROVE  PcOK'
BY Labels DEF PcOK

\* So do two threads that go to labels of their own in one step.
LEMMA MoveTwo ==
  ASSUME PcOK, NEW t \in Thread, NEW l \in LabelOf(t), NEW u \in Thread, NEW m \in LabelOf(u),
         pc' = [pc EXCEPT ![t] = l, ![u] = m]
  PROVE  PcOK'
BY Labels DEF PcOK

\* Everything a step of a client thread can do.
LEMMA ClientEffect ==
  ASSUME TypeOK, NEW t \in Client, ClientStep(t)
  PROVE  /\ proc = "running" /\ Live(t)
         /\ proc' \in {proc, "killed"}
         /\ UNCHANGED <<flags, sock, sockNew, newSock, threadClient, cancel, mine>>
         /\ \E l \in ClientLabel : pc' = [pc EXCEPT ![t] = l] /\ l # "free"
         /\ \/ file' = file
            \/ /\ pc[t] = "close" /\ ~cancel[t] /\ pc'[t] = "zombie"
               /\ file' = [f \in Fd |-> IF f = sockNew THEN "free" ELSE file[f]]
         /\ \/ late' = late
            \/ /\ pc[t] = "parse" /\ pc'[t] = "cmdlog"
               /\ late' = [late EXCEPT ![t] = IF cancel[t] THEN @ + 1 ELSE @]
         /\ cancel[t] /\ pc'[t] \in {"rxlog", "parse"} => pc[t] \in {"rxlog", "parse"}
         /\ \/ mutex' = mutex /\ ~Printing(t)
            \/ mutex = "none" /\ mutex' = t /\ pc' = pc /\ Printing(t)
            \/ mutex = t /\ mutex' \in {"none", "orphan"}
<1> USE DEF flags, sockets, threads, Goto, At, AtClient, ClientLabel, TypeOK, PcOK, Live, Thread
<1>1. ~DEBUG_Print(t) /\ ~Cancelled(t) => pc[t] \notin LogLabel
  BY DEF ClientStep, LogLabel, ClientLoop, TCPSERVER_Receive, Parse, Pause, TCPSERVER_Send,
       Nap, TCPSERVER_Close
<1>2. pc[t] \notin LogLabel => ~Printing(t)
  BY LogLabels DEF Printing
<1>3. CASE ClientLoop(t)
  BY <1>2, <1>3 DEF ClientLoop, LogLabel
<1>4. CASE TCPSERVER_Receive(t)
  BY <1>2, <1>4 DEF TCPSERVER_Receive, CancelPoint, LogLabel
<1>5. CASE Parse(t)
  BY <1>2, <1>5 DEF Parse, LogLabel
<1>6. CASE Pause(t)
  BY <1>2, <1>6 DEF Pause, LogLabel
<1>7. CASE Nap(t)
  BY <1>2, <1>7 DEF Nap, LogLabel
<1>8. CASE TCPSERVER_Send(t, "send1", "send2") \/ TCPSERVER_Send(t, "send2", "nap")
  BY <1>2, <1>8 DEF TCPSERVER_Send, LogLabel
<1>9. CASE TCPSERVER_Close(t)
  BY <1>2, <1>9 DEF TCPSERVER_Close, CancelPoint, LogLabel
<1>10. CASE Cancelled(t)
  <2>1. CASE pc[t] \in CancelPoint
    BY <1>2, <1>10, <2>1 DEF Cancelled, CancelPoint, LogLabel
  <2>2. CASE Printing(t) /\ mutex = t
    <3>1. pc[t] \in LogLabel
      BY <2>2, LogLabels DEF Printing
    <3> QED
      BY <1>10, <2>2, <3>1 DEF Cancelled, LogLabel
  <2> QED
    BY <1>10, <2>1, <2>2 DEF Cancelled
<1>11. CASE DEBUG_Print(t)
  <2>1. pc[t] \in {"rxlog", "cmdlog", "endlog"}
    BY <1>11, PrintStep, Labels, ZenonT(40) DEF LogLabel
  <2> DEFINE l == LogNext[pc[t]]
  <2>2. l \in ClientLabel /\ l \notin {"free", "rxlog"}
    BY <2>1, LogLabels
  <2>3. pc' = pc \/ pc' = [pc EXCEPT ![t] = l]
    BY <1>11, PrintStep
  <2>4. l = "parse" => pc[t] = "rxlog"
    BY <2>1, LogLabels
  <2> HIDE DEF l
  <2> QED
    BY <1>11, PrintStep, <2>1, <2>2, <2>3, <2>4, ZenonT(40)
<1> QED
  BY <1>3, <1>4, <1>5, <1>6, <1>7, <1>8, <1>9, <1>10, <1>11 DEF ClientStep

\* The globals of remote.c start with values of their types.
LEMMA InitTypeOK == Init => TypeOK
<1> SUFFICES ASSUME Init PROVE TypeOK
  OBVIOUS
<1>1. \A t \in Thread : pc[t] \in LabelOf(t)
  BY Labels DEF Init, Thread, MainLabel, HandlerLabel, ServerLabel, ClientLabel
<1>2. pc \in [Thread -> Label]
  BY <1>1, Labels DEF Init
<1> QED
  BY <1>1, <1>2, ConstantAssumption DEF Init, TypeOK, PcOK, Connecting, Thread

\* Every step of ds2d keeps the types.
LEMMA StepTypeOK == TypeOK /\ [Next]_vars => TypeOK'
<1> SUFFICES ASSUME TypeOK, [Next]_vars PROVE TypeOK'
  OBVIOUS
<1> USE DEF flags, sockets, threads
<1>1. CASE UNCHANGED vars
  BY <1>1 DEF vars, TypeOK, PcOK, Connecting
<1>2. ASSUME NEW t \in Thread, DEBUG_Print(t) PROVE TypeOK'
  <2>1. pc[t] \in LogLabel => LogNext[pc[t]] \in LabelOf(t)
    BY LogLabels, Labels DEF TypeOK, PcOK, Thread, LogLabel, MainLabel, HandlerLabel,
         ServerLabel, ClientLabel
  <2>2. PcOK'
    BY <1>2, <2>1, PrintStep, Move DEF TypeOK, PcOK
  <2>3. pc'["server"] \in Connecting => pc["server"] \in Connecting
    BY <1>2, PrintStep, LogLabels DEF TypeOK, PcOK, LogLabel, Connecting, Thread
  <2> QED
    BY <1>2, <2>2, <2>3, PrintStep DEF TypeOK
<1>3. CASE MainLoop
  BY <1>3, Labels DEF TypeOK, PcOK, MainLoop, At, Goto, Thread, MainLabel
<1>4. CASE REMOTE_Close
  BY <1>4, Labels DEF TypeOK, PcOK, REMOTE_Close, At, Goto, Thread, MainLabel
<1>5. CASE JoinServer
  BY <1>5, Labels DEF TypeOK, PcOK, JoinServer, At, Goto, Thread, MainLabel
<1>6. CASE TCPSERVER_Disconnect
  BY <1>6, Labels, ZenonT(40) DEF TypeOK, PcOK, TCPSERVER_Disconnect, At, Goto, Thread, MainLabel
<1>7. CASE Exit
  BY <1>7, Labels DEF TypeOK, PcOK, Exit, At, Goto, Thread, MainLabel
<1>8. CASE REMOTE_Init
  <2>1. ASSUME NEW f \in FreshFd,
               sock' = f, file' = [file EXCEPT ![f] = "listen"],
               pc' = [pc EXCEPT !["main"] = "runlog", !["server"] = "startlog"]
        PROVE  TypeOK'
    <3>1. "runlog" \in LabelOf("main") /\ "startlog" \in LabelOf("server")
      BY Labels DEF MainLabel, ServerLabel
    <3>2. PcOK'
      BY <2>1, <3>1, MoveTwo DEF TypeOK, Thread
    <3> QED
      BY <1>8, <2>1, <3>2, ZenonT(40) DEF TypeOK, PcOK, REMOTE_Init, FreshFd, Connecting, Thread
  <2>2. CASE UNCHANGED <<sock, file, ServerRun, pc>> /\ proc' = "failed"
    BY <1>8, <2>2 DEF TypeOK, PcOK, REMOTE_Init
  <2> QED
    BY <1>8, <2>1, <2>2 DEF REMOTE_Init
<1>9. CASE terminate
  BY <1>9, Labels DEF TypeOK, PcOK, terminate, At, Goto, Thread, HandlerLabel
<1>10. CASE Signal
  BY <1>10, Labels DEF TypeOK, PcOK, Signal, At, Goto, Thread, HandlerLabel
<1>11. CASE ServerLoop
  BY <1>11, Labels DEF TypeOK, PcOK, ServerLoop, At, Goto, Thread, FreshFd, ServerLabel, Connecting
<1>12. CASE TCPSERVER_NewConnection
  BY <1>12, Labels, ZenonT(40) DEF TypeOK, PcOK, TCPSERVER_NewConnection, At, Goto, Thread, FreshFd, ServerLabel, Connecting
<1>13. CASE Replace
  BY <1>13, Labels DEF TypeOK, PcOK, Replace, At, Goto, Thread, FreshFd, ServerLabel, Connecting
<1>14. CASE TryJoin
  <2>1. PcOK'
    <3>1. CASE threadClient \in Client
      <4> DEFINE l == IF pc[threadClient] = "zombie" THEN "free" ELSE pc[threadClient]
      <4>1. threadClient # "server"
        BY <3>1, Labels
      <4>2. l \in LabelOf(threadClient)
        BY <3>1, Labels DEF TypeOK, PcOK, ClientLabel, Thread
      <4>3. "connlog" \in LabelOf("server")
        BY Labels DEF ServerLabel
      <4>4. pc' = [pc EXCEPT !["server"] = "connlog", ![threadClient] = l]
        BY <1>14, <3>1, <4>1 DEF TryJoin, TypeOK, PcOK, Thread
      <4> HIDE DEF l
      <4> QED
        BY <3>1, <4>2, <4>3, <4>4, MoveTwo DEF TypeOK, Thread
    <3>2. CASE threadClient \in Garbage
      <4>1. threadClient \notin Thread
        BY <3>2, ConstantAssumption DEF Thread, GarbageKind
      <4>2. pc' = [pc EXCEPT !["server"] = "connlog"]
        BY <1>14, <4>1 DEF TryJoin, TypeOK, PcOK, Thread
      <4> QED
        BY <4>2, Move, Labels DEF TypeOK, ServerLabel, Thread
    <3> QED
      BY <3>1, <3>2 DEF TypeOK
  <2> QED
    BY <1>14, <2>1 DEF TypeOK, TryJoin, At, Connecting
<1>15. CASE PthreadCancel
  BY <1>15, Labels, ZenonT(40) DEF TypeOK, PcOK, PthreadCancel, At, Goto, Thread, FreshFd, ServerLabel, Connecting
<1>16. CASE Assign
  BY <1>16, Labels DEF TypeOK, PcOK, Assign, At, Goto, Thread, FreshFd, ServerLabel, Connecting
<1>17. CASE Arm
  BY <1>17, Labels DEF TypeOK, PcOK, Arm, At, Goto, Thread, FreshFd, ServerLabel, Connecting
<1>18. CASE Stop
  BY <1>18, Labels, ZenonT(40) DEF TypeOK, PcOK, Stop, At, Goto, Thread, FreshFd, ServerLabel, Connecting
<1>19. CASE JoinClient
  <2>1. CASE threadClient \in Client /\ pc' = [pc EXCEPT !["server"] = "stoplog", ![threadClient] = "free"]
    <3>1. "stoplog" \in LabelOf("server") /\ "free" \in LabelOf(threadClient)
      BY <2>1, Labels DEF ServerLabel, ClientLabel
    <3>2. PcOK'
      BY <2>1, <3>1, MoveTwo DEF TypeOK, Thread
    <3>3. pc'["server"] = "stoplog"
      BY <2>1, Labels DEF TypeOK, PcOK, Thread
    <3> QED
      BY <1>19, <3>2, <3>3 DEF TypeOK, JoinClient, Connecting
  <2>2. CASE Goto("server", "stoplog")
    <3>1. PcOK' /\ pc'["server"] = "stoplog"
      BY <2>2, Move, Labels DEF TypeOK, PcOK, Goto, ServerLabel, Thread
    <3> QED
      BY <1>19, <3>1 DEF TypeOK, JoinClient, Connecting
  <2> QED
    BY <1>19, <2>1, <2>2 DEF JoinClient
<1>20. CASE PthreadCreate
  <2>1. ASSUME NEW t \in Client, CreateClient(t) PROVE TypeOK'
    <3>1. "loop" \in LabelOf("server") /\ "loop" \in LabelOf(t)
      BY Labels DEF ServerLabel, ClientLabel
    <3>2. PcOK'
      BY <2>1, <3>1, MoveTwo DEF TypeOK, CreateClient, Thread
    <3>3. pc'["server"] = "loop"
      BY <2>1, Labels DEF TypeOK, PcOK, CreateClient, Thread
    <3> QED
      BY <1>20, <2>1, <3>2, <3>3 DEF TypeOK, PthreadCreate, CreateClient, Connecting
  <2>2. CASE CreateFails
    <3>1. PcOK' /\ pc'["server"] = "stop"
      BY <2>2, Move, Labels DEF TypeOK, PcOK, CreateFails, Goto, ServerLabel, Thread
    <3> QED
      BY <1>20, <2>2, <3>1, ZenonT(40) DEF TypeOK, PthreadCreate, CreateFails, Connecting
  <2> QED
    BY <1>20, <2>1, <2>2 DEF PthreadCreate
<1>21. ASSUME NEW t \in Client, ClientStep(t) PROVE TypeOK'
  <2>1. PcOK'
    BY <1>21, ClientEffect, Move, Labels DEF TypeOK, Thread
  <2>2. pc'["server"] = pc["server"]
    BY <1>21, ClientEffect, Labels DEF TypeOK, PcOK, Thread
  <2> QED
    BY <1>21, <2>1, <2>2, ClientEffect, Labels DEF TypeOK, Thread
<1>22. CASE \E f \in Fd : PeerResets(f)
  BY <1>22 DEF PeerResets, TypeOK, PcOK
<1> QED
  BY <1>1, <1>2, <1>3, <1>4, <1>5, <1>6, <1>7, <1>8, <1>9, <1>10, <1>11, <1>12, <1>13, <1>14, <1>15, <1>16, <1>17, <1>18, <1>19, <1>20, <1>21, <1>22
     DEF Next, MainStep, HandlerStep, ServerStep, ClientStep, Environment, Thread

\* A cancelled client parses at most once before its next cancellation point.
LEMMA StepLate == IInv /\ [Next]_vars => LateCount'
<1> SUFFICES ASSUME IInv, [Next]_vars PROVE LateCount'
  OBVIOUS
<1> USE Labels DEF IInv, TypeOK, PcOK, Thread, At, Goto, flags, sockets, threads
<1> USE DEF LateCount
<1>1. CASE UNCHANGED vars
  BY <1>1 DEF vars
<1>2. ASSUME NEW t \in Thread, DEBUG_Print(t) PROVE LateCount'
  <2>1. late' = late /\ cancel' = cancel
    BY <1>2, PrintStep
  <2>2. \A u \in Client : pc[u] \notin {"rxlog", "parse"} => pc'[u] \notin {"rxlog", "parse"}
    BY <1>2, PrintMoves
  <2> QED
    BY <2>1, <2>2
<1>3. CASE MainLoop
  BY <1>3 DEF MainLoop
<1>4. CASE REMOTE_Close
  BY <1>4 DEF REMOTE_Close
<1>5. CASE JoinServer
  BY <1>5 DEF JoinServer
<1>6. CASE TCPSERVER_Disconnect
  BY <1>6 DEF TCPSERVER_Disconnect
<1>7. CASE Exit
  BY <1>7 DEF Exit
<1>8. CASE REMOTE_Init
  BY <1>8 DEF REMOTE_Init, FreshFd
<1>9. CASE terminate
  BY <1>9 DEF terminate
<1>10. CASE Signal
  BY <1>10 DEF Signal
<1>11. CASE ServerLoop
  BY <1>11 DEF ServerLoop
<1>12. CASE TCPSERVER_NewConnection
  BY <1>12 DEF TCPSERVER_NewConnection, FreshFd
<1>13. CASE Replace
  BY <1>13 DEF Replace
<1>14. CASE TryJoin
  BY <1>14 DEF TryJoin
<1>15. CASE PthreadCancel
  BY <1>15 DEF PthreadCancel
<1>16. CASE Assign
  BY <1>16 DEF Assign
<1>17. CASE Arm
  BY <1>17 DEF Arm
<1>18. CASE Stop
  BY <1>18 DEF Stop
<1>19. CASE JoinClient
  BY <1>19 DEF JoinClient
<1>20. CASE PthreadCreate
  BY <1>20 DEF PthreadCreate, CreateClient, CreateFails
<1>21. ASSUME NEW t \in Client, ClientStep(t) PROVE LateCount'
  BY <1>21, ClientEffect DEF ClientLabel
<1>22. CASE \E f \in Fd : PeerResets(f)
  BY <1>22 DEF PeerResets
<1> QED
  BY <1>1, <1>2, <1>3, <1>4, <1>5, <1>6, <1>7, <1>8, <1>9, <1>10, <1>11, <1>12, <1>13, <1>14, <1>15, <1>16, <1>17, <1>18, <1>19, <1>20, <1>21, <1>22
     DEF Next, MainStep, HandlerStep, ServerStep, ClientStep, Environment

\* A step of x keeps the holder of the mutex where it is, if x is not printing.
LEMMA HolderStays ==
  ASSUME TypeOK, HolderInPrint, NEW x \in Thread, pc[x] \notin LogLabel, mutex' = mutex,
         \A t \in Thread \ {x} : pc[t] \in LogLabel => pc'[t] = pc[t]
  PROVE  HolderInPrint'
BY LogLabels DEF HolderInPrint, Printing

\* The debug mutex stays with the thread that is printing.
LEMMA StepHolder == IInv /\ [Next]_vars => HolderInPrint'
<1> SUFFICES ASSUME IInv, [Next]_vars PROVE HolderInPrint'
  OBVIOUS
<1> USE Labels DEF IInv, TypeOK, PcOK, Thread, At, Goto, LogLabel
<1>1. CASE UNCHANGED vars
  BY <1>1 DEF vars, HolderInPrint, Printing
<1>2. ASSUME NEW t \in Thread, DEBUG_Print(t) PROVE HolderInPrint'
  <2>1. CASE mutex = "none" /\ mutex' = t /\ pc' = pc /\ Printing(t)
    BY <2>1 DEF HolderInPrint, Printing
  <2>2. CASE mutex' = "none"
    BY <2>2, ConstantAssumption DEF HolderInPrint
  <2>3. CASE mutex' = mutex /\ pc' = [pc EXCEPT ![t] = LogNext[pc[t]]] /\ ~Printing(t)
    <3>1. mutex \in Thread => mutex # t /\ pc'[mutex] = pc[mutex]
      BY <2>3 DEF HolderInPrint
    <3> QED
      BY <2>3, <3>1 DEF HolderInPrint, Printing
  <2> QED
    BY <1>2, <2>1, <2>2, <2>3, PrintStep
<1>3. CASE MainLoop \/ REMOTE_Close \/ JoinServer \/ TCPSERVER_Disconnect \/ Exit
  BY <1>3, HolderStays DEF MainLoop, REMOTE_Close, JoinServer, TCPSERVER_Disconnect, Exit
<1>4. CASE REMOTE_Init
  <2>1. \A t \in Thread : pc[t] \in LogLabel => pc'[t] = pc[t]
    BY <1>4 DEF REMOTE_Init, ListeningSocket
  <2> QED
    BY <1>4, <2>1, HolderStays DEF REMOTE_Init
<1>5. CASE terminate \/ Signal
  BY <1>5, HolderStays DEF terminate, Signal
<1>6. CASE ServerLoop \/ TCPSERVER_NewConnection \/ Replace \/ PthreadCancel \/ Assign \/ Arm \/ Stop
  BY <1>6, HolderStays DEF ServerLoop, TCPSERVER_NewConnection, Replace, PthreadCancel, Assign,
       Arm, Stop
<1>7. CASE TryJoin
  BY <1>7, HolderStays DEF TryJoin
<1>8. CASE JoinClient
  BY <1>8, HolderStays DEF JoinClient, Live
<1>9. CASE PthreadCreate
  BY <1>9, HolderStays DEF PthreadCreate, CreateClient, CreateFails
<1>10. ASSUME NEW t \in Client, ClientStep(t) PROVE HolderInPrint'
  <2>1. CASE mutex = "none" /\ mutex' = t /\ pc' = pc /\ Printing(t)
    BY <2>1 DEF HolderInPrint, Printing
  <2>2. CASE mutex' \in {"none", "orphan"}
    BY <2>2, ConstantAssumption DEF HolderInPrint
  <2>3. CASE mutex' = mutex /\ ~Printing(t)
    <3>1. mutex \in Thread => mutex # t /\ pc'[mutex] = pc[mutex]
      BY <1>10, <2>3, ClientEffect DEF HolderInPrint
    <3> QED
      BY <2>3, <3>1 DEF HolderInPrint, Printing
  <2> QED
    BY <1>10, <2>1, <2>2, <2>3, ClientEffect
<1>11. CASE \E f \in Fd : PeerResets(f)
  BY <1>11 DEF PeerResets, HolderInPrint, Printing
<1> QED
  BY <1>1, <1>2, <1>3, <1>4, <1>5, <1>6, <1>7, <1>8, <1>9, <1>10, <1>11
     DEF Next, MainStep, HandlerStep, ServerStep, ClientStep, Environment

\* The listening socket stays, and shutdown keeps its order.
LEMMA StepShutdown == IInv /\ [Next]_vars => (ListeningSocket /\ ShutdownOrder)'
<1> SUFFICES ASSUME IInv, [Next]_vars PROVE (ListeningSocket /\ ShutdownOrder)'
  OBVIOUS
<1> USE Labels DEF IInv, TypeOK, PcOK, Thread, At, Goto, flags, sockets, threads
<1> USE DEF ListeningSocket, ShutdownOrder
<1>1. CASE UNCHANGED vars
  BY <1>1 DEF vars
<1>2. ASSUME NEW t \in Thread, DEBUG_Print(t) PROVE (ListeningSocket /\ ShutdownOrder)'
  <2>1. pc[t] \in LogLabel
    BY <1>2, PrintStep
  <2>2. CASE t = "main"
    <3>1. pc["main"] = "runlog"
      BY <2>1, <2>2 DEF LogLabel, MainLabel
    <3>2. pc' = pc \/ pc' = [pc EXCEPT !["main"] = "wait"]
      BY <1>2, <2>2, <3>1, PrintStep, LogLabels
    <3> QED
      BY <1>2, <2>2, <3>1, <3>2, PrintStep
  <2>3. CASE t # "main"
    <3>1. pc'["main"] = pc["main"]
      BY <1>2, <2>3, PrintStep
    <3>2. pc["server"] \in {"unborn", "dead"} => pc'["server"] = pc["server"]
      BY <1>2, <2>1, PrintStep DEF LogLabel
    <3> QED
      BY <1>2, <3>1, <3>2, PrintStep
  <2> QED
    BY <2>2, <2>3
<1>3. CASE MainLoop
  BY <1>3 DEF MainLoop
<1>4. CASE REMOTE_Close
  BY <1>4 DEF REMOTE_Close
<1>5. CASE JoinServer
  BY <1>5 DEF JoinServer
<1>6. CASE TCPSERVER_Disconnect
  BY <1>6 DEF TCPSERVER_Disconnect
<1>7. CASE Exit
  BY <1>7 DEF Exit
<1>8. CASE REMOTE_Init
  BY <1>8 DEF REMOTE_Init, FreshFd
<1>9. CASE terminate
  BY <1>9 DEF terminate
<1>10. CASE Signal
  BY <1>10 DEF Signal
<1>11. CASE ServerLoop
  BY <1>11 DEF ServerLoop
<1>12. CASE TCPSERVER_NewConnection
  BY <1>12 DEF TCPSERVER_NewConnection, FreshFd
<1>13. CASE Replace
  BY <1>13 DEF Replace
<1>14. CASE TryJoin
  BY <1>14 DEF TryJoin
<1>15. CASE PthreadCancel
  BY <1>15 DEF PthreadCancel
<1>16. CASE Assign
  BY <1>16 DEF Assign
<1>17. CASE Arm
  BY <1>17 DEF Arm
<1>18. CASE Stop
  BY <1>18 DEF Stop
<1>19. CASE JoinClient
  BY <1>19 DEF JoinClient
<1>20. CASE PthreadCreate
  <2>1. ASSUME NEW t \in Client, CreateClient(t) PROVE (ListeningSocket /\ ShutdownOrder)'
    BY <1>20, <2>1 DEF PthreadCreate, CreateClient
  <2>2. CASE CreateFails
    BY <1>20, <2>2 DEF PthreadCreate, CreateFails, NewIsFresh, Connecting, Open
  <2> QED
    BY <1>20, <2>1, <2>2 DEF PthreadCreate
<1>21. ASSUME NEW t \in Client, ClientStep(t) PROVE (ListeningSocket /\ ShutdownOrder)'
  <2>1. pc'["main"] = pc["main"] /\ pc'["server"] = pc["server"] /\ proc' # "exited"
    BY <1>21, ClientEffect
  <2>2. \A f \in Fd : file[f] \in {"free", "listen"} => file'[f] = file[f]
    BY <1>21, ClientEffect DEF ControlOwnsSocket, InControl, Open
  <2> QED
    BY <1>21, <2>1, <2>2, ClientEffect
<1>22. CASE \E f \in Fd : PeerResets(f)
  BY <1>22 DEF PeerResets
<1> QED
  BY <1>1, <1>2, <1>3, <1>4, <1>5, <1>6, <1>7, <1>8, <1>9, <1>10, <1>11, <1>12, <1>13, <1>14, <1>15, <1>16, <1>17, <1>18, <1>19, <1>20, <1>21, <1>22
     DEF Next, MainStep, HandlerStep, ServerStep, ClientStep, Environment

\* The client in control is the one whose handle the server holds, it has the
\* flag set while it lasts, and nobody is in control while it is replaced.
LEMMA StepControl == IInv /\ [Next]_vars => (HandleIsControl /\ NobodyInControl /\ FlagCoversControl)'
<1> SUFFICES ASSUME IInv, [Next]_vars PROVE (HandleIsControl /\ NobodyInControl /\ FlagCoversControl)'
  OBVIOUS
<1> USE Labels DEF IInv, TypeOK, PcOK, Thread, At, Goto, flags, sockets, threads
<1> USE DEF HandleIsControl, NobodyInControl, FlagCoversControl, InControl, Live
<1>1. CASE UNCHANGED vars
  BY <1>1 DEF vars
<1>2. ASSUME NEW t \in Thread, DEBUG_Print(t) PROVE (HandleIsControl /\ NobodyInControl /\ FlagCoversControl)'
  <2>1. cancel' = cancel /\ threadClient' = threadClient /\ ClientRun' = ClientRun
    BY <1>2, PrintStep
  <2>2. \A u \in Client : InControl(u)' => InControl(u)
    BY <1>2, <2>1, PrintMoves
  <2>3. \/ pc'["server"] = pc["server"]
        \/ pc["server"] = "startlog" /\ pc'["server"] = "loop"
        \/ pc["server"] = "connlog" /\ pc'["server"] = "cancel"
        \/ pc["server"] = "stoplog" /\ pc'["server"] = "dead"
    BY <1>2, PrintMoves
  <2> HIDE DEF InControl, Live
  <2>4. HandleIsControl'
    BY <2>1, <2>2
  <2>5. NobodyInControl'
    BY <2>2, <2>3
  <2>6. FlagCoversControl'
    BY <2>1, <2>2, <2>3
  <2> QED
    BY <2>4, <2>5, <2>6
<1>3. CASE MainLoop
  BY <1>3 DEF MainLoop
<1>4. CASE REMOTE_Close
  BY <1>4 DEF REMOTE_Close
<1>5. CASE JoinServer
  BY <1>5 DEF JoinServer
<1>6. CASE TCPSERVER_Disconnect
  BY <1>6 DEF TCPSERVER_Disconnect
<1>7. CASE Exit
  BY <1>7 DEF Exit
<1>8. CASE REMOTE_Init
  <2>1. \A t \in Client : pc'[t] = pc[t]
    BY <1>8 DEF REMOTE_Init
  <2> QED
    BY <1>8, <2>1 DEF REMOTE_Init, ListeningSocket
<1>9. CASE terminate
  BY <1>9 DEF terminate
<1>10. CASE Signal
  BY <1>10 DEF Signal
<1>11. CASE ServerLoop
  BY <1>11 DEF ServerLoop
<1>12. CASE TCPSERVER_NewConnection
  BY <1>12 DEF TCPSERVER_NewConnection, FreshFd
<1>13. CASE Replace
  BY <1>13 DEF Replace
<1>14. CASE TryJoin
  BY <1>14 DEF TryJoin
<1>15. CASE PthreadCancel
  <2>1. \A t \in Client : pc'[t] = pc[t]
    BY <1>15 DEF PthreadCancel
  <2>2. CASE threadClient \in Client
    BY <1>15, <2>1, <2>2, ConstantAssumption, ZenonT(40) DEF PthreadCancel, GarbageKind
  <2>3. CASE threadClient \notin Client
    BY <1>15, <2>1, <2>3 DEF PthreadCancel
  <2> QED
    BY <2>2, <2>3
<1>16. CASE Assign
  BY <1>16 DEF Assign
<1>17. CASE Arm
  BY <1>17 DEF Arm
<1>18. CASE Stop
  BY <1>18 DEF Stop
<1>19. CASE JoinClient
  <2>1. \A t \in Client : pc'[t] = pc[t] \/ pc'[t] = "free"
    BY <1>19 DEF JoinClient
  <2>2. \A t \in Client : ~InControl(t)
    BY <1>19, ConstantAssumption DEF JoinClient, GarbageKind
  <2>3. pc'["server"] = "stoplog"
    BY <1>19 DEF JoinClient
  <2> QED
    BY <1>19, <2>1, <2>2, <2>3 DEF JoinClient
<1>20. CASE PthreadCreate
  <2>1. ASSUME NEW t \in Client, CreateClient(t) PROVE (HandleIsControl /\ NobodyInControl /\ FlagCoversControl)'
    <3>1. pc'["server"] = "loop" /\ \A u \in Client \ {t} : pc'[u] = pc[u]
      BY <2>1 DEF CreateClient
    <3>2. ClientRun'
      BY <1>20 DEF PthreadCreate
    <3> QED
      BY <1>20, <2>1, <3>1, <3>2 DEF PthreadCreate, CreateClient
  <2>2. CASE CreateFails
    BY <1>20, <2>2 DEF PthreadCreate, CreateFails
  <2> QED
    BY <1>20, <2>1, <2>2 DEF PthreadCreate
<1>21. ASSUME NEW t \in Client, ClientStep(t) PROVE (HandleIsControl /\ NobodyInControl /\ FlagCoversControl)'
  BY <1>21, ClientEffect DEF ClientLabel
<1>22. CASE \E f \in Fd : PeerResets(f)
  BY <1>22 DEF PeerResets
<1> QED
  BY <1>1, <1>2, <1>3, <1>4, <1>5, <1>6, <1>7, <1>8, <1>9, <1>10, <1>11, <1>12, <1>13, <1>14, <1>15, <1>16, <1>17, <1>18, <1>19, <1>20, <1>21, <1>22
     DEF Next, MainStep, HandlerStep, ServerStep, ClientStep, Environment

\* The client in control keeps its socket, which is not the one just accepted.
LEMMA StepSocket == IInv /\ [Next]_vars => (ControlOwnsSocket /\ NewIsFresh)'
<1> SUFFICES ASSUME IInv, [Next]_vars PROVE (ControlOwnsSocket /\ NewIsFresh)'
  OBVIOUS
<1> USE Labels DEF IInv, TypeOK, PcOK, Thread, At, Goto, flags, sockets, threads
<1> USE DEF HandleIsControl, NobodyInControl, ControlOwnsSocket, NewIsFresh, InControl, Live, Open, Connecting
<1>1. CASE UNCHANGED vars
  BY <1>1 DEF vars
<1>2. ASSUME NEW t \in Thread, DEBUG_Print(t) PROVE (ControlOwnsSocket /\ NewIsFresh)'
  <2>1. pc[t] \in LogLabel
    BY <1>2, PrintStep
  <2>2. \A u \in Client : Live(u)' => Live(u)
    BY <1>2, PrintMoves
  <2>3. pc'["server"] = pc["server"] \/ (pc["server"] \in Connecting /\ pc'["server"] = "cancel")
        \/ pc'["server"] \notin Connecting
    BY <1>2, PrintMoves
  <2> QED
    BY <1>2, <2>2, <2>3, PrintStep
<1>3. CASE MainLoop
  BY <1>3 DEF MainLoop
<1>4. CASE REMOTE_Close
  BY <1>4 DEF REMOTE_Close
<1>5. CASE JoinServer
  BY <1>5 DEF JoinServer
<1>6. CASE TCPSERVER_Disconnect
  BY <1>6 DEF TCPSERVER_Disconnect, ListeningSocket
<1>7. CASE Exit
  BY <1>7 DEF Exit
<1>8. CASE REMOTE_Init
  BY <1>8, ZenonT(40) DEF REMOTE_Init, FreshFd
<1>9. CASE terminate
  BY <1>9 DEF terminate
<1>10. CASE Signal
  BY <1>10 DEF Signal
<1>11. CASE ServerLoop
  BY <1>11 DEF ServerLoop
<1>12. CASE TCPSERVER_NewConnection
  <2>1. pc' = [pc EXCEPT !["server"] = pc'["server"]] /\ cancel' = cancel /\ sockNew' = sockNew /\ mine' = mine
    BY <1>12 DEF TCPSERVER_NewConnection
  <2>2. \A u \in Client : InControl(u)' <=> InControl(u)
    BY <2>1
  <2>3. \A f \in Fd : Open(f) => Open(f)' /\ f \notin FreshFd
    BY <1>12 DEF TCPSERVER_NewConnection, FreshFd
  <2>4. ControlOwnsSocket'
    BY <2>1, <2>2, <2>3
  <2>5. CASE pc'["server"] = "replace"
    <3>1. newSock' \in FreshFd /\ Open(newSock)'
      BY <1>12, <2>5 DEF TCPSERVER_NewConnection, FreshFd
    <3>2. \A u \in Client : InControl(u)' => newSock' # sockNew'
      BY <2>1, <2>2, <2>3, <3>1
    <3> QED
      BY <2>4, <2>5, <3>1, <3>2 DEF FreshFd
  <2>6. CASE pc'["server"] # "replace"
    BY <1>12, <2>4, <2>6 DEF TCPSERVER_NewConnection
  <2> QED
    BY <2>5, <2>6
<1>13. CASE Replace
  BY <1>13 DEF Replace
<1>14. CASE TryJoin
  BY <1>14 DEF TryJoin
<1>15. CASE PthreadCancel
  <2>1. \A t \in Client : pc'[t] = pc[t]
    BY <1>15 DEF PthreadCancel
  <2>2. \A t \in Client : InControl(t)' => InControl(t)
    BY <1>15, <2>1 DEF PthreadCancel
  <2>3. pc'["server"] \in {"cancel", "assign", "dead"}
    BY <1>15 DEF PthreadCancel
  <2> QED
    BY <1>15, <2>2, <2>3 DEF PthreadCancel
<1>16. CASE Assign
  BY <1>16 DEF Assign
<1>17. CASE Arm
  BY <1>17 DEF Arm
<1>18. CASE Stop
  BY <1>18 DEF Stop
<1>19. CASE JoinClient
  BY <1>19, ZenonT(40) DEF JoinClient
<1>20. CASE PthreadCreate
  <2>1. ASSUME NEW t \in Client, CreateClient(t) PROVE (ControlOwnsSocket /\ NewIsFresh)'
    <3>1. pc'["server"] = "loop" /\ \A u \in Client \ {t} : pc'[u] = pc[u]
      BY <2>1 DEF CreateClient
    <3> QED
      BY <1>20, <2>1, <3>1 DEF PthreadCreate, CreateClient
  <2>2. CASE CreateFails
    <3>1. pc'["server"] = "stop" /\ \A u \in Client : pc'[u] = pc[u]
      BY <2>2 DEF CreateFails
    <3> QED
      BY <1>20, <2>2, <3>1 DEF PthreadCreate, CreateFails
  <2> QED
    BY <1>20, <2>1, <2>2 DEF PthreadCreate
<1>21. ASSUME NEW t \in Client, ClientStep(t) PROVE (ControlOwnsSocket /\ NewIsFresh)'
  BY <1>21, ClientEffect DEF ClientLabel
<1>22. CASE \E f \in Fd : PeerResets(f)
  BY <1>22 DEF PeerResets
<1> QED
  BY <1>1, <1>2, <1>3, <1>4, <1>5, <1>6, <1>7, <1>8, <1>9, <1>10, <1>11, <1>12, <1>13, <1>14, <1>15, <1>16, <1>17, <1>18, <1>19, <1>20, <1>21, <1>22
     DEF Next, MainStep, HandlerStep, ServerStep, ClientStep, Environment

\* The inductive invariant holds when ds2d starts.
LEMMA InitIInv == Init => IInv
<1> SUFFICES ASSUME Init PROVE IInv
  OBVIOUS
<1>1. TypeOK
  BY InitTypeOK
<1>2. \A t \in Client : ~InControl(t)
  BY Labels DEF Init, InControl, Live, Thread
<1>3. pc["main"] = "init" /\ pc["server"] = "unborn"
  BY DEF Init, Thread
<1>4. mutex \notin Thread
  BY ConstantAssumption DEF Init, Thread
<1> QED
  BY <1>1, <1>2, <1>3, <1>4
     DEF Init, IInv, HandleIsControl, NobodyInControl, FlagCoversControl, ControlOwnsSocket,
         NewIsFresh, Connecting, ListeningSocket, ShutdownOrder, LateCount, HolderInPrint

\* Every step of ds2d keeps the inductive invariant.
LEMMA StepIInv == IInv /\ [Next]_vars => IInv'
BY StepTypeOK, StepLate, StepHolder, StepShutdown, StepControl, StepSocket DEF IInv

-----------------------------------------------------------------------------
(* The theorems. *)

\* Every reachable state satisfies the inductive invariant.
THEOREM Invariance == Spec => []IInv
BY InitIInv, StepIInv, PTL DEF Spec

\* Every variable keeps its type, and the server only ever hands over a real
\* descriptor (the test for -1 at remote.c:77).
THEOREM TypeCorrect == Spec => []TypeOK
<1>1. IInv => TypeOK
  BY DEF IInv
<1> QED
  BY <1>1, Invariance, PTL

\* However many connections replace each other, at most one REMOTE_Client
\* thread is in control.
THEOREM Exclusion == Spec => []OneInControl
<1>1. IInv => OneInControl
  BY DEF IInv, HandleIsControl, OneInControl
<1> QED
  BY <1>1, Invariance, PTL

\* The thread in control always finds its own, open connection in the shared
\* field REMOTE_ServerTCP.sockNew.
THEOREM Ownership == Spec => []ControlOwnsSocket
<1>1. IInv => ControlOwnsSocket
  BY DEF IInv
<1> QED
  BY <1>1, Invariance, PTL

\* A replaced client applies at most one command after its cancellation.
THEOREM BoundedLateness == Spec => []LateAtMostOnce
<1>1. IInv => LateAtMostOnce
  BY DEF IInv, LateCount, LateAtMostOnce
<1> QED
  BY <1>1, Invariance, PTL

\* When main returns, the server thread is gone, the listening socket closed
\* and nobody in control.
THEOREM OrderlyShutdown == Spec => []ShutdownComplete
<1>1. IInv => ShutdownComplete
  BY DEF IInv, ShutdownOrder, NobodyInControl, ShutdownComplete
<1> QED
  BY <1>1, Invariance, PTL

\* Whoever holds the debug mutex is printing.
THEOREM MutexDiscipline == Spec => []HolderInPrint
<1>1. IInv => HolderInPrint
  BY DEF IInv
<1> QED
  BY <1>1, Invariance, PTL

\* Only a client thread ends itself.
LEMMA EndsItself ==
  ASSUME IInv, [Next]_vars, NEW t \in Client, pc[t] = "close", pc'[t] = "zombie"
  PROVE  ClientStep(t)
<1> USE Labels DEF IInv, TypeOK, PcOK, Thread, At, Goto
<1>1. CASE UNCHANGED vars
  BY <1>1 DEF vars
<1>2. ASSUME NEW u \in Thread, DEBUG_Print(u) PROVE ClientStep(t)
  BY <1>2, PrintStep DEF LogLabel, ClientStep
<1>3. CASE MainLoop \/ REMOTE_Close \/ JoinServer \/ TCPSERVER_Disconnect \/ Exit \/ REMOTE_Init
  BY <1>3 DEF MainLoop, REMOTE_Close, JoinServer, TCPSERVER_Disconnect, Exit, REMOTE_Init
<1>4. CASE terminate \/ Signal \/ \E f \in Fd : PeerResets(f)
  BY <1>4 DEF terminate, Signal, PeerResets
<1>5. CASE ServerLoop \/ TCPSERVER_NewConnection \/ Replace \/ PthreadCancel \/ Assign \/ Arm \/ Stop
  BY <1>5 DEF ServerLoop, TCPSERVER_NewConnection, Replace, PthreadCancel, Assign, Arm, Stop
<1>6. CASE TryJoin
  BY <1>6 DEF TryJoin
<1>7. CASE JoinClient
  BY <1>7 DEF JoinClient
<1>8. CASE PthreadCreate
  BY <1>8 DEF PthreadCreate, CreateClient, CreateFails
<1>9. ASSUME NEW u \in Client, ClientStep(u) PROVE ClientStep(t)
  BY <1>9, ClientEffect
<1> QED
  BY <1>1, <1>2, <1>3, <1>4, <1>5, <1>6, <1>7, <1>8, <1>9
     DEF Next, MainStep, HandlerStep, ServerStep, Environment

\* A client thread that ends by itself closes its own connection and no other.
THEOREM ClosesOwnOnly == Spec => NoForeignClose
<1>1. IInv /\ [Next]_vars => [\A t \in Client : ClosesOwn(t)]_vars
  <2> SUFFICES ASSUME IInv, [Next]_vars, NEW t \in Client, pc[t] = "close", pc'[t] = "zombie",
                      NEW f \in Fd, Open(f), file'[f] = "free"
               PROVE  f = mine[t]
    BY DEF ClosesOwn
  <2>1. ClientStep(t) /\ TypeOK
    BY EndsItself DEF IInv
  <2>2. f = sockNew /\ ~cancel[t] /\ Live(t)
    BY <2>1, ClientEffect DEF Open, TypeOK
  <2> QED
    BY <2>2 DEF IInv, ControlOwnsSocket, InControl
<1> QED
  BY <1>1, Invariance, PTL DEF Spec, NoForeignClose

\* Nobody frees the slot of a cancelled client but the last join.
LEMMA StepSlot ==
  ASSUME IInv, CancelledKeepSlot, [Next]_vars
  PROVE  CancelledKeepSlot'
<1> USE Labels DEF IInv, TypeOK, PcOK, Thread, At, Goto, flags, sockets, threads, CancelledKeepSlot, Live
<1>1. CASE UNCHANGED vars
  BY <1>1 DEF vars
<1>2. ASSUME NEW t \in Thread, DEBUG_Print(t) PROVE CancelledKeepSlot'
  BY <1>2, PrintMoves, PrintStep
<1>3. CASE MainLoop
  BY <1>3 DEF MainLoop
<1>4. CASE REMOTE_Close
  BY <1>4 DEF REMOTE_Close
<1>5. CASE JoinServer
  BY <1>5 DEF JoinServer
<1>6. CASE TCPSERVER_Disconnect
  BY <1>6 DEF TCPSERVER_Disconnect
<1>7. CASE Exit
  BY <1>7 DEF Exit
<1>8. CASE REMOTE_Init
  <2>1. pc["server"] = "unborn"
    BY <1>8 DEF REMOTE_Init, ListeningSocket
  <2>2. \A t \in Client : ~cancel[t] \/ (pc[t] # "free" /\ t # threadClient)
    BY <2>1
  <2>3. UNCHANGED <<threadClient, cancel>> /\ \A t \in Client : pc'[t] = pc[t]
    BY <1>8 DEF REMOTE_Init
  <2> QED
    BY <2>2, <2>3
<1>9. CASE terminate
  BY <1>9 DEF terminate
<1>10. CASE Signal
  BY <1>10 DEF Signal
<1>11. CASE ServerLoop
  BY <1>11 DEF ServerLoop
<1>12. CASE TCPSERVER_NewConnection
  BY <1>12 DEF TCPSERVER_NewConnection
<1>13. CASE Replace
  BY <1>13 DEF Replace
<1>14. CASE TryJoin
  BY <1>14 DEF TryJoin
<1>15. CASE PthreadCancel
  BY <1>15 DEF PthreadCancel
<1>16. CASE Assign
  BY <1>16 DEF Assign
<1>17. CASE Arm
  BY <1>17 DEF Arm
<1>18. CASE Stop
  BY <1>18 DEF Stop
<1>19. CASE JoinClient
  BY <1>19 DEF JoinClient
<1>20. CASE PthreadCreate
  BY <1>20 DEF PthreadCreate, CreateClient, CreateFails
<1>21. ASSUME NEW t \in Client, ClientStep(t) PROVE CancelledKeepSlot'
  BY <1>21, ClientEffect DEF ClientLabel
<1>22. CASE \E f \in Fd : PeerResets(f)
  BY <1>22 DEF PeerResets
<1> QED
  BY <1>1, <1>2, <1>3, <1>4, <1>5, <1>6, <1>7, <1>8, <1>9, <1>10, <1>11, <1>12,
     <1>13, <1>14, <1>15, <1>16, <1>17, <1>18, <1>19, <1>20, <1>21, <1>22
     DEF Next, MainStep, HandlerStep, ServerStep, ClientStep, Environment

\* A client that ends has closed the connection in use or was cancelled.
LEMMA EndsOrCancelled ==
  ASSUME TypeOK, NEW t \in Client, ClientStep(t)
  PROVE  pc'[t] = "zombie" => \/ cancel[t]
                              \/ file' = [f \in Fd |-> IF f = sockNew THEN "free" ELSE file[f]]
<1> USE Labels DEF TypeOK, PcOK, Thread, AtClient, At, Goto
<1>1. CASE DEBUG_Print(t)
  <2>1. t \in Thread /\ pc[t] # "zombie"
    BY <1>1, PrintStep DEF LogLabel
  <2> QED
    BY <1>1, <2>1, PrintMoves
<1>2. CASE TCPSERVER_Send(t, "send1", "send2") \/ TCPSERVER_Send(t, "send2", "nap")
  BY <1>2 DEF TCPSERVER_Send
<1>3. CASE ClientLoop(t) \/ TCPSERVER_Receive(t) \/ Parse(t) \/ Pause(t) \/ Nap(t)
  BY <1>3 DEF ClientLoop, TCPSERVER_Receive, Parse, Pause, Nap
<1>4. CASE TCPSERVER_Close(t) \/ Cancelled(t)
  BY <1>4 DEF TCPSERVER_Close, Cancelled
<1> QED
  BY <1>1, <1>2, <1>3, <1>4 DEF ClientStep

\* Every step leaves an open connection to somebody, or to a cancelled client.
LEMMA StepLeak ==
  ASSUME IInv, CancelledKeepSlot, LeakOnlyByCancel, [Next]_vars
  PROVE  LeakOnlyByCancel'
<1> USE Labels DEF IInv, TypeOK, PcOK, Thread, At, Goto, flags, sockets, threads, LeakOnlyByCancel, Live, Open, Connecting
<1>1. CASE UNCHANGED vars
  BY <1>1 DEF vars
<1>2. ASSUME NEW t \in Thread, DEBUG_Print(t) PROVE LeakOnlyByCancel'
  BY <1>2, PrintMoves, PrintStep
<1>3. CASE MainLoop
  BY <1>3 DEF MainLoop
<1>4. CASE REMOTE_Close
  BY <1>4 DEF REMOTE_Close
<1>5. CASE JoinServer
  BY <1>5 DEF JoinServer
<1>6. CASE TCPSERVER_Disconnect
  BY <1>6 DEF TCPSERVER_Disconnect
<1>7. CASE Exit
  BY <1>7 DEF Exit
<1>8. CASE REMOTE_Init
  <2>1. UNCHANGED <<threadClient, cancel, mine, newSock>> /\ \A t \in Client : pc'[t] = pc[t]
    BY <1>8 DEF REMOTE_Init
  <2>2. pc["server"] = "unborn"
    BY <1>8 DEF REMOTE_Init, ListeningSocket
  <2>3. \A f \in Fd : Open(f)' => Open(f)
    BY <1>8 DEF REMOTE_Init, FreshFd
  <2> QED
    BY <2>1, <2>2, <2>3
<1>9. CASE terminate
  BY <1>9 DEF terminate
<1>10. CASE Signal
  BY <1>10 DEF Signal
<1>11. CASE ServerLoop
  BY <1>11 DEF ServerLoop
<1>12. CASE TCPSERVER_NewConnection
  <2>1. UNCHANGED <<threadClient, cancel, mine>> /\ \A t \in Client : pc'[t] = pc[t]
    BY <1>12 DEF TCPSERVER_NewConnection
  <2>2. pc["server"] = "accept"
    BY <1>12 DEF TCPSERVER_NewConnection
  <2>3. \A f \in Fd : Open(f)' => Open(f) \/ (f = newSock' /\ pc'["server"] = "replace")
    BY <1>12 DEF TCPSERVER_NewConnection, FreshFd
  <2> QED
    BY <2>1, <2>2, <2>3
<1>13. CASE Replace
  BY <1>13 DEF Replace
<1>14. CASE TryJoin
  <2>1. UNCHANGED <<file, newSock, threadClient, cancel, mine>>
    BY <1>14 DEF TryJoin
  <2>2. pc["server"] = "tryjoin" /\ pc'["server"] = "connlog"
    BY <1>14 DEF TryJoin
  <2>3. \A t \in Client : Live(t) => Live(t)'
    BY <1>14 DEF TryJoin
  <2> QED
    BY <2>1, <2>2, <2>3
<1>15. CASE PthreadCancel
  <2>1. UNCHANGED <<file, newSock, threadClient, mine>> /\ \A t \in Client : pc'[t] = pc[t]
    BY <1>15 DEF PthreadCancel
  <2>2. \A t \in Client : cancel[t] => cancel'[t]
    BY <1>15 DEF PthreadCancel
  <2>3. pc["server"] = "cancel"
    BY <1>15 DEF PthreadCancel
  <2>4. pc'["server"] \in {"cancel", "assign"} \/ (pc'["server"] = "dead" /\ threadClient = "self")
    BY <1>15 DEF PthreadCancel
  <2> QED
    BY <2>1, <2>2, <2>3, <2>4
<1>16. CASE Assign
  BY <1>16 DEF Assign
<1>17. CASE Arm
  BY <1>17 DEF Arm
<1>18. CASE Stop
  BY <1>18 DEF Stop
<1>19. CASE JoinClient
  BY <1>19 DEF JoinClient
<1>20. CASE PthreadCreate
  <2>1. pc["server"] = "create" /\ newSock' = newSock
    BY <1>20 DEF PthreadCreate
  <2>2. ASSUME NEW t \in Client, CreateClient(t) PROVE LeakOnlyByCancel'
    <3>1. ~Live(t) /\ ~cancel[t]
      BY <2>1, <2>2 DEF CreateClient, CancelledKeepSlot
    <3>2. file' = file /\ mine'[t] = newSock /\ pc'[t] = "loop"
      BY <2>2 DEF CreateClient
    <3>3. \A u \in Client \ {t} : pc'[u] = pc[u] /\ cancel'[u] = cancel[u] /\ mine'[u] = mine[u]
      BY <2>2 DEF CreateClient
    <3> QED
      BY <2>1, <3>1, <3>2, <3>3
  <2>3. CASE CreateFails
    <3>1. UNCHANGED <<threadClient, cancel, mine>> /\ \A t \in Client : pc'[t] = pc[t]
      BY <2>3 DEF CreateFails
    <3>2. \A f \in Fd : Open(f)' => Open(f) /\ f # newSock
      BY <2>1, <2>3 DEF CreateFails
    <3> QED
      BY <2>1, <3>1, <3>2
  <2> QED
    BY <1>20, <2>2, <2>3 DEF PthreadCreate
<1>21. ASSUME NEW t \in Client, ClientStep(t) PROVE LeakOnlyByCancel'
  BY <1>21, ClientEffect, EndsOrCancelled DEF ClientLabel, ControlOwnsSocket, InControl
<1>22. CASE \E f \in Fd : PeerResets(f)
  BY <1>22 DEF PeerResets
<1> QED
  BY <1>1, <1>2, <1>3, <1>4, <1>5, <1>6, <1>7, <1>8, <1>9, <1>10, <1>11, <1>12,
     <1>13, <1>14, <1>15, <1>16, <1>17, <1>18, <1>19, <1>20, <1>21, <1>22
     DEF Next, MainStep, HandlerStep, ServerStep, ClientStep, Environment

\* REMOTE_Server leaks the connection of a client it cancels, and no other.
THEOREM LeaksOnlyByCancel == Spec => []LeakOnlyByCancel
<1>1. Init => ConnectionInv
  BY DEF Init, ConnectionInv, CancelledKeepSlot, LeakOnlyByCancel, Open
<1>2. IInv /\ ConnectionInv /\ [Next]_vars => ConnectionInv'
  BY StepSlot, StepLeak DEF ConnectionInv
<1>3. ConnectionInv => LeakOnlyByCancel
  BY DEF ConnectionInv
<1> QED
  BY <1>1, <1>2, <1>3, Invariance, PTL DEF Spec

-----------------------------------------------------------------------------
(* Remote implements Control. *)

Closing == {"stop", "join", "stoplog", "dead"}

\* A step of Remote that Control does not see.
LEMMA Unseen ==
  ASSUME proc' = proc, sockNew' = sockNew,
         \A t \in Client : InControl(t)' <=> InControl(t),
         pc'["server"] \in Closing <=> pc["server"] \in Closing
  PROVE  UNCHANGED Abstract!vars
<1>1. Holders' = Holders
  BY DEF Holders
<1>2. Status' = Status
  BY DEF Status, Closing
<1> QED
  BY <1>1, <1>2 DEF Abstract!vars

\* When ds2d starts, nobody is in control and no connection has been granted.
LEMMA InitControl == Init => Abstract!Init
<1> SUFFICES ASSUME Init PROVE Abstract!Init
  OBVIOUS
<1>1. \A t \in Client : ~InControl(t)
  BY Labels DEF Init, InControl, Live, Thread
<1> QED
  BY <1>1, ConstantAssumption DEF Init, Abstract!Init, Holders, Status, Thread

\* Every step of ds2d is a step of Control, or one that Control does not see.
LEMMA StepControlSpec == IInv /\ [Next]_vars => [Abstract!Next]_(Abstract!vars)
<1> SUFFICES ASSUME IInv, [Next]_vars PROVE Abstract!Next \/ UNCHANGED Abstract!vars
  BY DEF Abstract!vars
<1> USE Labels DEF IInv, TypeOK, PcOK, Thread, At, Goto, flags, sockets, threads, Closing
<1>1. CASE UNCHANGED vars
  BY <1>1, Unseen DEF vars, InControl, Live
<1>2. ASSUME NEW t \in Thread, DEBUG_Print(t) PROVE UNCHANGED Abstract!vars
  <2>1. \A u \in Client : InControl(u)' <=> InControl(u)
    BY <1>2, PrintStep, PrintMoves DEF InControl, Live
  <2>2. pc'["server"] \in Closing <=> pc["server"] \in Closing
    BY <1>2, PrintMoves
  <2> QED
    BY <1>2, <2>1, <2>2, PrintStep, Unseen
<1>3. CASE MainLoop \/ REMOTE_Close \/ JoinServer \/ TCPSERVER_Disconnect \/ terminate \/ Signal
  BY <1>3, Unseen DEF MainLoop, REMOTE_Close, JoinServer, TCPSERVER_Disconnect, terminate, Signal,
       InControl, Live
<1>4. CASE \E f \in Fd : PeerResets(f)
  BY <1>4, Unseen DEF PeerResets, InControl, Live
<1>5. CASE Replace \/ Arm \/ TCPSERVER_NewConnection
  BY <1>5, Unseen DEF Replace, Arm, TCPSERVER_NewConnection, InControl, Live
<1>6. CASE TryJoin
  BY <1>6, Unseen DEF TryJoin, InControl, Live
<1>7. CASE Stop \/ JoinClient
  BY <1>7, Unseen DEF Stop, JoinClient, InControl, Live
<1>8. CASE REMOTE_Init
  <2>1. CASE proc' = proc
    BY <1>8, <2>1, Unseen DEF REMOTE_Init, InControl, Live, ListeningSocket
  <2>2. CASE proc' = "failed"
    BY <1>8, <2>2 DEF REMOTE_Init, ListeningSocket, Status, Holders, Abstract!Next, Abstract!Abort
  <2> QED
    BY <1>8, <2>1, <2>2 DEF REMOTE_Init
<1>9. CASE Exit
  <2>1. Holders = {} /\ Status = "closing"
    BY <1>9 DEF Exit, ShutdownOrder, NobodyInControl, Holders, Status
  <2>2. Holders' = {} /\ Status' = "exited"
    BY <1>9 DEF Exit, ShutdownOrder, NobodyInControl, Holders, Status, InControl, Live
  <2> QED
    BY <1>9, <2>1, <2>2 DEF Exit, Abstract!Next, Abstract!Exit
<1>10. CASE ServerLoop
  <2>1. Holders' = Holders
    BY <1>10 DEF ServerLoop, Holders, InControl, Live
  <2> QED
    BY <1>10, <2>1 DEF ServerLoop, Status, Abstract!Next, Abstract!Close, Abstract!vars
<1>11. CASE Assign
  <2>1. Holders = {} /\ Holders' = {} /\ Status = "serving" /\ Status' = "serving"
    BY <1>11 DEF Assign, NobodyInControl, Holders, Status, InControl, Live
  <2>2. sockNew' \in Fd
    BY <1>11 DEF Assign, Connecting
  <2> QED
    BY <2>1, <2>2 DEF Abstract!Next, Abstract!Select
<1>12. CASE PthreadCancel
  <2>1. CASE proc' = "crashed"
    BY <1>12, <2>1 DEF PthreadCancel, Status, Holders, Abstract!Next, Abstract!Abort
  <2>2. \A t \in Client : pc'[t] = pc[t]
    BY <1>12 DEF PthreadCancel
  <2>3. CASE proc' = proc /\ threadClient \in Client
    <3>1. cancel' = [cancel EXCEPT ![threadClient] = @ \/ Live(threadClient)]
      BY <1>12, <2>3, ConstantAssumption DEF PthreadCancel, GarbageKind
    <3>2. \A t \in Client : ~InControl(t)'
      BY <2>2, <2>3, <3>1 DEF InControl, Live, HandleIsControl
    <3>3. pc'["server"] = "assign"
      BY <1>12, <2>3, ConstantAssumption DEF PthreadCancel, GarbageKind
    <3>4. Holders' = {} /\ Status' = "serving" /\ Status = "serving"
      BY <1>12, <2>3, <3>2, <3>3 DEF PthreadCancel, Holders, Status
    <3> QED
      BY <1>12, <3>4 DEF PthreadCancel, Abstract!Next, Abstract!Release, Abstract!vars
  <2>4. CASE proc' = proc /\ threadClient \notin Client
    <3>1. cancel' = cancel
      BY <1>12, <2>4 DEF PthreadCancel
    <3>2. \A t \in Client : ~InControl(t) /\ ~InControl(t)'
      BY <2>2, <2>4, <3>1 DEF InControl, Live, HandleIsControl
    <3>3. Holders = {} /\ Holders' = {}
      BY <3>2 DEF Holders
    <3> QED
      BY <1>12, <2>4, <3>3 DEF PthreadCancel, Status, Abstract!Next, Abstract!Close, Abstract!vars
  <2> QED
    BY <1>12, <2>1, <2>3, <2>4 DEF PthreadCancel
<1>13. CASE PthreadCreate
  <2>1. Holders = {} /\ Status = "serving"
    BY <1>13 DEF PthreadCreate, NobodyInControl, Holders, Status
  <2>2. ASSUME NEW t \in Client, CreateClient(t) PROVE Abstract!Next
    <3>1. pc'["server"] = "loop" /\ pc'[t] = "loop" /\ \A u \in Client \ {t} : pc'[u] = pc[u]
      BY <2>2 DEF CreateClient
    <3>2. Holders' = {t} /\ Status' = "serving"
      BY <1>13, <2>1, <2>2, <3>1 DEF PthreadCreate, CreateClient, Holders, Status, InControl, Live
    <3>3. sockNew \in Fd
      BY <1>13 DEF PthreadCreate, NewIsFresh, Connecting
    <3> QED
      BY <1>13, <2>1, <3>2, <3>3 DEF PthreadCreate, Abstract!Next, Abstract!Grant
  <2>3. CASE CreateFails
    <3>1. Holders' = {} /\ Status' = "closing"
      BY <1>13, <2>1, <2>3 DEF PthreadCreate, CreateFails, Holders, Status, InControl, Live
    <3> QED
      BY <1>13, <2>1, <3>1 DEF PthreadCreate, Abstract!Next, Abstract!Close
  <2> QED
    BY <1>13, <2>2, <2>3 DEF PthreadCreate
<1>14. ASSUME NEW t \in Client, ClientStep(t) PROVE Abstract!Next \/ UNCHANGED Abstract!vars
  <2>1. /\ proc = "running" /\ sockNew' = sockNew /\ cancel' = cancel
        /\ pc'["server"] = pc["server"] /\ \A u \in Client \ {t} : pc'[u] = pc[u]
        /\ InControl(t)' => InControl(t)
    BY <1>14, ClientEffect DEF InControl
  <2>2. CASE proc' = "killed"
    BY <2>1, <2>2 DEF Status, Holders, Abstract!Next, Abstract!Abort
  <2>3. CASE proc' = proc /\ (InControl(t)' <=> InControl(t))
    BY <2>1, <2>3, Unseen DEF InControl, Live
  <2>4. CASE proc' = proc /\ InControl(t) /\ ~InControl(t)'
    <3>1. Holders # {} /\ Holders' = {} /\ Status' = Status
      BY <2>1, <2>4 DEF Holders, Status, HandleIsControl, InControl, Live
    <3> QED
      BY <2>1, <3>1 DEF Abstract!Next, Abstract!Release
  <2> QED
    BY <1>14, <2>1, <2>2, <2>3, <2>4, ClientEffect
<1> QED
  BY <1>1, <1>2, <1>3, <1>4, <1>5, <1>6, <1>7, <1>8, <1>9, <1>10, <1>11, <1>12, <1>13, <1>14
     DEF Next, MainStep, HandlerStep, ServerStep, Environment

\* Seen through the refinement mapping, the service grants control to one
\* client at a time, selects connections only while nobody has it, grants none
\* once it is closing and exits with nobody in control.
THEOREM Refinement == Spec => ImplementsControl
<1>1. Spec => Abstract!Init /\ [][Abstract!Next]_(Abstract!vars)
  BY InitControl, StepControlSpec, Invariance, PTL DEF Spec
<1> QED
  BY <1>1 DEF ImplementsControl, Abstract!Spec
=============================================================================
