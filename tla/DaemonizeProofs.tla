-------------------------- MODULE DaemonizeProofs --------------------------
(* Theorems about Daemonize, for any launches and process numbers. *)
EXTENDS Daemonize, FiniteSetTheorems, TLAPS

\* At most one process listens.
OneListener == \A p, q \in port : p = q

\* A launcher has no daemon before it forks one, and from then on it, and what it
\* leaves to its daemon, is trapped; only then can its alarm go off.
TrappedInTime ==
  \A l \in Launch :
    /\ pc[Launcher(l)] \in {"prepare", "fork"} => pc[Daemon(l)] = "none"
    /\ pc[Launcher(l)] \in {"fork", "alarm", "pause"} => Launcher(l) \in trapped
    /\ pc[Daemon(l)] \in {"getppid", "setsid", "chdir", "confirm"} => Launcher(l) \in trapped
    /\ l \in timer \/ "ALRM" \in pending[Launcher(l)] => Launcher(l) \in trapped

\* Every SIGUSR1 comes from a daemon, which a launcher that was ready has forked.
Confirmed ==
  /\ \A p \in Proc : "USR1" \in pending[p] => \E l \in Launch : <<l, p>> \in sent
  /\ \A l \in Launch : \A p \in Proc \cup {InitProc} :
       <<l, p>> \in sent => pc[Daemon(l)] # "none" /\ Launcher(l) \in trapped

\* Whom a daemon will confirm to is its launcher, for as long as that lives.
TargetIsParent ==
  \A l \in Launch :
    pc[Daemon(l)] \in {"setsid", "chdir", "confirm"} /\ Alive(Launcher(l)) =>
      target[l] = pid[Launcher(l)]

\* The inductive invariant of Daemonize.
IInv ==
  /\ TypeOK
  /\ OneListener
  /\ TrappedInTime
  /\ Confirmed
  /\ TargetIsParent
  /\ SuccessConfirmed
  /\ MissesOnlyEnded
  /\ AlwaysReports
  /\ NeverStranded

\* The calls that a daemon cannot do without, and the next thing after each.
Follows(from, to) ==
  \/ from = "setsid" /\ to = "chdir"
  \/ from = "chdir" /\ to = "confirm"
  \/ from = "config" /\ to = "remote"

-----------------------------------------------------------------------------
\* A launch has two processes, which no other launch has.
LEMMA Procs ==
  /\ \A l \in Launch : Launcher(l) \in Proc /\ Daemon(l) \in Proc
  /\ \A k, l : Launcher(k) # Daemon(l)
  /\ \A k, l : Launcher(k) = Launcher(l) => k = l
  /\ \A k, l : Daemon(k) = Daemon(l) => k = l
  /\ \A p \in Proc : \E l \in Launch : p = Launcher(l) \/ p = Daemon(l)
  /\ \A l : /\ Launcher(l)[1] = l /\ Launcher(l)[2] = "launcher"
            /\ Daemon(l)[1] = l /\ Daemon(l)[2] = "daemon"
  /\ InitProc \notin Proc
BY DEF Launcher, Daemon, Proc, InitProc

\* The numbers of init and of nobody are not those of a process.
LEMMA Numbers == InitPid \notin Pid /\ NoPid \notin Pid /\ InitPid # NoPid
BY PidAssumption

\* The numbers are those of the machine, and each process has its own.
Numbered ==
  /\ pid \in [Proc -> Pid \cup {NoPid}]
  /\ target \in [Launch -> Pid \cup {InitPid, NoPid}]
  /\ \A p \in Proc : pid[p] = NoPid <=> pc[p] \in {"none", "gone"}
  /\ \A p, q \in Proc : pid[p] = pid[q] => p = q \/ pid[p] = NoPid

\* Every step keeps the types of what is not a number.
LEMMA PlainTypes ==
  ASSUME TypeOK, [Next]_vars
  PROVE  /\ pc' \in [Proc -> {"none", "prepare", "fork", "alarm", "pause", "getppid", "setsid", "chdir",
                              "confirm", "config", "remote", "run", "exiting", "zombie", "gone"}]
         /\ status' \in [Proc -> {"none", "success", "failure", "killed", "interrupted"}]
         /\ trapped' \subseteq Proc /\ timer' \subseteq Launch
         /\ pending' \in [Proc -> SUBSET Signal] /\ handled' \in [Proc -> SUBSET Signal]
         /\ port' \subseteq Proc /\ sent' \subseteq Launch \X (Proc \cup {InitProc})
<1> DEFINE Plain ==
      /\ pc \in [Proc -> {"none", "prepare", "fork", "alarm", "pause", "getppid", "setsid", "chdir",
                              "confirm", "config", "remote", "run", "exiting", "zombie", "gone"}]
      /\ status \in [Proc -> {"none", "success", "failure", "killed", "interrupted"}]
      /\ trapped \subseteq Proc /\ timer \subseteq Launch
      /\ pending \in [Proc -> SUBSET Signal] /\ handled \in [Proc -> SUBSET Signal]
      /\ port \subseteq Proc /\ sent \subseteq Launch \X (Proc \cup {InitProc})
<1>0. Plain
  BY DEF TypeOK
<1> SUFFICES Plain'
  OBVIOUS
<1> USE <1>0, Procs DEF signals, Signal
<1>1. ASSUME NEW l \in Launch, Start(l) PROVE Plain'
  BY <1>1 DEF Start, Goto
<1>2. ASSUME NEW l \in Launch, Prepare(l) PROVE Plain'
  BY <1>2 DEF Prepare, Goto, Exit
<1>3. ASSUME NEW l \in Launch, Fork(l) PROVE Plain'
  BY <1>3 DEF Fork, Exit
<1>4. ASSUME NEW l \in Launch, Alarm(l) PROVE Plain'
  BY <1>4 DEF Alarm, Goto
<1>5. ASSUME NEW l \in Launch, GetParent(l) PROVE Plain'
  BY <1>5 DEF GetParent, Goto
<1>6. ASSUME NEW l \in Launch, NEW from, NEW to, Follows(from, to), Needs(l, from, to)
      PROVE  Plain'
  BY <1>6 DEF Needs, Goto, Exit, Follows
<1>7. ASSUME NEW l \in Launch, Confirm(l) PROVE Plain'
  BY <1>7 DEF Confirm, Goto
<1>8. ASSUME NEW l \in Launch, REMOTE_Init(l) PROVE Plain'
  <2>1. port' \subseteq Proc
    BY <1>8 DEF REMOTE_Init
  <2>2. CASE Goto(Daemon(l), "remote", "run") /\ UNCHANGED status
    BY <1>8, <2>1, <2>2 DEF REMOTE_Init, Goto
  <2>3. CASE Exit(Daemon(l), "failure")
    BY <1>8, <2>1, <2>3 DEF REMOTE_Init, Exit
  <2> QED
    BY <1>8, <2>2, <2>3 DEF REMOTE_Init
<1>9. ASSUME NEW l \in Launch, Terminated(l) PROVE Plain'
  <2>1. CASE /\ Exit(Daemon(l), "success") /\ port' = {}
             /\ UNCHANGED <<pid, signals, target, sent>>
    BY <2>1 DEF Exit
  <2>2. CASE /\ Dies(Daemon(l)) /\ status' = [status EXCEPT ![Daemon(l)] = "killed"]
             /\ UNCHANGED <<pid, trapped, handled, timer, target, sent>>
    BY <2>2 DEF Dies
  <2> QED
    BY <1>9, <2>1, <2>2 DEF Terminated
<1>10. ASSUME NEW p \in Proc, NEW s \in Signal, DAEMONIZE_ChildHandler(p, s) PROVE Plain'
  BY <1>10 DEF DAEMONIZE_ChildHandler, Exit, ExitCode
<1>11. ASSUME NEW p \in Proc, DefaultAction(p) PROVE Plain'
  BY <1>11 DEF DefaultAction, Dies
<1>12. ASSUME NEW l \in Launch, TimerFires(l) PROVE Plain'
  BY <1>12 DEF TimerFires
<1>13. ASSUME NEW p \in Proc, Finish(p) PROVE Plain'
  BY <1>13 DEF Finish, Dies
<1>14. ASSUME NEW l \in Launch, Interrupted(l) PROVE Plain'
  BY <1>14 DEF Interrupted
<1>15. ASSUME NEW p \in Proc, Reap(p) PROVE Plain'
  BY <1>15 DEF Reap
<1>16. CASE UNCHANGED vars
  BY <1>16 DEF vars
<1> QED
  BY <1>1, <1>2, <1>3, <1>4, <1>5, <1>6, <1>7, <1>8, <1>9, <1>10, <1>11, <1>12, <1>13, <1>14, <1>15,
     <1>16 DEF Next, LauncherStep, DaemonStep, CONFIG_Init, Follows

\* A process has a number of its own as long as it exists.
LEMMA NumbersStep ==
  ASSUME TypeOK, TrappedInTime, [Next]_vars
  PROVE  Numbered'
<1> USE Procs, Numbers DEF signals, Signal, Numbered, Free, Alive, TrappedInTime, TypeOK
<1>1. ASSUME NEW l \in Launch, Start(l) PROVE Numbered'
  <2>0. UNCHANGED target
    BY <1>1 DEF Start
  <2> SUFFICES ASSUME NEW n \in Free, NEW q \in {Launcher(l), Daemon(l)}, NEW to \in {"prepare", "config"},
                      Goto(q, "none", to), pid' = [pid EXCEPT ![q] = n]
               PROVE  Numbered'
    BY <1>1 DEF Start
  <2>1. n \in Pid /\ n # NoPid /\ \A p \in Proc : pid[p] # n
    OBVIOUS
  <2>2. q \in Proc /\ pid'[q] = n /\ pc'[q] = to
    BY DEF Goto
  <2>3. \A p \in Proc : p # q => pid'[p] = pid[p] /\ pc'[p] = pc[p]
    BY DEF Goto
  <2> QED
    BY <2>0, <2>1, <2>2, <2>3
<1>2. ASSUME NEW l \in Launch, Prepare(l) PROVE Numbered'
  <2>1. CASE Goto(Launcher(l), "prepare", "fork") /\ UNCHANGED status
    BY <1>2, <2>1 DEF Prepare, Goto
  <2>2. CASE Exit(Launcher(l), "failure")
    BY <1>2, <2>2 DEF Prepare, Exit
  <2> QED
    BY <1>2, <2>1, <2>2 DEF Prepare
<1>3. ASSUME NEW l \in Launch, Fork(l) PROVE Numbered'
  <2>0. UNCHANGED target /\ pc[Launcher(l)] = "fork" /\ pc[Daemon(l)] = "none"
    BY <1>3 DEF Fork
  <2>1. CASE Exit(Launcher(l), "failure") /\ UNCHANGED <<pid, trapped>>
    BY <2>0, <2>1 DEF Exit
  <2>2. ASSUME NEW n \in Free,
               pc' = [pc EXCEPT ![Launcher(l)] = "alarm", ![Daemon(l)] = "getppid"],
               pid' = [pid EXCEPT ![Daemon(l)] = n]
        PROVE  Numbered'
    <3>1. n \in Pid /\ n # NoPid /\ \A p \in Proc : pid[p] # n
      OBVIOUS
    <3>2. pid'[Daemon(l)] = n /\ pc'[Daemon(l)] = "getppid" /\ pc'[Launcher(l)] = "alarm"
      BY <2>2
    <3>3. \A p \in Proc : p # Daemon(l) => /\ pid'[p] = pid[p]
                                           /\ p # Launcher(l) => pc'[p] = pc[p]
      BY <2>2
    <3> QED
      BY <2>0, <2>2, <3>1, <3>2, <3>3
  <2> QED
    BY <1>3, <2>1, <2>2 DEF Fork
<1>4. ASSUME NEW l \in Launch, Alarm(l) PROVE Numbered'
  BY <1>4 DEF Alarm, Goto
<1>5. ASSUME NEW l \in Launch, GetParent(l) PROVE Numbered'
  BY <1>5 DEF GetParent, Goto
<1>6. ASSUME NEW l \in Launch, NEW from, NEW to, Follows(from, to), Needs(l, from, to)
      PROVE  Numbered'
  <2>1. CASE Goto(Daemon(l), from, to) /\ UNCHANGED status
    BY <1>6, <2>1 DEF Needs, Goto, Follows
  <2>2. CASE Exit(Daemon(l), "failure")
    BY <1>6, <2>2 DEF Needs, Exit, Follows
  <2> QED
    BY <1>6, <2>1, <2>2 DEF Needs
<1>7. ASSUME NEW l \in Launch, Confirm(l) PROVE Numbered'
  BY <1>7 DEF Confirm, Goto
<1>8. ASSUME NEW l \in Launch, REMOTE_Init(l) PROVE Numbered'
  <2>1. CASE Goto(Daemon(l), "remote", "run") /\ UNCHANGED status
    BY <1>8, <2>1 DEF REMOTE_Init, Goto
  <2>2. CASE Exit(Daemon(l), "failure")
    BY <1>8, <2>2 DEF REMOTE_Init, Exit
  <2> QED
    BY <1>8, <2>1, <2>2 DEF REMOTE_Init
<1>9. ASSUME NEW l \in Launch, Terminated(l) PROVE Numbered'
  BY <1>9 DEF Terminated, Exit, Dies
<1>10. ASSUME NEW p \in Proc, NEW s \in Signal, DAEMONIZE_ChildHandler(p, s) PROVE Numbered'
  BY <1>10 DEF DAEMONIZE_ChildHandler, Exit, ExitCode
<1>11. ASSUME NEW p \in Proc, DefaultAction(p) PROVE Numbered'
  BY <1>11 DEF DefaultAction, Dies
<1>12. ASSUME NEW l \in Launch, TimerFires(l) PROVE Numbered'
  BY <1>12 DEF TimerFires
<1>13. ASSUME NEW p \in Proc, Finish(p) PROVE Numbered'
  BY <1>13 DEF Finish, Dies
<1>14. ASSUME NEW l \in Launch, Interrupted(l) PROVE Numbered'
  BY <1>14 DEF Interrupted
<1>15. ASSUME NEW p \in Proc, Reap(p) PROVE Numbered'
  BY <1>15 DEF Reap
<1>16. CASE UNCHANGED vars
  BY <1>16 DEF vars
<1> QED
  BY <1>1, <1>2, <1>3, <1>4, <1>5, <1>6, <1>7, <1>8, <1>9, <1>10, <1>11,
     <1>12, <1>13, <1>14, <1>15, <1>16
     DEF Next, LauncherStep, DaemonStep, CONFIG_Init, Follows, Signal

\* REMOTE_Init opens the port only where nobody listens.
LEMMA ListenerStep ==
  ASSUME TypeOK, OneListener, [Next]_vars
  PROVE  OneListener'
<1> USE Procs DEF signals, OneListener
<1>1. ASSUME NEW l \in Launch, Start(l) PROVE OneListener'
  BY <1>1 DEF Start, Goto
<1>2. ASSUME NEW l \in Launch, Prepare(l) PROVE OneListener'
  BY <1>2 DEF Prepare, Goto, Exit
<1>3. ASSUME NEW l \in Launch, Fork(l) PROVE OneListener'
  BY <1>3 DEF Fork, Exit
<1>4. ASSUME NEW l \in Launch, Alarm(l) PROVE OneListener'
  BY <1>4 DEF Alarm, Goto
<1>5. ASSUME NEW l \in Launch, GetParent(l) PROVE OneListener'
  BY <1>5 DEF GetParent, Goto
<1>6. ASSUME NEW l \in Launch, NEW from, NEW to, Follows(from, to), Needs(l, from, to)
      PROVE  OneListener'
  BY <1>6 DEF Needs, Goto, Exit, Follows
<1>7. ASSUME NEW l \in Launch, Confirm(l) PROVE OneListener'
  BY <1>7 DEF Confirm, Goto
<1>8. ASSUME NEW l \in Launch, REMOTE_Init(l) PROVE OneListener'
  BY <1>8 DEF REMOTE_Init, Goto, Exit
<1>9. ASSUME NEW l \in Launch, Terminated(l) PROVE OneListener'
  BY <1>9 DEF Terminated, Exit, Dies
<1>10. ASSUME NEW p \in Proc, NEW s \in Signal, DAEMONIZE_ChildHandler(p, s) PROVE OneListener'
  BY <1>10 DEF DAEMONIZE_ChildHandler, Exit, ExitCode
<1>11. ASSUME NEW p \in Proc, DefaultAction(p) PROVE OneListener'
  BY <1>11 DEF DefaultAction, Dies
<1>12. ASSUME NEW l \in Launch, TimerFires(l) PROVE OneListener'
  BY <1>12 DEF TimerFires
<1>13. ASSUME NEW p \in Proc, Finish(p) PROVE OneListener'
  BY <1>13 DEF Finish, Dies
<1>14. ASSUME NEW l \in Launch, Interrupted(l) PROVE OneListener'
  BY <1>14 DEF Interrupted
<1>15. ASSUME NEW p \in Proc, Reap(p) PROVE OneListener'
  BY <1>15 DEF Reap
<1>16. CASE UNCHANGED vars
  BY <1>16 DEF vars
<1> QED
  BY <1>1, <1>2, <1>3, <1>4, <1>5, <1>6, <1>7, <1>8, <1>9, <1>10, <1>11,
     <1>12, <1>13, <1>14, <1>15, <1>16
     DEF Next, LauncherStep, DaemonStep, CONFIG_Init, Follows, Signal

\* What the variables are functions of.
LEMMA Domains ==
  ASSUME TypeOK
  PROVE  /\ DOMAIN pc = Proc /\ pc = [p \in Proc |-> pc[p]]
         /\ DOMAIN status = Proc /\ status = [p \in Proc |-> status[p]]
         /\ DOMAIN pending = Proc /\ pending = [p \in Proc |-> pending[p]]
BY DEF TypeOK

\* Only Confirm sends SIGUSR1, to whoever has the number; nothing that was sent is
\* taken back.
LEMMA SentSource ==
  ASSUME TypeOK, [Next]_vars
  PROVE  /\ sent \subseteq sent'
         /\ \A p \in Proc : "USR1" \in pending'[p] /\ "USR1" \notin pending[p] =>
              \E l \in Launch : <<l, p>> \in sent'
         /\ \A l, p : <<l, p>> \in sent' /\ <<l, p>> \notin sent =>
              /\ pc[Daemon(l)] = "confirm" /\ pc'[Daemon(l)] # "none"
              /\ \/ p \in Proc /\ pid[p] = target[l]
                 \/ p = InitProc /\ target[l] = InitPid
<1> DEFINE Goal ==
      /\ sent \subseteq sent'
      /\ \A p \in Proc : "USR1" \in pending'[p] /\ "USR1" \notin pending[p] =>
           \E l \in Launch : <<l, p>> \in sent'
      /\ \A l, p : <<l, p>> \in sent' /\ <<l, p>> \notin sent =>
           /\ pc[Daemon(l)] = "confirm" /\ pc'[Daemon(l)] # "none"
           /\ \/ p \in Proc /\ pid[p] = target[l]
              \/ p = InitProc /\ target[l] = InitPid
<1> SUFFICES Goal
  OBVIOUS
<1> USE Procs, Domains DEF signals, Signal
<1>1. ASSUME NEW l \in Launch, Start(l) PROVE Goal
  BY <1>1 DEF Start, Goto
<1>2. ASSUME NEW l \in Launch, Prepare(l) PROVE Goal
  BY <1>2 DEF Prepare, Goto, Exit
<1>3. ASSUME NEW l \in Launch, Fork(l) PROVE Goal
  BY <1>3 DEF Fork, Exit
<1>4. ASSUME NEW l \in Launch, Alarm(l) PROVE Goal
  BY <1>4 DEF Alarm, Goto
<1>5. ASSUME NEW l \in Launch, GetParent(l) PROVE Goal
  BY <1>5 DEF GetParent, Goto
<1>6. ASSUME NEW l \in Launch, NEW from, NEW to, Follows(from, to), Needs(l, from, to)
      PROVE  Goal
  BY <1>6 DEF Needs, Goto, Exit, Follows
<1>7. ASSUME NEW l \in Launch, Confirm(l) PROVE Goal
  BY <1>7 DEF Confirm, Goto
<1>8. ASSUME NEW l \in Launch, REMOTE_Init(l) PROVE Goal
  BY <1>8 DEF REMOTE_Init, Goto, Exit
<1>9. ASSUME NEW l \in Launch, Terminated(l) PROVE Goal
  BY <1>9 DEF Terminated, Exit, Dies
<1>10. ASSUME NEW p \in Proc, NEW s \in Signal, DAEMONIZE_ChildHandler(p, s) PROVE Goal
  BY <1>10 DEF DAEMONIZE_ChildHandler, Exit, ExitCode
<1>11. ASSUME NEW p \in Proc, DefaultAction(p) PROVE Goal
  BY <1>11 DEF DefaultAction, Dies
<1>12. ASSUME NEW l \in Launch, TimerFires(l) PROVE Goal
  BY <1>12 DEF TimerFires
<1>13. ASSUME NEW p \in Proc, Finish(p) PROVE Goal
  BY <1>13 DEF Finish, Dies
<1>14. ASSUME NEW l \in Launch, Interrupted(l) PROVE Goal
  BY <1>14 DEF Interrupted
<1>15. ASSUME NEW p \in Proc, Reap(p) PROVE Goal
  BY <1>15 DEF Reap
<1>16. CASE UNCHANGED vars
  BY <1>16 DEF vars
<1> HIDE DEF Goal
<1> QED
  BY <1>1, <1>2, <1>3, <1>4, <1>5, <1>6, <1>7, <1>8, <1>9, <1>10, <1>11,
     <1>12, <1>13, <1>14, <1>15, <1>16
     DEF Next, LauncherStep, DaemonStep, CONFIG_Init, Follows, Signal

\* How a launcher comes to report success, and how it is killed.
LEMMA StatusSource ==
  ASSUME TypeOK, [Next]_vars, NEW k \in Launch
  PROVE  /\ status'[Launcher(k)] = "success" =>
              status[Launcher(k)] = "success" \/ "USR1" \in pending[Launcher(k)]
         /\ status'[Launcher(k)] = "killed" =>
              \/ status[Launcher(k)] = "killed"
              \/ Launcher(k) \notin trapped /\ pending[Launcher(k)] \cap {"USR1", "ALRM"} # {}
<1> DEFINE Goal ==
      /\ status'[Launcher(k)] = "success" =>
           status[Launcher(k)] = "success" \/ "USR1" \in pending[Launcher(k)]
      /\ status'[Launcher(k)] = "killed" =>
           \/ status[Launcher(k)] = "killed"
           \/ Launcher(k) \notin trapped /\ pending[Launcher(k)] \cap {"USR1", "ALRM"} # {}
<1> SUFFICES Goal
  OBVIOUS
<1> USE Procs, Domains DEF signals, Signal
<1>1. ASSUME NEW l \in Launch, Start(l) PROVE Goal
  BY <1>1 DEF Start, Goto
<1>2. ASSUME NEW l \in Launch, Prepare(l) PROVE Goal
  BY <1>2 DEF Prepare, Goto, Exit
<1>3. ASSUME NEW l \in Launch, Fork(l) PROVE Goal
  BY <1>3 DEF Fork, Exit
<1>4. ASSUME NEW l \in Launch, Alarm(l) PROVE Goal
  BY <1>4 DEF Alarm, Goto
<1>5. ASSUME NEW l \in Launch, GetParent(l) PROVE Goal
  BY <1>5 DEF GetParent, Goto
<1>6. ASSUME NEW l \in Launch, NEW from, NEW to, Follows(from, to), Needs(l, from, to)
      PROVE  Goal
  BY <1>6 DEF Needs, Goto, Exit, Follows
<1>7. ASSUME NEW l \in Launch, Confirm(l) PROVE Goal
  BY <1>7 DEF Confirm, Goto
<1>8. ASSUME NEW l \in Launch, REMOTE_Init(l) PROVE Goal
  BY <1>8 DEF REMOTE_Init, Goto, Exit
<1>9. ASSUME NEW l \in Launch, Terminated(l) PROVE Goal
  BY <1>9 DEF Terminated, Exit, Dies
<1>10. ASSUME NEW p \in Proc, NEW s \in Signal, DAEMONIZE_ChildHandler(p, s) PROVE Goal
  BY <1>10 DEF DAEMONIZE_ChildHandler, Exit, ExitCode
<1>11. ASSUME NEW p \in Proc, DefaultAction(p) PROVE Goal
  BY <1>11 DEF DefaultAction, Dies
<1>12. ASSUME NEW l \in Launch, TimerFires(l) PROVE Goal
  BY <1>12 DEF TimerFires
<1>13. ASSUME NEW p \in Proc, Finish(p) PROVE Goal
  BY <1>13 DEF Finish, Dies
<1>14. ASSUME NEW l \in Launch, Interrupted(l) PROVE Goal
  BY <1>14 DEF Interrupted
<1>15. ASSUME NEW p \in Proc, Reap(p) PROVE Goal
  BY <1>15 DEF Reap
<1>16. CASE UNCHANGED vars
  BY <1>16 DEF vars
<1> HIDE DEF Goal
<1> QED
  BY <1>1, <1>2, <1>3, <1>4, <1>5, <1>6, <1>7, <1>8, <1>9, <1>10, <1>11,
     <1>12, <1>13, <1>14, <1>15, <1>16
     DEF Next, LauncherStep, DaemonStep, CONFIG_Init, Follows, Signal

\* How a launcher and its daemon come to where the traps are needed.
LEMMA TrapSource ==
  ASSUME TypeOK, [Next]_vars, NEW k \in Launch
  PROVE  /\ trapped \subseteq trapped'
         /\ k \in timer' => k \in timer \/ pc[Launcher(k)] = "alarm"
         /\ "ALRM" \in pending'[Launcher(k)] => "ALRM" \in pending[Launcher(k)] \/ k \in timer
         /\ pc'[Launcher(k)] \in {"fork", "alarm", "pause"} =>
              pc[Launcher(k)] \in {"fork", "alarm", "pause"} \/ Launcher(k) \in trapped'
         /\ pc'[Daemon(k)] \in {"getppid", "setsid", "chdir", "confirm"} =>
              \/ pc[Daemon(k)] \in {"getppid", "setsid", "chdir", "confirm"}
              \/ pc[Launcher(k)] = "fork"
         /\ pc[Daemon(k)] # "none" => pc'[Daemon(k)] # "none"
         /\ pc'[Launcher(k)] \in {"prepare", "fork"} /\ pc'[Daemon(k)] # "none" =>
              pc[Launcher(k)] \in {"prepare", "fork"} /\ pc[Daemon(k)] # "none"
<1> DEFINE Goal ==
      /\ trapped \subseteq trapped'
      /\ k \in timer' => k \in timer \/ pc[Launcher(k)] = "alarm"
      /\ "ALRM" \in pending'[Launcher(k)] => "ALRM" \in pending[Launcher(k)] \/ k \in timer
      /\ pc'[Launcher(k)] \in {"fork", "alarm", "pause"} =>
           pc[Launcher(k)] \in {"fork", "alarm", "pause"} \/ Launcher(k) \in trapped'
      /\ pc'[Daemon(k)] \in {"getppid", "setsid", "chdir", "confirm"} =>
           \/ pc[Daemon(k)] \in {"getppid", "setsid", "chdir", "confirm"}
           \/ pc[Launcher(k)] = "fork"
      /\ pc[Daemon(k)] # "none" => pc'[Daemon(k)] # "none"
      /\ pc'[Launcher(k)] \in {"prepare", "fork"} /\ pc'[Daemon(k)] # "none" =>
           pc[Launcher(k)] \in {"prepare", "fork"} /\ pc[Daemon(k)] # "none"
<1> SUFFICES Goal
  OBVIOUS
<1> USE Procs, Domains DEF signals, Signal
<1>1. ASSUME NEW l \in Launch, Start(l) PROVE Goal
  BY <1>1 DEF Start, Goto
<1>2. ASSUME NEW l \in Launch, Prepare(l) PROVE Goal
  BY <1>2 DEF Prepare, Goto, Exit
<1>3. ASSUME NEW l \in Launch, Fork(l) PROVE Goal
  BY <1>3 DEF Fork, Exit
<1>4. ASSUME NEW l \in Launch, Alarm(l) PROVE Goal
  BY <1>4 DEF Alarm, Goto
<1>5. ASSUME NEW l \in Launch, GetParent(l) PROVE Goal
  BY <1>5 DEF GetParent, Goto
<1>6. ASSUME NEW l \in Launch, NEW from, NEW to, Follows(from, to), Needs(l, from, to)
      PROVE  Goal
  <2>1. CASE Goto(Daemon(l), from, to) /\ UNCHANGED status
    BY <1>6, <2>1 DEF Needs, Goto, Follows
  <2>2. CASE Exit(Daemon(l), "failure")
    BY <1>6, <2>2 DEF Needs, Exit, Follows
  <2> QED
    BY <1>6, <2>1, <2>2 DEF Needs
<1>7. ASSUME NEW l \in Launch, Confirm(l) PROVE Goal
  BY <1>7 DEF Confirm, Goto
<1>8. ASSUME NEW l \in Launch, REMOTE_Init(l) PROVE Goal
  BY <1>8 DEF REMOTE_Init, Goto, Exit
<1>9. ASSUME NEW l \in Launch, Terminated(l) PROVE Goal
  BY <1>9 DEF Terminated, Exit, Dies
<1>10. ASSUME NEW p \in Proc, NEW s \in Signal, DAEMONIZE_ChildHandler(p, s) PROVE Goal
  <2>1. pc' = [pc EXCEPT ![p] = "exiting"] /\ UNCHANGED <<trapped, timer, pending>> /\ pc[p] # "none"
    BY <1>10 DEF DAEMONIZE_ChildHandler, Exit, Alive
  <2> QED
    BY <2>1
<1>11. ASSUME NEW p \in Proc, DefaultAction(p) PROVE Goal
  <2>1. pc' = [pc EXCEPT ![p] = "zombie"] /\ UNCHANGED <<trapped, timer>> /\ pc[p] # "none"
    BY <1>11 DEF DefaultAction, Dies, Alive
  <2>2. \A q \in Proc : pending'[q] \subseteq pending[q] \cup {"CHLD"}
    BY <1>11 DEF DefaultAction, Dies
  <2> QED
    BY <2>1, <2>2
<1>12. ASSUME NEW l \in Launch, TimerFires(l) PROVE Goal
  BY <1>12 DEF TimerFires
<1>13. ASSUME NEW p \in Proc, Finish(p) PROVE Goal
  BY <1>13 DEF Finish, Dies
<1>14. ASSUME NEW l \in Launch, Interrupted(l) PROVE Goal
  BY <1>14 DEF Interrupted
<1>15. ASSUME NEW p \in Proc, Reap(p) PROVE Goal
  BY <1>15 DEF Reap
<1>16. CASE UNCHANGED vars
  BY <1>16 DEF vars
<1> HIDE DEF Goal
<1> QED
  BY <1>1, <1>2, <1>3, <1>4, <1>5, <1>6, <1>7, <1>8, <1>9, <1>10, <1>11,
     <1>12, <1>13, <1>14, <1>15, <1>16
     DEF Next, LauncherStep, DaemonStep, CONFIG_Init, Follows, Signal

\* The launcher keeps its number while it lives, and never comes back.
LEMMA TargetStep ==
  ASSUME TypeOK, TrappedInTime, TargetIsParent, [Next]_vars
  PROVE  TargetIsParent'
<1> USE Procs DEF signals, Signal, TrappedInTime, TargetIsParent, TypeOK, Alive
<1>1. ASSUME NEW l \in Launch, Start(l) PROVE TargetIsParent'
  BY <1>1 DEF Start, Goto
<1>2. ASSUME NEW l \in Launch, Prepare(l) PROVE TargetIsParent'
  BY <1>2 DEF Prepare, Goto, Exit
<1>3. ASSUME NEW l \in Launch, Fork(l) PROVE TargetIsParent'
  BY <1>3 DEF Fork, Exit
<1>4. ASSUME NEW l \in Launch, Alarm(l) PROVE TargetIsParent'
  BY <1>4 DEF Alarm, Goto
<1>5. ASSUME NEW l \in Launch, GetParent(l) PROVE TargetIsParent'
  BY <1>5 DEF GetParent, Goto
<1>6. ASSUME NEW l \in Launch, NEW from, NEW to, Follows(from, to), Needs(l, from, to)
      PROVE  TargetIsParent'
  <2>1. CASE Goto(Daemon(l), from, to) /\ UNCHANGED status
    BY <1>6, <2>1 DEF Needs, Goto, Follows
  <2>2. CASE Exit(Daemon(l), "failure")
    BY <1>6, <2>2 DEF Needs, Exit, Follows
  <2> QED
    BY <1>6, <2>1, <2>2 DEF Needs
<1>7. ASSUME NEW l \in Launch, Confirm(l) PROVE TargetIsParent'
  BY <1>7 DEF Confirm, Goto
<1>8. ASSUME NEW l \in Launch, REMOTE_Init(l) PROVE TargetIsParent'
  BY <1>8 DEF REMOTE_Init, Goto, Exit
<1>9. ASSUME NEW l \in Launch, Terminated(l) PROVE TargetIsParent'
  BY <1>9 DEF Terminated, Exit, Dies
<1>10. ASSUME NEW p \in Proc, NEW s \in Signal, DAEMONIZE_ChildHandler(p, s) PROVE TargetIsParent'
  BY <1>10 DEF DAEMONIZE_ChildHandler, Exit, ExitCode
<1>11. ASSUME NEW p \in Proc, DefaultAction(p) PROVE TargetIsParent'
  BY <1>11 DEF DefaultAction, Dies
<1>12. ASSUME NEW l \in Launch, TimerFires(l) PROVE TargetIsParent'
  BY <1>12 DEF TimerFires
<1>13. ASSUME NEW p \in Proc, Finish(p) PROVE TargetIsParent'
  BY <1>13 DEF Finish, Dies
<1>14. ASSUME NEW l \in Launch, Interrupted(l) PROVE TargetIsParent'
  BY <1>14 DEF Interrupted
<1>15. ASSUME NEW p \in Proc, Reap(p) PROVE TargetIsParent'
  BY <1>15 DEF Reap
<1>16. CASE UNCHANGED vars
  BY <1>16 DEF vars
<1> QED
  BY <1>1, <1>2, <1>3, <1>4, <1>5, <1>6, <1>7, <1>8, <1>9, <1>10, <1>11,
     <1>12, <1>13, <1>14, <1>15, <1>16
     DEF Next, LauncherStep, DaemonStep, CONFIG_Init, Follows, Signal

\* A daemon whose launcher lives confirms to it and to nobody else.
LEMMA MissesStep ==
  ASSUME TypeOK, Confirmed, TargetIsParent, MissesOnlyEnded, [Next]_vars
  PROVE  MissesOnlyEnded'
<1> USE Procs, Numbers DEF signals, Signal, Confirmed, TargetIsParent, MissesOnlyEnded, TypeOK, Alive
<1>1. ASSUME NEW l \in Launch, Start(l) PROVE MissesOnlyEnded'
  BY <1>1 DEF Start, Goto
<1>2. ASSUME NEW l \in Launch, Prepare(l) PROVE MissesOnlyEnded'
  BY <1>2 DEF Prepare, Goto, Exit
<1>3. ASSUME NEW l \in Launch, Fork(l) PROVE MissesOnlyEnded'
  BY <1>3 DEF Fork, Exit
<1>4. ASSUME NEW l \in Launch, Alarm(l) PROVE MissesOnlyEnded'
  BY <1>4 DEF Alarm, Goto
<1>5. ASSUME NEW l \in Launch, GetParent(l) PROVE MissesOnlyEnded'
  BY <1>5 DEF GetParent, Goto
<1>6. ASSUME NEW l \in Launch, NEW from, NEW to, Follows(from, to), Needs(l, from, to)
      PROVE  MissesOnlyEnded'
  BY <1>6 DEF Needs, Goto, Exit, Follows
<1>7. ASSUME NEW l \in Launch, Confirm(l) PROVE MissesOnlyEnded'
  BY <1>7 DEF Confirm, Goto
<1>8. ASSUME NEW l \in Launch, REMOTE_Init(l) PROVE MissesOnlyEnded'
  BY <1>8 DEF REMOTE_Init, Goto, Exit
<1>9. ASSUME NEW l \in Launch, Terminated(l) PROVE MissesOnlyEnded'
  BY <1>9 DEF Terminated, Exit, Dies
<1>10. ASSUME NEW p \in Proc, NEW s \in Signal, DAEMONIZE_ChildHandler(p, s) PROVE MissesOnlyEnded'
  BY <1>10 DEF DAEMONIZE_ChildHandler, Exit, ExitCode
<1>11. ASSUME NEW p \in Proc, DefaultAction(p) PROVE MissesOnlyEnded'
  BY <1>11 DEF DefaultAction, Dies
<1>12. ASSUME NEW l \in Launch, TimerFires(l) PROVE MissesOnlyEnded'
  BY <1>12 DEF TimerFires
<1>13. ASSUME NEW p \in Proc, Finish(p) PROVE MissesOnlyEnded'
  BY <1>13 DEF Finish, Dies
<1>14. ASSUME NEW l \in Launch, Interrupted(l) PROVE MissesOnlyEnded'
  BY <1>14 DEF Interrupted
<1>15. ASSUME NEW p \in Proc, Reap(p) PROVE MissesOnlyEnded'
  BY <1>15 DEF Reap
<1>16. CASE UNCHANGED vars
  BY <1>16 DEF vars
<1> QED
  BY <1>1, <1>2, <1>3, <1>4, <1>5, <1>6, <1>7, <1>8, <1>9, <1>10, <1>11,
     <1>12, <1>13, <1>14, <1>15, <1>16
     DEF Next, LauncherStep, DaemonStep, CONFIG_Init, Follows, Signal

\* No signal is taken from a process, and the alarm is set before it pauses.
LEMMA StrandedStep ==
  ASSUME TypeOK, NeverStranded, [Next]_vars
  PROVE  NeverStranded'
<1> USE Procs DEF signals, Signal, NeverStranded, TypeOK
<1>1. ASSUME NEW l \in Launch, Start(l) PROVE NeverStranded'
  BY <1>1 DEF Start, Goto
<1>2. ASSUME NEW l \in Launch, Prepare(l) PROVE NeverStranded'
  BY <1>2 DEF Prepare, Goto, Exit
<1>3. ASSUME NEW l \in Launch, Fork(l) PROVE NeverStranded'
  BY <1>3 DEF Fork, Exit
<1>4. ASSUME NEW l \in Launch, Alarm(l) PROVE NeverStranded'
  BY <1>4 DEF Alarm, Goto
<1>5. ASSUME NEW l \in Launch, GetParent(l) PROVE NeverStranded'
  BY <1>5 DEF GetParent, Goto
<1>6. ASSUME NEW l \in Launch, NEW from, NEW to, Follows(from, to), Needs(l, from, to)
      PROVE  NeverStranded'
  BY <1>6 DEF Needs, Goto, Exit, Follows
<1>7. ASSUME NEW l \in Launch, Confirm(l) PROVE NeverStranded'
  BY <1>7 DEF Confirm, Goto
<1>8. ASSUME NEW l \in Launch, REMOTE_Init(l) PROVE NeverStranded'
  BY <1>8 DEF REMOTE_Init, Goto, Exit
<1>9. ASSUME NEW l \in Launch, Terminated(l) PROVE NeverStranded'
  BY <1>9 DEF Terminated, Exit, Dies
<1>10. ASSUME NEW p \in Proc, NEW s \in Signal, DAEMONIZE_ChildHandler(p, s) PROVE NeverStranded'
  BY <1>10 DEF DAEMONIZE_ChildHandler, Exit, ExitCode
<1>11. ASSUME NEW p \in Proc, DefaultAction(p) PROVE NeverStranded'
  BY <1>11 DEF DefaultAction, Dies
<1>12. ASSUME NEW l \in Launch, TimerFires(l) PROVE NeverStranded'
  BY <1>12 DEF TimerFires
<1>13. ASSUME NEW p \in Proc, Finish(p) PROVE NeverStranded'
  BY <1>13 DEF Finish, Dies
<1>14. ASSUME NEW l \in Launch, Interrupted(l) PROVE NeverStranded'
  BY <1>14 DEF Interrupted
<1>15. ASSUME NEW p \in Proc, Reap(p) PROVE NeverStranded'
  BY <1>15 DEF Reap
<1>16. CASE UNCHANGED vars
  BY <1>16 DEF vars
<1> HIDE DEF signals, NeverStranded, TypeOK
<1> QED
  BY <1>1, <1>2, <1>3, <1>4, <1>5, <1>6, <1>7, <1>8, <1>9, <1>10, <1>11,
     <1>12, <1>13, <1>14, <1>15, <1>16
     DEF Next, LauncherStep, DaemonStep, CONFIG_Init, Follows, Signal

\* Nothing comes before the traps.
LEMMA TrappedStep ==
  ASSUME TypeOK, TrappedInTime, [Next]_vars
  PROVE  TrappedInTime'
<1> SUFFICES ASSUME NEW k \in Launch
             PROVE  /\ pc'[Launcher(k)] \in {"prepare", "fork"} => pc'[Daemon(k)] = "none"
                    /\ pc'[Launcher(k)] \in {"fork", "alarm", "pause"} => Launcher(k) \in trapped'
                    /\ pc'[Daemon(k)] \in {"getppid", "setsid", "chdir", "confirm"} =>
                         Launcher(k) \in trapped'
                    /\ k \in timer' => Launcher(k) \in trapped'
                    /\ "ALRM" \in pending'[Launcher(k)] => Launcher(k) \in trapped'
  BY DEF TrappedInTime
<1>1. pc'[Launcher(k)] \in {"prepare", "fork"} => pc'[Daemon(k)] = "none"
  BY TrapSource DEF TrappedInTime
<1>2. pc'[Launcher(k)] \in {"fork", "alarm", "pause"} => Launcher(k) \in trapped'
  BY TrapSource DEF TrappedInTime
<1>3. pc'[Daemon(k)] \in {"getppid", "setsid", "chdir", "confirm"} => Launcher(k) \in trapped'
  BY TrapSource DEF TrappedInTime
<1>4. k \in timer' => Launcher(k) \in trapped'
  BY TrapSource DEF TrappedInTime
<1>5. "ALRM" \in pending'[Launcher(k)] => Launcher(k) \in trapped'
  BY TrapSource DEF TrappedInTime
<1> QED
  BY <1>1, <1>2, <1>3, <1>4, <1>5

\* A SIGUSR1 has been sent by a daemon, and that was forked.
LEMMA ConfirmedStep ==
  ASSUME TypeOK, TrappedInTime, Confirmed, [Next]_vars
  PROVE  Confirmed'
<1>1. \A k \in Launch : /\ pc[Daemon(k)] # "none" => pc'[Daemon(k)] # "none"
                        /\ trapped \subseteq trapped'
  BY TrapSource
<1>2. ASSUME NEW p \in Proc, "USR1" \in pending'[p] PROVE \E l \in Launch : <<l, p>> \in sent'
  BY <1>2, SentSource DEF Confirmed
<1>3. ASSUME NEW l \in Launch, NEW p \in Proc \cup {InitProc}, <<l, p>> \in sent'
      PROVE  pc'[Daemon(l)] # "none" /\ Launcher(l) \in trapped'
  <2>1. CASE <<l, p>> \in sent
    BY <1>1, <2>1 DEF Confirmed
  <2>2. CASE <<l, p>> \notin sent
    <3>1. pc[Daemon(l)] = "confirm" /\ pc'[Daemon(l)] # "none"
      BY <1>3, <2>2, SentSource
    <3>2. Launcher(l) \in trapped
      BY <3>1 DEF TrappedInTime
    <3> QED
      BY <1>1, <3>1, <3>2
  <2> QED
    BY <2>1, <2>2
<1> QED
  BY <1>2, <1>3 DEF Confirmed

\* Only a SIGUSR1 makes a launcher report success.
LEMMA SuccessStep ==
  ASSUME TypeOK, Confirmed, SuccessConfirmed, [Next]_vars
  PROVE  SuccessConfirmed'
<1>1. ASSUME NEW k \in Launch, status'[Launcher(k)] = "success"
      PROVE  \E l \in Launch : <<l, Launcher(k)>> \in sent
  BY <1>1, StatusSource, Procs DEF SuccessConfirmed, Confirmed, Misled
<1>2. sent \subseteq sent'
  BY SentSource
<1> QED
  BY <1>1, <1>2, Procs DEF SuccessConfirmed, Misled

\* Nothing that a launcher has not trapped can reach it but a stray confirmation.
LEMMA AlwaysStep ==
  ASSUME TypeOK, TrappedInTime, Confirmed, AlwaysReports, [Next]_vars
  PROVE  AlwaysReports'
<1> SUFFICES ASSUME NEW k \in Launch, status'[Launcher(k)] = "killed"
             PROVE  Misled(Launcher(k))
  BY SentSource DEF AlwaysReports, Misled
<1>1. CASE status[Launcher(k)] = "killed"
  BY <1>1 DEF AlwaysReports
<1>2. CASE Launcher(k) \notin trapped /\ pending[Launcher(k)] \cap {"USR1", "ALRM"} # {}
  <2>1. "USR1" \in pending[Launcher(k)]
    <3>1. "ALRM" \notin pending[Launcher(k)]
      BY <1>2 DEF TrappedInTime
    <3> QED
      BY <1>2, <3>1
  <2>2. PICK l \in Launch : <<l, Launcher(k)>> \in sent
    BY <2>1, Procs DEF Confirmed
  <2>3. l # k
    BY <1>2, <2>2, Procs DEF Confirmed
  <2> QED
    BY <2>2, <2>3, Procs DEF Misled
<1> QED
  BY <1>1, <1>2, StatusSource

-----------------------------------------------------------------------------
\* The invariant holds before ds2d is started.
LEMMA InitIInv ==
  ASSUME Init
  PROVE  IInv
<1> USE Procs, Numbers DEF Init
<1>1. TypeOK
  <2>1. Cardinality(port) <= 1
    BY FS_EmptySet
  <2> QED
    BY <2>1 DEF TypeOK
<1>2. OneListener /\ TrappedInTime /\ Confirmed /\ TargetIsParent
  BY DEF OneListener, TrappedInTime, Confirmed, TargetIsParent
<1>3. SuccessConfirmed /\ MissesOnlyEnded /\ AlwaysReports /\ NeverStranded
  BY DEF SuccessConfirmed, MissesOnlyEnded, AlwaysReports, NeverStranded
<1> QED
  BY <1>1, <1>2, <1>3 DEF IInv

\* Where at most one process listens, their number is at most 1.
LEMMA ListenerCount ==
  ASSUME NEW S, \A p, q \in S : p = q
  PROVE  Cardinality(S) <= 1
<1>1. CASE S = {}
  BY <1>1, FS_EmptySet
<1>2. CASE S # {}
  <2>1. PICK p : S = {p}
    BY <1>2
  <2> QED
    <3>1. Cardinality({p}) = 1
      BY FS_Singleton
    <3> QED
      BY <2>1, <3>1
<1> QED
  BY <1>1, <1>2

\* However the signals, the deaths and the starts interleave, the invariant is kept.
THEOREM Invariance == Spec => []IInv
<1>1. ASSUME IInv, [Next]_vars PROVE IInv'
  <2>1. /\ TypeOK /\ OneListener /\ TrappedInTime /\ Confirmed /\ TargetIsParent
        /\ SuccessConfirmed /\ MissesOnlyEnded /\ AlwaysReports /\ NeverStranded
    BY <1>1 DEF IInv
  <2>2. OneListener' /\ TrappedInTime' /\ Confirmed' /\ TargetIsParent'
    BY <1>1, <2>1, ListenerStep, TrappedStep, ConfirmedStep, TargetStep
  <2>3. SuccessConfirmed' /\ MissesOnlyEnded' /\ AlwaysReports' /\ NeverStranded'
    BY <1>1, <2>1, SuccessStep, MissesStep, AlwaysStep, StrandedStep
  <2>4. Numbered'
    BY <1>1, <2>1, NumbersStep
  <2>5. Cardinality(port') <= 1
    BY <2>2, ListenerCount DEF OneListener
  <2>6. TypeOK'
    BY <1>1, <2>1, <2>4, <2>5, PlainTypes DEF TypeOK, Numbered
  <2> QED
    BY <2>2, <2>3, <2>6 DEF IInv
<1> QED
  BY <1>1, InitIInv, PTL DEF Spec

\* Every variable has its type; numbers are not shared, nor is the port.
THEOREM TypeCorrect == Spec => []TypeOK
<1>1. IInv => TypeOK
  BY DEF IInv
<1> QED
  BY <1>1, Invariance, PTL

\* DAEMONIZE_ChildHandler: the launcher exits with EXIT_SUCCESS only on a SIGUSR1,
\* its own daemon's or one that went astray.
THEOREM ConfirmedSuccess == Spec => []SuccessConfirmed
<1>1. IInv => SuccessConfirmed
  BY DEF IInv
<1> QED
  BY <1>1, Invariance, PTL

\* kill(parent, SIGUSR1) misses only a launcher that has ended.
THEOREM MissedByTheDeadOnly == Spec => []MissesOnlyEnded
<1>1. IInv => MissesOnlyEnded
  BY DEF IInv
<1> QED
  BY <1>1, Invariance, PTL

\* The traps are set before the first signal that could kill a launcher.
THEOREM Reporting == Spec => []AlwaysReports
<1>1. IInv => AlwaysReports
  BY DEF IInv
<1> QED
  BY <1>1, Invariance, PTL

\* A launcher in pause() still has its alarm or a signal to come.
THEOREM NoStranding == Spec => []NeverStranded
<1>1. IInv => NeverStranded
  BY DEF IInv
<1> QED
  BY <1>1, Invariance, PTL
=============================================================================
