----------------------------- MODULE Daemonize -----------------------------
(***************************************************************************)
(* How ds2d becomes a daemon (daemonize.c and the start of main in         *)
(* ds2d.c): a launcher process forks the daemon and waits for its          *)
(* SIGUSR1, for its death (SIGCHLD) or for its own alarm (SIGALRM).  The   *)
(* three signals race; the handler exits, and a signal that arrives while  *)
(* exit() is under way runs the handler again and replaces the status.     *)
(* Process numbers are reused, so a late SIGUSR1 can reach a stranger.     *)
(***************************************************************************)
EXTENDS Naturals, FiniteSets

CONSTANTS
  Launch,   \* times ds2d is started
  Pid,      \* process numbers in use on the machine
  InitPid,  \* the number of init
  NoPid     \* the number of a process that does not exist

ASSUME PidAssumption == InitPid \notin Pid /\ NoPid \notin Pid /\ InitPid # NoPid

Launcher(l) == <<l, "launcher">>
Daemon(l) == <<l, "daemon">>
Proc == Launch \X {"launcher", "daemon"}
InitProc == <<InitPid, "init">>

VARIABLES
  pc,       \* where each process is
  pid,      \* its number
  status,   \* how it ends
  trapped,  \* the processes with DAEMONIZE_ChildHandler installed
  pending,  \* signals on their way, per process
  handled,  \* signals in whose handler it is; it never returns from one
  timer,    \* the launchers whose alarm is set
  target,   \* the daemon's local: whom it will confirm to
  port,     \* the processes that listen on the TCP port
  sent      \* history: confirmations, from launch to receiver

vars == <<pc, pid, status, trapped, pending, handled, timer, target, port, sent>>
signals == <<trapped, pending, handled, timer>>

Alive(p) == pc[p] \notin {"none", "zombie", "gone"}
Free == {n \in Pid : \A p \in Proc : pid[p] # n}

Init ==
  /\ pc = [p \in Proc |-> "none"]
  /\ pid = [p \in Proc |-> NoPid]
  /\ status = [p \in Proc |-> "none"]
  /\ trapped = {}
  /\ pending = [p \in Proc |-> {}]
  /\ handled = [p \in Proc |-> {}]
  /\ timer = {}
  /\ target = [l \in Launch |-> NoPid]
  /\ port = {}
  /\ sent = {}

Goto(p, from, to) == pc[p] = from /\ pc' = [pc EXCEPT ![p] = to]

\* exit(): the process is on its way out, with this status for the moment.
Exit(p, code) ==
  /\ pc' = [pc EXCEPT ![p] = "exiting"]
  /\ status' = [status EXCEPT ![p] = code]

\* p in the midst of things is gone; the launcher of a daemon gets SIGCHLD.
Dies(p) ==
  /\ pc' = [pc EXCEPT ![p] = "zombie"]
  /\ pending' = IF p[2] = "daemon"
                  THEN [pending EXCEPT ![Launcher(p[1])] = @ \cup {"CHLD"}]
                  ELSE pending
  /\ port' = port \ {p}

-----------------------------------------------------------------------------
(* The launcher.                                                           *)

\* ds2d is started from a shell, or by init: then it is a daemon already.
Start(l) ==
  /\ pc[Launcher(l)] = "none" /\ pc[Daemon(l)] = "none"
  /\ \E n \in Free :
       \/ Goto(Launcher(l), "none", "prepare") /\ pid' = [pid EXCEPT ![Launcher(l)] = n]
       \/ Goto(Daemon(l), "none", "config") /\ pid' = [pid EXCEPT ![Daemon(l)] = n]
  /\ UNCHANGED <<status, signals, target, port, sent>>

\* The mutated form of Prepare: no signal is trapped.
PrepareMutant(l) ==
  /\ pc[Launcher(l)] = "prepare"
  /\ \/ Goto(Launcher(l), "prepare", "fork") /\ UNCHANGED status
     \/ Exit(Launcher(l), "failure")
  /\ UNCHANGED <<pid, signals, target, port, sent>>

\* Lock file, user, traps.  The lock file is created but never locked.
Prepare(l) ==
  /\ pc[Launcher(l)] = "prepare"
  /\ \/ /\ Goto(Launcher(l), "prepare", "fork")
        /\ trapped' = trapped \cup {Launcher(l)}
        /\ UNCHANGED status
     \/ Exit(Launcher(l), "failure") /\ UNCHANGED trapped
  /\ UNCHANGED <<pid, pending, handled, timer, target, port, sent>>

\* The daemon inherits the traps, not the alarm.
Fork(l) ==
  /\ pc[Launcher(l)] = "fork"
  /\ \/ \E n \in Free :
          /\ pc' = [pc EXCEPT ![Launcher(l)] = "alarm", ![Daemon(l)] = "getppid"]
          /\ pid' = [pid EXCEPT ![Daemon(l)] = n]
          /\ trapped' = IF Launcher(l) \in trapped THEN trapped \cup {Daemon(l)} ELSE trapped
          /\ UNCHANGED status
     \/ Exit(Launcher(l), "failure") /\ UNCHANGED <<pid, trapped>>
  /\ UNCHANGED <<pending, handled, timer, target, port, sent>>

\* The mutated form of Alarm: the alarm is not set.
AlarmMutant(l) ==
  /\ Goto(Launcher(l), "alarm", "pause")
  /\ UNCHANGED <<pid, status, signals, target, port, sent>>

\* alarm(2), and pause(): nothing but a signal moves the launcher from there.
Alarm(l) ==
  /\ Goto(Launcher(l), "alarm", "pause")
  /\ timer' = timer \cup {l}
  /\ UNCHANGED <<pid, status, trapped, pending, handled, target, port, sent>>

-----------------------------------------------------------------------------
(* The daemon.                                                             *)

\* The mutated form of GetParent: the result of fork, 0 in the daemon, is taken
\* for the parent; kill(0) reaches the process group, the daemon itself.
GetParentMutant(l) ==
  /\ Goto(Daemon(l), "getppid", "setsid")
  /\ target' = [target EXCEPT ![l] = pid[Daemon(l)]]
  /\ UNCHANGED <<pid, status, signals, port, sent>>

\* getppid(): the launcher, or init once the launcher has ended.
GetParent(l) ==
  /\ Goto(Daemon(l), "getppid", "setsid")
  /\ target' = [target EXCEPT ![l] = IF Alive(Launcher(l)) THEN pid[Launcher(l)] ELSE InitPid]
  /\ UNCHANGED <<pid, status, signals, port, sent>>

\* A call that the daemon cannot do without: setsid, chdir, ini_parse.
Needs(l, from, to) ==
  /\ pc[Daemon(l)] = from
  /\ \/ Goto(Daemon(l), from, to) /\ UNCHANGED status
     \/ Exit(Daemon(l), "failure")
  /\ UNCHANGED <<pid, signals, target, port, sent>>

\* CONFIG_Init("../config.ini"), which by now is the one in the root directory.
CONFIG_Init(l) == Needs(l, "config", "remote")

\* kill(parent, SIGUSR1), whoever has that number by now.
Confirm(l) ==
  /\ Goto(Daemon(l), "confirm", "config")
  /\ LET hit == {p \in Proc : pid[p] = target[l]} IN
     /\ pending' = [p \in Proc |-> IF p \in hit THEN pending[p] \cup {"USR1"} ELSE pending[p]]
     /\ sent' = sent \cup ({l} \X (hit \cup (IF target[l] = InitPid THEN {InitProc} ELSE {})))
  /\ UNCHANGED <<pid, status, trapped, handled, timer, target, port>>

\* The mutated form of REMOTE_Init: the result of bind is not looked at.
REMOTE_InitMutant(l) ==
  /\ pc[Daemon(l)] = "remote"
  /\ \/ /\ port' = port \cup {Daemon(l)}
        /\ Goto(Daemon(l), "remote", "run")
        /\ UNCHANGED status
     \/ Exit(Daemon(l), "failure") /\ UNCHANGED port
  /\ UNCHANGED <<pid, signals, target, sent>>

\* REMOTE_Init, which fails if another daemon listens on the port.
REMOTE_Init(l) ==
  /\ pc[Daemon(l)] = "remote"
  /\ \/ /\ port = {}
        /\ port' = {Daemon(l)}
        /\ Goto(Daemon(l), "remote", "run")
        /\ UNCHANGED status
     \/ Exit(Daemon(l), "failure") /\ UNCHANGED port
  /\ UNCHANGED <<pid, signals, target, sent>>

\* SIGTERM: REMOTE_Close and exit, or death before terminate() is installed.
Terminated(l) ==
  \/ /\ pc[Daemon(l)] = "run"
     /\ Exit(Daemon(l), "success")
     /\ port' = {}
     /\ UNCHANGED <<pid, signals, target, sent>>
  \/ /\ pc[Daemon(l)] \in {"getppid", "setsid", "chdir", "confirm"}
     /\ Dies(Daemon(l))
     /\ status' = [status EXCEPT ![Daemon(l)] = "killed"]
     /\ UNCHANGED <<pid, trapped, handled, timer, target, sent>>

-----------------------------------------------------------------------------
(* Signals.                                                                *)

\* The mutated form of ExitCode: SIGCHLD is taken for the confirmation.
ExitCodeMutant(s) == IF s = "ALRM" THEN "failure" ELSE "success"

ExitCode(s) == IF s = "USR1" THEN "success" ELSE "failure"

\* A signal is blocked in its own handler, but not in that of another one.
DAEMONIZE_ChildHandler(p, s) ==
  /\ Alive(p) /\ p \in trapped
  /\ s \in pending[p] \ handled[p]
  /\ Exit(p, ExitCode(s))
  /\ handled' = [handled EXCEPT ![p] = @ \cup {s}]
  /\ UNCHANGED <<pid, trapped, pending, timer, target, port, sent>>

\* The default action of SIGUSR1 and SIGALRM; that of SIGCHLD is none.
DefaultAction(p) ==
  /\ Alive(p) /\ p \notin trapped
  /\ pending[p] \cap {"USR1", "ALRM"} # {}
  /\ Dies(p)
  /\ status' = [status EXCEPT ![p] = "killed"]
  /\ UNCHANGED <<pid, trapped, handled, timer, target, sent>>

\* Two seconds have passed.
TimerFires(l) ==
  /\ l \in timer
  /\ timer' = timer \ {l}
  /\ pending' = [pending EXCEPT ![Launcher(l)] = @ \cup {"ALRM"}]
  /\ UNCHANGED <<pc, pid, status, trapped, handled, target, port, sent>>

\* The end of exit().
Finish(p) ==
  /\ pc[p] = "exiting"
  /\ Dies(p)
  /\ UNCHANGED <<pid, status, trapped, handled, timer, target, sent>>

\* SIGINT from the terminal: for the launcher, and for the daemon until setsid.
Interrupted(l) ==
  /\ Alive(Launcher(l))
  /\ LET group == {p \in {Launcher(l), Daemon(l)} :
                     p = Launcher(l) \/ pc[p] \in {"getppid", "setsid"}}
     IN /\ pc' = [p \in Proc |-> IF p \in group THEN "zombie" ELSE pc[p]]
        /\ status' = [p \in Proc |-> IF p \in group THEN "interrupted" ELSE status[p]]
  /\ UNCHANGED <<pid, signals, target, port, sent>>

\* A shell waits for a launcher; init for a daemon whose launcher has ended.
Reap(p) ==
  /\ pc[p] = "zombie"
  /\ p[2] = "daemon" => ~Alive(Launcher(p[1]))
  /\ pc' = [pc EXCEPT ![p] = "gone"]
  /\ pid' = [pid EXCEPT ![p] = NoPid]
  /\ UNCHANGED <<status, signals, target, port, sent>>

-----------------------------------------------------------------------------
LauncherStep(l) ==
  \/ Prepare(l) \/ Fork(l) \/ Alarm(l) \/ Finish(Launcher(l)) \/ DefaultAction(Launcher(l))
  \/ \E s \in {"USR1", "CHLD", "ALRM"} : DAEMONIZE_ChildHandler(Launcher(l), s)

DaemonStep(l) ==
  \/ GetParent(l) \/ Needs(l, "setsid", "chdir") \/ Needs(l, "chdir", "confirm")
  \/ Confirm(l) \/ CONFIG_Init(l) \/ REMOTE_Init(l)
  \/ Finish(Daemon(l)) \/ DefaultAction(Daemon(l))
  \/ \E s \in {"USR1", "CHLD", "ALRM"} : DAEMONIZE_ChildHandler(Daemon(l), s)

Next ==
  \/ \E l \in Launch :
       \/ Start(l) \/ LauncherStep(l) \/ DaemonStep(l)
       \/ Terminated(l) \/ TimerFires(l) \/ Interrupted(l)
  \/ \E p \in Proc : Reap(p)

Spec == Init /\ [][Next]_vars

-----------------------------------------------------------------------------
(* Properties.                                                             *)

Signal == {"USR1", "CHLD", "ALRM"}

\* Each variable has its type; a process has a number of its own from fork or
\* start until it has been waited for, and at most one listens on the port.
TypeOK ==
  /\ pc \in [Proc -> {"none", "prepare", "fork", "alarm", "pause", "getppid", "setsid", "chdir",
                      "confirm", "config", "remote", "run", "exiting", "zombie", "gone"}]
  /\ pid \in [Proc -> Pid \cup {NoPid}]
  /\ status \in [Proc -> {"none", "success", "failure", "killed", "interrupted"}]
  /\ trapped \subseteq Proc /\ timer \subseteq Launch
  /\ pending \in [Proc -> SUBSET Signal] /\ handled \in [Proc -> SUBSET Signal]
  /\ target \in [Launch -> Pid \cup {InitPid, NoPid}]
  /\ port \subseteq Proc /\ Cardinality(port) <= 1
  /\ sent \subseteq Launch \X (Proc \cup {InitProc})
  /\ \A p \in Proc : pid[p] = NoPid <=> pc[p] \in {"none", "gone"}
  /\ \A p, q \in Proc : pid[p] = pid[q] => p = q \/ pid[p] = NoPid

\* p received a confirmation that another launch meant for its own launcher.
Misled(p) == \E l \in Launch : <<l, p>> \in sent /\ p # Launcher(l)

\* A launcher reports success only if its own daemon has detached and told it
\* so, or if it was misled.
SuccessConfirmed ==
  \A l \in Launch :
    status[Launcher(l)] = "success" => <<l, Launcher(l)>> \in sent \/ Misled(Launcher(l))

\* A confirmation misses the launcher only if that has ended: nobody else is
\* signalled while it waits, neither init nor the daemon itself.
MissesOnlyEnded ==
  \A l \in Launch : \A p \in Proc \cup {InitProc} :
    <<l, p>> \in sent /\ p # Launcher(l) => ~Alive(Launcher(l))

\* The launcher always reports: no signal of its daemon or its alarm kills it,
\* however early that comes.
AlwaysReports ==
  \A l \in Launch : status[Launcher(l)] = "killed" => Misled(Launcher(l))

\* A launcher in pause() is never stranded: its alarm is still to come, or a
\* signal is there that it has not acted on.
NeverStranded ==
  \A l \in Launch : pc[Launcher(l)] = "pause" => l \in timer \/ pending[Launcher(l)] # {}

\* "Tell the parent process that we are A-okay": a daemon that has confirmed to
\* its launcher does not fail in its initialisation any more.
AOkay ==
  \A l \in Launch : <<l, Launcher(l)>> \in sent => status[Daemon(l)] # "failure"
=============================================================================
