------------------------------- MODULE Wheel -------------------------------
(***************************************************************************)
(* The drive loop of ds2d: the thread WHEEL_Control (wheel.c), the command *)
(* it takes from the unprotected global ds2_data while the remote client   *)
(* writes it, and its dialogue with the motor controller over the serial   *)
(* line (qik.c, comport.c).  A client that has been replaced may still be  *)
(* writing (Remote shows that it is at most one command); the daemon may   *)
(* be killed and started again while the controller and the line go on.    *)
(*                                                                         *)
(* A value of ds2_data is represented by the number of the command that    *)
(* wrote it; what tells commands apart otherwise is only whether they ask  *)
(* for the brake.  The arithmetic on speed and angle is in WheelSpeed.     *)
(***************************************************************************)
EXTENDS Naturals, Sequences, FiniteSets

CONSTANTS
  MaxCommand,  \* bound: commands the remote client writes
  LateClient,  \* whether a client is replaced while it writes
  MaxNoise,    \* bound: bytes nobody waits for up to which the line adds one
  MaxLost,     \* bound: packets or replies the line loses
  MaxCrash     \* bound: how often the daemon is killed

ASSUME BoundAssumption ==
  /\ {MaxCommand, MaxNoise, MaxLost, MaxCrash} \subseteq Nat
  /\ LateClient \in BOOLEAN

VARIABLES
  ds2_data,    \* speed, angle, brake: number of the command that wrote it
  braking,     \* the commands that ask for the brake
  cmd, wpc,    \* the remote client: current command, next field to write
  late, lpc,   \* the same for the client it has replaced (0: there was none)
  WHEEL_Run,
  main,        \* how far WHEEL_Init and WHEEL_Close have come
  pc,          \* where WHEEL_Control is
  local,       \* brake, speed, angle as read by WHEEL_ControlSpeed
  query,       \* 1, 2, 3: M0 current, M1 current, error byte
  reading,     \* whose reply was stored for each query (0: nobody's)
  WHEEL_Data,  \* the motion the thread believes the motors have
  status,      \* ds2_data.left and .right: the motion reported to the client
  tx, rx,      \* packets on their way to the controller, bytes to be read
  motor,       \* the motion each motor has
  excess,      \* bytes on the line that nobody waits for
  lost,        \* what the line has lost since it was opened
  crashes

command == <<ds2_data, braking, cmd, wpc, late, lpc>>
thread == <<pc, local, query, reading, WHEEL_Data, status>>
control == <<WHEEL_Run, main, crashes>>
line == <<tx, rx, motor, excess, lost>>
vars == <<command, thread, control, line>>

Field == {"speed", "angle", "brake"}
Motor == {"M0", "M1"}
Query == 1..3

\* A motion is the brake set by some command, or the drive computed from a speed
\* and an angle; Halt is what the motors do before the first command.
Halt == [brake |-> 0, speed |-> 0, angle |-> 0]
DriveOf(l) == [brake |-> 0, speed |-> l.speed, angle |-> l.angle]
BrakeOf(l) == [brake |-> l.brake, speed |-> 0, angle |-> 0]

Init ==
  /\ ds2_data = [f \in Field |-> 0]
  /\ braking = {}
  /\ cmd = 0 /\ wpc = "idle" /\ late = 0 /\ lpc = "idle"
  /\ WHEEL_Run = FALSE /\ main = "init" /\ crashes = 0
  /\ pc = "unborn"
  /\ local = [f \in Field |-> 0]
  /\ query = 1
  /\ reading = [q \in Query |-> 0]
  /\ WHEEL_Data = Halt /\ status = Halt
  /\ tx = <<>> /\ rx = <<>>
  /\ motor = [m \in Motor |-> Halt]
  /\ excess = 0 /\ lost = 0

Goto(from, to) == pc = from /\ pc' = to

-----------------------------------------------------------------------------
(* The remote client: sscanf(..., "5:%d,%d,%d,%d,%d;", &ds2_data.speed,    *)
(* &ds2_data.angle, &ds2_data.brake, ...) stores the fields in this order  *)
(* and stops at the first one that does not match.                         *)

NewCommand ==
  /\ wpc = "idle" /\ main # "failed"
  /\ cmd < MaxCommand
  /\ cmd' = cmd + 1
  /\ braking' \in {braking, braking \cup {cmd'}}
  /\ wpc' = "speed"
  /\ UNCHANGED <<ds2_data, late, lpc, thread, control, line>>

FieldAfter == [speed |-> "angle", angle |-> "brake", brake |-> "idle"]

\* The next field may not match.
Following(at) == {FieldAfter[at], "idle"}

\* The mutated form of WriteField: the fields are stored from last to first.
WriteFieldMutant ==
  /\ wpc # "idle" /\ main # "failed"
  /\ LET f == IF wpc = "speed" THEN "brake" ELSE IF wpc = "brake" THEN "speed" ELSE wpc
     IN ds2_data' = [ds2_data EXCEPT ![f] = cmd]
  /\ wpc' \in Following(wpc)
  /\ UNCHANGED <<braking, cmd, late, lpc, thread, control, line>>

WriteField ==
  /\ wpc # "idle" /\ main # "failed"
  /\ ds2_data' = [ds2_data EXCEPT ![wpc] = cmd]
  /\ wpc' \in Following(wpc)
  /\ UNCHANGED <<braking, cmd, late, lpc, thread, control, line>>

\* A new connection: the client is cancelled while it works off its command, and
\* goes on to the end of it beside its successor.
Replaced ==
  /\ LateClient /\ late = 0 /\ wpc # "idle"
  /\ late' = cmd /\ lpc' = wpc /\ wpc' = "idle"
  /\ UNCHANGED <<ds2_data, braking, cmd, thread, control, line>>

LateField ==
  /\ lpc # "idle" /\ main # "failed"
  /\ ds2_data' = [ds2_data EXCEPT ![lpc] = late]
  /\ lpc' \in Following(lpc)
  /\ UNCHANGED <<braking, cmd, wpc, late, thread, control, line>>

-----------------------------------------------------------------------------
(* WHEEL_Init and WHEEL_Close, called by the main thread.                  *)

\* WHEEL_Run is set first; then the port is opened.  A failure ends ds2d.
WHEEL_Init ==
  /\ main = "init"
  /\ WHEEL_Run' = TRUE
  /\ main' \in {"opened", "failed"}
  /\ UNCHANGED <<command, thread, crashes, line>>

\* The replies that are unread or still to come.
Queries(packets) == {i \in 1..Len(packets) : packets[i].to = "query"}
Outstanding == Len(rx) + Cardinality(Queries(tx))

\* The port is flushed, which may fail with a warning, and configured, which may
\* fail for good.  What was written and is on the way already cannot be flushed.
COMPORT_Connect ==
  /\ main = "opened"
  /\ rx' \in {<<>>, rx}
  /\ \E k \in 0..Len(tx) : tx' = SubSeq(tx, 1, k)
  /\ \/ main' = "connected" /\ lost' = 0 /\ excess' = Outstanding'
     \/ main' = "failed" /\ UNCHANGED <<lost, excess>>
  /\ UNCHANGED <<command, thread, WHEEL_Run, crashes, motor>>

\* pthread_create; the port stays open if it fails.
Start ==
  /\ main = "connected"
  /\ \/ main' = "started" /\ Goto("unborn", "test")
     \/ main' = "failed" /\ UNCHANGED pc
  /\ UNCHANGED <<command, local, query, reading, WHEEL_Data, status, WHEEL_Run, crashes, line>>

\* The mutated form of WHEEL_Close: the thread is not told to stop.
WHEEL_CloseMutant ==
  /\ main = "started"
  /\ main' = "join"
  /\ UNCHANGED <<command, thread, WHEEL_Run, crashes, line>>

WHEEL_Close ==
  /\ main = "started"
  /\ WHEEL_Run' = FALSE
  /\ main' = "join"
  /\ UNCHANGED <<command, thread, crashes, line>>

Join ==
  /\ main = "join"
  /\ pc = "done"
  /\ main' = "closed"
  /\ UNCHANGED <<command, thread, WHEEL_Run, crashes, line>>

\* The daemon is killed and will be started again.  Its variables get their initial
\* values; braking and the numbers of the commands are not its own.
Crash ==
  /\ crashes < MaxCrash /\ main \notin {"init", "failed", "closed"}
  /\ crashes' = crashes + 1
  /\ main' = "init" /\ WHEEL_Run' = FALSE
  /\ ds2_data' = [f \in Field |-> 0] /\ wpc' = "idle" /\ lpc' = "idle"
  /\ pc' = "unborn" /\ local' = [f \in Field |-> 0]
  /\ query' = 1 /\ reading' = [q \in Query |-> 0]
  /\ WHEEL_Data' = Halt /\ status' = Halt
  /\ UNCHANGED <<braking, cmd, late, line>>

-----------------------------------------------------------------------------
(* WHEEL_Control: while (WHEEL_Run) { ... }                                *)

LoopTest ==
  /\ Goto("test", IF WHEEL_Run THEN "brake" ELSE "done")
  /\ UNCHANGED <<command, local, query, reading, WHEEL_Data, status, control, line>>

\* The order in which WHEEL_ControlSpeed reads the command.
ReadNext == [brake |-> "speed", speed |-> "angle", angle |-> "M0"]

ReadField ==
  /\ pc \in Field
  /\ local' = [local EXCEPT ![pc] = ds2_data[pc]]
  /\ Goto(pc, ReadNext[pc])
  /\ UNCHANGED <<command, query, reading, WHEEL_Data, status, control, line>>

\* What WHEEL_ControlSpeed decides from the fields it has read.
DecisionOf(l) == IF l.brake \in braking THEN BrakeOf(l) ELSE DriveOf(l)
Decision == DecisionOf(local)

\* A packet to the controller; write() reports a failure that nobody looks at.
Send(packet) ==
  \/ tx' = Append(tx, packet) /\ UNCHANGED lost
  \/ lost < MaxLost /\ lost' = lost + 1 /\ UNCHANGED tx

\* The mutated form of WHEEL_ControlSpeed: WHEEL_Data is updated only when the
\* motors are driven, not when they brake.
ControlSpeedMutant ==
  /\ \/ Goto("M0", "M1") /\ Send([to |-> "M0", motion |-> Decision]) /\ UNCHANGED <<WHEEL_Data, local>>
     \/ /\ Goto("M1", "ask")
        /\ Send([to |-> "M1", motion |-> Decision])
        /\ WHEEL_Data' = IF local.brake \in braking THEN WHEEL_Data ELSE Decision
        /\ local' = [f \in Field |-> 0]
  /\ UNCHANGED <<command, query, reading, status, control, rx, motor, excess>>

\* Another mutated form: nothing is sent while the decision is the one the thread
\* has on record.
ControlSpeedOnceMutant ==
  /\ \/ /\ Goto("M0", IF Decision = WHEEL_Data THEN "ask" ELSE "M1")
        /\ IF Decision = WHEEL_Data THEN UNCHANGED <<tx, lost>>
                                   ELSE Send([to |-> "M0", motion |-> Decision])
        /\ UNCHANGED <<WHEEL_Data, local>>
     \/ /\ Goto("M1", "ask")
        /\ Send([to |-> "M1", motion |-> Decision])
        /\ WHEEL_Data' = Decision
        /\ local' = [f \in Field |-> 0]
  /\ UNCHANGED <<command, query, reading, status, control, rx, motor, excess>>

\* One packet for each motor, then the thread's own record of what it did; the
\* locals end with the function.
WHEEL_ControlSpeed ==
  /\ \/ Goto("M0", "M1") /\ Send([to |-> "M0", motion |-> Decision]) /\ UNCHANGED <<WHEEL_Data, local>>
     \/ /\ Goto("M1", "ask")
        /\ Send([to |-> "M1", motion |-> Decision])
        /\ WHEEL_Data' = Decision
        /\ local' = [f \in Field |-> 0]
  /\ UNCHANGED <<command, query, reading, status, control, rx, motor, excess>>

\* QIK_GetCommand: a request, and the thread waits for one byte.
QIK_GetCommand ==
  /\ Goto("ask", "await")
  /\ Send([to |-> "query", motion |-> query])
  /\ UNCHANGED <<command, local, query, reading, WHEEL_Data, status, control, rx, motor, excess>>

\* WHEEL_FeedbackControl stores the answer and goes on to the next query.
Store(byte) ==
  /\ reading' = [reading EXCEPT ![query] = byte]
  /\ query' = IF query = 3 THEN 1 ELSE query + 1
  /\ Goto("await", IF query = 3 THEN "publish" ELSE "ask")

\* The mutated form of COMPORT_Receive: read() with VMIN = 0 does not wait.
COMPORT_ReceiveMutant ==
  /\ \/ rx # <<>> /\ Store(Head(rx)) /\ rx' = Tail(rx)
     \/ rx = <<>> /\ Store(0) /\ UNCHANGED rx
  /\ UNCHANGED <<command, local, WHEEL_Data, status, control, tx, motor, excess, lost>>

\* read() of one byte: VMIN > 0, so it waits until there is one, however long.
COMPORT_Receive ==
  /\ rx # <<>>
  /\ Store(Head(rx))
  /\ rx' = Tail(rx)
  /\ UNCHANGED <<command, local, WHEEL_Data, status, control, tx, motor, excess, lost>>

\* ds2_data.left.* = WHEEL_Data.left.*; ... SLEEP_Delay(...)
Publish ==
  /\ Goto("publish", "test")
  /\ status' = WHEEL_Data
  /\ UNCHANGED <<command, local, query, reading, WHEEL_Data, control, line>>

-----------------------------------------------------------------------------
(* The motor controller and the line (external).  It handles packets in    *)
(* order and answers a query with one byte.                                *)

ControllerStep ==
  /\ tx # <<>>
  /\ tx' = Tail(tx)
  /\ LET p == Head(tx) IN
     IF p.to = "query"
       THEN /\ UNCHANGED motor
            /\ \/ rx' = Append(rx, p.motion) /\ UNCHANGED lost
               \/ lost < MaxLost /\ lost' = lost + 1 /\ UNCHANGED rx
       ELSE motor' = [motor EXCEPT ![p.to] = p.motion] /\ UNCHANGED <<rx, lost>>
  /\ UNCHANGED <<command, thread, control, excess>>

\* A byte nobody sent.
LineNoise ==
  /\ excess < MaxNoise
  /\ excess' = excess + 1
  /\ rx' = Append(rx, 0)
  /\ UNCHANGED <<command, thread, control, tx, motor, lost>>

-----------------------------------------------------------------------------
ThreadStep ==
  \/ LoopTest \/ ReadField \/ WHEEL_ControlSpeed \/ QIK_GetCommand \/ COMPORT_Receive \/ Publish

Next ==
  \/ NewCommand \/ WriteField \/ Replaced \/ LateField
  \/ WHEEL_Init \/ COMPORT_Connect \/ Start \/ WHEEL_Close \/ Join \/ Crash
  \/ ThreadStep
  \/ ControllerStep \/ LineNoise

Spec == Init /\ [][Next]_vars

\* The drive thread is scheduled, its sleeps and writes end; the controller
\* handles what reaches it; a command once begun is written out.
Fairness ==
  /\ WF_vars(ThreadStep) /\ WF_vars(Join) /\ WF_vars(ControllerStep)
  /\ WF_vars(WriteField) /\ WF_vars(LateField)

FairSpec == Spec /\ Fairness

-----------------------------------------------------------------------------
(* Invariants.                                                             *)

Command == 0..MaxCommand
Motion == [brake : Command, speed : Command, angle : Command]
Packet == [to : Motor, motion : Motion] \cup [to : {"query"}, motion : Query]

\* Each variable has its type; no more is lost than the line loses.
TypeOK ==
  /\ ds2_data \in [Field -> Command]
  /\ braking \subseteq 1..cmd
  /\ cmd \in Command /\ wpc \in Field \cup {"idle"}
  /\ late \in 0..cmd /\ lpc \in Field \cup {"idle"}
  /\ WHEEL_Run \in BOOLEAN /\ crashes \in 0..MaxCrash
  /\ main \in {"init", "failed", "opened", "connected", "started", "join", "closed"}
  /\ pc \in Field \cup Motor \cup {"unborn", "test", "ask", "await", "publish", "done"}
  /\ local \in [Field -> Command]
  /\ query \in Query /\ reading \in [Query -> Query \cup {0}]
  /\ WHEEL_Data \in Motion /\ status \in Motion
  /\ motor \in [Motor -> Motion]
  /\ tx \in Seq(Packet) /\ rx \in Seq(Query \cup {0})
  /\ excess \in Nat /\ lost \in 0..MaxLost

\* Reader and writer of the command take no lock, but their orders are opposite:
\* the brake the thread acts on is never newer than the speed and the angle it
\* acts on.  So a command that releases the brake is never combined with a
\* speed from before it, except for what a replaced client writes late, and that
\* is one command.
BrakeNeverNewer ==
  pc \in Motor =>
    \A f \in {"speed", "angle"} : local.brake <= local[f] \/ local[f] = late

\* On a line that adds and loses nothing, what is reported to the client is what
\* both motors are doing, from the report until the next motor packet and, when
\* the loop has ended, for good: the thread has waited for a reply that the
\* controller gave after it had handled the motor packets.
StatusHonest ==
  pc \in {"test", "done", "M0"} \cup Field /\ reading[3] # 0 /\ excess = 0 /\ lost = 0 =>
    \A m \in Motor : motor[m] = status

\* On a line that adds nothing, every value stored for a query is the reply to
\* that query.
RepliesMatch ==
  excess = 0 => \A q \in Query : reading[q] \in {0, q}

\* As long as the line loses nothing, bytes that nobody waits for are never
\* worked off, noise or replies to a run that was killed: outside a wait exactly
\* so many are still to come or unread.  Once misaligned, every later value is
\* stored for the wrong query.  But replies do not pile up: beside noise there is
\* at most one, and one more for each time the daemon was killed.
ExcessStays ==
  /\ lost = 0 /\ pc # "await" /\ main \in {"connected", "started", "join", "closed"} =>
       Outstanding = excess
  /\ Outstanding <= 1 + MaxNoise + crashes

-----------------------------------------------------------------------------
(* Liveness.                                                               *)

\* WHEEL_Close returns, unless a reply has been lost: the thread then waits in
\* read() for ever.
CloseReturns == main = "join" ~> main \in {"closed", "init"} \/ lost > 0

\* What ds2_data says in the end is what both motors do in the end, after a
\* restart too, if nothing is lost and the loop keeps running.
LastCommandTakesEffect ==
  (<>[](main = "started" /\ lost = 0)) =>
    <>[](\A m \in Motor : motor[m] = DecisionOf(ds2_data))
=============================================================================
