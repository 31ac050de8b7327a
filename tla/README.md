# ds2d in TLA+

ds2d is a daemon for a small tracked vehicle. A client connects over TCP, sends
commands (`5:speed,angle,brake,...;`) and gets the state of the motors back; the
daemon turns speed and angle into packets for a motor controller on a serial
line, reads a GPS receiver and shows with LEDs what it is doing. This directory
holds TLA+ models of its parts, the TLC configurations that check them, and
proofs that TLAPS checks: the invariants and action properties of all components,
and that the remote service and the drive loop implement what they promise, are
proved for every value of the constants.

All paths below are relative to `src/ds2d/src/` unless they say otherwise.

## Inventory

| Part | Source | State it keeps | Operations | Modules |
|---|---|---|---|---|
| Main program | `ds2d.c` | `run`, the signal handler's flag | `main`, `terminate` | Startup, Daemonize, Remote |
| Options | `misc/options.c` | `options` | `OPTIONS_Init` | Startup, StartupProofs; Remote (the debug flags) |
| Configuration | `misc/config.c` | `configuration` | `CONFIG_Init`, the callback `CONFIG_Handler` | Startup, StartupProofs |
| INI parser | `libs/inih/ini.c` | locals: section, name in force, first error | `ini_parse`, `ini_parse_file` | Startup, StartupProofs |
| Daemonizing | `misc/daemonize.c` | process numbers, signal traps, an alarm | `DAEMONIZE_Daemonize`, `DAEMONIZE_ChildHandler` | Daemonize, DaemonizeProofs |
| Remote service | `remote/remote.c` | `REMOTE_ServerRun`, `REMOTE_ClientRun`, `REMOTE_ServerTCP`, the server's locals `newSock` and `threadClient` | `REMOTE_Init`, `REMOTE_Close`, threads `REMOTE_Server` and `REMOTE_Client` | Remote, Control, RemoteControl, RemoteInductive, RemoteProofs |
| TCP server calls | `remote/tcpServer.c` | descriptors in the kernel | connect, new connection, receive, send, close, disconnect | Remote |
| Debug output | `misc/debug.c` | `DEBUG_Mutex` | `DEBUG_Print` | Remote |
| Sleep | `misc/sleep.c` | none | `SLEEP_Delay` | Remote (a cancellation point) |
| Drive loop | `wheels/wheel.c`, `ds2.h` | `WHEEL_Run`, `WHEEL_Data`, the shared command and status in `ds2_data` | `WHEEL_Init`, `WHEEL_Close`, thread `WHEEL_Control` | Wheel, Drive, WheelDrive, WheelProofs; WheelSpeed, WheelSpeedProofs, Motor, MotorProofs |
| qik driver | `wheels/qik.c` | whether the port is open | `QIK_Init`, one function per packet | Wheel (initialisation, request and reply), Packet, Motor and MotorProofs (bytes, CRC) |
| pololu driver | `wheels/pololu.c` | the same | one function per packet; no caller | Packet, Motor |
| Serial port | `drivers/comport.c` | descriptor, saved settings | connect, disconnect, send, receive | Wheel (all but disconnect, which has no caller) |
| LED indication | `indication/indication.c` | `INDICATION_Run`, one record per LED | `INDICATION_Init`, `INDICATION_Close`, thread `INDICATION_Handler` | Indication, IndicationProofs |
| GPIO | `drivers/gpio.c` | pins in sysfs | export, direction, value; three more without a caller | Gpio |
| GPS client | `gps/gps_api.c` | `GPS_Run`, the session with gpsd | `GPS_Init`, `GPS_Close`, thread `GPS_Control` | Gps, GpsProofs |
| PWM | `drivers/pwm.c` | sysfs | no caller | not modelled |

**How the parts interact.** `main` becomes a daemon (launcher and daemon talk by
signals), reads the configuration, starts the remote service and sleeps until
the signal handler clears `run`; then it joins the server thread, which joins
the client thread in control. A new connection *replaces* the client in control:
the server cancels the old thread with `pthread_cancel`, does not wait for it,
overwrites the one shared socket field and creates the next thread. The client
thread writes the command into the global `ds2_data` with `sscanf`, the drive
loop reads it field by field and writes the motors' state back, both without a
lock. The drive loop and the motor controller exchange packets and single-byte
replies on a line without framing or tags. At this commit `main` has the calls
for wheels, LEDs and GPS commented out; these parts are complete code and are
modelled as such, each with its `Init` and `Close`.

**What is hard.** Threads that share plain globals; cancellation of a thread
that may be anywhere, inside `printf` with a mutex held included; a signal
handler that locks a mutex; an uninitialised thread handle; replies that are
lost, come unasked or answer a run that was killed, on an untagged line; a fork
whose two sides race with three signals and process numbers that are reused;
an indented line that an INI parser takes for the rest of a value; counters compared for equality
that other threads change. `PROJECT.json` lists each hazard at its line with
the properties aimed at it, or the reason that none is.

## What would be right, and where it is stated

* *Remote*: at most one client has control (`OneInControl`), over the open
  connection it was started for (`ControlOwnsSocket`); a replaced client applies
  at most one more command (`LateAtMostOnce`), never closes a connection that is
  not its own (`NoForeignClose`), and goes away (`CancelledGone`); connections
  leak only by cancellation (`LeakOnlyByCancel`); shutdown ends and leaves
  nothing behind (`TerminateCompletes`, `ShutdownComplete`); a termination
  signal takes effect (`SignalTakesEffect`).
* *Drive loop*: the brake acted on is never newer than the speed it comes with
  (`BrakeNeverNewer`); the reported state is the real one (`StatusHonest`);
  replies belong to their queries (`RepliesMatch`, `ExcessStays`); the last
  command takes effect, after a restart too (`LastCommandTakesEffect`), and close
  returns (`CloseReturns`); on a sound line one decision after the other reaches
  both motors and is reported (`ImplementsDrive`); the quadrants of the steering arithmetic fit together
  (`Smooth`, `MirrorSymmetric`).
* *Drivers*: packets are framed (`Framed`), the CRC is the remainder the tables
  stand for (`TableIsRemainder`), intact packets pass and disturbed ones do not
  (`AcceptedIfIntact`).
* *Start*: every field of the configuration has the last value the file gives it
  (`ParsedAsWritten`), the parser's result is the first bad line (`FirstError`),
  ds2d stays in the foreground exactly if something is debugged
  (`ForegroundIfDebugged`).
* *GPS*: the session is given back however the thread ends (`SessionReleased`),
  reports are read again and again (`KeepsReading`), close returns
  (`CloseReturns`).
* *Daemonizing*: success is reported only after the daemon's word
  (`SuccessConfirmed`), the word goes astray only when the launcher has ended
  (`MissesOnlyEnded`), the launcher always reports and is never stranded
  (`AlwaysReports`, `NeverStranded`).
* *LEDs*: what is asked for is shown (`SwitchedShows`), periods are kept
  (`DutyCycle`), blinking goes on (`Blinks`), close leaves them dark
  (`DarkAfterClose`).

## Modules and the code

### Remote, and what is built on it

`Remote` has one program counter per thread: the main thread with the signal
handler that runs on top of it, the server thread, and the client threads, of
which any number can be alive because a replaced one is not joined. Each label
stands between two accesses to shared state, so the C statements interleave as
they can in the program: `Replace`, `TryJoin`, `PthreadCancel`, `Assign`,
`Arm`, `PthreadCreate` are the six steps of a replacement in `REMOTE_Server`,
`ClientLoop` to `TCPSERVER_Close` the loop of `REMOTE_Client`. `file` is the
kernel's table of descriptors (lowest free one first); `mine` and `late` are
history variables.

* *Cancellation* is deferred, as pthreads do it by default: `cancel[t]` is the
  request, and the thread ends in `Cancelled(t)` when it is at a cancellation
  point (`recvfrom`, `nanosleep`, `sendto`, `close`) or inside `printf` in
  `DEBUG_Print`. Ending there closes no socket and unlocks no mutex.
* *Uninitialised data.* `threadClient` is cancelled and perhaps joined before
  anything was stored in it. `Garbage` lists what the call may meet: a handle of
  no thread, a stray one on which a join never returns, the server's own handle
  (left over in the stack), or an address that faults.
* *Failures.* `accept`, `pthread_create`, socket set-up and both sends may fail
  at any time; a send on a connection that the peer has reset may raise SIGPIPE
  and end the process.
* *Time.* `SLEEP_Delay` orders nothing and is a place to rest. The pause of
  0.1 s at the end of the server's loop is left out: the step from `loop` may be
  as late as one likes.
* *Left out:* the contents of the receive buffer and of the messages, socket
  options (accepted sockets inherit the receive timeout of one second, which
  `TCPSERVER_Receive` uses), the handler on another thread than the main one and
  a second signal inside the handler. A peer that closes in good order only
  makes `recvfrom` return 0, which it may do anyway.

`Control` is the promise: at most one client holds control, over the connection
that was selected while nobody had it; after closing begins nobody gets control;
an orderly exit leaves nobody in control. `RemoteControl` maps the threads to it
(`holders` are the live threads without a cancellation request, `conn` is
`sockNew`, `status` comes from the server's label and the fate of the process).
`RemoteInductive` holds the inductive invariant, `MCRemote` the symmetry set,
`RemoteProofs` the proofs.

### Wheel

`Wheel` is the thread `WHEEL_Control` against the remote client that writes
`ds2_data` and the controller at the other end of the line. Values of the
command are represented by the number of the command that wrote them; whether a
command brakes is chosen when it is given. `WriteField` stores the fields in the
order of `sscanf`, stopping early where a message does not match; `ReadField`
reads them in the order of `WHEEL_ControlSpeed`. A client may be replaced in the
middle of a command (`Replaced`, `LateField`); that it applies at most one is
what `LateAtMostOnce` of `Remote` says, and it is proved there for any number of
clients.

`WHEEL_ControlSpeed` sends a packet to each motor, `QIK_GetCommand` and
`COMPORT_Receive` are one query of `WHEEL_FeedbackControl`; `read` waits for at
least one byte, without a timeout. `WHEEL_Init` sets the flag and opens the
port, `COMPORT_Connect` flushes it, which may fail with a warning, and
configures it, which may fail for good, `Start` creates the thread. `Crash` ends
the process at any point; the controller, the packets on the wire and the unread
replies go on to exist, and the next run connects among them. What the flush
misses is counted in `excess`, like noise. `ControllerStep`, `LineNoise` and
`Crash` are external. The fields of the report are published in one step, since
only its source matters to the properties, and the device is never unplugged.

`Drive` is the promise of the drive loop to whoever only sees the motors and the
report: on a sound line a decision reaches M0, then M1, then the report, and only
then is the next one taken; a killed run may still move motors with what it left on
the line, but nothing decided later overtakes that; and once something is lost or
added nothing is promised until the port is opened again. `WheelDrive` maps `Wheel`
to it: the line is sound while nothing was lost and no reply is in excess, a
decision is taken when its first packet is sent (`WHEEL_Data` holds it from the
second on), the next step of the round is read off the packets still on the line,
and the report is the published status.

### WheelSpeed, Packet, Motor

`WheelSpeed` has the arithmetic with exact fractions, as operators; its header
says why the double arithmetic of the code gives the same results for whole
numbers. `Packet` has the CRC table, the packets of both drivers, one step of the
loop of `QIK_GetCRC` and `crcGet`, and `crcCheck` of `pololu.c`. `Motor` composes
them along the way of one command: a brake of any strength, or a speed and an
angle (`WHEEL_GetSpeed`), the commands for both motors (`WHEEL_ControlSpeed`), the
packet of one of them (`ToDriver`), the CRC byte by byte (`GetCRC`), a line that
flips up to two bits, and a receiver. The other packets of both drivers take the
same way. The `SET_CONFIG_PARAM` packet of qik computes its CRC over four of
seven bytes; it is in the model, and `AcceptedIfIntact` excludes it by `covered`.

### Startup

`Startup` follows `main` from the options to the running service. A line of the
configuration file is what one `fgets` returns, reduced to its kind (blank or
comment, section header, pair, header without its bracket, text without a
separator), to whether it is indented and to the name in it; a value is the
number of the line it comes from. `ReadLine` is one round of `ini_parse_file`
with its branches in the order of the code: an indented line while a name is in
force is a continuation, whatever it says, and gives the callback the whole line
as a new value. `atoi` of a text without digits is 0. The reference the result is
compared with (`Anchor`, `Swallowed`, `NameAt`) is stated over the whole file.
`INI_ALLOW_MULTILINE` is on and `INI_STOP_ON_FIRST_ERROR` off, as in `ini.h`.

### Gps

The thread `GPS_Control` with its session at gpsd. gpsd stops reporting without a
message, breaks off at any time, and sends reports with and without a fix, among
them one with `status > 0` and no altitude, which the code takes for an error.

### Daemonize

Launches of ds2d, each of a launcher and a daemon process, which share the
machine's process numbers. The launcher prepares, forks, sets its alarm and
pauses; the daemon finds out its parent, detaches, confirms, and goes on with
the start of `main`. `DAEMONIZE_ChildHandler` is the handler of all three signals:
it calls `exit()`, and a different signal that comes while `exit()` is at work
runs it again and replaces the status (which is what glibc does). Signals are
sets, as standard signals do not queue. The daemon inherits the traps across
`fork`, the alarm not. A process keeps its number until it has been waited for,
after which it can be given to another. Left out are the text of the log, the
user switch (one of the calls that may fail in `Prepare`) and a SIGTERM sent to
a launcher; the SIGINT of the terminal is there.

### Indication and Gpio

`Gpio` has the calls of the driver as sets of outcomes for a pin: every call opens
a file, which may fail, and ignores the result of its write. `Indication` is the
handler thread, one pass of `INDICATION_LedControl` per LED, and requests that
change one field of a LED at any time; `INDICATION_Init` prepares the pins, which
a killed run may have left exported and high, call by call. A call for one LED is
one step. `NextCount` is the counter of `ledBlinky` with its three equality tests
in the order of the code. Time is counted in units of 10 ms, the sleep of the
handler while some LED blinks (it is 100 ms otherwise). `failed` remembers whether
the last write to a pin failed, `faults` bounds how many calls do.

## Runs

| Run | Instance | Distinct states | What it shows |
|---|---|---|---|
| `remote_safety` | 3 client threads, 3 descriptors, all four kinds of garbage, debug off; symmetric in the threads | 288 000 up to symmetry | the safety invariants, `NoForeignClose`, the inductive invariant, and that `Remote` implements `Control` |
| `remote_live` | 2 client threads, 3 descriptors, garbage that does no harm at once | 155 000 | under fairness, termination completes and replaced clients go |
| `remote_debug` | as before, main and remote debug on | 288 000 | who can hold the debug mutex; when a signal is without effect |
| `wheel_safety` | 2 commands and the initial one, a replaced client | 391 000 | how commands of two writers may mix |
| `wheel_live` | 1 command after the initial one, 1 byte of noise, 1 loss, 1 crash | 875 000 | the dialogue with the controller, reports, close, and the last command, over a restart; that `Wheel` implements `Drive` |
| `motor` | 15 velocities, every degree from -365 to 365, brakes up to 300, every packet of both drivers for edge parameters, up to 2 flipped bits | 37 000 | quadrants, framing, CRC |
| `daemonize` | 2 launches, 3 process numbers | 710 000 up to symmetry | the handshake with every order of signals |
| `daemonize_aokay` | 1 launch, 2 process numbers | 258 until then | *violation*, see below |
| `indication` | 2 LEDs, times up to 2, counters modulo 4, 3 requests, 1 failing GPIO call | 831 000 | switching, blinking, closing |
| `indication_off` | 2 LEDs, times up to 3, counters modulo 6, 3 requests, no failure | 15 000 until then | *violation*, see below |
| `startup` | files of up to 4 lines of all kinds, 2 debug flags | 651 000 | options, parser, configuration |
| `gps` | no bound is needed | 190 | session and reports |

`CHECK_DEADLOCK` is off throughout: every part ends (exit, closed, a wait for a
reply that was lost, a join on a stray handle).

**Why the bounds are enough.** Three client threads are the client in control,
the one it replaced and one before that; three descriptors are the listening
socket and two connections, so that the process also runs out of them while the
old connection is leaked. Liveness needs no third thread: the interesting
situations concern the one replaced and the one in control. Two commands are the
smallest number that lets fields of the initial values, of a replaced client and
of its successor mix; with no further writer a third command adds no new order of
fields (with three, 6.3 million states, the invariant holds too). `wheel_live` has one
loss, one extra byte and one crash so that each can come before, between and
after the queries, and a motion that the restarted loop has to undo. Four lines
are a header, a pair, an indented line and one more, in any order; an error
before, after and among them. Three numbers for four processes in `daemonize`
force numbers to be reused. Two LEDs are enough because a LED influences another
one only by the length of the common sleep; a counter that wraps at 4 stands for
one that wraps at 2^32 (after 497 days of blinking); times up to 2 include equal
times, 0 and an on-time above the off-time. `motor` has every whole angle, the
speeds on both sides of every edge (0, 1, 100, 101), and two flipped bits, which
is what a 7-bit CRC detects for packets of this length.

**Fairness.** Every thread that can run is run at last (weak fairness per
thread): the calls that wait are bounded by receive timeouts of one second and
send timeouts of five. `DebugFairSpec` adds strong fairness for the handler's
`DEBUG_Print`, because a thread rests at least a millisecond between two of its
messages and so cannot overtake a waiting one for ever. `Wheel` assumes that the
controller handles what reaches it and that a command once begun is written out,
but not that replies arrive. `Indication` is fair to its handler and to the
join. `Gps` is fair to its thread, whose waits are bounded (`gps_waiting` has a
limit of 0.5 s), and assumes that a watch asked for again and again brings a
report in the end (strong fairness of `Deliver`: gpsd reports every second and
stops only after some). Peers, signals, noise, losses, crashes, requests and
failures promise nothing. There is no fairness in `Daemonize` and `Startup`;
their properties are invariants.

**Conditions in the liveness properties.** They are part of what the code does:
termination does not complete when the server joins a stray handle
(`pthread_create` failed on the very first connection), or when a client was
cancelled inside `DEBUG_Print` and took the mutex along; a signal has no effect
when it interrupted the main thread inside `DEBUG_Print`; `WHEEL_Close` does
not return when a reply was lost; the last command takes effect if nothing was
lost since the port was opened; the GPS thread reads on unless it met one of the
errors that end it; a LED blinks if its pin is an output.

## Findings

* `daemonize_aokay`: `misc/daemonize.c:140` says "Tell the parent process that
  we are A-okay", but the signal is sent before the configuration is read and the
  socket is bound (`ds2d.c:62-70`). The run shows a launcher that has reported
  success and a daemon that then fails, which is no rare case: after `chdir("/")`
  the path `../config.ini` no longer names the file beside the program.
* `indication_off`: `ledBlinky` writes the output without touching
  `typeCurrent`. A LED that was off, blinks, and is switched off while it shines
  is found to be off already and stays lit, against the comment "Turn off led."
  (`indication/indication.c:96`).

Divergences that no run is spent on, because reading shows them:
`indication/indication.h:28` says that the times of a blinking LED are "in
deciseconds.", while the handler passes every 10 ms as long as a LED blinks, so
that they count hundredths; the usage text (`misc/options.c:113`) names
`--version`, the table (`:29`) `Version`; `--port` is in the table (`:21`) but not
in the switch, whose default calls `abort()`; `GET_SPEED` has the codes of
`GET_CURRENT` (`wheels/qik.h:38`); `POLOLU_GetVariable` reads three bytes into an
array of two (`wheels/pololu.c:165`); a configuration without a device makes
`COMPORT_Init` call `strlen(NULL)` (`drivers/comport.c:23`). The last three concern
code without a caller or calls that are commented out at this commit.

## What is proved

An invariant is seldom inductive as it stands, so each component has an invariant
`IInv` that is: it holds initially, every step keeps it, and it implies what the
runs check. It is stated in `RemoteInductive`, and at the head of the other proof
modules. Each was checked with TLC before it was proved, on the
instances of the runs. In the proofs, the step that keeps `IInv` has one lemma
for each group of conjuncts and one step for each action under it; where many
actions touch few variables, an `...Effect` lemma first sums up what they can
change.

| Module | For any | Theorems and what they state |
|---|---|---|
| `RemoteProofs` | client threads, descriptors, garbage and debug options | `Invariance`, `TypeCorrect`; `Exclusion`: `OneInControl`; `Ownership`: `ControlOwnsSocket`; `BoundedLateness`: `LateAtMostOnce`; `OrderlyShutdown`: `ShutdownComplete`; `MutexDiscipline`: `HolderInPrint`; `LeaksOnlyByCancel`: `LeakOnlyByCancel`; `ClosesOwnOnly`: the action property `NoForeignClose`; `Refinement`: `ImplementsControl` |
| `WheelProofs` | number of commands, extra bytes, losses and crashes, so a line of any length | `Invariance`, `TypeCorrect`; `ReadAgainstWrite`: `BrakeNeverNewer`; `HonestStatus`: `StatusHonest`; `MatchedReplies`: `RepliesMatch`; `StableExcess`: the action property `ExcessStays`; `Refinement`: `ImplementsDrive` |
| `WheelSpeedProofs` | whole velocity (`FramedCommands`: up to 100 percent), whole degree from -360 to 360 | `Mirrored`, `SmoothSteering`, `FramedCommands` |
| `MotorProofs` | whole velocity and angle, brake, parameter byte and pololu speed | `Invariance`, `TypeCorrect`; `FramedPackets`: `Framed`; `TableDivides`: `TableIsRemainder`; `IntactAccepted`: `AcceptedIfIntact`; `Symmetry`: `MirrorSymmetric`; `SmoothQuadrants`: `Smooth` |
| `IndicationProofs` | LEDs, times, requests, failing calls, counter width | `Invariance`, `TypeCorrect`; `SwitchedLedsShow`: `SwitchedShows`; `DarkForGood`: `DarkAfterClose`; `Duty`: the action property `DutyCycle` |
| `DaemonizeProofs` | launches and process numbers | `Invariance`, `TypeCorrect`; `ConfirmedSuccess`: `SuccessConfirmed`; `MissedByTheDeadOnly`: `MissesOnlyEnded`; `Reporting`: `AlwaysReports`; `NoStranding`: `NeverStranded` |
| `StartupProofs` | flags, files of any length | `Invariance`; `FirstBadLine`: `FirstError`; `Parsed`: `ParsedAsWritten`; `Foreground`: `ForegroundIfDebugged` |
| `GpsProofs` | - | `SessionAlwaysReleased`: `SessionReleased` |

**Assumptions.** `Remote`: thread slots are not called like the other threads,
descriptors are numbers and zero is none of them, and each debug flag of a part
comes with the main one (`options.c` sets it). `Wheel`: the bounds are numbers.
`Motor`: velocities and angles
are whole, brakes positive, parameters bytes, and a pololu speed fits the two bytes
it is sent in. `Indication`: the bounds are numbers, the counter is wider than any time, and the
age at which counting stops is more than ten times any time (`BoundAssumption`);
the handler passes every LED of its list once, and the list has at least one
(`OrderAssumption`); the times the handler gives the blue LED are positive
and in order (`PeriodAssumption`). `Daemonize`: the number of init and the mark
for no number are no process's. All other modules assume nothing.

### Remote

`OneInControl` is not inductive: it does not say that the
thread in control is the one whose handle the server holds, so nothing would
keep the server from cancelling another one. `HandleIsControl` says that.
`NobodyInControl` says that from the cancel to the create nobody has control,
which makes the create safe. `FlagCoversControl` says that `REMOTE_ClientRun` is
set wherever the server tests it while a client has control, so that at shutdown
it never skips the join. `ControlOwnsSocket` needs `NewIsFresh` (the connection in the
server's hand is open and is not the one in use) and `ListeningSocket` (which
keeps the listening socket apart from both). `ShutdownOrder` follows main through
its last steps; `LateCount` ties the number of late commands to the label, so
that one more parse would need a cancellation point to be passed. `HolderInPrint` is
inductive with the types. Together they are `IInv`, which run `remote_safety`
checks as well. `LeakOnlyByCancel` needs one thing more, `CancelledKeepSlot`: no
other client takes the slot of a cancelled one as long as the server creates any,
so that the connection it leaked stays accounted for, and the server holds its
handle only until it has assigned the next.

The refinement maps each action to one of `Control` or to a stutter:
`PthreadCancel` and the end of a client's loop to `Release`, `Assign` to
`Select`, `CreateClient` to `Grant`, `Exit` to `Exit`, failures to `Abort`.

### Wheel

`BrakeNeverNewer` compares values that were read at three moments with values
that were written at three others. `WriteOrder` says what holds of the globals
between two stores: the brake is not newer than what was stored before it.
`ReadOrder` says the same of what has been read and what is still to be read,
with values of the replaced client excepted (`IsLate`); there is one such command,
so nothing more is needed about it.

The dialogue rests on counting. `Outstanding` counts the replies unread and the
queries not yet answered. Without loss it is exactly `excess` plus one while the
thread waits (`ExcessExact`), and with losses at most that (`ExcessBounded`);
`Orphaned` is what the first connection after a crash may find: the reply to a
run that was killed in a wait. Without excess there is therefore at most one
reply or query on the line, and `Aligned` says that it is for the query in hand;
`RepliesMatch` follows. `StatusHonest` needs two arguments: the packets on the
line are what brings the motors to what the thread has on record (`Settles`,
`RecordSettles`), and the line keeps the order, so that a reply proves that
everything sent before its query has been handled (`ReplyConfirms`). The lemmas on
`Queries` and `Settles` say how both change when a packet is appended or taken
from the front. The types of all variables (`TypeCorrect`) are proved and in no run.

The refinement needs `InRound`: on a sound line the packets of the round are the
last ones, M0's before M1's, with the decision in them, and before the thread exists
nothing is decided or reported. With it each step of `Wheel` is one of `Drive` or a
stutter: sending the packet to M0 decides (`SendingIsDeciding`), the controller
taking a motor packet moves that motor, or drifts while packets from before the port
was opened are left (`HandlingIsMoving`), publishing reports, opening the port is
`Open`, giving it up and a crash are `Close`, noise and loss are `Fault`.

### WheelSpeed and Motor

The theorems of `WheelSpeedProofs` are about the operators. `Arms` gives each of the
eight tests of the angle its result, `CeilBounds` brackets `CeilDiv`, and `TurnNear`
says how much `Turn` changes in a degree; `Mirrored`, `SmoothSteering` and
`FramedCommands` follow by going through the quadrants. `MotorProofs` carries them over
to the program: its invariant says that the locals of `WHEEL_ControlSpeed` hold what
these operators give for the command, that packets are bytes, at most five of them when the CRC covers all, and that the running
CRC is the remainder of the bytes so far. Velocities beyond 100
percent are in `Smooth` and `MirrorSymmetric`, angles beyond a full turn leave the
speeds at 0 (`BeyondTurn`).

`TableIsRemainder` compares a loop over a table with a division bit by bit. A byte is
the sum of its bits and `Exor` adds bits modulo 2 (`FromBits`, `ToBits`, `ExorBits`),
so that eight steps of `Halve` give each bit of the remainder as a sum of bits of the
byte (`HalveBits`, `DivideBits`); every entry of the table is that sum
(`TableValue`, `TableIsDivision`). The functions that `crcGet` and `Remainders` define
recursively exist and are the same one (`Solution`, `RemaindersLoop`,
`crcGetRemainder`), by induction over the rounds, which `Rounds` has from the
well-foundedness of `<`.

For `AcceptedIfIntact` the division is linear (`DivideLinear`), so that the difference
between the values of the sender and the receiver is what the flipped bits alone
leave behind. A single bit leaves one of the eight values of `Echo` for each round
after it (`EchoStart`, `EchoStep`); up to five rounds on, none of them is 0, a single bit
or what the polynomial would cancel with one (`EchoClean`, `EchoAndBit`), so that a
second bit never cancels it, in a byte of the packet or in the CRC (`Detected`,
`Rejected`). The five bytes are why `Divided` bounds the packets: for much longer ones
two flipped bits can go unnoticed.

### Indication, Daemonize, Startup, Gps

*Indication.* `SwitchedShows` needs `Showing`: `typeCurrent` is what the handler
found last unless that was to blink, and a LED that has not blinked shows
it. `DutyCycle` needs `Phases`: the counter of a LED that blinks undisturbed and the
age of its period go together, with the counter one ahead between the LED's turn
in the pass and the sleep. `BluePeriod` is what the handler's own start gives.

*Daemonize.* `TrappedInTime` says that the launcher's traps are set before there is
a daemon or an alarm whose signal could kill it; `Confirmed` follows each
SIGUSR1 back to a daemon. `TargetIsParent` says that the number a daemon has found
out is its launcher's for as long as the launcher lives (afterwards the number
may be given away, and then `Misled` has its case).

*Startup.* The reference of `ParsedAsWritten` and `FirstError` looks at the whole
file, the parser at one line. `Reader` says that the section and the name it
remembers are what the reference says of the lines before; the `...Stable` lemmas
say that a new line at the end changes nothing about those, and `Effect` what it
adds. Least and greatest line numbers are had from the well-foundedness of `<`.

*Gps.* The session is open exactly between `gps_open` and `gps_close`.

**Only model-checked.** All liveness (`TerminateCompletes`, `CancelledGone`,
`SignalTakesEffect`, `LastCommandTakesEffect`, both `CloseReturns`, `KeepsReading`,
`Blinks`): fairness and ENABLED are out of the prover's reach. That the double arithmetic of the code
agrees with the exact one in `WheelSpeed` is argued in its header and is neither
checked nor proved.

## What is not modelled

The PWM driver: nothing calls it, and `PWM_Init` cannot work at this commit (a
missing comma at `drivers/pwm.c:53` joins the format of its third `sprintf` with
the first argument, so that `%s` is given an int). `COMPORT_Disconnect`,
`GPIO_Unexport`, `GPIO_SetEdge` and `GPIO_GetValue`: no caller. The
termios settings of `COMPORT_Connect` (its steps and failures are modelled), the
characters of a configuration line beyond its kind (inline comments, a byte order
mark, names cut at 50 characters, a line above 199 characters that `fgets`
returns in parts and that counts as several), `DEBUG_Print` in the drive loop,
the GPS client and the LED handler (`Remote` has the mutex). Of the qik driver the
functions without a caller appear in `Packet` only; of the syslog writer in
`daemonize.c`, which nothing calls, nothing does.

## Plan

Done: `Startup`; `Daemonize`; `Remote`, `Control`, `RemoteControl`,
`RemoteInductive`, `RemoteProofs`; `Wheel`, `Drive`, `WheelDrive`, `WheelProofs`;
`WheelSpeed`, `Packet`, `Motor`; `Indication`, `Gpio`; `Gps`. Proofs of all their
invariants and action properties and of both refinements.

Left: the liveness properties, once a prover handles fairness; the parts that
nothing calls, when `main` calls them.
