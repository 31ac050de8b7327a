---------------------------- MODULE WheelProofs ----------------------------
(* Theorems about Wheel, for every number of commands, crashes and losses. *)
EXTENDS WheelDrive, FiniteSetTheorems, SequenceTheorems, TLAPS

(* The strengthening of the invariants that every step keeps. *)

\* The thread exists from Start to Join; before, nothing has been read.
LifeCycle ==
  /\ main \in {"init", "opened", "connected", "failed"} => pc = "unborn"
  /\ main \in {"started", "join"} => pc # "unborn"
  /\ main = "closed" => pc = "done"
  /\ pc = "unborn" => query = 1 /\ reading = [q \in Query |-> 0]

\* No value is from a command that has not been given.
FromCommands ==
  /\ \A f \in Field : ds2_data[f] <= cmd /\ local[f] <= cmd
  /\ wpc # "idle" => cmd > 0
  /\ lpc # "idle" => late > 0

\* Value v is what the replaced client wrote.
IsLate(v) == late > 0 /\ v = late

\* Speed and angle are stored before the brake, by either client.
WriteOrder ==
  /\ \A f \in {"speed", "angle"} : ds2_data["brake"] <= ds2_data[f] \/ IsLate(ds2_data[f])
  /\ wpc \in {"angle", "brake"} => ds2_data["speed"] = cmd \/ IsLate(ds2_data["speed"])
  /\ wpc = "brake" => ds2_data["angle"] = cmd \/ IsLate(ds2_data["angle"])
  /\ lpc \in {"angle", "brake"} => late <= ds2_data["speed"]
  /\ lpc = "brake" => late <= ds2_data["angle"]

\* The brake is read before the speed and the angle: what was read fits the brake
\* and what is still to be read does.
ReadOrder ==
  /\ pc \in {"angle"} \cup Motor =>
       local["brake"] <= local["speed"] \/ IsLate(local["speed"])
  /\ pc \in Motor =>
       local["brake"] <= local["angle"] \/ IsLate(local["angle"])
  /\ pc = "speed" =>
       local["brake"] <= ds2_data["speed"] \/ IsLate(ds2_data["speed"])
  /\ pc \in {"speed", "angle"} =>
       local["brake"] <= ds2_data["angle"] \/ IsLate(ds2_data["angle"])

\* Whether the thread waits for a reply, whether an earlier run may have.
Awaited == IF pc = "await" THEN 1 ELSE 0
Orphaned == IF crashes = 0 THEN 0 ELSE 1

\* Replies that nobody waits for come from noise and, one each, from the runs that
\* were killed in the middle of a wait.
ExcessBounded ==
  /\ excess <= MaxNoise + crashes
  /\ Outstanding <= excess + 1
  /\ main \in {"init", "opened"} =>
       Outstanding <= excess + Orphaned /\ excess + Orphaned <= MaxNoise + crashes
  /\ Open => Outstanding <= excess + Awaited

\* What is outstanding is exactly accounted for as long as nothing is lost.
ExcessExact == Open /\ lost = 0 => Outstanding = excess + Awaited

\* Without excess, what the line carries answers the query in hand.
Aligned ==
  excess = 0 /\ pc # "unborn" =>
    /\ \A i \in 1..Len(rx) : rx[i] = query
    /\ \A i \in 1..Len(tx) : tx[i].to = "query" => tx[i].motion = query

\* The last of packets for motor m is motion v, or m has it already and none is
\* under way.
Settles(packets, motions, m, v) ==
  \/ /\ motions[m] = v
     /\ \A i \in 1..Len(packets) : packets[i].to # m
  \/ \E i \in 1..Len(packets) :
       /\ packets[i].to = m /\ packets[i].motion = v
       /\ \A j \in (i + 1)..Len(packets) : packets[j].to # m

\* Without loss, the motors come to what the thread has on record.
RecordSettles ==
  lost = 0 =>
    /\ pc = "M1" => Settles(tx, motor, "M0", Decision)
    /\ pc \in {"ask", "await", "publish"} =>
         \A m \in Motor : Settles(tx, motor, m, WHEEL_Data)

\* Without loss and excess, the reply in hand is the proof that everything sent
\* before the query has been handled.
ReplyConfirms ==
  lost = 0 /\ excess = 0 =>
    /\ pc = "await" /\ rx # <<>> => tx = <<>>
    /\ pc = "await" /\ rx = <<>> => tx # <<>> /\ tx[Len(tx)].to = "query"
    /\ pc = "publish" => tx = <<>>
    /\ pc \in {"test", "done", "M0"} \cup Field /\ reading[3] # 0 => tx = <<>>

\* On a sound line the packets of the round are sent in order and the last ones:
\* M0's first, then M1's, and only a query can follow.  Before the thread exists,
\* nothing is decided or reported.
InRound ==
  /\ pc = "unborn" => WHEEL_Data = Halt /\ status = Halt
  /\ Sound /\ pc = "M1" =>
       (Left >= 1 => tx[Left] = [to |-> "M0", motion |-> Decision])
  /\ Sound /\ pc \in {"ask", "await", "publish"} =>
       /\ Left >= 1 => tx[Left] = [to |-> "M1", motion |-> WHEEL_Data]
       /\ Left >= 2 => tx[Left - 1] = [to |-> "M0", motion |-> WHEEL_Data]

\* The inductive invariant of Wheel.
IInv ==
  /\ TypeOK
  /\ LifeCycle
  /\ FromCommands /\ WriteOrder /\ ReadOrder
  /\ ExcessBounded /\ ExcessExact
  /\ Aligned /\ RepliesMatch
  /\ RecordSettles /\ ReplyConfirms /\ StatusHonest
  /\ InRound

-----------------------------------------------------------------------------

\* The queries among packets are finitely many.
LEMMA QueriesFinite ==
  ASSUME NEW S, NEW s \in Seq(S)
  PROVE  IsFiniteSet(Queries(s)) /\ Cardinality(Queries(s)) \in Nat
<1>1. Len(s) \in Nat
  OBVIOUS
<1>2. IsFiniteSet(1..Len(s))
  BY <1>1, FS_Interval
<1>3. Queries(s) \in SUBSET (1..Len(s))
  BY DEF Queries
<1> QED
  BY <1>2, <1>3, FS_Subset, FS_CardinalityType

\* One more packet is one more query or none.
LEMMA QueriesAppend ==
  ASSUME NEW S, NEW s \in Seq(S), NEW p \in S
  PROVE  Cardinality(Queries(Append(s, p))) =
           Cardinality(Queries(s)) + (IF p.to = "query" THEN 1 ELSE 0)
<1> DEFINE t == Append(s, p)
           n == Len(s) + 1
<1>1. /\ Len(s) \in Nat /\ Len(t) = n
      /\ \A i \in 1..Len(s) : t[i] = s[i]
      /\ t[n] = p
  OBVIOUS
<1>2. n \notin Queries(s)
  BY <1>1 DEF Queries
<1>3. CASE p.to = "query"
  <2>1. Queries(t) = Queries(s) \cup {n}
    BY <1>1, <1>3 DEF Queries
  <2> QED
    BY <1>2, <1>3, <2>1, QueriesFinite, FS_AddElement
<1>4. CASE p.to # "query"
  <2>1. Queries(t) = Queries(s)
    BY <1>1, <1>4 DEF Queries
  <2> QED
    BY <1>4, <2>1, QueriesFinite
<1> QED
  BY <1>3, <1>4

\* The first packet taken away is one query less or none.
LEMMA QueriesTail ==
  ASSUME NEW S, NEW s \in Seq(S), s # <<>>
  PROVE  Cardinality(Queries(Tail(s))) =
           Cardinality(Queries(s)) - (IF Head(s).to = "query" THEN 1 ELSE 0)
<1> DEFINE t == Tail(s)
           R == Queries(s) \ {1}
           f == [i \in R |-> i - 1]
<1>1. /\ Len(s) \in Nat \ {0} /\ Len(t) = Len(s) - 1 /\ t \in Seq(S)
      /\ \A i \in 1..Len(t) : t[i] = s[i + 1]
      /\ Head(s) = s[1]
  OBVIOUS
<1>2. IsFiniteSet(R) /\ Cardinality(R) = Cardinality(Queries(s)) - (IF 1 \in Queries(s) THEN 1 ELSE 0)
  BY QueriesFinite, FS_RemoveElement
<1>3. 1 \in Queries(s) <=> Head(s).to = "query"
  BY <1>1 DEF Queries
<1>4. f \in Bijection(R, Queries(t))
  <2>1. \A i \in R : i \in 2..Len(s) /\ s[i].to = "query"
    BY <1>1 DEF Queries
  <2>2. \A i \in R : i - 1 \in Queries(t)
    BY <1>1, <2>1 DEF Queries
  <2>3. \A j \in Queries(t) : j + 1 \in R /\ (j + 1) - 1 = j
    BY <1>1 DEF Queries
  <2>4. f \in [R -> Queries(t)]
    BY <2>2
  <2>5. \A i, j \in R : f[i] = f[j] => i = j
    BY <2>1
  <2>6. \A j \in Queries(t) : f[j + 1] = j
    BY <2>3
  <2> QED
    BY <2>3, <2>4, <2>5, <2>6 DEF Bijection, Injection, Surjection, IsInjective
<1>5. Cardinality(Queries(t)) = Cardinality(R)
  BY <1>2, <1>4, FS_Bijection DEF ExistsBijection
<1> QED
  BY <1>2, <1>3, <1>5

\* What is kept of the packets has at most as many queries.
LEMMA QueriesPrefix ==
  ASSUME NEW S, NEW s \in Seq(S), NEW k \in 0..Len(s)
  PROVE  /\ SubSeq(s, 1, k) \in Seq(S)
         /\ Cardinality(Queries(SubSeq(s, 1, k))) <= Cardinality(Queries(s))
<1> DEFINE t == SubSeq(s, 1, k)
<1>1. t \in Seq(S) /\ Len(t) = k /\ \A i \in 1..k : t[i] = s[i]
  BY SubSeqProperties
<1>2. Queries(t) \in SUBSET Queries(s)
  BY <1>1 DEF Queries
<1> QED
  BY <1>1, <1>2, QueriesFinite, FS_Subset

-----------------------------------------------------------------------------
\* The bounds are numbers.
LEMMA Bounds ==
  MaxCommand \in Nat /\ MaxNoise \in Nat /\ MaxLost \in Nat /\ MaxCrash \in Nat
BY BoundAssumption

\* What can be sent is a packet, and what is lost is counted.
LEMMA SendType ==
  ASSUME TypeOK, NEW p \in Packet, Send(p)
  PROVE  tx' \in Seq(Packet) /\ lost' \in 0..MaxLost
<1>1. tx \in Seq(Packet) /\ Append(tx, p) \in Seq(Packet)
  BY AppendProperties DEF TypeOK
<1>2. lost \in 0..MaxLost /\ (lost < MaxLost => lost + 1 \in 0..MaxLost)
  BY Bounds DEF TypeOK
<1> QED
  BY <1>1, <1>2 DEF Send

\* The decision is a motion.
LEMMA DecisionType ==
  ASSUME TypeOK
  PROVE  /\ Decision \in Motion
         /\ \A m \in Motor : [to |-> m, motion |-> Decision] \in Packet
         /\ [to |-> "query", motion |-> query] \in Packet
<1>1. 0 \in Command
  BY Bounds DEF Command
<1>2. Decision \in Motion
  BY <1>1 DEF TypeOK, Decision, DecisionOf, BrakeOf, DriveOf, Motion, Field
<1> QED
  BY <1>2 DEF TypeOK, Packet

\* Every step keeps the types.
LEMMA TypeStep ==
  ASSUME TypeOK, [Next]_vars
  PROVE  TypeOK'
<1> USE Bounds DEF TypeOK, Command, Goto, command, thread, control, line
<1>1. CASE NewCommand
  BY <1>1 DEF NewCommand, Field
<1>2. CASE WriteField
  BY <1>2 DEF WriteField, Field, Following, FieldAfter
<1>3. CASE Replaced
  BY <1>3 DEF Replaced
<1>4. CASE LateField
  BY <1>4 DEF LateField, Field, Following, FieldAfter
<1>5. CASE WHEEL_Init
  BY <1>5 DEF WHEEL_Init
<1>6. CASE COMPORT_Connect
  <2>1. tx' \in Seq(Packet)
    BY <1>6, QueriesPrefix DEF COMPORT_Connect
  <2>2. rx' \in Seq(Query \cup {0})
    BY <1>6, EmptySeq DEF COMPORT_Connect
  <2>3. Outstanding' \in Nat
    BY <2>1, <2>2, QueriesFinite, LenProperties DEF Outstanding
  <2>4. excess' \in Nat /\ lost' \in 0..MaxLost
    BY <1>6, <2>3 DEF COMPORT_Connect
  <2>5. main' \in {"connected", "failed"}
    BY <1>6 DEF COMPORT_Connect
  <2> QED
    BY <1>6, <2>1, <2>2, <2>4, <2>5 DEF COMPORT_Connect
<1>7. CASE Start
  BY <1>7 DEF Start
<1>8. CASE WHEEL_Close
  BY <1>8 DEF WHEEL_Close
<1>9. CASE Join
  BY <1>9 DEF Join
<1>10. CASE Crash
  <2>1. Halt \in Motion
    BY DEF Halt, Motion
  <2>2. 1 \in Query
    BY DEF Query
  <2>3. crashes' \in 0..MaxCrash
    BY <1>10 DEF Crash
  <2>4. ds2_data' \in [Field -> Command] /\ local' \in [Field -> Command]
    BY <1>10 DEF Crash
  <2>5. reading' \in [Query -> Query \cup {0}]
    BY <1>10 DEF Crash
  <2> QED
    BY <1>10, <2>1, <2>2, <2>3, <2>4, <2>5 DEF Crash
<1>11. CASE LoopTest
  BY <1>11 DEF LoopTest, Field
<1>12. CASE ReadField
  BY <1>12 DEF ReadField, ReadNext, Field, Motor
<1>13. CASE WHEEL_ControlSpeed
  <2>1. tx' \in Seq(Packet) /\ lost' \in 0..MaxLost
    BY <1>13, SendType, DecisionType DEF WHEEL_ControlSpeed, Motor
  <2>2. WHEEL_Data' \in Motion /\ local' \in [Field -> Command]
    BY <1>13, DecisionType DEF WHEEL_ControlSpeed
  <2>3. pc' \in {"M1", "ask"}
    BY <1>13 DEF WHEEL_ControlSpeed
  <2> QED
    BY <1>13, <2>1, <2>2, <2>3 DEF WHEEL_ControlSpeed, Motor
<1>14. CASE QIK_GetCommand
  BY <1>14, SendType, DecisionType DEF QIK_GetCommand
<1>15. CASE COMPORT_Receive
  <2>1. Head(rx) \in Query \cup {0} /\ rx' \in Seq(Query \cup {0})
    BY <1>15, HeadTailProperties DEF COMPORT_Receive
  <2>2. query' \in Query
    BY <1>15 DEF COMPORT_Receive, Store, Query
  <2> QED
    BY <1>15, <2>1, <2>2 DEF COMPORT_Receive, Store
<1>16. CASE Publish
  BY <1>16 DEF Publish
<1>17. CASE ControllerStep
  <2>1. Head(tx) \in Packet /\ tx' \in Seq(Packet)
    BY <1>17, HeadTailProperties DEF ControllerStep
  <2>2. CASE Head(tx).to = "query"
    <3>1. Head(tx).motion \in Query
      BY <2>1, <2>2 DEF Packet, Motor
    <3>2. rx' \in Seq(Query \cup {0})
      <4> DEFINE b == Head(tx).motion
      <4>1. b \in Query \cup {0}
        BY <3>1
      <4>2. Append(rx, b) \in Seq(Query \cup {0})
        BY <4>1, AppendProperties
      <4> QED
        BY <1>17, <2>2, <4>2 DEF ControllerStep
    <3>3. lost' \in 0..MaxLost
      BY <1>17, <2>2 DEF ControllerStep
    <3> QED
      BY <1>17, <2>1, <2>2, <3>2, <3>3 DEF ControllerStep
  <2>3. CASE Head(tx).to # "query"
    <3>1. Head(tx).to \in Motor /\ Head(tx).motion \in Motion
      BY <2>1, <2>3 DEF Packet
    <3> QED
      BY <1>17, <2>1, <2>3, <3>1 DEF ControllerStep
  <2> QED
    BY <2>2, <2>3
<1>18. CASE LineNoise
  <2>1. rx' \in Seq(Query \cup {0})
    BY <1>18, AppendProperties DEF LineNoise
  <2> QED
    BY <1>18, <2>1 DEF LineNoise
<1>19. CASE UNCHANGED vars
  BY <1>19 DEF vars
<1> QED
  BY <1>1, <1>2, <1>3, <1>4, <1>5, <1>6, <1>7, <1>8, <1>9, <1>10, <1>11, <1>12, <1>13,
     <1>14, <1>15, <1>16, <1>17, <1>18, <1>19 DEF Next, ThreadStep

-----------------------------------------------------------------------------
\* Where the thread is while main goes through WHEEL_Init and WHEEL_Close.
LEMMA LifeCycleStep ==
  ASSUME TypeOK, LifeCycle, [Next]_vars
  PROVE  LifeCycle'
<1> USE DEF LifeCycle, Goto, command, thread, control, line, Field, Motor
<1>1. CASE NewCommand
  BY <1>1 DEF NewCommand
<1>2. CASE WriteField
  BY <1>2 DEF WriteField
<1>3. CASE Replaced
  BY <1>3 DEF Replaced
<1>4. CASE LateField
  BY <1>4 DEF LateField
<1>5. CASE WHEEL_Init
  BY <1>5 DEF WHEEL_Init
<1>6. CASE COMPORT_Connect
  BY <1>6 DEF COMPORT_Connect
<1>7. CASE Start
  BY <1>7 DEF Start
<1>8. CASE WHEEL_Close
  BY <1>8 DEF WHEEL_Close
<1>9. CASE Join
  BY <1>9 DEF Join
<1>10. CASE Crash
  BY <1>10 DEF Crash
<1>11. CASE LoopTest
  BY <1>11 DEF LoopTest, TypeOK
<1>12. CASE ReadField
  BY <1>12 DEF ReadField, ReadNext, TypeOK
<1>13. CASE WHEEL_ControlSpeed
  BY <1>13 DEF WHEEL_ControlSpeed, TypeOK
<1>14. CASE QIK_GetCommand
  BY <1>14 DEF QIK_GetCommand, TypeOK
<1>15. CASE COMPORT_Receive
  BY <1>15 DEF COMPORT_Receive, Store, TypeOK
<1>16. CASE Publish
  BY <1>16 DEF Publish, TypeOK
<1>17. CASE ControllerStep
  BY <1>17 DEF ControllerStep
<1>18. CASE LineNoise
  BY <1>18 DEF LineNoise
<1>19. CASE UNCHANGED vars
  BY <1>19 DEF vars
<1> QED
  BY <1>1, <1>2, <1>3, <1>4, <1>5, <1>6, <1>7, <1>8, <1>9, <1>10, <1>11, <1>12, <1>13,
     <1>14, <1>15, <1>16, <1>17, <1>18, <1>19 DEF Next, ThreadStep

-----------------------------------------------------------------------------
\* What a step can do to the command and to the thread's copy of it.
LEMMA CommandEffect ==
  ASSUME TypeOK, [Next]_vars
  PROVE  \/ NewCommand \/ WriteField \/ Replaced \/ LateField \/ Crash \/ ReadField
         \/ /\ UNCHANGED command
            /\ \/ local' = local
               \/ local' = [f \in Field |-> 0] /\ pc' = "ask"
            /\ pc' \in {pc, "unborn", "test", "brake", "M1", "ask", "await", "publish", "done"}
            /\ pc' = "M1" => pc \in Motor
<1> USE DEF Goto, Motor, command, thread, control, line
<1>5. CASE WHEEL_Init
  BY <1>5 DEF WHEEL_Init
<1>6. CASE COMPORT_Connect
  BY <1>6 DEF COMPORT_Connect
<1>7. CASE Start
  BY <1>7 DEF Start
<1>8. CASE WHEEL_Close
  BY <1>8 DEF WHEEL_Close
<1>9. CASE Join
  BY <1>9 DEF Join
<1>11. CASE LoopTest
  BY <1>11 DEF LoopTest
<1>13. CASE WHEEL_ControlSpeed
  BY <1>13 DEF WHEEL_ControlSpeed, Motor
<1>14. CASE QIK_GetCommand
  BY <1>14 DEF QIK_GetCommand
<1>15. CASE COMPORT_Receive
  BY <1>15 DEF COMPORT_Receive, Store
<1>16. CASE Publish
  BY <1>16 DEF Publish
<1>17. CASE ControllerStep
  BY <1>17 DEF ControllerStep
<1>18. CASE LineNoise
  BY <1>18 DEF LineNoise
<1>19. CASE UNCHANGED vars
  BY <1>19 DEF vars
<1> QED
  BY <1>5, <1>6, <1>7, <1>8, <1>9, <1>11, <1>13,
     <1>14, <1>15, <1>16, <1>17, <1>18, <1>19 DEF Next, ThreadStep

\* The fields of the command and of the copy are numbers.
LEMMA CommandNumbers ==
  ASSUME TypeOK
  PROVE  /\ cmd \in Nat /\ late \in Nat /\ late <= cmd
         /\ \A f \in Field : ds2_data[f] \in Nat /\ local[f] \in Nat
         /\ ds2_data \in [Field -> Nat] /\ local \in [Field -> Nat]
BY Bounds DEF TypeOK, Command

\* Values come from commands that have been given.
LEMMA FromCommandsStep ==
  ASSUME TypeOK, FromCommands, [Next]_vars
  PROVE  FromCommands'
<1> USE CommandNumbers DEF FromCommands, Goto, command, thread, control, line
<1>1. CASE NewCommand
  BY <1>1 DEF NewCommand
<1>2. CASE WriteField
  BY <1>2 DEF WriteField, Following, FieldAfter, Field, TypeOK
<1>3. CASE Replaced
  BY <1>3 DEF Replaced
<1>4. CASE LateField
  BY <1>4 DEF LateField, Following, FieldAfter, Field, TypeOK
<1>5. CASE Crash
  BY <1>5 DEF Crash
<1>6. CASE ReadField
  BY <1>6 DEF ReadField
<1>7. CASE UNCHANGED command /\ (local' = local \/ local' = [f \in Field |-> 0])
  BY <1>7
<1> QED
  BY <1>1, <1>2, <1>3, <1>4, <1>5, <1>6, <1>7, CommandEffect

\* Either client has stored speed and angle when it stores the brake.
LEMMA WriteOrderStep ==
  ASSUME TypeOK, FromCommands, WriteOrder, [Next]_vars
  PROVE  WriteOrder'
<1> USE CommandNumbers DEF FromCommands, WriteOrder, IsLate, Field, command, thread, control, line
<1>1. CASE NewCommand
  BY <1>1 DEF NewCommand
<1>2. CASE WriteField
  BY <1>2 DEF WriteField, Following, FieldAfter, TypeOK
<1>3. CASE Replaced
  BY <1>3 DEF Replaced
<1>4. CASE LateField
  BY <1>4 DEF LateField, Following, FieldAfter, TypeOK
<1>5. CASE Crash
  BY <1>5 DEF Crash
<1>6. CASE UNCHANGED command
  BY <1>6
<1> QED
  BY <1>1, <1>2, <1>3, <1>4, <1>5, <1>6, CommandEffect DEF ReadField

\* The thread reads against the order of storing.
LEMMA ReadOrderStep ==
  ASSUME TypeOK, FromCommands, WriteOrder, ReadOrder, [Next]_vars
  PROVE  ReadOrder'
<1> USE CommandNumbers DEF FromCommands, ReadOrder, IsLate, Field, Motor, Goto, command, thread, control, line
<1>1. CASE NewCommand
  BY <1>1 DEF NewCommand
<1>2. CASE WriteField
  BY <1>2 DEF WriteField, TypeOK
<1>3. CASE Replaced
  BY <1>3 DEF Replaced
<1>4. CASE LateField
  BY <1>4 DEF LateField, TypeOK
<1>5. CASE Crash
  BY <1>5 DEF Crash
<1>6. CASE ReadField
  BY <1>6 DEF ReadField, ReadNext, WriteOrder
<1>7. CASE UNCHANGED command /\ (local' = local \/ pc' = "ask")
           /\ pc' \in {pc, "unborn", "test", "brake", "M1", "ask", "await", "publish", "done"}
           /\ (pc' = "M1" => pc \in Motor)
  BY <1>7
<1> QED
  BY <1>1, <1>2, <1>3, <1>4, <1>5, <1>6, <1>7, CommandEffect

-----------------------------------------------------------------------------
\* Outstanding is a number.
LEMMA OutstandingNat ==
  ASSUME TypeOK
  PROVE  Outstanding \in Nat /\ Len(rx) \in Nat /\ Cardinality(Queries(tx)) \in Nat
BY QueriesFinite, LenProperties DEF TypeOK, Outstanding

\* Sending a motor packet leaves no reply to come; sending a query one, unless the
\* line loses it.
LEMMA SendEffect ==
  ASSUME TypeOK, NEW p \in Packet, Send(p), rx' = rx
  PROVE  \/ lost' = lost /\ Outstanding' = Outstanding + (IF p.to = "query" THEN 1 ELSE 0)
         \/ lost' = lost + 1 /\ Outstanding' = Outstanding
<1>1. CASE tx' = Append(tx, p) /\ lost' = lost
  <2>1. Cardinality(Queries(tx')) = Cardinality(Queries(tx)) + (IF p.to = "query" THEN 1 ELSE 0)
    BY <1>1, QueriesAppend DEF TypeOK
  <2> QED
    BY <1>1, <2>1, OutstandingNat DEF Outstanding
<1>2. CASE lost' = lost + 1 /\ tx' = tx
  BY <1>2 DEF Outstanding
<1> QED
  BY <1>1, <1>2 DEF Send

\* Steps that do not touch what is outstanding.
LEMMA LineUntouched ==
  ASSUME TypeOK, [Next]_vars
  PROVE  \/ QIK_GetCommand \/ COMPORT_Receive \/ ControllerStep \/ LineNoise \/ COMPORT_Connect
         \/ /\ Outstanding' = Outstanding
            /\ excess' = excess
            /\ lost' \in {lost, lost + 1}
<1> USE DEF command, thread, control, line, Outstanding
<1>1. CASE NewCommand
  BY <1>1 DEF NewCommand
<1>2. CASE WriteField
  BY <1>2 DEF WriteField
<1>3. CASE Replaced
  BY <1>3 DEF Replaced
<1>4. CASE LateField
  BY <1>4 DEF LateField
<1>5. CASE WHEEL_Init
  BY <1>5 DEF WHEEL_Init
<1>7. CASE Start
  BY <1>7 DEF Start
<1>8. CASE WHEEL_Close
  BY <1>8 DEF WHEEL_Close
<1>9. CASE Join
  BY <1>9 DEF Join
<1>10. CASE Crash
  BY <1>10 DEF Crash
<1>11. CASE LoopTest
  BY <1>11 DEF LoopTest
<1>12. CASE ReadField
  BY <1>12 DEF ReadField
<1>13. CASE WHEEL_ControlSpeed
  <2>1. PICK m \in Motor : Send([to |-> m, motion |-> Decision])
    BY <1>13 DEF WHEEL_ControlSpeed, Motor
  <2>2. [to |-> m, motion |-> Decision] \in Packet /\ m # "query"
    BY DecisionType DEF Motor
  <2> QED
    BY <1>13, <2>1, <2>2, SendEffect, OutstandingNat DEF WHEEL_ControlSpeed
<1>16. CASE Publish
  BY <1>16 DEF Publish
<1>19. CASE UNCHANGED vars
  BY <1>19 DEF vars
<1> QED
  BY <1>1, <1>2, <1>3, <1>4, <1>5, <1>7, <1>8, <1>9, <1>10, <1>11, <1>12, <1>13,
     <1>16, <1>19 DEF Next, ThreadStep

\* QIK_GetCommand adds one, unless the line loses it.
LEMMA AskEffect ==
  ASSUME TypeOK, QIK_GetCommand
  PROVE  /\ excess' = excess
         /\ \/ lost' = lost /\ Outstanding' = Outstanding + 1
            \/ lost' = lost + 1 /\ Outstanding' = Outstanding
<1>1. [to |-> "query", motion |-> query] \in Packet
  BY DecisionType
<1> QED
  BY <1>1, SendEffect DEF QIK_GetCommand

\* COMPORT_Receive takes one.
LEMMA ReceiveEffect ==
  ASSUME TypeOK, COMPORT_Receive
  PROVE  /\ excess' = excess /\ lost' = lost
         /\ Outstanding' = Outstanding - 1
         /\ Outstanding > 0
<1>1. Len(rx') = Len(rx) - 1 /\ Len(rx) > 0
  BY HeadTailProperties, EmptySeq, LenProperties DEF COMPORT_Receive, TypeOK
<1> QED
  BY <1>1, OutstandingNat DEF COMPORT_Receive, Outstanding

\* The controller turns a query into a reply, unless the line loses it.
LEMMA ControllerEffect ==
  ASSUME TypeOK, ControllerStep
  PROVE  /\ excess' = excess
         /\ \/ lost' = lost /\ Outstanding' = Outstanding
            \/ lost' = lost + 1 /\ Outstanding' = Outstanding - 1
<1>1. Head(tx) \in Packet
  BY HeadTailProperties DEF ControllerStep, TypeOK
<1>2. Cardinality(Queries(tx')) =
        Cardinality(Queries(tx)) - (IF Head(tx).to = "query" THEN 1 ELSE 0)
  BY QueriesTail DEF ControllerStep, TypeOK
<1>3. CASE Head(tx).to = "query"
  <2> DEFINE b == Head(tx).motion
  <2>1. b \in Query \cup {0}
    BY <1>1, <1>3 DEF Packet, Motor
  <2>2. Len(Append(rx, b)) = Len(rx) + 1
    BY <2>1, AppendProperties DEF TypeOK
  <2>3. \/ rx' = Append(rx, b) /\ lost' = lost
        \/ rx' = rx /\ lost' = lost + 1
    BY <1>3 DEF ControllerStep
  <2> QED
    BY <1>2, <1>3, <2>2, <2>3, OutstandingNat DEF ControllerStep, Outstanding
<1>4. CASE Head(tx).to # "query"
  BY <1>2, <1>4, OutstandingNat DEF ControllerStep, Outstanding
<1> QED
  BY <1>3, <1>4

\* A byte nobody sent.
LEMMA NoiseEffect ==
  ASSUME TypeOK, LineNoise
  PROVE  /\ excess < MaxNoise /\ excess' = excess + 1 /\ lost' = lost
         /\ Outstanding' = Outstanding + 1
<1>1. Len(rx') = Len(rx) + 1
  BY AppendProperties DEF LineNoise, TypeOK
<1> QED
  BY <1>1, OutstandingNat DEF LineNoise, Outstanding

\* Opening the port can only make what is outstanding less.
LEMMA ConnectEffect ==
  ASSUME TypeOK, COMPORT_Connect
  PROVE  Outstanding' \in Nat /\ Outstanding' <= Outstanding
<1>1. /\ tx' \in Seq(Packet)
      /\ Cardinality(Queries(tx')) <= Cardinality(Queries(tx))
  BY QueriesPrefix DEF COMPORT_Connect, TypeOK
<1>2. rx' \in Seq(Query \cup {0}) /\ Len(rx') <= Len(rx)
  <2>1. rx' = <<>> \/ rx' = rx
    BY DEF COMPORT_Connect
  <2>2. <<>> \in Seq(Query \cup {0}) /\ Len(<<>>) = 0
    BY EmptySeq
  <2>3. rx \in Seq(Query \cup {0}) /\ Len(rx) \in Nat
    BY OutstandingNat DEF TypeOK
  <2>4. CASE rx' = <<>>
    BY <2>2, <2>3, <2>4
  <2>5. CASE rx' = rx
    BY <2>3, <2>5
  <2> QED
    BY <2>1, <2>4, <2>5
<1>3. Cardinality(Queries(tx')) \in Nat /\ Len(rx') \in Nat
  BY <1>1, <1>2, QueriesFinite, LenProperties
<1> QED
  BY <1>1, <1>2, <1>3, OutstandingNat DEF Outstanding

\* How main and the thread move where it matters for the account of the line.
LEMMA LineContext ==
  ASSUME TypeOK, LifeCycle, [Next]_vars
  PROVE  /\ QIK_GetCommand => Open /\ main' = main /\ crashes' = crashes
              /\ pc = "ask" /\ pc' = "await"
         /\ COMPORT_Receive => Open /\ main' = main /\ crashes' = crashes
              /\ pc = "await" /\ pc' # "await"
         /\ ControllerStep \/ LineNoise => UNCHANGED <<main, crashes, pc>>
         /\ COMPORT_Connect => main = "opened" /\ main' \in {"connected", "failed"}
              /\ pc = "unborn" /\ pc' = "unborn" /\ crashes' = crashes
<1> USE DEF Goto, command, thread, control, line, LifeCycle, Open, TypeOK
<1>1. QIK_GetCommand => Open /\ main' = main /\ crashes' = crashes /\ pc = "ask" /\ pc' = "await"
  BY DEF QIK_GetCommand
<1>2. COMPORT_Receive =>
        Open /\ main' = main /\ crashes' = crashes /\ pc = "await" /\ pc' # "await"
  BY DEF COMPORT_Receive, Store
<1>3. ControllerStep \/ LineNoise => UNCHANGED <<main, crashes, pc>>
  BY DEF ControllerStep, LineNoise
<1>4. COMPORT_Connect =>
        /\ main = "opened" /\ main' \in {"connected", "failed"}
        /\ pc = "unborn" /\ pc' = "unborn" /\ crashes' = crashes
  BY DEF COMPORT_Connect
<1> QED
  BY <1>1, <1>2, <1>3, <1>4

\* The same for every other step.
LEMMA OtherContext ==
  ASSUME TypeOK, LifeCycle, [Next]_vars,
         ~QIK_GetCommand, ~COMPORT_Receive, ~ControllerStep, ~LineNoise, ~COMPORT_Connect
  PROVE  \/ crashes' = crashes + 1 /\ main # "init" /\ main' = "init" /\ pc' = "unborn"
         \/ /\ crashes' = crashes
            /\ main' # "init" \/ main = "init"
            /\ main' = "opened" => main \in {"init", "opened"}
            /\ Open' => Open
            /\ pc' = "await" <=> pc = "await"
<1> USE DEF Goto, command, thread, control, line, LifeCycle, Open, TypeOK, Field, Motor
<1>1. CASE NewCommand
  BY <1>1 DEF NewCommand
<1>2. CASE WriteField
  BY <1>2 DEF WriteField
<1>3. CASE Replaced
  BY <1>3 DEF Replaced
<1>4. CASE LateField
  BY <1>4 DEF LateField
<1>5. CASE WHEEL_Init
  BY <1>5 DEF WHEEL_Init
<1>7. CASE Start
  BY <1>7 DEF Start
<1>8. CASE WHEEL_Close
  BY <1>8 DEF WHEEL_Close
<1>9. CASE Join
  BY <1>9 DEF Join
<1>10. CASE Crash
  BY <1>10 DEF Crash
<1>11. CASE LoopTest
  BY <1>11 DEF LoopTest
<1>12. CASE ReadField
  BY <1>12 DEF ReadField, ReadNext
<1>13. CASE WHEEL_ControlSpeed
  BY <1>13 DEF WHEEL_ControlSpeed
<1>16. CASE Publish
  BY <1>16 DEF Publish
<1>19. CASE UNCHANGED vars
  BY <1>19 DEF vars
<1> QED
  BY <1>1, <1>2, <1>3, <1>4, <1>5, <1>7, <1>8, <1>9, <1>10, <1>11, <1>12, <1>13,
     <1>16, <1>19 DEF Next, ThreadStep

\* Replies that nobody waits for stay bounded by noise and crashes.
LEMMA ExcessBoundedStep ==
  ASSUME TypeOK, LifeCycle, ExcessBounded, [Next]_vars
  PROVE  ExcessBounded'
<1> USE Bounds DEF ExcessBounded, Awaited, Orphaned, Open
<1>1. crashes \in Nat /\ excess \in Nat /\ Outstanding \in Nat
  BY OutstandingNat DEF TypeOK
<1>2. CASE QIK_GetCommand
  BY <1>1, <1>2, AskEffect, LineContext
<1>3. CASE COMPORT_Receive
  BY <1>1, <1>3, ReceiveEffect, LineContext
<1>4. CASE ControllerStep
  BY <1>1, <1>4, ControllerEffect, LineContext
<1>5. CASE LineNoise
  BY <1>1, <1>5, NoiseEffect, LineContext
<1>6. CASE COMPORT_Connect
  <2>1. \/ main' = "connected" /\ excess' = Outstanding'
        \/ main' = "failed" /\ excess' = excess
    BY <1>6 DEF COMPORT_Connect
  <2> QED
    BY <1>1, <1>6, <2>1, ConnectEffect, LineContext
<1>7. CASE ~(QIK_GetCommand \/ COMPORT_Receive \/ ControllerStep \/ LineNoise \/ COMPORT_Connect)
  <2>1. Outstanding' = Outstanding /\ excess' = excess
    BY <1>7, LineUntouched
  <2> QED
    BY <1>1, <1>7, <2>1, OtherContext
<1> QED
  BY <1>2, <1>3, <1>4, <1>5, <1>6, <1>7

\* Without loss the account is exact.
LEMMA ExcessExactStep ==
  ASSUME TypeOK, TypeOK', LifeCycle, ExcessExact, [Next]_vars
  PROVE  ExcessExact'
<1> USE DEF ExcessExact, Awaited, Open
<1>1. excess \in Nat /\ Outstanding \in Nat /\ lost \in Nat /\ lost' \in Nat
  BY OutstandingNat DEF TypeOK
<1>2. CASE QIK_GetCommand
  BY <1>1, <1>2, AskEffect, LineContext
<1>3. CASE COMPORT_Receive
  BY <1>1, <1>3, ReceiveEffect, LineContext
<1>4. CASE ControllerStep
  BY <1>1, <1>4, ControllerEffect, LineContext
<1>5. CASE LineNoise
  BY <1>1, <1>5, NoiseEffect, LineContext
<1>6. CASE COMPORT_Connect
  <2>1. \/ main' = "connected" /\ excess' = Outstanding'
        \/ main' = "failed"
    BY <1>6 DEF COMPORT_Connect
  <2> QED
    BY <1>1, <1>6, <2>1, ConnectEffect, LineContext
<1>7. CASE ~(QIK_GetCommand \/ COMPORT_Receive \/ ControllerStep \/ LineNoise \/ COMPORT_Connect)
  <2>1. Outstanding' = Outstanding /\ excess' = excess /\ lost' \in {lost, lost + 1}
    BY <1>7, LineUntouched
  <2> QED
    BY <1>1, <1>7, <2>1, OtherContext
<1> QED
  BY <1>2, <1>3, <1>4, <1>5, <1>6, <1>7

-----------------------------------------------------------------------------
\* If nothing is outstanding, nothing is unread and no query is under way.
LEMMA NothingOutstanding ==
  ASSUME NEW s \in Seq(Packet), NEW r \in Seq(Query \cup {0}),
         Len(r) + Cardinality(Queries(s)) <= 0
  PROVE  r = <<>> /\ \A i \in 1..Len(s) : s[i].to # "query"
<1>1. Len(r) = 0 /\ Cardinality(Queries(s)) = 0
  BY QueriesFinite, LenProperties
<1>2. r = <<>>
  BY <1>1, EmptySeq
<1>3. Queries(s) = {}
  BY <1>1, QueriesFinite, FS_EmptySet
<1> QED
  BY <1>2, <1>3 DEF Queries

\* One reply outstanding and unread: no query is under way.  One outstanding and
\* nothing unread: a single query is.
LEMMA OneOutstanding ==
  ASSUME NEW s \in Seq(Packet), NEW r \in Seq(Query \cup {0}),
         Len(r) + Cardinality(Queries(s)) <= 1
  PROVE  /\ r # <<>> => \A i \in 1..Len(s) : s[i].to # "query"
         /\ \A i, j \in 1..Len(s) : s[i].to = "query" /\ s[j].to = "query" => i = j
<1>1. Len(r) \in Nat /\ IsFiniteSet(Queries(s)) /\ Cardinality(Queries(s)) \in Nat
  BY QueriesFinite, LenProperties
<1>2. ASSUME r # <<>> PROVE Queries(s) = {}
  <2>1. Len(r) > 0
    BY <1>2, EmptySeq
  <2>2. Cardinality(Queries(s)) = 0
    BY <1>1, <2>1
  <2> QED
    BY <1>1, <2>2, FS_EmptySet
<1>3. ASSUME NEW i \in Queries(s), NEW j \in Queries(s) PROVE i = j
  <2>1. Cardinality(Queries(s)) # 0
    BY <1>1, <1>3, FS_EmptySet
  <2>2. Cardinality(Queries(s)) = 1
    BY <1>1, <2>1
  <2>3. PICK x : Queries(s) = {x}
    BY <1>1, <2>2, FS_Singleton
  <2> QED
    BY <1>3, <2>3
<1> QED
  BY <1>2, <1>3 DEF Queries

\* While the thread waits, only the line and the other threads act.
LEMMA AwaitSteps ==
  ASSUME TypeOK, LifeCycle, [Next]_vars, pc' = "await"
  PROVE  QIK_GetCommand \/ ControllerStep \/ LineNoise \/ UNCHANGED <<thread, line>>
<1> USE DEF Goto, command, thread, control, line, LifeCycle, TypeOK, Field, Motor
<1>1. ~LoopTest /\ ~ReadField /\ ~WHEEL_ControlSpeed /\ ~COMPORT_Receive /\ ~Publish
  BY DEF LoopTest, ReadField, ReadNext, WHEEL_ControlSpeed, COMPORT_Receive, Store, Publish
<1>2. ~WHEEL_Init /\ ~COMPORT_Connect /\ ~Start /\ ~Crash
  BY DEF WHEEL_Init, COMPORT_Connect, Start, Crash
<1>3. NewCommand \/ WriteField \/ Replaced \/ LateField \/ WHEEL_Close \/ Join =>
        UNCHANGED <<thread, line>>
  BY DEF NewCommand, WriteField, Replaced, LateField, WHEEL_Close, Join
<1>4. UNCHANGED vars => UNCHANGED <<thread, line>>
  BY DEF vars
<1> QED
  BY <1>1, <1>2, <1>3, <1>4 DEF Next, ThreadStep

\* Nobody but COMPORT_Connect makes the excess or the losses less.
LEMMA NeverBetter ==
  ASSUME TypeOK, TypeOK', LifeCycle, [Next]_vars, pc' # "unborn"
  PROVE  /\ excess' = 0 => excess = 0
         /\ lost' = 0 => lost = 0
<1>1. ~COMPORT_Connect
  BY LineContext
<1>2. excess \in Nat /\ lost \in Nat /\ excess' \in Nat /\ lost' \in Nat
  BY DEF TypeOK
<1> QED
  BY <1>1, <1>2, LineUntouched, AskEffect, ReceiveEffect, ControllerEffect, NoiseEffect

\* Without excess, the line carries nothing but what answers the query in hand.
LEMMA AlignedStep ==
  ASSUME TypeOK, TypeOK', LifeCycle, LifeCycle', ExcessBounded, ExcessBounded', Aligned, [Next]_vars
  PROVE  Aligned'
<1> SUFFICES ASSUME excess' = 0, pc' # "unborn"
             PROVE  /\ \A i \in 1..Len(rx') : rx'[i] = query'
                    /\ \A i \in 1..Len(tx') : tx'[i].to = "query" => tx'[i].motion = query'
  BY DEF Aligned
<1>1. excess = 0
  BY NeverBetter
<1>2. CASE pc' # "await"
  <2>1. Len(rx') + Cardinality(Queries(tx')) <= 0
    BY <1>2 DEF ExcessBounded, Awaited, Open, LifeCycle, TypeOK, Outstanding
  <2>2. rx' = <<>> /\ \A i \in 1..Len(tx') : tx'[i].to # "query"
    BY <2>1, NothingOutstanding DEF TypeOK
  <2> QED
    BY <2>2
<1>3. CASE pc' = "await" /\ QIK_GetCommand
  <2> DEFINE p == [to |-> "query", motion |-> query]
  <2>1. Len(rx) + Cardinality(Queries(tx)) <= 0
    BY <1>1, <1>3, LineContext DEF ExcessBounded, Awaited, Outstanding
  <2>2. rx' = <<>> /\ query' = query /\ \A i \in 1..Len(tx) : tx[i].to # "query"
    BY <1>3, <2>1, NothingOutstanding DEF QIK_GetCommand, TypeOK
  <2>3. tx' \in {tx, Append(tx, p)} /\ p \in Packet
    BY <1>3, DecisionType DEF QIK_GetCommand, Send
  <2>4. \A i \in 1..Len(Append(tx, p)) : Append(tx, p)[i] = p \/ (i \in 1..Len(tx) /\ Append(tx, p)[i] = tx[i])
    BY <2>3, AppendProperties, LenProperties DEF TypeOK
  <2> QED
    BY <2>2, <2>3, <2>4
<1>4. CASE pc' = "await" /\ ControllerStep
  <2>1. pc # "unborn" /\ query' = query
    BY <1>4, LineContext DEF ControllerStep, thread
  <2>2. /\ \A i \in 1..Len(rx) : rx[i] = query
        /\ \A i \in 1..Len(tx) : tx[i].to = "query" => tx[i].motion = query
    BY <1>1, <2>1 DEF Aligned
  <2>3. /\ tx' = Tail(tx) /\ Len(tx) \in Nat \ {0} /\ Head(tx) = tx[1] /\ Head(tx) \in Packet
        /\ Len(Tail(tx)) = Len(tx) - 1
        /\ \A i \in 1..Len(Tail(tx)) : Tail(tx)[i] = tx[i + 1]
    BY <1>4, HeadTailProperties, EmptySeq DEF ControllerStep, TypeOK
  <2>4. \A i \in 1..Len(tx') : tx'[i].to = "query" => tx'[i].motion = query'
    BY <2>1, <2>2, <2>3
  <2>5. CASE rx' = rx
    BY <2>1, <2>2, <2>4, <2>5
  <2>6. CASE rx' = Append(rx, Head(tx).motion) /\ Head(tx).to = "query"
    <3> DEFINE b == Head(tx).motion
    <3>1. b = query /\ b \in Query \cup {0}
      BY <2>2, <2>3, <2>6 DEF TypeOK
    <3>2. \A i \in 1..Len(Append(rx, b)) : Append(rx, b)[i] = b \/ (i \in 1..Len(rx) /\ Append(rx, b)[i] = rx[i])
      BY <3>1, AppendProperties, LenProperties DEF TypeOK
    <3> QED
      BY <2>1, <2>2, <2>4, <2>6, <3>1, <3>2
  <2> QED
    BY <1>4, <2>5, <2>6 DEF ControllerStep
<1>5. CASE pc' = "await" /\ UNCHANGED <<thread, line>>
  BY <1>1, <1>5 DEF thread, line, Aligned
<1> QED
  <2>1. ~LineNoise
    BY NoiseEffect DEF TypeOK
  <2> QED
    BY <1>2, <1>3, <1>4, <1>5, <2>1, AwaitSteps

\* So every value stored is the reply to the query it is stored for.
LEMMA RepliesMatchStep ==
  ASSUME TypeOK, TypeOK', LifeCycle, LifeCycle', Aligned, RepliesMatch, [Next]_vars
  PROVE  RepliesMatch'
<1> SUFFICES ASSUME excess' = 0, NEW q \in Query
             PROVE  reading'[q] \in {0, q}
  BY DEF RepliesMatch
<1>1. CASE pc' = "unborn"
  BY <1>1 DEF LifeCycle
<1>2. CASE pc' # "unborn" /\ COMPORT_Receive
  <2>1. excess = 0 /\ pc # "unborn" /\ rx # <<>>
    BY <1>2, NeverBetter, LineContext DEF COMPORT_Receive
  <2>2. Head(rx) = query
    BY <2>1, EmptySeq DEF Aligned, TypeOK
  <2>3. reading' = [reading EXCEPT ![query] = query]
    BY <1>2, <2>2 DEF COMPORT_Receive, Store
  <2> QED
    BY <2>1, <2>3 DEF RepliesMatch, TypeOK
<1>3. CASE pc' # "unborn" /\ ~COMPORT_Receive
  <2>1. reading' = reading
    BY <1>3 DEF Next, vars, ThreadStep, command, thread, control, line, Goto, NewCommand, WriteField,
       Replaced, LateField, WHEEL_Init, COMPORT_Connect, Start, WHEEL_Close, Join, Crash, LoopTest,
       ReadField, WHEEL_ControlSpeed, QIK_GetCommand, Publish, ControllerStep, LineNoise
  <2> QED
    BY <1>3, <2>1, NeverBetter DEF RepliesMatch
<1> QED
  BY <1>1, <1>2, <1>3

-----------------------------------------------------------------------------
\* One more packet settles its motor and leaves the other one alone.
LEMMA SettlesAppend ==
  ASSUME NEW s \in Seq(Packet), NEW f, NEW p \in Packet, NEW m, NEW v
  PROVE  /\ p.to = m /\ p.motion = v => Settles(Append(s, p), f, m, v)
         /\ p.to # m /\ Settles(s, f, m, v) => Settles(Append(s, p), f, m, v)
<1> DEFINE t == Append(s, p)
<1>1. /\ Len(s) \in Nat /\ Len(t) = Len(s) + 1
      /\ \A i \in 1..Len(s) : t[i] = s[i]
      /\ t[Len(s) + 1] = p
  BY AppendProperties, LenProperties
<1>2. ASSUME p.to = m, p.motion = v PROVE Settles(t, f, m, v)
  <2>1. Len(s) + 1 \in 1..Len(t) /\ \A j \in (Len(s) + 1 + 1)..Len(t) : t[j].to # m
    BY <1>1
  <2> QED
    BY <1>1, <1>2, <2>1 DEF Settles
<1>3. ASSUME p.to # m, Settles(s, f, m, v) PROVE Settles(t, f, m, v)
  <2>1. \A i \in 1..Len(t) : (i \in 1..Len(s) /\ t[i] = s[i]) \/ t[i] = p
    BY <1>1
  <2>2. CASE f[m] = v /\ \A i \in 1..Len(s) : s[i].to # m
    BY <1>3, <2>1, <2>2 DEF Settles
  <2>3. CASE \E i \in 1..Len(s) :
               /\ s[i].to = m /\ s[i].motion = v
               /\ \A j \in (i + 1)..Len(s) : s[j].to # m
    <3>1. PICK i \in 1..Len(s) :
            /\ s[i].to = m /\ s[i].motion = v
            /\ \A j \in (i + 1)..Len(s) : s[j].to # m
      BY <2>3
    <3>2. i \in 1..Len(t) /\ t[i] = s[i]
      BY <1>1
    <3>3. \A j \in (i + 1)..Len(t) : t[j].to # m
      BY <1>1, <1>3, <3>1
    <3> QED
      BY <3>1, <3>2, <3>3 DEF Settles
  <2> QED
    BY <1>3, <2>2, <2>3 DEF Settles
<1> QED
  BY <1>2, <1>3

\* Handling a packet for its motor, or a query, keeps what the motors come to.
LEMMA SettlesTail ==
  ASSUME NEW s \in Seq(Packet), s # <<>>, NEW f \in [Motor -> Motion], NEW m \in Motor, NEW v,
         NEW g, g = IF Head(s).to = "query" THEN f ELSE [f EXCEPT ![Head(s).to] = Head(s).motion],
         Settles(s, f, m, v)
  PROVE  Settles(Tail(s), g, m, v)
<1> DEFINE t == Tail(s)
<1>1. /\ Len(s) \in Nat /\ Len(s) >= 1 /\ Len(t) = Len(s) - 1 /\ Head(s) = s[1] /\ Head(s) \in Packet
      /\ \A i \in 1..Len(t) : t[i] = s[i + 1]
  BY HeadTailProperties, EmptySeq, LenProperties
<1>2. m # "query"
  BY DEF Motor
<1>3. Head(s).to # m => g[m] = f[m]
  BY <1>1
<1>4. Head(s).to = m => g[m] = Head(s).motion
  BY <1>1, <1>2
<1>5. CASE f[m] = v /\ \A i \in 1..Len(s) : s[i].to # m
  BY <1>1, <1>3, <1>5 DEF Settles
<1>6. CASE \E i \in 1..Len(s) :
             /\ s[i].to = m /\ s[i].motion = v
             /\ \A j \in (i + 1)..Len(s) : s[j].to # m
  <2>1. PICK i \in 1..Len(s) :
          /\ s[i].to = m /\ s[i].motion = v
          /\ \A j \in (i + 1)..Len(s) : s[j].to # m
    BY <1>6
  <2>2. CASE i = 1
    <3>1. g[m] = v
      BY <1>1, <1>4, <2>1, <2>2
    <3>2. \A j \in 1..Len(t) : t[j].to # m
      BY <1>1, <2>1, <2>2
    <3> QED
      BY <3>1, <3>2 DEF Settles
  <2>3. CASE i # 1
    <3> DEFINE k == i - 1
    <3>1. k \in 1..Len(t) /\ t[k] = s[i]
      BY <1>1, <2>3
    <3>2. \A j \in (k + 1)..Len(t) : t[j].to # m
      BY <1>1, <2>1
    <3> QED
      BY <2>1, <3>1, <3>2 DEF Settles
  <2> QED
    BY <2>2, <2>3
<1> QED
  BY <1>5, <1>6 DEF Settles

\* What the controller does to the motors.
LEMMA ControllerMotors ==
  ASSUME TypeOK, ControllerStep, NEW m \in Motor, NEW v, Settles(tx, motor, m, v)
  PROVE  Settles(tx', motor', m, v)
<1>1. motor' = IF Head(tx).to = "query" THEN motor ELSE [motor EXCEPT ![Head(tx).to] = Head(tx).motion]
  BY DEF ControllerStep
<1>2. tx # <<>> /\ tx' = Tail(tx) /\ tx \in Seq(Packet) /\ motor \in [Motor -> Motion]
  BY DEF ControllerStep, TypeOK
<1> QED
  BY <1>1, <1>2, SettlesTail

\* With nothing under way, a motor has what it comes to.
LEMMA Settled ==
  ASSUME NEW f, NEW m, NEW v, Settles(<<>>, f, m, v)
  PROVE  f[m] = v
<1>1. Len(<<>>) = 0
  BY EmptySeq
<1> QED
  BY <1>1 DEF Settles

\* The steps that move the thread or touch the line; the others leave both alone.
LEMMA ThreadOrLine ==
  ASSUME [Next]_vars
  PROVE  \/ COMPORT_Connect \/ Start \/ Crash
         \/ LoopTest \/ ReadField \/ WHEEL_ControlSpeed \/ QIK_GetCommand \/ COMPORT_Receive \/ Publish
         \/ ControllerStep \/ LineNoise
         \/ UNCHANGED <<thread, line>>
BY DEF Next, ThreadStep, vars, command, thread, control, line,
       NewCommand, WriteField, Replaced, LateField, WHEEL_Init, WHEEL_Close, Join

\* A command that comes in does not change what has been decided from earlier ones.
LEMMA DecisionKept ==
  ASSUME TypeOK, FromCommands, [Next]_vars, local' = local
  PROVE  Decision' = Decision
<1>1. local["brake"] <= cmd /\ cmd \in Nat /\ local["brake"] \in Nat
  BY CommandNumbers DEF FromCommands, Field
<1>2. braking' \in {braking, braking \cup {cmd + 1}}
  BY DEF Next, ThreadStep, vars, command, thread, control, line, NewCommand, WriteField, Replaced,
     LateField, WHEEL_Init, COMPORT_Connect, Start, WHEEL_Close, Join, Crash, LoopTest, ReadField,
     WHEEL_ControlSpeed, QIK_GetCommand, COMPORT_Receive, Publish, ControllerStep, LineNoise
<1>3. local["brake"] \in braking' <=> local["brake"] \in braking
  BY <1>1, <1>2
<1> QED
  BY <1>3 DEF Decision, DecisionOf

\* Without loss, the motors come to what the thread has on record.
LEMMA RecordSettlesStep ==
  ASSUME TypeOK, TypeOK', LifeCycle, FromCommands, RecordSettles, [Next]_vars
  PROVE  RecordSettles'
<1> DEFINE Recorded == {"ask", "await", "publish"}
<1> SUFFICES ASSUME lost' = 0
             PROVE  /\ pc' = "M1" => Settles(tx', motor', "M0", Decision')
                    /\ pc' \in Recorded => \A m \in Motor : Settles(tx', motor', m, WHEEL_Data')
  BY DEF RecordSettles
<1> USE DEF Goto, thread, line
<1>0. CASE pc' = "unborn"
  BY <1>0
<1>1. CASE pc' # "unborn" /\ (COMPORT_Connect \/ Crash)
  BY <1>1, LineContext DEF Crash
<1>2. CASE Start \/ LoopTest \/ ReadField \/ Publish
  <2>1. pc' \in {"unborn", "test", "brake", "done", "speed", "angle", "M0"}
    BY <1>2 DEF Start, LoopTest, ReadField, ReadNext, Publish, Field, LifeCycle
  <2> QED
    BY <2>1
<1>3. CASE pc' # "unborn" /\ WHEEL_ControlSpeed
  <2>1. lost = 0 /\ tx \in Seq(Packet) /\ motor' = motor /\ lost \in Nat
    BY <1>3, NeverBetter DEF WHEEL_ControlSpeed, TypeOK
  <2>2. CASE pc = "M0"
    <3> DEFINE p == [to |-> "M0", motion |-> Decision]
    <3>1. pc' = "M1" /\ local' = local /\ Send(p)
      BY <1>3, <2>2 DEF WHEEL_ControlSpeed
    <3>2. p \in Packet /\ tx' = Append(tx, p)
      BY <2>1, <3>1, DecisionType DEF Send, Motor
    <3>3. Settles(tx', motor, "M0", Decision)
      BY <2>1, <3>2, SettlesAppend
    <3> QED
      BY <2>1, <3>1, <3>3, DecisionKept
  <2>3. CASE pc = "M1"
    <3> DEFINE p == [to |-> "M1", motion |-> Decision]
    <3>1. pc' = "ask" /\ WHEEL_Data' = Decision /\ Send(p)
      BY <1>3, <2>3 DEF WHEEL_ControlSpeed
    <3>2. p \in Packet /\ tx' = Append(tx, p)
      BY <2>1, <3>1, DecisionType DEF Send, Motor
    <3>3. Settles(tx, motor, "M0", Decision)
      BY <2>1, <2>3 DEF RecordSettles
    <3>4. Settles(tx', motor, "M0", Decision) /\ Settles(tx', motor, "M1", Decision)
      BY <2>1, <3>2, <3>3, SettlesAppend
    <3> QED
      BY <2>1, <3>1, <3>4 DEF Motor
  <2> QED
    BY <1>3, <2>2, <2>3 DEF WHEEL_ControlSpeed
<1>4. CASE pc' # "unborn" /\ QIK_GetCommand
  <2> DEFINE p == [to |-> "query", motion |-> query]
  <2>1. /\ pc' = "await" /\ pc = "ask" /\ lost = 0 /\ Send(p) /\ tx \in Seq(Packet)
        /\ motor' = motor /\ WHEEL_Data' = WHEEL_Data
    BY <1>4, NeverBetter DEF QIK_GetCommand, TypeOK
  <2>2. p \in Packet /\ tx' = Append(tx, p)
    BY <2>1, DecisionType DEF Send
  <2>3. \A m \in Motor : Settles(tx, motor, m, WHEEL_Data) /\ p.to # m
    BY <2>1 DEF RecordSettles, Motor
  <2>4. \A m \in Motor : Settles(tx', motor, m, WHEEL_Data)
    BY <2>1, <2>2, <2>3, SettlesAppend
  <2> QED
    BY <2>1, <2>4
<1>5. CASE pc' # "unborn" /\ COMPORT_Receive
  <2>1. /\ pc = "await" /\ lost = 0 /\ pc' \in Recorded
        /\ UNCHANGED <<tx, motor, WHEEL_Data>>
    BY <1>5, NeverBetter DEF COMPORT_Receive, Store
  <2> QED
    BY <2>1 DEF RecordSettles
<1>6. CASE pc' # "unborn" /\ ControllerStep
  <2>1. pc' = pc /\ local' = local /\ WHEEL_Data' = WHEEL_Data /\ lost = 0
    BY <1>6, NeverBetter DEF ControllerStep
  <2>2. pc = "M1" => Settles(tx', motor', "M0", Decision)
    BY <1>6, <2>1, ControllerMotors DEF RecordSettles, Motor
  <2>3. pc \in Recorded => \A m \in Motor : Settles(tx', motor', m, WHEEL_Data)
    BY <1>6, <2>1, ControllerMotors DEF RecordSettles
  <2> QED
    BY <2>1, <2>2, <2>3, DecisionKept
<1>7. CASE pc' # "unborn" /\ (LineNoise \/ UNCHANGED <<thread, line>>)
  <2>1. UNCHANGED <<tx, motor, WHEEL_Data, pc, local>> /\ lost = 0
    BY <1>7, NeverBetter DEF LineNoise
  <2> QED
    BY <2>1, DecisionKept DEF RecordSettles
<1> QED
  BY <1>0, <1>1, <1>2, <1>3, <1>4, <1>5, <1>6, <1>7, ThreadOrLine

\* Where the thread is when it neither waits nor has packets to send.
Between == {"test", "done", "M0"} \cup Field

\* How the thread comes there.
LEMMA BetweenSteps ==
  ASSUME TypeOK, LifeCycle, [Next]_vars, pc' \in Between
  PROVE  \/ Publish
         \/ reading' = [q \in Query |-> 0]
         \/ pc \in Between /\ (ControllerStep \/ LineNoise)
         \/ pc \in Between /\ UNCHANGED <<line, reading, status>>
<1> USE DEF Goto, thread, line, LifeCycle, Between, Field, Motor, TypeOK
<1>1. CASE COMPORT_Connect
  BY <1>1, LineContext
<1>2. CASE Start
  BY <1>2 DEF Start
<1>3. CASE Crash
  BY <1>3 DEF Crash
<1>4. CASE LoopTest
  BY <1>4 DEF LoopTest
<1>5. CASE ReadField
  BY <1>5 DEF ReadField, ReadNext
<1>6. CASE WHEEL_ControlSpeed \/ QIK_GetCommand \/ COMPORT_Receive
  BY <1>6 DEF WHEEL_ControlSpeed, QIK_GetCommand, COMPORT_Receive, Store
<1>7. CASE ControllerStep \/ LineNoise
  BY <1>7 DEF ControllerStep, LineNoise
<1>8. CASE UNCHANGED <<thread, line>>
  BY <1>8
<1> QED
  BY <1>1, <1>2, <1>3, <1>4, <1>5, <1>6, <1>7, <1>8, ThreadOrLine

\* How the thread comes to publish.
LEMMA PublishSteps ==
  ASSUME TypeOK, LifeCycle, [Next]_vars, pc' = "publish"
  PROVE  \/ COMPORT_Receive
         \/ pc = "publish" /\ (ControllerStep \/ LineNoise \/ UNCHANGED <<thread, line>>)
<1> USE DEF Goto, thread, line, LifeCycle, Field, Motor, TypeOK
<1>1. ~COMPORT_Connect /\ ~Start /\ ~Crash
  BY LineContext DEF Start, Crash
<1>2. ~LoopTest /\ ~ReadField /\ ~WHEEL_ControlSpeed /\ ~QIK_GetCommand /\ ~Publish
  BY DEF LoopTest, ReadField, ReadNext, WHEEL_ControlSpeed, QIK_GetCommand, Publish
<1>3. ControllerStep \/ LineNoise \/ UNCHANGED <<thread, line>> => pc = "publish"
  BY DEF ControllerStep, LineNoise
<1> QED
  BY <1>1, <1>2, <1>3, ThreadOrLine

\* Without loss and excess, the reply in hand proves that everything sent before
\* the query has been handled.
LEMMA ReplyConfirmsStep ==
  ASSUME TypeOK, TypeOK', LifeCycle, ExcessBounded, ExcessExact, ReplyConfirms, [Next]_vars
  PROVE  ReplyConfirms'
<1> SUFFICES ASSUME lost' = 0, excess' = 0, pc' # "unborn"
             PROVE  /\ pc' = "await" /\ rx' # <<>> => tx' = <<>>
                    /\ pc' = "await" /\ rx' = <<>> => tx' # <<>> /\ tx'[Len(tx')].to = "query"
                    /\ pc' = "publish" => tx' = <<>>
                    /\ pc' \in Between /\ reading'[3] # 0 => tx' = <<>>
  BY DEF ReplyConfirms, Between, Field
<1>1. lost = 0 /\ excess = 0 /\ lost \in Nat /\ excess \in Nat
  BY NeverBetter DEF TypeOK
<1>2. ~LineNoise
  BY <1>1, NoiseEffect
<1>3. /\ pc = "await" /\ rx # <<>> => tx = <<>>
      /\ pc = "await" /\ rx = <<>> => tx # <<>> /\ tx[Len(tx)].to = "query"
      /\ pc = "publish" => tx = <<>>
      /\ pc \in Between /\ reading[3] # 0 => tx = <<>>
  BY <1>1 DEF ReplyConfirms, Between
<1>4. CASE pc' = "await" /\ QIK_GetCommand
  <2> DEFINE p == [to |-> "query", motion |-> query]
  <2>1. Len(rx) + Cardinality(Queries(tx)) <= 0
    BY <1>1, <1>4, LineContext DEF ExcessBounded, Awaited, Outstanding
  <2>2. rx' = <<>>
    BY <1>4, <2>1, NothingOutstanding DEF QIK_GetCommand, TypeOK
  <2>3. p \in Packet /\ tx' = Append(tx, p)
    BY <1>1, <1>4, DecisionType DEF QIK_GetCommand, Send
  <2>4. tx' # <<>> /\ tx'[Len(tx')] = p
    BY <2>3, AppendProperties DEF TypeOK
  <2> QED
    BY <1>4, <2>2, <2>4 DEF Between, Field
<1>5. CASE pc' = "await" /\ ControllerStep
  <2>1. pc = "await" /\ tx # <<>> /\ tx' = Tail(tx)
    BY <1>5, LineContext DEF ControllerStep
  <2>2. rx = <<>> /\ tx[Len(tx)].to = "query"
    BY <1>3, <2>1
  <2>3. Len(rx) + Cardinality(Queries(tx)) <= 1
    BY <1>1, <2>1 DEF LifeCycle, TypeOK, ExcessBounded, Awaited, Open, Outstanding
  <2>4. \A i, j \in 1..Len(tx) : tx[i].to = "query" /\ tx[j].to = "query" => i = j
    BY <2>3, OneOutstanding DEF TypeOK
  <2>5. /\ Len(tx) \in Nat /\ Len(tx) >= 1 /\ Head(tx) = tx[1] /\ Head(tx) \in Packet
        /\ Len(Tail(tx)) = Len(tx) - 1 /\ Tail(tx) \in Seq(Packet)
        /\ \A i \in 1..Len(Tail(tx)) : Tail(tx)[i] = tx[i + 1]
    BY <2>1, HeadTailProperties, EmptySeq, LenProperties DEF TypeOK
  <2>6. CASE Head(tx).to = "query"
    <3>1. Len(tx) = 1
      BY <2>2, <2>4, <2>5, <2>6
    <3>2. tx' = <<>>
      BY <2>1, <2>5, <3>1, EmptySeq
    <3>3. Head(tx).motion \in Query \cup {0}
      BY <2>5, <2>6 DEF Packet, Motor
    <3>4. rx' = Append(rx, Head(tx).motion)
      BY <1>1, <1>5, <2>6 DEF ControllerStep
    <3>5. rx' # <<>>
      BY <3>3, <3>4, AppendProperties DEF TypeOK
    <3> QED
      BY <1>5, <3>2, <3>5 DEF Between, Field
  <2>7. CASE Head(tx).to # "query"
    <3>1. rx' = <<>>
      BY <1>5, <2>2, <2>7 DEF ControllerStep
    <3>2. Len(tx) >= 2
      BY <2>2, <2>5, <2>7
    <3>3. tx' # <<>> /\ tx'[Len(tx')] = tx[Len(tx)]
      <4>1. Len(Tail(tx)) \in 1..Len(Tail(tx)) /\ Len(Tail(tx)) + 1 = Len(tx)
        BY <2>5, <3>2
      <4>2. Tail(tx)[Len(Tail(tx))] = tx[Len(tx)]
        BY <2>5, <4>1
      <4>3. Len(<<>>) = 0
        BY EmptySeq
      <4>4. Tail(tx) # <<>>
        BY <2>5, <3>2, <4>3
      <4> QED
        BY <2>1, <4>2, <4>4
    <3> QED
      BY <1>5, <2>2, <3>1, <3>3 DEF Between, Field
  <2> QED
    BY <2>6, <2>7
<1>6. CASE pc' = "await" /\ UNCHANGED <<thread, line>>
  BY <1>3, <1>6 DEF thread, line, Between, Field
<1>7. CASE pc' = "publish"
  <2>1. CASE COMPORT_Receive
    <3>1. pc = "await" /\ rx # <<>> /\ tx' = tx
      BY <2>1 DEF COMPORT_Receive, Store, Goto
    <3> QED
      BY <1>3, <1>7, <3>1 DEF Between, Field
  <2>2. CASE pc = "publish" /\ ControllerStep
    BY <1>3, <2>2 DEF ControllerStep
  <2>3. CASE pc = "publish" /\ UNCHANGED <<thread, line>>
    BY <1>3, <1>7, <2>3 DEF Between, Field, line
  <2> QED
    BY <1>2, <1>7, <2>1, <2>2, <2>3, PublishSteps
<1>8. CASE pc' \in Between /\ reading'[3] # 0
  <2>1. pc' \notin {"await", "publish"}
    BY <1>8 DEF Between, Field
  <2>2. CASE Publish
    BY <1>3, <2>1, <2>2 DEF Publish, Goto, line
  <2>3. CASE reading' = [q \in Query |-> 0]
    BY <1>8, <2>3 DEF Query
  <2>4. CASE pc \in Between /\ UNCHANGED <<line, reading, status>>
    BY <1>3, <1>8, <2>1, <2>4 DEF line
  <2>5. CASE pc \in Between /\ ControllerStep
    BY <1>3, <1>8, <2>5 DEF ControllerStep, thread
  <2> QED
    BY <1>2, <1>8, <2>2, <2>3, <2>4, <2>5, BetweenSteps
<1>9. CASE pc' \notin {"await", "publish"} /\ ~(pc' \in Between /\ reading'[3] # 0)
  BY <1>9
<1> QED
  BY <1>2, <1>4, <1>5, <1>6, <1>7, <1>8, <1>9, AwaitSteps

\* So what is reported is what the motors do.
LEMMA StatusHonestStep ==
  ASSUME TypeOK, TypeOK', LifeCycle, LifeCycle', RecordSettles, ReplyConfirms, StatusHonest, [Next]_vars
  PROVE  StatusHonest'
<1> SUFFICES ASSUME pc' \in Between, reading'[3] # 0, excess' = 0, lost' = 0, NEW m \in Motor
             PROVE  motor'[m] = status'
  BY DEF StatusHonest, Between, Field
<1>1. pc' # "unborn"
  BY DEF Between, Field
<1>2. lost = 0 /\ excess = 0 /\ lost \in Nat /\ excess \in Nat
  BY <1>1, NeverBetter DEF TypeOK
<1>3. CASE Publish
  <2>1. pc = "publish" /\ status' = WHEEL_Data /\ motor' = motor
    BY <1>3 DEF Publish, Goto, line
  <2>2. tx = <<>> /\ Settles(tx, motor, m, WHEEL_Data)
    BY <1>2, <2>1 DEF ReplyConfirms, RecordSettles
  <2> QED
    BY <2>1, <2>2, Settled
<1>4. CASE reading' = [q \in Query |-> 0]
  BY <1>4 DEF Query
<1>5. CASE pc \in Between /\ LineNoise
  BY <1>2, <1>5, NoiseEffect
<1>6. CASE pc \in Between /\ ControllerStep
  BY <1>2, <1>6 DEF ControllerStep, thread, ReplyConfirms, Between
<1>7. CASE pc \in Between /\ UNCHANGED <<line, reading, status>>
  BY <1>2, <1>7 DEF line, StatusHonest, Between, Field
<1> QED
  BY <1>3, <1>4, <1>5, <1>6, <1>7, BetweenSteps

-----------------------------------------------------------------------------
\* Nothing but opening the port makes a line sound.
LEMMA SoundBefore ==
  ASSUME TypeOK, TypeOK', LifeCycle, [Next]_vars, Sound', ~COMPORT_Connect
  PROVE  Sound
<1>1. excess \in Nat /\ lost \in Nat /\ excess' = 0 /\ lost' = 0
  BY DEF TypeOK, Sound
<1>2. excess = 0 /\ lost = 0
  BY <1>1, LineUntouched, AskEffect, ReceiveEffect, ControllerEffect, NoiseEffect
<1>3. Open
  BY OtherContext, LineContext DEF Sound, Open
<1> QED
  BY <1>2, <1>3 DEF Sound

\* A sound line carries motor packets only, save for the query the thread waits
\* for, which is the last.
LEMMA SoundLine ==
  ASSUME IInv, Sound
  PROVE  /\ Len(tx) \in Nat /\ Left \in Nat
         /\ \A i \in 1..Len(tx) : tx[i].to = "query" => i = Len(tx)
         /\ pc # "await" => Left = Len(tx)
         /\ pc = "await" => Left = Len(tx) - 1 \/ (tx = <<>> /\ Left = 0)
<1>1. /\ Len(tx) \in Nat /\ Len(rx) \in Nat /\ IsFiniteSet(Queries(tx))
      /\ Cardinality(Queries(tx)) \in Nat
      /\ tx \in Seq(Packet) /\ rx \in Seq(Query \cup {0})
  BY QueriesFinite, LenProperties DEF IInv, TypeOK
<1>2. Len(rx) + Cardinality(Queries(tx)) = Awaited
  BY DEF IInv, ExcessExact, Sound, Outstanding, Awaited
<1>3. CASE pc # "await"
  <2>1. Len(rx) + Cardinality(Queries(tx)) <= 0
    BY <1>2, <1>3 DEF Awaited
  <2>2. Cardinality(Queries(tx)) = 0
    BY <1>1, <2>1
  <2> QED
    BY <1>1, <1>3, <2>1, <2>2, NothingOutstanding DEF Left
<1>4. CASE pc = "await" /\ rx # <<>>
  <2>1. tx = <<>>
    BY <1>4 DEF IInv, ReplyConfirms, Sound
  <2>2. Len(tx) = 0
    BY <2>1, EmptySeq
  <2>3. Queries(tx) = {}
    BY <2>2 DEF Queries
  <2>4. Left = 0
    BY <2>2, <2>3, FS_EmptySet DEF Left
  <2> QED
    BY <1>4, <2>1, <2>2, <2>4
<1>5. CASE pc = "await" /\ rx = <<>>
  <2>1. tx # <<>> /\ tx[Len(tx)].to = "query"
    BY <1>5 DEF IInv, ReplyConfirms, Sound
  <2>2. Len(tx) >= 1
    BY <1>1, <2>1, EmptySeq
  <2>3. Len(rx) + Cardinality(Queries(tx)) <= 1 /\ Len(rx) = 0
    BY <1>2, <1>5, EmptySeq DEF Awaited
  <2>4. \A i, j \in 1..Len(tx) : tx[i].to = "query" /\ tx[j].to = "query" => i = j
    BY <1>1, <2>3, OneOutstanding
  <2>5. Cardinality(Queries(tx)) = 1
    BY <1>1, <1>2, <1>5, <2>3 DEF Awaited
  <2> QED
    <3>1. Left = Len(tx) - 1 /\ Left \in Nat
      BY <1>1, <2>2, <2>5 DEF Left
    <3>2. Len(tx) \in 1..Len(tx)
      BY <1>1, <2>2
    <3>3. \A i \in 1..Len(tx) : tx[i].to = "query" => i = Len(tx)
      BY <2>1, <2>4, <3>2
    <3>4. Len(tx) \in Nat /\ pc = "await"
      BY <1>1, <1>5
    <3> QED
      BY <3>1, <3>3, <3>4, Zenon
<1> QED
  BY <1>3, <1>4, <1>5

\* One more motor packet is one more to be handled; a query is not.
LEMMA LeftAppend ==
  ASSUME TypeOK, NEW p \in Packet, tx' = Append(tx, p)
  PROVE  /\ Left' = Left + (IF p.to = "query" THEN 0 ELSE 1)
         /\ Len(tx') = Len(tx) + 1 /\ Len(tx) \in Nat
         /\ tx'[Len(tx) + 1] = p
         /\ \A i \in 1..Len(tx) : tx'[i] = tx[i]
<1>1. /\ Len(Append(tx, p)) = Len(tx) + 1 /\ Len(tx) \in Nat
      /\ Append(tx, p)[Len(tx) + 1] = p
      /\ \A i \in 1..Len(tx) : Append(tx, p)[i] = tx[i]
  BY AppendProperties, LenProperties DEF TypeOK
<1>2. Cardinality(Queries(tx')) = Cardinality(Queries(tx)) + (IF p.to = "query" THEN 1 ELSE 0)
  BY QueriesAppend DEF TypeOK
<1> QED
  BY <1>1, <1>2, OutstandingNat DEF Left

\* A motor packet handled is one less.
LEMMA LeftHandled ==
  ASSUME TypeOK, ControllerStep
  PROVE  /\ Left' = Left - (IF Head(tx).to = "query" THEN 0 ELSE 1)
         /\ Len(tx) \in Nat \ {0} /\ Head(tx) = tx[1] /\ Head(tx) \in Packet
         /\ Len(tx') = Len(tx) - 1
         /\ \A i \in 1..Len(tx') : tx'[i] = tx[i + 1]
<1>1. tx # <<>> /\ tx' = Tail(tx) /\ tx \in Seq(Packet)
  BY DEF ControllerStep, TypeOK
<1>2. /\ Len(tx) \in Nat \ {0} /\ Head(tx) = tx[1] /\ Head(tx) \in Packet
      /\ Len(tx') = Len(tx) - 1
      /\ \A i \in 1..Len(tx') : tx'[i] = tx[i + 1]
  BY <1>1, HeadTailProperties, EmptySeq, LenProperties
<1>3. Cardinality(Queries(tx')) = Cardinality(Queries(tx)) - (IF Head(tx).to = "query" THEN 1 ELSE 0)
  BY <1>1, QueriesTail
<1> QED
  BY <1>2, <1>3, OutstandingNat DEF Left

\* While a motor packet is left on a sound line, the next packet is one.
LEMMA HeadIsMotor ==
  ASSUME IInv, Sound, Left >= 1
  PROVE  tx[1].to \in Motor /\ tx[1].motion \in Motion
<1>1. /\ Len(tx) \in Nat /\ Left \in Nat
      /\ \A i \in 1..Len(tx) : tx[i].to = "query" => i = Len(tx)
      /\ pc # "await" => Left = Len(tx)
      /\ pc = "await" => Left = Len(tx) - 1 \/ (tx = <<>> /\ Left = 0)
  BY SoundLine
<1>2. 1 \in 1..Len(tx)
  BY <1>1
<1>3. tx[1] \in Packet
  BY <1>2, ElementOfSeq DEF IInv, TypeOK
<1>4. tx[1].to # "query"
  <2>1. CASE pc = "await"
    BY <1>1, <1>2, <2>1
  <2>2. CASE pc # "await"
    <3>1. Len(rx) + Cardinality(Queries(tx)) <= 0
      BY <2>2 DEF IInv, ExcessExact, Sound, Outstanding, Awaited
    <3> QED
      BY <1>2, <3>1, NothingOutstanding DEF IInv, TypeOK
  <2> QED
    BY <2>1, <2>2
<1> QED
  BY <1>3, <1>4 DEF Packet

-----------------------------------------------------------------------------
\* The thread takes a packet to the line; nothing is on a sound line by then but
\* motor packets.
LEMMA SentInRound ==
  ASSUME IInv, [Next]_vars, Sound, Sound', pc' # "unborn",
         WHEEL_ControlSpeed \/ QIK_GetCommand
  PROVE  InRound'
<1> USE DEF Goto
<1>1. pc # "await" /\ lost = 0 /\ lost' = 0
  BY DEF WHEEL_ControlSpeed, QIK_GetCommand, Sound
<1>2. Left = Len(tx) /\ Left \in Nat
  BY <1>1, SoundLine
<1>3. CASE WHEEL_ControlSpeed /\ pc = "M0"
  <2> DEFINE p == [to |-> "M0", motion |-> Decision]
  <2>1. pc' = "M1" /\ local' = local /\ tx' = Append(tx, p)
    BY <1>1, <1>3 DEF WHEEL_ControlSpeed, Send
  <2>2. p \in Packet
    BY DecisionType DEF IInv, Motor
  <2>3. Left' = Left + 1 /\ tx'[Left'] = p
    BY <1>2, <2>1, <2>2, LeftAppend DEF IInv
  <2>4. Decision' = Decision
    BY <2>1, DecisionKept DEF IInv
  <2> QED
    BY <2>1, <2>3, <2>4 DEF InRound
<1>4. CASE WHEEL_ControlSpeed /\ pc = "M1"
  <2> DEFINE p == [to |-> "M1", motion |-> Decision]
  <2>1. pc' = "ask" /\ WHEEL_Data' = Decision /\ tx' = Append(tx, p)
    BY <1>1, <1>4 DEF WHEEL_ControlSpeed, Send
  <2>2. p \in Packet
    BY DecisionType DEF IInv, Motor
  <2>3. Left' = Left + 1 /\ tx'[Left'] = p /\ \A i \in 1..Left : tx'[i] = tx[i]
    BY <1>2, <2>1, <2>2, LeftAppend DEF IInv
  <2>4. Left >= 1 => tx[Left] = [to |-> "M0", motion |-> Decision]
    BY <1>4 DEF IInv, InRound
  <2>5. Left' >= 2 => tx'[Left' - 1] = [to |-> "M0", motion |-> Decision]
    BY <1>2, <2>3, <2>4
  <2> QED
    BY <2>1, <2>3, <2>5 DEF InRound
<1>5. CASE QIK_GetCommand
  <2> DEFINE p == [to |-> "query", motion |-> query]
  <2>1. pc = "ask" /\ pc' = "await" /\ WHEEL_Data' = WHEEL_Data /\ tx' = Append(tx, p)
    BY <1>1, <1>5 DEF QIK_GetCommand, Send
  <2>2. p \in Packet
    BY DecisionType DEF IInv
  <2>3. Left' = Left /\ \A i \in 1..Left : tx'[i] = tx[i]
    BY <1>2, <2>1, <2>2, LeftAppend DEF IInv
  <2>4. /\ Left >= 1 => tx[Left] = [to |-> "M1", motion |-> WHEEL_Data]
        /\ Left >= 2 => tx[Left - 1] = [to |-> "M0", motion |-> WHEEL_Data]
    BY <2>1 DEF IInv, InRound
  <2>5. /\ Left >= 1 => tx'[Left] = tx[Left]
        /\ Left >= 2 => tx'[Left - 1] = tx[Left - 1]
    BY <1>2, <2>3
  <2> QED
    BY <2>1, <2>3, <2>4, <2>5 DEF InRound
<1> QED
  BY <1>3, <1>4, <1>5 DEF WHEEL_ControlSpeed

\* What the controller handles is the first; the last ones stay.
LEMMA HandledInRound ==
  ASSUME IInv, [Next]_vars, Sound, Sound', ControllerStep
  PROVE  InRound'
<1>1. UNCHANGED <<pc, local, WHEEL_Data, status>>
  BY DEF ControllerStep, thread
<1>2. Decision' = Decision
  BY <1>1, DecisionKept DEF IInv
<1>3. /\ Len(tx) \in Nat \ {0} /\ Len(tx') = Len(tx) - 1
      /\ \A i \in 1..Len(tx') : tx'[i] = tx[i + 1]
      /\ Left' = Left - (IF tx[1].to = "query" THEN 0 ELSE 1)
  BY LeftHandled DEF IInv
<1>4. /\ Left \in Nat
      /\ pc # "await" => Left = Len(tx)
      /\ pc = "await" => Left = Len(tx) - 1 \/ (tx = <<>> /\ Left = 0)
      /\ \A i \in 1..Len(tx) : tx[i].to = "query" => i = Len(tx)
  BY SoundLine
<1>5. CASE Left >= 1
  <2>1. Left' = Left - 1
    BY <1>3, <1>5, HeadIsMotor DEF Motor
  <2>2. \A i \in 1..Left' : tx'[i] = tx[i + 1]
    BY <1>3, <1>4, <2>1
  <2>3. /\ Left' >= 1 => tx'[Left'] = tx[Left]
        /\ Left' >= 2 => tx'[Left' - 1] = tx[Left - 1]
    BY <1>4, <2>1, <2>2
  <2> QED
    BY <1>1, <1>2, <1>4, <2>1, <2>3 DEF IInv, InRound
<1>6. CASE Left = 0
  <2>1. ~(Left' >= 1) /\ ~(Left' >= 2)
    BY <1>3, <1>6
  <2> QED
    BY <1>1, <2>1 DEF IInv, InRound
<1> QED
  BY <1>4, <1>5, <1>6

\* The packets of a round keep their order on a sound line.
LEMMA InRoundStep ==
  ASSUME IInv, TypeOK', LifeCycle', [Next]_vars
  PROVE  InRound'
<1> USE DEF Goto, thread, line, Field, Motor
<1>1. ASSUME pc' = "unborn" PROVE WHEEL_Data' = Halt /\ status' = Halt
  <2>1. CASE Crash
    BY <2>1 DEF Crash
  <2>2. CASE ~Crash
    <3>1. pc = "unborn"
      BY <1>1, <2>2, ThreadOrLine DEF COMPORT_Connect, Start, LoopTest, ReadField, ReadNext,
         WHEEL_ControlSpeed, QIK_GetCommand, COMPORT_Receive, Store, Publish, ControllerStep, LineNoise
    <3>2. WHEEL_Data' = WHEEL_Data /\ status' = status
      BY <2>2, <3>1, ThreadOrLine DEF COMPORT_Connect, Start, LoopTest, ReadField,
         WHEEL_ControlSpeed, QIK_GetCommand, COMPORT_Receive, Store, Publish, ControllerStep, LineNoise
    <3> QED
      BY <3>1, <3>2 DEF IInv, InRound
  <2> QED
    BY <2>1, <2>2
<1>2. CASE ~Sound' \/ pc' \notin {"M1", "ask", "await", "publish"}
  BY <1>1, <1>2 DEF InRound
<1>3. CASE Sound' /\ pc' \in {"M1", "ask", "await", "publish"}
  <2>1. ~COMPORT_Connect /\ ~Start /\ ~Crash /\ ~LoopTest /\ ~ReadField /\ ~Publish
    BY <1>3, LineContext DEF IInv, Start, Crash, LoopTest, ReadField, ReadNext, Publish, LifeCycle
  <2>2. Sound
    BY <1>3, <2>1, SoundBefore DEF IInv
  <2>3. CASE WHEEL_ControlSpeed \/ QIK_GetCommand
    BY <1>3, <2>2, <2>3, SentInRound
  <2>4. CASE ControllerStep
    BY <1>3, <2>2, <2>4, HandledInRound
  <2>5. CASE COMPORT_Receive
    <3>1. /\ pc = "await" /\ pc' \in {"ask", "publish"}
          /\ UNCHANGED <<tx, WHEEL_Data>> /\ Left' = Left
      BY <2>5 DEF COMPORT_Receive, Store, Left
    <3> QED
      BY <2>2, <3>1 DEF IInv, InRound
  <2>6. CASE LineNoise
    BY <1>3, <2>2, <2>6, NoiseEffect DEF IInv, Sound
  <2>7. CASE UNCHANGED <<thread, line>>
    <3>1. UNCHANGED <<pc, tx, WHEEL_Data>> /\ Left' = Left
      BY <2>7 DEF Left
    <3>2. Decision' = Decision
      BY <2>7, DecisionKept DEF IInv
    <3> QED
      BY <1>3, <2>2, <3>1, <3>2 DEF IInv, InRound
  <2> QED
    BY <2>1, <2>3, <2>4, <2>5, <2>6, <2>7, ThreadOrLine
<1> QED
  BY <1>2, <1>3

-----------------------------------------------------------------------------
\* The inductive invariant holds initially.
LEMMA InitIInv == Init => IInv
<1> SUFFICES ASSUME Init PROVE IInv
  OBVIOUS
<1> USE Bounds DEF Init
<1>1. Halt \in Motion /\ 0 \in Command /\ 1 \in Query
  BY DEF Halt, Motion, Command, Query
<1>2. <<>> \in Seq(Packet) /\ <<>> \in Seq(Query \cup {0}) /\ Len(<<>>) = 0
  BY EmptySeq
<1>3. TypeOK
  <2>1. ds2_data \in [Field -> Command] /\ local \in [Field -> Command]
    BY <1>1
  <2>2. reading \in [Query -> Query \cup {0}] /\ motor \in [Motor -> Motion]
    BY <1>1
  <2>3. crashes \in 0..MaxCrash /\ lost \in 0..MaxLost /\ excess \in Nat /\ late \in 0..cmd
    OBVIOUS
  <2>4. tx \in Seq(Packet) /\ rx \in Seq(Query \cup {0})
    BY <1>2
  <2> QED
    BY <1>1, <2>1, <2>2, <2>3, <2>4 DEF TypeOK
<1>4. LifeCycle
  BY DEF LifeCycle
<1>5. FromCommands /\ WriteOrder /\ ReadOrder
  BY DEF FromCommands, WriteOrder, ReadOrder, Field, Motor
<1>6. Outstanding = 0
  <2>1. Queries(tx) = {}
    BY <1>2 DEF Queries
  <2>2. Cardinality(Queries(tx)) = 0
    BY <2>1, FS_EmptySet
  <2> QED
    BY <1>2, <2>2 DEF Outstanding
<1>7. ExcessBounded /\ ExcessExact
  BY <1>6 DEF ExcessBounded, ExcessExact, Open, Awaited, Orphaned
<1>8. Aligned /\ RepliesMatch
  BY DEF Aligned, RepliesMatch
<1>9. RecordSettles /\ ReplyConfirms /\ StatusHonest /\ InRound
  BY DEF RecordSettles, ReplyConfirms, StatusHonest, InRound, Field
<1> QED
  BY <1>3, <1>4, <1>5, <1>7, <1>8, <1>9 DEF IInv

\* Every step of Wheel keeps the inductive invariant.
THEOREM Invariance == Spec => []IInv
<1>1. IInv /\ [Next]_vars => IInv'
  <2> SUFFICES ASSUME IInv, [Next]_vars PROVE IInv'
    OBVIOUS
  <2> USE DEF IInv
  <2>1. TypeOK'
    BY TypeStep
  <2>2. LifeCycle'
    BY LifeCycleStep
  <2>3. FromCommands' /\ WriteOrder' /\ ReadOrder'
    BY FromCommandsStep, WriteOrderStep, ReadOrderStep
  <2>4. ExcessBounded' /\ ExcessExact'
    BY <2>1, ExcessBoundedStep, ExcessExactStep
  <2>5. Aligned' /\ RepliesMatch'
    BY <2>1, <2>2, <2>4, AlignedStep, RepliesMatchStep
  <2>6. RecordSettles' /\ ReplyConfirms' /\ StatusHonest'
    BY <2>1, <2>2, RecordSettlesStep, ReplyConfirmsStep, StatusHonestStep
  <2>7. InRound'
    BY <2>1, <2>2, InRoundStep
  <2> QED
    BY <2>1, <2>2, <2>3, <2>4, <2>5, <2>6, <2>7
<1> QED
  BY <1>1, InitIInv, PTL DEF Spec

\* Every variable of Wheel has its type, in every run of every length.
THEOREM TypeCorrect == Spec => []TypeOK
<1>1. IInv => TypeOK
  BY DEF IInv
<1> QED
  BY <1>1, Invariance, PTL

\* However the stores of one or two clients and the reads of the thread (wheel.c)
\* interleave, the brake acted on is never newer than speed and angle.
THEOREM ReadAgainstWrite == Spec => []BrakeNeverNewer
<1>1. IInv => BrakeNeverNewer
  <2> SUFFICES ASSUME IInv, pc \in Motor, NEW f \in {"speed", "angle"}
               PROVE  local.brake <= local[f] \/ local[f] = late
    BY DEF BrakeNeverNewer
  <2> QED
    BY DEF IInv, ReadOrder, IsLate
<1> QED
  BY <1>1, Invariance, PTL

\* What is reported to the client is what both motors are doing, as long as the
\* line loses nothing and adds nothing.
THEOREM HonestStatus == Spec => []StatusHonest
<1>1. IInv => StatusHonest
  BY DEF IInv
<1> QED
  BY <1>1, Invariance, PTL

\* No reply is stored for another query than its own while the line adds nothing.
THEOREM MatchedReplies == Spec => []RepliesMatch
<1>1. IInv => RepliesMatch
  BY DEF IInv
<1> QED
  BY <1>1, Invariance, PTL

\* Excess bytes are neither worked off nor do they pile up.
THEOREM StableExcess == Spec => []ExcessStays
<1>1. IInv => ExcessStays
  <2> SUFFICES ASSUME IInv PROVE ExcessStays
    OBVIOUS
  <2>1. excess \in Nat /\ crashes \in Nat /\ Outstanding \in Nat
    BY OutstandingNat DEF IInv, TypeOK
  <2>2. Outstanding <= 1 + MaxNoise + crashes
    BY <2>1, Bounds DEF IInv, ExcessBounded
  <2>3. lost = 0 /\ pc # "await" /\ main \in {"connected", "started", "join", "closed"} =>
          Outstanding = excess
    BY <2>1 DEF IInv, ExcessExact, Awaited, Open
  <2> QED
    BY <2>2, <2>3 DEF ExcessStays
<1> QED
  BY <1>1, Invariance, PTL

-----------------------------------------------------------------------------
\* What Drive sees while the port is not open.
LEMMA ClosedPort ==
  ASSUME IInv, ~Open
  PROVE  /\ Mode = "closed" /\ Stale = FALSE /\ Phase = "rest"
         /\ Wanted = Halt /\ status = Halt /\ pc = "unborn"
<1>1. pc = "unborn"
  BY DEF IInv, TypeOK, LifeCycle, Open
<1>2. WHEEL_Data = Halt /\ status = Halt
  BY <1>1 DEF IInv, InRound
<1> QED
  BY <1>1, <1>2 DEF Mode, Stale, Sound, Phase, RoundSize, Wanted

\* When the daemon starts, the drive rests behind a closed port.
LEMMA InitDrive == Init => Abstract!Init
<1> SUFFICES ASSUME Init PROVE Abstract!Init
  OBVIOUS
<1>1. ~Open /\ motor = [m \in Motor |-> Halt]
  BY DEF Init, Open
<1> QED
  BY <1>1, InitIInv, ClosedPort DEF Abstract!Init, Abstract!Closed, Abstract!Motor, Motor

\* While a sound line stays sound, Drive sees no more than what changes what is
\* left, where the thread is, what it has decided, what it reports and the motors.
LEMMA Still ==
  ASSUME Sound, Sound', Left' = Left, RoundSize' = RoundSize
  PROVE  Mode = "sound" /\ Mode' = "sound" /\ Stale' = Stale /\ Phase' = Phase
BY DEF Mode, Stale, Phase, Sound

\* A packet sent: the first one is the decision, the second one Drive does not see.
LEMMA SendingIsDeciding ==
  ASSUME IInv, [Next]_vars, Sound, Sound', WHEEL_ControlSpeed
  PROVE  Abstract!Decide \/ UNCHANGED Abstract!vars
<1> USE DEF Goto
<1>1. /\ lost = 0 /\ lost' = 0 /\ pc # "await" /\ UNCHANGED <<motor, status>>
      /\ Mode = "sound" /\ Mode' = "sound"
  BY DEF WHEEL_ControlSpeed, Sound, Mode
<1>2. Left = Len(tx) /\ Left \in Nat
  BY <1>1, SoundLine
<1>3. CASE pc = "M0"
  <2> DEFINE p == [to |-> "M0", motion |-> Decision]
  <2>1. pc' = "M1" /\ local' = local /\ tx' = Append(tx, p)
    BY <1>1, <1>3 DEF WHEEL_ControlSpeed, Send
  <2>2. p \in Packet /\ Decision \in Motion
    BY DecisionType DEF IInv, Motor
  <2>3. Left' = Left + 1
    BY <2>1, <2>2, LeftAppend DEF IInv
  <2>4. Wanted' \in Motion
    BY <2>1, <2>2, DecisionKept DEF IInv, Wanted
  <2>5. Phase = "rest" /\ Phase' = "M0" /\ Stale' = Stale
    BY <1>2, <1>3, <2>1, <2>3 DEF Phase, RoundSize, Stale
  <2> QED
    BY <1>1, <2>4, <2>5 DEF Abstract!Decide
<1>4. CASE pc = "M1"
  <2> DEFINE p == [to |-> "M1", motion |-> Decision]
  <2>1. pc' = "ask" /\ WHEEL_Data' = Decision /\ tx' = Append(tx, p)
    BY <1>1, <1>4 DEF WHEEL_ControlSpeed, Send
  <2>2. p \in Packet
    BY DecisionType DEF IInv, Motor
  <2>3. Left' = Left + 1
    BY <2>1, <2>2, LeftAppend DEF IInv
  <2>4. Wanted' = Wanted
    BY <1>4, <2>1 DEF Wanted
  <2>5. Phase' = Phase /\ Stale' = Stale
    BY <1>2, <1>4, <2>1, <2>3 DEF Phase, RoundSize, Stale
  <2> QED
    BY <1>1, <2>4, <2>5 DEF Abstract!vars
<1> QED
  BY <1>3, <1>4 DEF WHEEL_ControlSpeed

\* What the controller handles is the next move of the round, once everything
\* from before the port was opened has been handled.
LEMMA HandlingIsMoving ==
  ASSUME IInv, [Next]_vars, Sound, Sound', ControllerStep
  PROVE  Abstract!Move \/ Abstract!Drift \/ UNCHANGED Abstract!vars
<1>1. UNCHANGED <<pc, local, WHEEL_Data, status>> /\ Mode = "sound" /\ Mode' = "sound"
  BY DEF ControllerStep, thread, Sound, Mode
<1>2. Wanted' = Wanted /\ RoundSize' = RoundSize
  BY <1>1, DecisionKept DEF IInv, Wanted, RoundSize
<1>3. Left' = Left - (IF tx[1].to = "query" THEN 0 ELSE 1) /\ Head(tx) = tx[1] /\ Left \in Nat
  BY LeftHandled, SoundLine DEF IInv
<1>4. CASE Left = 0
  <2>1. tx[1].to = "query"
    <3>1. pc = "await"
      BY <1>4, SoundLine, LeftHandled DEF IInv
    <3>2. tx # <<>> /\ Len(tx) = 1
      BY <1>4, <3>1, SoundLine DEF ControllerStep
    <3>3. rx = <<>>
      BY <3>1, <3>2 DEF IInv, ReplyConfirms, Sound
    <3> QED
      BY <3>1, <3>2, <3>3 DEF IInv, ReplyConfirms, Sound
  <2>2. Left' = Left /\ motor' = motor
    BY <1>3, <1>4, <2>1 DEF ControllerStep
  <2> QED
    BY <1>1, <1>2, <2>2, Still DEF Abstract!vars
<1>5. CASE Left >= 1
  <2>1. tx[1].to \in Motor /\ tx[1].motion \in Motion
    BY <1>5, HeadIsMotor
  <2>2. Left' = Left - 1 /\ motor' = [motor EXCEPT ![tx[1].to] = tx[1].motion]
    BY <1>3, <2>1 DEF ControllerStep, Motor
  <2>3. RoundSize \in {0, 1, 2}
    BY DEF RoundSize
  <2>4. CASE Left > RoundSize
    <3>1. Stale = TRUE /\ Stale' \in BOOLEAN /\ Phase' = Phase
      BY <1>2, <1>3, <2>2, <2>3, <2>4 DEF Stale, Phase
    <3> QED
      BY <1>1, <1>2, <2>1, <2>2, <3>1 DEF Abstract!Drift, Abstract!Motor, Motor
  <2>5. CASE Left <= RoundSize
    <3>1. Stale = FALSE /\ Stale' = FALSE
      BY <1>2, <1>3, <2>2, <2>3, <2>5 DEF Stale
    <3>2. CASE pc = "M1"
      <4>1. Left = 1 /\ Phase = "M0" /\ Phase' = "M1"
        BY <1>1, <1>3, <1>5, <2>2, <2>5, <3>2 DEF Phase, RoundSize
      <4>2. tx[1].to = "M0" /\ tx[1].motion = Wanted
        BY <3>2, <4>1 DEF IInv, InRound, Wanted
      <4> QED
        BY <1>1, <1>2, <2>2, <3>1, <4>1, <4>2 DEF Abstract!Move, Abstract!Motor, Abstract!After
    <3>3. CASE pc \in {"ask", "await", "publish"}
      <4>1. Wanted = WHEEL_Data /\ RoundSize = 2
        BY <3>3 DEF Wanted, RoundSize
      <4>2. CASE Left = 2
        <5>1. Phase = "M0" /\ Phase' = "M1"
          BY <1>2, <2>2, <4>1, <4>2 DEF Phase
        <5>2. tx[1].to = "M0" /\ tx[1].motion = Wanted
          BY <3>3, <4>1, <4>2 DEF IInv, InRound
        <5> QED
          BY <1>1, <1>2, <2>2, <3>1, <5>1, <5>2 DEF Abstract!Move, Abstract!Motor, Abstract!After
      <4>3. CASE Left = 1
        <5>1. Phase = "M1" /\ Phase' = "report"
          BY <1>2, <2>2, <4>1, <4>3 DEF Phase
        <5>2. tx[1].to = "M1" /\ tx[1].motion = Wanted
          BY <3>3, <4>1, <4>3 DEF IInv, InRound
        <5> QED
          BY <1>1, <1>2, <2>2, <3>1, <5>1, <5>2 DEF Abstract!Move, Abstract!Motor, Abstract!After
      <4> QED
        BY <1>3, <1>5, <2>5, <4>1, <4>2, <4>3
    <3> QED
      BY <1>3, <1>5, <2>5, <3>2, <3>3 DEF RoundSize
  <2> QED
    BY <1>3, <2>3, <2>4, <2>5
<1> QED
  BY <1>3, <1>4, <1>5

\* A step on a line that is sound before and after it.
LEMMA SoundStep ==
  ASSUME IInv, IInv', [Next]_vars, Sound, Sound'
  PROVE  [Abstract!Next]_(Abstract!vars)
<1> USE DEF Goto, thread, line, Field, Motor
<1>1. ~COMPORT_Connect /\ ~Crash
  BY DEF COMPORT_Connect, Crash, Sound, Open
<1>2. ~LineNoise
  BY NoiseEffect DEF IInv, TypeOK, Sound
<1>3. CASE WHEEL_ControlSpeed
  BY <1>3, SendingIsDeciding DEF Abstract!Next
<1>4. CASE ControllerStep
  BY <1>4, HandlingIsMoving DEF Abstract!Next
<1>5. CASE Start \/ LoopTest \/ ReadField
  <2>1. UNCHANGED <<WHEEL_Data, status, line>> /\ RoundSize = 0 /\ RoundSize' = 0
        /\ pc # "M1" /\ pc' # "M1"
    BY <1>5 DEF Start, LoopTest, ReadField, ReadNext, RoundSize, IInv, LifeCycle
  <2>2. Left' = Left /\ Wanted' = Wanted
    BY <2>1 DEF Left, Wanted
  <2> QED
    BY <2>1, <2>2, Still DEF Abstract!vars
<1>6. CASE QIK_GetCommand
  <2>1. /\ pc = "ask" /\ pc' = "await" /\ UNCHANGED <<WHEEL_Data, status, motor>>
        /\ tx' = Append(tx, [to |-> "query", motion |-> query])
    BY <1>6 DEF QIK_GetCommand, Send, Sound
  <2>2. Left' = Left
    BY <2>1, LeftAppend, DecisionType, SoundLine DEF IInv
  <2>3. RoundSize' = RoundSize /\ Wanted' = Wanted
    BY <2>1 DEF RoundSize, Wanted
  <2> QED
    BY <2>1, <2>2, <2>3, Still DEF Abstract!vars
<1>7. CASE COMPORT_Receive
  <2>1. pc = "await" /\ pc' \in {"ask", "publish"} /\ UNCHANGED <<WHEEL_Data, status, motor, tx>>
    BY <1>7 DEF COMPORT_Receive, Store
  <2>2. Left' = Left /\ RoundSize' = RoundSize /\ Wanted' = Wanted
    BY <2>1 DEF Left, RoundSize, Wanted
  <2> QED
    BY <2>1, <2>2, Still DEF Abstract!vars
<1>8. CASE Publish
  <2>1. pc = "publish" /\ pc' = "test" /\ status' = WHEEL_Data /\ UNCHANGED <<WHEEL_Data, line>>
    BY <1>8 DEF Publish
  <2>2. tx = <<>>
    BY <2>1 DEF IInv, ReplyConfirms, Sound
  <2>3. Left = 0 /\ Left' = 0
    BY <2>1, <2>2, SoundLine, EmptySeq DEF Left
  <2>4. Phase = "report" /\ Phase' = "rest" /\ Stale = FALSE /\ Stale' = FALSE
        /\ Wanted' = Wanted /\ Wanted = WHEEL_Data
    BY <2>1, <2>3 DEF Phase, RoundSize, Stale, Wanted
  <2> QED
    BY <2>1, <2>4 DEF Mode, Sound, Abstract!Report, Abstract!Next
<1>9. CASE UNCHANGED <<thread, line>>
  <2>1. Left' = Left /\ RoundSize' = RoundSize /\ Wanted' = Wanted
    BY <1>9, DecisionKept DEF IInv, Left, RoundSize, Wanted
  <2> QED
    BY <1>9, <2>1, Still DEF Abstract!vars
<1> QED
  BY <1>1, <1>2, <1>3, <1>4, <1>5, <1>6, <1>7, <1>8, <1>9, ThreadOrLine

\* Every step of Wheel is a step of Drive, or one that Drive does not see.
LEMMA StepDrive == IInv /\ IInv' /\ [Next]_vars => [Abstract!Next]_(Abstract!vars)
<1> SUFFICES ASSUME IInv, IInv', [Next]_vars PROVE [Abstract!Next]_(Abstract!vars)
  OBVIOUS
<1>1. CASE ~Open'
  <2>1. /\ Mode' = "closed" /\ Stale' = FALSE /\ Phase' = "rest"
        /\ Wanted' = Halt /\ status' = Halt
    <3>1. pc' = "unborn"
      BY <1>1 DEF IInv, TypeOK, LifeCycle, Open
    <3>2. WHEEL_Data' = Halt /\ status' = Halt
      BY <3>1 DEF IInv, InRound
    <3> QED
      BY <1>1, <3>1, <3>2 DEF Mode, Stale, Sound, Phase, RoundSize, Wanted
  <2>2. CASE motor' = motor
    BY <2>1, <2>2 DEF Abstract!Next, Abstract!Close, Abstract!Closed
  <2>3. CASE motor' # motor
    <3>1. ControllerStep
      BY <2>3, ThreadOrLine DEF COMPORT_Connect, Start, Crash, LoopTest, ReadField, WHEEL_ControlSpeed,
         QIK_GetCommand, COMPORT_Receive, Publish, LineNoise, line
    <3>2. ~Open
      BY <1>1, <3>1 DEF ControllerStep, control, Open
    <3>3. Head(tx) \in Packet /\ Head(tx).to # "query"
          /\ motor' = [motor EXCEPT ![Head(tx).to] = Head(tx).motion]
      BY <2>3, <3>1, LeftHandled DEF ControllerStep, IInv
    <3>4. Head(tx).to \in Motor /\ Head(tx).motion \in Motion
      BY <3>3 DEF Packet
    <3>5. /\ Mode = "closed" /\ Stale = FALSE /\ Phase = "rest"
          /\ Wanted = Halt /\ status = Halt
      BY <3>2, ClosedPort
    <3> QED
      BY <2>1, <3>3, <3>4, <3>5 DEF Abstract!Next, Abstract!Drift, Abstract!Motor, Motor
  <2> QED
    BY <2>2, <2>3
<1>2. CASE Open' /\ ~Open
  <2>1. COMPORT_Connect
    BY <1>2, OtherContext, LineContext DEF IInv, Open
  <2>2. UNCHANGED <<pc, WHEEL_Data, status, motor>> /\ pc = "unborn"
    BY <2>1, LineContext DEF IInv, COMPORT_Connect, thread
  <2>3. Mode = "closed" /\ Mode' \in {"sound", "faulty"} /\ Stale' \in BOOLEAN
    BY <1>2 DEF Mode, Stale
  <2>4. Phase' = Phase /\ Wanted' = Wanted
    BY <2>2 DEF Phase, RoundSize, Wanted
  <2> QED
    BY <2>2, <2>3, <2>4 DEF Abstract!Next, Abstract!Open
<1>3. CASE Open' /\ Open /\ ~Sound'
  BY <1>3 DEF Mode, Abstract!Next, Abstract!Fault
<1>4. CASE Open' /\ Open /\ Sound'
  <2>1. Sound
    BY <1>4, SoundBefore DEF IInv, COMPORT_Connect, Open
  <2> QED
    BY <1>4, <2>1, SoundStep
<1> QED
  BY <1>1, <1>2, <1>3, <1>4

\* Seen through the refinement mapping, the thread (wheel.c), its dialogue with
\* the controller (qik.c, comport.c), kills and restarts do nothing on a sound
\* line but carry out one decision after the other on both motors, in order, and
\* report each when both have it.
THEOREM Refinement == Spec => ImplementsDrive
<1>1. Spec => Abstract!Init /\ [][Abstract!Next]_(Abstract!vars)
  BY InitDrive, StepDrive, Invariance, PTL DEF Spec
<1> QED
  BY <1>1 DEF ImplementsDrive, Abstract!Spec
=============================================================================
