-------------------------- MODULE IndicationProofs --------------------------
(* Theorems about Indication, for any LEDs, any times and any requests. *)
EXTENDS Indication, FiniteSetTheorems, SequenceTheorems, TLAPS

\* The handler exists between INDICATION_Init and the join, and starts on LEDs
\* that nobody has touched.
Stages ==
  /\ main \in {"init", "failed"} => pc = "unborn"
  /\ main = "closed" => pc = "done"
  /\ pc # "led" => at = 1
  /\ pc \in {"unborn", "start"} =>
       \A l \in Led :
         /\ typeCurrent[l] = "OFF" /\ seen[l] = "none"
         /\ blinkyPeriodCounter[l] = 0 /\ ~steady[l]

\* Without requests the blue LED blinks in the period the handler has set.
BluePeriod ==
  requests = 0 /\ pc \notin {"unborn", "start"} =>
    /\ type[Blue] = "Blinky"
    /\ blinkyOnTime[Blue] = OnTime /\ blinkyOffTime[Blue] = OffTime
    /\ blinkyPeriodCounter[Blue] <= OffTime

\* typeCurrent is what the handler found last, unless that was to blink, and what
\* a LED shows that has not blinked since.
Showing ==
  \A l \in Led :
    /\ seen[l] \in {"ON", "OFF"} => typeCurrent[l] = seen[l]
    /\ main \in {"started", "join"} /\ ~blinked[l] /\ ~failed[l] =>
         (Lit(l) <=> typeCurrent[l] = "ON")

\* The handler has come past l in this pass.
Passed(l) == pc = "sleep" \/ (pc = "led" /\ \E i \in 1..(at - 1) : Order[i] = l)

\* While a LED blinks undisturbed, its counter and the age of its period go
\* together; the counter is ahead between the handler and its sleep.
InPhase(l) ==
  LET n == blinkyPeriodCounter[l] IN
  IF Passed(l)
    THEN \/ n = age[l] + 1 /\ n <= blinkyOffTime[l]
         \/ n = 0 /\ age[l] = blinkyOffTime[l]
    ELSE \/ n = age[l] /\ 1 <= n /\ n <= blinkyOffTime[l]
         \/ n = 0 /\ age[l] = blinkyOffTime[l] + 1

Phases == \A l \in Led : steady[l] => type[l] = "Blinky" /\ (Sane(l) => InPhase(l))

\* The inductive invariant of Indication.
IInv ==
  /\ TypeOK
  /\ Stages
  /\ BluePeriod
  /\ Showing
  /\ DarkAfterClose
  /\ Phases

-----------------------------------------------------------------------------
\* The constants are numbers, and the LEDs are finitely many.
LEMMA Constants ==
  /\ MaxTime \in Nat /\ Width \in Nat /\ MaxRequest \in Nat /\ MaxAge \in Nat /\ MaxFault \in Nat
  /\ MaxTime < Width /\ MaxAge > 10 * MaxTime
  /\ OnTime \in Nat /\ OffTime \in Nat /\ 0 < OnTime /\ OnTime < OffTime /\ OffTime <= MaxTime
  /\ OnTime \in Time /\ OffTime \in Time /\ 0 \in Time
BY BoundAssumption, PeriodAssumption DEF Time

\* A counter that stays within the times does not wrap.
LEMMA NoWrap ==
  ASSUME NEW n \in Nat, n < MaxTime
  PROVE  (n + 1) % Width = n + 1
<1>1. \A a, b \in Nat : a < b => a % b = a
  OBVIOUS
<1> QED
  BY <1>1, Constants

\* The list names every LED, each once.
LEMMA Listed ==
  /\ Len(Order) \in Nat /\ Len(Order) > 0 /\ 1 \in 1..Len(Order)
  /\ \A i \in 1..Len(Order) : Order[i] \in Led
  /\ \A l \in Led : \E i \in 1..Len(Order) : l = Order[i]
  /\ \A i, j \in 1..Len(Order) : Order[i] = Order[j] => i = j
  /\ Blue \in Led
BY OrderAssumption, LenProperties DEF Led, Blue

\* There are finitely many LEDs.
LEMMA LedFinite == IsFiniteSet(Led)
<1> DEFINE f == [i \in 1..Len(Order) |-> Order[i]]
<1>1. f \in Surjection(1..Len(Order), Led)
  BY Listed DEF Surjection
<1>2. IsFiniteSet(1..Len(Order))
  BY Listed, FS_Interval
<1> QED
  BY <1>1, <1>2, FS_Surjection

\* A set of LEDs has a number.
LEMMA LedCount ==
  ASSUME NEW S, S \subseteq Led
  PROVE  Cardinality(S) \in Nat
BY LedFinite, FS_Subset, FS_CardinalityType

\* What can become of a pin is a pin.
LEMMA PinTypes ==
  ASSUME NEW p \in Pin
  PROVE  /\ Prepared(p) \subseteq Pin
         /\ p.high \in BOOLEAN
         /\ \A b \in BOOLEAN : p.state = "out" => [p EXCEPT !.high = b] \in Pin
<1>0. [state |-> "in", high |-> FALSE] \in Pin /\ [state |-> "out", high |-> FALSE] \in Pin
  BY DEF Pin
<1>1. \A q \in Pin : GPIO_Export(q) \subseteq Pin /\ GPIO_SetDirection(q) \subseteq Pin
  BY <1>0 DEF GPIO_Export, GPIO_SetDirection
<1>2. \A q \in Pin, b \in BOOLEAN : q.state = "out" => [q EXCEPT !.high = b] \in Pin
  BY DEF Pin, Absent
<1>3. \A q \in Pin : GPIO_SetValue(q, FALSE) \subseteq Pin
  BY <1>2 DEF GPIO_SetValue
<1>4. p.high \in BOOLEAN
  <2>1. CASE p = [state |-> "absent", high |-> FALSE]
    BY <2>1
  <2>2. CASE p = [state |-> "in", high |-> FALSE]
    BY <2>2
  <2>3. CASE p \in [state : {"out"}, high : BOOLEAN]
    BY <2>3
  <2> QED
    BY <2>1, <2>2, <2>3 DEF Pin, Absent
<1> QED
  BY <1>1, <1>2, <1>3, <1>4 DEF Prepared

\* A write to a pin keeps the types.
LEMMA SetValueType ==
  ASSUME TypeOK, NEW l \in Led, NEW high \in BOOLEAN, SetValue(l, high)
  PROVE  /\ pin' \in [Led -> Pin] /\ failed' \in [Led -> BOOLEAN] /\ faults' \in 0..MaxFault
         /\ \A k \in Led : k # l => pin'[k] = pin[k] /\ failed'[k] = failed[k]
<1>1. pin \in [Led -> Pin] /\ failed \in [Led -> BOOLEAN] /\ faults \in 0..MaxFault
  BY DEF TypeOK
<1>2. CASE /\ IsOut(l)
           /\ pin' = [pin EXCEPT ![l].high = high]
           /\ failed' = [failed EXCEPT ![l] = FALSE]
           /\ UNCHANGED faults
  <2>1. [pin[l] EXCEPT !.high = high] \in Pin
    BY <1>1, <1>2, PinTypes DEF IsOut
  <2> QED
    BY <1>1, <1>2, <2>1
<1>3. CASE /\ IF IsOut(l) THEN faults < MaxFault /\ faults' = faults + 1 ELSE UNCHANGED faults
           /\ failed' = [failed EXCEPT ![l] = TRUE]
           /\ UNCHANGED pin
  BY <1>1, <1>3, Constants
<1> QED
  BY <1>2, <1>3 DEF SetValue

\* After a write the LED shows what was written, or the write has failed.
LEMMA SetValueShows ==
  ASSUME TypeOK, NEW l \in Led, NEW high \in BOOLEAN, SetValue(l, high)
  PROVE  \/ pin'[l].high = high /\ ~failed'[l]
         \/ pin'[l] = pin[l] /\ failed'[l]
<1>1. CASE /\ IsOut(l)
           /\ pin' = [pin EXCEPT ![l].high = high]
           /\ failed' = [failed EXCEPT ![l] = FALSE]
  <2>1. pin \in [Led -> Pin] /\ failed \in [Led -> BOOLEAN]
    BY DEF TypeOK
  <2>2. pin'[l] = [pin[l] EXCEPT !.high = high]
    BY <1>1, <2>1
  <2>3. pin[l] \in [state : {"out"}, high : BOOLEAN]
    BY <1>1, <2>1 DEF Pin, Absent, IsOut
  <2> QED
    BY <1>1, <2>1, <2>2, <2>3
<1>2. CASE /\ failed' = [failed EXCEPT ![l] = TRUE]
           /\ UNCHANGED pin
  BY <1>2 DEF TypeOK
<1> QED
  BY <1>1, <1>2 DEF SetValue

\* INDICATION_LedControl touches the LED it has come to and no other.
LEMMA LedEffect ==
  ASSUME TypeOK, INDICATION_LedControl, NEW l, l = Order[at]
  PROVE  /\ l \in Led
         /\ typeCurrent' \in [Led -> {"OFF", "ON"}]
         /\ blinkyPeriodCounter' \in [Led -> 0..(Width - 1)]
         /\ pin' \in [Led -> Pin] /\ failed' \in [Led -> BOOLEAN] /\ faults' \in 0..MaxFault
         /\ seen' \in [Led -> Type \cup {"none"}] /\ blinked' \in [Led -> BOOLEAN]
         /\ age' \in [Led -> 0..MaxAge] /\ steady' \in [Led -> BOOLEAN]
         /\ seen'[l] = type[l]
         /\ \A k \in Led : k # l =>
              /\ typeCurrent'[k] = typeCurrent[k]
              /\ blinkyPeriodCounter'[k] = blinkyPeriodCounter[k]
              /\ pin'[k] = pin[k] /\ failed'[k] = failed[k]
              /\ seen'[k] = seen[k] /\ blinked'[k] = blinked[k]
              /\ age'[k] = age[k] /\ steady'[k] = steady[k]
<1>1. l \in Led
  BY Listed DEF TypeOK
<1>2. Set(l) \/ Blink(l)
  BY DEF INDICATION_LedControl
<1>3. /\ seen' \in [Led -> Type \cup {"none"}] /\ seen'[l] = type[l]
      /\ \A k \in Led : k # l => seen'[k] = seen[k]
  BY <1>1 DEF INDICATION_LedControl, TypeOK
<1>4. CASE Set(l)
  <2>1. type[l] \in {"OFF", "ON"}
    BY <1>1, <1>4 DEF Set, TypeOK, Type
  <2>2. /\ UNCHANGED <<blinkyPeriodCounter, age>>
        /\ steady' = [steady EXCEPT ![l] = FALSE]
    BY <1>4 DEF Set
  <2>3. CASE typeCurrent[l] # type[l]
    <3>1. /\ SetValue(l, type[l] = "ON")
          /\ typeCurrent' = [typeCurrent EXCEPT ![l] = type[l]]
          /\ blinked' = [blinked EXCEPT ![l] = FALSE]
      BY <1>4, <2>3 DEF Set
    <3>2. (type[l] = "ON") \in BOOLEAN
      OBVIOUS
    <3>3. /\ pin' \in [Led -> Pin] /\ failed' \in [Led -> BOOLEAN] /\ faults' \in 0..MaxFault
          /\ \A k \in Led : k # l => pin'[k] = pin[k] /\ failed'[k] = failed[k]
      BY <1>1, <3>1, <3>2, SetValueType
    <3> QED
      BY <1>1, <1>3, <2>1, <2>2, <3>1, <3>3 DEF TypeOK
  <2>4. CASE typeCurrent[l] = type[l]
    <3>1. UNCHANGED <<typeCurrent, gpio, blinked>>
      BY <1>4, <2>4 DEF Set
    <3> QED
      BY <1>1, <1>3, <2>2, <3>1 DEF TypeOK, gpio
  <2> QED
    BY <2>3, <2>4
<1>5. CASE Blink(l)
  <2> DEFINE n == blinkyPeriodCounter[l]
  <2>1. /\ UNCHANGED typeCurrent
        /\ blinked' = [blinked EXCEPT ![l] = TRUE]
        /\ age' = [age EXCEPT ![l] = IF n = 0 THEN 0 ELSE @]
        /\ steady' = [steady EXCEPT ![l] = ~failed'[l] /\ (@ \/ n = 0)]
        /\ blinkyPeriodCounter' = [blinkyPeriodCounter EXCEPT ![l] = NextCount(l)]
    BY <1>5 DEF Blink
  <2>2. n \in 0..(Width - 1) /\ NextCount(l) \in 0..(Width - 1)
    <3>1. n \in Nat /\ n < Width /\ Width \in Nat
      BY <1>1, Constants DEF TypeOK
    <3>2. (n + 1) % Width \in 0..(Width - 1)
      BY <3>1
    <3> QED
      BY <3>1, <3>2 DEF NextCount
  <2>3. /\ pin' \in [Led -> Pin] /\ failed' \in [Led -> BOOLEAN] /\ faults' \in 0..MaxFault
        /\ \A k \in Led : k # l => pin'[k] = pin[k] /\ failed'[k] = failed[k]
    <3>1. CASE SetValue(l, n = 0)
      <4>1. (n = 0) \in BOOLEAN
        OBVIOUS
      <4> QED
        BY <1>1, <3>1, <4>1, SetValueType
    <3>2. CASE UNCHANGED gpio
      BY <3>2 DEF gpio, TypeOK
    <3> QED
      BY <1>5, <3>1, <3>2 DEF Blink
  <2>4. /\ blinked' \in [Led -> BOOLEAN] /\ steady' \in [Led -> BOOLEAN]
        /\ age' \in [Led -> 0..MaxAge]
    BY <1>1, <2>1, Constants DEF TypeOK
  <2> QED
    BY <1>1, <1>3, <2>1, <2>2, <2>3, <2>4 DEF TypeOK
<1> QED
  BY <1>2, <1>4, <1>5

\* INDICATION_Init leaves every pin as a pin and counts its failures.
LEMMA InitEffect ==
  ASSUME TypeOK, INDICATION_Init
  PROVE  /\ pin' \in [Led -> Pin] /\ failed' \in [Led -> BOOLEAN] /\ faults' \in 0..MaxFault
         /\ \A l \in Led : ~failed'[l] => ~pin'[l].high
<1>1. PICK p \in [Led -> Pin] :
        /\ pin' = p
        /\ failed' = [l \in Led |-> p[l] # [state |-> "out", high |-> FALSE]]
        /\ faults' = Cardinality({l \in Led : failed'[l]}) /\ faults' <= MaxFault
  BY DEF INDICATION_Init
<1>2. faults' \in 0..MaxFault
  <2> DEFINE S == {l \in Led : failed'[l]}
  <2>1. Cardinality(S) \in Nat
    BY LedCount
  <2> QED
    BY <1>1, <2>1, Constants
<1>3. \A l \in Led : ~failed'[l] => pin'[l] = [state |-> "out", high |-> FALSE]
  BY <1>1
<1>4. failed' \in [Led -> BOOLEAN]
  BY <1>1
<1> QED
  BY <1>1, <1>2, <1>3, <1>4

\* INDICATION_Close puts out what it can.
LEMMA CloseEffect ==
  ASSUME TypeOK, CloseLeds
  PROVE  /\ pin' \in [Led -> Pin] /\ failed' \in [Led -> BOOLEAN] /\ faults' \in 0..MaxFault
         /\ \A l \in Led : pin'[l].high => failed'[l]
<1>1. PICK bad \in SUBSET {l \in Led : IsOut(l)} : AllLow(bad)
  BY DEF CloseLeds
<1>2. faults' \in 0..MaxFault
  <2>1. Cardinality(bad) \in Nat
    BY LedCount
  <2> QED
    BY <1>1, <2>1, Constants DEF AllLow, TypeOK
<1>3. failed' = [l \in Led |-> ~IsOut(l) \/ l \in bad]
  BY <1>1 DEF AllLow
<1>4. pin' = [l \in Led |-> IF IsOut(l) /\ l \notin bad THEN [pin[l] EXCEPT !.high = FALSE] ELSE pin[l]]
  BY <1>1 DEF AllLow
<1>5. \A l \in Led : pin[l] \in Pin /\ (IsOut(l) => [pin[l] EXCEPT !.high = FALSE] \in Pin)
  BY PinTypes DEF IsOut, TypeOK
<1>6. pin' \in [Led -> Pin]
  BY <1>4, <1>5
<1>7. ASSUME NEW l \in Led, ~failed'[l] PROVE ~pin'[l].high
  <2>1. IsOut(l) /\ l \notin bad
    BY <1>3, <1>7
  <2>2. pin'[l] = [pin[l] EXCEPT !.high = FALSE]
    BY <1>4, <2>1
  <2>3. pin[l] \in Pin
    BY DEF TypeOK
  <2>4. pin[l] \in [state : {"out"}, high : BOOLEAN]
    BY <2>1, <2>3 DEF Pin, Absent, IsOut
  <2> QED
    BY <2>2, <2>4
<1> QED
  BY <1>2, <1>3, <1>6, <1>7

-----------------------------------------------------------------------------
\* How the handler and main take their stages.
LEMMA StagesStep ==
  ASSUME TypeOK, Stages, [Next]_vars
  PROVE  Stages'
<1> USE DEF Stages, handler, led, gpio, history, request
<1>1. CASE INDICATION_Init
  BY <1>1 DEF INDICATION_Init
<1>2. CASE INDICATION_Close
  BY <1>2 DEF INDICATION_Close
<1>3. CASE CloseLeds
  BY <1>3 DEF CloseLeds
<1>4. ASSUME NEW l \in Led, Request(l) PROVE Stages'
  <2>1. steady' = [steady EXCEPT ![l] = FALSE] /\ steady \in [Led -> BOOLEAN]
    BY <1>4 DEF Request, TypeOK
  <2>2. \A k \in Led : ~steady[k] => ~steady'[k]
    BY <2>1
  <2> QED
    BY <1>4, <2>2 DEF Request
<1>5. CASE HandlerStart
  BY <1>5 DEF HandlerStart
<1>6. CASE HandlerLoop
  BY <1>6 DEF HandlerLoop
<1>7. CASE INDICATION_LedControl
  BY <1>7 DEF INDICATION_LedControl
<1>8. CASE HandlerSleep
  BY <1>8 DEF HandlerSleep
<1>9. CASE UNCHANGED vars
  BY <1>9 DEF vars
<1> QED
  BY <1>1, <1>2, <1>3, <1>4, <1>5, <1>6, <1>7, <1>8, <1>9 DEF Next, HandlerStep

\* Undisturbed, the counter of the blue LED never leaves its period.
LEMMA BluePeriodStep ==
  ASSUME TypeOK, Stages, BluePeriod, [Next]_vars
  PROVE  BluePeriod'
<1> USE Constants, Listed DEF BluePeriod, Stages, handler, led, gpio, history, request
<1>1. CASE INDICATION_Init
  BY <1>1 DEF INDICATION_Init
<1>2. CASE INDICATION_Close
  BY <1>2 DEF INDICATION_Close
<1>3. CASE CloseLeds
  BY <1>3 DEF CloseLeds
<1>4. ASSUME NEW l \in Led, Request(l) PROVE BluePeriod'
  BY <1>4 DEF Request, TypeOK
<1>5. CASE HandlerStart
  BY <1>5 DEF HandlerStart, TypeOK
<1>6. CASE HandlerLoop
  BY <1>6 DEF HandlerLoop
<1>7. CASE INDICATION_LedControl
  <2> SUFFICES ASSUME requests = 0 PROVE BluePeriod'
    BY <1>7 DEF INDICATION_LedControl
  <2>1. /\ type[Blue] = "Blinky" /\ blinkyOnTime[Blue] = OnTime /\ blinkyOffTime[Blue] = OffTime
        /\ blinkyPeriodCounter[Blue] <= OffTime /\ blinkyPeriodCounter[Blue] \in Nat
        /\ UNCHANGED <<type, blinkyOnTime, blinkyOffTime>>
    BY <1>7 DEF INDICATION_LedControl, TypeOK
  <2>2. CASE Order[at] = Blue
    <3>1. Blink(Blue)
      BY <1>7, <2>1, <2>2 DEF INDICATION_LedControl, Set
    <3>2. blinkyPeriodCounter'[Blue] = NextCount(Blue)
      BY <3>1 DEF Blink, TypeOK
    <3>3. NextCount(Blue) <= OffTime
      <4> DEFINE n == blinkyPeriodCounter[Blue]
      <4>1. CASE n = OffTime
        BY <2>1, <4>1 DEF NextCount
      <4>2. CASE n < OffTime
        <5>1. (n + 1) % Width = n + 1
          BY <2>1, <4>2, NoWrap
        <5> QED
          BY <2>1, <4>2, <5>1 DEF NextCount
      <4> QED
        BY <2>1, <4>1, <4>2
    <3> QED
      BY <2>1, <3>2, <3>3
  <2>3. CASE Order[at] # Blue
    BY <1>7, <2>1, <2>3, LedEffect
  <2> QED
    BY <2>2, <2>3
<1>8. CASE HandlerSleep
  BY <1>8 DEF HandlerSleep
<1>9. CASE UNCHANGED vars
  BY <1>9 DEF vars
<1> QED
  BY <1>1, <1>2, <1>3, <1>4, <1>5, <1>6, <1>7, <1>8, <1>9 DEF Next, HandlerStep

\* Every step keeps the types.
LEMMA TypeStep ==
  ASSUME TypeOK, Stages, Stages', BluePeriod', [Next]_vars
  PROVE  TypeOK'
<1>0. requests' = 0 => blinkyPeriodCounter'[Blue] <= OffTime
  BY Constants, Listed DEF Stages, BluePeriod
<1> USE Constants, <1>0 DEF TypeOK, handler, led, gpio, history, request
<1>1. CASE INDICATION_Init
  BY <1>1, InitEffect DEF INDICATION_Init
<1>2. CASE INDICATION_Close
  BY <1>2 DEF INDICATION_Close
<1>3. CASE CloseLeds
  BY <1>3, CloseEffect DEF CloseLeds
<1>4. ASSUME NEW l \in Led, Request(l) PROVE TypeOK'
  <2>1. requests' \in 0..MaxRequest
    BY <1>4 DEF Request
  <2>2. steady' \in [Led -> BOOLEAN]
    BY <1>4 DEF Request
  <2>3. type' \in [Led -> Type]
    BY <1>4 DEF Request
  <2>4. blinkyOnTime' \in [Led -> Time]
    BY <1>4 DEF Request
  <2>5. blinkyOffTime' \in [Led -> Time]
    BY <1>4 DEF Request
  <2> QED
    BY <1>4, <2>1, <2>2, <2>3, <2>4, <2>5 DEF Request
<1>5. CASE HandlerStart
  <2>1. /\ type' \in [Led -> Type]
        /\ blinkyOnTime' \in [Led -> Time] /\ blinkyOffTime' \in [Led -> Time]
    BY <1>5 DEF HandlerStart, Type
  <2> QED
    BY <1>5, <2>1 DEF HandlerStart
<1>6. CASE HandlerLoop
  BY <1>6 DEF HandlerLoop
<1>7. CASE INDICATION_LedControl
  <2>1. at' \in 1..Len(Order) /\ pc' \in {"led", "sleep"}
    BY <1>7, Listed DEF INDICATION_LedControl
  <2> QED
    BY <1>7, <2>1, LedEffect DEF INDICATION_LedControl
<1>8. CASE HandlerSleep
  <2>1. age' \in [Led -> 0..MaxAge]
    BY <1>8 DEF HandlerSleep
  <2> QED
    BY <1>8, <2>1 DEF HandlerSleep
<1>9. CASE UNCHANGED vars
  BY <1>9 DEF vars
<1> QED
  BY <1>1, <1>2, <1>3, <1>4, <1>5, <1>6, <1>7, <1>8, <1>9 DEF Next, HandlerStep

\* A LED shows what the handler switched it to.
LEMMA ShowingStep ==
  ASSUME TypeOK, Stages, Showing, [Next]_vars
  PROVE  Showing'
<1> USE DEF Showing, Lit, handler, led, gpio, history, request
<1>1. CASE INDICATION_Init
  <2>1. main = "init" /\ UNCHANGED <<typeCurrent, seen, blinked>>
    BY <1>1 DEF INDICATION_Init
  <2>2. \A l \in Led : typeCurrent'[l] = "OFF" /\ seen'[l] = "none"
    BY <2>1 DEF Stages
  <2>3. \A l \in Led : pin'[l] \in Pin /\ (~failed'[l] => ~pin'[l].high)
    BY <1>1, InitEffect
  <2> QED
    BY <2>2, <2>3
<1>2. CASE INDICATION_Close
  BY <1>2 DEF INDICATION_Close
<1>3. CASE CloseLeds
  BY <1>3 DEF CloseLeds
<1>4. ASSUME NEW l \in Led, Request(l) PROVE Showing'
  BY <1>4 DEF Request
<1>5. CASE HandlerStart
  BY <1>5 DEF HandlerStart
<1>6. CASE HandlerLoop
  BY <1>6 DEF HandlerLoop
<1>7. CASE INDICATION_LedControl
  <2> DEFINE l == Order[at]
  <2>1. /\ l \in Led
        /\ seen'[l] = type[l] /\ UNCHANGED main
        /\ pc = "led" /\ main \in {"started", "join"}
        /\ Set(l) \/ Blink(l)
    BY <1>7, LedEffect DEF INDICATION_LedControl, Stages, TypeOK
  <2>2. \A k \in Led : k # l =>
          /\ typeCurrent'[k] = typeCurrent[k] /\ pin'[k] = pin[k] /\ failed'[k] = failed[k]
          /\ seen'[k] = seen[k] /\ blinked'[k] = blinked[k]
    BY <1>7, LedEffect
  <2>3. /\ seen'[l] \in {"ON", "OFF"} => typeCurrent'[l] = seen'[l]
        /\ ~blinked'[l] /\ ~failed'[l] => (pin'[l].high <=> typeCurrent'[l] = "ON")
    <3>1. CASE Set(l) /\ typeCurrent[l] # type[l]
      <4>1. typeCurrent'[l] = type[l] /\ SetValue(l, type[l] = "ON")
        BY <2>1, <3>1 DEF Set, TypeOK
      <4>2. (type[l] = "ON") \in BOOLEAN
        OBVIOUS
      <4>3. failed'[l] \/ (pin'[l].high = (type[l] = "ON"))
        BY <2>1, <4>1, <4>2, SetValueShows
      <4> QED
        BY <2>1, <4>1, <4>3
    <3>2. CASE Set(l) /\ typeCurrent[l] = type[l]
      BY <2>1, <3>2 DEF Set
    <3>3. CASE Blink(l)
      BY <2>1, <3>3 DEF Blink, TypeOK
    <3> QED
      BY <2>1, <3>1, <3>2, <3>3
  <2> QED
    BY <2>1, <2>2, <2>3
<1>8. CASE HandlerSleep
  BY <1>8 DEF HandlerSleep
<1>9. CASE UNCHANGED vars
  BY <1>9 DEF vars
<1> QED
  BY <1>1, <1>2, <1>3, <1>4, <1>5, <1>6, <1>7, <1>8, <1>9 DEF Next, HandlerStep

\* Nobody writes to a pin after CloseLeds: the handler has ended.
LEMMA DarkStep ==
  ASSUME TypeOK, Stages, DarkAfterClose, [Next]_vars
  PROVE  DarkAfterClose'
<1> USE DEF DarkAfterClose, Lit, Stages, handler, led, gpio, history, request
<1>1. CASE INDICATION_Init
  BY <1>1 DEF INDICATION_Init
<1>2. CASE INDICATION_Close
  BY <1>2 DEF INDICATION_Close
<1>3. CASE CloseLeds
  BY <1>3, CloseEffect
<1>4. ASSUME NEW l \in Led, Request(l) PROVE DarkAfterClose'
  BY <1>4 DEF Request
<1>5. CASE HandlerStart
  BY <1>5 DEF HandlerStart
<1>6. CASE HandlerLoop
  BY <1>6 DEF HandlerLoop
<1>7. CASE INDICATION_LedControl
  BY <1>7 DEF INDICATION_LedControl
<1>8. CASE HandlerSleep
  BY <1>8 DEF HandlerSleep
<1>9. CASE UNCHANGED vars
  BY <1>9 DEF vars
<1> QED
  BY <1>1, <1>2, <1>3, <1>4, <1>5, <1>6, <1>7, <1>8, <1>9 DEF Next, HandlerStep

\* The LED the handler comes to has not been passed, and has been after; for the
\* others that is as it was.
LEMMA PassedStep ==
  ASSUME TypeOK, INDICATION_LedControl, NEW l, l = Order[at]
  PROVE  /\ ~Passed(l) /\ Passed(l)'
         /\ \A k \in Led : k # l => (Passed(k)' <=> Passed(k))
<1>1. at \in 1..Len(Order) /\ pc = "led"
  BY DEF TypeOK, INDICATION_LedControl
<1>2. ~Passed(l)
  BY <1>1, Listed DEF Passed
<1>3. CASE at = Len(Order)
  <2>1. pc' = "sleep"
    BY <1>3 DEF INDICATION_LedControl
  <2>2. \A k \in Led : k # l => \E i \in 1..(at - 1) : Order[i] = k
    BY <1>1, <1>3, Listed
  <2> QED
    BY <1>1, <1>2, <2>1, <2>2 DEF Passed
<1>4. CASE at # Len(Order)
  <2>1. at' = at + 1 /\ pc' = "led"
    BY <1>1, <1>4 DEF INDICATION_LedControl
  <2>2. \A i : i \in 1..(at' - 1) <=> (i \in 1..(at - 1) \/ i = at)
    BY <1>1, <2>1
  <2>3. Passed(l)'
    BY <1>1, <2>1, <2>2 DEF Passed
  <2>4. ASSUME NEW k \in Led, k # l PROVE Passed(k)' <=> Passed(k)
    BY <1>1, <2>1, <2>2, <2>4 DEF Passed
  <2> QED
    BY <1>2, <2>3, <2>4
<1> QED
  BY <1>3, <1>4

\* The counter of a blinking LED and the age of its period keep in step.
LEMMA PhasesStep ==
  ASSUME TypeOK, Stages, Phases, [Next]_vars
  PROVE  Phases'
<1> USE DEF handler, led, gpio, history, request
<1> DEFINE Phase(k) == steady[k] => type[k] = "Blinky" /\ (Sane(k) => InPhase(k))
<1>0. (\A k \in Led : Phase(k)') => Phases'
  BY DEF Phases
<1> HIDE DEF Phase
<1>1. CASE INDICATION_Init
  BY <1>0, <1>1 DEF INDICATION_Init, Stages, Phase
<1>2. CASE INDICATION_Close
  BY <1>2 DEF INDICATION_Close, Phases, Sane, InPhase, Passed
<1>3. CASE CloseLeds
  BY <1>3 DEF CloseLeds, Phases, Sane, InPhase, Passed
<1>4. ASSUME NEW l \in Led, Request(l) PROVE Phases'
  <2>1. steady' = [steady EXCEPT ![l] = FALSE]
        /\ UNCHANGED <<pc, at, blinkyPeriodCounter, age>>
    BY <1>4 DEF Request
  <2>2. \A k \in Led : k # l =>
          /\ type'[k] = type[k]
          /\ blinkyOnTime'[k] = blinkyOnTime[k] /\ blinkyOffTime'[k] = blinkyOffTime[k]
    BY <1>4 DEF Request, TypeOK
  <2>3. Phase(l)'
    BY <2>1 DEF TypeOK, Phase
  <2>4. ASSUME NEW k \in Led, k # l PROVE Phase(k)'
    BY <2>1, <2>2, <2>4 DEF TypeOK, Phase, Phases, Sane, InPhase, Passed
  <2> QED
    BY <1>0, <2>3, <2>4
<1>5. CASE HandlerStart
  BY <1>0, <1>5 DEF HandlerStart, Stages, Phase
<1>6. CASE HandlerLoop
  <2>1. \A k \in Led : ~Passed(k) /\ ~Passed(k)'
    BY <1>6 DEF HandlerLoop, Passed, Stages
  <2> QED
    BY <1>6, <2>1 DEF HandlerLoop, Phases, Sane, InPhase
<1>7. CASE INDICATION_LedControl
  <2>1. PICK l \in Led : l = Order[at]
    BY <1>7, LedEffect
  <2>2. UNCHANGED request /\ (Set(l) \/ Blink(l))
    BY <1>7, <2>1 DEF INDICATION_LedControl
  <2>3. Phase(l)'
    <3>1. CASE Set(l)
      BY <3>1 DEF Set, TypeOK, Phase
    <3>2. CASE Blink(l)
      <4> DEFINE n == blinkyPeriodCounter[l]
      <4>1. /\ type'[l] = "Blinky"
            /\ blinkyPeriodCounter'[l] = NextCount(l)
            /\ age'[l] = IF n = 0 THEN 0 ELSE age[l]
            /\ steady'[l] => steady[l] \/ n = 0
        BY <2>2, <3>2 DEF Blink, TypeOK
      <4>2. ~Passed(l) /\ Passed(l)'
        BY <1>7, <2>1, PassedStep
      <4>3. blinkyOnTime[l] \in Nat /\ blinkyOffTime[l] \in Nat /\ n \in Nat /\ blinkyOffTime[l] <= MaxTime
        BY Constants DEF TypeOK, Time
      <4> SUFFICES ASSUME steady'[l], Sane(l)
                   PROVE  InPhase(l)'
        BY <2>2, <4>1 DEF Phase, Sane
      <4>4. CASE n = 0
        <5>1. (n + 1) % Width = n + 1
          BY <4>3, <4>4, NoWrap, Constants DEF Sane
        <5>2. blinkyPeriodCounter'[l] = 1 /\ age'[l] = 0
          BY <4>1, <4>4, <5>1 DEF NextCount
        <5> QED
          BY <2>2, <4>2, <4>3, <5>2 DEF InPhase, Sane
      <4>5. CASE n # 0
        <5>1. n = age[l] /\ 1 <= n /\ n <= blinkyOffTime[l]
          BY <4>1, <4>2, <4>5 DEF Phases, InPhase
        <5>2. CASE n = blinkyOffTime[l]
          BY <2>2, <4>1, <4>2, <4>3, <5>1, <5>2 DEF InPhase, Sane, NextCount
        <5>3. CASE n < blinkyOffTime[l]
          <6>1. (n + 1) % Width = n + 1
            BY <4>3, <5>3, NoWrap, Constants
          <6> QED
            BY <2>2, <4>1, <4>2, <4>3, <5>1, <5>3, <6>1 DEF InPhase, Sane, NextCount
        <5> QED
          BY <4>3, <5>1, <5>2, <5>3
      <4> QED
        BY <4>4, <4>5
    <3> QED
      BY <2>2, <3>1, <3>2
  <2>4. ASSUME NEW k \in Led, k # l PROVE Phase(k)'
    <3>1. Passed(k)' <=> Passed(k)
      BY <1>7, <2>1, <2>4, PassedStep
    <3>2. /\ blinkyPeriodCounter'[k] = blinkyPeriodCounter[k]
          /\ age'[k] = age[k] /\ steady'[k] = steady[k]
      BY <1>7, <2>1, <2>4, LedEffect
    <3> QED
      BY <2>2, <3>1, <3>2 DEF Phase, Phases, Sane, InPhase
  <2> QED
    BY <1>0, <2>3, <2>4
<1>8. CASE HandlerSleep
  <2> SUFFICES ASSUME NEW k \in Led, steady[k]
               PROVE  Phase(k)'
    BY <1>0, <1>8 DEF HandlerSleep, Phase
  <2>1. /\ pc = "sleep" /\ pc' = "test"
        /\ UNCHANGED <<request, blinkyPeriodCounter, steady>>
    BY <1>8 DEF HandlerSleep
  <2>2. type[k] = "Blinky" /\ (Sane(k) => InPhase(k))
    BY DEF Phases
  <2>3. Passed(k) /\ ~Passed(k)'
    BY <2>1 DEF Passed
  <2>4. age'[k] = IF age[k] + 1 > MaxAge THEN MaxAge ELSE age[k] + 1
    BY <1>8, <2>2 DEF HandlerSleep
  <2>5. /\ blinkyOnTime[k] \in Nat /\ blinkyOffTime[k] \in Nat /\ age[k] \in Nat
        /\ blinkyPeriodCounter[k] \in Nat /\ blinkyOffTime[k] <= MaxTime
    BY Constants DEF TypeOK, Time
  <2>6. ASSUME Sane(k) PROVE InPhase(k)'
    <3>1. age[k] + 1 <= MaxAge /\ age'[k] = age[k] + 1
      BY <2>2, <2>3, <2>4, <2>5, <2>6, Constants DEF InPhase, Sane
    <3> QED
      BY <2>1, <2>2, <2>3, <2>5, <2>6, <3>1 DEF InPhase
  <2> QED
    BY <2>1, <2>2, <2>6 DEF Phase, Sane
<1>9. CASE UNCHANGED vars
  BY <1>9 DEF vars, Phases, Sane, InPhase, Passed
<1> QED
  BY <1>1, <1>2, <1>3, <1>4, <1>5, <1>6, <1>7, <1>8, <1>9 DEF Next, HandlerStep

-----------------------------------------------------------------------------
\* What a killed run may have left is a pin.
LEMMA LeftBehind == {Absent, [state |-> "out", high |-> TRUE]} \subseteq Pin
<1>1. [state |-> "out", high |-> TRUE] \in [state : {"out"}, high : BOOLEAN]
  OBVIOUS
<1>2. [state |-> "out", high |-> TRUE] \in Pin
  BY <1>1 DEF Pin
<1>3. Absent \in Pin
  BY DEF Pin
<1> QED
  BY <1>2, <1>3

\* The invariant holds when ds2d starts.
LEMMA InitIInv ==
  ASSUME Init
  PROVE  IInv
<1>1. pin \in [Led -> Pin]
  <2> DEFINE S == {Absent, [state |-> "out", high |-> TRUE]}
  <2>1. pin \in [Led -> S]
    BY DEF Init
  <2>2. S \subseteq Pin
    BY LeftBehind
  <2> HIDE DEF S
  <2> QED
    BY <2>1, <2>2
<1> USE Constants, Listed DEF Init
<1>2. TypeOK
  <2>1. type \in [Led -> Type] /\ typeCurrent \in [Led -> {"OFF", "ON"}] /\ seen \in [Led -> Type \cup {"none"}]
    BY DEF Type
  <2>2. blinkyOnTime \in [Led -> Time] /\ blinkyOffTime \in [Led -> Time]
    OBVIOUS
  <2>3. blinkyPeriodCounter \in [Led -> 0..(Width - 1)] /\ age \in [Led -> 0..MaxAge]
    OBVIOUS
  <2>4. faults \in 0..MaxFault /\ requests \in 0..MaxRequest /\ blinkyPeriodCounter[Blue] <= OffTime
    OBVIOUS
  <2> QED
    BY <1>1, <2>1, <2>2, <2>3, <2>4 DEF TypeOK
<1>3. Stages /\ BluePeriod /\ Showing /\ DarkAfterClose /\ Phases
  BY DEF Stages, BluePeriod, Showing, DarkAfterClose, Phases
<1> QED
  BY <1>2, <1>3 DEF IInv

\* The handler, main and whoever asks for something keep the invariant.
THEOREM Invariance == Spec => []IInv
<1>1. ASSUME IInv, [Next]_vars PROVE IInv'
  <2>1. TypeOK /\ Stages /\ BluePeriod /\ Showing /\ DarkAfterClose /\ Phases
    BY <1>1 DEF IInv
  <2>2. Stages' /\ BluePeriod' /\ Showing' /\ DarkAfterClose' /\ Phases'
    BY <1>1, <2>1, StagesStep, BluePeriodStep, ShowingStep, DarkStep, PhasesStep
  <2>3. TypeOK'
    BY <1>1, <2>1, <2>2, TypeStep
  <2> QED
    BY <2>2, <2>3 DEF IInv
<1> QED
  BY <1>1, InitIInv, PTL DEF Spec

\* Each variable has its type, and nobody's requests but the handler's own keep
\* the blue LED's counter within its period.
THEOREM TypeCorrect == Spec => []TypeOK
<1>1. IInv => TypeOK
  BY DEF IInv
<1> QED
  BY <1>1, Invariance, PTL

\* INDICATION_LedControl: a LED that has not blinked since it was switched shows
\* what was found asked for, unless its last write failed.
THEOREM SwitchedLedsShow == Spec => []SwitchedShows
<1>1. ASSUME IInv PROVE SwitchedShows
  <2>1. TypeOK /\ Stages /\ Showing
    BY <1>1 DEF IInv
  <2> SUFFICES ASSUME main # "closed", NEW l \in Led,
                      ~blinked[l], ~failed[l], seen[l] \in {"ON", "OFF"}
               PROVE  Lit(l) <=> seen[l] = "ON"
    BY DEF SwitchedShows
  <2>2. main \in {"started", "join"}
    BY <2>1 DEF TypeOK, Stages
  <2> QED
    BY <2>1, <2>2 DEF Showing
<1> QED
  BY <1>1, Invariance, PTL

\* INDICATION_Close: what could be written is dark, and stays dark.
THEOREM DarkForGood == Spec => []DarkAfterClose
<1>1. IInv => DarkAfterClose
  BY DEF IInv
<1> QED
  BY <1>1, Invariance, PTL

\* ledBlinky: the pin of an undisturbed LED falls and rises at the ages its times
\* describe, whatever the other LEDs do and for any times below the width.
THEOREM Duty == Spec => DutyCycle
<1> DEFINE Good(l) ==
      steady[l] /\ type[l] = "Blinky" /\ Sane(l) =>
        /\ Falls(l) => age[l] = blinkyOnTime[l]
        /\ Rises(l) => age[l] = blinkyOffTime[l] + 1
<1>1. ASSUME IInv, [Next]_vars, NEW l \in Led PROVE Good(l)
  <2> SUFFICES ASSUME steady[l], type[l] = "Blinky", Sane(l), pc = "led", ~(Lit(l)' <=> Lit(l))
               PROVE  /\ Falls(l) => age[l] = blinkyOnTime[l]
                      /\ Rises(l) => age[l] = blinkyOffTime[l] + 1
    BY DEF Falls, Rises
  <2>1. TypeOK /\ Stages /\ Phases
    BY <1>1 DEF IInv
  <2>2. INDICATION_LedControl
    <3>1. main \notin {"init", "closed"}
      BY <2>1 DEF Stages
    <3>2. ~INDICATION_Init /\ ~CloseLeds /\ ~HandlerStart /\ ~HandlerLoop /\ ~HandlerSleep
      BY <3>1 DEF INDICATION_Init, CloseLeds, HandlerStart, HandlerLoop, HandlerSleep
    <3>3. pin' # pin
      BY DEF Lit
    <3>4. ~INDICATION_Close /\ \A k \in Led : ~Request(k)
      BY <3>3 DEF INDICATION_Close, Request, led, gpio
    <3> QED
      BY <1>1, <3>2, <3>3, <3>4 DEF Next, HandlerStep, vars, led, gpio
  <2>3. l = Order[at]
    BY <2>1, <2>2, LedEffect DEF Lit
  <2>4. Blink(l)
    BY <2>2, <2>3 DEF INDICATION_LedControl, Set
  <2> DEFINE n == blinkyPeriodCounter[l]
  <2>5. n \in {0, blinkyOnTime[l]} /\ SetValue(l, n = 0)
    BY <2>4 DEF Blink, gpio, Lit
  <2>6. ~Passed(l)
    BY <2>1, <2>2, <2>3, PassedStep
  <2>7. InPhase(l)
    BY <2>1 DEF Phases
  <2>8. (n = 0) \in BOOLEAN
    OBVIOUS
  <2>9. pin'[l].high = (n = 0)
    BY <2>1, <2>5, <2>8, SetValueShows DEF Lit
  <2>10. Falls(l) => n # 0
    BY <2>9 DEF Falls, Lit
  <2>11. Rises(l) => n = 0
    BY <2>9 DEF Rises, Lit
  <2>12. n = 0 => age[l] = blinkyOffTime[l] + 1
    BY <2>6, <2>7 DEF InPhase
  <2>13. n # 0 => n = blinkyOnTime[l] /\ n = age[l]
    BY <2>5, <2>6, <2>7 DEF InPhase
  <2> QED
    BY <2>10, <2>11, <2>12, <2>13
<1>2. ASSUME IInv, [Next]_vars
      PROVE  [\A l \in Led : Good(l)]_vars
  BY <1>1, <1>2
<1> QED
  BY <1>2, Invariance, PTL DEF Spec, DutyCycle
=============================================================================
