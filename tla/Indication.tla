----------------------------- MODULE Indication -----------------------------
(***************************************************************************)
(* The LEDs of ds2d (indication.c): INDICATION_Handler, which works off    *)
(* the requests in the global `indication' without a lock, and the rest of *)
(* the program, which writes them there field by field.                    *)
(***************************************************************************)
EXTENDS Naturals, Sequences, Gpio

CONSTANTS
  Order,       \* the LEDs, in the order of the handler; the first is the blue one
  OnTime, OffTime,  \* what the handler sets for the blue one: 5 and 95
  MaxTime,     \* bound: times that are asked for
  Width,       \* an unsigned counter holds 0 .. Width - 1 (2^32)
  MaxRequest,  \* bound: requests
  MaxAge,      \* bound: ages that are told apart, in 10 ms
  MaxFault     \* bound: calls of the GPIO driver that fail

Led == {Order[i] : i \in 1..Len(Order)}
Blue == Order[1]
Time == 0..MaxTime
Type == {"OFF", "ON", "Blinky"}

ASSUME BoundAssumption ==
  /\ {MaxTime, Width, MaxRequest, MaxAge, MaxFault} \subseteq Nat
  /\ MaxTime < Width /\ MaxAge > 10 * MaxTime

\* Each LED is in the list once.
ASSUME OrderAssumption ==
  /\ Order \in Seq(Led) /\ Len(Order) > 0
  /\ \A i, j \in 1..Len(Order) : Order[i] = Order[j] => i = j

\* The handler's own times make a period: 5 and 95.
ASSUME PeriodAssumption ==
  /\ {OnTime, OffTime} \subseteq Time
  /\ 0 < OnTime /\ OnTime < OffTime

VARIABLES
  type, typeCurrent, blinkyOnTime, blinkyOffTime, blinkyPeriodCounter,
  pin,       \* the pin of each LED; it shines when the pin is high
  Run,       \* INDICATION_Run
  pc,        \* where the handler is
  at,        \* index of the LED it comes to next
  main,      \* how far INDICATION_Init and INDICATION_Close have come
  requests,  \* how many requests there were
  faults,    \* how many calls of the GPIO driver have failed
  failed,    \* history: the last write to the pin failed
  seen,      \* history: the type INDICATION_LedControl found last
  blinked,   \* history: the LED has blinked since typeCurrent was set
  steady,    \* history: it blinks, its request unchanged since a period began
  age        \* history: 10 ms since that period began

request == <<type, blinkyOnTime, blinkyOffTime>>
gpio == <<pin, faults, failed>>
led == <<typeCurrent, blinkyPeriodCounter, gpio>>
history == <<seen, blinked, steady, age>>
handler == <<pc, at>>
vars == <<request, led, Run, handler, main, requests, history>>

\* A run that was killed may have left pins exported and high.
Init ==
  /\ type = [l \in Led |-> "OFF"] /\ typeCurrent = [l \in Led |-> "OFF"]
  /\ blinkyOnTime = [l \in Led |-> 0] /\ blinkyOffTime = [l \in Led |-> 0]
  /\ blinkyPeriodCounter = [l \in Led |-> 0]
  /\ pin \in [Led -> {Absent, [state |-> "out", high |-> TRUE]}]
  /\ faults = 0 /\ failed = [l \in Led |-> FALSE]
  /\ Run = FALSE /\ pc = "unborn" /\ at = 1 /\ main = "init"
  /\ requests = 0
  /\ seen = [l \in Led |-> "none"] /\ blinked = [l \in Led |-> FALSE]
  /\ age = [l \in Led |-> 0] /\ steady = [l \in Led |-> FALSE]

-----------------------------------------------------------------------------
(* The main thread.                                                        *)

Lit(l) == pin[l].high
IsOut(l) == pin[l].state = "out"

\* GPIO_SetValue: an error is printed, and the callers go on all the same.
SetValue(l, high) ==
  \/ /\ IsOut(l)
     /\ pin' = [pin EXCEPT ![l].high = high]
     /\ failed' = [failed EXCEPT ![l] = FALSE]
     /\ UNCHANGED faults
  \/ /\ IF IsOut(l) THEN faults < MaxFault /\ faults' = faults + 1 ELSE UNCHANGED faults
     /\ failed' = [failed EXCEPT ![l] = TRUE]
     /\ UNCHANGED pin

\* The same for all LEDs; those of bad cannot be written.
AllLow(bad) ==
  /\ faults + Cardinality(bad) <= MaxFault /\ faults' = faults + Cardinality(bad)
  /\ pin' = [l \in Led |-> IF IsOut(l) /\ l \notin bad THEN [pin[l] EXCEPT !.high = FALSE] ELSE pin[l]]
  /\ failed' = [l \in Led |-> ~IsOut(l) \/ l \in bad]

\* The pins are prepared, whatever may fail; pthread_create may fail, which ends ds2d.
INDICATION_Init ==
  /\ main = "init"
  /\ \E p \in [Led -> Pin] :
       /\ \A l \in Led : p[l] \in Prepared(pin[l])
       /\ pin' = p
       /\ failed' = [l \in Led |-> p[l] # [state |-> "out", high |-> FALSE]]
       /\ faults' = Cardinality({l \in Led : failed'[l]}) /\ faults' <= MaxFault
  /\ Run' = TRUE
  /\ \/ main' = "started" /\ pc' = "start"
     \/ main' = "failed" /\ UNCHANGED pc
  /\ UNCHANGED <<request, typeCurrent, blinkyPeriodCounter, at, requests, history>>

INDICATION_Close ==
  /\ main = "started"
  /\ Run' = FALSE
  /\ main' = "join"
  /\ UNCHANGED <<request, led, handler, requests, history>>

\* The mutated form of CloseLeds: the handler is not waited for.
CloseLedsMutant ==
  /\ main = "join"
  /\ main' = "closed"
  /\ \E bad \in SUBSET {l \in Led : IsOut(l)} : AllLow(bad)
  /\ UNCHANGED <<request, typeCurrent, blinkyPeriodCounter, Run, handler, requests, history>>

\* pthread_join, and all LEDs go out.
CloseLeds ==
  /\ main = "join" /\ pc = "done"
  /\ main' = "closed"
  /\ \E bad \in SUBSET {l \in Led : IsOut(l)} : AllLow(bad)
  /\ UNCHANGED <<request, typeCurrent, blinkyPeriodCounter, Run, handler, requests, history>>

\* Somebody asks for something (external: nothing in the repository does yet).
Request(l) ==
  /\ main = "started" /\ requests < MaxRequest
  /\ requests' = requests + 1
  /\ \/ /\ \E t \in Type \ {type[l]} : type' = [type EXCEPT ![l] = t]
        /\ UNCHANGED <<blinkyOnTime, blinkyOffTime>>
     \/ /\ \E t \in Time \ {blinkyOnTime[l]} : blinkyOnTime' = [blinkyOnTime EXCEPT ![l] = t]
        /\ UNCHANGED <<type, blinkyOffTime>>
     \/ /\ \E t \in Time \ {blinkyOffTime[l]} : blinkyOffTime' = [blinkyOffTime EXCEPT ![l] = t]
        /\ UNCHANGED <<type, blinkyOnTime>>
  /\ steady' = [steady EXCEPT ![l] = FALSE]
  /\ UNCHANGED <<led, Run, handler, main, seen, blinked, age>>

-----------------------------------------------------------------------------
(* INDICATION_LedControl, one LED.                                         *)

\* The mutated form of Set: the LED is not put out.
SetMutant(l) ==
  /\ type[l] # "Blinky"
  /\ IF typeCurrent[l] # type[l]
       THEN /\ typeCurrent' = [typeCurrent EXCEPT ![l] = type[l]]
            /\ SetValue(l, TRUE)
            /\ blinked' = [blinked EXCEPT ![l] = FALSE]
       ELSE UNCHANGED <<typeCurrent, gpio, blinked>>
  /\ steady' = [steady EXCEPT ![l] = FALSE]
  /\ UNCHANGED <<blinkyPeriodCounter, age>>

\* ledON and ledOFF: the output is written when typeCurrent differs, and not
\* again if that fails.
Set(l) ==
  /\ type[l] # "Blinky"
  /\ IF typeCurrent[l] # type[l]
       THEN /\ typeCurrent' = [typeCurrent EXCEPT ![l] = type[l]]
            /\ SetValue(l, type[l] = "ON")
            /\ blinked' = [blinked EXCEPT ![l] = FALSE]
       ELSE UNCHANGED <<typeCurrent, gpio, blinked>>
  /\ steady' = [steady EXCEPT ![l] = FALSE]
  /\ UNCHANGED <<blinkyPeriodCounter, age>>

\* The mutated form of NextCount: the period ends one tick late.
NextCountMutant(l) ==
  LET n == blinkyPeriodCounter[l] IN
  IF n = blinkyOffTime[l] + 1 THEN 0 ELSE (n + 1) % Width

\* At 0 and at blinkyOnTime the counter goes on, whatever blinkyOffTime is; at
\* blinkyOffTime it starts again; elsewhere it goes on, past 2^32 if need be.
NextCount(l) ==
  LET n == blinkyPeriodCounter[l] IN
  IF n \notin {0, blinkyOnTime[l]} /\ n = blinkyOffTime[l] THEN 0 ELSE (n + 1) % Width

\* The mutated form of Blink: the LED is not put out at blinkyOnTime.
BlinkMutant(l) ==
  /\ type[l] = "Blinky"
  /\ LET n == blinkyPeriodCounter[l] IN
     /\ IF n = 0 THEN SetValue(l, TRUE) ELSE UNCHANGED gpio
     /\ steady' = [steady EXCEPT ![l] = ~failed'[l] /\ (@ \/ n = 0)]
     /\ age' = [age EXCEPT ![l] = IF n = 0 THEN 0 ELSE @]
  /\ blinkyPeriodCounter' = [blinkyPeriodCounter EXCEPT ![l] = NextCount(l)]
  /\ blinked' = [blinked EXCEPT ![l] = TRUE]
  /\ UNCHANGED typeCurrent

\* ledBlinky; typeCurrent stays what it was.
Blink(l) ==
  /\ type[l] = "Blinky"
  /\ LET n == blinkyPeriodCounter[l] IN
     /\ IF n \in {0, blinkyOnTime[l]} THEN SetValue(l, n = 0) ELSE UNCHANGED gpio
     /\ steady' = [steady EXCEPT ![l] = ~failed'[l] /\ (@ \/ n = 0)]
     /\ age' = [age EXCEPT ![l] = IF n = 0 THEN 0 ELSE @]
  /\ blinkyPeriodCounter' = [blinkyPeriodCounter EXCEPT ![l] = NextCount(l)]
  /\ blinked' = [blinked EXCEPT ![l] = TRUE]
  /\ UNCHANGED typeCurrent

\* The LED the handler comes to; after the last one it sleeps.
INDICATION_LedControl ==
  /\ pc = "led"
  /\ LET l == Order[at] IN
     /\ Set(l) \/ Blink(l)
     /\ seen' = [seen EXCEPT ![l] = type[l]]
  /\ IF at = Len(Order) THEN pc' = "sleep" /\ at' = 1
                         ELSE at' = at + 1 /\ UNCHANGED pc
  /\ UNCHANGED <<request, Run, main, requests>>

-----------------------------------------------------------------------------
(* INDICATION_Handler.                                                     *)

\* It sets the blue LED blinking, over whatever has been asked for it.
HandlerStart ==
  /\ pc = "start"
  /\ type' = [type EXCEPT ![Blue] = "Blinky"]
  /\ blinkyOnTime' = [blinkyOnTime EXCEPT ![Blue] = OnTime]
  /\ blinkyOffTime' = [blinkyOffTime EXCEPT ![Blue] = OffTime]
  /\ pc' = "test"
  /\ UNCHANGED <<led, Run, at, main, requests, history>>

\* while (INDICATION_Run)
HandlerLoop ==
  /\ pc = "test"
  /\ pc' = IF Run THEN "led" ELSE "done"
  /\ UNCHANGED <<request, led, Run, at, main, requests, history>>

\* SLEEP_Delay(0.1), or SLEEP_Delay(0.01) if a LED is to blink.
HandlerSleep ==
  /\ pc = "sleep"
  /\ pc' = "test"
  /\ LET delay == IF \E l \in Led : type[l] = "Blinky" THEN 1 ELSE 10
         older(a) == IF a + delay > MaxAge THEN MaxAge ELSE a + delay
     IN age' = [l \in Led |-> IF steady[l] THEN older(age[l]) ELSE 0]
  /\ UNCHANGED <<request, led, Run, at, main, requests, seen, blinked, steady>>

HandlerStep == HandlerStart \/ HandlerLoop \/ INDICATION_LedControl \/ HandlerSleep

Next ==
  \/ INDICATION_Init \/ INDICATION_Close \/ CloseLeds
  \/ \E l \in Led : Request(l)
  \/ HandlerStep

Spec == Init /\ [][Next]_vars

\* The handler is scheduled, its sleeps end, and a join returns.
FairSpec == Spec /\ WF_vars(HandlerStep) /\ WF_vars(CloseLeds)

-----------------------------------------------------------------------------
(* Properties.                                                             *)

\* Each variable has its type; while nobody interferes with it, the counter of
\* the blue LED stays within its period.
TypeOK ==
  /\ type \in [Led -> Type] /\ typeCurrent \in [Led -> {"OFF", "ON"}]
  /\ blinkyOnTime \in [Led -> Time] /\ blinkyOffTime \in [Led -> Time]
  /\ blinkyPeriodCounter \in [Led -> 0..(Width - 1)]
  /\ pin \in [Led -> Pin] /\ Run \in BOOLEAN
  /\ faults \in 0..MaxFault /\ failed \in [Led -> BOOLEAN]
  /\ pc \in {"unborn", "start", "test", "led", "sleep", "done"} /\ at \in 1..Len(Order)
  /\ main \in {"init", "failed", "started", "join", "closed"}
  /\ requests \in 0..MaxRequest
  /\ seen \in [Led -> Type \cup {"none"}] /\ blinked \in [Led -> BOOLEAN]
  /\ age \in [Led -> 0..MaxAge] /\ steady \in [Led -> BOOLEAN]
  /\ requests = 0 => blinkyPeriodCounter[Blue] <= OffTime

\* A LED that has not blinked since it was switched shows what the handler last
\* found asked for, however requests and passes of the handler interleave, and
\* whatever a killed run left behind; unless the last write to its pin failed.
SwitchedShows ==
  main # "closed" =>
    \A l \in Led : ~blinked[l] /\ ~failed[l] /\ seen[l] \in {"ON", "OFF"} =>
      (Lit(l) <=> seen[l] = "ON")

\* After INDICATION_Close every LED whose pin could be written is dark and stays
\* dark; a pin that was never made an output is dark anyway.
DarkAfterClose == main = "closed" => \A l \in Led : Lit(l) => failed[l]

\* The period that blinkyOnTime and blinkyOffTime describe.
Sane(l) == 1 <= blinkyOnTime[l] /\ blinkyOnTime[l] < blinkyOffTime[l]
Falls(l) == pc = "led" /\ Lit(l) /\ ~Lit(l)'
Rises(l) == pc = "led" /\ ~Lit(l) /\ Lit(l)'

\* Undisturbed, a blinking LED shines for blinkyOnTime ticks of 10 ms, and the
\* next period begins blinkyOffTime + 1 ticks after the last one, whatever the
\* other LEDs are asked for meanwhile.
DutyCycle ==
  [][\A l \in Led : steady[l] /\ type[l] = "Blinky" /\ Sane(l) =>
       /\ Falls(l) => age[l] = blinkyOnTime[l]
       /\ Rises(l) => age[l] = blinkyOffTime[l] + 1]_vars

\* A LED asked to blink, with times that make sense and a pin that is an output,
\* blinks for ever, even if the times were changed in the middle of a period or a
\* write failed now and then.
Blinks ==
  \A l \in Led :
    (<>[](main = "started" /\ type[l] = "Blinky" /\ Sane(l) /\ IsOut(l))) =>
      []<>Lit(l) /\ []<>~Lit(l)

\* "Turn off led.": a LED that the handler has found asked to be off is dark.
OffIsDark == \A l \in Led : seen[l] = "OFF" => ~Lit(l)
=============================================================================
