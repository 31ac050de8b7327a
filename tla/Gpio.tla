-------------------------------- MODULE Gpio --------------------------------
(***************************************************************************)
(* The GPIO driver (gpio.c): what its calls can do to a pin of the sysfs   *)
(* interface, as sets of outcomes.  Every call opens a file, which may     *)
(* fail, and ignores the result of its write.  GPIO_Unexport, SetEdge and  *)
(* GetValue have no caller.                                                *)
(***************************************************************************)
EXTENDS FiniteSets

\* A pin is not exported, an input or an output; an output is high or low.
Absent == [state |-> "absent", high |-> FALSE]
Pin == {Absent, [state |-> "in", high |-> FALSE]} \cup [state : {"out"}, high : BOOLEAN]

\* Nothing to do for a pin that is there already; a new one is an input.
GPIO_Export(p) == IF p.state = "absent" THEN {p, [state |-> "in", high |-> FALSE]} ELSE {p}

\* To output; sysfs makes it low.
GPIO_SetDirection(p) ==
  IF p.state = "absent" THEN {p} ELSE {p, [state |-> "out", high |-> FALSE]}

\* Only an output can be written.
GPIO_SetValue(p, high) == IF p.state = "out" THEN {p, [p EXCEPT !.high = high]} ELSE {p}

\* INDICATION_Init: export, direction and value of one pin, one after the other;
\* the calls do not look at each other's results.
Prepared(p) ==
  UNION {GPIO_SetValue(o, FALSE) : o \in UNION {GPIO_SetDirection(e) : e \in GPIO_Export(p)}}
=============================================================================
