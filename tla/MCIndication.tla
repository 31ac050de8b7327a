---------------------------- MODULE MCIndication ----------------------------
(* Indication with two LEDs and short periods.                              *)
EXTENDS Indication

MCOrder == <<"blue", "green">>
=============================================================================
