----------------------------- MODULE MCDaemonize -----------------------------
(* Daemonize on a small instance: neither the launches nor the process       *)
(* numbers are told apart.                                                   *)
EXTENDS Daemonize, TLC

Symmetry == Permutations(Launch) \cup Permutations(Pid)
=============================================================================
