------------------------------ MODULE MCRemote ------------------------------
(* Instances of Remote for TLC. *)
EXTENDS RemoteInductive, TLC

Symmetry == Permutations(Client)
=============================================================================
