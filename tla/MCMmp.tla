-------------------------------- MODULE MCMmp --------------------------------
(* Three hosts and as many sequence numbers as can be in use at once. *)
EXTENDS Mmp, TLC

Symmetry == Permutations(Seq) \cup Permutations(Hosts \ Checkers)
===============================================================================
