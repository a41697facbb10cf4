---------------------------- MODULE MCCommandRouter ----------------------------
(* TLC instances of CommandRouter.                                         *)
EXTENDS CommandRouter, TLC

Symmetry == Permutations(Calls) \cup Permutations(Streams) \cup Permutations(Devices)
=============================================================================
