----------------------------- MODULE MCJwksCache -----------------------------
(* TLC instance of JwksCache: the answer to one call may be overtaken by   *)
(* that to another one.                                                    *)
EXTENDS JwksCache, TLC

Symmetry == Permutations(Validations)
==============================================================================
