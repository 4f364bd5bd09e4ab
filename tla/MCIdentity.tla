----------------------------- MODULE MCIdentity -----------------------------
(* Constants for model checking Identity.                                  *)
EXTENDS Identity, TLC

CONSTANTS w1, w2

Symmetry == Permutations({w1, w2})
=============================================================================
