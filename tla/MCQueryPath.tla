---------------------------- MODULE MCQueryPath ----------------------------
(***************************************************************************)
(* A small instance of QueryPath. Calls are interchangeable.               *)
(***************************************************************************)
EXTENDS QueryPath, TLC

Symmetry == Permutations(Workers)
=============================================================================
