---------------------------- MODULE MCTdxClient ----------------------------
(***************************************************************************)
(* Small instances of TdxClient. Application threads are interchangeable.  *)
(***************************************************************************)
EXTENDS TdxClient, TLC

Symmetry == Permutations(Threads)
=============================================================================
