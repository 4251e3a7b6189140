----------------------------- MODULE MCQosaSem -----------------------------
(***************************************************************************)
(* QosaSem on small instances.  The tasks of a run all make the same calls, *)
(* so runs of invariants may permute them.                                 *)
(***************************************************************************)
EXTENDS QosaSem, TLC

ThreadSymmetry == Permutations(Threads)
=============================================================================
