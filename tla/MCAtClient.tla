----------------------------- MODULE MCAtClient -----------------------------
(***************************************************************************)
(* AtClient on small instances.  The tasks are interchangeable, so runs of *)
(* invariants use their permutations as a symmetry set.                    *)
(***************************************************************************)
EXTENDS AtClient, TLC

TaskSymmetry == Permutations(Tasks)
=============================================================================
