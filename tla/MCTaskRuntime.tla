-------------------------- MODULE MCTaskRuntime ----------------------------
(***************************************************************************)
(* TaskRuntime for TLC.  Workers and task ids are interchangeable.         *)
(***************************************************************************)
EXTENDS TaskRuntime, TLC

Symmetry == Permutations(Workers) \cup Permutations(Jobs)

=============================================================================
