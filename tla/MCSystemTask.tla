---------------------------- MODULE MCSystemTask ----------------------------
(* Small instances of SystemTask.  The runners are interchangeable. *)
EXTENDS SystemTask, TLC

MCSymmetry == Permutations(Runners)
=============================================================================
