---------------------------- MODULE MCTaskBilling ----------------------------
(* Small instances of TaskBilling.  The workers are interchangeable. *)
EXTENDS TaskBilling, TLC

MCSymmetry == Permutations(Workers)
=============================================================================
