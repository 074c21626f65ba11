--------------------------- MODULE MCLoginSession ---------------------------
EXTENDS LoginSession, TLC

(* The tabs are interchangeable: nothing in the model names or orders them. *)
TabSymmetry == Permutations(Tabs)
=============================================================================
