---------------------------- MODULE MCPlayground ----------------------------
(* Small instances of Playground for TLC. *)
EXTENDS Playground

\* The answer of the second generation is one letter again and again, the others
\* repeat nothing.
MCSays(place) == IF place[1] = 2 THEN 0 ELSE place[2]
=============================================================================
