--------------------------- MODULE MCSessionCache ---------------------------
(* Small instances of SessionCache: requests on nodes that share a Redis or do not. *)
EXTENDS SessionCache, TLC

MCLives == {Endless, 1}

(* Requests and Redis instances are interchangeable. *)
MCSymmetry == Permutations(Procs) \cup Permutations(Caches)
=============================================================================
