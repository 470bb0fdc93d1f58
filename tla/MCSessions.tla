----------------------------- MODULE MCSessions -----------------------------
(* Small instances of Sessions. *)
EXTENDS Sessions, TLC

\* The two requests of the browser are interchangeable.
RequestSymmetry == Permutations(Requests)
=============================================================================
