---------------------------- MODULE MCLocalAdmin ----------------------------
(* Small instances of LocalAdmin. *)
EXTENDS LocalAdmin, TLC

\* Requests are interchangeable.
RequestSymmetry == Permutations(Requests)
=============================================================================
