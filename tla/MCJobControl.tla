---------------------------- MODULE MCJobControl ----------------------------
(* Small instances of JobControl.                                          *)
EXTENDS JobControl

CONSTANTS j1, j2, w1, w2, t1, t2

\* Every worker serves t1.
OneTarget == [w \in Workers |-> t1]
AllCpu    == [t \in Targets |-> "cpu"]

\* w1 serves a gpu target, w2 a cpu target.
TwoTargets == [w \in Workers |-> IF w = w1 THEN t1 ELSE t2]
GpuAndCpu  == [t \in Targets |-> IF t = t1 THEN "gpu" ELSE "cpu"]

\* Two jobs of one kind differ in nothing.
JobSymmetry == Permutations({j1, j2})
=============================================================================
