------------------------------ MODULE MCWorker ------------------------------
(* Instances of Worker for TLC.                                             *)
EXTENDS Worker, TLC

CONSTANTS c1, c2, f1, f2, j1, j2

\* Two jobs of one function, and of two.
SameFunction == [j \in {j1, j2} |-> f1]
TwoFunctions == (j1 :> f1) @@ (j2 :> f2)
OneJob == (j1 :> f1)

ConnSymmetry == Permutations(Conns)
=============================================================================
