----------------------------- MODULE MCRowLocks -----------------------------
(***************************************************************************)
(* Instances of RowLocks for TLC.                                          *)
(***************************************************************************)
EXTENDS RowLocks, TLC

CONSTANTS c1, c2, c3, j1, j2, i1

OneCredit == [i \in Invoices |-> 1]
Symmetry  == Permutations(Connections) \cup Permutations(Jobs)
=============================================================================
