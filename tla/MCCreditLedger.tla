--------------------------- MODULE MCCreditLedger ---------------------------
(***************************************************************************)
(* Instances of CreditLedger for TLC.                                      *)
(***************************************************************************)
EXTENDS CreditLedger

CONSTANTS u1, j1, j2, p1, c1, c2

(* One user who owns everything.                                           *)
SoloJobOwner     == [j \in Jobs |-> u1]
SoloInvoiceOwner == [p \in Invoices |-> u1]
TwoCredits       == [p \in Invoices |-> 2]

ConnSymmetry == Permutations(Conns)
=============================================================================
