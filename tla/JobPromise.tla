----------------------------- MODULE JobPromise -----------------------------
(***************************************************************************)
(* What a user is promised about a render: one credit is one attempt.  A   *)
(* job is charged when it is created, and then either delivered or paid    *)
(* back.  Both ends are final, and no job costs credits the user does not  *)
(* have.                                                                   *)
(***************************************************************************)
EXTENDS Integers

CONSTANTS
    Jobs,
    Credits   (* what the user has to spend at the start                   *)

VARIABLES
    phase,    (* phase[j]: "none", "charged", "delivered" or "returned"    *)
    wallet    (* credits left                                              *)

Settle(j, end, back) ==
    /\ phase[j] = "charged"
    /\ phase' = [phase EXCEPT ![j] = end]
    /\ wallet' = wallet + back

Charge(j) ==
    /\ phase[j] = "none"
    /\ wallet > 0
    /\ phase' = [phase EXCEPT ![j] = "charged"]
    /\ wallet' = wallet - 1

Deliver(j) == Settle(j, "delivered", 0)

Return(j) == Settle(j, "returned", 1)

PromiseInit ==
    /\ phase = [j \in Jobs |-> "none"]
    /\ wallet = Credits

PromiseNext == \E j \in Jobs : Charge(j) \/ Deliver(j) \/ Return(j)

PromiseSpec == PromiseInit /\ [][PromiseNext]_<<phase, wallet>>
=============================================================================
