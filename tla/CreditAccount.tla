--------------------------- MODULE CreditAccount ---------------------------
(***************************************************************************)
(* What the credit accounts promise, without transactions, timestamps or   *)
(* ledger rows: a user's balance moves only by events, every event counts  *)
(* at most once, a job is settled only after it was charged and in one way *)
(* only, and nothing is charged that the balance does not hold.            *)
(*                                                                         *)
(* One step serves one request of one user.  It first brings the account   *)
(* up to date, by the starter grant or its expiry, and may then record one *)
(* event of the request itself.                                            *)
(***************************************************************************)
EXTENDS Integers

CONSTANTS Users, Jobs, Invoices, JobOwner, InvoiceOwner,
          CreditsGranted, StarterGrantCredits, JobCreditCost

VARIABLES
    balance,  (* credits a user may spend                                  *)
    events    (* what has happened to a user's account, as <<kind, id>>    *)

accountVars == <<balance, events>>

(* An account is <<credits, events>>; Record adds an event and its credits.*)
Record(a, kind, ref, delta) == <<a[1] + delta, a[2] \cup {<<kind, ref>>}>>

Has(a, kind, ref) == <<kind, ref>> \in a[2]

(* The account after the starter grant or its expiry, if either is due: an *)
(* expiry takes at most as many credits as were granted, and as there are. *)
Housekeeping(u, a) ==
    {a}
    \cup (IF Has(a, "starter_grant", u) THEN {}
          ELSE {Record(a, "starter_grant", u, StarterGrantCredits)})
    \cup (IF Has(a, "starter_grant", u) /\ ~ Has(a, "expiration", u)
          THEN {Record(a, "expiration", u, -n) :
                   n \in {m \in 1 .. a[1] : m <= StarterGrantCredits}}
          ELSE {})

JobsOf(u) == {j \in Jobs : JobOwner[j] = u}

InvoicesOf(u) == {p \in Invoices : InvoiceOwner[p] = u}

Unsettled(a, j) ==
    /\ Has(a, "job_reserve", j)
    /\ ~ Has(a, "job_finalize", j)
    /\ ~ Has(a, "job_refund", j)

(* The account after the event a request records, if it records one.       *)
Requests(u, a) ==
    {a}
    \cup {Record(a, "job_reserve", j, -JobCreditCost) :
             j \in {k \in JobsOf(u) : ~ Has(a, "job_reserve", k) /\ a[1] >= JobCreditCost}}
    \cup {Record(a, "job_finalize", j, 0) : j \in {k \in JobsOf(u) : Unsettled(a, k)}}
    \cup {Record(a, "job_refund", j, JobCreditCost) :
             j \in {k \in JobsOf(u) : Unsettled(a, k)}}
    \cup {Record(a, "purchase_grant", p, CreditsGranted[p]) :
             p \in {q \in InvoicesOf(u) : ~ Has(a, "purchase_grant", q)}}

Serve(u) ==
    \E a \in Housekeeping(u, <<balance[u], events[u]>>) :
        \E b \in Requests(u, a) :
            /\ balance' = [balance EXCEPT ![u] = b[1]]
            /\ events' = [events EXCEPT ![u] = b[2]]

AccountInit ==
    /\ balance = [u \in Users |-> 0]
    /\ events = [u \in Users |-> {}]

AccountNext == \E u \in Users : Serve(u)

AccountSpec == AccountInit /\ [][AccountNext]_accountVars
=============================================================================
