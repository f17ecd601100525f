---------------------------- MODULE CreditLedger ----------------------------
(***************************************************************************)
(* The credit accounts of src/credits_service.py and the payment side of   *)
(* src/payments_service.py, at the grain of database transactions.         *)
(*                                                                         *)
(* A transaction runs on a pooled connection.  BEGIN fixes                 *)
(* CURRENT_TIMESTAMP, which every credit_ledger row it inserts gets as     *)
(* created_at.  Its body locks the job or payment row and then the account *)
(* row (SELECT ... FOR UPDATE), so bodies on one account are serial and    *)
(* take effect at COMMIT: one atomic step, which sees everything committed *)
(* before it but stamps its rows with the earlier time of its BEGIN.       *)
(*                                                                         *)
(* A job id and an invoice id are fresh when they are made, so the user    *)
(* each will belong to is a constant function, and so is the price of an   *)
(* invoice.  A missing account row is the account with balance 0.          *)
(***************************************************************************)
EXTENDS Integers, Sequences, SequencesExt

CONSTANTS
    Users,                (* telegram users                                *)
    Jobs,                 (* job ids                                       *)
    Invoices,             (* payment ids                                   *)
    Conns,                (* connections of the asyncpg pool               *)
    NoTx,                 (* a connection outside any transaction          *)
    JobOwner,             (* the user who creates a job                    *)
    InvoiceOwner,         (* the user who creates an invoice               *)
    CreditsGranted,       (* payments.credits_granted of an invoice        *)
    StarterGrantCredits,  (* config.STARTER_GRANT_CREDITS                  *)
    StarterGrantTTL,      (* config.STARTER_GRANT_TTL_DAYS, in clock ticks *)
    JobCreditCost,        (* config.JOB_CREDIT_COST, jobs.credit_cost      *)
    StarterRowMayFail,    (* may the ledger row of the grant be refused?   *)
    MaxTime               (* bound on the clock                            *)

ASSUME OwnersAssumption ==
    /\ JobOwner \in [Jobs -> Users]
    /\ InvoiceOwner \in [Invoices -> Users]

ASSUME AmountsAssumption ==
    /\ CreditsGranted \in [Invoices -> Nat \ {0}]
    /\ StarterGrantCredits \in Nat \ {0}
    /\ StarterGrantTTL \in Nat \ {0}
    /\ JobCreditCost \in Nat \ {0}
    /\ StarterRowMayFail \in BOOLEAN
    /\ MaxTime \in Nat

VARIABLES
    account,    (* user_credit_accounts joined with the user's ledger rows *)
    jobCredit,  (* jobs.credit_status, "none" before the row exists        *)
    payment,    (* payments.status, "none" before the row exists           *)
    tx,         (* the transaction open on each connection                 *)
    now         (* wall clock of the service and the database              *)

vars == <<account, jobCredit, payment, tx, now>>

-----------------------------------------------------------------------------
(* Data                                                                    *)

RowKinds == {"starter_grant", "expiration", "job_reserve", "job_finalize",
             "job_refund", "purchase_grant"}

(* The idempotency_key of a row is its kind and the id it is about.        *)
Row == [kind: RowKinds, ref: Users \cup Jobs \cup Invoices,
        delta: Int, after: Nat, at: Nat]

Account == [balance: Nat, trialUsed: BOOLEAN, ledger: Seq(Row)]

(* Lexicographic order of the keys "job_finalize:", "job_refund:", ...     *)
KeyRank == [job_finalize |-> 1, job_refund |-> 2, job_reserve |-> 3,
            purchase_grant |-> 4, starter_grant |-> 5, expiration |-> 6]

HasRow(ledger, kind, ref) ==
    \E i \in DOMAIN ledger : ledger[i].kind = kind /\ ledger[i].ref = ref

HasKind(ledger, kind) == \E i \in DOMAIN ledger : ledger[i].kind = kind

RowOfKind(ledger, kind) ==
    ledger[CHOOSE i \in DOMAIN ledger : ledger[i].kind = kind]

(* A mutant: the row records the balance it found.                         *)
PostFoundBalance(a, kind, ref, delta, at) ==
    [a EXCEPT !.balance = @ + delta,
              !.ledger  = Append(@, [kind |-> kind, ref |-> ref, delta |-> delta,
                                     after |-> a.balance, at |-> at])]

(* Raise the balance by delta and insert the ledger row that says so,      *)
(* ON CONFLICT (idempotency_key) DO NOTHING.                               *)
Post(a, kind, ref, delta, at) ==
    LET after == a.balance + delta
        row   == [kind |-> kind, ref |-> ref, delta |-> delta,
                  after |-> after, at |-> at]
    IN [a EXCEPT !.balance = after,
                 !.ledger  = IF HasRow(@, kind, ref) THEN @ ELSE Append(@, row)]

-----------------------------------------------------------------------------
(* The starter grant                                                       *)

(* ORDER BY created_at, idempotency_key: the rows of one transaction share *)
(* created_at and are told apart by their keys alone.                      *)
Before(r, s) ==
    \/ r.at < s.at
    \/ r.at = s.at /\ KeyRank[r.kind] < KeyRank[s.kind]

(* One iteration of the loop over the rows listed after the grant.         *)
SpendGrant(remaining, row) ==
    IF row.delta < 0 THEN Max({0, remaining + row.delta})
    ELSE IF row.kind = "job_refund"
         THEN Min({StarterGrantCredits, remaining + row.delta})
         ELSE remaining

(* The rows listed after the grant, and the last of some rows: where their *)
(* keys differ by the id alone, the loop does the same in either order.    *)
ListedAfterGrant(ledger) ==
    {i \in DOMAIN ledger : Before(RowOfKind(ledger, "starter_grant"), ledger[i])}

LastListed(ledger, rows) ==
    CHOOSE i \in rows : \A k \in rows : ~ Before(ledger[i], ledger[k])

RemainingStarterCredits(ledger) ==
    MapThenFoldSet(LAMBDA row, remaining : SpendGrant(remaining, row),
                   StarterGrantCredits,
                   LAMBDA i : ledger[i],
                   LAMBDA rows : LastListed(ledger, rows),
                   ListedAfterGrant(ledger))

CreditsToExpire(a) == Min({a.balance, RemainingStarterCredits(a.ledger)})

(* A mutant: nobody asks whether the grant expired before.                 *)
ExpiresAgain(u, a) ==
    /\ HasRow(a.ledger, "starter_grant", u)
    /\ RowOfKind(a.ledger, "starter_grant").at + StarterGrantTTL <= now
    /\ CreditsToExpire(a) \in 1 .. a.balance

(* "credits_to_expire <= 0: return" leaves 1 .. balance, as a minimum with *)
(* the balance is never above it.                                          *)
ExpiryDue(u, a) ==
    /\ HasRow(a.ledger, "starter_grant", u)
    /\ RowOfKind(a.ledger, "starter_grant").at + StarterGrantTTL <= now
    /\ ~ HasRow(a.ledger, "expiration", u)
    /\ CreditsToExpire(a) \in 1 .. a.balance

(* ensure_credit_account_state: the account rows it may leave behind.  The *)
(* first use grants, a due grant expires; the two exclude each other, as   *)
(* expiry needs the ledger row whose absence the grant needs.  An          *)
(* expiration row that cannot be inserted leaves the balance alone, while  *)
(* a grant row that cannot be inserted is logged and the balance stays     *)
(* raised.                                                                 *)
EnsureOutcomes(u, at) ==
    LET a == account[u]
        granted == [Post(a, "starter_grant", u, StarterGrantCredits, at)
                      EXCEPT !.trialUsed = TRUE]
    IN IF ~ a.trialUsed /\ ~ HasRow(a.ledger, "starter_grant", u)
       THEN {granted} \cup (IF StarterRowMayFail
                            THEN {[granted EXCEPT !.ledger = a.ledger]} ELSE {})
       ELSE IF ExpiryDue(u, a)
       THEN {a, Post(a, "expiration", u, -CreditsToExpire(a), at)}
       ELSE {a}

-----------------------------------------------------------------------------
(* Transactions                                                            *)

UserOps    == {"get_balance"}
JobOps     == {"create_job", "finalize", "refund"}
InvoiceOps == {"create_topup", "mark_paid"}

TxRecord ==
    [op: UserOps, ref: Users, start: Nat]
        \cup [op: JobOps, ref: Jobs, start: Nat]
        \cup [op: InvoiceOps, ref: Invoices, start: Nat]

(* Whose account a transaction works on: the row of a payment names its    *)
(* user, and whoever settles a job passes the user it was created for.     *)
UserOf(t) ==
    CASE t.op \in UserOps    -> t.ref
      [] t.op \in JobOps     -> JobOwner[t.ref]
      [] t.op \in InvoiceOps -> InvoiceOwner[t.ref]

Init ==
    /\ account = [u \in Users |->
                    [balance |-> 0, trialUsed |-> FALSE, ledger |-> <<>>]]
    /\ jobCredit = [j \in Jobs |-> "none"]
    /\ payment = [p \in Invoices |-> "none"]
    /\ tx = [c \in Conns |-> NoTx]
    /\ now = 0

(* uuid4() gives an id to one creating transaction only.                   *)
Fresh(op, ref) ==
    \A c \in Conns : tx[c] # NoTx => ~ (tx[c].op = op /\ tx[c].ref = ref)

Begin(c, op, ref) ==
    /\ tx[c] = NoTx
    /\ tx' = [tx EXCEPT ![c] = [op |-> op, ref |-> ref, start |-> now]]
    /\ UNCHANGED <<account, jobCredit, payment, now>>

(* The wallet, the status page and the jobs a worker or a compensating     *)
(* handler settles: nothing but the row's existence limits how often and   *)
(* how concurrently these transactions are started.                        *)
BeginGetBalance(c, u) == Begin(c, "get_balance", u)

BeginCreateJob(c, j) ==
    jobCredit[j] = "none" /\ Fresh("create_job", j) /\ Begin(c, "create_job", j)

BeginFinalize(c, j) == jobCredit[j] # "none" /\ Begin(c, "finalize", j)

BeginRefund(c, j) == jobCredit[j] # "none" /\ Begin(c, "refund", j)

BeginCreateTopup(c, p) ==
    payment[p] = "none" /\ Fresh("create_topup", p) /\ Begin(c, "create_topup", p)

BeginMarkPaid(c, p) == payment[p] # "none" /\ Begin(c, "mark_paid", p)

(* The end of a body: a is the account it leaves, the connection is free.  *)
Commit(c, a) ==
    /\ account' = [account EXCEPT ![UserOf(tx[c])] = a]
    /\ tx' = [tx EXCEPT ![c] = NoTx]
    /\ UNCHANGED now

Running(c, op) == tx[c] # NoTx /\ tx[c].op = op

(* The account after ensure_credit_account, which every body calls.        *)
Ensured(c) == EnsureOutcomes(UserOf(tx[c]), tx[c].start)

(* What the bodies check under the locks before they move credits, and     *)
(* mutants that check too little.                                          *)
CanPayLater(a) == TRUE
CanPay(a)      == a.balance >= JobCreditCost

EverReserved(j) == jobCredit[j] # "none"
Reserved(j)     == jobCredit[j] = "reserved"

(* get_balance and the cabinet.                                            *)
GetBalance(c) ==
    /\ Running(c, "get_balance")
    /\ \E a \in Ensured(c) : Commit(c, a)
    /\ UNCHANGED <<jobCredit, payment>>

(* reserve_job_credit on the job row inserted by the same transaction.     *)
ReserveJobCredit(c) ==
    /\ Running(c, "create_job")
    /\ LET j == tx[c].ref IN
          /\ \E a \in Ensured(c) :
                /\ CanPay(a)
                /\ Commit(c, Post(a, "job_reserve", j, -JobCreditCost, tx[c].start))
          /\ jobCredit' = [jobCredit EXCEPT ![j] = "reserved"]
    /\ UNCHANGED payment

(* finalize_job_credit: an audit row of no value, once per reservation.    *)
FinalizeJobCredit(c) ==
    /\ Running(c, "finalize")
    /\ LET j == tx[c].ref IN
          \/ /\ Reserved(j)
             /\ \E a \in Ensured(c) :
                   Commit(c, Post(a, "job_finalize", j, 0, tx[c].start))
             /\ jobCredit' = [jobCredit EXCEPT ![j] = "finalized"]
          \/ /\ ~ Reserved(j)
             /\ \E a \in Ensured(c) : Commit(c, a)
             /\ UNCHANGED jobCredit
    /\ UNCHANGED payment

(* refund_job_credit: the reservation comes back, once.                    *)
RefundJobCredit(c) ==
    /\ Running(c, "refund")
    /\ LET j == tx[c].ref IN
          \/ /\ Reserved(j)
             /\ \E a \in Ensured(c) :
                   Commit(c, Post(a, "job_refund", j, JobCreditCost, tx[c].start))
             /\ jobCredit' = [jobCredit EXCEPT ![j] = "refunded"]
          \/ /\ ~ Reserved(j)
             /\ \E a \in Ensured(c) : Commit(c, a)
             /\ UNCHANGED jobCredit
    /\ UNCHANGED payment

(* POST /payments/topups: the balance is read (and the grant given) before *)
(* the pending row is inserted, in one transaction.                        *)
CreateTopupPayment(c) ==
    /\ Running(c, "create_topup")
    /\ \E a \in Ensured(c) : Commit(c, a)
    /\ payment' = [payment EXCEPT ![tx[c].ref] = "pending"]
    /\ UNCHANGED jobCredit

(* A mutant: the grant is made and the status forgotten.                   *)
GrantOnly(c) ==
    /\ Running(c, "mark_paid")
    /\ payment[tx[c].ref] # "paid"
    /\ \E a \in Ensured(c) :
          Commit(c, Post(a, "purchase_grant", tx[c].ref, CreditsGranted[tx[c].ref], tx[c].start))
    /\ UNCHANGED <<jobCredit, payment>>

(* mark_payment_paid: the status is read again under the locks, after the  *)
(* account was brought up to date.                                         *)
MarkPaymentPaid(c) ==
    /\ Running(c, "mark_paid")
    /\ LET p == tx[c].ref IN
          \/ /\ payment[p] # "paid"
             /\ \E a \in Ensured(c) :
                   Commit(c, Post(a, "purchase_grant", p, CreditsGranted[p], tx[c].start))
             /\ payment' = [payment EXCEPT ![p] = "paid"]
          \/ /\ payment[p] = "paid"
             /\ \E a \in Ensured(c) : Commit(c, a)
             /\ UNCHANGED payment
    /\ UNCHANGED jobCredit

(* ROLLBACK takes back everything the body did, the starter grant too: too *)
(* few credits, no payment configuration, a mismatched callback, a lost    *)
(* connection or a stopped process.                                        *)
Rollback(c) ==
    /\ tx[c] # NoTx
    /\ tx' = [tx EXCEPT ![c] = NoTx]
    /\ UNCHANGED <<account, jobCredit, payment, now>>

Tick ==
    /\ now < MaxTime
    /\ now' = now + 1
    /\ UNCHANGED <<account, jobCredit, payment, tx>>

Step(c) ==
    \/ \E u \in Users : BeginGetBalance(c, u)
    \/ \E j \in Jobs : BeginCreateJob(c, j) \/ BeginFinalize(c, j) \/ BeginRefund(c, j)
    \/ \E p \in Invoices : BeginCreateTopup(c, p) \/ BeginMarkPaid(c, p)
    \/ GetBalance(c)
    \/ ReserveJobCredit(c)
    \/ FinalizeJobCredit(c)
    \/ RefundJobCredit(c)
    \/ CreateTopupPayment(c)
    \/ MarkPaymentPaid(c)
    \/ Rollback(c)

Next == Tick \/ \E c \in Conns : Step(c)

Spec == Init /\ [][Next]_vars

-----------------------------------------------------------------------------
(* Properties                                                              *)

(* Types.  That no balance is negative is the CHECK (balance >= 0) of the  *)
(* table, which the code never runs into.                                  *)
TypeOK ==
    /\ account \in [Users -> Account]
    /\ jobCredit \in [Jobs -> {"none", "reserved", "finalized", "refunded"}]
    /\ payment \in [Invoices -> {"none", "pending", "paid"}]
    /\ tx \in [Conns -> TxRecord \cup {NoTx}]
    /\ now \in Nat

(* "Balance-changing operations are auditable": every row continues the    *)
(* balance the previous one left, and the last one left the balance the    *)
(* user sees.  A balance written without its row, or a row swallowed by    *)
(* ON CONFLICT, breaks the chain.  The code allows one gap, the row of the *)
(* starter grant that was refused: the chain then starts at the grant, and *)
(* nothing else is missing from it.                                        *)
Unrecorded(a) ==
    IF a.trialUsed /\ ~ HasKind(a.ledger, "starter_grant") THEN StarterGrantCredits ELSE 0

Opening(a, i) == IF i = 1 THEN Unrecorded(a) ELSE a.ledger[i - 1].after

Audited(a) ==
    /\ \A i \in DOMAIN a.ledger :
          a.ledger[i].after = Opening(a, i) + a.ledger[i].delta
    /\ a.balance = Opening(a, Len(a.ledger) + 1)

AuditChain == \A u \in Users : Audited(account[u])

(* credit_status says what the owner's ledger says: a job was debited once *)
(* when it has any status, and was then settled by at most one of finalize *)
(* and refund, however many workers and handlers race to do it.            *)
ChargeMatchesJob ==
    \A j \in Jobs :
        LET rows == account[JobOwner[j]].ledger IN
        /\ HasRow(rows, "job_reserve", j)  <=> jobCredit[j] # "none"
        /\ HasRow(rows, "job_finalize", j) <=> jobCredit[j] = "finalized"
        /\ HasRow(rows, "job_refund", j)   <=> jobCredit[j] = "refunded"

(* Payment status and credit grant do not diverge, and only an invoice     *)
(* that is paid has granted credits.                                       *)
PurchaseMatchesPayment ==
    \A p \in Invoices :
        HasRow(account[InvoiceOwner[p]].ledger, "purchase_grant", p)
            <=> payment[p] = "paid"

(* The balance is explained by the other tables, without the ledger's own  *)
(* arithmetic: the grant if the trial was used, what was paid for, less    *)
(* the jobs still charged and the credits that expired.                    *)
BalanceExplained ==
    \A u \in Users :
        LET a       == account[u]
            charged == {j \in Jobs : JobOwner[j] = u /\ jobCredit[j] \in {"reserved", "finalized"}}
            paid    == {p \in Invoices : InvoiceOwner[p] = u /\ payment[p] = "paid"}
            granted == IF a.trialUsed THEN StarterGrantCredits ELSE 0
            expired == IF HasKind(a.ledger, "expiration")
                       THEN RowOfKind(a.ledger, "expiration").delta ELSE 0
        IN a.balance = granted + expired
                         + MapThenSumSet(LAMBDA p : CreditsGranted[p], paid)
                         - JobCreditCost * Cardinality(charged)

(* tests/test_credits_service.py: "remaining starter grant drops to zero   *)
(* after spend even with purchase".  Once the jobs still charged have used *)
(* up the grant, none of it is left to expire.                             *)
SpentGrantLeavesNothing ==
    \A u \in Users :
        LET a == account[u]
            charged == {j \in Jobs : JobOwner[j] = u /\ jobCredit[j] \in {"reserved", "finalized"}}
        IN HasKind(a.ledger, "starter_grant") /\ JobCreditCost * Cardinality(charged) >= StarterGrantCredits
             => RemainingStarterCredits(a.ledger) = 0

-----------------------------------------------------------------------------
(* Refinement                                                              *)

(* What has happened to an account: its rows, and the grant by its flag,   *)
(* because the grant's row may be missing.                                 *)
Happened(u, a) ==
    {<<a.ledger[i].kind, a.ledger[i].ref>> : i \in DOMAIN a.ledger}
    \cup (IF a.trialUsed THEN {<<"starter_grant", u>>} ELSE {})

Promise == INSTANCE CreditAccount
             WITH balance <- [u \in Users |-> account[u].balance],
                  events  <- [u \in Users |-> Happened(u, account[u])]

(* Every transaction, whatever it races with, does to the balance what one *)
(* request of the abstract account may do, or nothing.                     *)
ImplementsAccount == Promise!AccountSpec

=============================================================================
