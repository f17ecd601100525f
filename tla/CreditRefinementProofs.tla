----------------------- MODULE CreditRefinementProofs -----------------------
(***************************************************************************)
(* The transactions of CreditLedger implement CreditAccount, for every     *)
(* instance and even when the ledger row of a grant may be refused.        *)
(***************************************************************************)
EXTENDS CreditLedgerProofs

(* The account of the abstract specification that a concrete one stands for.*)
Abstract(u, a) == <<a.balance, Happened(u, a)>>

(* Apart from the grant, what has happened is what the rows say.           *)
LEMMA HappenedRows ==
    ASSUME NEW u, NEW a, NEW k, NEW r, k # "starter_grant"
    PROVE  <<k, r>> \in Happened(u, a) <=> HasRow(a.ledger, k, r)
  BY DEF Happened, HasRow

(* A new row is one more thing that has happened.                          *)
LEMMA HappenedPost ==
    ASSUME NEW a \in Account, NEW kind \in RowKinds,
           NEW ref \in Users \cup Jobs \cup Invoices,
           NEW delta \in Int, NEW at \in Nat, a.balance + delta \in Nat, NEW u
    PROVE  Happened(u, Post(a, kind, ref, delta, at))
             = Happened(u, a) \cup {<<kind, ref>>}
<1> DEFINE row == [kind |-> kind, ref |-> ref, delta |-> delta,
                   after |-> a.balance + delta, at |-> at]
           b == Post(a, kind, ref, delta, at)
           Keys(L) == {<<L[i].kind, L[i].ref>> : i \in DOMAIN L}
<1>1. a.ledger \in Seq(Row) /\ row \in Row
  BY DEF Account, Row
<1>2. b.trialUsed = a.trialUsed
  BY PostType
<1>3. Keys(b.ledger) = Keys(a.ledger) \cup {<<kind, ref>>}
  <2>1. CASE HasRow(a.ledger, kind, ref)
    <3>1. b.ledger = a.ledger
      BY <2>1 DEF Post, Account
    <3>2. QED
      BY <2>1, <3>1 DEF HasRow
  <2>2. CASE ~ HasRow(a.ledger, kind, ref)
    <3>1. b.ledger = Append(a.ledger, row)
      BY <2>2 DEF Post, Account
    <3>2. /\ DOMAIN a.ledger = 1 .. Len(a.ledger)
          /\ DOMAIN b.ledger = (1 .. Len(a.ledger)) \cup {Len(a.ledger) + 1}
          /\ \A i \in 1 .. Len(a.ledger) : b.ledger[i] = a.ledger[i]
          /\ b.ledger[Len(a.ledger) + 1] = row
      BY <1>1, <3>1
    <3> HIDE DEF b
    <3>3. QED
      BY <3>2
  <2>3. QED
    BY <2>1, <2>2
<1>4. QED
  BY <1>2, <1>3 DEF Happened

(* Bringing the account up to date is housekeeping.                        *)
LEMMA EnsureIsHousekeeping ==
    ASSUME TypeOK, NEW u \in Users, NEW at \in Nat,
           NEW a \in EnsureOutcomes(u, at)
    PROVE  Abstract(u, a) \in Promise!Housekeeping(u, Abstract(u, account[u]))
<1> DEFINE a0 == account[u]
           g == Post(a0, "starter_grant", u, StarterGrantCredits, at)
           g1 == [g EXCEPT !.trialUsed = TRUE]
           n == CreditsToExpire(a0)
<1>1. a0 \in Account /\ a0.balance \in Nat
  BY DEF TypeOK, Account
<1>2. ASSUME ~ a0.trialUsed, ~ HasRow(a0.ledger, "starter_grant", u)
      PROVE  /\ Abstract(u, g1) \in Promise!Housekeeping(u, Abstract(u, a0))
             /\ Abstract(u, [g1 EXCEPT !.ledger = a0.ledger])
                  \in Promise!Housekeeping(u, Abstract(u, a0))
  <2>1. a0.balance + StarterGrantCredits \in Nat /\ StarterGrantCredits \in Int
    BY <1>1, AmountsAssumption
  <2>2. /\ g \in Account
        /\ g.balance = a0.balance + StarterGrantCredits
        /\ Happened(u, g) = Happened(u, a0) \cup {<<"starter_grant", u>>}
    BY <1>1, <2>1, PostType, HappenedPost DEF RowKinds
  <2>3. <<"starter_grant", u>> \notin Happened(u, a0)
    BY <1>2 DEF Happened, HasRow
  <2>4. /\ g1.balance = g.balance
        /\ g1.ledger = g.ledger
        /\ g1.trialUsed
        /\ [g1 EXCEPT !.ledger = a0.ledger].balance = g.balance
        /\ [g1 EXCEPT !.ledger = a0.ledger].ledger = a0.ledger
        /\ [g1 EXCEPT !.ledger = a0.ledger].trialUsed
    BY <2>2 DEF Account
  <2> HIDE DEF g, g1, a0
  <2>5. /\ Happened(u, g1) = Happened(u, a0) \cup {<<"starter_grant", u>>}
        /\ Happened(u, [g1 EXCEPT !.ledger = a0.ledger])
             = Happened(u, a0) \cup {<<"starter_grant", u>>}
    BY <1>2, <2>2, <2>4 DEF Happened
  <2>6. QED
    BY <2>2, <2>3, <2>4, <2>5
       DEF Abstract, Promise!Housekeeping, Promise!Record, Promise!Has
<1>3. ASSUME ExpiryDue(u, a0)
      PROVE  Abstract(u, Post(a0, "expiration", u, -n, at))
               \in Promise!Housekeeping(u, Abstract(u, a0))
  <2>1. /\ n \in 1 .. a0.balance /\ n <= StarterGrantCredits
        /\ HasRow(a0.ledger, "starter_grant", u)
        /\ ~ HasRow(a0.ledger, "expiration", u)
    <3>1. n \in 1 .. StarterGrantCredits /\ StarterGrantCredits \in Nat
      BY <1>1, <1>3, ExpiryTakesOfGrant, AmountsAssumption
    <3> HIDE DEF n
    <3>2. n <= StarterGrantCredits
      BY <3>1
    <3>3. QED
      BY <1>3, <3>2 DEF ExpiryDue, n
  <2>2. /\ <<"starter_grant", u>> \in Happened(u, a0)
        /\ <<"expiration", u>> \notin Happened(u, a0)
    BY <2>1 DEF Happened, HasRow
  <2> HIDE DEF n, a0
  <2>3. a0.balance + (-n) \in Nat /\ -n \in Int
    BY <1>1, <2>1
  <2>4. /\ Post(a0, "expiration", u, -n, at).balance = a0.balance + (-n)
        /\ Happened(u, Post(a0, "expiration", u, -n, at))
             = Happened(u, a0) \cup {<<"expiration", u>>}
    BY <1>1, <2>3, PostType, HappenedPost DEF RowKinds
  <2>5. QED
    BY <2>1, <2>2, <2>4
       DEF Abstract, Promise!Housekeeping, Promise!Record, Promise!Has
<1>4. Abstract(u, a0) \in Promise!Housekeeping(u, Abstract(u, a0))
  BY DEF Promise!Housekeeping
<1>5. QED
  BY <1>2, <1>3, <1>4 DEF EnsureOutcomes

(* Housekeeping touches no event but its own.                              *)
LEMMA EnsuredEvents ==
    ASSUME TypeOK, NEW c \in Conns, tx[c] # NoTx, NEW a \in Ensured(c),
           NEW v, NEW k \in EventKinds, NEW r
    PROVE  <<k, r>> \in Happened(v, a)
             <=> HasRow(account[UserOf(tx[c])].ledger, k, r)
<1>1. UserOf(tx[c]) \in Users /\ tx[c].start \in Nat
  BY RunningTypes
<1>2. HasRow(a.ledger, k, r) <=> HasRow(account[UserOf(tx[c])].ledger, k, r)
  BY <1>1, EnsureRows DEF Ensured, EventKinds
<1>3. QED
  BY <1>2, HappenedRows DEF EventKinds

(* Posting an event of a body changes the abstract account by that event.  *)
LEMMA EventIsRecord ==
    ASSUME TypeOK, NEW c \in Conns, tx[c] # NoTx, NEW a \in Ensured(c),
           NEW kind \in EventKinds, NEW delta \in Int, a.balance + delta \in Nat, NEW u
    PROVE  Abstract(u, Post(a, kind, tx[c].ref, delta, tx[c].start))
             = Promise!Record(Abstract(u, a), kind, tx[c].ref, delta)
<1>1. /\ a \in Account
      /\ kind \in RowKinds
      /\ tx[c].ref \in Users \cup Jobs \cup Invoices
      /\ tx[c].start \in Nat
  BY RunningTypes, CommitGains DEF EventKinds
<1>2. QED
  BY <1>1, PostType, HappenedPost DEF Abstract, Promise!Record

(* The mapped accounts when one user's account changes.                    *)
LEMMA OneAccountChanges ==
    ASSUME account \in [Users -> Account], NEW u \in Users, NEW b,
           account' = [account EXCEPT ![u] = b]
    PROVE  /\ [v \in Users |-> account'[v].balance]
                = [[v \in Users |-> account[v].balance] EXCEPT ![u] = b.balance]
           /\ [v \in Users |-> Happened(v, account'[v])]
                = [[v \in Users |-> Happened(v, account[v])] EXCEPT ![u] = Happened(u, b)]
<1>1. /\ account'[u] = b
      /\ \A v \in Users : v # u => account'[v] = account[v]
  OBVIOUS
<1>2. QED
  BY <1>1

(* Committing housekeeping and then a request serves the request.          *)
LEMMA CommitServes ==
    ASSUME TypeOK, NEW c \in Conns, tx[c] # NoTx, NEW a \in Ensured(c),
           NEW b, Commit(c, b), NEW u, u = UserOf(tx[c]),
           Abstract(u, b) \in Promise!Requests(u, Abstract(u, a))
    PROVE  Promise!AccountNext
<1>1. u \in Users /\ tx[c].start \in Nat
  BY RunningTypes
<1>2. Abstract(u, a) \in Promise!Housekeeping(u, Abstract(u, account[u]))
  BY <1>1, EnsureIsHousekeeping DEF Ensured
<1>3. account' = [account EXCEPT ![u] = b] /\ account \in [Users -> Account]
  BY DEF Commit, TypeOK
<1>4. /\ [v \in Users |-> account'[v].balance]
           = [[v \in Users |-> account[v].balance] EXCEPT ![u] = Abstract(u, b)[1]]
      /\ [v \in Users |-> Happened(v, account'[v])]
           = [[v \in Users |-> Happened(v, account[v])] EXCEPT ![u] = Abstract(u, b)[2]]
  BY <1>1, <1>3, OneAccountChanges DEF Abstract
<1>5. Abstract(u, account[u])
        = <<[v \in Users |-> account[v].balance][u],
            [v \in Users |-> Happened(v, account[v])][u]>>
  BY <1>1 DEF Abstract
<1>6. Promise!Serve(u)
  BY <1>2, <1>4, <1>5 DEF Promise!Serve
<1>7. QED
  BY <1>1, <1>6 DEF Promise!AccountNext

(* What a body posts is a request its user may make: the row is new, and   *)
(* the job or the invoice is the user's own.                               *)
LEMMA EventIsRequest ==
    ASSUME LedgerInv, NEW c \in Conns, tx[c] # NoTx, NEW a \in Ensured(c),
           NEW u, u = UserOf(tx[c]), NEW ref, ref = tx[c].ref,
           NEW kind \in EventKinds, NEW delta \in Int, a.balance + delta \in Nat,
           Commit(c, Post(a, kind, ref, delta, tx[c].start)),
           Promise!Record(Abstract(u, a), kind, ref, delta)
             \in Promise!Requests(u, Abstract(u, a))
    PROVE  Promise!AccountNext
<1>1. TypeOK
  BY DEF LedgerInv
<1>2. Abstract(u, Post(a, kind, ref, delta, tx[c].start))
        \in Promise!Requests(u, Abstract(u, a))
  BY <1>1, EventIsRecord
<1>3. QED
  BY <1>1, <1>2, CommitServes

(* Every step of a connection is a step of the abstract account, or leaves *)
(* all accounts alone.                                                     *)
LEMMA StepImplements ==
    ASSUME LedgerInv, NEW c \in Conns, Step(c)
    PROVE  Promise!AccountNext \/ UNCHANGED account
<1> USE DEF LedgerInv
<1>1. ASSUME tx[c] # NoTx, NEW a \in Ensured(c), Commit(c, a)
      PROVE  Promise!AccountNext
  <2>1. Abstract(UserOf(tx[c]), a)
          \in Promise!Requests(UserOf(tx[c]), Abstract(UserOf(tx[c]), a))
    BY DEF Promise!Requests
  <2>2. QED
    BY <1>1, <2>1, CommitServes
<1>2. CASE ReserveJobCredit(c)
  <2>1. PICK u, ref : u = UserOf(tx[c]) /\ ref = tx[c].ref
    OBVIOUS
  <2>2. tx[c] # NoTx /\ ref \in Jobs /\ u = JobOwner[ref] /\ jobCredit[ref] = "none"
    BY <1>2, <2>1, RunningTypes DEF CanPay, ReserveJobCredit, Running, JobOps, TxInv
  <2>3. PICK a \in Ensured(c) :
           /\ a.balance >= JobCreditCost
           /\ Commit(c, Post(a, "job_reserve", ref, -JobCreditCost, tx[c].start))
    BY <1>2, <2>1 DEF CanPay, ReserveJobCredit
  <2>4. a.balance \in Nat
    BY <2>2, CommitGains
  <2>5. a.balance + (-JobCreditCost) \in Nat /\ -JobCreditCost \in Int
    BY <2>3, <2>4, AmountsAssumption
  <2>6. <<"job_reserve", ref>> \notin Happened(u, a)
    BY <2>1, <2>2, EnsuredEvents DEF ChargeMatchesJob, EventKinds, RowKinds
  <2>7. Promise!Record(Abstract(u, a), "job_reserve", ref, -JobCreditCost)
          \in Promise!Requests(u, Abstract(u, a))
    BY <2>2, <2>3, <2>6 DEF Promise!Requests, Promise!JobsOf, Promise!Has, Abstract
  <2>8. QED
    BY <2>1, <2>2, <2>3, <2>5, <2>7, EventIsRequest DEF EventKinds, RowKinds
<1>3. CASE FinalizeJobCredit(c)
  <2>1. PICK u, ref : u = UserOf(tx[c]) /\ ref = tx[c].ref
    OBVIOUS
  <2>2. tx[c] # NoTx /\ ref \in Jobs /\ u = JobOwner[ref]
    BY <1>3, <2>1, RunningTypes DEF Reserved, FinalizeJobCredit, Running, JobOps
  <2>3. CASE jobCredit[ref] # "reserved"
    BY <1>1, <1>3, <2>1, <2>2, <2>3 DEF Reserved, FinalizeJobCredit
  <2>4. CASE jobCredit[ref] = "reserved"
    <3>1. PICK a \in Ensured(c) : Commit(c, Post(a, "job_finalize", ref, 0, tx[c].start))
      BY <1>3, <2>1, <2>4 DEF Reserved, FinalizeJobCredit
    <3>2. a.balance + 0 \in Nat /\ 0 \in Int /\ "job_finalize" \in EventKinds
      BY <2>2, CommitGains DEF EventKinds, RowKinds
    <3>3. Promise!Unsettled(Abstract(u, a), ref)
      BY <2>1, <2>2, <2>4, EnsuredEvents
         DEF Promise!Unsettled, Promise!Has, Abstract, ChargeMatchesJob, EventKinds, RowKinds
    <3>4. Promise!Record(Abstract(u, a), "job_finalize", ref, 0)
            \in Promise!Requests(u, Abstract(u, a))
      BY <2>2, <3>3 DEF Promise!Requests, Promise!JobsOf
    <3>5. QED
      BY <2>1, <2>2, <3>1, <3>2, <3>4, EventIsRequest
  <2>5. QED
    BY <2>3, <2>4
<1>4. CASE RefundJobCredit(c)
  <2>1. PICK u, ref : u = UserOf(tx[c]) /\ ref = tx[c].ref
    OBVIOUS
  <2>2. tx[c] # NoTx /\ ref \in Jobs /\ u = JobOwner[ref]
    BY <1>4, <2>1, RunningTypes DEF Reserved, RefundJobCredit, Running, JobOps
  <2>3. CASE jobCredit[ref] # "reserved"
    BY <1>1, <1>4, <2>1, <2>2, <2>3 DEF Reserved, RefundJobCredit
  <2>4. CASE jobCredit[ref] = "reserved"
    <3>1. PICK a \in Ensured(c) :
             Commit(c, Post(a, "job_refund", ref, JobCreditCost, tx[c].start))
      BY <1>4, <2>1, <2>4 DEF Reserved, RefundJobCredit
    <3>2. a.balance + JobCreditCost \in Nat /\ JobCreditCost \in Int
      BY <2>2, CommitGains, AmountsAssumption
    <3>3. Promise!Unsettled(Abstract(u, a), ref)
      BY <2>1, <2>2, <2>4, EnsuredEvents
         DEF Promise!Unsettled, Promise!Has, Abstract, ChargeMatchesJob, EventKinds, RowKinds
    <3>4. Promise!Record(Abstract(u, a), "job_refund", ref, JobCreditCost)
            \in Promise!Requests(u, Abstract(u, a))
      BY <2>2, <3>3 DEF Promise!Requests, Promise!JobsOf
    <3>5. QED
      BY <2>1, <2>2, <3>1, <3>2, <3>4, EventIsRequest DEF EventKinds, RowKinds
  <2>5. QED
    BY <2>3, <2>4
<1>5. CASE MarkPaymentPaid(c)
  <2>1. PICK u, ref : u = UserOf(tx[c]) /\ ref = tx[c].ref
    OBVIOUS
  <2>2. tx[c] # NoTx /\ ref \in Invoices /\ u = InvoiceOwner[ref]
    BY <1>5, <2>1, RunningTypes DEF MarkPaymentPaid, Running, InvoiceOps
  <2>3. CASE payment[ref] = "paid"
    BY <1>1, <1>5, <2>1, <2>2, <2>3 DEF MarkPaymentPaid
  <2>4. CASE payment[ref] # "paid"
    <3>1. PICK a \in Ensured(c) :
             Commit(c, Post(a, "purchase_grant", ref, CreditsGranted[ref], tx[c].start))
      BY <1>5, <2>1, <2>4 DEF MarkPaymentPaid
    <3>2. a.balance + CreditsGranted[ref] \in Nat /\ CreditsGranted[ref] \in Int
      BY <2>2, CommitGains, AmountsAssumption
    <3>3. <<"purchase_grant", ref>> \notin Happened(u, a)
      BY <2>1, <2>2, <2>4, EnsuredEvents DEF PurchaseMatchesPayment, EventKinds, RowKinds
    <3>4. Promise!Record(Abstract(u, a), "purchase_grant", ref, CreditsGranted[ref])
            \in Promise!Requests(u, Abstract(u, a))
      BY <2>2, <3>3 DEF Promise!Requests, Promise!InvoicesOf, Promise!Has, Abstract
    <3>5. QED
      BY <2>1, <2>2, <3>1, <3>2, <3>4, EventIsRequest DEF EventKinds, RowKinds
  <2>5. QED
    BY <2>3, <2>4
<1>6. CASE GetBalance(c) \/ CreateTopupPayment(c)
  BY <1>1, <1>6 DEF GetBalance, CreateTopupPayment, Running
<1>7. QED
  BY <1>2, <1>3, <1>4, <1>5, <1>6
     DEF Step, Begin, BeginGetBalance, BeginCreateJob, BeginFinalize, BeginRefund,
         BeginCreateTopup, BeginMarkPaid, Rollback

(* The code keeps the promise of the abstract account.                     *)
THEOREM LedgerImplementsAccount == Spec => ImplementsAccount
<1>1. Init => Promise!AccountInit
  <2>1. Init => \A u \in Users : account[u].balance = 0 /\ Happened(u, account[u]) = {}
    BY DEF Init, Happened
  <2>2. QED
    BY <2>1 DEF Promise!AccountInit
<1>2. LedgerInv /\ [Next]_vars => [Promise!AccountNext]_(Promise!accountVars)
  <2>1. UNCHANGED account => UNCHANGED Promise!accountVars
    BY DEF Promise!accountVars, Happened
  <2>2. QED
    BY <2>1, StepImplements DEF Next, Tick, vars
<1>3. QED
  BY <1>1, <1>2, LedgerInvariant, PTL DEF Spec, ImplementsAccount, Promise!AccountSpec
=============================================================================
