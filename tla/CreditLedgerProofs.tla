------------------------- MODULE CreditLedgerProofs -------------------------
(***************************************************************************)
(* Theorems about CreditLedger for every set of users, jobs, invoices and  *)
(* connections and every amount that satisfies the assumptions.            *)
(***************************************************************************)
EXTENDS CreditLedger, SequenceTheorems, FiniteSetTheorems, TLAPS

-----------------------------------------------------------------------------
(* What recording an event does to an account                              *)

(* A posted event changes the balance by delta and leaves a well-formed    *)
(* account with the same trial flag.                                       *)
LEMMA PostType ==
    ASSUME NEW a \in Account, NEW kind \in RowKinds,
           NEW ref \in Users \cup Jobs \cup Invoices,
           NEW delta \in Int, NEW at \in Nat, a.balance + delta \in Nat
    PROVE  /\ Post(a, kind, ref, delta, at) \in Account
           /\ Post(a, kind, ref, delta, at).balance = a.balance + delta
           /\ Post(a, kind, ref, delta, at).trialUsed = a.trialUsed
<1> DEFINE row == [kind |-> kind, ref |-> ref, delta |-> delta,
                   after |-> a.balance + delta, at |-> at]
<1>1. row \in Row
  BY DEF Row
<1>2. a.ledger \in Seq(Row)
  BY DEF Account
<1>3. Append(a.ledger, row) \in Seq(Row)
  BY <1>1, <1>2
<1>4. QED
  BY <1>2, <1>3 DEF Post, Account

(* Appending a row adds that row to the ledger and nothing else.           *)
LEMMA AppendRows ==
    ASSUME NEW L \in Seq(Row), NEW row \in Row, NEW k, NEW r
    PROVE  HasRow(Append(L, row), k, r)
             <=> HasRow(L, k, r) \/ (row.kind = k /\ row.ref = r)
<1> DEFINE M == Append(L, row)
<1>1. /\ DOMAIN L = 1 .. Len(L)
      /\ DOMAIN M = (1 .. Len(L)) \cup {Len(L) + 1}
      /\ \A i \in 1 .. Len(L) : M[i] = L[i]
      /\ M[Len(L) + 1] = row
  OBVIOUS
<1> HIDE DEF M
<1>2. ASSUME HasRow(M, k, r), ~ (row.kind = k /\ row.ref = r)
      PROVE  HasRow(L, k, r)
  BY <1>1, <1>2 DEF HasRow
<1>3. ASSUME HasRow(L, k, r)
      PROVE  HasRow(M, k, r)
  BY <1>1, <1>3 DEF HasRow
<1>4. ASSUME row.kind = k, row.ref = r
      PROVE  HasRow(M, k, r)
  BY <1>1, <1>4 DEF HasRow
<1>5. HasRow(M, k, r) <=> HasRow(L, k, r) \/ (row.kind = k /\ row.ref = r)
  BY <1>2, <1>3, <1>4
<1>6. QED
  BY <1>5 DEF M

(* Its row is there afterwards, and no other row appears or disappears.    *)
LEMMA PostRows ==
    ASSUME NEW a \in Account, NEW kind \in RowKinds,
           NEW ref \in Users \cup Jobs \cup Invoices,
           NEW delta \in Int, NEW at \in Nat, a.balance + delta \in Nat,
           NEW k, NEW r
    PROVE  HasRow(Post(a, kind, ref, delta, at).ledger, k, r)
             <=> HasRow(a.ledger, k, r) \/ (k = kind /\ r = ref)
<1> DEFINE row == [kind |-> kind, ref |-> ref, delta |-> delta,
                   after |-> a.balance + delta, at |-> at]
           M == Post(a, kind, ref, delta, at).ledger
<1>1. a.ledger \in Seq(Row) /\ row \in Row
  BY DEF Account, Row
<1>2. M = IF HasRow(a.ledger, kind, ref) THEN a.ledger ELSE Append(a.ledger, row)
  BY DEF Post, Account
<1>3. HasRow(Append(a.ledger, row), k, r)
        <=> HasRow(a.ledger, k, r) \/ (row.kind = k /\ row.ref = r)
  BY <1>1, AppendRows
<1>4. HasRow(M, k, r) <=> HasRow(a.ledger, k, r) \/ (k = kind /\ r = ref)
  BY <1>2, <1>3
<1>5. QED
  BY <1>4

(* A new row that says the balance it leaves continues the audit chain.    *)
LEMMA PostAudited ==
    ASSUME NEW a \in Account, NEW kind \in RowKinds, kind # "starter_grant",
           NEW ref \in Users \cup Jobs \cup Invoices,
           NEW delta \in Int, NEW at \in Nat, a.balance + delta \in Nat,
           ~ HasRow(a.ledger, kind, ref), Audited(a)
    PROVE  Audited(Post(a, kind, ref, delta, at))
<1> DEFINE row == [kind |-> kind, ref |-> ref, delta |-> delta,
                   after |-> a.balance + delta, at |-> at]
           L == a.ledger
           b == Post(a, kind, ref, delta, at)
<1>1. L \in Seq(Row) /\ a.balance \in Nat
  BY DEF Account
<1>2. b.ledger = Append(L, row) /\ b.balance = a.balance + delta /\ b.trialUsed = a.trialUsed
  BY DEF Post, Account
<1>3. /\ Len(L) \in Nat
      /\ DOMAIN L = 1 .. Len(L)
      /\ Len(b.ledger) = Len(L) + 1
      /\ DOMAIN b.ledger = 1 .. Len(L) + 1
      /\ \A i \in 1 .. Len(L) : b.ledger[i] = L[i]
      /\ b.ledger[Len(L) + 1] = row
  BY <1>1, <1>2
<1> HIDE DEF b
<1>4. Unrecorded(b) = Unrecorded(a)
  <2>1. DOMAIN b.ledger = DOMAIN L \cup {Len(L) + 1}
    BY <1>3
  <2>2. b.ledger[Len(L) + 1].kind # "starter_grant"
    BY <1>3
  <2>3. \A i \in DOMAIN L : b.ledger[i] = L[i]
    BY <1>3
  <2> HIDE DEF L
  <2>4. HasKind(b.ledger, "starter_grant") <=> HasKind(L, "starter_grant")
    BY <2>1, <2>2, <2>3 DEF HasKind
  <2>5. QED
    BY <1>2, <2>4 DEF Unrecorded, L
<1>5. \A i \in 1 .. Len(L) + 1 : Opening(b, i) = Opening(a, i)
  <2> TAKE i \in 1 .. Len(L) + 1
  <2>1. CASE i = 1
    BY <1>4, <2>1 DEF Opening
  <2>2. CASE i # 1
    <3>1. i - 1 \in 1 .. Len(L)
      BY <1>3, <2>2
    <3>2. QED
      BY <1>3, <2>2, <3>1 DEF Opening
  <2>3. QED
    BY <2>1, <2>2
<1>6. Opening(b, Len(b.ledger) + 1) = b.balance
  <2>1. Len(b.ledger) + 1 # 1 /\ (Len(b.ledger) + 1) - 1 = Len(L) + 1
    BY <1>3
  <2>2. QED
    BY <1>2, <1>3, <2>1 DEF Opening
<1>7. ASSUME NEW i \in DOMAIN b.ledger
      PROVE  b.ledger[i].after = Opening(b, i) + b.ledger[i].delta
  <2>1. CASE i \in 1 .. Len(L)
    BY <1>3, <1>5, <2>1 DEF Audited
  <2>2. CASE i = Len(L) + 1
    <3>1. Opening(b, i) = a.balance
      BY <1>3, <1>5, <2>2 DEF Audited
    <3>2. QED
      BY <1>3, <2>2, <3>1
  <2>3. QED
    BY <1>3, <2>1, <2>2
<1>8. Audited(b)
  BY <1>6, <1>7 DEF Audited
<1>9. QED
  BY <1>8 DEF b

(* So does the row of the starter grant on an empty ledger; without it the *)
(* chain starts at the grant.                                              *)
LEMMA GrantAudited ==
    ASSUME NEW a \in Account, Audited(a), ~ a.trialUsed, Len(a.ledger) = 0,
           NEW u \in Users, NEW at \in Nat, NEW b \in Account, b.trialUsed,
           b.balance = a.balance + StarterGrantCredits,
           \/ b.ledger = Post(a, "starter_grant", u, StarterGrantCredits, at).ledger
           \/ b.ledger = a.ledger
    PROVE  Audited(b)
<1> DEFINE row == [kind |-> "starter_grant", ref |-> u, delta |-> StarterGrantCredits,
                   after |-> a.balance + StarterGrantCredits, at |-> at]
           L == a.ledger
<1>1. L \in Seq(Row) /\ DOMAIN L = {} /\ a.balance \in Nat /\ StarterGrantCredits \in Nat
  BY AmountsAssumption DEF Account
<1>2. a.balance = 0
  BY DEF Audited, Opening, Unrecorded
<1>3. CASE b.ledger = L
  <2>1. Unrecorded(b) = StarterGrantCredits
    BY <1>1, <1>3 DEF Unrecorded, HasKind
  <2>2. QED
    BY <1>1, <1>2, <1>3, <2>1 DEF Audited, Opening
<1>4. CASE b.ledger = Post(a, "starter_grant", u, StarterGrantCredits, at).ledger
  <2>1. b.ledger = Append(L, row)
    BY <1>1, <1>4 DEF Post, Account, HasRow
  <2>2. Len(b.ledger) = 1 /\ DOMAIN b.ledger = {1} /\ b.ledger[1] = row
    BY <1>1, <2>1
  <2>3. Unrecorded(b) = 0
    BY <2>2 DEF Unrecorded, HasKind
  <2>4. QED
    BY <1>1, <1>2, <2>2, <2>3 DEF Audited, Opening
<1>5. QED
  BY <1>3, <1>4

-----------------------------------------------------------------------------
(* Bringing an account up to date                                          *)

(* ensure_credit_account leaves a well-formed account: in particular the   *)
(* expiry never takes more than the balance.                               *)
LEMMA EnsureType ==
    ASSUME TypeOK, NEW u \in Users, NEW at \in Nat,
           NEW a \in EnsureOutcomes(u, at)
    PROVE  a \in Account
<1> DEFINE a0 == account[u]
           g == Post(a0, "starter_grant", u, StarterGrantCredits, at)
           n == CreditsToExpire(a0)
<1>1. a0 \in Account /\ a0.balance \in Nat /\ a0.ledger \in Seq(Row)
  BY DEF TypeOK, Account
<1>2. g \in Account
  <2>1. a0.balance + StarterGrantCredits \in Nat /\ StarterGrantCredits \in Int
    BY <1>1, AmountsAssumption
  <2>2. QED
    BY <1>1, <2>1, PostType DEF RowKinds
<1>3. [g EXCEPT !.trialUsed = TRUE] \in Account
  BY <1>2 DEF Account
<1>4. [[g EXCEPT !.trialUsed = TRUE] EXCEPT !.ledger = a0.ledger] \in Account
  BY <1>1, <1>3 DEF Account
<1>5. ASSUME ExpiryDue(u, a0)
      PROVE  Post(a0, "expiration", u, -n, at) \in Account
  <2>1. n \in 1 .. a0.balance
    BY <1>5 DEF ExpiryDue
  <2> HIDE DEF n, a0
  <2>2. a0.balance + (-n) \in Nat /\ -n \in Int
    BY <1>1, <2>1
  <2>3. QED
    BY <1>1, <2>2, PostType DEF RowKinds
<1>6. QED
  BY <1>1, <1>3, <1>4, <1>5 DEF EnsureOutcomes

(* Only rows of the starter grant and its expiry are added.                *)
LEMMA EnsureRows ==
    ASSUME TypeOK, NEW u \in Users, NEW at \in Nat,
           NEW a \in EnsureOutcomes(u, at),
           NEW k, k \notin {"starter_grant", "expiration"}, NEW r
    PROVE  HasRow(a.ledger, k, r) <=> HasRow(account[u].ledger, k, r)
<1> DEFINE a0 == account[u]
           g == Post(a0, "starter_grant", u, StarterGrantCredits, at)
           n == CreditsToExpire(a0)
<1>1. a0 \in Account /\ a0.balance \in Nat /\ a0.ledger \in Seq(Row)
  BY DEF TypeOK, Account
<1>2. a0.balance + StarterGrantCredits \in Nat /\ StarterGrantCredits \in Int
  BY <1>1, AmountsAssumption
<1>3. HasRow(g.ledger, k, r) <=> HasRow(a0.ledger, k, r)
  <2> HIDE DEF a0
  <2>1. "starter_grant" \in RowKinds /\ k # "starter_grant"
    BY DEF RowKinds
  <2>2. HasRow(g.ledger, k, r)
          <=> HasRow(a0.ledger, k, r) \/ (k = "starter_grant" /\ r = u)
    BY <1>1, <1>2, <2>1, PostRows
  <2>3. QED
    BY <2>1, <2>2
<1>4. g \in Account
  BY <1>1, <1>2, PostType DEF RowKinds
<1>5. /\ [g EXCEPT !.trialUsed = TRUE].ledger = g.ledger
      /\ [[g EXCEPT !.trialUsed = TRUE] EXCEPT !.ledger = a0.ledger].ledger = a0.ledger
  BY <1>4 DEF Account
<1>6. ASSUME ExpiryDue(u, a0)
      PROVE  HasRow(Post(a0, "expiration", u, -n, at).ledger, k, r)
               <=> HasRow(a0.ledger, k, r)
  <2>1. n \in 1 .. a0.balance
    BY <1>6 DEF ExpiryDue
  <2> HIDE DEF n, a0
  <2>2. a0.balance + (-n) \in Nat /\ -n \in Int
    BY <1>1, <2>1
  <2>3. QED
    BY <1>1, <2>2, PostRows DEF RowKinds
<1>7. QED
  BY <1>3, <1>5, <1>6 DEF EnsureOutcomes

(* The audit chain, and that nothing comes before the grant.               *)
Sound(a) == Audited(a) /\ (~ a.trialUsed => Len(a.ledger) = 0)

(* The account it leaves is as auditable as the one it found, and has had  *)
(* its grant.                                                              *)
LEMMA EnsureAudited ==
    ASSUME TypeOK, NEW u \in Users, NEW at \in Nat,
           Sound(account[u]), NEW a \in EnsureOutcomes(u, at)
    PROVE  Audited(a) /\ a.trialUsed
<1> DEFINE a0 == account[u]
           g == Post(a0, "starter_grant", u, StarterGrantCredits, at)
           n == CreditsToExpire(a0)
<1>1. a0 \in Account /\ a0.balance \in Nat /\ Sound(a0)
  BY DEF TypeOK, Account
<1>2. CASE ~ a0.trialUsed
  <2>1. a0.balance + StarterGrantCredits \in Nat /\ StarterGrantCredits \in Int
    BY <1>1, AmountsAssumption
  <2>2. /\ g \in Account
        /\ g.balance = a0.balance + StarterGrantCredits
    BY <1>1, <2>1, PostType DEF RowKinds
  <2>3. Len(a0.ledger) = 0 /\ ~ HasRow(a0.ledger, "starter_grant", u)
    BY <1>1, <1>2 DEF Sound, HasRow, Account
  <2>4. \/ a = [g EXCEPT !.trialUsed = TRUE]
        \/ a = [[g EXCEPT !.trialUsed = TRUE] EXCEPT !.ledger = a0.ledger]
    BY <1>2, <2>3 DEF EnsureOutcomes
  <2>5. /\ a \in Account /\ a.trialUsed
        /\ a.balance = g.balance
        /\ a.ledger = g.ledger \/ a.ledger = a0.ledger
    BY <1>1, <2>2, <2>4 DEF Account
  <2> HIDE DEF a0
  <2>6. Audited(a)
    BY <1>1, <1>2, <2>2, <2>3, <2>5, GrantAudited DEF Sound
  <2>7. QED
    BY <2>5, <2>6
<1>3. ASSUME a0.trialUsed, ExpiryDue(u, a0)
      PROVE  LET b == Post(a0, "expiration", u, -n, at) IN Audited(b) /\ b.trialUsed
  <2>1. n \in 1 .. a0.balance /\ ~ HasRow(a0.ledger, "expiration", u)
    BY <1>3 DEF ExpiryDue
  <2> HIDE DEF n, a0
  <2>2. a0.balance + (-n) \in Nat /\ -n \in Int
    BY <1>1, <2>1
  <2>3. QED
    BY <1>1, <1>3, <2>1, <2>2, PostAudited, PostType DEF RowKinds, Sound
<1>4. QED
  BY <1>1, <1>2, <1>3 DEF EnsureOutcomes, Sound

-----------------------------------------------------------------------------
(* Types                                                                   *)

(* What is known of the transaction that runs an operation.                *)
LEMMA RunningTypes ==
    ASSUME TypeOK, NEW c \in Conns, tx[c] # NoTx
    PROVE  /\ tx[c] \in TxRecord
           /\ UserOf(tx[c]) \in Users
           /\ tx[c].start \in Nat
           /\ tx[c].ref \in Users \cup Jobs \cup Invoices
           /\ tx[c].op \in JobOps =>
                 tx[c].ref \in Jobs /\ UserOf(tx[c]) = JobOwner[tx[c].ref]
           /\ tx[c].op \in InvoiceOps =>
                 tx[c].ref \in Invoices /\ UserOf(tx[c]) = InvoiceOwner[tx[c].ref]
<1>1. tx[c] \in TxRecord
  BY DEF TypeOK
<1>2. CASE tx[c] \in [op: UserOps, ref: Users, start: Nat]
  BY <1>1, <1>2 DEF UserOf, UserOps, JobOps, InvoiceOps
<1>3. CASE tx[c] \in [op: JobOps, ref: Jobs, start: Nat]
  BY <1>1, <1>3, OwnersAssumption DEF UserOf, UserOps, JobOps, InvoiceOps
<1>4. CASE tx[c] \in [op: InvoiceOps, ref: Invoices, start: Nat]
  BY <1>1, <1>4, OwnersAssumption DEF UserOf, UserOps, JobOps, InvoiceOps
<1>5. QED
  BY <1>1, <1>2, <1>3, <1>4 DEF TxRecord

(* A commit that leaves a well-formed account keeps the types.             *)
LEMMA CommitType ==
    ASSUME TypeOK, NEW c \in Conns, tx[c] # NoTx, NEW a \in Account, Commit(c, a),
           jobCredit' \in [Jobs -> {"none", "reserved", "finalized", "refunded"}],
           payment' \in [Invoices -> {"none", "pending", "paid"}]
    PROVE  TypeOK'
  BY RunningTypes DEF TypeOK, Commit

(* The body of each operation posts to a well-formed account.              *)
LEMMA StepType ==
    ASSUME TypeOK, NEW c \in Conns, Step(c)
    PROVE  TypeOK'
<1>1. ASSUME tx[c] # NoTx, NEW a \in Ensured(c)
      PROVE  a \in Account /\ a.balance \in Nat
  BY <1>1, RunningTypes, EnsureType DEF Ensured, Account
<1>2. ASSUME NEW op, NEW ref, Begin(c, op, ref),
             \A t \in Nat : [op |-> op, ref |-> ref, start |-> t] \in TxRecord
      PROVE  TypeOK'
  BY <1>2 DEF Begin, TypeOK
<1>3. ASSUME NEW u \in Users, BeginGetBalance(c, u)
      PROVE  TypeOK'
  BY <1>2, <1>3 DEF BeginGetBalance, TxRecord, UserOps
<1>4. ASSUME NEW j \in Jobs, BeginCreateJob(c, j) \/ BeginFinalize(c, j) \/ BeginRefund(c, j)
      PROVE  TypeOK'
  BY <1>2, <1>4 DEF BeginCreateJob, BeginFinalize, BeginRefund, TxRecord, JobOps
<1>5. ASSUME NEW p \in Invoices, BeginCreateTopup(c, p) \/ BeginMarkPaid(c, p)
      PROVE  TypeOK'
  BY <1>2, <1>5 DEF BeginCreateTopup, BeginMarkPaid, TxRecord, InvoiceOps
<1>6. CASE GetBalance(c)
  BY <1>1, <1>6, CommitType DEF GetBalance, Running, TypeOK
<1>7. CASE ReserveJobCredit(c)
  <2>1. tx[c] # NoTx /\ tx[c].ref \in Jobs
    BY <1>7, RunningTypes DEF CanPay, ReserveJobCredit, Running, JobOps
  <2>2. PICK a \in Ensured(c) :
           /\ a.balance >= JobCreditCost
           /\ Commit(c, Post(a, "job_reserve", tx[c].ref, -JobCreditCost, tx[c].start))
    BY <1>7 DEF CanPay, ReserveJobCredit
  <2>3. a \in Account /\ a.balance + (-JobCreditCost) \in Nat /\ -JobCreditCost \in Int
    BY <1>1, <2>1, <2>2, AmountsAssumption
  <2>4. Post(a, "job_reserve", tx[c].ref, -JobCreditCost, tx[c].start) \in Account
    BY <2>1, <2>3, PostType, RunningTypes DEF RowKinds
  <2>5. QED
    BY <1>7, <2>1, <2>2, <2>4, CommitType DEF CanPay, ReserveJobCredit, TypeOK
<1>8. CASE FinalizeJobCredit(c)
  <2>1. tx[c] # NoTx /\ tx[c].ref \in Jobs
    BY <1>8, RunningTypes DEF Reserved, FinalizeJobCredit, Running, JobOps
  <2>2. PICK a \in Ensured(c) :
           \/ Commit(c, Post(a, "job_finalize", tx[c].ref, 0, tx[c].start))
           \/ Commit(c, a)
    BY <1>8 DEF Reserved, FinalizeJobCredit
  <2>3. a \in Account /\ a.balance + 0 \in Nat
    BY <1>1, <2>1
  <2>4. Post(a, "job_finalize", tx[c].ref, 0, tx[c].start) \in Account
    BY <2>1, <2>3, PostType, RunningTypes DEF RowKinds
  <2>5. QED
    BY <1>8, <2>1, <2>2, <2>3, <2>4, CommitType DEF Reserved, FinalizeJobCredit, TypeOK
<1>9. CASE RefundJobCredit(c)
  <2>1. tx[c] # NoTx /\ tx[c].ref \in Jobs
    BY <1>9, RunningTypes DEF Reserved, RefundJobCredit, Running, JobOps
  <2>2. PICK a \in Ensured(c) :
           \/ Commit(c, Post(a, "job_refund", tx[c].ref, JobCreditCost, tx[c].start))
           \/ Commit(c, a)
    BY <1>9 DEF Reserved, RefundJobCredit
  <2>3. a \in Account /\ a.balance + JobCreditCost \in Nat /\ JobCreditCost \in Int
    BY <1>1, <2>1, AmountsAssumption
  <2>4. Post(a, "job_refund", tx[c].ref, JobCreditCost, tx[c].start) \in Account
    BY <2>1, <2>3, PostType, RunningTypes DEF RowKinds
  <2>5. QED
    BY <1>9, <2>1, <2>2, <2>3, <2>4, CommitType DEF Reserved, RefundJobCredit, TypeOK
<1>10. CASE CreateTopupPayment(c)
  <2>1. tx[c] # NoTx /\ tx[c].ref \in Invoices
    BY <1>10, RunningTypes DEF CreateTopupPayment, Running, InvoiceOps
  <2>2. QED
    BY <1>1, <1>10, <2>1, CommitType DEF CreateTopupPayment, TypeOK
<1>11. CASE MarkPaymentPaid(c)
  <2> DEFINE p == tx[c].ref
  <2>1. tx[c] # NoTx /\ p \in Invoices
    BY <1>11, RunningTypes DEF MarkPaymentPaid, Running, InvoiceOps
  <2>2. PICK a \in Ensured(c) :
           \/ Commit(c, Post(a, "purchase_grant", p, CreditsGranted[p], tx[c].start))
           \/ Commit(c, a)
    BY <1>11 DEF MarkPaymentPaid
  <2>3. a \in Account /\ a.balance + CreditsGranted[p] \in Nat /\ CreditsGranted[p] \in Int
    BY <1>1, <2>1, AmountsAssumption
  <2>4. Post(a, "purchase_grant", p, CreditsGranted[p], tx[c].start) \in Account
    BY <2>1, <2>3, PostType, RunningTypes DEF RowKinds
  <2>5. QED
    BY <1>11, <2>1, <2>2, <2>3, <2>4, CommitType DEF MarkPaymentPaid, TypeOK
<1>12. CASE Rollback(c)
  BY <1>12 DEF Rollback, TypeOK
<1>13. QED
  BY <1>3, <1>4, <1>5, <1>6, <1>7, <1>8, <1>9, <1>10, <1>11, <1>12 DEF Step

(* Every reachable state is well formed: no balance is ever negative.      *)
THEOREM TypeCorrect == Spec => []TypeOK
<1>1. Init => TypeOK
  BY DEF Init, TypeOK, Account
<1>2. TypeOK /\ [Next]_vars => TypeOK'
  <2> SUFFICES ASSUME TypeOK, [Next]_vars
               PROVE  TypeOK'
    OBVIOUS
  <2>1. CASE Tick
    BY <2>1 DEF Tick, TypeOK
  <2>2. ASSUME NEW c \in Conns, Step(c)
        PROVE  TypeOK'
    BY <2>2, StepType
  <2>3. CASE UNCHANGED vars
    BY <2>3 DEF vars, TypeOK
  <2>4. QED
    BY <2>1, <2>2, <2>3 DEF Next
<1>3. QED
  BY <1>1, <1>2, PTL DEF Spec

-----------------------------------------------------------------------------
(* Ledger rows and statuses                                                *)

(* An id is created by one transaction only, and only created ids are      *)
(* settled or paid: without it a second transaction that creates the same  *)
(* job could debit it again.                                               *)
TxInv ==
    \A c \in Conns : tx[c] # NoTx =>
        /\ tx[c].op = "create_job"             => jobCredit[tx[c].ref] = "none"
        /\ tx[c].op \in {"finalize", "refund"} => jobCredit[tx[c].ref] # "none"
        /\ tx[c].op = "create_topup"           => payment[tx[c].ref] = "none"
        /\ tx[c].op = "mark_paid"              => payment[tx[c].ref] # "none"
        /\ tx[c].op \in {"create_job", "create_topup"} =>
              \A d \in Conns \ {c} : tx[d] # NoTx =>
                 ~ (tx[d].op = tx[c].op /\ tx[d].ref = tx[c].ref)

(* The inductive invariant behind the exactly-once properties.             *)
LedgerInv == TypeOK /\ TxInv /\ ChargeMatchesJob /\ PurchaseMatchesPayment

(* Every step keeps each open transaction one of the kind it began as.     *)
LEMMA StepTx ==
    ASSUME TypeOK, TxInv, NEW c \in Conns, Step(c)
    PROVE  TxInv'
<1>1. \A d \in Conns : d # c => tx'[d] = tx[d]
  BY DEF Step, BeginGetBalance, BeginCreateJob, BeginFinalize, BeginRefund,
         BeginCreateTopup, BeginMarkPaid, Begin, GetBalance, ReserveJobCredit,
         FinalizeJobCredit, RefundJobCredit, CreateTopupPayment, MarkPaymentPaid,
         Commit, Rollback, TypeOK
<1>2. ASSUME NEW op, NEW ref, Begin(c, op, ref),
             op = "create_job"              => jobCredit[ref] = "none",
             op \in {"finalize", "refund"}  => jobCredit[ref] # "none",
             op = "create_topup"            => payment[ref] = "none",
             op = "mark_paid"               => payment[ref] # "none",
             op \in {"create_job", "create_topup"} => Fresh(op, ref)
      PROVE  TxInv'
  BY <1>2 DEF Begin, Fresh, TxInv, TypeOK
<1>3. ASSUME tx' = [tx EXCEPT ![c] = NoTx], tx[c] # NoTx,
             \/ jobCredit' = jobCredit
             \/ /\ tx[c].op = "create_job"
                /\ \E s \in {"reserved", "finalized", "refunded"} :
                      jobCredit' = [jobCredit EXCEPT ![tx[c].ref] = s]
             \/ /\ tx[c].op \in {"finalize", "refund"}
                /\ \E s \in {"reserved", "finalized", "refunded"} :
                      jobCredit' = [jobCredit EXCEPT ![tx[c].ref] = s],
             \/ payment' = payment
             \/ /\ tx[c].op = "create_topup"
                /\ \E s \in {"pending", "paid"} :
                      payment' = [payment EXCEPT ![tx[c].ref] = s]
             \/ /\ tx[c].op = "mark_paid"
                /\ \E s \in {"pending", "paid"} :
                      payment' = [payment EXCEPT ![tx[c].ref] = s]
      PROVE  TxInv'
  <2> SUFFICES ASSUME NEW d \in Conns, d # c, tx[d] # NoTx
               PROVE  /\ tx[d].op = "create_job"             => jobCredit'[tx[d].ref] = "none"
                      /\ tx[d].op \in {"finalize", "refund"} => jobCredit'[tx[d].ref] # "none"
                      /\ tx[d].op = "create_topup"           => payment'[tx[d].ref] = "none"
                      /\ tx[d].op = "mark_paid"              => payment'[tx[d].ref] # "none"
    BY <1>3 DEF TxInv, TypeOK
  <2>1. /\ tx[d].op \in JobOps => tx[d].ref \in Jobs
        /\ tx[d].op \in InvoiceOps => tx[d].ref \in Invoices
    BY RunningTypes
  <2>2. /\ tx[d].op = "create_job"             => jobCredit[tx[d].ref] = "none"
        /\ tx[d].op \in {"finalize", "refund"} => jobCredit[tx[d].ref] # "none"
        /\ tx[d].op = "create_topup"           => payment[tx[d].ref] = "none"
        /\ tx[d].op = "mark_paid"              => payment[tx[d].ref] # "none"
        /\ tx[c].op = "create_job"             => jobCredit[tx[c].ref] = "none"
        /\ tx[c].op \in {"finalize", "refund"} => jobCredit[tx[c].ref] # "none"
        /\ tx[c].op = "create_topup"           => payment[tx[c].ref] = "none"
        /\ tx[c].op = "mark_paid"              => payment[tx[c].ref] # "none"
        /\ tx[d].op \in {"create_job", "create_topup"} =>
              ~ (tx[c].op = tx[d].op /\ tx[c].ref = tx[d].ref)
    BY <1>3 DEF TxInv
  <2>3. /\ tx[d].op = "create_job"             => jobCredit'[tx[d].ref] = "none"
        /\ tx[d].op \in {"finalize", "refund"} => jobCredit'[tx[d].ref] # "none"
    BY <1>3, <2>1, <2>2 DEF TypeOK, JobOps
  <2>4. /\ tx[d].op = "create_topup"           => payment'[tx[d].ref] = "none"
        /\ tx[d].op = "mark_paid"              => payment'[tx[d].ref] # "none"
    BY <1>3, <2>1, <2>2 DEF TypeOK, InvoiceOps
  <2>5. QED
    BY <2>3, <2>4
<1>4. ASSUME NEW u \in Users, BeginGetBalance(c, u)
      PROVE  TxInv'
  BY <1>2, <1>4 DEF BeginGetBalance
<1>5. ASSUME NEW j \in Jobs, BeginCreateJob(c, j) \/ BeginFinalize(c, j) \/ BeginRefund(c, j)
      PROVE  TxInv'
  BY <1>2, <1>5 DEF BeginCreateJob, BeginFinalize, BeginRefund
<1>6. ASSUME NEW p \in Invoices, BeginCreateTopup(c, p) \/ BeginMarkPaid(c, p)
      PROVE  TxInv'
  BY <1>2, <1>6 DEF BeginCreateTopup, BeginMarkPaid
<1>7. CASE GetBalance(c) \/ Rollback(c)
  BY <1>3, <1>7 DEF GetBalance, Rollback, Running, Commit
<1>8. CASE ReserveJobCredit(c)
  <2>1. /\ tx' = [tx EXCEPT ![c] = NoTx]
        /\ tx[c] # NoTx /\ tx[c].op = "create_job"
        /\ jobCredit' = [jobCredit EXCEPT ![tx[c].ref] = "reserved"]
        /\ payment' = payment
    BY <1>8 DEF CanPay, ReserveJobCredit, Running, Commit
  <2>2. \E s \in {"reserved", "finalized", "refunded"} :
                      jobCredit' = [jobCredit EXCEPT ![tx[c].ref] = s]
    BY <2>1
  <2>3. QED
    BY <1>3, <2>1, <2>2
<1>9. CASE FinalizeJobCredit(c)
  BY <1>3, <1>9 DEF Reserved, FinalizeJobCredit, Running, Commit
<1>10. CASE RefundJobCredit(c)
  BY <1>3, <1>10 DEF Reserved, RefundJobCredit, Running, Commit
<1>11. CASE CreateTopupPayment(c)
  <2>1. /\ tx' = [tx EXCEPT ![c] = NoTx]
        /\ tx[c] # NoTx /\ tx[c].op = "create_topup"
        /\ payment' = [payment EXCEPT ![tx[c].ref] = "pending"]
        /\ jobCredit' = jobCredit
    BY <1>11 DEF CreateTopupPayment, Running, Commit
  <2>2. \E s \in {"pending", "paid"} :
                      payment' = [payment EXCEPT ![tx[c].ref] = s]
    BY <2>1
  <2>3. QED
    BY <1>3, <2>1, <2>2
<1>12. CASE MarkPaymentPaid(c)
  BY <1>3, <1>12 DEF MarkPaymentPaid, Running, Commit
<1>13. QED
  BY <1>4, <1>5, <1>6, <1>7, <1>8, <1>9, <1>10, <1>11, <1>12 DEF Step

(* How the rows of the owner of the id of a transaction change when it     *)
(* commits with event <<kind, ref>>; other accounts do not change.         *)
LEMMA CommitRows ==
    ASSUME TypeOK, NEW c \in Conns, tx[c] # NoTx, NEW a \in Ensured(c),
           NEW kind \in RowKinds, NEW delta \in Int, a.balance + delta \in Nat,
           Commit(c, Post(a, kind, tx[c].ref, delta, tx[c].start)),
           NEW v \in Users, NEW k, k \notin {"starter_grant", "expiration"}, NEW r
    PROVE  HasRow(account'[v].ledger, k, r)
             <=> \/ HasRow(account[v].ledger, k, r)
                 \/ v = UserOf(tx[c]) /\ k = kind /\ r = tx[c].ref
<1> DEFINE u == UserOf(tx[c])
           b == Post(a, kind, tx[c].ref, delta, tx[c].start)
<1>1. u \in Users /\ tx[c].start \in Nat /\ tx[c].ref \in Users \cup Jobs \cup Invoices
  BY RunningTypes
<1>2. a \in Account /\ (HasRow(a.ledger, k, r) <=> HasRow(account[u].ledger, k, r))
  BY <1>1, EnsureType, EnsureRows DEF Ensured
<1>3. HasRow(b.ledger, k, r) <=> HasRow(a.ledger, k, r) \/ (k = kind /\ r = tx[c].ref)
  <2>1. ASSUME NEW ref \in Users \cup Jobs \cup Invoices, NEW at \in Nat
        PROVE  HasRow(Post(a, kind, ref, delta, at).ledger, k, r)
                 <=> HasRow(a.ledger, k, r) \/ (k = kind /\ r = ref)
    BY <1>2, PostRows
  <2>2. QED
    BY <1>1, <2>1
<1>4. account' = [account EXCEPT ![u] = b]
  BY DEF Commit
<1> HIDE DEF u, b
<1>5. CASE v = u
  <2>1. account'[v] = b
    BY <1>1, <1>4, <1>5 DEF TypeOK
  <2>2. QED
    BY <1>2, <1>3, <1>5, <2>1 DEF u
<1>6. CASE v # u
  BY <1>4, <1>6 DEF TypeOK, u
<1>7. QED
  BY <1>5, <1>6

(* A transaction with no event of its own leaves these rows alone.         *)
LEMMA IdleRows ==
    ASSUME TypeOK, NEW c \in Conns, tx[c] # NoTx, NEW a \in Ensured(c), Commit(c, a),
           NEW v \in Users, NEW k, k \notin {"starter_grant", "expiration"}, NEW r
    PROVE  HasRow(account'[v].ledger, k, r) <=> HasRow(account[v].ledger, k, r)
<1> DEFINE u == UserOf(tx[c])
<1>1. u \in Users /\ tx[c].start \in Nat
  BY RunningTypes
<1>2. HasRow(a.ledger, k, r) <=> HasRow(account[u].ledger, k, r)
  BY <1>1, EnsureRows DEF Ensured
<1>3. account' = [account EXCEPT ![u] = a]
  BY DEF Commit
<1> HIDE DEF u
<1>4. CASE v = u
  <2>1. account'[v] = a
    BY <1>1, <1>3, <1>4 DEF TypeOK
  <2>2. QED
    BY <1>2, <1>4, <2>1
<1>5. CASE v # u
  BY <1>3, <1>5 DEF TypeOK
<1>6. QED
  BY <1>4, <1>5

(* The step adds the row <<kind, ref>> to the ledger of u, and among the   *)
(* rows of jobs and payments that one alone (none if kind is "nothing").   *)
EventKinds == RowKinds \ {"starter_grant", "expiration"}

RowsGain(u, kind, ref) ==
    \A v \in Users, k \in EventKinds : \A r :
        HasRow(account'[v].ledger, k, r)
          <=> HasRow(account[v].ledger, k, r) \/ (v = u /\ k = kind /\ r = ref)

(* Every commit adds the row of its event, or none.                        *)
LEMMA CommitGains ==
    ASSUME TypeOK, NEW c \in Conns, tx[c] # NoTx, NEW a \in Ensured(c)
    PROVE  /\ a \in Account /\ a.balance \in Nat
           /\ Commit(c, a) => RowsGain(UserOf(tx[c]), "nothing", tx[c].ref)
           /\ \A kind \in RowKinds, delta \in Int :
                 a.balance + delta \in Nat
                   /\ Commit(c, Post(a, kind, tx[c].ref, delta, tx[c].start))
                 => RowsGain(UserOf(tx[c]), kind, tx[c].ref)
<1>1. a \in Account /\ a.balance \in Nat
  BY RunningTypes, EnsureType DEF Ensured, Account
<1>2. ASSUME Commit(c, a)
      PROVE  RowsGain(UserOf(tx[c]), "nothing", tx[c].ref)
  BY <1>2, IdleRows DEF RowsGain, EventKinds, RowKinds
<1>3. ASSUME NEW kind \in RowKinds, NEW delta \in Int, a.balance + delta \in Nat,
             Commit(c, Post(a, kind, tx[c].ref, delta, tx[c].start))
      PROVE  RowsGain(UserOf(tx[c]), kind, tx[c].ref)
  <2> SUFFICES ASSUME NEW v \in Users, NEW k \in EventKinds, NEW r
               PROVE  HasRow(account'[v].ledger, k, r)
                        <=> \/ HasRow(account[v].ledger, k, r)
                            \/ v = UserOf(tx[c]) /\ k = kind /\ r = tx[c].ref
    BY DEF RowsGain
  <2>1. k \notin {"starter_grant", "expiration"}
    BY DEF EventKinds
  <2>2. QED
    BY <1>3, <2>1, CommitRows
<1>4. QED
  BY <1>1, <1>2, <1>3

(* The statuses of jobs follow the rows when each gains what the other does.*)
LEMMA ChargeKept ==
    ASSUME ChargeMatchesJob, NEW u, NEW kind, NEW ref, RowsGain(u, kind, ref),
           kind \in {"job_reserve", "job_finalize", "job_refund"} => u = JobOwner[ref],
           \A j \in Jobs :
              /\ jobCredit'[j] # "none"
                   <=> jobCredit[j] # "none" \/ (kind = "job_reserve" /\ ref = j)
              /\ jobCredit'[j] = "finalized"
                   <=> jobCredit[j] = "finalized" \/ (kind = "job_finalize" /\ ref = j)
              /\ jobCredit'[j] = "refunded"
                   <=> jobCredit[j] = "refunded" \/ (kind = "job_refund" /\ ref = j)
    PROVE  ChargeMatchesJob'
<1> SUFFICES ASSUME NEW j \in Jobs
             PROVE  LET rows == account'[JobOwner[j]].ledger IN
                    /\ HasRow(rows, "job_reserve", j)  <=> jobCredit'[j] # "none"
                    /\ HasRow(rows, "job_finalize", j) <=> jobCredit'[j] = "finalized"
                    /\ HasRow(rows, "job_refund", j)   <=> jobCredit'[j] = "refunded"
  BY DEF ChargeMatchesJob
<1> DEFINE old == account[JobOwner[j]].ledger
           new == account'[JobOwner[j]].ledger
<1>1. /\ HasRow(old, "job_reserve", j)  <=> jobCredit[j] # "none"
      /\ HasRow(old, "job_finalize", j) <=> jobCredit[j] = "finalized"
      /\ HasRow(old, "job_refund", j)   <=> jobCredit[j] = "refunded"
  BY DEF ChargeMatchesJob
<1>2. JobOwner[j] \in Users
  BY OwnersAssumption
<1>3. \A k \in {"job_reserve", "job_finalize", "job_refund"} :
         HasRow(new, k, j) <=> HasRow(old, k, j) \/ (k = kind /\ j = ref)
  BY <1>2 DEF RowsGain, EventKinds, RowKinds
<1>4. QED
  BY <1>1, <1>3

(* Likewise for payments.                                                  *)
LEMMA PurchaseKept ==
    ASSUME PurchaseMatchesPayment, NEW u, NEW kind, NEW ref, RowsGain(u, kind, ref),
           kind = "purchase_grant" => u = InvoiceOwner[ref],
           \A p \in Invoices :
              payment'[p] = "paid"
                <=> payment[p] = "paid" \/ (kind = "purchase_grant" /\ ref = p)
    PROVE  PurchaseMatchesPayment'
<1> SUFFICES ASSUME NEW p \in Invoices
             PROVE  HasRow(account'[InvoiceOwner[p]].ledger, "purchase_grant", p)
                      <=> payment'[p] = "paid"
  BY DEF PurchaseMatchesPayment
<1>1. HasRow(account[InvoiceOwner[p]].ledger, "purchase_grant", p) <=> payment[p] = "paid"
  BY DEF PurchaseMatchesPayment
<1>2. InvoiceOwner[p] \in Users
  BY OwnersAssumption
<1>3. HasRow(account'[InvoiceOwner[p]].ledger, "purchase_grant", p)
        <=> \/ HasRow(account[InvoiceOwner[p]].ledger, "purchase_grant", p)
            \/ kind = "purchase_grant" /\ p = ref
  BY <1>2 DEF RowsGain, EventKinds, RowKinds
<1>4. QED
  BY <1>1, <1>3

(* Every step of a transaction keeps statuses and rows together.           *)
LEMMA StepRows ==
    ASSUME LedgerInv, NEW c \in Conns, Step(c)
    PROVE  ChargeMatchesJob' /\ PurchaseMatchesPayment'
<1> USE DEF LedgerInv
<1> DEFINE u == UserOf(tx[c])
           ref == tx[c].ref
<1>1. CASE UNCHANGED <<account, jobCredit, payment>>
  BY <1>1 DEF ChargeMatchesJob, PurchaseMatchesPayment
<1>2. ASSUME RowsGain(u, "nothing", ref), UNCHANGED jobCredit,
             \A p \in Invoices : payment'[p] = "paid" <=> payment[p] = "paid"
      PROVE  ChargeMatchesJob' /\ PurchaseMatchesPayment'
  <2> HIDE DEF u, ref
  <2>1. ChargeMatchesJob'
    BY <1>2, ChargeKept
  <2>2. PurchaseMatchesPayment'
    BY <1>2, PurchaseKept
  <2>3. QED
    BY <2>1, <2>2
<1>3. CASE GetBalance(c)
  <2>1. RowsGain(u, "nothing", ref) /\ UNCHANGED <<jobCredit, payment>>
    BY <1>3, CommitGains DEF GetBalance, Running
  <2>2. QED
    BY <1>2, <2>1
<1>4. CASE ReserveJobCredit(c)
  <2>1. tx[c] # NoTx /\ ref \in Jobs /\ u = JobOwner[ref] /\ jobCredit[ref] = "none"
    BY <1>4, RunningTypes DEF CanPay, ReserveJobCredit, Running, JobOps, TxInv
  <2>2. PICK a \in Ensured(c) :
           /\ a.balance >= JobCreditCost
           /\ Commit(c, Post(a, "job_reserve", ref, -JobCreditCost, tx[c].start))
    BY <1>4 DEF CanPay, ReserveJobCredit
  <2>3. a.balance \in Nat
    BY <2>1, CommitGains
  <2>4. a.balance + (-JobCreditCost) \in Nat /\ -JobCreditCost \in Int
    BY <2>2, <2>3, AmountsAssumption
  <2>5. RowsGain(u, "job_reserve", ref)
    BY <2>1, <2>2, <2>4, CommitGains DEF RowKinds
  <2>6. jobCredit' = [jobCredit EXCEPT ![ref] = "reserved"] /\ payment' = payment
    BY <1>4 DEF CanPay, ReserveJobCredit
  <2> HIDE DEF u, ref
  <2>7. ChargeMatchesJob'
    BY <2>1, <2>5, <2>6, ChargeKept DEF TypeOK
  <2>8. PurchaseMatchesPayment'
    BY <2>5, <2>6, PurchaseKept
  <2>9. QED
    BY <2>7, <2>8
<1>5. CASE FinalizeJobCredit(c)
  <2>1. tx[c] # NoTx /\ ref \in Jobs /\ u = JobOwner[ref] /\ payment' = payment
    BY <1>5, RunningTypes DEF Reserved, FinalizeJobCredit, Running, JobOps
  <2>2. CASE jobCredit[ref] # "reserved"
    <3>1. RowsGain(u, "nothing", ref) /\ jobCredit' = jobCredit
      BY <1>5, <2>1, <2>2, CommitGains DEF Reserved, FinalizeJobCredit
    <3>2. QED
      BY <1>2, <2>1, <3>1
  <2>3. CASE jobCredit[ref] = "reserved"
    <3>1. PICK a \in Ensured(c) : Commit(c, Post(a, "job_finalize", ref, 0, tx[c].start))
      BY <1>5, <2>3 DEF Reserved, FinalizeJobCredit
    <3>2. a.balance + 0 \in Nat
      BY <2>1, CommitGains
    <3>3. RowsGain(u, "job_finalize", ref)
      BY <2>1, <3>1, <3>2, CommitGains DEF RowKinds
    <3>4. jobCredit' = [jobCredit EXCEPT ![ref] = "finalized"]
      BY <1>5, <2>3 DEF Reserved, FinalizeJobCredit
    <3> HIDE DEF u, ref
    <3>5. ChargeMatchesJob'
      BY <2>1, <2>3, <3>3, <3>4, ChargeKept DEF TypeOK
    <3>6. PurchaseMatchesPayment'
      BY <2>1, <3>3, PurchaseKept
    <3>7. QED
      BY <3>5, <3>6
  <2>4. QED
    BY <2>2, <2>3
<1>6. CASE RefundJobCredit(c)
  <2>1. tx[c] # NoTx /\ ref \in Jobs /\ u = JobOwner[ref] /\ payment' = payment
    BY <1>6, RunningTypes DEF Reserved, RefundJobCredit, Running, JobOps
  <2>2. CASE jobCredit[ref] # "reserved"
    <3>1. RowsGain(u, "nothing", ref) /\ jobCredit' = jobCredit
      BY <1>6, <2>1, <2>2, CommitGains DEF Reserved, RefundJobCredit
    <3>2. QED
      BY <1>2, <2>1, <3>1
  <2>3. CASE jobCredit[ref] = "reserved"
    <3>1. PICK a \in Ensured(c) :
             Commit(c, Post(a, "job_refund", ref, JobCreditCost, tx[c].start))
      BY <1>6, <2>3 DEF Reserved, RefundJobCredit
    <3>2. a.balance \in Nat
      BY <2>1, CommitGains
    <3>3. a.balance + JobCreditCost \in Nat /\ JobCreditCost \in Int
      BY <3>2, AmountsAssumption
    <3>4. RowsGain(u, "job_refund", ref)
      BY <2>1, <3>1, <3>3, CommitGains DEF RowKinds
    <3>5. jobCredit' = [jobCredit EXCEPT ![ref] = "refunded"]
      BY <1>6, <2>3 DEF Reserved, RefundJobCredit
    <3> HIDE DEF u, ref
    <3>6. ChargeMatchesJob'
      BY <2>1, <2>3, <3>4, <3>5, ChargeKept DEF TypeOK
    <3>7. PurchaseMatchesPayment'
      BY <2>1, <3>4, PurchaseKept
    <3>8. QED
      BY <3>6, <3>7
  <2>4. QED
    BY <2>2, <2>3
<1>7. CASE CreateTopupPayment(c)
  <2>1. tx[c] # NoTx /\ ref \in Invoices /\ payment[ref] = "none"
    BY <1>7, RunningTypes DEF CreateTopupPayment, Running, InvoiceOps, TxInv
  <2>2. payment' = [payment EXCEPT ![ref] = "pending"] /\ jobCredit' = jobCredit
    BY <1>7 DEF CreateTopupPayment
  <2>3. RowsGain(u, "nothing", ref)
    BY <1>7, <2>1, CommitGains DEF CreateTopupPayment
  <2>4. \A p \in Invoices : payment'[p] = "paid" <=> payment[p] = "paid"
    BY <2>1, <2>2 DEF TypeOK
  <2>5. QED
    BY <1>2, <2>2, <2>3, <2>4
<1>8. CASE MarkPaymentPaid(c)
  <2>1. tx[c] # NoTx /\ ref \in Invoices /\ u = InvoiceOwner[ref] /\ jobCredit' = jobCredit
    BY <1>8, RunningTypes DEF MarkPaymentPaid, Running, InvoiceOps
  <2>2. CASE payment[ref] = "paid"
    <3>1. RowsGain(u, "nothing", ref) /\ payment' = payment
      BY <1>8, <2>1, <2>2, CommitGains DEF MarkPaymentPaid
    <3>2. QED
      BY <1>2, <2>1, <3>1
  <2>3. CASE payment[ref] # "paid"
    <3>1. PICK a \in Ensured(c) :
             Commit(c, Post(a, "purchase_grant", ref, CreditsGranted[ref], tx[c].start))
      BY <1>8, <2>3 DEF MarkPaymentPaid
    <3>2. a.balance \in Nat
      BY <2>1, CommitGains
    <3>3. a.balance + CreditsGranted[ref] \in Nat /\ CreditsGranted[ref] \in Int
      BY <2>1, <3>2, AmountsAssumption
    <3>4. RowsGain(u, "purchase_grant", ref)
      BY <2>1, <3>1, <3>3, CommitGains DEF RowKinds
    <3>5. payment' = [payment EXCEPT ![ref] = "paid"]
      BY <1>8, <2>3 DEF MarkPaymentPaid
    <3> HIDE DEF u, ref
    <3>6. ChargeMatchesJob'
      BY <2>1, <3>4, ChargeKept
    <3>7. PurchaseMatchesPayment'
      BY <2>1, <2>3, <3>4, <3>5, PurchaseKept DEF TypeOK
    <3>8. QED
      BY <3>6, <3>7
  <2>4. QED
    BY <2>2, <2>3
<1>9. CASE Rollback(c)
  BY <1>1, <1>9 DEF Rollback
<1>10. QED
  BY <1>1, <1>3, <1>4, <1>5, <1>6, <1>7, <1>8, <1>9
     DEF Step, Begin, BeginGetBalance, BeginCreateJob, BeginFinalize, BeginRefund,
         BeginCreateTopup, BeginMarkPaid

(* The invariant is inductive.                                             *)
THEOREM LedgerInvariant == Spec => []LedgerInv
<1>1. Init => LedgerInv
  <2> SUFFICES ASSUME Init
               PROVE  LedgerInv
    OBVIOUS
  <2>1. TypeOK /\ TxInv
    BY DEF Init, TypeOK, Account, TxInv
  <2>2. \A u \in Users : \A k, r : ~ HasRow(account[u].ledger, k, r)
    BY DEF Init, HasRow
  <2>3. ChargeMatchesJob /\ PurchaseMatchesPayment
    BY <2>2, OwnersAssumption DEF Init, ChargeMatchesJob, PurchaseMatchesPayment
  <2>4. QED
    BY <2>1, <2>3 DEF LedgerInv
<1>2. LedgerInv /\ [Next]_vars => LedgerInv'
  <2> SUFFICES ASSUME LedgerInv, [Next]_vars
               PROVE  LedgerInv'
    OBVIOUS
  <2>1. CASE Tick
    BY <2>1 DEF Tick, LedgerInv, TypeOK, TxInv, ChargeMatchesJob, PurchaseMatchesPayment
  <2>2. ASSUME NEW c \in Conns, Step(c)
        PROVE  LedgerInv'
    BY <2>2, StepType, StepTx, StepRows DEF LedgerInv
  <2>3. CASE UNCHANGED vars
    BY <2>3 DEF vars, LedgerInv, TypeOK, TxInv, ChargeMatchesJob, PurchaseMatchesPayment
  <2>4. QED
    BY <2>1, <2>2, <2>3 DEF Next
<1>3. QED
  BY <1>1, <1>2, PTL DEF Spec

(* A job is charged once and settled at most once, whatever races.         *)
THEOREM ChargesMatchJobs == Spec => []ChargeMatchesJob
  BY LedgerInvariant, PTL DEF LedgerInv

(* Callbacks for one invoice converge to one grant.                        *)
THEOREM PurchasesMatchPayments == Spec => []PurchaseMatchesPayment
  BY LedgerInvariant, PTL DEF LedgerInv

-----------------------------------------------------------------------------
(* The audit chain                                                         *)

AllSound == \A u \in Users : Sound(account[u])

(* Committing an auditable account keeps every account auditable.          *)
LEMMA CommitAudited ==
    ASSUME TypeOK, AllSound, NEW c \in Conns, tx[c] # NoTx,
           NEW b, Sound(b), Commit(c, b)
    PROVE  AllSound'
<1>1. UserOf(tx[c]) \in Users /\ account' = [account EXCEPT ![UserOf(tx[c])] = b]
  BY RunningTypes DEF Commit
<1>2. \A v \in Users : account'[v] = b \/ account'[v] = account[v]
  BY <1>1 DEF TypeOK
<1>3. \A v \in Users : Sound(account'[v])
  BY <1>2 DEF AllSound
<1>4. QED
  BY <1>3 DEF AllSound, Sound, Audited, Opening, Unrecorded

(* Whatever row the body posts is new, so it extends the chain.            *)
LEMMA EventAudited ==
    ASSUME LedgerInv, AllSound,
           NEW c \in Conns, tx[c] # NoTx, NEW a \in Ensured(c)
    PROVE  /\ Sound(a)
           /\ \A kind \in EventKinds, delta \in Int :
                 /\ a.balance + delta \in Nat
                 /\ ~ HasRow(account[UserOf(tx[c])].ledger, kind, tx[c].ref)
                 => Sound(Post(a, kind, tx[c].ref, delta, tx[c].start))
<1>1. TypeOK /\ Sound(account[UserOf(tx[c])])
  BY RunningTypes DEF LedgerInv, AllSound
<1>2. Audited(a) /\ a.trialUsed /\ a \in Account
  BY <1>1, RunningTypes, EnsureAudited, EnsureType DEF Ensured
<1>3. ASSUME NEW kind \in EventKinds, NEW delta \in Int, a.balance + delta \in Nat,
             ~ HasRow(account[UserOf(tx[c])].ledger, kind, tx[c].ref)
      PROVE  Sound(Post(a, kind, tx[c].ref, delta, tx[c].start))
  <2>1. kind \in RowKinds /\ kind \notin {"starter_grant", "expiration"}
    BY DEF EventKinds
  <2>2. /\ tx[c].ref \in Users \cup Jobs \cup Invoices
        /\ tx[c].start \in Nat
        /\ UserOf(tx[c]) \in Users
    BY <1>1, RunningTypes
  <2>3. ~ HasRow(a.ledger, kind, tx[c].ref)
    BY <1>1, <1>3, <2>1, <2>2, EnsureRows DEF Ensured
  <2>4. QED
    BY <1>2, <1>3, <2>1, <2>2, <2>3, PostAudited, PostType DEF Sound
<1>4. QED
  BY <1>2, <1>3 DEF Sound

(* Every step of a transaction keeps every account auditable.              *)
LEMMA StepAudited ==
    ASSUME LedgerInv, AllSound, NEW c \in Conns, Step(c)
    PROVE  AllSound'
<1> USE DEF LedgerInv
<1> DEFINE rows == account[UserOf(tx[c])].ledger
<1>1. CASE UNCHANGED account
  BY <1>1 DEF AllSound, Sound, Audited, Opening, Unrecorded
<1>2. ASSUME tx[c] # NoTx, NEW a \in Ensured(c), Commit(c, a)
      PROVE  AllSound'
  BY <1>2, EventAudited, CommitAudited
<1>3. ASSUME tx[c] # NoTx, NEW a \in Ensured(c),
             NEW kind \in EventKinds, NEW delta \in Int, a.balance + delta \in Nat,
             ~ HasRow(rows, kind, tx[c].ref),
             Commit(c, Post(a, kind, tx[c].ref, delta, tx[c].start))
      PROVE  AllSound'
  BY <1>3, EventAudited, CommitAudited
<1>4. CASE ReserveJobCredit(c)
  <2> DEFINE j == tx[c].ref
  <2>1. tx[c] # NoTx /\ j \in Jobs /\ rows = account[JobOwner[j]].ledger /\ jobCredit[j] = "none"
    BY <1>4, RunningTypes DEF CanPay, ReserveJobCredit, Running, JobOps, TxInv
  <2>2. PICK a \in Ensured(c) :
           /\ a.balance >= JobCreditCost
           /\ Commit(c, Post(a, "job_reserve", j, -JobCreditCost, tx[c].start))
    BY <1>4 DEF CanPay, ReserveJobCredit
  <2>3. a.balance \in Nat
    BY <2>1, CommitGains
  <2>4. a.balance + (-JobCreditCost) \in Nat /\ -JobCreditCost \in Int
    BY <2>2, <2>3, AmountsAssumption
  <2>5. ~ HasRow(rows, "job_reserve", j)
    BY <2>1 DEF ChargeMatchesJob
  <2>6. QED
    BY <1>3, <2>1, <2>2, <2>4, <2>5 DEF EventKinds, RowKinds
<1>5. CASE FinalizeJobCredit(c)
  <2> DEFINE j == tx[c].ref
  <2>1. tx[c] # NoTx /\ j \in Jobs /\ rows = account[JobOwner[j]].ledger
    BY <1>5, RunningTypes DEF Reserved, FinalizeJobCredit, Running, JobOps
  <2>2. CASE jobCredit[j] # "reserved"
    BY <1>2, <1>5, <2>1, <2>2 DEF Reserved, FinalizeJobCredit
  <2>3. CASE jobCredit[j] = "reserved"
    <3>1. PICK a \in Ensured(c) : Commit(c, Post(a, "job_finalize", j, 0, tx[c].start))
      BY <1>5, <2>3 DEF Reserved, FinalizeJobCredit
    <3>2. a.balance + 0 \in Nat
      BY <2>1, CommitGains
    <3>3. ~ HasRow(rows, "job_finalize", j)
      BY <2>1, <2>3 DEF ChargeMatchesJob
    <3>4. QED
      BY <1>3, <2>1, <3>1, <3>2, <3>3 DEF EventKinds, RowKinds
  <2>4. QED
    BY <2>2, <2>3
<1>6. CASE RefundJobCredit(c)
  <2> DEFINE j == tx[c].ref
  <2>1. tx[c] # NoTx /\ j \in Jobs /\ rows = account[JobOwner[j]].ledger
    BY <1>6, RunningTypes DEF Reserved, RefundJobCredit, Running, JobOps
  <2>2. CASE jobCredit[j] # "reserved"
    BY <1>2, <1>6, <2>1, <2>2 DEF Reserved, RefundJobCredit
  <2>3. CASE jobCredit[j] = "reserved"
    <3>1. PICK a \in Ensured(c) :
             Commit(c, Post(a, "job_refund", j, JobCreditCost, tx[c].start))
      BY <1>6, <2>3 DEF Reserved, RefundJobCredit
    <3>2. a.balance \in Nat
      BY <2>1, CommitGains
    <3>3. a.balance + JobCreditCost \in Nat /\ JobCreditCost \in Int
      BY <3>2, AmountsAssumption
    <3>4. ~ HasRow(rows, "job_refund", j)
      BY <2>1, <2>3 DEF ChargeMatchesJob
    <3>5. QED
      BY <1>3, <2>1, <3>1, <3>3, <3>4 DEF EventKinds, RowKinds
  <2>4. QED
    BY <2>2, <2>3
<1>7. CASE MarkPaymentPaid(c)
  <2> DEFINE p == tx[c].ref
  <2>1. tx[c] # NoTx /\ p \in Invoices /\ rows = account[InvoiceOwner[p]].ledger
    BY <1>7, RunningTypes DEF MarkPaymentPaid, Running, InvoiceOps
  <2>2. CASE payment[p] = "paid"
    BY <1>2, <1>7, <2>1, <2>2 DEF MarkPaymentPaid
  <2>3. CASE payment[p] # "paid"
    <3>1. PICK a \in Ensured(c) :
             Commit(c, Post(a, "purchase_grant", p, CreditsGranted[p], tx[c].start))
      BY <1>7, <2>3 DEF MarkPaymentPaid
    <3>2. a.balance \in Nat
      BY <2>1, CommitGains
    <3>3. a.balance + CreditsGranted[p] \in Nat /\ CreditsGranted[p] \in Int
      BY <2>1, <3>2, AmountsAssumption
    <3>4. ~ HasRow(rows, "purchase_grant", p)
      BY <2>1, <2>3 DEF PurchaseMatchesPayment
    <3>5. QED
      BY <1>3, <2>1, <3>1, <3>3, <3>4 DEF EventKinds, RowKinds
  <2>4. QED
    BY <2>2, <2>3
<1>8. CASE GetBalance(c) \/ CreateTopupPayment(c)
  BY <1>2, <1>8 DEF GetBalance, CreateTopupPayment, Running
<1>9. QED
  BY <1>1, <1>4, <1>5, <1>6, <1>7, <1>8
     DEF Step, Rollback, Begin, BeginGetBalance, BeginCreateJob, BeginFinalize, BeginRefund,
         BeginCreateTopup, BeginMarkPaid

(* Every balance is the last row of an unbroken chain, which starts at     *)
(* nothing or, where the grant's row was refused, at the grant.            *)
THEOREM LedgerIsAuditable == Spec => []AuditChain
<1>1. Init => AllSound
  BY DEF Init, AllSound, Sound, Audited, Opening, Unrecorded
<1>2. LedgerInv /\ AllSound /\ [Next]_vars => AllSound'
  <2> SUFFICES ASSUME LedgerInv, AllSound, [Next]_vars
               PROVE  AllSound'
    OBVIOUS
  <2>1. CASE UNCHANGED account
    BY <2>1 DEF AllSound, Sound, Audited, Opening, Unrecorded
  <2>2. ASSUME NEW c \in Conns, Step(c)
        PROVE  AllSound'
    BY <2>2, StepAudited
  <2>3. QED
    BY <2>1, <2>2 DEF Next, Tick, vars
<1>3. AllSound => AuditChain
  BY DEF AllSound, Sound, AuditChain
<1>4. QED
  BY <1>1, <1>2, <1>3, LedgerInvariant, PTL DEF Spec

-----------------------------------------------------------------------------
(* Sums over finite sets.  The library's induction theorems take an        *)
(* operator as a parameter; here what fails is refuted where it is         *)
(* smallest, which needs none.                                             *)

(* A non-empty set of finite subsets has one with no other inside it: what *)
(* fails for some finite set fails for a smallest one.                     *)
LEMMA SmallestSubset ==
    ASSUME NEW S, NEW T, T \subseteq SUBSET S, T # {}, \A s \in T : IsFiniteSet(s)
    PROVE  \E s \in T : \A r \in T : r \subseteq s => r = s
<1>1. IsWellFoundedOn(StrictSubsetOrdering(S), FiniteSubsetsOf(S))
  BY FS_StrictSubsetOrderingWellFounded
<1>2. T \subseteq FiniteSubsetsOf(S)
  BY DEF FiniteSubsetsOf
<1>3. \E s \in T : \A r \in T : ~ (<<r, s>> \in StrictSubsetOrdering(S))
  BY <1>1, <1>2, WFMin
<1>4. QED
  BY <1>3 DEF StrictSubsetOrdering

(* The same for the subsets of a finite set.                               *)
LEMMA SmallestOf ==
    ASSUME NEW S, IsFiniteSet(S), NEW T, T \subseteq SUBSET S, T # {}
    PROVE  \E s \in T : \A r \in T : r \subseteq s => r = s
<1>1. \A s \in T : IsFiniteSet(s)
  BY FS_Subset
<1>2. QED
  BY <1>1, SmallestSubset

(* The sum of f over S, as BalanceExplained has it for the paid invoices.  *)
Total(f, S) == MapThenSumSet(LAMBDA x : f[x], S)

(* The element the fold takes first, and the fold as a recursive function. *)
Picked(s) == CHOOSE x \in s : TRUE

SumsTo(f, S, g) ==
    g = [s \in SUBSET S |-> IF s = {} THEN 0
                            ELSE f[Picked(s)] + g[s \ {Picked(s)}]]

(* The library's fold is the CHOOSE of such a function.                    *)
LEMMA TotalUnfolds ==
    ASSUME NEW f, NEW S
    PROVE  Total(f, S) = (CHOOSE g : SumsTo(f, S, g))[S]
  BY DEF Total, MapThenSumSet, MapThenFoldSet, SumsTo, Picked

(* Taking it out leaves a smaller set.                                     *)
LEMMA PickedIn ==
    ASSUME NEW s, s # {}
    PROVE  /\ Picked(s) \in s
           /\ s \ {Picked(s)} \subseteq s
           /\ s \ {Picked(s)} # s
  BY DEF Picked

(* SumsTo at one set.                                                      *)
LEMMA SumsAt ==
    ASSUME NEW f, NEW S, NEW g, SumsTo(f, S, g), NEW s \in SUBSET S
    PROVE  g[s] = IF s = {} THEN 0 ELSE f[Picked(s)] + g[s \ {Picked(s)}]
<1> DEFINE e == [r \in SUBSET S |-> IF r = {} THEN 0
                            ELSE f[Picked(r)] + g[r \ {Picked(r)}]]
<1>1. g = e
  BY DEF SumsTo
<1>2. e[s] = IF s = {} THEN 0 ELSE f[Picked(s)] + g[s \ {Picked(s)}]
  OBVIOUS
<1>3. QED
  BY <1>1, <1>2

(* Where two such functions are defined they agree ...                     *)
LEMMA SumsAgree ==
    ASSUME NEW f, NEW S, NEW T, NEW g, NEW h, SumsTo(f, S, g), SumsTo(f, T, h),
           NEW s \in SUBSET S, s \in SUBSET T, IsFiniteSet(s)
    PROVE  g[s] = h[s]
<1> DEFINE Bad == {r \in SUBSET s : g[r] # h[r]}
<1> SUFFICES ASSUME Bad # {}
             PROVE  FALSE
  OBVIOUS
<1>1. PICK r \in Bad : \A q \in Bad : q \subseteq r => q = r
  <2>1. Bad \subseteq SUBSET s
    OBVIOUS
  <2> HIDE DEF Bad
  <2>2. QED
    BY <2>1, SmallestOf
<1>2. r \in SUBSET S /\ r \in SUBSET T /\ r \in SUBSET s
  OBVIOUS
<1>3. r # {}
  BY <1>1, <1>2, SumsAt
<1>4. g[r \ {Picked(r)}] = h[r \ {Picked(r)}]
  BY <1>1, <1>2, <1>3, PickedIn
<1>5. g[r] = h[r]
  <2>1. g[r] = f[Picked(r)] + g[r \ {Picked(r)}]
    BY <1>2, <1>3, SumsAt
  <2>2. h[r] = f[Picked(r)] + h[r \ {Picked(r)}]
    BY <1>2, <1>3, SumsAt
  <2>3. QED
    BY <1>4, <2>1, <2>2
<1>6. QED
  BY <1>1, <1>5

(* ... and for a finite set there is one: a smallest set without one would *)
(* get one from the functions of its subsets.                              *)
LEMMA SumsExist ==
    ASSUME NEW f, NEW S, IsFiniteSet(S)
    PROVE  \E g : SumsTo(f, S, g)
<1> DEFINE Bad == {s \in SUBSET S : ~ \E g : SumsTo(f, s, g)}
<1> SUFFICES ASSUME Bad # {}
             PROVE  FALSE
  OBVIOUS
<1>1. PICK T \in Bad : \A s \in Bad : s \subseteq T => s = T
  <2>1. Bad \subseteq SUBSET S
    OBVIOUS
  <2> HIDE DEF Bad
  <2>2. QED
    BY <2>1, SmallestOf
<1>2. ASSUME NEW s \in SUBSET T, s # T
      PROVE  SumsTo(f, s, CHOOSE g : SumsTo(f, s, g))
  BY <1>1, <1>2
<1> DEFINE G(s) == CHOOSE g : SumsTo(f, s, g)
           h == [s \in SUBSET T |->
                   IF s = {} THEN 0
                   ELSE f[Picked(s)] + G(s \ {Picked(s)})[s \ {Picked(s)}]]
<1>3. ASSUME NEW s \in SUBSET T, s # T
      PROVE  h[s] = G(s)[s]
  <2>1. SumsTo(f, s, G(s))
    BY <1>2, <1>3
  <2>2. G(s)[s] = IF s = {} THEN 0 ELSE f[Picked(s)] + G(s)[s \ {Picked(s)}]
    <3> HIDE DEF G
    <3>1. s \in SUBSET s
      OBVIOUS
    <3>2. QED
      BY <2>1, <3>1, SumsAt
  <2>3. CASE s = {}
    BY <2>2, <2>3
  <2>4. CASE s # {}
    <3> DEFINE r == s \ {Picked(s)}
    <3>1. r \in SUBSET s /\ r \in SUBSET r /\ r \in SUBSET T /\ r # T
      BY <2>4, PickedIn
    <3>2. IsFiniteSet(r)
      BY <3>1, FS_Subset
    <3>3. SumsTo(f, r, G(r))
      BY <1>2, <3>1
    <3>4. G(s)[r] = G(r)[r]
      <4> HIDE DEF G, r
      <4>1. QED
        BY <2>1, <3>1, <3>2, <3>3, SumsAgree
    <3>5. QED
      BY <2>2, <2>4, <3>4
  <2>5. QED
    BY <2>3, <2>4
<1>4. ASSUME NEW s \in SUBSET T
      PROVE  h[s] = IF s = {} THEN 0 ELSE f[Picked(s)] + h[s \ {Picked(s)}]
  <2>1. CASE s = {}
    BY <2>1
  <2>2. CASE s # {}
    <3>1. s \ {Picked(s)} \in SUBSET T /\ s \ {Picked(s)} # T
      BY <2>2, PickedIn
    <3>2. h[s \ {Picked(s)}] = G(s \ {Picked(s)})[s \ {Picked(s)}]
      BY <1>3, <3>1
    <3>3. h[s] = f[Picked(s)] + G(s \ {Picked(s)})[s \ {Picked(s)}]
      BY <2>2
    <3> HIDE DEF h, G
    <3>4. QED
      BY <2>2, <3>2, <3>3
  <2>3. QED
    BY <2>1, <2>2
<1>5. h = [s \in SUBSET T |-> h[s]]
  OBVIOUS
<1>6. SumsTo(f, T, h)
  <2> HIDE DEF h
  <2>1. QED
    BY <1>4, <1>5 DEF SumsTo
<1>7. QED
  BY <1>1, <1>6

(* So the total obeys the equation of the fold, ...                        *)
LEMMA TotalStep ==
    ASSUME NEW f, NEW S, IsFiniteSet(S)
    PROVE  Total(f, S) = IF S = {} THEN 0
                         ELSE f[Picked(S)] + Total(f, S \ {Picked(S)})
<1> DEFINE G(s) == CHOOSE g : SumsTo(f, s, g)
           r == S \ {Picked(S)}
<1>1. Total(f, S) = G(S)[S] /\ Total(f, r) = G(r)[r]
  BY TotalUnfolds
<1>2. IsFiniteSet(r) /\ r \in SUBSET S /\ r \in SUBSET r /\ S \in SUBSET S
  BY FS_Subset
<1>3. SumsTo(f, S, G(S)) /\ SumsTo(f, r, G(r))
  BY <1>2, SumsExist
<1> HIDE DEF G
<1>4. G(S)[S] = IF S = {} THEN 0 ELSE f[Picked(S)] + G(S)[r]
  BY <1>2, <1>3, SumsAt
<1>5. G(S)[r] = G(r)[r]
  <2> HIDE DEF r
  <2> QED BY <1>2, <1>3, SumsAgree
<1>6. QED
  BY <1>1, <1>4, <1>5

(* ... is a natural number, ...                                            *)
LEMMA TotalType ==
    ASSUME NEW S, IsFiniteSet(S), NEW f, \A x \in S : f[x] \in Nat
    PROVE  Total(f, S) \in Nat
<1> DEFINE Bad == {s \in SUBSET S : Total(f, s) \notin Nat}
<1> SUFFICES ASSUME Bad # {}
             PROVE  FALSE
  OBVIOUS
<1>1. PICK s \in Bad : \A r \in Bad : r \subseteq s => r = s
  <2>1. Bad \subseteq SUBSET S
    OBVIOUS
  <2> HIDE DEF Bad
  <2>2. QED
    BY <2>1, SmallestOf
<1>2. IsFiniteSet(s)
  BY FS_Subset
<1>3. s # {}
  <2>1. Total(f, {}) = 0 /\ 0 \in Nat
    BY FS_EmptySet, TotalStep
  <2>2. Total(f, s) \notin Nat
    BY <1>1
  <2>3. QED
    BY <2>1, <2>2
<1>4. Total(f, s \ {Picked(s)}) \in Nat /\ f[Picked(s)] \in Nat
  BY <1>1, <1>3, PickedIn
<1>5. QED
  BY <1>2, <1>3, <1>4, TotalStep

(* ... and any element may be taken out first.                             *)
LEMMA TotalOfOneMore ==
    ASSUME NEW S, IsFiniteSet(S), NEW f, \A x \in S : f[x] \in Nat, NEW x \in S
    PROVE  Total(f, S) = f[x] + Total(f, S \ {x})
<1> DEFINE Bad == {s \in SUBSET S : \E y \in s : Total(f, s) # f[y] + Total(f, s \ {y})}
<1> SUFFICES ASSUME Bad # {}
             PROVE  FALSE
  OBVIOUS
<1>1. PICK s \in Bad : \A r \in Bad : r \subseteq s => r = s
  <2>1. Bad \subseteq SUBSET S
    OBVIOUS
  <2> HIDE DEF Bad
  <2>2. QED
    BY <2>1, SmallestOf
<1>2. PICK y \in s : Total(f, s) # f[y] + Total(f, s \ {y})
  BY <1>1
<1> DEFINE c == Picked(s)
           r == s \ {c}
<1>3. c \in s /\ r \in SUBSET S /\ r \notin Bad
  BY <1>1, <1>2, PickedIn
<1>4. \A q \in SUBSET S : IsFiniteSet(q) /\ Total(f, q) \in Nat
  BY FS_Subset, TotalType
<1>5. Total(f, s) = f[c] + Total(f, r)
  BY <1>2, <1>4, TotalStep
<1>6. c # y
  BY <1>2, <1>5
<1>7. Total(f, r) = f[y] + Total(f, r \ {y})
  BY <1>3, <1>6
<1>8. Total(f, s \ {y}) = f[c] + Total(f, (s \ {y}) \ {c})
  <2>1. s \ {y} \in SUBSET S /\ s \ {y} \notin Bad /\ c \in s \ {y}
    BY <1>1, <1>2, <1>3, <1>6
  <2>2. QED
    BY <2>1
<1>9. r \ {y} = (s \ {y}) \ {c}
  OBVIOUS
<1>10. f[c] \in Nat /\ f[y] \in Nat /\ Total(f, r \ {y}) \in Nat
  BY <1>3, <1>4
<1> HIDE DEF c, r
<1>11. QED
  <2>1. \A k, m, n \in Nat : k + (m + n) = m + (k + n)
    OBVIOUS
  <2>2. /\ f[c] + (f[y] + Total(f, r \ {y})) = f[y] + (f[c] + Total(f, r \ {y}))
        /\ Total(f, s \ {y}) = f[c] + Total(f, r \ {y})
    BY <1>8, <1>9, <1>10, <2>1
  <2>3. QED
    BY <1>2, <1>5, <1>7, <2>2
-----------------------------------------------------------------------------
(* What remains of the starter grant                                       *)

(* The greatest and the least of two integers.                             *)
LEMMA OfTwo ==
    ASSUME NEW a \in Int, NEW b \in Int
    PROVE  /\ Max({a, b}) = IF a >= b THEN a ELSE b
           /\ Min({a, b}) = IF a >= b THEN b ELSE a
<1>1. \E x \in {a, b} : \A y \in {a, b} : x >= y
  OBVIOUS
<1>2. \E x \in {a, b} : \A y \in {a, b} : x =< y
  OBVIOUS
<1>3. Max({a, b}) \in {a, b} /\ Max({a, b}) >= a /\ Max({a, b}) >= b
  BY <1>1 DEF Max
<1>4. Min({a, b}) \in {a, b} /\ Min({a, b}) =< a /\ Min({a, b}) =< b
  BY <1>2 DEF Min
<1>5. QED
  BY <1>3, <1>4

(* What is left of the grant stays within it, row by row.                  *)
LEMMA SpendGrantType ==
    ASSUME NEW remaining \in 0 .. StarterGrantCredits, NEW row \in Row
    PROVE  SpendGrant(remaining, row) \in 0 .. StarterGrantCredits
<1>1. /\ StarterGrantCredits \in Nat
      /\ remaining \in Int /\ 0 <= remaining /\ remaining <= StarterGrantCredits
      /\ row.delta \in Int
  BY AmountsAssumption DEF Row
<1> DEFINE n == remaining + row.delta
<1>2. n \in Int
  BY <1>1
<1>3. /\ Max({0, n}) = IF 0 >= n THEN 0 ELSE n
      /\ Min({StarterGrantCredits, n})
           = IF StarterGrantCredits >= n THEN n ELSE StarterGrantCredits
  <2> HIDE DEF n
  <2>1. QED
    BY <1>1, <1>2, OfTwo
<1>4. CASE row.delta < 0
  <2>1. SpendGrant(remaining, row) = Max({0, n})
    BY <1>4 DEF SpendGrant
  <2>2. n <= StarterGrantCredits
    BY <1>1, <1>4
  <2> HIDE DEF n
  <2>3. QED
    BY <1>1, <1>2, <1>3, <2>1, <2>2
<1>5. CASE ~ (row.delta < 0)
  <2>1. SpendGrant(remaining, row)
          = IF row.kind = "job_refund" THEN Min({StarterGrantCredits, n}) ELSE remaining
    BY <1>5 DEF SpendGrant
  <2>2. 0 <= n
    BY <1>1, <1>5
  <2> HIDE DEF n
  <2>3. QED
    BY <1>1, <1>2, <1>3, <2>1, <2>2
<1>6. QED
  BY <1>4, <1>5

(* The order of the listing is a strict order of the rows.                 *)
LEMMA BeforeIsAnOrder ==
    ASSUME NEW q \in Row, NEW r \in Row, NEW s \in Row
    PROVE  /\ ~ Before(r, r)
           /\ Before(q, r) /\ Before(r, s) => Before(q, s)
<1>1. \A k \in RowKinds : KeyRank[k] \in Nat
  BY DEF RowKinds, KeyRank
<1>2. /\ q.at \in Nat /\ r.at \in Nat /\ s.at \in Nat
      /\ KeyRank[q.kind] \in Nat /\ KeyRank[r.kind] \in Nat /\ KeyRank[s.kind] \in Nat
  BY <1>1 DEF Row
<1>3. QED
  BY <1>2 DEF Before

(* So some row of the ledger is the last of any that there are.            *)
LEMMA LastListedIn ==
    ASSUME NEW L \in Seq(Row), NEW S, S \subseteq DOMAIN L, S # {}
    PROVE  LastListed(L, S) \in S
<1> DEFINE HasLast(s) == \E i \in s : \A k \in s : ~ Before(L[i], L[k])
           Bad == {s \in SUBSET S : s # {} /\ ~ HasLast(s)}
<1>1. IsFiniteSet(S) /\ \A i \in S : L[i] \in Row
  <2>1. DOMAIN L = 1 .. Len(L) /\ Len(L) \in Nat /\ \A i \in DOMAIN L : L[i] \in Row
    OBVIOUS
  <2>2. IsFiniteSet(1 .. Len(L))
    BY <2>1, FS_Interval
  <2>3. QED
    BY <2>1, <2>2, FS_Subset
<1>2. ASSUME Bad # {}
      PROVE  FALSE
  <2>1. PICK s \in Bad : \A r \in Bad : r \subseteq s => r = s
    <3>1. Bad \subseteq SUBSET S
      OBVIOUS
    <3> HIDE DEF Bad
    <3>2. QED
      BY <1>1, <1>2, <3>1, SmallestOf
  <2>2. PICK x \in s : TRUE
    OBVIOUS
  <2>3. \A i, j, k \in s : /\ ~ Before(L[i], L[i])
                           /\ Before(L[i], L[j]) /\ Before(L[j], L[k]) => Before(L[i], L[k])
    BY <1>1, BeforeIsAnOrder
  <2>4. CASE s \ {x} = {}
    <3>1. \A k \in s : k = x
      BY <2>4
    <3>2. HasLast(s)
      BY <2>3, <3>1
    <3>3. QED
      BY <3>2
  <2>5. CASE s \ {x} # {}
    <3>1. PICK m \in s \ {x} : \A k \in s \ {x} : ~ Before(L[m], L[k])
      <4>1. s \ {x} \notin Bad /\ s \ {x} \in SUBSET S
        BY <2>1
      <4>2. HasLast(s \ {x})
        BY <2>5, <4>1
      <4>3. QED
        BY <4>2
    <3>2. CASE Before(L[m], L[x])
      <4>1. \A k \in s : ~ Before(L[x], L[k])
        BY <2>3, <3>1, <3>2
      <4>2. QED
        BY <4>1
    <3>3. CASE ~ Before(L[m], L[x])
      <4>1. \A k \in s : ~ Before(L[m], L[k])
        BY <3>1, <3>3
      <4>2. QED
        BY <4>1
    <3>4. QED
      BY <3>2, <3>3
  <2>6. QED
    BY <2>4, <2>5
<1>3. HasLast(S)
  BY <1>2
<1>4. QED
  BY <1>3 DEF LastListed

(* The loop over some of the rows of a ledger, as a recursive function.    *)
SpendsTo(L, S, g) ==
    g = [s \in SUBSET S |->
           IF s = {} THEN StarterGrantCredits
           ELSE SpendGrant(g[s \ {LastListed(L, s)}], L[LastListed(L, s)])]

(* What remains is its value at all the rows listed after the grant.       *)
LEMMA RemainingUnfolds ==
    ASSUME NEW L, NEW S, S = ListedAfterGrant(L)
    PROVE  RemainingStarterCredits(L) = (CHOOSE g : SpendsTo(L, S, g))[S]
  BY DEF RemainingStarterCredits, MapThenFoldSet, SpendsTo

(* SpendsTo at one set of rows.                                            *)
LEMMA SpendsAt ==
    ASSUME NEW L, NEW S, NEW g, SpendsTo(L, S, g), NEW s \in SUBSET S
    PROVE  /\ s = {} => g[s] = StarterGrantCredits
           /\ s # {} => g[s] = SpendGrant(g[s \ {LastListed(L, s)}], L[LastListed(L, s)])
<1> DEFINE e == [r \in SUBSET S |->
                   IF r = {} THEN StarterGrantCredits
                   ELSE SpendGrant(g[r \ {LastListed(L, r)}], L[LastListed(L, r)])]
<1>1. g = e
  BY DEF SpendsTo
<1>2. e[s] = IF s = {} THEN StarterGrantCredits
             ELSE SpendGrant(g[s \ {LastListed(L, s)}], L[LastListed(L, s)])
  OBVIOUS
<1>3. QED
  BY <1>1, <1>2

(* Where two such functions are defined they agree.                        *)
LEMMA SpendsAgree ==
    ASSUME NEW L \in Seq(Row), NEW S, S \subseteq DOMAIN L, NEW T, NEW g, NEW h,
           SpendsTo(L, S, g), SpendsTo(L, T, h),
           NEW s \in SUBSET S, s \in SUBSET T, IsFiniteSet(s)
    PROVE  g[s] = h[s]
<1> DEFINE Bad == {r \in SUBSET s : g[r] # h[r]}
<1> SUFFICES ASSUME Bad # {}
             PROVE  FALSE
  OBVIOUS
<1>1. PICK r \in Bad : \A q \in Bad : q \subseteq r => q = r
  <2>1. Bad \subseteq SUBSET s
    OBVIOUS
  <2> HIDE DEF Bad
  <2>2. QED
    BY <2>1, SmallestOf
<1>2. r \in SUBSET S /\ r \in SUBSET T /\ r \in SUBSET s
  OBVIOUS
<1>3. r # {}
  BY <1>1, <1>2, SpendsAt
<1> DEFINE x == LastListed(L, r)
<1>4. x \in r
  BY <1>2, <1>3, LastListedIn
<1>5. g[r \ {x}] = h[r \ {x}]
  BY <1>1, <1>2, <1>4
<1>6. g[r] = SpendGrant(g[r \ {x}], L[x]) /\ h[r] = SpendGrant(h[r \ {x}], L[x])
  BY <1>2, <1>3, SpendsAt
<1>7. g[r] = h[r]
  BY <1>5, <1>6
<1>8. QED
  BY <1>1, <1>7

(* The loop is well defined over any of the rows.                          *)
LEMMA SpendsExist ==
    ASSUME NEW L \in Seq(Row), NEW S, S \subseteq DOMAIN L
    PROVE  \E g : SpendsTo(L, S, g)
<1> DEFINE Bad == {s \in SUBSET S : ~ \E g : SpendsTo(L, s, g)}
<1> SUFFICES ASSUME Bad # {}
             PROVE  FALSE
  OBVIOUS
<1>0. IsFiniteSet(S)
  <2>1. DOMAIN L = 1 .. Len(L) /\ Len(L) \in Nat
    OBVIOUS
  <2>2. IsFiniteSet(1 .. Len(L))
    BY <2>1, FS_Interval
  <2>3. QED
    BY <2>1, <2>2, FS_Subset
<1>1. PICK T \in Bad : \A s \in Bad : s \subseteq T => s = T
  <2>1. Bad \subseteq SUBSET S
    OBVIOUS
  <2> HIDE DEF Bad
  <2>2. QED
    BY <1>0, <2>1, SmallestOf
<1> DEFINE G(s) == CHOOSE g : SpendsTo(L, s, g)
           Rest(s) == s \ {LastListed(L, s)}
           h == [s \in SUBSET T |->
                   IF s = {} THEN StarterGrantCredits
                   ELSE SpendGrant(G(Rest(s))[Rest(s)], L[LastListed(L, s)])]
<1>2. ASSUME NEW s \in SUBSET T, s # T
      PROVE  SpendsTo(L, s, G(s))
  BY <1>1, <1>2
<1>3. ASSUME NEW s \in SUBSET T, s # {}
      PROVE  Rest(s) \in SUBSET s /\ Rest(s) \in SUBSET T /\ Rest(s) # T /\ IsFiniteSet(Rest(s))
  <2>1. LastListed(L, s) \in s
    BY <1>3, LastListedIn
  <2>2. Rest(s) \in SUBSET S
    OBVIOUS
  <2>3. QED
    BY <1>0, <2>1, <2>2, FS_Subset
<1>4. ASSUME NEW s \in SUBSET T, s # T
      PROVE  h[s] = G(s)[s]
  <2>1. SpendsTo(L, s, G(s))
    BY <1>2, <1>4
  <2>2. /\ s = {} => G(s)[s] = StarterGrantCredits
        /\ s # {} => G(s)[s] = SpendGrant(G(s)[Rest(s)], L[LastListed(L, s)])
    <3> HIDE DEF G
    <3>1. s \in SUBSET s
      OBVIOUS
    <3>2. QED
      BY <2>1, <3>1, SpendsAt
  <2>3. CASE s = {}
    BY <2>2, <2>3
  <2>4. CASE s # {}
    <3>1. /\ Rest(s) \in SUBSET s /\ Rest(s) \in SUBSET T /\ Rest(s) # T
          /\ IsFiniteSet(Rest(s))
      BY <1>3, <2>4
    <3>2. SpendsTo(L, Rest(s), G(Rest(s)))
      BY <1>2, <3>1
    <3>3. G(s)[Rest(s)] = G(Rest(s))[Rest(s)]
      <4>1. s \subseteq DOMAIN L
        OBVIOUS
      <4>2. PICK q, g, k : q = Rest(s) /\ g = G(s) /\ k = G(Rest(s))
        OBVIOUS
      <4>3. /\ SpendsTo(L, s, g) /\ SpendsTo(L, q, k)
            /\ q \in SUBSET s /\ q \in SUBSET q /\ IsFiniteSet(q)
        BY <2>1, <3>1, <3>2, <4>2
      <4>4. g[q] = k[q]
        BY <4>1, <4>3, SpendsAgree
      <4>5. QED
        BY <4>2, <4>4
    <3>4. QED
      BY <2>2, <2>4, <3>3
  <2>5. QED
    BY <2>3, <2>4
<1>5. ASSUME NEW s \in SUBSET T
      PROVE  h[s] = IF s = {} THEN StarterGrantCredits
                    ELSE SpendGrant(h[Rest(s)], L[LastListed(L, s)])
  <2>1. CASE s = {}
    BY <2>1
  <2>2. CASE s # {}
    <3>1. Rest(s) \in SUBSET T /\ Rest(s) # T
      BY <1>3, <2>2
    <3>2. h[Rest(s)] = G(Rest(s))[Rest(s)]
      BY <1>4, <3>1
    <3>3. h[s] = SpendGrant(G(Rest(s))[Rest(s)], L[LastListed(L, s)])
      BY <2>2
    <3> HIDE DEF h, G
    <3>4. QED
      BY <2>2, <3>2, <3>3
  <2>3. QED
    BY <2>1, <2>2
<1>6. h = [s \in SUBSET T |-> h[s]]
  OBVIOUS
<1>7. SpendsTo(L, T, h)
  <2> HIDE DEF h
  <2>1. QED
    BY <1>5, <1>6 DEF SpendsTo
<1>8. QED
  BY <1>1, <1>7

(* What remains of the grant is a part of it, whatever the ledger holds.   *)
LEMMA RemainingType ==
    ASSUME NEW L \in Seq(Row)
    PROVE  RemainingStarterCredits(L) \in 0 .. StarterGrantCredits
<1>1. PICK S : S = ListedAfterGrant(L) /\ S \subseteq DOMAIN L
  BY DEF ListedAfterGrant
<1>2. IsFiniteSet(S) /\ \A i \in S : L[i] \in Row
  <2>1. DOMAIN L = 1 .. Len(L) /\ Len(L) \in Nat /\ \A i \in DOMAIN L : L[i] \in Row
    OBVIOUS
  <2>2. IsFiniteSet(1 .. Len(L))
    BY <2>1, FS_Interval
  <2>3. QED
    BY <1>1, <2>1, <2>2, FS_Subset
<1>3. PICK g : SpendsTo(L, S, g) /\ RemainingStarterCredits(L) = g[S]
  <2>1. RemainingStarterCredits(L) = (CHOOSE g : SpendsTo(L, S, g))[S]
    BY <1>1, RemainingUnfolds
  <2>2. SpendsTo(L, S, CHOOSE g : SpendsTo(L, S, g))
    BY <1>1, SpendsExist
  <2>3. QED
    BY <2>1, <2>2
<1> DEFINE Bad == {s \in SUBSET S : g[s] \notin 0 .. StarterGrantCredits}
<1>4. ASSUME Bad # {}
      PROVE  FALSE
  <2>1. PICK s \in Bad : \A r \in Bad : r \subseteq s => r = s
    <3>1. Bad \subseteq SUBSET S
      OBVIOUS
    <3> HIDE DEF Bad
    <3>2. QED
      BY <1>2, <1>4, <3>1, SmallestOf
  <2> DEFINE x == LastListed(L, s)
  <2>2. s # {}
    <3>1. g[{}] = StarterGrantCredits
      BY <1>3, SpendsAt
    <3>2. StarterGrantCredits \in 0 .. StarterGrantCredits
      BY AmountsAssumption
    <3>3. g[s] \notin 0 .. StarterGrantCredits
      BY <2>1
    <3>4. QED
      BY <3>1, <3>2, <3>3
  <2>3. x \in s /\ L[x] \in Row
    BY <1>1, <1>2, <2>2, LastListedIn
  <2>4. g[s \ {x}] \in 0 .. StarterGrantCredits
    BY <2>1, <2>3
  <2>5. g[s] = SpendGrant(g[s \ {x}], L[x])
    <3>1. s \in SUBSET S
      OBVIOUS
    <3> HIDE DEF Bad
    <3>2. QED
      BY <1>3, <2>2, <3>1, SpendsAt
  <2>6. g[s] \in 0 .. StarterGrantCredits
    <3> HIDE DEF x
    <3>1. QED
      BY <2>3, <2>4, <2>5, SpendGrantType
  <2>7. QED
    BY <2>1, <2>6
<1>5. QED
  BY <1>3, <1>4

(* An expiry takes a part of the balance that is a part of the grant.      *)
LEMMA ExpiryTakesOfGrant ==
    ASSUME NEW u, NEW a \in Account, ExpiryDue(u, a)
    PROVE  /\ CreditsToExpire(a) \in 1 .. StarterGrantCredits
           /\ CreditsToExpire(a) \in 1 .. a.balance
<1>1. PICK n, r : n = CreditsToExpire(a) /\ r = RemainingStarterCredits(a.ledger)
  OBVIOUS
<1>2. n \in 1 .. a.balance /\ a.balance \in Int
  BY <1>1 DEF ExpiryDue, Account
<1>3. r \in 0 .. StarterGrantCredits /\ r \in Int
  <2>1. a.ledger \in Seq(Row)
    BY DEF Account
  <2>2. r \in 0 .. StarterGrantCredits
    BY <1>1, <2>1, RemainingType
  <2>3. QED
    BY <2>2
<1>4. n = IF a.balance >= r THEN r ELSE a.balance
  BY <1>1, <1>2, <1>3, OfTwo DEF CreditsToExpire
<1>5. n \in 1 .. StarterGrantCredits
  BY <1>2, <1>3, <1>4, AmountsAssumption
<1>6. QED
  BY <1>1, <1>2, <1>5

-----------------------------------------------------------------------------
(* The balance explained                                                   *)

(* What expired, as BalanceExplained reads it off the ledger.              *)
Expired(L) ==
    IF HasKind(L, "expiration") THEN RowOfKind(L, "expiration").delta ELSE 0

(* The balance that no grant and no expiry accounts for.                   *)
Earned(a) ==
    a.balance - (IF a.trialUsed THEN StarterGrantCredits ELSE 0) - Expired(a.ledger)

LoneExpiry(L) ==
    \A i, k \in DOMAIN L : L[i].kind = "expiration" /\ L[k].kind = "expiration" => i = k

(* The rows of the grant and of its expiry: they are the user's own, there *)
(* is one expiry at most, of a grant that was given, and it took a part of *)
(* that grant.                                                             *)
GrantRows(u, a) ==
    /\ LoneExpiry(a.ledger)
    /\ \A i \in DOMAIN a.ledger :
          /\ a.ledger[i].kind \in {"starter_grant", "expiration"} =>
                a.ledger[i].ref = u /\ a.trialUsed
          /\ a.ledger[i].kind = "expiration" =>
                a.ledger[i].delta \in -StarterGrantCredits .. -1

(* What the row of an expiry says is what expired.                         *)
LEMMA ExpiredIs ==
    ASSUME NEW L, LoneExpiry(L), NEW i \in DOMAIN L, L[i].kind = "expiration"
    PROVE  Expired(L) = L[i].delta
<1>1. RowOfKind(L, "expiration") = L[i]
  BY DEF RowOfKind, LoneExpiry
<1>2. QED
  BY <1>1 DEF Expired, HasKind

(* It changes by the first row of an expiry, and by no other row.          *)
LEMMA AppendExpired ==
    ASSUME NEW L \in Seq(Row), NEW row \in Row, LoneExpiry(L),
           row.kind = "expiration" => ~ HasKind(L, "expiration")
    PROVE  /\ LoneExpiry(Append(L, row))
           /\ Expired(Append(L, row))
                = IF row.kind = "expiration" THEN row.delta ELSE Expired(L)
<1> DEFINE M == Append(L, row)
<1>1. /\ DOMAIN L = 1 .. Len(L)
      /\ DOMAIN M = (1 .. Len(L)) \cup {Len(L) + 1}
      /\ \A i \in 1 .. Len(L) : M[i] = L[i]
      /\ M[Len(L) + 1] = row
  OBVIOUS
<1>2. Len(L) + 1 \in DOMAIN M /\ DOMAIN L \subseteq DOMAIN M
  BY <1>1
<1> HIDE DEF M
<1>3. LoneExpiry(M)
  BY <1>1 DEF LoneExpiry, HasKind
<1>4. CASE row.kind = "expiration"
  BY <1>1, <1>2, <1>3, <1>4, ExpiredIs DEF M
<1>5. CASE row.kind # "expiration" /\ HasKind(L, "expiration")
  <2>1. PICK i \in DOMAIN L : L[i].kind = "expiration"
    BY <1>5 DEF HasKind
  <2>2. i \in DOMAIN M /\ M[i] = L[i]
    BY <1>1, <1>2
  <2>3. Expired(M) = M[i].delta /\ Expired(L) = L[i].delta
    BY <1>3, <2>1, <2>2, ExpiredIs
  <2>4. QED
    BY <1>3, <1>5, <2>2, <2>3 DEF M
<1>6. CASE row.kind # "expiration" /\ ~ HasKind(L, "expiration")
  <2>1. ~ HasKind(M, "expiration")
    BY <1>1, <1>6 DEF HasKind
  <2>2. QED
    BY <1>3, <1>6, <2>1 DEF M, Expired
<1>7. QED
  BY <1>4, <1>5, <1>6

(* What expired is a part of the grant, if one was given.                  *)
LEMMA ExpiredType ==
    ASSUME NEW u, NEW a \in Account, GrantRows(u, a)
    PROVE  /\ Expired(a.ledger) \in Int
           /\ Expired(a.ledger) <= 0
           /\ -StarterGrantCredits <= Expired(a.ledger)
           /\ Expired(a.ledger) # 0 => a.trialUsed
<1> DEFINE L == a.ledger
<1>1. StarterGrantCredits \in Nat
  BY AmountsAssumption
<1>2. CASE HasKind(L, "expiration")
  <2>1. PICK i \in DOMAIN L : L[i].kind = "expiration"
    BY <1>2 DEF HasKind
  <2>2. /\ LoneExpiry(L) /\ a.trialUsed
        /\ L[i].delta \in -StarterGrantCredits .. -1
    BY <2>1 DEF GrantRows
  <2>3. Expired(L) = L[i].delta
    BY <2>1, <2>2, ExpiredIs
  <2>4. QED
    BY <1>1, <2>2, <2>3
<1>3. CASE ~ HasKind(L, "expiration")
  BY <1>1, <1>3 DEF Expired
<1>4. QED
  BY <1>2, <1>3

(* An event of a body leaves the rows of the grant alone and is earned.    *)
LEMMA PostEarned ==
    ASSUME NEW u, NEW a \in Account, GrantRows(u, a), NEW kind \in EventKinds,
           NEW ref \in Users \cup Jobs \cup Invoices,
           NEW delta \in Int, NEW at \in Nat, a.balance + delta \in Nat
    PROVE  /\ GrantRows(u, Post(a, kind, ref, delta, at))
           /\ Earned(Post(a, kind, ref, delta, at)) = Earned(a) + delta
<1> DEFINE row == [kind |-> kind, ref |-> ref, delta |-> delta,
                   after |-> a.balance + delta, at |-> at]
           b == Post(a, kind, ref, delta, at)
           L == a.ledger
<1>1. /\ L \in Seq(Row) /\ row \in Row
      /\ kind \in RowKinds /\ row.kind = kind
      /\ kind \notin {"starter_grant", "expiration"}
  BY DEF Account, Row, EventKinds
<1>2. b \in Account /\ b.balance = a.balance + delta /\ b.trialUsed = a.trialUsed
  BY <1>1, PostType
<1>3. b.ledger = L \/ b.ledger = Append(L, row)
  BY DEF Post, Account
<1>4. GrantRows(u, b) /\ Expired(b.ledger) = Expired(L)
  <2>1. CASE b.ledger = L
    BY <1>2, <2>1 DEF GrantRows
  <2>2. CASE b.ledger = Append(L, row)
    <3>1. LoneExpiry(b.ledger) /\ Expired(b.ledger) = Expired(L)
      BY <1>1, <2>2, AppendExpired DEF GrantRows
    <3>2. /\ DOMAIN b.ledger = (DOMAIN L) \cup {Len(L) + 1}
          /\ \A i \in DOMAIN L : b.ledger[i] = L[i]
          /\ b.ledger[Len(L) + 1] = row
      BY <1>1, <2>2
    <3> HIDE DEF b, row
    <3>3. QED
      BY <1>1, <1>2, <3>1, <3>2 DEF GrantRows
  <2>3. QED
    BY <1>3, <2>1, <2>2
<1>5. Earned(b) = Earned(a) + delta
  <2>1. Expired(L) \in Int /\ a.balance \in Int /\ StarterGrantCredits \in Int
    BY ExpiredType, AmountsAssumption DEF Account
  <2> HIDE DEF b, L
  <2>2. QED
    BY <1>2, <1>4, <2>1 DEF Earned, L
<1>6. QED
  BY <1>4, <1>5

(* The grant and its expiry change the balance by what their rows and the  *)
(* flag say, and by nothing else.                                          *)
LEMMA EnsureEarned ==
    ASSUME TypeOK, NEW u \in Users, NEW at \in Nat, GrantRows(u, account[u]),
           NEW a \in EnsureOutcomes(u, at)
    PROVE  GrantRows(u, a) /\ Earned(a) = Earned(account[u])
<1>1. PICK a0 : a0 = account[u]
  OBVIOUS
<1> DEFINE g == Post(a0, "starter_grant", u, StarterGrantCredits, at)
           g1 == [g EXCEPT !.trialUsed = TRUE]
           n == CreditsToExpire(a0)
           L == a0.ledger
<1>2. /\ a0 \in Account /\ a0.balance \in Nat /\ L \in Seq(Row)
      /\ GrantRows(u, a0) /\ LoneExpiry(L)
      /\ StarterGrantCredits \in Nat /\ StarterGrantCredits \in Int
      /\ Expired(L) \in Int
  <2>1. a0 \in Account /\ GrantRows(u, a0)
    BY <1>1 DEF TypeOK
  <2>2. Expired(a0.ledger) \in Int
    BY <2>1, ExpiredType
  <2>3. QED
    BY <2>1, <2>2, AmountsAssumption DEF Account, GrantRows
<1>3. ASSUME ~ a0.trialUsed, NEW b \in {g1, [g1 EXCEPT !.ledger = L]}
      PROVE  GrantRows(u, b) /\ Earned(b) = Earned(a0)
  <2> DEFINE row == [kind |-> "starter_grant", ref |-> u, delta |-> StarterGrantCredits,
                     after |-> a0.balance + StarterGrantCredits, at |-> at]
  <2>1. g \in Account /\ g.balance = a0.balance + StarterGrantCredits
    BY <1>2, PostType DEF RowKinds
  <2>2. g.ledger = L \/ g.ledger = Append(L, row)
    BY <1>2 DEF Post, Account
  <2>3. /\ b.trialUsed /\ b.balance = a0.balance + StarterGrantCredits
        /\ b.ledger = L \/ b.ledger = Append(L, row)
    BY <1>3, <2>1, <2>2 DEF Account
  <2>4. row \in Row /\ row.kind = "starter_grant" /\ row.ref = u
    BY <1>2 DEF Row, RowKinds
  <2> HIDE DEF row, g, g1
  <2>5. GrantRows(u, b) /\ Expired(b.ledger) = Expired(L)
    <3>1. CASE b.ledger = L
      BY <1>2, <2>3, <3>1 DEF GrantRows
    <3>2. CASE b.ledger = Append(L, row)
      <4>1. LoneExpiry(b.ledger) /\ Expired(b.ledger) = Expired(L)
        BY <1>2, <2>4, <3>2, AppendExpired
      <4>2. /\ DOMAIN b.ledger = (DOMAIN L) \cup {Len(L) + 1}
            /\ \A i \in DOMAIN L : b.ledger[i] = L[i]
            /\ b.ledger[Len(L) + 1] = row
        BY <1>2, <3>2
      <4>3. QED
        BY <1>2, <2>3, <2>4, <4>1, <4>2 DEF GrantRows
    <3>3. QED
      BY <2>3, <3>1, <3>2
  <2>6. Expired(L) = Expired(a0.ledger)
    OBVIOUS
  <2> HIDE DEF L
  <2>7. QED
    BY <1>2, <1>3, <2>3, <2>5, <2>6 DEF Earned
<1>4. ASSUME ExpiryDue(u, a0)
      PROVE  /\ GrantRows(u, Post(a0, "expiration", u, -n, at))
             /\ Earned(Post(a0, "expiration", u, -n, at)) = Earned(a0)
  <2>1. n \in 1 .. StarterGrantCredits /\ n \in 1 .. a0.balance
    BY <1>2, <1>4, ExpiryTakesOfGrant
  <2>2. HasRow(L, "starter_grant", u) /\ ~ HasRow(L, "expiration", u)
    BY <1>4 DEF ExpiryDue
  <2>3. PICK m \in 1 .. StarterGrantCredits : m = n /\ m <= a0.balance
    BY <2>1
  <2> HIDE DEF n
  <2>4. -m \in Int /\ a0.balance + (-m) \in Nat /\ -m \in -StarterGrantCredits .. -1
    BY <1>2, <2>3
  <2> DEFINE row == [kind |-> "expiration", ref |-> u, delta |-> -m,
                     after |-> a0.balance + (-m), at |-> at]
             b == Post(a0, "expiration", u, -m, at)
  <2>5. /\ b \in Account /\ b.balance = a0.balance + (-m)
        /\ b.trialUsed = a0.trialUsed
    BY <1>2, <2>4, PostType DEF RowKinds
  <2>6. b.ledger = Append(L, row)
    BY <2>2 DEF Post
  <2>7. /\ row \in Row /\ row.kind = "expiration" /\ row.ref = u /\ row.delta = -m
        /\ a0.trialUsed /\ ~ HasKind(L, "expiration")
    <3>1. row \in Row
      BY <2>4, <2>5 DEF Row, RowKinds
    <3>2. a0.trialUsed /\ ~ HasKind(L, "expiration")
      BY <1>2, <2>2 DEF GrantRows, HasRow, HasKind
    <3>3. QED
      BY <3>1, <3>2
  <2>8. LoneExpiry(b.ledger) /\ Expired(b.ledger) = -m
    <3> HIDE DEF row, b
    <3>1. QED
      BY <1>2, <2>6, <2>7, AppendExpired
  <2>9. GrantRows(u, b)
    <3> HIDE DEF b, row
    <3>1. /\ DOMAIN b.ledger = (DOMAIN L) \cup {Len(L) + 1}
          /\ \A i \in DOMAIN L : b.ledger[i] = L[i]
          /\ b.ledger[Len(L) + 1] = row
      BY <1>2, <2>6, <2>7
    <3>2. QED
      BY <1>2, <2>4, <2>5, <2>7, <2>8, <3>1 DEF GrantRows
  <2>10. Expired(L) = 0
    BY <2>7 DEF Expired
  <2>11. Earned(b) = Earned(a0)
    <3>1. /\ b.balance = a0.balance - m
          /\ a0.balance \in Int /\ m \in Int
          /\ Expired(a0.ledger) = 0
      BY <1>2, <2>3, <2>5, <2>10
    <3> HIDE DEF b, L
    <3>2. QED
      BY <1>2, <2>5, <2>8, <3>1 DEF Earned
  <2>12. QED
    BY <2>3, <2>9, <2>11
<1>5. QED
  BY <1>1, <1>2, <1>3, <1>4 DEF EnsureOutcomes

ChargedTo(u, credit) ==
    {j \in Jobs : JobOwner[j] = u /\ credit[j] \in {"reserved", "finalized"}}

PaidBy(u, status) == {p \in Invoices : InvoiceOwner[p] = u /\ status[p] = "paid"}

(* A user's account, explained.  That only finitely many jobs are charged  *)
(* and invoices paid is part of it: Jobs and Invoices may be infinite.     *)
Explained(u, a, credit, status) ==
    /\ GrantRows(u, a)
    /\ IsFiniteSet(ChargedTo(u, credit))
    /\ IsFiniteSet(PaidBy(u, status))
    /\ Earned(a) = Total(CreditsGranted, PaidBy(u, status))
                     - JobCreditCost * Cardinality(ChargedTo(u, credit))

BalanceInv == \A u \in Users : Explained(u, account[u], jobCredit, payment)

(* One job more costs one job more.                                        *)
LEMMA CostOfOneMore ==
    ASSUME NEW S, IsFiniteSet(S), NEW j, j \notin S
    PROVE  /\ IsFiniteSet(S \cup {j})
           /\ JobCreditCost * Cardinality(S) \in Int
           /\ JobCreditCost * Cardinality(S \cup {j})
                = JobCreditCost * Cardinality(S) + JobCreditCost
<1>1. /\ IsFiniteSet(S \cup {j}) /\ Cardinality(S \cup {j}) = Cardinality(S) + 1
      /\ Cardinality(S) \in Nat
  BY FS_AddElement, FS_CardinalityType
<1>2. \A m, n \in Nat : m * n \in Int /\ m * (n + 1) = m * n + m
  OBVIOUS
<1>3. QED
  BY <1>1, <1>2, AmountsAssumption

(* One invoice more is worth what it grants.                               *)
LEMMA WorthOfOneMore ==
    ASSUME NEW S, IsFiniteSet(S), S \subseteq Invoices, NEW p \in Invoices, p \notin S
    PROVE  /\ IsFiniteSet(S \cup {p})
           /\ Total(CreditsGranted, S) \in Nat
           /\ Total(CreditsGranted, S \cup {p})
                = Total(CreditsGranted, S) + CreditsGranted[p]
<1>1. IsFiniteSet(S \cup {p})
  BY FS_AddElement
<1>2. \A x \in S \cup {p} : CreditsGranted[x] \in Nat
  BY AmountsAssumption
<1>3. Total(CreditsGranted, S \cup {p})
        = CreditsGranted[p] + Total(CreditsGranted, (S \cup {p}) \ {p})
  BY <1>1, <1>2, TotalOfOneMore
<1>4. (S \cup {p}) \ {p} = S
  OBVIOUS
<1>5. Total(CreditsGranted, S) \in Nat /\ CreditsGranted[p] \in Nat
  BY <1>2, TotalType
<1>6. Total(CreditsGranted, S \cup {p}) = CreditsGranted[p] + Total(CreditsGranted, S)
  BY <1>3, <1>4
<1>7. \A m, n \in Nat : m + n = n + m
  OBVIOUS
<1>8. QED
  BY <1>1, <1>5, <1>6, <1>7

(* Bringing the account up to date leaves it explained.                    *)
LEMMA EnsuredExplained ==
    ASSUME TypeOK, BalanceInv, NEW c \in Conns, tx[c] # NoTx, NEW a \in Ensured(c)
    PROVE  Explained(UserOf(tx[c]), a, jobCredit, payment)
<1>1. UserOf(tx[c]) \in Users /\ tx[c].start \in Nat
  BY RunningTypes
<1>2. Explained(UserOf(tx[c]), account[UserOf(tx[c])], jobCredit, payment)
  BY <1>1 DEF BalanceInv
<1>3. GrantRows(UserOf(tx[c]), a) /\ Earned(a) = Earned(account[UserOf(tx[c])])
  BY <1>1, <1>2, EnsureEarned DEF Ensured, Explained
<1>4. QED
  BY <1>2, <1>3 DEF Explained

(* A commit that leaves its user's account explained leaves all of them    *)
(* so, when it changes no status of another user's.                        *)
LEMMA CommitExplained ==
    ASSUME TypeOK, BalanceInv, NEW c \in Conns, tx[c] # NoTx,
           NEW u, u = UserOf(tx[c]), NEW b, Commit(c, b),
           \A j \in Jobs : JobOwner[j] # u => jobCredit'[j] = jobCredit[j],
           \A p \in Invoices : InvoiceOwner[p] # u => payment'[p] = payment[p],
           Explained(u, b, jobCredit', payment')
    PROVE  BalanceInv'
<1>1. u \in Users /\ account' = [account EXCEPT ![u] = b]
  BY RunningTypes DEF Commit
<1>2. ASSUME NEW v \in Users
      PROVE  Explained(v, account'[v], jobCredit', payment')
  <2>1. CASE v = u
    BY <1>1, <2>1 DEF TypeOK
  <2>2. CASE v # u
    <3>1. account'[v] = account[v]
      BY <1>1, <2>2 DEF TypeOK
    <3>2. ChargedTo(v, jobCredit') = ChargedTo(v, jobCredit)
      BY <2>2 DEF ChargedTo
    <3>3. PaidBy(v, payment') = PaidBy(v, payment)
      BY <2>2 DEF PaidBy
    <3>4. Explained(v, account[v], jobCredit, payment)
      BY DEF BalanceInv
    <3>5. QED
      BY <3>1, <3>2, <3>3, <3>4 DEF Explained
  <2>3. QED
    BY <2>1, <2>2
<1>3. QED
  BY <1>2 DEF BalanceInv

(* A transaction that changes neither a status nor the credits of a body.  *)
LEMMA IdleExplained ==
    ASSUME TypeOK, BalanceInv, NEW c \in Conns, tx[c] # NoTx, NEW a \in Ensured(c),
           Commit(c, a), jobCredit' = jobCredit,
           \A p \in Invoices : payment'[p] = "paid" <=> payment[p] = "paid"
    PROVE  BalanceInv'
<1>1. UserOf(tx[c]) \in Users /\ account' = [account EXCEPT ![UserOf(tx[c])] = a]
  BY RunningTypes DEF Commit
<1>2. ASSUME NEW v \in Users
      PROVE  Explained(v, account'[v], jobCredit', payment')
  <2>1. Explained(v, account'[v], jobCredit, payment)
    <3>1. CASE v = UserOf(tx[c])
      BY <1>1, <3>1, EnsuredExplained DEF TypeOK
    <3>2. CASE v # UserOf(tx[c])
      BY <1>1, <3>2 DEF TypeOK, BalanceInv
    <3>3. QED
      BY <3>1, <3>2
  <2>2. PaidBy(v, payment') = PaidBy(v, payment)
    BY DEF PaidBy
  <2>3. QED
    BY <2>1, <2>2 DEF Explained
<1>3. QED
  BY <1>2 DEF BalanceInv

(* Every step of a transaction leaves every balance explained.             *)
LEMMA StepExplained ==
    ASSUME LedgerInv, BalanceInv, NEW c \in Conns, Step(c)
    PROVE  BalanceInv'
<1> USE DEF LedgerInv
<1>1. PICK u, ref : u = UserOf(tx[c]) /\ ref = tx[c].ref
  OBVIOUS
<1>2. CASE UNCHANGED <<account, jobCredit, payment>>
  BY <1>2 DEF BalanceInv, Explained, ChargedTo, PaidBy
<1>3. ASSUME tx[c] # NoTx, NEW a \in Ensured(c), NEW kind \in EventKinds,
             NEW delta \in Int, a.balance + delta \in Nat
      PROVE  LET b == Post(a, kind, ref, delta, tx[c].start)
             IN  /\ GrantRows(u, b)
                 /\ Earned(b) = Earned(a) + delta
                 /\ Earned(a) \in Int
                 /\ Earned(a) = Total(CreditsGranted, PaidBy(u, payment))
                                  - JobCreditCost * Cardinality(ChargedTo(u, jobCredit))
  <2>1. /\ ref \in Users \cup Jobs \cup Invoices /\ tx[c].start \in Nat
        /\ a \in Account
    BY <1>1, <1>3, RunningTypes, CommitGains
  <2>2. Explained(u, a, jobCredit, payment)
    BY <1>1, <1>3, EnsuredExplained
  <2>3. GrantRows(u, a)
    BY <2>2 DEF Explained
  <2>4. Earned(a) \in Int
    <3>1. /\ Expired(a.ledger) \in Int /\ a.balance \in Int
          /\ StarterGrantCredits \in Int
      BY <2>1, <2>3, ExpiredType, AmountsAssumption DEF Account
    <3>2. QED
      BY <3>1 DEF Earned
  <2>5. QED
    BY <1>3, <2>1, <2>2, <2>3, <2>4, PostEarned DEF Explained
<1>4. ASSUME tx[c] # NoTx, u \in Users
      PROVE  /\ IsFiniteSet(PaidBy(u, payment)) /\ IsFiniteSet(ChargedTo(u, jobCredit))
             /\ PaidBy(u, payment) \subseteq Invoices
             /\ Total(CreditsGranted, PaidBy(u, payment)) \in Int
             /\ JobCreditCost * Cardinality(ChargedTo(u, jobCredit)) \in Int
  <2>1. IsFiniteSet(PaidBy(u, payment)) /\ IsFiniteSet(ChargedTo(u, jobCredit))
    BY <1>4 DEF BalanceInv, Explained
  <2>2. /\ PaidBy(u, payment) \subseteq Invoices
        /\ \A p \in Invoices : CreditsGranted[p] \in Nat
    BY AmountsAssumption DEF PaidBy
  <2>3. Total(CreditsGranted, PaidBy(u, payment)) \in Nat
    BY <2>1, <2>2, TotalType
  <2>4. Cardinality(ChargedTo(u, jobCredit)) \in Nat
    BY <2>1, FS_CardinalityType
  <2>5. \A m, n \in Nat : m * n \in Int
    OBVIOUS
  <2>6. QED
    BY <2>1, <2>2, <2>3, <2>4, <2>5, AmountsAssumption
<1>5. CASE GetBalance(c) \/ CreateTopupPayment(c)
  <2>1. /\ tx[c] # NoTx /\ jobCredit' = jobCredit
        /\ \A p \in Invoices : payment'[p] = "paid" <=> payment[p] = "paid"
    <3>1. CASE GetBalance(c)
      BY <3>1 DEF GetBalance, Running
    <3>2. CASE CreateTopupPayment(c)
      <4>1. tx[c] # NoTx /\ ref \in Invoices /\ payment[ref] = "none"
        BY <1>1, <3>2, RunningTypes DEF CreateTopupPayment, Running, InvoiceOps, TxInv
      <4>2. QED
        BY <1>1, <3>2, <4>1 DEF CreateTopupPayment, TypeOK
    <3>3. QED
      BY <1>5, <3>1, <3>2
  <2>2. \E a \in Ensured(c) : Commit(c, a)
    BY <1>5 DEF GetBalance, CreateTopupPayment
  <2>3. QED
    BY <2>1, <2>2, IdleExplained
<1>6. CASE ReserveJobCredit(c)
  <2>1. /\ tx[c] # NoTx /\ ref \in Jobs /\ u = JobOwner[ref] /\ u \in Users
        /\ jobCredit[ref] = "none"
    BY <1>1, <1>6, RunningTypes DEF ReserveJobCredit, Running, JobOps, TxInv
  <2>2. PICK a \in Ensured(c) :
           /\ a.balance >= JobCreditCost
           /\ Commit(c, Post(a, "job_reserve", ref, -JobCreditCost, tx[c].start))
    BY <1>1, <1>6 DEF CanPay, ReserveJobCredit
  <2>3. a.balance \in Nat
    BY <2>1, CommitGains
  <2>4. /\ a.balance + (-JobCreditCost) \in Nat /\ -JobCreditCost \in Int
        /\ JobCreditCost \in Int /\ "job_reserve" \in EventKinds
    BY <2>2, <2>3, AmountsAssumption DEF EventKinds, RowKinds
  <2>5. jobCredit' = [jobCredit EXCEPT ![ref] = "reserved"] /\ payment' = payment
    BY <1>1, <1>6 DEF ReserveJobCredit
  <2>6. /\ ChargedTo(u, jobCredit') = ChargedTo(u, jobCredit) \cup {ref}
        /\ ref \notin ChargedTo(u, jobCredit)
        /\ PaidBy(u, payment') = PaidBy(u, payment)
    BY <2>1, <2>5 DEF ChargedTo, PaidBy, TypeOK
  <2>7. PICK S : S = ChargedTo(u, jobCredit)
    OBVIOUS
  <2>8. /\ IsFiniteSet(S \cup {ref})
        /\ JobCreditCost * Cardinality(S \cup {ref})
             = JobCreditCost * Cardinality(S) + JobCreditCost
    BY <1>4, <2>1, <2>6, <2>7, CostOfOneMore
  <2>9. PICK b : b = Post(a, "job_reserve", ref, -JobCreditCost, tx[c].start)
    OBVIOUS
  <2>10. /\ GrantRows(u, b)
         /\ Earned(b) = Total(CreditsGranted, PaidBy(u, payment))
                          - (JobCreditCost * Cardinality(S) + JobCreditCost)
    <3>1. /\ GrantRows(u, b)
          /\ Earned(b) = Earned(a) + (-JobCreditCost)
          /\ Earned(a) \in Int
          /\ Earned(a) = Total(CreditsGranted, PaidBy(u, payment))
                           - JobCreditCost * Cardinality(S)
      BY <1>3, <2>1, <2>4, <2>7, <2>9
    <3>2. /\ Total(CreditsGranted, PaidBy(u, payment)) \in Int
          /\ JobCreditCost * Cardinality(S) \in Int
      BY <1>4, <2>1, <2>7
    <3>3. \A k, m, n \in Int : (k - m) + (-n) = k - (m + n)
      OBVIOUS
    <3>4. QED
      BY <2>4, <3>1, <3>2, <3>3
  <2>11. Explained(u, b, jobCredit', payment')
    BY <1>4, <2>1, <2>6, <2>7, <2>8, <2>10 DEF Explained
  <2>12. QED
    BY <1>1, <2>1, <2>2, <2>5, <2>9, <2>11, CommitExplained DEF TypeOK
<1>7. CASE FinalizeJobCredit(c)
  <2>1. /\ tx[c] # NoTx /\ ref \in Jobs /\ u = JobOwner[ref] /\ u \in Users
        /\ payment' = payment
    BY <1>1, <1>7, RunningTypes DEF FinalizeJobCredit, Running, JobOps
  <2>2. CASE jobCredit[ref] # "reserved"
    BY <1>1, <1>7, <2>1, <2>2, IdleExplained DEF Reserved, FinalizeJobCredit
  <2>3. CASE jobCredit[ref] = "reserved"
    <3>1. PICK a \in Ensured(c) : Commit(c, Post(a, "job_finalize", ref, 0, tx[c].start))
      BY <1>1, <1>7, <2>3 DEF Reserved, FinalizeJobCredit
    <3>2. a.balance + 0 \in Nat /\ "job_finalize" \in EventKinds
      BY <2>1, CommitGains DEF EventKinds, RowKinds
    <3>3. jobCredit' = [jobCredit EXCEPT ![ref] = "finalized"]
      BY <1>1, <1>7, <2>3 DEF Reserved, FinalizeJobCredit
    <3>4. /\ ChargedTo(u, jobCredit') = ChargedTo(u, jobCredit)
          /\ PaidBy(u, payment') = PaidBy(u, payment)
      BY <2>1, <2>3, <3>3 DEF ChargedTo, PaidBy, TypeOK
    <3>5. PICK b : b = Post(a, "job_finalize", ref, 0, tx[c].start)
      OBVIOUS
    <3>6. /\ GrantRows(u, b)
          /\ Earned(b) = Total(CreditsGranted, PaidBy(u, payment))
                           - JobCreditCost * Cardinality(ChargedTo(u, jobCredit))
      <4>1. /\ GrantRows(u, b)
            /\ Earned(b) = Earned(a) + 0
            /\ Earned(a) \in Int
            /\ Earned(a) = Total(CreditsGranted, PaidBy(u, payment))
                             - JobCreditCost * Cardinality(ChargedTo(u, jobCredit))
        BY <1>3, <2>1, <3>2, <3>5
      <4>2. \A k \in Int : k + 0 = k
        OBVIOUS
      <4>3. QED
        BY <4>1, <4>2
    <3>7. Explained(u, b, jobCredit', payment')
      BY <1>4, <2>1, <3>4, <3>6 DEF Explained
    <3>8. QED
      BY <1>1, <2>1, <3>1, <3>3, <3>5, <3>7, CommitExplained DEF TypeOK
  <2>4. QED
    BY <2>2, <2>3
<1>8. CASE RefundJobCredit(c)
  <2>1. /\ tx[c] # NoTx /\ ref \in Jobs /\ u = JobOwner[ref] /\ u \in Users
        /\ payment' = payment
    BY <1>1, <1>8, RunningTypes DEF RefundJobCredit, Running, JobOps
  <2>2. CASE jobCredit[ref] # "reserved"
    BY <1>1, <1>8, <2>1, <2>2, IdleExplained DEF Reserved, RefundJobCredit
  <2>3. CASE jobCredit[ref] = "reserved"
    <3>1. PICK a \in Ensured(c) :
             Commit(c, Post(a, "job_refund", ref, JobCreditCost, tx[c].start))
      BY <1>1, <1>8, <2>3 DEF Reserved, RefundJobCredit
    <3>2. /\ a.balance + JobCreditCost \in Nat /\ JobCreditCost \in Int
          /\ "job_refund" \in EventKinds
      BY <2>1, CommitGains, AmountsAssumption DEF EventKinds, RowKinds
    <3>3. jobCredit' = [jobCredit EXCEPT ![ref] = "refunded"]
      BY <1>1, <1>8, <2>3 DEF Reserved, RefundJobCredit
    <3>4. PICK S : S = ChargedTo(u, jobCredit')
      OBVIOUS
    <3>5. /\ ChargedTo(u, jobCredit) = S \cup {ref}
          /\ ref \notin S /\ S \subseteq ChargedTo(u, jobCredit)
          /\ PaidBy(u, payment') = PaidBy(u, payment)
      BY <2>1, <2>3, <3>3, <3>4 DEF ChargedTo, PaidBy, TypeOK
    <3>6. /\ IsFiniteSet(S)
          /\ JobCreditCost * Cardinality(S) \in Int
          /\ JobCreditCost * Cardinality(S \cup {ref})
               = JobCreditCost * Cardinality(S) + JobCreditCost
      <4>1. IsFiniteSet(S)
        BY <1>4, <2>1, <3>5, FS_Subset
      <4>2. QED
        BY <3>5, <4>1, CostOfOneMore
    <3>7. PICK b : b = Post(a, "job_refund", ref, JobCreditCost, tx[c].start)
      OBVIOUS
    <3>8. /\ GrantRows(u, b)
          /\ Earned(b) = Total(CreditsGranted, PaidBy(u, payment))
                           - JobCreditCost * Cardinality(S)
      <4>1. /\ GrantRows(u, b)
            /\ Earned(b) = Earned(a) + JobCreditCost
            /\ Earned(a) = Total(CreditsGranted, PaidBy(u, payment))
                             - (JobCreditCost * Cardinality(S) + JobCreditCost)
        BY <1>3, <2>1, <3>2, <3>5, <3>6, <3>7
      <4>2. Total(CreditsGranted, PaidBy(u, payment)) \in Int
        BY <1>4, <2>1
      <4>3. \A k, m, n \in Int : (k - (m + n)) + n = k - m
        OBVIOUS
      <4>4. QED
        BY <3>2, <3>6, <4>1, <4>2, <4>3
    <3>9. Explained(u, b, jobCredit', payment')
      BY <1>4, <2>1, <3>4, <3>5, <3>6, <3>8 DEF Explained
    <3>10. QED
      BY <1>1, <2>1, <3>1, <3>3, <3>7, <3>9, CommitExplained DEF TypeOK
  <2>4. QED
    BY <2>2, <2>3
<1>9. CASE MarkPaymentPaid(c)
  <2>1. /\ tx[c] # NoTx /\ ref \in Invoices /\ u = InvoiceOwner[ref] /\ u \in Users
        /\ jobCredit' = jobCredit
    BY <1>1, <1>9, RunningTypes DEF MarkPaymentPaid, Running, InvoiceOps
  <2>2. CASE payment[ref] = "paid"
    BY <1>1, <1>9, <2>1, <2>2, IdleExplained DEF MarkPaymentPaid
  <2>3. CASE payment[ref] # "paid"
    <3>1. PICK a \in Ensured(c) :
             Commit(c, Post(a, "purchase_grant", ref, CreditsGranted[ref], tx[c].start))
      BY <1>1, <1>9, <2>3 DEF MarkPaymentPaid
    <3>2. /\ a.balance + CreditsGranted[ref] \in Nat /\ CreditsGranted[ref] \in Int
          /\ "purchase_grant" \in EventKinds
      <4>1. a.balance \in Nat /\ CreditsGranted[ref] \in Nat
        BY <2>1, CommitGains, AmountsAssumption
      <4>2. QED
        BY <4>1 DEF EventKinds, RowKinds
    <3>3. payment' = [payment EXCEPT ![ref] = "paid"]
      BY <1>1, <1>9, <2>3 DEF MarkPaymentPaid
    <3>4. PICK S : S = PaidBy(u, payment)
      OBVIOUS
    <3>5. /\ PaidBy(u, payment') = S \cup {ref} /\ ref \notin S
          /\ ChargedTo(u, jobCredit') = ChargedTo(u, jobCredit)
      BY <2>1, <2>3, <3>3, <3>4 DEF ChargedTo, PaidBy, TypeOK
    <3>6. /\ IsFiniteSet(S \cup {ref})
          /\ Total(CreditsGranted, S \cup {ref})
               = Total(CreditsGranted, S) + CreditsGranted[ref]
      BY <1>4, <2>1, <3>4, <3>5, WorthOfOneMore
    <3>7. PICK b : b = Post(a, "purchase_grant", ref, CreditsGranted[ref], tx[c].start)
      OBVIOUS
    <3>8. /\ GrantRows(u, b)
          /\ Earned(b) = (Total(CreditsGranted, S) + CreditsGranted[ref])
                           - JobCreditCost * Cardinality(ChargedTo(u, jobCredit))
      <4>1. /\ GrantRows(u, b)
            /\ Earned(b) = Earned(a) + CreditsGranted[ref]
            /\ Earned(a) = Total(CreditsGranted, S)
                             - JobCreditCost * Cardinality(ChargedTo(u, jobCredit))
        BY <1>3, <2>1, <3>2, <3>4, <3>7
      <4>2. /\ Total(CreditsGranted, S) \in Int
            /\ JobCreditCost * Cardinality(ChargedTo(u, jobCredit)) \in Int
        BY <1>4, <2>1, <3>4
      <4>3. \A k, m, n \in Int : (k - m) + n = (k + n) - m
        OBVIOUS
      <4>4. QED
        BY <3>2, <4>1, <4>2, <4>3
    <3>9. Explained(u, b, jobCredit', payment')
      BY <1>4, <2>1, <3>5, <3>6, <3>8 DEF Explained
    <3>10. QED
      BY <1>1, <2>1, <3>1, <3>3, <3>7, <3>9, CommitExplained DEF TypeOK
  <2>4. QED
    BY <2>2, <2>3
<1>10. QED
  BY <1>2, <1>5, <1>6, <1>7, <1>8, <1>9
     DEF Step, Begin, BeginGetBalance, BeginCreateJob, BeginFinalize, BeginRefund,
         BeginCreateTopup, BeginMarkPaid, Rollback

(* The inductive invariant behind BalanceExplained, with LedgerInv.        *)
THEOREM BalanceInvariant == Spec => []BalanceInv
<1>1. Init => BalanceInv
  <2> SUFFICES ASSUME Init, NEW u \in Users
               PROVE  Explained(u, account[u], jobCredit, payment)
    BY DEF BalanceInv
  <2>1. account[u] = [balance |-> 0, trialUsed |-> FALSE, ledger |-> <<>>]
    BY DEF Init
  <2>2. ~ HasKind(account[u].ledger, "expiration") /\ GrantRows(u, account[u])
    BY <2>1 DEF HasKind, GrantRows, LoneExpiry
  <2>3. Earned(account[u]) = 0
    BY <2>1, <2>2 DEF Earned, Expired
  <2>4. ChargedTo(u, jobCredit) = {} /\ PaidBy(u, payment) = {}
    BY DEF Init, ChargedTo, PaidBy
  <2>5. Total(CreditsGranted, {}) = 0 /\ IsFiniteSet({}) /\ Cardinality({}) = 0
    BY FS_EmptySet, TotalStep
  <2>6. JobCreditCost * 0 = 0 /\ 0 - 0 = 0
    BY AmountsAssumption
  <2>7. QED
    BY <2>2, <2>3, <2>4, <2>5, <2>6 DEF Explained
<1>2. LedgerInv /\ BalanceInv /\ [Next]_vars => BalanceInv'
  <2> SUFFICES ASSUME LedgerInv, BalanceInv, [Next]_vars
               PROVE  BalanceInv'
    OBVIOUS
  <2>1. ASSUME NEW c \in Conns, Step(c)
        PROVE  BalanceInv'
    BY <2>1, StepExplained
  <2>2. CASE Tick \/ UNCHANGED vars
    BY <2>2 DEF Tick, vars, BalanceInv, Explained, ChargedTo, PaidBy
  <2>3. QED
    BY <2>1, <2>2 DEF Next
<1>3. QED
  BY <1>1, <1>2, LedgerInvariant, PTL DEF Spec

(* What the two invariants say of one account, in numbers.                 *)
LEMMA ExplainedInNumbers ==
    ASSUME LedgerInv, BalanceInv, NEW u \in Users
    PROVE  /\ account[u].balance
                = (IF account[u].trialUsed THEN StarterGrantCredits ELSE 0)
                    + Expired(account[u].ledger)
                    + Total(CreditsGranted, PaidBy(u, payment))
                    - JobCreditCost * Cardinality(ChargedTo(u, jobCredit))
           /\ account[u].balance
                >= Total(CreditsGranted, PaidBy(u, payment))
                     - JobCreditCost * Cardinality(ChargedTo(u, jobCredit))
<1>1. PICK a, g, e, t, k :
         /\ a = account[u]
         /\ g = (IF a.trialUsed THEN StarterGrantCredits ELSE 0)
         /\ e = Expired(a.ledger)
         /\ t = Total(CreditsGranted, PaidBy(u, payment))
         /\ k = JobCreditCost * Cardinality(ChargedTo(u, jobCredit))
  OBVIOUS
<1>2. a \in Account /\ Explained(u, a, jobCredit, payment) /\ GrantRows(u, a)
  BY <1>1 DEF LedgerInv, TypeOK, BalanceInv, Explained
<1>3. a.balance \in Int /\ g \in Int
  BY <1>1, <1>2, AmountsAssumption DEF Account
<1>4. e \in Int /\ g + e >= 0
  <2>1. /\ e \in Int /\ e <= 0 /\ -StarterGrantCredits <= e
        /\ e # 0 => a.trialUsed
    BY <1>1, <1>2, ExpiredType
  <2>2. QED
    BY <1>1, <2>1, AmountsAssumption
<1>5. t \in Int
  <2>1. /\ PaidBy(u, payment) \subseteq Invoices /\ IsFiniteSet(PaidBy(u, payment))
        /\ \A p \in Invoices : CreditsGranted[p] \in Nat
    BY <1>2, AmountsAssumption DEF Explained, PaidBy
  <2>2. QED
    BY <1>1, <2>1, TotalType
<1>6. k \in Int
  <2>1. Cardinality(ChargedTo(u, jobCredit)) \in Nat
    BY <1>2, FS_CardinalityType DEF Explained
  <2>2. \A m, n \in Nat : m * n \in Int
    OBVIOUS
  <2>3. QED
    BY <1>1, <2>1, <2>2, AmountsAssumption
<1>7. a.balance - g - e = t - k
  BY <1>1, <1>2 DEF Explained, Earned
<1>8. a.balance = g + e + t - k /\ a.balance >= t - k
  BY <1>3, <1>4, <1>5, <1>6, <1>7
<1>9. QED
  BY <1>1, <1>8

(* Every balance is the grant, what was paid for and what expired, less    *)
(* the jobs still charged, whatever transactions race.                     *)
THEOREM BalancesAreExplained == Spec => []BalanceExplained
<1>1. LedgerInv /\ BalanceInv => BalanceExplained
  BY ExplainedInNumbers
     DEF BalanceExplained, Total, Expired, PaidBy, ChargedTo
<1>2. QED
  BY <1>1, LedgerInvariant, BalanceInvariant, PTL

(* The expiry of the grant never takes a credit that was bought: a balance *)
(* is at least what was paid for less the jobs still charged.              *)
PurchasesOutliveTheGrant ==
    \A u \in Users :
        account[u].balance >=
            MapThenSumSet(LAMBDA p : CreditsGranted[p], PaidBy(u, payment))
              - JobCreditCost * Cardinality(ChargedTo(u, jobCredit))

THEOREM GrantExpiresAlone == Spec => []PurchasesOutliveTheGrant
<1>1. LedgerInv /\ BalanceInv => PurchasesOutliveTheGrant
  BY ExplainedInNumbers DEF PurchasesOutliveTheGrant, Total
<1>2. QED
  BY <1>1, LedgerInvariant, BalanceInvariant, PTL
=============================================================================
