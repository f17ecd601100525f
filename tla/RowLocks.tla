------------------------------ MODULE RowLocks ------------------------------
(***************************************************************************)
(* The statements inside the transactions that touch one user's credits,   *)
(* and the row locks PostgreSQL takes for them: src/credits_service.py,    *)
(* mark_payment_paid of src/payments_service.py, ensure_user of            *)
(* src/users_service.py and their callers.  CreditLedger takes the body of *)
(* a transaction as one step; here a statement is a step, other            *)
(* transactions get in between, and a statement waits for a lock.          *)
(*                                                                         *)
(* READ COMMITTED: a statement reads what is committed.  A lock is kept to *)
(* the end of the transaction.  What a transaction writes is seen when it  *)
(* commits.  PostgreSQL, asyncpg's pool and uuid4, which gives each new    *)
(* row an id of its own, are external.  The users row exists: its creation *)
(* is WebsiteLogin's subject; when the starter grant expires and how much  *)
(* of it is left is CreditLedger's.                                        *)
(***************************************************************************)
EXTENDS Integers, Sequences

CONSTANTS
    Connections,   (* of the pools of the service and of the bot           *)
    Jobs, Invoices,
    User, Account, (* the two other rows                                   *)
    NoRow,
    StarterGrant,  (* STARTER_GRANT_CREDITS                                *)
    Cost,          (* JOB_CREDIT_COST                                      *)
    Credits        (* credits_granted of each invoice                      *)

Ids  == Jobs \cup Invoices
Rows == Ids \cup {User, Account}

ASSUME RowsAssumption ==
    /\ Jobs \cap Invoices = {}
    /\ User # Account /\ {User, Account} \cap Ids = {}
    /\ NoRow \notin Rows

ASSUME AmountsAssumption ==
    /\ StarterGrant \in Nat \ {0}
    /\ Cost \in Nat \ {0}
    /\ Credits \in [Invoices -> Nat \ {0}]

VARIABLES
    account,  (* the committed user_credit_accounts row                    *)
    column,   (* the committed jobs.credit_status and payments.status      *)
    tx,       (* the transaction on each connection                        *)
    locks     (* the row locks it holds                                    *)

vars == <<account, column, tx, locks>>

(* granted: trial_used_at; expired: the ledger has the row that says so,   *)
(* which is read and inserted under the account's lock.                    *)
Unopened == [open |-> FALSE, balance |-> 0, granted |-> FALSE, expired |-> FALSE]

(* done: how many statements it has executed; seen and read: the account   *)
(* and the column as it read them last.                                    *)
Started(kind, id) == [kind |-> kind, id |-> id, done |-> 0,
                      seen |-> Unopened, read |-> "none"]
NoTx              == Started("none", NoRow)

Init ==
    /\ account = Unopened
    /\ column = [i \in Ids |-> "none"]
    /\ tx = [c \in Connections |-> NoTx]
    /\ locks = [c \in Connections |-> {}]

-----------------------------------------------------------------------------
(* Statements.                                                             *)

(* UPDATE takes no_key_update (no key column changes), FOR UPDATE and a    *)
(* new row take update, and a new row's foreign keys take key_share on the *)
(* rows they name.  insert is INSERT ... ON CONFLICT DO NOTHING, plain a   *)
(* SELECT, which takes no lock and waits for none.                         *)
Lock(row, mode) == [row |-> row, mode |-> mode]

Conflict(a, b) ==
    \/ "update" \in {a, b} /\ "plain" \notin {a, b}
    \/ a = "no_key_update" /\ b = "no_key_update"

(* INSERT ... ON CONFLICT waits for the transaction that inserts the row,  *)
(* and for nobody once there is one.                                       *)
Settled(lock) == lock.mode = "insert" /\ account.open

(* ensure_user, and the start of ensure_credit_account_state.  The forms   *)
(* that mutants use come first.                                            *)
SelectUserForUpdate == Lock(User, "update")
UpdateUsername      == Lock(User, "no_key_update")
InsertAccount       == Lock(Account, "insert")
SelectWithoutLock   == Lock(Account, "plain")
SelectAccount       == Lock(Account, "update")

(* Statements about the job or the payment, and those that name them or    *)
(* the user in a foreign key: a new job or payment, a row of credit_ledger *)
(* (whose own unique key is only inserted under the account's lock).       *)
InsertRow(id) == Lock(id, "update")
SelectRow(id) == Lock(id, "update")
UpdateRow(id) == Lock(id, "no_key_update")
NameRow(id)   == Lock(id, "key_share")
NameUser      == Lock(User, "key_share")

(* Each script is the longest way through its transaction: an early return *)
(* or a missing username takes fewer locks.                                *)
(* create_job and upload_job; the worker's two transactions, the second    *)
(* also _compensate_queue_publish_failure; the worker's "processing" and   *)
(* submit_feedback, which write other columns of the job; create_topup;    *)
(* the result callback; the cabinet and the bot's /start.                  *)
Script(kind, id) ==
    CASE kind = "create" ->
            <<UpdateUsername, InsertRow(id), NameUser, SelectRow(id), InsertAccount,
              SelectAccount, NameUser, NameRow(id), UpdateRow(id)>>
      [] kind = "complete" ->
            <<UpdateRow(id), SelectRow(id), InsertAccount, SelectAccount,
              NameUser, NameRow(id), UpdateRow(id)>>
      [] kind = "fail" ->
            <<SelectRow(id), InsertAccount, SelectAccount,
              NameUser, NameRow(id), UpdateRow(id)>>
      [] kind = "touch" ->
            <<UpdateRow(id)>>
      [] kind = "topup" ->
            <<UpdateUsername, InsertAccount, SelectAccount, NameUser,
              InsertRow(id), NameUser>>
      [] kind = "paid" ->
            <<InsertAccount, SelectRow(id), SelectAccount, InsertAccount,
              SelectAccount, SelectRow(id), SelectAccount,
              NameUser, NameRow(id), UpdateRow(id)>>
      [] kind = "look" ->
            <<UpdateUsername, InsertAccount, SelectAccount, NameUser>>
      [] OTHER -> <<>>

-----------------------------------------------------------------------------
(* What a transaction makes of what it read.                               *)

(* ensure_credit_account_state: the first use grants, and a grant that is  *)
(* due takes what is left of it, once.                                     *)
Ensured(a) ==
    IF ~a.granted
    THEN {[a EXCEPT !.open = TRUE, !.balance = @ + StarterGrant, !.granted = TRUE]}
    ELSE {a} \cup {[a EXCEPT !.balance = @ - n, !.expired = TRUE] :
                      n \in {m \in 1 .. a.balance : m <= StarterGrant /\ ~a.expired}}

Change(column_, credits) == [column |-> column_, credits |-> credits]

Effect(kind, id, col) ==
    CASE kind = "create"                        -> Change("reserved", -Cost)
      [] kind = "complete" /\ col = "reserved"  -> Change("finalized", 0)
      [] kind = "fail"     /\ col = "reserved"  -> Change("refunded", Cost)
      [] kind = "topup"                         -> Change("pending", 0)
      [] kind = "paid"     /\ col = "pending"   -> Change("paid", Credits[id])
      [] OTHER                                  -> Change(col, 0)

(* The first is a mutant.                                                  *)
AlwaysAffords(kind, a) == TRUE
Affords(kind, a)       == kind = "create" => a.balance >= Cost

(* The rest of the body as CreditLedger has it, when the account has been  *)
(* ensured: account and column after it.                                   *)
Body(kind, id, a, col) ==
    LET e == Effect(kind, id, col)
    IN  [account |-> [a EXCEPT !.balance = @ + e.credits], column |-> e.column]

-----------------------------------------------------------------------------
(* Transactions.                                                           *)

(* On a connection that is free.                                           *)
Begin(c, kind, id) ==
    /\ tx[c] = NoTx
    /\ tx' = [tx EXCEPT ![c] = Started(kind, id)]
    /\ UNCHANGED <<account, column, locks>>

Fresh(id) ==
    /\ column[id] = "none"
    /\ \A c \in Connections : tx[c].id # id

Start(c) ==
    \/ \E j \in Jobs : Fresh(j) /\ Begin(c, "create", j)
    \/ \E j \in Jobs, kind \in {"complete", "fail", "touch"} :
          column[j] # "none" /\ Begin(c, kind, j)
    \/ \E i \in Invoices : Fresh(i) /\ Begin(c, "topup", i)
    \/ \E i \in Invoices : column[i] # "none" /\ Begin(c, "paid", i)
    \/ Begin(c, "look", NoRow)

Finished(t) == t.done = Len(Script(t.kind, t.id))
Coming(t)   == Script(t.kind, t.id)[t.done + 1]

Waits(c, d) ==
    /\ c # d
    /\ ~Finished(tx[c]) /\ ~Settled(Coming(tx[c]))
    /\ \E l \in locks[d] :
          l.row = Coming(tx[c]).row /\ Conflict(Coming(tx[c]).mode, l.mode)

(* What a statement leaves locked.                                         *)
Taken(lock) ==
    CASE lock.mode = "plain"  -> {}
      [] lock.mode = "insert" -> IF account.open THEN {} ELSE {Lock(lock.row, "update")}
      [] OTHER                -> {lock}

After(t) == [kind |-> t.kind, id |-> t.id, done |-> t.done + 1,
             seen |-> IF Coming(t) = SelectAccount THEN account ELSE t.seen,
             read |-> IF Coming(t) = SelectRow(t.id) THEN column[t.id] ELSE t.read]

(* The next statement, which gets its lock.                                *)
Proceed(c) ==
    /\ ~Finished(tx[c])
    /\ \A d \in Connections : ~Waits(c, d)
    /\ locks' = [locks EXCEPT ![c] = @ \cup Taken(Coming(tx[c]))]
    /\ tx' = [tx EXCEPT ![c] = After(tx[c])]
    /\ UNCHANGED <<account, column>>

Ends(c) ==
    /\ tx' = [tx EXCEPT ![c] = NoTx]
    /\ locks' = [locks EXCEPT ![c] = {}]

Commit(c) ==
    /\ tx[c].kind # "none" /\ Finished(tx[c])
    /\ \E a \in Ensured(tx[c].seen) :
          /\ Affords(tx[c].kind, a)
          /\ LET b == Body(tx[c].kind, tx[c].id, a, tx[c].read)
             IN  /\ account' = IF tx[c].kind = "touch" THEN account ELSE b.account
                 /\ column' = IF tx[c].kind \in {"touch", "look"} THEN column
                              ELSE [column EXCEPT ![tx[c].id] = b.column]
    /\ Ends(c)

(* InsufficientCreditsError, any other exception, a lost connection.       *)
Rollback(c) ==
    /\ tx[c].kind # "none"
    /\ Ends(c)
    /\ UNCHANGED <<account, column>>

Next == \E c \in Connections : Start(c) \/ Proceed(c) \/ Commit(c) \/ Rollback(c)

Spec == Init /\ [][Next]_vars

-----------------------------------------------------------------------------
(* Properties.                                                             *)

Kinds   == {"create", "complete", "fail", "touch", "topup", "paid", "look"}
Columns == {"none", "reserved", "finalized", "refunded", "pending", "paid"}
Modes   == {"key_share", "no_key_update", "update", "insert", "plain"}
Locks   == [row : Rows, mode : Modes]
Accounts == [open : BOOLEAN, balance : Nat, granted : BOOLEAN, expired : BOOLEAN]

(* Types; in particular two reservations at once never make the balance    *)
(* negative.                                                               *)
TypeOK ==
    /\ account \in Accounts
    /\ column \in [Ids -> Columns]
    /\ tx \in [Connections ->
                  [kind : Kinds \cup {"none"}, id : Ids \cup {NoRow},
                   done : Nat, seen : Accounts, read : Columns]]
    /\ locks \in [Connections -> SUBSET Locks]

(* No transactions wait for each other in a circle, directly or through    *)
(* others: PostgreSQL never has to abort one of them as a deadlock, which  *)
(* for a callback or the worker's except block would be a lost refund.     *)
NobodyWaitsInACircle ==
    ~ \E S \in SUBSET Connections :
        S # {} /\ \A c \in S : \E d \in S : Waits(c, d)

(* What has happened to the account, by the tables.                        *)
EventsOf(id, col) ==
    CASE col = "reserved"  -> {<<"job_reserve", id>>}
      [] col = "finalized" -> {<<"job_reserve", id>>, <<"job_finalize", id>>}
      [] col = "refunded"  -> {<<"job_reserve", id>>, <<"job_refund", id>>}
      [] col = "paid"      -> {<<"purchase_grant", id>>}
      [] OTHER             -> {}

Happened ==
    (IF account.granted THEN {<<"starter_grant", User>>} ELSE {})
    \cup (IF account.expired THEN {<<"expiration", User>>} ELSE {})
    \cup UNION {EventsOf(id, column[id]) : id \in Ids}

Promise == INSTANCE CreditAccount
             WITH Users <- {User},
                  JobOwner <- [j \in Jobs |-> User],
                  InvoiceOwner <- [i \in Invoices |-> User],
                  CreditsGranted <- Credits,
                  StarterGrantCredits <- StarterGrant,
                  JobCreditCost <- Cost,
                  balance <- [u \in {User} |-> account.balance],
                  events <- [u \in {User} |-> Happened]

(* Statement by statement, with all that gets in between, the transactions *)
(* do to the account what CreditLedger's do in one step each: serve one    *)
(* request at a time.  No update of a balance is lost, and no job, payment *)
(* or grant counts twice.                                                  *)
ImplementsAccount == Promise!AccountSpec
=============================================================================
