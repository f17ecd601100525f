--------------------------- MODULE RowLocksProofs ---------------------------
(***************************************************************************)
(* Theorems about RowLocks, for any number of connections, jobs and        *)
(* invoices and any amounts.                                               *)
(***************************************************************************)
EXTENDS RowLocks, TLAPS

JobKinds     == {"create", "complete", "fail", "touch"}
InvoiceKinds == {"topup", "paid"}

(* A transaction is about a row of its kind; on a free connection there    *)
(* is nothing.                                                             *)
Fits(t) ==
    /\ t.kind \in JobKinds => t.id \in Jobs
    /\ t.kind \in InvoiceKinds => t.id \in Invoices
    /\ t.kind \in {"look", "none"} => t.id = NoRow
    /\ t.kind = "none" => t = NoTx
    /\ t.done <= Len(Script(t.kind, t.id))

TypeInv == TypeOK /\ \A c \in Connections : Fits(tx[c])

(* New rows are their transaction's own, the others exist, and with an     *)
(* invoice there is an account.                                            *)
OwnRows ==
    /\ \A c, d \in Connections :
          tx[c].kind \in {"create", "topup"} /\ tx[d].id = tx[c].id => c = d
    /\ \A c \in Connections :
          /\ tx[c].kind \in {"create", "topup"} => column[tx[c].id] = "none"
          /\ tx[c].kind \in {"complete", "fail", "touch", "paid"}
                => column[tx[c].id] # "none"
    /\ \A i \in Invoices : column[i] # "none" => account.open
    /\ account.granted => account.open
    /\ \A c \in Connections : tx[c].seen.granted => tx[c].seen.open

(* The transaction t has executed the statement st.                        *)
Did(t, st) ==
    \E k \in 1 .. Len(Script(t.kind, t.id)) :
        k <= t.done /\ Script(t.kind, t.id)[k] = st

(* What a transaction holds is what its statements took.                   *)
HeldBy(t, L) ==
    /\ \A st \in Locks : Did(t, st) /\ st # InsertAccount => st \in L
    /\ \A l \in L : \/ Did(t, l) /\ l # InsertAccount
                    \/ Did(t, InsertAccount) /\ t.kind # "paid" /\ l = SelectAccount

Held == \A c \in Connections : HeldBy(tx[c], locks[c])

(* No two hold locks that conflict.                                        *)
Exclusive ==
    \A c, d \in Connections :
        \A l \in locks[c], m \in locks[d] :
            c # d /\ l.row = m.row => ~Conflict(l.mode, m.mode)

(* What was read under a lock is still so.                                 *)
ReadsHold ==
    \A c \in Connections :
        /\ Did(tx[c], SelectAccount) => tx[c].seen = account
        /\ Did(tx[c], SelectRow(tx[c].id))
              => tx[c].read = column[tx[c].id]

LockInv == TypeInv /\ OwnRows /\ Held /\ Exclusive /\ ReadsHold

-----------------------------------------------------------------------------
(* The scripts                                                             *)

AboutRow(id) == {SelectRow(id), UpdateRow(id), NameRow(id)}
AboutUser    == {UpdateUsername, NameUser}
AboutAccount == {InsertAccount, SelectAccount}

(* The order in which the transactions take locks: the user first; a job   *)
(* or payment that others can see before the account; a row is locked      *)
(* before its foreign keys are checked.                                    *)
Ordered(kind, id, s) ==
    /\ \A k \in DOMAIN s :
          /\ s[k] \in AboutRow(id) \cup AboutUser \cup AboutAccount
          /\ s[k] = UpdateUsername => k = 1
          /\ kind \in {"look", "none"} => s[k] \notin AboutRow(id)
          /\ s[k] = NameRow(id) => \E j \in 1 .. k : s[j] = SelectRow(id)
    /\ \A i, k \in DOMAIN s :
          /\ i < k /\ kind # "topup" /\ s[k] \in AboutRow(id)
          /\ s[i] = SelectAccount \/ (s[i] = InsertAccount /\ kind # "paid")
          => \E j \in 1 .. i : s[j] = SelectRow(id)
    /\ kind \notin {"touch", "none"} => \E k \in DOMAIN s : s[k] = SelectAccount
    /\ kind \notin {"touch", "look", "none"}
          => \E k \in DOMAIN s : s[k] = SelectRow(id)

(* Locks on different rows, or of different strength, are different.       *)
LEMMA StatementsDiffer ==
    ASSUME NEW id \in Ids \cup {NoRow}
    PROVE  /\ AboutRow(id) \cap AboutUser = {} /\ AboutRow(id) \cap AboutAccount = {}
           /\ AboutUser \cap AboutAccount = {}
           /\ SelectRow(id) # UpdateRow(id) /\ SelectRow(id) # NameRow(id)
           /\ UpdateRow(id) # NameRow(id)
           /\ InsertAccount # SelectAccount /\ UpdateUsername # NameUser
  BY RowsAssumption
     DEF Rows, Ids, AboutRow, AboutUser, AboutAccount, SelectRow, UpdateRow, NameRow, UpdateUsername,
         NameUser, InsertAccount, SelectAccount, Lock

(* Every script is in that order.                                          *)
LEMMA ScriptsAreOrdered ==
    ASSUME NEW kind \in Kinds \cup {"none"}, NEW id \in Ids \cup {NoRow},
           kind \in {"look", "none"} => id = NoRow
    PROVE  /\ Len(Script(kind, id)) \in Nat
           /\ DOMAIN Script(kind, id) = 1 .. Len(Script(kind, id))
           /\ Ordered(kind, id, Script(kind, id))
<1> DEFINE R == SelectRow(id)
           W == UpdateRow(id)
           N == NameRow(id)
<1>1. InsertRow(id) = R /\ AboutRow(id) = {R, W, N}
  BY DEF InsertRow, SelectRow, AboutRow
<1>2. /\ R # W /\ R # N /\ W # N
      /\ {R, W, N} \cap {UpdateUsername, NameUser, InsertAccount, SelectAccount} = {}
      /\ UpdateUsername # NameUser /\ InsertAccount # SelectAccount
      /\ {UpdateUsername, NameUser} \cap {InsertAccount, SelectAccount} = {}
  BY <1>1, StatementsDiffer DEF AboutUser, AboutAccount
<1>3. CASE kind = "create"
  <2> DEFINE s == <<UpdateUsername, R, NameUser, R, InsertAccount, SelectAccount, NameUser,
                    N, W>>
  <2>1. Script(kind, id) = s
    BY <1>1, <1>3 DEF Script
  <2> HIDE DEF R, W, N
  <2>2. Len(s) = 9 /\ DOMAIN s = 1 .. 9
    OBVIOUS
  <2>3. /\ s[1] = UpdateUsername /\ s[2] = R /\ s[3] = NameUser /\ s[4] = R
        /\ s[5] = InsertAccount /\ s[6] = SelectAccount /\ s[7] = NameUser /\ s[8] = N
        /\ s[9] = W
    OBVIOUS
  <2> HIDE DEF s
  <2>4. \A k \in DOMAIN s : k \in {1, 2, 3, 4, 5, 6, 7, 8, 9}
    BY <2>2
  <2>5. \A k \in DOMAIN s :
          /\ s[k] \in {R, W, N} \cup {UpdateUsername, NameUser, InsertAccount, SelectAccount}
          /\ s[k] = UpdateUsername => k = 1
    BY <1>2, <2>2, <2>3, <2>4
  <2>6. \A k \in DOMAIN s : k = 1 \/ 2 \in 1 .. k
    BY <2>2
  <2>7. \A k \in DOMAIN s : s[k] = N => \E j \in 1 .. k : s[j] = R
    BY <1>2, <2>2, <2>3, <2>6
  <2>8. \A i, k \in DOMAIN s :
          /\ i < k /\ s[k] \in {R, W, N}
          /\ s[i] = SelectAccount \/ s[i] = InsertAccount
          => \E j \in 1 .. i : s[j] = R
    BY <1>2, <2>2, <2>3, <2>6
  <2>9. Ordered(kind, id, s)
    BY <1>1, <1>2, <1>3, <2>2, <2>3, <2>5, <2>7, <2>8 DEF Ordered, R, N, AboutUser, AboutAccount
  <2>10. QED
    BY <2>1, <2>2, <2>9
<1>4. CASE kind = "complete"
  <2> DEFINE s == <<W, R, InsertAccount, SelectAccount, NameUser, N, W>>
  <2>1. Script(kind, id) = s
    BY <1>1, <1>4 DEF Script
  <2> HIDE DEF R, W, N
  <2>2. Len(s) = 7 /\ DOMAIN s = 1 .. 7
    OBVIOUS
  <2>3. /\ s[1] = W /\ s[2] = R /\ s[3] = InsertAccount /\ s[4] = SelectAccount
        /\ s[5] = NameUser /\ s[6] = N /\ s[7] = W
    OBVIOUS
  <2> HIDE DEF s
  <2>4. \A k \in DOMAIN s : k \in {1, 2, 3, 4, 5, 6, 7}
    BY <2>2
  <2>5. \A k \in DOMAIN s :
          /\ s[k] \in {R, W, N} \cup {UpdateUsername, NameUser, InsertAccount, SelectAccount}
          /\ s[k] = UpdateUsername => k = 1
    BY <1>2, <2>2, <2>3, <2>4
  <2>6. \A k \in DOMAIN s : k = 1 \/ 2 \in 1 .. k
    BY <2>2
  <2>7. \A k \in DOMAIN s : s[k] = N => \E j \in 1 .. k : s[j] = R
    BY <1>2, <2>2, <2>3, <2>6
  <2>8. \A i, k \in DOMAIN s :
          /\ i < k /\ s[k] \in {R, W, N}
          /\ s[i] = SelectAccount \/ s[i] = InsertAccount
          => \E j \in 1 .. i : s[j] = R
    BY <1>2, <2>2, <2>3, <2>6
  <2>9. Ordered(kind, id, s)
    BY <1>1, <1>2, <1>4, <2>2, <2>3, <2>5, <2>7, <2>8 DEF Ordered, R, N, AboutUser, AboutAccount
  <2>10. QED
    BY <2>1, <2>2, <2>9
<1>5. CASE kind = "fail"
  <2> DEFINE s == <<R, InsertAccount, SelectAccount, NameUser, N, W>>
  <2>1. Script(kind, id) = s
    BY <1>1, <1>5 DEF Script
  <2> HIDE DEF R, W, N
  <2>2. Len(s) = 6 /\ DOMAIN s = 1 .. 6
    OBVIOUS
  <2>3. /\ s[1] = R /\ s[2] = InsertAccount /\ s[3] = SelectAccount /\ s[4] = NameUser
        /\ s[5] = N /\ s[6] = W
    OBVIOUS
  <2> HIDE DEF s
  <2>4. \A k \in DOMAIN s : k \in {1, 2, 3, 4, 5, 6}
    BY <2>2
  <2>5. \A k \in DOMAIN s :
          /\ s[k] \in {R, W, N} \cup {UpdateUsername, NameUser, InsertAccount, SelectAccount}
          /\ s[k] = UpdateUsername => k = 1
    BY <1>2, <2>2, <2>3, <2>4
  <2>6. \A k \in DOMAIN s : 1 \in 1 .. k
    BY <2>2
  <2>7. \A k \in DOMAIN s : s[k] = N => \E j \in 1 .. k : s[j] = R
    BY <1>2, <2>2, <2>3, <2>6
  <2>8. \A i, k \in DOMAIN s :
          /\ i < k /\ s[k] \in {R, W, N}
          /\ s[i] = SelectAccount \/ s[i] = InsertAccount
          => \E j \in 1 .. i : s[j] = R
    BY <1>2, <2>2, <2>3, <2>6
  <2>9. Ordered(kind, id, s)
    BY <1>1, <1>2, <1>5, <2>2, <2>3, <2>5, <2>7, <2>8 DEF Ordered, R, N, AboutUser, AboutAccount
  <2>10. QED
    BY <2>1, <2>2, <2>9
<1>6. CASE kind = "paid"
  <2> DEFINE s == <<InsertAccount, R, SelectAccount, InsertAccount, SelectAccount, R,
                    SelectAccount, NameUser, N, W>>
  <2>1. Script(kind, id) = s
    BY <1>1, <1>6 DEF Script
  <2> HIDE DEF R, W, N
  <2>2. Len(s) = 10 /\ DOMAIN s = 1 .. 10
    OBVIOUS
  <2>3. /\ s[1] = InsertAccount /\ s[2] = R /\ s[3] = SelectAccount /\ s[4] = InsertAccount
        /\ s[5] = SelectAccount /\ s[6] = R /\ s[7] = SelectAccount /\ s[8] = NameUser
        /\ s[9] = N /\ s[10] = W
    OBVIOUS
  <2> HIDE DEF s
  <2>4. \A k \in DOMAIN s : k \in {1, 2, 3, 4, 5, 6, 7, 8, 9, 10}
    BY <2>2
  <2>5. \A k \in DOMAIN s :
          /\ s[k] \in {R, W, N} \cup {UpdateUsername, NameUser, InsertAccount, SelectAccount}
          /\ s[k] = UpdateUsername => k = 1
    BY <1>2, <2>2, <2>3, <2>4
  <2>6. \A k \in DOMAIN s : k = 1 \/ 2 \in 1 .. k
    BY <2>2
  <2>7. \A k \in DOMAIN s : s[k] = N => \E j \in 1 .. k : s[j] = R
    BY <1>2, <2>2, <2>3, <2>6
  <2>8. \A i, k \in DOMAIN s :
          /\ i < k /\ s[k] \in {R, W, N}
          /\ s[i] = SelectAccount
          => \E j \in 1 .. i : s[j] = R
    BY <1>2, <2>2, <2>3, <2>6
  <2>9. Ordered(kind, id, s)
    BY <1>1, <1>2, <1>6, <2>2, <2>3, <2>5, <2>7, <2>8 DEF Ordered, R, N, AboutUser, AboutAccount
  <2>10. QED
    BY <2>1, <2>2, <2>9
<1>7. CASE kind = "topup"
  <2> DEFINE s == <<UpdateUsername, InsertAccount, SelectAccount, NameUser, R, NameUser>>
  <2>1. Script(kind, id) = s
    BY <1>1, <1>7 DEF Script
  <2> HIDE DEF R, W, N
  <2>2. Len(s) = 6 /\ DOMAIN s = 1 .. 6
    OBVIOUS
  <2>3. /\ s[1] = UpdateUsername /\ s[2] = InsertAccount /\ s[3] = SelectAccount /\ s[4] = NameUser
        /\ s[5] = R /\ s[6] = NameUser
    OBVIOUS
  <2> HIDE DEF s
  <2>4. \A k \in DOMAIN s : k \in {1, 2, 3, 4, 5, 6}
    BY <2>2
  <2>5. \A k \in DOMAIN s :
          /\ s[k] \in {R, W, N} \cup {UpdateUsername, NameUser, InsertAccount, SelectAccount}
          /\ s[k] = UpdateUsername => k = 1
    BY <1>2, <2>2, <2>3, <2>4
  <2>6. 3 \in DOMAIN s /\ s[3] = SelectAccount /\ 5 \in DOMAIN s /\ s[5] = R
    BY <2>2, <2>3
  <2>7. \A k \in DOMAIN s : s[k] # N
    BY <1>2, <2>2, <2>3, <2>4
  <2>9. Ordered(kind, id, s)
    BY <1>1, <1>2, <1>7, <2>5, <2>6, <2>7 DEF Ordered, R, N, AboutUser, AboutAccount
  <2>10. QED
    BY <2>1, <2>2, <2>9
<1>8. CASE kind = "look"
  <2> DEFINE s == <<UpdateUsername, InsertAccount, SelectAccount, NameUser>>
  <2>1. Script(kind, id) = s
    BY <1>1, <1>8 DEF Script
  <2> HIDE DEF R, W, N
  <2>2. Len(s) = 4 /\ DOMAIN s = 1 .. 4
    OBVIOUS
  <2>3. /\ s[1] = UpdateUsername /\ s[2] = InsertAccount /\ s[3] = SelectAccount /\ s[4] = NameUser
    OBVIOUS
  <2> HIDE DEF s
  <2>4. \A k \in DOMAIN s : k \in {1, 2, 3, 4}
    BY <2>2
  <2>5. \A k \in DOMAIN s :
          /\ s[k] \in {R, W, N} \cup {UpdateUsername, NameUser, InsertAccount, SelectAccount}
          /\ s[k] = UpdateUsername => k = 1
    BY <1>2, <2>2, <2>3, <2>4
  <2>6. 3 \in DOMAIN s /\ s[3] = SelectAccount
    BY <2>2, <2>3
  <2>7. \A k \in DOMAIN s : s[k] \notin {R, W, N}
    BY <1>2, <2>2, <2>3, <2>4
  <2>9. Ordered(kind, id, s)
    BY <1>1, <1>2, <1>8, <2>5, <2>6, <2>7 DEF Ordered, R, N, AboutUser, AboutAccount
  <2>10. QED
    BY <2>1, <2>2, <2>9
<1>9. CASE kind = "touch"
  <2> DEFINE s == <<W>>
  <2>1. Script(kind, id) = s
    BY <1>1, <1>9 DEF Script
  <2> HIDE DEF R, W, N
  <2>2. Len(s) = 1 /\ DOMAIN s = 1 .. 1
    OBVIOUS
  <2>3. /\ s[1] = W
    OBVIOUS
  <2> HIDE DEF s
  <2>4. \A k \in DOMAIN s : k \in {1}
    BY <2>2
  <2>5. \A k \in DOMAIN s :
          /\ s[k] \in {R, W, N} \cup {UpdateUsername, NameUser, InsertAccount, SelectAccount}
          /\ s[k] = UpdateUsername => k = 1
    BY <1>2, <2>2, <2>3, <2>4
  <2>9. Ordered(kind, id, s)
    BY <1>1, <1>2, <1>9, <2>2, <2>3, <2>5 DEF Ordered, R, N, AboutUser, AboutAccount
  <2>10. QED
    BY <2>1, <2>2, <2>9
<1>10. CASE kind = "none"
  <2> DEFINE s == <<>>
  <2>1. Script(kind, id) = s
    BY <1>1, <1>10 DEF Script
  <2> HIDE DEF R, W, N
  <2>2. Len(s) = 0 /\ DOMAIN s = 1 .. 0
    OBVIOUS
  <2> HIDE DEF s
  <2>9. Ordered(kind, id, s)
    BY <1>10, <2>2 DEF Ordered, R, N, AboutUser, AboutAccount
  <2>10. QED
    BY <2>1, <2>2, <2>9
<1>11. QED
  BY <1>3, <1>4, <1>5, <1>6, <1>7, <1>8, <1>9, <1>10 DEF Kinds

-----------------------------------------------------------------------------
(* A transaction and its statements                                        *)

Txs == [kind : Kinds \cup {"none"}, id : Ids \cup {NoRow}, done : Nat,
        seen : Accounts, read : Columns]

(* What the order of the scripts says about a transaction on its way.      *)
LEMMA ComingStatement ==
    ASSUME NEW t \in Txs, Fits(t), ~Finished(t)
    PROVE  /\ Coming(t) \in AboutRow(t.id) \cup AboutUser \cup AboutAccount
           /\ Coming(t) = UpdateUsername => \A st : ~Did(t, st)
           /\ t.kind \in {"look", "none"} => Coming(t) \notin AboutRow(t.id)
           /\ Coming(t) = NameRow(t.id) => Did(t, SelectRow(t.id))
           /\ /\ Coming(t) \in AboutRow(t.id) /\ t.kind # "topup"
              /\ Did(t, SelectAccount) \/ (Did(t, InsertAccount) /\ t.kind # "paid")
              => Did(t, SelectRow(t.id))
<1> DEFINE s == Script(t.kind, t.id)
           k == t.done + 1
<1>1. /\ Len(s) \in Nat /\ DOMAIN s = 1 .. Len(s) /\ Ordered(t.kind, t.id, s)
      /\ t.done \in Nat /\ t.done <= Len(s)
  BY ScriptsAreOrdered DEF Txs, Fits
<1>2. k \in DOMAIN s /\ k \in Nat /\ t.done < k
  BY <1>1 DEF Finished
<1>3. t.id \in Ids \cup {NoRow}
  BY DEF Txs
<1>4. \A st : Did(t, st) <=> \E i \in DOMAIN s : i < k /\ s[i] = st
  BY <1>1, <1>2 DEF Did
<1> HIDE DEF s, k
<1>5. Coming(t) = s[k]
  BY DEF Coming, s, k
<1>6. ASSUME Coming(t) = UpdateUsername
      PROVE  \A st : ~Did(t, st)
  <2>1. k = 1
    BY <1>1, <1>2, <1>5, <1>6 DEF Ordered
  <2>2. \A i \in DOMAIN s : ~(i < k)
    BY <1>1, <2>1
  <2>3. QED
    BY <1>4, <2>2
<1>7. Coming(t) = NameRow(t.id) => Did(t, SelectRow(t.id))
  <2>1. SUFFICES ASSUME s[k] = NameRow(t.id)
                 PROVE  \E i \in DOMAIN s : i < k /\ s[i] = SelectRow(t.id)
    BY <1>4, <1>5
  <2>2. PICK j \in 1 .. k : s[j] = SelectRow(t.id)
    BY <1>1, <1>2, <2>1 DEF Ordered
  <2>3. j # k
    BY <1>3, <2>1, <2>2, StatementsDiffer
  <2>4. QED
    BY <1>1, <1>2, <2>2, <2>3
<1>8. ASSUME Coming(t) \in AboutRow(t.id), t.kind # "topup",
             Did(t, SelectAccount) \/ (Did(t, InsertAccount) /\ t.kind # "paid")
      PROVE  Did(t, SelectRow(t.id))
  <2>1. PICK i \in DOMAIN s : /\ i < k
                              /\ \/ s[i] = SelectAccount
                                 \/ s[i] = InsertAccount /\ t.kind # "paid"
    BY <1>4, <1>8
  <2>2. PICK j \in 1 .. i : s[j] = SelectRow(t.id)
    BY <1>1, <1>2, <1>5, <1>8, <2>1 DEF Ordered
  <2>3. j \in DOMAIN s /\ j < k
    BY <1>1, <1>2, <2>1, <2>2
  <2>4. QED
    BY <1>4, <2>2, <2>3
<1>9. QED
  BY <1>1, <1>2, <1>5, <1>6, <1>7, <1>8 DEF Ordered

(* At its end a transaction has locked, and read, what its body changes.   *)
LEMMA AtTheEnd ==
    ASSUME NEW t \in Txs, Fits(t), Finished(t)
    PROVE  /\ t.kind \notin {"touch", "none"} => Did(t, SelectAccount)
           /\ t.kind \notin {"touch", "look", "none"} => Did(t, SelectRow(t.id))
  BY ScriptsAreOrdered DEF Txs, Fits, Finished, Did, Ordered

(* The next statement adds itself to what was executed.                    *)
LEMMA OneMore ==
    ASSUME NEW t \in Txs, Fits(t), ~Finished(t), NEW u,
           u.kind = t.kind, u.id = t.id, u.done = t.done + 1
    PROVE  /\ u.done <= Len(Script(u.kind, u.id)) /\ u.done \in Nat
           /\ \A st : Did(u, st) <=> Did(t, st) \/ st = Coming(t)
<1>1. Len(Script(t.kind, t.id)) \in Nat /\ t.done \in Nat
  BY ScriptsAreOrdered DEF Txs, Fits
<1>2. t.done + 1 \in 1 .. Len(Script(t.kind, t.id))
  BY <1>1 DEF Fits, Finished
<1>3. QED
  BY <1>1, <1>2 DEF Did, Coming

(* Before its first statement a transaction has done nothing.              *)
LEMMA NothingDone ==
    ASSUME NEW t, t.done = 0
    PROVE  \A st : ~Did(t, st)
  BY DEF Did

-----------------------------------------------------------------------------
(* Types                                                                   *)

(* A step of one connection: its transaction becomes u, its locks L.       *)
Moves(c, u, L) ==
    /\ tx' = [tx EXCEPT ![c] = u]
    /\ locks' = [locks EXCEPT ![c] = L]

(* The steps in that form.                                                 *)
LEMMA StartMoves ==
    ASSUME TypeOK, NEW c \in Connections, NEW kind, NEW id, Begin(c, kind, id)
    PROVE  Moves(c, Started(kind, id), locks[c])
  BY DEF Begin, TypeOK, Moves

LEMMA ProceedMoves ==
    ASSUME TypeOK, NEW c \in Connections, Proceed(c)
    PROVE  Moves(c, After(tx[c]), locks[c] \cup Taken(Coming(tx[c])))
  BY DEF Proceed, Moves

(* Whatever a transaction has executed is one of these; a foreign key that *)
(* names a row comes after the row was locked.                             *)
LEMMA Executed ==
    ASSUME NEW t \in Txs, Fits(t), NEW st, Did(t, st)
    PROVE  /\ st \in AboutRow(t.id) \cup AboutUser \cup AboutAccount
           /\ t.kind \in {"look", "none"} => st \notin AboutRow(t.id)
           /\ st = NameRow(t.id) => Did(t, SelectRow(t.id))
<1> DEFINE s == Script(t.kind, t.id)
<1>1. /\ Len(s) \in Nat /\ DOMAIN s = 1 .. Len(s) /\ Ordered(t.kind, t.id, s)
      /\ t.done \in Nat /\ t.done <= Len(s)
  BY ScriptsAreOrdered DEF Txs, Fits
<1>2. PICK k \in DOMAIN s : k <= t.done /\ s[k] = st
  BY <1>1 DEF Did
<1>3. \A i \in DOMAIN s : i <= k => Did(t, s[i])
  BY <1>1, <1>2 DEF Did
<1> HIDE DEF s
<1>4. ASSUME st = NameRow(t.id)
      PROVE  Did(t, SelectRow(t.id))
  <2>1. PICK j \in 1 .. k : s[j] = SelectRow(t.id)
    BY <1>1, <1>2, <1>4 DEF Ordered
  <2>2. j \in DOMAIN s /\ j <= k
    BY <1>1, <1>2, <2>1
  <2>3. QED
    BY <1>3, <2>1, <2>2
<1>5. QED
  BY <1>1, <1>2, <1>4 DEF Ordered

(* Only a transaction about a job or a payment has statements about one.   *)
LEMMA AboutItsRow ==
    ASSUME NEW t \in Txs, Fits(t), t.kind \notin {"look", "none"}
    PROVE  t.id \in Ids
  BY DEF Txs, Fits, Kinds, JobKinds, InvoiceKinds, Ids

(* Every lock that is held, by its row.                                    *)
LEMMA HeldLocks ==
    ASSUME TypeInv, Held, NEW c \in Connections, NEW l \in locks[c]
    PROVE  \/ /\ l = SelectAccount
              /\ \/ Did(tx[c], SelectAccount)
                 \/ Did(tx[c], InsertAccount) /\ tx[c].kind # "paid"
           \/ l \in AboutUser
           \/ /\ l \in AboutRow(tx[c].id) /\ tx[c].id \in Ids
              /\ l = NameRow(tx[c].id) => SelectRow(tx[c].id) \in locks[c]
<1>1. tx[c] \in Txs /\ Fits(tx[c]) /\ HeldBy(tx[c], locks[c])
  BY DEF TypeInv, TypeOK, Txs, Held
<1>2. CASE Did(tx[c], InsertAccount) /\ tx[c].kind # "paid" /\ l = SelectAccount
  BY <1>2
<1>3. CASE Did(tx[c], l) /\ l # InsertAccount
  <2>1. CASE l \in AboutUser
    BY <2>1
  <2>2. CASE l \in AboutAccount
    BY <1>3, <2>2 DEF AboutAccount
  <2>3. CASE l \in AboutRow(tx[c].id)
    <3>1. tx[c].id \in Ids
      BY <1>1, <1>3, <2>3, Executed, AboutItsRow
    <3>2. ASSUME l = NameRow(tx[c].id)
          PROVE  SelectRow(tx[c].id) \in locks[c]
      <4>1. Did(tx[c], SelectRow(tx[c].id))
        BY <1>1, <1>3, <3>2, Executed
      <4>2. SelectRow(tx[c].id) \in Locks /\ SelectRow(tx[c].id) # InsertAccount
        BY <3>1 DEF SelectRow, InsertAccount, Lock, Locks, Rows, Modes
      <4>3. QED
        BY <1>1, <4>1, <4>2 DEF HeldBy
    <3>3. QED
      BY <2>3, <3>1, <3>2
  <2>4. QED
    BY <1>1, <1>3, <2>1, <2>2, <2>3, Executed
<1>4. QED
  BY <1>1, <1>2, <1>3 DEF HeldBy

-----------------------------------------------------------------------------
(* Nobody waits in a circle                                                *)

(* What every connection of a circle is like: it waits, at a statement of  *)
(* its script, for a lock that another one of the circle holds.            *)
LEMMA Waiting ==
    ASSUME LockInv, NEW c \in Connections, NEW d \in Connections, Waits(c, d)
    PROVE  /\ c # d /\ tx[c] \in Txs /\ Fits(tx[c]) /\ ~Finished(tx[c])
           /\ HeldBy(tx[c], locks[c])
           /\ \E l \in locks[d] : l.row = Coming(tx[c]).row
                                  /\ Conflict(Coming(tx[c]).mode, l.mode)
  BY DEF Waits, LockInv, TypeInv, TypeOK, Txs, Held

(* A transaction that holds a lock and has to wait is not at the users     *)
(* row: only the first statement of a transaction waits there.             *)
LEMMA HoldersPassTheUser ==
    ASSUME LockInv, NEW c \in Connections, NEW d \in Connections, Waits(c, d),
           locks[c] # {}
    PROVE  Coming(tx[c]) \notin AboutUser
<1>1. /\ tx[c] \in Txs /\ Fits(tx[c]) /\ ~Finished(tx[c])
      /\ HeldBy(tx[c], locks[c])
  BY Waiting
<1>2. PICK l \in locks[d] : l.row = Coming(tx[c]).row
                            /\ Conflict(Coming(tx[c]).mode, l.mode)
  BY Waiting
<1>3. Coming(tx[c]) # UpdateUsername
  BY <1>1, ComingStatement DEF HeldBy
<1>4. ASSUME Coming(tx[c]) = NameUser
      PROVE  FALSE
  <2>1. l.row = User /\ Conflict("key_share", l.mode)
    BY <1>2, <1>4 DEF NameUser, Lock
  <2>2. l.mode = "update"
    BY <2>1 DEF Conflict
  <2>3. TypeInv /\ Held
    BY DEF LockInv
  <2>4. l = SelectAccount \/ l \in AboutUser \/ (l \in AboutRow(tx[d].id) /\ tx[d].id \in Ids)
    BY <2>3, HeldLocks
  <2>5. QED
    BY <2>1, <2>2, <2>4, RowsAssumption
       DEF SelectAccount, AboutUser, UpdateUsername, NameUser, AboutRow, SelectRow, UpdateRow,
           NameRow, Lock
<1>5. QED
  BY <1>3, <1>4 DEF AboutUser

(* One that holds the account waits for nobody.                            *)
LEMMA HoldersOfTheAccountGoOn ==
    ASSUME LockInv, NEW c \in Connections, NEW d \in Connections, Waits(c, d),
           SelectAccount \in locks[c]
    PROVE  FALSE
<1> DEFINE t == tx[c]
<1>1. /\ c # d /\ t \in Txs /\ Fits(t) /\ ~Finished(t)
      /\ HeldBy(t, locks[c])
  BY Waiting
<1>2. PICK l \in locks[d] : l.row = Coming(t).row /\ Conflict(Coming(t).mode, l.mode)
  BY Waiting
<1>3. TypeInv /\ Held /\ Exclusive /\ OwnRows
  BY DEF LockInv
<1>4. Coming(t) \in AboutRow(t.id) \cup AboutAccount
  BY <1>1, HoldersPassTheUser, ComingStatement
<1>5. l = SelectAccount \/ l \in AboutUser \/ (l \in AboutRow(tx[d].id) /\ tx[d].id \in Ids)
  BY <1>3, HeldLocks
<1>6. t.id \in Ids \cup {NoRow}
  BY <1>1 DEF Txs
<1>7. CASE Coming(t) \in AboutAccount
  <2>1. l.row = Account
    BY <1>2, <1>7 DEF AboutAccount, InsertAccount, SelectAccount, Lock
  <2>2. l = SelectAccount
    BY <1>5, <2>1, RowsAssumption
       DEF AboutUser, UpdateUsername, NameUser, AboutRow, SelectRow, UpdateRow, NameRow, Lock
  <2>3. Conflict(SelectAccount.mode, l.mode)
    BY <2>2 DEF SelectAccount, Lock, Conflict
  <2>4. QED
    BY <1>1, <1>3, <2>2, <2>3 DEF Exclusive
<1>8. CASE Coming(t) \in AboutRow(t.id)
  <2>1. l.row = t.id
    BY <1>2, <1>8 DEF AboutRow, SelectRow, UpdateRow, NameRow, Lock
  <2>2. t.id \in Ids
    BY <1>1, <1>8, ComingStatement, AboutItsRow
  <2>3. tx[d].id = t.id
    BY <1>5, <2>1, <2>2, RowsAssumption
       DEF AboutUser, UpdateUsername, NameUser, AboutRow, SelectRow, UpdateRow, NameRow,
           SelectAccount, Lock
  <2>4. t.kind # "topup"
    BY <1>1, <1>3, <2>3 DEF OwnRows
  <2>5. Did(t, SelectAccount) \/ (Did(t, InsertAccount) /\ t.kind # "paid")
    BY <1>1 DEF HeldBy
  <2>6. Did(t, SelectRow(t.id))
    BY <1>1, <1>8, <2>4, <2>5, ComingStatement
  <2>7. SelectRow(t.id) \in Locks /\ SelectRow(t.id) # InsertAccount
    BY <2>2 DEF SelectRow, InsertAccount, Lock, Locks, Rows, Modes
  <2>8. SelectRow(t.id) \in locks[c]
    BY <1>1, <2>6, <2>7 DEF HeldBy
  <2>9. SelectRow(t.id).row = l.row /\ Conflict(SelectRow(t.id).mode, l.mode)
    <3>1. l.mode # "plain"
      BY <1>5 DEF AboutUser, UpdateUsername, NameUser, AboutRow, SelectRow, UpdateRow, NameRow,
                  SelectAccount, Lock
    <3>2. QED
      BY <2>1, <3>1 DEF SelectRow, Lock, Conflict
  <2>10. QED
    BY <1>1, <1>3, <2>8, <2>9 DEF Exclusive
<1>9. QED
  BY <1>4, <1>7, <1>8

(* One that holds its job or payment waits, if at all, for the account.    *)
LEMMA HoldersOfARowWaitForTheAccount ==
    ASSUME LockInv, NEW c \in Connections, NEW d \in Connections, Waits(c, d),
           NEW h \in locks[c], h \in AboutRow(tx[c].id)
    PROVE  Coming(tx[c]) \in AboutAccount
<1> DEFINE t == tx[c]
<1>1. /\ c # d /\ t \in Txs /\ Fits(t) /\ ~Finished(t)
      /\ HeldBy(t, locks[c])
  BY Waiting
<1>2. PICK l \in locks[d] : l.row = Coming(t).row /\ Conflict(Coming(t).mode, l.mode)
  BY Waiting
<1>3. TypeInv /\ Held /\ Exclusive
  BY DEF LockInv
<1>4. Coming(t) \in AboutRow(t.id) \cup AboutAccount
  BY <1>1, HoldersPassTheUser, ComingStatement
<1>5. SUFFICES ASSUME Coming(t) \in AboutRow(t.id)
               PROVE  FALSE
  BY <1>4
<1>6. t.id \in Ids
  BY <1>1, <1>5, ComingStatement, AboutItsRow
<1>7. l.row = t.id
  BY <1>2, <1>5 DEF AboutRow, SelectRow, UpdateRow, NameRow, Lock
<1>8. PICK a \in locks[c] : a \in {SelectRow(t.id), UpdateRow(t.id)}
  <2>1. \/ h = SelectAccount \/ h \in AboutUser
        \/ h = NameRow(t.id) => SelectRow(t.id) \in locks[c]
    BY <1>3, HeldLocks
  <2>2. h # SelectAccount /\ h \notin AboutUser
    BY <1>6, StatementsDiffer DEF AboutAccount
  <2>3. QED
    BY <2>1, <2>2 DEF AboutRow
<1>9. /\ \/ l = SelectAccount \/ l \in AboutUser
         \/ (l \in AboutRow(tx[d].id) /\ tx[d].id \in Ids)
            /\ (l = NameRow(tx[d].id) => SelectRow(tx[d].id) \in locks[d])
  BY <1>3, HeldLocks
<1>10. /\ l \in AboutRow(t.id) /\ tx[d].id = t.id
       /\ l = NameRow(t.id) => SelectRow(t.id) \in locks[d]
  BY <1>6, <1>7, <1>9, RowsAssumption
     DEF AboutUser, UpdateUsername, NameUser, AboutRow, SelectRow, UpdateRow, NameRow,
         SelectAccount, Lock
<1>11. PICK b \in locks[d] : b \in {SelectRow(t.id), UpdateRow(t.id)}
  BY <1>10 DEF AboutRow
<1>12. a.row = b.row /\ Conflict(a.mode, b.mode)
  BY <1>8, <1>11 DEF SelectRow, UpdateRow, Lock, Conflict
<1>13. QED
  BY <1>1, <1>3, <1>12 DEF Exclusive

LEMMA NoCircle == LockInv => NobodyWaitsInACircle
<1> SUFFICES ASSUME LockInv, NEW S \in SUBSET Connections, S # {},
                    \A c \in S : \E d \in S : Waits(c, d)
             PROVE  FALSE
  BY DEF NobodyWaitsInACircle
<1>1. TypeInv /\ Held
  BY DEF LockInv
<1>2. PICK c \in S : TRUE
  OBVIOUS
<1>3. PICK d \in S : Waits(c, d)
  BY <1>2
<1>4. PICK l \in locks[d] : TRUE
  BY <1>3 DEF Waits
<1>5. PICK e \in S : Waits(d, e)
  BY <1>3
<1>6. Coming(tx[d]) \notin AboutUser
  BY <1>4, <1>5, HoldersPassTheUser
<1>7. \A x \in S, y \in S : Waits(x, y) => Coming(tx[x]) \notin AboutAccount
  <2> SUFFICES ASSUME NEW x \in S, NEW y \in S, Waits(x, y), Coming(tx[x]) \in AboutAccount
               PROVE  FALSE
    OBVIOUS
  <2>1. PICK k \in locks[y] : k.row = Coming(tx[x]).row
    BY DEF Waits
  <2>2. k.row = Account
    BY <2>1 DEF AboutAccount, InsertAccount, SelectAccount, Lock
  <2>3. k = SelectAccount \/ k \in AboutUser \/ (k \in AboutRow(tx[y].id) /\ tx[y].id \in Ids)
    BY <1>1, HeldLocks
  <2>4. k = SelectAccount
    BY <2>2, <2>3, RowsAssumption
       DEF AboutUser, UpdateUsername, NameUser, AboutRow, SelectRow, UpdateRow, NameRow, Lock
  <2>5. PICK z \in S : Waits(y, z)
    OBVIOUS
  <2>6. QED
    BY <2>4, <2>5, HoldersOfTheAccountGoOn
<1>8. Coming(tx[d]) \in AboutRow(tx[d].id)
  <2>1. tx[d] \in Txs /\ Fits(tx[d]) /\ ~Finished(tx[d])
    BY <1>5, Waiting
  <2>2. QED
    BY <1>5, <1>6, <1>7, <2>1, ComingStatement
<1>9. PICK m \in locks[e] : m.row = Coming(tx[d]).row
  BY <1>5 DEF Waits
<1>10. m.row = tx[d].id
  BY <1>8, <1>9 DEF AboutRow, SelectRow, UpdateRow, NameRow, Lock
<1>11. tx[d].id \in Ids
  <2>1. tx[d] \in Txs /\ Fits(tx[d]) /\ ~Finished(tx[d])
    BY <1>5, Waiting
  <2>2. QED
    BY <1>8, <2>1, ComingStatement, AboutItsRow
<1>12. m = SelectAccount \/ m \in AboutUser \/ (m \in AboutRow(tx[e].id) /\ tx[e].id \in Ids)
  BY <1>1, HeldLocks
<1>13. m \in AboutRow(tx[e].id)
  BY <1>10, <1>11, <1>12, RowsAssumption
     DEF AboutUser, UpdateUsername, NameUser, SelectAccount, Lock
<1>14. PICK f \in S : Waits(e, f)
  OBVIOUS
<1>15. Coming(tx[e]) \in AboutAccount
  BY <1>13, <1>14, HoldersOfARowWaitForTheAccount
<1>16. QED
  BY <1>7, <1>14, <1>15

-----------------------------------------------------------------------------
(* The invariant                                                           *)

(* What Start begins.                                                      *)
Legit(kind, id) ==
    \/ kind = "create" /\ id \in Jobs /\ Fresh(id)
    \/ kind \in {"complete", "fail", "touch"} /\ id \in Jobs /\ column[id] # "none"
    \/ kind = "topup" /\ id \in Invoices /\ Fresh(id)
    \/ kind = "paid" /\ id \in Invoices /\ column[id] # "none"
    \/ kind = "look" /\ id = NoRow

LEMMA StartBegins ==
    ASSUME NEW c \in Connections, Start(c)
    PROVE  \E kind, id : Begin(c, kind, id) /\ Legit(kind, id)
  BY DEF Start, Legit

LEMMA StartedFits ==
    ASSUME NEW kind, NEW id, Legit(kind, id)
    PROVE  /\ Started(kind, id) \in Txs /\ Fits(Started(kind, id))
           /\ kind \in Kinds /\ id \in Ids \cup {NoRow}
<1> DEFINE u == Started(kind, id)
<1>1. kind \in Kinds /\ id \in Ids \cup {NoRow} /\ (kind \in {"look", "none"} => id = NoRow)
  BY DEF Legit, Kinds, Ids
<1>2. u \in Txs /\ u.kind = kind /\ u.id = id /\ u.done = 0
  BY <1>1 DEF Started, Txs, Accounts, Unopened, Columns
<1>3. Len(Script(kind, id)) \in Nat
  BY <1>1, ScriptsAreOrdered
<1>4. kind # "none"
  BY <1>1 DEF Kinds
<1>5. QED
  <2>1. kind \in JobKinds => id \in Jobs
    BY DEF Legit, JobKinds
  <2>2. kind \in InvoiceKinds => id \in Invoices
    BY DEF Legit, InvoiceKinds
  <2> HIDE DEF u
  <2>3. u.done <= Len(Script(u.kind, u.id))
    BY <1>2, <1>3
  <2>4. Fits(u)
    BY <1>1, <1>2, <1>4, <2>1, <2>2, <2>3 DEF Fits
  <2>5. QED
    BY <1>1, <1>2, <2>4 DEF u

LEMMA FreeFits == NoTx \in Txs /\ Fits(NoTx) /\ \A st : ~Did(NoTx, st)
<1>1. NoTx \in Txs /\ NoTx.kind = "none" /\ NoTx.id = NoRow /\ NoTx.done = 0
  BY DEF NoTx, Started, Txs, Accounts, Unopened, Columns
<1>2. Len(Script("none", NoRow)) \in Nat
  BY ScriptsAreOrdered
<1>3. Fits(NoTx)
  <2>1. NoTx.done <= Len(Script(NoTx.kind, NoTx.id))
    BY <1>1, <1>2
  <2>2. QED
    BY <1>1, <2>1 DEF Fits, JobKinds, InvoiceKinds
<1>4. QED
  BY <1>1, <1>3, NothingDone

(* A free connection has nothing left to execute.                          *)
LEMMA ProceedingIsBusy ==
    ASSUME NEW t \in Txs, Fits(t), ~Finished(t)
    PROVE  t.kind # "none"
<1> SUFFICES ASSUME t.kind = "none"
             PROVE  FALSE
  OBVIOUS
<1>1. t.id = NoRow /\ t.done = 0
  BY DEF Fits, NoTx, Started
<1>2. Script("none", NoRow) = <<>>
  BY DEF Script
<1>3. QED
  BY <1>1, <1>2 DEF Finished

(* The statement that comes is a lock request of one of the forms.         *)
LEMMA ComingLock ==
    ASSUME NEW t \in Txs, Fits(t), ~Finished(t)
    PROVE  /\ Coming(t) \in Locks
           /\ Coming(t) = SelectRow(t.id) => t.id \in Ids
           /\ Coming(t) # InsertAccount => Coming(t).mode \notin {"plain", "insert"}
<1>1. Coming(t) \in AboutRow(t.id) \cup AboutUser \cup AboutAccount
  BY ComingStatement
<1>2. t.kind # "none"
  BY ProceedingIsBusy
<1>3. Coming(t) \in AboutRow(t.id) => t.id \in Ids
  BY ComingStatement, AboutItsRow
<1>4. CASE Coming(t) \in AboutRow(t.id)
  BY <1>3, <1>4
     DEF AboutRow, SelectRow, UpdateRow, NameRow, Lock, Locks, Rows, Modes
<1>5. CASE Coming(t) \in AboutUser \cup AboutAccount
  <2>1. t.id \in Ids \cup {NoRow}
    BY DEF Txs
  <2>2. Coming(t) \in Locks /\ (Coming(t) # InsertAccount => Coming(t).mode \notin {"plain", "insert"})
    BY <1>5 DEF AboutUser, AboutAccount, UpdateUsername, NameUser, InsertAccount,
                SelectAccount, Lock, Locks, Rows, Modes
  <2>3. Coming(t) # SelectRow(t.id)
    BY <1>5, <2>1, StatementsDiffer DEF AboutRow
  <2>4. QED
    BY <2>2, <2>3
<1>6. QED
  BY <1>1, <1>4, <1>5

LEMMA AfterFits ==
    ASSUME TypeInv, NEW t \in Txs, Fits(t), ~Finished(t)
    PROVE  After(t) \in Txs /\ Fits(After(t))
<1> DEFINE u == After(t)
<1>1. account \in Accounts /\ column \in [Ids -> Columns]
  BY DEF TypeInv, TypeOK
<1>2. (IF Coming(t) = SelectRow(t.id) THEN column[t.id] ELSE t.read) \in Columns
  BY <1>1, ComingLock DEF Txs
<1>3. (IF Coming(t) = SelectAccount THEN account ELSE t.seen) \in Accounts
  BY <1>1 DEF Txs
<1>4. u \in Txs /\ u.kind = t.kind /\ u.id = t.id /\ u.done = t.done + 1
  BY <1>2, <1>3 DEF After, Txs
<1> HIDE DEF u
<1>5. u.done <= Len(Script(u.kind, u.id))
  BY <1>4, OneMore
<1>6. t.kind # "none"
  BY ProceedingIsBusy
<1>7. Fits(u)
  BY <1>4, <1>5, <1>6 DEF Fits
<1>8. QED
  BY <1>4, <1>7 DEF u

(* A step of c leaves the other connections alone.                         *)
LEMMA OthersStay ==
    ASSUME TypeInv, NEW c \in Connections, NEW u \in Txs, Fits(u),
           NEW L \in SUBSET Locks, Moves(c, u, L)
    PROVE  /\ tx' \in [Connections -> Txs] /\ locks' \in [Connections -> SUBSET Locks]
           /\ \A d \in Connections : Fits(tx'[d])
           /\ tx'[c] = u /\ locks'[c] = L
           /\ \A d \in Connections : d # c => tx'[d] = tx[d] /\ locks'[d] = locks[d]
<1>1. tx \in [Connections -> Txs] /\ locks \in [Connections -> SUBSET Locks]
  BY DEF TypeInv, TypeOK, Txs
<1>2. \A d \in Connections : Fits(tx[d])
  BY DEF TypeInv
<1>3. /\ tx'[c] = u /\ locks'[c] = L
      /\ \A d \in Connections : d # c => tx'[d] = tx[d] /\ locks'[d] = locks[d]
  BY <1>1 DEF Moves
<1>4. tx' \in [Connections -> Txs] /\ locks' \in [Connections -> SUBSET Locks]
  BY <1>1 DEF Moves
<1>5. QED
  BY <1>2, <1>3, <1>4

LEMMA BeginKeeps ==
    ASSUME LockInv, NEW c \in Connections, NEW kind, NEW id, Begin(c, kind, id),
           Legit(kind, id)
    PROVE  LockInv'
<1> DEFINE u == Started(kind, id)
<1>1. /\ TypeInv /\ OwnRows /\ Held /\ Exclusive /\ ReadsHold /\ TypeOK
      /\ account \in Accounts /\ column \in [Ids -> Columns]
      /\ locks[c] \in SUBSET Locks
  BY DEF LockInv, TypeInv, TypeOK
<1>2. /\ u \in Txs /\ Fits(u) /\ u.kind = kind /\ u.id = id /\ ~u.seen.granted
      /\ \A st : ~Did(u, st)
  <2>1. u.kind = kind /\ u.id = id /\ ~u.seen.granted /\ u.done = 0
    BY DEF Started, Unopened
  <2>2. QED
    BY <2>1, StartedFits, NothingDone
<1>3. account' = account /\ column' = column /\ locks' = locks /\ tx[c] = NoTx
  BY DEF Begin
<1>4. Moves(c, u, locks[c])
  BY <1>1, StartMoves
<1> HIDE DEF u
<1>5. /\ tx' \in [Connections -> Txs] /\ locks' \in [Connections -> SUBSET Locks]
      /\ \A d \in Connections : Fits(tx'[d])
      /\ tx'[c] = u
      /\ \A d \in Connections : d # c => tx'[d] = tx[d]
  BY <1>1, <1>2, <1>4, OthersStay
<1>6. TypeInv'
  BY <1>1, <1>3, <1>5 DEF TypeInv, TypeOK, Txs
<1>7. OwnRows'
  <2>1. kind \in {"create", "topup"} => Fresh(id)
    BY DEF Legit
  <2>2. kind \in {"complete", "fail", "touch", "paid"} => column[id] # "none"
    BY DEF Legit
  <2>3. \A d, e \in Connections :
          tx'[d].kind \in {"create", "topup"} /\ tx'[e].id = tx'[d].id => d = e
    <3> SUFFICES ASSUME NEW d \in Connections, NEW e \in Connections,
                        tx'[d].kind \in {"create", "topup"}, tx'[e].id = tx'[d].id, d # e
                 PROVE  FALSE
      OBVIOUS
    <3>1. CASE d = c
      <4>1. Fresh(id) /\ tx[e].id = id
        BY <1>2, <1>5, <2>1, <3>1
      <4>2. QED
        BY <4>1 DEF Fresh
    <3>2. CASE e = c
      <4>1. tx[d].kind \in {"create", "topup"} /\ tx[d].id = id /\ column[id] = "none"
        BY <1>1, <1>2, <1>5, <3>2 DEF OwnRows
      <4>2. ~Fresh(id)
        BY <4>1 DEF Fresh
      <4>3. kind = "look"
        BY <2>2, <4>1, <4>2 DEF Legit
      <4>4. id = NoRow /\ tx[d] \in Txs /\ Fits(tx[d])
        BY <1>1, <4>3 DEF Legit, TypeInv, TypeOK, Txs
      <4>5. id \in Ids
        BY <4>1, <4>4, AboutItsRow
      <4>6. QED
        BY <4>4, <4>5, RowsAssumption DEF Rows
    <3>3. CASE d # c /\ e # c
      BY <1>1, <1>5, <3>3 DEF OwnRows
    <3>4. QED
      BY <3>1, <3>2, <3>3
  <2>4. \A d \in Connections :
          /\ tx'[d].kind \in {"create", "topup"} => column[tx'[d].id] = "none"
          /\ tx'[d].kind \in {"complete", "fail", "touch", "paid"} => column[tx'[d].id] # "none"
          /\ tx'[d].seen.granted => tx'[d].seen.open
    <3> SUFFICES ASSUME NEW d \in Connections
                 PROVE  /\ tx'[d].kind \in {"create", "topup"} => column[tx'[d].id] = "none"
                        /\ tx'[d].kind \in {"complete", "fail", "touch", "paid"}
                              => column[tx'[d].id] # "none"
                        /\ tx'[d].seen.granted => tx'[d].seen.open
      OBVIOUS
    <3>1. CASE d = c
      BY <1>2, <1>5, <2>1, <2>2, <3>1 DEF Fresh
    <3>2. CASE d # c
      BY <1>1, <1>5, <3>2 DEF OwnRows
    <3>3. QED
      BY <3>1, <3>2
  <2>5. QED
    BY <1>1, <1>3, <2>3, <2>4 DEF OwnRows
<1>8. Held'
  <2> SUFFICES ASSUME NEW d \in Connections
               PROVE  HeldBy(tx'[d], locks'[d])
    BY DEF Held
  <2>1. CASE d # c
    BY <1>1, <1>3, <1>5, <2>1 DEF Held
  <2>2. CASE d = c
    <3>1. HeldBy(NoTx, locks[c])
      BY <1>1, <1>3 DEF Held
    <3>2. locks[c] = {}
      BY <3>1, FreeFits DEF HeldBy
    <3>3. QED
      BY <1>2, <1>3, <1>5, <2>2, <3>2 DEF HeldBy
  <2>3. QED
    BY <2>1, <2>2
<1>9. Exclusive'
  BY <1>1, <1>3 DEF Exclusive
<1>10. ReadsHold'
  BY <1>1, <1>2, <1>3, <1>5 DEF ReadsHold
<1>11. QED
  BY <1>6, <1>7, <1>8, <1>9, <1>10 DEF LockInv

LEMMA ProceedKeeps ==
    ASSUME LockInv, NEW c \in Connections, Proceed(c)
    PROVE  LockInv'
<1> DEFINE t == tx[c]
           u == After(t)
           m == Coming(t)
           L == locks[c] \cup Taken(m)
<1>1. /\ TypeInv /\ OwnRows /\ Held /\ Exclusive /\ ReadsHold /\ TypeOK
      /\ account \in Accounts /\ column \in [Ids -> Columns]
      /\ locks[c] \in SUBSET Locks /\ t \in Txs /\ Fits(t)
  BY DEF LockInv, TypeInv, TypeOK, Txs
<1>2. account' = account /\ column' = column /\ ~Finished(t)
      /\ \A d \in Connections : ~Waits(c, d)
  BY DEF Proceed
<1>3. Moves(c, u, L)
  BY <1>1, ProceedMoves
<1>4. u \in Txs /\ Fits(u)
  BY <1>1, <1>2, AfterFits
<1>5. /\ u.kind = t.kind /\ u.id = t.id /\ u.done = t.done + 1
      /\ u.seen = (IF m = SelectAccount THEN account ELSE t.seen)
      /\ u.read = (IF m = SelectRow(t.id) THEN column[t.id] ELSE t.read)
  BY DEF After
<1>6. \A st : Did(u, st) <=> Did(t, st) \/ st = m
  BY <1>1, <1>2, <1>5, OneMore
<1>7. /\ m \in Locks
      /\ m # InsertAccount => m.mode \notin {"plain", "insert"}
      /\ m \in AboutRow(t.id) \cup AboutUser \cup AboutAccount
  BY <1>1, <1>2, ComingLock, ComingStatement
<1>8. Taken(m) = IF m # InsertAccount THEN {m}
                 ELSE IF account.open THEN {} ELSE {SelectAccount}
  BY <1>7 DEF Taken, InsertAccount, SelectAccount, Lock
<1>9. SelectAccount \in Locks
  BY DEF SelectAccount, Lock, Locks, Rows, Modes
<1>10. L \in SUBSET Locks
  BY <1>1, <1>7, <1>8, <1>9
<1> HIDE DEF u, m, L
<1>11. /\ tx' \in [Connections -> Txs] /\ locks' \in [Connections -> SUBSET Locks]
       /\ \A d \in Connections : Fits(tx'[d])
       /\ tx'[c] = u /\ locks'[c] = L
       /\ \A d \in Connections : d # c => tx'[d] = tx[d] /\ locks'[d] = locks[d]
  BY <1>1, <1>3, <1>4, <1>10, OthersStay
<1>12. TypeInv'
  BY <1>1, <1>2, <1>11 DEF TypeInv, TypeOK, Txs
<1>13. OwnRows'
  <2>1. \A d \in Connections : tx'[d].kind = tx[d].kind /\ tx'[d].id = tx[d].id
    BY <1>5, <1>11
  <2>2. \A d \in Connections : tx'[d].seen.granted => tx'[d].seen.open
    BY <1>1, <1>5, <1>11 DEF OwnRows
  <2>3. QED
    BY <1>1, <1>2, <2>1, <2>2 DEF OwnRows
<1>14. Held'
  <2> SUFFICES ASSUME NEW d \in Connections
               PROVE  HeldBy(tx'[d], locks'[d])
    BY DEF Held
  <2>1. CASE d # c
    BY <1>1, <1>11, <2>1 DEF Held
  <2>2. HeldBy(t, locks[c])
    BY <1>1 DEF Held
  <2>3. \A st \in Locks : Did(u, st) /\ st # InsertAccount => st \in L
    BY <1>6, <1>8, <2>2 DEF HeldBy, L
  <2>4. t.kind = "paid" => account.open
    <3> SUFFICES ASSUME t.kind = "paid"
                 PROVE  account.open
      OBVIOUS
    <3>1. t.id \in Invoices /\ column[t.id] # "none"
      BY <1>1 DEF Fits, InvoiceKinds, OwnRows
    <3>2. QED
      BY <1>1, <3>1 DEF OwnRows
  <2>5. \A l \in L : \/ Did(u, l) /\ l # InsertAccount
                     \/ Did(u, InsertAccount) /\ u.kind # "paid" /\ l = SelectAccount
    BY <1>5, <1>6, <1>8, <2>2, <2>4 DEF HeldBy, L
  <2>6. CASE d = c
    BY <1>11, <2>3, <2>5, <2>6 DEF HeldBy
  <2>7. QED
    BY <2>1, <2>6
<1>15. \A d \in Connections : \A k \in locks[d], n \in Taken(m) :
          d # c /\ k.row = n.row => ~Conflict(k.mode, n.mode) /\ ~Conflict(n.mode, k.mode)
  <2> SUFFICES ASSUME NEW d \in Connections, NEW k \in locks[d], NEW n \in Taken(m),
                      d # c, k.row = n.row
               PROVE  ~Conflict(k.mode, n.mode) /\ ~Conflict(n.mode, k.mode)
    OBVIOUS
  <2>1. ~Waits(c, d)
    BY <1>2
  <2>2. Settled(m) \/ k.row # m.row \/ ~Conflict(m.mode, k.mode)
    BY <1>2, <2>1 DEF Waits, m
  <2>3. CASE m # InsertAccount
    <3>1. n = m /\ ~Settled(m)
      BY <1>7, <1>8, <2>3 DEF Settled
    <3>2. ~Conflict(m.mode, k.mode)
      BY <2>2, <3>1
    <3>3. QED
      BY <3>1, <3>2 DEF Conflict
  <2>4. CASE m = InsertAccount
    <3>1. n = SelectAccount /\ ~account.open
      BY <1>8, <2>4
    <3>2. k.row = Account /\ m.row = Account /\ ~Conflict("insert", k.mode)
      BY <2>2, <2>4, <3>1 DEF Settled, InsertAccount, SelectAccount, Lock
    <3>3. k = SelectAccount \/ k \in AboutUser \/ (k \in AboutRow(tx[d].id) /\ tx[d].id \in Ids)
      BY <1>1, HeldLocks
    <3>4. k = SelectAccount
      BY <3>2, <3>3, RowsAssumption
         DEF AboutUser, UpdateUsername, NameUser, AboutRow, SelectRow, UpdateRow, NameRow, Lock
    <3>5. Conflict("insert", k.mode)
      BY <3>4 DEF SelectAccount, Lock, Conflict
    <3>6. QED
      BY <3>2, <3>5
  <2>5. QED
    BY <2>3, <2>4
<1>16. Exclusive'
  <2> SUFFICES ASSUME NEW d \in Connections, NEW e \in Connections,
                      NEW k \in locks'[d], NEW n \in locks'[e], d # e, k.row = n.row
               PROVE  ~Conflict(k.mode, n.mode)
    BY DEF Exclusive
  <2>1. CASE d # c /\ e # c
    BY <1>1, <1>11, <2>1 DEF Exclusive
  <2>2. CASE d = c
    <3>1. n \in locks[e] /\ (k \in locks[c] \/ k \in Taken(m))
      BY <1>11, <2>2 DEF L
    <3>2. QED
      BY <1>1, <1>15, <2>2, <3>1 DEF Exclusive
  <2>3. CASE e = c
    <3>1. k \in locks[d] /\ (n \in locks[c] \/ n \in Taken(m))
      BY <1>11, <2>3 DEF L
    <3>2. QED
      BY <1>1, <1>15, <2>3, <3>1 DEF Exclusive
  <2>4. QED
    BY <2>1, <2>2, <2>3
<1>17. ReadsHold'
  <2> SUFFICES ASSUME NEW d \in Connections
               PROVE  /\ Did(tx'[d], SelectAccount) => tx'[d].seen = account
                      /\ Did(tx'[d], SelectRow(tx'[d].id)) => tx'[d].read = column[tx'[d].id]
    BY <1>2 DEF ReadsHold
  <2>1. CASE d # c
    BY <1>1, <1>11, <2>1 DEF ReadsHold
  <2>2. CASE d = c
    BY <1>1, <1>5, <1>6, <1>11, <2>2 DEF ReadsHold
  <2>3. QED
    BY <2>1, <2>2
<1>18. QED
  BY <1>12, <1>13, <1>14, <1>16, <1>17 DEF LockInv

(* The end of a transaction, whatever it leaves committed: the others keep *)
(* their transactions and locks.                                           *)
LEMMA EndMoves ==
    ASSUME LockInv, NEW c \in Connections, Ends(c)
    PROVE  /\ tx' \in [Connections -> Txs] /\ locks' \in [Connections -> SUBSET Locks]
           /\ \A d \in Connections : Fits(tx'[d])
           /\ tx'[c] = NoTx /\ locks'[c] = {}
           /\ \A d \in Connections : d # c => tx'[d] = tx[d] /\ locks'[d] = locks[d]
           /\ Held' /\ Exclusive'
<1>1. TypeInv /\ Held /\ Exclusive
  BY DEF LockInv
<1>2. Moves(c, NoTx, {})
  BY DEF Ends, Moves
<1>3. /\ tx' \in [Connections -> Txs] /\ locks' \in [Connections -> SUBSET Locks]
      /\ \A d \in Connections : Fits(tx'[d])
      /\ tx'[c] = NoTx /\ locks'[c] = {}
      /\ \A d \in Connections : d # c => tx'[d] = tx[d] /\ locks'[d] = locks[d]
  BY <1>1, <1>2, FreeFits, OthersStay
<1>4. Held'
  <2> SUFFICES ASSUME NEW d \in Connections
               PROVE  HeldBy(tx'[d], locks'[d])
    BY DEF Held
  <2>1. CASE d = c
    BY <1>3, <2>1, FreeFits DEF HeldBy
  <2>2. CASE d # c
    BY <1>1, <1>3, <2>2 DEF Held
  <2>3. QED
    BY <2>1, <2>2
<1>5. Exclusive'
  BY <1>1, <1>3 DEF Exclusive
<1>6. QED
  BY <1>3, <1>4, <1>5

LEMMA FreeKind == NoTx.kind = "none" /\ NoTx.id = NoRow /\ ~NoTx.seen.granted
  BY DEF NoTx, Started, Unopened

LEMMA RollbackKeeps ==
    ASSUME LockInv, NEW c \in Connections, Rollback(c)
    PROVE  LockInv'
<1>1. /\ TypeInv /\ OwnRows /\ ReadsHold /\ TypeOK
      /\ account' = account /\ column' = column /\ Ends(c)
  BY DEF LockInv, TypeInv, Rollback
<1>2. /\ tx' \in [Connections -> Txs] /\ locks' \in [Connections -> SUBSET Locks]
      /\ \A d \in Connections : Fits(tx'[d])
      /\ tx'[c] = NoTx
      /\ \A d \in Connections : d # c => tx'[d] = tx[d]
      /\ Held' /\ Exclusive'
  BY <1>1, EndMoves
<1>3. TypeInv'
  BY <1>1, <1>2 DEF TypeInv, TypeOK, Txs
<1>4. OwnRows'
  <2>1. \A d, e \in Connections :
          tx'[d].kind \in {"create", "topup"} /\ tx'[e].id = tx'[d].id => d = e
    <3> SUFFICES ASSUME NEW d \in Connections, NEW e \in Connections,
                        tx'[d].kind \in {"create", "topup"}, tx'[e].id = tx'[d].id, d # e
                 PROVE  FALSE
      OBVIOUS
    <3>1. d # c
      BY <1>2, FreeKind
    <3>2. tx[d] \in Txs /\ Fits(tx[d]) /\ tx[d].kind \in {"create", "topup"}
      BY <1>1, <1>2, <3>1 DEF TypeInv, TypeOK, Txs
    <3>3. tx[d].id # NoRow
      BY <3>2, AboutItsRow, RowsAssumption DEF Rows
    <3>4. e # c
      BY <1>2, <3>1, <3>3, FreeKind
    <3>5. QED
      BY <1>1, <1>2, <3>1, <3>4 DEF OwnRows
  <2>2. QED
    BY <1>1, <1>2, <2>1, FreeKind DEF OwnRows
<1>5. ReadsHold'
  BY <1>1, <1>2, FreeFits DEF ReadsHold
<1>6. QED
  BY <1>2, <1>3, <1>4, <1>5 DEF LockInv

(* What a transaction that commits has read is still so, and nobody else   *)
(* has read it for update.                                                 *)
LEMMA CommitterIsAlone ==
    ASSUME LockInv, NEW c \in Connections, Commit(c)
    PROVE  /\ tx[c] \in Txs /\ Fits(tx[c]) /\ tx[c].kind \in Kinds
           /\ tx[c].kind # "touch" =>
                 /\ tx[c].seen = account
                 /\ \A d \in Connections : d # c => ~Did(tx[d], SelectAccount)
           /\ tx[c].kind \notin {"touch", "look"} =>
                 /\ tx[c].id \in Ids /\ tx[c].read = column[tx[c].id]
                 /\ \A d \in Connections :
                       d # c /\ tx[d].id = tx[c].id => ~Did(tx[d], SelectRow(tx[c].id))
<1> DEFINE t == tx[c]
<1>1. /\ TypeInv /\ Held /\ Exclusive /\ ReadsHold
      /\ \A d \in Connections : HeldBy(tx[d], locks[d])
  BY DEF LockInv, Held
<1>2. t \in Txs /\ Fits(t) /\ Finished(t) /\ t.kind # "none"
  BY <1>1 DEF TypeInv, TypeOK, Txs, Commit
<1>3. t.kind \in Kinds
  BY <1>2 DEF Txs
<1>4. ASSUME t.kind # "touch"
      PROVE  /\ t.seen = account
             /\ \A d \in Connections : d # c => ~Did(tx[d], SelectAccount)
  <2>1. Did(t, SelectAccount)
    BY <1>2, <1>4, AtTheEnd
  <2>2. /\ SelectAccount \in Locks /\ SelectAccount # InsertAccount
        /\ Conflict(SelectAccount.mode, SelectAccount.mode)
    BY DEF SelectAccount, InsertAccount, Lock, Locks, Rows, Modes, Conflict
  <2>3. \A d \in Connections : Did(tx[d], SelectAccount) => SelectAccount \in locks[d]
    BY <1>1, <2>2 DEF HeldBy
  <2>4. QED
    BY <1>1, <2>1, <2>2, <2>3 DEF Exclusive, ReadsHold
<1>5. ASSUME t.kind \notin {"touch", "look"}
      PROVE  /\ t.id \in Ids /\ t.read = column[t.id]
             /\ \A d \in Connections :
                   d # c /\ tx[d].id = t.id => ~Did(tx[d], SelectRow(t.id))
  <2>1. t.id \in Ids
    BY <1>2, <1>5, AboutItsRow
  <2>2. Did(t, SelectRow(t.id))
    BY <1>2, <1>5, AtTheEnd
  <2>3. /\ SelectRow(t.id) \in Locks /\ SelectRow(t.id) # InsertAccount
        /\ Conflict(SelectRow(t.id).mode, SelectRow(t.id).mode)
    BY <2>1 DEF SelectRow, InsertAccount, Lock, Locks, Rows, Modes, Conflict
  <2>4. \A d \in Connections : Did(tx[d], SelectRow(t.id)) => SelectRow(t.id) \in locks[d]
    BY <1>1, <2>3 DEF HeldBy
  <2>5. QED
    BY <1>1, <2>1, <2>2, <2>3, <2>4 DEF Exclusive, ReadsHold
<1>6. QED
  BY <1>2, <1>3, <1>4, <1>5

(* An account that is up to date is open, and not in debt.                 *)
LEMMA EnsuredType ==
    ASSUME NEW x \in Accounts, x.granted => x.open, NEW a \in Ensured(x)
    PROVE  a \in Accounts /\ a.open /\ a.granted
<1>1. StarterGrant \in Nat
  BY AmountsAssumption
<1>2. CASE ~x.granted
  <2>1. a = [x EXCEPT !.open = TRUE, !.balance = @ + StarterGrant, !.granted = TRUE]
    BY <1>2 DEF Ensured
  <2>2. x.balance + StarterGrant \in Nat
    BY <1>1 DEF Accounts
  <2>3. QED
    BY <2>1, <2>2 DEF Accounts
<1>3. CASE x.granted
  <2>1. x.open
    BY <1>3
  <2>2. CASE a = x
    BY <1>3, <2>1, <2>2
  <2>3. CASE a # x
    <3>1. PICK n \in {m \in 1 .. x.balance : m <= StarterGrant /\ ~x.expired} :
             a = [x EXCEPT !.balance = @ - n, !.expired = TRUE]
      BY <1>3, <2>3 DEF Ensured
    <3>2. x.balance \in Nat /\ x.balance - n \in Nat
      BY <3>1 DEF Accounts
    <3>3. QED
      BY <1>3, <2>1, <3>1, <3>2 DEF Accounts
  <2>4. QED
    BY <2>2, <2>3
<1>4. QED
  BY <1>2, <1>3

(* What a body adds to an account, and the column it leaves.               *)
LEMMA EffectType ==
    ASSUME NEW kind \in Kinds \ {"touch"}, NEW id \in Ids \cup {NoRow},
           kind \in InvoiceKinds => id \in Invoices, NEW col \in Columns,
           kind \in {"complete", "fail", "paid"} => col # "none"
    PROVE  /\ Effect(kind, id, col).column \in Columns
           /\ kind # "look" => Effect(kind, id, col).column # "none"
           /\ Effect(kind, id, col).credits \in Int
           /\ kind # "create" => Effect(kind, id, col).credits \in Nat
           /\ kind = "create" => Effect(kind, id, col).credits = -Cost
<1>1. Cost \in Nat /\ \A i \in Invoices : Credits[i] \in Nat
  BY AmountsAssumption
<1>2. CASE kind = "create"
  BY <1>1, <1>2 DEF Effect, Change, Columns
<1>3. CASE kind = "complete"
  BY <1>3 DEF Effect, Change, Columns
<1>4. CASE kind = "fail"
  BY <1>1, <1>4 DEF Effect, Change, Columns
<1>5. CASE kind = "topup"
  BY <1>5 DEF Effect, Change, Columns
<1>6. CASE kind = "paid"
  BY <1>1, <1>6 DEF Effect, Change, Columns, InvoiceKinds
<1>7. CASE kind = "look"
  BY <1>7 DEF Effect, Change, Columns
<1>8. QED
  BY <1>2, <1>3, <1>4, <1>5, <1>6, <1>7 DEF Kinds

(* A body leaves an open account that is not in debt, and a column.        *)
LEMMA BodyResult ==
    ASSUME NEW kind \in Kinds \ {"touch"}, NEW id \in Ids \cup {NoRow},
           kind \in InvoiceKinds => id \in Invoices,
           NEW a \in Accounts, a.open, NEW col \in Columns,
           Affords(kind, a), kind \in {"complete", "fail", "paid"} => col # "none"
    PROVE  /\ Body(kind, id, a, col).account \in Accounts
           /\ Body(kind, id, a, col).account.open
           /\ Body(kind, id, a, col).column \in Columns
           /\ kind # "look" => Body(kind, id, a, col).column # "none"
<1>1. PICK e : e = Effect(kind, id, col)
  OBVIOUS
<1>2. /\ e.column \in Columns /\ (kind # "look" => e.column # "none")
      /\ e.credits \in Int /\ (kind # "create" => e.credits \in Nat)
      /\ kind = "create" => e.credits = -Cost
  BY <1>1, EffectType
<1>3. a.balance + e.credits \in Nat
  <2>1. a.balance \in Nat /\ Cost \in Nat
    BY AmountsAssumption DEF Accounts
  <2>2. CASE kind = "create"
    <3>1. a.balance >= Cost
      BY <2>2 DEF Affords
    <3>2. QED
      BY <1>2, <2>1, <2>2, <3>1
  <2>3. CASE kind # "create"
    BY <1>2, <2>1, <2>3
  <2>4. QED
    BY <2>2, <2>3
<1> DEFINE after == [a EXCEPT !.balance = @ + e.credits]
<1>4. Body(kind, id, a, col) = [account |-> after, column |-> e.column]
  BY <1>1 DEF Body
<1>5. after \in Accounts /\ after.open
  BY <1>3 DEF Accounts
<1> HIDE DEF after
<1>6. Body(kind, id, a, col).account = after /\ Body(kind, id, a, col).column = e.column
  BY <1>4
<1>7. QED
  BY <1>2, <1>5, <1>6

LEMMA CommitKeeps ==
    ASSUME LockInv, NEW c \in Connections, Commit(c)
    PROVE  LockInv'
<1> DEFINE t == tx[c]
<1>0. PICK a \in Ensured(t.seen) :
        /\ Affords(t.kind, a)
        /\ account' = (IF t.kind = "touch" THEN account
                       ELSE Body(t.kind, t.id, a, t.read).account)
        /\ column' = (IF t.kind \in {"touch", "look"} THEN column
                      ELSE [column EXCEPT ![t.id] = Body(t.kind, t.id, a, t.read).column])
  BY DEF Commit
<1> DEFINE b == Body(t.kind, t.id, a, t.read)
<1>1. /\ TypeInv /\ OwnRows /\ ReadsHold /\ TypeOK
      /\ account \in Accounts /\ column \in [Ids -> Columns]
  BY DEF LockInv, TypeInv, TypeOK
<1>2. /\ Ends(c) /\ Affords(t.kind, a)
      /\ account' = (IF t.kind = "touch" THEN account ELSE b.account)
      /\ column' = (IF t.kind \in {"touch", "look"} THEN column
                    ELSE [column EXCEPT ![t.id] = b.column])
  BY <1>0 DEF Commit
<1>3. /\ tx' \in [Connections -> Txs] /\ locks' \in [Connections -> SUBSET Locks]
      /\ \A d \in Connections : Fits(tx'[d])
      /\ tx'[c] = NoTx
      /\ \A d \in Connections : d # c => tx'[d] = tx[d]
      /\ Held' /\ Exclusive'
  BY <1>2, EndMoves
<1>4. /\ t \in Txs /\ Fits(t) /\ t.kind \in Kinds
      /\ t.kind # "touch" =>
            /\ t.seen = account
            /\ \A d \in Connections : d # c => ~Did(tx[d], SelectAccount)
      /\ t.kind \notin {"touch", "look"} =>
            /\ t.id \in Ids /\ t.read = column[t.id]
            /\ \A d \in Connections :
                  d # c /\ tx[d].id = t.id => ~Did(tx[d], SelectRow(t.id))
  BY CommitterIsAlone
<1>5. ASSUME t.kind # "touch"
      PROVE  /\ b.account \in Accounts /\ b.account.open /\ b.column \in Columns
             /\ t.kind # "look" => b.column # "none"
  <2>1. t.kind \in Kinds \ {"touch"} /\ t.id \in Ids \cup {NoRow}
        /\ t.seen \in Accounts /\ t.read \in Columns
        /\ (t.kind \in InvoiceKinds => t.id \in Invoices)
    BY <1>4, <1>5 DEF Txs, Fits
  <2>2. t.seen.granted => t.seen.open
    BY <1>1 DEF OwnRows
  <2>3. t.kind \in {"complete", "fail", "paid"} => t.read # "none"
    BY <1>1, <1>4 DEF OwnRows
  <2>4. a \in Accounts /\ a.open
    BY <2>1, <2>2, EnsuredType
  <2>5. QED
    BY <1>2, <2>1, <2>3, <2>4, BodyResult
<1> HIDE DEF b
<1>6. /\ account' \in Accounts /\ column' \in [Ids -> Columns]
      /\ t.kind = "touch" => account' = account
      /\ t.kind # "touch" => account'.open
      /\ t.kind \in {"touch", "look"} => column' = column
      /\ \A i \in Ids : i # t.id => column'[i] = column[i]
      /\ t.kind \notin {"touch", "look"} => column'[t.id] # "none"
  BY <1>1, <1>2, <1>4, <1>5
<1>7. TypeInv'
  BY <1>3, <1>6 DEF TypeInv, TypeOK, Txs
<1>8. \A d \in Connections :
        d # c /\ tx[d].kind \in {"create", "topup"} => tx[d].id \in Ids /\ tx[d].id # t.id
  <2> SUFFICES ASSUME NEW d \in Connections, d # c, tx[d].kind \in {"create", "topup"}
               PROVE  tx[d].id \in Ids /\ tx[d].id # t.id
    OBVIOUS
  <2>1. tx[d] \in Txs /\ Fits(tx[d])
    BY <1>1 DEF TypeInv, TypeOK, Txs
  <2>2. tx[d].id \in Ids
    BY <2>1, AboutItsRow
  <2>3. QED
    BY <1>1, <2>2 DEF OwnRows
<1>9. OwnRows'
  <2>1. \A d, e \in Connections :
          tx'[d].kind \in {"create", "topup"} /\ tx'[e].id = tx'[d].id => d = e
    <3> SUFFICES ASSUME NEW d \in Connections, NEW e \in Connections,
                        tx'[d].kind \in {"create", "topup"}, tx'[e].id = tx'[d].id, d # e
                 PROVE  FALSE
      OBVIOUS
    <3>1. d # c
      BY <1>3, FreeKind
    <3>2. tx[d].id # NoRow /\ tx'[d] = tx[d]
      BY <1>3, <1>8, <3>1, RowsAssumption DEF Rows
    <3>3. e # c
      BY <1>3, <3>2, FreeKind
    <3>4. QED
      BY <1>1, <1>3, <3>1, <3>3 DEF OwnRows
  <2>2. \A d \in Connections :
          /\ tx'[d].kind \in {"create", "topup"} => column'[tx'[d].id] = "none"
          /\ tx'[d].kind \in {"complete", "fail", "touch", "paid"}
                => column'[tx'[d].id] # "none"
          /\ tx'[d].seen.granted => tx'[d].seen.open
    <3> SUFFICES ASSUME NEW d \in Connections
                 PROVE  /\ tx'[d].kind \in {"create", "topup"} => column'[tx'[d].id] = "none"
                        /\ tx'[d].kind \in {"complete", "fail", "touch", "paid"}
                              => column'[tx'[d].id] # "none"
                        /\ tx'[d].seen.granted => tx'[d].seen.open
      OBVIOUS
    <3>1. CASE d = c
      BY <1>3, <3>1, FreeKind
    <3>2. CASE d # c
      <4>1. /\ tx'[d] = tx[d]
            /\ tx[d].kind \in {"create", "topup"} => column[tx[d].id] = "none"
            /\ tx[d].kind \in {"complete", "fail", "touch", "paid"} => column[tx[d].id] # "none"
            /\ tx[d].seen.granted => tx[d].seen.open
        BY <1>1, <1>3, <3>2 DEF OwnRows
      <4>2. tx[d].kind \in {"create", "topup"} => column'[tx[d].id] = column[tx[d].id]
        BY <1>6, <1>8, <3>2
      <4>3. tx[d].kind \in {"complete", "fail", "touch", "paid"} => tx[d].id \in Ids
        <5>1. tx[d] \in Txs /\ Fits(tx[d])
          BY <1>1 DEF TypeInv, TypeOK, Txs
        <5>2. QED
          BY <5>1, AboutItsRow
      <4>4. tx[d].kind \in {"complete", "fail", "touch", "paid"} => column'[tx[d].id] # "none"
        BY <1>6, <4>1, <4>3
      <4>5. QED
        BY <4>1, <4>2, <4>4
    <3>3. QED
      BY <3>1, <3>2
  <2>3. \A i \in Invoices : column'[i] # "none" => account'.open
    BY <1>1, <1>6 DEF OwnRows
  <2>4. account'.granted => account'.open
    BY <1>1, <1>6 DEF OwnRows
  <2>5. QED
    BY <2>1, <2>2, <2>3, <2>4 DEF OwnRows
<1>10. ReadsHold'
  <2> SUFFICES ASSUME NEW d \in Connections
               PROVE  /\ Did(tx'[d], SelectAccount) => tx'[d].seen = account'
                      /\ Did(tx'[d], SelectRow(tx'[d].id))
                            => tx'[d].read = column'[tx'[d].id]
    BY DEF ReadsHold
  <2>1. CASE d = c
    BY <1>3, <2>1, FreeFits
  <2>2. CASE d # c
    <3>1. /\ tx'[d] = tx[d]
          /\ Did(tx[d], SelectAccount) => tx[d].seen = account
          /\ Did(tx[d], SelectRow(tx[d].id)) => tx[d].read = column[tx[d].id]
      BY <1>1, <1>3, <2>2 DEF ReadsHold
    <3>2. Did(tx[d], SelectAccount) => account' = account
      BY <1>4, <1>6, <2>2
    <3>3. Did(tx[d], SelectRow(tx[d].id)) => column'[tx[d].id] = column[tx[d].id]
      <4>1. Did(tx[d], SelectRow(tx[d].id)) => tx[d].id \in Ids
        <5>1. tx[d] \in Txs /\ Fits(tx[d])
          BY <1>1 DEF TypeInv, TypeOK, Txs
        <5>2. SelectRow(tx[d].id) \in AboutRow(tx[d].id)
          BY DEF AboutRow
        <5>3. QED
          BY <5>1, <5>2, Executed, AboutItsRow
      <4>2. QED
        BY <1>4, <1>6, <2>2, <4>1
    <3>4. QED
      BY <3>1, <3>2, <3>3
  <2>3. QED
    BY <2>1, <2>2
<1>11. QED
  BY <1>3, <1>7, <1>9, <1>10 DEF LockInv

LEMMA InitLocks == Init => LockInv
<1> SUFFICES ASSUME Init
             PROVE  LockInv
  OBVIOUS
<1>1. /\ account = Unopened /\ column = [i \in Ids |-> "none"]
      /\ tx = [c \in Connections |-> NoTx] /\ locks = [c \in Connections |-> {}]
  BY DEF Init
<1>2. Unopened \in Accounts /\ ~Unopened.granted
  BY DEF Unopened, Accounts
<1>3. TypeInv
  <2>1. NoTx \in Txs /\ Fits(NoTx)
    BY FreeFits
  <2>2. QED
    BY <1>1, <1>2, <2>1 DEF TypeInv, TypeOK, Txs, Columns
<1>4. OwnRows
  <2>1. \A i \in Invoices : column[i] = "none"
    BY <1>1 DEF Ids
  <2>2. QED
    BY <1>1, <1>2, <2>1, FreeKind DEF OwnRows
<1>5. Held
  BY <1>1, FreeFits DEF Held, HeldBy
<1>6. Exclusive
  BY <1>1 DEF Exclusive
<1>7. ReadsHold
  BY <1>1, FreeFits DEF ReadsHold
<1>8. QED
  BY <1>3, <1>4, <1>5, <1>6, <1>7 DEF LockInv

(* Every step keeps the invariant.                                         *)
LEMMA StepLocks == LockInv /\ [Next]_vars => LockInv'
<1> SUFFICES ASSUME LockInv, [Next]_vars
             PROVE  LockInv'
  OBVIOUS
<1>1. ASSUME NEW c \in Connections, Start(c)
      PROVE  LockInv'
  BY <1>1, StartBegins, BeginKeeps
<1>2. ASSUME NEW c \in Connections, Proceed(c)
      PROVE  LockInv'
  BY <1>2, ProceedKeeps
<1>3. ASSUME NEW c \in Connections, Commit(c)
      PROVE  LockInv'
  BY <1>3, CommitKeeps
<1>4. ASSUME NEW c \in Connections, Rollback(c)
      PROVE  LockInv'
  BY <1>4, RollbackKeeps
<1>5. CASE UNCHANGED vars
  BY <1>5 DEF vars, LockInv, TypeInv, TypeOK, OwnRows, Held, Exclusive, ReadsHold
<1>6. QED
  BY <1>1, <1>2, <1>3, <1>4, <1>5 DEF Next

-----------------------------------------------------------------------------
(* Theorems                                                                *)

(* At every moment, what a transaction has read for update is what is      *)
(* committed, it holds exactly what its statements took, and no two hold   *)
(* locks that conflict.                                                    *)
THEOREM LockInvariant == Spec => []LockInv
<1>1. LockInv /\ [Next]_vars => LockInv'
  BY StepLocks
<1>2. QED
  BY InitLocks, <1>1, PTL DEF Spec

(* No interleaving of statements spends a credit that is not there.        *)
THEOREM TypesCorrect == Spec => []TypeOK
<1>1. LockInv => TypeOK
  BY DEF LockInv, TypeInv
<1>2. QED
  BY LockInvariant, <1>1, PTL

(* The order in which the transactions lock rows excludes a deadlock, for  *)
(* any number of connections.                                              *)
THEOREM NoDeadlock == Spec => []NobodyWaitsInACircle
  BY LockInvariant, NoCircle, PTL

(* A transaction that read, was overtaken and then wrote leaves what it    *)
(* would have left had it run alone at its COMMIT, on its own row too.     *)
(* This is why CreditLedger may take a body as one step.                   *)
BodiesAreAtomic ==
    [][\A c \in Connections : Commit(c) /\ tx[c].kind \notin {"touch", "look"} =>
          \E a \in Ensured(account) :
             LET b == Body(tx[c].kind, tx[c].id, a, column[tx[c].id])
             IN  account' = b.account /\ column'[tx[c].id] = b.column]_vars

(* A body that others overtook has the effect it has alone at its COMMIT.  *)
THEOREM AtomicBodies == Spec => BodiesAreAtomic
<1> DEFINE A == \A c \in Connections : Commit(c) /\ tx[c].kind \notin {"touch", "look"} =>
                   \E a \in Ensured(account) :
                      LET b == Body(tx[c].kind, tx[c].id, a, column[tx[c].id])
                      IN  account' = b.account /\ column'[tx[c].id] = b.column
<1>1. LockInv /\ [Next]_vars => [A]_vars
  <2> SUFFICES ASSUME LockInv, NEW c \in Connections, Commit(c),
                      tx[c].kind \notin {"touch", "look"}
               PROVE  \E a \in Ensured(account) :
                         LET b == Body(tx[c].kind, tx[c].id, a, column[tx[c].id])
                         IN  account' = b.account /\ column'[tx[c].id] = b.column
    OBVIOUS
  <2>1. tx[c].seen = account /\ tx[c].id \in Ids /\ tx[c].read = column[tx[c].id]
    BY CommitterIsAlone
  <2>2. column \in [Ids -> Columns]
    BY DEF LockInv, TypeInv, TypeOK
  <2>3. QED
    BY <2>1, <2>2 DEF Commit
<1> HIDE DEF A
<1>2. LockInv /\ [Next]_vars => [A]_vars
  BY <1>1
<1>3. Spec => [][A]_vars
  BY LockInvariant, <1>2, PTL DEF Spec
<1>4. QED
  BY <1>3 DEF A, BodiesAreAtomic
-----------------------------------------------------------------------------
(* Refinement                                                              *)

(* What happened to the rows, to the account, and to both.                 *)
RowEvents(col) == UNION {EventsOf(id, col[id]) : id \in Ids}

AccountEvents(a) ==
    (IF a.granted THEN {<<"starter_grant", User>>} ELSE {})
    \cup (IF a.expired THEN {<<"expiration", User>>} ELSE {})

Abstract(a, col) == <<a.balance, AccountEvents(a) \cup RowEvents(col)>>

EventKinds == {"job_reserve", "job_finalize", "job_refund", "purchase_grant"}

LEMMA EventsAreOfTheRow ==
    ASSUME NEW id, NEW col, NEW x \in EventsOf(id, col)
    PROVE  \E k \in EventKinds : x = <<k, id>>
  BY DEF EventsOf, EventKinds

(* The events of a row are those its column says.                          *)
LEMMA ColumnTells ==
    ASSUME NEW a, NEW col, NEW id \in Ids, NEW k \in EventKinds
    PROVE  <<k, id>> \in AccountEvents(a) \cup RowEvents(col)
             <=> <<k, id>> \in EventsOf(id, col[id])
<1>1. <<k, id>> \notin AccountEvents(a)
  BY DEF AccountEvents, EventKinds
<1>2. ASSUME NEW i \in Ids, <<k, id>> \in EventsOf(i, col[i])
      PROVE  i = id
  BY <1>2, EventsAreOfTheRow
<1>3. <<k, id>> \in RowEvents(col) <=> <<k, id>> \in EventsOf(id, col[id])
  BY <1>2 DEF RowEvents
<1>4. QED
  BY <1>1, <1>3

(* The account's own events are those its flags say.                       *)
LEMMA FlagsTell ==
    ASSUME NEW a, NEW col
    PROVE  /\ <<"starter_grant", User>> \in AccountEvents(a) \cup RowEvents(col)
                <=> a.granted
           /\ <<"expiration", User>> \in AccountEvents(a) \cup RowEvents(col)
                <=> a.expired
<1>1. ASSUME NEW k \in {"starter_grant", "expiration"}
      PROVE  <<k, User>> \notin RowEvents(col)
  <2> SUFFICES ASSUME NEW i \in Ids, <<k, User>> \in EventsOf(i, col[i])
               PROVE  FALSE
    BY DEF RowEvents
  <2>1. QED
    BY EventsAreOfTheRow DEF EventKinds
<1>2. QED
  BY <1>1 DEF AccountEvents

(* One column changed: what is new is what its row has more.               *)
LEMMA ColumnAdds ==
    ASSUME NEW col, NEW w, NEW id \in Ids,
           \A i \in Ids : i # id => w[i] = col[i],
           EventsOf(id, col[id]) \subseteq EventsOf(id, w[id])
    PROVE  RowEvents(w) = RowEvents(col) \cup EventsOf(id, w[id])
<1>1. \A i \in Ids : i # id => w[i] = col[i]
  OBVIOUS
<1>2. ASSUME NEW x \in RowEvents(w)
      PROVE  x \in RowEvents(col) \cup EventsOf(id, w[id])
  <2>1. PICK i \in Ids : x \in EventsOf(i, w[i])
    BY <1>2 DEF RowEvents
  <2>2. CASE i = id
    BY <1>1, <2>1, <2>2 DEF RowEvents
  <2>3. CASE i # id
    BY <1>1, <2>1, <2>3 DEF RowEvents
  <2>4. QED
    BY <2>2, <2>3
<1>3. ASSUME NEW x \in RowEvents(col)
      PROVE  x \in RowEvents(w)
  <2>1. PICK i \in Ids : x \in EventsOf(i, col[i])
    BY <1>3 DEF RowEvents
  <2>2. CASE i = id
    BY <1>1, <2>1, <2>2 DEF RowEvents
  <2>3. CASE i # id
    BY <1>1, <2>1, <2>3 DEF RowEvents
  <2>4. QED
    BY <2>2, <2>3
<1>4. EventsOf(id, w[id]) \subseteq RowEvents(w)
  BY DEF RowEvents
<1>5. QED
  BY <1>2, <1>3, <1>4

(* Bringing the account up to date is housekeeping.                        *)
LEMMA EnsuredIsHousekeeping ==
    ASSUME NEW x \in Accounts, NEW col, NEW a \in Ensured(x)
    PROVE  Abstract(a, col) \in Promise!Housekeeping(User, Abstract(x, col))
<1> DEFINE p == Abstract(x, col)
           R == RowEvents(col)
<1>1. /\ Promise!Has(p, "starter_grant", User) <=> x.granted
      /\ Promise!Has(p, "expiration", User) <=> x.expired
  BY FlagsTell DEF Promise!Has, Abstract
<1>2. p[1] = x.balance /\ p[2] = AccountEvents(x) \cup R
  BY DEF Abstract
<1>3. CASE ~x.granted
  <2>1. a = [x EXCEPT !.open = TRUE, !.balance = @ + StarterGrant, !.granted = TRUE]
    BY <1>3 DEF Ensured
  <2>2. a.balance = x.balance + StarterGrant /\ a.granted /\ a.expired = x.expired
    BY <2>1 DEF Accounts
  <2>3. AccountEvents(a) = AccountEvents(x) \cup {<<"starter_grant", User>>}
    BY <1>3, <2>2 DEF AccountEvents
  <2>4. Abstract(a, col) = Promise!Record(p, "starter_grant", User, StarterGrant)
    BY <1>2, <2>2, <2>3 DEF Abstract, Promise!Record
  <2>5. QED
    BY <1>1, <1>3, <2>4 DEF Promise!Housekeeping
<1>4. CASE x.granted /\ a = x
  BY <1>4 DEF Promise!Housekeeping
<1>5. CASE x.granted /\ a # x
  <2>1. PICK n \in {m \in 1 .. x.balance : m <= StarterGrant /\ ~x.expired} :
           a = [x EXCEPT !.balance = @ - n, !.expired = TRUE]
    BY <1>5 DEF Ensured
  <2>2. a.balance = x.balance - n /\ a.granted = x.granted /\ a.expired /\ ~x.expired
    BY <2>1 DEF Accounts
  <2>3. AccountEvents(a) = AccountEvents(x) \cup {<<"expiration", User>>}
    BY <2>2 DEF AccountEvents
  <2>4. x.balance \in Nat /\ n \in Int /\ x.balance - n = x.balance + -n
    BY <2>1 DEF Accounts
  <2>5. Abstract(a, col) = Promise!Record(p, "expiration", User, -n)
    BY <1>2, <2>2, <2>3, <2>4 DEF Abstract, Promise!Record
  <2>6. n \in {m \in 1 .. p[1] : m <= StarterGrant}
    BY <1>2, <2>1
  <2>7. QED
    BY <1>1, <1>5, <2>2, <2>5, <2>6 DEF Promise!Housekeeping
<1>6. QED
  BY <1>3, <1>4, <1>5

(* What is left of a body is one request, or none.                         *)
LEMMA BodyIsARequest ==
    ASSUME NEW kind \in Kinds \ {"touch"}, NEW id,
           kind \in JobKinds => id \in Jobs, kind \in InvoiceKinds => id \in Invoices,
           NEW col, NEW r, kind # "look" => r = col[id],
           kind \in {"create", "topup"} => r = "none",
           NEW a \in Accounts, Affords(kind, a),
           NEW w, \A i \in Ids : i # id => w[i] = col[i],
           kind = "look" => w = col,
           kind # "look" => w[id] = Body(kind, id, a, r).column
    PROVE  Abstract(Body(kind, id, a, r).account, w)
             \in Promise!Requests(User, Abstract(a, col))
<1> DEFINE p == Abstract(a, col)
           b == Body(kind, id, a, r).account
           v == Body(kind, id, a, r).column
           e == Effect(kind, id, r)
<1>1. a.balance \in Nat /\ Cost \in Nat
  BY AmountsAssumption DEF Accounts
<1>2. p[1] = a.balance /\ p[2] = AccountEvents(a) \cup RowEvents(col)
  BY DEF Abstract
<1>3. /\ b.balance = a.balance + e.credits /\ AccountEvents(b) = AccountEvents(a)
      /\ v = e.column
  <2>1. b = [a EXCEPT !.balance = @ + e.credits] /\ v = e.column
    BY DEF Body
  <2>2. b.balance = a.balance + e.credits /\ b.granted = a.granted /\ b.expired = a.expired
    BY <2>1 DEF Accounts
  <2> HIDE DEF b
  <2>3. QED
    BY <2>1, <2>2 DEF AccountEvents
<1> HIDE DEF b, v, e
<1>4. kind # "look" => w[id] = v
  BY DEF v
<1>5. ASSUME NEW E, EventsOf(id, v) = EventsOf(id, r) \cup E, id \in Ids, kind # "look"
      PROVE  Abstract(b, w) = <<a.balance + e.credits, p[2] \cup E>>
  <2>1. EventsOf(id, w[id]) = EventsOf(id, col[id]) \cup E
    BY <1>4, <1>5
  <2>2. EventsOf(id, col[id]) \subseteq EventsOf(id, w[id])
    BY <2>1
  <2>3. RowEvents(w) = RowEvents(col) \cup EventsOf(id, w[id])
    BY <1>5, <2>2, ColumnAdds
  <2>4. EventsOf(id, col[id]) \subseteq RowEvents(col)
    BY <1>5 DEF RowEvents
  <2>5. RowEvents(w) = RowEvents(col) \cup E
    BY <2>1, <2>3, <2>4
  <2>6. QED
    BY <1>2, <1>3, <2>5 DEF Abstract
<1>6. ASSUME id \in Ids, kind # "look", NEW k \in EventKinds
      PROVE  Promise!Has(p, k, id) <=> <<k, id>> \in EventsOf(id, r)
  BY <1>2, <1>6, ColumnTells DEF Promise!Has
<1>7. ASSUME kind # "look", id \in Ids, v = r \/ (v = "pending" /\ r = "none"), e.credits = 0
      PROVE  Abstract(b, w) = p
  <2>1. EventsOf(id, v) = EventsOf(id, r) \cup {}
    BY <1>7 DEF EventsOf
  <2>2. Abstract(b, w) = <<a.balance + e.credits, p[2] \cup {}>>
    BY <1>5, <1>7, <2>1
  <2>3. p[2] \cup {} = p[2] /\ a.balance + e.credits = a.balance
    BY <1>1, <1>7
  <2>4. QED
    BY <1>2, <2>2, <2>3 DEF Abstract
<1>8. p \in Promise!Requests(User, p)
  BY DEF Promise!Requests
<1>9. Promise!JobsOf(User) = Jobs /\ Promise!InvoicesOf(User) = Invoices
  BY DEF Promise!JobsOf, Promise!InvoicesOf
<1>10. CASE kind = "create"
  <2>1. id \in Jobs /\ id \in Ids /\ r = "none"
    BY <1>10 DEF JobKinds, Ids
  <2>2. e.credits = -Cost /\ v = "reserved"
    BY <1>3, <1>10 DEF e, Effect, Change
  <2>3. EventsOf(id, v) = EventsOf(id, r) \cup {<<"job_reserve", id>>} /\ EventsOf(id, r) = {}
    BY <2>1, <2>2 DEF EventsOf
  <2>4. Abstract(b, w) = Promise!Record(p, "job_reserve", id, -Cost)
    BY <1>2, <1>5, <1>10, <2>1, <2>2, <2>3 DEF Promise!Record
  <2>5. ~Promise!Has(p, "job_reserve", id)
    BY <1>6, <1>10, <2>1, <2>3 DEF EventKinds
  <2>6. p[1] >= Cost
    BY <1>2, <1>10 DEF Affords
  <2>7. QED
    BY <1>9, <2>1, <2>4, <2>5, <2>6 DEF Promise!Requests, b
<1>11. ASSUME kind \in {"complete", "fail"}, r = "reserved"
       PROVE  id \in Jobs /\ id \in Ids /\ Promise!Unsettled(p, id)
  <2>1. id \in Jobs /\ id \in Ids
    BY <1>11 DEF JobKinds, Ids
  <2>2. EventsOf(id, r) = {<<"job_reserve", id>>}
    BY <1>11 DEF EventsOf
  <2>3. QED
    BY <1>6, <1>11, <2>1, <2>2 DEF EventKinds, Promise!Unsettled
<1>12. CASE kind = "complete" /\ r = "reserved"
  <2>1. e.credits = 0 /\ v = "finalized"
    BY <1>3, <1>12 DEF e, Effect, Change
  <2>2. EventsOf(id, v) = EventsOf(id, r) \cup {<<"job_finalize", id>>}
    BY <1>12, <2>1 DEF EventsOf
  <2>3. Abstract(b, w) = Promise!Record(p, "job_finalize", id, 0)
    BY <1>2, <1>5, <1>11, <1>12, <2>1, <2>2 DEF Promise!Record
  <2>4. QED
    BY <1>9, <1>11, <1>12, <2>3 DEF Promise!Requests, b
<1>13. CASE kind = "fail" /\ r = "reserved"
  <2>1. e.credits = Cost /\ v = "refunded"
    BY <1>3, <1>13 DEF e, Effect, Change
  <2>2. EventsOf(id, v) = EventsOf(id, r) \cup {<<"job_refund", id>>}
    BY <1>13, <2>1 DEF EventsOf
  <2>3. Abstract(b, w) = Promise!Record(p, "job_refund", id, Cost)
    BY <1>2, <1>5, <1>11, <1>13, <2>1, <2>2 DEF Promise!Record
  <2>4. QED
    BY <1>9, <1>11, <1>13, <2>3 DEF Promise!Requests, b
<1>14. CASE kind = "paid" /\ r = "pending"
  <2>1. id \in Invoices /\ id \in Ids
    BY <1>14 DEF InvoiceKinds, Ids
  <2>2. e.credits = Credits[id] /\ v = "paid"
    BY <1>3, <1>14 DEF e, Effect, Change
  <2>3. EventsOf(id, v) = EventsOf(id, r) \cup {<<"purchase_grant", id>>} /\ EventsOf(id, r) = {}
    BY <1>14, <2>2 DEF EventsOf
  <2>4. Abstract(b, w) = Promise!Record(p, "purchase_grant", id, Credits[id])
    BY <1>2, <1>5, <1>14, <2>1, <2>2, <2>3 DEF Promise!Record
  <2>5. ~Promise!Has(p, "purchase_grant", id)
    BY <1>6, <1>14, <2>1, <2>3 DEF EventKinds
  <2>6. QED
    BY <1>9, <2>1, <2>4, <2>5 DEF Promise!Requests, b
<1>15. CASE kind = "topup"
  <2>1. id \in Ids /\ r = "none"
    BY <1>15 DEF InvoiceKinds, Ids
  <2>2. e.credits = 0 /\ v = "pending"
    BY <1>3, <1>15 DEF e, Effect, Change
  <2>3. QED
    BY <1>7, <1>8, <1>15, <2>1, <2>2 DEF b
<1>16. CASE \/ kind \in {"complete", "fail"} /\ r # "reserved"
            \/ kind = "paid" /\ r # "pending"
  <2>1. id \in Ids /\ kind # "look"
    BY <1>16 DEF JobKinds, InvoiceKinds, Ids
  <2>2. e.credits = 0 /\ v = r
    BY <1>3, <1>16 DEF e, Effect, Change
  <2>3. QED
    BY <1>7, <1>8, <2>1, <2>2 DEF b
<1>17. CASE kind = "look"
  <2>1. e.credits = 0
    BY <1>17 DEF e, Effect, Change
  <2>2. Abstract(b, w) = p
    BY <1>1, <1>3, <1>17, <2>1 DEF Abstract
  <2>3. QED
    BY <1>8, <2>2 DEF b
<1>18. QED
  BY <1>10, <1>12, <1>13, <1>14, <1>15, <1>16, <1>17 DEF Kinds

(* What a transaction commits, the account could have served at once.      *)
LEMMA CommitServes ==
    ASSUME LockInv, NEW c \in Connections, Commit(c), tx[c].kind # "touch"
    PROVE  Promise!Serve(User)
<1> DEFINE t == tx[c]
<1>1. PICK a \in Ensured(account) :
        /\ Affords(t.kind, a)
        /\ account' = Body(t.kind, t.id, a, t.read).account
        /\ column' = IF t.kind = "look" THEN column
                     ELSE [column EXCEPT ![t.id] = Body(t.kind, t.id, a, t.read).column]
  <2>1. t.seen = account
    BY CommitterIsAlone
  <2>2. QED
    BY <2>1 DEF Commit
<1>2. /\ account \in Accounts /\ column \in [Ids -> Columns]
      /\ account.granted => account.open
  BY DEF LockInv, TypeInv, TypeOK, OwnRows
<1>3. /\ t \in Txs /\ Fits(t) /\ t.kind \in Kinds \ {"touch"}
      /\ t.kind # "look" => t.read = column[t.id]
      /\ t.kind \in {"create", "topup"} => column[t.id] = "none"
  BY CommitterIsAlone DEF LockInv, OwnRows
<1>4. a \in Accounts
  BY <1>1, <1>2, EnsuredType
<1>5. Abstract(a, column) \in Promise!Housekeeping(User, Abstract(account, column))
  BY <1>1, <1>2, EnsuredIsHousekeeping
<1>6. Abstract(account', column') \in Promise!Requests(User, Abstract(a, column))
  <2>1. /\ t.kind \in JobKinds => t.id \in Jobs
        /\ t.kind \in InvoiceKinds => t.id \in Invoices
    BY <1>3 DEF Fits
  <2>2. t.kind \in {"create", "topup"} => t.read = "none"
    BY <1>3
  <2>3. t.kind # "look" => t.id \in Ids
    BY <1>3, <2>1 DEF Kinds, JobKinds, InvoiceKinds, Ids
  <2>4. /\ \A i \in Ids : i # t.id => column'[i] = column[i]
        /\ t.kind # "look" => column'[t.id] = Body(t.kind, t.id, a, t.read).column
    BY <1>1, <1>2, <2>3
  <2>5. t.kind = "look" => column' = column
    BY <1>1
  <2>6. QED
    BY <1>1, <1>3, <1>4, <2>1, <2>2, <2>4, <2>5, BodyIsARequest
<1>7. Abstract(account, column) = <<account.balance, Happened>>
  BY DEF Abstract, Happened, AccountEvents, RowEvents
<1>8. Abstract(account', column') = <<account'.balance, Happened'>>
  BY DEF Abstract, Happened, AccountEvents, RowEvents
<1>9. PICK b \in Promise!Requests(User, Abstract(a, column)) :
        b[1] = account'.balance /\ b[2] = Happened'
  BY <1>6, <1>8
<1>10. /\ [u \in {User} |-> account'.balance]
            = [[u \in {User} |-> account.balance] EXCEPT ![User] = b[1]]
       /\ [u \in {User} |-> Happened'] = [[u \in {User} |-> Happened] EXCEPT ![User] = b[2]]
  BY <1>9
<1>11. QED
  BY <1>5, <1>7, <1>9, <1>10 DEF Promise!Serve

(* The promise of CreditAccount at the grain of statements and locks: what *)
(* transactions that overtake each other do to the account, it could have  *)
(* served one request at a time.                                           *)
THEOREM LocksImplementAccount == Spec => ImplementsAccount
<1>1. Init => Promise!AccountInit
  <2> SUFFICES ASSUME Init
               PROVE  Promise!AccountInit
    OBVIOUS
  <2>1. account = Unopened /\ column = [i \in Ids |-> "none"]
    BY DEF Init
  <2>2. account.balance = 0 /\ ~account.granted /\ ~account.expired
    BY <2>1 DEF Unopened
  <2>3. \A i \in Ids : EventsOf(i, column[i]) = {}
    BY <2>1 DEF EventsOf
  <2>4. Happened = {}
    BY <2>2, <2>3 DEF Happened
  <2>5. QED
    BY <2>2, <2>4 DEF Promise!AccountInit
<1>2. LockInv /\ [Next]_vars => [Promise!AccountNext]_(Promise!accountVars)
  <2> SUFFICES ASSUME LockInv, [Next]_vars
               PROVE  Promise!AccountNext \/ UNCHANGED Promise!accountVars
    OBVIOUS
  <2>1. ASSUME account' = account, column' = column
        PROVE  UNCHANGED Promise!accountVars
    BY <2>1 DEF Promise!accountVars, Happened
  <2>2. ASSUME NEW c \in Connections, Commit(c), tx[c].kind # "touch"
        PROVE  Promise!AccountNext
    BY <2>2, CommitServes DEF Promise!AccountNext
  <2>3. ASSUME NEW c \in Connections, Commit(c), tx[c].kind = "touch"
        PROVE  account' = account /\ column' = column
    BY <2>3 DEF Commit
  <2>4. ASSUME NEW c \in Connections, Start(c) \/ Proceed(c) \/ Rollback(c)
        PROVE  account' = account /\ column' = column
    BY <2>4, StartBegins DEF Begin, Proceed, Rollback
  <2>5. QED
    BY <2>1, <2>2, <2>3, <2>4 DEF Next, vars
<1>3. QED
  BY <1>1, <1>2, LockInvariant, PTL DEF Spec, ImplementsAccount, Promise!AccountSpec
=============================================================================
