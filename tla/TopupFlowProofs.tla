-------------------------- MODULE TopupFlowProofs ---------------------------
(***************************************************************************)
(* Theorems about TopupPricing, for every amount that is sold, and about   *)
(* TopupFlow, for any invoices, deployments and notifications.             *)
(***************************************************************************)
EXTENDS TopupFlow, TLAPS

-----------------------------------------------------------------------------
(* The prices.                                                             *)

(* What calculate_topup_credits grants, with each tier written out.        *)
LEMMA CreditsByTier ==
    ASSUME NEW a \in Nat, InRange(a)
    PROVE  /\ a >= 100000 => TopupCredits(a) = (a * 45) \div 100000
           /\ a < 100000 /\ a >= 50000 => TopupCredits(a) = (a * 20) \div 50000
           /\ a < 50000 /\ a >= 20000 => TopupCredits(a) = (a * 7) \div 20000
           /\ a < 20000 => TopupCredits(a) = (a * 3) \div 10000
           /\ a >= 10000 /\ a <= 300000
  BY DEF TopupCredits, TierOf, Tier, InRange, MinAmount, MaxAmount

(* Every amount that is sold grants at least three credits, the price of   *)
(* the smallest package: max(1, ...) never decides.                        *)
LEMMA CreditsType ==
    ASSUME NEW a \in Nat, InRange(a)
    PROVE  TopupCredits(a) \in Nat /\ TopupCredits(a) >= 3
  BY CreditsByTier

(* Paying more never grants less, over the edges of the tiers too.         *)
THEOREM CreditsGrow ==
    ASSUME NEW a \in Nat, NEW b \in Nat, InRange(a), InRange(b), a <= b
    PROVE  TopupCredits(a) <= TopupCredits(b)
<1>1. CASE a >= 100000
  BY <1>1, CreditsByTier
<1>2. CASE a < 100000 /\ a >= 50000
  BY <1>2, CreditsByTier
<1>3. CASE a < 50000 /\ a >= 20000
  BY <1>3, CreditsByTier
<1>4. CASE a < 20000
  BY <1>4, CreditsByTier
<1> QED
  BY <1>1, <1>2, <1>3, <1>4

(* One top-up never grants less than two that cost as much together.       *)
THEOREM SplittingNeverPays ==
    ASSUME NEW a \in Nat, NEW b \in Nat,
           InRange(a), InRange(b), InRange(a + b)
    PROVE  TopupCredits(a) + TopupCredits(b) <= TopupCredits(a + b)
<1>1. CASE a + b >= 100000
  BY <1>1, CreditsByTier
<1>2. CASE a + b < 100000 /\ a + b >= 50000
  BY <1>2, CreditsByTier
<1>3. CASE a + b < 50000
  BY <1>3, CreditsByTier DEF InRange, MinAmount
<1> QED
  BY <1>1, <1>2, <1>3

(* The wallet quotes, for each amount it offers, what the server grants.   *)
THEOREM QuoteIsGrant ==
    ASSUME NEW a \in Nat, InRange(a)
    PROVE  Quoted(a) = TopupCredits(a)
<1>1. CASE \E p \in Packages : p[1] = a
  <2> DEFINE q == CHOOSE p \in Packages : p[1] = a
  <2>1. q \in Packages /\ q[1] = a
    BY <1>1
  <2>2. Quoted(a) = q[2]
    BY <1>1 DEF Quoted
  <2> HIDE DEF q
  <2> QED
    BY <2>1, <2>2, CreditsByTier DEF Packages
<1>2. CASE ~\E p \in Packages : p[1] = a
  BY <1>2, CreditsByTier DEF Quoted
<1> QED
  BY <1>1, <1>2

-----------------------------------------------------------------------------
(* The flow.                                                               *)

(* A row says what its status implies, and a paid one was paid for.        *)
RowFits(p) ==
    /\ p.credits = TopupCredits(p.amount)
    /\ p.granted = IF p.status = "paid" THEN p.credits ELSE 0

PaidFor(i, p, money) ==
    p.status = "paid" => \E c \in money : /\ c.own /\ c.invoice = i
                                         /\ c.mode = p.paidIn
                                         /\ c.amount = p.amount

(* An own charge is of an invoice that exists, for its amount.             *)
ChargesFit ==
    \A c \in charges :
        c.own => /\ c.invoice \in DOMAIN payments
                 /\ c.amount = payments[c.invoice].amount

(* The inductive invariant.  What is paid for is what was asked for only   *)
(* because links and charges agree with the rows, and those never change.  *)
Inv ==
    /\ TypeOK
    /\ \A i \in DOMAIN payments :
          RowFits(payments[i]) /\ PaidFor(i, payments[i], charges)
    /\ LinksAreHonest
    /\ ChargesFit
    /\ NotificationsAreUnderstood

LEMMA InitInv == Init => Inv
<1> SUFFICES ASSUME Init PROVE Inv
  OBVIOUS
<1>1. /\ mode \in Modes /\ payments = <<>> /\ links = {} /\ charges = {}
      /\ MaxInvoice \in Nat
  BY TopupAssumption DEF Init
<1>2. payments \in Seq(Payments) /\ Len(payments) = 0 /\ DOMAIN payments = {}
  BY <1>1
<1>3. TypeOK
  BY <1>1, <1>2 DEF TypeOK
<1>4. LinksAreHonest /\ ChargesFit /\ NotificationsAreUnderstood
  BY <1>1 DEF LinksAreHonest, ChargesFit, NotificationsAreUnderstood
<1> QED
  BY <1>2, <1>3, <1>4 DEF Inv

(* The edges of the range are numbers; more is seldom needed of them.      *)
LEMMA RangeType == MinAmount \in Nat /\ MaxAmount \in Nat
  BY DEF MinAmount, MaxAmount

(* A new invoice is a well-formed row, and its amount one that is sold.    *)
LEMMA NewRow ==
    ASSUME NEW raw \in Nat, InRange(Normalized(raw))
    PROVE  /\ Normalized(raw) \in MinAmount .. MaxAmount
           /\ Pending(Normalized(raw)) \in Payments
           /\ RowFits(Pending(Normalized(raw)))
<1>1. Normalized(raw) \in Nat
  BY DEF Normalized
<1>2. Normalized(raw) \in MinAmount .. MaxAmount
  BY <1>1, RangeType DEF InRange
<1>3. TopupCredits(Normalized(raw)) \in Nat
  BY <1>1, CreditsType
<1> QED
  BY <1>2, <1>3 DEF Pending, Payments, RowFits

LEMMA CreateInv ==
    ASSUME Inv, NEW raw \in Asked, NEW delivered \in BOOLEAN,
           CreateTopup(raw, delivered)
    PROVE  Inv'
<1> DEFINE a == Normalized(raw)
           n == Len(payments) + 1
           l == LinkFor(n, a)
<1>1. /\ a \in MinAmount .. MaxAmount /\ Pending(a) \in Payments
      /\ RowFits(Pending(a)) /\ Pending(a).status = "pending"
      /\ Pending(a).amount = a /\ Pending(a).credits = TopupCredits(a)
  <2>1. raw \in Nat /\ InRange(a)
    BY TopupAssumption DEF CreateTopup
  <2>2. /\ a \in MinAmount .. MaxAmount /\ Pending(a) \in Payments
        /\ RowFits(Pending(a))
    BY <2>1, NewRow
  <2> HIDE DEF a
  <2> QED
    BY <2>2 DEF Pending
<1>2. payments \in Seq(Payments) /\ Len(payments) < MaxInvoice /\ mode \in Modes
  BY DEF CreateTopup, Inv, TypeOK
<1>3. payments' = Append(payments, Pending(a)) /\ charges' = charges
  BY DEF CreateTopup
<1>4. links' \subseteq links \cup {l} /\ mode' = mode
  BY DEF CreateTopup
<1> HIDE DEF a
<1>5. /\ payments' \in Seq(Payments) /\ Len(payments') = n /\ n <= MaxInvoice
      /\ n \in 1 .. MaxInvoice
      /\ DOMAIN payments' = DOMAIN payments \cup {n}
      /\ payments'[n] = Pending(a)
      /\ \A i \in DOMAIN payments : payments'[i] = payments[i]
  BY <1>1, <1>2, <1>3, TopupAssumption
<1>6. /\ l \in Links /\ l.invoice = n /\ l.amount = a
      /\ l.credits = TopupCredits(a)
  <2>1. a \in Nat /\ TopupCredits(a) \in Nat
    BY <1>1, RangeType, CreditsType DEF InRange
  <2> QED
    BY <1>2, <1>5, <2>1 DEF LinkFor, Links
<1>7. TypeOK'
  BY <1>3, <1>4, <1>5, <1>6 DEF Inv, TypeOK
<1>8. \A i \in DOMAIN payments' :
         RowFits(payments'[i]) /\ PaidFor(i, payments'[i], charges')
  BY <1>1, <1>3, <1>5 DEF Inv, PaidFor
<1>9. LinksAreHonest' /\ ChargesFit' /\ NotificationsAreUnderstood'
  <2>1. LinksAreHonest'
    BY <1>1, <1>4, <1>5, <1>6 DEF Inv, LinksAreHonest
  <2>2. ChargesFit' /\ NotificationsAreUnderstood'
    BY <1>3, <1>5 DEF Inv, ChargesFit, NotificationsAreUnderstood
  <2> QED
    BY <2>1, <2>2
<1> QED
  BY <1>7, <1>8, <1>9 DEF Inv

LEMMA CabinetInv == ASSUME Inv, Cabinet PROVE Inv'
<1>1. /\ payments' = payments /\ charges' = charges /\ mode' = mode
      /\ \A l \in links' : \/ l \in links
                           \/ \E i \in DOMAIN payments :
                                 l = LinkFor(i, payments[i].amount)
  BY DEF Cabinet, Listed
<1>2. ASSUME NEW i \in DOMAIN payments
      PROVE  /\ LinkFor(i, payments[i].amount) \in Links
             /\ LinkFor(i, payments[i].amount).invoice = i
             /\ LinkFor(i, payments[i].amount).amount = payments[i].amount
             /\ LinkFor(i, payments[i].amount).credits = payments[i].credits
  <2>1. /\ payments[i] \in Payments /\ RowFits(payments[i])
        /\ i \in 1 .. MaxInvoice /\ mode \in Modes
    BY TopupAssumption DEF Inv, TypeOK
  <2>2. payments[i].amount \in Nat /\ payments[i].credits \in Nat
    BY <2>1, RangeType DEF Payments
  <2>3. payments[i].credits = TopupCredits(payments[i].amount)
    BY <2>1 DEF RowFits
  <2> QED
    BY <2>1, <2>2, <2>3 DEF LinkFor, Links
<1>3. TypeOK' /\ LinksAreHonest'
  BY <1>1, <1>2 DEF Inv, TypeOK, LinksAreHonest
<1> QED
  BY <1>1, <1>3 DEF Inv, ChargesFit, NotificationsAreUnderstood

(* Adding a charge that fits keeps the invariant.                          *)
LEMMA ChargeInv ==
    ASSUME Inv, NEW c \in Charges, charges' = charges \cup {c},
           UNCHANGED <<mode, payments, links>>, c.answer = "none",
           c.own => /\ c.invoice \in DOMAIN payments
                    /\ c.amount = payments[c.invoice].amount
    PROVE  Inv'
<1>1. TypeOK' /\ ChargesFit' /\ LinksAreHonest' /\ NotificationsAreUnderstood'
  BY DEF Inv, TypeOK, ChargesFit, LinksAreHonest, NotificationsAreUnderstood
<1>2. \A i \in DOMAIN payments' :
         RowFits(payments'[i]) /\ PaidFor(i, payments'[i], charges')
  BY DEF Inv, PaidFor
<1> QED
  BY <1>1, <1>2 DEF Inv

LEMMA PayInv == ASSUME Inv, NEW l \in links, Pay(l) PROVE Inv'
<1> DEFINE c == Charge(l.invoice, l.mode, l.amount, TRUE)
<1>1. l \in Links /\ l.invoice \in DOMAIN payments
      /\ l.amount = payments[l.invoice].amount
  BY DEF Inv, TypeOK, LinksAreHonest
<1>2. /\ c \in Charges /\ c.answer = "none" /\ c.own
      /\ c.invoice = l.invoice /\ c.amount = l.amount
  BY <1>1 DEF Charge, Charges, Links
<1>3. charges' = charges \cup {c} /\ UNCHANGED <<mode, payments, links>>
  BY DEF Pay
<1> HIDE DEF c
<1> QED
  BY <1>1, <1>2, <1>3, ChargeInv

LEMMA PayElsewhereInv == ASSUME Inv, NEW e \in Elsewhere, PayElsewhere(e) PROVE Inv'
<1> DEFINE c == Charge(e[1], e[2], e[3], FALSE)
<1>1. c \in Charges /\ c.answer = "none" /\ ~c.own
  BY TopupAssumption DEF Charge, Charges
<1>2. charges' = charges \cup {c} /\ UNCHANGED <<mode, payments, links>>
  BY DEF PayElsewhere
<1> HIDE DEF c
<1> QED
  BY <1>1, <1>2, ChargeInv

(* The rows and charges the callback leaves, field by field.               *)
LEMMA PaidAgainIs ==
    ASSUME NEW p \in Payments, NEW m, NEW q, q = PaidAgain(p, m)
    PROVE  q = [status |-> "paid", amount |-> p.amount, credits |-> p.credits,
                granted |-> p.granted + p.credits, paidIn |-> m]
  BY Zenon DEF PaidAgain, Payments

LEMMA AnsweredIs ==
    ASSUME NEW c \in Charges, NEW x, NEW d, d = [c EXCEPT !.answer = x]
    PROVE  d = [invoice |-> c.invoice, mode |-> c.mode, amount |-> c.amount,
                own |-> c.own, answer |-> x]
  BY Zenon DEF Charges

(* Marking a row paid grants its credits if it was pending, and leaves a   *)
(* paid one as it is.                                                      *)
LEMMA PaidRow ==
    ASSUME NEW p \in Payments, RowFits(p), NEW m \in Modes
    PROVE  /\ Paid(p, m) \in Payments /\ RowFits(Paid(p, m))
           /\ Paid(p, m).status = "paid"
           /\ Paid(p, m).amount = p.amount /\ Paid(p, m).credits = p.credits
           /\ p.status = "paid" => Paid(p, m) = p
           /\ p.status # "paid" => Paid(p, m).paidIn = m
<1> DEFINE q == [status |-> "paid", amount |-> p.amount, credits |-> p.credits,
                 granted |-> p.granted + p.credits, paidIn |-> m]
<1>1. CASE p.status = "paid"
  BY <1>1 DEF Paid
<1>2. CASE p.status # "paid"
  <2>1. Paid(p, m) = PaidAgain(p, m)
    BY <1>2 DEF Paid
  <2>2. PaidAgain(p, m) = q
    BY PaidAgainIs
  <2>3. p.granted = 0 /\ p.credits \in Nat
    BY <1>2 DEF RowFits, Payments
  <2>4. q \in Payments
    BY <2>3 DEF Payments
  <2>5. RowFits(q)
    BY <2>3 DEF RowFits
  <2> QED
    BY <1>2, <2>1, <2>2, <2>4, <2>5
<1> QED
  BY <1>1, <1>2

(* What a notification is answered, and that the answer OK is for an own   *)
(* charge and given in its mode.  An own charge has a row and its amount,  *)
(* so the amount check never fails for it, and never raises.               *)
LEMMA AnswerType ==
    ASSUME Inv, NEW c \in charges, NEW flag
    PROVE  /\ AnswerTo(c, flag) \in
                 {"401"} \cup IF c.own THEN {"OK"} ELSE {"400", "404"}
           /\ AnswerTo(c, flag) = "OK" => c.own /\ c.mode = mode
<1>1. c \in Charges /\ c.own \in BOOLEAN /\ c.amount \in Nat
  BY DEF Inv, TypeOK, Charges
<1>2. CASE ~c.own
  BY <1>1, <1>2 DEF AnswerTo, Checked
<1>3. CASE c.own
  <2>1. /\ c.invoice \in DOMAIN payments
        /\ c.amount = payments[c.invoice].amount
    BY <1>3 DEF Inv, ChargesFit
  <2>2. payments[c.invoice] \in Payments
    BY <2>1 DEF Inv, TypeOK
  <2>3. InRange(c.amount)
    BY <1>1, <2>1, <2>2, RangeType DEF Payments, InRange
  <2>4. Normalized(10 * c.amount) = c.amount
    BY <1>1 DEF Normalized
  <2>5. Checked(c) = "OK"
    BY <1>3, <2>1, <2>3, <2>4 DEF Checked, SumUnreadable
  <2> QED
    BY <1>3, <2>5 DEF AnswerTo, SignatureValid
<1> QED
  BY <1>1, <1>2, <1>3

LEMMA ResultInv ==
    ASSUME Inv, NEW c \in charges, NEW flag \in Modes \cup {"absent"},
           NEW delivered \in BOOLEAN, RobokassaResult(c, flag, delivered)
    PROVE  Inv'
<1> DEFINE i == c.invoice
           r == Paid(payments[i], c.mode)
           d == [c EXCEPT !.answer = Reply(AnswerTo(c, flag))]
<1>1. c \in Charges
  BY DEF Inv, TypeOK
<1>2. /\ d \in Charges /\ d.own = c.own /\ d.invoice = c.invoice
      /\ d.mode = c.mode /\ d.amount = c.amount
      /\ d.answer \in {"401"} \cup IF c.own THEN {"OK"} ELSE {"400", "404"}
  <2> DEFINE x == AnswerTo(c, flag)
  <2>1. x \in {"401"} \cup IF c.own THEN {"OK"} ELSE {"400", "404"}
    BY AnswerType
  <2>2. d = [invoice |-> c.invoice, mode |-> c.mode, amount |-> c.amount,
             own |-> c.own, answer |-> x]
    BY <1>1, AnsweredIs DEF Reply
  <2> HIDE DEF x, d
  <2> QED
    BY <1>1, <2>1, <2>2 DEF Charges
<1>3. /\ charges' = charges \/ charges' = (charges \ {c}) \cup {d}
      /\ links' = links /\ mode' = mode
  BY DEF RobokassaResult
<1> HIDE DEF d
<1>4. ASSUME NEW j, NEW p, PaidFor(j, p, charges)
      PROVE  PaidFor(j, p, charges')
  BY <1>2, <1>3, <1>4 DEF PaidFor
<1>5. /\ charges' \subseteq Charges
      /\ \A e \in charges' :
            \/ e \in charges
            \/ /\ e.own = c.own /\ e.invoice = i /\ e.amount = c.amount
               /\ e.answer \in {"401"} \cup IF c.own THEN {"OK"} ELSE {"400", "404"}
  BY <1>2, <1>3 DEF Inv, TypeOK
<1>6. NotificationsAreUnderstood'
  <2>1. \A e \in charges' :
           \/ e \in charges
           \/ e.answer \in {"401"} \cup IF e.own THEN {"OK"} ELSE {"400", "404"}
    BY <1>5
  <2> QED
    BY <2>1 DEF Inv, NotificationsAreUnderstood
<1>7. CASE AnswerTo(c, flag) = "OK"
  <2>1. /\ c.own /\ i \in DOMAIN payments
        /\ c.amount = payments[i].amount
    BY <1>7, AnswerType DEF Inv, ChargesFit
  <2>2. /\ payments[i] \in Payments /\ RowFits(payments[i])
        /\ PaidFor(i, payments[i], charges) /\ c.mode \in Modes
    BY <1>1, <2>1 DEF Inv, TypeOK, Charges
  <2>3. /\ r \in Payments /\ RowFits(r) /\ r.status = "paid"
        /\ r.amount = payments[i].amount /\ r.credits = payments[i].credits
        /\ payments[i].status = "paid" => r = payments[i]
        /\ payments[i].status # "paid" => r.paidIn = c.mode
    BY <2>2, PaidRow
  <2>4. payments' = [payments EXCEPT ![i] = r]
    BY <1>7 DEF RobokassaResult
  <2>5. PaidFor(i, r, charges)
    BY <2>1, <2>2, <2>3 DEF PaidFor
  <2> HIDE DEF r
  <2>6. /\ payments' \in Seq(Payments) /\ Len(payments') = Len(payments)
        /\ DOMAIN payments' = DOMAIN payments
        /\ \A j \in DOMAIN payments :
              payments'[j] = IF j = i THEN r ELSE payments[j]
    BY <2>1, <2>3, <2>4 DEF Inv, TypeOK
  <2>7. \A j \in DOMAIN payments' :
           RowFits(payments'[j]) /\ PaidFor(j, payments'[j], charges')
    BY <1>4, <2>3, <2>5, <2>6 DEF Inv
  <2>8. \A j \in DOMAIN payments :
           /\ payments'[j].amount = payments[j].amount
           /\ payments'[j].credits = payments[j].credits
    BY <2>3, <2>6
  <2>9. TypeOK'
    BY <1>3, <1>5, <2>6 DEF Inv, TypeOK
  <2>10. LinksAreHonest'
    BY <1>3, <2>6, <2>8 DEF Inv, LinksAreHonest
  <2>11. ChargesFit'
    BY <1>5, <2>1, <2>6, <2>8 DEF Inv, ChargesFit
  <2> QED
    BY <1>6, <2>7, <2>9, <2>10, <2>11 DEF Inv
<1>8. CASE AnswerTo(c, flag) # "OK"
  <2>1. payments' = payments
    BY <1>8 DEF RobokassaResult
  <2>2. TypeOK' /\ LinksAreHonest'
    BY <1>3, <1>5, <2>1 DEF Inv, TypeOK, LinksAreHonest
  <2>3. ChargesFit'
    BY <1>5, <2>1 DEF Inv, ChargesFit
  <2>4. \A j \in DOMAIN payments' :
           RowFits(payments'[j]) /\ PaidFor(j, payments'[j], charges')
    BY <1>4, <2>1 DEF Inv
  <2> QED
    BY <1>6, <2>2, <2>3, <2>4 DEF Inv
<1> QED
  BY <1>7, <1>8

LEMMA DeployInv == ASSUME Inv, NEW m \in Modes, Deploy(m) PROVE Inv'
<1>1. TypeOK' /\ LinksAreHonest' /\ ChargesFit' /\ NotificationsAreUnderstood'
  BY DEF Deploy, Inv, TypeOK, LinksAreHonest, ChargesFit,
         NotificationsAreUnderstood
<1> QED
  BY <1>1 DEF Deploy, Inv

LEMMA NextInv == Inv /\ [Next]_vars => Inv'
<1> SUFFICES ASSUME Inv, [Next]_vars PROVE Inv'
  OBVIOUS
<1>1. CASE \E raw \in Asked, delivered \in BOOLEAN : CreateTopup(raw, delivered)
  BY <1>1, CreateInv
<1>2. CASE Cabinet
  BY <1>2, CabinetInv
<1>3. CASE \E l \in links : Pay(l)
  BY <1>3, PayInv
<1>4. CASE \E e \in Elsewhere : PayElsewhere(e)
  BY <1>4, PayElsewhereInv
<1>5. CASE \E c \in charges, flag \in Modes \cup {"absent"},
              delivered \in BOOLEAN : RobokassaResult(c, flag, delivered)
  BY <1>5, ResultInv
<1>6. CASE \E m \in Modes : Deploy(m)
  BY <1>6, DeployInv
<1>7. CASE UNCHANGED vars
  <2>1. TypeOK' /\ LinksAreHonest' /\ ChargesFit' /\ NotificationsAreUnderstood'
    BY <1>7 DEF vars, Inv, TypeOK, LinksAreHonest, ChargesFit,
                NotificationsAreUnderstood
  <2> QED
    BY <1>7, <2>1 DEF vars, Inv
<1> QED
  BY <1>1, <1>2, <1>3, <1>4, <1>5, <1>6, <1>7 DEF Next

(* The inductive invariant holds in every behaviour.                       *)
THEOREM TopupInvariant == Spec => []Inv
  BY InitInv, NextInv, PTL DEF Spec

(* Type correctness.                                                       *)
THEOREM TopupTypes == Spec => []TypeOK
<1>1. Inv => TypeOK
  BY DEF Inv
<1> QED
  BY <1>1, TopupInvariant, PTL

(* mark_payment_paid grants an invoice's credits once, and for its money.  *)
THEOREM GrantsAreWhatWasPaid == Spec => []GrantIsWhatWasPaid
<1>1. Inv => GrantIsWhatWasPaid
  BY DEF Inv, GrantIsWhatWasPaid, RowFits, PaidFor
<1> QED
  BY <1>1, TopupInvariant, PTL

(* Every link ever given out asks for what its invoice says.               *)
THEOREM LinksStayHonest == Spec => []LinksAreHonest
<1>1. Inv => LinksAreHonest
  BY DEF Inv
<1> QED
  BY <1>1, TopupInvariant, PTL

(* robokassa_result answers an own notification with OK or, in the other   *)
(* mode, 401; it never ends in an exception.                               *)
THEOREM NotificationsStayUnderstood == Spec => []NotificationsAreUnderstood
<1>1. Inv => NotificationsAreUnderstood
  BY DEF Inv
<1> QED
  BY <1>1, TopupInvariant, PTL

(* What invoices grant is fair, whatever amounts clients send.             *)
THEOREM PricesStayFair == Spec => []PricesAreFair
<1>1. ASSUME Inv PROVE PricesAreFair
  <2>1. ASSUME NEW i \in DOMAIN payments
        PROVE  /\ payments[i].amount \in Nat /\ InRange(payments[i].amount)
               /\ payments[i].credits = TopupCredits(payments[i].amount)
    <3>1. payments[i] \in Payments /\ RowFits(payments[i])
      BY <1>1 DEF Inv, TypeOK
    <3> QED
      BY <3>1, RangeType DEF Payments, InRange, RowFits
  <2> QED
    BY <2>1, CreditsGrow, SplittingNeverPays, QuoteIsGrant DEF PricesAreFair
<1> QED
  BY <1>1, TopupInvariant, PTL

(* An invoice becomes paid only while the service runs in the mode the     *)
(* money came in.                                                          *)
THEOREM ModesStaySeparate == Spec => ModesAreSeparate
<1>1. ASSUME Inv, [Next]_vars,
             NEW i \in DOMAIN payments, payments'[i] # payments[i]
      PROVE  payments[i].status = "pending" /\ payments'[i].paidIn = mode
  <2>1. payments \in Seq(Payments) /\ payments[i] \in Payments /\ RowFits(payments[i])
    BY <1>1 DEF Inv, TypeOK
  <2>2. PICK c \in charges, flag \in Modes \cup {"absent"}, delivered \in BOOLEAN :
           RobokassaResult(c, flag, delivered)
    <3>1. CASE \E raw \in Asked, delivered \in BOOLEAN : CreateTopup(raw, delivered)
      BY <1>1, <2>1, <3>1 DEF CreateTopup
    <3> QED
      BY <1>1, <3>1 DEF Next, vars, Cabinet, Pay, PayElsewhere, Deploy
  <2>3. AnswerTo(c, flag) = "OK" /\ c.invoice = i
    BY <1>1, <2>1, <2>2 DEF RobokassaResult
  <2>4. c.mode = mode /\ c.mode \in Modes
    BY <1>1, <2>3, AnswerType DEF Inv, TypeOK, Charges
  <2>5. payments'[i] = Paid(payments[i], c.mode)
    BY <2>1, <2>2, <2>3 DEF RobokassaResult
  <2>6. payments[i].status # "paid" /\ payments'[i].paidIn = c.mode
    BY <1>1, <2>1, <2>4, <2>5, PaidRow
  <2> QED
    BY <2>1, <2>4, <2>6 DEF Payments
<1>2. Inv /\ [Next]_vars
         => [\A i \in DOMAIN payments :
                payments'[i] # payments[i]
                    => payments[i].status = "pending" /\ payments'[i].paidIn = mode]_vars
  BY <1>1
<1> QED
  BY <1>2, TopupInvariant, PTL DEF Spec, ModesAreSeparate
=============================================================================
