----------------------------- MODULE TopupFlow ------------------------------
(***************************************************************************)
(* How money becomes credits: create_topup, the links the cabinet gives    *)
(* out again and robokassa_result of src/payments_api.py with their        *)
(* helpers in src/payments_service.py and src/payments/providers, while    *)
(* the service is deployed again in test or live mode.  Robokassa and the  *)
(* customer are external: a link is paid at most once in the mode it was   *)
(* made in, and a notification is repeated until it is answered with OK.   *)
(* Concurrent callbacks, ensure_user and the account are CreditLedger's    *)
(* and WebsiteLogin's subject: a transaction is one step here.             *)
(***************************************************************************)
EXTENDS TopupPricing, Sequences

CONSTANTS
    MaxInvoice,  (* invoices are numbered 1 .. MaxInvoice                  *)
    Asked,       (* amounts a client sends, in tenths of a kopeck          *)
    Elsewhere,   (* what the shop's other deployment was paid: invoice,    *)
                 (* mode and kopecks                                       *)
    Configured,  (* the modes both of whose passwords are configured       *)
    ListLimit    (* LIMIT of list_payments_for_user                        *)

Modes == {"test", "live"}

ASSUME TopupAssumption ==
    /\ MaxInvoice \in Nat /\ ListLimit \in Nat
    /\ Asked \subseteq Nat
    /\ Elsewhere \subseteq (1 .. MaxInvoice) \X Modes \X Nat
    /\ Configured \subseteq Modes

VARIABLES
    mode,      (* ROBOKASSA_IS_TEST of the running process                 *)
    payments,  (* the rows of payments, and what each has granted          *)
    links,     (* the payment URLs customers have                          *)
    charges    (* what Robokassa was paid, and our last answer to it       *)

vars == <<mode, payments, links, charges>>

Init ==
    /\ mode \in Modes
    /\ payments = <<>>
    /\ links = {}
    /\ charges = {}

-----------------------------------------------------------------------------
(* Making and showing invoices.                                            *)

Pending(amount) ==
    [status |-> "pending", amount |-> amount, credits |-> TopupCredits(amount),
     granted |-> 0, paidIn |-> "none"]

(* build_payment_url: OutSum, the credits its receipt names, and the mode  *)
(* whose password signs it.  The first is a mutant.                        *)
LinkInRubles(i, amount) ==
    [invoice |-> i, amount |-> (amount \div 100) * 100,
     credits |-> TopupCredits(amount), mode |-> mode]
LinkFor(i, amount) ==
    [invoice |-> i, amount |-> amount,
     credits |-> TopupCredits(amount), mode |-> mode]

(* POST /payments/topups.  A link that cannot be made takes the new row    *)
(* back; an answer that is lost does not.  PAYMENTS_ENABLED=false is a     *)
(* service that nobody asks for a top-up.                                  *)
CreateTopup(raw, delivered) ==
    /\ InRange(Normalized(raw))
    /\ mode \in Configured
    /\ Len(payments) < MaxInvoice
    /\ payments' = Append(payments, Pending(Normalized(raw)))
    /\ links' = IF delivered
                THEN links \cup {LinkFor(Len(payments) + 1, Normalized(raw))}
                ELSE links
    /\ UNCHANGED <<mode, charges>>

Listed == {i \in DOMAIN payments : i > Len(payments) - ListLimit}

(* GET /payments/cabinet: pending invoices get a link of the present mode. *)
Cabinet ==
    /\ mode \in Configured
    /\ links' = links \cup {LinkFor(i, payments[i].amount) :
                               i \in {j \in Listed : payments[j].status = "pending"}}
    /\ links' # links
    /\ UNCHANGED <<mode, payments, charges>>

-----------------------------------------------------------------------------
(* Robokassa.                                                              *)

Charge(i, m, amount, own) ==
    [invoice |-> i, mode |-> m, amount |-> amount, own |-> own,
     answer |-> "none"]

Charged(i, m, own) ==
    \E c \in charges : c.invoice = i /\ c.mode = m /\ c.own = own

Pay(l) ==
    /\ l \in links
    /\ ~Charged(l.invoice, l.mode, TRUE)
    /\ charges' = charges \cup {Charge(l.invoice, l.mode, l.amount, TRUE)}
    /\ UNCHANGED <<mode, payments, links>>

(* Staging and production share the shop: the other one's invoice of the   *)
(* same number is paid, and its notification comes here.                   *)
PayElsewhere(e) ==
    /\ ~Charged(e[1], e[2], FALSE)
    /\ charges' = charges \cup {Charge(e[1], e[2], e[3], FALSE)}
    /\ UNCHANGED <<mode, payments, links>>

-----------------------------------------------------------------------------
(* The callback.                                                           *)

(* The passwords verify_result_signature may use; the notification is      *)
(* signed with that of the mode it was paid in.  flag is the IsTest it     *)
(* carries, if any.  The first is a mutant.                                *)
ModeFromFlag(c, flag) ==
    /\ (IF flag = "absent" THEN mode ELSE flag) \in Configured
    /\ c.mode = IF flag = "absent" THEN mode ELSE flag
SignatureValid(c, flag) ==
    /\ flag \in {"absent", mode}
    /\ mode \in Configured
    /\ c.mode = mode

(* normalize_amount_rub(out_sum): an exception no handler catches, or not. *)
SumUnreadable(c) == ~InRange(Normalized(10 * c.amount))

(* The checks of mark_payment_paid in their order; the first two are       *)
(* mutants.                                                                *)
SumFirst(c) ==
    IF c.invoice \notin DOMAIN payments THEN "404"
    ELSE IF SumUnreadable(c) THEN "error"
    ELSE IF ~c.own \/ Normalized(10 * c.amount) # payments[c.invoice].amount
    THEN "400" ELSE "OK"
AnyPaymentId(c) ==
    IF c.invoice \notin DOMAIN payments THEN "404"
    ELSE IF SumUnreadable(c) THEN "error"
    ELSE IF Normalized(10 * c.amount) # payments[c.invoice].amount
    THEN "400" ELSE "OK"
Checked(c) ==
    IF c.invoice \notin DOMAIN payments THEN "404"
    ELSE IF ~c.own THEN "400"
    ELSE IF SumUnreadable(c) THEN "error"
    ELSE IF Normalized(10 * c.amount) # payments[c.invoice].amount
    THEN "400" ELSE "OK"

(* What Robokassa is told; the first is a mutant.                          *)
AlwaysOK(answer) == "OK"
Reply(answer)    == answer

AnswerTo(c, flag) == IF SignatureValid(c, flag) THEN Checked(c) ELSE "401"

(* The grant of mark_payment_paid; the first is a mutant.                  *)
PaidAgain(p, m) == [p EXCEPT !.status = "paid", !.paidIn = m,
                             !.granted = @ + p.credits]
Paid(p, m) == IF p.status = "paid" THEN p ELSE PaidAgain(p, m)

(* GET or POST /payments/robokassa/result; its answer may be lost.         *)
RobokassaResult(c, flag, delivered) ==
    /\ c \in charges /\ c.answer # "OK"
    /\ flag \in {"absent", c.mode}
    /\ payments' = IF AnswerTo(c, flag) = "OK"
                   THEN [payments EXCEPT ![c.invoice] = Paid(@, c.mode)]
                   ELSE payments
    /\ charges' = IF delivered
                  THEN (charges \ {c}) \cup
                           {[c EXCEPT !.answer = Reply(AnswerTo(c, flag))]}
                  ELSE charges
    /\ UNCHANGED <<mode, links>>

-----------------------------------------------------------------------------

(* The service is deployed in the other mode.                              *)
Deploy(m) ==
    /\ m # mode
    /\ mode' = m
    /\ UNCHANGED <<payments, links, charges>>

Next ==
    \/ \E raw \in Asked, delivered \in BOOLEAN : CreateTopup(raw, delivered)
    \/ Cabinet
    \/ \E l \in links : Pay(l)
    \/ \E e \in Elsewhere : PayElsewhere(e)
    \/ \E c \in charges, flag \in Modes \cup {"absent"},
          delivered \in BOOLEAN : RobokassaResult(c, flag, delivered)
    \/ \E m \in Modes : Deploy(m)

(* Robokassa repeats the notification of what was paid, and the database   *)
(* does not fail for ever.  Nobody has to pay, deploy or look.             *)
Fairness ==
    \A i \in 1 .. MaxInvoice, m \in Modes :
        WF_vars(\E c \in charges, flag \in Modes \cup {"absent"},
                   delivered \in BOOLEAN :
                      /\ c.invoice = i /\ c.mode = m /\ c.own
                      /\ RobokassaResult(c, flag, delivered))

Spec == Init /\ [][Next]_vars /\ Fairness

-----------------------------------------------------------------------------
(* Properties.                                                             *)

Payments == [status : {"pending", "paid"}, amount : MinAmount .. MaxAmount,
             credits : Nat, granted : Nat, paidIn : Modes \cup {"none"}]
Links == [invoice : 1 .. MaxInvoice, amount : Nat, credits : Nat, mode : Modes]
Charges == [invoice : 1 .. MaxInvoice, mode : Modes, amount : Nat,
            own : BOOLEAN,
            answer : {"none", "OK", "400", "401", "404", "error"}]

(* Every variable has its type, and a stored amount is one that is sold.   *)
TypeOK ==
    /\ mode \in Modes
    /\ payments \in Seq(Payments) /\ Len(payments) <= MaxInvoice
    /\ links \subseteq Links
    /\ charges \subseteq Charges

(* An invoice has granted its credits once if it is paid and nothing       *)
(* otherwise, and it is paid because Robokassa was paid its amount for it, *)
(* and not for the other deployment's invoice of the same number.          *)
GrantIsWhatWasPaid ==
    \A i \in DOMAIN payments :
        LET p == payments[i]
        IN  IF p.status = "paid"
            THEN /\ p.granted = TopupCredits(p.amount)
                 /\ \E c \in charges : /\ c.own /\ c.invoice = i
                                       /\ c.mode = p.paidIn
                                       /\ c.amount = p.amount
            ELSE p.granted = 0

(* Each link a customer ever got for an invoice, in whichever mode it was  *)
(* made, asks for the stored amount and names the credits the row grants.  *)
LinksAreHonest ==
    \A l \in links :
        /\ l.invoice \in DOMAIN payments
        /\ l.amount = payments[l.invoice].amount
        /\ l.credits = payments[l.invoice].credits

(* The notification of an own invoice is answered with OK, or with 401     *)
(* while the service runs in the other mode; another deployment's with an  *)
(* error of its kind.  None ends in an exception.                          *)
NotificationsAreUnderstood ==
    \A c \in charges :
        c.answer \in {"none", "401"} \cup
                     (IF c.own THEN {"OK"} ELSE {"400", "404"})

(* Paying more never grants less, one top-up never grants less than two    *)
(* that cost as much, and for whole rubles the wallet quoted the grant.    *)
PricesAreFair ==
    \A i, j \in DOMAIN payments :
        LET p == payments[i]
            q == payments[j]
        IN  /\ p.amount <= q.amount => p.credits <= q.credits
            /\ InRange(p.amount + q.amount)
                   => p.credits + q.credits <= TopupCredits(p.amount + q.amount)
            /\ WholeRubles(p.amount) => p.credits = Quoted(p.amount)

(* While the service is live, only live money makes an invoice paid, and   *)
(* while it is in test mode only test money, whatever the links customers  *)
(* still have and the notifications that come late.                        *)
ModesAreSeparate ==
    [][\A i \in DOMAIN payments :
          payments'[i] # payments[i]
              => payments[i].status = "pending" /\ payments'[i].paidIn = mode]_vars

(* Once the service stays in a mode, every invoice that was paid in it is  *)
(* credited, however often its notification was refused before.            *)
PaidIsCredited ==
    \A m \in Configured :
        (<>[](mode = m))
            => <>[](\A i \in 1 .. MaxInvoice :
                       Charged(i, m, TRUE)
                           => /\ i \in DOMAIN payments
                              /\ payments[i].status = "paid")
=============================================================================
