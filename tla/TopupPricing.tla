---------------------------- MODULE TopupPricing ----------------------------
(***************************************************************************)
(* What a top-up costs and grants: normalize_amount_rub and                *)
(* calculate_topup_credits of src/payments_service.py, and what            *)
(* webapp/app.js quotes.  Amounts are in kopecks, the amounts clients send *)
(* in tenths of a kopeck.  A tier grants so many credits for its price and *)
(* proportionally more above it: the code divides by the price of one      *)
(* credit, 1000/45, 25, 200/7 and 100/3 rubles, in decimals (the webapp in *)
(* binary) of more places than an amount in the range can need.            *)
(***************************************************************************)
EXTENDS Integers

MinAmount == 10000
MaxAmount == 300000

(* quantize(0.01, ROUND_HALF_UP); the range is checked after it.           *)
(* NotTooLittle is a mutant.                                               *)
Normalized(raw) == (raw + 5) \div 10
NotTooLittle(amount) == amount >= MinAmount
InRange(amount)      == amount >= MinAmount /\ amount <= MaxAmount

Tier(credits, price) == [credits |-> credits, price |-> price]

(* TOPUP_TIERS, from the dearest.  The first is a mutant.                  *)
TierFromAbove(amount) ==
    IF amount > 100000 THEN Tier(45, 100000)
    ELSE IF amount > 50000 THEN Tier(20, 50000)
    ELSE IF amount > 20000 THEN Tier(7, 20000)
    ELSE Tier(3, 10000)
TierOf(amount) ==
    IF amount >= 100000 THEN Tier(45, 100000)
    ELSE IF amount >= 50000 THEN Tier(20, 50000)
    ELSE IF amount >= 20000 THEN Tier(7, 20000)
    ELSE Tier(3, 10000)

TopupCredits(amount) ==
    (amount * TierOf(amount).credits) \div TierOf(amount).price

(* creditsForAmount: the packages of the wallet, and a formula of its own  *)
(* for other whole rubles.                                                 *)
Packages == {<<10000, 3>>, <<20000, 7>>, <<50000, 20>>, <<100000, 45>>}

Quoted(amount) ==
    IF \E p \in Packages : p[1] = amount
    THEN (CHOOSE p \in Packages : p[1] = amount)[2]
    ELSE IF amount >= 100000 THEN (amount * 45) \div 100000
    ELSE IF amount >= 50000 THEN amount \div 2500
    ELSE IF amount >= 20000 THEN (amount * 7) \div 20000
    ELSE (amount * 3) \div 10000

WholeRubles(amount) == amount % 100 = 0
=============================================================================
