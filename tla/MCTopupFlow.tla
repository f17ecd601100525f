---------------------------- MODULE MCTopupFlow -----------------------------
(* Instance of TopupFlow for TLC: amounts at the edges of the range and of *)
(* a tier, before rounding.                                                *)
EXTENDS TopupFlow

MCAsked     == {99994, 199994, 199995, 3000005}
MCElsewhere == {<<1, "live", 5000>>, <<1, "live", 20000>>}
MCModes     == {"test", "live"}
=============================================================================
