-------------------------- MODULE MCRenderPipeline --------------------------
(***************************************************************************)
(* Instances of RenderPipeline for TLC: two uploads with the same key, one *)
(* with another, and one request of the bot.                               *)
(***************************************************************************)
EXTENDS RenderPipeline

CONSTANTS r1, r2, r3, r4, k1, k2

SharedKey ==
    [r \in Requests |-> CASE r \in {r1, r2} -> k1
                          [] r = r3         -> k2
                          [] OTHER          -> NoKey]
=============================================================================
