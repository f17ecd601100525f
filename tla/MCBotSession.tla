---------------------------- MODULE MCBotSession ----------------------------
(***************************************************************************)
(* Instances of BotSession for TLC.                                        *)
(***************************************************************************)
EXTENDS BotSession

CONSTANTS u1, u2
=============================================================================
