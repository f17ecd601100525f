--------------------------- MODULE MCWebsiteLogin ---------------------------
(***************************************************************************)
(* Instances of WebsiteLogin for TLC.                                      *)
(***************************************************************************)
EXTENDS WebsiteLogin

CONSTANTS u1, u2, t1, t2
=============================================================================
