---------------------------- MODULE MCLiveFeed ----------------------------
(***************************************************************************)
(* A small instance of LiveFeed for TLC.                                   *)
(***************************************************************************)
EXTENDS LiveFeed

CONSTANTS r1, r2
=============================================================================
