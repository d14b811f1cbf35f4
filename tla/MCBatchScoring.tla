---------------------------- MODULE MCBatchScoring ----------------------------
(***************************************************************************)
(* Small instances of BatchScoring for TLC.                                *)
(***************************************************************************)
EXTENDS BatchScoring

CONSTANTS j1, j2, t1, t2, t3, r1, r2

\* Transactions that no constant tells apart are interchangeable.
SymThree == Permutations({t1, t2, t3})
=============================================================================
