---------------------------- MODULE MCCasesBoard ----------------------------
(***************************************************************************)
(* Small instances of CasesBoard for TLC.                                  *)
(***************************************************************************)
EXTENDS CasesBoard, TLC

CONSTANTS t1, t2, u1, u2, u3

Alone  == (t1 :> {t1} @@ t2 :> {t2})
Levels == (t1 :> "SUSPICIOUS" @@ t2 :> "CRITICAL")
OneTxn == (t1 :> "SUSPICIOUS" @@ t2 :> None)

Decide(s) == [status |-> s, assignee |-> Unset]
Assign(u) == [status |-> Unset, assignee |-> u]

Column(s) == <<"cases", s>>
Counts    == <<"cases", "counts">>

\* Two cases, one more than a column shows; moves overlap.
Moves == [flagged |-> Levels, covered |-> {t1, t2}, acts |-> {"buttons"}, patches |-> {},
          hits |-> Alone, keys |-> {Column("UNDER_REVIEW")}]

\* A card is dragged while another analyst decides its case.
Dragged == [flagged |-> OneTxn, covered |-> {t1}, acts |-> {"drag", "others"},
            patches |-> {Decide("FALSE_POSITIVE")}, hits |-> Alone,
            keys |-> {Column("UNDER_REVIEW")}]

\* Another analyst decides and assigns the same case, or deletes its transaction.
Shared == [flagged |-> OneTxn, covered |-> {t1}, acts |-> {"buttons", "others", "delete"},
           patches |-> {Decide("UNDER_REVIEW"),
                        [status |-> "FALSE_POSITIVE", assignee |-> Nobody]},
           hits |-> Alone, keys |-> {Column("UNDER_REVIEW")}]

\* Answers and fetches are lost.
Lossy == [flagged |-> OneTxn, covered |-> {t1}, acts |-> {"buttons", "api"},
          patches |-> {}, hits |-> Alone,
          keys |-> {Column("UNDER_REVIEW")}]

\* The queue fills by backfills while transactions are scored and deleted.
Filling == [flagged |-> OneTxn, covered |-> {}, acts |-> {"backfill", "rescore", "delete"},
            patches |-> {}, hits |-> Alone, keys |-> {Column("UNDER_REVIEW"), Counts}]

\* The drawer over the board; a search for t1 finds t2 too.
Drawer == [flagged |-> Levels, covered |-> {t1}, acts |-> {"drawer"}, patches |-> {},
           hits |-> (t1 :> {t1, t2} @@ t2 :> {t2}),
           keys |-> DrawerKeys \union {Column("UNDER_REVIEW")}]

TheWorlds == {Moves, Dragged, Shared, Lossy, Filling, Drawer}
=============================================================================
