---------------------------- MODULE MCUploadPage ----------------------------
(***************************************************************************)
(* Small instances of UploadPage for TLC.                                  *)
(***************************************************************************)
EXTENDS UploadPage, TLC

CONSTANTS t1, t2, a, b, c

Csv(header, rows) == [isCsv |-> TRUE, header |-> header, rows |-> rows]

\* Two files with a row in common, a row twice, and one of every defect.
TheFiles == {"good", "mixed", "broken", "refused", "headless", "empty", "image"}
TheContents ==
    [f \in TheFiles |->
        CASE f = "good"     -> Csv("ok", <<t1, t2, t1>>)
          [] f = "mixed"    -> Csv("ok", <<t1, Bad>>)
          [] f = "broken"   -> Csv("ok", <<t1, t2, Broken>>)
          [] f = "refused"  -> Csv("ok", <<TooBig, t2>>)
          [] f = "headless" -> Csv("missing", <<t1>>)
          [] f = "empty"    -> Csv("none", <<>>)
          [] f = "image"    -> [isCsv |-> FALSE, header |-> "none", rows |-> <<>>]]
TheIds == {t1, t2}

Slots == Permutations(Requests)

TheWorlds == {{"crash", "import"}, {"network"}, {"reset"}, {"single", "db"}, {"disk", "import"}}
=============================================================================
