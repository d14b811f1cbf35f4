------------------------- MODULE MCTransactionsPage -------------------------
(***************************************************************************)
(* Small instances of TransactionsPage for TLC.                            *)
(***************************************************************************)
EXTENDS TransactionsPage, TLC

CONSTANTS t1, t2, t3

TheIds == {t1, t2, t3}
TheCountries == (1 :> "PK") @@ (2 :> "US") @@ (3 :> None)

New(from, to, at, level) ==
    [sender |-> from, receiver |-> to, at |-> at, level |-> level, live |-> TRUE]

TheArrivals == {New(1, 2, 1, None)}

\* Who paid whom, and what the scorer made of it, in every way.
Parties == {<<1, 2>>, <<1, 3>>, <<2, 1>>, <<3, 2>>, <<3, 3>>}
Networks ==
    {(t1 :> New(p[1], p[2], 0, k)) @@ (t2 :> New(q[1], q[2], 1, l))
       @@ (t3 :> New(r[1], r[2], 3, m)) :
        p, q, r \in Parties, k, l, m \in {"CRITICAL", "SUSPICIOUS", "CLEAR"}}

Apart == (t1 :> New(1, 2, 0, "CLEAR")) @@ (t2 :> New(2, 3, 1, None))
           @@ (t3 :> New(1, 3, 2, "CRITICAL"))
Tied  == [Apart EXCEPT ![t2].at = 0]
All   == [Apart EXCEPT ![t2].level = "CRITICAL"]
Other == [Apart EXCEPT ![t1] = None]

World(table, what) == [table |-> table, happens |-> what]

TheWorlds == {World(n, {"network", "writes"}) : n \in Networks}
             \union {World(t, {"radar", "writes"}) : t \in {Other, Tied}}
             \union {World(t, {"pages"}) : t \in {Apart, Other}}
             \union {World(t, {"reports", "writes"}) : t \in {Other, Tied}}
             \union {World(t, {"export", "writes"}) : t \in {Apart, All}}

TheIdOf == (t1 :> 2) @@ (t2 :> 1) @@ (t3 :> 3)
=============================================================================
