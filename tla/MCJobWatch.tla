----------------------------- MODULE MCJobWatch -----------------------------
(***************************************************************************)
(* Small instances of JobWatch for TLC.                                    *)
(***************************************************************************)
EXTENDS JobWatch, TLC

\* Two jobs to select from while the socket drops and comes back.
TwoJobs == [chunks |-> 1 :> 1 @@ 2 :> 1, failing |-> {}, filters |-> {},
            faults |-> {"socket"}]

\* Two handlers of one job overtake each other, and the job is retried.
OneJob == [chunks |-> 1 :> 2, failing |-> {1}, filters |-> {}, faults |-> {"redis"}]

\* The selection moves with the filter, and a token expires.
Filtered == [chunks |-> 1 :> 1 @@ 2 :> 1, failing |-> {}, filters |-> {"PROCESSING"},
             faults |-> {"expiry"}]

\* Two handlers of one job, and the socket drops.
Dropped == [chunks |-> 1 :> 2, failing |-> {}, filters |-> {}, faults |-> {"socket"}]

TheWorlds    == {TwoJobs, OneJob, Filtered, Dropped}
JustDropped  == {Dropped}
=============================================================================
