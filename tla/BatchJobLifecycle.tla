-------------------------- MODULE BatchJobLifecycle --------------------------
(***************************************************************************)
(* What a batch job promises the people who watch it, with nothing of the  *)
(* queue, the worker or the scorer left: a job is accepted with a number   *)
(* of chunks, every chunk is accounted exactly once, the last one decides  *)
(* the final status from the tallies, and only a retry reopens the job.    *)
(*                                                                         *)
(*   backend/prisma/schema.prisma   BatchJobStatus, BatchJob               *)
(***************************************************************************)
EXTENDS Naturals

CONSTANTS Jobs,      \* batch job ids
          MaxChunks, \* no request makes more chunks than this
          MaxRows    \* no chunk has more rows than this

VARIABLES status,    \* the job's status, "NONE" before it is accepted
          left,      \* its chunks not yet accounted for
          processed, \* rows accounted as scored, over all runs
          failed     \* rows accounted as failed, in this run

vars == <<status, left, processed, failed>>

InFlight  == {"QUEUED", "PROCESSING"}
Retryable == {"FAILED", "PARTIALLY_COMPLETED"}
Final     == Retryable \union {"COMPLETED"}

Verdict(p, f) == CASE f = 0 -> "COMPLETED"
                   [] f # 0 /\ p = 0 -> "FAILED"
                   [] OTHER -> "PARTIALLY_COMPLETED"

Init == /\ status = [j \in Jobs |-> "NONE"]
        /\ left = [j \in Jobs |-> 0]
        /\ processed = [j \in Jobs |-> 0]
        /\ failed = [j \in Jobs |-> 0]

Accept(j) ==
    /\ status[j] = "NONE"
    /\ status' = [status EXCEPT ![j] = "QUEUED"]
    /\ \E n \in 1..MaxChunks : left' = [left EXCEPT ![j] = n]
    /\ UNCHANGED <<processed, failed>>

Start(j) ==
    /\ status[j] = "QUEUED"
    /\ status' = [status EXCEPT ![j] = "PROCESSING"]
    /\ UNCHANGED <<left, processed, failed>>

\* One chunk's rows are accounted for.
Account(j) ==
    /\ status[j] = "PROCESSING"
    /\ left[j] > 0
    /\ left' = [left EXCEPT ![j] = @ - 1]
    /\ \E p, f \in 0..MaxRows :
          /\ p + f \in 1..MaxRows
          /\ processed' = [processed EXCEPT ![j] = @ + p]
          /\ failed' = [failed EXCEPT ![j] = @ + f]
    /\ UNCHANGED status

Finish(j) ==
    /\ status[j] = "PROCESSING"
    /\ left[j] = 0
    /\ status' = [status EXCEPT ![j] = Verdict(processed[j], failed[j])]
    /\ UNCHANGED <<left, processed, failed>>

Reopen(j) ==
    /\ status[j] \in Retryable
    /\ status' = [status EXCEPT ![j] = "QUEUED"]
    /\ \E n \in 1..MaxChunks : left' = [left EXCEPT ![j] = n]
    /\ failed' = [failed EXCEPT ![j] = 0]
    /\ UNCHANGED processed

Progress(j) == Start(j) \/ Account(j) \/ Finish(j)

Next == \E j \in Jobs : Accept(j) \/ Progress(j) \/ Reopen(j)

\* Who accepts a job sees it through.
Spec == Init /\ [][Next]_vars /\ \A j \in Jobs : WF_vars(Progress(j))

=============================================================================
