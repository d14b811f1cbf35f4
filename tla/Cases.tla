------------------------------- MODULE Cases -------------------------------
(***************************************************************************)
(* The review queue of the API: flagged transactions get a case, analysts  *)
(* decide it.                                                              *)
(*                                                                         *)
(*   backend/src/modules/cases/cases.service.js   backfillCases, buildWhere*)
(*       listCases, getCaseCounts, updateCase                              *)
(*   backend/src/modules/cases/cases.routes.js    who may update           *)
(*   backend/src/modules/predictions/predictions.service.js                *)
(*   backend/src/modules/transactions/transactions.service.js              *)
(*                                                                         *)
(* backfillCases and updateCase decide on what they read before an await   *)
(* and write after it: each is two steps, and requests interleave. Audit   *)
(* rows and log lines change nothing that is read back and are left out.   *)
(***************************************************************************)
EXTENDS Integers, FiniteSets

CONSTANTS
    Txns,          \* transactions
    Users,         \* users who send requests
    Viewers,       \* those among them whose role is VIEWER
    Nobody,        \* no assignee: null
    Unset,         \* a field the request's body leaves out
    None,          \* no prediction, no case, no request
    BackfillIds,   \* backfill requests, one slot each
    RequestIds,    \* update requests, one slot each
    BackfillLimit  \* the limit of one backfill

ASSUME CasesAssumption ==
    /\ IsFiniteSet(Txns) /\ IsFiniteSet(BackfillIds) /\ IsFiniteSet(RequestIds)
    /\ Viewers \subseteq Users /\ Nobody \notin Users
    /\ Unset \notin Users \union {Nobody, "UNDER_REVIEW", "CONFIRMED_FRAUD", "FALSE_POSITIVE"}
    /\ BackfillLimit \in Nat \ {0}

CASE_STATUSES == {"UNDER_REVIEW", "CONFIRMED_FRAUD", "FALSE_POSITIVE"}
RISK_LEVELS   == {"CLEAR", "SUSPICIOUS", "CRITICAL"}
FLAGGED       == {"SUSPICIOUS", "CRITICAL"}

\* A case is named after the transaction and the backfill that opened it: no
\* backfill opens two for one transaction, and cases are never deleted.
CaseIds == Txns \X BackfillIds
Case    == [status : CASE_STATUSES, resolved : BOOLEAN, assignee : Users \union {Nobody}]

ASSUME CasesNoneAssumption == None \notin Case

\* An update's body; notes are left out of it, and of the case.
Patch   == [status : CASE_STATUSES \union {Unset}, assignee : Users \union {Nobody, Unset}]
Request == [user : Users, case : CaseIds, patch : Patch,
            pc : {"read", "write", "done", "refused"}, \* where it stands
            seen : CASE_STATUSES \union {Unset}]        \* existing.status
\* What a backfill found and has not created yet; {} while it is not running.
Missing == SUBSET Txns

VARIABLES
    risk,       \* the level of each transaction's prediction, or None
    deleted,    \* soft-deleted transactions
    cases,      \* the Case rows
    backfills,  \* backfill requests under way
    requests,   \* update requests under way
    overlapped, \* history: two backfills have run at once
    unassigned  \* history: cases someone has given to nobody by name

casesVars == <<risk, deleted, cases, backfills, requests, overlapped, unassigned>>

-----------------------------------------------------------------------------
(* Scoring and deletion, by whoever asks for them.                         *)

\* scoreAndPersist: at most one prediction per transaction, overwritten by a
\* rescore. BatchScoring has its interleavings with deletion.
scoreAndPersist(t, level) ==
    /\ t \notin deleted
    /\ risk' = [risk EXCEPT ![t] = level]
    /\ UNCHANGED <<deleted, cases, backfills, requests, overlapped, unassigned>>

softDeleteTransaction(t) ==
    /\ t \notin deleted
    /\ deleted' = deleted \union {t}
    /\ UNCHANGED <<risk, cases, backfills, requests, overlapped, unassigned>>

-----------------------------------------------------------------------------
(* Backfill.                                                               *)

HasCase(t) == \E b \in BackfillIds : cases[<<t, b>>] # None

\* Mutant: transactions that have a case are found again.
Uncovered_All == {t \in Txns : t \notin deleted /\ risk[t] \in FLAGGED}

Uncovered == {t \in Txns : t \notin deleted /\ risk[t] \in FLAGGED /\ ~HasCase(t)}

\* findMany with take: any rows, as the query has no order.
findMissing(b) ==
    /\ backfills[b] = {} /\ Uncovered # {}
    /\ \E S \in SUBSET Uncovered :
          /\ Cardinality(S) <= BackfillLimit
          /\ S # Uncovered => Cardinality(S) = BackfillLimit
          /\ S # {}
          /\ backfills' = [backfills EXCEPT ![b] = S]
    /\ overlapped' = (overlapped \/ \E c \in BackfillIds \ {b} : backfills[c] # {})
    /\ UNCHANGED <<risk, deleted, cases, requests, unassigned>>

NewCase == [status |-> "UNDER_REVIEW", resolved |-> FALSE, assignee |-> Nobody]

\* createMany: transactionId is not unique, so skipDuplicates skips nothing.
createMissing(b) ==
    /\ backfills[b] # {}
    /\ cases' = [c \in CaseIds |->
                    IF c[1] \in backfills[b] /\ c[2] = b THEN NewCase ELSE cases[c]]
    /\ backfills' = [backfills EXCEPT ![b] = {}]
    /\ UNCHANGED <<risk, deleted, requests, overlapped, unassigned>>

-----------------------------------------------------------------------------
(* Update.                                                                 *)

SendUpdate(i, u, c, p) ==
    /\ requests[i] = None /\ cases[c] # None
    /\ p # [status |-> Unset, assignee |-> Unset]
    /\ requests' = [requests EXCEPT ![i] =
          [user |-> u, case |-> c, patch |-> p, pc |-> "read", seen |-> Unset]]
    /\ UNCHANGED <<risk, deleted, cases, backfills, overlapped, unassigned>>

\* requireRole, and the read that updateCase decides on.
readExisting(i) ==
    LET r == requests[i]
    IN  /\ r # None /\ r.pc = "read"
        /\ requests' = [requests EXCEPT ![i] =
              IF r.user \in Viewers \/ r.case[1] \in deleted
              THEN [r EXCEPT !.pc = "refused"]
              ELSE [r EXCEPT !.pc = "write", !.seen = cases[r.case].status]]
        /\ UNCHANGED <<risk, deleted, cases, backfills, overlapped, unassigned>>

\* Mutant: a case that was under review when read keeps its empty resolvedAt.
Decided_Late(row, r) ==
    IF r.patch.status \in {Unset, r.seen} THEN row
    ELSE [row EXCEPT !.status = r.patch.status,
                     !.resolved = r.seen # "UNDER_REVIEW" /\ r.patch.status # "UNDER_REVIEW",
                     !.assignee = r.user]

\* The decision compares with the status that was read.
Decided(row, r) ==
    IF r.patch.status \in {Unset, r.seen} THEN row
    ELSE [row EXCEPT !.status = r.patch.status,
                     !.resolved = r.patch.status # "UNDER_REVIEW",
                     !.assignee = r.user]

\* Mutant: only a body that sets the assignee assigns the case.
Named_Only(row, r) ==
    [row EXCEPT !.assignee = IF r.patch.assignee = Unset THEN Nobody ELSE r.patch.assignee]

\* An assignee in the body, null included, has the last word.
Named(row, r) ==
    IF r.patch.assignee = Unset THEN row ELSE [row EXCEPT !.assignee = r.patch.assignee]

\* A body that changes nothing is answered with the case as it now is, which a
\* deletion in between makes a 404; anything else is written whatever happened
\* to the row since it was read.
writeUpdate(i) ==
    LET r     == requests[i]
        empty == r.patch.status \in {Unset, r.seen} /\ r.patch.assignee = Unset
        gone  == empty /\ r.case[1] \in deleted
    IN  /\ r # None /\ r.pc = "write"
        /\ cases' = [cases EXCEPT ![r.case] = IF empty THEN @ ELSE Named(Decided(@, r), r)]
        /\ unassigned' = IF r.patch.assignee = Nobody
                         THEN unassigned \union {r.case} ELSE unassigned
        /\ requests' = [requests EXCEPT ![i] =
              [r EXCEPT !.pc = IF gone THEN "refused" ELSE "done"]]
        /\ UNCHANGED <<risk, deleted, backfills, overlapped>>

Answered(i) == requests[i] # None /\ requests[i].pc \in {"done", "refused"}

answerUpdate(i) ==
    /\ Answered(i)
    /\ requests' = [requests EXCEPT ![i] = None]
    /\ UNCHANGED <<risk, deleted, cases, backfills, overlapped, unassigned>>

-----------------------------------------------------------------------------
(* Reads.                                                                  *)

\* buildWhere: a case whose transaction is deleted or has no prediction drops
\* out of the queue.
Listed(s) == {c \in CaseIds : /\ cases[c] # None /\ cases[c].status = s
                              /\ c[1] \notin deleted /\ risk[c[1]] # None}

Rank(level) == CASE level = "CLEAR" -> 1 [] level = "SUSPICIOUS" -> 2
                 [] level = "CRITICAL" -> 3

\* The first page of a status by descending risk, whichever way ties fall.
listCases(s, n) ==
    {S \in SUBSET Listed(s) :
        /\ Cardinality(S) = IF Cardinality(Listed(s)) < n THEN Cardinality(Listed(s)) ELSE n
        /\ \A c \in S, d \in Listed(s) \ S : Rank(risk[c[1]]) >= Rank(risk[d[1]])}

getCaseCounts ==
    [s \in CASE_STATUSES |->
        Cardinality({c \in CaseIds : /\ cases[c] # None /\ cases[c].status = s
                                     /\ c[1] \notin deleted})]

-----------------------------------------------------------------------------

CasesInit ==
    /\ risk = [t \in Txns |-> None] /\ deleted = {}
    /\ cases = [c \in CaseIds |-> None]
    /\ backfills = [b \in BackfillIds |-> {}]
    /\ requests = [i \in RequestIds |-> None]
    /\ overlapped = FALSE /\ unassigned = {}

CasesNext ==
    \/ \E t \in Txns : \/ softDeleteTransaction(t)
                       \/ \E level \in RISK_LEVELS : scoreAndPersist(t, level)
    \/ \E b \in BackfillIds : findMissing(b) \/ createMissing(b)
    \/ \E i \in RequestIds : \/ readExisting(i) \/ writeUpdate(i) \/ answerUpdate(i)
                             \/ \E u \in Users, c \in CaseIds, p \in Patch :
                                   SendUpdate(i, u, c, p)

CasesSpec == CasesInit /\ [][CasesNext]_casesVars

-----------------------------------------------------------------------------
(* Properties.                                                             *)

CasesTypeOK ==
    /\ risk \in [Txns -> RISK_LEVELS \union {None}] /\ deleted \subseteq Txns
    /\ cases \in [CaseIds -> Case \union {None}]
    /\ backfills \in [BackfillIds -> Missing]
    /\ requests \in [RequestIds -> Request \union {None}]
    /\ overlapped \in BOOLEAN /\ unassigned \subseteq CaseIds

\* "Leaving that to the client would guarantee the two disagree eventually":
\* resolvedAt is set exactly when the case is decided, though each update
\* decides on a status it read before others wrote.
ResolvedMatchesStatus ==
    \A c \in CaseIds : cases[c] # None =>
        cases[c].resolved = (cases[c].status # "UNDER_REVIEW")

\* "The analyst making the call takes ownership unless one is named": a decided
\* case belongs to someone, through races of decisions and assignments, unless
\* an update gave it to nobody by name.
DecisionsAreOwned ==
    \A c \in CaseIds : cases[c] # None /\ cases[c].status # "UNDER_REVIEW" =>
        cases[c].assignee # Nobody \/ c \in unassigned

\* "running it twice is a no-op": however scoring and decisions interleave
\* with it, one backfill at a time opens one case per transaction. (Two at
\* once may open two: no constraint of the schema keeps them apart.)
OneCasePerTransaction ==
    ~overlapped => \A t \in Txns : \A b, c \in BackfillIds :
        cases[<<t, b>>] # None /\ cases[<<t, c>>] # None => b = c

=============================================================================
