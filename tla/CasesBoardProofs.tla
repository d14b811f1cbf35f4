-------------------------- MODULE CasesBoardProofs --------------------------
(***************************************************************************)
(* First what holds of the review queue for every number of transactions,  *)
(* users, backfills and updates under way: theorems about CasesSpec. Then  *)
(* the board and the drawer do to the queue only what its API allows, so   *)
(* that all of it holds under them, from any instance the board starts     *)
(* with; and what the board and the drawer show is current.                *)
(***************************************************************************)
EXTENDS CasesBoard, TLAPS

\* While no two backfills have run at once.
Serial ==
    /\ \A b, c \in BackfillIds : backfills[b] # {} /\ backfills[c] # {} => b = c
    /\ \A b \in BackfillIds : \A t \in backfills[b] : ~HasCase(t)
    /\ \A t \in Txns : \A b, c \in BackfillIds :
          cases[<<t, b>>] # None /\ cases[<<t, c>>] # None => b = c

IInv ==
    /\ CasesTypeOK
    /\ \A i \in RequestIds : requests[i] # None => cases[requests[i].case] # None
    /\ ResolvedMatchesStatus /\ DecisionsAreOwned
    /\ ~overlapped => Serial

-----------------------------------------------------------------------------
(* Rows.                                                                   *)

\* A row a backfill creates.
LEMMA NewRow == /\ NewCase \in Case /\ NewCase # None
                /\ NewCase.status = "UNDER_REVIEW" /\ NewCase.resolved = FALSE
<1>1. NewCase \in Case
    BY DEF NewCase, Case, CASE_STATUSES
<1>2. NewCase.status = "UNDER_REVIEW" /\ NewCase.resolved = FALSE
    BY DEF NewCase
<1>. QED BY <1>1, <1>2, CasesNoneAssumption

\* An update's decision leaves a row of the right type whose resolvedAt agrees
\* with its status, and gives a row it decides to the user who sent it.
LEMMA DecidedRow ==
    ASSUME NEW row \in Case, NEW r \in Request,
           row.resolved = (row.status # "UNDER_REVIEW")
    PROVE  /\ Decided(row, r) \in Case
           /\ Decided(row, r).resolved = (Decided(row, r).status # "UNDER_REVIEW")
           /\ Decided(row, r) = row \/ Decided(row, r).assignee = r.user
<1>1. CASE r.patch.status \in {Unset, r.seen}
    BY <1>1 DEF Decided
<1>2. CASE r.patch.status \notin {Unset, r.seen}
  <2>. DEFINE new == [row EXCEPT !.status = r.patch.status,
                                 !.resolved = r.patch.status # "UNDER_REVIEW",
                                 !.assignee = r.user]
  <2>1. Decided(row, r) = new
      BY <1>2 DEF Decided
  <2>2. r.patch.status \in CASE_STATUSES /\ r.user \in Users
      BY <1>2 DEF Request, Patch
  <2>3. new \in Case
      BY <2>2 DEF Case
  <2>4. /\ new.status = r.patch.status /\ new.assignee = r.user
        /\ new.resolved = (r.patch.status # "UNDER_REVIEW")
      BY DEF Case
  <2>. HIDE DEF new
  <2>. QED BY <2>1, <2>3, <2>4
<1>. QED BY <1>1, <1>2

\* The assignee of the body changes nothing else.
LEMMA NamedRow ==
    ASSUME NEW row \in Case, NEW r \in Request
    PROVE  /\ Named(row, r) \in Case
           /\ Named(row, r).status = row.status /\ Named(row, r).resolved = row.resolved
           /\ IF r.patch.assignee = Unset THEN Named(row, r).assignee = row.assignee
              ELSE Named(row, r).assignee = r.patch.assignee
<1>1. r.patch.assignee \in Users \union {Nobody, Unset}
    BY DEF Request, Patch
<1>. QED BY <1>1 DEF Named, Case

-----------------------------------------------------------------------------
(* Steps.                                                                  *)

\* What concerns neither the rows nor who is under way.
LEMMA AsideKeeps ==
    ASSUME IInv, UNCHANGED <<cases, backfills, requests, overlapped, unassigned>>,
           risk' \in [Txns -> RISK_LEVELS \union {None}], deleted' \subseteq Txns
    PROVE  IInv'
    BY DEF IInv, CasesTypeOK, ResolvedMatchesStatus, DecisionsAreOwned, Serial, HasCase

LEMMA FindKeeps ==
    ASSUME IInv, NEW b \in BackfillIds, findMissing(b) PROVE IInv'
<1>1. PICK S \in SUBSET Uncovered : backfills' = [backfills EXCEPT ![b] = S]
    BY DEF findMissing
<1>2. UNCHANGED <<risk, deleted, cases, requests, unassigned>> /\ overlapped' \in BOOLEAN
    BY DEF findMissing
<1>3. S \in Missing /\ \A t \in S : ~HasCase(t)
    BY DEF Missing, Uncovered
<1>4. CasesTypeOK'
    BY <1>1, <1>2, <1>3 DEF IInv, CasesTypeOK
<1>5. ASSUME ~overlapped' PROVE Serial'
  <2>1. ~overlapped /\ \A c \in BackfillIds \ {b} : backfills[c] = {}
      BY <1>5 DEF findMissing
  <2>2. \A t \in Txns : HasCase(t)' = HasCase(t)
      BY <1>2 DEF HasCase
  <2>3. \A c \in BackfillIds : backfills'[c] = IF c = b THEN S ELSE {}
      BY <1>1, <2>1 DEF IInv, CasesTypeOK
  <2>. QED BY <1>2, <1>3, <2>1, <2>2, <2>3 DEF IInv, Serial, HasCase
<1>. QED BY <1>2, <1>4, <1>5 DEF IInv, ResolvedMatchesStatus, DecisionsAreOwned

LEMMA CreateKeeps ==
    ASSUME IInv, NEW b \in BackfillIds, createMissing(b) PROVE IInv'
<1>0. UNCHANGED <<risk, deleted, requests, overlapped, unassigned>>
    BY DEF createMissing
<1>1. \A c \in CaseIds : cases'[c] = IF c[1] \in backfills[b] /\ c[2] = b THEN NewCase ELSE cases[c]
    BY DEF createMissing
<1>2. CasesTypeOK'
  <2>1. cases' \in [CaseIds -> Case \union {None}]
      BY NewRow DEF createMissing, IInv, CasesTypeOK
  <2>2. backfills' \in [BackfillIds -> Missing]
      BY DEF createMissing, IInv, CasesTypeOK, Missing
  <2>. QED BY <1>0, <2>1, <2>2 DEF IInv, CasesTypeOK
<1>3. ASSUME NEW i \in RequestIds, requests'[i] # None PROVE cases'[requests'[i].case] # None
  <2>1. requests[i] \in Request /\ cases[requests[i].case] # None
      BY <1>0, <1>3 DEF IInv, CasesTypeOK
  <2>2. requests[i].case \in CaseIds
      BY <2>1 DEF Request
  <2>. QED BY <1>0, <1>1, <2>1, <2>2, NewRow
<1>4. ResolvedMatchesStatus' /\ DecisionsAreOwned'
    BY <1>0, <1>1, NewRow DEF IInv, ResolvedMatchesStatus, DecisionsAreOwned
<1>5. ASSUME ~overlapped PROVE Serial'
  <2>1. Serial
      BY <1>5 DEF IInv
  <2>2. backfills[b] # {} /\ \A c \in BackfillIds : backfills'[c] = {}
      BY <2>1 DEF createMissing, Serial, IInv, CasesTypeOK
  <2>3. \A t \in Txns, c \in BackfillIds : <<t, c>> \in CaseIds /\
           cases'[<<t, c>>] = IF t \in backfills[b] /\ c = b THEN NewCase ELSE cases[<<t, c>>]
      BY <1>1 DEF CaseIds
  <2>4. \A t \in backfills[b] : \A c \in BackfillIds : cases[<<t, c>>] = None
      BY <2>1 DEF Serial, HasCase
  <2>5. \A t \in Txns : \A c, d \in BackfillIds :
           cases'[<<t, c>>] # None /\ cases'[<<t, d>>] # None => c = d
      BY <2>1, <2>3, <2>4 DEF Serial
  <2>. QED BY <2>2, <2>5 DEF Serial
<1>. QED BY <1>0, <1>2, <1>3, <1>4, <1>5 DEF IInv

\* A request comes, is read or is answered: only its own slot changes.
LEMMA RequestKeeps ==
    ASSUME IInv, NEW i \in RequestIds, NEW new \in Request \union {None},
           requests' = [requests EXCEPT ![i] = new],
           new # None => cases[new.case] # None,
           UNCHANGED <<risk, deleted, cases, backfills, overlapped, unassigned>>
    PROVE  IInv'
<1>1. CasesTypeOK'
    BY DEF IInv, CasesTypeOK
<1>2. \A j \in RequestIds : requests'[j] # None => cases'[requests'[j].case] # None
    BY DEF IInv, CasesTypeOK
<1>. QED BY <1>1, <1>2 DEF IInv, ResolvedMatchesStatus, DecisionsAreOwned, Serial, HasCase

LEMMA SendKeeps ==
    ASSUME IInv, NEW i \in RequestIds, NEW u \in Users, NEW c \in CaseIds, NEW p \in Patch,
           SendUpdate(i, u, c, p)
    PROVE  IInv'
<1>. DEFINE new == [user |-> u, case |-> c, patch |-> p, pc |-> "read", seen |-> Unset]
<1>1. new \in Request /\ new.case = c
    BY DEF Request
<1>2. /\ requests' = [requests EXCEPT ![i] = new] /\ cases[c] # None
      /\ UNCHANGED <<risk, deleted, cases, backfills, overlapped, unassigned>>
    BY DEF SendUpdate
<1>. HIDE DEF new
<1>. QED BY <1>1, <1>2, RequestKeeps

LEMMA ReadKeeps ==
    ASSUME IInv, NEW i \in RequestIds, readExisting(i) PROVE IInv'
<1>. DEFINE r == requests[i]
<1>1. r \in Request /\ r # None /\ cases[r.case] # None
    BY DEF readExisting, IInv, CasesTypeOK
<1>2. cases[r.case] \in Case
    BY <1>1 DEF IInv, CasesTypeOK, Request
<1>3. UNCHANGED <<risk, deleted, cases, backfills, overlapped, unassigned>>
    BY DEF readExisting
<1>4. CASE requests' = [requests EXCEPT ![i] = [r EXCEPT !.pc = "refused"]]
  <2>. DEFINE new == [r EXCEPT !.pc = "refused"]
  <2>1. new \in Request /\ new.case = r.case
      BY <1>1 DEF Request
  <2>. HIDE DEF new
  <2>. QED BY <1>1, <1>3, <1>4, <2>1, RequestKeeps DEF new
<1>5. CASE requests' = [requests EXCEPT ![i] =
              [r EXCEPT !.pc = "write", !.seen = cases[r.case].status]]
  <2>. DEFINE new == [r EXCEPT !.pc = "write", !.seen = cases[r.case].status]
  <2>0. cases[r.case].status \in CASE_STATUSES
      BY <1>2 DEF Case
  <2>1. new \in Request /\ new.case = r.case
      BY <1>1, <2>0 DEF Request
  <2>. HIDE DEF new
  <2>. QED BY <1>1, <1>3, <1>5, <2>1, RequestKeeps DEF new
<1>. QED BY <1>4, <1>5 DEF readExisting

LEMMA WriteKeeps ==
    ASSUME IInv, NEW i \in RequestIds, writeUpdate(i) PROVE IInv'
<1>. DEFINE r     == requests[i]
            old   == cases[r.case]
            empty == r.patch.status \in {Unset, r.seen} /\ r.patch.assignee = Unset
            row   == IF empty THEN old ELSE Named(Decided(old, r), r)
            gone  == empty /\ r.case[1] \in deleted
            new   == [r EXCEPT !.pc = IF gone THEN "refused" ELSE "done"]
<1>1. r \in Request /\ r # None /\ old # None /\ r.case \in CaseIds
    BY DEF writeUpdate, IInv, CasesTypeOK, Request
<1>2. old \in Case /\ old.resolved = (old.status # "UNDER_REVIEW")
    BY <1>1 DEF IInv, CasesTypeOK, ResolvedMatchesStatus
<1>3. /\ cases' = [cases EXCEPT ![r.case] = row]
      /\ unassigned' = IF r.patch.assignee = Nobody THEN unassigned \union {r.case}
                       ELSE unassigned
      /\ requests' = [requests EXCEPT ![i] = new]
      /\ UNCHANGED <<risk, deleted, backfills, overlapped>>
    BY <1>1 DEF writeUpdate
<1>4. /\ row \in Case /\ row # None
      /\ row.resolved = (row.status # "UNDER_REVIEW")
    BY <1>1, <1>2, DecidedRow, NamedRow, CasesNoneAssumption
<1>5. row.status # "UNDER_REVIEW" => row.assignee # Nobody \/ r.case \in unassigned'
  <2>0. r.user \in Users /\ r.user # Nobody
      BY <1>1, CasesAssumption DEF Request
  <2>1. old.status # "UNDER_REVIEW" => old.assignee # Nobody \/ r.case \in unassigned
      BY <1>1 DEF IInv, DecisionsAreOwned
  <2>2. CASE empty
      BY <1>3, <2>1, <2>2
  <2>3. CASE ~empty
    <3>. DEFINE mid == Decided(old, r)
    <3>1. mid \in Case /\ (mid = old \/ mid.assignee = r.user)
        BY <1>1, <1>2, DecidedRow
    <3>2. mid.status # "UNDER_REVIEW" => mid.assignee # Nobody \/ r.case \in unassigned
        BY <2>0, <2>1, <3>1
    <3>. HIDE DEF mid
    <3>3. /\ row.status = mid.status
          /\ IF r.patch.assignee = Unset THEN row.assignee = mid.assignee
             ELSE row.assignee = r.patch.assignee
      <4>1. row = Named(mid, r)
          BY <2>3 DEF mid
      <4>. QED BY <1>1, <3>1, <4>1, NamedRow
    <3>. QED BY <1>3, <3>2, <3>3
  <2>. QED BY <2>2, <2>3
<1>6. new \in Request /\ new.case = r.case
    BY <1>1 DEF Request
<1>. HIDE DEF row, new
<1>7. /\ cases' \in [CaseIds -> Case \union {None}]
      /\ \A c \in CaseIds : cases'[c] = IF c = r.case THEN row ELSE cases[c]
    BY <1>1, <1>3, <1>4 DEF IInv, CasesTypeOK
<1>8. \A c \in CaseIds : cases'[c] # None <=> cases[c] # None
    BY <1>1, <1>4, <1>7
<1>9. CasesTypeOK'
    BY <1>1, <1>3, <1>6, <1>7 DEF IInv, CasesTypeOK
<1>10. ASSUME NEW j \in RequestIds, requests'[j] # None PROVE cases'[requests'[j].case] # None
  <2>1. requests'[j].case \in CaseIds
      BY <1>9, <1>10 DEF CasesTypeOK, Request
  <2>2. cases[requests'[j].case] # None
      BY <1>1, <1>3, <1>6, <1>10 DEF IInv, CasesTypeOK
  <2>. QED BY <1>8, <2>1, <2>2
<1>11. ResolvedMatchesStatus' /\ DecisionsAreOwned'
  <2>1. unassigned \subseteq unassigned'
      BY <1>3
  <2>. QED BY <1>4, <1>5, <1>7, <2>1 DEF IInv, ResolvedMatchesStatus, DecisionsAreOwned
<1>12. ASSUME ~overlapped PROVE Serial'
  <2>1. \A t \in Txns, b \in BackfillIds : cases'[<<t, b>>] # None <=> cases[<<t, b>>] # None
      BY <1>8 DEF CaseIds
  <2>2. \A t \in Txns : HasCase(t)' <=> HasCase(t)
      BY <2>1 DEF HasCase
  <2>3. \A b \in BackfillIds : backfills'[b] = backfills[b] /\ backfills[b] \subseteq Txns
      BY <1>3 DEF IInv, CasesTypeOK, Missing
  <2>. QED BY <1>12, <2>1, <2>2, <2>3 DEF IInv, Serial
<1>. QED BY <1>3, <1>9, <1>10, <1>11, <1>12 DEF IInv

LEMMA AnswerKeeps ==
    ASSUME IInv, NEW i \in RequestIds, answerUpdate(i) PROVE IInv'
    BY RequestKeeps DEF answerUpdate

LEMMA Inductive == IInv /\ [CasesNext]_casesVars => IInv'
<1>. SUFFICES ASSUME IInv, [CasesNext]_casesVars PROVE IInv'
    OBVIOUS
<1>1. ASSUME NEW t \in Txns, softDeleteTransaction(t) PROVE IInv'
    BY <1>1, AsideKeeps DEF softDeleteTransaction, IInv, CasesTypeOK
<1>2. ASSUME NEW t \in Txns, NEW level \in RISK_LEVELS, scoreAndPersist(t, level) PROVE IInv'
    BY <1>2, AsideKeeps DEF scoreAndPersist, IInv, CasesTypeOK
<1>3. CASE UNCHANGED casesVars
    BY <1>3, AsideKeeps DEF casesVars, IInv, CasesTypeOK
<1>. QED BY <1>1, <1>2, <1>3, FindKeeps, CreateKeeps, SendKeeps, ReadKeeps, WriteKeeps,
            AnswerKeeps DEF CasesNext

LEMMA Initially == CasesInit => IInv
<1>. SUFFICES ASSUME CasesInit PROVE IInv
    OBVIOUS
<1>1. /\ \A c \in CaseIds : cases[c] = None
      /\ \A b \in BackfillIds : backfills[b] = {}
      /\ \A i \in RequestIds : requests[i] = None
    BY DEF CasesInit
<1>2. CasesTypeOK
    BY DEF CasesInit, CasesTypeOK, Missing
<1>3. \A t \in Txns, b \in BackfillIds : cases[<<t, b>>] = None
    BY <1>1 DEF CaseIds
<1>. QED BY <1>1, <1>2, <1>3
         DEF IInv, ResolvedMatchesStatus, DecisionsAreOwned, Serial

LEMMA Invariant == CasesSpec => []IInv
    BY Initially, Inductive, PTL DEF CasesSpec

-----------------------------------------------------------------------------
(* The theorems.                                                           *)

\* The rows and the requests keep their type.
THEOREM QueueTypeOK == CasesSpec => []CasesTypeOK
<1>1. IInv => CasesTypeOK
    BY DEF IInv
<1>. QED BY <1>1, Invariant, PTL

\* resolvedAt and status agree, however updates overlap.
THEOREM ResolvedAgrees == CasesSpec => []ResolvedMatchesStatus
<1>1. IInv => ResolvedMatchesStatus
    BY DEF IInv
<1>. QED BY <1>1, Invariant, PTL

\* A decided case belongs to someone, unless it was given to nobody by name.
THEOREM DecidedIsOwned == CasesSpec => []DecisionsAreOwned
<1>1. IInv => DecisionsAreOwned
    BY DEF IInv
<1>. QED BY <1>1, Invariant, PTL

\* One backfill at a time opens at most one case per transaction.
THEOREM OneCaseEach == CasesSpec => []OneCasePerTransaction
<1>1. IInv => OneCasePerTransaction
    BY DEF IInv, Serial, OneCasePerTransaction
<1>. QED BY <1>1, Invariant, PTL

-----------------------------------------------------------------------------
(* The board and the drawer on top of the queue.                           *)

\* What the page remembers of the queue names real rows.
Remembered ==
    /\ world \in Worlds
    /\ dragging # None => dragging.case \in CaseIds
    /\ drawer # None => drawer \in Txns
    /\ action # None => action \in Mutation

LEMMA BoardInitially == Init => IInv /\ Remembered
<1>. SUFFICES ASSUME Init PROVE IInv /\ Remembered
    OBVIOUS
<1>0. world.flagged \in [Txns -> RISK_LEVELS \union {None}]
    BY BoardAssumption DEF Init
<1>1. /\ \A c \in CaseIds : cases[c] \in {NewCase, None} /\ (cases[c] # None => c[2] = First)
      /\ \A b \in BackfillIds : backfills[b] = {}
      /\ \A i \in RequestIds : requests[i] = None
    BY DEF Init
<1>2. CasesTypeOK
  <2>1. cases \in [CaseIds -> Case \union {None}]
      BY NewRow DEF Init
  <2>2. backfills \in [BackfillIds -> Missing] /\ requests \in [RequestIds -> Request \union {None}]
      BY DEF Init, Missing
  <2>. QED BY <1>0, <2>1, <2>2 DEF Init, CasesTypeOK
<1>3. ResolvedMatchesStatus /\ DecisionsAreOwned
    BY <1>1, NewRow DEF ResolvedMatchesStatus, DecisionsAreOwned
<1>4. Serial
  <2>1. \A t \in Txns, b \in BackfillIds : cases[<<t, b>>] # None => b = First
      BY <1>1 DEF CaseIds
  <2>. QED BY <1>1, <2>1 DEF Serial
<1>5. Remembered
    BY DEF Init, Remembered
<1>. QED BY <1>1, <1>2, <1>3, <1>4, <1>5 DEF IInv

LEMMA BoardRemembers == Remembered /\ [Next]_boardVars => Remembered'
<1>. SUFFICES ASSUME Remembered, [Next]_boardVars PROVE Remembered'
    OBVIOUS
<1>1. CASE UNCHANGED <<world, dragging, drawer, action>>
    BY <1>1 DEF Remembered
<1>2. ASSUME NEW s \in CASE_STATUSES, NEW c \in CaseIds, DragCard(c, s) PROVE Remembered'
    BY <1>2 DEF DragCard, Remembered
<1>3. ASSUME NEW s \in CASE_STATUSES, NEW c \in CaseIds, openDrawer(c, s) PROVE Remembered'
    BY <1>3 DEF openDrawer, Remembered, CaseIds
<1>4. ASSUME NEW s \in CASE_STATUSES, handleDrop(s) PROVE Remembered'
    BY <1>4 DEF handleDrop, Remembered
<1>5. CASE closeDrawer
    BY <1>5 DEF closeDrawer, Remembered
<1>6. ASSUME NEW kind \in {"rescore", "remove"}, Act(kind) PROVE Remembered'
    BY <1>6 DEF Act, Remembered, Mutation
<1>7. CASE Perform
  <2>1. action' = [action EXCEPT !.pc = "done"] \/ action' = [action EXCEPT !.pc = "failed"]
      BY <1>7 DEF Perform
  <2>2. action' \in Mutation
      BY <1>7, <2>1 DEF Perform, Remembered, Mutation
  <2>. QED BY <1>7, <2>2 DEF Perform, Remembered
<1>8. CASE ActionAnswered
    BY <1>8 DEF ActionAnswered, Remembered
<1>9. CASE \/ \E k \in Followed : ReadQuery(k) \/ ReceiveQuery(k) \/ FailQuery(k) \/ TryAgain(k)
           \/ \E s, to \in CASE_STATUSES, c \in CaseIds : MoveCard(c, s, to)
           \/ \E i \in RequestIds : MoveAnswered(i) \/ MoveLost(i) \/ Serve(i)
           \/ Others \/ UNCHANGED boardVars
    BY <1>1, <1>9 DEF ReadQuery, ReceiveQuery, FailQuery, TryAgain, MoveCard, MoveAnswered,
                      MoveLost, Serve, Others, boardVars, page
<1>. QED BY <1>2, <1>3, <1>4, <1>5, <1>6, <1>7, <1>8, <1>9 DEF Next

\* The page sends updates only of real rows, for its user.
LEMMA MoveIsAnUpdate ==
    ASSUME NEW c \in CaseIds, NEW s \in CASE_STATUSES, Move(c, s) PROVE CasesNext
<1>1. PICK i \in RequestIds : SendUpdate(i, Me, c, [status |-> s, assignee |-> Unset])
    BY DEF Move
<1>2. [status |-> s, assignee |-> Unset] \in Patch /\ Me \in Users
    BY BoardAssumption DEF Patch
<1>. QED BY <1>1, <1>2 DEF CasesNext

LEMMA BoardSteps == Remembered /\ [Next]_boardVars => [CasesNext]_casesVars
<1>. SUFFICES ASSUME Remembered, [Next]_boardVars PROVE [CasesNext]_casesVars
    OBVIOUS
<1>1. CASE \/ \E k \in Followed : ReadQuery(k) \/ ReceiveQuery(k) \/ FailQuery(k) \/ TryAgain(k)
           \/ closeDrawer \/ Act("rescore") \/ Act("remove") \/ ActionAnswered
           \/ UNCHANGED boardVars
    BY <1>1 DEF ReadQuery, ReceiveQuery, FailQuery, TryAgain, closeDrawer, Act, ActionAnswered,
                boardVars
<1>2. ASSUME NEW s \in CASE_STATUSES, NEW c \in CaseIds, DragCard(c, s) \/ openDrawer(c, s)
      PROVE  UNCHANGED casesVars
    BY <1>2 DEF DragCard, openDrawer
<1>3. ASSUME NEW s \in CASE_STATUSES, NEW to \in CASE_STATUSES, NEW c \in CaseIds,
             MoveCard(c, s, to)
      PROVE  CasesNext
    BY <1>3, MoveIsAnUpdate DEF MoveCard
<1>4. ASSUME NEW s \in CASE_STATUSES, handleDrop(s) PROVE [CasesNext]_casesVars
    BY <1>4, MoveIsAnUpdate DEF handleDrop, Remembered
<1>5. ASSUME NEW i \in RequestIds, MoveAnswered(i) \/ MoveLost(i) \/ Serve(i)
      PROVE  [CasesNext]_casesVars
    BY <1>5 DEF MoveAnswered, MoveLost, Serve, CasesNext
<1>6. CASE Perform
  <2>1. action.txn \in Txns
      BY <1>6 DEF Perform, Remembered, Mutation
  <2>. QED BY <1>6, <2>1 DEF Perform, CasesNext
<1>7. CASE Others
  <2>1. world.patches \subseteq Patch
      BY BoardAssumption DEF Remembered
  <2>. QED BY <1>7, <2>1 DEF Others, Elsewhere, CasesNext
<1>. QED BY <1>1, <1>2, <1>3, <1>4, <1>5, <1>6, <1>7 DEF Next

LEMMA BoardInvariant == Spec => [](IInv /\ Remembered)
<1>1. IInv /\ Remembered /\ [Next]_boardVars => (IInv /\ Remembered)'
    BY BoardRemembers, BoardSteps, Inductive
<1>. QED BY <1>1, BoardInitially, PTL DEF Spec

-----------------------------------------------------------------------------
(* What the page shows.                                                    *)

Txn(t)  == <<"transaction", t>>
Pred(t) == <<"prediction-for", t>>

Query(q) ==
    /\ DOMAIN q = {"data", "phase", "answer", "error", "invalid", "outdated"}
    /\ q.phase \in {"idle", "asked", "answered"}
    /\ q.error \in BOOLEAN /\ q.invalid \in BOOLEAN /\ q.outdated \in BOOLEAN

QueriesTyped ==
    /\ queries = [k \in Followed |-> queries[k]]
    /\ \A k \in Followed : Query(queries[k])

\* The page has sent what changes the answer of k and will ask again once it
\* is told.
Waiting(k) ==
    \/ k \in CaseKeys /\ awaited # {}
    \/ /\ action # None /\ action.kind = "rescore" /\ action.pc = "done"
       /\ action.txn \notin deleted /\ k = Pred(action.txn)

\* To be asked again when it is next mounted, which the drawer does for
\* transactions that still exist.
Marked(k) == queries[k].invalid /\ k[2] \notin deleted

\* What a query holds, or is about to, is what the API would answer.
Current(k) ==
    ~queries[k].outdated /\ ~Waiting(k) =>
        /\ queries[k].phase = "answered" => queries[k].answer \in Answers(k)
        /\ queries[k].phase = "idle" /\ queries[k].data # NoData /\ ~queries[k].error
              /\ ~Marked(k)
           => queries[k].data \in Answers(k)

\* The page has seen the transaction, or it is gone.
Known(t) == queries[Txn(t)].data = TRUE \/ t \in deleted

\* An answer says so, and a prediction is asked for only then.
KnownRows ==
    \A t \in Txns :
        /\ Txn(t) \in Followed /\ queries[Txn(t)].phase = "answered"
              => queries[Txn(t)].answer = TRUE \/ t \in deleted
        /\ Txn(t) \in Followed /\ Pred(t) \in Followed
              /\ (queries[Pred(t)].phase # "idle" \/ queries[Pred(t)].data # NoData)
           => Known(t)

\* Only predictions are ever marked: the board is always mounted.
Marks == \A k \in Followed : queries[k].invalid => \E t \in Txns : k = Pred(t)

\* A drawer is open in worlds that follow its queries.
Hands ==
    /\ action # None => Known(action.txn)
    /\ drawer # None \/ action # None => DrawerKeys \subseteq Followed

\* A prediction is not mounted with its mark on.
Unmarked(q) == q.invalid /\ q.phase = "idle" /\ ~q.error => q.data = NoData
DrawerFresh == drawer # None => Unmarked(queries[Pred(drawer)]) \/ drawer \in deleted

PageInv ==
    /\ QueriesTyped /\ KnownRows /\ Marks /\ Hands /\ DrawerFresh
    /\ \A k \in Followed : Current(k)

-----------------------------------------------------------------------------
(* One query.                                                              *)

Aged(q)     == [q EXCEPT !.outdated = TRUE]
Noted(q)    == [q EXCEPT !.invalid = TRUE, !.outdated = @ \/ q.phase # "idle"]
Read(q, r)  == r = [q EXCEPT !.phase = "answered", !.answer = r.answer, !.outdated = FALSE]
Received(q) == [q EXCEPT !.data = q.answer, !.answer = NoData, !.phase = "idle",
                         !.error = FALSE, !.invalid = FALSE]
Failed(q)   == [q EXCEPT !.phase = "idle", !.answer = NoData, !.error = TRUE]

LEMMA AskedQuery ==
    ASSUME NEW q, Query(q)
    PROVE  /\ Query(Asked(q)) /\ Asked(q).phase = "asked" /\ Asked(q).data = q.data
           /\ Asked(q).error = q.error /\ Asked(q).invalid = q.invalid
           /\ Asked(q).outdated = q.outdated
    BY DEF Query, Asked

\* A first load that is joined is marked if it may miss what called for it.
LEMMA RefetchedQuery ==
    ASSUME NEW q, Query(q)
    PROVE  /\ Query(Refetched(q)) /\ Refetched(q).phase # "idle" /\ Refetched(q).data = q.data
           /\ Refetched(q).error = q.error /\ Refetched(q).invalid = q.invalid
           /\ Refetched(q).phase = "answered" =>
                 /\ Refetched(q).outdated /\ q.phase = "answered"
                 /\ Refetched(q).answer = q.answer
<1>1. CASE q.phase = "idle" \/ q.data # NoData
  <2>1. Refetched(q) = Asked(q)
      BY <1>1 DEF Refetched
  <2>. QED BY <2>1, AskedQuery
<1>2. CASE ~(q.phase = "idle" \/ q.data # NoData)
  <2>1. Refetched(q) = [q EXCEPT !.outdated = @ \/ q.phase = "answered"]
      BY <1>2 DEF Refetched
  <2>. QED BY <1>2, <2>1 DEF Query
<1>. QED BY <1>1, <1>2

LEMMA AgedQuery ==
    ASSUME NEW q, Query(q)
    PROVE  /\ Query(Aged(q)) /\ Aged(q).phase = q.phase /\ Aged(q).data = q.data
           /\ Aged(q).error = q.error /\ Aged(q).invalid = q.invalid
           /\ Aged(q).outdated = TRUE /\ Aged(q).answer = q.answer
    BY DEF Query, Aged

LEMMA NotedQuery ==
    ASSUME NEW q, Query(q)
    PROVE  /\ Query(Noted(q)) /\ Noted(q).phase = q.phase /\ Noted(q).data = q.data
           /\ Noted(q).error = q.error /\ Noted(q).invalid = TRUE /\ Noted(q).answer = q.answer
           /\ q.outdated \/ q.phase # "idle" => Noted(q).outdated
    BY DEF Query, Noted

LEMMA ReadQueryEntry ==
    ASSUME NEW q, NEW r, Query(q), Read(q, r)
    PROVE  /\ Query(r) /\ r.phase = "answered" /\ r.data = q.data /\ r.error = q.error
           /\ r.invalid = q.invalid /\ r.outdated = FALSE
    BY DEF Query, Read

LEMMA ReceivedQuery ==
    ASSUME NEW q, Query(q)
    PROVE  /\ Query(Received(q)) /\ Received(q).phase = "idle" /\ Received(q).data = q.answer
           /\ Received(q).error = FALSE /\ Received(q).invalid = FALSE
           /\ Received(q).outdated = q.outdated
    BY DEF Query, Received

LEMMA FailedQuery ==
    ASSUME NEW q, Query(q)
    PROVE  /\ Query(Failed(q)) /\ Failed(q).phase = "idle" /\ Failed(q).data = q.data
           /\ Failed(q).error = TRUE /\ Failed(q).invalid = q.invalid
           /\ Failed(q).outdated = q.outdated
    BY DEF Query, Failed

\* What the operations on the cache make of each query.
LEMMA AskIs ==
    ASSUME NEW q, NEW K
    PROVE  /\ Ask(q, K) = [k \in Followed |-> Ask(q, K)[k]]
           /\ \A k \in Followed : Ask(q, K)[k] = IF k \in K THEN Refetched(q[k]) ELSE q[k]
    BY DEF Ask

LEMMA OutdateIs ==
    ASSUME NEW q, NEW K
    PROVE  /\ Outdate(q, K) = [k \in Followed |-> Outdate(q, K)[k]]
           /\ \A k \in Followed : Outdate(q, K)[k] = IF k \in K THEN Aged(q[k]) ELSE q[k]
    BY DEF Outdate, Aged

LEMMA InvalidateIs ==
    ASSUME NEW q, NEW K
    PROVE  /\ Invalidate(q, K) = [k \in Followed |-> Invalidate(q, K)[k]]
           /\ \A k \in Followed :
                 Invalidate(q, K)[k] = IF k \in K \ Mounted THEN Noted(q[k])
                                       ELSE IF k \in K THEN Refetched(q[k]) ELSE q[k]
<1>1. \A k \in Followed :
         Ask(q, K \intersect Mounted)[k] = IF k \in K \intersect Mounted THEN Refetched(q[k]) ELSE q[k]
    BY AskIs
<1>2. \A k \in Followed :
         Invalidate(q, K)[k] = IF k \in K \ Mounted THEN Noted(q[k])
                               ELSE Ask(q, K \intersect Mounted)[k]
    BY DEF Invalidate, Noted
<1>3. Invalidate(q, K) = [k \in Followed |-> Invalidate(q, K)[k]]
    BY DEF Invalidate
<1>. QED BY <1>1, <1>2, <1>3

-----------------------------------------------------------------------------
(* Steps that ask again for some queries and leave the others or age them. *)

LEMMA AnswersStay ==
    ASSUME NEW k, UNCHANGED <<risk, deleted, cases, world>>
    PROVE  Answers(k)' = Answers(k)
    BY DEF Answers, listCases, Listed, getCaseCounts

LEMMA DrawerAnswersStay ==
    ASSUME NEW k \in DrawerKeys, UNCHANGED <<risk, deleted, world>>
    PROVE  Answers(k)' = Answers(k) /\ k \notin CaseKeys
<1>1. k \notin CaseKeys
    BY DEF DrawerKeys, CaseKeys, ColumnKeys
<1>. QED BY <1>1 DEF Answers, CaseKeys

Touched(k) ==
    \/ queries'[k] = queries[k]
    \/ queries'[k] = Aged(queries[k])
    \/ queries'[k] = Refetched(queries[k]) /\ \A t \in Txns : k = Pred(t) => Known(t)
    \/ queries'[k] = Failed(queries[k])
    \/ /\ queries[k].phase = "asked"
       /\ Read(queries[k], queries'[k]) /\ queries'[k].answer \in Answers(k)

LEMMA TxnAnswers ==
    ASSUME NEW t PROVE Answers(Txn(t)) = {t \notin deleted}
<1>1. Txn(t) \notin ColumnKeys /\ Txn(t) # <<"cases", "counts">>
    BY DEF Txn, ColumnKeys
<1>. QED BY <1>1 DEF Answers, Txn

LEMMA TouchedQuery ==
    ASSUME NEW k, Query(queries[k]), Touched(k)
    PROVE  /\ Query(queries'[k]) /\ queries'[k].data = queries[k].data
           /\ queries'[k].invalid = queries[k].invalid
           /\ queries'[k].phase = "answered" =>
                 \/ queries[k].phase = "answered" /\ queries'[k].answer = queries[k].answer
                 \/ queries'[k].answer \in Answers(k)
           /\ Unmarked(queries[k]) => Unmarked(queries'[k])
           /\ \A t \in Txns : k = Pred(t) /\ queries'[k].phase # "idle" =>
                 queries[k].phase # "idle" \/ Known(t)
<1>1. CASE queries'[k] = queries[k]
    BY <1>1
<1>2. CASE queries'[k] = Aged(queries[k])
    BY <1>2, AgedQuery DEF Unmarked
<1>3. CASE queries'[k] = Refetched(queries[k]) /\ \A t \in Txns : k = Pred(t) => Known(t)
    BY <1>3, RefetchedQuery DEF Unmarked
<1>4. CASE queries'[k] = Failed(queries[k])
    BY <1>4, FailedQuery DEF Unmarked
<1>5. CASE /\ queries[k].phase = "asked"
           /\ Read(queries[k], queries'[k]) /\ queries'[k].answer \in Answers(k)
    BY <1>5, ReadQueryEntry DEF Unmarked
<1>. QED BY <1>1, <1>2, <1>3, <1>4, <1>5 DEF Touched

LEMMA CurrentTouched ==
    ASSUME NEW k, Query(queries[k]), Current(k), Touched(k),
           \/ Waiting(k)'
           \/ /\ Answers(k)' = Answers(k) /\ deleted' = deleted
              /\ Waiting(k) => Waiting(k)'
           \/ queries'[k] \in {Aged(queries[k]), Refetched(queries[k]), Failed(queries[k])}
    PROVE  Current(k)'
<1>1. CASE Waiting(k)'
    BY <1>1 DEF Current
<1>2. CASE queries'[k] = Aged(queries[k])
    BY <1>2, AgedQuery DEF Current
<1>3. CASE queries'[k] = Refetched(queries[k])
    BY <1>3, RefetchedQuery DEF Current
<1>4. CASE queries'[k] = Failed(queries[k])
    BY <1>4, FailedQuery DEF Current
<1>5. ASSUME Answers(k)' = Answers(k), deleted' = deleted, Waiting(k) => Waiting(k)'
      PROVE  Current(k)'
  <2>1. CASE queries'[k] = queries[k]
      BY <1>5, <2>1 DEF Current, Marked
  <2>2. CASE Read(queries[k], queries'[k]) /\ queries'[k].answer \in Answers(k)
      BY <1>5, <2>2, ReadQueryEntry DEF Current
  <2>. QED BY <1>2, <1>3, <1>4, <2>1, <2>2 DEF Touched
<1>. QED BY <1>1, <1>2, <1>3, <1>4, <1>5

LEMMA TouchKeeps ==
    ASSUME PageInv, world' = world, deleted \subseteq deleted',
           queries' = [k \in Followed |-> queries'[k]],
           \A k \in Followed : Touched(k) /\ Current(k)',
           action' # None => action'.txn \in Txns /\ Known(action'.txn),
           drawer' # None \/ action' # None => DrawerKeys \subseteq Followed,
           drawer' # None =>
               drawer' = drawer \/ Unmarked(queries'[Pred(drawer')]) \/ drawer' \in deleted',
           drawer' # None => drawer' \in Txns
    PROVE  PageInv'
<1>1. Followed' = Followed
    BY DEF Followed
<1>2. \A k \in Followed : Query(queries[k]) /\ Touched(k)
    BY DEF PageInv, QueriesTyped
<1>3. QueriesTyped'
    BY <1>1, <1>2, TouchedQuery DEF QueriesTyped
<1>4. \A t \in Txns : Txn(t) \in Followed /\ Known(t) => Known(t)'
    BY <1>2, TouchedQuery DEF Known
<1>5. KnownRows'
  <2>1. SUFFICES ASSUME NEW t \in Txns
                 PROVE  /\ Txn(t) \in Followed /\ queries'[Txn(t)].phase = "answered"
                              => queries'[Txn(t)].answer = TRUE \/ t \in deleted'
                        /\ Txn(t) \in Followed /\ Pred(t) \in Followed
                              /\ (queries'[Pred(t)].phase # "idle"
                                  \/ queries'[Pred(t)].data # NoData)
                           => Known(t)'
      BY <1>1 DEF KnownRows, Txn, Pred
  <2>2. Txn(t) \in Followed /\ queries'[Txn(t)].phase = "answered"
           => queries'[Txn(t)].answer = TRUE \/ t \in deleted'
    <3>1. Answers(Txn(t)) = {t \notin deleted}
        BY TxnAnswers
    <3>2. queries'[Txn(t)].answer \in Answers(Txn(t)) => queries'[Txn(t)].answer = TRUE \/ t \in deleted
        BY <3>1
    <3>. QED BY <1>2, <3>2, TouchedQuery DEF PageInv, KnownRows
  <2>3. Txn(t) \in Followed /\ Pred(t) \in Followed
           /\ (queries'[Pred(t)].phase # "idle" \/ queries'[Pred(t)].data # NoData)
        => Known(t)
      BY <1>2, TouchedQuery DEF PageInv, KnownRows
  <2>. QED BY <1>4, <2>2, <2>3
<1>6. Marks'
    BY <1>1, <1>2, TouchedQuery DEF PageInv, Marks, Pred
<1>7. Hands'
  <2>1. action' # None => Txn(action'.txn) \in Followed
      BY DEF DrawerKeys, Txn
  <2>. QED BY <1>1, <1>4, <2>1 DEF Hands
<1>8. DrawerFresh'
  <2>1. SUFFICES ASSUME drawer' # None
                 PROVE  Unmarked(queries'[Pred(drawer')]) \/ drawer' \in deleted'
      BY DEF DrawerFresh, Pred
  <2>2. Pred(drawer') \in Followed
      BY <2>1 DEF DrawerKeys, Pred
  <2>3. CASE drawer' = drawer
      BY <1>2, <2>1, <2>2, <2>3, TouchedQuery DEF PageInv, DrawerFresh
  <2>. QED BY <2>1, <2>3
<1>. QED BY <1>1, <1>3, <1>5, <1>6, <1>7, <1>8 DEF PageInv

\* Steps that neither open the drawer nor act in it.
LEMMA AsideTouchKeeps ==
    ASSUME PageInv, Remembered, world' = world, deleted \subseteq deleted',
           queries' = [k \in Followed |-> queries'[k]],
           \A k \in Followed : Touched(k) /\ Current(k)',
           action' # None => action # None /\ action'.txn = action.txn,
           drawer' \in {drawer, None}
    PROVE  PageInv'
<1>1. action' # None => action'.txn \in Txns /\ Known(action'.txn)
    BY DEF PageInv, Hands, Remembered, Mutation
<1>2. drawer' # None \/ action' # None => DrawerKeys \subseteq Followed
    BY DEF PageInv, Hands
<1>3. drawer' # None => drawer' = drawer /\ drawer' \in Txns
    BY DEF Remembered
<1>. QED BY <1>1, <1>2, <1>3, TouchKeeps

\* Steps after which the API answers as before.
LEMMA QuietTouch ==
    ASSUME QueriesTyped, UNCHANGED <<risk, deleted, cases, world>>, NEW k \in Followed,
           Current(k), Touched(k),
           Waiting(k) => Waiting(k)' \/ queries'[k] = Refetched(queries[k])
    PROVE  Current(k)'
<1>1. Answers(k)' = Answers(k)
    BY AnswersStay
<1>2. Query(queries[k])
    BY DEF QueriesTyped
<1>. QED BY <1>1, <1>2, CurrentTouched

LEMMA SameQueries ==
    ASSUME QueriesTyped, queries' = queries
    PROVE  queries' = [k \in Followed |-> queries'[k]] /\ \A k \in Followed : Touched(k)
    BY DEF QueriesTyped, Touched

LEMMA MountedCases == CaseKeys \intersect Followed \subseteq Mounted
    BY DEF Mounted

LEMMA PredIsNoCase == \A t : Pred(t) \notin CaseKeys /\ Txn(t) \notin CaseKeys /\ Pred(t) # Txn(t)
    BY DEF Pred, Txn, CaseKeys, ColumnKeys

LEMMA FollowedKeys == Remembered => Followed \subseteq Keys
    BY BoardAssumption DEF Remembered, Followed

-----------------------------------------------------------------------------
(* Steps of the page.                                                      *)

LEMMA ReadQueryKeeps ==
    ASSUME PageInv, Remembered, NEW k \in Followed, ReadQuery(k) PROVE PageInv'
<1>1. QueriesTyped /\ Query(queries[k])
    BY DEF PageInv, QueriesTyped
<1>2. PICK d \in Answers(k) :
         queries' = [queries EXCEPT ![k] = [queries[k] EXCEPT !.phase = "answered",
                                               !.answer = d, !.outdated = FALSE]]
    BY DEF ReadQuery
<1>3. /\ queries' = [l \in Followed |-> queries'[l]]
      /\ queries'[k] = [queries[k] EXCEPT !.phase = "answered", !.answer = d, !.outdated = FALSE]
      /\ \A l \in Followed : l # k => queries'[l] = queries[l]
    BY <1>1, <1>2 DEF QueriesTyped
<1>4. Read(queries[k], queries'[k]) /\ queries'[k].answer = d
    BY <1>1, <1>3 DEF Query, Read
<1>5. \A l \in Followed : Touched(l)
    BY <1>3, <1>4 DEF Touched, ReadQuery
<1>6. UNCHANGED <<risk, deleted, cases, world, awaited, action, drawer>>
    BY DEF ReadQuery, casesVars, page
<1>7. \A l \in Followed : Waiting(l) => Waiting(l)'
    BY <1>6 DEF Waiting
<1>8. \A l \in Followed : Current(l)'
    BY <1>1, <1>5, <1>6, <1>7, QuietTouch DEF PageInv
<1>. QED BY <1>3, <1>5, <1>6, <1>8, AsideTouchKeeps

LEMMA FailQueryKeeps ==
    ASSUME PageInv, Remembered, NEW k \in Followed, FailQuery(k) PROVE PageInv'
<1>1. QueriesTyped /\ Query(queries[k])
    BY DEF PageInv, QueriesTyped
<1>2. /\ queries' = [l \in Followed |-> queries'[l]] /\ queries'[k] = Failed(queries[k])
      /\ \A l \in Followed : l # k => queries'[l] = queries[l]
    BY <1>1 DEF QueriesTyped, FailQuery, Failed
<1>3. \A l \in Followed : Touched(l)
    BY <1>2 DEF Touched
<1>4. UNCHANGED <<risk, deleted, cases, world, awaited, action, drawer>>
    BY DEF FailQuery, casesVars, page
<1>5. \A l \in Followed : Waiting(l) => Waiting(l)'
    BY <1>4 DEF Waiting
<1>6. \A l \in Followed : Current(l)'
    BY <1>1, <1>3, <1>4, <1>5, QuietTouch DEF PageInv
<1>. QED BY <1>2, <1>3, <1>4, <1>6, AsideTouchKeeps

LEMMA TryAgainKeeps ==
    ASSUME PageInv, Remembered, NEW k \in Followed, TryAgain(k) PROVE PageInv'
<1>1. QueriesTyped
    BY DEF PageInv
<1>2. k \in CaseKeys /\ queries' = Ask(queries, {k})
    BY DEF TryAgain, CaseKeys
<1>3. /\ queries' = [l \in Followed |-> queries'[l]] /\ queries'[k] = Refetched(queries[k])
      /\ \A l \in Followed : l # k => queries'[l] = queries[l]
    BY <1>2, AskIs
<1>4. \A l \in Followed : Touched(l)
    BY <1>2, <1>3, PredIsNoCase DEF Touched
<1>5. UNCHANGED <<risk, deleted, cases, world, awaited, action, drawer>>
    BY DEF TryAgain, casesVars, page
<1>6. \A l \in Followed : Waiting(l) => Waiting(l)'
    BY <1>5 DEF Waiting
<1>7. \A l \in Followed : Current(l)'
    BY <1>1, <1>4, <1>5, <1>6, QuietTouch DEF PageInv
<1>. QED BY <1>3, <1>4, <1>5, <1>7, AsideTouchKeeps

\* The answer to a move, or its loss: the whole board is asked for again.
LEMMA SettledKeeps ==
    ASSUME PageInv, Remembered, NEW i \in RequestIds, MoveAnswered(i) \/ MoveLost(i)
    PROVE  PageInv'
<1>1. QueriesTyped
    BY DEF PageInv
<1>2. queries' = Invalidate(queries, CaseKeys)
    BY DEF MoveAnswered, MoveLost, Settled
<1>3. /\ queries' = [k \in Followed |-> queries'[k]]
      /\ \A k \in Followed : queries'[k] = IF k \in CaseKeys THEN Refetched(queries[k]) ELSE queries[k]
    BY <1>2, InvalidateIs, MountedCases
<1>4. \A k \in Followed : Touched(k)
    BY <1>3, PredIsNoCase DEF Touched
<1>5. UNCHANGED <<risk, deleted, cases, world, action, drawer>>
    BY DEF MoveAnswered, MoveLost, answerUpdate, casesVars
<1>6. \A k \in Followed : Waiting(k) => Waiting(k)' \/ queries'[k] = Refetched(queries[k])
    BY <1>3, <1>5 DEF Waiting
<1>7. \A k \in Followed : Current(k)'
    BY <1>1, <1>4, <1>5, <1>6, QuietTouch DEF PageInv
<1>. QED BY <1>3, <1>4, <1>5, <1>7, AsideTouchKeeps

\* The page sends a move, picks up a card or closes the drawer; the API reads
\* the case of a move.
LEMMA PageAsideKeeps ==
    ASSUME PageInv, Remembered, risk' = risk, deleted' = deleted, cases' = cases,
           world' = world, queries' = queries, action' = action,
           awaited \subseteq awaited', drawer' \in {drawer, None}
    PROVE  PageInv'
<1>1. QueriesTyped
    BY DEF PageInv
<1>2. queries' = [k \in Followed |-> queries'[k]] /\ \A k \in Followed : Touched(k)
    BY <1>1, SameQueries
<1>3. \A k \in Followed : Waiting(k) => Waiting(k)'
    BY DEF Waiting
<1>4. \A k \in Followed : Current(k)'
    BY <1>1, <1>2, <1>3, QuietTouch DEF PageInv
<1>. QED BY <1>2, <1>4, AsideTouchKeeps

\* The API carries out a move of the page, which waits for its answer.
LEMMA MoveServedKeeps ==
    ASSUME PageInv, Remembered, NEW i, i \in awaited, writeUpdate(i),
           UNCHANGED <<world, queries, page>>
    PROVE  PageInv'
<1>1. QueriesTyped
    BY DEF PageInv
<1>2. queries' = [k \in Followed |-> queries'[k]] /\ \A k \in Followed : Touched(k)
    BY <1>1, SameQueries
<1>3. UNCHANGED <<risk, deleted, world, awaited, action, drawer>>
    BY DEF writeUpdate, page
<1>4. ASSUME NEW k \in Followed PROVE Current(k)'
  <2>1. Query(queries[k]) /\ Current(k) /\ Touched(k)
      BY <1>1, <1>2 DEF PageInv, QueriesTyped
  <2>2. CASE k \in CaseKeys
      BY <1>3, <2>1, <2>2, CurrentTouched DEF Waiting
  <2>3. CASE k \in DrawerKeys
    <3>1. Answers(k)' = Answers(k)
        BY <1>3, <2>3, DrawerAnswersStay
    <3>2. Waiting(k) => Waiting(k)'
        BY <1>3 DEF Waiting
    <3>. QED BY <1>3, <2>1, <3>1, <3>2, CurrentTouched
  <2>. QED BY <2>2, <2>3, FollowedKeys DEF Keys
<1>. QED BY <1>2, <1>3, <1>4, AsideTouchKeeps

LEMMA ActKeeps ==
    ASSUME PageInv, Remembered, NEW kind, Act(kind) PROVE PageInv'
<1>1. QueriesTyped
    BY DEF PageInv
<1>2. queries' = [k \in Followed |-> queries'[k]] /\ \A k \in Followed : Touched(k)
    BY <1>1, SameQueries DEF Act
<1>3. UNCHANGED <<risk, deleted, cases, world, awaited, drawer>> /\ action = None
    BY DEF Act, casesVars
<1>4. \A k \in Followed : Waiting(k) => Waiting(k)'
    BY <1>3 DEF Waiting
<1>5. \A k \in Followed : Current(k)'
    BY <1>1, <1>2, <1>3, <1>4, QuietTouch DEF PageInv
<1>6. action'.txn = drawer /\ drawer # None /\ drawer \in Txns /\ Known(drawer)
    BY DEF Act, Remembered, Known, Txn
<1>7. DrawerKeys \subseteq Followed
    BY <1>6 DEF PageInv, Hands
<1>. QED BY <1>2, <1>3, <1>5, <1>6, <1>7, TouchKeeps

\* What others write, the page is not told of.
LEMMA OthersKeep ==
    ASSUME PageInv, Remembered, Others PROVE PageInv'
<1>1. QueriesTyped
    BY DEF PageInv
<1>2. UNCHANGED <<world, awaited, action, drawer>> /\ deleted \subseteq deleted'
    BY DEF Others, Elsewhere, page, softDeleteTransaction, scoreAndPersist, findMissing,
           createMissing, SendUpdate, writeUpdate, answerUpdate
<1>3. CASE UNCHANGED <<risk, deleted, cases>>
  <2>1. queries' = queries
      BY <1>3 DEF Others
  <2>. QED BY <1>2, <1>3, <2>1, PageAsideKeeps
<1>4. CASE ~UNCHANGED <<risk, deleted, cases>>
  <2>1. queries' = Outdate(queries, Followed)
      BY <1>4 DEF Others
  <2>2. /\ queries' = [k \in Followed |-> queries'[k]]
        /\ \A k \in Followed : queries'[k] = Aged(queries[k])
      BY <2>1, OutdateIs
  <2>3. \A k \in Followed : Touched(k)
      BY <2>2 DEF Touched
  <2>4. \A k \in Followed : Query(queries[k]) /\ Current(k)
      BY DEF PageInv, QueriesTyped
  <2>5. \A k \in Followed : Current(k)'
      BY <2>2, <2>3, <2>4, CurrentTouched
  <2>. QED BY <1>2, <2>2, <2>3, <2>5, AsideTouchKeeps
<1>. QED BY <1>3, <1>4

\* The drawer asks for the transaction and, once it knows it, its prediction.
LEMMA OpenKeeps ==
    ASSUME PageInv, Remembered, NEW c \in CaseIds, NEW s, openDrawer(c, s) PROVE PageInv'
<1>. DEFINE t == c[1]
            K == {Txn(t)} \union IF queries[Txn(t)].data = TRUE THEN {Pred(t)} ELSE {}
<1>0. QueriesTyped /\ t \in Txns
    BY DEF PageInv, CaseIds
<1>1. DrawerKeys \subseteq Followed
    BY BoardAssumption DEF openDrawer, Remembered, Followed
<1>2. PICK K2 \in SUBSET K :
         queries' = Join(queries, K2 \union {k \in K : queries[k].data = NoData \/ queries[k].invalid})
    BY DEF openDrawer, Mount, Txn, Pred
<1>. DEFINE A == K2 \union {k \in K : queries[k].data = NoData \/ queries[k].invalid}
<1>3. /\ queries' = [k \in Followed |-> queries'[k]]
      /\ \A k \in Followed : queries'[k] = IF k \in A /\ queries[k].phase = "idle"
                                           THEN Asked(queries[k]) ELSE queries[k]
  <2>1. queries' = Join(queries, A)
      BY <1>2
  <2>. HIDE DEF A
  <2>. QED BY <2>1 DEF Join
<1>4. Txn(t) \in Followed /\ Pred(t) \in Followed /\ Pred(t) # Txn(t)
    BY <1>0, <1>1 DEF DrawerKeys, Txn, Pred
<1>5. \A u \in Txns : Pred(u) \in A => Known(u)
  <2>1. SUFFICES ASSUME NEW u \in Txns, Pred(u) \in K PROVE Known(u)
      OBVIOUS
  <2>2. u = t /\ queries[Txn(t)].data = TRUE
      BY <2>1 DEF Txn, Pred
  <2>. QED BY <2>2 DEF Known
<1>6. \A k \in Followed : Touched(k)
  <2>1. \A k \in Followed : queries[k].phase = "idle" => Asked(queries[k]) = Refetched(queries[k])
      BY DEF Refetched
  <2>. HIDE DEF A
  <2>. QED BY <1>3, <1>5, <2>1 DEF Touched
<1>7. UNCHANGED <<risk, deleted, cases, world, awaited, action>> /\ drawer' = t
    BY DEF openDrawer, casesVars
<1>8. \A k \in Followed : Waiting(k) => Waiting(k)'
    BY <1>7 DEF Waiting
<1>9. \A k \in Followed : Current(k)'
    BY <1>0, <1>6, <1>7, <1>8, QuietTouch DEF PageInv
<1>10. Unmarked(queries'[Pred(t)]) \/ t \in deleted'
  <2>1. Query(queries[Pred(t)])
      BY <1>0, <1>4 DEF QueriesTyped
  <2>2. CASE Pred(t) \in A
    <3>1. \/ queries'[Pred(t)] = Asked(queries[Pred(t)])
          \/ queries'[Pred(t)] = queries[Pred(t)] /\ queries[Pred(t)].phase # "idle"
        BY <1>3, <1>4, <2>2
    <3>. QED BY <2>1, <3>1, AskedQuery DEF Unmarked
  <2>3. CASE Pred(t) \notin A
    <3>1. queries'[Pred(t)] = queries[Pred(t)]
        BY <1>3, <1>4, <2>3
    <3>2. CASE queries[Txn(t)].data = TRUE
      <4>1. ~queries[Pred(t)].invalid
          BY <2>3, <3>2
      <4>. QED BY <3>1, <4>1 DEF Unmarked
    <3>3. CASE queries[Txn(t)].data # TRUE
      <4>1. queries[Pred(t)].data = NoData \/ t \in deleted
          BY <1>0, <1>4, <3>3 DEF PageInv, KnownRows, Known
      <4>. QED BY <1>7, <3>1, <4>1 DEF Unmarked
    <3>. QED BY <3>2, <3>3
  <2>. QED BY <2>2, <2>3
<1>11. action' # None => action'.txn \in Txns /\ Known(action'.txn)
    BY <1>7 DEF PageInv, Hands, Remembered, Mutation
<1>. HIDE DEF t, A, K
<1>. QED BY <1>0, <1>1, <1>3, <1>6, <1>7, <1>9, <1>10, <1>11, TouchKeeps DEF t

\* A rescore or a deletion: what it changes is out of date, but for the
\* prediction that will be asked for when the page hears of it.
LEMMA PerformKeeps ==
    ASSUME PageInv, Remembered, Perform PROVE PageInv'
<1>1. /\ QueriesTyped /\ \A k \in Followed : Query(queries[k]) /\ Current(k)
      /\ action # None /\ action.txn \in Txns /\ action.pc = "sent"
      /\ DOMAIN action = {"kind", "txn", "pc"}
    BY DEF PageInv, QueriesTyped, Perform, Remembered, Mutation
<1>2. /\ UNCHANGED <<world, awaited, drawer>> /\ deleted \subseteq deleted'
      /\ action' # None => action # None /\ action'.txn = action.txn
    BY <1>1 DEF Perform, casesVars, scoreAndPersist, softDeleteTransaction
<1>3. CASE action' = [action EXCEPT !.pc = "failed"] /\ UNCHANGED <<casesVars, queries>>
  <2>1. queries' = [k \in Followed |-> queries'[k]] /\ \A k \in Followed : Touched(k)
      BY <1>1, <1>3, SameQueries
  <2>2. UNCHANGED <<risk, deleted, cases, world>>
      BY <1>2, <1>3 DEF casesVars
  <2>3. \A k \in Followed : Waiting(k) => Waiting(k)'
      BY <1>1, <1>2 DEF Waiting
  <2>4. \A k \in Followed : Current(k)'
      BY <1>1, <2>1, <2>2, <2>3, QuietTouch
  <2>. QED BY <1>2, <2>1, <2>2, <2>4, AsideTouchKeeps
<1>4. CASE /\ action.kind = "rescore" /\ \E level \in RISK_LEVELS : scoreAndPersist(action.txn, level)
           /\ action' = [action EXCEPT !.pc = "done"]
           /\ queries' = Outdate(queries, Followed \ {Pred(action.txn)})
  <2>1. /\ queries' = [k \in Followed |-> queries'[k]]
        /\ \A k \in Followed : queries'[k] = IF k = Pred(action.txn) THEN queries[k]
                                             ELSE Aged(queries[k])
      BY <1>4, OutdateIs
  <2>2. \A k \in Followed : Touched(k)
      BY <2>1 DEF Touched
  <2>3. \A k : k = Pred(action.txn) => Waiting(k)'
    <3>1. action.txn \notin deleted /\ deleted' = deleted
        BY <1>4 DEF scoreAndPersist
    <3>2. action' # None /\ action'.kind = "rescore" /\ action'.pc = "done"
          /\ action'.txn = action.txn
      <4>1. action \in Mutation
          BY <1>1 DEF Remembered
      <4>2. /\ action' = [action EXCEPT !.pc = "done"]
            /\ action.kind = "rescore"
          BY <1>4
      <4>3. /\ action' \in Mutation /\ action'.kind = "rescore"
            /\ action'.pc = "done" /\ action'.txn = action.txn
        <5>. HIDE DEF PageInv
        <5>. QED BY <4>1, <4>2 DEF Mutation
      <4>. QED BY <4>3, BoardNoneAssumption
    <3>. QED BY <3>1, <3>2 DEF Waiting, Pred
  <2>4. ASSUME NEW k \in Followed PROVE Current(k)'
    <3>1. Waiting(k)' \/ queries'[k] = Aged(queries[k])
        BY <2>1, <2>3
    <3>. QED BY <1>1, <2>2, <3>1, CurrentTouched
  <2>. QED BY <1>2, <2>1, <2>2, <2>4, AsideTouchKeeps
<1>5. CASE queries' = Outdate(queries, Followed)
  <2>1. /\ queries' = [k \in Followed |-> queries'[k]]
        /\ \A k \in Followed : queries'[k] = Aged(queries[k])
      BY <1>5, OutdateIs
  <2>2. \A k \in Followed : Touched(k)
      BY <2>1 DEF Touched
  <2>3. \A k \in Followed : Current(k)'
      BY <1>1, <2>1, <2>2, CurrentTouched
  <2>. QED BY <1>2, <2>1, <2>2, <2>3, AsideTouchKeeps
<1>. QED BY <1>3, <1>4, <1>5 DEF Perform, Pred

\* The answer of a rescore: the prediction is asked for again, or marked.
LEMMA ActionAnsweredKeeps ==
    ASSUME PageInv, Remembered, ActionAnswered PROVE PageInv'
<1>1. /\ QueriesTyped /\ \A k \in Followed : Query(queries[k]) /\ Current(k)
      /\ action # None /\ action.txn \in Txns /\ Known(action.txn)
      /\ UNCHANGED <<risk, deleted, cases, world, awaited>>
      /\ action' = None /\ drawer' \in {drawer, None}
    BY DEF PageInv, QueriesTyped, ActionAnswered, Remembered, Mutation, Hands, casesVars
<1>2. CASE ~(action.kind = "rescore" /\ action.pc = "done")
  <2>1. queries' = queries
      BY <1>2 DEF ActionAnswered
  <2>2. queries' = [k \in Followed |-> queries'[k]] /\ \A k \in Followed : Touched(k)
      BY <1>1, <2>1, SameQueries
  <2>3. \A k \in Followed : Waiting(k) => Waiting(k)'
      BY <1>1, <1>2 DEF Waiting
  <2>4. \A k \in Followed : Current(k)'
      BY <1>1, <2>2, <2>3, QuietTouch
  <2>. QED BY <1>1, <2>2, <2>4, AsideTouchKeeps
<1>3. CASE action.kind = "rescore" /\ action.pc = "done"
  <2>. DEFINE p == Pred(action.txn)
  <2>1. queries' = Invalidate(queries, {p}) /\ drawer' = drawer
      BY <1>3 DEF ActionAnswered, Rescored, Pred
  <2>2. /\ queries' = [k \in Followed |-> queries'[k]]
        /\ \A k \in Followed : queries'[k] = IF k # p THEN queries[k]
                                             ELSE IF p \in Mounted THEN Refetched(queries[p])
                                             ELSE Noted(queries[p])
    <3>1. \A k \in Followed : queries'[k] = IF k \in {p} \ Mounted THEN Noted(queries[k])
                                            ELSE IF k \in {p} THEN Refetched(queries[k])
                                            ELSE queries[k]
      <4>. HIDE DEF p
      <4>. QED BY <2>1, InvalidateIs
    <3>2. queries' = [k \in Followed |-> queries'[k]]
        BY <2>1, InvalidateIs
    <3>. HIDE DEF p
    <3>. QED BY <3>1, <3>2
  <2>3. \A k \in Followed : k # p /\ Waiting(k) => Waiting(k)'
      BY <1>1 DEF Waiting
  <2>4. CASE p \in Mounted
    <3>1. \A k \in Followed : Touched(k)
      <4>1. \A t \in Txns : p = Pred(t) => Known(t)
          BY <1>1 DEF Pred
      <4>. HIDE DEF p
      <4>. QED BY <2>2, <2>4, <4>1 DEF Touched
    <3>2. \A k \in Followed : Waiting(k) => Waiting(k)' \/ queries'[k] = Refetched(queries[k])
      <4>. HIDE DEF p
      <4>. QED BY <2>2, <2>3, <2>4
    <3>3. \A k \in Followed : Current(k)'
        BY <1>1, <3>1, <3>2, QuietTouch
    <3>. QED BY <1>1, <2>2, <3>1, <3>3, AsideTouchKeeps
  <2>5. CASE p \notin Mounted
    <3>1. Followed' = Followed
        BY <1>1 DEF Followed
    <3>2. ASSUME p \in Followed
          PROVE  /\ Query(queries'[p]) /\ queries'[p].phase = queries[p].phase
                 /\ queries'[p].data = queries[p].data /\ queries'[p].error = queries[p].error
                 /\ queries'[p].invalid /\ queries'[p].answer = queries[p].answer
                 /\ queries[p].outdated \/ queries[p].phase # "idle" => queries'[p].outdated
      <4>. HIDE DEF p
      <4>. QED BY <1>1, <2>2, <2>5, <3>2, NotedQuery
    <3>3. \A k \in Followed : k # p => queries'[k] = queries[k]
      <4>. HIDE DEF p
      <4>. QED BY <2>2
    <3>4. QueriesTyped'
      <4>. HIDE DEF p
      <4>. QED BY <1>1, <2>2, <3>1, <3>2, <3>3 DEF QueriesTyped
    <3>5. \A t \in Txns : Txn(t) # p
        BY PredIsNoCase DEF Pred, Txn
    <3>6. KnownRows'
      <4>1. \A t \in Txns : Txn(t) \in Followed => queries'[Txn(t)] = queries[Txn(t)]
        <5>. HIDE DEF p
        <5>. QED BY <3>3, <3>5
      <4>2. \A t \in Txns : Pred(t) \in Followed =>
               /\ queries'[Pred(t)].phase = queries[Pred(t)].phase
               /\ queries'[Pred(t)].data = queries[Pred(t)].data
        <5>. HIDE DEF p
        <5>. QED BY <3>2, <3>3
      <4>. QED BY <1>1, <3>1, <4>1, <4>2 DEF PageInv, KnownRows, Known, Txn, Pred
    <3>7. Marks'
      <4>1. ASSUME NEW k \in Followed, queries'[k].invalid PROVE \E t \in Txns : k = Pred(t)
        <5>1. CASE k = p
            BY <1>1, <5>1
        <5>2. CASE k # p
            BY <3>3, <4>1, <5>2 DEF PageInv, Marks
        <5>. QED BY <5>1, <5>2
      <4>. QED BY <3>1, <4>1 DEF Marks, Pred
    <3>8. Hands'
        BY <1>1, <2>1, <3>1 DEF PageInv, Hands, DrawerKeys
    <3>9. DrawerFresh'
      <4>1. SUFFICES ASSUME drawer # None PROVE Unmarked(queries'[Pred(drawer)]) \/ drawer \in deleted
          BY <1>1, <2>1 DEF DrawerFresh, Pred
      <4>2. Pred(drawer) \in Mounted /\ Pred(drawer) \in Followed
          BY <4>1 DEF PageInv, Hands, DrawerKeys, Mounted, Pred, Remembered
      <4>3. queries'[Pred(drawer)] = queries[Pred(drawer)]
          BY <2>5, <3>3, <4>2
      <4>. QED BY <4>1, <4>3 DEF PageInv, DrawerFresh
    <3>10. ASSUME NEW k \in Followed PROVE Current(k)'
      <4>1. CASE k # p
        <5>1. Touched(k)
            BY <3>3, <4>1 DEF Touched
        <5>. QED BY <1>1, <2>3, <4>1, <5>1, QuietTouch
      <4>2. CASE k = p
        <5>1. Answers(k)' = Answers(k)
            BY <1>1, AnswersStay
        <5>2. k[2] = action.txn
            BY <4>2 DEF Pred
        <5>3. action.txn \in deleted => ~Waiting(k)
            BY <4>2, PredIsNoCase DEF Waiting
        <5>4. queries'[k].phase = "answered" => queries'[k].outdated
            BY <3>2, <4>2
        <5>5. queries'[k].phase = "idle" /\ ~Marked(k)' /\ ~queries'[k].outdated
              => ~Marked(k) /\ ~Waiting(k) /\ ~queries[k].outdated /\ queries[k].phase = "idle"
            BY <1>1, <3>2, <4>2, <5>2, <5>3 DEF Marked
        <5>. QED BY <1>1, <3>2, <4>2, <5>1, <5>4, <5>5 DEF Current
      <4>. QED BY <4>1, <4>2
    <3>. QED BY <3>1, <3>4, <3>6, <3>7, <3>8, <3>9, <3>10 DEF PageInv
  <2>. QED BY <2>4, <2>5
<1>. QED BY <1>2, <1>3

\* An answer arrives; the drawer's transaction has its prediction asked for.
LEMMA ReceiveQueryKeeps ==
    ASSUME PageInv, Remembered, NEW k \in Followed, ReceiveQuery(k) PROVE PageInv'
<1>. DEFINE Follows(l) == \E t \in Txns : k = Txn(t) /\ l = Pred(t) /\ queries[k].answer = TRUE
<1>1. /\ QueriesTyped /\ Query(queries[k]) /\ Current(k) /\ queries[k].phase = "answered"
      /\ UNCHANGED <<risk, deleted, cases, world, awaited, action, drawer>>
      /\ Followed' = Followed
    BY DEF PageInv, QueriesTyped, ReceiveQuery, casesVars, page, Followed
<1>2. /\ queries' = [l \in Followed |-> queries'[l]]
      /\ queries'[k] = Received(queries[k])
      /\ \A l \in Followed : l # k => \/ queries'[l] = queries[l]
                                      \/ queries'[l] = Asked(queries[l]) /\ Follows(l)
  <2>. DEFINE received == [queries EXCEPT ![k] = Received(queries[k])]
              pred == Pred(k[2])
  <2>1. /\ received = [l \in Followed |-> received[l]] /\ received[k] = Received(queries[k])
        /\ \A l \in Followed : l # k => received[l] = queries[l]
      BY <1>1 DEF QueriesTyped
  <2>2. \/ queries' = received
        \/ /\ queries' = Ask(received, {pred}) /\ k[1] = "transaction" /\ queries[k].answer = TRUE
           /\ queries[pred].phase = "idle"
      BY DEF ReceiveQuery, Received, Pred
  <2>3. CASE queries' = received
      BY <2>1, <2>3
  <2>4. CASE /\ queries' = Ask(received, {pred}) /\ k[1] = "transaction" /\ queries[k].answer = TRUE
             /\ queries[pred].phase = "idle"
    <3>1. k[2] \in Txns /\ k = Txn(k[2]) /\ k # pred
        BY <2>4, FollowedKeys DEF Keys, CaseKeys, ColumnKeys, DrawerKeys, Txn, Pred
    <3>2. Follows(pred)
        BY <2>4, <3>1
    <3>. HIDE DEF received, pred, Follows
    <3>3. /\ queries' = [l \in Followed |-> queries'[l]]
          /\ \A l \in Followed : queries'[l] = IF l = pred THEN Refetched(received[l]) ELSE received[l]
        BY <2>4, AskIs
    <3>4. pred \in Followed => Refetched(received[pred]) = Asked(queries[pred])
        BY <2>1, <2>4, <3>1 DEF Refetched
    <3>. QED BY <2>1, <3>1, <3>2, <3>3, <3>4
  <2>. QED BY <2>2, <2>3, <2>4
<1>3. /\ Query(queries'[k]) /\ queries'[k].phase = "idle" /\ queries'[k].data = queries[k].answer
      /\ ~queries'[k].invalid /\ queries'[k].outdated = queries[k].outdated
  <2>. HIDE DEF Follows
  <2>. QED BY <1>1, <1>2, ReceivedQuery
<1>4. ASSUME NEW l \in Followed, l # k
      PROVE  /\ Query(queries[l]) /\ Query(queries'[l]) /\ queries'[l].data = queries[l].data
             /\ queries'[l].invalid = queries[l].invalid
             /\ \/ queries'[l] = queries[l]
                \/ queries'[l].phase = "asked" /\ Follows(l)
  <2>1. Query(queries[l])
      BY <1>1 DEF QueriesTyped
  <2>. HIDE DEF Follows
  <2>. QED BY <1>2, <1>4, <2>1, AskedQuery
<1>5. QueriesTyped'
    BY <1>1, <1>2, <1>3, <1>4 DEF QueriesTyped
<1>6. ASSUME NEW t \in Txns, Txn(t) \in Followed, Txn(t) # k PROVE queries'[Txn(t)] = queries[Txn(t)]
    BY <1>4, <1>6, PredIsNoCase DEF Txn, Pred
<1>7. ASSUME NEW t \in Txns, Txn(t) \in Followed, Known(t) PROVE Known(t)'
  <2>1. CASE Txn(t) = k
      BY <1>1, <1>3, <1>7, <2>1 DEF PageInv, KnownRows, Known, Txn
  <2>2. CASE Txn(t) # k
      BY <1>1, <1>6, <1>7, <2>2 DEF Known, Txn
  <2>. QED BY <2>1, <2>2
<1>8. KnownRows'
  <2>1. ASSUME NEW t \in Txns, Txn(t) \in Followed, queries'[Txn(t)].phase = "answered"
        PROVE  queries'[Txn(t)].answer = TRUE \/ t \in deleted
    <3>1. Txn(t) # k
        BY <1>3, <2>1
    <3>2. queries'[Txn(t)] = queries[Txn(t)]
        BY <1>6, <2>1, <3>1
    <3>. QED BY <2>1, <3>2 DEF PageInv, KnownRows
  <2>2. ASSUME NEW t \in Txns, Txn(t) \in Followed, Pred(t) \in Followed,
               queries'[Pred(t)].phase # "idle" \/ queries'[Pred(t)].data # NoData
        PROVE  Known(t)'
    <3>1. CASE Pred(t) = k
        BY <1>1, <1>7, <2>2, <3>1 DEF PageInv, KnownRows
    <3>2. CASE Pred(t) # k /\ queries'[Pred(t)] = queries[Pred(t)]
        BY <1>7, <2>2, <3>2 DEF PageInv, KnownRows
    <3>3. CASE Follows(Pred(t))
      <4>1. k = Txn(t) /\ queries[k].answer = TRUE
          BY <3>3 DEF Txn, Pred
      <4>. QED BY <1>3, <4>1 DEF Known, Txn
    <3>. QED BY <1>4, <2>2, <3>1, <3>2, <3>3
  <2>. QED BY <1>1, <2>1, <2>2 DEF KnownRows, Txn, Pred
<1>9. Marks'
  <2>1. ASSUME NEW l \in Followed, queries'[l].invalid PROVE \E t \in Txns : l = Pred(t)
      BY <1>3, <1>4, <2>1 DEF PageInv, Marks
  <2>. QED BY <1>1, <2>1 DEF Marks, Pred
<1>10. Hands'
  <2>1. action # None => action.txn \in Txns /\ Txn(action.txn) \in Followed
      BY DEF PageInv, Hands, DrawerKeys, Txn, Remembered, Mutation
  <2>2. ASSUME NEW t, action # None, t = action.txn PROVE Known(t)'
      BY <1>7, <2>1, <2>2 DEF PageInv, Hands
  <2>. QED BY <1>1, <2>2 DEF PageInv, Hands, Known, Txn
<1>11. DrawerFresh'
  <2>1. SUFFICES ASSUME drawer # None PROVE Unmarked(queries'[Pred(drawer)]) \/ drawer \in deleted
      BY <1>1 DEF DrawerFresh, Pred
  <2>2. Pred(drawer) \in Followed
      BY <2>1 DEF PageInv, Hands, DrawerKeys, Pred, Remembered
  <2>3. CASE Pred(drawer) = k
      BY <1>3, <2>3 DEF Unmarked
  <2>4. CASE Pred(drawer) # k
    <3>1. queries'[Pred(drawer)] = queries[Pred(drawer)] \/ queries'[Pred(drawer)].phase = "asked"
        BY <1>4, <2>2, <2>4
    <3>2. Unmarked(queries[Pred(drawer)]) \/ drawer \in deleted
        BY <2>1 DEF PageInv, DrawerFresh
    <3>. QED BY <3>1, <3>2 DEF Unmarked
  <2>. QED BY <2>3, <2>4
<1>12. ASSUME NEW l \in Followed PROVE Current(l)'
  <2>1. Answers(l)' = Answers(l) /\ (Waiting(l) => Waiting(l)')
      BY <1>1, AnswersStay DEF Waiting
  <2>2. CASE l = k
      BY <1>1, <1>3, <2>1, <2>2 DEF Current
  <2>3. CASE l # k /\ queries'[l] = queries[l]
    <3>1. Touched(l) /\ Current(l)
        BY <2>3 DEF Touched, PageInv
    <3>. QED BY <1>1, <2>1, <3>1, QuietTouch
  <2>4. CASE queries'[l].phase = "asked"
      BY <2>4 DEF Current
  <2>. QED BY <1>4, <2>2, <2>3, <2>4
<1>. HIDE DEF Follows
<1>. QED BY <1>1, <1>5, <1>8, <1>9, <1>10, <1>11, <1>12 DEF PageInv

LEMMA PageInitially == Init => PageInv
<1>. SUFFICES ASSUME Init PROVE PageInv
    OBVIOUS
<1>1. Remembered
    BY BoardInitially
<1>2. /\ action = None /\ drawer = None /\ queries = [k \in Followed |-> queries[k]]
      /\ \A k \in Followed : /\ k \in CaseKeys => queries[k] = [Fresh EXCEPT !.phase = "asked"]
                             /\ k \notin CaseKeys => queries[k] = Fresh
    BY DEF Init, Followed
<1>3. \A k \in Followed :
         /\ Query(queries[k]) /\ queries[k].data = NoData /\ ~queries[k].invalid
         /\ queries[k].phase = IF k \in CaseKeys THEN "asked" ELSE "idle"
  <2>. DEFINE asked == [Fresh EXCEPT !.phase = "asked"]
  <2>1. \A k \in Followed : queries[k] = IF k \in CaseKeys THEN asked ELSE Fresh
      BY <1>2
  <2>2. Query(Fresh) /\ Fresh.data = NoData /\ ~Fresh.invalid /\ Fresh.phase = "idle"
      BY DEF Query, Fresh
  <2>3. Query(asked) /\ asked.data = NoData /\ ~asked.invalid /\ asked.phase = "asked"
      BY <2>2 DEF Query
  <2>. HIDE DEF asked
  <2>. QED BY <2>1, <2>2, <2>3
<1>4. QueriesTyped /\ Marks /\ Hands /\ DrawerFresh
    BY <1>2, <1>3 DEF QueriesTyped, Marks, Hands, DrawerFresh
<1>5. KnownRows
    BY <1>3, PredIsNoCase DEF KnownRows
<1>6. \A k \in Followed : Current(k)
    BY <1>3 DEF Current
<1>. QED BY <1>4, <1>5, <1>6 DEF PageInv

LEMMA PageSteps == Remembered /\ PageInv /\ [Next]_boardVars => PageInv'
<1>. SUFFICES ASSUME Remembered, PageInv, [Next]_boardVars PROVE PageInv'
    OBVIOUS
<1>1. ASSUME NEW k \in Followed, ReadQuery(k) \/ ReceiveQuery(k) \/ FailQuery(k) \/ TryAgain(k)
      PROVE  PageInv'
    BY <1>1, ReadQueryKeeps, ReceiveQueryKeeps, FailQueryKeeps, TryAgainKeeps
<1>2. ASSUME NEW s \in CASE_STATUSES, NEW c \in CaseIds, DragCard(c, s) PROVE PageInv'
    BY <1>2, PageAsideKeeps DEF DragCard, casesVars
<1>3. ASSUME NEW s \in CASE_STATUSES, NEW c \in CaseIds, openDrawer(c, s) PROVE PageInv'
    BY <1>3, OpenKeeps
<1>4. ASSUME NEW s \in CASE_STATUSES, NEW to \in CASE_STATUSES, NEW c \in CaseIds,
             MoveCard(c, s, to)
      PROVE  PageInv'
    BY <1>4, PageAsideKeeps DEF MoveCard, Move, SendUpdate
<1>5. ASSUME NEW s \in CASE_STATUSES, handleDrop(s) PROVE PageInv'
    BY <1>5, PageAsideKeeps DEF handleDrop, Move, SendUpdate, casesVars
<1>6. ASSUME NEW i \in RequestIds, MoveAnswered(i) \/ MoveLost(i) PROVE PageInv'
    BY <1>6, SettledKeeps
<1>7. ASSUME NEW i \in RequestIds, Serve(i) PROVE PageInv'
  <2>1. CASE readExisting(i)
      BY <1>7, <2>1, PageAsideKeeps DEF Serve, readExisting, page
  <2>2. CASE i \in awaited /\ writeUpdate(i)
      BY <1>7, <2>2, MoveServedKeeps DEF Serve
  <2>. QED BY <1>7, <2>1, <2>2 DEF Serve
<1>8. CASE closeDrawer
    BY <1>8, PageAsideKeeps DEF closeDrawer, casesVars
<1>9. CASE Act("rescore") \/ Act("remove")
    BY <1>9, ActKeeps
<1>10. CASE Perform \/ ActionAnswered
    BY <1>10, PerformKeeps, ActionAnsweredKeeps
<1>11. CASE Others
    BY <1>11, OthersKeep
<1>12. CASE UNCHANGED boardVars
    BY <1>12, PageAsideKeeps DEF boardVars, casesVars
<1>. QED BY <1>1, <1>2, <1>3, <1>4, <1>5, <1>6, <1>7, <1>8, <1>9, <1>10, <1>11, <1>12 DEF Next

\* A query that is mounted is not waiting and carries no mark.
LEMMA SettledIsCurrent == Remembered /\ PageInv => PageSettles
<1>. SUFFICES ASSUME Remembered, PageInv, NEW k \in Mounted, queries[k].data # NoData,
                     queries[k].phase = "idle", ~queries[k].error, ~queries[k].outdated,
                     awaited = {}, action = None
              PROVE  queries[k].data \in Answers(k)
    BY DEF PageSettles
<1>1. k \in Followed /\ Current(k)
    BY DEF Mounted, PageInv
<1>2. ~Waiting(k)
    BY DEF Waiting
<1>3. ~Marked(k)
  <2>1. SUFFICES ASSUME queries[k].invalid PROVE k[2] \in deleted
      BY DEF Marked
  <2>2. PICK t \in Txns : k = Pred(t)
      BY <1>1, <2>1 DEF PageInv, Marks
  <2>3. k \notin CaseKeys
      BY <2>2, PredIsNoCase
  <2>4. t = drawer /\ drawer # None
      BY <2>2, <2>3, BoardNoneAssumption DEF Mounted, Pred
  <2>5. k = Pred(drawer) /\ k[2] = drawer
      BY <2>2, <2>4 DEF Pred
  <2>6. ~Unmarked(queries[Pred(drawer)])
      BY <2>1, <2>5 DEF Unmarked
  <2>. QED BY <2>4, <2>5, <2>6 DEF PageInv, DrawerFresh
<1>. QED BY <1>1, <1>2, <1>3 DEF Current

-----------------------------------------------------------------------------
(* The theorems.                                                           *)

\* Whatever a board, a drawer and everyone else do, each step is one the API
\* of the review queue allows.
THEOREM BoardImplementsQueue == Spec => [][CasesNext]_casesVars
    BY BoardInvariant, BoardSteps, PTL DEF Spec

\* Under the board, with any number of other users: rows keep their type,
\* resolvedAt agrees with the status, decisions are owned, and one backfill at
\* a time opens one case per transaction.
THEOREM BoardKeepsQueue ==
    Spec => [](CasesTypeOK /\ ResolvedMatchesStatus /\ DecisionsAreOwned /\ OneCasePerTransaction)
<1>1. IInv => CasesTypeOK /\ ResolvedMatchesStatus /\ DecisionsAreOwned /\ OneCasePerTransaction
    BY DEF IInv, Serial, OneCasePerTransaction
<1>. QED BY <1>1, BoardInvariant, PTL

\* Once nothing the page sent is under way, what a mounted query shows is what
\* the API would answer, unless someone else wrote since or a first load was
\* under way when the page wrote: whatever overlap of moves, refetches, lost
\* answers, rescores and drawers opened and closed.
THEOREM PageIsCurrent == Spec => []PageSettles
    BY BoardInvariant, PageInitially, PageSteps, SettledIsCurrent, PTL DEF Spec

=============================================================================
