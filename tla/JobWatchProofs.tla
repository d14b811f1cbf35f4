--------------------------- MODULE JobWatchProofs ---------------------------
(***************************************************************************)
(* What holds of the page that watches a batch job for any number of jobs, *)
(* chunks, handlers and retries, whatever drops and reconnects: the room   *)
(* of the socket, the toasts of a run, and the status on screen.           *)
(***************************************************************************)
EXTENDS JobWatch, FiniteSetTheorems, SequenceTheorems, TLAPS

Told     == {"PROCESSING"} \union Final
Statuses == {"NONE", "QUEUED", "PROCESSING"} \union Final
Emit     == [join : BOOLEAN, job : Jobs]
Event    == [kind : {"progress", "completed"}, job : Jobs, status : Told]

\* A recorded chunk: final once its handler has finalised the job, and that
\* only on the way from one publication to the other.
Chunk(p) ==
    /\ DOMAIN p = {"pc", "job", "run", "left", "status"}
    /\ p.job \in Jobs /\ p.status \in Told
    /\ p.pc = "finish" => p.status \notin Final
    /\ p.pc = "completed" => p.status \in Final

RowsTyped ==
    /\ status \in [Jobs -> Statuses] /\ finals \in [Jobs -> Nat]
    /\ IsFiniteSet(pending) /\ \A p \in pending : Chunk(p)

NetTyped == rooms \subseteq Jobs /\ outbox \in Seq(Emit) /\ inbox \in Seq(Event)

PageTyped ==
    /\ toasts \in [Jobs -> Nat] /\ DOMAIN list \subseteq Jobs
    /\ selectedId \in Jobs \union {None} /\ effects.job \in Jobs \union {None}
    /\ live # None => live.job \in Jobs

\* Exactly the job of the effects is listened to, by one callback.
Listening ==
    /\ listeners \in [Jobs -> Nat]
    /\ \A j \in Jobs :
          listeners[j] = IF Subscribed(effects) /\ effects.job = j THEN 1 ELSE 0

\* The socket will be in the room of j once the emits o have been handled.
Joins(o, r, j) ==
    \/ \E n \in 1..Len(o) : /\ o[n].job = j /\ o[n].join
                            /\ \A m \in 1..Len(o) : m > n => o[m].job # j
    \/ j \in r /\ \A n \in 1..Len(o) : o[n].job # j

\* That will be the room of the job the effects ran with, unless the socket
\* has dropped since.
Membership ==
    \A j \in Jobs : Joins(outbox, rooms, j) <=>
        Subscribed(effects) /\ socket = "connected" /\ effects.job = j

\* The completions of j under way: with a handler, and in the browser.
Tells(p, j) == p.job = j /\ p.status \in Final
Ended(P, j) == {p \in P : Tells(p, j)}
Hits(s, j)  == {n \in 1..Len(s) : s[n].kind = "completed" /\ s[n].job = j}

Counted ==
    \A j \in Jobs :
        toasts[j] + Cardinality(Hits(inbox, j)) + Cardinality(Ended(pending, j)) <= finals[j]

\* Who says that a job is final says it of one that has been.
Reached(s, j) == s \in Final => finals[j] > 0

Truthful ==
    /\ \A j \in Jobs : Reached(status[j], j)
    /\ \A p \in pending : Reached(p.status, p.job)
    /\ \A n \in 1..Len(inbox) : Reached(inbox[n].status, inbox[n].job)
    /\ \A j \in DOMAIN list : Reached(list[j].status, j)
    /\ live # None => Reached(live.status, live.job) /\ live.job = effects.job

IInv == RowsTyped /\ NetTyped /\ PageTyped /\ Listening /\ Membership /\ Counted /\ Truthful

-----------------------------------------------------------------------------
(* The latest job of a list.                                               *)

\* A finite set of numbers has a largest one: among the sets of those from x
\* on there is a smallest.
LEMMA LatestIsIn ==
    ASSUME NEW S, IsFiniteSet(S), S \subseteq Nat, S # {}
    PROVE  Latest(S) \in S
<1>. DEFINE From(x) == {y \in S : y >= x}
            Tails   == {From(x) : x \in S}
<1>1. IsWellFoundedOn(StrictSubsetOrdering(S), SUBSET S)
    BY FS_FiniteSubsetsOfFinite, FS_StrictSubsetOrderingWellFounded
<1>2. Tails \subseteq SUBSET S /\ Tails # {}
    OBVIOUS
<1>3. PICK T \in Tails : \A U \in Tails : <<U, T>> \notin StrictSubsetOrdering(S)
  <2>. HIDE DEF Tails
  <2>. QED BY <1>1, <1>2, WFMin
<1>4. PICK x \in S : T = From(x)
    OBVIOUS
<1>5. ASSUME NEW y \in S PROVE y <= x
  <2>1. SUFFICES ASSUME y > x PROVE FALSE
      BY <1>4
  <2>2. From(y) \subseteq From(x) /\ x \in From(x) /\ x \notin From(y)
    <3>1. x \in Nat /\ y \in Nat /\ \A z \in S : z \in Nat
        OBVIOUS
    <3>2. ~(x >= y) /\ x >= x /\ \A z \in S : z >= y => z >= x
        BY <2>1, <3>1
    <3>. QED BY <3>2
  <2>3. From(y) \in Tails /\ From(y) \in SUBSET S /\ From(x) \in SUBSET S
      OBVIOUS
  <2>4. <<From(y), From(x)>> \in StrictSubsetOrdering(S)
    <3>. HIDE DEF From
    <3>. QED BY <2>2, <2>3 DEF StrictSubsetOrdering
  <2>. QED BY <1>3, <1>4, <2>3, <2>4
<1>. QED BY <1>4, <1>5 DEF Latest

LEMMA SelectedIsAJob ==
    ASSUME PageTyped PROVE Selected \in Jobs \union {None} /\ (Selected # None => Selected \in Listed)
<1>1. CASE selectedId \notin Listed /\ Listed # {}
  <2>1. Listed \subseteq Jobs /\ IsFiniteSet(Listed) /\ Listed \subseteq Nat
      BY WatchAssumption, FS_Subset DEF PageTyped, Listed
  <2>2. Latest(Listed) \in Listed
      BY <1>1, <2>1, LatestIsIn
  <2>. QED BY <1>1, <2>1, <2>2 DEF Selected
<1>2. CASE ~(selectedId \notin Listed /\ Listed # {})
    BY <1>2 DEF Selected, PageTyped, Listed
<1>. QED BY <1>1, <1>2

-----------------------------------------------------------------------------
(* Completions under way.                                                  *)

LEMMA HitsFinite ==
    ASSUME NEW s \in Seq(Event), NEW j
    PROVE  IsFiniteSet(Hits(s, j)) /\ Cardinality(Hits(s, j)) \in Nat
<1>1. IsFiniteSet(1..Len(s)) /\ Hits(s, j) \subseteq 1..Len(s)
    BY FS_Interval DEF Hits
<1>. QED BY <1>1, FS_Subset, FS_CardinalityType

LEMMA HitsAppend ==
    ASSUME NEW s \in Seq(Event), NEW e \in Event, NEW j
    PROVE  Cardinality(Hits(Append(s, e), j)) =
               Cardinality(Hits(s, j)) + (IF e.kind = "completed" /\ e.job = j THEN 1 ELSE 0)
<1>1. /\ Len(Append(s, e)) = Len(s) + 1 /\ Append(s, e)[Len(s) + 1] = e
      /\ \A n \in 1..Len(s) : Append(s, e)[n] = s[n]
      /\ Len(s) \in Nat
    OBVIOUS
<1>2. CASE e.kind = "completed" /\ e.job = j
  <2>1. Hits(Append(s, e), j) = Hits(s, j) \union {Len(s) + 1}
      BY <1>1, <1>2 DEF Hits
  <2>2. Len(s) + 1 \notin Hits(s, j)
      BY <1>1 DEF Hits
  <2>. QED BY <1>2, <2>1, <2>2, HitsFinite, FS_AddElement
<1>3. CASE ~(e.kind = "completed" /\ e.job = j)
  <2>1. Hits(Append(s, e), j) = Hits(s, j)
      BY <1>1, <1>3 DEF Hits
  <2>. QED BY <1>3, <2>1, HitsFinite
<1>. QED BY <1>2, <1>3

LEMMA HitsTail ==
    ASSUME NEW s \in Seq(Event), s # <<>>, NEW j
    PROVE  Cardinality(Hits(Tail(s), j)) <=
               Cardinality(Hits(s, j))
               - (IF Head(s).kind = "completed" /\ Head(s).job = j THEN 1 ELSE 0)
<1>. DEFINE A == Hits(Tail(s), j)
            B == Hits(s, j) \ {1}
            f == [n \in A |-> n + 1]
<1>1. /\ Len(s) \in Nat /\ Len(s) > 0 /\ Len(Tail(s)) = Len(s) - 1 /\ Head(s) = s[1]
      /\ \A n \in 1..Len(Tail(s)) : Tail(s)[n] = s[n + 1]
    OBVIOUS
<1>2. IsFiniteSet(Hits(s, j)) /\ Cardinality(Hits(s, j)) \in Nat
    BY HitsFinite
<1>3. /\ IsFiniteSet(B)
      /\ Cardinality(B) = IF 1 \in Hits(s, j) THEN Cardinality(Hits(s, j)) - 1
                          ELSE Cardinality(Hits(s, j))
    BY <1>2, FS_RemoveElement
<1>4. f \in Injection(A, B)
  <2>1. \A n \in A : n \in Nat /\ n + 1 \in B
      BY <1>1 DEF Hits
  <2>. HIDE DEF A, B
  <2>2. f \in [A -> B] /\ \A m, n \in A : f[m] = f[n] => m = n
      BY <2>1
  <2>. QED BY <2>2 DEF Injection, IsInjective
<1>5. Cardinality(A) <= Cardinality(B)
  <2>. HIDE DEF A, B, f
  <2>. QED BY <1>3, <1>4, FS_Injection
<1>6. Head(s).kind = "completed" /\ Head(s).job = j <=> 1 \in Hits(s, j)
    BY <1>1 DEF Hits
<1>7. Cardinality(A) \in Nat /\ Cardinality(B) \in Nat
  <2>1. Tail(s) \in Seq(Event)
      OBVIOUS
  <2>. QED BY <1>3, <2>1, HitsFinite, FS_CardinalityType
<1>. QED BY <1>2, <1>3, <1>5, <1>6, <1>7

LEMMA NoHits == ASSUME NEW j PROVE Cardinality(Hits(<<>>, j)) = 0
<1>1. Hits(<<>>, j) = {}
    BY DEF Hits
<1>. QED BY <1>1, FS_EmptySet

LEMMA EndedFinite ==
    ASSUME NEW P, IsFiniteSet(P), NEW j
    PROVE  IsFiniteSet(Ended(P, j)) /\ Cardinality(Ended(P, j)) \in Nat
<1>1. Ended(P, j) \subseteq P
    BY DEF Ended
<1>. QED BY <1>1, FS_Subset, FS_CardinalityType

\* A handler that goes on says no more than before.
LEMMA EndedReplaced ==
    ASSUME NEW P, IsFiniteSet(P), NEW p \in P, NEW q, NEW j,
           Tells(q, j) => Tells(p, j)
    PROVE  Cardinality(Ended((P \ {p}) \union {q}, j)) <= Cardinality(Ended(P, j))
<1>. DEFINE E == Ended(P, j)
            R == Ended((P \ {p}) \union {q}, j)
<1>1. IsFiniteSet(E) /\ Cardinality(E) \in Nat
    BY EndedFinite
<1>2. CASE p \in E
  <2>1. R \subseteq (E \ {p}) \union {q}
      BY DEF Ended
  <2>2. IsFiniteSet(E \ {p}) /\ Cardinality(E \ {p}) = Cardinality(E) - 1
      BY <1>1, <1>2, FS_RemoveElement
  <2>3. /\ IsFiniteSet((E \ {p}) \union {q})
        /\ Cardinality((E \ {p}) \union {q}) <= Cardinality(E)
    <3>. HIDE DEF E
    <3>1. /\ IsFiniteSet((E \ {p}) \union {q})
          /\ Cardinality((E \ {p}) \union {q}) =
                IF q \in E \ {p} THEN Cardinality(E \ {p}) ELSE Cardinality(E \ {p}) + 1
        BY <2>2, FS_AddElement
    <3>. QED BY <1>1, <2>2, <3>1
  <2>. HIDE DEF E, R
  <2>4. Cardinality(R) <= Cardinality((E \ {p}) \union {q})
      BY <2>1, <2>3, FS_Subset
  <2>5. IsFiniteSet(R) /\ Cardinality(R) \in Nat /\ Cardinality((E \ {p}) \union {q}) \in Nat
      BY <2>1, <2>3, FS_Subset, FS_CardinalityType
  <2>. QED BY <1>1, <2>3, <2>4, <2>5 DEF E, R
<1>3. CASE p \notin E
  <2>1. R \subseteq E
      BY <1>3 DEF Ended
  <2>. QED BY <1>1, <2>1, FS_Subset
<1>. QED BY <1>2, <1>3

LEMMA EndedAdded ==
    ASSUME NEW P, IsFiniteSet(P), NEW q, NEW j
    PROVE  Cardinality(Ended(P \union {q}, j)) <=
               Cardinality(Ended(P, j)) + (IF Tells(q, j) THEN 1 ELSE 0)
<1>1. IsFiniteSet(Ended(P, j)) /\ Cardinality(Ended(P, j)) \in Nat
    BY EndedFinite
<1>2. CASE Tells(q, j)
  <2>1. Ended(P \union {q}, j) = Ended(P, j) \union {q}
      BY <1>2 DEF Ended
  <2>2. Cardinality(Ended(P, j) \union {q}) <= Cardinality(Ended(P, j)) + 1
      BY <1>1, FS_AddElement
  <2>. QED BY <1>2, <2>1, <2>2
<1>3. CASE ~(Tells(q, j))
  <2>1. Ended(P \union {q}, j) = Ended(P, j)
      BY <1>3 DEF Ended
  <2>. QED BY <1>1, <1>3, <2>1
<1>. QED BY <1>2, <1>3

LEMMA EndedRemoved ==
    ASSUME NEW P, IsFiniteSet(P), NEW p \in P, NEW j
    PROVE  Cardinality(Ended(P \ {p}, j)) =
               Cardinality(Ended(P, j)) - (IF Tells(p, j) THEN 1 ELSE 0)
<1>1. IsFiniteSet(Ended(P, j)) /\ Cardinality(Ended(P, j)) \in Nat
    BY EndedFinite
<1>2. Ended(P \ {p}, j) = Ended(P, j) \ {p}
    BY DEF Ended
<1>3. p \in Ended(P, j) <=> Tells(p, j)
    BY DEF Ended
<1>4. Cardinality(Ended(P, j) \ {p}) =
         IF p \in Ended(P, j) THEN Cardinality(Ended(P, j)) - 1 ELSE Cardinality(Ended(P, j))
    BY <1>1, FS_RemoveElement
<1>5. CASE Tells(p, j)
    BY <1>2, <1>3, <1>4, <1>5
<1>6. CASE ~Tells(p, j)
    BY <1>1, <1>2, <1>3, <1>4, <1>6
<1>. QED BY <1>5, <1>6

-----------------------------------------------------------------------------
(* Emits.                                                                  *)

LEMMA JoinsAppend ==
    ASSUME NEW o \in Seq(Emit), NEW e \in Emit, NEW r, NEW j
    PROVE  Joins(Append(o, e), r, j) <=> IF e.job = j THEN e.join ELSE Joins(o, r, j)
<1>. DEFINE N == Len(o) + 1
            w == Append(o, e)
<1>1. /\ Len(w) = N /\ w[N] = e /\ N \in Nat /\ N \in 1..N
      /\ \A n \in 1..Len(o) : w[n] = o[n] /\ n \in 1..N /\ N > n
      /\ \A n \in 1..N : n = N \/ n \in 1..Len(o)
    OBVIOUS
<1>. HIDE DEF w
<1>2. CASE e.job = j
  <2>1. ASSUME e.join PROVE Joins(w, r, j)
    <3>1. \A m \in 1..N : ~(m > N)
        BY <1>1
    <3>. QED BY <1>1, <1>2, <2>1, <3>1 DEF Joins
  <2>2. ASSUME Joins(w, r, j) PROVE e.join
      BY <1>1, <1>2, <2>2 DEF Joins
  <2>. QED BY <1>2, <2>1, <2>2 DEF w
<1>3. CASE e.job # j
  <2>. HIDE DEF N
  <2>1. Joins(w, r, j) <=> Joins(o, r, j)
      BY <1>1, <1>3 DEF Joins
  <2>. QED BY <1>3, <2>1 DEF w
<1>. QED BY <1>2, <1>3

\* The server handles the first emit: what the others make of it is the same.
LEMMA JoinsHandled ==
    ASSUME NEW o \in Seq(Emit), o # <<>>, NEW r, NEW j
    PROVE  Joins(Tail(o), IF Head(o).join THEN r \union {Head(o).job} ELSE r \ {Head(o).job}, j)
              <=> Joins(o, r, j)
<1>. DEFINE t == Tail(o)
            q == IF Head(o).join THEN r \union {Head(o).job} ELSE r \ {Head(o).job}
<1>1. /\ Len(o) \in Nat /\ Len(o) >= 1 /\ Len(t) = Len(o) - 1 /\ Head(o) = o[1]
      /\ \A n \in 1..Len(t) : t[n] = o[n + 1] /\ n + 1 \in 1..Len(o)
      /\ 1 \in 1..Len(o)
      /\ \A n \in 1..Len(o) : n = 1 \/ (n - 1 \in 1..Len(t) /\ t[n - 1] = o[n])
    OBVIOUS
<1>2. j \in q <=> IF o[1].job = j THEN o[1].join ELSE j \in r
    BY <1>1
<1>. HIDE DEF t, q
<1>3. ASSUME Joins(t, q, j) PROVE Joins(o, r, j)
  <2>1. CASE j \in q /\ \A n \in 1..Len(t) : t[n].job # j
    <3>1. \A n \in 1..Len(o) : n = 1 \/ o[n].job # j
        BY <1>1, <2>1
    <3>2. \A n \in 1..Len(o) : n > 1 => o[n].job # j
        BY <3>1
    <3>. QED BY <1>1, <1>2, <2>1, <3>1, <3>2 DEF Joins
  <2>2. CASE \E n \in 1..Len(t) : /\ t[n].job = j /\ t[n].join
                                  /\ \A m \in 1..Len(t) : m > n => t[m].job # j
    <3>1. PICK n \in 1..Len(t) : /\ t[n].job = j /\ t[n].join
                                 /\ \A m \in 1..Len(t) : m > n => t[m].job # j
        BY <2>2
    <3>2. ASSUME NEW m \in 1..Len(o), m > n + 1 PROVE o[m].job # j
      <4>1. m # 1 /\ m - 1 > n
          BY <1>1, <3>2
      <4>. QED BY <1>1, <3>1, <4>1
    <3>. QED BY <1>1, <3>1, <3>2 DEF Joins
  <2>. QED BY <1>3, <2>1, <2>2 DEF Joins
<1>4. ASSUME Joins(o, r, j) PROVE Joins(t, q, j)
  <2>1. CASE j \in r /\ \A n \in 1..Len(o) : o[n].job # j
      BY <1>1, <1>2, <2>1 DEF Joins
  <2>2. CASE \E n \in 1..Len(o) : /\ o[n].job = j /\ o[n].join
                                  /\ \A m \in 1..Len(o) : m > n => o[m].job # j
    <3>1. PICK n \in 1..Len(o) : /\ o[n].job = j /\ o[n].join
                                 /\ \A m \in 1..Len(o) : m > n => o[m].job # j
        BY <2>2
    <3>2. CASE n = 1
      <4>1. \A m \in 1..Len(t) : m + 1 > 1
          BY <1>1
      <4>. QED BY <1>1, <1>2, <3>1, <3>2, <4>1 DEF Joins
    <3>3. CASE n # 1
      <4>1. \A m \in 1..Len(t) : m > n - 1 => m + 1 > n
          BY <1>1
      <4>. QED BY <1>1, <3>1, <3>3, <4>1 DEF Joins
    <3>. QED BY <3>2, <3>3
  <2>. QED BY <1>4, <2>1, <2>2 DEF Joins
<1>. QED BY <1>3, <1>4 DEF t, q

-----------------------------------------------------------------------------
(* The worker.                                                             *)

\* Each part of the invariant looks at some variables only.
LEMMA Untouched ==
    ASSUME IInv
    PROVE  /\ UNCHANGED <<status, finals, pending>> => RowsTyped'
           /\ UNCHANGED <<rooms, outbox, inbox>> => NetTyped'
           /\ UNCHANGED <<toasts, list, selectedId, effects, live>> => PageTyped'
           /\ UNCHANGED <<listeners, effects>> => Listening'
           /\ UNCHANGED <<rooms, outbox, socket, effects>> => Membership'
           /\ UNCHANGED <<toasts, inbox, pending, finals>> => Counted'
           /\ UNCHANGED <<status, finals, pending, inbox, list, live, effects>> => Truthful'
<1>1. UNCHANGED <<status, finals, pending>> => RowsTyped'
    BY DEF IInv, RowsTyped
<1>2. UNCHANGED <<rooms, outbox, inbox>> => NetTyped'
    BY DEF IInv, NetTyped
<1>3. UNCHANGED <<toasts, list, selectedId, effects, live>> => PageTyped'
    BY DEF IInv, PageTyped
<1>4. UNCHANGED <<listeners, effects>> => Listening'
    BY DEF IInv, Listening, Subscribed
<1>5. UNCHANGED <<rooms, outbox, socket, effects>> => Membership'
    BY DEF IInv, Membership, Subscribed
<1>6. UNCHANGED <<toasts, inbox, pending, finals>> => Counted'
    BY DEF IInv, Counted
<1>7. UNCHANGED <<status, finals, pending, inbox, list, live, effects>> => Truthful'
    BY DEF IInv, Truthful, Reached
<1>. QED BY <1>1, <1>2, <1>3, <1>4, <1>5, <1>6, <1>7

\* A row becomes what is not final.
LEMMA RowKeeps ==
    ASSUME IInv, NEW j \in Jobs, NEW s \in {"QUEUED", "PROCESSING"},
           status' = [status EXCEPT ![j] = s],
           UNCHANGED <<pending, rooms, outbox, inbox, list, selectedId, socket, live, effects,
                       listeners, toasts, finals>>
    PROVE  IInv'
<1>1. s \in Statuses /\ s \notin Final
    BY DEF Statuses, Final, Lifecycle!Final, Lifecycle!Retryable
<1>2. RowsTyped'
    BY <1>1 DEF IInv, RowsTyped
<1>3. \A k \in Jobs : status'[k] = IF k = j THEN s ELSE status[k]
    BY DEF IInv, RowsTyped
<1>4. Truthful'
    BY <1>1, <1>3 DEF IInv, Truthful, Reached
<1>. QED BY <1>2, <1>4, Untouched DEF IInv

LEMMA AcceptKeeps == ASSUME IInv, NEW j \in Jobs, AcceptJob(j) PROVE IInv'
    BY RowKeeps DEF AcceptJob, Lifecycle!Accept, net

LEMMA StartKeeps == ASSUME IInv, NEW j \in Jobs, StartJob(j) PROVE IInv'
    BY RowKeeps DEF StartJob, Lifecycle!Start, net

LEMMA RetryKeeps == ASSUME IInv, Retry PROVE IInv'
<1>1. Selected \in Jobs
    BY SelectedIsAJob DEF Retry, IInv
<1>. QED BY <1>1, RowKeeps DEF Retry, Lifecycle!Reopen, net

LEMMA RecordKeeps == ASSUME IInv, NEW j \in Jobs, recordChunkResult(j) PROVE IInv'
<1>. DEFINE q == [pc |-> IF left'[j] = 0 THEN "finish" ELSE "progress", job |-> j,
                  run |-> retries[j], left |-> left'[j], status |-> "PROCESSING"]
<1>1. /\ pending' = pending \union {q}
      /\ UNCHANGED <<status, finals, rooms, outbox, inbox, list, selectedId, socket, live,
                     effects, listeners, toasts>>
    BY DEF recordChunkResult, Lifecycle!Account, net
<1>2. "PROCESSING" \in Told /\ "PROCESSING" \notin Final
    BY DEF Told, Final, Lifecycle!Final, Lifecycle!Retryable
<1>3. Chunk(q) /\ q.status = "PROCESSING"
    BY <1>2 DEF Chunk
<1>. HIDE DEF q
<1>4. RowsTyped'
    BY <1>1, <1>3, FS_AddElement DEF IInv, RowsTyped
<1>5. Truthful'
    BY <1>1, <1>2, <1>3 DEF IInv, Truthful, Reached
<1>6. ASSUME NEW k \in Jobs PROVE Ended(pending', k) = Ended(pending, k)
    BY <1>1, <1>2, <1>3 DEF Ended, Tells
<1>7. Counted'
    BY <1>1, <1>6 DEF IInv, Counted
<1>. QED BY <1>1, <1>4, <1>5, <1>7, Untouched DEF IInv

\* The chunk a handler goes on with once it has finalised the job.
Ends(p, s) == [p EXCEPT !.pc = "progress", !.status = s]

LEMMA EndsChunk ==
    ASSUME NEW p, Chunk(p), NEW s \in Final
    PROVE  Chunk(Ends(p, s)) /\ Ends(p, s).job = p.job /\ Ends(p, s).status = s
<1>1. s \in Told
    BY DEF Told
<1>2. /\ DOMAIN Ends(p, s) = DOMAIN p /\ Ends(p, s).pc = "progress"
      /\ Ends(p, s).job = p.job /\ Ends(p, s).status = s
    BY DEF Ends, Chunk
<1>. QED BY <1>1, <1>2 DEF Chunk

LEMMA FinalizeKeeps == ASSUME IInv, NEW p \in pending, finalizeJob(p) PROVE IInv'
<1>. DEFINE j == p.job
            s == status'[j]
            q == Ends(p, s)
<1>1. /\ pending' = (pending \ {p}) \union {q}
      /\ finals' = [finals EXCEPT ![j] = @ + 1]
      /\ status' = [status EXCEPT ![j] = Lifecycle!Verdict(processed[j], failed[j])]
      /\ UNCHANGED <<rooms, outbox, inbox, list, selectedId, socket, live, effects,
                     listeners, toasts>>
    BY DEF finalizeJob, Becomes, Ends, Lifecycle!Finish, net
<1>2. /\ Chunk(p) /\ p.status \notin Final /\ j \in Jobs /\ IsFiniteSet(pending)
      /\ status \in [Jobs -> Statuses] /\ finals \in [Jobs -> Nat]
    BY DEF IInv, RowsTyped, finalizeJob, Chunk
<1>3. Lifecycle!Verdict(processed[j], failed[j]) \in Final
    BY DEF Lifecycle!Verdict, Final, Lifecycle!Final, Lifecycle!Retryable
<1>4. s \in Final /\ \A k \in Jobs : status'[k] = IF k = j THEN s ELSE status[k]
    BY <1>1, <1>2, <1>3
<1>5. status' \in [Jobs -> Statuses]
    BY <1>1, <1>2, <1>3 DEF Statuses
<1>6. /\ finals' \in [Jobs -> Nat]
      /\ \A k \in Jobs : finals'[k] = IF k = j THEN finals[k] + 1 ELSE finals[k]
      /\ \A k \in Jobs : finals'[k] >= finals[k]
    BY <1>1, <1>2
<1>7. Chunk(q) /\ q.job = j /\ q.status = s
    BY <1>2, <1>4, EndsChunk
<1>. HIDE DEF j, s, q
<1>8. RowsTyped'
  <2>1. IsFiniteSet(pending \ {p}) /\ IsFiniteSet((pending \ {p}) \union {q})
      BY <1>2, FS_RemoveElement, FS_AddElement
  <2>. QED BY <1>1, <1>5, <1>6, <1>7, <2>1 DEF IInv, RowsTyped
<1>9. finals'[j] > 0
    BY <1>2, <1>6
<1>10. \A k \in Jobs : finals[k] > 0 => finals'[k] > 0
    BY <1>2, <1>6
<1>11. Truthful'
  <2>1. \A k \in Jobs : Reached(status[k], k)'
      BY <1>4, <1>9, <1>10 DEF IInv, Truthful, Reached
  <2>2. ASSUME NEW r \in pending' PROVE Reached(r.status, r.job)'
    <3>1. CASE r = q
        BY <1>7, <1>9, <3>1 DEF Reached
    <3>2. CASE r # q
      <4>1. r \in pending
          BY <1>1, <3>2
      <4>2. Reached(r.status, r.job) /\ r.job \in Jobs
          BY <4>1 DEF IInv, Truthful, RowsTyped, Chunk
      <4>. QED BY <1>10, <4>2 DEF Reached
    <3>. QED BY <3>1, <3>2
  <2>3. ASSUME NEW n \in 1..Len(inbox) PROVE Reached(inbox[n].status, inbox[n].job)'
    <3>1. inbox[n] \in Event
        BY DEF IInv, NetTyped
    <3>2. Reached(inbox[n].status, inbox[n].job) /\ inbox[n].job \in Jobs
        BY <3>1 DEF IInv, Truthful, Event
    <3>. QED BY <1>1, <1>10, <3>2 DEF Reached
  <2>4. ASSUME NEW k \in DOMAIN list PROVE Reached(list[k].status, k)'
    <3>1. Reached(list[k].status, k) /\ k \in Jobs
        BY DEF IInv, Truthful, PageTyped
    <3>. QED BY <1>1, <1>10, <3>1 DEF Reached
  <2>5. live # None => Reached(live.status, live.job)' /\ live.job = effects.job
    <3>1. live # None => /\ Reached(live.status, live.job) /\ live.job = effects.job
                         /\ live.job \in Jobs
        BY DEF IInv, Truthful, PageTyped
    <3>. QED BY <1>1, <1>10, <3>1 DEF Reached
  <2>. QED BY <1>1, <2>1, <2>2, <2>3, <2>4, <2>5 DEF Truthful
<1>12. Counted'
  <2>1. SUFFICES ASSUME NEW k \in Jobs
                 PROVE  toasts[k] + Cardinality(Hits(inbox, k)) + Cardinality(Ended(pending', k))
                           <= finals'[k]
      BY <1>1 DEF Counted
  <2>2. toasts[k] + Cardinality(Hits(inbox, k)) + Cardinality(Ended(pending, k)) <= finals[k]
      BY DEF IInv, Counted
  <2>3. /\ toasts[k] \in Nat /\ Cardinality(Hits(inbox, k)) \in Nat /\ finals[k] \in Nat
        /\ Cardinality(Ended(pending, k)) \in Nat
      BY <1>2, HitsFinite, EndedFinite DEF IInv, PageTyped, NetTyped
  <2>4. /\ IsFiniteSet(pending \ {p}) /\ pending \ {p} \subseteq pending
        /\ Cardinality(Ended(pending \ {p}, k)) = Cardinality(Ended(pending, k))
    <3>1. Ended(pending \ {p}, k) = Ended(pending, k)
        BY <1>2 DEF Ended, Tells
    <3>. QED BY <1>2, <3>1, FS_RemoveElement
  <2>5. Cardinality(Ended(pending', k)) <=
            Cardinality(Ended(pending, k)) + (IF Tells(q, k) THEN 1 ELSE 0)
      BY <1>1, <2>4, EndedAdded
  <2>6. Tells(q, k) => k = j
      BY <1>7 DEF Tells
  <2>7. IsFiniteSet(pending') /\ Cardinality(Ended(pending', k)) \in Nat
      BY <1>8, EndedFinite DEF RowsTyped
  <2>. QED BY <1>6, <2>2, <2>3, <2>5, <2>6, <2>7
<1>. QED BY <1>1, <1>8, <1>11, <1>12, Untouched DEF IInv

\* A publication: the event waits in the browser or is dropped, and the
\* handler goes on or is done.
LEMMA PublishKeeps ==
    ASSUME IInv, NEW p \in pending, NEW e \in Event, e.job = p.job, e.status = p.status,
           inbox' = Append(inbox, e) \/ inbox' = inbox,
           NEW Q, pending' = (pending \ {p}) \union Q,
           \/ Q = {}
           \/ /\ e.kind # "completed" /\ Q # {}
              /\ \E q : Q = {q} /\ Chunk(q) /\ q.job = p.job /\ q.status = p.status,
           e.kind = "completed" => Tells(p, e.job),
           UNCHANGED <<status, finals, rooms, outbox, list, selectedId, socket, live, effects,
                       listeners, toasts>>
    PROVE  IInv'
<1>1. /\ IsFiniteSet(pending) /\ inbox \in Seq(Event) /\ e.job \in Jobs
      /\ finals \in [Jobs -> Nat] /\ toasts \in [Jobs -> Nat]
    BY DEF IInv, RowsTyped, NetTyped, PageTyped, Event
<1>2. RowsTyped'
  <2>1. IsFiniteSet(pending \ {p})
      BY <1>1, FS_RemoveElement
  <2>2. IsFiniteSet(pending')
    <3>1. CASE Q = {}
        BY <2>1, <3>1
    <3>2. CASE \E q : Q = {q}
        BY <2>1, <3>2, FS_AddElement
    <3>. QED BY <3>1, <3>2
  <2>3. ASSUME NEW r \in pending' PROVE Chunk(r)
    <3>1. CASE r \in pending
        BY <3>1 DEF IInv, RowsTyped
    <3>2. CASE r \in Q
        BY <3>2
    <3>. QED BY <3>1, <3>2
  <2>. QED BY <2>2, <2>3 DEF IInv, RowsTyped
<1>3. NetTyped'
  <2>1. inbox' \in Seq(Event)
    <3>1. CASE inbox' = inbox
        BY <1>1, <3>1
    <3>2. CASE inbox' = Append(inbox, e)
        BY <1>1, <3>2
    <3>. QED BY <3>1, <3>2
  <2>. QED BY <2>1 DEF IInv, NetTyped
<1>4. Truthful'
  <2>1. Reached(p.status, p.job)
      BY DEF IInv, Truthful
  <2>2. \A q \in pending' : Reached(q.status, q.job)
      BY <2>1 DEF IInv, Truthful
  <2>3. \A n \in 1..Len(inbox') : Reached(inbox'[n].status, inbox'[n].job)
    <3>1. CASE inbox' = inbox
        BY <3>1 DEF IInv, Truthful
    <3>2. CASE inbox' = Append(inbox, e)
      <4>1. /\ Len(inbox') = Len(inbox) + 1 /\ inbox'[Len(inbox) + 1] = e
            /\ \A n \in 1..Len(inbox) : inbox'[n] = inbox[n]
          BY <1>1, <3>2
      <4>2. ASSUME NEW n \in 1..Len(inbox') PROVE n = Len(inbox) + 1 \/ n \in 1..Len(inbox)
          BY <1>1, <4>1
      <4>. QED BY <2>1, <4>1, <4>2 DEF IInv, Truthful
    <3>. QED BY <3>1, <3>2
  <2>. QED BY <2>2, <2>3 DEF IInv, Truthful, Reached
<1>5. ASSUME NEW k \in Jobs
      PROVE  toasts[k] + Cardinality(Hits(inbox', k)) + Cardinality(Ended(pending', k)) <= finals[k]
  <2>. DEFINE hits  == Cardinality(Hits(inbox, k))
              ended == Cardinality(Ended(pending, k))
              one   == IF e.kind = "completed" /\ e.job = k THEN 1 ELSE 0
  <2>1. /\ toasts[k] + hits + ended <= finals[k]
        /\ toasts[k] \in Nat /\ hits \in Nat /\ ended \in Nat /\ finals[k] \in Nat
      BY <1>1, HitsFinite, EndedFinite DEF IInv, Counted
  <2>2. Cardinality(Hits(inbox', k)) <= hits + one /\ Cardinality(Hits(inbox', k)) \in Nat
    <3>1. CASE inbox' = inbox
        BY <2>1, <3>1
    <3>2. CASE inbox' = Append(inbox, e)
        BY <1>1, <2>1, <3>2, HitsAppend
    <3>. QED BY <3>1, <3>2
  <2>3. Cardinality(Ended(pending', k)) <= ended - one /\ Cardinality(Ended(pending', k)) \in Nat
    <3>0. Cardinality(Ended(pending', k)) \in Nat
        BY <1>2, EndedFinite DEF RowsTyped
    <3>1. CASE Q = {}
      <4>1. pending' = pending \ {p}
          BY <3>1
      <4>2. Cardinality(Ended(pending', k)) = ended - (IF Tells(p, k) THEN 1 ELSE 0)
          BY <1>1, <4>1, EndedRemoved
      <4>3. e.kind = "completed" /\ e.job = k => Tells(p, k)
          OBVIOUS
      <4>. QED BY <2>1, <3>0, <4>2, <4>3
    <3>2. CASE Q # {}
      <4>1. PICK q : Q = {q} /\ q.job = p.job /\ q.status = p.status
          BY <3>2
      <4>2. e.kind # "completed" /\ one = 0
          BY <3>2
      <4>3. Tells(q, k) => Tells(p, k)
          BY <4>1 DEF Tells
      <4>4. Cardinality(Ended(pending', k)) <= ended
          BY <1>1, <4>1, <4>3, EndedReplaced
      <4>. QED BY <2>1, <3>0, <4>2, <4>4
    <3>. QED BY <3>1, <3>2
  <2>. HIDE DEF hits, ended
  <2>. QED BY <2>1, <2>2, <2>3
<1>6. Counted'
    BY <1>5 DEF Counted
<1>. QED BY <1>2, <1>3, <1>4, <1>6, Untouched DEF IInv

\* The chunk whose handler has one more event to publish.
Completes(p) == [p EXCEPT !.pc = "completed"]

LEMMA CompletesChunk ==
    ASSUME NEW p, Chunk(p), p.status \in Final
    PROVE  /\ Chunk(Completes(p)) /\ Completes(p).job = p.job
           /\ Completes(p).status = p.status
<1>1. /\ DOMAIN Completes(p) = DOMAIN p /\ Completes(p).pc = "completed"
      /\ Completes(p).job = p.job /\ Completes(p).status = p.status
    BY DEF Completes, Chunk
<1>. QED BY <1>1 DEF Chunk

LEMMA ProgressKeeps == ASSUME IInv, NEW p \in pending, publishJobProgress(p) PROVE IInv'
<1>. DEFINE e == [kind |-> "progress", job |-> p.job, status |-> p.status]
            Q == IF p.status \in Final THEN {Completes(p)} ELSE {}
<1>1. /\ pending' = (pending \ {p}) \union Q
      /\ inbox' = Append(inbox, e) \/ inbox' = inbox
      /\ UNCHANGED <<status, finals, rooms, outbox, list, selectedId, socket, live, effects,
                     listeners, toasts>>
    BY DEF publishJobProgress, publish, Becomes, Completes, rows, net
<1>2. Chunk(p)
    BY DEF IInv, RowsTyped
<1>3. e \in Event /\ e.job = p.job /\ e.status = p.status /\ e.kind # "completed"
    BY <1>2 DEF Event, Chunk
<1>4. \/ Q = {}
      \/ Q # {} /\ \E q : Q = {q} /\ Chunk(q) /\ q.job = p.job /\ q.status = p.status
    BY <1>2, CompletesChunk
<1>. HIDE DEF e, Q
<1>. QED BY <1>1, <1>3, <1>4, PublishKeeps

LEMMA CompletedKeeps == ASSUME IInv, NEW p \in pending, publishJobCompleted(p) PROVE IInv'
<1>. DEFINE e == [kind |-> "completed", job |-> p.job, status |-> p.status]
<1>1. /\ pending' = (pending \ {p}) \union {}
      /\ inbox' = Append(inbox, e) \/ inbox' = inbox
      /\ UNCHANGED <<status, finals, rooms, outbox, list, selectedId, socket, live, effects,
                     listeners, toasts>>
    BY DEF publishJobCompleted, publish, Becomes, rows, net
<1>2. Chunk(p) /\ p.status \in Final
    BY DEF IInv, RowsTyped, publishJobCompleted, Chunk
<1>3. e \in Event /\ e.job = p.job /\ e.status = p.status /\ Tells(p, e.job)
    BY <1>2 DEF Event, Chunk, Tells
<1>. HIDE DEF e
<1>. QED BY <1>1, <1>3, PublishKeeps

-----------------------------------------------------------------------------
(* Connections.                                                            *)

LEMMA DropKeeps == ASSUME IInv, SocketDrops PROVE IInv'
<1>1. /\ rooms' = {} /\ inbox' = <<>> /\ outbox' = <<>> /\ socket' = "disconnected"
      /\ UNCHANGED <<status, finals, pending, list, selectedId, live, effects, listeners, toasts>>
    BY DEF SocketDrops, rows
<1>2. NetTyped'
    BY <1>1 DEF NetTyped
<1>3. Membership'
    BY <1>1 DEF Membership, Joins
<1>4. Truthful'
    BY <1>1 DEF IInv, Truthful, Reached
<1>5. Counted'
  <2>1. SUFFICES ASSUME NEW j \in Jobs
                 PROVE  toasts[j] + Cardinality(Hits(<<>>, j)) + Cardinality(Ended(pending, j)) <= finals[j]
      BY <1>1 DEF Counted
  <2>2. toasts[j] + Cardinality(Hits(inbox, j)) + Cardinality(Ended(pending, j)) <= finals[j]
      BY DEF IInv, Counted
  <2>3. /\ toasts[j] \in Nat /\ finals[j] \in Nat /\ Cardinality(Hits(inbox, j)) \in Nat
        /\ Cardinality(Ended(pending, j)) \in Nat
      BY HitsFinite, EndedFinite DEF IInv, RowsTyped, NetTyped, PageTyped
  <2>. QED BY <2>2, <2>3, NoHits
<1>. QED BY <1>1, <1>2, <1>3, <1>4, <1>5, Untouched DEF IInv

\* The effects have run with the status the socket had before it connects.
LEMMA ConnectKeeps == ASSUME IInv, Connects PROVE IInv'
<1>1. UNCHANGED <<rooms, outbox, status, finals, pending, inbox, list, selectedId, live, effects,
                  listeners, toasts>>
    BY DEF Connects, rows
<1>2. socket # "connected" /\ effects.socket = socket
    BY DEF Connects, Connecting, Settled
<1>3. Membership'
    BY <1>1, <1>2 DEF IInv, Membership, Subscribed
<1>. QED BY <1>1, <1>3, Untouched DEF IInv

LEMMA EmitKeeps == ASSUME IInv, HandleEmit PROVE IInv'
<1>1. /\ outbox # <<>> /\ outbox' = Tail(outbox)
      /\ rooms' = IF Head(outbox).join THEN rooms \union {Head(outbox).job}
                  ELSE rooms \ {Head(outbox).job}
      /\ UNCHANGED <<status, finals, pending, inbox, list, selectedId, socket, live, effects,
                     listeners, toasts>>
    BY DEF HandleEmit, rows, net
<1>2. outbox \in Seq(Emit) /\ rooms \subseteq Jobs /\ inbox \in Seq(Event)
    BY DEF IInv, NetTyped
<1>3. Head(outbox) \in Emit /\ Tail(outbox) \in Seq(Emit)
    BY <1>1, <1>2
<1>4. NetTyped'
    BY <1>1, <1>2, <1>3 DEF NetTyped, Emit
<1>5. \A j \in Jobs : Joins(outbox', rooms', j) <=> Joins(outbox, rooms, j)
    BY <1>1, <1>2, JoinsHandled
<1>6. Membership'
    BY <1>1, <1>5 DEF IInv, Membership, Subscribed
<1>. QED BY <1>1, <1>4, <1>6, Untouched DEF IInv

-----------------------------------------------------------------------------
(* The page.                                                               *)

LEMMA EventKeeps == ASSUME IInv, HandleEvent PROVE IInv'
<1>. DEFINE e == Head(inbox)
<1>1. /\ inbox # <<>> /\ inbox' = Tail(inbox)
      /\ live' = IF listeners[e.job] > 0 THEN [job |-> e.job, status |-> e.status] ELSE live
      /\ toasts' = IF e.kind = "completed"
                   THEN [toasts EXCEPT ![e.job] = @ + listeners[e.job]] ELSE toasts
      /\ UNCHANGED <<status, finals, pending, rooms, outbox, list, selectedId, socket, effects,
                     listeners>>
    BY DEF HandleEvent, rows, net
<1>2. inbox \in Seq(Event) /\ outbox \in Seq(Emit) /\ rooms \subseteq Jobs
    BY DEF IInv, NetTyped
<1>3. /\ e \in Event /\ e = inbox[1] /\ Tail(inbox) \in Seq(Event)
      /\ Len(inbox) \in Nat /\ 1 \in 1..Len(inbox) /\ Len(Tail(inbox)) = Len(inbox) - 1
      /\ \A n \in 1..Len(Tail(inbox)) : n + 1 \in 1..Len(inbox) /\ Tail(inbox)[n] = inbox[n + 1]
    BY <1>1, <1>2
<1>4. e.job \in Jobs /\ Reached(e.status, e.job)
    BY <1>3 DEF IInv, Truthful, Event
<1>5. /\ listeners[e.job] \in {0, 1}
      /\ listeners[e.job] > 0 => effects.job = e.job
    BY <1>4 DEF IInv, Listening
<1>. HIDE DEF e
<1>6. NetTyped'
    BY <1>1, <1>2, <1>3 DEF NetTyped
<1>7. /\ toasts' \in [Jobs -> Nat]
      /\ \A j \in Jobs : toasts'[j] <=
            toasts[j] + (IF e.kind = "completed" /\ e.job = j THEN 1 ELSE 0)
    BY <1>1, <1>4, <1>5 DEF IInv, PageTyped
<1>8. PageTyped'
    BY <1>1, <1>4, <1>7 DEF IInv, PageTyped
<1>9. Truthful'
  <2>1. live' # None => Reached(live'.status, live'.job) /\ live'.job = effects.job
      BY <1>1, <1>4, <1>5 DEF IInv, Truthful
  <2>2. \A n \in 1..Len(inbox') : Reached(inbox'[n].status, inbox'[n].job)
      BY <1>1, <1>3 DEF IInv, Truthful
  <2>. QED BY <1>1, <2>1, <2>2 DEF IInv, Truthful, Reached
<1>10. Counted'
  <2>1. SUFFICES ASSUME NEW j \in Jobs
                 PROVE  toasts'[j] + Cardinality(Hits(inbox', j)) + Cardinality(Ended(pending, j)) <= finals[j]
      BY <1>1 DEF Counted
  <2>. DEFINE hits  == Cardinality(Hits(inbox, j))
              ended == Cardinality(Ended(pending, j))
              one   == IF e.kind = "completed" /\ e.job = j THEN 1 ELSE 0
  <2>2. toasts[j] + hits + ended <= finals[j]
      BY DEF IInv, Counted
  <2>3. /\ toasts[j] \in Nat /\ finals[j] \in Nat /\ hits \in Nat /\ ended \in Nat
        /\ toasts'[j] \in Nat /\ Cardinality(Hits(inbox', j)) \in Nat
      BY <1>2, <1>6, <1>7, HitsFinite, EndedFinite DEF IInv, RowsTyped, NetTyped, PageTyped
  <2>4. Cardinality(Hits(inbox', j)) <= hits - one
      BY <1>1, <1>2, HitsTail DEF e
  <2>5. toasts'[j] <= toasts[j] + one
      BY <1>7
  <2>6. one \in {0, 1}
      OBVIOUS
  <2>. HIDE DEF hits, ended, one
  <2>7. toasts'[j] + Cardinality(Hits(inbox', j)) + ended <= finals[j]
      BY <2>2, <2>3, <2>4, <2>5, <2>6
  <2>. QED BY <2>7 DEF ended
<1>. QED BY <1>1, <1>6, <1>8, <1>9, <1>10, Untouched DEF IInv

LEMMA PollKeeps == ASSUME IInv, Poll PROVE IInv'
<1>1. /\ list' = Rows
      /\ UNCHANGED <<status, finals, pending, rooms, outbox, inbox, selectedId, socket, live,
                     effects, listeners, toasts>>
    BY DEF Poll, rows, net
<1>2. DOMAIN list' \subseteq Jobs /\ \A j \in DOMAIN list' : list'[j].status = status[j]
    BY <1>1 DEF Rows
<1>3. PageTyped'
    BY <1>1, <1>2 DEF IInv, PageTyped
<1>4. Truthful'
    BY <1>1, <1>2 DEF IInv, Truthful, Reached
<1>. QED BY <1>1, <1>3, <1>4, Untouched DEF IInv

LEMMA SelectKeeps == ASSUME IInv, NEW j \in Jobs, Select(j) PROVE IInv'
<1>1. /\ selectedId' = j
      /\ UNCHANGED <<status, finals, pending, rooms, outbox, inbox, list, socket, live, effects,
                     listeners, toasts>>
    BY DEF Select, rows, net
<1>2. PageTyped'
    BY <1>1 DEF IInv, PageTyped
<1>. QED BY <1>1, <1>2, Untouched DEF IInv

LEMMA FilterKeeps == ASSUME IInv, NEW f, PickFilter(f) PROVE IInv'
<1>1. /\ list' = <<>>
      /\ UNCHANGED <<status, finals, pending, rooms, outbox, inbox, selectedId, socket, live,
                     effects, listeners, toasts>>
    BY DEF PickFilter, rows, net
<1>2. DOMAIN list' = {}
    BY <1>1
<1>3. PageTyped'
    BY <1>1, <1>2 DEF IInv, PageTyped
<1>4. Truthful'
    BY <1>1, <1>2 DEF IInv, Truthful, Reached
<1>. QED BY <1>1, <1>3, <1>4, Untouched DEF IInv

\* The emits of leaving a room and of joining one.
Leave(a) == IF a # None THEN <<[join |-> FALSE, job |-> a]>> ELSE <<>>
Join(b)  == IF b # None THEN <<[join |-> TRUE, job |-> b]>> ELSE <<>>

OnlyJoins(o, r, a)    == \A j \in Jobs : Joins(o, r, j) => j = a
ExactlyJoins(o, r, b) == \A j \in Jobs : Joins(o, r, j) <=> j = b

\* Leaving the only room and joining another, in that order.
LEMMA EmitsAppend ==
    ASSUME NEW o \in Seq(Emit), NEW r, NEW a \in Jobs \union {None}, NEW b \in Jobs \union {None},
           OnlyJoins(o, r, a)
    PROVE  /\ o \o Emits(Leave(a), Join(b)) \in Seq(Emit)
           /\ ExactlyJoins(o \o Emits(Leave(a), Join(b)), r, b)
<1>0. None \notin Jobs
    BY WatchAssumption
<1>. DEFINE x == [join |-> FALSE, job |-> a]
            y == [join |-> TRUE, job |-> b]
            l == IF a # None THEN Append(o, x) ELSE o
            m == IF b # None THEN Append(l, y) ELSE l
<1>1. /\ a # None => x \in Emit /\ x.job = a /\ ~x.join
      /\ b # None => y \in Emit /\ y.job = b /\ y.join
    BY DEF Emit
<1>2. /\ Leave(a) = IF a # None THEN <<x>> ELSE <<>>
      /\ Join(b) = IF b # None THEN <<y>> ELSE <<>>
    BY DEF Leave, Join
<1>. HIDE DEF x, y
<1>3. l \in Seq(Emit) /\ \A j \in Jobs : ~Joins(l, r, j)
  <2>1. CASE a = None
      BY <1>0, <2>1 DEF OnlyJoins
  <2>2. CASE a # None
    <3>1. l = Append(o, x) /\ l \in Seq(Emit)
        BY <1>1, <2>2
    <3>2. \A j \in Jobs : Joins(l, r, j) <=> IF x.job = j THEN x.join ELSE Joins(o, r, j)
        BY <1>1, <2>2, <3>1, JoinsAppend
    <3>. QED BY <1>1, <2>2, <3>1, <3>2 DEF OnlyJoins
  <2>. QED BY <2>1, <2>2
<1>. HIDE DEF l
<1>4. m \in Seq(Emit) /\ \A j \in Jobs : Joins(m, r, j) <=> j = b
  <2>1. CASE b = None
      BY <1>0, <1>3, <2>1
  <2>2. CASE b # None
    <3>1. m = Append(l, y) /\ m \in Seq(Emit)
        BY <1>1, <1>3, <2>2
    <3>2. \A j \in Jobs : Joins(m, r, j) <=> IF y.job = j THEN y.join ELSE Joins(l, r, j)
        BY <1>1, <1>3, <2>2, <3>1, JoinsAppend
    <3>. QED BY <1>1, <1>3, <2>2, <3>1, <3>2
  <2>. QED BY <2>1, <2>2
<1>5. o \o Emits(Leave(a), Join(b)) = m
  <2>1. CASE a # None /\ b # None
    <3>1. Emits(Leave(a), Join(b)) = <<x>> \o <<y>> /\ m = Append(Append(o, x), y)
        BY <1>2, <2>1 DEF Emits, l
    <3>2. ASSUME NEW u \in Seq(Emit), NEW v \in Emit, NEW w \in Emit
          PROVE  u \o (<<v>> \o <<w>>) = Append(Append(u, v), w)
      <4>1. <<v>> \in Seq(Emit) /\ <<w>> \in Seq(Emit)
          OBVIOUS
      <4>2. u \o (<<v>> \o <<w>>) = (u \o <<v>>) \o <<w>>
          BY <4>1, ConcatAssociative
      <4>3. Append(u, v) \in Seq(Emit) /\ Append(u, v) = u \o <<v>>
          BY AppendIsConcat, AppendProperties
      <4>4. Append(Append(u, v), w) = Append(u, v) \o <<w>>
          BY <4>3, AppendIsConcat
      <4>. QED BY <4>1, <4>2, <4>3, <4>4
    <3>. QED BY <1>1, <2>1, <3>1, <3>2
  <2>2. CASE a # None /\ b = None
      BY <1>1, <1>2, <2>2 DEF Emits, l
  <2>3. CASE a = None /\ b # None
      BY <1>1, <1>2, <2>3 DEF Emits, l
  <2>4. CASE a = None /\ b = None
      BY <1>1, <1>2, <2>4 DEF Emits, l
  <2>. QED BY <2>1, <2>2, <2>3, <2>4
<1>. QED BY <1>4, <1>5 DEF ExactlyJoins

\* The one callback taken off.
LEMMA Silenced ==
    ASSUME NEW l \in [Jobs -> Nat], NEW a \in Jobs,
           \A j \in Jobs : l[j] = IF j = a THEN 1 ELSE 0
    PROVE  [l EXCEPT ![a] = @ - 1] = [j \in Jobs |-> 0]
<1>1. l[a] - 1 = 0
    OBVIOUS
<1>2. [l EXCEPT ![a] = @ - 1] = [l EXCEPT ![a] = 0]
    BY <1>1
<1>. QED BY <1>2

LEMMA EffectsKeeps == ASSUME IInv, RunEffects PROVE IInv'
<1>. DEFINE S     == Selected
            deps  == [job |-> S, socket |-> socket]
            a     == IF Subscribed(effects) THEN effects.job ELSE None
            b     == IF Subscribed(deps) THEN S ELSE None
            quiet == Unlisten(listeners)
<1>1. /\ Subscribed(effects) <=> a # None
      /\ Subscribed(deps) <=> b # None
      /\ Subscribed(effects) => a = effects.job
      /\ Subscribed(deps) => b = S
    BY DEF Subscribed
<1>2. deps.job = S /\ deps.socket = socket
    OBVIOUS
<1>3. /\ effects' = deps
      /\ outbox' = outbox \o Emits(Leave(a), Join(b))
      /\ live' = Reset(live)
      /\ UNCHANGED <<status, finals, pending, rooms, inbox, list, selectedId, socket, toasts>>
    BY <1>1 DEF RunEffects, Leave, Join, rows, net
<1>4. listeners' = IF b = None THEN quiet ELSE [quiet EXCEPT ![S] = @ + 1]
  <2>1. CASE b = None
      BY <1>1, <2>1 DEF RunEffects
  <2>2. CASE b # None
    <3>1. <<[join |-> TRUE, job |-> S]>> # <<>>
        OBVIOUS
    <3>. QED BY <1>1, <2>2, <3>1 DEF RunEffects
  <2>. QED BY <2>1, <2>2
<1>5. S \in Jobs \union {None} /\ effects.job \in Jobs \union {None} /\ None \notin Jobs
    BY SelectedIsAJob, WatchAssumption DEF IInv, PageTyped
<1>6. a \in Jobs \union {None} /\ b \in Jobs \union {None}
    BY <1>1, <1>5
<1>7. outbox \in Seq(Emit) /\ rooms \subseteq Jobs /\ inbox \in Seq(Event)
    BY DEF IInv, NetTyped
<1>8. OnlyJoins(outbox, rooms, a)
    BY <1>1 DEF IInv, Membership, OnlyJoins
<1>. HIDE DEF S, deps, a, b, quiet
<1>9. outbox' \in Seq(Emit) /\ \A j \in Jobs : Joins(outbox', rooms', j) <=> j = b
  <2>1. /\ outbox \o Emits(Leave(a), Join(b)) \in Seq(Emit)
        /\ ExactlyJoins(outbox \o Emits(Leave(a), Join(b)), rooms, b)
      BY <1>6, <1>7, <1>8, EmitsAppend
  <2>. QED BY <1>3, <2>1 DEF ExactlyJoins
<1>10. NetTyped'
    BY <1>3, <1>7, <1>9 DEF NetTyped
<1>11. \A j \in Jobs : j = b <=> Subscribed(deps) /\ deps.job = j
    BY <1>1, <1>2, <1>5
<1>12. Membership'
  <2>1. Subscribed(deps) => socket = "connected"
      BY <1>2 DEF Subscribed
  <2>. QED BY <1>3, <1>9, <1>11, <2>1 DEF Membership, Subscribed
<1>13. Listening'
  <2>1. /\ listeners \in [Jobs -> Nat]
        /\ \A j \in Jobs : listeners[j] = IF j = a THEN 1 ELSE 0
      BY <1>1, <1>5 DEF IInv, Listening
  <2>2. quiet = [j \in Jobs |-> 0]
    <3>1. CASE a = None
      <4>1. quiet = listeners
          BY <1>1, <3>1 DEF Unlisten, quiet
      <4>. QED BY <1>5, <2>1, <3>1, <4>1
    <3>2. CASE a # None
      <4>1. quiet = [listeners EXCEPT ![a] = @ - 1] /\ a \in Jobs
          BY <1>1, <1>6, <3>2 DEF Unlisten, quiet
      <4>. QED BY <2>1, <4>1, Silenced
    <3>. QED BY <3>1, <3>2
  <2>3. /\ listeners' \in [Jobs -> Nat]
        /\ \A j \in Jobs : listeners'[j] = IF j = b THEN 1 ELSE 0
    <3>1. CASE b = None
        BY <1>4, <1>5, <2>2, <3>1
    <3>2. CASE b # None
      <4>1. b = S /\ S \in Jobs
          BY <1>1, <1>6, <3>2
      <4>. QED BY <1>4, <2>2, <3>2, <4>1
    <3>. QED BY <3>1, <3>2
  <2>. QED BY <1>3, <1>11, <2>3 DEF Listening, Subscribed
<1>14. PageTyped'
    BY <1>2, <1>3, <1>5 DEF IInv, PageTyped, Reset
<1>15. Truthful'
  <2>1. live' # None => live' = live /\ effects'.job = effects.job
      BY <1>2, <1>3 DEF Reset, S
  <2>. QED BY <1>3, <2>1 DEF IInv, Truthful, Reached
<1>. QED BY <1>3, <1>10, <1>12, <1>13, <1>14, <1>15, Untouched DEF IInv

-----------------------------------------------------------------------------
(* The invariant.                                                          *)

LEMMA Inductive == IInv /\ [Next]_vars => IInv'
<1>. SUFFICES ASSUME IInv, [Next]_vars PROVE IInv'
    OBVIOUS
<1>1. CASE RedisDown \/ RedisUp \/ TokenExpires \/ UNCHANGED vars
  <2>1. UNCHANGED <<status, finals, pending, rooms, outbox, inbox, toasts, list, selectedId,
                    effects, live, listeners, socket>>
      BY <1>1 DEF RedisDown, RedisUp, TokenExpires, vars, rows
  <2>. QED BY <2>1, Untouched DEF IInv
<1>2. ASSUME NEW j \in Jobs, AcceptJob(j) \/ StartJob(j) \/ Select(j) PROVE IInv'
    BY <1>2, AcceptKeeps, StartKeeps, SelectKeeps
<1>3. CASE Record
    BY <1>3, RecordKeeps DEF Record
<1>4. CASE Publish
    BY <1>4, FinalizeKeeps, ProgressKeeps, CompletedKeeps DEF Publish
<1>5. CASE Browser
    BY <1>5, ConnectKeeps, EmitKeeps, EffectsKeeps, EventKeeps DEF Browser
<1>6. CASE SocketDrops \/ Poll \/ Retry
    BY <1>6, DropKeeps, PollKeeps, RetryKeeps
<1>7. ASSUME NEW f \in world.filters, PickFilter(f) PROVE IInv'
    BY <1>7, FilterKeeps
<1>. QED BY <1>1, <1>2, <1>3, <1>4, <1>5, <1>6, <1>7 DEF Next

LEMMA Initially == Init => IInv
<1>. SUFFICES ASSUME Init PROVE IInv
    OBVIOUS
<1>1. /\ status = [j \in Jobs |-> "NONE"] /\ pending = {} /\ rooms = {} /\ outbox = <<>>
      /\ inbox = <<>> /\ list = <<>> /\ selectedId = None /\ live = None
      /\ effects.job = None /\ effects.socket = "connecting" /\ socket = "connecting"
      /\ listeners = [j \in Jobs |-> 0] /\ toasts = [j \in Jobs |-> 0]
      /\ finals = [j \in Jobs |-> 0]
    BY DEF Init, Lifecycle!Init
<1>2. "NONE" \in Statuses /\ "NONE" \notin Final
    BY DEF Statuses, Final, Lifecycle!Final, Lifecycle!Retryable
<1>3. RowsTyped
    BY <1>1, <1>2, FS_EmptySet DEF RowsTyped
<1>4. NetTyped
    BY <1>1 DEF NetTyped
<1>5. PageTyped
    BY <1>1 DEF PageTyped
<1>6. ~Subscribed(effects)
    BY <1>1 DEF Subscribed
<1>7. Listening /\ Membership
    BY <1>1, <1>6 DEF Listening, Membership, Joins
<1>8. Counted
  <2>1. \A j \in Jobs : Cardinality(Ended(pending, j)) = 0 /\ Cardinality(Hits(inbox, j)) = 0
    <3>1. \A j \in Jobs : Ended(pending, j) = {}
        BY <1>1 DEF Ended
    <3>. QED BY <1>1, <3>1, FS_EmptySet, NoHits
  <2>. QED BY <1>1, <2>1 DEF Counted
<1>9. Truthful
    BY <1>1, <1>2 DEF Truthful, Reached
<1>. QED BY <1>3, <1>4, <1>5, <1>7, <1>8, <1>9 DEF IInv

LEMMA Invariant == Spec => []IInv
    BY Initially, Inductive, PTL DEF Spec

-----------------------------------------------------------------------------
(* The theorems.                                                           *)

\* The rows, the events and emits under way and the page keep their types, and
\* the page listens with one callback to one job at most.
THEOREM WatchTypeCorrect == Spec => [](RowsTyped /\ NetTyped /\ PageTyped /\ Listening)
<1>1. IInv => RowsTyped /\ NetTyped /\ PageTyped /\ Listening
    BY DEF IInv
<1>. QED BY <1>1, Invariant, PTL

\* A connected socket whose emits have been handled is in the room of the job
\* on screen and in no other.
THEOREM RoomIsThePages == Spec => []RoomMatchesPage
<1>1. ASSUME IInv PROVE RoomMatchesPage
  <2>. SUFFICES ASSUME socket = "connected", Settled, outbox = <<>>
                PROVE  rooms = {Selected} \ {None}
      BY DEF RoomMatchesPage
  <2>1. effects.job = Selected /\ effects.socket = "connected"
      BY DEF Settled
  <2>2. \A j \in Jobs : j \in rooms <=> Joins(outbox, rooms, j)
      BY DEF Joins
  <2>3. \A j \in Jobs : j \in rooms <=> Selected # None /\ Selected = j
      BY <1>1, <2>1, <2>2 DEF IInv, Membership, Subscribed
  <2>4. rooms \subseteq Jobs /\ Selected \in Jobs \union {None}
      BY <1>1, SelectedIsAJob DEF IInv, NetTyped
  <2>. QED BY <2>3, <2>4
<1>. QED BY <1>1, Invariant, PTL

\* A run that ends is announced at most once, to a page that drops, reconnects
\* and re-subscribes however often.
THEOREM ToldOnce == Spec => []OneToastPerRun
<1>1. ASSUME IInv PROVE OneToastPerRun
  <2>. SUFFICES ASSUME NEW j \in Jobs PROVE toasts[j] <= finals[j]
      BY DEF OneToastPerRun
  <2>1. toasts[j] + Cardinality(Hits(inbox, j)) + Cardinality(Ended(pending, j)) <= finals[j]
      BY <1>1 DEF IInv, Counted
  <2>2. /\ toasts[j] \in Nat /\ finals[j] \in Nat /\ Cardinality(Hits(inbox, j)) \in Nat
        /\ Cardinality(Ended(pending, j)) \in Nat
      BY <1>1, HitsFinite, EndedFinite DEF IInv, RowsTyped, NetTyped, PageTyped
  <2>. QED BY <2>1, <2>2
<1>. QED BY <1>1, Invariant, PTL

\* The overlay is over its own job's row, and a job the page shows as final
\* has been.
THEOREM ShownIsTrue == Spec => []ShownFinalWasReached
<1>1. ASSUME IInv PROVE ShownFinalWasReached
  <2>. SUFFICES ASSUME Settled
                PROVE  /\ live # None => live.job = Selected
                       /\ Selected # None /\ Shown \in Final => finals[Selected] > 0
      BY DEF ShownFinalWasReached
  <2>1. effects.job = Selected
      BY DEF Settled
  <2>2. live # None => live.job = Selected /\ Reached(live.status, live.job)
      BY <1>1, <2>1 DEF IInv, Truthful
  <2>3. Selected # None => Reached(list[Selected].status, Selected)
      BY <1>1, SelectedIsAJob DEF IInv, Truthful, Listed
  <2>. QED BY <2>2, <2>3 DEF Shown, Reached
<1>. QED BY <1>1, Invariant, PTL

=============================================================================
