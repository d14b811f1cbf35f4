----------------------------- MODULE CsvImport -----------------------------
(***************************************************************************)
(* How transactions come into the table and leave it: CSV imports that are *)
(* read and written in batches, single creations, and soft deletions, all  *)
(* of them overlapping, with a database that may fail and a process that   *)
(* may die.                                                                *)
(*                                                                         *)
(*   backend/src/modules/transactions/transactions.service.js              *)
(*   backend/src/modules/transactions/transactions.controller.js   upload  *)
(*   backend/src/modules/transactions/paysim.mapper.js                     *)
(*   backend/src/middleware/upload.js                                      *)
(*                                                                         *)
(* A file is a header and a sequence of rows. A row is the id its          *)
(* transaction has, by its txn_id or the hash of its natural key, or one   *)
(* of Bad, Broken and TooBig.                                              *)
(***************************************************************************)
EXTENDS Integers, Sequences, FiniteSets, Functions

CONSTANTS
    Requests,  \* slots for requests under way
    Ids,       \* ids of transactions
    Bad,       \* a row the mapper rejects
    Broken,    \* a row csv-parse cannot read
    TooBig,    \* a row that maps and that the database refuses, with its batch
    FileNames, \* the files there are to upload
    Contents,  \* what they hold
    BatchSize, \* IMPORT_BATCH_SIZE
    None       \* no request, no file

\* isCsv is what fileFilter looks at, with the limit on its size; a file with
\* header "none" has no line at all.
File == [isCsv : BOOLEAN, header : {"ok", "missing", "none"},
         rows : Seq(Ids \union {Bad, Broken, TooBig})]

ASSUME CsvImportAssumption ==
    /\ Contents \in [FileNames -> File]
    /\ BatchSize \in Nat \ {0} /\ None \notin FileNames
    /\ {Bad, Broken, TooBig} \intersect Ids = {}

VARIABLES
    table,    \* each id: not there, there, or there and soft-deleted
    requests, \* the requests under way
    temp,     \* the requests whose upload is in UPLOAD_DIR
    kept,     \* history: those of them whose unlink failed
    died,     \* history: the process died
    happens   \* the instance: a set of what may happen

serverVars == <<table, requests, temp, kept, died, happens>>

\* What an import is: the reader's place, the batch, which is never more than
\* full, and the summary.
Batches == UNION {[1..n -> Ids \union {TooBig}] : n \in 0..BatchSize}
Import == [kind : {"import"}, file : FileNames, next : Nat, batch : Batches,
           totalRows : Nat, inserted : Nat, skipped : Nat, failed : Nat,
           pc : {"read", "flush", "cleanup", "answered"}, status : {0, 201, 400, 500}]
Single == [kind : {"create", "delete"}, txn : Ids, pc : {"check", "write", "answered"},
           status : {0, 200, 201, 404, 409}]

ASSUME RequestsNoneAssumption == None \notin Import \union Single

Present   == {t \in Ids : table[t] # "absent"}
Mapped(f) == {t \in Ids : \E n \in DOMAIN Contents[f].rows : Contents[f].rows[n] = t}

Becomes(r, request) == requests' = [requests EXCEPT ![r] = request]

-----------------------------------------------------------------------------
(* One upload.                                                             *)

\* uploadCsv: the file is stored under a name of its own, or refused. (A bound:
\* the slot of an upload that stayed on disk is not used again.)
Receive(r, f) ==
    /\ requests[r] = None /\ r \notin temp
    /\ LET new(pc, status) ==
             [kind |-> "import", file |-> f, next |-> 1, batch |-> <<>>, totalRows |-> 0,
              inserted |-> 0, skipped |-> 0, failed |-> 0, pc |-> pc, status |-> status]
       IN  IF Contents[f].isCsv
           THEN Becomes(r, new("read", 0)) /\ temp' = temp \union {r}
           ELSE Becomes(r, new("answered", 400)) /\ UNCHANGED temp
    /\ UNCHANGED <<table, kept, died, happens>>

At(r, pc) == requests[r] # None /\ requests[r].pc = pc

\* Mutant: a request that fails is answered without passing the finally.
Throws_NoFinally(i, s) == [i EXCEPT !.pc = "answered", !.status = s]

\* Every way out of the service leads through the controller's finally. An
\* error is answered after it, a success before it.
Throws(i, s) == [i EXCEPT !.pc = "cleanup", !.status = s]

\* The header is checked with the first record; a row counts before it is
\* mapped; a full batch is flushed before the next row is read.
ReadRow(r) ==
    /\ At(r, "read")
    /\ LET i    == requests[r]
           rows == Contents[i.file].rows
           row  == rows[i.next]
           read == [i EXCEPT !.next = @ + 1, !.totalRows = @ + 1]
       IN  /\ i.next <= Len(rows)
           /\ Becomes(r,
                IF row = Broken \/ Contents[i.file].header # "ok" THEN Throws(i, 400)
                ELSE IF row = Bad THEN [read EXCEPT !.failed = @ + 1]
                ELSE [read EXCEPT !.batch = Append(@, row),
                                  !.pc = IF Len(i.batch) + 1 >= BatchSize THEN "flush"
                                         ELSE "read"])
    /\ UNCHANGED <<table, temp, kept, died, happens>>

\* Mutant: what is left in the batch at the end of the file is forgotten.
LeftOver_Forgotten(i) == FALSE

LeftOver(i) == i.batch # <<>>

\* The end of the file: the last flush, or the answer.
ReadEnd(r) ==
    /\ At(r, "read")
    /\ LET i == requests[r]
       IN  /\ i.next > Len(Contents[i.file].rows)
           /\ Becomes(r, IF LeftOver(i) THEN [i EXCEPT !.pc = "flush"]
                         ELSE IF i.totalRows = 0 THEN Throws(i, 400)
                         ELSE [i EXCEPT !.pc = "cleanup", !.status = 201])
    /\ UNCHANGED <<table, temp, kept, died, happens>>

Flushed(i, new) ==
    [i EXCEPT !.pc = "read", !.inserted = @ + Cardinality(new),
              !.skipped = @ + Len(i.batch) - Cardinality(new), !.batch = <<>>]

\* createMany with skipDuplicates: one statement, all of it or nothing.
flush(r) ==
    /\ At(r, "flush")
    /\ LET i   == requests[r]
           new == Range(i.batch) \ Present
       IN  \/ /\ TooBig \notin new
              /\ Becomes(r, Flushed(i, new))
              /\ table' = [t \in Ids |-> IF t \in new THEN "live" ELSE table[t]]
           \/ /\ TooBig \in new \/ "db" \in happens
              /\ Becomes(r, Throws(i, 500))
              /\ UNCHANGED table
    /\ UNCHANGED <<temp, kept, died, happens>>

AnswerIsOut(r) == At(r, "answered") \/ (At(r, "cleanup") /\ requests[r].status = 201)

\* "Best-effort removal": a failure is logged, and the request ends all the same.
cleanupUpload(r) ==
    /\ At(r, "cleanup")
    /\ \/ temp' = temp \ {r} /\ UNCHANGED kept
       \/ "disk" \in happens /\ kept' = kept \union {r} /\ UNCHANGED temp
    /\ Becomes(r, [requests[r] EXCEPT !.pc = "answered"])
    /\ UNCHANGED <<table, died, happens>>

-----------------------------------------------------------------------------
(* Single transactions.                                                    *)

Ask(r, kind, t) ==
    /\ "single" \in happens /\ requests[r] = None
    /\ Becomes(r, [kind |-> kind, txn |-> t, pc |-> "check", status |-> 0])
    /\ UNCHANGED <<table, temp, kept, died, happens>>

\* createTransaction and softDeleteTransaction look before they write.
Check(r) ==
    /\ At(r, "check")
    /\ LET q == requests[r]
           s == IF q.kind = "create"
                THEN IF table[q.txn] = "absent" THEN 0 ELSE 409
                ELSE CASE table[q.txn] = "live" -> 0
                       [] table[q.txn] = "deleted" -> 409
                       [] table[q.txn] = "absent" -> 404
       IN  Becomes(r, IF s = 0 THEN [q EXCEPT !.pc = "write"]
                      ELSE [q EXCEPT !.pc = "answered", !.status = s])
    /\ UNCHANGED <<table, temp, kept, died, happens>>

\* The id is unique in the table: a create that comes late is refused.
Write(r) ==
    /\ At(r, "write")
    /\ LET q    == requests[r]
           late == q.kind = "create" /\ table[q.txn] # "absent"
       IN  /\ table' = IF late THEN table
                       ELSE [table EXCEPT ![q.txn] =
                               IF q.kind = "create" THEN "live" ELSE "deleted"]
           /\ Becomes(r, [q EXCEPT !.pc = "answered",
                                   !.status = CASE late -> 409
                                                [] q.kind = "delete" -> 200
                                                [] OTHER -> 201])
    /\ UNCHANGED <<temp, kept, died, happens>>

-----------------------------------------------------------------------------

\* Everything under way is gone; what was written, and what was uploaded, stays.
Dies ==
    /\ "crash" \in happens /\ ~died /\ died' = TRUE
    /\ requests' = [r \in Requests |-> None]
    /\ UNCHANGED <<table, temp, kept, happens>>

ServerInit ==
    /\ table = [t \in Ids |-> "absent"]
    /\ requests = [r \in Requests |-> None]
    /\ temp = {} /\ kept = {} /\ died = FALSE

Serve == \E r \in Requests : \/ ReadRow(r) \/ ReadEnd(r) \/ flush(r)
                             \/ cleanupUpload(r) \/ Check(r) \/ Write(r)

ServerTypeOK ==
    /\ table \in [Ids -> {"absent", "live", "deleted"}]
    /\ requests \in [Requests -> Import \union Single \union {None}]
    /\ temp \subseteq Requests /\ kept \subseteq Requests /\ died \in BOOLEAN

Imports == {r \in Requests : requests[r] # None /\ requests[r].kind = "import"}

\* "Hashing the natural key instead makes imports idempotent": whatever an
\* earlier import of the same rows got done before it failed or died, and
\* whatever runs beside it, an import that succeeds accounts for each row of
\* its file once, and leaves no row of it out of the table.
SuccessIsComplete ==
    \A r \in Imports :
        LET i == requests[r]
        IN  i.status = 201 =>
                /\ i.totalRows = Len(Contents[i.file].rows)
                /\ i.totalRows = i.inserted + i.skipped + i.failed
                /\ Mapped(i.file) \subseteq Present

\* "Runs on the error path too, so a rejected import cannot leak a temp file":
\* whatever the parser, the mapper and the database throw and whoever hears the
\* answer, what is on disk belongs to an import that still has its unlink to
\* come, unless the process died or the unlink itself failed.
NoFileLeaks ==
    ~died => \A r \in temp \ kept : r \in Imports /\ requests[r].pc # "answered"

=============================================================================
