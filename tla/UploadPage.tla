----------------------------- MODULE UploadPage -----------------------------
(***************************************************************************)
(* The upload page of one user, over the imports of module CsvImport and   *)
(* next to other clients of the API.                                       *)
(*                                                                         *)
(*   frontend/src/pages/Upload.jsx                                         *)
(*                                                                         *)
(* The page reads the head of a file to preview it, asynchronously, and    *)
(* sends the file that is selected when the user confirms. Reading and     *)
(* uploading both end after the user may have gone on to another file.     *)
(***************************************************************************)
EXTENDS CsvImport

CONSTANTS
    Worlds,    \* the instances Init chooses from
    MaxPicks,  \* bound: files the user picks
    MaxOthers  \* bound: requests of other clients

Happenings == {"db", "crash", \* the database refuses a batch, the process dies
               "disk",        \* an upload cannot be unlinked
               "network",     \* an answer is lost
               "reset",       \* the user changes the file while one is uploaded
               "single",      \* other clients create and delete transactions
               "import"}      \* other clients import files

ASSUME UploadPageAssumption ==
    Worlds \subseteq SUBSET Happenings /\ MaxPicks \in Nat /\ MaxOthers \in Nat

VARIABLES
    file, preview, parseError, result, \* the component's state; preview is the
                                       \* file it was read from
    parsing,   \* files whose head is being read
    uploading, \* the mutation: its request, or None
    raced,     \* history: the file was changed while one was read or uploaded
    picks, others

shownVars == <<file, preview, parseError, result>>
bounds    == <<picks, others>>
pageVars  == <<shownVars, parsing, uploading, raced, bounds>>
vars      == <<serverVars, pageVars>>

-----------------------------------------------------------------------------
(* Choosing a file.                                                        *)

\* The drop zone is there while no file is selected.
accept(f) ==
    /\ file = None
    /\ picks < MaxPicks /\ picks' = picks + 1
    /\ result' = None
    /\ IF Contents[f].isCsv
       THEN file' = f /\ parseError' = FALSE /\ parsing' = parsing \union {f}
       ELSE parseError' = TRUE /\ UNCHANGED <<file, parsing>>
    /\ UNCHANGED <<serverVars, preview, uploading, raced, others>>

\* parsePreview comes back; a file without a line is an error.
Parsed(f) ==
    /\ f \in parsing /\ parsing' = parsing \ {f}
    /\ IF Contents[f].header = "none" THEN parseError' = TRUE /\ UNCHANGED preview
       ELSE preview' = f /\ UNCHANGED parseError
    /\ UNCHANGED <<serverVars, file, result, uploading, raced, bounds>>

Previewing == file # None /\ preview # None /\ result = None

\* Mutant: the report is left standing.
Clear_KeepsResult == file' = None /\ preview' = None /\ parseError' = FALSE /\ result' = result

Clear == file' = None /\ preview' = None /\ parseError' = FALSE /\ result' = None

\* "Choose another file", "Change file", "Upload another"
reset ==
    /\ parseError \/ Previewing \/ result # None
    /\ uploading # None => "reset" \in happens
    /\ Clear
    /\ raced' = (raced \/ uploading # None \/ parsing # {})
    /\ UNCHANGED <<serverVars, parsing, uploading, bounds>>

\* The page is left: what comes back later finds nobody.
Leave ==
    /\ file # None /\ picks < MaxPicks
    /\ file' = None /\ preview' = None /\ parseError' = FALSE /\ result' = None
    /\ parsing' = {} /\ uploading' = None /\ raced' = FALSE
    /\ UNCHANGED <<serverVars, bounds>>

-----------------------------------------------------------------------------
(* Importing it.                                                           *)

canConfirm == Previewing /\ Contents[preview].header = "ok" /\ uploading = None

Confirm(r) ==
    /\ canConfirm
    /\ Receive(r, file)
    /\ uploading' = r
    /\ UNCHANGED <<shownVars, parsing, raced, bounds>>

\* onSuccess and onError
ReceiveAnswer ==
    /\ uploading # None /\ AnswerIsOut(uploading)
    /\ LET i == requests[uploading]
       IN  result' = IF i.status = 201
                     THEN [file |-> i.file, totalRows |-> i.totalRows, inserted |-> i.inserted,
                           skipped |-> i.skipped, failed |-> i.failed]
                     ELSE result
    /\ uploading' = None
    /\ UNCHANGED <<serverVars, file, preview, parseError, parsing, raced, bounds>>

\* The connection is lost: an error for the page, nothing for the import.
AnswerLost ==
    /\ "network" \in happens /\ uploading # None /\ uploading' = None
    /\ UNCHANGED <<serverVars, shownVars, parsing, raced, bounds>>

-----------------------------------------------------------------------------
(* Everyone else.                                                          *)

OtherRequest(r) ==
    /\ others < MaxOthers /\ others' = others + 1
    /\ \/ "import" \in happens /\ \E f \in FileNames : Receive(r, f)
       \/ \E kind \in {"create", "delete"}, t \in Ids : Ask(r, kind, t)
    /\ UNCHANGED <<shownVars, parsing, uploading, raced, picks>>

\* The request is over, for a client that is not the page, or no longer.
Over(r) ==
    /\ r # uploading /\ At(r, "answered")
    /\ requests' = [requests EXCEPT ![r] = None]
    /\ UNCHANGED <<table, temp, kept, died, happens, pageVars>>

Crash == Dies /\ uploading' = None
              /\ UNCHANGED <<shownVars, parsing, raced, bounds>>

-----------------------------------------------------------------------------

Init ==
    /\ ServerInit /\ happens \in Worlds
    /\ file = None /\ preview = None /\ parseError = FALSE /\ result = None
    /\ parsing = {} /\ uploading = None /\ raced = FALSE
    /\ picks = 0 /\ others = 0

Page == \/ \E f \in FileNames : accept(f) \/ Parsed(f)
        \/ reset \/ Leave \/ ReceiveAnswer \/ AnswerLost
        \/ \E r \in Requests : Confirm(r)

Next == \/ Page
        \/ Serve /\ UNCHANGED pageVars
        \/ \E r \in Requests : OtherRequest(r) \/ Over(r)
        \/ Crash

Spec == Init /\ [][Next]_vars

-----------------------------------------------------------------------------
(* Properties.                                                             *)

TypeOK ==
    /\ ServerTypeOK /\ happens \in Worlds
    /\ {file, preview} \subseteq FileNames \union {None}
    /\ parsing \subseteq FileNames /\ uploading \in Requests \union {None}
    /\ {parseError, raced} \subseteq BOOLEAN
    /\ picks \in 0..MaxPicks /\ others \in 0..MaxOthers

\* The import report: as long as the user does not change the file under a
\* read or an upload, the report that is shown is of the selected file, its
\* numbers add up to that file's rows, and every row it calls inserted or
\* skipped is in the table, also when the same file is imported from elsewhere
\* or a first attempt was lost.
ReportIsOfTheFile ==
    result # None /\ ~raced =>
        /\ result.file = file
        /\ result.totalRows = Len(Contents[file].rows)
        /\ result.totalRows = result.inserted + result.skipped + result.failed
        /\ Mapped(file) \subseteq Present

=============================================================================
