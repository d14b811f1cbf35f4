----------------------------- MODULE UploadProofs -----------------------------
(***************************************************************************)
(* What holds of imports and of the upload page for any files, any number  *)
(* of requests at once, any size of a batch, any failure of the database   *)
(* and a process that dies: a summary that reports success accounts for    *)
(* every row, no upload is left on disk unless its unlink failed, and the  *)
(* page shows the report of the file that is selected.                     *)
(***************************************************************************)
EXTENDS UploadPage, FiniteSetTheorems, TLAPS

RowValues == Ids \union {Bad, Broken, TooBig}
Rows(i)   == Contents[i.file].rows

\* A row that has been read and that names a transaction is among those in the
\* table, or waits in the batch.
Covered(i, there) ==
    \A n \in 1..(i.next - 1) : Rows(i)[n] \in Ids => Rows(i)[n] \in there \union Range(i.batch)

\* An import has read as many rows as it counts, and accounts for each of them
\* or holds it in its batch.
Counts(i) ==
    /\ i.next \in 1..(Len(Rows(i)) + 1)
    /\ i.totalRows = i.next - 1
    /\ i.totalRows = i.inserted + i.skipped + i.failed + Len(i.batch)

\* It succeeds at the end of the file only.
AtEnd(i) == i.next = Len(Rows(i)) + 1 /\ i.batch = <<>>

Stage(i) ==
    /\ i.pc \in {"read", "flush"} => i.status = 0
    /\ i.pc = "read" => Len(i.batch) < BatchSize
    /\ i.status = 201 => AtEnd(i)

ImportOK(i, there) == Counts(i) /\ Stage(i) /\ Covered(i, there)

ImportsOK == \A r \in Imports : ImportOK(requests[r], Present)

-----------------------------------------------------------------------------
(* Batches and rows.                                                       *)

LEMMA FileIs ==
    ASSUME NEW f \in FileNames
    PROVE  /\ Contents[f].rows \in Seq(RowValues) /\ Len(Contents[f].rows) \in Nat
           /\ \A n \in 1..Len(Contents[f].rows) : Contents[f].rows[n] \in RowValues
<1>1. Contents[f] \in File
    BY CsvImportAssumption
<1>2. Contents[f].rows \in Seq(RowValues)
    BY <1>1 DEF File, RowValues
<1>. QED BY <1>2

\* A batch is a sequence that is never more than full.
LEMMA BatchIs ==
    ASSUME NEW b
    PROVE  b \in Batches <=> b \in Seq(Ids \union {TooBig}) /\ Len(b) <= BatchSize
<1>0. BatchSize \in Nat
    BY CsvImportAssumption
<1>1. ASSUME b \in Batches
      PROVE  b \in Seq(Ids \union {TooBig}) /\ Len(b) <= BatchSize
  <2>1. PICK n \in 0..BatchSize : b \in [1..n -> Ids \union {TooBig}]
      BY <1>1 DEF Batches
  <2>. QED BY <1>0, <2>1
<1>2. ASSUME b \in Seq(Ids \union {TooBig}), Len(b) <= BatchSize
      PROVE  b \in Batches
  <2>1. Len(b) \in 0..BatchSize /\ b \in [1..Len(b) -> Ids \union {TooBig}]
      BY <1>0, <1>2
  <2>. QED BY <2>1 DEF Batches
<1>. QED BY <1>1, <1>2

LEMMA BatchGrows ==
    ASSUME NEW b \in Batches, Len(b) < BatchSize, NEW row \in Ids \union {TooBig}
    PROVE  /\ Append(b, row) \in Batches /\ Len(Append(b, row)) = Len(b) + 1
           /\ Range(Append(b, row)) = Range(b) \union {row}
<1>1. b \in Seq(Ids \union {TooBig}) /\ Len(b) \in Nat /\ BatchSize \in Nat
    BY BatchIs, CsvImportAssumption
<1>2. /\ Append(b, row) \in Seq(Ids \union {TooBig}) /\ Len(Append(b, row)) = Len(b) + 1
      /\ \A n \in 1..Len(b) : Append(b, row)[n] = b[n]
      /\ Append(b, row)[Len(b) + 1] = row
    BY <1>1
<1>3. DOMAIN b = 1..Len(b) /\ DOMAIN Append(b, row) = 1..(Len(b) + 1)
    BY <1>1, <1>2
<1>4. Range(Append(b, row)) = Range(b) \union {row}
    BY <1>1, <1>2, <1>3 DEF Range
<1>5. Len(Append(b, row)) <= BatchSize
    BY <1>1, <1>2
<1>6. Append(b, row) \in Batches
  <2>. DEFINE a == Append(b, row)
  <2>1. a \in Seq(Ids \union {TooBig}) /\ Len(a) <= BatchSize
      BY <1>2, <1>5
  <2>. HIDE DEF a
  <2>2. a \in Batches
      BY <2>1, BatchIs
  <2>. QED BY <2>2 DEF a
<1>. QED BY <1>2, <1>4, <1>6

LEMMA NoBatch == <<>> \in Batches /\ Len(<<>>) = 0 /\ Range(<<>>) = {}
<1>1. <<>> \in Seq(Ids \union {TooBig}) /\ Len(<<>>) = 0 /\ DOMAIN <<>> = {}
    OBVIOUS
<1>2. \A b : b = <<>> => b \in Batches
  <2>. SUFFICES ASSUME NEW b, b = <<>> PROVE b \in Batches
      OBVIOUS
  <2>1. b \in Seq(Ids \union {TooBig}) /\ Len(b) <= BatchSize
      BY <1>1, CsvImportAssumption
  <2>. QED BY <2>1, BatchIs
<1>3. Range(<<>>) = {}
    BY <1>1 DEF Range
<1>. QED BY <1>1, <1>2, <1>3

\* A batch inserts no more rows than it holds.
LEMMA NewRows ==
    ASSUME NEW b \in Batches, NEW new \in SUBSET Range(b)
    PROVE  Cardinality(new) \in Nat /\ Cardinality(new) <= Len(b) /\ Len(b) \in Nat
<1>1. b \in Seq(Ids \union {TooBig}) /\ Len(b) \in Nat /\ DOMAIN b = 1..Len(b)
    BY BatchIs
<1>2. b \in Surjection(1..Len(b), Range(b))
    BY <1>1 DEF Surjection, Range
<1>3. IsFiniteSet(1..Len(b)) /\ Cardinality(1..Len(b)) = Len(b)
    BY <1>1, FS_Interval
<1>4. /\ IsFiniteSet(Range(b)) /\ Cardinality(Range(b)) <= Len(b)
      /\ Cardinality(Range(b)) \in Nat
    BY <1>2, <1>3, FS_Surjection, FS_CardinalityType
<1>5. IsFiniteSet(new) /\ Cardinality(new) <= Cardinality(Range(b))
    BY <1>4, FS_Subset
<1>6. Cardinality(new) \in Nat
    BY <1>5, FS_CardinalityType
<1>. QED BY <1>1, <1>4, <1>5, <1>6

\* What is there stays there.
LEMMA CoveredStays ==
    ASSUME NEW i, NEW S, NEW T, S \subseteq T, ImportOK(i, S)
    PROVE  ImportOK(i, T)
    BY DEF ImportOK, Covered

-----------------------------------------------------------------------------
(* What becomes of an import.                                              *)

LEMMA Fields ==
    ASSUME NEW i \in Import
    PROVE  /\ i.kind = "import" /\ i.file \in FileNames /\ i.next \in Nat /\ i.batch \in Batches
           /\ i.totalRows \in Nat /\ i.inserted \in Nat /\ i.skipped \in Nat /\ i.failed \in Nat
           /\ i.pc \in {"read", "flush", "cleanup", "answered"}
           /\ i.status \in {0, 201, 400, 500} /\ Len(i.batch) \in Nat
    BY BatchIs DEF Import

\* A copy of an import with other values in its fields.
Alike(d, i) == d = [x \in DOMAIN i |-> d[x]]

Typed(d) ==
    /\ d.kind = "import" /\ d.file \in FileNames /\ d.next \in Nat /\ d.batch \in Batches
    /\ d.totalRows \in Nat /\ d.inserted \in Nat /\ d.skipped \in Nat /\ d.failed \in Nat
    /\ d.pc \in {"read", "flush", "cleanup", "answered"} /\ d.status \in {0, 201, 400, 500}

LEMMA Names ==
    ASSUME NEW i \in Import
    PROVE  DOMAIN i = {"kind", "file", "next", "batch", "totalRows", "inserted", "skipped",
                       "failed", "pc", "status"}
    BY DEF Import

LEMMA StillImport ==
    ASSUME NEW i \in Import, NEW d, Alike(d, i), Typed(d)
    PROVE  d \in Import
<1>1. DOMAIN i = {"kind", "file", "next", "batch", "totalRows", "inserted", "skipped",
                  "failed", "pc", "status"}
    BY Names
<1>2. d = [kind |-> d.kind, file |-> d.file, next |-> d.next, batch |-> d.batch,
           totalRows |-> d.totalRows, inserted |-> d.inserted, skipped |-> d.skipped,
           failed |-> d.failed, pc |-> d.pc, status |-> d.status]
    BY <1>1 DEF Alike
<1>. QED BY <1>2 DEF Import, Typed

\* One row more is read: the mapper rejects it, or the batch holds it.
LEMMA CountsARejected ==
    ASSUME NEW i, NEW d, i.next \in Nat, i.inserted \in Nat, i.skipped \in Nat, i.failed \in Nat,
           Len(i.batch) \in Nat, Len(Rows(i)) \in Nat, i.next \in 1..(Len(Rows(i)) + 1),
           i.totalRows = i.next - 1, i.next <= Len(Rows(i)),
           i.totalRows = i.inserted + i.skipped + i.failed + Len(i.batch),
           d.next = i.next + 1, d.totalRows = i.totalRows + 1, d.inserted = i.inserted,
           d.skipped = i.skipped, d.failed = i.failed + 1, d.batch = i.batch, Rows(d) = Rows(i)
    PROVE  Counts(d)
<1>1. PICK n \in Nat, a \in Nat, b \in Nat, c \in Nat, k \in Nat, l \in Nat :
         /\ n = i.next /\ a = i.inserted /\ b = i.skipped /\ c = i.failed
         /\ k = Len(i.batch) /\ l = Len(Rows(i))
    OBVIOUS
<1>2. n \in 1..l /\ n - 1 = a + b + c + k /\ i.totalRows = n - 1
    BY <1>1
<1>3. PICK o \in Nat, e \in Nat : o = n + 1 /\ e = c + 1
    OBVIOUS
<1>4. o \in 1..(l + 1) /\ n = o - 1 /\ n = a + b + e + k
    BY <1>2, <1>3
<1>5. /\ d.next = o /\ d.totalRows = n /\ d.inserted = a /\ d.skipped = b
      /\ d.failed = e /\ Len(d.batch) = k /\ Len(Rows(d)) = l
    BY <1>1, <1>2, <1>3
<1>. QED BY <1>4, <1>5 DEF Counts

LEMMA CountsABatched ==
    ASSUME NEW i, NEW d, i.next \in Nat, i.inserted \in Nat, i.skipped \in Nat, i.failed \in Nat,
           Len(i.batch) \in Nat, Len(Rows(i)) \in Nat, i.next \in 1..(Len(Rows(i)) + 1),
           i.totalRows = i.next - 1, i.next <= Len(Rows(i)),
           i.totalRows = i.inserted + i.skipped + i.failed + Len(i.batch),
           d.next = i.next + 1, d.totalRows = i.totalRows + 1, d.inserted = i.inserted,
           d.skipped = i.skipped, d.failed = i.failed, Len(d.batch) = Len(i.batch) + 1,
           Rows(d) = Rows(i)
    PROVE  Counts(d)
<1>1. PICK n \in Nat, a \in Nat, b \in Nat, c \in Nat, k \in Nat, l \in Nat :
         /\ n = i.next /\ a = i.inserted /\ b = i.skipped /\ c = i.failed
         /\ k = Len(i.batch) /\ l = Len(Rows(i))
    OBVIOUS
<1>2. n \in 1..l /\ n - 1 = a + b + c + k /\ i.totalRows = n - 1
    BY <1>1
<1>3. PICK o \in Nat, e \in Nat : o = n + 1 /\ e = k + 1
    OBVIOUS
<1>4. o \in 1..(l + 1) /\ n = o - 1 /\ n = a + b + c + e
    BY <1>2, <1>3
<1>5. /\ d.next = o /\ d.totalRows = n /\ d.inserted = a /\ d.skipped = b
      /\ d.failed = c /\ Len(d.batch) = e /\ Len(Rows(d)) = l
    BY <1>1, <1>2, <1>3
<1>. QED BY <1>4, <1>5 DEF Counts

\* The batch is written, k rows of it new.
LEMMA CountsAFlushed ==
    ASSUME NEW i, NEW d, i.next \in Nat, i.inserted \in Nat, i.skipped \in Nat, i.failed \in Nat,
           Len(i.batch) \in Nat, Len(Rows(i)) \in Nat, i.next \in 1..(Len(Rows(i)) + 1),
           i.totalRows = i.next - 1,
           i.totalRows = i.inserted + i.skipped + i.failed + Len(i.batch),
           NEW k \in Nat, k <= Len(i.batch),
           d.next = i.next, d.totalRows = i.totalRows, d.inserted = i.inserted + k,
           d.skipped = i.skipped + Len(i.batch) - k, d.failed = i.failed, Len(d.batch) = 0,
           Rows(d) = Rows(i)
    PROVE  Counts(d)
<1>1. PICK n \in Nat, a \in Nat, b \in Nat, c \in Nat, m \in Nat, l \in Nat :
         /\ n = i.next /\ a = i.inserted /\ b = i.skipped /\ c = i.failed
         /\ m = Len(i.batch) /\ l = Len(Rows(i))
    OBVIOUS
<1>2. n \in 1..(l + 1) /\ n - 1 = a + b + c + m /\ i.totalRows = n - 1 /\ k <= m
    BY <1>1
<1>3. PICK e \in Nat, o \in Nat : e = a + k /\ o = b + m - k
    BY <1>2
<1>4. n - 1 = e + o + c + 0
    BY <1>2, <1>3
<1>5. /\ d.next = n /\ d.totalRows = n - 1 /\ d.inserted = e /\ d.skipped = o
      /\ d.failed = c /\ Len(d.batch) = 0 /\ Len(Rows(d)) = l
    BY <1>1, <1>2, <1>3
<1>. QED BY <1>2, <1>4, <1>5 DEF Counts

\* It ends.
EndsAs(i, pc, s) == [i EXCEPT !.pc = pc, !.status = s]

LEMMA Ends ==
    ASSUME NEW i \in Import, NEW there, ImportOK(i, there),
           NEW pc \in {"cleanup", "answered"}, NEW s \in {0, 201, 400, 500},
           s = 201 => AtEnd(i),
           NEW d, d = EndsAs(i, pc, s)
    PROVE  d \in Import /\ ImportOK(d, there) /\ d.file = i.file /\ d.pc = pc
<1>1. Alike(d, i)
    BY DEF Alike, EndsAs
<1>2. /\ d.kind = i.kind /\ d.file = i.file /\ d.next = i.next /\ d.batch = i.batch /\ d.pc = pc
      /\ d.totalRows = i.totalRows /\ d.inserted = i.inserted /\ d.skipped = i.skipped
      /\ d.failed = i.failed /\ d.status = s
    BY DEF Import, EndsAs
<1>3. Rows(d) = Rows(i)
    BY <1>2 DEF Rows
<1>4. ImportOK(d, there)
    BY <1>2, <1>3 DEF ImportOK, Counts, Stage, AtEnd, Covered
<1>5. d \in Import
  <2>1. Typed(d)
      BY <1>2, Fields DEF Typed
  <2>. QED BY <1>1, <2>1, StillImport
<1>. QED BY <1>2, <1>4, <1>5

\* It goes on with what it has.
Turns(i, pc) == [i EXCEPT !.pc = pc]

LEMMA GoesOn ==
    ASSUME NEW i \in Import, NEW there, ImportOK(i, there),
           NEW pc \in {"flush", "answered"}, pc = "flush" => i.status = 0,
           NEW d, d = Turns(i, pc)
    PROVE  d \in Import /\ ImportOK(d, there) /\ d.file = i.file /\ d.pc = pc
<1>1. Alike(d, i)
    BY DEF Alike, Turns
<1>2. /\ d.kind = i.kind /\ d.file = i.file /\ d.next = i.next /\ d.batch = i.batch /\ d.pc = pc
      /\ d.totalRows = i.totalRows /\ d.inserted = i.inserted /\ d.skipped = i.skipped
      /\ d.failed = i.failed /\ d.status = i.status
    BY DEF Import, Turns
<1>3. Rows(d) = Rows(i)
    BY <1>2 DEF Rows
<1>4. ImportOK(d, there)
    BY <1>2, <1>3 DEF ImportOK, Counts, Stage, AtEnd, Covered
<1>5. d \in Import
  <2>1. Typed(d)
      BY <1>2, Fields DEF Typed
  <2>. QED BY <1>1, <2>1, StillImport
<1>. QED BY <1>2, <1>4, <1>5

\* It reads a row the mapper rejects.
Skips(i) == [i EXCEPT !.next = @ + 1, !.totalRows = @ + 1, !.failed = @ + 1]

LEMMA Rejects ==
    ASSUME NEW i \in Import, NEW there, ImportOK(i, there), i.next <= Len(Rows(i)),
           Rows(i)[i.next] \notin Ids, i.pc = "read",
           NEW d, d = Skips(i)
    PROVE  d \in Import /\ ImportOK(d, there) /\ d.file = i.file /\ d.pc = "read"
<1>0. /\ i.next \in Nat /\ i.totalRows \in Nat /\ i.failed \in Nat /\ i.inserted \in Nat
      /\ i.skipped \in Nat /\ Len(i.batch) \in Nat /\ Len(Rows(i)) \in Nat
    BY Fields, FileIs DEF Rows
<1>1. Alike(d, i)
    BY DEF Alike, Skips
<1>2. /\ d.kind = i.kind /\ d.file = i.file /\ d.next = i.next + 1 /\ d.batch = i.batch /\ d.pc = i.pc
      /\ d.totalRows = i.totalRows + 1 /\ d.inserted = i.inserted /\ d.skipped = i.skipped
      /\ d.failed = i.failed + 1 /\ d.status = i.status
    BY DEF Import, Skips
<1>3. Rows(d) = Rows(i)
    BY <1>2 DEF Rows
<1>4. Counts(d) /\ Stage(d)
  <2>1. /\ i.next \in 1..(Len(Rows(i)) + 1) /\ i.totalRows = i.next - 1
        /\ i.totalRows = i.inserted + i.skipped + i.failed + Len(i.batch)
        /\ i.status = 0 /\ Len(i.batch) < BatchSize
      BY DEF ImportOK, Counts, Stage
  <2>2. Counts(d)
      BY <1>0, <1>2, <1>3, <2>1, CountsARejected
  <2>. QED BY <1>2, <1>3, <2>1, <2>2 DEF Stage
<1>5. Covered(d, there)
  <2>. SUFFICES ASSUME NEW n \in 1..(d.next - 1), Rows(d)[n] \in Ids
                PROVE  Rows(d)[n] \in there \union Range(d.batch)
      BY DEF Covered
  <2>1. n \in 1..(i.next - 1)
      BY <1>0, <1>2, <1>3
  <2>. QED BY <1>2, <1>3, <2>1 DEF ImportOK, Covered
<1>6. d \in Import
  <2>1. Typed(d)
      BY <1>0, <1>2, Fields DEF Typed
  <2>. QED BY <1>1, <2>1, StillImport
<1>. QED BY <1>2, <1>4, <1>5, <1>6 DEF ImportOK

\* It reads a row into the batch.
ReadsInto(i, row, pc) == [i EXCEPT !.next = @ + 1, !.totalRows = @ + 1,
                                   !.batch = Append(@, row), !.pc = pc]

LEMMA Reads ==
    ASSUME NEW i \in Import, NEW there, ImportOK(i, there), i.next <= Len(Rows(i)),
           Rows(i)[i.next] \in Ids \union {TooBig}, i.pc = "read",
           NEW pc, pc = IF Len(i.batch) + 1 >= BatchSize THEN "flush" ELSE "read",
           NEW d, d = ReadsInto(i, Rows(i)[i.next], pc)
    PROVE  d \in Import /\ ImportOK(d, there) /\ d.file = i.file /\ d.pc \in {"read", "flush"}
<1>0. /\ i.next \in Nat /\ i.totalRows \in Nat /\ i.failed \in Nat /\ i.inserted \in Nat
      /\ i.skipped \in Nat /\ Len(i.batch) \in Nat /\ Len(Rows(i)) \in Nat
      /\ i.batch \in Batches /\ BatchSize \in Nat /\ pc \in {"read", "flush"}
    BY Fields, FileIs, CsvImportAssumption DEF Rows
<1>1. PICK b \in Batches : /\ b = Append(i.batch, Rows(i)[i.next]) /\ Len(b) = Len(i.batch) + 1
                           /\ Range(b) = Range(i.batch) \union {Rows(i)[i.next]}
  <2>1. Len(i.batch) < BatchSize
      BY DEF ImportOK, Stage
  <2>. QED BY <1>0, <2>1, BatchGrows
<1>2. b = Append(i.batch, Rows(i)[i.next])
    BY <1>1
<1>3. Alike(d, i)
    BY DEF Alike, ReadsInto
<1>4. /\ d.kind = i.kind /\ d.file = i.file /\ d.next = i.next + 1 /\ d.batch = b /\ d.pc = pc
      /\ d.totalRows = i.totalRows + 1 /\ d.inserted = i.inserted /\ d.skipped = i.skipped
      /\ d.failed = i.failed /\ d.status = i.status
    BY <1>2, Names DEF ReadsInto
<1>5. Rows(d) = Rows(i)
    BY <1>4 DEF Rows
<1>6. /\ i.next \in 1..(Len(Rows(i)) + 1) /\ i.totalRows = i.next - 1
      /\ i.totalRows = i.inserted + i.skipped + i.failed + Len(i.batch)
      /\ i.status = 0 /\ Len(i.batch) < BatchSize
    BY DEF ImportOK, Counts, Stage
<1>7. Counts(d) /\ Stage(d)
  <2>1. Counts(d)
      BY <1>0, <1>1, <1>4, <1>5, <1>6, CountsABatched
  <2>2. PICK m \in Nat, full \in Nat : /\ m = Len(i.batch) /\ full = BatchSize /\ m < full
      BY <1>0, <1>6
  <2>3. d.pc = "read" => m + 1 < full
      BY <1>4, <2>2
  <2>4. d.pc = "read" => Len(d.batch) < BatchSize
      BY <1>1, <1>4, <2>2, <2>3
  <2>5. d.status = 0
      BY <1>4, <1>6
  <2>. QED BY <2>1, <2>4, <2>5 DEF Stage
<1>8. Covered(d, there)
  <2>. SUFFICES ASSUME NEW n \in 1..(d.next - 1), Rows(d)[n] \in Ids
                PROVE  Rows(d)[n] \in there \union Range(d.batch)
      BY DEF Covered
  <2>1. CASE n = i.next
      BY <1>1, <1>4, <1>5, <2>1
  <2>2. CASE n # i.next
    <3>1. n \in 1..(i.next - 1)
        BY <1>0, <1>4, <2>2
    <3>. QED BY <1>1, <1>4, <1>5, <3>1 DEF ImportOK, Covered
  <2>. QED BY <2>1, <2>2
<1>9. d \in Import
  <2>1. d.next \in Nat /\ d.totalRows \in Nat
    <3>1. PICK n \in Nat, t \in Nat : n = i.next + 1 /\ t = i.totalRows + 1
        BY <1>0
    <3>. QED BY <1>4, <3>1
  <2>2. /\ d.kind = "import" /\ d.file \in FileNames /\ d.inserted \in Nat /\ d.skipped \in Nat
        /\ d.failed \in Nat /\ d.status \in {0, 201, 400, 500}
      BY <1>4, Fields
  <2>3. d.pc \in {"read", "flush"} /\ d.batch \in Batches
      BY <1>0, <1>1, <1>4
  <2>4. Typed(d)
      BY <2>1, <2>2, <2>3 DEF Typed
  <2>. QED BY <1>3, <2>4, StillImport
<1>. QED BY <1>0, <1>4, <1>7, <1>8, <1>9 DEF ImportOK

\* It writes the batch: what is new in it goes into the table.
LEMMA Flushes ==
    ASSUME NEW i \in Import, NEW S \in SUBSET Ids, ImportOK(i, S), i.pc = "flush",
           NEW new, new = Range(i.batch) \ S, TooBig \notin new,
           NEW T, T = S \union new,
           NEW d, d = Flushed(i, new)
    PROVE  d \in Import /\ ImportOK(d, T) /\ d.file = i.file /\ d.pc = "read" /\ new \subseteq Ids
<1>0. /\ i.next \in Nat /\ i.totalRows \in Nat /\ i.failed \in Nat /\ i.inserted \in Nat
      /\ i.skipped \in Nat /\ Len(i.batch) \in Nat /\ Len(Rows(i)) \in Nat
      /\ i.batch \in Batches
    BY Fields, FileIs DEF Rows
<1>1. PICK k \in Nat : k = Cardinality(new) /\ k <= Len(i.batch)
    BY <1>0, NewRows
<1>2. /\ new \subseteq Ids
      /\ i.skipped + Len(i.batch) - k \in Nat
  <2>1. i.batch \in Seq(Ids \union {TooBig})
      BY <1>0, BatchIs
  <2>2. Range(i.batch) \subseteq Ids \union {TooBig}
      BY <2>1 DEF Range
  <2>. QED BY <1>0, <1>1, <2>2
<1>3. k = Cardinality(new)
    BY <1>1
<1>4. Alike(d, i)
    BY DEF Alike, Flushed
<1>5. /\ d.kind = i.kind /\ d.file = i.file /\ d.next = i.next /\ d.batch = <<>> /\ d.pc = "read"
      /\ d.totalRows = i.totalRows /\ d.inserted = i.inserted + k
      /\ d.skipped = i.skipped + Len(i.batch) - k
      /\ d.failed = i.failed /\ d.status = i.status
    BY <1>3, Names DEF Flushed
<1>6. Rows(d) = Rows(i)
    BY <1>5 DEF Rows
<1>7. /\ i.next \in 1..(Len(Rows(i)) + 1) /\ i.totalRows = i.next - 1
      /\ i.totalRows = i.inserted + i.skipped + i.failed + Len(i.batch)
      /\ i.status = 0 /\ Len(d.batch) = 0
    BY <1>5, NoBatch DEF ImportOK, Counts, Stage
<1>8. Counts(d) /\ Stage(d)
  <2>1. Counts(d)
      BY <1>0, <1>1, <1>5, <1>6, <1>7, CountsAFlushed
  <2>2. BatchSize > 0
      BY CsvImportAssumption
  <2>. QED BY <1>5, <1>6, <1>7, <2>1, <2>2 DEF Stage
<1>9. Covered(d, T)
    BY <1>5, <1>6, NoBatch DEF ImportOK, Covered
<1>10. d \in Import
  <2>1. d.inserted \in Nat /\ d.skipped \in Nat /\ d.batch \in Batches
      BY <1>0, <1>1, <1>2, <1>5, NoBatch
  <2>2. /\ d.kind = "import" /\ d.file \in FileNames /\ d.next \in Nat /\ d.totalRows \in Nat
        /\ d.failed \in Nat /\ d.status \in {0, 201, 400, 500} /\ d.pc = "read"
      BY <1>5, Fields
  <2>3. Typed(d)
      BY <2>1, <2>2 DEF Typed
  <2>. QED BY <1>4, <2>3, StillImport
<1>. QED BY <1>2, <1>5, <1>8, <1>9, <1>10 DEF ImportOK


\* It starts, or is refused.
LEMMA Starts ==
    ASSUME NEW f \in FileNames, NEW pc \in {"read", "answered"}, NEW status \in {0, 400},
           pc = "read" => status = 0, NEW there,
           NEW d, d = [kind |-> "import", file |-> f, next |-> 1, batch |-> <<>>, totalRows |-> 0,
                       inserted |-> 0, skipped |-> 0, failed |-> 0, pc |-> pc, status |-> status]
    PROVE  d \in Import /\ ImportOK(d, there) /\ d.pc = pc
<1>1. d \in Import
    BY NoBatch DEF Import
<1>2. Len(Rows(d)) \in Nat
    BY FileIs DEF Rows
<1>3. Counts(d)
    BY <1>2, NoBatch DEF Counts
<1>4. Stage(d)
  <2>1. BatchSize > 0 /\ Len(d.batch) = 0
      BY NoBatch, CsvImportAssumption
  <2>. QED BY <2>1 DEF Stage
<1>5. Covered(d, there)
    BY DEF Covered
<1>. QED BY <1>1, <1>3, <1>4, <1>5 DEF ImportOK

-----------------------------------------------------------------------------
(* The server.                                                             *)

ServerKept == ServerTypeOK /\ ImportsOK /\ NoFileLeaks

\* The uploads whose unlink is still to come, if the process lives.
Owed == temp \ kept

\* Nothing goes from the table, and an import stays the import it is.
Onward == /\ Present \subseteq Present'
          /\ \A q \in Imports : q \in Imports' /\ requests'[q].file = requests[q].file

\* A step of one request: what it becomes is all there is to look at.
LEMMA OneRequest ==
    ASSUME ServerKept, NEW r \in Requests, NEW d \in Import \union Single \union {None},
           Becomes(r, d), table' \in [Ids -> {"absent", "live", "deleted"}],
           Present \subseteq Present', died' = died, d \in Import => ImportOK(d, Present'),
           temp' \subseteq Requests, kept' \subseteq Requests, Owed' \ {r} \subseteq Owed,
           ~died /\ r \in Owed' => d \in Import /\ d.pc # "answered"
    PROVE  /\ ServerKept'
           /\ (r \in Imports => d \in Import /\ d.file = requests[r].file) => Onward
<1>1. /\ requests' \in [Requests -> Import \union Single \union {None}] /\ requests'[r] = d
      /\ \A q \in Requests \ {r} : requests'[q] = requests[q]
    BY DEF ServerKept, ServerTypeOK, Becomes
<1>2. ServerTypeOK'
    BY <1>1 DEF ServerKept, ServerTypeOK
<1>3. \A q \in Requests \ {r} : q \in Imports' <=> q \in Imports
    BY <1>1 DEF Imports
<1>4. r \in Imports' <=> d \in Import
    BY <1>1, RequestsNoneAssumption DEF Imports, Import, Single
<1>5. ImportsOK'
  <2>. SUFFICES ASSUME NEW q \in Imports' PROVE ImportOK(requests'[q], Present')
      BY DEF ImportsOK
  <2>1. CASE q = r
      BY <1>1, <1>4, <2>1
  <2>2. CASE q # r
    <3>1. q \in Requests /\ q \in Imports
        BY <1>3, <2>2 DEF Imports
    <3>2. ImportOK(requests[q], Present)
        BY <3>1 DEF ServerKept, ImportsOK
    <3>. QED BY <1>1, <2>2, <3>1, <3>2, CoveredStays
  <2>. QED BY <2>1, <2>2
<1>6. NoFileLeaks'
  <2>. SUFFICES ASSUME ~died, NEW q \in Owed'
                PROVE  q \in Imports' /\ requests'[q].pc # "answered"
      BY DEF NoFileLeaks, Owed
  <2>1. CASE q = r
      BY <1>1, <1>4, <2>1
  <2>2. CASE q # r
    <3>1. q \in Imports /\ requests[q].pc # "answered" /\ q \in Requests
      <4>1. q \in Owed
          BY <2>2
      <4>. QED BY <4>1 DEF ServerKept, ServerTypeOK, NoFileLeaks, Owed
    <3>. QED BY <1>1, <1>3, <2>2, <3>1
  <2>. QED BY <2>1, <2>2
<1>7. ASSUME r \in Imports => d \in Import /\ d.file = requests[r].file
      PROVE  Onward
  <2>. SUFFICES ASSUME NEW q \in Imports
                PROVE  q \in Imports' /\ requests'[q].file = requests[q].file
      BY DEF Onward
  <2>1. q \in Requests
      BY DEF Imports
  <2>. QED BY <1>1, <1>3, <1>4, <1>7, <2>1
<1>. QED BY <1>2, <1>5, <1>6, <1>7 DEF ServerKept

LEMMA AnImport ==
    ASSUME ServerKept, NEW r \in Requests, NEW pc \in {"read", "flush", "cleanup"}, At(r, pc)
    PROVE  /\ requests[r] \in Import /\ requests[r].pc = pc /\ r \in Imports
           /\ ImportOK(requests[r], Present)
<1>1. requests[r] \in Import /\ requests[r].pc = pc /\ r \in Imports
    BY DEF ServerKept, ServerTypeOK, At, Imports, Import, Single
<1>. QED BY <1>1 DEF ServerKept, ImportsOK

\* The controllers of imports, one action each.
LEMMA ReceiveKeeps ==
    ASSUME ServerKept, NEW r \in Requests, NEW f \in FileNames, Receive(r, f)
    PROVE  ServerKept' /\ Onward /\ r \in Imports' /\ requests'[r].file = f
<1>1. r \notin Imports /\ requests[r] = None /\ r \notin temp
    BY DEF Receive, Imports
<1>2. table' = table /\ died' = died /\ kept' = kept
    BY DEF Receive
<1>3. /\ table \in [Ids -> {"absent", "live", "deleted"}] /\ Present' = Present
      /\ temp \subseteq Requests /\ kept \subseteq Requests
    BY <1>2 DEF ServerKept, ServerTypeOK, Present
<1>4. PICK d : /\ d \in Import /\ ImportOK(d, Present) /\ d.file = f /\ Becomes(r, d)
               /\ \/ d.pc = "read" /\ temp' = temp \union {r}
                  \/ temp' = temp
  <2>. DEFINE new(pc, status) ==
              [kind |-> "import", file |-> f, next |-> 1, batch |-> <<>>, totalRows |-> 0,
               inserted |-> 0, skipped |-> 0, failed |-> 0, pc |-> pc, status |-> status]
  <2>1. CASE Contents[f].isCsv
    <3>1. Becomes(r, new("read", 0)) /\ temp' = temp \union {r}
        BY <2>1 DEF Receive
    <3>2. new("read", 0) \in Import /\ ImportOK(new("read", 0), Present)
        BY Starts
    <3>. QED BY <3>1, <3>2
  <2>2. CASE ~Contents[f].isCsv
    <3>1. Becomes(r, new("answered", 400)) /\ temp' = temp
        BY <2>2 DEF Receive
    <3>2. new("answered", 400) \in Import /\ ImportOK(new("answered", 400), Present)
        BY Starts
    <3>. QED BY <3>1, <3>2
  <2>. QED BY <2>1, <2>2
<1>5. temp' \subseteq Requests /\ Owed' \ {r} \subseteq Owed
    BY <1>2, <1>3, <1>4 DEF Owed
<1>6. r \in Owed' => d.pc # "answered"
    BY <1>1, <1>4 DEF Owed
<1>7. ServerKept' /\ Onward
    BY <1>1, <1>2, <1>3, <1>4, <1>5, <1>6, OneRequest
<1>8. requests'[r] = d
    BY <1>4 DEF ServerKept, ServerTypeOK, Becomes
<1>9. r \in Imports'
    BY <1>4, <1>8, RequestsNoneAssumption DEF Imports, Import
<1>. QED BY <1>4, <1>7, <1>8, <1>9

\* A step of an import that leaves table and uploads alone.
LEMMA ImportMoves ==
    ASSUME ServerKept, NEW r \in Imports, NEW d \in Import, Becomes(r, d),
           ImportOK(d, Present), d.file = requests[r].file, d.pc # "answered",
           UNCHANGED <<table, temp, died>>, kept' = kept
    PROVE  ServerKept' /\ Onward
<1>1. r \in Requests /\ Present' = Present /\ Owed' = Owed
    BY DEF Imports, Present, Owed
<1>2. /\ table \in [Ids -> {"absent", "live", "deleted"}]
      /\ temp \subseteq Requests /\ kept \subseteq Requests
    BY DEF ServerKept, ServerTypeOK
<1>. QED BY <1>1, <1>2, OneRequest

LEMMA ReadRowKeeps ==
    ASSUME ServerKept, NEW r \in Requests, ReadRow(r)
    PROVE  ServerKept' /\ Onward
<1>0. PICK i \in Import : /\ i = requests[r] /\ i.pc = "read" /\ ImportOK(i, Present)
                          /\ r \in Imports
    BY AnImport DEF ReadRow
<1>1. PICK row : row = Rows(i)[i.next]
    OBVIOUS
<1>2. i.next <= Len(Rows(i)) /\ row \in RowValues
  <2>1. i.next <= Len(Rows(i))
      BY <1>0, <1>1 DEF ReadRow, Rows
  <2>2. i.next \in 1..Len(Rows(i)) /\ i.file \in FileNames
      BY <1>0, <2>1, Fields, FileIs DEF ImportOK, Counts, Rows
  <2>. QED BY <1>1, <2>1, <2>2, FileIs DEF Rows
<1>3. PICK d \in Import : /\ Becomes(r, d) /\ ImportOK(d, Present) /\ d.file = i.file
                          /\ d.pc # "answered"
  <2>1. CASE row = Broken \/ Contents[i.file].header # "ok"
    <3>1. Becomes(r, Throws(i, 400))
        BY <1>0, <1>1, <2>1 DEF ReadRow, Rows
    <3>2. PICK d : Becomes(r, d) /\ d = EndsAs(i, "cleanup", 400)
        BY <3>1 DEF Throws, EndsAs
    <3>3. d \in Import /\ ImportOK(d, Present)
        BY <1>0, <3>2, Ends
    <3>4. d.file = i.file /\ d.pc = "cleanup"
        BY <3>2, Names DEF EndsAs
    <3>. QED BY <3>2, <3>3, <3>4
  <2>2. CASE ~(row = Broken \/ Contents[i.file].header # "ok") /\ row = Bad
    <3>1. Becomes(r, Skips(i))
        BY <1>0, <1>1, <2>2 DEF ReadRow, Rows, Import, Skips
    <3>2. row \notin Ids
        BY <2>2, CsvImportAssumption
    <3>. QED BY <1>0, <1>1, <1>2, <3>1, <3>2, Rejects
  <2>3. CASE ~(row = Broken \/ Contents[i.file].header # "ok") /\ row # Bad
    <3>1. PICK pc : pc = IF Len(i.batch) + 1 >= BatchSize THEN "flush" ELSE "read"
        OBVIOUS
    <3>2. PICK d : Becomes(r, d) /\ d = ReadsInto(i, row, pc)
        BY <1>0, <1>1, <2>3, <3>1 DEF ReadRow, Rows, Import, ReadsInto
    <3>3. row \in Ids \union {TooBig}
        BY <1>2, <2>3 DEF RowValues
    <3>4. d \in Import /\ ImportOK(d, Present) /\ d.file = i.file /\ d.pc \in {"read", "flush"}
        BY <1>0, <1>1, <1>2, <3>1, <3>2, <3>3, Reads
    <3>. QED BY <3>2, <3>4
  <2>. QED BY <2>1, <2>2, <2>3
<1>4. UNCHANGED <<table, temp, died>> /\ kept' = kept
    BY DEF ReadRow
<1>. QED BY <1>0, <1>3, <1>4, ImportMoves

LEMMA ReadEndKeeps ==
    ASSUME ServerKept, NEW r \in Requests, ReadEnd(r)
    PROVE  ServerKept' /\ Onward
<1>0. PICK i \in Import : /\ i = requests[r] /\ i.pc = "read" /\ r \in Imports
                          /\ ImportOK(i, Present)
    BY AnImport DEF ReadEnd
<1>1. i.next = Len(Rows(i)) + 1
  <2>1. i.next > Len(Rows(i))
      BY <1>0 DEF ReadEnd, Rows
  <2>2. PICK n \in Nat, l \in Nat : n = i.next /\ l = Len(Rows(i))
      BY Fields, FileIs DEF Rows
  <2>3. n \in 1..(l + 1)
      BY <1>0, <2>2 DEF ImportOK, Counts
  <2>. QED BY <2>1, <2>2, <2>3
<1>2. PICK d \in Import : /\ Becomes(r, d) /\ ImportOK(d, Present) /\ d.file = i.file
                          /\ d.pc # "answered"
  <2>1. CASE LeftOver(i)
    <3>1. PICK d : Becomes(r, d) /\ d = Turns(i, "flush")
        BY <1>0, <2>1 DEF ReadEnd, Turns
    <3>2. i.status = 0
        BY <1>0 DEF ImportOK, Stage
    <3>3. d \in Import /\ ImportOK(d, Present)
        BY <1>0, <3>1, <3>2, GoesOn
    <3>4. d.file = i.file /\ d.pc = "flush"
        BY <3>1, Names DEF Turns
    <3>. QED BY <3>1, <3>3, <3>4
  <2>2. CASE ~LeftOver(i) /\ i.totalRows = 0
    <3>1. PICK d : Becomes(r, d) /\ d = EndsAs(i, "cleanup", 400)
        BY <1>0, <2>2 DEF ReadEnd, Throws, EndsAs
    <3>2. d \in Import /\ ImportOK(d, Present)
        BY <1>0, <3>1, Ends
    <3>3. d.file = i.file /\ d.pc = "cleanup"
        BY <3>1, Names DEF EndsAs
    <3>. QED BY <3>1, <3>2, <3>3
  <2>3. CASE ~LeftOver(i) /\ i.totalRows # 0
    <3>0. PICK s \in {0, 201, 400, 500} : s = 201
        OBVIOUS
    <3>1. PICK d : Becomes(r, d) /\ d = EndsAs(i, "cleanup", s)
        BY <1>0, <2>3, <3>0 DEF ReadEnd, EndsAs
    <3>2. AtEnd(i)
        BY <1>1, <2>3 DEF LeftOver, AtEnd
    <3>3. d \in Import /\ ImportOK(d, Present)
        BY <1>0, <3>1, <3>2, Ends
    <3>4. d.file = i.file /\ d.pc = "cleanup"
        BY <3>1, Names DEF EndsAs
    <3>. QED BY <3>1, <3>3, <3>4
  <2>. QED BY <2>1, <2>2, <2>3
<1>3. UNCHANGED <<table, temp, died>> /\ kept' = kept
    BY DEF ReadEnd
<1>. QED BY <1>0, <1>2, <1>3, ImportMoves

LEMMA FlushKeeps ==
    ASSUME ServerKept, NEW r \in Requests, flush(r)
    PROVE  ServerKept' /\ Onward
<1>0. PICK i \in Import : /\ i = requests[r] /\ i.pc = "flush" /\ r \in Imports
                          /\ ImportOK(i, Present)
    BY AnImport DEF flush
<1>1. PICK new : new = Range(i.batch) \ Present
    OBVIOUS
<1>2. /\ table \in [Ids -> {"absent", "live", "deleted"}]
      /\ temp \subseteq Requests /\ kept \subseteq Requests
    BY DEF ServerKept, ServerTypeOK
<1>3. UNCHANGED <<temp, died>> /\ kept' = kept /\ Owed' = Owed
    BY DEF flush, Owed
<1>4. CASE /\ TooBig \notin new /\ Becomes(r, Flushed(i, new))
           /\ table' = [t \in Ids |-> IF t \in new THEN "live" ELSE table[t]]
  <2>1. PICK d : Becomes(r, d) /\ d = Flushed(i, new)
      BY <1>4
  <2>2. Present \in SUBSET Ids
      BY DEF Present
  <2>3. d \in Import /\ ImportOK(d, Present \union new) /\ new \subseteq Ids
      BY <1>0, <1>1, <1>4, <2>1, <2>2, Flushes
  <2>4. d.file = i.file /\ d.pc = "read"
      BY <2>1, Names DEF Flushed
  <2>5. table' \in [Ids -> {"absent", "live", "deleted"}] /\ Present' = Present \union new
      BY <1>2, <1>4, <2>3 DEF Present
  <2>. QED BY <1>0, <1>2, <1>3, <2>1, <2>3, <2>4, <2>5, OneRequest
<1>5. CASE Becomes(r, Throws(i, 500)) /\ UNCHANGED table
  <2>1. PICK d : Becomes(r, d) /\ d = EndsAs(i, "cleanup", 500)
      BY <1>5 DEF Throws, EndsAs
  <2>2. d \in Import /\ ImportOK(d, Present)
      BY <1>0, <2>1, Ends
  <2>3. d.file = i.file /\ d.pc = "cleanup"
      BY <2>1, Names DEF EndsAs
  <2>. QED BY <1>0, <1>3, <1>5, <2>1, <2>2, <2>3, ImportMoves
<1>. QED BY <1>0, <1>1, <1>4, <1>5 DEF flush

LEMMA CleanupKeeps ==
    ASSUME ServerKept, NEW r \in Requests, cleanupUpload(r)
    PROVE  ServerKept' /\ Onward
<1>0. PICK i \in Import : /\ i = requests[r] /\ i.pc = "cleanup" /\ r \in Imports
                          /\ ImportOK(i, Present)
    BY AnImport DEF cleanupUpload
<1>1. PICK d : Becomes(r, d) /\ d = Turns(i, "answered")
    BY <1>0 DEF cleanupUpload, Turns
<1>2. d \in Import /\ ImportOK(d, Present)
    BY <1>0, <1>1, GoesOn
<1>3. d.file = i.file
    BY <1>1, Names DEF Turns
<1>4. table' = table /\ died' = died
    BY DEF cleanupUpload
<1>5. table \in [Ids -> {"absent", "live", "deleted"}] /\ Present' = Present
    BY <1>4 DEF ServerKept, ServerTypeOK, Present
<1>6. temp' \subseteq Requests /\ kept' \subseteq Requests /\ Owed' = Owed \ {r}
  <2>1. temp \subseteq Requests /\ kept \subseteq Requests
      BY DEF ServerKept, ServerTypeOK
  <2>2. CASE temp' = temp \ {r} /\ kept' = kept
      BY <2>1, <2>2 DEF Owed
  <2>3. CASE kept' = kept \union {r} /\ temp' = temp
      BY <2>1, <2>3 DEF Owed
  <2>. QED BY <2>2, <2>3 DEF cleanupUpload
<1>. QED BY <1>0, <1>1, <1>2, <1>3, <1>4, <1>5, <1>6, OneRequest

\* Single creations and deletions.
LEMMA ASingle ==
    ASSUME ServerKept, NEW r \in Requests, NEW pc \in {"check", "write"}, At(r, pc)
    PROVE  requests[r] \in Single /\ r \notin Imports /\ (~died => r \notin Owed)
<1>1. requests[r] \in Single /\ r \notin Imports
    BY DEF ServerKept, ServerTypeOK, At, Imports, Import, Single
<1>. QED BY <1>1 DEF ServerKept, NoFileLeaks, Owed

LEMMA SingleMoves ==
    ASSUME ServerKept, NEW r \in Requests, r \notin Imports, ~died => r \notin Owed,
           NEW d \in Single, Becomes(r, d), table' \in [Ids -> {"absent", "live", "deleted"}],
           Present \subseteq Present', UNCHANGED <<temp, died>>, kept' = kept
    PROVE  ServerKept' /\ Onward
<1>1. d \notin Import
    BY DEF Import, Single
<1>2. temp \subseteq Requests /\ kept \subseteq Requests /\ Owed' = Owed
    BY DEF ServerKept, ServerTypeOK, Owed
<1>. QED BY <1>1, <1>2, OneRequest

LEMMA AskKeeps ==
    ASSUME ServerKept, NEW r \in Requests, NEW kind \in {"create", "delete"}, NEW t \in Ids,
           Ask(r, kind, t)
    PROVE  ServerKept' /\ Onward
<1>1. r \notin Imports /\ (~died => r \notin Owed)
    BY DEF Ask, Imports, ServerKept, NoFileLeaks, Owed
<1>2. PICK d \in Single : Becomes(r, d)
    BY DEF Ask, Single
<1>3. UNCHANGED <<table, temp, died>> /\ kept' = kept /\ Present' = Present
    BY DEF Ask, Present
<1>4. table \in [Ids -> {"absent", "live", "deleted"}]
    BY DEF ServerKept, ServerTypeOK
<1>. QED BY <1>1, <1>2, <1>3, <1>4, SingleMoves

Goes(q)         == [q EXCEPT !.pc = "write"]
AnswersAs(q, s) == [q EXCEPT !.pc = "answered", !.status = s]

LEMMA StillSingle ==
    ASSUME NEW q \in Single, NEW s \in {0, 200, 201, 404, 409}
    PROVE  AnswersAs(q, s) \in Single
<1>. DEFINE e == [q EXCEPT !.pc = "answered"]
            d == [q EXCEPT !.pc = "answered", !.status = s]
<1>1. e \in Single /\ d = [e EXCEPT !.status = s]
    BY DEF Single
<1>. HIDE DEF e, d
<1>2. d \in Single
    BY <1>1 DEF Single
<1>. QED BY <1>2 DEF d, AnswersAs

LEMMA CheckKeeps ==
    ASSUME ServerKept, NEW r \in Requests, Check(r)
    PROVE  ServerKept' /\ Onward
<1>1. requests[r] \in Single /\ r \notin Imports /\ (~died => r \notin Owed)
    BY ASingle DEF Check
<1>2. PICK q \in Single : q = requests[r]
    BY <1>1
<1>. DEFINE s == IF q.kind = "create"
                 THEN IF table[q.txn] = "absent" THEN 0 ELSE 409
                 ELSE CASE table[q.txn] = "live" -> 0
                        [] table[q.txn] = "deleted" -> 409
                        [] table[q.txn] = "absent" -> 404
<1>3. Becomes(r, IF s = 0 THEN Goes(q) ELSE AnswersAs(q, s))
    BY <1>2 DEF Check, Goes, AnswersAs
<1>4. s \in {0, 409, 404}
  <2>1. table[q.txn] \in {"absent", "live", "deleted"}
      BY DEF ServerKept, ServerTypeOK, Single
  <2>. QED BY <2>1
<1>5. Goes(q) \in Single /\ AnswersAs(q, s) \in Single
  <2>1. Goes(q) \in Single
      BY DEF Single, Goes
  <2>. HIDE DEF s
  <2>2. AnswersAs(q, s) \in Single
      BY <1>4, StillSingle
  <2>. QED BY <2>1, <2>2
<1>. HIDE DEF s
<1>6. PICK d \in Single : Becomes(r, d)
    BY <1>3, <1>5
<1>7. UNCHANGED <<table, temp, died>> /\ kept' = kept /\ Present' = Present
    BY DEF Check, Present
<1>8. table \in [Ids -> {"absent", "live", "deleted"}]
    BY DEF ServerKept, ServerTypeOK
<1>. QED BY <1>1, <1>6, <1>7, <1>8, SingleMoves

LEMMA WriteKeeps ==
    ASSUME ServerKept, NEW r \in Requests, Write(r)
    PROVE  ServerKept' /\ Onward
<1>1. requests[r] \in Single /\ r \notin Imports /\ (~died => r \notin Owed)
    BY ASingle DEF Write
<1>2. PICK q \in Single : q = requests[r]
    BY <1>1
<1>. DEFINE late == q.kind = "create" /\ table[q.txn] # "absent"
            s    == CASE late -> 409
                      [] q.kind = "delete" -> 200
                      [] OTHER -> 201
<1>3. Becomes(r, AnswersAs(q, s)) /\ s \in {200, 201, 409}
  <2>1. Becomes(r, AnswersAs(q, s))
      BY <1>2 DEF Write, AnswersAs
  <2>. QED BY <2>1
<1>. HIDE DEF s
<1>4. PICK d \in Single : Becomes(r, d)
    BY <1>3, StillSingle
<1>5. table \in [Ids -> {"absent", "live", "deleted"}]
    BY DEF ServerKept, ServerTypeOK
<1>6. PICK to \in {"live", "deleted"} : table' = table \/ table' = [table EXCEPT ![q.txn] = to]
    BY <1>2 DEF Write
<1>7. table' \in [Ids -> {"absent", "live", "deleted"}]
    BY <1>5, <1>6
<1>8. Present \subseteq Present'
    BY <1>5, <1>6 DEF Present
<1>9. UNCHANGED <<temp, died>> /\ kept' = kept
    BY DEF Write
<1>. QED BY <1>1, <1>4, <1>7, <1>8, <1>9, SingleMoves

LEMMA ServeKeeps ==
    ASSUME ServerKept, Serve
    PROVE  ServerKept' /\ Onward
    BY ReadRowKeeps, ReadEndKeeps, FlushKeeps, CleanupKeeps, CheckKeeps, WriteKeeps DEF Serve

\* A request is over, and its slot is free.
LEMMA FreeKeeps ==
    ASSUME ServerKept, NEW r \in Requests, At(r, "answered"),
           requests' = [requests EXCEPT ![r] = None], UNCHANGED <<table, temp, died>>, kept' = kept
    PROVE  ServerKept'
<1>1. Becomes(r, None) /\ None \notin Import
    BY RequestsNoneAssumption DEF Becomes
<1>2. (~died => r \notin Owed) /\ Owed' = Owed
    BY DEF At, ServerKept, NoFileLeaks, Owed
<1>3. /\ table \in [Ids -> {"absent", "live", "deleted"}] /\ temp \subseteq Requests
      /\ kept \subseteq Requests /\ Present' = Present
    BY DEF ServerKept, ServerTypeOK, Present
<1>. QED BY <1>1, <1>2, <1>3, OneRequest

LEMMA DiesKeeps ==
    ASSUME ServerKept, Dies
    PROVE  ServerKept'
<1>1. Imports' = {}
    BY DEF Dies, Imports
<1>2. ServerTypeOK'
    BY DEF Dies, ServerKept, ServerTypeOK
<1>. QED BY <1>1, <1>2 DEF Dies, ServerKept, ImportsOK, NoFileLeaks

-----------------------------------------------------------------------------
(* The page.                                                               *)

PageTypeOK ==
    /\ happens \in Worlds
    /\ {file, preview} \subseteq FileNames \union {None}
    /\ parsing \subseteq FileNames /\ uploading \in Requests \union {None}
    /\ {parseError, raced} \subseteq BOOLEAN
    /\ picks \in 0..MaxPicks /\ others \in 0..MaxOthers

\* What the page waits for is an import, and of the file that is selected
\* unless the user changed it under way.
Waits == uploading # None =>
            /\ uploading \in Imports
            /\ ~raced => file # None /\ requests[uploading].file = file

Kept == ServerKept /\ PageTypeOK /\ Waits /\ ReportIsOfTheFile

\* What nobody on the page does, and what does not touch the page's import,
\* leaves the page right.
LEMMA PageStays ==
    ASSUME Kept, Present \subseteq Present', UNCHANGED <<file, result, raced>>,
           uploading' = None \/ (uploading' = uploading /\ (uploading # None =>
               uploading \in Imports' /\ requests'[uploading].file = requests[uploading].file))
    PROVE  Waits' /\ ReportIsOfTheFile'
<1>1. Waits'
    BY DEF Kept, Waits
<1>2. ReportIsOfTheFile'
    BY DEF Kept, ReportIsOfTheFile
<1>. QED BY <1>1, <1>2

LEMMA ServedPage ==
    ASSUME Kept, ServerKept', Onward, UNCHANGED <<happens, pageVars>>
    PROVE  Kept'
<1>1. PageTypeOK'
    BY DEF Kept, PageTypeOK, pageVars, shownVars, bounds
<1>2. uploading # None => /\ uploading \in Imports'
                         /\ requests'[uploading].file = requests[uploading].file
    BY DEF Kept, Waits, Onward
<1>3. Waits' /\ ReportIsOfTheFile'
    BY <1>2, PageStays DEF Onward, pageVars, shownVars
<1>. QED BY <1>1, <1>3 DEF Kept

\* Actions of the page that leave the server alone.
LEMMA SameServer ==
    ASSUME ServerKept, UNCHANGED serverVars
    PROVE  ServerKept' /\ Imports' = Imports /\ Present' = Present /\ requests' = requests
<1>1. Imports' = Imports /\ Present' = Present
    BY DEF serverVars, Imports, Present
<1>2. ServerTypeOK'
    BY DEF ServerKept, ServerTypeOK, serverVars
<1>3. ImportsOK' /\ NoFileLeaks'
    BY <1>1 DEF ServerKept, ImportsOK, NoFileLeaks, serverVars
<1>. QED BY <1>1, <1>2, <1>3 DEF ServerKept, serverVars

LEMMA AcceptKeeps ==
    ASSUME Kept, NEW f \in FileNames, accept(f)
    PROVE  Kept'
<1>1. ServerKept' /\ Imports' = Imports /\ requests' = requests
    BY SameServer DEF accept, Kept
<1>2. PageTypeOK'
  <2>1. picks' \in 0..MaxPicks
      BY UploadPageAssumption DEF accept, Kept, PageTypeOK
  <2>2. parseError' \in BOOLEAN
      BY DEF accept, Kept, PageTypeOK
  <2>. QED BY <2>1, <2>2 DEF accept, serverVars, Kept, PageTypeOK
<1>3. result' = None /\ file = None /\ UNCHANGED <<uploading, raced>>
    BY DEF accept
<1>4. ReportIsOfTheFile'
    BY <1>3 DEF ReportIsOfTheFile
<1>5. Waits'
    BY <1>1, <1>3 DEF Kept, Waits
<1>. QED BY <1>1, <1>2, <1>4, <1>5 DEF Kept

LEMMA ParsedKeeps ==
    ASSUME Kept, NEW f \in FileNames, Parsed(f)
    PROVE  Kept'
<1>1. ServerKept' /\ Imports' = Imports /\ requests' = requests /\ Present' = Present
    BY SameServer DEF Parsed, Kept
<1>2. PageTypeOK'
    BY DEF Parsed, serverVars, bounds, Kept, PageTypeOK
<1>3. Waits' /\ ReportIsOfTheFile'
    BY <1>1, PageStays DEF Parsed, Kept, Waits
<1>. QED BY <1>1, <1>2, <1>3 DEF Kept

LEMMA ResetKeeps ==
    ASSUME Kept, reset
    PROVE  Kept'
<1>1. ServerKept' /\ Imports' = Imports /\ requests' = requests
    BY SameServer DEF reset, Kept
<1>2. raced' \in BOOLEAN
    BY DEF reset
<1>3. PageTypeOK'
    BY <1>2 DEF reset, Clear, serverVars, bounds, Kept, PageTypeOK
<1>4. Waits' /\ ReportIsOfTheFile'
    BY <1>1 DEF reset, Clear, Kept, Waits, ReportIsOfTheFile
<1>. QED BY <1>1, <1>3, <1>4 DEF Kept

LEMMA LeaveKeeps ==
    ASSUME Kept, Leave
    PROVE  Kept'
<1>1. ServerKept'
    BY SameServer DEF Leave, Kept
<1>2. PageTypeOK'
    BY DEF Leave, serverVars, bounds, Kept, PageTypeOK
<1>3. Waits' /\ ReportIsOfTheFile'
    BY DEF Leave, Waits, ReportIsOfTheFile
<1>. QED BY <1>1, <1>2, <1>3 DEF Kept

LEMMA ConfirmKeeps ==
    ASSUME Kept, NEW r \in Requests, Confirm(r)
    PROVE  Kept'
<1>1. file \in FileNames /\ file # None /\ result = None
    BY DEF Confirm, canConfirm, Previewing, Kept, PageTypeOK
<1>2. ServerKept' /\ r \in Imports' /\ requests'[r].file = file
    BY <1>1, ReceiveKeeps DEF Confirm, Kept
<1>3. PageTypeOK'
    BY DEF Confirm, Receive, shownVars, bounds, Kept, PageTypeOK
<1>4. Waits' /\ ReportIsOfTheFile'
    BY <1>1, <1>2 DEF Confirm, shownVars, Waits, ReportIsOfTheFile
<1>. QED BY <1>2, <1>3, <1>4 DEF Kept

\* The summary of an import that succeeded.
LEMMA Succeeded ==
    ASSUME ServerKept, NEW r \in Imports, requests[r].status = 201
    PROVE  /\ requests[r].totalRows = Len(Contents[requests[r].file].rows)
           /\ requests[r].totalRows = requests[r].inserted + requests[r].skipped + requests[r].failed
           /\ Mapped(requests[r].file) \subseteq Present
<1>0. PICK i \in Import : i = requests[r] /\ ImportOK(i, Present) /\ i.status = 201
  <2>1. requests[r] \in Import
      BY DEF ServerKept, ServerTypeOK, Imports, Single
  <2>. QED BY <2>1 DEF ServerKept, ImportsOK
<1>1. AtEnd(i) /\ Counts(i) /\ Covered(i, Present)
    BY <1>0 DEF ImportOK, Stage
<1>2. PICK n \in Nat, l \in Nat, a \in Nat, b \in Nat, c \in Nat :
         /\ n = i.next /\ l = Len(Rows(i)) /\ a = i.inserted /\ b = i.skipped /\ c = i.failed
  <2>1. i.next \in Nat /\ i.inserted \in Nat /\ i.skipped \in Nat /\ i.failed \in Nat
      BY Fields
  <2>2. Len(Rows(i)) \in Nat
      BY Fields, FileIs DEF Rows
  <2>. QED BY <2>1, <2>2
<1>3. n = l + 1 /\ i.totalRows = n - 1 /\ i.totalRows = a + b + c + 0
  <2>1. n = l + 1 /\ Len(i.batch) = 0
      BY <1>1, <1>2, NoBatch DEF AtEnd
  <2>. QED BY <1>1, <1>2, <2>1 DEF Counts
<1>4. i.totalRows = l /\ i.totalRows = a + b + c
    BY <1>3
<1>5. Mapped(i.file) \subseteq Present
  <2>. SUFFICES ASSUME NEW t \in Mapped(i.file) PROVE t \in Present
      OBVIOUS
  <2>1. i.file \in FileNames
      BY Fields
  <2>2. DOMAIN Rows(i) = 1..l
      BY <1>2, <2>1, FileIs DEF Rows
  <2>3. PICK m \in 1..l : Rows(i)[m] = t /\ t \in Ids
      BY <2>2 DEF Mapped, Rows
  <2>4. m \in 1..(i.next - 1)
      BY <1>2, <1>3
  <2>5. Rows(i)[m] \in Present \union Range(i.batch)
      BY <1>1, <2>3, <2>4 DEF Covered
  <2>. QED BY <1>1, <2>3, <2>5, NoBatch DEF AtEnd
<1>. QED BY <1>0, <1>2, <1>4, <1>5 DEF Rows

LEMMA ReceiveAnswerKeeps ==
    ASSUME Kept, ReceiveAnswer
    PROVE  Kept'
<1>1. uploading \in Requests /\ uploading \in Imports
    BY DEF ReceiveAnswer, Kept, Waits, PageTypeOK
<1>2. ServerKept'
    BY SameServer DEF ReceiveAnswer, Kept
<1>3. PageTypeOK'
    BY DEF ReceiveAnswer, serverVars, bounds, Kept, PageTypeOK
<1>4. Waits'
    BY DEF ReceiveAnswer, Waits
<1>5. Present' = Present
    BY DEF ReceiveAnswer, serverVars, Present
<1>6. CASE requests[uploading].status = 201
  <2>1. result' = [file |-> requests[uploading].file,
                   totalRows |-> requests[uploading].totalRows,
                   inserted |-> requests[uploading].inserted,
                   skipped |-> requests[uploading].skipped,
                   failed |-> requests[uploading].failed]
      BY <1>6 DEF ReceiveAnswer
  <2>2. /\ result'.file = requests[uploading].file
        /\ result'.totalRows = requests[uploading].totalRows
        /\ result'.inserted = requests[uploading].inserted
        /\ result'.skipped = requests[uploading].skipped
        /\ result'.failed = requests[uploading].failed
      BY <2>1
  <2>3. raced' = raced /\ file' = file /\ (~raced => requests[uploading].file = file)
      BY <1>1 DEF ReceiveAnswer, Kept, Waits
  <2>4. ReportIsOfTheFile'
      BY <1>1, <1>5, <1>6, <2>2, <2>3, Succeeded DEF Kept, ReportIsOfTheFile
  <2>. QED BY <1>2, <1>3, <1>4, <2>4 DEF Kept
<1>7. CASE requests[uploading].status # 201
  <2>1. result' = result /\ raced' = raced /\ file' = file
      BY <1>7 DEF ReceiveAnswer
  <2>2. ReportIsOfTheFile'
      BY <1>5, <2>1 DEF Kept, ReportIsOfTheFile
  <2>. QED BY <1>2, <1>3, <1>4, <2>2 DEF Kept
<1>. QED BY <1>6, <1>7

LEMMA AnswerLostKeeps ==
    ASSUME Kept, AnswerLost
    PROVE  Kept'
<1>1. ServerKept' /\ Present' = Present
    BY SameServer DEF AnswerLost, Kept
<1>2. PageTypeOK'
    BY DEF AnswerLost, serverVars, shownVars, bounds, Kept, PageTypeOK
<1>3. Waits' /\ ReportIsOfTheFile'
    BY <1>1, PageStays DEF AnswerLost, shownVars
<1>. QED BY <1>1, <1>2, <1>3 DEF Kept

LEMMA OtherRequestKeeps ==
    ASSUME Kept, NEW r \in Requests, OtherRequest(r)
    PROVE  Kept'
<1>1. ServerKept' /\ Onward /\ UNCHANGED happens
  <2>1. CASE \E f \in FileNames : Receive(r, f)
      BY <2>1, ReceiveKeeps DEF Kept, Receive
  <2>2. CASE \E kind \in {"create", "delete"}, t \in Ids : Ask(r, kind, t)
      BY <2>2, AskKeeps DEF Kept, Ask
  <2>. QED BY <2>1, <2>2 DEF OtherRequest
<1>2. PageTypeOK'
    BY <1>1, UploadPageAssumption DEF OtherRequest, shownVars, Kept, PageTypeOK
<1>3. uploading # None => /\ uploading \in Imports'
                         /\ requests'[uploading].file = requests[uploading].file
    BY <1>1 DEF Kept, Waits, Onward
<1>4. Waits' /\ ReportIsOfTheFile'
    BY <1>1, <1>3, PageStays DEF OtherRequest, Onward, shownVars
<1>. QED BY <1>1, <1>2, <1>4 DEF Kept

LEMMA OverKeeps ==
    ASSUME Kept, NEW r \in Requests, Over(r)
    PROVE  Kept'
<1>1. ServerKept' /\ Present' = Present
    BY FreeKeeps DEF Over, Kept, Present
<1>2. PageTypeOK'
    BY DEF Over, pageVars, shownVars, bounds, Kept, PageTypeOK
<1>3. uploading # None => /\ uploading \in Imports'
                         /\ requests'[uploading].file = requests[uploading].file
    BY DEF Over, At, Kept, Waits, Imports, ServerKept, ServerTypeOK
<1>4. Waits' /\ ReportIsOfTheFile'
    BY <1>1, <1>3, PageStays DEF Over, pageVars, shownVars
<1>. QED BY <1>1, <1>2, <1>4 DEF Kept

LEMMA CrashKeeps ==
    ASSUME Kept, Crash
    PROVE  Kept'
<1>1. ServerKept' /\ Present' = Present
    BY DiesKeeps DEF Crash, Kept, Dies, Present
<1>2. PageTypeOK'
    BY DEF Crash, Dies, shownVars, bounds, Kept, PageTypeOK
<1>3. Waits' /\ ReportIsOfTheFile'
    BY <1>1, PageStays DEF Crash, shownVars
<1>. QED BY <1>1, <1>2, <1>3 DEF Kept

LEMMA ServedKeeps ==
    ASSUME Kept, Serve, UNCHANGED pageVars
    PROVE  Kept'
<1>1. ServerKept' /\ Onward
    BY ServeKeeps DEF Kept
<1>2. UNCHANGED happens
    BY DEF Serve, ReadRow, ReadEnd, flush, cleanupUpload, Check, Write
<1>. QED BY <1>1, <1>2, ServedPage

-----------------------------------------------------------------------------
(* Theorems.                                                               *)

LEMMA KeptHolds == Spec => []Kept
<1>1. Init => Kept
  <2>. SUFFICES ASSUME Init PROVE Kept
      OBVIOUS
  <2>1. Imports = {} /\ temp = {}
      BY DEF Init, ServerInit, Imports
  <2>2. ServerKept
      BY <2>1 DEF Init, ServerInit, ServerKept, ServerTypeOK, ImportsOK, NoFileLeaks
  <2>3. PageTypeOK
    <3>1. 0 \in 0..MaxPicks /\ 0 \in 0..MaxOthers
        BY UploadPageAssumption
    <3>. QED BY <3>1 DEF Init, PageTypeOK
  <2>. QED BY <2>2, <2>3 DEF Init, Kept, Waits, ReportIsOfTheFile
<1>2. Kept /\ [Next]_vars => Kept'
  <2>. SUFFICES ASSUME Kept, [Next]_vars PROVE Kept'
      OBVIOUS
  <2>1. CASE Page
      BY <2>1, AcceptKeeps, ParsedKeeps, ResetKeeps, LeaveKeeps, ReceiveAnswerKeeps,
         AnswerLostKeeps, ConfirmKeeps DEF Page
  <2>2. CASE Serve /\ UNCHANGED pageVars
      BY <2>2, ServedKeeps
  <2>3. CASE \E r \in Requests : OtherRequest(r) \/ Over(r)
      BY <2>3, OtherRequestKeeps, OverKeeps
  <2>4. CASE Crash
      BY <2>4, CrashKeeps
  <2>5. CASE UNCHANGED vars
    <3>1. ServerKept' /\ Present' = Present /\ Imports' = Imports /\ requests' = requests
        BY <2>5, SameServer DEF vars, Kept
    <3>2. PageTypeOK'
        BY <2>5 DEF vars, serverVars, pageVars, shownVars, bounds, Kept, PageTypeOK
    <3>3. Waits' /\ ReportIsOfTheFile'
        BY <2>5, <3>1, PageStays DEF vars, pageVars, shownVars, Kept, Waits
    <3>. QED BY <3>1, <3>2, <3>3 DEF Kept
  <2>. QED BY <2>1, <2>2, <2>3, <2>4, <2>5 DEF Next
<1>. QED BY <1>1, <1>2, PTL DEF Spec

\* Imports, single requests and the page have their types; a batch is never
\* more than full, whatever the size of a batch.
THEOREM TypeCorrect == Spec => []TypeOK
<1>1. Kept => TypeOK
    BY DEF Kept, ServerKept, PageTypeOK, TypeOK
<1>. QED BY <1>1, KeptHolds, PTL

\* paysim.mapper.js and transactions.service.js: an import that succeeds
\* accounts for every row of its file exactly once and leaves every row that
\* names a transaction in the table, for any file, any number of imports and
\* single requests beside it, and any failed or dead import before it.
THEOREM ImportsAreComplete == Spec => []SuccessIsComplete
<1>1. Kept => SuccessIsComplete
    BY Succeeded DEF Kept, SuccessIsComplete
<1>. QED BY <1>1, KeptHolds, PTL

\* transactions.controller.js upload: as long as the process lives, a file in
\* UPLOAD_DIR belongs to an import whose unlink is still to come, or to one whose
\* unlink was tried and failed, whatever the parser, the mapper and the database
\* threw and whether or not anybody heard the answer.
THEOREM UploadsAreRemoved == Spec => []NoFileLeaks
<1>1. Kept => NoFileLeaks
    BY DEF Kept, ServerKept
<1>. QED BY <1>1, KeptHolds, PTL

\* Upload.jsx: unless the user changes the file under a read or an upload, the
\* report shown is of the selected file, adds up to its rows, and every row it
\* calls inserted or skipped is in the table.
THEOREM ReportTellsTheFile == Spec => []ReportIsOfTheFile
<1>1. Kept => ReportIsOfTheFile
    BY DEF Kept
<1>. QED BY <1>1, KeptHolds, PTL

=============================================================================
