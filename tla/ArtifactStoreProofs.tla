------------------------ MODULE ArtifactStoreProofs ------------------------
(***************************************************************************)
(* Proofs about ArtifactStore, for any store keys, contents and writers.   *)
(***************************************************************************)
EXTENDS ArtifactStore, FiniteSetTheorems, TLAPS

WriterState == {Idle} \cup Places \X Keys \X Blobs
RowType == [blob: Blobs \cup {NoBlob}, pinned: BOOLEAN, old: BOOLEAN]

\* Between its statements collect_garbage keeps no more than it needs: the
\* current artifact while it dereferences, doomed ones until the commit.
GcShape ==
    /\ gpc \notin {"count", "unlink"} => cur = {}
    /\ \A k, j \in cur : k = j
    /\ gpc \in {"idle", "scan", "sweep"} => DOMAIN due = {} /\ taken = {}

\* The statement, key and blob of a writer that is not idle.
LEMMA BusyWriter ==
    ASSUME TypeOK, NEW w \in Writers, At(w) # "idle"
    PROVE  /\ At(w) \in Places /\ Key(w) \in Keys /\ Blob(w) \in Blobs
           /\ writer[w] = <<At(w), Key(w), Blob(w)>>
<1>1. writer[w] \in WriterState
    BY DEF TypeOK, WriterState
<1>2. writer[w] # Idle
    BY DEF At, Idle
<1> QED
    BY <1>1, <1>2 DEF WriterState, At, Key, Blob

\* A statement of ingest_blob leaves the writers' type.
LEMMA WriterMoves ==
    ASSUME TypeOK, NEW w \in Writers, At(w) # "idle",
           Leave(w) \/ \E p \in Places : Goto(w, p)
    PROVE  writer' \in [Writers -> WriterState]
<1>1. writer \in [Writers -> WriterState]
    BY DEF TypeOK, WriterState
<1>2. CASE Leave(w)
    BY <1>1, <1>2 DEF Leave, WriterState
<1>3. CASE \E p \in Places : Goto(w, p)
    <2> PICK p \in Places : Goto(w, p)
        BY <1>3
    <2>1. <<p, Key(w), Blob(w)>> \in WriterState
        BY BusyWriter DEF WriterState
    <2> QED
        BY <1>1, <2>1 DEF Goto
<1> QED
    BY <1>2, <1>3

\* Unlinking a blob file keeps the types of files and writers.
LEMMA UnlinkTypes ==
    ASSUME TypeOK, NEW b \in Blobs, UnlinkBlob(b)
    PROVE  /\ disk' \in [Blobs -> {"none", "torn", "whole"}]
           /\ writer' \in [Writers -> WriterState]
<1>1. disk' \in [Blobs -> {"none", "torn", "whole"}]
    BY DEF TypeOK, UnlinkBlob
<1>2. ASSUME NEW w \in Writers PROVE writer'[w] \in WriterState
    <2>1. CASE Writing(w, b)
        <3>1. At(w) # "idle"
            BY <2>1 DEF Writing
        <3>2. Key(w) \in Keys
            BY <3>1, BusyWriter
        <3>3. writer'[w] = <<"writeLost", Key(w), b>>
            BY <2>1 DEF UnlinkBlob
        <3> QED
            BY <3>2, <3>3 DEF WriterState, Places
    <2>2. CASE ~Writing(w, b)
        BY <2>2 DEF UnlinkBlob, TypeOK, WriterState
    <2> QED
        BY <2>1, <2>2
<1>3. writer' = [w \in Writers |-> writer'[w]]
    BY DEF UnlinkBlob
<1> QED
    BY <1>1, <1>2, <1>3

\* The store starts empty, which is of its type.
LEMMA TypeInit == Init => TypeOK
    BY DEF Init, TypeOK, Idle, NoneDue, Absent

\* So does ingest_blob, whatever it meets.
LEMMA IngestTypes ==
    ASSUME TypeOK, NEW w \in Writers, IngestStep(w) \/ IngestFails(w)
    PROVE  TypeOK'
<1>1. CASE OpenBlob(w)
    BY <1>1, WriterMoves, BusyWriter DEF OpenBlob, TypeOK, WriterState, Places, gcVars
<1>2. CASE WriteBlob(w)
    BY <1>2, WriterMoves, BusyWriter DEF WriteBlob, TypeOK, WriterState, Places, gcVars
<1>3. CASE WriteNowhere(w)
    BY <1>3, WriterMoves DEF WriteNowhere, TypeOK, WriterState, Places, gcVars
<1>4. CASE RefExists(w)
    BY <1>4, WriterMoves DEF RefExists, TypeOK, WriterState, Places, gcVars
<1>5. CASE RefUnlink(w)
    BY <1>5, WriterMoves DEF RefUnlink, TypeOK, WriterState, Places, gcVars
<1>6. CASE RefLink(w)
    BY <1>6, WriterMoves, BusyWriter DEF RefLink, TypeOK, WriterState, Places, gcVars
<1>7. CASE SelectRow(w)
    BY <1>7, WriterMoves DEF SelectRow, TypeOK, WriterState, Places, gcVars
<1>8. CASE UpdateRow(w)
    BY <1>8, WriterMoves, BusyWriter DEF UpdateRow, TypeOK, WriterState, gcVars
<1>9. CASE InsertRow(w)
    BY <1>9, WriterMoves, BusyWriter DEF InsertRow, TypeOK, WriterState, gcVars, Absent
<1>10. CASE IngestFails(w)
    BY <1>10, WriterMoves DEF IngestFails, TypeOK, WriterState, gcVars
<1> QED
    BY <1>1, <1>2, <1>3, <1>4, <1>5, <1>6, <1>7, <1>8, <1>9, <1>10 DEF IngestStep

\* Flags of a row are Boolean, before and after.
LEMMA RowFlags ==
    ASSUME NEW r \in RowType, NEW value \in BOOLEAN
    PROVE  [r EXCEPT !.pinned = value] \in RowType /\ [r EXCEPT !.old = value] \in RowType
<1>1. [r EXCEPT !.pinned = value] = [blob |-> r.blob, pinned |-> value, old |-> r.old]
    BY DEF RowType
<1>2. [r EXCEPT !.old = value] = [blob |-> r.blob, pinned |-> r.pinned, old |-> value]
    BY DEF RowType
<1>3. r.blob \in Blobs \cup {NoBlob} /\ r.pinned \in BOOLEAN /\ r.old \in BOOLEAN
    BY DEF RowType
<1> QED
    BY <1>1, <1>2, <1>3, Zenon DEF RowType

\* So does starting an ingest, and so do ageing and pinning.
LEMMA OutsideTypes ==
    ASSUME TypeOK
    PROVE  /\ \A w \in Writers, k \in Keys, b \in Blobs : IngestBegin(w, k, b) => TypeOK'
           /\ \A k \in Keys : Age(k) => TypeOK'
           /\ \A k \in Keys, value \in BOOLEAN : SetPinned(k, value) => TypeOK'
<1>1. ASSUME NEW w \in Writers, NEW k \in Keys, NEW b \in Blobs, IngestBegin(w, k, b)
      PROVE  TypeOK'
    BY <1>1 DEF IngestBegin, TypeOK, Places, gcVars
<1>2. row \in [Keys -> RowType]
    BY DEF TypeOK, RowType
<1>3. ASSUME NEW k \in Keys, Age(k) PROVE TypeOK'
    <2>1. row' = [row EXCEPT ![k] = [row[k] EXCEPT !.old = TRUE]]
        BY <1>3 DEF Age
    <2>2. row' \in [Keys -> RowType]
        BY <1>2, <2>1, RowFlags
    <2> QED
        BY <1>3, <2>2 DEF Age, TypeOK, RowType, gcVars
<1>4. ASSUME NEW k \in Keys, NEW value \in BOOLEAN, SetPinned(k, value) PROVE TypeOK'
    <2>1. row' = [row EXCEPT ![k] = [row[k] EXCEPT !.pinned = value]]
        BY <1>4 DEF SetPinned
    <2>2. row' \in [Keys -> RowType]
        BY <1>2, <2>1, RowFlags
    <2> QED
        BY <1>4, <2>2 DEF SetPinned, TypeOK, RowType, gcVars
<1> QED
    BY <1>1, <1>3, <1>4

\* Marking artifacts deleted takes them from those still due.
LEMMA MarkTypes ==
    ASSUME TypeOK, MarkDeleted
    PROVE  /\ taken' \subseteq Keys /\ cur' \subseteq DOMAIN due'
           /\ DOMAIN due' \subseteq Keys /\ \A k \in DOMAIN due' : due'[k] \in Blobs
<1>1. DOMAIN due' = DOMAIN due \ cur /\ \A k \in DOMAIN due' : due'[k] = due[k]
    BY DEF MarkDeleted
<1> QED
    BY <1>1 DEF MarkDeleted, TypeOK

\* So does collect_garbage.
LEMMA GcTypes ==
    ASSUME TypeOK, GcShape, GcStep \/ GcDies
    PROVE  TypeOK'
<1>1. CASE GcSelect
    <2>1. PICK evicted \in SUBSET {k \in Keys : Hot(k)} :
              due' = [k \in {k \in Keys : Expired(k)} \cup evicted |-> row[k].blob]
        BY <1>1 DEF GcSelect
    <2>2. DOMAIN due' \subseteq Keys
        BY <2>1
    <2>3. \A k \in DOMAIN due' : k \in Keys /\ Stored(k) /\ due'[k] = row[k].blob
        BY <2>1 DEF Expired, Hot
    <2>4. \A k \in DOMAIN due' : due'[k] \in Blobs
        BY <2>3 DEF TypeOK, Stored
    <2> QED
        BY <1>1, <2>2, <2>4 DEF GcSelect, TypeOK, GcShape
<1>2. ASSUME NEW k \in Keys, GcRef(k) PROVE TypeOK'
    BY <1>2 DEF GcRef, TypeOK
<1>3. CASE GcCount
    BY <1>3, MarkTypes DEF GcCount, TypeOK
<1>4. CASE GcUnlink
    <2>1. PICK k \in cur : UnlinkBlob(due[k])
        BY <1>4 DEF GcUnlink
    <2>2. due[k] \in Blobs
        BY DEF TypeOK
    <2>3. /\ disk' \in [Blobs -> {"none", "torn", "whole"}]
          /\ writer' \in [Writers -> WriterState]
        BY <2>1, <2>2, UnlinkTypes
    <2> QED
        BY <1>4, <2>3, MarkTypes DEF GcUnlink, TypeOK, WriterState
<1>5. CASE GcCommit
    BY <1>5 DEF GcCommit, TypeOK, Absent
<1>6. CASE GcRejected
    BY <1>6 DEF GcRejected, TypeOK
<1>7. CASE GcScan
    BY <1>7 DEF GcScan, TypeOK, Stored
<1>8. ASSUME NEW b \in Blobs, GcSweep(b) PROVE TypeOK'
    <2>1. /\ disk' \in [Blobs -> {"none", "torn", "whole"}]
          /\ writer' \in [Writers -> WriterState]
        <3>1. CASE b \in keep
            BY <1>8, <3>1 DEF GcSweep, TypeOK, WriterState
        <3>2. CASE b \notin keep
            BY <1>8, <3>2, UnlinkTypes DEF GcSweep
        <3> QED
            BY <3>1, <3>2
    <2> QED
        BY <1>8, <2>1 DEF GcSweep, TypeOK, WriterState
<1>9. CASE GcEnd
    BY <1>9 DEF GcEnd, TypeOK
<1>10. CASE GcDies
    BY <1>10 DEF GcDies, TypeOK, NoneDue
<1> QED
    BY <1>1, <1>2, <1>3, <1>4, <1>5, <1>6, <1>7, <1>8, <1>9, <1>10 DEF GcStep

\* The shape of collect_garbage's state is kept by all.
LEMMA ShapeStep ==
    ASSUME GcShape, [Next]_vars
    PROVE  GcShape'
<1>1. CASE UNCHANGED gcVars
    BY <1>1 DEF GcShape, gcVars
<1>2. CASE GcStep \/ GcDies
    <2>1. CASE MarkDeleted
        BY <2>1, <1>2 DEF GcShape, MarkDeleted, GcStep, GcDies, GcSelect, GcRef, GcCount,
                          GcUnlink, GcCommit, GcRejected, GcScan, GcSweep, GcEnd, NoneDue
    <2>2. CASE ~MarkDeleted
        BY <2>2, <1>2 DEF GcShape, GcStep, GcDies, GcSelect, GcRef, GcCount,
                          GcUnlink, GcCommit, GcRejected, GcScan, GcSweep, GcEnd, NoneDue
    <2> QED
        BY <2>1, <2>2
<1>3. Next /\ ~(GcStep \/ GcDies) => UNCHANGED gcVars
    BY DEF Next, IngestStep, IngestFails, IngestBegin, Age, SetPinned, OpenBlob,
           WriteBlob, WriteNowhere, RefExists, RefUnlink, RefLink, SelectRow,
           UpdateRow, InsertRow
<1> QED
    BY <1>1, <1>2, <1>3 DEF vars

\* The two together are inductive.
LEMMA StoreShape == Spec => [](TypeOK /\ GcShape)
<1>1. Init => TypeOK /\ GcShape
    BY TypeInit DEF Init, GcShape, NoneDue
<1>2. TypeOK /\ GcShape /\ [Next]_vars => TypeOK' /\ GcShape'
    <2> SUFFICES ASSUME TypeOK, GcShape, [Next]_vars PROVE TypeOK'
        BY ShapeStep
    <2>1. CASE UNCHANGED vars
        BY <2>1 DEF TypeOK, vars, gcVars
    <2>2. CASE Next
        BY <2>2, IngestTypes, OutsideTypes, GcTypes DEF Next
    <2> QED
        BY <2>1, <2>2
<1> QED
    BY <1>1, <1>2, PTL DEF Spec

\* Type correctness of the store.
THEOREM StoreTypes == Spec => []TypeOK
    BY StoreShape, PTL

(***************************************************************************)
(* Whole blobs: a torn file is being written, or its writer was            *)
(* interrupted.  No order of ingests and collections is excluded.          *)
(***************************************************************************)
TornExplained ==
    \A b \in Blobs : disk[b] = "torn" =>
        "ingest" \in broken \/ \E w \in Writers : Writing(w, b)

\* Writers other than w keep writing while w moves on.
LEMMA OthersWrite ==
    ASSUME TypeOK, TornExplained, NEW w \in Writers, At(w) # "write",
           Leave(w) \/ \E p \in Places : Goto(w, p),
           disk' = disk, broken \subseteq broken'
    PROVE  TornExplained'
<1> SUFFICES ASSUME NEW b \in Blobs, disk[b] = "torn", "ingest" \notin broken'
             PROVE  \E v \in Writers : Writing(v, b)'
    BY DEF TornExplained
<1>1. PICK v \in Writers : Writing(v, b)
    BY DEF TornExplained
<1>2. v # w
    BY <1>1 DEF Writing
<1>3. writer'[v] = writer[v]
    BY <1>2 DEF Leave, Goto, TypeOK
<1> QED
    BY <1>1, <1>3 DEF Writing, At, Blob

\* Unlinking takes the name from the file and its writers along.
LEMMA UnlinkExplained ==
    ASSUME TypeOK, TornExplained, NEW c \in Blobs, UnlinkBlob(c), broken' = broken
    PROVE  TornExplained'
<1> SUFFICES ASSUME NEW b \in Blobs, disk'[b] = "torn", "ingest" \notin broken
             PROVE  \E v \in Writers : Writing(v, b)'
    BY DEF TornExplained
<1>1. b # c /\ disk[b] = "torn"
    BY DEF UnlinkBlob, TypeOK
<1>2. PICK v \in Writers : Writing(v, b)
    BY <1>1 DEF TornExplained
<1>3. writer'[v] = writer[v]
    BY <1>1, <1>2 DEF UnlinkBlob, Writing
<1> QED
    BY <1>2, <1>3 DEF Writing, At, Blob

\* Every step explains the torn files it leaves.
LEMMA TornStep ==
    ASSUME TypeOK, TornExplained, [Next]_vars
    PROVE  TornExplained'
<1>1. CASE UNCHANGED <<disk, writer, broken>>
    BY <1>1 DEF TornExplained, Writing, At, Blob
<1>2. ASSUME NEW w \in Writers, NEW k \in Keys, NEW b \in Blobs, IngestBegin(w, k, b)
      PROVE  TornExplained'
    <2>1. \A v \in Writers : v # w => writer'[v] = writer[v]
        BY <1>2 DEF IngestBegin, TypeOK
    <2>2. \A v \in Writers, c \in Blobs : Writing(v, c) => Writing(v, c)'
        BY <1>2, <2>1 DEF IngestBegin, Writing, At, Blob
    <2> QED
        BY <1>2, <2>2 DEF IngestBegin, TornExplained
<1>3. ASSUME NEW w \in Writers, OpenBlob(w) PROVE TornExplained'
    <2>1. At(w) # "idle" /\ w \in Writers
        BY <1>3 DEF OpenBlob
    <2>2. Blob(w) \in Blobs
        BY <2>1, BusyWriter
    <2>3. \A v \in Writers : v # w => writer'[v] = writer[v]
        BY <1>3 DEF OpenBlob, Goto, TypeOK
    <2>4. \A c \in Blobs : c = Blob(w) => Writing(w, c)'
        BY <1>3 DEF OpenBlob, Goto, Writing, At, Blob, TypeOK
    <2>5. \A v \in Writers, c \in Blobs : Writing(v, c) => Writing(v, c)'
        BY <1>3, <2>3 DEF OpenBlob, Writing, At, Blob
    <2>6. \A c \in Blobs : disk'[c] = "torn" => c = Blob(w) \/ disk[c] = "torn"
        BY <1>3, <2>2 DEF OpenBlob, TypeOK
    <2>7. ASSUME NEW c \in Blobs, disk'[c] = "torn", "ingest" \notin broken
          PROVE  \E v \in Writers : Writing(v, c)'
        <3>1. CASE c = Blob(w)
            BY <2>4, <3>1
        <3>2. CASE c # Blob(w)
            BY <2>5, <2>6, <2>7, <3>2 DEF TornExplained
        <3> QED
            BY <3>1, <3>2
    <2> QED
        BY <1>3, <2>7 DEF OpenBlob, TornExplained
<1>4. ASSUME NEW w \in Writers, WriteBlob(w) PROVE TornExplained'
    <2>1. At(w) # "idle" /\ w \in Writers
        BY <1>4 DEF WriteBlob
    <2>2. Blob(w) \in Blobs
        BY <2>1, BusyWriter
    <2>3. PICK state \in {"torn", "whole"} :
              /\ state = "torn" => \E v \in Writers \ {w} : Writing(v, Blob(w))
              /\ disk' = [disk EXCEPT ![Blob(w)] = state]
        BY <1>4 DEF WriteBlob
    <2>4. \A v \in Writers \ {w}, c \in Blobs : Writing(v, c) => Writing(v, c)'
        BY <1>4 DEF WriteBlob, Goto, TypeOK, Writing, At, Blob
    <2>5. \A c \in Blobs : c # Blob(w) => disk'[c] = disk[c] /\ ~Writing(w, c)
        BY <2>2, <2>3 DEF TypeOK, Writing
    <2>6. disk'[Blob(w)] = state
        BY <2>2, <2>3 DEF TypeOK
    <2>7. ASSUME NEW c \in Blobs, disk'[c] = "torn", "ingest" \notin broken
          PROVE  \E v \in Writers : Writing(v, c)'
        <3>1. CASE c = Blob(w)
            BY <2>3, <2>4, <2>6, <2>7, <3>1
        <3>2. CASE c # Blob(w)
            BY <2>4, <2>5, <2>7, <3>2 DEF TornExplained
        <3> QED
            BY <3>1, <3>2
    <2> QED
        BY <1>4, <2>7 DEF WriteBlob, TornExplained
<1>5. ASSUME NEW w \in Writers,
             \/ WriteNowhere(w) \/ RefExists(w) \/ RefUnlink(w) \/ RefLink(w)
             \/ SelectRow(w) \/ UpdateRow(w) \/ InsertRow(w)
      PROVE  TornExplained'
    <2>1. At(w) # "write"
        BY <1>5 DEF WriteNowhere, RefExists, RefUnlink, RefLink, SelectRow, UpdateRow, InsertRow
    <2>2. Leave(w) \/ \E p \in Places : Goto(w, p)
        BY <1>5 DEF WriteNowhere, RefExists, RefUnlink, RefLink, SelectRow, UpdateRow,
                    InsertRow, Places
    <2>3. disk' = disk /\ broken' = broken
        BY <1>5 DEF WriteNowhere, RefExists, RefUnlink, RefLink, SelectRow, UpdateRow, InsertRow
    <2> QED
        BY <2>1, <2>2, <2>3, OthersWrite
<1>6. ASSUME NEW w \in Writers, IngestFails(w) PROVE TornExplained'
    BY <1>6 DEF IngestFails, TornExplained
<1>7. CASE GcUnlink
    <2>1. PICK k \in cur : UnlinkBlob(due[k])
        BY <1>7 DEF GcUnlink
    <2>2. due[k] \in Blobs /\ broken' = broken
        BY <1>7 DEF GcUnlink, TypeOK
    <2> QED
        BY <2>1, <2>2, UnlinkExplained
<1>8. ASSUME NEW b \in Blobs, GcSweep(b) PROVE TornExplained'
    <2>1. CASE b \in keep
        BY <1>1, <1>8, <2>1 DEF GcSweep
    <2>2. CASE b \notin keep
        BY <1>8, <2>2, UnlinkExplained DEF GcSweep
    <2> QED
        BY <2>1, <2>2
<1>9. CASE GcRejected \/ GcDies
    BY <1>9 DEF GcRejected, GcDies, TornExplained, Writing, At, Blob
<1>10. ASSUME \/ \E k \in Keys : GcRef(k) \/ Age(k) \/ \E value \in BOOLEAN : SetPinned(k, value)
              \/ GcSelect \/ GcCount \/ GcCommit \/ GcScan \/ GcEnd \/ UNCHANGED vars
       PROVE  TornExplained'
    BY <1>1, <1>10 DEF GcRef, Age, SetPinned, GcSelect, GcCount, GcCommit, GcScan, GcEnd, vars
<1> QED
    BY <1>2, <1>3, <1>4, <1>5, <1>6, <1>7, <1>8, <1>9, <1>10 DEF Next, IngestStep, GcStep

\* However ingests and collections overlap, an artifact only reads as corrupt
\* while its blob is written, or after an ingest was interrupted.
THEOREM BlobsWhole == Spec => []RowsWhole
<1>1. Init => TornExplained
    BY DEF Init, TornExplained
<1>2. TypeOK /\ TornExplained => RowsWhole
    BY DEF TypeOK, TornExplained, RowsWhole, Mismatch, Stored
<1> QED
    BY <1>1, <1>2, StoreTypes, TornStep, PTL DEF Spec

(***************************************************************************)
(* Rows that must stay.  gc deletes the rows it has taken, and takes what  *)
(* it found expired or evictable when it read the table.                   *)
(***************************************************************************)
\* Only the commit of collect_garbage deletes rows, and only those taken.
LEMMA RowsGone ==
    ASSUME TypeOK, [Next]_vars, NEW k \in Keys, Stored(k), ~Stored(k)'
    PROVE  GcCommit /\ k \in taken
<1>1. row \in [Keys -> RowType]
    BY DEF TypeOK, RowType
<1>2. ASSUME NEW w \in Writers, IngestStep(w) \/ IngestFails(w) PROVE FALSE
    <2>1. CASE UpdateRow(w)
        <3>1. Blob(w) \in Blobs
            BY <2>1, BusyWriter DEF UpdateRow
        <3> QED
            BY <1>1, <2>1, <3>1, StoreAssumption DEF UpdateRow, Stored, RowType
    <2>2. CASE InsertRow(w)
        <3>1. row'[k] = row[k] \/ (k = Key(w) /\ ~Stored(k))
            BY <1>1, <2>2 DEF InsertRow
        <3> QED
            BY <3>1 DEF Stored
    <2>3. CASE UNCHANGED row
        BY <2>3 DEF Stored
    <2> QED
        BY <1>2, <2>1, <2>2, <2>3 DEF IngestStep, IngestFails, OpenBlob, WriteBlob,
            WriteNowhere, RefExists, RefUnlink, RefLink, SelectRow
<1>3. ASSUME NEW j \in Keys, Age(j) \/ \E value \in BOOLEAN : SetPinned(j, value)
      PROVE  FALSE
    BY <1>1, <1>3 DEF Age, SetPinned, Stored, RowType
<1>4. CASE UNCHANGED row
    BY <1>4 DEF Stored
<1>5. CASE GcCommit
    BY <1>5 DEF GcCommit, Stored
<1> QED
    BY <1>2, <1>3, <1>4, <1>5 DEF Next, vars, GcStep, IngestBegin, GcSelect, GcRef, GcCount,
        GcUnlink, GcRejected, GcScan, GcSweep, GcEnd, GcDies

\* Artifacts are doomed when gc reads the table, never afterwards.
LEMMA NewlyDoomed ==
    ASSUME TypeOK, [Next]_vars, NEW k \in Doomed', k \notin Doomed
    PROVE  GcSelect /\ k \in Keys /\ (Expired(k) \/ Hot(k))
<1>1. CASE UNCHANGED gcVars
    BY <1>1 DEF gcVars, Doomed
<1>2. CASE GcSelect
    BY <1>2 DEF GcSelect, Doomed
<1>3. ASSUME NEW j \in Keys, GcRef(j) PROVE FALSE
    BY <1>3 DEF GcRef, Doomed
<1>4. CASE GcCount \/ GcUnlink
    <2>1. CASE MarkDeleted
        BY <2>1 DEF MarkDeleted, Doomed
    <2>2. CASE UNCHANGED <<due, taken, cur>>
        BY <2>2 DEF Doomed
    <2> QED
        BY <1>4, <2>1, <2>2 DEF GcCount, GcUnlink
<1>5. CASE GcCommit \/ GcRejected \/ GcDies
    BY <1>5 DEF GcCommit, GcRejected, GcDies, Doomed, NoneDue
<1>6. CASE GcScan \/ GcEnd \/ \E b \in Blobs : GcSweep(b)
    BY <1>6 DEF GcScan, GcEnd, GcSweep, Doomed
<1>7. Next => \/ UNCHANGED gcVars \/ GcStep \/ GcDies
    BY DEF Next, IngestStep, IngestFails, IngestBegin, Age, SetPinned, OpenBlob,
           WriteBlob, WriteNowhere, RefExists, RefUnlink, RefLink, SelectRow,
           UpdateRow, InsertRow
<1> QED
    BY <1>1, <1>2, <1>3, <1>4, <1>5, <1>6, <1>7 DEF GcStep, vars

\* gc never dooms an artifact of a protected class.
DoomedUnprotected == \A k \in Doomed : Class[k] # "protected"

\* Release, promoted and permanent artifacts keep their rows, whatever
\* ingests, pins and collections overlap.
THEOREM ProtectedStay == Spec => ProtectedKept
<1>1. Init => DoomedUnprotected
    BY DEF Init, DoomedUnprotected, Doomed, NoneDue
<1>2. TypeOK /\ DoomedUnprotected /\ [Next]_vars => DoomedUnprotected'
    BY NewlyDoomed DEF DoomedUnprotected, Expired, Hot
<1>3. TypeOK /\ DoomedUnprotected /\ [Next]_vars =>
        [\A k \in Keys : Stored(k) /\ Class[k] = "protected" => row'[k].blob # NoBlob]_vars
    BY RowsGone DEF DoomedUnprotected, Doomed, Stored
<1> QED
    BY <1>1, <1>2, <1>3, StoreTypes, PTL DEF Spec, ProtectedKept

\* An artifact gc is deleting and that is pinned was pinned too late.
DoomedUnpinned == \A k \in Doomed : k \in Keys /\ row[k].pinned => k \in late

\* What is late stays so until the collection is over.
LEMMA LateKept ==
    ASSUME TypeOK, GcShape, [Next]_vars, NEW k \in late, k \in Doomed, k \in Doomed'
    PROVE  k \in late'
<1>1. gpc # "idle" /\ gpc # "sweep"
    BY DEF GcShape, Doomed
<1>2. ~GcRejected /\ ~GcDies
    BY <1>1 DEF GcRejected, GcDies, GcShape, Doomed, NoneDue
<1>3. CASE \E j \in Keys, value \in BOOLEAN : SetPinned(j, value)
    BY <1>3 DEF SetPinned
<1>4. CASE UNCHANGED late
    BY <1>4
<1> QED
    BY <1>1, <1>2, <1>3, <1>4 DEF Next, vars, GcStep, IngestStep, IngestFails, IngestBegin,
        OpenBlob, WriteBlob, WriteNowhere, RefExists, RefUnlink, RefLink, SelectRow, UpdateRow,
        InsertRow, Age, GcSelect, GcRef, GcCount, GcUnlink, GcCommit, GcScan, GcSweep, GcEnd

\* Flags of a row only change by the pin command; a new row is not pinned.
LEMMA PinsKept ==
    ASSUME TypeOK, [Next]_vars, NEW k \in Keys, ~row[k].pinned, row'[k].pinned
    PROVE  \E value \in BOOLEAN : SetPinned(k, value)
<1>1. row \in [Keys -> RowType]
    BY DEF TypeOK, RowType
<1>2. ASSUME NEW w \in Writers, UpdateRow(w) \/ InsertRow(w) PROVE FALSE
    BY <1>1, <1>2 DEF UpdateRow, InsertRow, RowType, Absent
<1>3. ASSUME NEW j \in Keys, Age(j) PROVE FALSE
    BY <1>1, <1>3 DEF Age, RowType
<1>4. ASSUME NEW j \in Keys, NEW value \in BOOLEAN, SetPinned(j, value) PROVE j = k
    BY <1>1, <1>4 DEF SetPinned, RowType
<1>5. ~GcCommit
    BY <1>1 DEF GcCommit, Absent
<1>6. row' # row
    OBVIOUS
<1> QED
    BY <1>2, <1>3, <1>4, <1>5, <1>6 DEF Next, vars, GcStep, IngestStep, IngestFails, IngestBegin,
        OpenBlob, WriteBlob, WriteNowhere, RefExists, RefUnlink, RefLink, SelectRow,
        GcSelect, GcRef, GcCount, GcUnlink, GcRejected, GcScan, GcSweep, GcEnd, GcDies

\* An artifact that was pinned when the collection read the rows keeps its row,
\* whatever ingests, pins and unpins overlap with the collection.
THEOREM PinnedStay == Spec => PinnedKept
<1>1. Init => DoomedUnpinned
    BY DEF Init, DoomedUnpinned, Doomed, NoneDue
<1>2. TypeOK /\ GcShape /\ DoomedUnpinned /\ [Next]_vars => DoomedUnpinned'
    <2> SUFFICES ASSUME TypeOK, GcShape, DoomedUnpinned, [Next]_vars,
                        NEW k \in Doomed', k \in Keys, row'[k].pinned
                 PROVE  k \in late'
        BY DEF DoomedUnpinned
    <2>1. CASE k \in Doomed /\ row[k].pinned
        BY <2>1, LateKept DEF DoomedUnpinned
    <2>2. CASE k \in Doomed /\ ~row[k].pinned
        <3>1. PICK value \in BOOLEAN : SetPinned(k, value)
            BY <2>2, PinsKept
        <3>2. gpc # "idle"
            BY <2>2 DEF GcShape, Doomed
        <3>3. value
            BY <3>1 DEF SetPinned, TypeOK
        <3> QED
            BY <3>1, <3>2, <3>3 DEF SetPinned
    <2>3. CASE k \notin Doomed
        <3>1. GcSelect /\ ~row[k].pinned
            BY <2>3, NewlyDoomed DEF Expired, Hot
        <3> QED
            BY <3>1 DEF GcSelect
    <2> QED
        BY <2>1, <2>2, <2>3
<1>3. TypeOK /\ DoomedUnpinned /\ [Next]_vars =>
        [\A k \in Keys : Stored(k) /\ row[k].pinned /\ row'[k].blob = NoBlob => k \in late]_vars
    BY RowsGone DEF DoomedUnpinned, Doomed, Stored
<1> QED
    BY <1>1, <1>2, <1>3, StoreShape, PTL DEF Spec, PinnedKept

(***************************************************************************)
(* No row without its file, as long as gc has the store to itself and has  *)
(* never been interrupted.                                                 *)
(***************************************************************************)
Uploading == {"idle", "open"}

Present ==
    /\ \A k \in Keys \ Doomed : ~Missing(k)
    /\ \A w \in Writers : At(w) \notin Uploading =>
            At(w) # "writeLost" /\ disk[Blob(w)] # "none"

\* What collect_garbage remembers is still so: the rows it read, that the
\* blob it unlinks is the current artifact's alone, what is referenced.
GcCurrent ==
    /\ gpc # "idle" => \A w \in Writers : At(w) = "idle"
    /\ \A k \in DOMAIN due : row[k].blob = due[k]
    /\ gpc = "unlink" => \A k \in cur, j \in Keys : row[j].blob = due[k] => j = k
    /\ gpc = "sweep" => \A k \in Keys : Stored(k) => row[k].blob \in keep

PresentInv == GcCurrent /\ ("gc" \notin broken => Present)

\* One row at most refers to the blob gc has counted, the artifact's own.
LEMMA CountOne ==
    ASSUME TypeOK, NEW k \in Keys, NEW b \in Blobs, row[k].blob = b, LastReference(b)
    PROVE  \A j \in Keys : row[j].blob = b => j = k
<1> DEFINE S == {j \in Keys : row[j].blob = b}
<1>1. IsFiniteSet(S)
    BY StoreAssumption, FS_Subset
<1>2. Cardinality(S) <= 1 /\ Cardinality(S) \in Nat
    BY <1>1, FS_CardinalityType DEF LastReference, RefCount
<1>3. k \in S
    OBVIOUS
<1>4. Cardinality(S) # 0
    BY <1>1, <1>3, FS_EmptySet
<1>5. Cardinality(S) = 1
    BY <1>2, <1>4
<1>6. \E x : S = {x}
    BY <1>1, <1>5, FS_Singleton
<1> QED
    BY <1>3, <1>6

\* What a statement of ingest_blob does to files and rows: no file goes, and
\* the row it writes is of a blob that was there.
LEMMA IngestEffect ==
    ASSUME TypeOK, NEW w \in Writers, At(w) # "writeLost",
           \/ IngestStep(w) \/ IngestFails(w)
           \/ \E k \in Keys, b \in Blobs : IngestBegin(w, k, b)
    PROVE  /\ \A v \in Writers : v # w => writer'[v] = writer[v]
           /\ \A b \in Blobs : disk[b] # "none" => disk'[b] # "none"
           /\ \A k \in Keys : row'[k].blob # row[k].blob =>
                  At(w) \notin Uploading /\ row'[k].blob = Blob(w)
           /\ At(w)' \notin Uploading /\ disk'[Blob(w)'] = "none" =>
                  At(w)' # "writeLost" /\ At(w) \notin Uploading /\ Blob(w)' = Blob(w)
           /\ At(w)' # "writeLost"
<1>1. row \in [Keys -> RowType] /\ writer \in [Writers -> WriterState]
    BY DEF TypeOK, RowType, WriterState
<1>2. CASE \E k \in Keys, b \in Blobs : IngestBegin(w, k, b)
    <2> PICK k \in Keys, b \in Blobs : IngestBegin(w, k, b)
        BY <1>2
    <2> QED
        BY <1>1 DEF IngestBegin, At, Blob, Uploading
<1>3. CASE OpenBlob(w) \/ WriteBlob(w)
    <2>1. Blob(w) \in Blobs
        BY <1>3, BusyWriter DEF OpenBlob, WriteBlob
    <2>2. \E state \in {"torn", "whole"} : disk' = [disk EXCEPT ![Blob(w)] = state]
        BY <1>3 DEF OpenBlob, WriteBlob
    <2>3. \E p \in {"write", "ref"} : Goto(w, p)
        BY <1>3 DEF OpenBlob, WriteBlob
    <2>4. row' = row
        BY <1>3 DEF OpenBlob, WriteBlob
    <2>5. disk'[Blob(w)] # "none" /\ Blob(w)' = Blob(w) /\ At(w)' # "writeLost"
        BY <1>1, <2>1, <2>2, <2>3 DEF TypeOK, Goto, Blob, At
    <2>6. \A b \in Blobs : disk[b] # "none" => disk'[b] # "none"
        BY <2>1, <2>2 DEF TypeOK
    <2> QED
        BY <1>1, <2>3, <2>4, <2>5, <2>6 DEF Goto
<1>4. CASE RefExists(w) \/ RefUnlink(w) \/ RefLink(w) \/ SelectRow(w)
    <2>1. At(w) \notin Uploading /\ disk' = disk /\ row' = row
        BY <1>4 DEF RefExists, RefUnlink, RefLink, SelectRow, Uploading
    <2>2. Leave(w) \/ \E p \in Places \ {"writeLost"} : Goto(w, p)
        BY <1>4 DEF RefExists, RefUnlink, RefLink, SelectRow, Places
    <2>3. CASE Leave(w)
        BY <1>1, <2>1, <2>3 DEF Leave, At, Idle, Uploading
    <2>4. CASE \E p \in Places \ {"writeLost"} : Goto(w, p)
        BY <1>1, <2>1, <2>4 DEF Goto, At, Blob, Uploading
    <2> QED
        BY <2>2, <2>3, <2>4
<1>5. CASE UpdateRow(w) \/ InsertRow(w)
    <2>1. At(w) \notin Uploading /\ disk' = disk /\ Leave(w)
        BY <1>5 DEF UpdateRow, InsertRow, Uploading
    <2>2. \A k \in Keys : row'[k].blob \in {row[k].blob, Blob(w)}
        BY <1>1, <1>5 DEF UpdateRow, InsertRow, RowType, Absent
    <2> QED
        BY <1>1, <2>1, <2>2 DEF Leave, At, Idle, Uploading
<1>6. CASE IngestFails(w)
    BY <1>1, <1>6 DEF IngestFails, Leave, At, Idle, Uploading
<1>7. CASE WriteNowhere(w)
    BY <1>7 DEF WriteNowhere
<1> QED
    BY <1>2, <1>3, <1>4, <1>5, <1>6, <1>7 DEF IngestStep

\* Ingests only run while gc is idle.
LEMMA IngestPresent ==
    ASSUME Exclusive, TypeOK, GcShape, PresentInv, NEW w \in Writers,
           \/ IngestStep(w) \/ IngestFails(w)
           \/ \E k \in Keys, b \in Blobs : IngestBegin(w, k, b)
    PROVE  PresentInv'
<1>1. UNCHANGED gcVars /\ broken' \subseteq broken \cup {"ingest"} /\ broken \subseteq broken'
    BY DEF IngestStep, IngestFails, IngestBegin, OpenBlob, WriteBlob, WriteNowhere,
           RefExists, RefUnlink, RefLink, SelectRow, UpdateRow, InsertRow
<1>2. gpc = "idle"
    BY DEF PresentInv, GcCurrent, IngestStep, IngestFails, IngestBegin, OpenBlob, WriteBlob,
           WriteNowhere, RefExists, RefUnlink, RefLink, SelectRow, UpdateRow, InsertRow
<1>3. GcCurrent'
    BY <1>1, <1>2 DEF GcCurrent, GcShape, gcVars
<1>4. ASSUME "gc" \notin broken' PROVE Present'
    <2>1. Present /\ At(w) # "writeLost"
        BY <1>1, <1>4 DEF PresentInv, Present, Uploading
    <2>2. Doomed = {} /\ Doomed' = {}
        BY <1>1, <1>2 DEF GcShape, Doomed, gcVars
    <2>3. At(w) \notin Uploading => Blob(w) \in Blobs /\ disk[Blob(w)] # "none"
        BY <2>1, BusyWriter DEF Present, Uploading
    <2>4. ASSUME NEW k \in Keys, Stored(k)' PROVE disk'[row'[k].blob] # "none"
        <3>1. CASE row'[k].blob = row[k].blob
            <4>1. Stored(k) /\ row[k].blob \in Blobs
                BY <2>4, <3>1 DEF Stored, TypeOK
            <4> QED
                BY <2>1, <2>2, <3>1, <4>1, IngestEffect DEF Present, Missing
        <3>2. CASE row'[k].blob # row[k].blob
            BY <2>1, <2>3, <3>2, IngestEffect
        <3> QED
            BY <3>1, <3>2
    <2>5. ASSUME NEW v \in Writers, At(v)' \notin Uploading
          PROVE  At(v)' # "writeLost" /\ disk'[Blob(v)'] # "none"
        <3>1. CASE v = w
            BY <2>1, <2>3, <2>5, <3>1, IngestEffect
        <3>2. CASE v # w
            <4>1. At(v)' = At(v) /\ Blob(v)' = Blob(v)
                BY <2>1, <3>2, IngestEffect DEF At, Blob
            <4>2. At(v) # "writeLost" /\ Blob(v) \in Blobs /\ disk[Blob(v)] # "none"
                BY <2>1, <2>5, <4>1, BusyWriter DEF Present, Uploading
            <4> QED
                BY <2>1, <4>1, <4>2, IngestEffect
        <3> QED
            BY <3>1, <3>2
    <2> QED
        BY <2>4, <2>5 DEF Present, Missing
<1> QED
    BY <1>3, <1>4 DEF PresentInv

\* Ageing and pinning leave blobs, files and writers alone.
LEMMA FlagsPresent ==
    ASSUME TypeOK, PresentInv, NEW k \in Keys, NEW value \in BOOLEAN,
           Age(k) \/ SetPinned(k, value)
    PROVE  PresentInv'
<1>1. \A j \in Keys : row'[j].blob = row[j].blob
    <2>1. row \in [Keys -> RowType]
        BY DEF TypeOK, RowType
    <2> QED
        BY <2>1 DEF Age, SetPinned, RowType
<1>2. UNCHANGED <<disk, writer, gcVars, broken>>
    BY DEF Age, SetPinned
<1> QED
    BY <1>1, <1>2 DEF PresentInv, Present, GcCurrent, Missing, Stored, Doomed, At, Blob, gcVars, TypeOK

\* With the writers idle, unlinking a blob does not touch them.
LEMMA UnlinkQuiet ==
    ASSUME TypeOK, NEW b \in Blobs, UnlinkBlob(b), \A w \in Writers : At(w) = "idle"
    PROVE  /\ \A w \in Writers : writer'[w] = writer[w]
           /\ \A c \in Blobs : c # b => disk'[c] = disk[c]
    BY DEF UnlinkBlob, Writing, TypeOK

\* An artifact marked deleted stays doomed, and nothing else gets so.
LEMMA MarkDoomed ==
    ASSUME TypeOK, MarkDeleted
    PROVE  /\ Doomed' = Doomed /\ cur' = {}
           /\ DOMAIN due' \subseteq DOMAIN due /\ \A k \in DOMAIN due' : due'[k] = due[k]
    BY DEF MarkDeleted, Doomed, TypeOK

\* The statements of collect_garbage.
LEMMA GcPresent ==
    ASSUME Exclusive, TypeOK, GcShape, PresentInv, GcStep \/ GcDies
    PROVE  PresentInv'
<1>1. CASE GcSelect
    <2>1. \A w \in Writers : At(w) = "idle"
        BY <1>1 DEF GcSelect
    <2>2. \A k \in DOMAIN due' : due'[k] = row[k].blob
        BY <1>1 DEF GcSelect
    <2>3. Doomed = {}
        BY <1>1 DEF GcSelect, GcShape, Doomed
    <2> QED
        BY <1>1, <2>1, <2>2, <2>3 DEF GcSelect, PresentInv, GcCurrent, Present, Missing, Stored, At, Blob, Uploading
<1>2. ASSUME NEW k \in Keys, GcRef(k) PROVE PresentInv'
    <2>1. Doomed' = Doomed \cup {k} /\ k \in Doomed
        BY <1>2 DEF GcRef, Doomed, GcShape
    <2> QED
        BY <1>2, <2>1 DEF GcRef, PresentInv, GcCurrent, Present, Missing, Stored, At, Blob
<1>3. CASE GcCount
    <2>1. PICK k \in cur :
            IF LastReference(due[k])
            THEN gpc' = "unlink" /\ UNCHANGED <<due, taken, cur>>
            ELSE gpc' = "expire" /\ MarkDeleted
        BY <1>3 DEF GcCount
    <2>2. UNCHANGED <<row, disk, writer, broken, keep>> /\ \A w \in Writers : At(w) = "idle"
        BY <1>3 DEF GcCount, PresentInv, GcCurrent
    <2>3. k \in Keys /\ due[k] \in Blobs /\ row[k].blob = due[k] /\ cur = {k}
        BY DEF TypeOK, PresentInv, GcCurrent, GcShape
    <2>4. CASE LastReference(due[k])
        <3>1. \A j \in Keys : row[j].blob = due[k] => j = k
            BY <2>3, <2>4, CountOne
        <3> QED
            BY <2>1, <2>2, <2>3, <2>4, <3>1 DEF PresentInv, GcCurrent, Present, Missing,
               Stored, Doomed, At, Blob
    <2>5. CASE ~LastReference(due[k])
        BY <2>1, <2>2, <2>5, MarkDoomed DEF PresentInv, GcCurrent, Present, Missing,
           Stored, At, Blob
    <2> QED
        BY <2>4, <2>5
<1>4. CASE GcUnlink
    <2>1. PICK k \in cur : UnlinkBlob(due[k])
        BY <1>4 DEF GcUnlink
    <2>2. /\ UNCHANGED <<row, broken>> /\ MarkDeleted /\ gpc' = "expire"
          /\ \A w \in Writers : At(w) = "idle"
        BY <1>4 DEF GcUnlink, PresentInv, GcCurrent
    <2>3. due[k] \in Blobs /\ k \in Doomed
        BY DEF TypeOK, Doomed
    <2>4. /\ \A w \in Writers : writer'[w] = writer[w]
          /\ \A c \in Blobs : c # due[k] => disk'[c] = disk[c]
        BY <2>1, <2>2, <2>3, UnlinkQuiet
    <2>5. \A j \in Keys \ Doomed : Stored(j) => row[j].blob \in Blobs /\ row[j].blob # due[k]
        BY <1>4, <2>3 DEF GcUnlink, PresentInv, GcCurrent, TypeOK, Stored
    <2>6. GcCurrent'
        BY <2>2, <2>4, MarkDoomed DEF PresentInv, GcCurrent, At
    <2>7. Present => Present'
        BY <2>2, <2>4, <2>5, MarkDoomed DEF Present, Missing, Stored, At, Blob, Uploading
    <2> QED
        BY <2>2, <2>6, <2>7 DEF PresentInv
<1>5. CASE GcCommit
    <2>1. Doomed = taken /\ Doomed' = {}
        BY <1>5 DEF GcCommit, GcShape, Doomed, NoneDue
    <2>2. \A k \in Keys \ taken : row'[k] = row[k]
        BY <1>5 DEF GcCommit
    <2>3. \A k \in taken : k \in Keys => row'[k].blob = NoBlob
        BY <1>5 DEF GcCommit, Absent
    <2> QED
        BY <1>5, <2>1, <2>2, <2>3 DEF GcCommit, PresentInv, GcCurrent, Present, Missing,
           Stored, NoneDue, At, Blob
<1>6. CASE GcRejected \/ GcDies
    <2>1. gpc' = "idle" /\ "gc" \in broken'
        BY <1>6 DEF GcRejected, GcDies
    <2>2. DOMAIN due' = {}
        BY <1>6 DEF GcRejected, GcDies, NoneDue
    <2> QED
        BY <2>1, <2>2 DEF PresentInv, GcCurrent
<1>7. CASE GcScan
    BY <1>7 DEF GcScan, PresentInv, GcCurrent, Present, Missing, Stored, Doomed, At, Blob
<1>8. ASSUME NEW b \in Blobs, GcSweep(b) PROVE PresentInv'
    <2>1. CASE b \in keep
        BY <1>8, <2>1 DEF GcSweep, PresentInv, GcCurrent, Present, Missing, Stored, Doomed, At, Blob
    <2>2. CASE b \notin keep
        <3>1. \A w \in Writers : At(w) = "idle"
            BY <1>8 DEF GcSweep, PresentInv, GcCurrent
        <3>2. /\ \A w \in Writers : writer'[w] = writer[w]
              /\ \A c \in Blobs : c # b => disk'[c] = disk[c]
            BY <1>8, <2>2, <3>1, UnlinkQuiet DEF GcSweep
        <3>3. \A j \in Keys : Stored(j) => row[j].blob \in Blobs /\ row[j].blob # b
            BY <1>8, <2>2 DEF GcSweep, PresentInv, GcCurrent, TypeOK, Stored
        <3>4. Doomed' = Doomed
            BY <1>8 DEF GcSweep, Doomed
        <3>5. GcCurrent'
            BY <1>8, <3>2 DEF GcSweep, PresentInv, GcCurrent, At, Stored
        <3>6. Present => Present'
            BY <1>8, <3>1, <3>2, <3>3, <3>4 DEF GcSweep, Present, Missing, Stored, At, Blob, Uploading
        <3> QED
            BY <1>8, <3>5, <3>6 DEF GcSweep, PresentInv
    <2> QED
        BY <2>1, <2>2
<1>9. CASE GcEnd
    BY <1>9 DEF GcEnd, PresentInv, GcCurrent, Present, Missing, Stored, Doomed, At, Blob
<1> QED
    BY <1>1, <1>2, <1>3, <1>4, <1>5, <1>6, <1>7, <1>8, <1>9 DEF GcStep

\* The invariant holds throughout.
LEMMA PresentHolds ==
    ASSUME Exclusive
    PROVE  Spec => []PresentInv
<1>1. Init => PresentInv
    BY DEF Init, PresentInv, GcCurrent, Present, Missing, Stored, Absent, NoneDue, At, Idle, Uploading
<1>2. TypeOK /\ GcShape /\ PresentInv /\ [Next]_vars => PresentInv'
    <2> SUFFICES ASSUME TypeOK, GcShape, PresentInv, [Next]_vars PROVE PresentInv'
        OBVIOUS
    <2>1. CASE UNCHANGED vars
        BY <2>1 DEF vars, gcVars, PresentInv, GcCurrent, Present, Missing, Stored, Doomed, At, Blob
    <2>2. CASE Next
        BY <2>2, IngestPresent, FlagsPresent, GcPresent DEF Next
    <2> QED
        BY <2>1, <2>2
<1> QED
    BY <1>1, <1>2, StoreShape, PTL DEF Spec

\* With gc alone on the store, every artifact it is not deleting has its
\* file, unless a run of gc was interrupted or rejected after unlinking it.
THEOREM BlobsPresent ==
    ASSUME Exclusive
    PROVE  Spec => []RowsPresent
<1>1. PresentInv => RowsPresent
    BY DEF PresentInv, Present, RowsPresent
<1> QED
    BY <1>1, PresentHolds, PTL

(***************************************************************************)
(* The orphan sweep.                                                       *)
(***************************************************************************)
\* What the sweep has passed is gone or referenced, and what it takes for
\* referenced is: no row changes its blob meanwhile.
SweptInv ==
    gpc = "sweep" =>
        /\ \A b \in keep : \E k \in Keys : row[k].blob = b
        /\ \A b \in Blobs \ todo : disk[b] # "none" => b \in keep

\* With gc alone on the store, no row changes its blob and no file appears
\* while it sweeps.
LEMMA QuietSweep ==
    ASSUME TypeOK, PresentInv, SweptInv, Next, gpc = "sweep", gpc' = "sweep",
           ~\E b \in Blobs : GcSweep(b)
    PROVE  /\ \A k \in Keys : row'[k].blob = row[k].blob
           /\ disk' = disk /\ keep' = keep /\ todo' = todo
<1>1. \A w \in Writers : At(w) = "idle"
    BY DEF PresentInv, GcCurrent
<1>2. \A w \in Writers : ~IngestStep(w) /\ ~IngestFails(w)
    BY <1>1 DEF IngestStep, IngestFails, OpenBlob, WriteBlob, WriteNowhere,
       RefExists, RefUnlink, RefLink, SelectRow, UpdateRow, InsertRow
<1>3. ~GcStep /\ ~GcDies
    BY DEF GcStep, GcDies, GcSelect, GcCount, GcUnlink, GcCommit, GcRejected,
       GcScan, GcEnd, GcRef
<1>4. CASE \E w \in Writers, k \in Keys, b \in Blobs : IngestBegin(w, k, b)
    BY <1>4 DEF IngestBegin, gcVars
<1>5. CASE \E k \in Keys : Age(k) \/ \E value \in BOOLEAN : SetPinned(k, value)
    <2>1. row \in [Keys -> RowType]
        BY DEF TypeOK, RowType
    <2> QED
        BY <1>5, <2>1 DEF Age, SetPinned, RowType, gcVars
<1> QED
    BY <1>2, <1>3, <1>4, <1>5 DEF Next

LEMMA SweptStep ==
    ASSUME TypeOK, PresentInv, SweptInv, [Next]_vars
    PROVE  SweptInv'
<1>1. CASE UNCHANGED vars
    BY <1>1 DEF vars, gcVars, SweptInv
<1>2. CASE Next /\ gpc # "sweep" /\ gpc' = "sweep"
    <2>1. GcScan
        BY <1>2 DEF Next, IngestStep, IngestFails, IngestBegin, OpenBlob, WriteBlob,
           WriteNowhere, RefExists, RefUnlink, RefLink, SelectRow, UpdateRow, InsertRow,
           Age, SetPinned, GcStep, GcDies, GcSelect, GcCount, GcUnlink, GcCommit,
           GcRejected, GcEnd, GcRef, GcSweep, gcVars
    <2> QED
        BY <2>1 DEF GcScan, SweptInv, Stored
<1>3. ASSUME NEW b \in Blobs, GcSweep(b) PROVE SweptInv'
    <2>1. /\ row' = row /\ keep' = keep /\ todo' = todo \ {b}
          /\ b \notin keep => disk' = [disk EXCEPT ![b] = "none"]
          /\ b \in keep => disk' = disk
        BY <1>3 DEF GcSweep, UnlinkBlob
    <2> QED
        BY <1>3, <2>1 DEF SweptInv, GcSweep, TypeOK
<1>4. CASE Next /\ gpc = "sweep" /\ gpc' = "sweep" /\ ~\E b \in Blobs : GcSweep(b)
    BY <1>4, QuietSweep DEF SweptInv
<1>5. CASE gpc' # "sweep"
    BY <1>5 DEF SweptInv
<1> QED
    BY <1>1, <1>2, <1>3, <1>4, <1>5

\* With gc alone on the store, a collection that comes to its end leaves no
\* file that no row refers to, whatever earlier runs left behind: counting
\* references before the deletions are flushed costs nothing.
THEOREM SweepLeavesNoOrphan ==
    ASSUME Exclusive
    PROVE  Spec => []SweepComplete
<1>1. Init => SweptInv
    BY DEF Init, SweptInv
<1>2. SweptInv => SweepComplete
    <2> SUFFICES ASSUME SweptInv, gpc = "sweep", todo = {},
                        NEW b \in Blobs, disk[b] # "none"
                 PROVE  RefCount(b) > 0
        BY DEF SweepComplete
    <2> DEFINE S == {k \in Keys : row[k].blob = b}
    <2>1. S # {}
        BY DEF SweptInv
    <2>2. IsFiniteSet(S)
        BY StoreAssumption, FS_Subset
    <2>3. Cardinality(S) \in Nat /\ Cardinality(S) # 0
        BY <2>1, <2>2, FS_CardinalityType, FS_EmptySet
    <2> QED
        BY <2>3 DEF RefCount
<1> QED
    BY <1>1, <1>2, SweptStep, StoreShape, PresentHolds, PTL DEF Spec
=============================================================================
