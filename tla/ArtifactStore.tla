--------------------------- MODULE ArtifactStore ---------------------------
(***************************************************************************)
(* The content-addressed artifact store (osfabricum/store): rows of the    *)
(* artifacts table, blob files named by their sha256, and one symbolic     *)
(* link per store key.                                                     *)
(*                                                                         *)
(* ingest_blob runs in worker threads, collect_garbage and the pin command *)
(* in the CLI.  Nothing is locked: each action is one file operation or    *)
(* one database transaction, and they interleave freely unless Exclusive.  *)
(***************************************************************************)
EXTENDS Naturals, FiniteSets

CONSTANTS
    Keys,        \* store keys; also stand for the artifacts stored under them
    Blobs,       \* contents, i.e. sha256 sums
    NoBlob,      \* no row
    Class,       \* Class[k]: "hot", "staging" or "protected"
    Writers,     \* threads that ingest
    Referenced,  \* keys of artifacts other tables may refer to by foreign key
    Exclusive    \* TRUE: gc, ingests and pins do not overlap

ASSUME StoreAssumption ==
    /\ IsFiniteSet(Keys)
    /\ NoBlob \notin Blobs
    /\ Class \in [Keys -> {"hot", "staging", "protected"}]
    /\ Referenced \subseteq Keys
    /\ Exclusive \in BOOLEAN

VARIABLES
    row,     \* row[k]: the artifacts row of store key k
    disk,    \* disk[b]: blob file b, "torn" while or after it is half written
    linked,  \* store keys that have a link
    writer,  \* writer[w]: the statement of ingest_blob w is at, key and blob
    gpc,     \* the statement collect_garbage is at
    due,     \* artifacts still to be dereferenced, with the blob gc read
    taken,   \* artifacts gc marked deleted in its open transaction
    cur,     \* the artifact gc is dereferencing
    keep,    \* blobs the orphan sweep found referenced
    todo,    \* blob files the sweep has not come to
    late,    \* history: artifacts pinned since the collection read the rows
    broken   \* what has failed midway so far: "ingest", "gc"

gcVars == <<gpc, due, taken, cur, keep, todo>>
vars == <<row, disk, linked, writer, gcVars, late, broken>>

Absent == [blob |-> NoBlob, pinned |-> FALSE, old |-> FALSE]
Stored(k) == row[k].blob # NoBlob

Idle == <<"idle", NoBlob, NoBlob>>

NoneDue == [k \in {} |-> NoBlob]

\* Artifacts gc has decided to delete.
Doomed == DOMAIN due \cup taken \cup cur

Init ==
    /\ row = [k \in Keys |-> Absent]
    /\ disk = [b \in Blobs |-> "none"]
    /\ linked = {}
    /\ writer = [w \in Writers |-> Idle]
    /\ gpc = "idle"
    /\ due = NoneDue /\ taken = {} /\ cur = {} /\ keep = {} /\ todo = {}
    /\ late = {}
    /\ broken = {}

(***************************************************************************)
(* ingest_blob.                                                            *)
(***************************************************************************)
At(w) == writer[w][1]
Key(w) == writer[w][2]
Blob(w) == writer[w][3]

Places == {"open", "write", "writeLost", "ref", "unlink", "link", "select",
           "update", "insert"}

Goto(w, place) == writer' = [writer EXCEPT ![w] = <<place, Key(w), Blob(w)>>]
Leave(w) == writer' = [writer EXCEPT ![w] = Idle]

\* The digest is as expected, and the blob file is looked for.
IngestBegin(w, k, b) ==
    /\ At(w) = "idle"
    /\ Exclusive => gpc = "idle"
    /\ writer' = [writer EXCEPT ![w] =
                      <<IF disk[b] = "none" THEN "open" ELSE "ref", k, b>>]
    /\ UNCHANGED <<row, disk, linked, gcVars, late, broken>>

\* write_bytes opens the final path itself, and truncates it.
OpenBlob(w) ==
    /\ At(w) = "open"
    /\ disk' = [disk EXCEPT ![Blob(w)] = "torn"]
    /\ Goto(w, "write")
    /\ UNCHANGED <<row, linked, gcVars, late, broken>>

Writing(w, b) == At(w) = "write" /\ Blob(w) = b

\* The last byte is written.  Another writer may have truncated meanwhile.
WriteBlob(w) ==
    /\ At(w) = "write"
    /\ \E state \in {"torn", "whole"} :
        /\ state = "torn" => \E v \in Writers \ {w} : Writing(v, Blob(w))
        /\ disk' = [disk EXCEPT ![Blob(w)] = state]
    /\ Goto(w, "ref")
    /\ UNCHANGED <<row, linked, gcVars, late, broken>>

\* The file was unlinked while it was written: the bytes go nowhere.
WriteNowhere(w) ==
    /\ At(w) = "writeLost"
    /\ Goto(w, "ref")
    /\ UNCHANGED <<row, disk, linked, gcVars, late, broken>>

RefExists(w) ==
    /\ At(w) = "ref"
    /\ Goto(w, IF Key(w) \in linked THEN "unlink" ELSE "link")
    /\ UNCHANGED <<row, disk, linked, gcVars, late, broken>>

\* FileNotFoundError ends the ingest if another one unlinked it first.
RefUnlink(w) ==
    /\ At(w) = "unlink"
    /\ linked' = linked \ {Key(w)}
    /\ IF Key(w) \in linked THEN Goto(w, "link") ELSE Leave(w)
    /\ UNCHANGED <<row, disk, gcVars, late, broken>>

\* FileExistsError ends the ingest if another one linked it first.
RefLink(w) ==
    /\ At(w) = "link"
    /\ linked' = linked \cup {Key(w)}
    /\ IF Key(w) \in linked THEN Leave(w) ELSE Goto(w, "select")
    /\ UNCHANGED <<row, disk, gcVars, late, broken>>

\* The row of the store key is read; with the same digest it is returned.
SelectRow(w) ==
    /\ At(w) = "select"
    /\ IF row[Key(w)].blob = Blob(w)
       THEN Leave(w)
       ELSE Goto(w, IF Stored(Key(w)) THEN "update" ELSE "insert")
    /\ UNCHANGED <<row, disk, linked, gcVars, late, broken>>

\* Content changed: the row is updated in place and keeps its created_at.
\* A row deleted meanwhile makes the UPDATE raise.
UpdateRow(w) ==
    /\ At(w) = "update"
    /\ row' = [row EXCEPT ![Key(w)].blob = IF Stored(Key(w)) THEN Blob(w) ELSE @]
    /\ Leave(w)
    /\ UNCHANGED <<disk, linked, gcVars, late, broken>>

\* store_key is unique: a row inserted meanwhile makes the INSERT raise.
InsertRow(w) ==
    /\ At(w) = "insert"
    /\ row' = [row EXCEPT ![Key(w)] =
                   IF Stored(Key(w)) THEN @ ELSE [Absent EXCEPT !.blob = Blob(w)]]
    /\ Leave(w)
    /\ UNCHANGED <<disk, linked, gcVars, late, broken>>

\* Mutant: the OSError of a failed write is swallowed.
IngestFailsUnnoticed(w) ==
    /\ At(w) = "write"
    /\ Goto(w, "ref")
    /\ UNCHANGED <<row, disk, linked, gcVars, late, broken>>

\* The process dies, or the disk is full.
IngestFails(w) ==
    /\ At(w) # "idle"
    /\ Leave(w)
    /\ broken' = broken \cup {"ingest"}
    /\ UNCHANGED <<row, disk, linked, gcVars, late>>

IngestStep(w) ==
    \/ OpenBlob(w) \/ WriteBlob(w) \/ WriteNowhere(w)
    \/ RefExists(w) \/ RefUnlink(w) \/ RefLink(w)
    \/ SelectRow(w) \/ UpdateRow(w) \/ InsertRow(w)

(***************************************************************************)
(* Retention.                                                              *)
(***************************************************************************)
\* created_at falls behind every maximum age.
Age(k) ==
    /\ Stored(k)
    /\ ~row[k].old
    /\ row' = [row EXCEPT ![k].old = TRUE]
    /\ UNCHANGED <<disk, linked, writer, gcVars, late, broken>>

\* pin_artifact, unpin_artifact.
SetPinned(k, value) ==
    /\ Stored(k)
    /\ Exclusive => gpc = "idle"
    /\ row' = [row EXCEPT ![k].pinned = value]
    /\ late' = IF value /\ gpc # "idle" THEN late \cup {k} ELSE late
    /\ UNCHANGED <<disk, linked, writer, gcVars, broken>>

\* Mutant: the class is not looked at.
ExpiredByAge(k) == Stored(k) /\ ~row[k].pinned /\ row[k].old

Expired(k) ==
    /\ Stored(k)
    /\ ~row[k].pinned
    /\ Class[k] # "protected"
    /\ row[k].old

\* Mutant: pinned artifacts are evicted too.
HotOrPinned(k) == Stored(k) /\ Class[k] = "hot"

\* Candidates for eviction when the cache-hot quota is exceeded.
Hot(k) ==
    /\ Stored(k)
    /\ ~row[k].pinned
    /\ Class[k] = "hot"

(***************************************************************************)
(* collect_garbage.                                                        *)
(***************************************************************************)
\* One SELECT of all rows.  Sizes and the quota are left open: any of the
\* cache-hot artifacts may be evicted.
GcSelect ==
    /\ gpc = "idle"
    /\ Exclusive => \A w \in Writers : At(w) = "idle"
    /\ \E evicted \in SUBSET {k \in Keys : Hot(k)} :
        due' = [k \in {k \in Keys : Expired(k)} \cup evicted |-> row[k].blob]
    /\ gpc' = "expire"
    /\ UNCHANGED <<row, disk, linked, writer, taken, cur, keep, todo, late, broken>>

\* The next artifact: its link is removed.
GcRef(k) ==
    /\ gpc = "expire"
    /\ k \in DOMAIN due
    /\ linked' = linked \ {k}
    /\ cur' = {k}
    /\ gpc' = "count"
    /\ UNCHANGED <<row, disk, writer, due, taken, keep, todo, late, broken>>

\* Deletions are not flushed yet, so the count includes the artifact itself
\* and every other one marked deleted.
RefCount(b) == Cardinality({k \in Keys : row[k].blob = b})

\* Mutant: off by one.
LastButOneReference(b) == RefCount(b) <= 2

LastReference(b) == RefCount(b) <= 1

\* The current artifact is done with: it is marked deleted.
MarkDeleted ==
    /\ taken' = taken \cup cur
    /\ cur' = {}
    /\ due' = [k \in DOMAIN due \ cur |-> due[k]]

GcCount ==
    /\ gpc = "count"
    /\ \E k \in cur :
        IF LastReference(due[k])
        THEN gpc' = "unlink" /\ UNCHANGED <<due, taken, cur>>
        ELSE gpc' = "expire" /\ MarkDeleted
    /\ UNCHANGED <<row, disk, linked, writer, keep, todo, late, broken>>

\* A writer that has the file open keeps an inode without a name.
UnlinkBlob(b) ==
    /\ disk' = [disk EXCEPT ![b] = "none"]
    /\ writer' = [w \in Writers |->
                    IF Writing(w, b) THEN <<"writeLost", Key(w), b>> ELSE writer[w]]

GcUnlink ==
    /\ gpc = "unlink"
    /\ \E k \in cur : UnlinkBlob(due[k])
    /\ MarkDeleted
    /\ gpc' = "expire"
    /\ UNCHANGED <<row, linked, keep, todo, late, broken>>

GcCommit ==
    /\ gpc = "expire" /\ due = NoneDue
    /\ row' = [k \in Keys |-> IF k \in taken THEN Absent ELSE row[k]]
    /\ taken' = {}
    /\ gpc' = "scan"
    /\ UNCHANGED <<disk, linked, writer, due, cur, keep, todo, late, broken>>

\* A foreign key refers to a deleted row at this moment: everything in the
\* database is rolled back, the files are gone.
GcRejected ==
    /\ gpc = "expire" /\ due = NoneDue
    /\ taken \cap Referenced # {}
    /\ taken' = {} /\ late' = {}
    /\ gpc' = "idle"
    /\ broken' = broken \cup {"gc"}
    /\ UNCHANGED <<row, disk, linked, writer, due, cur, keep, todo>>

\* Mutants: nothing is swept; rows and their blobs are mixed up.
GcScanNothing ==
    /\ gpc = "scan"
    /\ keep' = {row[k].blob : k \in {k \in Keys : Stored(k)}}
    /\ todo' = {}
    /\ gpc' = "sweep"
    /\ UNCHANGED <<row, disk, linked, writer, due, taken, cur, late, broken>>

GcScanRows ==
    /\ gpc = "scan"
    /\ keep' = {k \in Keys : Stored(k)}
    /\ todo' = Blobs
    /\ gpc' = "sweep"
    /\ UNCHANGED <<row, disk, linked, writer, due, taken, cur, late, broken>>

\* The orphan sweep: what is referenced is read once, ...
GcScan ==
    /\ gpc = "scan"
    /\ keep' = {row[k].blob : k \in {k \in Keys : Stored(k)}}
    /\ todo' = Blobs
    /\ gpc' = "sweep"
    /\ UNCHANGED <<row, disk, linked, writer, due, taken, cur, late, broken>>

\* ... then the directory is walked, each file looked at some time later.
GcSweep(b) ==
    /\ gpc = "sweep"
    /\ b \in todo
    /\ todo' = todo \ {b}
    /\ IF b \in keep THEN UNCHANGED <<disk, writer>> ELSE UnlinkBlob(b)
    /\ UNCHANGED <<row, linked, gpc, due, taken, cur, keep, late, broken>>

GcEnd ==
    /\ gpc = "sweep" /\ todo = {}
    /\ gpc' = "idle"
    /\ keep' = {} /\ late' = {}
    /\ UNCHANGED <<row, disk, linked, writer, due, taken, cur, todo, broken>>

\* The process dies; its transaction is rolled back.
GcDies ==
    /\ gpc # "idle"
    /\ gpc' = "idle"
    /\ due' = NoneDue /\ taken' = {} /\ cur' = {} /\ keep' = {} /\ todo' = {}
    /\ late' = {}
    /\ broken' = broken \cup {"gc"}
    /\ UNCHANGED <<row, disk, linked, writer>>

GcStep ==
    \/ GcSelect \/ GcCount \/ GcUnlink \/ GcCommit \/ GcRejected
    \/ GcScan \/ GcEnd
    \/ \E k \in Keys : GcRef(k)
    \/ \E b \in Blobs : GcSweep(b)

Next ==
    \/ \E w \in Writers : \/ IngestStep(w) \/ IngestFails(w)
                          \/ \E k \in Keys, b \in Blobs : IngestBegin(w, k, b)
    \/ \E k \in Keys : Age(k) \/ \E value \in BOOLEAN : SetPinned(k, value)
    \/ GcStep \/ GcDies

Spec == Init /\ [][Next]_vars

(***************************************************************************)
(* Properties.                                                             *)
(***************************************************************************)
TypeOK ==
    /\ row \in [Keys -> [blob: Blobs \cup {NoBlob}, pinned: BOOLEAN, old: BOOLEAN]]
    /\ disk \in [Blobs -> {"none", "torn", "whole"}]
    /\ linked \subseteq Keys
    /\ writer \in [Writers -> {Idle} \cup Places \X Keys \X Blobs]
    /\ gpc \in {"idle", "expire", "count", "unlink", "scan", "sweep"}
    /\ DOMAIN due \subseteq Keys /\ \A k \in DOMAIN due : due[k] \in Blobs
    /\ taken \subseteq Keys /\ cur \subseteq DOMAIN due
    /\ keep \subseteq Blobs /\ todo \subseteq Blobs
    /\ late \subseteq Keys
    /\ broken \subseteq {"ingest", "gc"}

\* The errors verify_store reports: blob file missing, digest mismatch.
Missing(k) == Stored(k) /\ disk[row[k].blob] = "none"
Mismatch(k) == Stored(k) /\ disk[row[k].blob] = "torn"

\* Whatever ingests overlap, whatever blobs artifacts share, the file of an
\* artifact that gc is not deleting is there, unless an earlier gc run
\* failed after unlinking it (checked with Exclusive).
RowsPresent ==
    \A k \in Keys \ Doomed : Missing(k) => "gc" \in broken

\* However ingests and gc overlap, a stored artifact only ever reads as
\* corrupt while its blob is being written, or after an ingest died doing so.
RowsWhole ==
    \A k \in Keys : Mismatch(k) =>
        \/ "ingest" \in broken
        \/ \E w \in Writers : Writing(w, row[k].blob)

\* A gc run leaves no orphan: at its end the files are those of the rows
\* that remain, although blobs are shared and earlier runs may have failed.
SweepComplete ==
    gpc = "sweep" /\ todo = {} =>
        \A b \in Blobs : disk[b] # "none" => RefCount(b) > 0

\* An artifact whose pin was committed when a collection read the rows keeps
\* its row, whatever ingests, pins and unpins overlap with the collection: only
\* a pin that commits while one is under way can come too late for it.
PinnedKept ==
    [][\A k \in Keys : Stored(k) /\ row[k].pinned /\ row'[k].blob = NoBlob
            => k \in late]_vars

\* Whatever overlaps, a release, promoted or permanent artifact keeps its
\* row: gc works on what it read, but a class never changes.
ProtectedKept ==
    [][\A k \in Keys : Stored(k) /\ Class[k] = "protected"
            => row'[k].blob # NoBlob]_vars

\* ROADMAP, store failures: a partial write is not promoted, the ingest
\* fails and can be retried.  So a stored artifact is never a torn file
\* that nobody is writing.
PartialNotPromoted ==
    \A k \in Keys \ Doomed :
        Mismatch(k) => \E w \in Writers : Writing(w, row[k].blob)

\* gc.py: a blob file is only removed when no remaining artifact row
\* references its SHA-256.
ReferencedKept ==
    [][\A b \in Blobs : disk[b] # "none" /\ disk'[b] = "none" =>
            \A k \in Keys \ Doomed : row[k].blob # b]_vars
=============================================================================
