--------------------------- MODULE RenderedDesign ---------------------------
(***************************************************************************)
(* One design of a designer service under requests that overlap.           *)
(*                                                                         *)
(* Every request has a session of its own.  It loads the root row and asks *)
(* its questions, a render then reads its sections one query at a time,    *)
(* and the commit writes what the unit of work holds: SQLAlchemy emits a   *)
(* column only if its new value is not the one it has loaded.  Other       *)
(* requests commit in between, and each query sees what is committed.      *)
(*                                                                         *)
(* The contents of a section are its number of changes; a text is what its *)
(* sections were when they were read.  The services compare no versions:   *)
(* what a session cannot know of the others' commits is noted with it      *)
(* (stale, foreign), and a commit that would have needed to know makes the *)
(* columns mixed.                                                          *)
(***************************************************************************)
EXTENDS Naturals, Sequences

CONSTANTS
    Designs,       \* name -> design, as in DesignRecords
    Sessions,      \* the requests that can be under way at once
    MaxRequests,   \* bound on the requests
    SharedIn,      \* the keys a shared row of which is not protected
    SilentTo, DoubledIn, OrphanedIn, LostIn  \* the exceptions, see DesignRecords

VARIABLES
    design,    \* the design of this behaviour
    shared,    \* its rows are of no distribution: NULL is in their keys
    rows,      \* section -> rows under the contested key
    edits,     \* section -> changes so far
    cell,      \* column of the root row -> what it was rendered from
    session,   \* session -> the request it runs
    mixed,     \* columns two requests were at that got in each other's way
    served     \* requests so far

designVars ==
    <<design, shared, rows, edits, cell, session, mixed, served>>

Null == <<>>
Idle == [stage |-> "idle"]

Columns_ == DOMAIN Designs[design].columns
DependsOn(c) == Designs[design].columns[c]
Asked(s) == Designs[design].requests[session[s].request]
RequestsOf(d) == {d.requests[r] : r \in DOMAIN d.requests}
SectionsOf(d) == {"profile"} \cup UNION {{r.on} \cup r.logs : r \in RequestsOf(d)}

\* The sections whose rows the rows of a section belong to.
Owners(d, section) ==
    IF section \in DOMAIN d.apart THEN d.apart[section]
    ELSE {"profile"} \ {section}

Excepted(table, name) == IF name \in DOMAIN table THEN table[name] ELSE {}

\* The texts the content_hash is a hash of.
CoveredIn(d, c) ==
    /\ c # "content_hash" /\ "content_hash" \in DOMAIN d.columns
    /\ d.columns[c] \subseteq d.columns["content_hash"]

-----------------------------------------------------------------------------
(* What can be said of each request by itself, and what the services rest  *)
(* on when requests overlap.                                               *)

Edits == {"unique", "insert", "upsert", "change", "delete"}

\* A new root row has no texts yet.
Founds(r) == r.on = "profile" /\ r.kind \in {"unique", "insert"}
Cleared(r) == r.clears \cup r.updates

\* Whatever changes what the text shows clears the text and the hash.
SelfClearing(d, c) ==
    \A r \in RequestsOf(d) :
       r.kind \in Edits /\ r.on \in d.columns[c] =>
         Founds(r) \/ {c, "content_hash"} \subseteq Cleared(r)

ASSUME RequestsBounded == MaxRequests \in Nat

ASSUME DesignsWellFormed ==
    \A d \in DOMAIN Designs :
       /\ \A c \in DOMAIN Designs[d].columns :
             Designs[d].columns[c] \subseteq SectionsOf(Designs[d])
       /\ \A r \in RequestsOf(Designs[d]) :
             /\ r.kind \in Edits \cup {"uncommitted", "render"}
             /\ r.needs \subseteq SectionsOf(Designs[d])
             /\ r.reads \in Seq(SectionsOf(Designs[d]))
             /\ r.clears \cup r.writes \subseteq DOMAIN Designs[d].columns
             \* Only the requests themselves write what they log.
             /\ \A n \in r.logs : \A q \in RequestsOf(Designs[d]) :
                   q.on # n /\ n # "profile"

\* A request that changes a section clears every text of it, or the hash of
\* the text, but where its service is silent.
ASSUME ChangesClear ==
    \A d \in DOMAIN Designs : \A r \in RequestsOf(Designs[d]) :
       r.kind \in Edits /\ ~Founds(r) =>
         \A c \in DOMAIN Designs[d].columns :
            \/ r.on \notin Designs[d].columns[c]
            \/ c \in Cleared(r)
            \/ CoveredIn(Designs[d], c) /\ "content_hash" \in Cleared(r)
            \/ <<c, r.on>> \in Excepted(SilentTo, d)

\* A render reads what its texts show, and writes a text the hash covers with
\* the hash, unless the text is self-clearing.
ASSUME RendersWhole ==
    \A d \in DOMAIN Designs : \A c \in DOMAIN Designs[d].columns :
       \A r \in RequestsOf(Designs[d]) :
          r.kind = "render" =>
            /\ c \in r.writes =>
                 \A n \in Designs[d].columns[c] :
                    n = "profile" \/ \E i \in DOMAIN r.reads : r.reads[i] = n
            /\ CoveredIn(Designs[d], c) =>
                 \/ SelfClearing(Designs[d], c)
                 \/ c \in r.writes <=> "content_hash" \in r.writes

\* A key that is looked up has a constraint behind it.
ASSUME KeysBacked ==
    \A d \in DOMAIN Designs : \A r \in RequestsOf(Designs[d]) :
       r.kind \in {"unique", "upsert"} =>
         r.on \in Designs[d].keys \cup Excepted(DoubledIn, d)

\* An insertion asks for the rows it will hang from, and those are never
\* deleted; the root hangs from nothing.
ASSUME OwnersAsked ==
    \A d \in DOMAIN Designs :
       /\ Owners(Designs[d], "profile") = {}
       /\ \A r \in RequestsOf(Designs[d]) :
             /\ r.kind \in {"unique", "insert", "upsert"} =>
                  \/ r.on \in Excepted(OrphanedIn, d)
                  \/ Owners(Designs[d], r.on) \subseteq r.needs
             /\ \A n \in r.logs : Owners(Designs[d], n) \subseteq r.needs
             /\ r.kind = "delete" =>
                  \A n \in SectionsOf(Designs[d]) \ Excepted(OrphanedIn, d) :
                     r.on \notin Owners(Designs[d], n)

ASSUME NothingForgotten ==
    \A d \in DOMAIN Designs : \A r \in RequestsOf(Designs[d]) :
       r.kind = "uncommitted" => d \in LostIn

-----------------------------------------------------------------------------

DesignInit ==
    \E d \in DOMAIN Designs, root \in 0..1 :
       LET sections == SectionsOf(Designs[d]) IN
       /\ design = d
       /\ shared \in IF d \in DOMAIN SharedIn THEN BOOLEAN ELSE {FALSE}
       /\ rows = [s \in sections |-> IF s = "profile" THEN root ELSE 0]
       /\ edits = [s \in sections |-> 0]
       /\ cell = [c \in DOMAIN Designs[d].columns |-> Null]
       /\ session = [s \in Sessions |-> Idle]
       /\ mixed = {}
       /\ served = 0

\* A likely bug: nobody looks whether the rows are there.
FoundBlind(r) == TRUE

Found(r) == \A n \in r.needs : rows[n] > 0

\* The request is accepted so far: what it refers to is there, and the key it
\* wants to give is free.
Load(s, name) ==
    LET r == Designs[design].requests[name] IN
    /\ session[s].stage = "idle" /\ served < MaxRequests
    /\ Found(r)
    /\ r.kind = "unique" => rows[r.on] = 0
    /\ session' = [session EXCEPT ![s] =
                     [ stage |-> IF r.reads = <<>> THEN "writing" ELSE "reading",
                       request |-> name, found |-> rows[r.on] > 0,
                       loaded |-> cell, left |-> r.reads,
                       seen |-> [n \in {"profile"} |-> edits[n]],
                       stale |-> {}, foreign |-> {} ]]
    /\ served' = served + 1
    /\ UNCHANGED <<design, shared, rows, edits, cell, mixed>>

Read(s) ==
    /\ session[s].stage = "reading"
    /\ LET at == Head(session[s].left) IN
       session' = [session EXCEPT
         ![s].seen = [n \in DOMAIN @ \cup {at} |->
                        IF n = at THEN edits[at] ELSE @[n]],
         ![s].stale = @ \ {at},
         ![s].left = Tail(@),
         ![s].stage = IF Len(session[s].left) = 1 THEN "writing" ELSE @]
    /\ UNCHANGED <<design, shared, rows, edits, cell, mixed, served>>

\* A likely bug: the hash is only computed when there is none yet.
WrittenHashOnce(c, new, s) ==
    IF c = "content_hash" /\ new # Null /\ session[s].loaded[c] # Null
    THEN cell[c] ELSE new

\* The value of a column after a commit that sets it to new.
Written(c, new, s) == IF new = session[s].loaded[c] THEN cell[c] ELSE new

\* Another request has written the column since it was loaded, and this one,
\* for which its value is not new, leaves it alone.
LeftAlone(c, new, s) ==
    c \in session[s].foreign /\ new = session[s].loaded[c]

\* A likely bug: a text that is there is not rendered again.
RenderedOnce(s, c) ==
    IF session[s].loaded[c] # Null THEN session[s].loaded[c]
    ELSE [n \in DependsOn(c) |-> session[s].seen[n]]

Rendered(s, c) == [n \in DependsOn(c) |-> session[s].seen[n]]

Inserts(s) ==
    \/ Asked(s).kind \in {"unique", "insert", "uncommitted"}
    \/ Asked(s).kind = "upsert" /\ ~session[s].found

Exceptions(table) == Excepted(table, design)

\* The sections of which a unique constraint allows one row per key: NULLs are
\* all different.
Constrained ==
    Designs[design].keys \ (IF shared THEN Exceptions(SharedIn) ELSE {})

\* A likely bug: no constraint backs the look-up.
NeverTaken(s) == FALSE

\* The database refuses a second row under a key.
Taken(s) ==
    Inserts(s) /\ Asked(s).on \in Constrained /\ rows[Asked(s).on] > 0

\* The session ends with a commit.  The others learn nothing of the sections
\* and columns that changed: what they have read, or are going to write, of them
\* is stale, or foreign.
Ends(s, sections, columns) ==
    session' = [t \in Sessions |->
        IF t = s THEN Idle
        ELSE IF session[t].stage = "idle" THEN Idle
        ELSE [session[t] EXCEPT
                !.stale = @ \cup (sections \cap DOMAIN session[t].seen),
                !.foreign =
                   @ \cup (columns \cap (Asked(t).clears \cup Asked(t).writes))]]

\* A likely bug: a counter of rows, kept by the requests themselves.
AfterEditBlind(s, count) ==
    IF Inserts(s) THEN count + 1
    ELSE IF Asked(s).kind = "delete" THEN count - 1 ELSE count

\* A DELETE whose row has gone deletes nothing; an UPDATE is refused.
AfterEdit(s, count) ==
    IF Inserts(s) THEN count + 1
    ELSE IF Asked(s).kind = "delete" /\ count > 0 THEN count - 1 ELSE count

CommitEdit(s) ==
    LET r == Asked(s) IN
    /\ session[s].stage = "writing"
    /\ r.kind \in Edits
    /\ ~Taken(s)
    /\ r.kind = "change" => rows[r.on] > 0
    /\ rows' = [n \in DOMAIN rows |->
                  IF n = r.on THEN AfterEdit(s, rows[n])
                  ELSE IF n \in r.logs THEN rows[n] + 1 ELSE rows[n]]
    /\ edits' = [edits EXCEPT
                   ![r.on] = IF r.on = "profile" /\ Inserts(s) THEN @ ELSE @ + 1]
    /\ cell' = [c \in Columns_ |->
                  IF c \in r.updates THEN Null
                  ELSE IF c \in r.clears THEN Written(c, Null, s)
                  ELSE cell[c]]
    \* A text that was rendered meanwhile is not seen and not cleared.
    /\ mixed' = mixed \cup {c \in r.clears : LeftAlone(c, Null, s)}
    /\ Ends(s, {r.on}, Cleared(r))
    /\ UNCHANGED <<design, shared, served>>

CommitRender(s) ==
    LET r == Asked(s) IN
    /\ session[s].stage = "writing" /\ r.kind = "render"
    /\ cell' = [c \in Columns_ |->
                  IF c \in r.writes THEN Written(c, Rendered(s, c), s)
                  ELSE cell[c]]
    \* What another has written stays, or a section has changed since it was read.
    /\ mixed' = (mixed \ r.writes)
                \cup {c \in r.writes : \/ LeftAlone(c, Rendered(s, c), s)
                                       \/ DependsOn(c) \cap session[s].stale # {}}
    /\ Ends(s, {}, r.writes)
    /\ UNCHANGED <<design, shared, rows, edits, served>>

\* The session is closed after the flush: the answer is out, the row is not.
Forget(s) ==
    /\ session[s].stage = "writing" /\ Asked(s).kind = "uncommitted"
    /\ ~Taken(s)
    /\ session' = [session EXCEPT ![s] = Idle]
    /\ UNCHANGED <<design, shared, rows, edits, cell, mixed, served>>

\* The request fails, and its error path commits the rows it logs.
Fail(s) ==
    /\ session[s].stage = "writing" /\ Asked(s).logs # {}
    /\ rows' = [n \in DOMAIN rows |->
                  IF n \in Asked(s).logs THEN rows[n] + 1 ELSE rows[n]]
    /\ session' = [session EXCEPT ![s] = Idle]
    /\ UNCHANGED <<design, shared, edits, cell, mixed, served>>

\* The constraint is violated, or the request dies: the transaction is gone.
Abort(s) ==
    /\ session[s].stage # "idle"
    /\ session' = [session EXCEPT ![s] = Idle]
    /\ UNCHANGED <<design, shared, rows, edits, cell, mixed, served>>

DesignNext ==
    \E s \in Sessions :
       \/ \E name \in DOMAIN Designs[design].requests : Load(s, name)
       \/ Read(s)
       \/ CommitEdit(s)
       \/ CommitRender(s)
       \/ Forget(s)
       \/ Fail(s)
       \/ Abort(s)

DesignSpec == DesignInit /\ [][DesignNext]_designVars

-----------------------------------------------------------------------------

\* A text counts as good while it is there and, when the design's hash covers
\* it, the hash is there as well.
Covered(c) == CoveredIn(Designs[design], c)
Certified(c) ==
    /\ cell[c] # Null /\ c \notin mixed
    /\ Covered(c) => cell["content_hash"] # Null /\ "content_hash" \notin mixed

\* A text that counts as good says what the rows say now, but for the changes
\* the service is silent about (Silent): a later change either clears the text,
\* clears its hash, or is followed by a render.  Requests may overlap.  A text is
\* out of date only from a render that lost a race (mixed): one of the sections
\* it shows was changed between its query and the commit, or of two requests that
\* had both loaded the row the later left a column as the earlier had written it,
\* because for it the value was not new; and the next render that nobody gets in
\* the way of makes the text good again.
CertifiedIsCurrent ==
    \A c \in Columns_ : Certified(c) =>
        \A n \in DependsOn(c) :
            <<c, n>> \notin Exceptions(SilentTo) => cell[c][n] = edits[n]

\* The hash is the hash of the texts beside it: it was computed from the same
\* state of every section a text shows.
HashMatchesTexts ==
    \A c \in Columns_ : Certified(c) /\ Covered(c) =>
        \A n \in DependsOn(c) : cell[c][n] = cell["content_hash"][n]

\* Two requests that race for one key leave one row: what the service's own
\* look-up cannot exclude, a constraint does (all but Doubled, and the rows
\* shared by all distributions).
Single == {r.on : r \in {q \in RequestsOf(Designs[design]) :
                            q.kind \in {"unique", "upsert"}}}
OneRowPerKey ==
    \A n \in Single \ Exceptions(DoubledIn) :
        rows[n] <= 1 \/ (shared /\ n \in Exceptions(SharedIn))

\* Rows are owned: a section only has rows when the rows it hangs from are
\* there (all but Orphaned).
RowsOwned ==
    \A n \in DOMAIN rows \ Exceptions(OrphanedIn) :
        rows[n] > 0 => \A o \in Owners(Designs[design], n) : rows[o] > 0

DesignTypeOK ==
    /\ design \in DOMAIN Designs /\ shared \in BOOLEAN
    /\ LET sections == SectionsOf(Designs[design]) IN
       rows \in [sections -> Nat] /\ edits \in [sections -> Nat]
    /\ \A c \in Columns_ :
          cell[c] # Null => cell[c] \in [DependsOn(c) -> Nat]
    /\ DOMAIN cell = Columns_ /\ mixed \subseteq Columns_
    /\ served \in 0..MaxRequests
=============================================================================
