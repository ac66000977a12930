------------------------ MODULE RenderedDesignProofs ------------------------
(***************************************************************************)
(* Proofs about RenderedDesign, for any designs that meet its assumptions, *)
(* and any number of sessions and requests.                                *)
(***************************************************************************)
EXTENDS RenderedDesign, TLAPS

Sections == SectionsOf(Designs[design])
Open(s) == session[s].stage # "idle"

\* The fields of a request under way.
Busy(r) ==
    r = [ stage |-> r.stage, request |-> r.request, found |-> r.found,
          loaded |-> r.loaded, left |-> r.left, seen |-> r.seen,
          stale |-> r.stale, foreign |-> r.foreign ]

Listed(seq, n) == \E i \in DOMAIN seq : seq[i] = n

\* What a render will have read once nothing is left.
Reads(s) ==
    \A n \in Sections :
       n = "profile" \/ Listed(Asked(s).reads, n) =>
         n \in DOMAIN session[s].seen \/ Listed(session[s].left, n)

SessionOK(s) ==
    /\ session[s].stage \in {"idle", "reading", "writing"}
    /\ Open(s) =>
         /\ Busy(session[s])
         /\ session[s].request \in DOMAIN Designs[design].requests
         /\ session[s].left \in Seq(Sections)
         /\ session[s].stage = "writing" <=> session[s].left = <<>>
         /\ \A n \in DOMAIN session[s].seen :
               n \in Sections /\ session[s].seen[n] \in Nat
         /\ Reads(s)

\* Type correctness, with the sessions.
TypeInv ==
    /\ DesignTypeOK
    /\ DOMAIN session = Sessions
    /\ \A s \in Sessions : SessionOK(s)

-----------------------------------------------------------------------------

\* What a session asks for is a request of its design.
LEMMA AskedIsRequest ==
    ASSUME TypeInv, NEW s \in Sessions, Open(s)
    PROVE  /\ design \in DOMAIN Designs
           /\ Asked(s) \in RequestsOf(Designs[design])
           /\ Asked(s).on \in Sections
           /\ Asked(s).reads \in Seq(Sections)
<1>1. design \in DOMAIN Designs
    BY DEF TypeInv, DesignTypeOK
<1>2. Asked(s) \in RequestsOf(Designs[design])
    BY DEF TypeInv, SessionOK, Asked, RequestsOf
<1>3. Asked(s).on \in Sections
    BY <1>2 DEF Sections, SectionsOf
<1>4. Asked(s).reads \in Seq(Sections)
    BY <1>1, <1>2, DesignsWellFormed DEF Sections
<1> QED
    BY <1>1, <1>2, <1>3, <1>4

LEMMA RootIsSection == "profile" \in Sections
BY DEF Sections, SectionsOf

LEMMA EditsAreNat ==
    ASSUME TypeInv
    PROVE  edits \in [Sections -> Nat] /\ rows \in [Sections -> Nat]
BY DEF TypeInv, DesignTypeOK, Sections

LEMMA EmptyIsShort ==
    ASSUME NEW S, NEW seq \in Seq(S) PROVE seq = <<>> <=> Len(seq) = 0
OBVIOUS

\* A session that is closed.
LEMMA ClosedOK ==
    ASSUME TypeInv, NEW s \in Sessions, design' = design,
           session' = [session EXCEPT ![s] = Idle]
    PROVE  /\ DOMAIN session' = Sessions
           /\ \A t \in Sessions : SessionOK(t)'
<1>1. DOMAIN session' = Sessions
    BY DEF TypeInv
<1>2. ASSUME NEW t \in Sessions PROVE SessionOK(t)'
    <2>1. SessionOK(t)
        BY DEF TypeInv
    <2>2. CASE session'[t] = Idle
        BY <2>2 DEF SessionOK, Open, Idle
    <2>3. CASE session'[t] = session[t]
        BY <2>1, <2>3 DEF SessionOK, Open, Busy, Reads, Asked, Sections
    <2> QED
        BY <2>2, <2>3 DEF TypeInv
<1> QED
    BY <1>1, <1>2

\* What a commit leaves of the other sessions.
LEMMA Ended ==
    ASSUME TypeInv, NEW s \in Sessions, NEW sections, NEW columns,
           Ends(s, sections, columns), NEW t \in Sessions, Open(t)'
    PROVE  LET q == session[t] IN
           /\ Open(t)
           /\ session'[t] =
                [ stage |-> q.stage, request |-> q.request, found |-> q.found,
                  loaded |-> q.loaded, left |-> q.left, seen |-> q.seen,
                  stale |-> q.stale \cup (sections \cap DOMAIN q.seen),
                  foreign |-> q.foreign
                     \cup (columns \cap (Asked(t).clears \cup Asked(t).writes)) ]
<1>1. t # s /\ Open(t)
    BY DEF Ends, Open, Idle
<1>2. Busy(session[t])
    BY <1>1 DEF TypeInv, SessionOK
<1> QED
    BY <1>1, <1>2 DEF Ends, Open, Busy

LEMMA EndsOK ==
    ASSUME TypeInv, NEW s \in Sessions, design' = design,
           NEW sections, NEW columns, Ends(s, sections, columns)
    PROVE  /\ DOMAIN session' = Sessions
           /\ \A t \in Sessions : SessionOK(t)'
<1>1. DOMAIN session' = Sessions
    BY DEF Ends
<1>2. ASSUME NEW t \in Sessions PROVE SessionOK(t)'
    <2>1. CASE ~Open(t)'
        <3>1. session'[t].stage = "idle"
            BY <2>1 DEF Open
        <3> QED
            BY <2>1, <3>1 DEF SessionOK
    <2>2. CASE Open(t)'
        <3> DEFINE q == session[t]
                   st == q.stale \cup (sections \cap DOMAIN q.seen)
                   fo == q.foreign
                     \cup (columns \cap (Asked(t).clears \cup Asked(t).writes))
        <3>1. /\ Open(t) /\ SessionOK(t)
              /\ session'[t] =
                    [ stage |-> q.stage, request |-> q.request,
                      found |-> q.found, loaded |-> q.loaded, left |-> q.left,
                      seen |-> q.seen, stale |-> st, foreign |-> fo ]
            BY <2>2, Ended DEF TypeInv
        <3> HIDE DEF st, fo
        <3> QED
            BY <3>1 DEF SessionOK, Open, Busy, Reads, Asked, Sections
    <2> QED
        BY <2>1, <2>2
<1> QED
    BY <1>1, <1>2

LEMMA LoadOK ==
    ASSUME TypeInv, NEW s \in Sessions,
           NEW name \in DOMAIN Designs[design].requests, Load(s, name)
    PROVE  /\ DOMAIN session' = Sessions
           /\ \A t \in Sessions : SessionOK(t)'
<1> DEFINE r == Designs[design].requests[name]
<1>1. DOMAIN session' = Sessions
    BY DEF TypeInv, Load
<1>2. r \in RequestsOf(Designs[design])
    BY DEF RequestsOf
<1>3. r.reads \in Seq(Sections)
    BY <1>2, DesignsWellFormed DEF TypeInv, DesignTypeOK, Sections
<1>4. ASSUME NEW t \in Sessions PROVE SessionOK(t)'
    <2>1. CASE t # s
        <3>1. SessionOK(t) /\ session'[t] = session[t] /\ design' = design
            BY <2>1 DEF TypeInv, Load
        <3> QED
            BY <3>1 DEF SessionOK, Open, Busy, Reads, Asked, Sections
    <2>2. CASE t = s
        <3> DEFINE st == IF r.reads = <<>> THEN "writing" ELSE "reading"
        <3>1. /\ design' = design
              /\ session'[s] =
                    [ stage |-> st, request |-> name, found |-> rows[r.on] > 0,
                      loaded |-> cell, left |-> r.reads,
                      seen |-> [n \in {"profile"} |-> edits[n]],
                      stale |-> {}, foreign |-> {} ]
            BY DEF Load, TypeInv
        <3> HIDE DEF st
        <3>2. /\ session'[s].stage = st /\ session'[s].request = name
              /\ session'[s].left = r.reads
              /\ session'[s].seen = [n \in {"profile"} |-> edits[n]]
              /\ Busy(session[s])'
            BY <3>1 DEF Busy
        <3>3. Reads(s)'
            BY <3>1, <3>2 DEF Reads, Asked, Sections, Listed
        <3>4. edits["profile"] \in Nat
            BY EditsAreNat, RootIsSection
        <3> QED
            BY <2>2, <3>1, <3>2, <3>3, <3>4, <1>3, RootIsSection
               DEF SessionOK, Open, Sections, st
    <2> QED
        BY <2>1, <2>2
<1> QED
    BY <1>1, <1>4

LEMMA ReadOK ==
    ASSUME TypeInv, NEW s \in Sessions, Read(s)
    PROVE  /\ DOMAIN session' = Sessions
           /\ \A t \in Sessions : SessionOK(t)'
<1> DEFINE q == session[s]
           at == Head(q.left)
<1>1. DOMAIN session' = Sessions
    BY DEF TypeInv, Read
<1>2. SessionOK(s) /\ Open(s)
    BY DEF TypeInv, Read, Open
<1>3. /\ Busy(q) /\ q.left \in Seq(Sections) /\ q.left # <<>>
      /\ q.stage = "reading"
    BY <1>2 DEF SessionOK, Read
<1>4. at \in Sections /\ Tail(q.left) \in Seq(Sections)
    BY <1>3
<1>5. edits[at] \in Nat
    BY <1>4, EditsAreNat
<1>6. ASSUME NEW t \in Sessions PROVE SessionOK(t)'
    <2>1. CASE t # s
        <3>1. SessionOK(t) /\ session'[t] = session[t] /\ design' = design
            BY <2>1 DEF TypeInv, Read
        <3> QED
            BY <3>1 DEF SessionOK, Open, Busy, Reads, Asked, Sections
    <2>2. CASE t = s
        <3> DEFINE st == IF Len(q.left) = 1 THEN "writing" ELSE "reading"
                   sn == [n \in DOMAIN q.seen \cup {at} |->
                            IF n = at THEN edits[at] ELSE q.seen[n]]
        <3>1. design' = design
            BY DEF Read
        <3>2. session'[s] = [ stage |-> st, request |-> q.request,
                              found |-> q.found, loaded |-> q.loaded,
                              left |-> Tail(q.left), seen |-> sn,
                              stale |-> q.stale \ {at}, foreign |-> q.foreign ]
            BY <1>3 DEF Read, TypeInv, Busy
        <3>3. st = "writing" <=> Tail(q.left) = <<>>
            <4>1. Len(q.left) \in Nat \ {0} /\ Len(Tail(q.left)) = Len(q.left) - 1
                BY <1>3
            <4>2. Tail(q.left) = <<>> <=> Len(Tail(q.left)) = 0
                BY <1>4, EmptyIsShort
            <4> QED
                BY <4>1, <4>2
        <3> HIDE DEF st, sn
        <3>4. /\ session'[s].stage = st /\ session'[s].request = q.request
              /\ session'[s].left = Tail(q.left) /\ session'[s].seen = sn
              /\ Busy(session[s])'
            BY <3>2 DEF Busy
        <3>5. Asked(s)' = Asked(s) /\ Sections' = Sections
            BY <3>1, <3>4 DEF Asked, Sections
        <3>6. ASSUME NEW n, Listed(q.left, n), n # at
              PROVE  Listed(Tail(q.left), n)
            <4> PICK i \in DOMAIN q.left : q.left[i] = n
                BY <3>6 DEF Listed
            <4>1. i \in 2..Len(q.left)
                BY <1>3, <3>6
            <4>2. i - 1 \in DOMAIN Tail(q.left) /\ Tail(q.left)[i - 1] = n
                BY <1>3, <4>1
            <4> QED
                BY <4>2 DEF Listed
        <3>7. Reads(s)'
            BY <1>2, <3>4, <3>5, <3>6 DEF SessionOK, Reads, sn
        <3>8. \A n \in DOMAIN sn : n \in Sections /\ sn[n] \in Nat
            BY <1>2, <1>4, <1>5 DEF SessionOK, sn
        <3>9. st \in {"reading", "writing"}
            BY DEF st
        <3>10. q.request \in DOMAIN Designs[design].requests
            BY <1>2 DEF SessionOK
        <3> QED
            BY <2>2, <1>4, <3>1, <3>3, <3>4, <3>5, <3>7, <3>8, <3>9, <3>10
               DEF SessionOK, Open
    <2> QED
        BY <2>1, <2>2
<1> QED
    BY <1>1, <1>6

\* A render has read all it writes.
LEMMA RenderedTyped ==
    ASSUME TypeInv, NEW s \in Sessions, session[s].stage = "writing",
           Asked(s).kind = "render", NEW c \in Columns_, c \in Asked(s).writes
    PROVE  /\ DependsOn(c) \subseteq DOMAIN session[s].seen
           /\ Rendered(s, c) \in [DependsOn(c) -> Nat]
<1>1. SessionOK(s) /\ Open(s)
    BY DEF TypeInv, Open
<1>2. /\ Asked(s) \in RequestsOf(Designs[design])
      /\ design \in DOMAIN Designs
    BY <1>1, AskedIsRequest
<1>3. session[s].left = <<>> /\ Reads(s)
    BY <1>1 DEF SessionOK
<1>4. \A n \in DependsOn(c) : n \in Sections
    BY <1>2, DesignsWellFormed DEF DependsOn, Columns_, Sections
<1>5. \A n \in DependsOn(c) : n = "profile" \/ Listed(Asked(s).reads, n)
    BY <1>2, RendersWhole DEF DependsOn, Columns_, Listed
<1>6. \A n : ~Listed(<<>>, n)
    BY DEF Listed
<1>7. \A n \in DependsOn(c) : n \in DOMAIN session[s].seen
    BY <1>3, <1>4, <1>5, <1>6 DEF Reads
<1>8. \A n \in DependsOn(c) : session[s].seen[n] \in Nat
    BY <1>1, <1>7 DEF SessionOK
<1> QED
    BY <1>7, <1>8 DEF Rendered

\* A delete never takes away more than there is.
LEMMA AfterEditNat ==
    ASSUME NEW s, NEW n \in Nat
    PROVE  AfterEdit(s, n) \in Nat
BY DEF AfterEdit

\* Only the request itself writes what it logs.
LEMMA LoggedApart ==
    ASSUME TypeInv, NEW s \in Sessions, Open(s), NEW n \in Asked(s).logs
    PROVE  n \in Sections /\ n # Asked(s).on /\ n \notin Single
<1>1. Asked(s) \in RequestsOf(Designs[design]) /\ design \in DOMAIN Designs
    BY AskedIsRequest
<1>2. n \in Sections
    BY <1>1 DEF Sections, SectionsOf
<1>3. \A q \in RequestsOf(Designs[design]) : q.on # n
    BY <1>1, DesignsWellFormed
<1> QED
    BY <1>1, <1>2, <1>3 DEF Single

LEMMA ColumnsWritten ==
    ASSUME TypeInv, NEW s \in Sessions, Open(s)
    PROVE  Asked(s).clears \subseteq Columns_ /\ Asked(s).writes \subseteq Columns_
BY AskedIsRequest, DesignsWellFormed DEF Columns_

LEMMA CommitEditTyped ==
    ASSUME TypeInv, NEW s \in Sessions, CommitEdit(s)
    PROVE  TypeInv'
<1> DEFINE r == Asked(s)
<1>1. Open(s) /\ design' = design
    BY DEF CommitEdit, Open
<1>2. r.on \in Sections
    BY <1>1, AskedIsRequest
<1>3. rows' \in [Sections -> Nat]
    BY <1>2, EditsAreNat, AfterEditNat DEF CommitEdit
<1>4. edits' \in [Sections -> Nat]
    BY <1>2, EditsAreNat DEF CommitEdit
<1>5. Columns_' = Columns_ /\ (\A c : DependsOn(c)' = DependsOn(c))
      /\ Sections' = Sections
    BY <1>1 DEF Columns_, DependsOn, Sections
<1>6. /\ DOMAIN cell' = Columns_
      /\ \A c \in Columns_ : cell'[c] = Null \/ cell'[c] = cell[c]
    BY DEF CommitEdit, Written
<1>7. mixed' \subseteq Columns_
    BY <1>1, ColumnsWritten DEF CommitEdit, TypeInv, DesignTypeOK
<1>8. DesignTypeOK'
    BY <1>1, <1>3, <1>4, <1>5, <1>6, <1>7
       DEF TypeInv, DesignTypeOK, Sections, CommitEdit
<1>9. Ends(s, {r.on}, Cleared(r))
    BY DEF CommitEdit
<1> QED
    BY <1>1, <1>8, <1>9, EndsOK DEF TypeInv

LEMMA CommitRenderTyped ==
    ASSUME TypeInv, NEW s \in Sessions, CommitRender(s)
    PROVE  TypeInv'
<1>1. /\ Open(s) /\ design' = design /\ Ends(s, {}, Asked(s).writes)
      /\ UNCHANGED <<shared, rows, edits, served>>
    BY DEF CommitRender, Open
<1>2. Columns_' = Columns_ /\ (\A c : DependsOn(c)' = DependsOn(c))
    BY <1>1 DEF Columns_, DependsOn
<1>3. DOMAIN cell' = Columns_
    BY DEF CommitRender
<1>4. ASSUME NEW c \in Columns_, cell'[c] # Null
      PROVE  cell'[c] \in [DependsOn(c) -> Nat]
    <2>1. CASE cell'[c] = cell[c]
        BY <1>4, <2>1 DEF TypeInv, DesignTypeOK
    <2>2. CASE c \in Asked(s).writes /\ cell'[c] = Rendered(s, c)
        BY <2>2, RenderedTyped DEF CommitRender
    <2> QED
        BY <2>1, <2>2 DEF CommitRender, Written
<1>5. mixed' \subseteq Columns_
    BY <1>1, ColumnsWritten DEF CommitRender, TypeInv, DesignTypeOK
<1>6. DesignTypeOK'
    BY <1>1, <1>2, <1>3, <1>4, <1>5 DEF TypeInv, DesignTypeOK
<1> QED
    BY <1>1, <1>6, EndsOK DEF TypeInv

\* Types hold at the start.
LEMMA InitTyped == DesignInit => TypeInv
<1> SUFFICES ASSUME DesignInit PROVE TypeInv
    OBVIOUS
<1>1. design \in DOMAIN Designs /\ shared \in BOOLEAN
    BY DEF DesignInit
<1>2. rows \in [Sections -> Nat] /\ edits \in [Sections -> Nat]
    BY DEF DesignInit, Sections
<1>3. cell = [c \in Columns_ |-> Null]
    BY DEF DesignInit, Columns_
<1>4. mixed = {} /\ served = 0 /\ session = [s \in Sessions |-> Idle]
    BY DEF DesignInit
<1>5. DesignTypeOK
    BY <1>1, <1>2, <1>3, <1>4, RequestsBounded DEF DesignTypeOK, Sections
<1>6. \A s \in Sessions : SessionOK(s)
    BY <1>4 DEF SessionOK, Open, Idle
<1> QED
    BY <1>4, <1>5, <1>6 DEF TypeInv

LEMMA StepTyped == TypeInv /\ [DesignNext]_designVars => TypeInv'
<1> SUFFICES ASSUME TypeInv, [DesignNext]_designVars PROVE TypeInv'
    OBVIOUS
<1>1. ASSUME NEW s \in Sessions,
             NEW name \in DOMAIN Designs[design].requests, Load(s, name)
      PROVE  TypeInv'
    <2>1. served' \in 0..MaxRequests
        BY <1>1, RequestsBounded DEF Load, TypeInv, DesignTypeOK
    <2>2. DesignTypeOK'
        BY <1>1, <2>1 DEF Load, TypeInv, DesignTypeOK, Columns_, DependsOn
    <2> QED
        BY <1>1, <2>2, LoadOK DEF TypeInv
<1>2. ASSUME NEW s \in Sessions, Read(s) PROVE TypeInv'
    <2>1. DesignTypeOK'
        BY <1>2 DEF Read, TypeInv, DesignTypeOK, Columns_, DependsOn
    <2> QED
        BY <1>2, <2>1, ReadOK DEF TypeInv
<1>3. ASSUME NEW s \in Sessions, CommitEdit(s) PROVE TypeInv'
    BY <1>3, CommitEditTyped
<1>4. ASSUME NEW s \in Sessions, CommitRender(s) PROVE TypeInv'
    BY <1>4, CommitRenderTyped
<1>5. ASSUME NEW s \in Sessions, Forget(s) PROVE TypeInv'
    <2>1. DesignTypeOK'
        BY <1>5 DEF Forget, TypeInv, DesignTypeOK, Columns_, DependsOn
    <2> QED
        BY <1>5, <2>1, ClosedOK DEF TypeInv, Forget
<1>6. ASSUME NEW s \in Sessions, Abort(s) PROVE TypeInv'
    <2>1. DesignTypeOK'
        BY <1>6 DEF Abort, TypeInv, DesignTypeOK, Columns_, DependsOn
    <2> QED
        BY <1>6, <2>1, ClosedOK DEF TypeInv, Abort
<1>7. ASSUME NEW s \in Sessions, Fail(s) PROVE TypeInv'
    <2>1. rows' \in [Sections -> Nat]
        BY <1>7, EditsAreNat DEF Fail
    <2>2. DesignTypeOK'
        BY <1>7, <2>1
           DEF Fail, TypeInv, DesignTypeOK, Columns_, DependsOn, Sections
    <2> QED
        BY <1>7, <2>2, ClosedOK DEF TypeInv, Fail
<1>8. CASE UNCHANGED designVars
    BY <1>8 DEF designVars, TypeInv, DesignTypeOK, SessionOK, Open, Busy, Reads,
                Asked, Sections, Columns_, DependsOn
<1> QED
    BY <1>1, <1>2, <1>3, <1>4, <1>5, <1>6, <1>7, <1>8 DEF DesignNext

\* The rows, the texts and the counters keep their types whatever requests
\* overlap: a render never reads past what it has loaded, and no count goes
\* below zero.
THEOREM DesignTypes == DesignSpec => []DesignTypeOK
<1>1. DesignSpec => []TypeInv
    BY InitTyped, StepTyped, PTL DEF DesignSpec
<1>2. TypeInv => DesignTypeOK
    BY DEF TypeInv
<1> QED
    BY <1>1, <1>2, PTL

-----------------------------------------------------------------------------
(* The rows.                                                               *)

\* Only a commit changes the rows, and the failure that is logged.
LEMMA RowsOrCommit ==
    ASSUME [DesignNext]_designVars
    PROVE  /\ design' = design /\ shared' = shared
           /\ \/ rows' = rows
              \/ \E s \in Sessions : CommitEdit(s) \/ Fail(s)
BY DEF DesignNext, designVars, Load, Read, CommitEdit, CommitRender, Forget,
       Fail, Abort

LEMMA OneRowKept ==
    TypeInv /\ OneRowPerKey /\ [DesignNext]_designVars => OneRowPerKey'
<1> SUFFICES ASSUME TypeInv, OneRowPerKey, [DesignNext]_designVars,
                    NEW n \in Single \ Exceptions(DoubledIn),
                    ~(shared /\ n \in Exceptions(SharedIn))
             PROVE  rows'[n] <= 1
    BY RowsOrCommit DEF OneRowPerKey, Single, Exceptions
<1>1. n \in Sections /\ n \in Constrained
    <2>1. PICK r \in RequestsOf(Designs[design]) :
             r.on = n /\ r.kind \in {"unique", "upsert"}
        BY DEF Single
    <2>2. n \in Designs[design].keys
        BY <2>1, KeysBacked DEF Exceptions, TypeInv, DesignTypeOK
    <2> QED
        BY <2>1, <2>2 DEF Constrained, Sections, SectionsOf
<1>2. rows[n] \in Nat /\ rows[n] <= 1
    BY <1>1, EditsAreNat DEF OneRowPerKey
<1>3. ASSUME NEW s \in Sessions, CommitEdit(s) PROVE rows'[n] <= 1
    <2>1. CASE Asked(s).on # n
        <3>1. n \notin Asked(s).logs
            BY <1>3, LoggedApart DEF CommitEdit, Open
        <3> QED
            BY <1>1, <1>2, <1>3, <2>1, <3>1, EditsAreNat DEF CommitEdit
    <2>2. CASE Asked(s).on = n
        <3>1. rows'[n] = AfterEdit(s, rows[n])
            BY <1>1, <1>3, <2>2, EditsAreNat DEF CommitEdit
        <3>2. Inserts(s) => ~(rows[n] > 0)
            BY <1>1, <1>3, <2>2 DEF CommitEdit, Taken
        <3> QED
            BY <1>2, <3>1, <3>2 DEF AfterEdit
    <2> QED
        BY <2>1, <2>2
<1>4. ASSUME NEW s \in Sessions, Fail(s) PROVE rows'[n] <= 1
    <2>1. n \notin Asked(s).logs
        BY <1>4, LoggedApart DEF Fail, Open
    <2> QED
        BY <1>1, <1>2, <1>4, <2>1, EditsAreNat DEF Fail
<1> QED
    BY <1>2, <1>3, <1>4, RowsOrCommit

\* Whatever two requests looked up before they inserted, a key that is looked
\* up has one row, as every such key of these services has a constraint that
\* holds when the transaction is written.
THEOREM OneRow == DesignSpec => []OneRowPerKey
<1>1. DesignInit => OneRowPerKey
    <2> SUFFICES ASSUME DesignInit PROVE OneRowPerKey
        OBVIOUS
    <2>1. \A n \in Sections : rows[n] \in 0..1
        BY DEF DesignInit, Sections
    <2>2. Single \subseteq Sections
        BY DEF Single, Sections, SectionsOf
    <2> QED
        BY <2>1, <2>2 DEF OneRowPerKey
<1>2. DesignSpec => [](TypeInv /\ OneRowPerKey)
    BY <1>1, InitTyped, StepTyped, OneRowKept, PTL DEF DesignSpec
<1> QED
    BY <1>2, PTL

\* The rows a section hangs from are there.
Hangs(n) ==
    LET owners == Owners(Designs[design], n) IN
    owners \subseteq Sections /\ \A o \in owners : rows[o] > 0

\* The sections a request may insert into.
AddsIn(r) ==
    r.logs \cup (IF r.kind \in {"unique", "insert", "upsert"} THEN {r.on} ELSE {})

\* A request that was accepted still finds the rows it asked for when it
\* commits, as nothing deletes them.
OwnedInv ==
    /\ \A n \in Sections \ Exceptions(OrphanedIn) : rows[n] > 0 => Hangs(n)
    /\ \A s \in Sessions : Open(s) =>
          \A n \in AddsIn(Asked(s)) \ Exceptions(OrphanedIn) : Hangs(n)

LEMMA OwnedInit == DesignInit => OwnedInv
<1> SUFFICES ASSUME DesignInit PROVE OwnedInv
    OBVIOUS
<1>1. \A n \in Sections : rows[n] > 0 => n = "profile"
    BY DEF DesignInit, Sections
<1>2. Hangs("profile")
    BY OwnersAsked DEF Hangs, DesignInit
<1>3. \A s \in Sessions : ~Open(s)
    <2>1. session = [s \in Sessions |-> Idle]
        BY DEF DesignInit
    <2> QED
        BY <2>1 DEF Open, Idle
<1> QED
    BY <1>1, <1>2, <1>3 DEF OwnedInv

\* Rows that others hang from do not go away.
LEMMA HangsKept ==
    ASSUME TypeInv, [DesignNext]_designVars,
           NEW n \in Sections \ Exceptions(OrphanedIn), Hangs(n)
    PROVE  Hangs(n)'
<1> DEFINE owners == Owners(Designs[design], n)
<1>1. design' = design
    BY RowsOrCommit
<1>2. ASSUME NEW s \in Sessions, CommitEdit(s), NEW o \in owners
      PROVE  rows'[o] > 0
    <2>1. o \in Sections /\ rows[o] \in Nat /\ rows[o] > 0
        BY <1>2, EditsAreNat DEF Hangs
    <2>2. /\ Asked(s) \in RequestsOf(Designs[design])
          /\ design \in DOMAIN Designs
        BY <1>2, AskedIsRequest DEF CommitEdit, Open
    <2>3. CASE Asked(s).on # o
        <3>1. rows'[o] = rows[o] \/ rows'[o] = rows[o] + 1
            BY <1>2, <2>1, <2>3, EditsAreNat DEF CommitEdit
        <3> QED
            BY <2>1, <3>1
    <2>4. CASE Asked(s).on = o
        <3>1. Asked(s).kind # "delete"
            BY <1>2, <2>2, <2>4, OwnersAsked DEF Sections, Exceptions
        <3>2. rows'[o] = AfterEdit(s, rows[o])
            BY <1>2, <2>1, <2>4, EditsAreNat DEF CommitEdit
        <3> QED
            BY <2>1, <3>1, <3>2 DEF AfterEdit
    <2> QED
        BY <2>3, <2>4
<1>3. ASSUME NEW s \in Sessions, Fail(s), NEW o \in owners
      PROVE  rows'[o] > 0
    <2>1. o \in Sections /\ rows[o] \in Nat /\ rows[o] > 0
        BY <1>3, EditsAreNat DEF Hangs
    <2>2. rows'[o] = rows[o] \/ rows'[o] = rows[o] + 1
        BY <1>3, <2>1, EditsAreNat DEF Fail
    <2> QED
        BY <2>1, <2>2
<1>4. \A o \in owners : rows'[o] > 0
    BY <1>2, <1>3, RowsOrCommit DEF Hangs
<1> QED
    BY <1>1, <1>4 DEF Hangs, Sections

LEMMA LoadHangs ==
    ASSUME TypeInv, NEW s \in Sessions,
           NEW name \in DOMAIN Designs[design].requests, Load(s, name)
    PROVE  \A n \in AddsIn(Designs[design].requests[name])
                     \ Exceptions(OrphanedIn) : Hangs(n)
<1> DEFINE r == Designs[design].requests[name]
<1>1. r \in RequestsOf(Designs[design]) /\ design \in DOMAIN Designs
    BY DEF RequestsOf, TypeInv, DesignTypeOK
<1>2. r.needs \subseteq Sections
    BY <1>1, DesignsWellFormed DEF Sections
<1>3. \A o \in r.needs : rows[o] > 0
    BY DEF Load, Found
<1>4. ASSUME NEW n \in AddsIn(r) \ Exceptions(OrphanedIn)
      PROVE  Owners(Designs[design], n) \subseteq r.needs
    BY <1>1, <1>4, OwnersAsked DEF AddsIn, Exceptions
<1> QED
    BY <1>2, <1>3, <1>4 DEF Hangs

LEMMA OwnedStep == TypeInv /\ OwnedInv /\ [DesignNext]_designVars => OwnedInv'
<1> SUFFICES ASSUME TypeInv, OwnedInv, [DesignNext]_designVars PROVE OwnedInv'
    OBVIOUS
<1>1. /\ design' = design /\ Sections' = Sections
      /\ Exceptions(OrphanedIn)' = Exceptions(OrphanedIn)
    BY RowsOrCommit DEF Sections, Exceptions
<1>2. ASSUME NEW n \in Sections \ Exceptions(OrphanedIn), rows'[n] > 0
      PROVE  Hangs(n)'
    <2>1. rows[n] \in Nat
        BY EditsAreNat
    <2>2. CASE rows[n] > 0
        BY <2>2, HangsKept DEF OwnedInv
    <2>3. CASE rows[n] = 0
        <3>1. PICK s \in Sessions : CommitEdit(s) \/ Fail(s)
            BY <1>2, <2>3, RowsOrCommit
        <3>2. Open(s)
            BY <3>1 DEF CommitEdit, Fail, Open
        <3>3. CASE n \in Asked(s).logs
            <4>1. Hangs(n)
                BY <1>2, <3>2, <3>3 DEF OwnedInv, AddsIn
            <4> QED
                BY <4>1, HangsKept
        <3>4. CASE n \notin Asked(s).logs
            <4>1. CommitEdit(s) /\ Asked(s).on = n
                BY <1>2, <2>3, <3>1, <3>4, EditsAreNat DEF CommitEdit, Fail
            <4>2. rows'[n] = AfterEdit(s, 0)
                BY <2>3, <4>1, EditsAreNat DEF CommitEdit
            <4>3. Asked(s).kind \in {"unique", "insert", "upsert"}
                BY <1>2, <4>1, <4>2 DEF AfterEdit, Inserts, CommitEdit, Edits
            <4>4. Hangs(n)
                BY <1>2, <3>2, <4>1, <4>3 DEF OwnedInv, AddsIn
            <4> QED
                BY <4>4, HangsKept
        <3> QED
            BY <3>3, <3>4
    <2> QED
        BY <2>1, <2>2, <2>3
<1>3. ASSUME NEW s \in Sessions, Open(s)',
             NEW n \in AddsIn(Asked(s)') \ Exceptions(OrphanedIn)
      PROVE  Hangs(n)'
    <2>1. CASE Open(s) /\ Asked(s)' = Asked(s)
        <3>1. Hangs(n)
            BY <1>3, <2>1 DEF OwnedInv
        <3>2. n \in Sections
            BY <1>3, <2>1, AskedIsRequest, LoggedApart DEF AddsIn
        <3> QED
            BY <1>3, <3>1, <3>2, HangsKept
    <2>2. ASSUME NEW name \in DOMAIN Designs[design].requests, Load(s, name)
          PROVE  Hangs(n)'
        <3>1. Asked(s)' = Designs[design].requests[name]
            BY <2>2 DEF Asked, Load, TypeInv
        <3>2. rows' = rows
            BY <2>2 DEF Load
        <3> QED
            BY <1>1, <1>3, <2>2, <3>1, <3>2, LoadHangs DEF Hangs, Sections
    <2>3. \/ Open(s) /\ Asked(s)' = Asked(s)
          \/ \E name \in DOMAIN Designs[design].requests : Load(s, name)
        <3>1. CASE session'[s] = session[s]
            BY <1>1, <1>3, <3>1 DEF Open, Asked
        <3>2. CASE session'[s].request = session[s].request /\ Open(s)
            BY <1>1, <3>2 DEF Asked
        <3>3. \/ session'[s] = session[s]
              \/ session'[s] = Idle
              \/ session'[s].request = session[s].request /\ Open(s)
              \/ \E name \in DOMAIN Designs[design].requests : Load(s, name)
            <4>1. ASSUME NEW t \in Sessions, CommitEdit(t) \/ CommitRender(t)
                  PROVE  session'[s].request = session[s].request /\ Open(s)
                <5>1. \/ Ends(t, {Asked(t).on}, Cleared(Asked(t)))
                      \/ Ends(t, {}, Asked(t).writes)
                    BY <4>1 DEF CommitEdit, CommitRender
                <5>2. ASSUME NEW S, NEW C, Ends(t, S, C)
                      PROVE  session'[s].request = session[s].request /\ Open(s)
                    <6>1. Open(s)'
                        BY <1>3
                    <6>2. /\ Open(s)
                          /\ session'[s] =
                                [ stage |-> session[s].stage,
                                  request |-> session[s].request,
                                  found |-> session[s].found,
                                  loaded |-> session[s].loaded,
                                  left |-> session[s].left,
                                  seen |-> session[s].seen,
                                  stale |-> session[s].stale
                                     \cup (S \cap DOMAIN session[s].seen),
                                  foreign |-> session[s].foreign
                                     \cup (C \cap (Asked(s).clears
                                                   \cup Asked(s).writes)) ]
                        BY <5>2, <6>1, Ended
                    <6> QED
                        BY <6>2
                <5> QED
                    BY <5>1, <5>2
            <4>2. ASSUME Read(s)
                  PROVE  session'[s].request = session[s].request /\ Open(s)
                <5>1. Open(s) /\ Busy(session[s])
                    BY <4>2 DEF Read, TypeInv, SessionOK, Open
                <5> QED
                    BY <4>2, <5>1 DEF Read, Busy, TypeInv
            <4>3. CASE UNCHANGED designVars
                BY <4>3 DEF designVars
            <4>4. ASSUME NEW u \in Sessions, Forget(u) \/ Fail(u) \/ Abort(u)
                  PROVE  session'[s] = Idle \/ session'[s] = session[s]
                BY <4>4 DEF TypeInv, Forget, Fail, Abort
            <4>5. ASSUME NEW u \in Sessions, Read(u), u # s
                  PROVE  session'[s] = session[s]
                BY <4>5 DEF TypeInv, Read
            <4>6. ASSUME NEW u \in Sessions, u # s,
                         NEW name \in DOMAIN Designs[design].requests,
                         Load(u, name)
                  PROVE  session'[s] = session[s]
                BY <4>6 DEF TypeInv, Load
            <4> QED
                BY <4>1, <4>2, <4>3, <4>4, <4>5, <4>6 DEF DesignNext
        <3> QED
            BY <1>3, <3>1, <3>2, <3>3 DEF Open, Idle
    <2> QED
        BY <2>1, <2>2, <2>3
<1> QED
    BY <1>1, <1>2, <1>3 DEF OwnedInv

\* Rows are owned, although the rows an insertion hangs from are looked up in
\* an earlier query than the one that inserts.
THEOREM Owned == DesignSpec => []RowsOwned
<1>1. DesignSpec => [](TypeInv /\ OwnedInv)
    BY InitTyped, StepTyped, OwnedInit, OwnedStep, PTL DEF DesignSpec
<1>2. TypeInv /\ OwnedInv => RowsOwned
    BY EditsAreNat DEF OwnedInv, RowsOwned, Hangs
<1> QED
    BY <1>1, <1>2, PTL

-----------------------------------------------------------------------------
(* The texts.                                                              *)

\* What a session has loaded and read is what is committed, but for what is
\* foreign or stale to it.
FreshIn(s) ==
    /\ \A c \in Columns_ :
          c \in (Asked(s).clears \cup Asked(s).writes) \ session[s].foreign =>
             session[s].loaded[c] = cell[c]
    /\ \A n \in DOMAIN session[s].seen \ session[s].stale :
          session[s].seen[n] = edits[n]
Fresh == \A s \in Sessions : Open(s) => FreshIn(s)

Raw(c) == cell[c] # Null /\ c \notin mixed
Current(c, n) == cell[c][n] = edits[n]
Self(c) == SelfClearing(Designs[design], c)

\* A self-clearing text is current by itself, and so is what the hash says of
\* its sections; any other needs the hash beside it.
TextInv(c) ==
    /\ Certified(c) =>
         \A n \in DependsOn(c) :
            <<c, n>> \notin Exceptions(SilentTo) => Current(c, n)
    /\ Self(c) /\ Raw(c) => \A n \in DependsOn(c) : Current(c, n)
    /\ Self(c) /\ Covered(c) /\ Raw("content_hash") =>
         \A n \in DependsOn(c) : Current("content_hash", n)
    /\ Certified(c) /\ Covered(c) =>
         \A n \in DependsOn(c) : cell[c][n] = cell["content_hash"][n]

TextsInv == Fresh /\ \A c \in Columns_ : TextInv(c)

LEMMA TextsInit == DesignInit => TextsInv
<1> SUFFICES ASSUME DesignInit PROVE TextsInv
    OBVIOUS
<1>1. session = [s \in Sessions |-> Idle] /\ cell = [c \in Columns_ |-> Null]
    BY DEF DesignInit, Columns_
<1>2. Fresh
    BY <1>1 DEF Fresh, Open, Idle
<1>3. \A c \in Columns_ : cell[c] = Null
    BY <1>1
<1>4. \A c : Covered(c) => "content_hash" \in Columns_
    BY DEF Covered, CoveredIn, Columns_
<1> QED
    BY <1>2, <1>3, <1>4 DEF TextsInv, TextInv, Certified, Raw

\* A commit makes what it changes foreign or stale to the others.
LEMMA EndedFresh ==
    ASSUME TypeInv, Fresh, NEW s \in Sessions, NEW sections, NEW columns,
           Ends(s, sections, columns), design' = design,
           \A c \in Columns_ : c \notin columns => cell'[c] = cell[c],
           \A n \in Sections : n \notin sections => edits'[n] = edits[n]
    PROVE  Fresh'
<1> SUFFICES ASSUME NEW t \in Sessions, Open(t)' PROVE FreshIn(t)'
    BY DEF Fresh
<1> DEFINE q == session[t]
           st == q.stale \cup (sections \cap DOMAIN q.seen)
           fo == q.foreign
                   \cup (columns \cap (Asked(t).clears \cup Asked(t).writes))
<1>1. /\ Open(t)
      /\ session'[t] =
            [ stage |-> q.stage, request |-> q.request, found |-> q.found,
              loaded |-> q.loaded, left |-> q.left, seen |-> q.seen,
              stale |-> st, foreign |-> fo ]
    BY Ended
<1>2. /\ session'[t].loaded = q.loaded /\ session'[t].seen = q.seen
      /\ session'[t].stale = st /\ session'[t].foreign = fo
      /\ Asked(t)' = Asked(t) /\ Columns_' = Columns_
    BY <1>1 DEF Asked, Columns_
<1>3. FreshIn(t)
    BY <1>1 DEF Fresh
<1>4. \A n \in DOMAIN q.seen : n \in Sections
    BY <1>1 DEF TypeInv, SessionOK
<1>5. ASSUME NEW c \in Columns_,
             c \in (Asked(t).clears \cup Asked(t).writes) \ fo
      PROVE  q.loaded[c] = cell'[c]
    BY <1>3, <1>5 DEF FreshIn
<1>6. ASSUME NEW n \in DOMAIN q.seen \ st PROVE q.seen[n] = edits'[n]
    BY <1>3, <1>4, <1>6 DEF FreshIn
<1> HIDE DEF st, fo
<1> QED
    BY <1>2, <1>5, <1>6 DEF FreshIn

LEMMA QuietTexts ==
    ASSUME \A c \in Columns_ : TextInv(c),
           UNCHANGED <<design, cell, edits, mixed>>
    PROVE  \A c \in Columns_ : TextInv(c)'
BY DEF TextInv, Certified, Covered, Raw, Current, Self, DependsOn, Columns_,
       Exceptions

\* The columns that are not mixed after an edit are as they were, and those it
\* clears are clear: one that has been rendered since and left alone is mixed.
LEMMA EditedColumn ==
    ASSUME TypeInv, Fresh, NEW s \in Sessions, CommitEdit(s),
           NEW c \in Columns_, Raw(c)'
    PROVE  Raw(c) /\ cell'[c] = cell[c] /\ c \notin Cleared(Asked(s))
<1> DEFINE r == Asked(s)
<1>1. FreshIn(s)
    BY DEF Fresh, CommitEdit, Open
<1>2. c \notin mixed /\ ~(c \in r.clears /\ LeftAlone(c, Null, s))
    BY DEF Raw, CommitEdit
<1>3. cell'[c] # Null
    BY DEF Raw
<1>4. c \notin r.updates
    BY <1>3 DEF CommitEdit
<1>5. ASSUME c \in r.clears PROVE FALSE
    <2>1. cell'[c] = Written(c, Null, s)
        BY <1>4, <1>5 DEF CommitEdit
    <2>2. session[s].loaded[c] = Null /\ cell'[c] = cell[c]
        BY <1>3, <2>1 DEF Written
    <2>3. c \notin session[s].foreign
        BY <1>2, <1>5, <2>2 DEF LeftAlone
    <2>4. session[s].loaded[c] = cell[c]
        BY <1>1, <1>5, <2>3 DEF FreshIn
    <2> QED
        BY <1>3, <2>2, <2>4
<1>6. cell'[c] = cell[c]
    BY <1>4, <1>5 DEF CommitEdit
<1> QED
    BY <1>2, <1>3, <1>4, <1>5, <1>6 DEF Raw, Cleared

\* An edit changes its own section, unless it makes the root.
LEMMA EditedSection ==
    ASSUME TypeInv, NEW s \in Sessions, CommitEdit(s), NEW n \in Sections,
           edits'[n] # edits[n]
    PROVE  n = Asked(s).on /\ ~Founds(Asked(s))
BY EditsAreNat DEF CommitEdit, Founds, Inserts

LEMMA EditTexts ==
    ASSUME TypeInv, TextsInv, NEW s \in Sessions, CommitEdit(s),
           NEW c \in Columns_
    PROVE  TextInv(c)'
<1> DEFINE r == Asked(s)
           h == "content_hash"
<1>1. /\ r \in RequestsOf(Designs[design]) /\ design \in DOMAIN Designs
      /\ design' = design /\ r.kind \in Edits
    BY AskedIsRequest DEF CommitEdit, Open
<1>2. /\ DependsOn(c)' = DependsOn(c) /\ (Self(c)' <=> Self(c))
      /\ (Covered(c)' <=> Covered(c)) /\ Columns_' = Columns_
      /\ Exceptions(SilentTo)' = Exceptions(SilentTo)
      /\ (Covered(c) => h \in Columns_)
    BY <1>1 DEF DependsOn, Self, Covered, CoveredIn, Columns_, Exceptions
<1>3. TextInv(c) /\ Fresh
    BY DEF TextsInv
<1>4. /\ Raw(c)' => Raw(c) /\ cell'[c] = cell[c] /\ c \notin Cleared(r)
      /\ Covered(c) /\ Raw(h)' =>
            Raw(h) /\ cell'[h] = cell[h] /\ h \notin Cleared(r)
    BY <1>2, <1>3, EditedColumn
<1>5. DependsOn(c) \subseteq Sections
    BY <1>1, DesignsWellFormed DEF DependsOn, Columns_, Sections
<1>6. \A n \in DependsOn(c) : edits'[n] # edits[n] => n = r.on /\ ~Founds(r)
    BY <1>5, EditedSection
<1>7. /\ Certified(c)' => Certified(c) /\ Raw(c)' /\ (Covered(c) => Raw(h)')
      /\ Raw(c)' => Raw(c)
      /\ Covered(c) /\ Raw(h)' => Raw(h)
    BY <1>2, <1>4 DEF Certified, Raw
<1>8. ASSUME Certified(c)', NEW n \in DependsOn(c),
             <<c, n>> \notin Exceptions(SilentTo)
      PROVE  Current(c, n)'
    <2>1. Current(c, n) /\ cell'[c] = cell[c]
        BY <1>3, <1>4, <1>7, <1>8 DEF TextInv
    <2>2. edits'[n] = edits[n]
        <3> SUFFICES ASSUME edits'[n] # edits[n] PROVE FALSE
            OBVIOUS
        <3>1. n = r.on /\ ~Founds(r)
            BY <1>6
        <3>2. c \notin Cleared(r) /\ (Covered(c) => h \notin Cleared(r))
            BY <1>4, <1>7, <1>8
        <3> QED
            BY <1>1, <1>8, <3>1, <3>2, ChangesClear
               DEF Columns_, DependsOn, Covered, Exceptions
    <2> QED
        BY <2>1, <2>2 DEF Current
<1>9. ASSUME Self(c), NEW n \in DependsOn(c), edits'[n] # edits[n]
      PROVE  {c, h} \subseteq Cleared(r)
    BY <1>1, <1>6, <1>9 DEF Self, SelfClearing, DependsOn
<1>10. ASSUME Self(c), Raw(c)', NEW n \in DependsOn(c) PROVE Current(c, n)'
    BY <1>3, <1>4, <1>7, <1>9, <1>10 DEF TextInv, Current
<1>11. ASSUME Self(c), Covered(c), Raw(h)', NEW n \in DependsOn(c)
       PROVE  Current(h, n)'
    BY <1>3, <1>4, <1>7, <1>9, <1>11 DEF TextInv, Current
<1>12. ASSUME Certified(c)', Covered(c), NEW n \in DependsOn(c)
       PROVE  cell'[c][n] = cell'[h][n]
    BY <1>3, <1>4, <1>7, <1>12 DEF TextInv
<1> QED
    BY <1>2, <1>8, <1>10, <1>11, <1>12 DEF TextInv

\* A column that a render writes and that is not mixed is what the rows are.
LEMMA RenderedColumn ==
    ASSUME TypeInv, Fresh, NEW s \in Sessions, CommitRender(s),
           NEW c \in Columns_
    PROVE  /\ c \notin Asked(s).writes =>
                cell'[c] = cell[c] /\ (Raw(c)' => Raw(c))
           /\ c \in Asked(s).writes /\ Raw(c)' =>
                \A n \in DependsOn(c) : cell'[c][n] = edits[n]
<1>1. FreshIn(s)
    BY DEF Fresh, CommitRender, Open
<1>2. c \notin Asked(s).writes => cell'[c] = cell[c] /\ (Raw(c)' => Raw(c))
    BY DEF CommitRender, Raw
<1>3. ASSUME c \in Asked(s).writes, Raw(c)', NEW n \in DependsOn(c)
      PROVE  cell'[c][n] = edits[n]
    <2>1. /\ ~LeftAlone(c, Rendered(s, c), s)
          /\ DependsOn(c) \cap session[s].stale = {}
        BY <1>3 DEF CommitRender, Raw
    <2>2. cell'[c] = Written(c, Rendered(s, c), s)
        BY <1>3 DEF CommitRender
    <2>3. cell'[c] = Rendered(s, c)
        BY <1>1, <1>3, <2>1, <2>2 DEF Written, LeftAlone, FreshIn
    <2>4. n \in DOMAIN session[s].seen \ session[s].stale
        BY <1>3, <2>1, RenderedTyped DEF CommitRender
    <2>5. session[s].seen[n] = edits[n]
        BY <1>1, <2>4 DEF FreshIn
    <2> QED
        BY <1>3, <2>3, <2>5 DEF Rendered
<1> QED
    BY <1>2, <1>3

LEMMA RenderTexts ==
    ASSUME TypeInv, TextsInv, NEW s \in Sessions, CommitRender(s),
           NEW c \in Columns_
    PROVE  TextInv(c)'
<1> DEFINE r == Asked(s)
           h == "content_hash"
<1>1. /\ r \in RequestsOf(Designs[design]) /\ design \in DOMAIN Designs
      /\ design' = design /\ r.kind = "render"
      /\ edits' = edits
    BY AskedIsRequest DEF CommitRender, Open
<1>2. /\ DependsOn(c)' = DependsOn(c) /\ (Self(c)' <=> Self(c))
      /\ (Covered(c)' <=> Covered(c)) /\ Columns_' = Columns_
      /\ Exceptions(SilentTo)' = Exceptions(SilentTo)
      /\ (Covered(c) => h \in Columns_ /\ DependsOn(c) \subseteq DependsOn(h))
    BY <1>1 DEF DependsOn, Self, Covered, CoveredIn, Columns_, Exceptions
<1>3. TextInv(c) /\ Fresh
    BY DEF TextsInv
<1>4. /\ c \notin r.writes => cell'[c] = cell[c]
      /\ c \in r.writes /\ Raw(c)' => \A n \in DependsOn(c) : Current(c, n)'
    BY <1>1, <1>3, RenderedColumn DEF Current
<1>5. Covered(c) =>
        /\ h \notin r.writes => cell'[h] = cell[h]
        /\ h \in r.writes /\ Raw(h)' =>
              \A n \in DependsOn(c) : Current(h, n)'
    BY <1>1, <1>2, <1>3, RenderedColumn DEF Current
<1>6. Covered(c) => Self(c) \/ (c \in r.writes <=> h \in r.writes)
    BY <1>1, RendersWhole DEF Covered, Self, Columns_
<1>7. Raw(c)' /\ c \notin r.writes => Raw(c)
    BY <1>3, RenderedColumn
<1>8. Covered(c) /\ Raw(h)' /\ h \notin r.writes => Raw(h)
    BY <1>2, <1>3, RenderedColumn
<1>9. Certified(c)' => Raw(c)' /\ (Covered(c) => Raw(h)')
    BY <1>2 DEF Certified, Raw
<1>10. Raw(c) /\ (Covered(c) => Raw(h)) => Certified(c)
    BY DEF Certified, Raw
<1>11. ASSUME Self(c), Raw(c)', NEW n \in DependsOn(c) PROVE Current(c, n)'
    BY <1>1, <1>3, <1>4, <1>7, <1>11 DEF TextInv, Current
<1>12. ASSUME Self(c), Covered(c), Raw(h)', NEW n \in DependsOn(c)
       PROVE  Current(h, n)'
    BY <1>1, <1>3, <1>5, <1>8, <1>12 DEF TextInv, Current
<1>13. ASSUME Certified(c)', NEW n \in DependsOn(c),
              <<c, n>> \notin Exceptions(SilentTo)
       PROVE  Current(c, n)'
    <2>1. CASE c \in r.writes
        BY <1>4, <1>9, <1>13, <2>1
    <2>2. CASE Self(c)
        BY <1>9, <1>11, <1>13, <2>2
    <2>3. CASE c \notin r.writes /\ ~Self(c)
        <3>1. Certified(c)
            BY <1>6, <1>7, <1>8, <1>9, <1>10, <1>13, <2>3
        <3> QED
            BY <1>1, <1>3, <1>4, <1>13, <2>3, <3>1 DEF TextInv, Current
    <2> QED
        BY <2>1, <2>2, <2>3
<1>14. ASSUME Certified(c)', Covered(c), NEW n \in DependsOn(c)
       PROVE  cell'[c][n] = cell'[h][n]
    <2>1. CASE c \in r.writes /\ h \in r.writes
        BY <1>4, <1>5, <1>9, <1>14, <2>1 DEF Current
    <2>2. CASE Self(c)
        BY <1>9, <1>11, <1>12, <1>14, <2>2 DEF Current
    <2>3. CASE c \notin r.writes /\ h \notin r.writes
        <3>1. Certified(c)
            BY <1>7, <1>8, <1>9, <1>10, <1>14, <2>3
        <3> QED
            BY <1>3, <1>4, <1>5, <1>14, <2>3, <3>1 DEF TextInv
    <2> QED
        BY <1>6, <1>14, <2>1, <2>2, <2>3
<1> QED
    BY <1>2, <1>11, <1>12, <1>13, <1>14 DEF TextInv

\* Load and read take what is there.
LEMMA LoadFresh ==
    ASSUME TypeInv, NEW s \in Sessions,
           NEW name \in DOMAIN Designs[design].requests, Load(s, name)
    PROVE  FreshIn(s)'
<1>1. /\ session'[s].loaded = cell /\ cell' = cell /\ edits' = edits
      /\ session'[s].seen = [n \in {"profile"} |-> edits[n]]
    BY DEF Load, TypeInv
<1> QED
    BY <1>1 DEF FreshIn

LEMMA ReadFresh ==
    ASSUME TypeInv, NEW s \in Sessions, Read(s), FreshIn(s)
    PROVE  FreshIn(s)'
<1> DEFINE q == session[s]
           at == Head(q.left)
           sn == [n \in DOMAIN q.seen \cup {at} |->
                    IF n = at THEN edits[at] ELSE q.seen[n]]
<1>1. Open(s) /\ Busy(q)
    BY DEF TypeInv, SessionOK, Read, Open
<1>2. /\ session'[s].loaded = q.loaded /\ session'[s].foreign = q.foreign
      /\ session'[s].seen = sn /\ session'[s].stale = q.stale \ {at}
      /\ session'[s].request = q.request
    BY <1>1 DEF Read, TypeInv, Busy
<1>3. /\ cell' = cell /\ edits' = edits /\ Columns_' = Columns_
      /\ Asked(s)' = Asked(s)
    BY <1>2 DEF Read, Columns_, Asked
<1>4. \A n \in DOMAIN sn \ (q.stale \ {at}) : sn[n] = edits[n]
    BY DEF FreshIn
<1> HIDE DEF sn
<1> QED
    BY <1>2, <1>3, <1>4 DEF FreshIn

LEMMA QuietFresh ==
    ASSUME TypeInv, Fresh, NEW s \in Sessions,
           \/ \E name \in DOMAIN Designs[design].requests : Load(s, name)
           \/ Read(s) \/ Forget(s) \/ Fail(s) \/ Abort(s)
    PROVE  Fresh'
<1>1. cell' = cell /\ edits' = edits /\ design' = design
    BY DEF Load, Read, Forget, Fail, Abort
<1>2. ASSUME NEW t \in Sessions, Open(t)' PROVE FreshIn(t)'
    <2>1. CASE session'[t] = session[t]
        <3>1. FreshIn(t)
            BY <1>2, <2>1 DEF Fresh, Open
        <3> QED
            BY <1>1, <2>1, <3>1 DEF FreshIn, Asked, Columns_
    <2>2. CASE t # s
        <3>1. session'[t] = session[t]
            BY <2>2 DEF TypeInv, Load, Read, Forget, Fail, Abort
        <3> QED
            BY <2>1, <3>1
    <2>3. CASE t = s
        <3>1. ~(Forget(s) \/ Fail(s) \/ Abort(s))
            BY <1>2, <2>3 DEF TypeInv, Forget, Fail, Abort, Open, Idle
        <3>2. ASSUME Read(s) PROVE FreshIn(s)'
            BY <3>2, ReadFresh DEF Fresh, Read, Open
        <3> QED
            BY <2>3, <3>1, <3>2, LoadFresh
    <2> QED
        BY <2>2, <2>3
<1> QED
    BY <1>2 DEF Fresh

LEMMA TextsStep == TypeInv /\ TextsInv /\ [DesignNext]_designVars => TextsInv'
<1> SUFFICES ASSUME TypeInv, TextsInv, [DesignNext]_designVars PROVE TextsInv'
    OBVIOUS
<1>1. design' = design /\ Columns_' = Columns_ /\ Fresh
    BY RowsOrCommit DEF Columns_, TextsInv
<1>2. ASSUME NEW s \in Sessions, CommitEdit(s) PROVE TextsInv'
    <2>1. \A c \in Columns_ : c \notin Cleared(Asked(s)) => cell'[c] = cell[c]
        BY <1>2 DEF CommitEdit, Cleared
    <2>2. \A n \in Sections : n \notin {Asked(s).on} => edits'[n] = edits[n]
        BY <1>2, EditedSection
    <2>3. Ends(s, {Asked(s).on}, Cleared(Asked(s)))
        BY <1>2 DEF CommitEdit
    <2>4. Fresh'
        BY <1>1, <2>1, <2>2, <2>3, EndedFresh
    <2> QED
        BY <1>1, <1>2, <2>4, EditTexts DEF TextsInv
<1>3. ASSUME NEW s \in Sessions, CommitRender(s) PROVE TextsInv'
    <2>1. \A c \in Columns_ : c \notin Asked(s).writes => cell'[c] = cell[c]
        BY <1>3 DEF CommitRender
    <2>2. edits' = edits /\ Ends(s, {}, Asked(s).writes)
        BY <1>3 DEF CommitRender
    <2>3. Fresh'
        BY <1>1, <2>1, <2>2, EndedFresh
    <2> QED
        BY <1>1, <1>3, <2>3, RenderTexts DEF TextsInv
<1>4. ASSUME NEW s \in Sessions,
             \/ \E name \in DOMAIN Designs[design].requests : Load(s, name)
             \/ Read(s) \/ Forget(s) \/ Fail(s) \/ Abort(s)
      PROVE  TextsInv'
    <2>1. Fresh'
        BY <1>4, QuietFresh DEF TextsInv
    <2>2. UNCHANGED <<design, cell, edits, mixed>>
        BY <1>4 DEF Load, Read, Forget, Fail, Abort
    <2> QED
        BY <1>1, <2>1, <2>2, QuietTexts DEF TextsInv
<1>5. CASE UNCHANGED designVars
    <2>1. Fresh'
        BY <1>1, <1>5 DEF designVars, Fresh, FreshIn, Open, Asked, Columns_
    <2>2. UNCHANGED <<design, cell, edits, mixed>>
        BY <1>5 DEF designVars
    <2> QED
        BY <1>1, <2>1, <2>2, QuietTexts DEF TextsInv
<1> QED
    BY <1>2, <1>3, <1>4, <1>5 DEF DesignNext

LEMMA TextsHold == DesignSpec => []TextsInv
<1>1. DesignSpec => [](TypeInv /\ TextsInv)
    BY InitTyped, StepTyped, TextsInit, TextsStep, PTL DEF DesignSpec
<1> QED
    BY <1>1, PTL

\* However edits and renders overlap, a text that counts as good shows the rows
\* as they are.  Of the texts written while others were at work only those do not
\* count that lost a race: a section was changed between the render's query of it
\* and its commit, or a column written by another was left as that one wrote it.
THEOREM Texts == DesignSpec => []CertifiedIsCurrent
<1>1. TextsInv => CertifiedIsCurrent
    BY DEF TextsInv, TextInv, CertifiedIsCurrent, Current
<1> QED
    BY <1>1, TextsHold, PTL

\* The hash beside a text is the hash of that text, although half of the
\* services clear the one and leave the other.
THEOREM Hashes == DesignSpec => []HashMatchesTexts
<1>1. TextsInv => HashMatchesTexts
    BY DEF TextsInv, TextInv, HashMatchesTexts
<1> QED
    BY <1>1, TextsHold, PTL

=============================================================================
