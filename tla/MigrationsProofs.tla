-------------------------- MODULE MigrationsProofs --------------------------
(***************************************************************************)
(* What Migrations promises, for any chain of revisions that meets         *)
(* ChainAssumption, any commands, refusals and crashes: the tables and     *)
(* columns of a database at rest, the foreign keys of what is committed,   *)
(* and the rows revisions put there.                                       *)
(*                                                                         *)
(* The theorems are about databases that were installed from nothing at    *)
(* some release, have been upgraded to another, and are never taken below  *)
(* the first revision.  That 0001 runs with later models than those of the *)
(* revision a database stands at (early) stays with TLC.                   *)
(***************************************************************************)
EXTENDS Migrations, SequenceTheorems, TLAPS

Installed == version \in 1..Head_ /\ agenda \in Seq(1..Head_)

-----------------------------------------------------------------------------
(* What is known of a table at a revision, OneWay or not.                  *)

\* Columns a later revision adds for good, or removes for good.
Sticky(v) == UNION {Adds(w) \ Unadds(w) : w \in After_(v)}
Lost(v)   == UNION {Removes(w) : w \in After_(v)}

\* Tables a later downgrade has perhaps dropped.
Shaky(v)  == UNION {Drops(w) : w \in After_(v)}

Least(v, t) == {c \in ColumnsAt(v, t) : <<t, c>> \notin Lost(v)}
Most(v, t)  == ColumnsAt(v, t) \cup {p[2] : p \in {q \in Sticky(v) : q[1] = t}}

FitsTable(d, v, t) ==
    /\ t \in DOMAIN d => t \in TablesAt(v)
    /\ t \in TablesAt(v) \ Shaky(v) => t \in DOMAIN d
    /\ t \in DOMAIN d \ Rebuilt(v) =>
         Least(v, t) \subseteq Columns(d[t]) /\ Columns(d[t]) \subseteq Most(v, t)
Fits(d, v, X) == \A t \in AllTables \ X : FitsTable(d, v, t)

FitsFilled(f, v, X) == FilledAt(v) \ (OneWay(v) \cup X) \subseteq f

\* Tables with their rows, and those 0001 made, which may have none.
Settled     == filled \cup (bare \cap Guarded)
SettledBase == base.filled \cup (base.bare \cap Guarded)

Resolves(d, v, X) ==
    \A t \in DOMAIN d \ X :
       Targets(d[t]) \subseteq DOMAIN d \cup OneWay(v) \cup OneWay(v - 1) \cup X

\* The tables are known ones, and refer where their models do.
IsDb(d) ==
    /\ DOMAIN d \subseteq AllTables
    /\ \A t \in DOMAIN d : \A c \in DOMAIN d[t].refs :
          c \in DOMAIN Model(t).refs /\ d[t].refs[c] = Model(t).refs[c]

-----------------------------------------------------------------------------
(* The invariant.                                                          *)

TypeInv ==
    /\ version \in 1..Head_ /\ agenda \in Seq(1..Head_)
    /\ stage \in {"rest", "between", "revision"}
    /\ stage # "rest" => agenda # <<>>
    /\ stage = "revision" =>
         version # Head(agenda) /\ due \subseteq DOMAIN Statements
    /\ stage # "revision" => ~aborted
    /\ broken \subseteq Revisions_
    /\ base = [db |-> base.db, filled |-> base.filled, bare |-> base.bare,
               early |-> base.early, version |-> base.version]
    /\ base.version \in 1..Head_
    /\ IsDb(db) /\ IsDb(base.db)
    /\ filled \subseteq DOMAIN db /\ base.filled \subseteq DOMAIN base.db
    /\ bare \subseteq DOMAIN db /\ base.bare \subseteq DOMAIN base.db
    /\ early = {} /\ base.early = {}

Exempt == IF dialect = "sqlite" /\ stage = "revision"
          THEN Skipped \cup Touched(Current) ELSE Skipped
BaseInv ==
    /\ dialect = "sqlite" => base.version = version
    /\ Fits(base.db, base.version, Exempt)
    /\ FitsFilled(SettledBase, base.version, Exempt)
    /\ Resolves(base.db, base.version, Skipped)

RestInv ==
    stage # "revision" =>
       /\ Fits(db, version, Skipped)
       /\ FitsFilled(Settled, version, Skipped)

Pending(op, t)  == \E i \in due : Statements[i].op = op /\ Statements[i].table = t
PendingCell(op, t, c) ==
    \E i \in due : /\ Statements[i].op = op /\ Statements[i].table = t
                   /\ Statements[i].item = c
FilledBy(s) == IF s.op = "fill" THEN {s.table}
               ELSE IF s.op = "seed" THEN s.item ELSE {}
PendingFill(t) == \E i \in due : t \in FilledBy(Statements[i])

\* While a revision runs: outside of what it works on all is as before.
OutsideInv ==
    LET X == Skipped \cup Touched(Current) IN
    Fits(db, version, X) /\ FitsFilled(Settled, version, X)

UpTable(t) ==
    /\ t \in DOMAIN db => t \in TablesAt(Current)
    /\ t \in TablesAt(Current) \ (Shaky(Current) \cup Creates(Current)) =>
         t \in DOMAIN db
    /\ \A i \in DOMAIN Statements :
         Statements[i].op = "create" /\ Statements[i].table = t =>
            t \in DOMAIN db \/ i \in due
    /\ t \in DOMAIN db \ Rebuilt(Current) /\ ~Pending("create", t) =>
         /\ \A c \in Least(Current, t) :
               c \in Columns(db[t]) \/ PendingCell("addColumn", t, c)
         /\ \A c \in Columns(db[t]) :
               c \in Most(Current, t) \/ PendingCell("dropColumn", t, c)
    /\ t \in Fills(Current) => t \in Settled \/ PendingFill(t)

UpInv ==
    /\ \A t \in AllTables \ Skipped : UpTable(t)
    /\ FitsFilled(Settled, version, Skipped)

DownTable(t) ==
    /\ t \in DOMAIN db => t \in TablesAt(Current)
    /\ t \in TablesAt(Current) \ (Shaky(Current) \cup Drops(Current)) =>
         t \in DOMAIN db
    /\ t \in DOMAIN db \ (Drops(Current) \cup Rebuilt(Current)) =>
         /\ Least(Current - 1, t) \subseteq Columns(db[t])
         /\ Columns(db[t]) \subseteq Most(Current, t)

DownInv ==
    /\ \A t \in AllTables \ Skipped : DownTable(t)
    /\ \A i \in DOMAIN Statements :
         LET s == Statements[i] IN
         /\ s.op = "drop" /\ s.table \in DOMAIN db => i \in due
         /\ s.op = "dropColumn" /\ HasColumn(s.table, s.item) => i \in due
    /\ FitsFilled(Settled, Current - 1, Skipped)

RevisionInv ==
    stage = "revision" /\ ~aborted =>
       OutsideInv /\ (IF Upgrading THEN UpInv ELSE DownInv)

ResolveInv == ~aborted => Resolves(db, version, Skipped)

SchemaInv ==
    TypeInv /\ BaseInv /\ RestInv /\ RevisionInv /\ ResolveInv

-----------------------------------------------------------------------------
(* One revision and the next.                                              *)

LEMMA HeadIsNat == Head_ \in Nat /\ Revisions_ = {v \in Nat : 2 <= v /\ v <= Head_}
BY ChainAssumption DEF Head_, Revisions_

\* What follows revision v - 1 is v and what follows v.
LEMMA AfterStep ==
    ASSUME NEW v \in Revisions_
    PROVE  After_(v - 1) = After_(v) \cup {v}
BY HeadIsNat DEF After_

LEMMA SumsStep ==
    ASSUME NEW v \in Revisions_
    PROVE  /\ Sticky(v - 1) = Sticky(v) \cup (Adds(v) \ Unadds(v))
           /\ Lost(v - 1) = Lost(v) \cup Removes(v)
           /\ Shaky(v - 1) = Shaky(v) \cup Drops(v)
           /\ Rebuilt(v - 1) = Rebuilt(v) \cup CreatesBlind(v)
<1>1. Sticky(v - 1) = Sticky(v) \cup (Adds(v) \ Unadds(v))
  BY AfterStep DEF Sticky
<1>2. Lost(v - 1) = Lost(v) \cup Removes(v)
  BY AfterStep DEF Lost
<1>3. Shaky(v - 1) = Shaky(v) \cup Drops(v)
  BY AfterStep DEF Shaky
<1>4. Rebuilt(v - 1) = Rebuilt(v) \cup CreatesBlind(v)
  BY AfterStep DEF Rebuilt
<1> QED BY <1>1, <1>2, <1>3, <1>4

\* A revision adds the tables it creates.
LEMMA TablesStep ==
    ASSUME NEW v \in Revisions_
    PROVE  TablesAt(v) = TablesAt(v - 1) \cup Creates(v)
<1>1. v \in Nat /\ ~(v < 1) /\ ~(v - 1 < 1) /\ 2..v = (2..(v - 1)) \cup {v}
  BY HeadIsNat
<1>2. Creates(v) \subseteq AllTables
  BY ChainAssumption DEF CreatesWhatModelsSay, Creates, Created
<1> QED BY <1>1, <1>2, AfterStep DEF TablesAt

\* Later revisions have the tables of earlier ones.
LEMMA TablesGrow ==
    ASSUME NEW v \in 1..Head_, NEW u \in 0..v
    PROVE  TablesAt(u) \subseteq TablesAt(v)
<1>1. u \in Nat /\ v \in Nat /\ ~(v < 1) /\ u <= v
  BY HeadIsNat
<1>2. CASE u < 1
  BY <1>2 DEF TablesAt
<1>3. CASE ~(u < 1)
  <2>1. After_(v) \subseteq After_(u) /\ 2..u \subseteq 2..v
    BY <1>1, HeadIsNat DEF After_
  <2>2. TablesAt(u) = (AllTables \ UNION {Creates(w) : w \in After_(u)})
                      \cup UNION {Creates(w) : w \in 2..u}
    BY <1>3 DEF TablesAt
  <2>3. TablesAt(v) = (AllTables \ UNION {Creates(w) : w \in After_(v)})
                      \cup UNION {Creates(w) : w \in 2..v}
    BY <1>1 DEF TablesAt
  <2> QED BY <2>1, <2>2, <2>3
<1> QED BY <1>2, <1>3

LEMMA CreatedTables ==
    ASSUME NEW v \in Revisions_
    PROVE  Creates(v) \subseteq AllTables /\ Drops(v) = Creates(v)
           /\ CreatesBlind(v) \subseteq Creates(v)
BY ChainAssumption
   DEF CreatesWhatModelsSay, DownUndoes, Creates, Created, CreatesBlind

LEMMA TablesKnown ==
    ASSUME NEW v \in 1..Head_
    PROVE  TablesAt(v) \subseteq AllTables
<1>1. \A w \in 2..v : w \in Revisions_
  BY HeadIsNat
<1> QED BY <1>1, CreatedTables, HeadIsNat DEF TablesAt

\* Of a table that is not OneWay everything is known.
LEMMA NotOneWay ==
    ASSUME NEW v \in 1..Head_, NEW t \in TablesAt(v), t \notin OneWay(v)
    PROVE  /\ t \notin Shaky(v) /\ t \notin Rebuilt(v)
           /\ \A c : <<t, c>> \notin Lost(v)
           /\ \A p \in Sticky(v) : p[1] # t
<1>1. \A w \in After_(v) : /\ t \notin Drops(w)
                           /\ \A p \in Adds(w) \ Unadds(w) : p[1] # t
                           /\ \A p \in Removes(w) \ Restores(w) : p[1] # t
  BY DEF OneWay, SymDiff
<1>2. \A w \in After_(v) : w \in Revisions_
  BY DEF After_
<1>3. t \notin Shaky(v) /\ t \notin Rebuilt(v)
  BY <1>1, <1>2, CreatedTables DEF Shaky, Rebuilt
<1>4. ASSUME NEW c, <<t, c>> \in Lost(v) PROVE FALSE
  <2>1. PICK w \in After_(v) : <<t, c>> \in Removes(w)
    BY <1>4 DEF Lost
  <2>2. <<t, c>> \notin Restores(w)
    BY <2>1, <1>2, ChainAssumption DEF DownUndoes, Restores, Cells
  <2> QED BY <1>1, <2>1, <2>2
<1>5. \A p \in Sticky(v) : p[1] # t
  BY <1>1 DEF Sticky
<1> QED BY <1>3, <1>4, <1>5

LEMMA OneWayStep ==
    ASSUME NEW v \in Revisions_
    PROVE  OneWay(v) \cap TablesAt(v - 1) \subseteq OneWay(v - 1)
BY AfterStep DEF OneWay

LEMMA ShakyIsOneWay ==
    ASSUME NEW v \in 1..Head_
    PROVE  TablesAt(v) \cap Shaky(v) \subseteq OneWay(v)
BY DEF Shaky, OneWay

-----------------------------------------------------------------------------
(* Columns.                                                                *)

Added(v) == UNION {Adds(w) : w \in After_(v)}

LEMMA CellsArePairs ==
    ASSUME NEW v \in Revisions_, NEW p \in Adds(v) \cup Unadds(v) \cup Removes(v)
    PROVE  p = <<p[1], p[2]>>
BY DEF Adds, Unadds, Removes, Cells

LEMMA LostArePairs ==
    ASSUME NEW v \in 1..Head_, NEW p \in Lost(v) \cup Sticky(v)
    PROVE  p = <<p[1], p[2]>>
BY CellsArePairs DEF Lost, Sticky, After_

\* The columns of a table at a release.
LEMMA ColumnsAre ==
    ASSUME NEW v \in 1..Head_, NEW t \in TablesAt(v)
    PROVE  /\ t \in DOMAIN Undeclared =>
                ColumnsAt(v, t) = Columns(Undeclared[t])
           /\ t \notin DOMAIN Undeclared =>
                \A c : c \in ColumnsAt(v, t) <=>
                          \/ c \in Columns(Declared[t]) /\ <<t, c>> \notin Added(v)
                          \/ <<t, c>> \in Lost(v)
<1>1. CASE t \in DOMAIN Undeclared
  BY <1>1 DEF ColumnsAt, Release
<1>2. CASE t \notin DOMAIN Undeclared
  <2> DEFINE columns == {c \in Columns(Declared[t]) : <<t, c>> \notin Added(v)}
                        \cup {p[2] : p \in {q \in Lost(v) : q[1] = t}}
             refs == DOMAIN Declared[t].refs \cap columns
  <2>1. Release(v)[t] = Table(columns \ refs, [c \in refs |-> Declared[t].refs[c]])
    BY <1>2 DEF Release, Added, Lost
  <2>2. ColumnsAt(v, t) = columns
    BY <2>1 DEF ColumnsAt, Columns, Table
  <2>3. \A c : (\E p \in Lost(v) : p[1] = t /\ p[2] = c) <=> <<t, c>> \in Lost(v)
    BY LostArePairs
  <2>4. \A c : c \in {p[2] : p \in {q \in Lost(v) : q[1] = t}}
               <=> <<t, c>> \in Lost(v)
    BY <2>3
  <2> QED BY <1>2, <2>2, <2>4
<1> QED BY <1>1, <1>2

LEMMA ColumnsStep ==
    ASSUME NEW v \in Revisions_, NEW t \in TablesAt(v - 1), NEW c
    PROVE  /\ c \in ColumnsAt(v, t) /\ <<t, c>> \notin Adds(v)
                => c \in ColumnsAt(v - 1, t)
           /\ c \in ColumnsAt(v - 1, t) /\ <<t, c>> \notin Removes(v)
                => c \in ColumnsAt(v, t)
<1>1. v \in 1..Head_ /\ v - 1 \in 1..Head_
  BY HeadIsNat
<1>2. t \in TablesAt(v)
  BY TablesStep
<1>3. Added(v - 1) = Added(v) \cup Adds(v)
  BY AfterStep DEF Added
<1>4. Lost(v - 1) = Lost(v) \cup Removes(v)
  BY SumsStep
<1> QED BY <1>1, <1>2, <1>3, <1>4, ColumnsAre

\* Up: what a table must have and may have at v, and did not have at v - 1, is
\* what revision v adds and removes.
LEMMA BoundsUp ==
    ASSUME NEW v \in Revisions_, NEW t \in TablesAt(v - 1), NEW c
    PROVE  /\ c \in Least(v, t) /\ <<t, c>> \notin Adds(v) => c \in Least(v - 1, t)
           /\ c \in Most(v - 1, t) /\ <<t, c>> \notin Removes(v) => c \in Most(v, t)
<1>1. c \in ColumnsAt(v, t) => <<t, c>> \notin Removes(v)
  <2>1. \A p \in Removes(v) : p[2] \notin ColumnsAt(v, p[1])
    BY ChainAssumption DEF ChangesAreNew
  <2> QED BY <2>1
<1>2. <<t, c>> \in Adds(v) => c \in ColumnsAt(v, t)
  <2>1. \A p \in Adds(v) : p[2] \in ColumnsAt(v, p[1])
    BY ChainAssumption DEF ChangesAreNew
  <2> QED BY <2>1
<1>3. c \in Least(v, t) /\ <<t, c>> \notin Adds(v) => c \in Least(v - 1, t)
  BY <1>1, ColumnsStep, SumsStep DEF Least
<1>4. ASSUME c \in Most(v - 1, t), <<t, c>> \notin Removes(v) PROVE c \in Most(v, t)
  <2>1. CASE c \in ColumnsAt(v - 1, t)
    BY <1>4, <2>1, ColumnsStep DEF Most
  <2>2. CASE c \notin ColumnsAt(v - 1, t)
    <3>1. PICK p \in Sticky(v - 1) : p[1] = t /\ p[2] = c
      BY <1>4, <2>2 DEF Most
    <3>2. CASE p \in Sticky(v)
      BY <3>1, <3>2 DEF Most
    <3>3. CASE p \in Adds(v)
      BY <3>1, <3>3, <1>2, CellsArePairs DEF Most
    <3> QED BY <3>1, <3>2, <3>3, SumsStep
  <2> QED BY <2>1, <2>2
<1> QED BY <1>3, <1>4

\* Down: the same the other way round.
LEMMA BoundsDown ==
    ASSUME NEW v \in Revisions_, NEW t \in TablesAt(v - 1), NEW c
    PROVE  /\ c \in Least(v - 1, t) => c \in Least(v, t) /\ <<t, c>> \notin Unadds(v)
           /\ c \in Most(v, t) /\ <<t, c>> \notin Unadds(v) => c \in Most(v - 1, t)
<1>1. <<t, c>> \in Adds(v) => c \notin ColumnsAt(v - 1, t)
  <2>1. \A p \in Adds(v) : p[2] \notin ColumnsAt(v - 1, p[1])
    BY ChainAssumption DEF ChangesAreNew
  <2> QED BY <2>1
<1>2. Unadds(v) \subseteq Adds(v)
  BY ChainAssumption DEF DownUndoes
<1>3. c \in Least(v - 1, t) => c \in Least(v, t) /\ <<t, c>> \notin Unadds(v)
  BY <1>1, <1>2, ColumnsStep, SumsStep DEF Least
<1>4. ASSUME c \in Most(v, t), <<t, c>> \notin Unadds(v) PROVE c \in Most(v - 1, t)
  <2>1. CASE <<t, c>> \in Adds(v)
    <3>1. <<t, c>> \in Sticky(v - 1) /\ <<t, c>>[1] = t /\ <<t, c>>[2] = c
      BY <1>4, <2>1, SumsStep
    <3> QED BY <3>1 DEF Most
  <2>2. CASE c \in ColumnsAt(v, t) /\ <<t, c>> \notin Adds(v)
    BY <2>2, ColumnsStep DEF Most
  <2>3. CASE c \notin ColumnsAt(v, t)
    <3>1. PICK p \in Sticky(v) : p[1] = t /\ p[2] = c
      BY <1>4, <2>3 DEF Most
    <3> QED BY <3>1, SumsStep DEF Most
  <2> QED BY <2>1, <2>2, <2>3
<1> QED BY <1>3, <1>4

-----------------------------------------------------------------------------
(* A database as installed.                                                *)

\* The more is left out of account, the less is asked.
LEMMA FitsMore ==
    ASSUME NEW d, NEW f, NEW v, NEW X, NEW Y, X \subseteq Y
    PROVE  /\ Fits(d, v, X) => Fits(d, v, Y)
           /\ FitsFilled(f, v, X) => FitsFilled(f, v, Y)
           /\ Resolves(d, v, X) => Resolves(d, v, Y)
BY DEF Fits, FitsFilled, Resolves

\* The tables of release v, as the models say they were, fit revision v.
LEMMA ReleaseFits ==
    ASSUME NEW v \in 1..Head_
    PROVE  /\ IsDb(Release(v)) /\ DOMAIN Release(v) = TablesAt(v)
           /\ FilledAt(v) \subseteq TablesAt(v)
           /\ Fits(Release(v), v, {})
           /\ FitsFilled(FilledAt(v), v, {})
           /\ Resolves(Release(v), v, {})
<1>1. DOMAIN Release(v) = TablesAt(v)
  BY DEF Release
<1>2. IsDb(Release(v))
  <2>1. ASSUME NEW t \in TablesAt(v), NEW c \in DOMAIN Release(v)[t].refs
        PROVE  /\ c \in DOMAIN Model(t).refs
               /\ Release(v)[t].refs[c] = Model(t).refs[c]
    <3>1. CASE t \in DOMAIN Undeclared
      BY <2>1, <3>1 DEF Release, Model
    <3>2. CASE t \notin DOMAIN Undeclared
      <4> DEFINE columns == {d \in Columns(Declared[t]) :
                                <<t, d>> \notin UNION {Adds(w) : w \in After_(v)}}
                            \cup {p[2] : p \in {q \in UNION {Removes(w) :
                                                 w \in After_(v)} : q[1] = t}}
                 refs == DOMAIN Declared[t].refs \cap columns
      <4>1. Release(v)[t] = Table(columns \ refs, [d \in refs |-> Declared[t].refs[d]])
        BY <3>2 DEF Release
      <4>2. Release(v)[t].refs = [d \in refs |-> Declared[t].refs[d]]
        BY <4>1 DEF Table
      <4> HIDE DEF columns
      <4>3. c \in refs
        BY <4>2
      <4> QED BY <3>2, <4>2, <4>3 DEF Model
    <3> QED BY <3>1, <3>2
  <2> QED BY <1>1, <2>1, TablesKnown DEF IsDb
<1>3. Fits(Release(v), v, {})
  BY <1>1 DEF Fits, FitsTable, Least, Most, ColumnsAt
<1>4. Resolves(Release(v), v, {})
  BY <1>1, ChainAssumption DEF Resolves, ReleaseResolves
<1> QED BY <1>1, <1>2, <1>3, <1>4 DEF FilledAt, FitsFilled

LEMMA InitHolds == Init /\ Installed => SchemaInv
<1> SUFFICES ASSUME Init, Installed PROVE SchemaInv
  OBVIOUS
<1>0. PICK p \in Plans :
         /\ version = p.release
         /\ filled = FilledAt(p.release) \ (TablesAt(p.installed) \cap Guarded)
         /\ bare = TablesAt(p.installed)
  BY DEF Init
<1>1. /\ db = Release(version) /\ early = {} /\ base = Saved
      /\ stage = "rest" /\ ~aborted /\ broken = {}
  BY DEF Init
<1>2. version \in 1..Head_ /\ agenda \in Seq(1..Head_)
  BY DEF Installed
<1>3. Skipped = {} /\ Exempt = {}
  BY <1>1 DEF Skipped, Exempt
<1>a. base = [db |-> db, filled |-> filled, bare |-> bare, early |-> early,
              version |-> version]
  BY <1>1 DEF Saved
<1>b. filled \subseteq TablesAt(version) /\ bare \subseteq TablesAt(version)
  <2>1. p.installed \in 0..version
    BY <1>0, PlansAssumption
  <2> QED BY <1>0, <1>2, <2>1, TablesGrow, ReleaseFits
<1>c. /\ SettledBase = Settled
      /\ FitsFilled(Settled, version, {})
  BY <1>0, <1>a DEF Settled, SettledBase, FitsFilled
<1>4. TypeInv
  BY <1>1, <1>2, <1>a, <1>b, ReleaseFits DEF TypeInv
<1>5. BaseInv /\ RestInv /\ ResolveInv
  BY <1>1, <1>2, <1>3, <1>a, <1>c, ReleaseFits DEF BaseInv, RestInv, ResolveInv
<1>6. RevisionInv
  BY <1>1 DEF RevisionInv
<1> QED BY <1>4, <1>5, <1>6 DEF SchemaInv

-----------------------------------------------------------------------------
(* The revision that runs.                                                 *)

LEMMA Goal ==
    ASSUME TypeInv, agenda # <<>>
    PROVE  Head(agenda) \in 1..Head_ /\ Tail(agenda) \in Seq(1..Head_)
<1>1. agenda \in Seq(1..Head_) /\ agenda # <<>>
  BY DEF TypeInv
<1> QED BY <1>1, HeadTailProperties

\* It is one of the chain, and goes one up or one down.
LEMMA CurrentKnown ==
    ASSUME TypeInv, agenda # <<>>, version # Head(agenda)
    PROVE  /\ Current \in Revisions_
           /\ Upgrading => /\ Current = version + 1 /\ Current - 1 = version
                           /\ Statements = Script(Current).up
           /\ ~Upgrading => /\ Current = version /\ Current - 1 \in 1..Head_
                            /\ Statements = Script(Current).down
BY HeadIsNat, Goal DEF TypeInv, Current, Upgrading, Statements

\* What its upgrade may do.
LEMMA UpStatement ==
    ASSUME TypeInv, agenda # <<>>, version # Head(agenda), Upgrading,
           NEW i \in DOMAIN Statements
    PROVE  LET s == Statements[i] IN
           /\ i \in Nat
           /\ s.op \in {"create", "addColumn", "dropColumn", "fill", "seed",
                        "integerForBoolean"}
           /\ ~s.try
           /\ s.op = "create" => s.table \in Creates(Current)
           /\ s.op = "addColumn" => <<s.table, s.item>> \in Adds(Current)
           /\ s.op = "dropColumn" => <<s.table, s.item>> \in Removes(Current)
           /\ FilledBy(s) \subseteq Fills(Current)
<1>1. Current \in Revisions_ /\ Statements = Script(Current).up
  BY CurrentKnown
<1>2. UpBuilds(Current)
  BY <1>1, ChainAssumption
<1>3. /\ i \in Nat /\ ~Statements[i].try
      /\ Statements[i].op \in {"create", "addColumn", "dropColumn", "fill",
                               "seed", "integerForBoolean"}
  BY <1>1, <1>2 DEF UpBuilds
<1>4. FilledBy(Statements[i]) \subseteq Fills(Current)
  BY <1>1 DEF FilledBy, Fills, Filled
<1>5. Statements[i].op = "create" => Statements[i].table \in Creates(Current)
  BY <1>1 DEF Creates, Created
<1>6. Statements[i].op = "addColumn" =>
        <<Statements[i].table, Statements[i].item>> \in Adds(Current)
  BY <1>1 DEF Adds, Cells
<1>7. Statements[i].op = "dropColumn" =>
        <<Statements[i].table, Statements[i].item>> \in Removes(Current)
  BY <1>1 DEF Removes, Cells
<1> QED BY <1>3, <1>4, <1>5, <1>6, <1>7

\* What its downgrade may do.
LEMMA DownStatement ==
    ASSUME TypeInv, agenda # <<>>, version # Head(agenda), ~Upgrading,
           NEW i \in DOMAIN Statements
    PROVE  LET s == Statements[i] IN
           /\ i \in Nat
           /\ s.op \in {"drop", "dropColumn"}
           /\ s.op = "drop" => s.table \in Drops(Current)
           /\ s.op = "dropColumn" => <<s.table, s.item>> \in Unadds(Current)
           /\ Due(s) \/ (s.op = "dropColumn" /\ ~HasColumn(s.table, s.item))
<1>1. Current \in Revisions_ /\ Statements = Script(Current).down
  BY CurrentKnown
<1>2. DownUndoes(Current)
  BY <1>1, ChainAssumption
<1>3. /\ i \in Nat /\ Statements[i].on = ""
      /\ Statements[i].op \in {"drop", "dropColumn"}
      /\ Statements[i].guard # "columnMissing"
      /\ Statements[i].guard = "columnPresent" => Statements[i].op = "dropColumn"
  BY <1>1, <1>2 DEF DownUndoes
<1> QED BY <1>1, <1>3 DEF Drops, Dropped, Unadds, Cells, Due

LEMMA SameRevision ==
    ASSUME agenda' = agenda, version' = version
    PROVE  Current' = Current /\ Statements' = Statements /\ Upgrading' = Upgrading
BY DEF Current, Statements, Upgrading

LEMMA SameSkipped ==
    ASSUME broken' = broken, early' = early
    PROVE  Skipped' = Skipped
BY DEF Skipped

\* Only 0001 makes tables of revisions to come, and no goal is below it.
LEMMA ExecuteKeepsEarly ==
    ASSUME TypeInv, Execute
    PROVE  early' = early /\ bare' = bare \cap DOMAIN db'
<1>1. PICK i \in due : /\ db' = After(Statements[i])
                       /\ bare' = BareAfter(Statements[i])
                       /\ early' = EarlyAfter(Statements[i])
  BY DEF Execute
<1>2. agenda # <<>> /\ version # Head(agenda) /\ i \in DOMAIN Statements
  BY DEF TypeInv, Execute
<1>3. Statements[i].op \notin {"createAll", "dropAll"}
  BY <1>2, UpStatement, DownStatement
<1> QED BY <1>1, <1>3 DEF BareAfter, EarlyAfter

LEMMA SettledAfter ==
    ASSUME TypeInv, Execute, NEW F
    PROVE  /\ DOMAIN db \subseteq DOMAIN db' /\ filled' = filled \cup F
                 => Settled' = Settled \cup F
           /\ filled' = filled \cap DOMAIN db'
                 => Settled' = Settled \cap DOMAIN db'
           /\ bare' \subseteq DOMAIN db'
BY ExecuteKeepsEarly DEF Settled, TypeInv

-----------------------------------------------------------------------------
(* An upgrade: the revision's guards are evaluated.                        *)

\* A statement is not due where its own work is done, or where the revision
\* broke off before.
LEMMA UpGuard ==
    ASSUME TypeInv, Fits(db, version, Skipped),
           agenda # <<>>, version # Head(agenda), Upgrading,
           NEW j \in DOMAIN Statements, ~Due(Statements[j])
    PROVE  LET s == Statements[j] IN
           \/ s.op = "create" /\ s.on = s.table /\ s.table \in DOMAIN db
           \/ s.op = "addColumn" /\ HasColumn(s.table, s.item)
           \/ s.op = "dropColumn" /\ ~HasColumn(s.table, s.item)
           \/ (IF s.op = "seed" THEN s.item ELSE {s.table}) \subseteq Skipped
<1> DEFINE s == Statements[j]
<1>1. Current \in Revisions_ /\ Statements = Script(Current).up
      /\ Current - 1 = version
  BY CurrentKnown
<1>2. UpBuilds(Current) /\ GuardsSpeakForOne(Current)
  BY <1>1, ChainAssumption
<1>3. CASE s.on # "" /\ s.on \in DOMAIN db /\ ~(s.op = "create" /\ s.on = s.table)
  <2>1. /\ s.on \in AllTables \ TablesAt(version)
        /\ \A w \in Revisions_ \ {Current} : s.on \notin Touched(w)
        /\ (IF s.op = "seed" THEN s.item ELSE {s.table}) \subseteq Touched(Current)
    BY <1>1, <1>2, <1>3 DEF GuardsSpeakForOne
  <2>2. s.on \in Skipped
    BY <1>3, <2>1 DEF Fits, FitsTable
  <2>3. PICK w \in broken : s.on \in Touched(w)
    BY <2>2 DEF Skipped, TypeInv
  <2>4. w = Current
    BY <2>1, <2>3 DEF TypeInv
  <2>5. Touched(Current) \subseteq Skipped
    BY <2>3, <2>4 DEF Skipped
  <2> QED BY <2>1, <2>5
<1>4. CASE s.guard = "columnMissing" /\ HasColumn(s.table, s.item)
  BY <1>1, <1>2, <1>4 DEF UpBuilds
<1>5. CASE s.guard = "columnPresent" /\ ~HasColumn(s.table, s.item)
  BY <1>1, <1>2, <1>5 DEF UpBuilds
<1> QED BY <1>3, <1>4, <1>5 DEF Due

LEMMA UpEnter ==
    ASSUME TypeInv, RestInv, Enter, Upgrading
    PROVE  UpInv'
<1>1. /\ agenda # <<>> /\ version # Head(agenda)
      /\ Fits(db, version, Skipped) /\ FitsFilled(Settled, version, Skipped)
  BY DEF TypeInv, RestInv, Enter
<1>2. /\ db' = db /\ Settled' = Settled /\ version' = version
      /\ Current' = Current /\ Statements' = Statements /\ Skipped' = Skipped
      /\ due' = {i \in DOMAIN Statements : Due(Statements[i])}
  BY SameRevision, SameSkipped DEF Enter, Settled
<1>3. /\ Current \in Revisions_ /\ Statements = Script(Current).up
      /\ Current - 1 = version
  BY <1>1, CurrentKnown
<1>4. ASSUME NEW t \in AllTables \ Skipped PROVE UpTable(t)'
  <2>1. FitsTable(db, version, t)
    BY <1>1, <1>4 DEF Fits
  <2>2. t \in DOMAIN db => t \in TablesAt(Current)
    BY <1>3, <2>1, TablesStep DEF FitsTable
  <2>3. t \in TablesAt(Current) \ (Shaky(Current) \cup Creates(Current)) =>
           t \in DOMAIN db
    BY <1>3, <2>1, TablesStep, SumsStep, CreatedTables DEF FitsTable
  <2>4. ASSUME NEW i \in DOMAIN Statements, i \notin due',
               Statements[i].op = "create", Statements[i].table = t
        PROVE  t \in DOMAIN db /\ Statements[i].on = t
    BY <1>1, <1>2, <1>4, <2>4, UpGuard
  <2>5. ASSUME t \in DOMAIN db \ Rebuilt(Current), ~Pending("create", t)'
        PROVE  /\ \A c \in Least(Current, t) :
                     c \in Columns(db[t]) \/ PendingCell("addColumn", t, c)'
               /\ \A c \in Columns(db[t]) :
                     c \in Most(Current, t) \/ PendingCell("dropColumn", t, c)'
    <3>1. t \in TablesAt(version)
      BY <2>1, <2>5 DEF FitsTable
    <3>2. t \notin CreatesBlind(Current)
      <4>1. \A i \in DOMAIN Statements :
               Statements[i].op = "create" /\ Statements[i].table = t => i \notin due'
        BY <1>2, <2>5 DEF Pending
      <4> QED BY <1>3, <2>4, <4>1 DEF CreatesBlind
    <3>3. Least(version, t) \subseteq Columns(db[t])
          /\ Columns(db[t]) \subseteq Most(version, t)
      BY <1>3, <2>1, <2>5, <3>2, SumsStep DEF FitsTable
    <3>4. ASSUME NEW c \in Least(Current, t), c \notin Columns(db[t])
          PROVE  PendingCell("addColumn", t, c)'
      <4>1. <<t, c>> \in Adds(Current)
        BY <1>3, <3>1, <3>3, <3>4, BoundsUp
      <4>2. PICK j \in DOMAIN Statements :
               Statements[j].op = "addColumn" /\ Statements[j].table = t
               /\ Statements[j].item = c
        BY <1>3, <4>1 DEF Adds, Cells
      <4>3. j \in due'
        BY <1>1, <1>2, <1>4, <3>4, <4>2, UpGuard DEF HasColumn
      <4> QED BY <1>2, <4>2, <4>3 DEF PendingCell
    <3>5. ASSUME NEW c \in Columns(db[t]), c \notin Most(Current, t)
          PROVE  PendingCell("dropColumn", t, c)'
      <4>1. <<t, c>> \in Removes(Current)
        BY <1>3, <3>1, <3>3, <3>5, BoundsUp
      <4>2. PICK j \in DOMAIN Statements :
               Statements[j].op = "dropColumn" /\ Statements[j].table = t
               /\ Statements[j].item = c
        BY <1>3, <4>1 DEF Removes, Cells
      <4>3. j \in due'
        BY <1>1, <1>2, <1>4, <2>5, <3>5, <4>2, UpGuard DEF HasColumn
      <4> QED BY <1>2, <4>2, <4>3 DEF PendingCell
    <3> QED BY <3>4, <3>5
  <2>6. ASSUME t \in Fills(Current) PROVE PendingFill(t)'
    <3>1. PICK j \in DOMAIN Statements :
             Statements[j].op \in {"fill", "seed"} /\ t \in FilledBy(Statements[j])
      BY <1>3, <2>6 DEF Fills, Filled, FilledBy
    <3>2. j \in due'
      BY <1>1, <1>2, <1>4, <3>1, UpGuard DEF FilledBy
    <3> QED BY <1>2, <3>1, <3>2 DEF PendingFill
  <2> QED BY <1>2, <2>2, <2>3, <2>4, <2>5, <2>6 DEF UpTable
<1> QED BY <1>1, <1>2, <1>4 DEF UpInv

-----------------------------------------------------------------------------
(* An upgrade: one statement.                                              *)

\* What a statement of an upgrade does to the tables.
LEMMA UpEffect ==
    ASSUME TypeInv, agenda # <<>>, version # Head(agenda), Upgrading,
           NEW i \in DOMAIN Statements, Accepted(Statements[i]),
           db' = After(Statements[i]), filled' = FilledAfter(Statements[i])
    PROVE  LET s == Statements[i] IN
           /\ DOMAIN db \subseteq DOMAIN db'
           /\ \A t \in DOMAIN db : s.op = "create" \/ t # s.table => db'[t] = db[t]
           /\ s.op = "create" =>
                 /\ s.table \notin DOMAIN db
                 /\ DOMAIN db' = DOMAIN db \cup {s.table} /\ db'[s.table] = s.item
           /\ s.op # "create" => DOMAIN db' = DOMAIN db
           /\ s.op = "addColumn" =>
                 /\ s.table \in DOMAIN db
                 /\ db'[s.table] = WithColumn(db[s.table], s.item)
           /\ s.op = "dropColumn" =>
                 /\ s.table \in DOMAIN db
                 /\ db'[s.table] = WithoutColumn(db[s.table], s.item)
           /\ s.op \notin {"create", "addColumn", "dropColumn"} => db' = db
           /\ filled' = filled \cup FilledBy(s)
           /\ FilledBy(s) \subseteq DOMAIN db
<1> DEFINE s == Statements[i]
<1>0. /\ s.op \in {"create", "addColumn", "dropColumn", "fill", "seed",
                   "integerForBoolean"}
      /\ filled \subseteq DOMAIN db
  BY UpStatement DEF TypeInv
<1>1. CASE s.op = "create"
  <2>1. db' = WithTable(s.table, s.item) /\ s.table \notin DOMAIN db
    BY <1>1 DEF After, Accepted
  <2>2. /\ DOMAIN db' = DOMAIN db \cup {s.table}
        /\ db'[s.table] = s.item
        /\ \A t \in DOMAIN db : db'[t] = db[t]
    BY <2>1 DEF WithTable
  <2>3. filled' = filled /\ FilledBy(s) = {}
    BY <1>0, <1>1, <2>2 DEF FilledAfter, FilledBy
  <2> QED BY <1>1, <2>1, <2>2, <2>3
<1>2. CASE s.op = "addColumn"
  <2>1. db' = [db EXCEPT ![s.table] = WithColumn(@, s.item)]
        /\ s.table \in DOMAIN db
    BY <1>2 DEF After, Accepted
  <2>2. filled' = filled /\ FilledBy(s) = {}
    BY <1>0, <1>2, <2>1 DEF FilledAfter, FilledBy
  <2> QED BY <1>2, <2>1, <2>2
<1>3. CASE s.op = "dropColumn"
  <2>1. db' = [db EXCEPT ![s.table] = WithoutColumn(@, s.item)]
        /\ s.table \in DOMAIN db
    BY <1>3 DEF After, Accepted, HasColumn
  <2>2. filled' = filled /\ FilledBy(s) = {}
    BY <1>0, <1>3, <2>1 DEF FilledAfter, FilledBy
  <2> QED BY <1>3, <2>1, <2>2
<1>4. CASE s.op \in {"fill", "seed", "integerForBoolean"}
  <2>1. db' = db
    BY <1>4 DEF After
  <2>2. filled' = filled \cup FilledBy(s) /\ FilledBy(s) \subseteq DOMAIN db
    BY <1>0, <1>4, <2>1 DEF FilledAfter, FilledBy, Accepted
  <2> QED BY <1>4, <2>1, <2>2
<1> QED BY <1>0, <1>1, <1>2, <1>3, <1>4

LEMMA ColumnEffect ==
    ASSUME NEW table, NEW c
    PROVE  /\ Columns(WithColumn(table, c)) = Columns(table) \cup {c}
           /\ WithColumn(table, c).refs = table.refs
           /\ Columns(WithoutColumn(table, c)) = Columns(table) \ {c}
           /\ DOMAIN WithoutColumn(table, c).refs \subseteq DOMAIN table.refs
           /\ \A d \in DOMAIN WithoutColumn(table, c).refs :
                 WithoutColumn(table, c).refs[d] = table.refs[d]
BY DEF Columns, WithColumn, WithoutColumn, Table

\* What the upgrade has still to do is done by what it has still to run.
LEMMA UpExecute ==
    ASSUME SchemaInv, Execute, Upgrading
    PROVE  UpInv'
<1>1. /\ TypeInv /\ agenda # <<>> /\ version # Head(agenda)
      /\ due \subseteq DOMAIN Statements /\ UpInv
  BY DEF SchemaInv, TypeInv, RevisionInv, Execute
<1>2. PICK i \in due : /\ IsNext(i) /\ Accepted(Statements[i])
                       /\ db' = After(Statements[i])
                       /\ filled' = FilledAfter(Statements[i])
                       /\ due' = due \ {i}
  BY DEF Execute
<1> DEFINE s == Statements[i]
<1>3. /\ version' = version /\ Skipped' = Skipped
      /\ Current' = Current /\ Statements' = Statements
  BY <1>1, ExecuteKeepsEarly, SameRevision, SameSkipped DEF Execute
<1>4. Current \in Revisions_ /\ Statements = Script(Current).up
  BY <1>1, CurrentKnown
<1>5. i \in DOMAIN Statements
  BY <1>1, <1>2
<1>6. /\ DOMAIN db \subseteq DOMAIN db'
      /\ \A t \in DOMAIN db : s.op = "create" \/ t # s.table => db'[t] = db[t]
      /\ s.op = "create" =>
            DOMAIN db' = DOMAIN db \cup {s.table} /\ db'[s.table] = s.item
      /\ s.op # "create" => DOMAIN db' = DOMAIN db
      /\ s.op = "addColumn" => db'[s.table] = WithColumn(db[s.table], s.item)
      /\ s.op = "dropColumn" => db'[s.table] = WithoutColumn(db[s.table], s.item)
      /\ s.op \notin {"create", "addColumn", "dropColumn"} => db' = db
      /\ Settled' = Settled \cup FilledBy(s)
  BY <1>1, <1>2, <1>5, UpEffect, SettledAfter
<1>7. ASSUME NEW t \in AllTables \ Skipped PROVE UpTable(t)'
  <2>1. UpTable(t)
    BY <1>1, <1>7 DEF UpInv
  <2>2. t \in DOMAIN db' => t \in TablesAt(Current)
    <3>1. s.op = "create" => s.table \in TablesAt(Current)
      BY <1>1, <1>4, <1>5, UpStatement, TablesStep
    <3> QED BY <1>6, <2>1, <3>1 DEF UpTable
  <2>3. t \in TablesAt(Current) \ (Shaky(Current) \cup Creates(Current)) =>
           t \in DOMAIN db'
    BY <1>6, <2>1 DEF UpTable
  <2>4. ASSUME NEW j \in DOMAIN Statements, j \notin due',
               Statements[j].op = "create", Statements[j].table = t
        PROVE  t \in DOMAIN db'
    BY <1>2, <1>6, <2>1, <2>4 DEF UpTable
  <2>5. ASSUME t \in DOMAIN db' \ Rebuilt(Current), ~Pending("create", t)'
        PROVE  /\ \A c \in Least(Current, t) :
                     c \in Columns(db'[t]) \/ PendingCell("addColumn", t, c)'
               /\ \A c \in Columns(db'[t]) :
                     c \in Most(Current, t) \/ PendingCell("dropColumn", t, c)'
    <3>1. CASE s.op = "create" /\ s.table = t
      <4>1. Columns(s.item) = ColumnsAt(Current, t)
        BY <1>4, <1>5, <2>5, <3>1, ChainAssumption DEF CreatesWhatModelsSay
      <4>2. db'[t] = s.item
        BY <1>6, <3>1
      <4> QED BY <4>1, <4>2 DEF Least, Most
    <3>2. CASE ~(s.op = "create" /\ s.table = t)
      <4>1. t \in DOMAIN db
        BY <1>6, <2>5, <3>2
      <4>2. ~Pending("create", t)
        BY <1>2, <1>3, <2>5, <3>2 DEF Pending
      <4>3. /\ \A c \in Least(Current, t) :
                  c \in Columns(db[t]) \/ PendingCell("addColumn", t, c)
            /\ \A c \in Columns(db[t]) :
                  c \in Most(Current, t) \/ PendingCell("dropColumn", t, c)
        BY <2>1, <2>5, <4>1, <4>2 DEF UpTable
      <4>4. ASSUME NEW op, NEW c, PendingCell(op, t, c), ~PendingCell(op, t, c)'
            PROVE  s.op = op /\ s.table = t /\ s.item = c
        BY <1>2, <1>3, <4>4 DEF PendingCell
      <4>5. CASE s.op = "addColumn" /\ s.table = t
        <5>1. Columns(db'[t]) = Columns(db[t]) \cup {s.item}
          BY <1>6, <4>5, ColumnEffect
        <5>2. s.item \in Most(Current, t)
          <6>1. <<t, s.item>> \in Adds(Current)
            BY <1>1, <1>5, <4>5, UpStatement
          <6>2. \A p \in Adds(Current) : p[2] \in ColumnsAt(Current, p[1])
            BY <1>4, ChainAssumption DEF ChangesAreNew
          <6> QED BY <6>1, <6>2 DEF Most
        <5> QED BY <4>3, <4>4, <4>5, <5>1, <5>2
      <4>6. CASE s.op = "dropColumn" /\ s.table = t
        <5>1. Columns(db'[t]) = Columns(db[t]) \ {s.item}
          BY <1>6, <4>6, ColumnEffect
        <5>2. s.item \notin Least(Current, t)
          <6>1. <<t, s.item>> \in Removes(Current)
            BY <1>1, <1>5, <4>6, UpStatement
          <6>2. \A p \in Removes(Current) : p[2] \notin ColumnsAt(Current, p[1])
            BY <1>4, ChainAssumption DEF ChangesAreNew
          <6> QED BY <6>1, <6>2 DEF Least
        <5> QED BY <4>3, <4>4, <4>6, <5>1, <5>2
      <4>7. CASE ~(s.op \in {"addColumn", "dropColumn"} /\ s.table = t)
        <5>1. db'[t] = db[t]
          BY <1>6, <4>1, <4>7
        <5> QED BY <4>3, <4>4, <4>7, <5>1
      <4> QED BY <4>5, <4>6, <4>7
    <3> QED BY <3>1, <3>2
  <2>6. ASSUME t \in Fills(Current) PROVE t \in Settled' \/ PendingFill(t)'
    <3>1. t \in Settled \/ PendingFill(t)
      BY <2>1, <2>6 DEF UpTable
    <3> QED BY <1>2, <1>3, <1>6, <3>1 DEF PendingFill
  <2> QED BY <1>3, <2>2, <2>3, <2>4, <2>5, <2>6 DEF UpTable
<1>8. FitsFilled(Settled', version, Skipped)
  BY <1>1, <1>6 DEF UpInv, FitsFilled
<1> QED BY <1>3, <1>7, <1>8 DEF UpInv

-----------------------------------------------------------------------------
(* A downgrade.                                                            *)

\* What a statement of a downgrade does to the tables.
LEMMA DownEffect ==
    ASSUME TypeInv, agenda # <<>>, version # Head(agenda), ~Upgrading,
           NEW i \in DOMAIN Statements, Accepted(Statements[i]),
           db' = After(Statements[i]), filled' = FilledAfter(Statements[i])
    PROVE  LET s == Statements[i] IN
           /\ DOMAIN db' = IF s.op = "drop" THEN DOMAIN db \ {s.table} ELSE DOMAIN db
           /\ \A t \in DOMAIN db' : s.op = "drop" \/ t # s.table => db'[t] = db[t]
           /\ s.op = "dropColumn" =>
                 /\ s.table \in DOMAIN db
                 /\ db'[s.table] = WithoutColumn(db[s.table], s.item)
           /\ filled' = filled \cap DOMAIN db'
<1> DEFINE s == Statements[i]
<1>0. s.op \in {"drop", "dropColumn"}
  BY DownStatement
<1>1. CASE s.op = "drop"
  BY <1>1 DEF After, FilledAfter
<1>2. CASE s.op = "dropColumn"
  <2>1. s.table \in DOMAIN db
    BY <1>2 DEF Accepted, HasColumn
  <2>2. db' = [db EXCEPT ![s.table] = WithoutColumn(@, s.item)]
    BY <1>2 DEF After
  <2>3. filled' = filled \cap DOMAIN After(s)
    BY <1>2 DEF FilledAfter
  <2> QED BY <1>2, <2>1, <2>2, <2>3
<1> QED BY <1>0, <1>1, <1>2

\* The tables a revision down has are those here that it does not create.
LEMMA TablesDown ==
    ASSUME NEW v \in Revisions_
    PROVE  /\ TablesAt(v) \ Drops(v) \subseteq TablesAt(v - 1)
           /\ TablesAt(v - 1) \subseteq TablesAt(v)
           /\ TablesAt(v - 1) \cap Drops(v) \subseteq OneWay(v - 1)
           /\ FilledAt(v - 1) \subseteq FilledAt(v)
<1>1. v \in After_(v - 1) /\ 2..(v - 1) \subseteq 2..v
  BY AfterStep, HeadIsNat
<1> QED BY <1>1, TablesStep, CreatedTables DEF OneWay, FilledAt

LEMMA DownEnter ==
    ASSUME TypeInv, RestInv, Enter, ~Upgrading
    PROVE  DownInv'
<1>1. /\ agenda # <<>> /\ version # Head(agenda)
      /\ Fits(db, version, Skipped) /\ FitsFilled(Settled, version, Skipped)
  BY DEF TypeInv, RestInv, Enter
<1>2. /\ db' = db /\ Settled' = Settled
      /\ Current' = Current /\ Statements' = Statements /\ Skipped' = Skipped
      /\ due' = {i \in DOMAIN Statements : Due(Statements[i])}
  BY SameRevision, SameSkipped DEF Enter, Settled
<1>3. Current \in Revisions_ /\ Current = version
  BY <1>1, CurrentKnown
<1>4. ASSUME NEW t \in AllTables \ Skipped PROVE DownTable(t)'
  <2>1. FitsTable(db, Current, t)
    BY <1>1, <1>3, <1>4 DEF Fits
  <2>2. ASSUME t \in DOMAIN db \ (Drops(Current) \cup Rebuilt(Current))
        PROVE  /\ Least(Current - 1, t) \subseteq Columns(db[t])
               /\ Columns(db[t]) \subseteq Most(Current, t)
    <3>1. t \in TablesAt(Current - 1)
      BY <1>3, <2>1, <2>2, TablesDown DEF FitsTable
    <3>2. /\ Least(Current, t) \subseteq Columns(db[t])
          /\ Columns(db[t]) \subseteq Most(Current, t)
      BY <2>1, <2>2 DEF FitsTable
    <3> QED BY <1>3, <3>1, <3>2, BoundsDown
  <2> QED BY <1>2, <2>1, <2>2 DEF DownTable, FitsTable
<1>5. ASSUME NEW i \in DOMAIN Statements
      PROVE  LET s == Statements[i] IN
             /\ s.op = "drop" /\ s.table \in DOMAIN db => i \in due'
             /\ s.op = "dropColumn" /\ HasColumn(s.table, s.item) => i \in due'
  BY <1>1, <1>2, DownStatement
<1>6. FitsFilled(Settled, Current - 1, Skipped)
  BY <1>1, <1>3, TablesDown, OneWayStep DEF FitsFilled, FilledAt
<1> QED BY <1>2, <1>4, <1>5, <1>6 DEF DownInv, HasColumn

LEMMA DownExecute ==
    ASSUME SchemaInv, Execute, ~Upgrading
    PROVE  DownInv'
<1>1. /\ TypeInv /\ agenda # <<>> /\ version # Head(agenda)
      /\ due \subseteq DOMAIN Statements /\ DownInv
  BY DEF SchemaInv, TypeInv, RevisionInv, Execute
<1>2. PICK i \in due : /\ IsNext(i) /\ Accepted(Statements[i])
                       /\ db' = After(Statements[i])
                       /\ filled' = FilledAfter(Statements[i])
                       /\ due' = due \ {i}
  BY DEF Execute
<1> DEFINE s == Statements[i]
<1>3. /\ Skipped' = Skipped
      /\ Current' = Current /\ Statements' = Statements
  BY <1>1, ExecuteKeepsEarly, SameRevision, SameSkipped DEF Execute
<1>4. Current \in Revisions_
  BY <1>1, CurrentKnown
<1>5. i \in DOMAIN Statements
  BY <1>1, <1>2
<1>6. /\ DOMAIN db' = IF s.op = "drop" THEN DOMAIN db \ {s.table} ELSE DOMAIN db
      /\ \A t \in DOMAIN db' : s.op = "drop" \/ t # s.table => db'[t] = db[t]
      /\ s.op = "dropColumn" => db'[s.table] = WithoutColumn(db[s.table], s.item)
      /\ filled' = filled \cap DOMAIN db'
      /\ Settled' = Settled \cap DOMAIN db' /\ bare' \subseteq DOMAIN db'
  BY <1>1, <1>2, <1>5, DownEffect, SettledAfter
<1>7. /\ s.op \in {"drop", "dropColumn"}
      /\ s.op = "drop" => s.table \in Drops(Current)
      /\ s.op = "dropColumn" => <<s.table, s.item>> \in Unadds(Current)
  BY <1>1, <1>5, DownStatement
<1>8. \A t \in DOMAIN db' : Columns(db'[t]) =
         IF s.op = "dropColumn" /\ s.table = t THEN Columns(db[t]) \ {s.item}
         ELSE Columns(db[t])
  <2>1. ASSUME NEW t \in DOMAIN db', s.op = "dropColumn", s.table = t
        PROVE  Columns(db'[t]) = Columns(db[t]) \ {s.item}
    BY <1>6, <2>1, ColumnEffect
  <2>2. ASSUME NEW t \in DOMAIN db', ~(s.op = "dropColumn" /\ s.table = t)
        PROVE  db'[t] = db[t]
    BY <1>6, <1>7, <2>2
  <2> QED BY <2>1, <2>2
<1>9. ASSUME NEW t \in AllTables \ Skipped PROVE DownTable(t)'
  <2>1. DownTable(t)
    BY <1>1, <1>9 DEF DownInv
  <2>2. ASSUME t \in DOMAIN db' \ (Drops(Current) \cup Rebuilt(Current))
        PROVE  /\ Least(Current - 1, t) \subseteq Columns(db'[t])
               /\ Columns(db'[t]) \subseteq Most(Current, t)
    <3>1. /\ Least(Current - 1, t) \subseteq Columns(db[t])
          /\ Columns(db[t]) \subseteq Most(Current, t)
          /\ t \in TablesAt(Current)
      BY <1>6, <2>1, <2>2 DEF DownTable
    <3>2. t \in TablesAt(Current - 1)
      BY <1>4, <2>2, <3>1, TablesDown
    <3>3. s.op = "dropColumn" /\ s.table = t => s.item \notin Least(Current - 1, t)
      BY <1>4, <1>7, <3>2, BoundsDown
    <3> QED BY <1>8, <2>2, <3>1, <3>3
  <2> QED BY <1>3, <1>6, <1>7, <2>1, <2>2 DEF DownTable
<1>10. ASSUME NEW j \in DOMAIN Statements
       PROVE  LET r == Statements[j] IN
              /\ r.op = "drop" /\ r.table \in DOMAIN db' => j \in due'
              /\ r.op = "dropColumn" /\ HasColumn(r.table, r.item)' => j \in due'
  <2> DEFINE r == Statements[j]
  <2>1. /\ r.op = "drop" /\ r.table \in DOMAIN db => j \in due
        /\ r.op = "dropColumn" /\ HasColumn(r.table, r.item) => j \in due
    BY <1>1 DEF DownInv
  <2>2. DOMAIN db' \subseteq DOMAIN db
        /\ \A t \in DOMAIN db' : Columns(db'[t]) \subseteq Columns(db[t])
    BY <1>6, <1>8
  <2>3. CASE j = i
    BY <1>3, <1>6, <1>8, <2>3 DEF HasColumn
  <2>4. CASE j # i
    BY <1>2, <1>3, <2>1, <2>2, <2>4 DEF HasColumn
  <2> QED BY <2>3, <2>4
<1>11. FitsFilled(Settled', Current - 1, Skipped)
  <2>1. FitsFilled(Settled, Current - 1, Skipped)
    BY <1>1 DEF DownInv
  <2>2. ASSUME NEW t \in FilledAt(Current - 1), t \in Settled,
               t \notin OneWay(Current - 1)
        PROVE  t \in DOMAIN db'
    <3>1. t \in DOMAIN db
      BY <1>1, <2>2 DEF Settled, TypeInv
    <3> QED BY <1>4, <1>6, <1>7, <2>2, <3>1, TablesDown DEF FilledAt
  <2> QED BY <1>6, <2>1, <2>2 DEF FitsFilled
<1> QED BY <1>3, <1>9, <1>10, <1>11 DEF DownInv, HasColumn

-----------------------------------------------------------------------------
(* Either way: what a statement leaves alone, and what refers to what.     *)

LEMMA ExecuteUp ==
    ASSUME SchemaInv, Execute, Upgrading
    PROVE  /\ IsDb(db') /\ filled' \subseteq DOMAIN db' /\ bare' \subseteq DOMAIN db'
           /\ OutsideInv'
           /\ Resolves(db', version, Skipped)
<1>1. /\ TypeInv /\ agenda # <<>> /\ version # Head(agenda)
      /\ due \subseteq DOMAIN Statements /\ UpInv /\ OutsideInv
      /\ Resolves(db, version, Skipped)
  BY DEF SchemaInv, TypeInv, RevisionInv, ResolveInv, Execute
<1>2. PICK i \in due : /\ IsNext(i) /\ Accepted(Statements[i])
                       /\ db' = After(Statements[i])
                       /\ filled' = FilledAfter(Statements[i])
  BY DEF Execute
<1> DEFINE s == Statements[i]
<1>3. /\ version' = version /\ Skipped' = Skipped /\ Current' = Current
  BY <1>1, ExecuteKeepsEarly, SameRevision, SameSkipped DEF Execute
<1>4. Current \in Revisions_ /\ Statements = Script(Current).up
      /\ Current - 1 = version
  BY <1>1, CurrentKnown
<1>5. i \in DOMAIN Statements
  BY <1>1, <1>2
<1>6. /\ DOMAIN db \subseteq DOMAIN db'
      /\ \A t \in DOMAIN db : s.op = "create" \/ t # s.table => db'[t] = db[t]
      /\ s.op = "create" =>
            DOMAIN db' = DOMAIN db \cup {s.table} /\ db'[s.table] = s.item
      /\ s.op # "create" => DOMAIN db' = DOMAIN db
      /\ s.op = "addColumn" => db'[s.table] = WithColumn(db[s.table], s.item)
      /\ s.op = "dropColumn" => db'[s.table] = WithoutColumn(db[s.table], s.item)
      /\ s.op \notin {"create", "addColumn", "dropColumn"} => db' = db
      /\ filled' = filled \cup FilledBy(s) /\ FilledBy(s) \subseteq DOMAIN db
      /\ Settled' = Settled \cup FilledBy(s) /\ bare' \subseteq DOMAIN db'
  BY <1>1, <1>2, <1>5, UpEffect, SettledAfter
<1>7. CreatesWhatModelsSay(Current) /\ ChangesAreNew(Current)
      /\ CreatedInOrder(Current)
  BY <1>4, ChainAssumption
<1>8. s.op = "create" =>
         /\ s.table \in AllTables
         /\ \A c \in DOMAIN s.item.refs :
               c \in DOMAIN Model(s.table).refs
               /\ s.item.refs[c] = Model(s.table).refs[c]
  BY <1>4, <1>5, <1>7 DEF CreatesWhatModelsSay
\* The tables that were there refer to what they did.
<1>9. ASSUME NEW t \in DOMAIN db, NEW c \in DOMAIN db'[t].refs
      PROVE  c \in DOMAIN db[t].refs /\ db'[t].refs[c] = db[t].refs[c]
  <2>1. CASE s.op = "addColumn" /\ s.table = t
    BY <1>6, <1>9, <2>1, ColumnEffect
  <2>2. CASE s.op = "dropColumn" /\ s.table = t
    BY <1>6, <1>9, <2>2, ColumnEffect
  <2>3. CASE ~(s.op \in {"addColumn", "dropColumn"} /\ s.table = t)
    BY <1>6, <1>9, <2>3
  <2> QED BY <2>1, <2>2, <2>3
<1>10. IsDb(db') /\ filled' \subseteq DOMAIN db' /\ bare' \subseteq DOMAIN db'
  <2>1. IsDb(db) /\ filled \subseteq DOMAIN db
    BY <1>1 DEF TypeInv
  <2>2. DOMAIN db' \subseteq AllTables
    BY <1>6, <1>8, <2>1 DEF IsDb
  <2>3. ASSUME NEW t \in DOMAIN db', NEW c \in DOMAIN db'[t].refs
        PROVE  c \in DOMAIN Model(t).refs /\ db'[t].refs[c] = Model(t).refs[c]
    <3>1. CASE t \in DOMAIN db
      BY <1>9, <2>1, <2>3, <3>1 DEF IsDb
    <3>2. CASE t \notin DOMAIN db
      BY <1>6, <1>8, <2>3, <3>2
    <3> QED BY <3>1, <3>2
  <2> QED BY <1>6, <2>1, <2>2, <2>3 DEF IsDb
<1>11. OutsideInv'
  <2> DEFINE X == Skipped \cup Touched(Current)
  <2>1. s.op \in {"create", "addColumn", "dropColumn"} => s.table \in X
    <3>1. s.op = "create" => s.table \in Creates(Current)
      BY <1>1, <1>5, UpStatement
    <3>2. s.op = "addColumn" => <<s.table, s.item>> \in Adds(Current)
      BY <1>1, <1>5, UpStatement
    <3>3. s.op = "dropColumn" => <<s.table, s.item>> \in Removes(Current)
      BY <1>1, <1>5, UpStatement
    <3>4. \A p \in Removes(Current) : p[1] \in Touched(Current)
      BY <1>7 DEF ChangesAreNew
    <3> QED BY <3>1, <3>2, <3>3, <3>4 DEF Touched
  <2>2. ASSUME NEW t \in AllTables \ X PROVE FitsTable(db', version, t)
    <3>1. /\ t \in DOMAIN db' <=> t \in DOMAIN db
          /\ t \in DOMAIN db => db'[t] = db[t]
      BY <1>6, <2>1, <2>2
    <3>2. FitsTable(db, version, t)
      BY <1>1, <2>2 DEF OutsideInv, Fits
    <3> QED BY <3>1, <3>2 DEF FitsTable
  <2>3. FitsFilled(Settled', version, X)
    BY <1>1, <1>6 DEF OutsideInv, FitsFilled
  <2> QED BY <1>3, <2>2, <2>3 DEF OutsideInv, Fits
<1>12. ASSUME NEW t \in DOMAIN db' \ Skipped, NEW y \in Targets(db'[t])
       PROVE  y \in DOMAIN db' \cup OneWay(version) \cup OneWay(version - 1)
                    \cup Skipped
  <2>1. CASE t \in DOMAIN db
    <3>1. y \in Targets(db[t])
      BY <1>9, <1>12, <2>1 DEF Targets
    <3> QED BY <1>1, <1>6, <1>12, <2>1, <3>1 DEF Resolves
  <2>2. CASE t \notin DOMAIN db
    <3>1. s.op = "create" /\ t = s.table /\ y \in Targets(s.item)
      BY <1>6, <1>12, <2>2
    <3>2. CASE y = t
      BY <1>12, <3>2
    <3>3. CASE y \in TablesAt(version) \ Skipped
      <4>1. y \in AllTables /\ UpTable(y) /\ version \in 1..Head_
        BY <1>1, <3>3, TablesKnown DEF UpInv, TypeInv
      <4>2. CASE y \in Shaky(version)
        BY <3>3, <4>1, <4>2, ShakyIsOneWay
      <4>3. CASE y \notin Shaky(version)
        BY <1>4, <1>6, <3>3, <4>1, <4>3, SumsStep, TablesStep, CreatedTables
           DEF UpTable
      <4> QED BY <4>2, <4>3
    <3>4. CASE y \notin {t} \cup TablesAt(version) \cup Skipped
      <4>1. PICK j \in DOMAIN Statements :
               j < i /\ Statements[j].op = "create" /\ Statements[j].table = y
        BY <1>4, <1>5, <1>7, <3>1, <3>4 DEF CreatedInOrder
      <4>2. y \in AllTables
        BY <1>4, <1>7, <4>1 DEF CreatesWhatModelsSay
      <4>3. j \notin due
        <5>1. i \in Nat /\ j \in Nat
          BY <1>1, <1>5, UpStatement
        <5> QED BY <1>2, <4>1, <5>1 DEF IsNext
      <4> QED BY <1>1, <1>6, <3>4, <4>1, <4>2, <4>3 DEF UpInv, UpTable
    <3> QED BY <3>2, <3>3, <3>4
  <2> QED BY <2>1, <2>2
<1> QED BY <1>10, <1>11, <1>12 DEF Resolves

LEMMA ExecuteDown ==
    ASSUME SchemaInv, Execute, ~Upgrading
    PROVE  /\ IsDb(db') /\ filled' \subseteq DOMAIN db' /\ bare' \subseteq DOMAIN db'
           /\ OutsideInv'
           /\ Resolves(db', version, Skipped)
<1>1. /\ TypeInv /\ agenda # <<>> /\ version # Head(agenda)
      /\ due \subseteq DOMAIN Statements /\ DownInv /\ OutsideInv
      /\ Resolves(db, version, Skipped)
  BY DEF SchemaInv, TypeInv, RevisionInv, ResolveInv, Execute
<1>2. PICK i \in due : /\ IsNext(i) /\ Accepted(Statements[i])
                       /\ db' = After(Statements[i])
                       /\ filled' = FilledAfter(Statements[i])
  BY DEF Execute
<1> DEFINE s == Statements[i]
<1>3. /\ version' = version /\ Skipped' = Skipped /\ Current' = Current
  BY <1>1, ExecuteKeepsEarly, SameRevision, SameSkipped DEF Execute
<1>4. /\ Current \in Revisions_ /\ Statements = Script(Current).down
      /\ Current = version
  BY <1>1, CurrentKnown
<1>5. i \in DOMAIN Statements
  BY <1>1, <1>2
<1>6. /\ DOMAIN db' = IF s.op = "drop" THEN DOMAIN db \ {s.table} ELSE DOMAIN db
      /\ \A t \in DOMAIN db' : s.op = "drop" \/ t # s.table => db'[t] = db[t]
      /\ s.op = "dropColumn" => db'[s.table] = WithoutColumn(db[s.table], s.item)
      /\ filled' = filled \cap DOMAIN db'
      /\ Settled' = Settled \cap DOMAIN db' /\ bare' \subseteq DOMAIN db'
  BY <1>1, <1>2, <1>5, DownEffect, SettledAfter
<1>7. /\ s.op \in {"drop", "dropColumn"}
      /\ s.op = "drop" => s.table \in Drops(Current)
      /\ s.op = "dropColumn" => <<s.table, s.item>> \in Unadds(Current)
  BY <1>1, <1>5, DownStatement
<1>8. DroppedInOrder(Current) /\ DownUndoes(Current)
  BY <1>4, ChainAssumption
<1>9. ASSUME NEW t \in DOMAIN db', NEW c \in DOMAIN db'[t].refs
      PROVE  c \in DOMAIN db[t].refs /\ db'[t].refs[c] = db[t].refs[c]
  <2>1. CASE s.op = "dropColumn" /\ s.table = t
    BY <1>6, <1>9, <2>1, ColumnEffect
  <2>2. CASE ~(s.op = "dropColumn" /\ s.table = t)
    BY <1>6, <1>7, <1>9, <2>2
  <2> QED BY <2>1, <2>2
<1>10. IsDb(db') /\ filled' \subseteq DOMAIN db' /\ bare' \subseteq DOMAIN db'
  <2>1. IsDb(db) /\ DOMAIN db' \subseteq DOMAIN db
    BY <1>1, <1>6 DEF TypeInv
  <2> QED BY <1>6, <1>9, <2>1 DEF IsDb
<1>11. OutsideInv'
  <2> DEFINE X == Skipped \cup Touched(Current)
  <2>1. s.table \in X
    <3>1. s.op = "drop" => s.table \in Creates(Current)
      BY <1>7, <1>8 DEF DownUndoes
    <3>2. s.op = "dropColumn" => <<s.table, s.item>> \in Adds(Current)
      BY <1>7, <1>8 DEF DownUndoes
    <3> QED BY <1>7, <3>1, <3>2 DEF Touched
  <2>2. ASSUME NEW t \in AllTables \ X PROVE FitsTable(db', version, t)
    <3>1. /\ t \in DOMAIN db' <=> t \in DOMAIN db
          /\ t \in DOMAIN db => db'[t] = db[t]
      BY <1>6, <2>1, <2>2
    <3>2. FitsTable(db, version, t)
      BY <1>1, <2>2 DEF OutsideInv, Fits
    <3> QED BY <3>1, <3>2 DEF FitsTable
  <2>3. FitsFilled(Settled', version, X)
    <3>1. Settled \ X \subseteq Settled'
      BY <1>1, <1>6, <2>1 DEF TypeInv, Settled
    <3> QED BY <1>1, <3>1 DEF OutsideInv, FitsFilled
  <2> QED BY <1>3, <2>2, <2>3 DEF OutsideInv, Fits
<1>12. ASSUME NEW t \in DOMAIN db' \ Skipped, NEW y \in Targets(db'[t])
       PROVE  y \in DOMAIN db' \cup OneWay(version) \cup OneWay(version - 1)
                    \cup Skipped
  <2>1. t \in DOMAIN db
    BY <1>6, <1>12
  <2>2. PICK c \in DOMAIN db'[t].refs : db'[t].refs[c] = y
    BY <1>12 DEF Targets
  <2>3. c \in DOMAIN db[t].refs /\ db[t].refs[c] = y
    BY <1>9, <1>12, <2>2
  <2>4. y \in DOMAIN db \cup OneWay(version) \cup OneWay(version - 1) \cup Skipped
    BY <1>1, <1>12, <2>1, <2>3 DEF Resolves, Targets
  <2>5. CASE s.op = "drop" /\ s.table = y /\ y \notin OneWay(version - 1)
    <3>1. t \in TablesAt(Current) \ {y}
      BY <1>1, <1>6, <1>12, <2>1, <2>5 DEF DownInv, DownTable, TypeInv, IsDb
    <3>2. c \in DOMAIN Model(t).refs /\ Model(t).refs[c] = y
      BY <1>1, <2>1, <2>3 DEF TypeInv, IsDb
    <3>3. PICK j \in DOMAIN Statements :
             /\ j < i /\ Statements[j].table = t
             /\ \/ Statements[j].op = "drop"
                \/ Statements[j].op = "dropColumn" /\ Statements[j].item = c
      BY <1>4, <1>5, <1>8, <2>5, <3>1, <3>2 DEF DroppedInOrder
    <3>4. j \in due
      BY <1>1, <2>1, <2>3, <3>3 DEF DownInv, HasColumn, Columns
    <3>5. j \notin due
      BY <1>1, <1>2, <1>5, <3>3, DownStatement DEF IsNext
    <3> QED BY <3>4, <3>5
  <2> QED BY <1>6, <2>4, <2>5
<1> QED BY <1>10, <1>11, <1>12 DEF Resolves

-----------------------------------------------------------------------------
(* The revision is done.                                                   *)

LEMMA StampUp ==
    ASSUME SchemaInv, Stamp, Upgrading
    PROVE  /\ version' = Current /\ version' \in 1..Head_
           /\ Fits(db, Current, Skipped)
           /\ FitsFilled(Settled, Current, Skipped)
           /\ Resolves(db, Current, Skipped)
<1>1. /\ TypeInv /\ agenda # <<>> /\ version # Head(agenda) /\ due = {}
      /\ UpInv /\ Resolves(db, version, Skipped) /\ version' = version + 1
  BY DEF SchemaInv, TypeInv, RevisionInv, ResolveInv, Stamp
<1>2. /\ Current \in Revisions_ /\ Statements = Script(Current).up
      /\ Current = version + 1 /\ Current - 1 = version
  BY <1>1, CurrentKnown
<1>3. Current \in 1..Head_ /\ version \in 1..Head_
  BY <1>1, <1>2, HeadIsNat DEF TypeInv
<1>4. ASSUME NEW t \in AllTables \ Skipped
      PROVE  /\ UpTable(t) /\ ~Pending("create", t) /\ ~PendingFill(t)
             /\ \A op, c : ~PendingCell(op, t, c)
  BY <1>1, <1>4 DEF UpInv, Pending, PendingCell, PendingFill
<1>5. ASSUME NEW t \in Creates(Current) \ Skipped PROVE t \in DOMAIN db
  <2>1. PICK j \in DOMAIN Statements :
           Statements[j].op = "create" /\ Statements[j].table = t
    BY <1>2, <1>5 DEF Creates, Created
  <2> QED BY <1>1, <1>2, <1>4, <1>5, <2>1, CreatedTables DEF UpTable
<1>6. ASSUME NEW t \in AllTables \ Skipped PROVE FitsTable(db, Current, t)
  <2>1. t \in TablesAt(Current) \ Shaky(Current) => t \in DOMAIN db
    BY <1>4, <1>5, <1>6 DEF UpTable
  <2>2. t \in DOMAIN db \ Rebuilt(Current) =>
           /\ Least(Current, t) \subseteq Columns(db[t])
           /\ Columns(db[t]) \subseteq Most(Current, t)
    BY <1>4, <1>6 DEF UpTable
  <2> QED BY <1>4, <1>6, <2>1, <2>2 DEF UpTable, FitsTable
<1>7. ASSUME NEW t \in FilledAt(Current), t \notin OneWay(Current), t \notin Skipped
      PROVE  t \in Settled
  <2>1. t \in AllTables /\ t \in TablesAt(Current)
    BY <1>3, <1>7, TablesKnown DEF FilledAt
  <2>2. PICK w \in 2..Current : t \in Fills(w)
    BY <1>7 DEF FilledAt
  <2>3. CASE t \in Fills(Current)
    BY <1>4, <1>7, <2>1, <2>3 DEF UpTable
  <2>4. CASE t \notin Fills(Current)
    <3>1. w \in 2..version /\ w \in Revisions_ /\ version \in Revisions_
      BY <1>2, <1>3, <2>2, <2>4, HeadIsNat
    <3>2. t \notin Creates(Current)
      BY <1>2, <2>2, <2>4, <3>1, ChainAssumption DEF FillsForGood
    <3>3. t \in FilledAt(version)
      BY <1>2, <2>1, <2>2, <3>1, <3>2, TablesStep DEF FilledAt
    <3>4. t \notin OneWay(version)
      BY <2>2, <3>1, ChainAssumption DEF FillsForGood
    <3> QED BY <1>1, <1>7, <3>3, <3>4 DEF UpInv, FitsFilled
  <2> QED BY <2>3, <2>4
\* What the revision below could leave without its target finds it here.
<1>8. ASSUME NEW t \in DOMAIN db \ Skipped, NEW y \in Targets(db[t])
      PROVE  y \in DOMAIN db \cup OneWay(Current) \cup OneWay(Current - 1)
                   \cup Skipped
  <2>1. y \in DOMAIN db \cup OneWay(version) \cup OneWay(version - 1) \cup Skipped
    BY <1>1, <1>8 DEF Resolves
  <2>2. CASE y \in OneWay(version - 1) \ Skipped
    <3>1. y \in TablesAt(version - 1)
      BY <2>2 DEF OneWay
    <3>2. y \in TablesAt(Current)
      <4>1. CASE version = 1
        <5>1. TablesAt(0) = {}
          BY DEF TablesAt
        <5> QED BY <3>1, <4>1, <5>1
      <4>2. CASE version # 1
        <5>1. version \in Revisions_
          BY <1>3, <4>2, HeadIsNat
        <5> QED BY <1>2, <3>1, <5>1, TablesStep
      <4> QED BY <4>1, <4>2
    <3>3. y \in AllTables
      BY <1>3, <3>2, TablesKnown
    <3>4. y \in DOMAIN db \/ y \in Shaky(Current)
      BY <1>6, <2>2, <3>2, <3>3 DEF FitsTable
    <3> QED BY <1>3, <3>2, <3>4, ShakyIsOneWay
  <2> QED BY <1>2, <2>1, <2>2
<1>9. Fits(db, Current, Skipped)
  BY <1>6 DEF Fits
<1>10. FitsFilled(Settled, Current, Skipped)
  BY <1>7 DEF FitsFilled
<1>11. Resolves(db, Current, Skipped)
  BY <1>8 DEF Resolves
<1> QED BY <1>1, <1>2, <1>3, <1>9, <1>10, <1>11

LEMMA StampDown ==
    ASSUME SchemaInv, Stamp, ~Upgrading
    PROVE  /\ version' = Current - 1 /\ version' \in 1..Head_
           /\ Fits(db, Current - 1, Skipped)
           /\ FitsFilled(Settled, Current - 1, Skipped)
           /\ Resolves(db, Current - 1, Skipped)
<1>1. /\ TypeInv /\ agenda # <<>> /\ version # Head(agenda) /\ due = {}
      /\ DownInv /\ Resolves(db, version, Skipped) /\ version' = version - 1
  BY DEF SchemaInv, TypeInv, RevisionInv, ResolveInv, Stamp
<1>2. /\ Current \in Revisions_ /\ Statements = Script(Current).down
      /\ Current = version /\ Current - 1 \in 1..Head_
  BY <1>1, CurrentKnown
<1>3. DroppedInOrder(Current) /\ IsDb(db)
  BY <1>1, <1>2, ChainAssumption DEF TypeInv
\* Nothing of what the revision takes away is left.
<1>4. ASSUME NEW t \in Drops(Current) PROVE t \notin DOMAIN db
  BY <1>1, <1>2, <1>4 DEF DownInv, Drops, Dropped
<1>5. ASSUME NEW t, NEW c, <<t, c>> \in Unadds(Current) PROVE ~HasColumn(t, c)
  <2>1. PICK j \in DOMAIN Statements :
           Statements[j].op = "dropColumn" /\ Statements[j].table = t
           /\ Statements[j].item = c
    BY <1>2, <1>5 DEF Unadds, Cells
  <2> QED BY <1>1, <2>1 DEF DownInv
<1>6. ASSUME NEW t \in AllTables \ Skipped PROVE FitsTable(db, Current - 1, t)
  <2>1. DownTable(t)
    BY <1>1, <1>6 DEF DownInv
  <2>2. t \in DOMAIN db => t \in TablesAt(Current - 1)
    BY <1>2, <1>4, <2>1, TablesDown DEF DownTable
  <2>3. t \in TablesAt(Current - 1) \ Shaky(Current - 1) => t \in DOMAIN db
    BY <1>2, <2>1, TablesDown, SumsStep DEF DownTable
  <2>4. ASSUME t \in DOMAIN db \ Rebuilt(Current - 1)
        PROVE  /\ Least(Current - 1, t) \subseteq Columns(db[t])
               /\ Columns(db[t]) \subseteq Most(Current - 1, t)
    <3>1. /\ Least(Current - 1, t) \subseteq Columns(db[t])
          /\ Columns(db[t]) \subseteq Most(Current, t)
      BY <1>2, <1>4, <2>1, <2>4, SumsStep DEF DownTable
    <3>2. \A c \in Columns(db[t]) : <<t, c>> \notin Unadds(Current)
      BY <1>5, <2>4 DEF HasColumn
    <3> QED BY <1>2, <2>2, <2>4, <3>1, <3>2, BoundsDown
  <2> QED BY <2>2, <2>3, <2>4 DEF FitsTable
<1>7. ASSUME NEW t \in DOMAIN db \ Skipped, NEW y \in Targets(db[t])
      PROVE  y \in DOMAIN db \cup OneWay(Current - 1) \cup Skipped
  <2>1. y \in DOMAIN db \cup OneWay(Current) \cup OneWay(Current - 1) \cup Skipped
    BY <1>1, <1>2, <1>7 DEF Resolves
  <2>2. CASE y \in OneWay(Current) /\ y \notin OneWay(Current - 1) /\ y \notin DOMAIN db
    <3>1. y \in Drops(Current)
      BY <1>2, <2>2, OneWayStep, TablesDown DEF OneWay
    <3>2. PICK i \in DOMAIN Statements :
             Statements[i].op = "drop" /\ Statements[i].table = y
      BY <1>2, <3>1 DEF Drops, Dropped
    <3>3. t \in TablesAt(Current) \ {y}
      BY <1>1, <1>3, <1>7, <2>2 DEF DownInv, DownTable, IsDb
    <3>4. PICK c \in DOMAIN db[t].refs : db[t].refs[c] = y
      BY <1>7 DEF Targets
    <3>5. c \in DOMAIN Model(t).refs /\ Model(t).refs[c] = y
      BY <1>3, <1>7, <3>4 DEF IsDb
    <3>6. PICK j \in DOMAIN Statements :
             /\ Statements[j].table = t
             /\ \/ Statements[j].op = "drop"
                \/ Statements[j].op = "dropColumn" /\ Statements[j].item = c
      BY <1>2, <1>3, <2>2, <3>2, <3>3, <3>5 DEF DroppedInOrder
    <3> QED BY <1>1, <1>7, <3>4, <3>6 DEF DownInv, HasColumn, Columns
  <2> QED BY <2>1, <2>2
<1>8. Fits(db, Current - 1, Skipped)
  BY <1>6 DEF Fits
<1>9. FitsFilled(Settled, Current - 1, Skipped)
  BY <1>1 DEF DownInv
<1>10. Resolves(db, Current - 1, Skipped)
  BY <1>7 DEF Resolves
<1> QED BY <1>1, <1>2, <1>8, <1>9, <1>10

LEMMA StampHolds ==
    ASSUME SchemaInv, Stamp
    PROVE  /\ version' \in 1..Head_
           /\ Fits(db, version', Skipped) /\ FitsFilled(Settled, version', Skipped)
           /\ Resolves(db, version', Skipped)
<1>1. CASE Upgrading
  BY <1>1, StampUp
<1>2. CASE ~Upgrading
  BY <1>2, StampDown
<1> QED BY <1>1, <1>2

-----------------------------------------------------------------------------
(* A command that fails, or is killed.                                     *)

\* What the transaction falls back to is some revision, but for the tables of
\* a revision that SQLite keeps half done.
LEMMA FallBackHolds ==
    ASSUME SchemaInv, FallBack, stage # "rest"
    PROVE  SchemaInv'
<1>1. /\ TypeInv /\ BaseInv /\ agenda # <<>>
      /\ stage = "revision" => version # Head(agenda)
  BY DEF SchemaInv, TypeInv
<1>2. /\ db' = base.db /\ filled' = base.filled /\ version' = base.version
      /\ bare' = base.bare /\ early' = base.early
      /\ base' = base /\ dialect' = dialect /\ stage' = "rest" /\ ~aborted'
      /\ Settled' = SettledBase /\ SettledBase' = SettledBase
  BY DEF FallBack, Settled, SettledBase
<1>3. stage = "revision" => Current \in Revisions_
  BY <1>1, CurrentKnown
<1>4. Exempt' = Skipped' /\ Skipped' = Exempt /\ Skipped \subseteq Skipped'
  <2>1. broken' = IF dialect = "sqlite" /\ stage = "revision"
                  THEN broken \cup {Current} ELSE broken
    BY DEF FallBack
  <2>2. /\ Skipped' = UNION {Touched(w) : w \in broken'}
        /\ Skipped = UNION {Touched(w) : w \in broken}
    BY <1>1, <1>2 DEF Skipped, TypeInv
  <2> QED BY <1>2, <2>1, <2>2 DEF Exempt
<1>5. broken' \subseteq Revisions_
  BY <1>1, <1>3 DEF FallBack, TypeInv
<1>6. agenda' \in Seq(1..Head_)
  BY <1>1, Goal DEF FallBack, TypeInv
<1>7. TypeInv'
  BY <1>1, <1>2, <1>5, <1>6 DEF TypeInv
<1>8. /\ Fits(base.db, base.version, Skipped')
      /\ FitsFilled(SettledBase, base.version, Skipped')
      /\ Resolves(base.db, base.version, Skipped')
  BY <1>1, <1>4, FitsMore DEF BaseInv
<1>9. BaseInv'
  BY <1>2, <1>4, <1>8 DEF BaseInv
<1>10. RestInv' /\ ResolveInv'
  BY <1>2, <1>8 DEF RestInv, ResolveInv
<1>11. RevisionInv'
  BY <1>2 DEF RevisionInv
<1> QED BY <1>7, <1>9, <1>10, <1>11 DEF SchemaInv

-----------------------------------------------------------------------------
(* Every step.                                                             *)

LEMMA StartStep == ASSUME SchemaInv, Start PROVE SchemaInv'
<1>1. /\ TypeInv /\ BaseInv /\ RestInv /\ ResolveInv
      /\ stage = "rest" /\ agenda # <<>> /\ ~aborted
      /\ Fits(db, version, Skipped) /\ FitsFilled(Settled, version, Skipped)
  BY DEF SchemaInv, TypeInv, RestInv, Start
<1>2. /\ stage' = "between"
      /\ UNCHANGED <<dialect, agenda, db, filled, bare, early, version, due,
                     aborted, base, broken>>
      /\ Skipped' = Skipped /\ Settled' = Settled /\ SettledBase' = SettledBase
  BY SameSkipped DEF Start, Settled, SettledBase
<1>3. TypeInv'
  BY <1>1, <1>2 DEF TypeInv
<1>4. BaseInv'
  BY <1>1, <1>2 DEF BaseInv, Exempt
<1>5. RestInv' /\ ResolveInv' /\ RevisionInv'
  BY <1>1, <1>2 DEF RestInv, ResolveInv, RevisionInv
<1> QED BY <1>3, <1>4, <1>5 DEF SchemaInv

LEMMA EnterStep == ASSUME SchemaInv, Enter PROVE SchemaInv'
<1>1. /\ TypeInv /\ BaseInv /\ RestInv /\ ResolveInv
      /\ agenda # <<>> /\ version # Head(agenda) /\ stage = "between" /\ ~aborted
      /\ Fits(db, version, Skipped) /\ FitsFilled(Settled, version, Skipped)
  BY DEF SchemaInv, TypeInv, RestInv, Enter
<1>2. /\ stage' = "revision" /\ due' \subseteq DOMAIN Statements
      /\ UNCHANGED <<dialect, agenda, db, filled, bare, early, version, aborted,
                     base, broken>>
      /\ Skipped' = Skipped /\ Settled' = Settled /\ SettledBase' = SettledBase
      /\ Current' = Current /\ Statements' = Statements /\ Upgrading' = Upgrading
  BY SameSkipped, SameRevision DEF Enter, Settled, SettledBase
<1>3. TypeInv'
  BY <1>1, <1>2 DEF TypeInv
<1>4. BaseInv'
  <2>1. Exempt \subseteq Exempt'
    BY <1>1, <1>2 DEF Exempt
  <2>2. /\ Fits(base.db, base.version, Exempt')
        /\ FitsFilled(SettledBase, base.version, Exempt')
    BY <1>1, <2>1, FitsMore DEF BaseInv
  <2> QED BY <1>1, <1>2, <2>2 DEF BaseInv
<1>5. RestInv' /\ ResolveInv'
  BY <1>1, <1>2 DEF RestInv, ResolveInv
<1>6. OutsideInv'
  <2>1. Skipped \subseteq Skipped \cup Touched(Current)
    OBVIOUS
  <2>2. /\ Fits(db, version, Skipped \cup Touched(Current))
        /\ FitsFilled(Settled, version, Skipped \cup Touched(Current))
    BY <1>1, <2>1, FitsMore
  <2> QED BY <1>2, <2>2 DEF OutsideInv
<1>7. RevisionInv'
  BY <1>1, <1>2, <1>6, UpEnter, DownEnter DEF RevisionInv
<1> QED BY <1>3, <1>4, <1>5, <1>7 DEF SchemaInv

LEMMA ExecuteStep == ASSUME SchemaInv, Execute PROVE SchemaInv'
<1>1. TypeInv /\ BaseInv /\ stage = "revision" /\ ~aborted
  BY DEF SchemaInv, Execute
<1>2. /\ UNCHANGED <<dialect, agenda, stage, version, aborted, broken, early>>
      /\ due' \subseteq due
      /\ base' = IF dialect = "sqlite" /\ ~wrote' THEN Saved' ELSE base
      /\ Skipped' = Skipped
      /\ Current' = Current /\ Statements' = Statements /\ Upgrading' = Upgrading
  BY <1>1, ExecuteKeepsEarly, SameSkipped, SameRevision DEF Execute
<1>3. /\ IsDb(db') /\ filled' \subseteq DOMAIN db' /\ bare' \subseteq DOMAIN db'
      /\ OutsideInv' /\ Resolves(db', version, Skipped)
  BY ExecuteUp, ExecuteDown
<1>4. ASSUME dialect = "sqlite" /\ ~wrote' PROVE TypeInv' /\ BaseInv'
  <2>1. base' = [db |-> db', filled |-> filled', bare |-> bare', early |-> early',
                 version |-> version']
    BY <1>2, <1>4 DEF Saved
  <2>2. SettledBase' = Settled'
    BY <2>1 DEF SettledBase, Settled
  <2>3. TypeInv'
    BY <1>1, <1>2, <1>3, <2>1 DEF TypeInv
  <2>4. Exempt' = (Skipped \cup Touched(Current))
    BY <1>1, <1>2, <1>4 DEF Exempt
  <2>5. /\ Fits(db', version, Skipped \cup Touched(Current))
        /\ FitsFilled(Settled', version, Skipped \cup Touched(Current))
    BY <1>2, <1>3 DEF OutsideInv
  <2>6. BaseInv'
    BY <1>2, <1>3, <1>4, <2>1, <2>2, <2>4, <2>5 DEF BaseInv
  <2> QED BY <2>3, <2>6
<1>5. ASSUME ~(dialect = "sqlite" /\ ~wrote') PROVE TypeInv' /\ BaseInv'
  <2>1. base' = base /\ Exempt' = Exempt /\ SettledBase' = SettledBase
    BY <1>2, <1>5 DEF Exempt, SettledBase
  <2>2. TypeInv'
    BY <1>1, <1>2, <1>3, <2>1 DEF TypeInv
  <2>3. BaseInv'
    BY <1>1, <1>2, <2>1 DEF BaseInv
  <2> QED BY <2>2, <2>3
<1>6. TypeInv' /\ BaseInv'
  BY <1>4, <1>5
<1>7. RestInv' /\ ResolveInv'
  BY <1>1, <1>2, <1>3 DEF RestInv, ResolveInv
<1>8. RevisionInv'
  BY <1>2, <1>3, UpExecute, DownExecute DEF RevisionInv
<1> QED BY <1>6, <1>7, <1>8 DEF SchemaInv

\* A failure that a downgrade swallows: on SQLite there was nothing to drop.
LEMMA RefuseStep == ASSUME SchemaInv, Refuse PROVE SchemaInv'
<1>1. /\ TypeInv /\ BaseInv /\ RestInv /\ ResolveInv /\ stage = "revision"
      /\ agenda # <<>> /\ version # Head(agenda) /\ due \subseteq DOMAIN Statements
  BY DEF SchemaInv, TypeInv, Refuse
<1>2. CASE FallBack
  BY <1>1, <1>2, FallBackHolds
<1>3. CASE ~FallBack
  <2>1. PICK i \in due :
           /\ IsNext(i) /\ (aborted \/ ~Accepted(Statements[i]))
           /\ Statements[i].try
           /\ due' = due \ {i}
           /\ aborted' = (aborted \/ dialect = "postgresql")
           /\ UNCHANGED <<dialect, agenda, stage, db, filled, bare, early,
                          version, base, broken>>
    BY <1>3 DEF Refuse
  <2>2. /\ Skipped' = Skipped /\ Current' = Current
        /\ Statements' = Statements /\ Upgrading' = Upgrading
        /\ Settled' = Settled /\ SettledBase' = SettledBase
    BY <2>1, SameSkipped, SameRevision DEF Settled, SettledBase
  <2>3. ~Upgrading
    BY <1>1, <2>1, UpStatement
  <2>4. TypeInv'
    BY <1>1, <2>1, <2>2 DEF TypeInv
  <2>5. BaseInv'
    BY <1>1, <2>1, <2>2 DEF BaseInv, Exempt
  <2>6. RestInv' /\ ResolveInv'
    BY <1>1, <2>1, <2>2 DEF RestInv, ResolveInv
  <2>7. ASSUME ~aborted' PROVE OutsideInv' /\ DownInv'
    <3>1. ~aborted /\ dialect # "postgresql" /\ ~Accepted(Statements[i])
      BY <2>1, <2>7
    <3>2. OutsideInv /\ DownInv
      BY <1>1, <2>3, <3>1 DEF SchemaInv, RevisionInv
    <3>3. ~(Statements[i].op = "drop" /\ Statements[i].table \in DOMAIN db)
      BY <3>1 DEF Accepted
    <3>4. ~(Statements[i].op = "dropColumn"
            /\ HasColumn(Statements[i].table, Statements[i].item))
      BY <3>1 DEF Accepted
    <3>5. OutsideInv'
      BY <2>1, <2>2, <3>2 DEF OutsideInv
    <3>6. \A t \in AllTables \ Skipped : DownTable(t)'
      BY <2>1, <2>2, <3>2 DEF DownInv, DownTable
    <3>7. ASSUME NEW j \in DOMAIN Statements
          PROVE  LET s == Statements[j] IN
                 /\ s.op = "drop" /\ s.table \in DOMAIN db => j \in due'
                 /\ s.op = "dropColumn" /\ HasColumn(s.table, s.item) => j \in due'
      BY <2>1, <3>2, <3>3, <3>4 DEF DownInv
    <3>8. FitsFilled(Settled, Current - 1, Skipped)
      BY <3>2 DEF DownInv
    <3> QED BY <2>1, <2>2, <3>5, <3>6, <3>7, <3>8 DEF DownInv, HasColumn
  <2>8. RevisionInv'
    BY <2>2, <2>3, <2>7 DEF RevisionInv
  <2> QED BY <2>4, <2>5, <2>6, <2>8 DEF SchemaInv
<1> QED BY <1>2, <1>3

LEMMA StampStep == ASSUME SchemaInv, Stamp PROVE SchemaInv'
<1>1. TypeInv /\ BaseInv /\ stage = "revision" /\ ~aborted
  BY DEF SchemaInv, Stamp
<1>2. /\ stage' = "between"
      /\ UNCHANGED <<dialect, agenda, db, filled, bare, aborted, broken>>
      /\ base' = IF dialect = "sqlite"
                 THEN [db |-> db, filled |-> filled, bare |-> bare,
                       early |-> early, version |-> version'] ELSE base
      /\ early' = early /\ Skipped' = Skipped /\ Settled' = Settled
  <2>1. early' = early
    BY <1>1 DEF Stamp, TypeInv
  <2> QED BY <2>1, SameSkipped DEF Stamp, Saved, Settled
<1>3. /\ version' \in 1..Head_
      /\ Fits(db, version', Skipped) /\ FitsFilled(Settled, version', Skipped)
      /\ Resolves(db, version', Skipped)
  BY StampHolds
<1>4. TypeInv'
  BY <1>1, <1>2, <1>3 DEF TypeInv
<1>5. Exempt' = Skipped
  BY <1>2 DEF Exempt
<1>6. BaseInv'
  <2>1. CASE dialect = "sqlite"
    <3>1. SettledBase' = Settled
      BY <1>2, <2>1 DEF SettledBase, Settled
    <3> QED BY <1>2, <1>3, <1>5, <2>1, <3>1 DEF BaseInv
  <2>2. CASE dialect # "sqlite"
    <3>1. Exempt = Skipped /\ SettledBase' = SettledBase
      BY <1>2, <2>2 DEF Exempt, SettledBase
    <3> QED BY <1>1, <1>2, <1>5, <2>2, <3>1 DEF BaseInv
  <2> QED BY <2>1, <2>2
<1>7. RestInv' /\ ResolveInv' /\ RevisionInv'
  BY <1>2, <1>3 DEF RestInv, ResolveInv, RevisionInv
<1> QED BY <1>4, <1>6, <1>7 DEF SchemaInv

LEMMA FinishStep == ASSUME SchemaInv, Finish PROVE SchemaInv'
<1>1. /\ TypeInv /\ stage = "between" /\ agenda # <<>> /\ ~aborted
      /\ Fits(db, version, Skipped) /\ FitsFilled(Settled, version, Skipped)
      /\ Resolves(db, version, Skipped)
  BY DEF SchemaInv, TypeInv, RestInv, ResolveInv, Finish
<1>2. /\ stage' = "rest"
      /\ UNCHANGED <<dialect, db, filled, bare, early, version, aborted, broken>>
      /\ base' = [db |-> db, filled |-> filled, bare |-> bare, early |-> early,
                  version |-> version]
      /\ Skipped' = Skipped /\ agenda' \in Seq(1..Head_)
  BY <1>1, SameSkipped, Goal DEF Finish, Saved
<1>a. Settled' = Settled /\ SettledBase' = Settled
  BY <1>2 DEF Settled, SettledBase
<1>3. TypeInv'
  BY <1>1, <1>2 DEF TypeInv
<1>4. BaseInv'
  BY <1>1, <1>2, <1>a DEF BaseInv, Exempt
<1>5. RestInv' /\ ResolveInv' /\ RevisionInv'
  BY <1>1, <1>2, <1>a DEF RestInv, ResolveInv, RevisionInv
<1> QED BY <1>3, <1>4, <1>5 DEF SchemaInv

LEMMA StutterStep == ASSUME SchemaInv, UNCHANGED vars PROVE SchemaInv'
<1>1. /\ UNCHANGED <<dialect, agenda, stage, db, filled, bare, early, version,
                     due, aborted, base, broken>>
      /\ Skipped' = Skipped /\ Current' = Current
      /\ Statements' = Statements /\ Upgrading' = Upgrading
      /\ Settled' = Settled /\ SettledBase' = SettledBase
  BY SameSkipped, SameRevision DEF vars, Settled, SettledBase
<1>2. TypeInv'
  BY <1>1 DEF SchemaInv, TypeInv
<1>3. BaseInv'
  BY <1>1 DEF SchemaInv, BaseInv, Exempt
<1>4. RestInv' /\ ResolveInv'
  BY <1>1 DEF SchemaInv, RestInv, ResolveInv
<1>5. OutsideInv' = OutsideInv
  BY <1>1 DEF OutsideInv
<1>6. UpInv' = UpInv
  BY <1>1 DEF UpInv, UpTable, Pending, PendingCell, PendingFill
<1>7. DownInv' = DownInv
  BY <1>1 DEF DownInv, DownTable, HasColumn
<1>8. RevisionInv'
  BY <1>1, <1>5, <1>6, <1>7 DEF SchemaInv, RevisionInv
<1> QED BY <1>2, <1>3, <1>4, <1>8 DEF SchemaInv

LEMMA StepHolds == SchemaInv /\ [Next]_vars => SchemaInv'
<1> SUFFICES ASSUME SchemaInv, [Next]_vars PROVE SchemaInv'
  OBVIOUS
<1>1. CASE Start
  BY <1>1, StartStep
<1>2. CASE Enter
  BY <1>2, EnterStep
<1>3. CASE Execute
  BY <1>3, ExecuteStep
<1>4. CASE Refuse
  BY <1>4, RefuseStep
<1>5. CASE RefuseStamp
  BY <1>5, FallBackHolds DEF RefuseStamp
<1>6. CASE Stamp
  BY <1>6, StampStep
<1>7. CASE Finish
  BY <1>7, FinishStep
<1>8. CASE Crash
  BY <1>8, FallBackHolds DEF Crash
<1>9. CASE UNCHANGED vars
  BY <1>9, StutterStep
<1> QED
  BY <1>1, <1>2, <1>3, <1>4, <1>5, <1>6, <1>7, <1>8, <1>9 DEF Next

LEMMA Invariant == Spec /\ Installed => []SchemaInv
BY InitHolds, StepHolds, PTL DEF Spec

-----------------------------------------------------------------------------
(* What follows.                                                           *)

\* Whatever upgrades and downgrades are run, refused by a statement or killed
\* between two, a database at rest has the tables and columns of the revision
\* it is stamped with, but for the tables a downgrade is known not to restore
\* and those of a revision SQLite kept half done.
THEOREM SchemaMatches == Spec /\ Installed => []SchemaMatchesVersion
<1>1. SchemaInv => SchemaMatchesVersion
  <2> SUFFICES ASSUME SchemaInv, stage = "rest",
                      NEW t \in AllTables \ (OneWay(version) \cup Skipped)
               PROVE  /\ t \in DOMAIN db <=> t \in DOMAIN Release(version)
                      /\ t \in DOMAIN db =>
                           Columns(db[t]) = Columns(Release(version)[t])
    BY DEF SchemaMatchesVersion
  <2>1. version \in 1..Head_ /\ FitsTable(db, version, t)
    BY DEF SchemaInv, TypeInv, RestInv, Fits
  <2>2. DOMAIN Release(version) = TablesAt(version)
    BY <2>1, ReleaseFits
  <2>3. CASE t \notin TablesAt(version)
    BY <2>1, <2>2, <2>3 DEF FitsTable
  <2>4. CASE t \in TablesAt(version)
    <3>1. /\ t \notin Shaky(version) /\ t \notin Rebuilt(version)
          /\ \A c : <<t, c>> \notin Lost(version)
          /\ \A p \in Sticky(version) : p[1] # t
      BY <2>1, <2>4, NotOneWay
    <3>2. Least(version, t) = ColumnsAt(version, t)
      BY <3>1 DEF Least
    <3>3. Most(version, t) = ColumnsAt(version, t)
      BY <3>1 DEF Most
    <3>4. t \in DOMAIN db /\ Columns(db[t]) = ColumnsAt(version, t)
      BY <2>1, <2>4, <3>1, <3>2, <3>3 DEF FitsTable
    <3> QED BY <2>2, <2>4, <3>4 DEF ColumnsAt
  <2> QED BY <2>3, <2>4
<1> QED BY <1>1, Invariant, PTL

\* No foreign key of what is committed points at a table that is not there,
\* after any number of upgrades and downgrades, failures and crashes, but for
\* the tables of a revision SQLite kept half done.
THEOREM KeysResolve == Spec /\ Installed => []RefsResolve
<1>1. SchemaInv => RefsResolve
  <2> SUFFICES ASSUME SchemaInv, NEW t \in DOMAIN base.db \ Skipped
               PROVE  Targets(base.db[t]) \subseteq
                         DOMAIN base.db \cup OneWay(base.version)
                            \cup OneWay(base.version - 1) \cup Skipped
    BY DEF RefsResolve
  <2> QED BY DEF SchemaInv, BaseInv, Resolves
<1> QED BY <1>1, Invariant, PTL

\* A database at rest, whatever release made it, has the rows of every revision
\* it has passed, also where a downgrade dropped the table and an upgrade made
\* it again; only a table that 0001 made, and that has stood ever since, may be
\* without those of a revision that looks for it.
THEOREM RowsAreThere == Spec /\ Installed => []EnumerationsFilled
<1>1. SchemaInv => EnumerationsFilled
  BY DEF SchemaInv, RestInv, FitsFilled, EnumerationsFilled, Settled
<1> QED BY <1>1, Invariant, PTL
=============================================================================
