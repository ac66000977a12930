----------------------------- MODULE Migrations -----------------------------
(***************************************************************************)
(* alembic upgrade and downgrade over a chain of revisions                 *)
(* (migrations/env.py): a database that stands at some revision is taken   *)
(* to each goal of its agenda in turn, one statement at a time.            *)
(*                                                                         *)
(* PostgreSQL runs a whole command in one transaction.  On SQLite the      *)
(* driver commits a DDL statement at once unless the revision has already  *)
(* written rows, and Alembic commits after every revision: base is what a  *)
(* failure or a crash leaves behind.                                       *)
(*                                                                         *)
(* A database that stands at an earlier release has the tables and columns *)
(* the revisions up to there describe (Release).  It was installed from    *)
(* nothing at that release or an earlier one: 0001 makes all tables the    *)
(* models have by then, and a revision that finds its table leaves it      *)
(* empty.  Installed today, it also finds tables of revisions to come.     *)
(***************************************************************************)
EXTENDS Schema, SeedData, FiniteSetsExt, Integers, Sequences

CONSTANTS
    Declared,   \* table -> its columns in today's models (Schema)
    Undeclared, \* the same of the tables only revisions know
    Scripts,    \* the revisions from 0002 on (Revisions)
    Plans,      \* [dialect, installed, release, agenda, crashes]: databases
                \* made at one release and upgraded to another, the commands
                \* and the bound on the crashes
    MaxRuns     \* bound on the commands started

VARIABLES
    dialect,   \* "sqlite" or "postgresql"
    agenda,    \* the goals still to reach
    stage,     \* "rest", "between" two revisions, or in a "revision"
    db,        \* table name -> Table
    filled,    \* the tables that hold the rows revisions put there
    bare,      \* the tables that 0001 made, not a revision of their own
    early,     \* the revisions to come whose tables 0001 has made already
    version,   \* the revision the database is stamped with; 0 for none
    due,       \* the statements of the current revision that are still to run
    wrote,     \* the current revision has written rows
    aborted,   \* PostgreSQL: a swallowed failure has aborted the transaction
    base,      \* what of db, filled, bare, early and version is committed
    refused,   \* the revisions a statement failed in
    broken,    \* SQLite: the revisions a command broke off in
    runs,
    crashes    \* still to come

vars == <<dialect, agenda, stage, db, filled, bare, early, version, due, wrote,
          aborted, base, refused, broken, runs, crashes>>

-----------------------------------------------------------------------------
(* The revisions by number, 0001 first.                                    *)

M0001 == [ up   |-> <<Statement("createAll", "", {})>>,
           down |-> <<Statement("dropAll", "", {})>> ]

Head_ == Len(Scripts) + 1
Script(v) == IF v = 1 THEN M0001 ELSE Scripts[v - 1]

Created(s) == {s[i].table : i \in {j \in DOMAIN s : s[j].op = "create"}}
Dropped(s) == {s[i].table : i \in {j \in DOMAIN s : s[j].op = "drop"}}
Cells(s, op) ==
    {<<s[i].table, s[i].item>> : i \in {j \in DOMAIN s : s[j].op = op}}
Filled(s) ==
    UNION {IF s[i].op = "fill" THEN {s[i].table} ELSE s[i].item :
             i \in {j \in DOMAIN s : s[j].op \in {"fill", "seed"}}}

\* What each revision creates, fills, adds and removes, and what its downgrade
\* drops, takes away and gives back.
Revisions_ == 2..Head_
Creates(v)  == Created(Script(v).up)
Fills(v)    == Filled(Script(v).up)
Adds(v)     == Cells(Script(v).up, "addColumn")
Removes(v)  == Cells(Script(v).up, "dropColumn")
Drops(v)    == Dropped(Script(v).down)
Unadds(v)   == Cells(Script(v).down, "dropColumn")
Restores(v) == Cells(Script(v).down, "addColumn")

After_(v) == {w \in Revisions_ : w > v}

AllTables == DOMAIN Declared \cup DOMAIN Undeclared

\* What no revision creates comes with create_all in 0001.
TablesAt(v) ==
    IF v < 1 THEN {}
    ELSE (AllTables \ UNION {Creates(w) : w \in After_(v)})
         \cup UNION {Creates(w) : w \in 2..v}

\* The tables and columns at revision v, going back from the models.
Release(v) ==
    LET later == UNION {Adds(w) : w \in After_(v)}
        gone  == UNION {Removes(w) : w \in After_(v)}
        columns(t) == {c \in Columns(Declared[t]) : <<t, c>> \notin later}
                      \cup {p[2] : p \in {q \in gone : q[1] = t}}
        refs(t) == DOMAIN Declared[t].refs \cap columns(t)
    IN [t \in TablesAt(v) |->
          IF t \in DOMAIN Undeclared THEN Undeclared[t]
          ELSE Table(columns(t) \ refs(t),
                     [c \in refs(t) |-> Declared[t].refs[c]])]

FilledAt(v) == TablesAt(v) \cap UNION {Fills(w) : w \in 2..v}

\* Tables that are filled only by a revision that finds a table missing.
Guarded ==
    UNION {LET s == Script(w).up
           IN Filled([i \in {j \in DOMAIN s : s[j].on # ""} |-> s[i]]) :
             w \in Revisions_}

\* Tables and columns of revision v that a later revision's downgrade takes
\* away or does not give back: 0048 drops the job_tasks of 0002, 0021 the
\* network_profiles of 0006, and 0023 leaves security_profiles as it made it.
OneWay(v) ==
    TablesAt(v) \cap
      UNION {Drops(w) \cup {p[1] : p \in SymDiff(Adds(w), Unadds(w))}
                      \cup {p[1] : p \in SymDiff(Removes(w), Restores(w))} :
               w \in After_(v)}

\* The tables a revision works on.
Touched(v) == Creates(v) \cup {p[1] : p \in Adds(v)}

\* The tables of a revision that broke off half committed: the revision's guard
\* looks at one of them, so a second run may skip the others for good.  And the
\* tables of revisions that have not run but whose work 0001 has done.
Skipped == UNION {Touched(w) : w \in broken \cup early}

-----------------------------------------------------------------------------
(* What is assumed of the revisions, each of which was written by hand:    *)
(* conditions on one revision at a time, which TLC evaluates for Scripts.  *)

Model(t) == IF t \in DOMAIN Undeclared THEN Undeclared[t] ELSE Declared[t]
ColumnsAt(v, t) == Columns(Release(v)[t])

\* Created without a look at whether the table itself is there.
CreatesBlind(v) ==
    LET s == Script(v).up
    IN {s[i].table : i \in {j \in DOMAIN s : s[j].op = "create"
                                             /\ s[j].on # s[j].table}}
Rebuilt(v) == UNION {CreatesBlind(w) : w \in After_(v)}

\* upgrade() only builds, and a statement that finds its own work done is the
\* only one skipped on its own.
UpBuilds(v) ==
    LET s == Script(v).up IN
    /\ DOMAIN s \subseteq Nat
    /\ \A i \in DOMAIN s :
         /\ s[i].op \in {"create", "addColumn", "dropColumn", "fill", "seed",
                         "integerForBoolean"}
         /\ ~s[i].try
         /\ s[i].guard = "columnMissing" => s[i].op = "addColumn"
         /\ s[i].guard = "columnPresent" => s[i].op = "dropColumn"

\* A table a revision creates has the columns that the models, less what later
\* revisions add, say it has; the refs are those of the models.
CreatesWhatModelsSay(v) ==
    LET s == Script(v).up IN
    \A i \in {j \in DOMAIN s : s[j].op = "create"} :
       LET t == s[i].table IN
       /\ t \in AllTables
       /\ t \notin Rebuilt(v) => Columns(s[i].item) = ColumnsAt(v, t)
       /\ \A c \in DOMAIN s[i].item.refs :
             /\ c \in DOMAIN Model(t).refs
             /\ s[i].item.refs[c] = Model(t).refs[c]

\* It adds columns that were not there and removes columns that are gone, from
\* tables it did not create.
ChangesAreNew(v) ==
    /\ \A p \in Adds(v) :
         /\ p[1] \in TablesAt(v - 1) \ Creates(v)
         /\ p[2] \in ColumnsAt(v, p[1]) \ ColumnsAt(v - 1, p[1])
    /\ \A p \in Removes(v) :
         /\ p[1] \in Touched(v) \ Creates(v)
         /\ p[2] \notin ColumnsAt(v, p[1])

\* A look at one table decides about others only where the revision alone
\* makes that table, and only about what the revision itself works on.
GuardsSpeakForOne(v) ==
    LET s == Script(v).up IN
    \A i \in {j \in DOMAIN s :
                 /\ s[j].on # ""
                 /\ ~(s[j].op = "create" /\ s[j].on = s[j].table)} :
       /\ s[i].on \in AllTables \ TablesAt(v - 1)
       /\ \A w \in Revisions_ \ {v} : s[i].on \notin Touched(w)
       /\ (IF s[i].op = "seed" THEN s[i].item ELSE {s[i].table})
             \subseteq Touched(v)

\* downgrade() drops the tables upgrade() created, and columns it added.
DownUndoes(v) ==
    LET s == Script(v).down IN
    /\ DOMAIN s \subseteq Nat
    /\ \A i \in DOMAIN s :
         /\ s[i].op \in {"drop", "dropColumn"} /\ s[i].on = ""
         /\ s[i].guard = "columnMissing" => FALSE
         /\ s[i].guard = "columnPresent" => s[i].op = "dropColumn"
    /\ Drops(v) = Creates(v)
    /\ Unadds(v) \subseteq Adds(v)

\* A table is created after those it refers to.
CreatedInOrder(v) ==
    LET s == Script(v).up IN
    \A i \in {j \in DOMAIN s : s[j].op = "create"} :
       \A t \in Targets(s[i].item) \ ({s[i].table} \cup TablesAt(v - 1)) :
          \E j \in DOMAIN s : j < i /\ s[j].op = "create" /\ s[j].table = t

\* A table is dropped after those, and the columns, that refer to it.
DroppedInOrder(v) ==
    LET s     == Script(v).down
        here  == TablesAt(v)
        loose == OneWay(v - 1)
    IN
    \A i \in {j \in DOMAIN s : s[j].op = "drop" /\ s[j].table \notin loose} :
       \A t \in here \ {s[i].table} : \A c \in DOMAIN Model(t).refs :
          Model(t).refs[c] = s[i].table =>
             \E j \in DOMAIN s :
                /\ j < i /\ s[j].table = t
                /\ s[j].op = "drop" \/ (s[j].op = "dropColumn" /\ s[j].item = c)

\* What a revision fills no downgrade takes away for good, and a revision that
\* creates what an earlier one fills fills it again.
FillsForGood(v) ==
    /\ OneWay(v) \cap UNION {Fills(w) : w \in Revisions_} = {}
    /\ Creates(v) \cap UNION {Fills(w) : w \in 2..(v - 1)} \subseteq Fills(v)

ReleaseResolves(v) ==
    LET here    == TablesAt(v)
        release == Release(v)
    IN \A t \in here : Targets(release[t]) \subseteq here

ASSUME ChainAssumption ==
    /\ Len(Scripts) \in Nat
    /\ \A v \in Revisions_ :
         /\ UpBuilds(v)
         /\ CreatesWhatModelsSay(v)
         /\ ChangesAreNew(v)
         /\ GuardsSpeakForOne(v)
         /\ DownUndoes(v)
         /\ CreatedInOrder(v)
         /\ DroppedInOrder(v)
         /\ FillsForGood(v)
    /\ \A v \in 1..Head_ : ReleaseResolves(v)

\* A database was made no later than at the release it stands at.
ASSUME PlansAssumption ==
    \A p \in Plans : p.installed \in 0..p.release

-----------------------------------------------------------------------------

Saved == [db |-> db, filled |-> filled, bare |-> bare, early |-> early,
          version |-> version]

Init ==
    \E p \in Plans :
       /\ dialect = p.dialect
       /\ agenda = p.agenda
       /\ db = Release(p.release)
       /\ filled = FilledAt(p.release) \ (TablesAt(p.installed) \cap Guarded)
       /\ bare = TablesAt(p.installed) /\ early = {}
       /\ version = p.release
       /\ base = Saved
       /\ stage = "rest" /\ due = {} /\ wrote = FALSE /\ aborted = FALSE
       /\ refused = {} /\ broken = {}
       /\ runs = 0 /\ crashes = p.crashes

Upgrading == Head(agenda) > version
Current == IF Upgrading THEN version + 1 ELSE version

\* A likely bug: downgrade() drops tables in the order upgrade() creates them.
StatementsForwards ==
    LET s == IF Upgrading THEN Script(Current).up ELSE Script(Current).down
    IN IF Upgrading THEN s ELSE [i \in DOMAIN s |-> s[Len(s) + 1 - i]]

Statements == IF Upgrading THEN Script(Current).up ELSE Script(Current).down

HasColumn(t, c) == t \in DOMAIN db /\ c \in Columns(db[t])

\* A likely bug: a column is added where it is there already.
DueInverted(s) ==
    /\ s.on # "" => s.on \notin DOMAIN db
    /\ s.guard = "columnMissing" => HasColumn(s.table, s.item)
    /\ s.guard = "columnPresent" => HasColumn(s.table, s.item)

\* The guards of a revision, evaluated on the schema it starts from.
Due(s) ==
    /\ s.on # "" => s.on \notin DOMAIN db
    /\ s.guard = "columnMissing" => ~HasColumn(s.table, s.item)
    /\ s.guard = "columnPresent" => HasColumn(s.table, s.item)

\* What the database accepts.  Only PostgreSQL looks at who refers to a table,
\* and takes no integer for a boolean.
Accepted(s) ==
    CASE s.op = "createAll"  -> TRUE
      [] s.op = "dropAll"    -> TRUE
      [] s.op = "create"     -> /\ s.table \notin DOMAIN db
                                /\ dialect = "postgresql" =>
                                     Targets(s.item) \subseteq DOMAIN db
      [] s.op = "drop"       -> /\ s.table \in DOMAIN db
                                /\ dialect = "postgresql" =>
                                     \A t \in DOMAIN db \ {s.table} :
                                        s.table \notin Targets(db[t])
      [] s.op = "addColumn"  -> s.table \in DOMAIN db
                                /\ s.item \notin Columns(db[s.table])
      [] s.op = "dropColumn" -> HasColumn(s.table, s.item)
      [] s.op = "fill"       -> s.table \in DOMAIN db
      [] s.op = "seed"       ->
             \A t \in s.item : t \in DOMAIN db
                               /\ Columns(Declared[t]) \subseteq Columns(db[t])
      [] s.op = "integerForBoolean" -> dialect = "sqlite"

WithTable(t, table) ==
    [u \in DOMAIN db \cup {t} |-> IF u = t THEN table ELSE db[u]]
WithColumn(table, c) == Table(table.cols \cup {c}, table.refs)
WithoutColumn(table, c) ==
    Table(table.cols \ {c},
          [d \in DOMAIN table.refs \ {c} |-> table.refs[d]])

\* create_all and drop_all look at each table of the models.
After(s) ==
    CASE s.op = "createAll"  -> db @@ Declared
      [] s.op = "dropAll"    -> [t \in DOMAIN db \ DOMAIN Declared |-> db[t]]
      [] s.op = "create"     -> WithTable(s.table, s.item)
      [] s.op = "drop"       -> [t \in DOMAIN db \ {s.table} |-> db[t]]
      [] s.op = "addColumn"  -> [db EXCEPT ![s.table] = WithColumn(@, s.item)]
      [] s.op = "dropColumn" ->
             [db EXCEPT ![s.table] = WithoutColumn(@, s.item)]
      [] OTHER               -> db

WritesRows(s) == s.op \in {"fill", "seed", "integerForBoolean"}

\* A likely bug: a seeding session is closed without a commit.
FilledAfterFlush(s) ==
    IF s.op = "fill" THEN filled \cup {s.table}
    ELSE filled \cap DOMAIN After(s)

FilledAfter(s) ==
    CASE s.op = "fill" -> filled \cup {s.table}
      [] s.op = "seed" -> filled \cup s.item
      [] OTHER         -> filled \cap DOMAIN After(s)

BareAfter(s) ==
    IF s.op = "createAll" THEN bare \cup (DOMAIN After(s) \ DOMAIN db)
    ELSE bare \cap DOMAIN After(s)

EarlyAfter(s) ==
    CASE s.op = "createAll" -> Revisions_
      [] s.op = "dropAll"   -> {}
      [] OTHER              -> early

-----------------------------------------------------------------------------

\* alembic upgrade <goal> or alembic downgrade <goal>
Start ==
    /\ stage = "rest" /\ agenda # <<>> /\ runs < MaxRuns
    /\ stage' = "between" /\ runs' = runs + 1
    /\ UNCHANGED <<dialect, agenda, db, filled, bare, early, version, due, wrote,
                   aborted, base, refused, broken, crashes>>

Enter ==
    /\ stage = "between" /\ version # Head(agenda)
    /\ stage' = "revision"
    /\ due' = {i \in DOMAIN Statements : Due(Statements[i])}
    /\ wrote' = FALSE
    /\ UNCHANGED <<dialect, agenda, db, filled, bare, early, version, aborted,
                   base, refused, broken, runs, crashes>>

\* Statement i is the next to run.
IsNext(i) == i \in due /\ \A j \in due : i <= j

Execute ==
    /\ stage = "revision" /\ ~aborted
    /\ \E i \in due :
         LET s == Statements[i] IN
         /\ IsNext(i) /\ Accepted(s)
         /\ db' = After(s)
         /\ filled' = FilledAfter(s)
         /\ bare' = BareAfter(s) /\ early' = EarlyAfter(s)
         /\ wrote' = (wrote \/ WritesRows(s))
         /\ due' = due \ {i}
    /\ UNCHANGED <<dialect, agenda, stage, version, aborted, refused,
                   broken, runs, crashes>>
    /\ base' = IF dialect = "sqlite" /\ ~wrote' THEN Saved' ELSE base

\* Back to what is committed: the transaction rolls back.  Whoever gave the
\* command may repeat it or give it up.
FallBack ==
    /\ agenda' \in {agenda, Tail(agenda)}
    /\ db' = base.db /\ filled' = base.filled /\ version' = base.version
    /\ bare' = base.bare /\ early' = base.early
    /\ stage' = "rest" /\ due' = {} /\ wrote' = FALSE /\ aborted' = FALSE
    /\ broken' = IF dialect = "sqlite" /\ stage = "revision"
                  THEN broken \cup {Current} ELSE broken
    /\ UNCHANGED <<dialect, base, runs>>

Refuse ==
    /\ stage = "revision"
    /\ \E i \in due :
         /\ IsNext(i) /\ (aborted \/ ~Accepted(Statements[i]))
         /\ IF Statements[i].try
            THEN /\ due' = due \ {i}
                 /\ aborted' = (aborted \/ dialect = "postgresql")
                 /\ UNCHANGED <<dialect, agenda, stage, db, filled, bare,
                                early, version, wrote, base, refused, broken,
                                runs>>
            ELSE /\ refused' = refused \cup {Current}
                 /\ FallBack
    /\ UNCHANGED crashes

\* In an aborted transaction the stamp fails as well.
RefuseStamp ==
    /\ stage = "revision" /\ due = {} /\ aborted
    /\ refused' = refused \cup {Current}
    /\ FallBack
    /\ UNCHANGED crashes

\* The version table is written once the revision's statements have run.
Stamp ==
    /\ stage = "revision" /\ due = {} /\ ~aborted
    /\ stage' = "between"
    /\ version' = IF Upgrading THEN version + 1 ELSE version - 1
    /\ early' = early \ {Current}
    /\ wrote' = FALSE
    /\ UNCHANGED <<dialect, agenda, db, filled, bare, due, aborted, refused,
                   broken, runs, crashes>>
    /\ base' = IF dialect = "sqlite" THEN Saved' ELSE base

Finish ==
    /\ stage = "between" /\ version = Head(agenda)
    /\ stage' = "rest" /\ agenda' = Tail(agenda)
    /\ base' = Saved
    /\ UNCHANGED <<dialect, db, filled, bare, early, version, due, wrote, aborted,
                   refused, broken, runs, crashes>>

Crash ==
    /\ stage # "rest" /\ crashes > 0
    /\ crashes' = crashes - 1
    /\ FallBack
    /\ UNCHANGED refused

Next == Start \/ Enter \/ Execute \/ Refuse \/ RefuseStamp \/ Stamp
        \/ Finish \/ Crash

Spec == Init /\ [][Next]_vars

-----------------------------------------------------------------------------

\* Whatever commands were run, refused or interrupted, a database at rest has
\* the tables and columns its stamped revision stands for, those of today's
\* models at the end of the chain.
SchemaMatchesVersion ==
    stage = "rest" =>
      LET expected == Release(version)
          exempt   == OneWay(version) \cup Skipped
      IN \A t \in AllTables \ exempt :
           /\ t \in DOMAIN db <=> t \in DOMAIN expected
           /\ t \in DOMAIN db => Columns(db[t]) = Columns(expected[t])

\* No committed table refers to a table that is not there.  The tables of a
\* revision that broke off may: nothing drops them when the database is taken
\* back past what they refer to.
RefsResolve ==
    LET v == base.version IN
    \A t \in DOMAIN base.db \ Skipped :
      \/ Targets(base.db[t]) \subseteq DOMAIN base.db
      \/ Targets(base.db[t]) \subseteq
            DOMAIN base.db \cup OneWay(v) \cup OneWay(v - 1) \cup Skipped

\* A table a revision fills holds its rows whenever the database has passed
\* that revision, also when it was dropped and created again.  A table that 0001
\* made stays empty, where the revision looks for it, until it is dropped: "a
\* fresh database has only the fixed enumerations seeded by the migrations"
\* (README.md) is true of those that are filled without a look.
EnumerationsFilled ==
    stage = "rest" =>
        FilledAt(version) \ (OneWay(version) \cup Skipped)
          \subseteq filled \cup (bare \cap Guarded)

\* "The Alembic chain is guarded so alembic upgrade head runs cleanly on a
\* fresh database" (README.md): no statement of a revision is ever refused.
UpgradesCleanly == refused = {}
=============================================================================
