----------------------------- MODULE Catalogue -----------------------------
(***************************************************************************)
(* Distributions and profiles, the rows they refer to, and the plan a      *)
(* build is resolved to (distribution/service.py, profile/service.py,      *)
(* resolver/resolver.py), as functions from database to database.          *)
(*                                                                         *)
(* A database maps the id of a row to what the row refers to, by column;   *)
(* a column that is NULL is not in the domain.  The id of a row nobody     *)
(* deletes is its table and name.  A distribution and a profile get a new  *)
(* id whenever they are made, so that a row left behind by a deleted one   *)
(* never refers to its successor.  Descriptions, channels and inputs are   *)
(* left out.  The database is SQLite, which looks at no foreign key and    *)
(* lets others write between a request's queries and its first statement   *)
(* that writes: a request is a record of what its queries found, and what  *)
(* it writes is a function of that and of the database by then.            *)
(***************************************************************************)
EXTENDS Naturals, Sequences, FiniteSets, Maps

Table_(k) == k[1]
Name(k)   == k[2]

Row(table, name) == <<table, name>>
NoRefs_ == <<>>

Of(db, table) == {k \in DOMAIN db : Table_(k) = table}
Has(db, k, column) == k \in DOMAIN db /\ column \in DOMAIN db[k]
Refers(db, k, column, target) == Has(db, k, column) /\ db[k][column] = target

\* column = the id looked up, NULL when there is no such row
Lookup(db, column, k) == IF k \in DOMAIN db THEN column :> k ELSE NoRefs_

\* A deleted row leaves its id behind, which is never given again.
Without(db, keys) ==
    [k \in (DOMAIN db \ keys) \cup {Row("deleted", q) : q \in keys} |->
       IF Table_(k) = "deleted" THEN "row" :> Name(k) ELSE db[k]]

Set(db, k, refs) == [db EXCEPT ![k] = refs @@ @]

\* These columns are written; those without a new value become NULL.
Write(db, k, columns, refs) ==
    [db EXCEPT ![k] = refs @@ [c \in DOMAIN @ \ columns |-> @[c]]]

Mentioned(db) ==
    DOMAIN db \cup UNION {{db[k][c] : c \in DOMAIN db[k]} : k \in DOMAIN db}

\* An id that no row has or refers to.
NewId(db, table, name) ==
    LET used == {k[3] : k \in {m \in Mentioned(db) :
                                  m[1] = table /\ m[2] = name}}
    IN <<table, name, CHOOSE n \in 0..Cardinality(used) : n \notin used>>

Distributions(db) == Of(db, "distributions")
Named(db, name) == {d \in Distributions(db) : Name(d) = name}
TheDistribution(db, name) == CHOOSE d \in Named(db, name) : TRUE
ProfilesOf(db, d) ==
    {p \in Of(db, "profiles") : Refers(db, p, "distribution", d)}
ProfilesNamed(db, d, name) == {p \in ProfilesOf(db, d) : Name(p) = name}

-----------------------------------------------------------------------------
(* What a request has found: the rows it inserts, writes and deletes.      *)

InsertDistribution(name, refs) ==
    [op |-> "distribution", name |-> name, refs |-> refs]
InsertProfile(d, name, refs) ==
    [op |-> "profile", name |-> name, refs |-> refs @@ "distribution" :> d]
InsertRow(k, refs) == [op |-> "row", row |-> k, refs |-> refs]
Update(k, columns, refs) ==
    [op |-> "update", row |-> k, columns |-> columns, refs |-> refs]
DeleteRows(keys) == [op |-> "delete", rows |-> keys]

-----------------------------------------------------------------------------
(* distribution/service.py                                                 *)

DeleteDistribution(db, d) == DeleteRows(ProfilesOf(db, d) \cup {d})

CloneDistribution(db, d, name) ==
    [op |-> "clone", row |-> d, name |-> name, refs |-> db[d]]

\* A likely bug: the copies inherit from the originals.
CopiesShallow(db, d, clone) ==
    LET copy == [p \in ProfilesOf(db, d) |-> NewId(db, "profiles", Name(p))]
        origin(k) == CHOOSE p \in DOMAIN copy : copy[p] = k
    IN [k \in {copy[p] : p \in DOMAIN copy} |->
           ("distribution" :> clone) @@ db[origin(k)]]

\* Every profile is copied; one that inherits gets the copy of its parent.
Copies(db, d, clone) ==
    LET copy == [p \in ProfilesOf(db, d) |-> NewId(db, "profiles", Name(p))]
        origin(k) == CHOOSE p \in DOMAIN copy : copy[p] = k
        kept(p) == {c \in DOMAIN db[p] \ {"distribution"} :
                       c = "inherits" => db[p][c] \in DOMAIN copy}
        refs(p) == [c \in kept(p) |->
                       IF c = "inherits" THEN copy[db[p][c]] ELSE db[p][c]]
    IN [k \in {copy[p] : p \in DOMAIN copy} |->
           ("distribution" :> clone) @@ refs(origin(k))]

\* The profiles are read once the clone is in, and no one else can write.
Cloned(db, d, name, refs) ==
    LET clone == NewId(db, "distributions", name)
    IN db @@ (clone :> refs) @@ Copies(db, d, clone)

\* A document with one profile and a child of it replaces the distribution of
\* that name and all its profiles.
ImportDistribution(db, name, profile, child) ==
    LET olds == Named(db, name)
    IN [op |-> "import", name |-> name, profile |-> profile, child |-> child,
        rows |-> olds \cup UNION {ProfilesOf(db, d) : d \in olds}]

Imported(db, gone, name, profile, child) ==
    LET base  == Without(db, gone)
        d     == NewId(base, "distributions", name)
        top   == NewId(base, "profiles", profile)
        below == NewId(base, "profiles", child)
    IN base @@ (d :> NoRefs_)
            @@ (top :> ("distribution" :> d))
            @@ (below :> ("distribution" :> d @@ "inherits" :> top))

-----------------------------------------------------------------------------
(* profile/service.py                                                      *)

Children(db, p) ==
    {q \in Of(db, "profiles") : Refers(db, q, "inherits", p)}
VersionsOf(db, p) ==
    {v \in Of(db, "profile_versions") : Refers(db, v, "profile", p)}

DeleteProfile(db, p) == DeleteRows(VersionsOf(db, p) \cup {p})

CloneProfile(db, p, name) ==
    InsertProfile(db[p]["distribution"], name, db[p])

CreateVersion(db, p) ==
    InsertRow(<<"profile_versions", p, Cardinality(VersionsOf(db, p)) + 1>>,
              "profile" :> p)

\* A document replaces a profile; it names no parent or one.
ImportProfile(d, old, name, parents) ==
    [op |-> "replace", distribution |-> d, old |-> old, name |-> name,
     parents |-> parents]

\* The parent is looked up by name once the old profile is gone, and so is the
\* distribution, for a second time.
ParentsFound(db, d, parents) ==
    {q \in Of(db, "profiles") :
        /\ Name(q) \in parents
        /\ \E o \in Named(db, Name(d)) : Refers(db, q, "distribution", o)}

Replaced(db, d, old, name, parents) ==
    LET base  == Without(db, {old})
        found == ParentsFound(base, d, parents)
    IN base @@ (NewId(base, "profiles", name) :>
                   [c \in {"distribution"} \cup {"inherits" : q \in found} |->
                      IF c = "distribution" THEN d
                      ELSE CHOOSE q \in found : TRUE])

-----------------------------------------------------------------------------
(* resolver/resolver.py                                                    *)

MaxInheritDepth == 32

Parent(db, p) == IF Has(db, p, "inherits") THEN {db[p]["inherits"]} ELSE {}

\* The profile and its ancestors; it ends where a parent is gone.  A parent that
\* comes up a second time, which the code refuses to resolve, ends it here too.
ProfileChain(db, p) ==
    LET chain[n \in 0..MaxInheritDepth] ==
            IF n = 0 THEN <<p>>
            ELSE LET so_far == chain[n - 1]
                     next == (Parent(db, so_far[Len(so_far)]) \cap DOMAIN db)
                             \ {so_far[i] : i \in DOMAIN so_far}
                 IN IF Len(so_far) < n \/ next = {} THEN so_far
                    ELSE Append(so_far, CHOOSE q \in next : TRUE)
    IN chain[MaxInheritDepth]

\* The value of the first profile of the chain that has one.
Pick(db, p, column) ==
    LET chain == ProfileChain(db, p)
        having == {i \in DOMAIN chain : Has(db, chain[i], column)}
    IN {db[chain[i]][column] : i \in {j \in having : \A k \in having : j <= k}}

ArchOf(db, k) == IF Has(db, k, "arch") THEN {db[k]["arch"]} ELSE {}

\* The packages of a set, and those of them that come in an architecture.
MembersOf(db, set) ==
    {db[m]["package"] : m \in
        {n \in Of(db, "package_group_members") : \E s \in
            Of(db, "package_set_members") :
               /\ Refers(db, s, "set", set)
               /\ db[s]["group"] = db[n]["group"]}}
PackagesFromSet(db, set, arch) ==
    {q \in MembersOf(db, set) : \E v \in Of(db, "package_versions") :
        Refers(db, v, "package", q) /\ db[v]["arch"] = arch}
=============================================================================
