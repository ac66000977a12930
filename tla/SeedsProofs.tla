----------------------------- MODULE SeedsProofs -----------------------------
(***************************************************************************)
(* What the seeds leave alone, what refers to what, and that a seed that   *)
(* runs twice does nothing the second time: for any starting databases     *)
(* that meet StartsAssumption, any seeding revisions in any order, any     *)
(* commands, requests and builds in between.                               *)
(***************************************************************************)
EXTENDS Seeds, FiniteSetTheorems, TLAPS

-----------------------------------------------------------------------------
(* Two databases, one of which a seed made from the other.                 *)

Numbered == {"distributions", "profiles"}

\* Every row and column that was there is there, but for what a seed chooses
\* for a profile; profiles are added to distributions that are there and inherit
\* from nothing.
Keeps(a, b) ==
    /\ DOMAIN a \subseteq DOMAIN b
    /\ \A k \in DOMAIN a : \A c \in DOMAIN a[k] :
          /\ c \in DOMAIN b[k]
          /\ b[k][c] = a[k][c] \/ (Table_(k) = "profiles" /\ c \in Reset)
    /\ \A k \in DOMAIN a :
          Table_(k) = "profiles" /\ "inherits" \in DOMAIN b[k] =>
             "inherits" \in DOMAIN a[k]
Adds_(a, b) ==
    \A k \in DOMAIN b \ DOMAIN a :
       /\ Table_(k) # "deleted"
       /\ Table_(k) = "profiles" =>
            /\ "inherits" \notin DOMAIN b[k]
            /\ "distribution" \in DOMAIN b[k]
            /\ b[k]["distribution"] \in Distributions(b)
IsNumbered(db) == \E n \in Nat : NumberedUpTo(db, n)

\* What is left of a deleted row is its id; no two distributions have a name.
Buried(db) == \A m \in Of(db, "deleted") : Refers(db, m, "row", Name(m))
OneName(db) == \A d, e \in Distributions(db) : Name(d) = Name(e) => d = e

\* Ids of deleted rows are not given again, nor are names.
Makes(a, b) ==
    /\ IsNumbered(a) /\ Buried(a) =>
         \A k \in DOMAIN b \ DOMAIN a :
            Table_(k) \in Numbered => Row("deleted", k) \notin DOMAIN a
    /\ OneName(a) => OneName(b)

Grows(a, b) ==
    /\ Keeps(a, b) /\ Adds_(a, b) /\ Makes(a, b)
    /\ IsNumbered(a) => IsNumbered(b)

LEMMA GrowsReflexive == ASSUME NEW a PROVE Grows(a, a)
BY DEF Grows, Keeps, Adds_, Makes

LEMMA GrowsBuried ==
    ASSUME NEW a, NEW b, Keeps(a, b), Adds_(a, b), Buried(a)
    PROVE  Buried(b)
<1> SUFFICES ASSUME NEW m \in Of(b, "deleted")
             PROVE  Refers(b, m, "row", Name(m))
  BY DEF Buried
<1>1. m \in Of(a, "deleted")
  BY DEF Adds_, Of
<1>2. Refers(a, m, "row", Name(m)) /\ Table_(m) = "deleted"
  BY <1>1 DEF Buried, Of
<1> QED
  BY <1>2 DEF Keeps, Refers, Has

LEMMA GrowsTransitive ==
    ASSUME NEW a, NEW b, NEW d, Grows(a, b), Grows(b, d)
    PROVE  Grows(a, d)
<1>1. Keeps(a, d)
  BY DEF Grows, Keeps
<1>2. Adds_(a, d)
  <2> SUFFICES ASSUME NEW k \in DOMAIN d \ DOMAIN a
               PROVE  /\ Table_(k) # "deleted"
                      /\ Table_(k) = "profiles" =>
                           /\ "inherits" \notin DOMAIN d[k]
                           /\ "distribution" \in DOMAIN d[k]
                           /\ d[k]["distribution"] \in Distributions(d)
    BY DEF Adds_
  <2>1. CASE k \notin DOMAIN b
    BY <2>1 DEF Grows, Adds_
  <2>2. CASE k \in DOMAIN b
    <3>1. Distributions(b) \subseteq Distributions(d)
      BY DEF Grows, Keeps, Distributions, Of
    <3>2. "distribution" \notin Reset
      BY DEF Reset
    <3> QED
      BY <2>2, <3>1, <3>2 DEF Grows, Keeps, Adds_
  <2> QED
    BY <2>1, <2>2
<1>3. Makes(a, d)
  <2>1. ASSUME IsNumbered(a), Buried(a), NEW k \in DOMAIN d \ DOMAIN a,
               Table_(k) \in Numbered
        PROVE  Row("deleted", k) \notin DOMAIN a
    <3>1. IsNumbered(b) /\ Buried(b) /\ DOMAIN a \subseteq DOMAIN b
      BY <2>1, GrowsBuried DEF Grows, Keeps
    <3>2. CASE k \in DOMAIN b
      BY <2>1, <3>2 DEF Grows, Makes
    <3>3. CASE k \notin DOMAIN b
      BY <2>1, <3>1, <3>3 DEF Grows, Makes
    <3> QED
      BY <3>2, <3>3
  <2>2. OneName(a) => OneName(d)
    BY DEF Grows, Makes
  <2> QED
    BY <2>1, <2>2 DEF Makes
<1>4. IsNumbered(a) => IsNumbered(d)
  BY DEF Grows
<1> QED
  BY <1>1, <1>2, <1>3, <1>4 DEF Grows

-----------------------------------------------------------------------------
(* Rows of the other tables.                                               *)

Plain(db, refs) ==
    \A c \in DOMAIN refs :
       refs[c] \in DOMAIN db \/ Table_(refs[c]) \notin Numbered

\* Rows whose insertion neither makes nor mentions a numbered row.
Others(db, new) ==
    \A k \in DOMAIN new :
       /\ Table_(k) \notin Numbered \cup {"deleted"}
       /\ Plain(db, new[k])

LEMMA NumberedMeans ==
    ASSUME NEW db, NEW n
    PROVE  NumberedUpTo(db, n) <=>
             \A k \in DOMAIN db :
               /\ Table_(k) \in Numbered => k[3] \in 0..n
               /\ \A c \in DOMAIN db[k] :
                    Table_(db[k][c]) \in Numbered => db[k][c][3] \in 0..n
<1>1. ASSUME NumberedUpTo(db, n), NEW k \in DOMAIN db
      PROVE  /\ Table_(k) \in Numbered => k[3] \in 0..n
             /\ \A c \in DOMAIN db[k] :
                  Table_(db[k][c]) \in Numbered => db[k][c][3] \in 0..n
  <2>1. k \in Mentioned(db) /\ \A c \in DOMAIN db[k] : db[k][c] \in Mentioned(db)
    BY DEF Mentioned
  <2> QED
    BY <1>1, <2>1 DEF NumberedUpTo, Numbered
<1>2. ASSUME \A k \in DOMAIN db :
               /\ Table_(k) \in Numbered => k[3] \in 0..n
               /\ \A c \in DOMAIN db[k] :
                    Table_(db[k][c]) \in Numbered => db[k][c][3] \in 0..n,
             NEW m \in Mentioned(db), Table_(m) \in Numbered
      PROVE  m[3] \in 0..n
  <2>1. m \in DOMAIN db \/ \E k \in DOMAIN db : \E c \in DOMAIN db[k] : m = db[k][c]
    BY DEF Mentioned
  <2> QED
    BY <1>2, <2>1
<1> QED
  BY <1>1, <1>2 DEF NumberedUpTo, Numbered

LEMMA InsertGrows ==
    ASSUME NEW db, NEW new, Others(db, new)
    PROVE  Grows(db, Insert_(db, new))
<1> DEFINE b == Insert_(db, new)
<1>1. /\ DOMAIN b = DOMAIN db \cup DOMAIN new
      /\ \A k \in DOMAIN db : b[k] = db[k]
      /\ \A k \in DOMAIN b \ DOMAIN db : k \in DOMAIN new /\ b[k] = new[k]
  BY DEF Insert_, @@
<1> HIDE DEF b
<1>2. Keeps(db, b)
  BY <1>1 DEF Keeps
<1>3. Adds_(db, b)
  BY <1>1 DEF Adds_, Others, Numbered
<1>4. ASSUME NEW n \in Nat, NumberedUpTo(db, n)
      PROVE  NumberedUpTo(b, n)
  <2>1. ASSUME NEW k \in DOMAIN b
        PROVE  /\ Table_(k) \in Numbered => k[3] \in 0..n
               /\ \A c \in DOMAIN b[k] :
                    Table_(b[k][c]) \in Numbered => b[k][c][3] \in 0..n
    <3>1. CASE k \in DOMAIN db
      BY <1>1, <1>4, <3>1, NumberedMeans
    <3>2. CASE k \notin DOMAIN db
      <4>1. k \in DOMAIN new /\ b[k] = new[k]
        BY <1>1, <3>2
      <4>2. Table_(k) \notin Numbered /\ Plain(db, b[k])
        BY <4>1 DEF Others
      <4> QED
        BY <1>4, <4>2, NumberedMeans DEF Plain
    <3> QED
      BY <3>1, <3>2
  <2> QED
    BY <2>1, NumberedMeans
<1>5. Makes(db, b)
  <2>1. \A k \in DOMAIN b \ DOMAIN db : Table_(k) \notin Numbered
    BY <1>1 DEF Others
  <2>2. Distributions(b) = Distributions(db)
    BY <1>1, <2>1 DEF Distributions, Of, Numbered
  <2> QED
    BY <2>1, <2>2 DEF Makes, OneName
<1> QED
  BY <1>2, <1>3, <1>4, <1>5 DEF Grows, IsNumbered, b

-----------------------------------------------------------------------------
(* The references rows are inserted with.                                  *)

LEMMA PlainNone == \A db : Plain(db, NoRefs_)
BY DEF Plain, NoRefs_

LEMMA PlainOne ==
    ASSUME NEW db, NEW c, NEW k, k \in DOMAIN db \/ Table_(k) \notin Numbered
    PROVE  Plain(db, c :> k)
BY DEF Plain, :>

LEMMA PlainBoth ==
    ASSUME NEW db, NEW r, NEW q, Plain(db, r), Plain(db, q)
    PROVE  Plain(db, r @@ q)
BY DEF Plain, @@

LEMMA PlainLookup ==
    ASSUME NEW db, NEW c, NEW k
    PROVE  Plain(db, Lookup(db, c, k))
BY PlainNone, PlainOne DEF Lookup

LEMMA PlainArch == \A db, a : Plain(db, ArchRef(db, a))
BY PlainLookup DEF ArchRef

LEMMA PlainRow ==
    ASSUME NEW db, NEW c, NEW table, table \notin Numbered, NEW n
    PROVE  Plain(db, c :> Row(table, n))
BY PlainOne DEF Row, Table_

LEMMA OthersBoth ==
    ASSUME NEW db, NEW f, NEW g, Others(db, f), Others(db, g)
    PROVE  Others(db, f @@ g)
BY DEF Others, @@

LEMMA RowParts == \A t, n : Table_(Row(t, n)) = t /\ Name(Row(t, n)) = n
BY DEF Row, Table_, Name

LEMMA KeyParts ==
    \A t, n, o : /\ Table_(Key(t, n, o)) = t /\ Name(Key(t, n, o)) = n
                 /\ Key(t, n, o)[3] = o
BY DEF Key, Table_, Name

-----------------------------------------------------------------------------
(* The tables of the base catalogue.                                       *)

LEMMA ClassesGrow == \A db : Grows(db, SeedDistributionClasses(db))
<1> TAKE db
<1> DEFINE none(n) == NoRefs_
           new == Rows("distribution_classes", Classes, none)
<1>1. Others(db, new)
  BY RowParts, PlainNone DEF Others, Rows, Numbered
<1> QED
  BY <1>1, InsertGrows DEF SeedDistributionClasses

LEMMA ArchitecturesGrow == \A db : Grows(db, SeedArchitectures(db))
<1> TAKE db
<1> DEFINE none(n) == NoRefs_
           new == Rows("architectures", Architectures, none)
<1>1. Others(db, new)
  BY RowParts, PlainNone DEF Others, Rows, Numbered
<1> QED
  BY <1>1, InsertGrows DEF SeedArchitectures

LEMMA BoardsGrow == \A db : Grows(db, SeedBoards(db))
<1> TAKE db
<1> DEFINE refs(n) == ArchRef(db, BoardArch[n])
           new == WithArch(db, "boards", BoardArch, refs)
<1>1. Others(db, new)
  BY RowParts, PlainArch DEF Others, WithArch, Rows, Numbered
<1> QED
  BY <1>1, InsertGrows DEF SeedBoards

LEMMA ToolchainsGrow == \A db : Grows(db, SeedToolchains(db))
<1> TAKE db
<1> DEFINE refs(n) == ArchRef(db, ToolchainArch[n])
           new == WithArch(db, "toolchains", ToolchainArch, refs)
<1>1. Others(db, new)
  BY RowParts, PlainArch DEF Others, WithArch, Rows, Numbered
<1> QED
  BY <1>1, InsertGrows DEF SeedToolchains

LEMMA KernelsGrow == \A db : Grows(db, SeedKernels(db))
<1> TAKE db
<1> DEFINE refs(n) == ArchRef(db, Kernels[n].arch)
                   @@ Lookup(db, "board", Row("boards", Kernels[n].board))
           new == WithArch(db, "kernels", KernelArch, refs)
<1>1. \A n : Plain(db, refs(n))
  BY PlainArch, PlainLookup, PlainBoth
<1>2. Others(db, new)
  BY <1>1, RowParts DEF Others, WithArch, Rows, Numbered
<1> QED
  BY <1>2, InsertGrows DEF SeedKernels

LEMMA BaseGrows ==
    ASSUME NEW db, NEW kernels, NEW files
    PROVE  Grows(db, BaseCatalog(db, kernels, files))
<1> DEFINE one   == SeedArchitectures(db)
           two   == SeedBoards(one)
           three == SeedToolchains(two)
<1>1. \/ BaseCatalog(db, kernels, files) = SeedKernels(three)
      \/ BaseCatalog(db, kernels, files) = three
      \/ BaseCatalog(db, kernels, files) = db
  BY DEF BaseCatalog
<1>2. Grows(db, one) /\ Grows(one, two) /\ Grows(two, three)
  BY ArchitecturesGrow, BoardsGrow, ToolchainsGrow
<1>3. Grows(three, SeedKernels(three)) /\ Grows(db, db)
  BY KernelsGrow, GrowsReflexive
<1> HIDE DEF one, two, three
<1>4. Grows(db, two)
  BY <1>2, GrowsTransitive
<1>5. Grows(db, three)
  BY <1>2, <1>4, GrowsTransitive
<1>6. Grows(db, SeedKernels(three))
  BY <1>3, <1>5, GrowsTransitive
<1> QED
  BY <1>1, <1>3, <1>5, <1>6

-----------------------------------------------------------------------------
(* Numbers.                                                                *)

LEMMA NewIdParts ==
    ASSUME NEW db, NEW table, NEW name
    PROVE  /\ Table_(NewId(db, table, name)) = table
           /\ Name(NewId(db, table, name)) = name
BY DEF NewId, Table_, Name

\* Among finitely many rows a number is left.
LEMMA NumberLeft ==
    ASSUME NEW used, NEW n \in Nat, used \subseteq 0..n
    PROVE  /\ Cardinality(used) \in 0..(n + 1)
           /\ \E m \in 0..Cardinality(used) : m \notin used
<1>1. IsFiniteSet(used)
  <2>1. IsFiniteSet(0..n)
    BY FS_Interval
  <2>2. used \in SUBSET (0..n)
    OBVIOUS
  <2> QED
    BY <2>1, <2>2, FS_Subset
<1>2. Cardinality(used) \in Nat /\ Cardinality(used) <= n + 1
  <2>1. IsFiniteSet(0..n) /\ Cardinality(0..n) = n + 1
    BY FS_Interval
  <2> QED
    BY <1>1, <2>1, FS_CardinalityType, FS_Subset
<1>3. ASSUME 0..Cardinality(used) \subseteq used
      PROVE  FALSE
  <2>1. Cardinality(0..Cardinality(used)) = Cardinality(used) + 1
    BY <1>2, FS_Interval
  <2>2. Cardinality(0..Cardinality(used)) <= Cardinality(used)
    BY <1>1, <1>3, FS_Subset
  <2> QED
    BY <1>2, <2>1, <2>2
<1> QED
  BY <1>2, <1>3

LEMMA NewIdIsNew ==
    ASSUME NEW db, NEW n \in Nat, NumberedUpTo(db, n),
           NEW table \in Numbered, NEW name
    PROVE  /\ NewId(db, table, name)[3] \in 0..(n + 1)
           /\ NewId(db, table, name) \notin Mentioned(db)
<1> DEFINE used == {k[3] : k \in {m \in Mentioned(db) :
                                     m[1] = table /\ m[2] = name}}
           number == CHOOSE i \in 0..Cardinality(used) : i \notin used
<1>1. used \subseteq 0..n
  BY DEF NumberedUpTo, Numbered, Table_
<1>2. /\ Cardinality(used) \in 0..(n + 1)
      /\ \E i \in 0..Cardinality(used) : i \notin used
  BY <1>1, NumberLeft
<1>3. number \in 0..Cardinality(used) /\ number \notin used
  BY <1>2
<1>4. NewId(db, table, name) = <<table, name, number>>
  BY DEF NewId
<1> HIDE DEF number
<1>5. ASSUME <<table, name, number>> \in Mentioned(db)
      PROVE  FALSE
  <2>1. <<table, name, number>>[3] \in used
    BY <1>5
  <2> QED
    BY <1>3, <2>1
<1>6. number \in 0..(n + 1)
  BY <1>2, <1>3
<1> QED
  BY <1>4, <1>5, <1>6

\* What is new is no deleted row's.
LEMMA NewIdNeverGone ==
    ASSUME NEW db, IsNumbered(db), Buried(db), NEW table \in Numbered, NEW name
    PROVE  Row("deleted", NewId(db, table, name)) \notin DOMAIN db
<1> DEFINE k == NewId(db, table, name)
           m == Row("deleted", k)
<1>1. k \notin Mentioned(db)
  BY NewIdIsNew DEF IsNumbered
<1> HIDE DEF k
<1> SUFFICES ASSUME m \in DOMAIN db PROVE FALSE
  BY DEF k
<1>2. Table_(m) = "deleted" /\ Name(m) = k
  BY RowParts
<1> HIDE DEF m
<1>3. Refers(db, m, "row", k)
  BY <1>2 DEF Buried, Of
<1>4. k \in Mentioned(db)
  BY <1>3 DEF Refers, Has, Mentioned
<1> QED
  BY <1>1, <1>4

\* A table's rows after a function that adds numbered ones is bounded again.
LEMMA StaysNumbered ==
    ASSUME NEW a, NEW b, IsNumbered(a), NEW n \in Nat,
           \A k \in DOMAIN b :
              /\ k \in DOMAIN a \/ (Table_(k) \in Numbered => k[3] \in 0..n)
              /\ \A c \in DOMAIN b[k] :
                   \/ b[k][c] \in Mentioned(a)
                   \/ Table_(b[k][c]) \notin Numbered
                   \/ b[k][c][3] \in 0..n
    PROVE  IsNumbered(b)
<1>1. PICK m \in Nat : NumberedUpTo(a, m)
  BY DEF IsNumbered
<1> DEFINE top == IF m > n THEN m ELSE n
<1>2. top \in Nat /\ \A i : i \in 0..m \/ i \in 0..n => i \in 0..top
  OBVIOUS
<1> HIDE DEF top
<1>3. ASSUME NEW k \in DOMAIN b
      PROVE  /\ Table_(k) \in Numbered => k[3] \in 0..top
             /\ \A c \in DOMAIN b[k] :
                  Table_(b[k][c]) \in Numbered => b[k][c][3] \in 0..top
  <2>1. \A j \in Mentioned(a) : Table_(j) \in Numbered => j[3] \in 0..m
    BY <1>1 DEF NumberedUpTo, Numbered
  <2>2. DOMAIN a \subseteq Mentioned(a)
    BY DEF Mentioned
  <2> QED
    BY <1>2, <2>1, <2>2
<1>4. NumberedUpTo(b, top)
  BY <1>3, NumberedMeans
<1> QED
  BY <1>2, <1>4 DEF IsNumbered

-----------------------------------------------------------------------------
(* Distributions and profiles that are looked up and made.                 *)

LEMMA DistributionsGrow ==
    ASSUME NEW db, NEW refs, \A n \in DOMAIN refs : Plain(db, refs[n])
    PROVE  /\ Grows(db, GetOrCreateDistributions(db, refs))
           /\ \A n \in DOMAIN refs :
                 Named(GetOrCreateDistributions(db, refs), n) # {}
<1> DEFINE b == GetOrCreateDistributions(db, refs)
           id(n) == NewId(db, "distributions", n)
           new == {n \in DOMAIN refs : Named(db, n) = {}}
<1>1. /\ DOMAIN b = DOMAIN db \cup {id(n) : n \in new}
      /\ \A k \in DOMAIN db : b[k] = db[k]
      /\ \A k \in DOMAIN b \ DOMAIN db : b[k] = refs[Name(k)]
  BY DEF GetOrCreateDistributions, Insert_, @@
<1>2. \A n : Table_(id(n)) = "distributions" /\ Name(id(n)) = n
  BY NewIdParts
<1> HIDE DEF b, id
<1>3. Keeps(db, b)
  BY <1>1 DEF Keeps
<1>4. Adds_(db, b)
  BY <1>1, <1>2 DEF Adds_
<1>5. ASSUME NEW m \in Nat, NumberedUpTo(db, m)
      PROVE  IsNumbered(b)
  <2>1. ASSUME NEW k \in DOMAIN b
        PROVE  /\ k \in DOMAIN db \/ (Table_(k) \in Numbered => k[3] \in 0..(m + 1))
               /\ \A c \in DOMAIN b[k] :
                     \/ b[k][c] \in Mentioned(db)
                     \/ Table_(b[k][c]) \notin Numbered
                     \/ b[k][c][3] \in 0..(m + 1)
    <3>1. CASE k \in DOMAIN db
      BY <1>1, <3>1 DEF Mentioned
    <3>2. CASE k \notin DOMAIN db
      <4>1. PICK n \in DOMAIN refs : k = id(n)
        BY <1>1, <3>2
      <4>2. k[3] \in 0..(m + 1)
        BY <1>5, <4>1, NewIdIsNew DEF id, Numbered
      <4>3. Plain(db, b[k])
        BY <1>1, <1>2, <3>2, <4>1
      <4> QED
        BY <4>2, <4>3 DEF Plain, Mentioned
    <3> QED
      BY <3>1, <3>2
  <2>2. IsNumbered(db) /\ m + 1 \in Nat
    BY <1>5 DEF IsNumbered
  <2> QED
    BY <2>1, <2>2, StaysNumbered
<1>6. ASSUME NEW n \in DOMAIN refs
      PROVE  Named(b, n) # {}
  <2>1. CASE Named(db, n) = {}
    <3>1. id(n) \in Named(b, n)
      BY <1>1, <1>2, <2>1 DEF Named, Distributions, Of
    <3> QED
      BY <3>1
  <2>2. CASE Named(db, n) # {}
    BY <1>1, <2>2 DEF Named, Distributions, Of
  <2> QED
    BY <2>1, <2>2
<1>7. Makes(db, b)
  <2>1. ASSUME IsNumbered(db), Buried(db), NEW k \in DOMAIN b \ DOMAIN db
        PROVE  Row("deleted", k) \notin DOMAIN db
    <3>1. PICK n \in new : k = id(n)
      BY <1>1, <2>1
    <3> QED
      BY <2>1, <3>1, NewIdNeverGone DEF id, Numbered
  <2>2. ASSUME OneName(db), NEW d \in Distributions(b), NEW e \in Distributions(b),
               Name(d) = Name(e)
        PROVE  d = e
    <3>1. \A k \in Distributions(b) :
             \/ k \in Distributions(db)
             \/ \E n \in new : k = id(n) /\ Name(k) = n
      BY <1>1, <1>2 DEF Distributions, Of
    <3>2. \A k \in Distributions(db) : Name(k) \notin new
      BY DEF Named
    <3> QED
      BY <2>2, <3>1, <3>2 DEF OneName
  <2> QED
    BY <2>1, <2>2 DEF Makes, OneName
<1>8. Grows(db, b)
  BY <1>3, <1>4, <1>5, <1>7 DEF Grows, IsNumbered
<1> QED
  BY <1>6, <1>8 DEF b

LEMMA ProfilesGrow ==
    ASSUME NEW db, NEW d \in Distributions(db), NEW refs,
           \A n \in DOMAIN refs : Plain(db, refs[n]) /\ DOMAIN refs[n] \subseteq Reset
    PROVE  Grows(db, GetOrCreateProfiles(db, d, refs))
<1> DEFINE b == GetOrCreateProfiles(db, d, refs)
           id(n) == ProfileId(db, d, n)
           own(k) == IF k \in DOMAIN db THEN db[k] ELSE "distribution" :> d
<1>1. /\ DOMAIN b = DOMAIN db \cup {id(n) : n \in DOMAIN refs}
      /\ \A n \in DOMAIN refs :
            b[id(n)] = refs[Name(id(n))] @@ own(id(n))
      /\ \A k \in DOMAIN db \ {id(n) : n \in DOMAIN refs} : b[k] = db[k]
  <2> DEFINE made == [k \in {id(n) : n \in DOMAIN refs} |-> refs[Name(k)] @@ own(k)]
  <2>1. b = made @@ db
    BY DEF GetOrCreateProfiles
  <2> HIDE DEF b, id, own
  <2>2. DOMAIN made = {id(n) : n \in DOMAIN refs}
    OBVIOUS
  <2>3. \A n \in DOMAIN refs : made[id(n)] = refs[Name(id(n))] @@ own(id(n))
    OBVIOUS
  <2> HIDE DEF made
  <2> QED
    BY <2>1, <2>2, <2>3 DEF @@
<1>2. ASSUME NEW n
      PROVE  /\ Table_(id(n)) = "profiles" /\ Name(id(n)) = n
             /\ id(n) \in DOMAIN db \/ id(n) = NewId(db, "profiles", n)
  <2>1. CASE ProfilesNamed(db, d, n) = {}
    BY <2>1, NewIdParts DEF ProfileId
  <2>2. CASE ProfilesNamed(db, d, n) # {}
    <3>1. id(n) \in ProfilesNamed(db, d, n)
      BY <2>2 DEF ProfileId
    <3> QED
      BY <3>1 DEF ProfilesNamed, ProfilesOf, Of
  <2> QED
    BY <2>1, <2>2
<1> HIDE DEF b, id
<1>3. ASSUME NEW k \in DOMAIN db
      PROVE  /\ k \in DOMAIN b
             /\ DOMAIN db[k] \subseteq DOMAIN b[k]
             /\ \A c \in DOMAIN b[k] :
                  \/ c \in DOMAIN db[k] /\ b[k][c] = db[k][c]
                  \/ /\ Table_(k) = "profiles" /\ c \in Reset
                     /\ Plain(db, c :> b[k][c])
  <2>1. CASE k \notin {id(n) : n \in DOMAIN refs}
    BY <1>1, <2>1
  <2>2. CASE k \in {id(n) : n \in DOMAIN refs}
    <3>1. PICK n \in DOMAIN refs : k = id(n)
      BY <2>2
    <3>2. b[k] = refs[n] @@ db[k] /\ Table_(k) = "profiles"
      BY <1>1, <1>2, <3>1
    <3>3. Plain(db, refs[n]) /\ DOMAIN refs[n] \subseteq Reset
      OBVIOUS
    <3> QED
      BY <1>1, <3>2, <3>3 DEF @@, Plain, :>
  <2> QED
    BY <2>1, <2>2
<1>4. ASSUME NEW k \in DOMAIN b \ DOMAIN db
      PROVE  /\ Table_(k) = "profiles"
             /\ \E n : k = NewId(db, "profiles", n)
             /\ "distribution" \in DOMAIN b[k] /\ b[k]["distribution"] = d
             /\ \A c \in DOMAIN b[k] \ {"distribution"} :
                   c \in Reset /\ Plain(db, c :> b[k][c])
  <2>1. PICK n \in DOMAIN refs : k = id(n)
    BY <1>1
  <2>2. b[k] = refs[n] @@ ("distribution" :> d)
    BY <1>1, <1>2, <2>1
  <2>3. Plain(db, refs[n]) /\ DOMAIN refs[n] \subseteq Reset /\ "distribution" \notin Reset
    BY DEF Reset
  <2> QED
    BY <1>2, <2>1, <2>2, <2>3 DEF @@, Plain, :>
<1>5. Keeps(db, b)
  <2>1. "inherits" \notin Reset
    BY DEF Reset
  <2> QED
    BY <1>3, <2>1 DEF Keeps
<1>6. Adds_(db, b)
  <2>1. Distributions(db) \subseteq Distributions(b) /\ "inherits" \notin Reset
    BY <1>1 DEF Distributions, Of, Reset
  <2> QED
    BY <1>4, <2>1 DEF Adds_
<1>7. ASSUME NEW m \in Nat, NumberedUpTo(db, m)
      PROVE  IsNumbered(b)
  <2>1. ASSUME NEW k \in DOMAIN b
        PROVE  /\ k \in DOMAIN db \/ (Table_(k) \in Numbered => k[3] \in 0..(m + 1))
               /\ \A c \in DOMAIN b[k] :
                     \/ b[k][c] \in Mentioned(db)
                     \/ Table_(b[k][c]) \notin Numbered
                     \/ b[k][c][3] \in 0..(m + 1)
    <3>1. \A c, r : Plain(db, c :> r) => r \in DOMAIN db \/ Table_(r) \notin Numbered
      BY DEF Plain, :>
    <3>2. /\ DOMAIN db \subseteq Mentioned(db)
          /\ \A j \in DOMAIN db : \A c \in DOMAIN db[j] : db[j][c] \in Mentioned(db)
      BY DEF Mentioned
    <3>3. CASE k \in DOMAIN db
      BY <1>3, <3>1, <3>2, <3>3
    <3>4. CASE k \notin DOMAIN db
      <4>1. k[3] \in 0..(m + 1)
        BY <1>4, <1>7, <3>4, NewIdIsNew DEF Numbered
      <4>2. d \in DOMAIN db
        BY DEF Distributions, Of
      <4> QED
        BY <1>4, <3>1, <3>2, <3>4, <4>1, <4>2
    <3> QED
      BY <3>3, <3>4
  <2>2. IsNumbered(db) /\ m + 1 \in Nat
    BY <1>7 DEF IsNumbered
  <2> QED
    BY <2>1, <2>2, StaysNumbered
<1>8. Makes(db, b)
  <2>1. \A k \in DOMAIN b \ DOMAIN db : Table_(k) = "profiles"
    BY <1>4
  <2>2. Distributions(b) = Distributions(db)
    BY <1>3, <2>1 DEF Distributions, Of
  <2>3. IsNumbered(db) /\ Buried(db) =>
          \A k \in DOMAIN b \ DOMAIN db : Row("deleted", k) \notin DOMAIN db
    BY <1>4, NewIdNeverGone DEF Numbered
  <2> QED
    BY <2>2, <2>3 DEF Makes, OneName
<1> QED
  BY <1>5, <1>6, <1>7, <1>8 DEF Grows, IsNumbered, b

-----------------------------------------------------------------------------
(* The reference distributions.                                            *)

LEMMA NamedStays ==
    ASSUME NEW a, NEW b, Grows(a, b), NEW name, Named(a, name) # {}
    PROVE  Named(b, name) # {}
BY DEF Grows, Keeps, Named, Distributions, Of

LEMMA ThereIs ==
    ASSUME NEW db, NEW name, Named(db, name) # {}
    PROVE  /\ TheDistribution(db, name) \in Distributions(db)
           /\ TheDistribution(db, name) \in DOMAIN db
BY DEF TheDistribution, Named, Distributions, Of

LEMMA PlainClass == \A db, class : Plain(db, ClassRef(db, class))
BY PlainLookup DEF ClassRef

\* The class of a distribution that has none.
LEMMA ClassSetGrows ==
    ASSUME NEW db, NEW d \in Distributions(db), ~Has(db, d, "class"), NEW class
    PROVE  Grows(db, Set(db, d, ClassRef(db, class)))
<1> DEFINE refs == ClassRef(db, class)
           b    == Set(db, d, refs)
<1>1. DOMAIN refs \subseteq {"class"}
  BY DEF ClassRef, Lookup, NoRefs_, :>
<1>2. Plain(db, refs)
  BY PlainClass
<1>3. d \in DOMAIN db /\ Table_(d) = "distributions"
  BY DEF Distributions, Of
<1> HIDE DEF refs
<1>4. /\ DOMAIN b = DOMAIN db
      /\ \A k \in DOMAIN db \ {d} : b[k] = db[k]
      /\ DOMAIN b[d] = DOMAIN refs \cup DOMAIN db[d]
      /\ \A c \in DOMAIN db[d] : c \in DOMAIN refs \/ b[d][c] = db[d][c]
      /\ \A c \in DOMAIN refs : b[d][c] = refs[c]
  BY <1>3 DEF Set, @@
<1> HIDE DEF b
<1>5. Keeps(db, b)
  <2>1. "class" \notin DOMAIN db[d]
    BY <1>3 DEF Has
  <2> QED
    BY <1>1, <1>3, <1>4, <2>1 DEF Keeps
<1>6. Adds_(db, b)
  BY <1>4 DEF Adds_
<1>7. ASSUME NEW n \in Nat, NumberedUpTo(db, n)
      PROVE  NumberedUpTo(b, n)
  <2>1. \A k \in DOMAIN db :
           /\ Table_(k) \in Numbered => k[3] \in 0..n
           /\ \A c \in DOMAIN db[k] :
                Table_(db[k][c]) \in Numbered => db[k][c][3] \in 0..n
    BY <1>7, NumberedMeans
  <2>2. ASSUME NEW k \in DOMAIN b
        PROVE  /\ Table_(k) \in Numbered => k[3] \in 0..n
               /\ \A c \in DOMAIN b[k] :
                    Table_(b[k][c]) \in Numbered => b[k][c][3] \in 0..n
    <3>1. CASE k # d
      BY <1>4, <2>1, <3>1
    <3>2. CASE k = d
      BY <1>2, <1>4, <2>1, <3>2 DEF Plain
    <3> QED
      BY <3>1, <3>2
  <2> QED
    BY <2>2, NumberedMeans
<1>8. Makes(db, b)
  <2>1. Distributions(b) = Distributions(db)
    BY <1>4 DEF Distributions, Of
  <2> QED
    BY <1>4, <2>1 DEF Makes, OneName
<1> QED
  BY <1>5, <1>6, <1>7, <1>8 DEF Grows, IsNumbered, b, refs

LEMMA FirstIsRow ==
    ASSUME NEW db, NEW table, NEW names, NEW k \in FirstOf(db, table, names)
    PROVE  Table_(k) = table
BY RowParts DEF FirstOf

LEMMA PlainProfile ==
    ASSUME NEW db, NEW d, NEW p
    PROVE  /\ Plain(db, ProfileRefs(db, d, p))
           /\ DOMAIN ProfileRefs(db, d, p) \subseteq Reset
<1> DEFINE boards == FirstOf(db, "boards", p.boards)
           board == [c \in {"board" : b \in boards} |-> CHOOSE b \in boards : TRUE]
           kernel == IF p.kernels = {} THEN NoRefs_
                     ELSE Lookup(db, "kernel",
                                 Row("kernels", CHOOSE k \in p.kernels : TRUE))
           toolchain == Lookup(db, "toolchain", Row("toolchains", p.toolchain))
           set == "package_set" :> Key("package_sets", p.set, d)
<1>1. Plain(db, board) /\ DOMAIN board \subseteq {"board"}
  <2>1. ASSUME NEW c \in DOMAIN board
        PROVE  Table_(board[c]) = "boards"
    <3>1. board[c] \in boards
      OBVIOUS
    <3> QED
      BY <3>1, FirstIsRow
  <2> QED
    BY <2>1 DEF Plain, Numbered
<1>2. Plain(db, kernel) /\ DOMAIN kernel \subseteq {"kernel"}
  <2>1. DOMAIN kernel \subseteq {"kernel"}
    BY DEF Lookup, NoRefs_, :>
  <2> QED
    BY <2>1, PlainNone, PlainLookup
<1>3. Plain(db, toolchain) /\ DOMAIN toolchain \subseteq {"toolchain"}
  <2>1. DOMAIN toolchain \subseteq {"toolchain"}
    BY DEF Lookup, NoRefs_, :>
  <2> QED
    BY <2>1, PlainLookup
<1>4. Plain(db, set) /\ DOMAIN set \subseteq {"package_set"}
  <2>1. DOMAIN set \subseteq {"package_set"}
    BY DEF :>
  <2> QED
    BY <2>1, PlainOne, KeyParts DEF Numbered
<1>5. ProfileRefs(db, d, p) = board @@ kernel @@ toolchain @@ set
  BY DEF ProfileRefs
<1> HIDE DEF board, kernel, toolchain, set
<1>6. DOMAIN (board @@ kernel @@ toolchain @@ set) \subseteq Reset
  <2>1. DOMAIN (board @@ kernel @@ toolchain @@ set)
          = DOMAIN board \cup DOMAIN kernel \cup DOMAIN toolchain \cup DOMAIN set
    BY DEF @@
  <2> QED
    BY <1>1, <1>2, <1>3, <1>4, <2>1 DEF Reset
<1>7. Plain(db, board @@ kernel @@ toolchain @@ set)
  <2>1. \A f, g : Plain(db, f) /\ Plain(db, g) => Plain(db, f @@ g)
    BY PlainBoth
  <2> QED
    BY <1>1, <1>2, <1>3, <1>4, <2>1
<1> QED
  BY <1>5, <1>6, <1>7

LEMMA FirstArchTable ==
    ASSUME NEW db, NEW archs
    PROVE  Table_(FirstArch(db, archs)) = "architectures"
<1> DEFINE found == FirstOf(db, "architectures", archs)
<1>1. CASE found = {}
  BY <1>1, RowParts DEF FirstArch
<1>2. CASE found # {}
  <2>1. FirstArch(db, archs) \in found
    BY <1>2 DEF FirstArch
  <2> QED
    BY <2>1, FirstIsRow
<1> QED
  BY <1>1, <1>2

LEMMA PackageRowsAreOthers ==
    ASSUME NEW db, NEW d \in DOMAIN db, NEW arch,
           Table_(arch) = "architectures", NEW packages
    PROVE  Others(db, PackageRows(d, arch, packages))
<1> DEFINE new1 == [k \in {Row("packages", p) : p \in packages.packages} |-> NoRefs_]
           new2 == [k \in {Key("package_versions", p, arch) :
                              p \in packages.packages} |->
                      "package" :> Row("packages", k[2]) @@ "arch" :> arch]
           new3 == [k \in {Group(g, d) : g \in DOMAIN packages.groups}
                          \cup {Set_(s, d) : s \in DOMAIN packages.sets} |->
                      "distribution" :> d]
           members == UNION {{Key("package_group_members", p, Group(g, d)) :
                                 p \in packages.groups[g]} :
                             g \in DOMAIN packages.groups}
           new4 == [k \in members |->
                      "group" :> k[3] @@ "package" :> Row("packages", k[2])]
           chosen == UNION {{Key("package_set_members", Group(g, d), Set_(s, d)) :
                                 g \in packages.sets[s]} :
                             s \in DOMAIN packages.sets}
           new5 == [k \in chosen |-> "set" :> k[3] @@ "group" :> k[2]]
<1>1. PackageRows(d, arch, packages) = new1 @@ new2 @@ new3 @@ new4 @@ new5
  BY DEF PackageRows
<1>2. Others(db, new1)
  BY RowParts, PlainNone DEF Others, Numbered
<1>3. Others(db, new2)
  <2>1. \A n : Plain(db, "package" :> Row("packages", n))
    BY PlainRow DEF Numbered
  <2>2. Plain(db, "arch" :> arch)
    BY PlainOne DEF Numbered
  <2>3. \A n : Plain(db, "package" :> Row("packages", n) @@ "arch" :> arch)
    BY <2>1, <2>2, PlainBoth
  <2> QED
    BY <2>3, KeyParts DEF Others, Numbered
<1>4. Others(db, new3)
  <2>1. Plain(db, "distribution" :> d)
    BY PlainOne
  <2> QED
    BY <2>1, KeyParts DEF Others, Numbered, Group, Set_
<1>5. Others(db, new4)
  <2>1. ASSUME NEW k \in members
        PROVE  Table_(k) = "package_group_members" /\ Plain(db, new4[k])
    <3>1. PICK g, p : k = Key("package_group_members", p, Group(g, d))
      OBVIOUS
    <3>2. Plain(db, "group" :> k[3])
      BY <3>1, KeyParts, PlainOne DEF Numbered, Group
    <3>3. Plain(db, "package" :> Row("packages", k[2]))
      BY PlainRow DEF Numbered
    <3>4. Plain(db, "group" :> k[3] @@ "package" :> Row("packages", k[2]))
      BY <3>2, <3>3, PlainBoth
    <3> QED
      BY <3>1, <3>4, KeyParts
  <2> QED
    BY <2>1 DEF Others, Numbered
<1>6. Others(db, new5)
  <2>1. ASSUME NEW k \in chosen
        PROVE  Table_(k) = "package_set_members" /\ Plain(db, new5[k])
    <3>1. PICK s, g : k = Key("package_set_members", Group(g, d), Set_(s, d))
      OBVIOUS
    <3>2. Plain(db, "set" :> k[3])
      BY <3>1, KeyParts, PlainOne DEF Numbered, Set_
    <3>3. Plain(db, "group" :> k[2])
      BY <3>1, KeyParts, PlainOne DEF Numbered, Name, Group
    <3>4. Plain(db, "set" :> k[3] @@ "group" :> k[2])
      BY <3>2, <3>3, PlainBoth
    <3> QED
      BY <3>1, <3>4, KeyParts
  <2> QED
    BY <2>1 DEF Others, Numbered
<1> HIDE DEF new1, new2, new3, new4, new5
<1>7. \A f, g : Others(db, f) /\ Others(db, g) => Others(db, f @@ g)
  BY OthersBoth
<1> QED
  BY <1>1, <1>2, <1>3, <1>4, <1>5, <1>6, <1>7

LEMMA ContentsGrow ==
    ASSUME NEW db, NEW d \in Distributions(db), NEW doc
    PROVE  Grows(db, WithContents(db, d, doc))
<1> DEFINE one   == Classed(db, d, ClassOf[doc.name])
           two   == WithPackages(one, d, doc)
           three == WithProfiles(two, d, doc.profiles)
<1>1. Grows(db, one)
  BY ClassSetGrows, GrowsReflexive DEF Classed
<1>2. d \in Distributions(one) /\ d \in DOMAIN one
  BY <1>1 DEF Grows, Keeps, Distributions, Of
<1> HIDE DEF one
<1>3. Grows(one, two)
  BY <1>2, FirstArchTable, PackageRowsAreOthers, InsertGrows DEF WithPackages
<1>4. d \in Distributions(two)
  BY <1>2, <1>3 DEF Grows, Keeps, Distributions, Of
<1> HIDE DEF two
<1>5. Grows(two, three)
  <2> DEFINE refs == [n \in DOMAIN doc.profiles |->
                        ProfileRefs(two, d, doc.profiles[n])]
  <2>1. \A n \in DOMAIN refs : Plain(two, refs[n]) /\ DOMAIN refs[n] \subseteq Reset
    BY PlainProfile
  <2> HIDE DEF refs
  <2>2. Grows(two, GetOrCreateProfiles(two, d, refs))
    BY <1>4, <2>1, ProfilesGrow
  <2> QED
    BY <2>2 DEF WithProfiles, refs
<1>6. WithContents(db, d, doc) = three
  BY DEF WithContents, one, two
<1> HIDE DEF three
<1>7. Grows(one, three)
  BY <1>3, <1>5, GrowsTransitive
<1> QED
  BY <1>1, <1>6, <1>7, GrowsTransitive

LEMMA ReferenceGrows ==
    ASSUME NEW db, NEW doc
    PROVE  /\ Grows(db, SeedReference(db, doc))
           /\ Named(SeedReference(db, doc), doc.name) # {}
<1> DEFINE row  == doc.name :> ClassRef(db, ClassOf[doc.name])
           made == GetOrCreateDistributions(db, row)
           b    == WithContents(made, TheDistribution(made, doc.name), doc)
<1>1. doc.name \in DOMAIN row /\ \A n \in DOMAIN row : Plain(db, row[n])
  BY PlainClass DEF :>
<1>2. SeedReference(db, doc) = b
  BY DEF SeedReference
<1> HIDE DEF row
<1>3. Grows(db, made) /\ Named(made, doc.name) # {}
  BY <1>1, DistributionsGrow
<1> HIDE DEF made
<1>4. Grows(made, b)
  BY <1>3, ThereIs, ContentsGrow
<1> HIDE DEF b
<1> QED
  BY <1>2, <1>3, <1>4, GrowsTransitive, NamedStays

LEMMA ConfigGrows ==
    ASSUME NEW db, Named(db, "tinywifi") # {}
    PROVE  Grows(db, SeedTinywifiConfigValues(db))
<1> DEFINE d   == TheDistribution(db, "tinywifi")
           new == Key("config_values", "hostapd.ssid", d) :> ("distribution" :> d)
<1>1. Plain(db, "distribution" :> d)
  BY ThereIs, PlainOne
<1> HIDE DEF d
<1>2. Others(db, new)
  BY <1>1, KeyParts DEF Others, Numbered, :>
<1> QED
  BY <1>2, InsertGrows DEF SeedTinywifiConfigValues, d

LEMMA ServicesGrow ==
    ASSUME NEW db, Named(db, "tinywifi") # {}
    PROVE  Grows(db, SeedTinywifiServiceProfile(db))
<1> DEFINE d     == TheDistribution(db, "tinywifi")
           there == {k \in Of(db, "service_profiles") :
                        Refers(db, k, "distribution", d)}
           sp    == IF there = {} THEN Key("service_profiles", "default", d)
                    ELSE CHOOSE k \in there : TRUE
           own   == sp :> ("distribution" :> d)
           entries == [k \in {Key("service_entries", n, sp) :
                                n \in {"network", "hostapd", "nanodhcp",
                                       "tinywifi-web"}} |-> "profile" :> sp]
<1>1. Plain(db, "distribution" :> d)
  BY ThereIs, PlainOne
<1>2. Table_(sp) = "service_profiles"
  <2>1. CASE there = {}
    BY <2>1, KeyParts
  <2>2. CASE there # {}
    BY <2>2 DEF Of
  <2> QED
    BY <2>1, <2>2
<1>3. Insert_(db, own @@ entries) = SeedTinywifiServiceProfile(db)
  BY DEF SeedTinywifiServiceProfile
<1> HIDE DEF d, sp
<1>4. Others(db, own)
  BY <1>1, <1>2 DEF Others, Numbered, :>
<1>5. Others(db, entries)
  <2>1. Plain(db, "profile" :> sp)
    BY <1>2, PlainOne DEF Numbered
  <2> QED
    BY <2>1, KeyParts DEF Others, Numbered
<1> QED
  BY <1>3, <1>4, <1>5, OthersBoth, InsertGrows

LEMMA OwnReferenceGrows ==
    ASSUME NEW db, NEW r \in DOMAIN DocumentOf, NEW files
    PROVE  Grows(db, SeedOwnReference(db, r, files))
<1> DEFINE one   == BaseCatalog(db, r \in {"0045", "0051"}, files)
           two   == SeedDistributionClasses(one)
           three == SeedReference(two, DocumentOf[r])
           four  == SeedTinywifiConfigValues(three)
           five  == SeedTinywifiServiceProfile(four)
<1>1. SeedOwnReference(db, r, files) = IF r = "0045" THEN five ELSE three
  BY DEF SeedOwnReference
<1>2. Grows(db, one) /\ Grows(one, two)
  BY BaseGrows, ClassesGrow
<1> HIDE DEF one, two
<1>3. Grows(two, three) /\ Named(three, DocumentOf[r].name) # {}
  BY ReferenceGrows
<1>4. Grows(db, two)
  BY <1>2, GrowsTransitive
<1> HIDE DEF three
<1>5. Grows(db, three)
  BY <1>3, <1>4, GrowsTransitive
<1>6. ASSUME r = "0045"
      PROVE  Grows(db, five)
  <2>1. DocumentOf[r].name = "tinywifi"
    BY <1>6 DEF DocumentOf, Tinywifi, Document, @@, :>
  <2>2. Grows(three, four)
    BY <1>3, <2>1, ConfigGrows
  <2>3. Named(four, "tinywifi") # {}
    BY <1>3, <2>1, <2>2, NamedStays
  <2> HIDE DEF four
  <2>4. Grows(four, five)
    BY <2>3, ServicesGrow
  <2> HIDE DEF five
  <2>5. Grows(three, five)
    BY <2>2, <2>4, GrowsTransitive
  <2> QED
    BY <1>5, <2>5, GrowsTransitive
<1> QED
  BY <1>1, <1>5, <1>6

LEMMA CatalogGrows == \A db : Grows(db, SeedDistributionCatalog(db))
<1> TAKE db
<1> DEFINE one   == SeedReference(db, Netos)
           two   == SeedReference(one, Ocultum)
           three == SeedReference(two, Tinydesk)
           four  == SeedReference(three, Tinywifi)
<1>1. SeedDistributionCatalog(db) = four
  BY DEF SeedDistributionCatalog
<1>2. Grows(db, one) /\ Grows(one, two) /\ Grows(two, three) /\ Grows(three, four)
  BY ReferenceGrows
<1> HIDE DEF one, two, three, four
<1>3. Grows(db, two)
  BY <1>2, GrowsTransitive
<1>4. Grows(db, three)
  BY <1>2, <1>3, GrowsTransitive
<1> QED
  BY <1>1, <1>2, <1>4, GrowsTransitive

LEMMA SeedDistributionsGrows == \A db : Grows(db, SeedDistributions(db))
<1> TAKE db
<1> DEFINE refs == [n \in DOMAIN ClassOf |-> ClassRef(db, ClassOf[n])]
<1>1. \A n \in DOMAIN refs : Plain(db, refs[n])
  BY PlainClass
<1> HIDE DEF refs
<1>2. Grows(db, GetOrCreateDistributions(db, refs))
  BY <1>1, DistributionsGrow
<1> QED
  BY <1>2 DEF SeedDistributions, refs

LEMMA WithDistributionsGrows ==
    \A db, files : Grows(db, WithDistributions(db, files))
<1> TAKE db, files
<1> DEFINE one == SeedDistributionClasses(db)
           two == BaseCatalog(one, TRUE, files)
<1>1. WithDistributions(db, files) = IF files THEN SeedDistributions(two) ELSE one
  BY DEF WithDistributions
<1>2. Grows(db, one) /\ Grows(one, two)
  BY ClassesGrow, BaseGrows
<1> HIDE DEF one, two
<1>3. Grows(two, SeedDistributions(two))
  BY SeedDistributionsGrows
<1>4. Grows(db, two)
  BY <1>2, GrowsTransitive
<1> QED
  BY <1>1, <1>2, <1>3, <1>4, GrowsTransitive

LEMMA SettingsGrow == \A db : Grows(db, WithSettings(db))
<1> TAKE db
<1> DEFINE one == SeedTinywifiConfigValues(db)
           two == SeedTinywifiServiceProfile(one)
<1>1. CASE Named(db, "tinywifi") = {}
  BY <1>1, GrowsReflexive DEF WithSettings
<1>2. CASE Named(db, "tinywifi") # {}
  <2>1. Grows(db, one)
    BY <1>2, ConfigGrows
  <2>2. Named(one, "tinywifi") # {}
    BY <1>2, <2>1, NamedStays
  <2> HIDE DEF one
  <2>3. Grows(one, two)
    BY <2>2, ServicesGrow
  <2> HIDE DEF two
  <2>4. Grows(db, two)
    BY <2>1, <2>3, GrowsTransitive
  <2> QED
    BY <1>2, <2>4 DEF WithSettings, one, two
<1> QED
  BY <1>1, <1>2

\* A revision seeds one distribution, all of them, or the settings of one.
LEMMA RevisionKinds ==
    ASSUME NEW r \in SeedRevisions
    PROVE  /\ DOMAIN DocumentOf = {"0045", "0046", "0047", "0051"}
           /\ r \in DOMAIN DocumentOf \/ r = "0050" \/ r = "0052"
<1>1. DOMAIN DocumentOf = {"0045", "0046", "0047", "0051"}
  BY DEF DocumentOf, @@, :>
<1> QED
  BY <1>1 DEF SeedRevisions

LEMMA UpgradedIs ==
    ASSUME NEW db, NEW r, NEW files
    PROVE  LET one == IF r \in {"0045", "0051", "0052"}
                      THEN WithDistributions(db, files) ELSE db
           IN Upgraded(db, r, files) =
                IF r = "0050" THEN WithSettings(db)
                ELSE IF r = "0052"
                THEN IF files THEN SeedDistributionCatalog(one) ELSE one
                ELSE SeedOwnReference(one, r, files)
BY DEF Upgraded

LEMMA UpgradedGrows ==
    ASSUME NEW db, NEW r \in SeedRevisions, NEW files
    PROVE  Grows(db, Upgraded(db, r, files))
<1> DEFINE one == IF r \in {"0045", "0051", "0052"}
                  THEN WithDistributions(db, files) ELSE db
           b   == Upgraded(db, r, files)
<1>1. Grows(db, one)
  BY WithDistributionsGrows, GrowsReflexive
<1>2. b = IF r = "0050" THEN WithSettings(db)
          ELSE IF r = "0052"
          THEN IF files THEN SeedDistributionCatalog(one) ELSE one
          ELSE SeedOwnReference(one, r, files)
  BY UpgradedIs
<1> HIDE DEF one, b
<1>3. r \in DOMAIN DocumentOf => Grows(one, SeedOwnReference(one, r, files))
  BY OwnReferenceGrows
<1>4. Grows(one, SeedDistributionCatalog(one)) /\ Grows(db, WithSettings(db))
  BY CatalogGrows, SettingsGrow
<1>5. Grows(db, b)
  BY <1>1, <1>2, <1>3, <1>4, RevisionKinds, GrowsTransitive
<1> QED
  BY <1>5 DEF b

-----------------------------------------------------------------------------
(* The commands.                                                           *)

LEMMA ImportsGrow ==
    ASSUME NEW db
    PROVE  /\ Grows(db, ImportArchitectures(db)) /\ Grows(db, ImportBoards(db))
           /\ Grows(db, ImportToolchains(db)) /\ Grows(db, ImportDistributions(db))
<1> DEFINE refs == [n \in DOMAIN ClassOf |-> NoRefs_]
<1>1. \A n \in DOMAIN refs : Plain(db, refs[n])
  BY PlainNone
<1> HIDE DEF refs
<1>2. Grows(db, GetOrCreateDistributions(db, refs))
  BY <1>1, DistributionsGrow
<1>3. Grows(db, ImportDistributions(db))
  BY <1>2 DEF ImportDistributions, refs
<1> QED
  BY <1>3, ArchitecturesGrow, BoardsGrow, ToolchainsGrow, GrowsReflexive
  DEF ImportArchitectures, ImportBoards, ImportToolchains

LEMMA ImportKernelsGrows == \A db : Grows(db, ImportKernels(db))
<1> TAKE db
<1> DEFINE new == {n \in DOMAIN Kernels : Row("kernels", n) \notin DOMAIN db}
           arch(n) == ArchRef(db, Kernels[n].arch)
           config(n) == "kernel" :> Row("kernels", n)
                        @@ "board" :> Row("boards", Kernels[n].board)
           kernels == Rows("kernels", new, arch)
           configs == Rows("kernel_configs", new, config)
<1>1. \A n : Plain(db, config(n))
  <2> TAKE n
  <2>1. Plain(db, "kernel" :> Row("kernels", n))
    BY PlainRow DEF Numbered
  <2>2. Plain(db, "board" :> Row("boards", Kernels[n].board))
    BY PlainRow DEF Numbered
  <2> QED
    BY <2>1, <2>2, PlainBoth
<1>2. Others(db, kernels)
  BY RowParts, PlainArch DEF Others, Rows, Numbered
<1>3. Others(db, configs)
  <2> HIDE DEF new
  <2>1. ASSUME NEW k \in DOMAIN configs
        PROVE  Table_(k) = "kernel_configs" /\ configs[k] = config(Name(k))
    BY RowParts DEF Rows
  <2> HIDE DEF configs, config
  <2> QED
    BY <1>1, <2>1 DEF Others, Numbered
<1>4. \/ ImportKernels(db) = Insert_(db, kernels @@ configs)
      \/ ImportKernels(db) = db
  BY DEF ImportKernels
<1> HIDE DEF kernels, configs
<1> QED
  BY <1>2, <1>3, <1>4, OthersBoth, InsertGrows, GrowsReflexive

LEMMA FileIsOther ==
    ASSUME NEW db, NEW table, table \notin Numbered \cup {"deleted"},
           NEW board, NEW name
    PROVE  Others(db, BoardFile(table, board, name))
<1>1. Plain(db, "board" :> Row("boards", board))
  BY PlainRow DEF Numbered
<1> QED
  BY <1>1, KeyParts DEF Others, BoardFile, :>

LEMMA ImportFirmwareGrows == \A db : Grows(db, ImportFirmware(db))
<1> TAKE db
<1>1. Others(db, BoardFile("firmware_blobs", "rpi-zero-2w", "start4.elf"))
  BY FileIsOther DEF Numbered
<1> QED
  BY <1>1, InsertGrows, GrowsReflexive DEF ImportFirmware

LEMMA FilesAreOthers ==
    ASSUME NEW db, NEW files, Others(db, files)
    PROVE  Others(db, OfBoards(db, files))
BY DEF Others, OfBoards

LEMMA BoardSeedGrows == \A db : Grows(db, SeedBoards_(db))
<1> TAKE db
<1> DEFINE none(n) == NoRefs_
           names == {"BCM2710", "BCM2711", "Allwinner H3", "Rockchip RK3399"}
           socs == Rows("soc_families", names, none)
           one == SeedSocFamilies(db)
           two == SeedBoardRevisions(one)
<1>1. Grows(db, one)
  <2>1. one = Insert_(db, socs)
    BY DEF SeedSocFamilies
  <2> HIDE DEF names
  <2>2. Others(db, socs)
    BY RowParts, PlainNone DEF Others, Rows, Numbered
  <2> QED
    BY <2>1, <2>2, InsertGrows
<1> HIDE DEF one
<1>2. Grows(one, two)
  <2> DEFINE soc == Lookup(one, "soc_family", Row("soc_families", "BCM2710"))
             rpi == BoardFile("board_revisions", "rpi-zero-2w", "1.0")
             with == [k \in DOMAIN rpi |-> rpi[k] @@ soc]
             generic == BoardFile("board_revisions", "qemu-x86_64", "generic")
  <2>1. Others(one, rpi) /\ Others(one, generic)
    BY FileIsOther DEF Numbered
  <2>2. Plain(one, soc)
    BY PlainLookup
  <2>3. Insert_(one, OfBoards(one, with @@ generic)) = two
    BY DEF SeedBoardRevisions
  <2> HIDE DEF soc, rpi, generic
  <2>4. Others(one, with)
    <3>1. \A k \in DOMAIN rpi : Plain(one, rpi[k] @@ soc)
      BY <2>1, <2>2, PlainBoth DEF Others
    <3> QED
      BY <2>1, <3>1 DEF Others
  <2> HIDE DEF with, two
  <2>5. Others(one, OfBoards(one, with @@ generic))
    BY <2>1, <2>4, OthersBoth, FilesAreOthers
  <2> QED
    BY <2>3, <2>5, InsertGrows
<1> HIDE DEF two
<1>3. Grows(two, SeedBoardBsp(two))
  <2> DEFINE f1 == BoardFile("board_firmware", "rpi-zero-2w", "start4.elf")
             f2 == BoardFile("board_device_trees", "rpi-zero-2w", "bcm2710.dtb")
             f3 == BoardFile("board_flash_methods", "rpi-zero-2w", "dd")
             f4 == BoardFile("board_flash_methods", "qemu-x86_64", "qemu-img")
             f5 == BoardFile("board_test_methods", "qemu-x86_64", "qemu-x86_64")
             f6 == BoardFile("board_probe_profiles", "qemu-x86_64", "dmi")
             files == f1 @@ f2 @@ f3 @@ f4 @@ f5 @@ f6
  <2>1. /\ Others(two, f1) /\ Others(two, f2) /\ Others(two, f3)
        /\ Others(two, f4) /\ Others(two, f5) /\ Others(two, f6)
    BY FileIsOther DEF Numbered
  <2>2. SeedBoardBsp(two) = Insert_(two, OfBoards(two, files))
    BY DEF SeedBoardBsp
  <2> HIDE DEF f1, f2, f3, f4, f5, f6
  <2>3. Others(two, files)
    <3>1. \A f, g : Others(two, f) /\ Others(two, g) => Others(two, f @@ g)
      BY OthersBoth
    <3> QED
      BY <2>1, <3>1
  <2> HIDE DEF files
  <2> QED
    BY <2>2, <2>3, FilesAreOthers, InsertGrows
<1>4. Grows(db, two)
  BY <1>1, <1>2, GrowsTransitive
<1> QED
  BY <1>3, <1>4, GrowsTransitive DEF SeedBoards_, one, two

LEMMA BootChainsGrow == \A db : Grows(db, SeedBootChains(db))
<1> TAKE db
<1> DEFINE scheme(n) == "boot_scheme" :> Row("boot_schemes", ChainSchemes[n])
           new   == {n \in DOMAIN ChainSchemes :
                        Row("boot_chains", n) \notin DOMAIN db}
           chain(n) == "boot_chain" :> Row("boot_chains", n)
           bound(n) ==
               "boot_chain" :> Row("boot_chains", "uboot_extlinux")
               @@ "board" :> Row("boards", "rpi4")
           chains == Rows("boot_chains", new, scheme)
           files  == Rows("boot_chain_files", new, chain)
           boards == Rows("boot_chain_bindings", {"rpi4"}, bound)
<1>1. \A n : /\ Plain(db, scheme(n)) /\ Plain(db, chain(n))
             /\ Plain(db, "board" :> Row("boards", n))
  BY PlainRow DEF Numbered
<1>2. \A n : Plain(db, bound(n))
  BY <1>1, PlainBoth
<1>3. Others(db, chains) /\ Others(db, files)
  <2> HIDE DEF new
  <2>1. ASSUME NEW k \in DOMAIN chains
        PROVE  Table_(k) = "boot_chains" /\ chains[k] = scheme(Name(k))
    BY RowParts DEF Rows
  <2>2. ASSUME NEW k \in DOMAIN files
        PROVE  Table_(k) = "boot_chain_files" /\ files[k] = chain(Name(k))
    BY RowParts DEF Rows
  <2> HIDE DEF chains, files, scheme, chain
  <2> QED
    BY <1>1, <2>1, <2>2 DEF Others, Numbered
<1>4. Others(db, boards)
  <2>1. ASSUME NEW k \in DOMAIN boards
        PROVE  Table_(k) = "boot_chain_bindings" /\ boards[k] = bound(Name(k))
    BY RowParts DEF Rows
  <2> HIDE DEF boards, bound
  <2> QED
    BY <1>2, <2>1 DEF Others, Numbered
<1>5. SeedBootChains(db) = Insert_(db, chains @@ files @@ boards)
  BY DEF SeedBootChains
<1> HIDE DEF chains, files, boards
<1>6. Others(db, chains @@ files @@ boards)
  <2>1. \A f, g : Others(db, f) /\ Others(db, g) => Others(db, f @@ g)
    BY OthersBoth
  <2> QED
    BY <1>3, <1>4, <2>1
<1> QED
  BY <1>5, <1>6, InsertGrows

LEMMA InitramfsGrow == \A db : Grows(db, SeedInitramfsProfiles(db))
<1> TAKE db
<1> DEFINE none(n) == NoRefs_
           new == {n \in {"minimal-busybox", "recovery-full", "encrypted-root",
                          "network-boot", "debug-shell"} :
                      Row("initramfs_profiles", n) \notin DOMAIN db}
           parts(n) == "profile" :> Row("initramfs_profiles", n)
           profiles == Rows("initramfs_profiles", new, none)
           packages == Rows("initramfs_packages", new, parts)
<1>1. \A n : Plain(db, parts(n))
  BY PlainRow DEF Numbered
<1>2. Others(db, profiles)
  BY RowParts, PlainNone DEF Others, Rows, Numbered
<1>3. Others(db, packages)
  <2> HIDE DEF new
  <2>1. ASSUME NEW k \in DOMAIN packages
        PROVE  Table_(k) = "initramfs_packages" /\ packages[k] = parts(Name(k))
    BY RowParts DEF Rows
  <2> HIDE DEF packages, parts
  <2> QED
    BY <1>1, <2>1 DEF Others, Numbered
<1>4. SeedInitramfsProfiles(db) = Insert_(db, profiles @@ packages)
  BY DEF SeedInitramfsProfiles
<1> HIDE DEF profiles, packages
<1> QED
  BY <1>2, <1>3, <1>4, OthersBoth, InsertGrows

LEMMA CommandedGrows ==
    ASSUME NEW db, NEW c \in Commands
    PROVE  Grows(db, Commanded(db, c))
<1>1. CASE c \in {"architectures", "boards", "toolchains", "distributions"}
  BY <1>1, ImportsGrow DEF Commanded
<1>2. CASE c \in {"kernels", "firmware"}
  BY <1>2, ImportKernelsGrows, ImportFirmwareGrows DEF Commanded
<1>3. CASE c \in {"board seed", "boot-chain seed", "initramfs seed"}
  BY <1>3, BoardSeedGrows, BootChainsGrow, InitramfsGrow DEF Commanded
<1> QED
  BY <1>1, <1>2, <1>3 DEF Commands

-----------------------------------------------------------------------------
(* Ids stay known once a row had them, and no row that was deleted comes   *)
(* back.                                                                   *)

Known(db, k) == k \in DOMAIN db \/ Row("deleted", k) \in DOMAIN db

Follows(a, b) ==
    /\ \A k : Known(a, k) => Known(b, k)
    /\ \A k \in DOMAIN b :
          Table_(k) \in Numbered /\ Known(a, k) => k \in DOMAIN a
    /\ \A k \in DOMAIN a \cap DOMAIN b :
          Table_(k) = "profiles" /\ "distribution" \in DOMAIN a[k] =>
             /\ "distribution" \in DOMAIN b[k]
             /\ b[k]["distribution"] = a[k]["distribution"]

\* A parent and a distribution that are both there belong together.
Akin(db, d, q) ==
    /\ Table_(q) = "profiles" /\ Known(db, q)
    /\ d \in DOMAIN db /\ q \in DOMAIN db => q \in ProfilesOf(db, d)

Related(db, refs) ==
    /\ "distribution" \in DOMAIN refs
    /\ Table_(refs["distribution"]) = "distributions"
    /\ Known(db, refs["distribution"])
    /\ "inherits" \in DOMAIN refs =>
          Akin(db, refs["distribution"], refs["inherits"])

LEMMA FollowsTransitive ==
    ASSUME NEW a, NEW b, NEW d, Follows(a, b), Follows(b, d)
    PROVE  Follows(a, d)
<1>1. \A k : Known(a, k) => Known(d, k)
  BY DEF Follows
<1>2. \A k \in DOMAIN d : Table_(k) \in Numbered /\ Known(a, k) => k \in DOMAIN a
  BY DEF Follows, Known
<1>3. ASSUME NEW k \in DOMAIN a \cap DOMAIN d, Table_(k) = "profiles",
             "distribution" \in DOMAIN a[k]
      PROVE  /\ "distribution" \in DOMAIN d[k]
             /\ d[k]["distribution"] = a[k]["distribution"]
  <2>1. Known(b, k) /\ Table_(k) \in Numbered
    BY <1>3 DEF Follows, Known, Numbered
  <2>2. k \in DOMAIN b
    BY <2>1 DEF Follows
  <2> QED
    BY <1>3, <2>2 DEF Follows
<1> QED
  BY <1>1, <1>2, <1>3 DEF Follows

LEMMA AkinStays ==
    ASSUME NEW a, NEW b, Follows(a, b), NEW d, NEW q,
           Table_(d) = "distributions", Known(a, d), Akin(a, d, q)
    PROVE  Akin(b, d, q)
<1>1. Known(b, q) /\ Table_(q) = "profiles"
  BY DEF Akin, Follows
<1>2. ASSUME d \in DOMAIN b, q \in DOMAIN b
      PROVE  q \in ProfilesOf(b, d)
  <2>1. d \in DOMAIN a /\ q \in DOMAIN a
    BY <1>2 DEF Akin, Follows, Numbered
  <2>2. q \in ProfilesOf(a, d)
    BY <2>1 DEF Akin
  <2>3. "distribution" \in DOMAIN a[q] /\ a[q]["distribution"] = d
    BY <2>2 DEF ProfilesOf, Refers, Has
  <2>4. "distribution" \in DOMAIN b[q] /\ b[q]["distribution"] = d
    BY <1>1, <1>2, <2>1, <2>3 DEF Follows
  <2> QED
    BY <1>1, <1>2, <2>4 DEF ProfilesOf, Of, Refers, Has
<1> QED
  BY <1>1, <1>2 DEF Akin

LEMMA RelatedStays ==
    ASSUME NEW a, NEW b, Follows(a, b), NEW refs, Related(a, refs)
    PROVE  Related(b, refs)
<1>1. Known(b, refs["distribution"])
  BY DEF Related, Follows
<1>2. "inherits" \in DOMAIN refs => Akin(b, refs["distribution"], refs["inherits"])
  BY AkinStays DEF Related
<1> QED
  BY <1>1, <1>2 DEF Related

-----------------------------------------------------------------------------
(* Databases in order: the numbers of ids are bounded, and every profile   *)
(* and its parent are of one distribution.                                 *)

IdUpTo(n, k) == Table_(k) \in Numbered => k[3] \in 0..n
RefsUpTo(n, refs) == \A c \in DOMAIN refs : IdUpTo(n, refs[c])

Orderly(db, n) ==
    /\ NumberedUpTo(db, n)
    /\ Buried(db) /\ OneName(db)
    /\ \A p \in Of(db, "profiles") : Related(db, db[p])

LEMMA UpTo ==
    ASSUME NEW db, NEW n
    PROVE  NumberedUpTo(db, n) <=>
             \A k \in DOMAIN db : IdUpTo(n, k) /\ RefsUpTo(n, db[k])
BY NumberedMeans DEF IdUpTo, RefsUpTo

LEMMA MoreUpTo ==
    ASSUME NEW n \in Nat, NEW m \in Nat, n <= m
    PROVE  /\ \A k : IdUpTo(n, k) => IdUpTo(m, k)
           /\ \A refs : RefsUpTo(n, refs) => RefsUpTo(m, refs)
           /\ \A db : NumberedUpTo(db, n) => NumberedUpTo(db, m)
<1>1. \A i \in 0..n : i \in 0..m
  OBVIOUS
<1>2. \A k : IdUpTo(n, k) => IdUpTo(m, k)
  BY <1>1 DEF IdUpTo
<1>3. \A refs : RefsUpTo(n, refs) => RefsUpTo(m, refs)
  BY <1>2 DEF RefsUpTo
<1>4. \A db : NumberedUpTo(db, n) => NumberedUpTo(db, m)
  BY <1>1 DEF NumberedUpTo
<1> QED
  BY <1>2, <1>3, <1>4

\* By a seed.
LEMMA SeededOrderly ==
    ASSUME NEW a, NEW n \in Nat, Orderly(a, n), NEW b, Grows(a, b)
    PROVE  /\ Follows(a, b)
           /\ \E m \in Nat : n <= m /\ Orderly(b, m)
<1>1. Keeps(a, b) /\ Adds_(a, b) /\ Makes(a, b) /\ IsNumbered(a) /\ Buried(a)
  BY DEF Grows, Orderly, IsNumbered
<1>2. "distribution" \notin Reset /\ "inherits" \notin Reset
  BY DEF Reset
<1>3. Follows(a, b)
  <2>1. \A k : Known(a, k) => Known(b, k)
    BY <1>1 DEF Keeps, Known
  <2>2. \A k \in DOMAIN b :
           Table_(k) \in Numbered /\ Known(a, k) => k \in DOMAIN a
    BY <1>1 DEF Makes, Known
  <2>3. \A k \in DOMAIN a : "distribution" \in DOMAIN a[k] =>
           /\ "distribution" \in DOMAIN b[k]
           /\ b[k]["distribution"] = a[k]["distribution"]
    BY <1>1, <1>2 DEF Keeps
  <2> QED
    BY <2>1, <2>2, <2>3 DEF Follows
<1>4. ASSUME NEW p \in Of(b, "profiles")
      PROVE  Related(b, b[p])
  <2>1. p \in DOMAIN b /\ Table_(p) = "profiles"
    BY DEF Of
  <2>2. CASE p \notin DOMAIN a
    <3>1. /\ "inherits" \notin DOMAIN b[p]
          /\ "distribution" \in DOMAIN b[p]
          /\ b[p]["distribution"] \in Distributions(b)
      BY <1>1, <2>1, <2>2 DEF Adds_
    <3> QED
      BY <3>1 DEF Related, Known, Distributions, Of
  <2>3. CASE p \in DOMAIN a
    <3>1. Related(a, a[p])
      BY <2>1, <2>3 DEF Orderly, Of
    <3>2. Related(b, a[p])
      BY <1>3, <3>1, RelatedStays
    <3>3. /\ "distribution" \in DOMAIN b[p]
          /\ b[p]["distribution"] = a[p]["distribution"]
      BY <1>1, <1>2, <2>3, <3>1 DEF Keeps, Related
    <3>4. "inherits" \in DOMAIN b[p] =>
             "inherits" \in DOMAIN a[p] /\ b[p]["inherits"] = a[p]["inherits"]
      BY <1>1, <1>2, <2>1, <2>3 DEF Keeps
    <3> QED
      BY <3>2, <3>3, <3>4 DEF Related
  <2> QED
    BY <2>2, <2>3
<1>5. Buried(b) /\ OneName(b)
  BY <1>1, GrowsBuried DEF Makes, Orderly
<1>6. PICK i \in Nat : NumberedUpTo(b, i)
  BY <1>1 DEF Grows, IsNumbered
<1> DEFINE m == IF n <= i THEN i ELSE n
<1>7. m \in Nat /\ n <= m /\ i <= m
  OBVIOUS
<1>8. NumberedUpTo(b, m)
  BY <1>6, <1>7, MoreUpTo
<1> HIDE DEF m
<1> QED
  BY <1>3, <1>4, <1>5, <1>7, <1>8 DEF Orderly

\* By a deletion.
LEMMA GoneOrderly ==
    ASSUME NEW a, NEW n \in Nat, Orderly(a, n), NEW keys,
           \A k \in keys : Table_(k) # "deleted" /\ IdUpTo(n, k)
    PROVE  Follows(a, Without(a, keys)) /\ Orderly(Without(a, keys), n)
<1> DEFINE b == Without(a, keys)
           left == {Row("deleted", q) : q \in keys}
<1>1. /\ DOMAIN b = (DOMAIN a \ keys) \cup left
      /\ \A k \in DOMAIN b : Table_(k) # "deleted" => b[k] = a[k]
      /\ \A k \in DOMAIN b : Table_(k) = "deleted" => b[k] = ("row" :> Name(k))
  BY DEF Without
<1>2. /\ \A m \in left : Table_(m) = "deleted" /\ Name(m) \in keys
      /\ \A q \in keys : Row("deleted", q) \in left
      /\ \A q : Table_(Row("deleted", q)) = "deleted"
  BY RowParts
<1> HIDE DEF b, left
<1>3. ASSUME NEW k, Known(a, k)
      PROVE  Known(b, k)
  <2>1. CASE Row("deleted", k) \in DOMAIN a
    BY <1>1, <1>2, <2>1 DEF Known
  <2>2. CASE k \in DOMAIN a
    BY <1>1, <1>2, <2>2 DEF Known
  <2> QED
    BY <1>3, <2>1, <2>2 DEF Known
<1>4. \A k \in DOMAIN b : Table_(k) # "deleted" => k \in DOMAIN a
  BY <1>1, <1>2
<1>5. Follows(a, b)
  BY <1>1, <1>3, <1>4 DEF Follows, Numbered
<1>6. Buried(b)
  BY <1>1 DEF Buried, Of, Refers, Has, :>
<1>7. OneName(b)
  <2>1. Distributions(b) \subseteq Distributions(a)
    BY <1>4 DEF Distributions, Of
  <2> QED
    BY <2>1 DEF Orderly, OneName
<1>8. \A p \in Of(b, "profiles") : Related(b, b[p])
  <2>1. \A p \in Of(b, "profiles") : p \in Of(a, "profiles") /\ b[p] = a[p]
    BY <1>1, <1>4 DEF Of
  <2> QED
    BY <1>5, <2>1, RelatedStays DEF Orderly
<1>9. ASSUME NEW k \in DOMAIN b
      PROVE  IdUpTo(n, k) /\ RefsUpTo(n, b[k])
  <2>0. \A j \in DOMAIN a : IdUpTo(n, j) /\ RefsUpTo(n, a[j])
    BY UpTo DEF Orderly
  <2>1. CASE Table_(k) # "deleted"
    BY <1>1, <1>4, <2>0, <2>1
  <2>2. CASE Table_(k) = "deleted"
    <3>1. IdUpTo(n, k)
      BY <2>2 DEF IdUpTo, Numbered
    <3>2. IdUpTo(n, Name(k))
      <4>1. CASE k \in left
        BY <1>2, <4>1
      <4>2. CASE k \in DOMAIN a
        <5>1. Refers(a, k, "row", Name(k))
          BY <2>2, <4>2 DEF Orderly, Buried, Of
        <5> QED
          BY <2>0, <5>1 DEF Refers, Has, RefsUpTo
      <4> QED
        BY <1>1, <4>1, <4>2
    <3>3. RefsUpTo(n, b[k])
      BY <1>1, <2>2, <3>2 DEF RefsUpTo, :>
    <3> QED
      BY <3>1, <3>3
  <2> QED
    BY <2>1, <2>2
<1>10. NumberedUpTo(b, n)
  BY <1>9, UpTo
<1> QED
  BY <1>5, <1>6, <1>7, <1>8, <1>10 DEF Orderly, b

\* By new rows.
LEMMA AddedFollows ==
    ASSUME NEW a, Buried(a), NEW new,
           \A k \in DOMAIN new : Table_(k) \in Numbered => k \notin Mentioned(a)
    PROVE  Follows(a, a @@ new)
<1> DEFINE b == a @@ new
<1>1. /\ DOMAIN b = DOMAIN a \cup DOMAIN new
      /\ \A k \in DOMAIN a : b[k] = a[k]
  BY DEF @@
<1> HIDE DEF b
<1>2. ASSUME NEW k \in DOMAIN new, Table_(k) \in Numbered
      PROVE  Row("deleted", k) \notin DOMAIN a
  <2> DEFINE m == Row("deleted", k)
  <2>1. Table_(m) = "deleted" /\ Name(m) = k
    BY RowParts
  <2> HIDE DEF m
  <2> SUFFICES ASSUME m \in DOMAIN a PROVE FALSE
    BY DEF m
  <2>2. Refers(a, m, "row", k)
    BY <2>1 DEF Buried, Of
  <2>3. k \in Mentioned(a)
    BY <2>2 DEF Refers, Has, Mentioned
  <2> QED
    BY <1>2, <2>3
<1>3. Follows(a, b)
  BY <1>1, <1>2 DEF Follows, Known
<1> QED
  BY <1>3 DEF b

LEMMA AddedOrderly ==
    ASSUME NEW a, NEW n \in Nat, Orderly(a, n), NEW new,
           \A k \in DOMAIN new :
              /\ Table_(k) # "deleted"
              /\ Table_(k) \in Numbered => k \notin Mentioned(a)
              /\ IdUpTo(n + 1, k) /\ RefsUpTo(n + 1, new[k])
              /\ Table_(k) = "profiles" => Related(a @@ new, new[k]),
           \A d \in DOMAIN new : Table_(d) = "distributions" =>
              /\ Named(a, Name(d)) = {}
              /\ \A e \in DOMAIN new : Table_(e) = "distributions" => e = d
    PROVE  Follows(a, a @@ new) /\ Orderly(a @@ new, n + 1)
<1> DEFINE b == a @@ new
<1>1. /\ DOMAIN b = DOMAIN a \cup DOMAIN new
      /\ \A k \in DOMAIN a : b[k] = a[k]
      /\ \A k \in DOMAIN new \ DOMAIN a : b[k] = new[k]
  BY DEF @@
<1>2. Follows(a, b)
  BY AddedFollows DEF Orderly
<1>3. \A k \in DOMAIN new : Table_(k) = "profiles" => Related(b, new[k])
  OBVIOUS
<1> HIDE DEF b
<1>4. \A p \in Of(b, "profiles") : Related(b, b[p])
  <2> SUFFICES ASSUME NEW p \in DOMAIN b, Table_(p) = "profiles"
               PROVE  Related(b, b[p])
    BY DEF Of
  <2>1. CASE p \in DOMAIN a
    <3>1. Related(a, a[p]) /\ b[p] = a[p]
      BY <1>1, <2>1 DEF Orderly, Of
    <3> QED
      BY <1>2, <3>1, RelatedStays
  <2>2. CASE p \notin DOMAIN a
    BY <1>1, <1>3, <2>2
  <2> QED
    BY <2>1, <2>2
<1>5. Buried(b)
  <2>1. \A m \in Of(b, "deleted") : m \in Of(a, "deleted") /\ b[m] = a[m]
    BY <1>1 DEF Of
  <2> QED
    BY <1>1, <2>1 DEF Orderly, Buried, Refers, Has
<1>6. ASSUME NEW d \in Distributions(b), NEW e \in Distributions(b), Name(d) = Name(e)
      PROVE  d = e
  <2>1. /\ d \in DOMAIN a \cup DOMAIN new /\ Table_(d) = "distributions"
        /\ e \in DOMAIN a \cup DOMAIN new /\ Table_(e) = "distributions"
    BY <1>1 DEF Distributions, Of
  <2>2. CASE d \in DOMAIN a /\ e \in DOMAIN a
    BY <1>6, <2>1, <2>2 DEF Orderly, OneName, Distributions, Of
  <2>3. CASE d \notin DOMAIN a /\ e \notin DOMAIN a
    BY <2>1, <2>3
  <2>4. CASE d \notin DOMAIN a /\ e \in DOMAIN a
    <3>1. e \in Named(a, Name(d))
      BY <1>6, <2>1, <2>4 DEF Named, Distributions, Of
    <3> QED
      BY <2>1, <2>4, <3>1
  <2>5. CASE d \in DOMAIN a /\ e \notin DOMAIN a
    <3>1. d \in Named(a, Name(e))
      BY <1>6, <2>1, <2>5 DEF Named, Distributions, Of
    <3> QED
      BY <2>1, <2>5, <3>1
  <2> QED
    BY <2>2, <2>3, <2>4, <2>5
<1>7. OneName(b)
  BY <1>6 DEF OneName
<1>8. ASSUME NEW k \in DOMAIN b
      PROVE  IdUpTo(n + 1, k) /\ RefsUpTo(n + 1, b[k])
  <2>1. CASE k \in DOMAIN a
    <3>1. IdUpTo(n, k) /\ RefsUpTo(n, b[k])
      BY <1>1, <2>1, UpTo DEF Orderly
    <3>2. n + 1 \in Nat /\ n <= n + 1
      OBVIOUS
    <3> QED
      BY <3>1, <3>2, MoreUpTo
  <2>2. CASE k \notin DOMAIN a
    BY <1>1, <2>2
  <2> QED
    BY <2>1, <2>2
<1>9. NumberedUpTo(b, n + 1)
  BY <1>8, UpTo
<1> QED
  BY <1>2, <1>4, <1>5, <1>7, <1>9 DEF Orderly, b

\* By new values in a row.
LEMMA WrittenOrderly ==
    ASSUME NEW a, NEW n \in Nat, Orderly(a, n), NEW k \in DOMAIN a,
           NEW columns, NEW refs, Table_(k) \in Numbered,
           "distribution" \notin columns, DOMAIN refs \subseteq columns,
           RefsUpTo(n, refs),
           Table_(k) = "profiles" /\ "inherits" \in DOMAIN refs =>
              Akin(a, a[k]["distribution"], refs["inherits"])
    PROVE  /\ Follows(a, Write(a, k, columns, refs))
           /\ Orderly(Write(a, k, columns, refs), n)
<1> DEFINE b == Write(a, k, columns, refs)
<1>1. /\ DOMAIN b = DOMAIN a
      /\ \A j \in DOMAIN a \ {k} : b[j] = a[j]
      /\ DOMAIN b[k] = DOMAIN refs \cup (DOMAIN a[k] \ columns)
      /\ \A c \in DOMAIN refs : b[k][c] = refs[c]
      /\ \A c \in DOMAIN a[k] \ columns : b[k][c] = a[k][c]
  BY DEF Write, @@
<1> HIDE DEF b
<1>2. Table_(k) # "deleted"
  BY DEF Numbered
<1>3. Follows(a, b)
  <2>1. "distribution" \in DOMAIN a[k] =>
           /\ "distribution" \in DOMAIN b[k]
           /\ b[k]["distribution"] = a[k]["distribution"]
    BY <1>1
  <2> QED
    BY <1>1, <2>1 DEF Follows, Known
<1>4. Buried(b)
  <2>1. \A m \in Of(b, "deleted") : m \in Of(a, "deleted") /\ b[m] = a[m]
    BY <1>1, <1>2 DEF Of
  <2> QED
    BY <1>1, <2>1 DEF Orderly, Buried, Refers, Has
<1>5. OneName(b)
  BY <1>1 DEF Orderly, OneName, Distributions, Of
<1>6. ASSUME NEW p \in DOMAIN a, Table_(p) = "profiles"
      PROVE  Related(b, b[p])
  <2>1. Related(a, a[p])
    BY <1>6 DEF Orderly, Of
  <2>2. Related(b, a[p])
    BY <1>3, <2>1, RelatedStays
  <2>3. CASE p # k
    BY <1>1, <2>2, <2>3
  <2>4. CASE p = k
    <3>1. /\ "distribution" \in DOMAIN b[k]
          /\ b[k]["distribution"] = a[k]["distribution"]
      BY <1>1, <2>1, <2>4 DEF Related
    <3>2. ASSUME "inherits" \in DOMAIN refs
          PROVE  Akin(b, a[k]["distribution"], b[k]["inherits"])
      <4>1. Akin(a, a[k]["distribution"], refs["inherits"])
        BY <1>6, <2>4, <3>2
      <4>2. Akin(b, a[k]["distribution"], refs["inherits"])
        BY <1>3, <2>1, <2>4, <4>1, AkinStays DEF Related
      <4> QED
        BY <1>1, <3>2, <4>2
    <3>3. ASSUME "inherits" \notin DOMAIN refs, "inherits" \in DOMAIN b[k]
          PROVE  Akin(b, a[k]["distribution"], b[k]["inherits"])
      <4>1. "inherits" \in DOMAIN a[k] /\ b[k]["inherits"] = a[k]["inherits"]
        BY <1>1, <3>3
      <4> QED
        BY <2>2, <2>4, <4>1 DEF Related
    <3> QED
      BY <2>2, <2>4, <3>1, <3>2, <3>3 DEF Related
  <2> QED
    BY <2>3, <2>4
<1>7. \A p \in Of(b, "profiles") : Related(b, b[p])
  BY <1>1, <1>6 DEF Of
<1>8. \A j \in DOMAIN a : IdUpTo(n, j) /\ RefsUpTo(n, a[j])
  BY UpTo DEF Orderly
<1>9. \A j \in DOMAIN b : IdUpTo(n, j) /\ RefsUpTo(n, b[j])
  <2>1. RefsUpTo(n, b[k])
    BY <1>1, <1>8 DEF RefsUpTo
  <2> QED
    BY <1>1, <1>8, <2>1
<1>10. NumberedUpTo(b, n)
  BY <1>9, UpTo
<1> QED
  BY <1>3, <1>4, <1>5, <1>7, <1>10 DEF Orderly, b

-----------------------------------------------------------------------------
(* Requests: what they have found is still in order when they write.       *)

LEMMA BothOnce == \A f, g, h : (f @@ g) @@ h = f @@ (g @@ h)
<1> TAKE f, g, h
<1> DEFINE a == (f @@ g) @@ h
           b == f @@ (g @@ h)
<1>1. DOMAIN a = DOMAIN f \cup DOMAIN g \cup DOMAIN h
  BY DEF @@
<1>2. DOMAIN b = DOMAIN a
  BY <1>1 DEF @@
<1>3. \A x \in DOMAIN a : a[x] = b[x]
  BY DEF @@
<1>4. a = [x \in DOMAIN a |-> a[x]] /\ b = [x \in DOMAIN b |-> b[x]]
  BY DEF @@
<1> HIDE DEF a, b
<1>5. a = b
  BY <1>2, <1>3, <1>4
<1> QED
  BY <1>5 DEF a, b

\* Rows that a request deletes.
Deletable == Numbered \cup {"profile_versions"}
RowsWell(n, keys) == \A k \in keys : Table_(k) \in Deletable /\ IdUpTo(n, k)

WriteWell(db, n, r) ==
    /\ Table_(r.row) \in Numbered /\ Known(db, r.row)
    /\ "distribution" \notin r.columns /\ DOMAIN r.refs \subseteq r.columns
    /\ RefsUpTo(n, r.refs)
    /\ r.row \in DOMAIN db /\ Table_(r.row) = "profiles"
       /\ "inherits" \in DOMAIN r.refs =>
          Akin(db, db[r.row]["distribution"], r.refs["inherits"])

Well(db, n, r) ==
    /\ r.op \in {"distribution", "clone"} => RefsUpTo(n, r.refs)
    /\ r.op = "profile" => RefsUpTo(n, r.refs) /\ Related(db, r.refs)
    /\ r.op = "row" => /\ Table_(r.row) \in {"profile_versions", "builds"}
                       /\ RefsUpTo(n, r.refs)
    /\ r.op = "update" => WriteWell(db, n, r)
    /\ r.op \in {"delete", "import"} => RowsWell(n, r.rows)
    /\ r.op = "replace" =>
         /\ Table_(r.distribution) = "distributions"
         /\ Known(db, r.distribution) /\ IdUpTo(n, r.distribution)
         /\ Table_(r.old) = "profiles" /\ IdUpTo(n, r.old)

LEMMA WriteWellStays ==
    ASSUME NEW a, NEW b, Follows(a, b), NEW n \in Nat, NEW m \in Nat, n <= m,
           Orderly(a, n), NEW r, WriteWell(a, n, r)
    PROVE  WriteWell(b, m, r)
<1>1. Known(b, r.row) /\ RefsUpTo(m, r.refs)
  BY MoreUpTo DEF WriteWell, Follows
<1>2. ASSUME r.row \in DOMAIN b, Table_(r.row) = "profiles",
             "inherits" \in DOMAIN r.refs
      PROVE  Akin(b, b[r.row]["distribution"], r.refs["inherits"])
  <2>1. r.row \in DOMAIN a
    BY <1>2 DEF WriteWell, Follows
  <2>2. Related(a, a[r.row])
    BY <1>2, <2>1 DEF Orderly, Of
  <2>3. Akin(a, a[r.row]["distribution"], r.refs["inherits"])
    BY <1>2, <2>1 DEF WriteWell
  <2>4. Akin(b, a[r.row]["distribution"], r.refs["inherits"])
    BY <2>2, <2>3, AkinStays DEF Related
  <2>5. b[r.row]["distribution"] = a[r.row]["distribution"]
    BY <1>2, <2>1, <2>2 DEF Follows, Related
  <2> QED
    BY <2>4, <2>5
<1> QED
  BY <1>1, <1>2 DEF WriteWell

LEMMA WellStays ==
    ASSUME NEW a, NEW b, Follows(a, b), NEW n \in Nat, NEW m \in Nat, n <= m,
           Orderly(a, n), NEW r, Well(a, n, r)
    PROVE  Well(b, m, r)
<1>1. r.op \in {"distribution", "clone"} => RefsUpTo(m, r.refs)
  BY MoreUpTo DEF Well
<1>2. r.op = "profile" => RefsUpTo(m, r.refs) /\ Related(b, r.refs)
  BY MoreUpTo, RelatedStays DEF Well
<1>3. r.op = "row" => /\ Table_(r.row) \in {"profile_versions", "builds"}
                      /\ RefsUpTo(m, r.refs)
  BY MoreUpTo DEF Well
<1>4. r.op = "update" => WriteWell(b, m, r)
  BY WriteWellStays DEF Well
<1>5. r.op \in {"delete", "import"} => RowsWell(m, r.rows)
  BY MoreUpTo DEF Well, RowsWell
<1>6. r.op = "replace" =>
         /\ Table_(r.distribution) = "distributions"
         /\ Known(b, r.distribution) /\ IdUpTo(m, r.distribution)
         /\ Table_(r.old) = "profiles" /\ IdUpTo(m, r.old)
  BY MoreUpTo DEF Well, Follows
<1> QED
  BY <1>1, <1>2, <1>3, <1>4, <1>5, <1>6 DEF Well

\* One row of its own.
LEMMA OneRow ==
    ASSUME NEW k, NEW refs
    PROVE  /\ DOMAIN (k :> refs) = {k}
           /\ (k :> refs)[k] = refs
BY DEF :>

LEMMA DistributionAdded ==
    ASSUME NEW a, NEW n \in Nat, Orderly(a, n), NEW name, Named(a, name) = {},
           NEW refs, RefsUpTo(n, refs)
    PROVE  LET b == a @@ (NewId(a, "distributions", name) :> refs)
           IN Follows(a, b) /\ Orderly(b, n + 1)
<1> DEFINE k == NewId(a, "distributions", name)
           new == k :> refs
<1>1. /\ Table_(k) = "distributions" /\ Name(k) = name
      /\ k \notin Mentioned(a) /\ k[3] \in 0..(n + 1)
  BY NewIdParts, NewIdIsNew DEF Orderly, Numbered
<1> HIDE DEF k
<1>2. DOMAIN new = {k} /\ new[k] = refs
  BY OneRow
<1>3. RefsUpTo(n + 1, refs)
  BY MoreUpTo
<1> HIDE DEF new
<1>4. Follows(a, a @@ new) /\ Orderly(a @@ new, n + 1)
  BY <1>1, <1>2, <1>3, AddedOrderly DEF IdUpTo
<1> QED
  BY <1>4 DEF new, k

LEMMA ProfileAdded ==
    ASSUME NEW a, NEW n \in Nat, Orderly(a, n), NEW name, NEW refs,
           RefsUpTo(n, refs), Related(a, refs)
    PROVE  LET b == a @@ (NewId(a, "profiles", name) :> refs)
           IN Follows(a, b) /\ Orderly(b, n + 1)
<1> DEFINE k == NewId(a, "profiles", name)
           new == k :> refs
<1>1. /\ Table_(k) = "profiles" /\ Name(k) = name
      /\ k \notin Mentioned(a) /\ k[3] \in 0..(n + 1)
  BY NewIdParts, NewIdIsNew DEF Orderly, Numbered
<1> HIDE DEF k
<1>2. DOMAIN new = {k} /\ new[k] = refs
  BY OneRow
<1>3. RefsUpTo(n + 1, refs)
  BY MoreUpTo
<1> HIDE DEF new
<1>4. Follows(a, a @@ new)
  BY <1>1, <1>2, AddedFollows DEF Orderly
<1>5. Related(a @@ new, refs)
  BY <1>4, RelatedStays
<1>6. Orderly(a @@ new, n + 1)
  BY <1>1, <1>2, <1>3, <1>5, AddedOrderly DEF IdUpTo
<1> QED
  BY <1>4, <1>6 DEF new, k

LEMMA RowAdded ==
    ASSUME NEW a, NEW n \in Nat, Orderly(a, n), NEW k, NEW refs,
           Table_(k) \notin Numbered \cup {"deleted"}, RefsUpTo(n, refs)
    PROVE  LET b == a @@ (k :> refs)
           IN Follows(a, b) /\ Orderly(b, n + 1)
<1> DEFINE new == k :> refs
<1>1. DOMAIN new = {k} /\ new[k] = refs
  BY OneRow
<1>2. RefsUpTo(n + 1, refs)
  BY MoreUpTo
<1> HIDE DEF new
<1>3. Follows(a, a @@ new) /\ Orderly(a @@ new, n + 1)
  BY <1>1, <1>2, AddedOrderly DEF IdUpTo, Numbered
<1> QED
  BY <1>3 DEF new

\* A copy of a distribution: its profiles' parents are copies too.
LEMMA CopiesAre ==
    ASSUME NEW a, NEW n \in Nat, Orderly(a, n), NEW d, NEW clone
    PROVE  \A k \in DOMAIN Copies(a, d, clone) :
              LET new == Copies(a, d, clone) IN
              /\ Table_(k) = "profiles" /\ k[3] \in 0..(n + 1)
              /\ k \notin Mentioned(a)
              /\ "distribution" \in DOMAIN new[k]
              /\ new[k]["distribution"] = clone
              /\ \A c \in DOMAIN new[k] \ {"distribution", "inherits"} :
                    IdUpTo(n, new[k][c])
              /\ "inherits" \in DOMAIN new[k] =>
                    new[k]["inherits"] \in DOMAIN new
<1> DEFINE copy  == [p \in ProfilesOf(a, d) |-> NewId(a, "profiles", Name(p))]
           origin(k) == CHOOSE p \in DOMAIN copy : copy[p] = k
           kept(p) == {c \in DOMAIN a[p] \ {"distribution"} :
                          c = "inherits" => a[p][c] \in DOMAIN copy}
           refs(p) == [c \in kept(p) |->
                          IF c = "inherits" THEN copy[a[p][c]] ELSE a[p][c]]
           new == [k \in {copy[p] : p \in DOMAIN copy} |->
                      ("distribution" :> clone) @@ refs(origin(k))]
<1>1. Copies(a, d, clone) = new
  BY DEF Copies
<1>2. ASSUME NEW p \in DOMAIN copy
      PROVE  /\ p \in DOMAIN a
             /\ Table_(copy[p]) = "profiles" /\ copy[p][3] \in 0..(n + 1)
             /\ copy[p] \notin Mentioned(a)
  <2>1. p \in DOMAIN a
    BY DEF ProfilesOf, Of
  <2>2. /\ Table_(NewId(a, "profiles", Name(p))) = "profiles"
        /\ NewId(a, "profiles", Name(p))[3] \in 0..(n + 1)
        /\ NewId(a, "profiles", Name(p)) \notin Mentioned(a)
    BY NewIdParts, NewIdIsNew DEF Numbered, Orderly
  <2> QED
    BY <2>1, <2>2
<1>3. ASSUME NEW k \in DOMAIN new
      PROVE  origin(k) \in DOMAIN copy /\ copy[origin(k)] = k
  OBVIOUS
<1> HIDE DEF copy, origin
<1>4. \A j \in DOMAIN a : RefsUpTo(n, a[j])
  BY UpTo DEF Orderly
<1>5. ASSUME NEW k \in DOMAIN new
      PROVE  /\ Table_(k) = "profiles" /\ k[3] \in 0..(n + 1)
             /\ k \notin Mentioned(a)
             /\ "distribution" \in DOMAIN new[k]
             /\ new[k]["distribution"] = clone
             /\ \A c \in DOMAIN new[k] \ {"distribution", "inherits"} :
                   IdUpTo(n, new[k][c])
             /\ "inherits" \in DOMAIN new[k] =>
                   new[k]["inherits"] \in DOMAIN new
  <2> DEFINE p == origin(k)
  <2>1. p \in DOMAIN copy /\ copy[p] = k
    BY <1>3
  <2>2. new[k] = ("distribution" :> clone) @@ refs(p)
    OBVIOUS
  <2>3. DOMAIN new = {copy[q] : q \in DOMAIN copy}
    OBVIOUS
  <2> HIDE DEF p, new
  <2>4. /\ DOMAIN new[k] = {"distribution"} \cup kept(p)
        /\ new[k]["distribution"] = clone
        /\ \A c \in kept(p) : c # "distribution" => new[k][c] = refs(p)[c]
    BY <2>2 DEF @@, :>
  <2>5. \A c \in kept(p) : c # "inherits" => refs(p)[c] = a[p][c]
    OBVIOUS
  <2>6. "inherits" \in kept(p) =>
           /\ a[p]["inherits"] \in DOMAIN copy
           /\ refs(p)["inherits"] = copy[a[p]["inherits"]]
    OBVIOUS
  <2>7. \A c \in kept(p) : c \in DOMAIN a[p] /\ c # "distribution"
    OBVIOUS
  <2>8. RefsUpTo(n, a[p])
    BY <1>2, <1>4, <2>1
  <2> HIDE DEF kept, refs
  <2>9. \A c \in DOMAIN new[k] \ {"distribution", "inherits"} :
           IdUpTo(n, new[k][c])
    BY <2>4, <2>5, <2>7, <2>8 DEF RefsUpTo
  <2>10. "inherits" \in DOMAIN new[k] => new[k]["inherits"] \in DOMAIN new
    BY <2>3, <2>4, <2>6
  <2> QED
    BY <1>2, <2>1, <2>4, <2>9, <2>10
<1> HIDE DEF new
<1> QED
  BY <1>1, <1>5

LEMMA ClonedOrderly ==
    ASSUME NEW a, NEW n \in Nat, Orderly(a, n), NEW d, NEW name,
           Named(a, name) = {}, NEW refs, RefsUpTo(n, refs)
    PROVE  /\ Follows(a, Cloned(a, d, name, refs))
           /\ Orderly(Cloned(a, d, name, refs), n + 1)
<1> DEFINE clone == NewId(a, "distributions", name)
           copies == Copies(a, d, clone)
           new == (clone :> refs) @@ copies
           b == a @@ new
<1>1. Cloned(a, d, name, refs) = b
  BY BothOnce DEF Cloned
<1>2. /\ Table_(clone) = "distributions" /\ Name(clone) = name
      /\ clone \notin Mentioned(a) /\ clone[3] \in 0..(n + 1)
  BY NewIdParts, NewIdIsNew DEF Orderly, Numbered
<1> HIDE DEF clone
<1>3. \A k \in DOMAIN copies :
         /\ Table_(k) = "profiles" /\ k[3] \in 0..(n + 1)
         /\ k \notin Mentioned(a)
         /\ "distribution" \in DOMAIN copies[k]
         /\ copies[k]["distribution"] = clone
         /\ \A c \in DOMAIN copies[k] \ {"distribution", "inherits"} :
               IdUpTo(n, copies[k][c])
         /\ "inherits" \in DOMAIN copies[k] =>
               copies[k]["inherits"] \in DOMAIN copies
  BY CopiesAre
<1> HIDE DEF copies
<1>4. /\ DOMAIN new = {clone} \cup DOMAIN copies
      /\ new[clone] = refs
      /\ \A k \in DOMAIN copies : new[k] = copies[k]
  BY <1>2, <1>3 DEF @@, :>
<1> HIDE DEF new
<1>5. /\ DOMAIN b = DOMAIN a \cup DOMAIN new
      /\ \A k \in DOMAIN new : k \notin DOMAIN a /\ b[k] = new[k]
  BY <1>2, <1>3, <1>4 DEF @@, Mentioned
<1>6. ASSUME NEW k \in DOMAIN copies
      PROVE  /\ RefsUpTo(n + 1, new[k])
             /\ Related(b, new[k])
  <2>1. n + 1 \in Nat /\ n <= n + 1
    OBVIOUS
  <2>2. ASSUME NEW c \in DOMAIN copies[k]
        PROVE  IdUpTo(n + 1, copies[k][c])
    <3>1. CASE c = "distribution"
      BY <1>2, <1>3, <3>1 DEF IdUpTo
    <3>2. CASE c = "inherits"
      BY <1>3, <3>2 DEF IdUpTo
    <3>3. CASE c \notin {"distribution", "inherits"}
      BY <1>3, <2>1, <3>3, MoreUpTo
    <3> QED
      BY <3>1, <3>2, <3>3
  <2>3. Table_(clone) = "distributions" /\ Known(b, clone)
    BY <1>2, <1>4, <1>5 DEF Known
  <2>4. ASSUME NEW q \in DOMAIN copies
        PROVE  Akin(b, clone, q)
    <3>1. q \in DOMAIN b /\ b[q] = copies[q]
      BY <1>4, <1>5
    <3> HIDE DEF b
    <3> QED
      BY <1>3, <3>1 DEF Akin, Known, ProfilesOf, Of, Refers, Has
  <2>5. Related(b, copies[k])
    BY <1>3, <2>3, <2>4 DEF Related
  <2> QED
    BY <1>4, <2>2, <2>5 DEF RefsUpTo
<1>7. RefsUpTo(n + 1, refs)
  BY MoreUpTo
<1>8. \A k \in DOMAIN new :
         /\ Table_(k) # "deleted"
         /\ Table_(k) \in Numbered => k \notin Mentioned(a)
         /\ IdUpTo(n + 1, k) /\ RefsUpTo(n + 1, new[k])
         /\ Table_(k) = "profiles" => Related(b, new[k])
  BY <1>2, <1>3, <1>4, <1>6, <1>7 DEF IdUpTo
<1>9. \A e \in DOMAIN new : Table_(e) = "distributions" => e = clone
  BY <1>2, <1>3, <1>4
<1>10. Follows(a, b) /\ Orderly(b, n + 1)
  BY <1>2, <1>8, <1>9, AddedOrderly
<1> QED
  BY <1>1, <1>10

\* A document that replaces what is there, or is new.
LEMMA ImportedOrderly ==
    ASSUME NEW a, NEW n \in Nat, Orderly(a, n), NEW gone, RowsWell(n, gone),
           NEW name, Named(a, name) \subseteq gone, NEW profile, NEW child
    PROVE  LET b == Imported(a, gone, name, profile, child)
           IN Follows(a, b) /\ Orderly(b, n + 1)
<1> DEFINE base  == Without(a, gone)
           d     == NewId(base, "distributions", name)
           top   == NewId(base, "profiles", profile)
           below == NewId(base, "profiles", child)
           one   == d :> NoRefs_
           two   == top :> ("distribution" :> d)
           three == below :> ("distribution" :> d @@ "inherits" :> top)
           new   == (one @@ two) @@ three
           b     == base @@ new
<1>1. Imported(a, gone, name, profile, child) = b
  BY BothOnce DEF Imported
<1>2. Follows(a, base) /\ Orderly(base, n)
  BY GoneOrderly DEF RowsWell, Deletable, Numbered
<1>3. Named(base, name) = {}
  <2>1. \A k \in DOMAIN base : Table_(k) # "deleted" => k \in DOMAIN a \ gone
    <3>1. DOMAIN base = (DOMAIN a \ gone) \cup {Row("deleted", q) : q \in gone}
      BY DEF Without
    <3> QED
      BY <3>1, RowParts
  <2> QED
    BY <2>1 DEF Named, Distributions, Of
<1> HIDE DEF base
<1>4. /\ Table_(d) = "distributions" /\ Name(d) = name
      /\ d \notin Mentioned(base) /\ d[3] \in 0..(n + 1)
  BY <1>2, NewIdParts, NewIdIsNew DEF Orderly, Numbered
<1>5. /\ Table_(top) = "profiles"
      /\ top \notin Mentioned(base) /\ top[3] \in 0..(n + 1)
  BY <1>2, NewIdParts, NewIdIsNew DEF Orderly, Numbered
<1>6. /\ Table_(below) = "profiles"
      /\ below \notin Mentioned(base) /\ below[3] \in 0..(n + 1)
  BY <1>2, NewIdParts, NewIdIsNew DEF Orderly, Numbered
<1> HIDE DEF d, top, below
<1>7. /\ DOMAIN one = {d} /\ one[d] = NoRefs_
      /\ DOMAIN two = {top} /\ two[top] = ("distribution" :> d)
      /\ DOMAIN three = {below}
      /\ three[below] = ("distribution" :> d @@ "inherits" :> top)
  BY OneRow
<1>8. /\ DOMAIN two[top] = {"distribution"} /\ two[top]["distribution"] = d
      /\ DOMAIN three[below] = {"distribution", "inherits"}
      /\ three[below]["distribution"] = d /\ three[below]["inherits"] = top
  BY <1>7 DEF :>, @@
<1> HIDE DEF one, two, three
<1>9. /\ DOMAIN new = {d, top, below}
      /\ new[d] = NoRefs_ /\ new[top] = two[top]
      /\ below # top => new[below] = three[below]
  BY <1>4, <1>5, <1>6, <1>7 DEF @@
<1> HIDE DEF new
<1>10. /\ DOMAIN b = DOMAIN base \cup DOMAIN new
       /\ \A k \in DOMAIN new : b[k] = new[k]
  BY <1>4, <1>5, <1>6, <1>9 DEF @@, Mentioned
<1>11. Known(b, d) /\ Akin(b, d, top)
  <2>1. d \in DOMAIN b /\ top \in DOMAIN b /\ b[top] = two[top]
    BY <1>9, <1>10
  <2> HIDE DEF b
  <2> QED
    BY <1>5, <1>8, <2>1 DEF Akin, Known, ProfilesOf, Of, Refers, Has
<1> HIDE DEF b
<1>12. ASSUME NEW k \in DOMAIN new
       PROVE  /\ Table_(k) # "deleted"
              /\ Table_(k) \in Numbered => k \notin Mentioned(base)
              /\ IdUpTo(n + 1, k) /\ RefsUpTo(n + 1, new[k])
              /\ Table_(k) = "profiles" => Related(b, new[k])
  <2>1. CASE k = d
    BY <1>4, <1>9, <2>1 DEF IdUpTo, RefsUpTo, NoRefs_
  <2>2. CASE k = top
    BY <1>4, <1>5, <1>8, <1>9, <1>11, <2>2 DEF IdUpTo, RefsUpTo, Related
  <2>3. CASE k = below /\ below # top
    BY <1>4, <1>5, <1>6, <1>8, <1>9, <1>11, <2>3 DEF IdUpTo, RefsUpTo, Related
  <2> QED
    BY <1>9, <2>1, <2>2, <2>3
<1>13. \A e \in DOMAIN new : Table_(e) = "distributions" => e = d
  BY <1>4, <1>5, <1>6, <1>9
<1>14. \A e \in DOMAIN new : Table_(e) = "distributions" =>
          /\ Named(base, Name(e)) = {}
          /\ \A f \in DOMAIN new : Table_(f) = "distributions" => f = e
  BY <1>3, <1>4, <1>13
<1>15. Follows(base, b) /\ Orderly(b, n + 1)
  BY <1>2, <1>12, <1>14, AddedOrderly DEF b
<1> QED
  BY <1>1, <1>2, <1>15, FollowsTransitive

\* A profile's parent is found under the name of its distribution, which no other
\* has as long as it is there.
LEMMA ReplacedOrderly ==
    ASSUME NEW a, NEW n \in Nat, Orderly(a, n),
           NEW d, Table_(d) = "distributions", Known(a, d), IdUpTo(n, d),
           NEW old, Table_(old) = "profiles", IdUpTo(n, old),
           NEW name, NEW parents
    PROVE  LET b == Replaced(a, d, old, name, parents)
           IN Follows(a, b) /\ Orderly(b, n + 1)
<1> DEFINE base  == Without(a, {old})
           found == ParentsFound(base, d, parents)
           refs  == [c \in {"distribution"} \cup {"inherits" : q \in found} |->
                       IF c = "distribution" THEN d
                       ELSE CHOOSE q \in found : TRUE]
           b     == base @@ (NewId(base, "profiles", name) :> refs)
<1>1. Replaced(a, d, old, name, parents) = b
  BY DEF Replaced
<1>2. Follows(a, base) /\ Orderly(base, n)
  <2>1. \A k \in {old} : Table_(k) # "deleted" /\ IdUpTo(n, k)
    OBVIOUS
  <2> QED
    BY <2>1, GoneOrderly
<1>3. Known(base, d)
  BY <1>2 DEF Follows
<1> HIDE DEF base
<1>4. ASSUME NEW q \in found
      PROVE  Akin(base, d, q) /\ IdUpTo(n, q)
  <2>1. PICK o \in Named(base, Name(d)) : Refers(base, q, "distribution", o)
    BY DEF ParentsFound
  <2>2. q \in DOMAIN base /\ Table_(q) = "profiles"
    BY DEF ParentsFound, Of
  <2>3. d \in DOMAIN base => o = d
    BY <1>2, <2>1 DEF Orderly, OneName, Named, Distributions, Of
  <2>4. d \in DOMAIN base => q \in ProfilesOf(base, d)
    BY <2>1, <2>2, <2>3 DEF ProfilesOf, Of
  <2>5. IdUpTo(n, q)
    BY <1>2, <2>2, UpTo DEF Orderly
  <2> QED
    BY <2>2, <2>4, <2>5 DEF Akin, Known
<1>5. /\ DOMAIN refs \subseteq {"distribution", "inherits"}
      /\ "distribution" \in DOMAIN refs /\ refs["distribution"] = d
      /\ "inherits" \in DOMAIN refs => refs["inherits"] \in found
  OBVIOUS
<1> HIDE DEF refs, found
<1>6. RefsUpTo(n, refs) /\ Related(base, refs)
  BY <1>3, <1>4, <1>5 DEF RefsUpTo, Related
<1>7. Follows(base, b) /\ Orderly(b, n + 1)
  BY <1>2, <1>6, ProfileAdded
<1> HIDE DEF b
<1> QED
  BY <1>1, <1>2, <1>7, FollowsTransitive

-----------------------------------------------------------------------------
(* The catalogue.                                                          *)

CatalogueInv ==
    /\ pending \in Seq(SeedRevisions)
    /\ \E n \in Nat : /\ Orderly(catalogue, n)
                      /\ \A r \in open : Well(catalogue, n, r)

LEMMA CatalogueStart == CatalogueInit => CatalogueInv
<1> SUFFICES ASSUME CatalogueInit PROVE CatalogueInv
  OBVIOUS
<1>1. PICK s \in Starts : catalogue = s.rows /\ pending = s.due /\ open = {}
  BY DEF CatalogueInit
<1>2. /\ s.due \in Seq(SeedRevisions) /\ Sound(s.rows)
      /\ \E n \in 0..Cardinality(Mentioned(s.rows)) : NumberedUpTo(s.rows, n)
  BY StartsAssumption
<1>3. PICK n \in 0..Cardinality(Mentioned(s.rows)) : NumberedUpTo(s.rows, n)
  BY <1>2
<1>4. n \in Nat
  OBVIOUS
<1> DEFINE db == s.rows
<1>5. ASSUME NEW p \in Of(db, "profiles")
      PROVE  Related(db, db[p])
  <2>1. /\ "distribution" \in DOMAIN db[p]
        /\ db[p]["distribution"] \in Distributions(db)
        /\ \A q \in Parent(db, p) : q \in ProfilesOf(db, db[p]["distribution"])
    BY <1>2 DEF Sound, Has
  <2>2. ASSUME "inherits" \in DOMAIN db[p]
        PROVE  Akin(db, db[p]["distribution"], db[p]["inherits"])
    <3>1. db[p]["inherits"] \in Parent(db, p)
      BY <2>2 DEF Parent, Has, Of
    <3> QED
      BY <2>1, <3>1 DEF Akin, Known, ProfilesOf, Of
  <2> QED
    BY <2>1, <2>2 DEF Related, Known, Distributions, Of
<1>6. Buried(db) /\ OneName(db)
  BY <1>2 DEF Sound, Buried, OneName
<1> HIDE DEF db
<1>7. Orderly(db, n)
  BY <1>3, <1>5, <1>6 DEF Orderly, db
<1> QED
  BY <1>1, <1>2, <1>4, <1>7 DEF CatalogueInv, db

\* By a revision or a command.
LEMMA SeededInv ==
    ASSUME CatalogueInv, Grows(catalogue, catalogue'),
           pending' \in Seq(SeedRevisions), open' = open
    PROVE  CatalogueInv'
<1>1. PICK n \in Nat : Orderly(catalogue, n) /\ \A r \in open : Well(catalogue, n, r)
  BY DEF CatalogueInv
<1>2. /\ Follows(catalogue, catalogue')
      /\ \E m \in Nat : n <= m /\ Orderly(catalogue', m)
  BY <1>1, SeededOrderly
<1>3. PICK m \in Nat : n <= m /\ Orderly(catalogue', m)
  BY <1>2
<1>4. \A r \in open : Well(catalogue', m, r)
  BY <1>1, <1>2, <1>3, WellStays
<1> QED
  BY <1>3, <1>4 DEF CatalogueInv

\* By a request that writes.
LEMMA WrittenInv ==
    ASSUME CatalogueInv, NEW r \in open, NEW db, Writes(r, db),
           \A n \in Nat : Orderly(catalogue, n) /\ Well(catalogue, n, r) =>
              /\ Follows(catalogue, db)
              /\ Orderly(db, n) \/ Orderly(db, n + 1)
    PROVE  CatalogueInv'
<1>1. PICK n \in Nat : Orderly(catalogue, n) /\ \A q \in open : Well(catalogue, n, q)
  BY DEF CatalogueInv
<1>2. catalogue' = db /\ open' = open \ {r} /\ pending' = pending
  BY DEF Writes, Answered
<1>3. PICK m \in {n, n + 1} : Orderly(db, m)
  BY <1>1
<1>4. m \in Nat /\ n <= m
  BY <1>3
<1>5. \A q \in open : Well(db, m, q)
  BY <1>1, <1>4, WellStays
<1> QED
  BY <1>2, <1>3, <1>4, <1>5 DEF CatalogueInv

\* By a request that has looked up.
LEMMA AskedInv ==
    ASSUME CatalogueInv, NEW r, Ask(r),
           \A n \in Nat : Orderly(catalogue, n) => Well(catalogue, n, r)
    PROVE  CatalogueInv'
BY DEF CatalogueInv, Ask

\* A revision that runs is one of the seeding ones, and what it leaves has grown.
LEMMA UpgradeGrows ==
    CatalogueInv /\ Upgrade =>
       pending' \in Seq(SeedRevisions) /\ Grows(catalogue, catalogue')
<1> SUFFICES ASSUME CatalogueInv, Upgrade
             PROVE  pending' \in Seq(SeedRevisions) /\ Grows(catalogue, catalogue')
  OBVIOUS
<1>1. /\ Head(pending) \in SeedRevisions /\ Tail(pending) \in Seq(SeedRevisions)
      /\ catalogue' = Upgraded(catalogue, Head(pending), shipped)
      /\ pending' = Tail(pending)
  BY DEF CatalogueInv, Upgrade
<1> QED
  BY <1>1, UpgradedGrows

-----------------------------------------------------------------------------
(* What the requests find.                                                 *)

LEMMA ClassIsThere ==
    ASSUME NEW db, NEW class
    PROVE  /\ DOMAIN ClassRef(db, class) \subseteq {"class"}
           /\ \A c \in DOMAIN ClassRef(db, class) :
                Table_(ClassRef(db, class)[c]) \notin Numbered
<1>1. Table_(Row("distribution_classes", class)) = "distribution_classes"
  BY RowParts
<1> QED
  BY <1>1 DEF ClassRef, Lookup, NoRefs_, :>, Numbered

LEMMA ClassFound ==
    ASSUME NEW db, NEW n, NEW class \in ClassRefs(db)
    PROVE  DOMAIN class \subseteq {"class"} /\ RefsUpTo(n, class)
<1>1. class = NoRefs_ \/ \E c \in Classes : class = ClassRef(db, c)
  BY DEF ClassRefs
<1>2. CASE class = NoRefs_
  BY <1>2 DEF NoRefs_, RefsUpTo
<1>3. CASE \E c \in Classes : class = ClassRef(db, c)
  BY <1>3, ClassIsThere DEF RefsUpTo, IdUpTo
<1> QED
  BY <1>1, <1>2, <1>3

LEMMA ThereWell ==
    ASSUME NEW db, NEW n, Orderly(db, n)
    PROVE  /\ \A k \in DOMAIN db : IdUpTo(n, k) /\ RefsUpTo(n, db[k])
           /\ \A keys \in SUBSET DOMAIN db :
                (\A k \in keys : Table_(k) \in Deletable) => RowsWell(n, keys)
<1>1. \A k \in DOMAIN db : IdUpTo(n, k) /\ RefsUpTo(n, db[k])
  BY UpTo DEF Orderly
<1> QED
  BY <1>1 DEF RowsWell

LEMMA ParentFound ==
    ASSUME NEW db, NEW n, Orderly(db, n), NEW d \in Distributions(db),
           NEW parent \in InheritsRefs(db, d)
    PROVE  /\ DOMAIN parent \subseteq {"inherits"}
           /\ RefsUpTo(n, parent)
           /\ "inherits" \in DOMAIN parent => Akin(db, d, parent["inherits"])
<1>1. parent = NoRefs_ \/ \E q \in ProfilesOf(db, d) : parent = ("inherits" :> q)
  BY DEF InheritsRefs
<1>2. CASE parent = NoRefs_
  BY <1>2 DEF NoRefs_, RefsUpTo
<1>3. ASSUME NEW q \in ProfilesOf(db, d), parent = ("inherits" :> q)
      PROVE  /\ DOMAIN parent \subseteq {"inherits"}
             /\ RefsUpTo(n, parent)
             /\ "inherits" \in DOMAIN parent => Akin(db, d, parent["inherits"])
  <2>1. q \in DOMAIN db /\ Table_(q) = "profiles" /\ IdUpTo(n, q)
    BY ThereWell DEF ProfilesOf, Of
  <2>2. DOMAIN parent = {"inherits"} /\ parent["inherits"] = q
    BY <1>3 DEF :>
  <2> QED
    BY <2>1, <2>2 DEF RefsUpTo, Akin, Known
<1> QED
  BY <1>1, <1>2, <1>3

DistributionFinds(r) ==
    \/ \E name : \E class \in ClassRefs(catalogue) :
          r = InsertDistribution(name, class)
    \/ \E d \in Distributions(catalogue), class \in ClassRefs(catalogue) :
          r = Update(d, {"class"}, class)
    \/ \E d \in Distributions(catalogue) :
          r = DeleteDistribution(catalogue, d)
    \/ \E d \in Distributions(catalogue) : \E name :
          r = CloneDistribution(catalogue, d, name)
    \/ \E name, p, q : r = ImportDistribution(catalogue, name, p, q)

LEMMA DistributionAsked ==
    ASSUME NEW n \in Nat, Orderly(catalogue, n), NEW r, DistributionFinds(r)
    PROVE  Well(catalogue, n, r)
<1>1. ASSUME NEW name, NEW class \in ClassRefs(catalogue),
             r = InsertDistribution(name, class)
      PROVE  Well(catalogue, n, r)
  <2>1. r.op = "distribution" /\ r.refs = class
    BY <1>1 DEF InsertDistribution
  <2> QED
    BY <2>1, ClassFound DEF Well
<1>2. ASSUME NEW d \in Distributions(catalogue), NEW class \in ClassRefs(catalogue),
             r = Update(d, {"class"}, class)
      PROVE  Well(catalogue, n, r)
  <2>1. /\ r.op = "update" /\ r.row = d /\ r.columns = {"class"}
        /\ r.refs = class
    BY <1>2 DEF Update
  <2>2. d \in DOMAIN catalogue /\ Table_(d) = "distributions"
    BY DEF Distributions, Of
  <2>3. WriteWell(catalogue, n, r)
    BY <2>1, <2>2, ClassFound DEF WriteWell, Known, Numbered
  <2> QED
    BY <2>1, <2>3 DEF Well
<1>3. ASSUME NEW d \in Distributions(catalogue), r = DeleteDistribution(catalogue, d)
      PROVE  Well(catalogue, n, r)
  <2>1. r.op = "delete" /\ r.rows = ProfilesOf(catalogue, d) \cup {d}
    BY <1>3 DEF DeleteDistribution, DeleteRows
  <2>2. \A k \in r.rows : k \in DOMAIN catalogue /\ Table_(k) \in Deletable
    BY <2>1 DEF Distributions, ProfilesOf, Of, Deletable, Numbered
  <2>3. RowsWell(n, r.rows)
    BY <2>2, ThereWell
  <2> QED
    BY <2>1, <2>3 DEF Well
<1>4. ASSUME NEW d \in Distributions(catalogue), NEW name,
             r = CloneDistribution(catalogue, d, name)
      PROVE  Well(catalogue, n, r)
  <2>1. r.op = "clone" /\ r.refs = catalogue[d] /\ d \in DOMAIN catalogue
    BY <1>4 DEF CloneDistribution, Distributions, Of
  <2> QED
    BY <2>1, ThereWell DEF Well
<1>5. ASSUME NEW name, NEW p, NEW q, r = ImportDistribution(catalogue, name, p, q)
      PROVE  Well(catalogue, n, r)
  <2>1. /\ r.op = "import"
        /\ r.rows = Named(catalogue, name) \cup
                      UNION {ProfilesOf(catalogue, d) : d \in Named(catalogue, name)}
    BY <1>5 DEF ImportDistribution
  <2>2. \A k \in r.rows : k \in DOMAIN catalogue /\ Table_(k) \in Deletable
    BY <2>1 DEF Named, Distributions, ProfilesOf, Of, Deletable, Numbered
  <2>3. RowsWell(n, r.rows)
    BY <2>2, ThereWell
  <2> QED
    BY <2>1, <2>3 DEF Well
<1> QED
  BY <1>1, <1>2, <1>3, <1>4, <1>5 DEF DistributionFinds

ProfileFinds(d, r) ==
    \/ \E name : \E parent \in InheritsRefs(catalogue, d) :
          r = InsertProfile(d, name, parent)
    \/ \E p \in ProfilesOf(catalogue, d), parent \in InheritsRefs(catalogue, d) :
          r = Update(p, {"inherits"}, parent)
    \/ \E p \in ProfilesOf(catalogue, d), b \in Of(catalogue, "boards") :
          r = Update(p, {"board"}, "board" :> b)
    \/ \E p \in ProfilesOf(catalogue, d) : r = DeleteProfile(catalogue, p)
    \/ \E p \in ProfilesOf(catalogue, d) : \E name :
          r = CloneProfile(catalogue, p, name)
    \/ \E p \in ProfilesOf(catalogue, d) : r = CreateVersion(catalogue, p)
    \/ \E old \in ProfilesOf(catalogue, d) : \E name, parents :
          r = ImportProfile(d, old, name, parents)
    \/ \E p \in ProfilesOf(catalogue, d) :
          r = InsertRow(Row("builds", p),
                        "distribution" :> d @@ "profile" :> p)

LEMMA ProfileAsked ==
    ASSUME NEW n \in Nat, Orderly(catalogue, n), NEW r,
           NEW d \in Distributions(catalogue), ProfileFinds(d, r)
    PROVE  Well(catalogue, n, r)
<1>1. d \in DOMAIN catalogue /\ Table_(d) = "distributions" /\ IdUpTo(n, d)
  BY ThereWell DEF Distributions, Of
<1>2. \A p \in ProfilesOf(catalogue, d) :
         /\ p \in DOMAIN catalogue /\ Table_(p) = "profiles" /\ IdUpTo(n, p)
         /\ "distribution" \in DOMAIN catalogue[p]
         /\ catalogue[p]["distribution"] = d
         /\ RefsUpTo(n, catalogue[p]) /\ Related(catalogue, catalogue[p])
  BY ThereWell DEF ProfilesOf, Of, Refers, Has, Orderly
<1>3. ASSUME NEW name, NEW parent \in InheritsRefs(catalogue, d),
             r = InsertProfile(d, name, parent)
      PROVE  Well(catalogue, n, r)
  <2>1. r.op = "profile" /\ r.refs = parent @@ ("distribution" :> d)
    BY <1>3 DEF InsertProfile
  <2>2. /\ DOMAIN parent \subseteq {"inherits"} /\ RefsUpTo(n, parent)
        /\ "inherits" \in DOMAIN parent => Akin(catalogue, d, parent["inherits"])
    BY ParentFound
  <2>3. /\ DOMAIN r.refs = DOMAIN parent \cup {"distribution"}
        /\ r.refs["distribution"] = d
        /\ \A c \in DOMAIN parent : r.refs[c] = parent[c]
    BY <2>1, <2>2 DEF @@, :>
  <2>4. RefsUpTo(n, r.refs) /\ Related(catalogue, r.refs)
    BY <1>1, <2>2, <2>3 DEF RefsUpTo, Related, Known
  <2> QED
    BY <2>1, <2>4 DEF Well
<1>4. ASSUME NEW p \in ProfilesOf(catalogue, d),
             NEW parent \in InheritsRefs(catalogue, d),
             r = Update(p, {"inherits"}, parent)
      PROVE  Well(catalogue, n, r)
  <2>1. /\ r.op = "update" /\ r.row = p /\ r.columns = {"inherits"}
        /\ r.refs = parent
    BY <1>4 DEF Update
  <2>2. /\ DOMAIN parent \subseteq {"inherits"} /\ RefsUpTo(n, parent)
        /\ "inherits" \in DOMAIN parent => Akin(catalogue, d, parent["inherits"])
    BY ParentFound
  <2>3. WriteWell(catalogue, n, r)
    BY <1>2, <2>1, <2>2 DEF WriteWell, Known, Numbered
  <2> QED
    BY <2>1, <2>3 DEF Well
<1>5. ASSUME NEW p \in ProfilesOf(catalogue, d), NEW b \in Of(catalogue, "boards"),
             r = Update(p, {"board"}, "board" :> b)
      PROVE  Well(catalogue, n, r)
  <2>1. /\ r.op = "update" /\ r.row = p /\ r.columns = {"board"}
        /\ r.refs = ("board" :> b)
    BY <1>5 DEF Update
  <2>2. DOMAIN r.refs = {"board"} /\ r.refs["board"] = b
    BY <2>1 DEF :>
  <2>3. RefsUpTo(n, r.refs)
    BY <2>2 DEF RefsUpTo, IdUpTo, Of, Numbered
  <2>4. WriteWell(catalogue, n, r)
    BY <1>2, <2>1, <2>2, <2>3 DEF WriteWell, Known, Numbered
  <2> QED
    BY <2>1, <2>4 DEF Well
<1>6. ASSUME NEW p \in ProfilesOf(catalogue, d), r = DeleteProfile(catalogue, p)
      PROVE  Well(catalogue, n, r)
  <2>1. r.op = "delete" /\ r.rows = VersionsOf(catalogue, p) \cup {p}
    BY <1>6 DEF DeleteProfile, DeleteRows
  <2>2. \A k \in r.rows : k \in DOMAIN catalogue /\ Table_(k) \in Deletable
    BY <1>2, <2>1 DEF VersionsOf, Of, Deletable, Numbered
  <2>3. RowsWell(n, r.rows)
    BY <2>2, ThereWell
  <2> QED
    BY <2>1, <2>3 DEF Well
<1>7. ASSUME NEW p \in ProfilesOf(catalogue, d), NEW name,
             r = CloneProfile(catalogue, p, name)
      PROVE  Well(catalogue, n, r)
  <2>1. r.op = "profile" /\ r.refs = catalogue[p] @@ ("distribution" :> d)
    BY <1>2, <1>7 DEF CloneProfile, InsertProfile
  <2>2. /\ DOMAIN r.refs = DOMAIN catalogue[p]
        /\ \A c \in DOMAIN catalogue[p] : r.refs[c] = catalogue[p][c]
    BY <1>2, <2>1 DEF @@, :>
  <2>3. RefsUpTo(n, r.refs) /\ Related(catalogue, r.refs)
    BY <1>2, <2>2 DEF RefsUpTo, Related
  <2> QED
    BY <2>1, <2>3 DEF Well
<1>8. ASSUME NEW p \in ProfilesOf(catalogue, d), r = CreateVersion(catalogue, p)
      PROVE  Well(catalogue, n, r)
  <2>1. r.op = "row" /\ Table_(r.row) = "profile_versions" /\ r.refs = ("profile" :> p)
    BY <1>8 DEF CreateVersion, InsertRow, Table_
  <2>2. RefsUpTo(n, r.refs)
    BY <1>2, <2>1 DEF RefsUpTo, :>
  <2> QED
    BY <2>1, <2>2 DEF Well, Numbered
<1>9. ASSUME NEW old \in ProfilesOf(catalogue, d), NEW name, NEW parents,
             r = ImportProfile(d, old, name, parents)
      PROVE  Well(catalogue, n, r)
  <2>1. r.op = "replace" /\ r.distribution = d /\ r.old = old
    BY <1>9 DEF ImportProfile
  <2> QED
    BY <1>1, <1>2, <2>1 DEF Well, Known
<1>10. ASSUME NEW p \in ProfilesOf(catalogue, d),
              r = InsertRow(Row("builds", p), "distribution" :> d @@ "profile" :> p)
       PROVE  Well(catalogue, n, r)
  <2>1. /\ r.op = "row" /\ r.row = Row("builds", p)
        /\ r.refs = ("distribution" :> d @@ "profile" :> p)
    BY <1>10 DEF InsertRow
  <2>2. RefsUpTo(n, r.refs)
    BY <1>1, <1>2, <2>1 DEF RefsUpTo, :>, @@
  <2> QED
    BY <2>1, <2>2, RowParts DEF Well, Numbered
<1> QED
  BY <1>3, <1>4, <1>5, <1>6, <1>7, <1>8, <1>9, <1>10 DEF ProfileFinds

-----------------------------------------------------------------------------
(* The steps.                                                              *)

LEMMA OwnAreThere == OwnDistributions \subseteq Distributions(catalogue)
BY DEF OwnDistributions

LEMMA AskDistributionInv == CatalogueInv /\ AskDistribution => CatalogueInv'
<1> SUFFICES ASSUME CatalogueInv, AskDistribution PROVE CatalogueInv'
  OBVIOUS
<1>1. ASSUME NEW r, DistributionFinds(r), Ask(r)
      PROVE  CatalogueInv'
  BY <1>1, DistributionAsked, AskedInv
<1>2. ASSUME NEW n, NEW class \in ClassRefs(catalogue), Ask(InsertDistribution(n, class))
      PROVE  CatalogueInv'
  <2>1. DistributionFinds(InsertDistribution(n, class))
    BY DEF DistributionFinds
  <2> QED
    BY <1>1, <1>2, <2>1
<1>3. ASSUME NEW d \in Distributions(catalogue), NEW class \in ClassRefs(catalogue),
             Ask(Update(d, {"class"}, class))
      PROVE  CatalogueInv'
  <2>1. DistributionFinds(Update(d, {"class"}, class))
    BY DEF DistributionFinds
  <2> QED
    BY <1>1, <1>3, <2>1
<1>4. ASSUME NEW d \in Distributions(catalogue), Ask(DeleteDistribution(catalogue, d))
      PROVE  CatalogueInv'
  <2>1. DistributionFinds(DeleteDistribution(catalogue, d))
    BY DEF DistributionFinds
  <2> QED
    BY <1>1, <1>4, <2>1
<1>5. ASSUME NEW d \in Distributions(catalogue), NEW n,
             Ask(CloneDistribution(catalogue, d, n))
      PROVE  CatalogueInv'
  <2>1. DistributionFinds(CloneDistribution(catalogue, d, n))
    BY DEF DistributionFinds
  <2> QED
    BY <1>1, <1>5, <2>1
<1>6. ASSUME NEW n, NEW p, NEW q, Ask(ImportDistribution(catalogue, n, p, q))
      PROVE  CatalogueInv'
  <2>1. DistributionFinds(ImportDistribution(catalogue, n, p, q))
    BY DEF DistributionFinds
  <2> QED
    BY <1>1, <1>6, <2>1
<1> QED
  BY <1>2, <1>3, <1>4, <1>5, <1>6, OwnAreThere DEF AskDistribution

LEMMA AskProfileInv == CatalogueInv /\ (AskProfile \/ AskBuild) => CatalogueInv'
<1> SUFFICES ASSUME CatalogueInv, AskProfile \/ AskBuild PROVE CatalogueInv'
  OBVIOUS
<1>1. PICK d \in Distributions(catalogue) :
         \/ \E n \in ProfileNames, parent \in InheritsRefs(catalogue, d) :
               Ask(InsertProfile(d, n, parent))
         \/ \E p \in ProfilesOf(catalogue, d), parent \in InheritsRefs(catalogue, d) :
               Ask(Update(p, {"inherits"}, parent))
         \/ \E p \in ProfilesOf(catalogue, d), b \in Of(catalogue, "boards") :
               Ask(Update(p, {"board"}, "board" :> b))
         \/ \E p \in ProfilesOf(catalogue, d) : Ask(DeleteProfile(catalogue, p))
         \/ \E p \in ProfilesOf(catalogue, d), n \in ProfileNames :
               Ask(CloneProfile(catalogue, p, n))
         \/ \E p \in ProfilesOf(catalogue, d) : Ask(CreateVersion(catalogue, p))
         \/ \E n \in ProfileNames :
               \E old \in ProfilesNamed(catalogue, d, n),
                  parents \in {{}} \cup {{q} : q \in ProfileNames \ {n}} :
                  Ask(ImportProfile(d, old, n, parents))
         \/ \E p \in ProfilesOf(catalogue, d) :
               Ask(InsertRow(Row("builds", p),
                             "distribution" :> d @@ "profile" :> p))
  <2>1. CASE AskProfile
    BY <2>1, OwnAreThere DEF AskProfile, OwnProfiles
  <2>2. CASE AskBuild
    BY <2>2, OwnAreThere DEF AskBuild, OwnProfiles
  <2> QED
    BY <2>1, <2>2
<1>2. ASSUME NEW r, ProfileFinds(d, r), Ask(r)
      PROVE  CatalogueInv'
  BY <1>2, ProfileAsked, AskedInv
<1>3. ASSUME NEW n, NEW parent \in InheritsRefs(catalogue, d),
             Ask(InsertProfile(d, n, parent))
      PROVE  CatalogueInv'
  <2>1. ProfileFinds(d, InsertProfile(d, n, parent))
    BY DEF ProfileFinds
  <2> QED
    BY <1>2, <1>3, <2>1
<1>4. ASSUME NEW p \in ProfilesOf(catalogue, d),
             NEW parent \in InheritsRefs(catalogue, d),
             Ask(Update(p, {"inherits"}, parent))
      PROVE  CatalogueInv'
  <2>1. ProfileFinds(d, Update(p, {"inherits"}, parent))
    BY DEF ProfileFinds
  <2> QED
    BY <1>2, <1>4, <2>1
<1>5. ASSUME NEW p \in ProfilesOf(catalogue, d), NEW b \in Of(catalogue, "boards"),
             Ask(Update(p, {"board"}, "board" :> b))
      PROVE  CatalogueInv'
  <2>1. ProfileFinds(d, Update(p, {"board"}, "board" :> b))
    BY DEF ProfileFinds
  <2> QED
    BY <1>2, <1>5, <2>1
<1>6. ASSUME NEW p \in ProfilesOf(catalogue, d), Ask(DeleteProfile(catalogue, p))
      PROVE  CatalogueInv'
  <2>1. ProfileFinds(d, DeleteProfile(catalogue, p))
    BY DEF ProfileFinds
  <2> QED
    BY <1>2, <1>6, <2>1
<1>7. ASSUME NEW p \in ProfilesOf(catalogue, d), NEW n, Ask(CloneProfile(catalogue, p, n))
      PROVE  CatalogueInv'
  <2>1. ProfileFinds(d, CloneProfile(catalogue, p, n))
    BY DEF ProfileFinds
  <2> QED
    BY <1>2, <1>7, <2>1
<1>8. ASSUME NEW p \in ProfilesOf(catalogue, d), Ask(CreateVersion(catalogue, p))
      PROVE  CatalogueInv'
  <2>1. ProfileFinds(d, CreateVersion(catalogue, p))
    BY DEF ProfileFinds
  <2> QED
    BY <1>2, <1>8, <2>1
<1>9. ASSUME NEW n, NEW old \in ProfilesNamed(catalogue, d, n), NEW parents,
             Ask(ImportProfile(d, old, n, parents))
      PROVE  CatalogueInv'
  <2>1. ProfileFinds(d, ImportProfile(d, old, n, parents))
    BY DEF ProfileFinds, ProfilesNamed
  <2> QED
    BY <1>2, <1>9, <2>1
<1>10. ASSUME NEW p \in ProfilesOf(catalogue, d),
              Ask(InsertRow(Row("builds", p), "distribution" :> d @@ "profile" :> p))
       PROVE  CatalogueInv'
  <2>1. ProfileFinds(d, InsertRow(Row("builds", p),
                                  "distribution" :> d @@ "profile" :> p))
    BY DEF ProfileFinds
  <2> QED
    BY <1>2, <1>10, <2>1
<1> QED
  BY <1>1, <1>3, <1>4, <1>5, <1>6, <1>7, <1>8, <1>9, <1>10

LEMMA CommitInsertInv ==
    ASSUME CatalogueInv, NEW r \in open, CommitInsert(r)
    PROVE  CatalogueInv'
<1>1. ASSUME r.op = "distribution", Named(catalogue, r.name) = {},
             Writes(r, catalogue
                       @@ (NewId(catalogue, "distributions", r.name) :> r.refs))
      PROVE  CatalogueInv'
  BY <1>1, DistributionAdded, WrittenInv DEF Well
<1>2. ASSUME r.op = "profile",
             Writes(r, catalogue
                       @@ (NewId(catalogue, "profiles", r.name) :> r.refs))
      PROVE  CatalogueInv'
  BY <1>2, ProfileAdded, WrittenInv DEF Well
<1>3. ASSUME r.op = "row", Writes(r, catalogue @@ (r.row :> r.refs))
      PROVE  CatalogueInv'
  BY <1>3, RowAdded, WrittenInv DEF Well, Numbered
<1> QED
  BY <1>1, <1>2, <1>3 DEF CommitInsert

LEMMA CommitUpdateInv ==
    ASSUME CatalogueInv, NEW r \in open, CommitUpdate(r)
    PROVE  CatalogueInv'
<1>1. /\ r.op = "update" /\ r.row \in DOMAIN catalogue
      /\ Writes(r, Write(catalogue, r.row, r.columns, r.refs))
  BY DEF CommitUpdate
<1>2. ASSUME NEW n \in Nat, Orderly(catalogue, n), Well(catalogue, n, r)
      PROVE  /\ Follows(catalogue, Write(catalogue, r.row, r.columns, r.refs))
             /\ Orderly(Write(catalogue, r.row, r.columns, r.refs), n)
  <2>1. WriteWell(catalogue, n, r)
    BY <1>1, <1>2 DEF Well
  <2> QED
    BY <1>1, <1>2, <2>1, WrittenOrderly DEF WriteWell
<1> QED
  BY <1>1, <1>2, WrittenInv

LEMMA CommitDeleteInv ==
    ASSUME CatalogueInv, NEW r \in open, CommitDelete(r)
    PROVE  CatalogueInv'
<1>1. r.op = "delete" /\ Writes(r, Without(catalogue, r.rows))
  BY DEF CommitDelete
<1>2. ASSUME NEW n \in Nat, Orderly(catalogue, n), Well(catalogue, n, r)
      PROVE  /\ Follows(catalogue, Without(catalogue, r.rows))
             /\ Orderly(Without(catalogue, r.rows), n)
  BY <1>1, <1>2, GoneOrderly DEF Well, RowsWell, Deletable, Numbered
<1> QED
  BY <1>1, <1>2, WrittenInv

LEMMA CommitCloneInv ==
    ASSUME CatalogueInv, NEW r \in open, CommitClone(r)
    PROVE  CatalogueInv'
<1>1. /\ r.op = "clone" /\ Named(catalogue, r.name) = {}
      /\ Writes(r, Cloned(catalogue, r.row, r.name, r.refs))
  BY DEF CommitClone
<1>2. ASSUME NEW n \in Nat, Orderly(catalogue, n), Well(catalogue, n, r)
      PROVE  /\ Follows(catalogue, Cloned(catalogue, r.row, r.name, r.refs))
             /\ Orderly(Cloned(catalogue, r.row, r.name, r.refs), n + 1)
  BY <1>1, <1>2, ClonedOrderly DEF Well
<1> QED
  BY <1>1, <1>2, WrittenInv

LEMMA CommitImportInv ==
    ASSUME CatalogueInv, NEW r \in open, CommitImport(r)
    PROVE  CatalogueInv'
<1>1. ASSUME r.op = "import", Named(catalogue, r.name) \subseteq r.rows,
             Writes(r, Imported(catalogue, r.rows, r.name, r.profile, r.child))
      PROVE  CatalogueInv'
  BY <1>1, ImportedOrderly, WrittenInv DEF Well
<1>2. ASSUME r.op = "replace",
             Writes(r, Replaced(catalogue, r.distribution, r.old, r.name,
                                r.parents))
      PROVE  CatalogueInv'
  BY <1>2, ReplacedOrderly, WrittenInv DEF Well
<1> QED
  BY <1>1, <1>2 DEF CommitImport

LEMMA CatalogueStep ==
    CatalogueInv /\ [CatalogueNext]_catalogueVars => CatalogueInv'
<1> SUFFICES ASSUME CatalogueInv, [CatalogueNext]_catalogueVars
             PROVE  CatalogueInv'
  OBVIOUS
<1>1. CASE Upgrade
  BY <1>1, UpgradeGrows, SeededInv DEF Upgrade
<1>2. CASE \E c \in Commands : RunCommand(c)
  BY <1>2, CommandedGrows, SeededInv DEF RunCommand, CatalogueInv
<1>3. CASE AskDistribution
  BY <1>3, AskDistributionInv
<1>4. CASE AskProfile \/ AskBuild
  BY <1>4, AskProfileInv
<1>5. CASE \E r \in open : CommitInsert(r)
  BY <1>5, CommitInsertInv
<1>6. CASE \E r \in open : CommitUpdate(r)
  BY <1>6, CommitUpdateInv
<1>7. CASE \E r \in open : CommitDelete(r)
  BY <1>7, CommitDeleteInv
<1>8. CASE \E r \in open : CommitClone(r)
  BY <1>8, CommitCloneInv
<1>9. CASE \E r \in open : CommitImport(r)
  BY <1>9, CommitImportInv
<1>10. CASE \E r \in open : DropRequest(r)
  BY <1>10 DEF DropRequest, Answered, CatalogueInv
<1>11. CASE UNCHANGED catalogueVars
  BY <1>11 DEF CatalogueInv, catalogueVars
<1> QED
  BY <1>1, <1>2, <1>3, <1>4, <1>5, <1>6, <1>7, <1>8, <1>9, <1>10, <1>11
     DEF CatalogueNext

\* However look-ups and commits of requests overlap with each other and with the
\* seeds, and whatever documents replace, no profile inherits from one of another
\* distribution: while both are there, a profile's distribution is its parent's
\* (distribution/service.py, profile/service.py).
THEOREM FamiliesApart == CatalogueSpec => []ParentsAreOwn
<1>1. CatalogueInv => ParentsAreOwn
  <2> SUFFICES ASSUME CatalogueInv, NEW p \in Of(catalogue, "profiles"),
                      NEW q \in Parent(catalogue, p),
                      {catalogue[p]["distribution"], q} \subseteq DOMAIN catalogue
               PROVE  q \in ProfilesOf(catalogue, catalogue[p]["distribution"])
    BY DEF ParentsAreOwn
  <2>1. Related(catalogue, catalogue[p])
    BY DEF CatalogueInv, Orderly
  <2>2. "inherits" \in DOMAIN catalogue[p] /\ q = catalogue[p]["inherits"]
    BY DEF Parent, Has
  <2> QED
    BY <2>1, <2>2 DEF Related, Akin
<1> QED
  BY <1>1, CatalogueStart, CatalogueStep, PTL DEF CatalogueSpec

\* Whatever users have made of the database, a seeding revision keeps every row
\* and column but the class of a distribution that has none, and the four
\* columns it chooses for a reference profile (seed_data.py).
THEOREM RevisionsOnlyAdd == CatalogueSpec => SeedsOnlyAdd
<1>1. ASSUME CatalogueInv, [CatalogueNext]_catalogueVars, pending' # pending
      PROVE  \A k \in DOMAIN catalogue :
               /\ k \in DOMAIN catalogue'
               /\ \A c \in DOMAIN catalogue[k] :
                     \/ Refers(catalogue', k, c, catalogue[k][c])
                     \/ Table_(k) = "profiles" /\ c \in Reset
  <2>1. Upgrade
    <3>1. (\E c \in Commands : RunCommand(c)) => pending' = pending
      BY DEF RunCommand
    <3>2. AskDistribution \/ AskProfile \/ AskBuild => pending' = pending
      BY DEF AskDistribution, AskProfile, AskBuild, Ask
    <3>3. (\E r \in open : \/ CommitInsert(r) \/ CommitUpdate(r)
                           \/ CommitDelete(r) \/ CommitClone(r)
                           \/ CommitImport(r) \/ DropRequest(r))
          => pending' = pending
      BY DEF CommitInsert, CommitUpdate, CommitDelete, CommitClone,
             CommitImport, DropRequest, Writes, Answered
    <3> QED
      BY <1>1, <3>1, <3>2, <3>3 DEF CatalogueNext, catalogueVars
  <2>2. Keeps(catalogue, catalogue')
    BY <1>1, <2>1, UpgradeGrows DEF Grows
  <2> QED
    BY <2>2 DEF Keeps, Refers, Has
<1> QED
  BY <1>1, CatalogueStart, CatalogueStep, PTL DEF CatalogueSpec, SeedsOnlyAdd

-----------------------------------------------------------------------------
(* A seed that finds its rows changes nothing.                             *)

IsMap(f) == f = [x \in DOMAIN f |-> f[x]]

LEMMA BothIsMap == \A f, g : IsMap(f @@ g)
BY DEF IsMap, @@

LEMMA InsertIsMap == \A db, new : IsMap(Insert_(db, new))
BY BothIsMap DEF Insert_

LEMMA InsertIs ==
    ASSUME NEW db, NEW new
    PROVE  /\ DOMAIN Insert_(db, new) = DOMAIN db \cup DOMAIN new
           /\ \A k \in DOMAIN db : Insert_(db, new)[k] = db[k]
           /\ \A k \in DOMAIN new \ DOMAIN db : Insert_(db, new)[k] = new[k]
BY DEF Insert_, @@

LEMMA NothingInserted ==
    ASSUME NEW db, IsMap(db), NEW new, DOMAIN new \subseteq DOMAIN db
    PROVE  Insert_(db, new) = db
<1>1. DOMAIN db \cup DOMAIN new = DOMAIN db
  OBVIOUS
<1>2. Insert_(db, new) = [x \in DOMAIN db |-> db[x]]
  BY <1>1 DEF Insert_, @@
<1> QED
  BY <1>2 DEF IsMap

\* Rows that are inserted are there, and a second time nothing happens.
LEMMA InsertSettles ==
    ASSUME NEW db, NEW new
    PROVE  /\ IsMap(Insert_(db, new))
           /\ DOMAIN new \subseteq DOMAIN Insert_(db, new)
           /\ DOMAIN new \subseteq DOMAIN db /\ IsMap(db) => Insert_(db, new) = db
BY InsertIsMap, InsertIs, NothingInserted

LEMMA BothDomain == \A f, g : DOMAIN (f @@ g) = DOMAIN f \cup DOMAIN g
BY DEF @@

-----------------------------------------------------------------------------
(* The base catalogue.                                                     *)

HasRows(db, table, names) == {Row(table, n) : n \in names} \subseteq DOMAIN db

LEMMA ClassesSettle ==
    ASSUME NEW db
    PROVE  /\ IsMap(SeedDistributionClasses(db))
           /\ HasRows(SeedDistributionClasses(db), "distribution_classes", Classes)
           /\ HasRows(db, "distribution_classes", Classes) /\ IsMap(db) =>
                SeedDistributionClasses(db) = db
<1> DEFINE none(n) == NoRefs_
           new == Rows("distribution_classes", Classes, none)
<1>1. SeedDistributionClasses(db) = Insert_(db, new)
  BY DEF SeedDistributionClasses
<1>2. DOMAIN new = {Row("distribution_classes", n) : n \in Classes}
  BY DEF Rows
<1> HIDE DEF new
<1> QED
  BY <1>1, <1>2, InsertSettles DEF HasRows

LEMMA ArchitecturesSettle ==
    ASSUME NEW db
    PROVE  /\ IsMap(SeedArchitectures(db))
           /\ HasRows(SeedArchitectures(db), "architectures", Architectures)
           /\ HasRows(db, "architectures", Architectures) /\ IsMap(db) =>
                SeedArchitectures(db) = db
<1> DEFINE none(n) == NoRefs_
           new == Rows("architectures", Architectures, none)
<1>1. SeedArchitectures(db) = Insert_(db, new)
  BY DEF SeedArchitectures
<1>2. DOMAIN new = {Row("architectures", n) : n \in Architectures}
  BY DEF Rows
<1> HIDE DEF new
<1> QED
  BY <1>1, <1>2, InsertSettles DEF HasRows

\* With the architectures there, every row of a file is.
LEMMA ArchIsThere ==
    ASSUME NEW db, NEW a, Row("architectures", a) \in DOMAIN db
    PROVE  ArchRef(db, a) # NoRefs_
<1>1. "arch" \in DOMAIN ArchRef(db, a)
  BY DEF ArchRef, Lookup, :>
<1>2. "arch" \notin DOMAIN NoRefs_
  BY DEF NoRefs_
<1> QED
  BY <1>1, <1>2

LEMMA FilesArchitectures ==
    /\ \A n \in DOMAIN BoardArch : BoardArch[n] \in Architectures
    /\ \A n \in DOMAIN ToolchainArch : ToolchainArch[n] \in Architectures
    /\ \A n \in DOMAIN KernelArch : KernelArch[n] \in Architectures
    /\ DOMAIN KernelArch = DOMAIN Kernels
BY DEF BoardArch, ToolchainArch, KernelArch, Kernels, Architectures, @@, :>

LEMMA BoardsSettle ==
    ASSUME NEW db
    PROVE  /\ IsMap(SeedBoards(db))
           /\ HasRows(db, "architectures", Architectures)
                => HasRows(SeedBoards(db), "boards", DOMAIN BoardArch)
           /\ HasRows(db, "boards", DOMAIN BoardArch) /\ IsMap(db) =>
                SeedBoards(db) = db
<1> DEFINE refs(n) == ArchRef(db, BoardArch[n])
           new == WithArch(db, "boards", BoardArch, refs)
           known == {n \in DOMAIN BoardArch : ArchRef(db, BoardArch[n]) # NoRefs_}
<1>1. SeedBoards(db) = Insert_(db, new)
  BY DEF SeedBoards
<1>2. DOMAIN new = {Row("boards", n) : n \in known}
  BY DEF WithArch, Rows
<1>3. HasRows(db, "architectures", Architectures) => known = DOMAIN BoardArch
  BY FilesArchitectures, ArchIsThere DEF HasRows
<1>4. known \subseteq DOMAIN BoardArch
  OBVIOUS
<1> HIDE DEF new, known
<1> QED
  BY <1>1, <1>2, <1>3, <1>4, InsertSettles DEF HasRows

LEMMA ToolchainsSettle ==
    ASSUME NEW db
    PROVE  /\ IsMap(SeedToolchains(db))
           /\ HasRows(db, "architectures", Architectures)
                => HasRows(SeedToolchains(db), "toolchains", DOMAIN ToolchainArch)
           /\ HasRows(db, "toolchains", DOMAIN ToolchainArch) /\ IsMap(db) =>
                SeedToolchains(db) = db
<1> DEFINE refs(n) == ArchRef(db, ToolchainArch[n])
           new == WithArch(db, "toolchains", ToolchainArch, refs)
           known == {n \in DOMAIN ToolchainArch :
                        ArchRef(db, ToolchainArch[n]) # NoRefs_}
<1>1. SeedToolchains(db) = Insert_(db, new)
  BY DEF SeedToolchains
<1>2. DOMAIN new = {Row("toolchains", n) : n \in known}
  BY DEF WithArch, Rows
<1>3. HasRows(db, "architectures", Architectures) => known = DOMAIN ToolchainArch
  BY FilesArchitectures, ArchIsThere DEF HasRows
<1>4. known \subseteq DOMAIN ToolchainArch
  OBVIOUS
<1> HIDE DEF new, known
<1> QED
  BY <1>1, <1>2, <1>3, <1>4, InsertSettles DEF HasRows

LEMMA KernelsSettle ==
    ASSUME NEW db
    PROVE  /\ IsMap(SeedKernels(db))
           /\ HasRows(db, "architectures", Architectures)
                => HasRows(SeedKernels(db), "kernels", DOMAIN Kernels)
           /\ HasRows(db, "kernels", DOMAIN Kernels) /\ IsMap(db) =>
                SeedKernels(db) = db
<1> DEFINE refs(n) == ArchRef(db, Kernels[n].arch)
                   @@ Lookup(db, "board", Row("boards", Kernels[n].board))
           new == WithArch(db, "kernels", KernelArch, refs)
           known == {n \in DOMAIN KernelArch : ArchRef(db, KernelArch[n]) # NoRefs_}
<1>1. SeedKernels(db) = Insert_(db, new)
  BY DEF SeedKernels
<1>2. DOMAIN new = {Row("kernels", n) : n \in known}
  BY DEF WithArch, Rows
<1>3. HasRows(db, "architectures", Architectures) => known = DOMAIN Kernels
  BY FilesArchitectures, ArchIsThere DEF HasRows
<1>4. known \subseteq DOMAIN Kernels
  BY FilesArchitectures
<1> HIDE DEF new, known
<1> QED
  BY <1>1, <1>2, <1>3, <1>4, InsertSettles DEF HasRows

HasBase(db, kernels) ==
    /\ HasRows(db, "architectures", Architectures)
    /\ HasRows(db, "boards", DOMAIN BoardArch)
    /\ HasRows(db, "toolchains", DOMAIN ToolchainArch)
    /\ kernels => HasRows(db, "kernels", DOMAIN Kernels)

LEMMA RowsStay ==
    ASSUME NEW a, NEW b, DOMAIN a \subseteq DOMAIN b, NEW table, NEW names,
           HasRows(a, table, names)
    PROVE  HasRows(b, table, names)
BY DEF HasRows

LEMMA BaseStays ==
    ASSUME NEW a, NEW b, DOMAIN a \subseteq DOMAIN b, NEW kernels,
           HasBase(a, kernels)
    PROVE  HasBase(b, kernels)
BY DEF HasBase, HasRows

LEMMA BaseSettles ==
    ASSUME NEW db, NEW kernels, NEW files, files
    PROVE  /\ IsMap(BaseCatalog(db, kernels, files))
           /\ HasBase(BaseCatalog(db, kernels, files), kernels)
           /\ HasBase(db, kernels) /\ IsMap(db) =>
                BaseCatalog(db, kernels, files) = db
<1> DEFINE one   == SeedArchitectures(db)
           two   == SeedBoards(one)
           three == SeedToolchains(two)
           four  == SeedKernels(three)
<1>1. BaseCatalog(db, kernels, files) = IF kernels THEN four ELSE three
  BY DEF BaseCatalog
<1>2. /\ DOMAIN one \subseteq DOMAIN two /\ DOMAIN two \subseteq DOMAIN three
      /\ DOMAIN three \subseteq DOMAIN four
  BY BoardsGrow, ToolchainsGrow, KernelsGrow DEF Grows, Keeps
<1>3. HasBase(db, kernels) /\ IsMap(db) =>
        /\ one = db /\ two = db /\ three = db /\ (kernels => four = db)
  BY ArchitecturesSettle, BoardsSettle, ToolchainsSettle, KernelsSettle
  DEF HasBase
<1>4. HasRows(one, "architectures", Architectures)
  BY ArchitecturesSettle
<1>5. /\ HasRows(two, "architectures", Architectures)
      /\ HasRows(two, "boards", DOMAIN BoardArch)
  BY <1>2, <1>4, BoardsSettle, RowsStay
<1>6. IsMap(three) /\ IsMap(four)
  BY ToolchainsSettle, KernelsSettle
<1>7. HasBase(three, FALSE)
  BY <1>2, <1>5, ToolchainsSettle, RowsStay DEF HasBase
<1>8. HasRows(four, "kernels", DOMAIN Kernels)
  BY <1>7, KernelsSettle DEF HasBase
<1>9. HasBase(four, TRUE)
  BY <1>2, <1>7, <1>8, BaseStays DEF HasBase
<1> HIDE DEF one, two, three, four
<1> QED
  BY <1>1, <1>3, <1>6, <1>7, <1>9 DEF HasBase

LEMMA DistributionsSettle ==
    ASSUME NEW db, NEW refs
    PROVE  /\ IsMap(GetOrCreateDistributions(db, refs))
           /\ \A n \in DOMAIN refs :
                Named(GetOrCreateDistributions(db, refs), n) # {}
           /\ (\A n \in DOMAIN refs : Named(db, n) # {}) /\ IsMap(db) =>
                GetOrCreateDistributions(db, refs) = db
<1> DEFINE id(n) == NewId(db, "distributions", n)
           none == {n \in DOMAIN refs : Named(db, n) = {}}
           new == [k \in {id(n) : n \in none} |-> refs[Name(k)]]
           b == GetOrCreateDistributions(db, refs)
<1>1. b = Insert_(db, new)
  BY DEF GetOrCreateDistributions
<1>2. \A n : Table_(id(n)) = "distributions" /\ Name(id(n)) = n
  BY NewIdParts
<1> HIDE DEF b, id
<1>3. DOMAIN new = {id(n) : n \in none}
  OBVIOUS
<1> HIDE DEF new
<1>4. DOMAIN b = DOMAIN db \cup DOMAIN new
  BY <1>1, InsertIs
<1>5. ASSUME NEW n \in DOMAIN refs
      PROVE  Named(b, n) # {}
  <2>1. CASE n \in none
    <3>1. id(n) \in Named(b, n)
      BY <1>2, <1>3, <1>4, <2>1 DEF Named, Distributions, Of
    <3> QED
      BY <3>1
  <2>2. CASE n \notin none
    BY <1>4, <2>2 DEF Named, Distributions, Of
  <2> QED
    BY <2>1, <2>2
<1>6. (\A n \in DOMAIN refs : Named(db, n) # {}) => DOMAIN new = {}
  BY <1>3
<1> QED
  BY <1>1, <1>5, <1>6, InsertSettles DEF b

LEMMA ShippedDistributionsSettle ==
    ASSUME NEW db
    PROVE  /\ IsMap(SeedDistributions(db))
           /\ \A n \in DOMAIN ClassOf : Named(SeedDistributions(db), n) # {}
           /\ (\A n \in DOMAIN ClassOf : Named(db, n) # {}) /\ IsMap(db) =>
                SeedDistributions(db) = db
<1> DEFINE refs == [n \in DOMAIN ClassOf |-> ClassRef(db, ClassOf[n])]
<1>1. DOMAIN refs = DOMAIN ClassOf
  OBVIOUS
<1>2. SeedDistributions(db) = GetOrCreateDistributions(db, refs)
  BY DEF SeedDistributions
<1> HIDE DEF refs
<1> QED
  BY <1>1, <1>2, DistributionsSettle

-----------------------------------------------------------------------------
(* What the seeding of one distribution leaves alone of the others.        *)

\* Tables a reference distribution looks its references up in.
LookedUp == {"distribution_classes", "architectures", "boards", "toolchains",
             "kernels"}

SameRows(a, b) == \A k : Table_(k) \in LookedUp => (k \in DOMAIN a <=> k \in DOMAIN b)

OfNamed(db, k, name) ==
    Has(db, k, "distribution") /\ Name(db[k]["distribution"]) = name

\* Only rows of the distributions of that name and of their profiles are new or
\* changed, and rows of tables nothing is looked up in.
Touches(a, b, name) ==
    /\ DOMAIN a \subseteq DOMAIN b
    /\ \A k \in DOMAIN b \ DOMAIN a :
          /\ Table_(k) \notin LookedUp
          /\ Table_(k) = "distributions" => Name(k) = name
          /\ Table_(k) = "profiles" => OfNamed(b, k, name)
    /\ \A k \in DOMAIN a : b[k] # a[k] =>
          \/ Table_(k) = "distributions" /\ Name(k) = name
          \/ Table_(k) = "profiles" /\ OfNamed(a, k, name) /\ OfNamed(b, k, name)

LEMMA TouchesReflexive == \A a, name : Touches(a, a, name)
BY DEF Touches

LEMMA TouchesTransitive ==
    ASSUME NEW a, NEW b, NEW c, NEW name, Touches(a, b, name), Touches(b, c, name)
    PROVE  Touches(a, c, name)
<1>1. DOMAIN a \subseteq DOMAIN c
  BY DEF Touches
<1>2. ASSUME NEW k \in DOMAIN c \ DOMAIN a
      PROVE  /\ Table_(k) \notin LookedUp
             /\ Table_(k) = "distributions" => Name(k) = name
             /\ Table_(k) = "profiles" => OfNamed(c, k, name)
  <2>1. CASE k \notin DOMAIN b
    BY <2>1 DEF Touches
  <2>2. CASE k \in DOMAIN b
    <3>1. Table_(k) = "profiles" => OfNamed(b, k, name) /\ "profiles" # "distributions"
      BY <2>2 DEF Touches
    <3>2. c[k] = b[k] => (OfNamed(b, k, name) <=> OfNamed(c, k, name))
      BY <1>1, <2>2 DEF OfNamed, Has
    <3> QED
      BY <2>2, <3>1, <3>2 DEF Touches
  <2> QED
    BY <2>1, <2>2
<1>3. ASSUME NEW k \in DOMAIN a, c[k] # a[k]
      PROVE  \/ Table_(k) = "distributions" /\ Name(k) = name
             \/ Table_(k) = "profiles" /\ OfNamed(a, k, name) /\ OfNamed(c, k, name)
  <2>1. k \in DOMAIN b /\ k \in DOMAIN c
    BY DEF Touches
  <2>2. /\ b[k] = a[k] => (OfNamed(a, k, name) <=> OfNamed(b, k, name))
        /\ c[k] = b[k] => (OfNamed(b, k, name) <=> OfNamed(c, k, name))
    BY <2>1 DEF OfNamed, Has
  <2>3. \/ b[k] = a[k]
        \/ Table_(k) = "distributions" /\ Name(k) = name
        \/ Table_(k) = "profiles" /\ OfNamed(a, k, name) /\ OfNamed(b, k, name)
    BY DEF Touches
  <2>4. \/ c[k] = b[k]
        \/ Table_(k) = "distributions" /\ Name(k) = name
        \/ Table_(k) = "profiles" /\ OfNamed(b, k, name) /\ OfNamed(c, k, name)
    BY <2>1 DEF Touches
  <2> QED
    BY <1>3, <2>2, <2>3, <2>4
<1> QED
  BY <1>1, <1>2, <1>3 DEF Touches

\* Rows of tables nothing is looked up in.
LEMMA InsertTouches ==
    ASSUME NEW db, NEW new, NEW name,
           \A k \in DOMAIN new :
              Table_(k) \notin LookedUp \cup {"distributions", "profiles"}
    PROVE  Touches(db, Insert_(db, new), name)
<1> DEFINE b == Insert_(db, new)
<1>1. /\ DOMAIN b = DOMAIN db \cup DOMAIN new
      /\ \A k \in DOMAIN db : b[k] = db[k]
  BY InsertIs
<1> HIDE DEF b
<1>2. Touches(db, b, name)
  BY <1>1 DEF Touches
<1> QED
  BY <1>2 DEF b

LEMMA MadeTouches ==
    ASSUME NEW db, NEW name, NEW refs, DOMAIN refs = {name}
    PROVE  Touches(db, GetOrCreateDistributions(db, refs), name)
<1> DEFINE id(n) == NewId(db, "distributions", n)
           none == {n \in DOMAIN refs : Named(db, n) = {}}
           new == [k \in {id(n) : n \in none} |-> refs[Name(k)]]
           b == GetOrCreateDistributions(db, refs)
<1>1. b = Insert_(db, new)
  BY DEF GetOrCreateDistributions
<1>2. \A n : Table_(id(n)) = "distributions" /\ Name(id(n)) = n
  BY NewIdParts
<1> HIDE DEF b, id
<1>3. DOMAIN new = {id(n) : n \in none}
  OBVIOUS
<1> HIDE DEF new
<1>4. /\ DOMAIN b = DOMAIN db \cup DOMAIN new
      /\ \A k \in DOMAIN db : b[k] = db[k]
  BY <1>1, InsertIs
<1>5. \A k \in DOMAIN new : Table_(k) = "distributions" /\ Name(k) = name
  BY <1>2, <1>3
<1>6. Touches(db, b, name)
  BY <1>4, <1>5 DEF Touches, LookedUp
<1> QED
  BY <1>6 DEF b

LEMMA ProfileIdIs ==
    ASSUME NEW db, IsNumbered(db), NEW d, NEW n
    PROVE  /\ Table_(ProfileId(db, d, n)) = "profiles"
           /\ Name(ProfileId(db, d, n)) = n
           /\ ProfilesNamed(db, d, n) = {} => ProfileId(db, d, n) \notin DOMAIN db
           /\ ProfilesNamed(db, d, n) # {} =>
                /\ ProfileId(db, d, n) \in ProfilesNamed(db, d, n)
                /\ ProfileId(db, d, n) \in DOMAIN db
<1>1. CASE ProfilesNamed(db, d, n) = {}
  <2>1. PICK m \in Nat : NumberedUpTo(db, m)
    BY DEF IsNumbered
  <2>2. NewId(db, "profiles", n) \notin DOMAIN db
    BY <2>1, NewIdIsNew DEF Mentioned, Numbered
  <2> QED
    BY <1>1, <2>2, NewIdParts DEF ProfileId
<1>2. CASE ProfilesNamed(db, d, n) # {}
  <2>1. ProfileId(db, d, n) \in ProfilesNamed(db, d, n)
    BY <1>2 DEF ProfileId
  <2> QED
    BY <1>2, <2>1 DEF ProfilesNamed, ProfilesOf, Of
<1> QED
  BY <1>1, <1>2

Owned(db, d, k) == IF k \in DOMAIN db THEN db[k] ELSE "distribution" :> d

\* The rows of profiles that are looked up and made.
ProfilesMade(db, b, d, refs) ==
    LET ids == {ProfileId(db, d, n) : n \in DOMAIN refs}
    IN /\ IsMap(b)
       /\ DOMAIN b = DOMAIN db \cup ids
       /\ \A k \in DOMAIN db \ ids : b[k] = db[k]
       /\ \A n \in DOMAIN refs :
             b[ProfileId(db, d, n)] = refs[n] @@ Owned(db, d, ProfileId(db, d, n))

LEMMA ProfilesAre ==
    ASSUME NEW db, IsNumbered(db), NEW d, NEW refs
    PROVE  ProfilesMade(db, GetOrCreateProfiles(db, d, refs), d, refs)
<1> DEFINE b == GetOrCreateProfiles(db, d, refs)
           id(n) == ProfileId(db, d, n)
           ids == {id(n) : n \in DOMAIN refs}
           own(k) == IF k \in DOMAIN db THEN db[k] ELSE "distribution" :> d
           made == [k \in ids |-> refs[Name(k)] @@ own(k)]
<1>1. b = made @@ db
  BY DEF GetOrCreateProfiles
<1>2. \A n : Name(id(n)) = n
  BY ProfileIdIs
<1> HIDE DEF b, id, own
<1>3. DOMAIN made = ids
  OBVIOUS
<1>4. \A n \in DOMAIN refs : made[id(n)] = refs[n] @@ own(id(n))
  BY <1>2
<1> HIDE DEF made
<1>5. IsMap(b)
  BY <1>1, BothIsMap
<1>6. /\ DOMAIN b = DOMAIN db \cup ids
      /\ \A k \in DOMAIN db \ ids : b[k] = db[k]
      /\ \A n \in DOMAIN refs : b[id(n)] = refs[n] @@ own(id(n))
  BY <1>1, <1>3, <1>4 DEF @@
<1> QED
  BY <1>5, <1>6 DEF b, id, own, ProfilesMade, Owned

\* The profile of a name in a distribution has these references.
HasProfile(db, d, n, refs) ==
    LET p == ProfileId(db, d, n)
    IN /\ ProfilesNamed(db, d, n) # {}
       /\ IsMap(db[p])
       /\ \A c \in DOMAIN refs : c \in DOMAIN db[p] /\ db[p][c] = refs[c]

LEMMA ProfilesSettle ==
    ASSUME NEW db, IsNumbered(db), NEW d, NEW refs,
           \A n \in DOMAIN refs : "distribution" \notin DOMAIN refs[n]
    PROVE  \A n \in DOMAIN refs :
              HasProfile(GetOrCreateProfiles(db, d, refs), d, n, refs[n])
<1> DEFINE b == GetOrCreateProfiles(db, d, refs)
           id(n) == ProfileId(db, d, n)
           ids == {id(n) : n \in DOMAIN refs}
           own(k) == Owned(db, d, k)
<1>0. ProfilesMade(db, b, d, refs)
  BY ProfilesAre
<1>1. /\ DOMAIN b = DOMAIN db \cup ids
      /\ \A k \in DOMAIN db \ ids : b[k] = db[k]
      /\ \A n \in DOMAIN refs : b[id(n)] = refs[n] @@ own(id(n))
  <2> HIDE DEF b
  <2> QED
    BY <1>0 DEF ProfilesMade
<1>2. \A n : /\ Table_(id(n)) = "profiles" /\ Name(id(n)) = n
             /\ ProfilesNamed(db, d, n) = {} => id(n) \notin DOMAIN db
             /\ ProfilesNamed(db, d, n) # {} =>
                  id(n) \in ProfilesNamed(db, d, n) /\ id(n) \in DOMAIN db
  BY ProfileIdIs
<1>3. \A n : ProfilesNamed(db, d, n) # {} =>
         id(n) = CHOOSE p \in ProfilesNamed(db, d, n) : TRUE
  BY DEF ProfileId
<1>4. \A n : ProfilesNamed(b, d, n) # {} =>
         ProfileId(b, d, n) = CHOOSE p \in ProfilesNamed(b, d, n) : TRUE
  BY DEF ProfileId
<1> HIDE DEF b, id
<1>5. ASSUME NEW n \in DOMAIN refs
      PROVE  /\ IsMap(b[id(n)])
             /\ \A c \in DOMAIN refs[n] :
                  c \in DOMAIN b[id(n)] /\ b[id(n)][c] = refs[n][c]
             /\ DOMAIN b[id(n)] = DOMAIN refs[n] \cup DOMAIN own(id(n))
             /\ \A c \in DOMAIN own(id(n)) \ DOMAIN refs[n] :
                  b[id(n)][c] = own(id(n))[c]
  <2>1. b[id(n)] = refs[n] @@ own(id(n))
    BY <1>1
  <2>2. IsMap(b[id(n)])
    BY <2>1, BothIsMap
  <2> HIDE DEF own
  <2> QED
    BY <2>1, <2>2 DEF @@
<1>6. ASSUME NEW k \in DOMAIN db
      PROVE  Refers(b, k, "distribution", d) <=> Refers(db, k, "distribution", d)
  <2>1. CASE k \notin ids
    BY <1>1, <2>1 DEF Refers, Has
  <2>2. CASE k \in ids
    <3>1. PICK n \in DOMAIN refs : k = id(n)
      BY <2>2
    <3>2. own(k) = db[k]
      BY DEF Owned
    <3> HIDE DEF own
    <3> QED
      BY <1>1, <1>5, <3>1, <3>2 DEF Refers, Has
  <2> QED
    BY <2>1, <2>2
<1>7. ASSUME NEW n \in DOMAIN refs
      PROVE  id(n) \in ProfilesNamed(b, d, n)
  <2>1. CASE ProfilesNamed(db, d, n) = {}
    <3>1. own(id(n)) = "distribution" :> d
      BY <1>2, <2>1 DEF Owned
    <3> HIDE DEF own
    <3>2. Refers(b, id(n), "distribution", d)
      BY <1>1, <1>5, <3>1 DEF Refers, Has, :>
    <3> QED
      BY <1>1, <1>2, <3>2 DEF ProfilesNamed, ProfilesOf, Of
  <2>2. CASE ProfilesNamed(db, d, n) # {}
    <3>1. id(n) \in DOMAIN db /\ Refers(db, id(n), "distribution", d)
      BY <1>2, <2>2 DEF ProfilesNamed, ProfilesOf
    <3> QED
      BY <1>1, <1>2, <1>6, <3>1 DEF ProfilesNamed, ProfilesOf, Of
  <2> QED
    BY <2>1, <2>2
<1>8. ASSUME NEW n \in DOMAIN refs, NEW k \in ProfilesNamed(b, d, n)
      PROVE  \/ k \in ProfilesNamed(db, d, n)
             \/ k = id(n) /\ k \notin DOMAIN db
  <2>1. k \in DOMAIN b /\ Table_(k) = "profiles" /\ Name(k) = n
        /\ Refers(b, k, "distribution", d)
    BY DEF ProfilesNamed, ProfilesOf, Of
  <2>2. CASE k \in DOMAIN db
    BY <1>6, <2>1, <2>2 DEF ProfilesNamed, ProfilesOf, Of
  <2>3. CASE k \notin DOMAIN db
    BY <1>1, <1>2, <2>1, <2>3
  <2> QED
    BY <2>2, <2>3
<1>9. ASSUME NEW n \in DOMAIN refs
      PROVE  ProfileId(b, d, n) = id(n)
  <2>1. CASE ProfilesNamed(db, d, n) = {}
    <3>1. ProfilesNamed(b, d, n) = {id(n)}
      BY <1>7, <1>8, <2>1
    <3> QED
      BY <1>4, <3>1
  <2>2. CASE ProfilesNamed(db, d, n) # {}
    <3>1. ProfilesNamed(b, d, n) \subseteq ProfilesNamed(db, d, n)
      BY <1>2, <1>8, <2>2
    <3>2. ASSUME NEW k \in ProfilesNamed(db, d, n)
          PROVE  k \in ProfilesNamed(b, d, n)
      BY <1>1, <1>6 DEF ProfilesNamed, ProfilesOf, Of
    <3>3. ProfilesNamed(b, d, n) = ProfilesNamed(db, d, n)
      BY <3>1, <3>2
    <3> QED
      BY <1>3, <1>4, <2>2, <3>3
  <2> QED
    BY <2>1, <2>2
<1>10. \A n \in DOMAIN refs : HasProfile(b, d, n, refs[n])
  BY <1>5, <1>7, <1>9 DEF HasProfile
<1> QED
  BY <1>10 DEF b

LEMMA ProfilesSettled ==
    ASSUME NEW db, IsMap(db), NEW d, NEW refs,
           \A n \in DOMAIN refs : HasProfile(db, d, n, refs[n])
    PROVE  GetOrCreateProfiles(db, d, refs) = db
<1> DEFINE id(n) == ProfileId(db, d, n)
           ids == {id(n) : n \in DOMAIN refs}
           own(k) == IF k \in DOMAIN db THEN db[k] ELSE "distribution" :> d
           made == [k \in ids |-> refs[Name(k)] @@ own(k)]
<1>1. GetOrCreateProfiles(db, d, refs) = made @@ db
  BY DEF GetOrCreateProfiles
<1>2. ASSUME NEW n \in DOMAIN refs
      PROVE  /\ id(n) \in DOMAIN db /\ Name(id(n)) = n
             /\ refs[n] @@ db[id(n)] = db[id(n)]
  <2>1. id(n) \in ProfilesNamed(db, d, n)
    BY DEF HasProfile, ProfileId
  <2>2. id(n) \in DOMAIN db /\ Name(id(n)) = n
    BY <2>1 DEF ProfilesNamed, ProfilesOf, Of
  <2> DEFINE r == refs[n]
             p == db[id(n)]
  <2>3. IsMap(p) /\ \A c \in DOMAIN r : c \in DOMAIN p /\ p[c] = r[c]
    BY DEF HasProfile
  <2> HIDE DEF r, p, id
  <2>4. r @@ p = p
    <3>1. DOMAIN r \cup DOMAIN p = DOMAIN p
      BY <2>3
    <3>2. r @@ p = [c \in DOMAIN p |-> IF c \in DOMAIN r THEN r[c] ELSE p[c]]
      BY <3>1 DEF @@
    <3>3. r @@ p = [c \in DOMAIN p |-> p[c]]
      BY <2>3, <3>2
    <3> QED
      BY <2>3, <3>3 DEF IsMap
  <2> QED
    BY <2>2, <2>4 DEF r, p, id
<1> HIDE DEF id
<1>3. DOMAIN made = ids /\ ids \subseteq DOMAIN db
  BY <1>2
<1>4. \A k \in ids : made[k] = db[k]
  BY <1>2
<1> HIDE DEF made
<1>5. DOMAIN made \cup DOMAIN db = DOMAIN db
  BY <1>3
<1>6. made @@ db = [k \in DOMAIN db |-> IF k \in DOMAIN made THEN made[k] ELSE db[k]]
  BY <1>5 DEF @@
<1>7. made @@ db = [k \in DOMAIN db |-> db[k]]
  BY <1>3, <1>4, <1>6
<1> QED
  BY <1>1, <1>7 DEF IsMap

\* A reference distribution is there as its document wants it.
HasClass(db, d, class) ==
    Has(db, d, "class") \/ (ClassRef(db, class) = NoRefs_ /\ IsMap(db[d]))

HasReference(db, doc) ==
    LET d == TheDistribution(db, doc.name)
    IN /\ Named(db, doc.name) # {}
       /\ HasClass(db, d, ClassOf[doc.name])
       /\ DOMAIN PackageRows(d, FirstArch(db, doc.archs), doc.packages)
            \subseteq DOMAIN db
       /\ \A n \in DOMAIN doc.profiles :
             HasProfile(db, d, n, ProfileRefs(db, d, doc.profiles[n]))

LEMMA LookupsSame ==
    ASSUME NEW one, NEW two, SameRows(one, two)
    PROVE  /\ \A class : ClassRef(one, class) = ClassRef(two, class)
           /\ \A archs : FirstArch(one, archs) = FirstArch(two, archs)
           /\ \A d, p : ProfileRefs(one, d, p) = ProfileRefs(two, d, p)
<1>1. ASSUME NEW table \in LookedUp, NEW n
      PROVE  Row(table, n) \in DOMAIN one <=> Row(table, n) \in DOMAIN two
  BY RowParts DEF SameRows
<1>2. ASSUME NEW table \in LookedUp, NEW c, NEW n
      PROVE  Lookup(one, c, Row(table, n)) = Lookup(two, c, Row(table, n))
  BY <1>1 DEF Lookup
<1>3. ASSUME NEW table \in LookedUp, NEW names
      PROVE  FirstOf(one, table, names) = FirstOf(two, table, names)
  <2>1. {i \in DOMAIN names : Row(table, names[i]) \in DOMAIN one}
          = {i \in DOMAIN names : Row(table, names[i]) \in DOMAIN two}
    BY <1>1
  <2> QED
    BY <2>1 DEF FirstOf
<1>4. \A class : ClassRef(one, class) = ClassRef(two, class)
  BY <1>2 DEF ClassRef, LookedUp
<1>5. ASSUME NEW archs
      PROVE  FirstArch(one, archs) = FirstArch(two, archs)
  <2> DEFINE first(found) == IF found = {} THEN Row("architectures", "")
                             ELSE CHOOSE k \in found : TRUE
  <2>1. FirstOf(one, "architectures", archs) = FirstOf(two, "architectures", archs)
    BY <1>3 DEF LookedUp
  <2>2. /\ FirstArch(one, archs) = first(FirstOf(one, "architectures", archs))
        /\ FirstArch(two, archs) = first(FirstOf(two, "architectures", archs))
    BY DEF FirstArch
  <2> HIDE DEF first
  <2> QED
    BY <2>1, <2>2
<1>6. ASSUME NEW d, NEW p
      PROVE  ProfileRefs(one, d, p) = ProfileRefs(two, d, p)
  <2> DEFINE kernel == CHOOSE k \in p.kernels : TRUE
             refs(boards, k, t) ==
               [c \in {"board" : b \in boards} |-> CHOOSE b \in boards : TRUE]
               @@ (IF p.kernels = {} THEN NoRefs_ ELSE k)
               @@ t
               @@ ("package_set" :> Key("package_sets", p.set, d))
             all(db) == refs(FirstOf(db, "boards", p.boards),
                             Lookup(db, "kernel", Row("kernels", kernel)),
                             Lookup(db, "toolchain", Row("toolchains", p.toolchain)))
  <2>1. FirstOf(one, "boards", p.boards) = FirstOf(two, "boards", p.boards)
    BY <1>3 DEF LookedUp
  <2>2. Lookup(one, "kernel", Row("kernels", kernel))
          = Lookup(two, "kernel", Row("kernels", kernel))
    BY <1>2 DEF LookedUp
  <2>3. Lookup(one, "toolchain", Row("toolchains", p.toolchain))
          = Lookup(two, "toolchain", Row("toolchains", p.toolchain))
    BY <1>2 DEF LookedUp
  <2>4. ProfileRefs(one, d, p) = all(one) /\ ProfileRefs(two, d, p) = all(two)
    BY DEF ProfileRefs
  <2> HIDE DEF refs, kernel
  <2> QED
    BY <2>1, <2>2, <2>3, <2>4
<1> QED
  BY <1>4, <1>5, <1>6

LEMMA TouchesSameRows ==
    ASSUME NEW a, NEW b, NEW name, Touches(a, b, name)
    PROVE  SameRows(a, b)
BY DEF Touches, SameRows

\* The class of the distribution.
LEMMA ClassedSettles ==
    ASSUME NEW db, NEW name, NEW d \in Named(db, name), NEW class
    PROVE  LET b == Classed(db, d, class)
           IN /\ Touches(db, b, name)
              /\ DOMAIN b = DOMAIN db
              /\ HasClass(b, d, class)
<1> DEFINE b == Classed(db, d, class)
           refs == ClassRef(db, class)
           set == Set(db, d, refs)
<1>1. d \in DOMAIN db /\ Table_(d) = "distributions" /\ Name(d) = name
  BY DEF Named, Distributions, Of
<1>2. CASE Has(db, d, "class")
  BY <1>2, TouchesReflexive DEF Classed, HasClass
<1>3. CASE ~Has(db, d, "class")
  <2>1. b = set
    BY <1>3 DEF Classed
  <2>2. /\ DOMAIN set = DOMAIN db
        /\ \A k \in DOMAIN db \ {d} : set[k] = db[k]
        /\ set[d] = refs @@ db[d]
    BY <1>1 DEF Set
  <2>3. refs = NoRefs_ \/ "class" \in DOMAIN refs
    BY DEF ClassRef, Lookup, :>
  <2> HIDE DEF set, b
  <2>4. Touches(db, set, name)
    BY <1>1, <2>2 DEF Touches
  <2>5. ClassRef(set, class) = refs
    BY <2>4, TouchesSameRows, LookupsSame
  <2>6. IsMap(set[d]) /\ DOMAIN set[d] = DOMAIN refs \cup DOMAIN db[d]
    BY <2>2, BothIsMap, BothDomain
  <2> HIDE DEF refs
  <2>7. HasClass(set, d, class)
    BY <1>1, <2>2, <2>3, <2>5, <2>6 DEF HasClass, Has
  <2> QED
    BY <2>1, <2>2, <2>4, <2>7 DEF b
<1> QED
  BY <1>2, <1>3

LEMMA ClassedSettled ==
    ASSUME NEW db, IsMap(db), NEW d \in DOMAIN db, NEW class, HasClass(db, d, class)
    PROVE  Classed(db, d, class) = db
<1>1. CASE Has(db, d, "class")
  BY <1>1 DEF Classed
<1>2. CASE ~Has(db, d, "class")
  <2>1. ClassRef(db, class) = NoRefs_ /\ IsMap(db[d])
    BY <1>2 DEF HasClass
  <2>2. NoRefs_ @@ db[d] = db[d]
    <3>1. DOMAIN NoRefs_ = {}
      BY DEF NoRefs_
    <3>2. NoRefs_ @@ db[d] = [c \in DOMAIN db[d] |-> db[d][c]]
      BY <3>1 DEF @@
    <3> QED
      BY <2>1, <3>2 DEF IsMap
  <2>3. Classed(db, d, class) = [db EXCEPT ![d] = db[d]]
    BY <1>2, <2>1, <2>2 DEF Classed, Set
  <2> QED
    BY <2>3 DEF IsMap
<1> QED
  BY <1>1, <1>2

\* The packages, their groups and sets.
PackageTables ==
    {"packages", "package_versions", "package_groups", "package_sets",
     "package_group_members", "package_set_members"}

LEMMA PackageRowsTables ==
    ASSUME NEW d, NEW arch, NEW packages, NEW k \in DOMAIN PackageRows(d, arch, packages)
    PROVE  Table_(k) \in PackageTables
<1> DEFINE new1 == [j \in {Row("packages", p) : p \in packages.packages} |-> NoRefs_]
           new2 == [j \in {Key("package_versions", p, arch) :
                              p \in packages.packages} |->
                      "package" :> Row("packages", j[2]) @@ "arch" :> arch]
           new3 == [j \in {Group(g, d) : g \in DOMAIN packages.groups}
                          \cup {Set_(s, d) : s \in DOMAIN packages.sets} |->
                      "distribution" :> d]
           members == UNION {{Key("package_group_members", p, Group(g, d)) :
                                 p \in packages.groups[g]} :
                             g \in DOMAIN packages.groups}
           new4 == [j \in members |->
                      "group" :> j[3] @@ "package" :> Row("packages", j[2])]
           chosen == UNION {{Key("package_set_members", Group(g, d), Set_(s, d)) :
                                 g \in packages.sets[s]} :
                             s \in DOMAIN packages.sets}
           new5 == [j \in chosen |-> "set" :> j[3] @@ "group" :> j[2]]
<1>1. PackageRows(d, arch, packages) = new1 @@ new2 @@ new3 @@ new4 @@ new5
  BY DEF PackageRows
<1>2. \A j \in DOMAIN new1 : Table_(j) = "packages"
  BY RowParts
<1>3. \A j \in DOMAIN new2 : Table_(j) = "package_versions"
  BY KeyParts
<1>4. \A j \in DOMAIN new3 : Table_(j) \in {"package_groups", "package_sets"}
  BY KeyParts DEF Group, Set_
<1>5. \A j \in DOMAIN new4 : Table_(j) = "package_group_members"
  BY KeyParts
<1>6. \A j \in DOMAIN new5 : Table_(j) = "package_set_members"
  BY KeyParts
<1> HIDE DEF new1, new2, new3, new4, new5
<1>7. DOMAIN (new1 @@ new2 @@ new3 @@ new4 @@ new5)
        = DOMAIN new1 \cup DOMAIN new2 \cup DOMAIN new3 \cup DOMAIN new4
          \cup DOMAIN new5
  BY DEF @@
<1> QED
  BY <1>1, <1>2, <1>3, <1>4, <1>5, <1>6, <1>7 DEF PackageTables

LEMMA PackagesSettle ==
    ASSUME NEW db, NEW d, NEW doc, NEW name
    PROVE  LET b   == WithPackages(db, d, doc)
               new == PackageRows(d, FirstArch(db, doc.archs), doc.packages)
           IN /\ Touches(db, b, name)
              /\ Distributions(b) = Distributions(db)
              /\ \A k \in DOMAIN db : b[k] = db[k]
              /\ DOMAIN new \subseteq DOMAIN b
              /\ DOMAIN new \subseteq DOMAIN db /\ IsMap(db) => b = db
<1> DEFINE b   == WithPackages(db, d, doc)
           new == PackageRows(d, FirstArch(db, doc.archs), doc.packages)
<1>1. b = Insert_(db, new)
  BY DEF WithPackages
<1>2. \A k \in DOMAIN new : Table_(k) \in PackageTables
  BY PackageRowsTables
<1> HIDE DEF b, new
<1>3. Touches(db, b, name)
  BY <1>1, <1>2, InsertTouches DEF PackageTables, LookedUp
<1>4. /\ DOMAIN b = DOMAIN db \cup DOMAIN new
      /\ \A k \in DOMAIN db : b[k] = db[k]
  BY <1>1, InsertIs
<1>5. Distributions(b) = Distributions(db)
  BY <1>2, <1>4 DEF Distributions, Of, PackageTables
<1>6. DOMAIN new \subseteq DOMAIN db /\ IsMap(db) => b = db
  BY <1>1, NothingInserted
<1> QED
  BY <1>3, <1>4, <1>5, <1>6 DEF b, new

LEMMA ProfileRefsKeepOwner ==
    ASSUME NEW db, NEW d, NEW p
    PROVE  "distribution" \notin DOMAIN ProfileRefs(db, d, p)
<1>1. DOMAIN ProfileRefs(db, d, p) \subseteq Reset
  BY PlainProfile
<1> QED
  BY <1>1 DEF Reset

LEMMA ProfilesTouch ==
    ASSUME NEW db, IsNumbered(db), NEW name, NEW d \in Named(db, name), NEW refs,
           \A n \in DOMAIN refs : "distribution" \notin DOMAIN refs[n]
    PROVE  LET b == GetOrCreateProfiles(db, d, refs)
           IN /\ Touches(db, b, name)
              /\ Distributions(b) = Distributions(db)
              /\ b[d] = db[d]
<1> DEFINE b == GetOrCreateProfiles(db, d, refs)
           id(n) == ProfileId(db, d, n)
           ids == {id(n) : n \in DOMAIN refs}
<1>1. ProfilesMade(db, b, d, refs)
  BY ProfilesAre
<1>2. \A n : /\ Table_(id(n)) = "profiles"
             /\ ProfilesNamed(db, d, n) = {} => id(n) \notin DOMAIN db
             /\ ProfilesNamed(db, d, n) # {} => id(n) \in ProfilesNamed(db, d, n)
  BY ProfileIdIs
<1>3. d \in DOMAIN db /\ Table_(d) = "distributions" /\ Name(d) = name
  BY DEF Named, Distributions, Of
<1> HIDE DEF b
<1>4. /\ DOMAIN b = DOMAIN db \cup ids
      /\ \A k \in DOMAIN db \ ids : b[k] = db[k]
      /\ \A n \in DOMAIN refs : b[id(n)] = refs[n] @@ Owned(db, d, id(n))
  BY <1>1 DEF ProfilesMade
<1> HIDE DEF id
<1>5. ASSUME NEW k \in ids
      PROVE  /\ Table_(k) = "profiles" /\ k \in DOMAIN b
             /\ Refers(b, k, "distribution", d)
             /\ k \in DOMAIN db => Refers(db, k, "distribution", d)
  <2>1. PICK n \in DOMAIN refs : k = id(n)
    OBVIOUS
  <2> DEFINE own == Owned(db, d, k)
  <2>2. "distribution" \in DOMAIN own /\ own["distribution"] = d
    <3>1. CASE ProfilesNamed(db, d, n) = {}
      BY <1>2, <2>1, <3>1 DEF Owned, :>
    <3>2. CASE ProfilesNamed(db, d, n) # {}
      BY <1>2, <2>1, <3>2 DEF Owned, ProfilesNamed, ProfilesOf, Of, Refers, Has
    <3> QED
      BY <3>1, <3>2
  <2>3. b[k] = refs[n] @@ own /\ "distribution" \notin DOMAIN refs[n]
    BY <1>4, <2>1
  <2>4. k \in DOMAIN db => Refers(db, k, "distribution", d)
    BY <2>2 DEF Owned, Refers, Has
  <2>5. Table_(k) = "profiles" /\ k \in DOMAIN b
    BY <1>2, <1>4, <2>1
  <2> HIDE DEF own
  <2> QED
    BY <2>2, <2>3, <2>4, <2>5 DEF @@, Refers, Has
<1> HIDE DEF ids
<1>6. Touches(db, b, name)
  BY <1>3, <1>4, <1>5 DEF Touches, OfNamed, Refers, LookedUp
<1>7. Distributions(b) = Distributions(db) /\ b[d] = db[d]
  BY <1>3, <1>4, <1>5 DEF Distributions, Of
<1> QED
  BY <1>6, <1>7 DEF b

\* A distribution is seeded from its document: whatever of it was there, nothing
\* of another is touched, and it is as the document wants it.
LEMMA ReferenceSettles ==
    ASSUME NEW db, IsNumbered(db), NEW doc
    PROVE  /\ Touches(db, SeedReference(db, doc), doc.name)
           /\ HasReference(SeedReference(db, doc), doc)
           /\ IsMap(SeedReference(db, doc))
<1> DEFINE name  == doc.name
           class == ClassOf[name]
           row   == name :> ClassRef(db, class)
           made  == GetOrCreateDistributions(db, row)
           d     == TheDistribution(made, name)
           one   == Classed(made, d, class)
           two   == WithPackages(one, d, doc)
           refs  == [n \in DOMAIN doc.profiles |-> ProfileRefs(two, d, doc.profiles[n])]
           three == GetOrCreateProfiles(two, d, refs)
           new   == PackageRows(d, FirstArch(one, doc.archs), doc.packages)
<1>1. SeedReference(db, doc) = three
  BY DEF SeedReference, WithContents, WithProfiles
<1>2. DOMAIN row = {name} /\ \A n \in DOMAIN row : Plain(db, row[n])
  BY PlainClass DEF :>
<1> HIDE DEF row
<1>3. /\ Touches(db, made, name) /\ Grows(db, made)
      /\ Named(made, name) # {}
  BY <1>2, MadeTouches, DistributionsGrow
<1> HIDE DEF made
<1>4. /\ d \in Named(made, name) /\ d \in Distributions(made) /\ d \in DOMAIN made
      /\ IsNumbered(made)
  BY <1>3 DEF TheDistribution, Named, Distributions, Of, Grows
<1> HIDE DEF d
<1>5. /\ Touches(made, one, name) /\ DOMAIN one = DOMAIN made
      /\ HasClass(one, d, class)
  BY <1>4, ClassedSettles
<1>6. IsNumbered(one)
  BY <1>4, ClassSetGrows DEF Classed, Grows
<1> HIDE DEF one
<1>7. /\ Touches(one, two, name) /\ Distributions(two) = Distributions(one)
      /\ \A k \in DOMAIN one : two[k] = one[k]
      /\ DOMAIN new \subseteq DOMAIN two
  BY PackagesSettle
<1>8. Distributions(one) = Distributions(made)
  BY <1>5 DEF Distributions, Of
<1>9. IsNumbered(two)
  <2>1. d \in DOMAIN one /\ Table_(FirstArch(one, doc.archs)) = "architectures"
    BY <1>4, <1>5, FirstArchTable
  <2>2. Grows(one, two)
    BY <2>1, PackageRowsAreOthers, InsertGrows DEF WithPackages
  <2> QED
    BY <1>6, <2>2 DEF Grows
<1> HIDE DEF two, new
<1>10. d \in Named(two, name)
  BY <1>4, <1>7, <1>8 DEF Named
<1>11. \A n \in DOMAIN refs : "distribution" \notin DOMAIN refs[n]
  BY ProfileRefsKeepOwner
<1>12. DOMAIN refs = DOMAIN doc.profiles
       /\ \A n \in DOMAIN doc.profiles : refs[n] = ProfileRefs(two, d, doc.profiles[n])
  OBVIOUS
<1> HIDE DEF refs
<1>13. /\ Touches(two, three, name) /\ Distributions(three) = Distributions(two)
       /\ three[d] = two[d]
  BY <1>9, <1>10, <1>11, ProfilesTouch
<1>14. \A n \in DOMAIN refs : HasProfile(three, d, n, refs[n])
  BY <1>9, <1>11, ProfilesSettle
<1>15. IsMap(three)
  BY <1>9, ProfilesAre DEF ProfilesMade
<1> HIDE DEF three
<1>16. Touches(db, three, name)
  <2>1. Touches(db, one, name)
    BY <1>3, <1>5, TouchesTransitive
  <2>2. Touches(db, two, name)
    BY <1>7, <2>1, TouchesTransitive
  <2> QED
    BY <1>13, <2>2, TouchesTransitive
<1>17. SameRows(one, three) /\ SameRows(two, three)
  <2>1. Touches(one, three, name)
    BY <1>7, <1>13, TouchesTransitive
  <2> QED
    BY <1>13, <2>1, TouchesSameRows
<1>18. TheDistribution(three, name) = d /\ Named(three, name) # {}
  <2>1. Named(three, name) = Named(made, name)
    BY <1>7, <1>8, <1>13 DEF Named
  <2>2. TheDistribution(three, name) = TheDistribution(made, name)
    BY <2>1 DEF TheDistribution
  <2> QED
    BY <1>3, <2>1, <2>2 DEF d
<1>19. HasClass(three, d, class)
  <2>1. ClassRef(three, class) = ClassRef(one, class)
    BY <1>17, LookupsSame
  <2>2. d \in DOMAIN one /\ d \in DOMAIN three /\ three[d] = one[d]
    BY <1>4, <1>5, <1>7, <1>10, <1>13 DEF Touches
  <2> QED
    BY <1>5, <2>1, <2>2 DEF HasClass, Has
<1>20. DOMAIN PackageRows(d, FirstArch(three, doc.archs), doc.packages)
         \subseteq DOMAIN three
  <2>1. FirstArch(three, doc.archs) = FirstArch(one, doc.archs)
    BY <1>17, LookupsSame
  <2>2. DOMAIN two \subseteq DOMAIN three
    BY <1>13 DEF Touches
  <2> QED
    BY <1>7, <2>1, <2>2 DEF new
<1>21. \A n \in DOMAIN doc.profiles :
          HasProfile(three, d, n, ProfileRefs(three, d, doc.profiles[n]))
  <2>1. \A p : ProfileRefs(two, d, p) = ProfileRefs(three, d, p)
    BY <1>17, LookupsSame
  <2> QED
    BY <1>12, <1>14, <2>1
<1>22. HasReference(three, doc)
  BY <1>18, <1>19, <1>20, <1>21 DEF HasReference
<1> QED
  BY <1>1, <1>15, <1>16, <1>22

LEMMA ReferenceSettled ==
    ASSUME NEW db, IsMap(db), NEW doc, HasReference(db, doc)
    PROVE  SeedReference(db, doc) = db
<1> DEFINE name == doc.name
           row  == name :> ClassRef(db, ClassOf[name])
           d    == TheDistribution(db, name)
           refs == [n \in DOMAIN doc.profiles |-> ProfileRefs(db, d, doc.profiles[n])]
<1>1. GetOrCreateDistributions(db, row) = db
  <2>1. DOMAIN row = {name}
    BY DEF :>
  <2> HIDE DEF row
  <2> QED
    BY <2>1, DistributionsSettle DEF HasReference
<1>2. SeedReference(db, doc) = WithContents(db, d, doc)
  BY <1>1 DEF SeedReference
<1>3. d \in DOMAIN db
  BY ThereIs DEF HasReference
<1>4. Classed(db, d, ClassOf[name]) = db
  BY <1>3, ClassedSettled DEF HasReference
<1>5. WithPackages(db, d, doc) = db
  BY PackagesSettle DEF HasReference
<1>6. \A n \in DOMAIN refs : HasProfile(db, d, n, refs[n])
  BY DEF HasReference
<1> HIDE DEF refs
<1>7. GetOrCreateProfiles(db, d, refs) = db
  BY <1>6, ProfilesSettled
<1>8. WithProfiles(db, d, doc.profiles) = db
  BY <1>7 DEF WithProfiles, refs
<1> QED
  BY <1>2, <1>4, <1>5, <1>8 DEF WithContents

\* Seeding a distribution leaves the others as their documents want them.
LEMMA ReferenceStays ==
    ASSUME NEW a, NEW b, NEW name, Touches(a, b, name),
           NEW doc, doc.name # name, HasReference(a, doc)
    PROVE  HasReference(b, doc)
<1> DEFINE own == doc.name
           d == TheDistribution(a, own)
<1>1. SameRows(a, b) /\ DOMAIN a \subseteq DOMAIN b
  BY TouchesSameRows DEF Touches
<1>2. Named(a, own) # {}
  BY DEF HasReference
<1>3. Named(b, own) = Named(a, own)
  BY DEF Touches, Named, Distributions, Of
<1>4. TheDistribution(b, own) = d
  BY <1>3 DEF TheDistribution
<1>5. d \in DOMAIN a /\ Table_(d) = "distributions" /\ Name(d) = own
  BY <1>2 DEF TheDistribution, Named, Distributions, Of
<1>6. HasClass(a, d, ClassOf[own])
  BY DEF HasReference
<1>7. \A n \in DOMAIN doc.profiles :
         HasProfile(a, d, n, ProfileRefs(a, d, doc.profiles[n]))
  BY DEF HasReference
<1>8. DOMAIN PackageRows(d, FirstArch(a, doc.archs), doc.packages) \subseteq DOMAIN a
  BY DEF HasReference
<1> HIDE DEF d
<1>9. b[d] = a[d]
  BY <1>5 DEF Touches
<1>10. HasClass(b, d, ClassOf[own])
  <2>1. ClassRef(b, ClassOf[own]) = ClassRef(a, ClassOf[own])
    BY <1>1, LookupsSame
  <2> QED
    BY <1>1, <1>5, <1>6, <1>9, <2>1 DEF HasClass, Has
<1>11. ASSUME NEW k \in DOMAIN b, Table_(k) = "profiles",
              Refers(b, k, "distribution", d) \/ Refers(a, k, "distribution", d)
       PROVE  k \in DOMAIN a /\ b[k] = a[k]
  <2>1. ~OfNamed(b, k, name) \/ ~OfNamed(a, k, name)
    BY <1>5, <1>11 DEF OfNamed, Refers
  <2>2. k \notin DOMAIN a => ~OfNamed(b, k, name)
    BY <1>5, <1>11 DEF OfNamed, Refers, Has
  <2> QED
    BY <1>11, <2>1, <2>2 DEF Touches
<1>12. ASSUME NEW n
       PROVE  ProfilesNamed(b, d, n) = ProfilesNamed(a, d, n)
  <2>1. \A k : k \in ProfilesNamed(b, d, n) => k \in ProfilesNamed(a, d, n)
    BY <1>11 DEF ProfilesNamed, ProfilesOf, Of, Refers, Has
  <2>2. \A k : k \in ProfilesNamed(a, d, n) => k \in ProfilesNamed(b, d, n)
    BY <1>1, <1>11 DEF ProfilesNamed, ProfilesOf, Of, Refers, Has
  <2> QED
    BY <2>1, <2>2
<1>13. ASSUME NEW n \in DOMAIN doc.profiles
       PROVE  HasProfile(b, d, n, ProfileRefs(b, d, doc.profiles[n]))
  <2> DEFINE p == ProfileId(a, d, n)
             chosen(profiles) == CHOOSE q \in profiles : TRUE
  <2>1. ProfilesNamed(a, d, n) # {}
    BY <1>7 DEF HasProfile
  <2>2. /\ p = chosen(ProfilesNamed(a, d, n))
        /\ ProfileId(b, d, n) = chosen(ProfilesNamed(b, d, n))
    BY <1>12, <2>1 DEF ProfileId
  <2>3. p \in ProfilesNamed(a, d, n)
    BY <2>1, <2>2
  <2> HIDE DEF p, chosen
  <2>4. ProfileId(b, d, n) = p
    BY <1>12, <2>2
  <2>5. b[p] = a[p]
    BY <1>1, <1>11, <2>3 DEF ProfilesNamed, ProfilesOf, Of
  <2>6. ProfileRefs(b, d, doc.profiles[n]) = ProfileRefs(a, d, doc.profiles[n])
    BY <1>1, LookupsSame
  <2> QED
    BY <1>7, <1>12, <2>4, <2>5, <2>6 DEF HasProfile, p
<1>14. DOMAIN PackageRows(d, FirstArch(b, doc.archs), doc.packages) \subseteq DOMAIN b
  <2>1. FirstArch(b, doc.archs) = FirstArch(a, doc.archs)
    BY <1>1, LookupsSame
  <2> QED
    BY <1>1, <1>8, <2>1
<1> QED
  BY <1>2, <1>3, <1>4, <1>10, <1>13, <1>14 DEF HasReference

-----------------------------------------------------------------------------
(* The rows tinywifi has of its own.                                       *)

HasConfig(db) ==
    Key("config_values", "hostapd.ssid", TheDistribution(db, "tinywifi")) \in DOMAIN db

LEMMA ConfigSettles ==
    ASSUME NEW db
    PROVE  /\ \A name : Touches(db, SeedTinywifiConfigValues(db), name)
           /\ HasConfig(SeedTinywifiConfigValues(db))
           /\ IsMap(SeedTinywifiConfigValues(db))
           /\ HasConfig(db) /\ IsMap(db) => SeedTinywifiConfigValues(db) = db
<1> DEFINE d   == TheDistribution(db, "tinywifi")
           k   == Key("config_values", "hostapd.ssid", d)
           new == k :> ("distribution" :> d)
           b   == SeedTinywifiConfigValues(db)
<1>1. b = Insert_(db, new)
  BY DEF SeedTinywifiConfigValues
<1>2. DOMAIN new = {k} /\ Table_(k) = "config_values"
  BY KeyParts DEF :>
<1> HIDE DEF new, b
<1>3. \A name : Touches(db, b, name)
  BY <1>1, <1>2, InsertTouches DEF LookedUp
<1>4. /\ DOMAIN b = DOMAIN db \cup {k}
      /\ IsMap(b)
      /\ k \in DOMAIN db /\ IsMap(db) => b = db
  <2>1. /\ DOMAIN b = DOMAIN db \cup DOMAIN new
        /\ \A j \in DOMAIN db : b[j] = db[j]
        /\ \A j \in DOMAIN new \ DOMAIN db : b[j] = new[j]
    BY <1>1 DEF Insert_, @@
  <2>2. IsMap(b) /\ (DOMAIN new \subseteq DOMAIN db /\ IsMap(db) => b = db)
    BY <1>1, InsertSettles
  <2> QED
    BY <1>2, <2>1, <2>2
<1>5. Named(b, "tinywifi") = Named(db, "tinywifi")
  BY <1>2, <1>4 DEF Named, Distributions, Of
<1>6. TheDistribution(b, "tinywifi") = d
  BY <1>5 DEF TheDistribution
<1> QED
  BY <1>3, <1>4, <1>6 DEF HasConfig, b

Entries == {"network", "hostapd", "nanodhcp", "tinywifi-web"}
ServiceProfiles(db, d) ==
    {k \in Of(db, "service_profiles") : Refers(db, k, "distribution", d)}
ChosenOf(there, d) ==
    IF there = {} THEN Key("service_profiles", "default", d)
    ELSE CHOOSE k \in there : TRUE
ServiceProfile(db, d) == ChosenOf(ServiceProfiles(db, d), d)

HasServices(db) ==
    LET sp == ServiceProfile(db, TheDistribution(db, "tinywifi"))
    IN {sp} \cup {Key("service_entries", n, sp) : n \in Entries} \subseteq DOMAIN db

LEMMA ServicesSettle ==
    ASSUME NEW db
    PROVE  /\ \A name : Touches(db, SeedTinywifiServiceProfile(db), name)
           /\ HasServices(SeedTinywifiServiceProfile(db))
           /\ HasConfig(db) => HasConfig(SeedTinywifiServiceProfile(db))
           /\ IsMap(SeedTinywifiServiceProfile(db))
           /\ HasServices(db) /\ IsMap(db) => SeedTinywifiServiceProfile(db) = db
<1> DEFINE d   == TheDistribution(db, "tinywifi")
           sp  == ServiceProfile(db, d)
           own == sp :> ("distribution" :> d)
           rows == {Key("service_entries", n, sp) : n \in Entries}
           entries == [k \in rows |-> "profile" :> sp]
           new == own @@ entries
           b   == SeedTinywifiServiceProfile(db)
<1>1. b = Insert_(db, new)
  BY DEF SeedTinywifiServiceProfile, ServiceProfile, ChosenOf, ServiceProfiles, Entries
<1>2. Table_(sp) = "service_profiles"
  <2>1. CASE ServiceProfiles(db, d) = {}
    BY <2>1, KeyParts DEF ServiceProfile, ChosenOf
  <2>2. CASE ServiceProfiles(db, d) # {}
    <3>1. sp \in ServiceProfiles(db, d)
      BY <2>2 DEF ServiceProfile, ChosenOf
    <3> QED
      BY <3>1 DEF ServiceProfiles, Of
  <2> QED
    BY <2>1, <2>2
<1>3. \A k \in rows : Table_(k) = "service_entries"
  BY KeyParts
<1>4. /\ DOMAIN new = {sp} \cup rows
      /\ new[sp] = "distribution" :> d
  BY DEF @@, :>
<1> HIDE DEF sp, rows, new, b
<1>5. /\ DOMAIN b = DOMAIN db \cup {sp} \cup rows
      /\ \A k \in DOMAIN db : b[k] = db[k]
      /\ sp \notin DOMAIN db => b[sp] = "distribution" :> d
      /\ IsMap(b)
      /\ {sp} \cup rows \subseteq DOMAIN db /\ IsMap(db) => b = db
  <2>1. /\ DOMAIN b = DOMAIN db \cup DOMAIN new
        /\ \A j \in DOMAIN db : b[j] = db[j]
        /\ \A j \in DOMAIN new \ DOMAIN db : b[j] = new[j]
    BY <1>1 DEF Insert_, @@
  <2>2. IsMap(b) /\ (DOMAIN new \subseteq DOMAIN db /\ IsMap(db) => b = db)
    BY <1>1, InsertSettles
  <2> QED
    BY <1>4, <2>1, <2>2
<1>6. \A name : Touches(db, b, name)
  BY <1>1, <1>2, <1>3, <1>4, InsertTouches DEF LookedUp
<1>7. Named(b, "tinywifi") = Named(db, "tinywifi")
  BY <1>2, <1>3, <1>5 DEF Named, Distributions, Of
<1>8. TheDistribution(b, "tinywifi") = d
  BY <1>7 DEF TheDistribution
<1> HIDE DEF d
<1>9. ServiceProfile(b, d) = sp
  <2>1. \A k \in DOMAIN db : Refers(b, k, "distribution", d)
                              <=> Refers(db, k, "distribution", d)
    BY <1>5 DEF Refers, Has
  <2>2. CASE sp \in DOMAIN db
    <3>1. \A k : k \in ServiceProfiles(b, d) <=> k \in ServiceProfiles(db, d)
      BY <1>3, <1>5, <2>1, <2>2 DEF ServiceProfiles, Of
    <3>2. ServiceProfiles(b, d) = ServiceProfiles(db, d)
      BY <3>1
    <3> QED
      BY <3>2 DEF ServiceProfile, sp
  <2>3. CASE sp \notin DOMAIN db
    <3>1. ServiceProfiles(db, d) = {}
      <4>1. ASSUME ServiceProfiles(db, d) # {}
            PROVE  sp \in ServiceProfiles(db, d)
        BY <4>1 DEF ServiceProfile, ChosenOf, sp
      <4> QED
        BY <2>3, <4>1 DEF ServiceProfiles, Of
    <3>2. Refers(b, sp, "distribution", d)
      BY <1>5, <2>3 DEF Refers, Has, :>
    <3>3. \A k : k \in ServiceProfiles(b, d) <=> k = sp
      BY <1>2, <1>3, <1>5, <2>1, <3>1, <3>2 DEF ServiceProfiles, Of
    <3>4. ServiceProfiles(b, d) = {sp}
      BY <3>3
    <3> QED
      BY <3>4 DEF ServiceProfile, ChosenOf
  <2> QED
    BY <2>2, <2>3
<1>10. HasServices(b)
  BY <1>5, <1>8, <1>9 DEF HasServices, rows
<1>11. HasConfig(db) => HasConfig(b)
  BY <1>5, <1>8 DEF HasConfig, d
<1>12. HasServices(db) => {sp} \cup rows \subseteq DOMAIN db
  BY DEF HasServices, sp, rows, d
<1> QED
  BY <1>5, <1>6, <1>10, <1>11, <1>12 DEF b

-----------------------------------------------------------------------------
(* The revisions.                                                          *)

HasClasses(db) == HasRows(db, "distribution_classes", Classes)
HasShipped(db) == \A n \in DOMAIN ClassOf : Named(db, n) # {}

LEMMA GrowsMeans ==
    ASSUME NEW a, NEW b, Grows(a, b)
    PROVE  /\ DOMAIN a \subseteq DOMAIN b
           /\ IsNumbered(a) => IsNumbered(b)
           /\ HasClasses(a) => HasClasses(b)
           /\ \A kernels : HasBase(a, kernels) => HasBase(b, kernels)
           /\ HasShipped(a) => HasShipped(b)
<1>1. DOMAIN a \subseteq DOMAIN b
  BY DEF Grows, Keeps
<1>2. HasClasses(a) => HasClasses(b)
  BY <1>1, RowsStay DEF HasClasses
<1>3. \A kernels : HasBase(a, kernels) => HasBase(b, kernels)
  BY <1>1, BaseStays
<1>4. HasShipped(a) => HasShipped(b)
  BY NamedStays DEF HasShipped
<1> QED
  BY <1>1, <1>2, <1>3, <1>4 DEF Grows

HasDistributions(db, files) ==
    HasClasses(db) /\ (files => HasBase(db, TRUE) /\ HasShipped(db))

LEMMA WithDistributionsSettles ==
    ASSUME NEW db, NEW files
    PROVE  /\ IsMap(WithDistributions(db, files))
           /\ HasDistributions(WithDistributions(db, files), files)
           /\ HasDistributions(db, files) /\ IsMap(db) =>
                WithDistributions(db, files) = db
<1> DEFINE one   == SeedDistributionClasses(db)
           two   == BaseCatalog(one, TRUE, files)
           three == SeedDistributions(two)
<1>1. WithDistributions(db, files) = IF files THEN three ELSE one
  BY DEF WithDistributions
<1>2. /\ IsMap(one) /\ HasClasses(one)
      /\ HasClasses(db) /\ IsMap(db) => one = db
  BY ClassesSettle DEF HasClasses
<1>3. CASE ~files
  BY <1>1, <1>2, <1>3 DEF HasDistributions
<1>4. CASE files
  <2>1. Grows(one, two) /\ Grows(two, three)
    BY BaseGrows, SeedDistributionsGrows
  <2> HIDE DEF one
  <2>2. /\ HasBase(two, TRUE)
        /\ HasBase(one, TRUE) /\ IsMap(one) => two = one
    BY <1>4, BaseSettles
  <2> HIDE DEF two
  <2>3. /\ IsMap(three) /\ HasShipped(three)
        /\ HasShipped(two) /\ IsMap(two) => three = two
    BY ShippedDistributionsSettle DEF HasShipped
  <2> HIDE DEF three
  <2>4. HasClasses(three) /\ HasBase(three, TRUE)
    BY <1>2, <2>1, <2>2, GrowsMeans
  <2> QED
    BY <1>1, <1>2, <1>4, <2>2, <2>3, <2>4 DEF HasDistributions
<1> QED
  BY <1>3, <1>4

HasOwn(db, r, files) ==
    /\ files => HasBase(db, r \in {"0045", "0051"})
    /\ HasClasses(db)
    /\ HasReference(db, DocumentOf[r])
    /\ r = "0045" => HasConfig(db) /\ HasServices(db)

LEMMA OwnReferenceSettles ==
    ASSUME NEW db, IsNumbered(db), NEW r \in DOMAIN DocumentOf, NEW files
    PROVE  /\ IsMap(SeedOwnReference(db, r, files))
           /\ HasOwn(SeedOwnReference(db, r, files), r, files)
<1> DEFINE kernels == r \in {"0045", "0051"}
           one   == BaseCatalog(db, kernels, files)
           two   == SeedDistributionClasses(one)
           three == SeedReference(two, DocumentOf[r])
           four  == SeedTinywifiConfigValues(three)
           five  == SeedTinywifiServiceProfile(four)
<1>1. SeedOwnReference(db, r, files) = IF r = "0045" THEN five ELSE three
  BY DEF SeedOwnReference
<1>2. Grows(db, one) /\ Grows(one, two) /\ Grows(two, three)
  BY BaseGrows, ClassesGrow, ReferenceGrows
<1>3. (files => HasBase(one, kernels)) /\ HasClasses(two)
  BY BaseSettles, ClassesSettle DEF HasClasses
<1> HIDE DEF one, two, kernels
<1>4. IsNumbered(two)
  BY <1>2, GrowsMeans
<1>5. HasReference(three, DocumentOf[r]) /\ IsMap(three)
  BY <1>4, ReferenceSettles
<1> HIDE DEF three
<1>6. (files => HasBase(three, kernels)) /\ HasClasses(three)
  BY <1>2, <1>3, GrowsMeans
<1>7. ASSUME r = "0045"
      PROVE  IsMap(five) /\ HasOwn(five, r, files)
  <2>1. DocumentOf[r].name = "tinywifi"
    BY <1>7 DEF DocumentOf, Tinywifi, Document, @@, :>
  <2>2. /\ Touches(three, four, "netos") /\ HasConfig(four)
        /\ Touches(four, five, "netos") /\ HasServices(five)
        /\ HasConfig(four) => HasConfig(five)
        /\ IsMap(five)
    BY ConfigSettles, ServicesSettle
  <2> HIDE DEF four, five
  <2>3. HasReference(five, DocumentOf[r])
    <3>1. HasReference(four, DocumentOf[r])
      BY <1>5, <2>1, <2>2, ReferenceStays
    <3> QED
      BY <2>1, <2>2, <3>1, ReferenceStays
  <2>4. DOMAIN three \subseteq DOMAIN five
    BY <2>2 DEF Touches
  <2>5. (files => HasBase(five, kernels)) /\ HasClasses(five)
    BY <1>6, <2>4, BaseStays, RowsStay DEF HasClasses
  <2> QED
    BY <2>2, <2>3, <2>5 DEF HasOwn, kernels
<1>8. r # "0045" => HasOwn(three, r, files)
  BY <1>5, <1>6 DEF HasOwn, kernels
<1> QED
  BY <1>1, <1>5, <1>7, <1>8

LEMMA OwnReferenceSettled ==
    ASSUME NEW db, IsMap(db), NEW r \in DOMAIN DocumentOf, NEW files,
           HasOwn(db, r, files)
    PROVE  SeedOwnReference(db, r, files) = db
<1> DEFINE kernels == r \in {"0045", "0051"}
<1>1. BaseCatalog(db, kernels, files) = db
  <2>1. CASE files
    BY <2>1, BaseSettles DEF HasOwn
  <2>2. CASE ~files
    BY <2>2 DEF BaseCatalog
  <2> QED
    BY <2>1, <2>2
<1>2. SeedDistributionClasses(db) = db
  BY ClassesSettle DEF HasOwn, HasClasses
<1>3. SeedReference(db, DocumentOf[r]) = db
  BY ReferenceSettled DEF HasOwn
<1>4. r = "0045" => /\ SeedTinywifiConfigValues(db) = db
                    /\ SeedTinywifiServiceProfile(db) = db
  BY ConfigSettles, ServicesSettle DEF HasOwn
<1> QED
  BY <1>1, <1>2, <1>3, <1>4 DEF SeedOwnReference

HasCatalog(db) ==
    /\ HasReference(db, Netos) /\ HasReference(db, Ocultum)
    /\ HasReference(db, Tinydesk) /\ HasReference(db, Tinywifi)

LEMMA CatalogSettles ==
    ASSUME NEW db, IsNumbered(db)
    PROVE  /\ IsMap(SeedDistributionCatalog(db))
           /\ HasCatalog(SeedDistributionCatalog(db))
<1> DEFINE one   == SeedReference(db, Netos)
           two   == SeedReference(one, Ocultum)
           three == SeedReference(two, Tinydesk)
           four  == SeedReference(three, Tinywifi)
<1>1. SeedDistributionCatalog(db) = four
  BY DEF SeedDistributionCatalog
<1>2. /\ Netos.name = "netos" /\ Ocultum.name = "ocultum"
      /\ Tinydesk.name = "tinydesk" /\ Tinywifi.name = "tinywifi"
  BY DEF Netos, Ocultum, Tinydesk, Tinywifi, Document
<1>3. IsNumbered(one) /\ HasReference(one, Netos)
  BY ReferenceGrows, ReferenceSettles, GrowsMeans
<1> HIDE DEF one
<1>4. /\ IsNumbered(two) /\ HasReference(two, Ocultum)
      /\ Touches(one, two, "ocultum")
  BY <1>2, <1>3, ReferenceGrows, ReferenceSettles, GrowsMeans
<1> HIDE DEF two
<1>5. /\ IsNumbered(three) /\ HasReference(three, Tinydesk)
      /\ Touches(two, three, "tinydesk")
  BY <1>2, <1>4, ReferenceGrows, ReferenceSettles, GrowsMeans
<1> HIDE DEF three
<1>6. /\ IsMap(four) /\ HasReference(four, Tinywifi)
      /\ Touches(three, four, "tinywifi")
  BY <1>2, <1>5, ReferenceSettles
<1> HIDE DEF four
<1>7. HasReference(two, Netos)
  BY <1>2, <1>3, <1>4, ReferenceStays
<1>8. HasReference(three, Netos) /\ HasReference(three, Ocultum)
  BY <1>2, <1>4, <1>5, <1>7, ReferenceStays
<1>9. /\ HasReference(four, Netos) /\ HasReference(four, Ocultum)
      /\ HasReference(four, Tinydesk)
  BY <1>2, <1>5, <1>6, <1>8, ReferenceStays
<1> QED
  BY <1>1, <1>6, <1>9 DEF HasCatalog

LEMMA CatalogSettled ==
    ASSUME NEW db, IsMap(db), HasCatalog(db)
    PROVE  SeedDistributionCatalog(db) = db
<1>1. /\ SeedReference(db, Netos) = db /\ SeedReference(db, Ocultum) = db
      /\ SeedReference(db, Tinydesk) = db /\ SeedReference(db, Tinywifi) = db
  BY ReferenceSettled DEF HasCatalog
<1> QED
  BY <1>1 DEF SeedDistributionCatalog

LEMMA SettingsSettle == \A db : WithSettings(WithSettings(db)) = WithSettings(db)
<1> TAKE db
<1> DEFINE one == SeedTinywifiConfigValues(db)
           two == SeedTinywifiServiceProfile(one)
<1>1. CASE Named(db, "tinywifi") = {}
  BY <1>1 DEF WithSettings
<1>2. CASE Named(db, "tinywifi") # {}
  <2>1. WithSettings(db) = two
    BY <1>2 DEF WithSettings
  <2>2. HasConfig(one)
    BY ConfigSettles
  <2>3. HasConfig(two) /\ HasServices(two) /\ IsMap(two)
    BY <2>2, ServicesSettle
  <2>4. Named(two, "tinywifi") # {}
    BY <1>2, <2>1, SettingsGrow, NamedStays
  <2> HIDE DEF two
  <2>5. SeedTinywifiConfigValues(two) = two
    BY <2>3, ConfigSettles
  <2>6. SeedTinywifiServiceProfile(two) = two
    BY <2>3, ServicesSettle
  <2> QED
    BY <2>1, <2>4, <2>5, <2>6 DEF WithSettings
<1> QED
  BY <1>1, <1>2

\* A seeding revision that runs twice.
LEMMA UpgradedSettles ==
    ASSUME NEW db, IsNumbered(db), NEW r \in SeedRevisions, NEW files
    PROVE  Upgraded(Upgraded(db, r, files), r, files) = Upgraded(db, r, files)
<1> DEFINE all == r \in {"0045", "0051", "0052"}
           start(x) == IF all THEN WithDistributions(x, files) ELSE x
           one  == start(db)
           two  == SeedOwnReference(one, r, files)
           cat  == SeedDistributionCatalog(one)
           b    == Upgraded(db, r, files)
<1>1. \A x : Upgraded(x, r, files) =
         IF r = "0050" THEN WithSettings(x)
         ELSE IF r = "0052"
         THEN IF files THEN SeedDistributionCatalog(start(x)) ELSE start(x)
         ELSE SeedOwnReference(start(x), r, files)
  BY UpgradedIs
<1>2. b = IF r = "0050" THEN WithSettings(db)
          ELSE IF r = "0052" THEN IF files THEN cat ELSE one
          ELSE two
  BY <1>1
<1>3. Grows(db, one)
  BY WithDistributionsGrows, GrowsReflexive
<1>4. IsNumbered(one)
  BY <1>3, GrowsMeans
<1>5. all => IsMap(one) /\ HasDistributions(one, files)
  BY WithDistributionsSettles
<1>6. \A x : all /\ HasDistributions(x, files) /\ IsMap(x) => start(x) = x
  BY WithDistributionsSettles
<1>7. ~all => \A x : start(x) = x
  OBVIOUS
<1>8. all \/ r # "0052"
  OBVIOUS
<1> HIDE DEF start, one, all, b
<1>9. \A x : Grows(one, x) /\ HasDistributions(one, files) => HasDistributions(x, files)
  BY GrowsMeans DEF HasDistributions
<1>10. CASE r \in DOMAIN DocumentOf
  <2>0. r # "0050" /\ r # "0052"
    BY <1>10, RevisionKinds
  <2>1. Grows(one, two)
    BY <1>10, OwnReferenceGrows
  <2>2. IsMap(two) /\ HasOwn(two, r, files)
    BY <1>4, <1>10, OwnReferenceSettles
  <2> HIDE DEF two
  <2>3. start(two) = two
    BY <1>5, <1>6, <1>7, <1>9, <2>1, <2>2
  <2>4. SeedOwnReference(two, r, files) = two
    BY <1>10, <2>2, OwnReferenceSettled
  <2> QED
    BY <1>1, <1>2, <2>0, <2>3, <2>4 DEF b
<1>11. CASE r = "0052" /\ files
  <2>1. Grows(one, cat)
    BY CatalogGrows
  <2>2. IsMap(cat) /\ HasCatalog(cat)
    BY <1>4, CatalogSettles
  <2> HIDE DEF cat
  <2>3. start(cat) = cat
    BY <1>5, <1>6, <1>7, <1>9, <2>1, <2>2
  <2>4. SeedDistributionCatalog(cat) = cat
    BY <2>2, CatalogSettled
  <2> QED
    BY <1>1, <1>2, <1>11, <2>3, <2>4 DEF b
<1>12. CASE r = "0052" /\ ~files
  BY <1>1, <1>2, <1>5, <1>6, <1>8, <1>12 DEF b
<1>13. CASE r = "0050"
  BY <1>1, <1>2, <1>13, SettingsSettle DEF b
<1> QED
  BY <1>10, <1>11, <1>12, <1>13, RevisionKinds

-----------------------------------------------------------------------------
(* The commands.                                                           *)

LEMMA ArchRefsSame ==
    ASSUME NEW one, NEW two, DOMAIN one \subseteq DOMAIN two,
           \A k \in DOMAIN two \ DOMAIN one : Table_(k) # "architectures"
    PROVE  \A a : ArchRef(two, a) = ArchRef(one, a)
<1>1. \A a : Row("architectures", a) \in DOMAIN two
               <=> Row("architectures", a) \in DOMAIN one
  BY RowParts
<1> QED
  BY <1>1 DEF ArchRef, Lookup

\* A file of boards or toolchains makes no architecture it then could use.
LEMMA WithArchTwice ==
    ASSUME NEW db, NEW table, table # "architectures", NEW archs, NEW one, NEW two,
           DOMAIN one = {Row(table, n) : n \in
              {m \in DOMAIN archs : ArchRef(db, archs[m]) # NoRefs_}},
           DOMAIN two = {Row(table, n) : n \in
              {m \in DOMAIN archs : ArchRef(Insert_(db, one), archs[m]) # NoRefs_}}
    PROVE  Insert_(Insert_(db, one), two) = Insert_(db, one)
<1> DEFINE b == Insert_(db, one)
<1>1. DOMAIN b = DOMAIN db \cup DOMAIN one /\ IsMap(b)
  BY InsertIs, InsertIsMap
<1>2. DOMAIN two = {Row(table, n) : n \in
         {m \in DOMAIN archs : ArchRef(b, archs[m]) # NoRefs_}}
  OBVIOUS
<1> HIDE DEF b
<1>3. \A k \in DOMAIN b \ DOMAIN db : Table_(k) # "architectures"
  BY <1>1, RowParts
<1>4. \A a : ArchRef(b, a) = ArchRef(db, a)
  BY <1>1, <1>3, ArchRefsSame
<1>5. DOMAIN two \subseteq DOMAIN b
  BY <1>1, <1>2, <1>4
<1>6. Insert_(b, two) = b
  BY <1>1, <1>5, NothingInserted
<1> QED
  BY <1>6 DEF b

LEMMA BoardsTwice == \A db : SeedBoards(SeedBoards(db)) = SeedBoards(db)
<1> TAKE db
<1> DEFINE refs(d, n) == ArchRef(d, BoardArch[n])
           new(d) == WithArch(d, "boards", BoardArch, LAMBDA n : refs(d, n))
<1>1. \A d : SeedBoards(d) = Insert_(d, new(d))
  BY DEF SeedBoards
<1>2. \A d : DOMAIN new(d) = {Row("boards", n) : n \in
         {m \in DOMAIN BoardArch : ArchRef(d, BoardArch[m]) # NoRefs_}}
  BY DEF WithArch, Rows
<1> HIDE DEF new
<1>3. Insert_(Insert_(db, new(db)), new(Insert_(db, new(db)))) = Insert_(db, new(db))
  <2> DEFINE one == new(db)
             two == new(Insert_(db, one))
  <2>1. /\ DOMAIN one = {Row("boards", n) : n \in
              {m \in DOMAIN BoardArch : ArchRef(db, BoardArch[m]) # NoRefs_}}
        /\ DOMAIN two = {Row("boards", n) : n \in
              {m \in DOMAIN BoardArch : ArchRef(Insert_(db, one), BoardArch[m]) # NoRefs_}}
    BY <1>2
  <2> HIDE DEF one, two
  <2>2. Insert_(Insert_(db, one), two) = Insert_(db, one)
    BY <2>1, WithArchTwice
  <2> QED
    BY <2>2 DEF one, two
<1> QED
  BY <1>1, <1>3

LEMMA ToolchainsTwice ==
    \A db : SeedToolchains(SeedToolchains(db)) = SeedToolchains(db)
<1> TAKE db
<1> DEFINE refs(d, n) == ArchRef(d, ToolchainArch[n])
           new(d) == WithArch(d, "toolchains", ToolchainArch, LAMBDA n : refs(d, n))
<1>1. \A d : SeedToolchains(d) = Insert_(d, new(d))
  BY DEF SeedToolchains
<1>2. \A d : DOMAIN new(d) = {Row("toolchains", n) : n \in
         {m \in DOMAIN ToolchainArch : ArchRef(d, ToolchainArch[m]) # NoRefs_}}
  BY DEF WithArch, Rows
<1> HIDE DEF new
<1>3. Insert_(Insert_(db, new(db)), new(Insert_(db, new(db)))) = Insert_(db, new(db))
  <2> DEFINE one == new(db)
             two == new(Insert_(db, one))
  <2>1. /\ DOMAIN one = {Row("toolchains", n) : n \in
              {m \in DOMAIN ToolchainArch : ArchRef(db, ToolchainArch[m]) # NoRefs_}}
        /\ DOMAIN two = {Row("toolchains", n) : n \in
              {m \in DOMAIN ToolchainArch : ArchRef(Insert_(db, one), ToolchainArch[m]) # NoRefs_}}
    BY <1>2
  <2> HIDE DEF one, two
  <2>2. Insert_(Insert_(db, one), two) = Insert_(db, one)
    BY <2>1, WithArchTwice
  <2> QED
    BY <2>2 DEF one, two
<1> QED
  BY <1>1, <1>3

LEMMA ImportsSettle ==
    ASSUME NEW db
    PROVE  /\ ImportArchitectures(ImportArchitectures(db)) = ImportArchitectures(db)
           /\ ImportBoards(ImportBoards(db)) = ImportBoards(db)
           /\ ImportToolchains(ImportToolchains(db)) = ImportToolchains(db)
           /\ ImportDistributions(ImportDistributions(db)) = ImportDistributions(db)
<1>1. ImportArchitectures(ImportArchitectures(db)) = ImportArchitectures(db)
  BY ArchitecturesSettle DEF ImportArchitectures
<1>2. ImportBoards(ImportBoards(db)) = ImportBoards(db)
  BY BoardsTwice DEF ImportBoards
<1>3. ImportToolchains(ImportToolchains(db)) = ImportToolchains(db)
  BY ToolchainsTwice DEF ImportToolchains
<1>4. ImportDistributions(ImportDistributions(db)) = ImportDistributions(db)
  <2> DEFINE refs == [n \in DOMAIN ClassOf |-> NoRefs_]
  <2>1. \A x : ImportDistributions(x) = GetOrCreateDistributions(x, refs)
    BY DEF ImportDistributions
  <2> HIDE DEF refs
  <2> QED
    BY <2>1, DistributionsSettle
<1> QED
  BY <1>1, <1>2, <1>3, <1>4

\* Rows that are inserted where they are missing.
LEMMA NoneMissing ==
    ASSUME NEW db, NEW new
    PROVE  Insert_(Insert_(db, new), new) = Insert_(db, new)
<1> DEFINE b == Insert_(db, new)
<1>1. IsMap(b) /\ DOMAIN new \subseteq DOMAIN b
  BY InsertSettles
<1> HIDE DEF b
<1>2. Insert_(b, new) = b
  BY <1>1, NothingInserted
<1> QED
  BY <1>2 DEF b

LEMMA ImportKernelsSettles ==
    \A db : ImportKernels(ImportKernels(db)) = ImportKernels(db)
<1> TAKE db
<1> DEFINE new(x) == {n \in DOMAIN Kernels : Row("kernels", n) \notin DOMAIN x}
           ready(x) == /\ AllThere(x, "architectures", {Kernels[n].arch : n \in new(x)})
                       /\ AllThere(x, "boards", {Kernels[n].board : n \in new(x)})
           arch(x, n) == ArchRef(x, Kernels[n].arch)
           config(n) == "kernel" :> Row("kernels", n)
                        @@ "board" :> Row("boards", Kernels[n].board)
           rows(x) == Rows("kernels", new(x), LAMBDA n : arch(x, n))
                      @@ Rows("kernel_configs", new(x), config)
           b == Insert_(db, rows(db))
<1>1. \A x : ImportKernels(x) = IF ready(x) THEN Insert_(x, rows(x)) ELSE x
  BY DEF ImportKernels
<1>2. \A x : DOMAIN rows(x) = {Row("kernels", n) : n \in new(x)}
                               \cup {Row("kernel_configs", n) : n \in new(x)}
  BY DEF Rows, @@
<1> HIDE DEF rows, ready
<1>3. DOMAIN b = DOMAIN db \cup DOMAIN rows(db) /\ IsMap(b)
  BY InsertIs, InsertIsMap
<1> HIDE DEF b
<1>4. new(b) = {}
  BY <1>2, <1>3
<1>5. DOMAIN rows(b) = {}
  BY <1>2, <1>4
<1>6. Insert_(b, rows(b)) = b
  BY <1>3, <1>5, NothingInserted
<1> QED
  BY <1>1, <1>6 DEF b

LEMMA ImportFirmwareSettles ==
    \A db : ImportFirmware(ImportFirmware(db)) = ImportFirmware(db)
<1> TAKE db
<1> DEFINE new == BoardFile("firmware_blobs", "rpi-zero-2w", "start4.elf")
<1>1. Insert_(Insert_(db, new), new) = Insert_(db, new)
  BY NoneMissing
<1>2. \A x : ImportFirmware(x) =
                IF AllThere(x, "boards", {"rpi-zero-2w"}) THEN Insert_(x, new) ELSE x
  BY DEF ImportFirmware
<1> HIDE DEF new
<1> QED
  BY <1>1, <1>2

LEMMA BootChainsSettle ==
    \A db : SeedBootChains(SeedBootChains(db)) = SeedBootChains(db)
<1> TAKE db
<1> DEFINE new(x) == {n \in DOMAIN ChainSchemes : Row("boot_chains", n) \notin DOMAIN x}
           scheme(n) == "boot_scheme" :> Row("boot_schemes", ChainSchemes[n])
           chain(n) == "boot_chain" :> Row("boot_chains", n)
           bound(n) == "boot_chain" :> Row("boot_chains", "uboot_extlinux")
                       @@ "board" :> Row("boards", "rpi4")
           rows(x) == Rows("boot_chains", new(x), scheme)
                      @@ Rows("boot_chain_files", new(x), chain)
                      @@ Rows("boot_chain_bindings", {"rpi4"}, bound)
           b == SeedBootChains(db)
<1>1. \A x : SeedBootChains(x) = Insert_(x, rows(x))
  BY DEF SeedBootChains
<1>2. \A x : DOMAIN rows(x) = {Row("boot_chains", n) : n \in new(x)}
                               \cup {Row("boot_chain_files", n) : n \in new(x)}
                               \cup {Row("boot_chain_bindings", n) : n \in {"rpi4"}}
  BY DEF Rows, @@
<1> HIDE DEF rows
<1>3. DOMAIN b = DOMAIN db \cup DOMAIN rows(db) /\ IsMap(b)
  BY <1>1, InsertIs, InsertIsMap
<1> HIDE DEF b
<1>4. new(b) = {}
  BY <1>2, <1>3
<1>5. DOMAIN rows(b) \subseteq DOMAIN b
  <2>1. {Row("boot_chain_bindings", n) : n \in {"rpi4"}} \subseteq DOMAIN b
    BY <1>2, <1>3
  <2> HIDE DEF new
  <2> QED
    BY <1>2, <1>4, <2>1
<1>6. Insert_(b, rows(b)) = b
  BY <1>3, <1>5, NothingInserted
<1> QED
  BY <1>1, <1>6 DEF b

LEMMA InitramfsSettle ==
    \A db : SeedInitramfsProfiles(SeedInitramfsProfiles(db)) = SeedInitramfsProfiles(db)
<1> TAKE db
<1> DEFINE names == {"minimal-busybox", "recovery-full", "encrypted-root",
                     "network-boot", "debug-shell"}
           new(x) == {n \in names : Row("initramfs_profiles", n) \notin DOMAIN x}
           none(n) == NoRefs_
           parts(n) == "profile" :> Row("initramfs_profiles", n)
           rows(x) == Rows("initramfs_profiles", new(x), none)
                      @@ Rows("initramfs_packages", new(x), parts)
           b == SeedInitramfsProfiles(db)
<1>1. \A x : SeedInitramfsProfiles(x) = Insert_(x, rows(x))
  BY DEF SeedInitramfsProfiles
<1> HIDE DEF names
<1>2. \A x : DOMAIN rows(x) = {Row("initramfs_profiles", n) : n \in new(x)}
                               \cup {Row("initramfs_packages", n) : n \in new(x)}
  BY DEF Rows, @@
<1> HIDE DEF rows
<1>3. DOMAIN b = DOMAIN db \cup DOMAIN rows(db) /\ IsMap(b)
  BY <1>1, InsertIs, InsertIsMap
<1> HIDE DEF b
<1>4. new(b) = {}
  BY <1>2, <1>3
<1>5. DOMAIN rows(b) = {}
  BY <1>2, <1>4
<1>6. Insert_(b, rows(b)) = b
  BY <1>3, <1>5, NothingInserted
<1> QED
  BY <1>1, <1>6 DEF b

\* Files of boards: a file is there if its board is.
HasFiles(db, files) == {f \in files : f[3] \in DOMAIN db} \subseteq DOMAIN db

LEMMA FilesSettle ==
    ASSUME NEW db, NEW files,
           \A f \in DOMAIN files : Table_(f) # "boards" /\ Table_(f[3]) = "boards"
    PROVE  LET b == Insert_(db, OfBoards(db, files))
           IN /\ IsMap(b) /\ HasFiles(b, DOMAIN files)
              /\ DOMAIN db \subseteq DOMAIN b
              /\ \A k \in DOMAIN b \ DOMAIN db : Table_(k) # "boards"
              /\ HasFiles(db, DOMAIN files) /\ IsMap(db) => b = db
<1> DEFINE new == OfBoards(db, files)
           b   == Insert_(db, new)
<1>1. DOMAIN new = {f \in DOMAIN files : f[3] \in DOMAIN db}
  BY DEF OfBoards
<1> HIDE DEF new
<1>2. /\ DOMAIN b = DOMAIN db \cup DOMAIN new
      /\ IsMap(b)
      /\ DOMAIN new \subseteq DOMAIN db /\ IsMap(db) => b = db
  BY InsertIs, InsertSettles
<1> HIDE DEF b
<1>3. \A k \in DOMAIN b \ DOMAIN db : Table_(k) # "boards"
  BY <1>1, <1>2
<1>4. HasFiles(b, DOMAIN files)
  <2>1. \A f \in DOMAIN files : f[3] \in DOMAIN b => f[3] \in DOMAIN db
    BY <1>3
  <2> QED
    BY <1>1, <1>2, <2>1 DEF HasFiles
<1> QED
  BY <1>1, <1>2, <1>3, <1>4 DEF HasFiles, b, new

LEMMA FilesStay ==
    ASSUME NEW a, NEW b, DOMAIN a \subseteq DOMAIN b,
           \A k \in DOMAIN b \ DOMAIN a : Table_(k) # "boards",
           NEW files, \A f \in files : Table_(f[3]) = "boards", HasFiles(a, files)
    PROVE  HasFiles(b, files)
<1>1. \A f \in files : f[3] \in DOMAIN b => f[3] \in DOMAIN a
  OBVIOUS
<1> QED
  BY <1>1 DEF HasFiles

LEMMA FileKey ==
    ASSUME NEW table, table # "boards", NEW board, NEW name
    PROVE  \A f \in DOMAIN BoardFile(table, board, name) :
              Table_(f) # "boards" /\ Table_(f[3]) = "boards"
BY RowParts, KeyParts DEF BoardFile, :>

SocFamilies == {"BCM2710", "BCM2711", "Allwinner H3", "Rockchip RK3399"}

LEMMA BoardSeedSettles == \A db : SeedBoards_(SeedBoards_(db)) = SeedBoards_(db)
<1> TAKE db
<1> DEFINE none(n) == NoRefs_
           socs == Rows("soc_families", SocFamilies, none)
           soc(x) == Lookup(x, "soc_family", Row("soc_families", "BCM2710"))
           rpi == BoardFile("board_revisions", "rpi-zero-2w", "1.0")
           with(x) == [k \in DOMAIN rpi |-> rpi[k] @@ soc(x)]
           generic == BoardFile("board_revisions", "qemu-x86_64", "generic")
           revisions(x) == with(x) @@ generic
           f1 == BoardFile("board_firmware", "rpi-zero-2w", "start4.elf")
           f2 == BoardFile("board_device_trees", "rpi-zero-2w", "bcm2710.dtb")
           f3 == BoardFile("board_flash_methods", "rpi-zero-2w", "dd")
           f4 == BoardFile("board_flash_methods", "qemu-x86_64", "qemu-img")
           f5 == BoardFile("board_test_methods", "qemu-x86_64", "qemu-x86_64")
           f6 == BoardFile("board_probe_profiles", "qemu-x86_64", "dmi")
           bsp == f1 @@ f2 @@ f3 @@ f4 @@ f5 @@ f6
           keys == DOMAIN rpi \cup DOMAIN generic
           one   == SeedSocFamilies(db)
           two   == SeedBoardRevisions(one)
           three == SeedBoardBsp(two)
<1>1. /\ \A x : SeedSocFamilies(x) = Insert_(x, socs)
      /\ \A x : SeedBoardRevisions(x) = Insert_(x, OfBoards(x, revisions(x)))
      /\ \A x : SeedBoardBsp(x) = Insert_(x, OfBoards(x, bsp))
  BY DEF SeedSocFamilies, SeedBoardRevisions, SeedBoardBsp, SocFamilies
<1>2. \A f \in keys : Table_(f) # "boards" /\ Table_(f[3]) = "boards"
  BY FileKey
<1>3. \A x : DOMAIN revisions(x) = keys
  BY DEF @@
<1>4. \A f \in DOMAIN bsp : Table_(f) # "boards" /\ Table_(f[3]) = "boards"
  <2>1. /\ \A f \in DOMAIN f1 : Table_(f) # "boards" /\ Table_(f[3]) = "boards"
        /\ \A f \in DOMAIN f2 : Table_(f) # "boards" /\ Table_(f[3]) = "boards"
        /\ \A f \in DOMAIN f3 : Table_(f) # "boards" /\ Table_(f[3]) = "boards"
        /\ \A f \in DOMAIN f4 : Table_(f) # "boards" /\ Table_(f[3]) = "boards"
        /\ \A f \in DOMAIN f5 : Table_(f) # "boards" /\ Table_(f[3]) = "boards"
        /\ \A f \in DOMAIN f6 : Table_(f) # "boards" /\ Table_(f[3]) = "boards"
    BY FileKey
  <2> HIDE DEF f1, f2, f3, f4, f5, f6
  <2> QED
    BY <2>1 DEF @@
<1> HIDE DEF revisions, bsp, keys
<1>5. /\ IsMap(one) /\ DOMAIN socs \subseteq DOMAIN one
      /\ \A x : DOMAIN socs \subseteq DOMAIN x /\ IsMap(x) => SeedSocFamilies(x) = x
  BY <1>1, InsertSettles
<1> HIDE DEF socs, one
<1>6. \A x : HasFiles(x, keys) /\ IsMap(x) => SeedBoardRevisions(x) = x
  BY <1>1, <1>2, <1>3, FilesSettle
<1>7. /\ HasFiles(two, keys) /\ DOMAIN one \subseteq DOMAIN two
  BY <1>1, <1>2, <1>3, FilesSettle
<1> HIDE DEF two
<1>8. \A x : HasFiles(x, DOMAIN bsp) /\ IsMap(x) => SeedBoardBsp(x) = x
  BY <1>1, <1>4, FilesSettle
<1>9. /\ IsMap(three) /\ HasFiles(three, DOMAIN bsp) /\ DOMAIN two \subseteq DOMAIN three
      /\ \A k \in DOMAIN three \ DOMAIN two : Table_(k) # "boards"
  BY <1>1, <1>4, FilesSettle
<1>10. \A x : SeedBoards_(x) = SeedBoardBsp(SeedBoardRevisions(SeedSocFamilies(x)))
  BY DEF SeedBoards_
<1>11. SeedBoards_(db) = three
  BY <1>10 DEF one, two
<1> HIDE DEF three
<1>12. HasFiles(three, keys)
  BY <1>2, <1>7, <1>9, FilesStay
<1>13. DOMAIN socs \subseteq DOMAIN three
  BY <1>5, <1>7, <1>9
<1> QED
  BY <1>5, <1>6, <1>8, <1>9, <1>10, <1>11, <1>12, <1>13

\* A command that runs twice.
LEMMA CommandedSettles ==
    ASSUME NEW db, NEW c \in Commands
    PROVE  Commanded(Commanded(db, c), c) = Commanded(db, c)
<1>1. CASE c \in {"architectures", "boards", "toolchains", "distributions"}
  BY <1>1, ImportsSettle DEF Commanded
<1>2. CASE c \in {"kernels", "firmware"}
  BY <1>2, ImportKernelsSettles, ImportFirmwareSettles DEF Commanded
<1>3. CASE c \in {"board seed", "boot-chain seed", "initramfs seed"}
  BY <1>3, BoardSeedSettles, BootChainsSettle, InitramfsSettle DEF Commanded
<1> QED
  BY <1>1, <1>2, <1>3 DEF Commands

\* A seeding revision or command that runs twice on a numbered database.
LEMMA NumberedSettle == IsNumbered(catalogue) => SeedsSettle
<1> SUFFICES ASSUME IsNumbered(catalogue) PROVE SeedsSettle
  OBVIOUS
<1>1. \A r \in SeedRevisions :
         Upgraded(Upgraded(catalogue, r, shipped), r, shipped)
           = Upgraded(catalogue, r, shipped)
  BY UpgradedSettles
<1>2. \A c \in Commands :
         Commanded(Commanded(catalogue, c), c) = Commanded(catalogue, c)
  BY CommandedSettles
<1> QED
  BY <1>1, <1>2 DEF SeedsSettle

\* "Idempotent", the docstrings of the seeds say: of whatever database there is
\* by then, rows replaced by documents among it, a seeding revision or command
\* that runs a second time leaves what the first run left. So it does of the
\* empty database, at which the run of the property does not look (seed_data.py).
THEOREM SeedsAreIdempotent == CatalogueSpec => [](SeedsSettle /\ CatalogueSettles)
<1>1. CatalogueInv => SeedsSettle /\ CatalogueSettles
  <2>1. CatalogueInv => IsNumbered(catalogue)
    BY DEF CatalogueInv, Orderly, IsNumbered
  <2> QED
    BY <2>1, NumberedSettle DEF CatalogueSettles
<1> QED
  BY <1>1, CatalogueStart, CatalogueStep, PTL DEF CatalogueSpec
=============================================================================
