------------------------- MODULE SeedsPlansProofs -------------------------
(***************************************************************************)
(* That the profiles the seeds make have plans that can be built, however  *)
(* a database came to them: what every row of the catalogue's files and of *)
(* the reference distributions is made of (Fitting), that seeds, revisions *)
(* and commands keep to it, and that requests either leave it alone or     *)
(* count as a user's.                                                      *)
(***************************************************************************)
EXTENDS SeedsProofs

-----------------------------------------------------------------------------
(* What the plans of reference profiles are made of.                       *)

\* The tables a plan is made from.
Stock == {"boards", "toolchains", "kernels", "profiles", "package_versions",
          "package_group_members", "package_set_members"}

PartTables == {"boards", "toolchains", "kernels"}

\* The rows of the files and of packages, and the profiles no user has touched.
Fitting(db, users) ==
    /\ \A k \in DOMAIN db : RowFits(db, k)
    /\ \A p \in Of(db, "profiles") \ users : ProfileFits(db, p)

\* A profile without a parent is the whole of its chain.
LEMMA NoParentChain ==
    ASSUME NEW db, NEW p, Parent(db, p) = {}
    PROVE  ProfileChain(db, p) = <<p>>
<1> DEFINE grown(so_far, n) ==
              LET next == (Parent(db, so_far[Len(so_far)]) \cap DOMAIN db)
                          \ {so_far[i] : i \in DOMAIN so_far}
              IN IF Len(so_far) < n \/ next = {} THEN so_far
                 ELSE Append(so_far, CHOOSE q \in next : TRUE)
           body(g, n) == IF n = 0 THEN <<p>> ELSE grown(g[n - 1], n)
           IsChain(g) == g = [n \in 0..MaxInheritDepth |-> body(g, n)]
           chain == CHOOSE g : IsChain(g)
           only  == [n \in 0..MaxInheritDepth |-> <<p>>]
<1>1. ProfileChain(db, p) = chain[MaxInheritDepth]
  BY DEF ProfileChain
<1> HIDE DEF chain, IsChain, only, body
<1>2. Parent(db, <<p>>[Len(<<p>>)]) = {}
  OBVIOUS
<1>3. \A n : grown(<<p>>, n) = <<p>>
  BY <1>2
<1> HIDE DEF grown
<1>4. \A g : body(g, 0) = <<p>>
  BY DEF body
<1>5. \A g : \A n \in 1..32 : g[n - 1] = <<p>> => body(g, n) = <<p>>
  BY <1>3 DEF body
<1>6. \A g : IsChain(g) => \A n \in 0..32 : g[n] = body(g, n)
  BY DEF IsChain, MaxInheritDepth
<1>7. ASSUME NEW n \in 1..32
      PROVE  only[n - 1] = <<p>>
  <2>1. n - 1 \in 0..MaxInheritDepth
    BY DEF MaxInheritDepth
  <2> QED
    BY <2>1 DEF only
<1>8. ASSUME NEW n \in 0..32
      PROVE  body(only, n) = <<p>>
  <2>1. CASE n = 0
    BY <1>4, <2>1
  <2>2. CASE n # 0
    <3>1. n \in 1..32
      BY <2>2
    <3>2. only[n - 1] = <<p>>
      BY <1>7, <3>1
    <3> QED
      BY <1>5, <3>1, <3>2
  <2> QED
    BY <2>1, <2>2
<1>9. IsChain(only)
  BY <1>8 DEF IsChain, only, MaxInheritDepth
<1>10. IsChain(chain)
  BY <1>9 DEF chain
<1>11. chain[0] = <<p>> /\ \A n \in 1..32 : chain[n - 1] = <<p>> => chain[n] = <<p>>
  <2>1. \A n \in 0..32 : chain[n] = body(chain, n)
    BY <1>6, <1>10
  <2>2. chain[0] = <<p>>
    BY <1>4, <2>1
  <2>3. ASSUME NEW n \in 1..32, chain[n - 1] = <<p>>
        PROVE  chain[n] = <<p>>
    <3>1. body(chain, n) = <<p>>
      BY <1>5, <2>3
    <3>2. n \in 0..32
      OBVIOUS
    <3> QED
      BY <2>1, <3>1, <3>2
  <2> QED
    BY <2>2, <2>3
<1>12. chain[8] = <<p>>
  BY <1>11
<1>13. chain[16] = <<p>>
  BY <1>11, <1>12
<1>14. chain[24] = <<p>>
  BY <1>11, <1>13
<1>15. chain[32] = <<p>>
  BY <1>11, <1>14
<1> QED
  BY <1>1, <1>15 DEF MaxInheritDepth

LEMMA PicksItsOwn ==
    ASSUME NEW db, NEW p, "inherits" \notin DOMAIN db[p], NEW column,
           NEW t \in Pick(db, p, column)
    PROVE  column \in DOMAIN db[p] /\ t = db[p][column]
<1>1. ProfileChain(db, p) = <<p>>
  BY NoParentChain DEF Parent, Has
<1> QED
  BY <1>1 DEF Pick, Has

\* What a fitting database makes of an untouched profile.
LEMMA FittingPlans ==
    ASSUME NEW p \in Of(catalogue, "profiles") \ touched,
           Fitting(catalogue, touched),
           Name(catalogue[p]["distribution"]) # "ocultum",
           NEW b \in Pick(catalogue, p, "board"), NEW a \in ArchOf(catalogue, b)
    PROVE  /\ \A t \in Pick(catalogue, p, "toolchain")
                          \cup Pick(catalogue, p, "kernel") :
                 ArchOf(catalogue, t) = {a}
           /\ \A s \in Pick(catalogue, p, "package_set") :
                 PackagesFromSet(catalogue, s, a) = MembersOf(catalogue, s)
<1> DEFINE d == catalogue[p]["distribution"]
<1>1. ProfileFits(catalogue, p) /\ \A k \in DOMAIN catalogue : PackageFits(catalogue, k)
  BY DEF Fitting, RowFits
<1>2. \A column : \A t \in Pick(catalogue, p, column) :
         column \in DOMAIN catalogue[p] /\ t = catalogue[p][column]
  BY <1>1, PicksItsOwn DEF ProfileFits
<1>3. \A column \in Parts :
         \A t \in Pick(catalogue, p, column) : ArchOf(catalogue, t) = {Home(Name(d))}
  BY <1>1, <1>2 DEF ProfileFits
<1>4. a = Home(Name(d))
  BY <1>3 DEF Parts
<1>5. ASSUME NEW s \in Pick(catalogue, p, "package_set"),
             NEW q \in MembersOf(catalogue, s)
      PROVE  q \in PackagesFromSet(catalogue, s, a)
  <2>1. s[3] = d
    BY <1>1, <1>2 DEF ProfileFits
  <2>2. PICK n \in Of(catalogue, "package_group_members") :
           /\ q = catalogue[n]["package"]
           /\ \E m \in Of(catalogue, "package_set_members") :
                /\ Refers(catalogue, m, "set", s)
                /\ catalogue[m]["group"] = catalogue[n]["group"]
    BY DEF MembersOf
  <2>3. PICK m \in Of(catalogue, "package_set_members") :
           /\ Refers(catalogue, m, "set", s)
           /\ catalogue[m]["group"] = catalogue[n]["group"]
    BY <2>2
  <2>4. m[3] = s /\ catalogue[m]["group"] = m[2] /\ m[2][3] = d
    <3>1. /\ PackageFits(catalogue, m) /\ Table_(m) = "package_set_members"
          /\ Refers(catalogue, m, "set", s)
      BY <1>1, <2>3 DEF Of
    <3>2. m[3] = s /\ catalogue[m]["group"] = m[2]
      BY <3>1 DEF PackageFits, ReadsAsItsId, Refers
    <3>3. Name(m[3][3]) \in Buildable
      BY <1>1, <2>1, <3>2 DEF ProfileFits
    <3> QED
      BY <2>1, <3>1, <3>2, <3>3 DEF PackageFits
  <2>5. /\ catalogue[n]["group"] = n[3]
        /\ q = Row("packages", n[2])
        /\ Name(n[3][3]) \in Buildable =>
             Key("package_versions", n[2], Home(Name(n[3][3]))) \in DOMAIN catalogue
    BY <1>1, <2>2 DEF PackageFits, ReadsAsItsId, Of, Refers
  <2>6. n[3][3] = d /\ Name(d) \in Buildable
    BY <1>1, <2>3, <2>4, <2>5 DEF ProfileFits
  <2> DEFINE v == Key("package_versions", n[2], a)
  <2>7. v \in Of(catalogue, "package_versions") /\ v[2] = n[2] /\ v[3] = a
    BY <1>4, <2>5, <2>6, KeyParts DEF Of, Key
  <2>8. Refers(catalogue, v, "package", q) /\ catalogue[v]["arch"] = a
    BY <1>1, <2>5, <2>7 DEF PackageFits, ReadsAsItsId, Of, Refers
  <2> QED
    BY <2>7, <2>8 DEF PackagesFromSet
<1> QED
  BY <1>3, <1>4, <1>5 DEF PackagesFromSet, Parts

-----------------------------------------------------------------------------
(* Rows that are added.                                                    *)

\* A profile that stays as it is, where what it names keeps its architecture.
LEMMA ProfileStays ==
    ASSUME NEW db, NEW b, NEW p, ProfileFits(db, p), b[p] = db[p],
           \A k, a : Table_(k) \in PartTables /\ ArchOf(db, k) = {a} =>
                       ArchOf(b, k) = {a}
    PROVE  ProfileFits(b, p)
<1> DEFINE d == db[p]["distribution"]
<1>1. ASSUME Name(d) # "ocultum", NEW c \in Parts \cap DOMAIN b[p]
      PROVE  /\ ArchOf(b, b[p][c]) = {Home(Name(d))}
             /\ Table_(b[p][c]) \in PartTables
  <2>1. /\ ArchOf(db, db[p][c]) = {Home(Name(d))}
        /\ Table_(db[p][c]) \in PartTables
    BY <1>1 DEF ProfileFits, PartTables
  <2> QED
    BY <2>1
<1> QED
  BY <1>1 DEF ProfileFits

LEMMA InsertFits ==
    ASSUME NEW db, NEW users, Fitting(db, users), NEW new,
           \A k \in DOMAIN new \ DOMAIN db :
              Table_(k) # "profiles" /\ RowFits(Insert_(db, new), k)
    PROVE  Fitting(Insert_(db, new), users)
<1> DEFINE b == Insert_(db, new)
<1>1. /\ DOMAIN b = DOMAIN db \cup DOMAIN new
      /\ \A k \in DOMAIN db : b[k] = db[k]
  BY InsertIs
<1> HIDE DEF b
<1>2. \A k \in DOMAIN db : RowFits(b, k)
  BY <1>1 DEF Fitting, RowFits, BaseFits, PackageFits, ReadsAsItsId, HasArch, Refers, Has
<1>3. \A k, a : ArchOf(db, k) = {a} => ArchOf(b, k) = {a}
  BY <1>1 DEF ArchOf, Has
<1>4. \A p \in Of(b, "profiles") \ users : p \in Of(db, "profiles") \ users /\ b[p] = db[p]
  BY <1>1 DEF Of, b
<1>5. \A p \in Of(b, "profiles") \ users : ProfileFits(b, p)
  BY <1>3, <1>4, ProfileStays DEF Fitting
<1> QED
  BY <1>1, <1>2, <1>5 DEF Fitting, b

LEMMA OthersFit ==
    ASSUME NEW db, NEW users, Fitting(db, users), NEW new,
           \A k \in DOMAIN new : Table_(k) \notin Stock
    PROVE  Fitting(Insert_(db, new), users)
<1>1. \A k \in DOMAIN new :
         Table_(k) # "profiles" /\ RowFits(Insert_(db, new), k)
  BY DEF Stock, RowFits, BaseFits, PackageFits, ReadsAsItsId
<1> QED
  BY <1>1, InsertFits

-----------------------------------------------------------------------------
(* The base catalogue and the commands.                                    *)

LEMMA ClassesFit ==
    \A db, users : Fitting(db, users) => Fitting(SeedDistributionClasses(db), users)
<1> TAKE db, users
<1> DEFINE none(n) == NoRefs_
           new == Rows("distribution_classes", Classes, none)
<1>1. \A k \in DOMAIN new : Table_(k) \notin Stock
  BY RowParts DEF Rows, Stock
<1> QED
  BY <1>1, OthersFit DEF SeedDistributionClasses

LEMMA ArchitecturesFit ==
    \A db, users : Fitting(db, users) => Fitting(SeedArchitectures(db), users)
<1> TAKE db, users
<1> DEFINE none(n) == NoRefs_
           new == Rows("architectures", Architectures, none)
<1>1. \A k \in DOMAIN new : Table_(k) \notin Stock
  BY RowParts DEF Rows, Stock
<1> QED
  BY <1>1, OthersFit DEF SeedArchitectures

\* An architecture that is looked up and found.
LEMMA ArchFound ==
    ASSUME NEW db, NEW a, ArchRef(db, a) # NoRefs_
    PROVE  /\ DOMAIN ArchRef(db, a) = {"arch"}
           /\ ArchRef(db, a)["arch"] = Row("architectures", a)
BY DEF ArchRef, Lookup, :>

LEMMA BoardsFit ==
    \A db, users : Fitting(db, users) => Fitting(SeedBoards(db), users)
<1> SUFFICES ASSUME NEW db, NEW users, Fitting(db, users)
             PROVE  Fitting(SeedBoards(db), users)
  OBVIOUS
<1> DEFINE refs(n) == ArchRef(db, BoardArch[n])
           new == WithArch(db, "boards", BoardArch, refs)
           b == Insert_(db, new)
<1>1. \A k \in DOMAIN new :
         /\ Table_(k) = "boards" /\ refs(Name(k)) # NoRefs_
         /\ new[k] = refs(Name(k))
  BY RowParts DEF WithArch, Rows
<1> HIDE DEF new
<1>2. \A k \in DOMAIN new \ DOMAIN db : k \in DOMAIN b /\ b[k] = new[k]
  BY DEF Insert_, @@
<1> HIDE DEF b
<1>3. \A k \in DOMAIN new \ DOMAIN db : HasArch(b, k, BoardArch[Name(k)])
  BY <1>1, <1>2, ArchFound DEF HasArch, Refers, Has
<1>4. \A k \in DOMAIN new \ DOMAIN db : Table_(k) # "profiles" /\ RowFits(b, k)
  BY <1>1, <1>3 DEF RowFits, BaseFits, PackageFits, ReadsAsItsId
<1> QED
  BY <1>4, InsertFits DEF SeedBoards, b, new

LEMMA ToolchainsFit ==
    \A db, users : Fitting(db, users) => Fitting(SeedToolchains(db), users)
<1> SUFFICES ASSUME NEW db, NEW users, Fitting(db, users)
             PROVE  Fitting(SeedToolchains(db), users)
  OBVIOUS
<1> DEFINE refs(n) == ArchRef(db, ToolchainArch[n])
           new == WithArch(db, "toolchains", ToolchainArch, refs)
           b == Insert_(db, new)
<1>1. \A k \in DOMAIN new :
         /\ Table_(k) = "toolchains" /\ refs(Name(k)) # NoRefs_
         /\ new[k] = refs(Name(k))
  BY RowParts DEF WithArch, Rows
<1> HIDE DEF new
<1>2. \A k \in DOMAIN new \ DOMAIN db : k \in DOMAIN b /\ b[k] = new[k]
  BY DEF Insert_, @@
<1> HIDE DEF b
<1>3. \A k \in DOMAIN new \ DOMAIN db : HasArch(b, k, ToolchainArch[Name(k)])
  BY <1>1, <1>2, ArchFound DEF HasArch, Refers, Has
<1>4. \A k \in DOMAIN new \ DOMAIN db : Table_(k) # "profiles" /\ RowFits(b, k)
  BY <1>1, <1>3 DEF RowFits, BaseFits, PackageFits, ReadsAsItsId
<1> QED
  BY <1>4, InsertFits DEF SeedToolchains, b, new

LEMMA KernelsFit ==
    \A db, users : Fitting(db, users) => Fitting(SeedKernels(db), users)
<1> SUFFICES ASSUME NEW db, NEW users, Fitting(db, users)
             PROVE  Fitting(SeedKernels(db), users)
  OBVIOUS
<1> DEFINE arch(n) == ArchRef(db, Kernels[n].arch)
           board(n) == Lookup(db, "board", Row("boards", Kernels[n].board))
           refs(n) == arch(n) @@ board(n)
           new == WithArch(db, "kernels", KernelArch, refs)
           b == Insert_(db, new)
<1>1. \A k \in DOMAIN new :
         /\ Table_(k) = "kernels" /\ new[k] = refs(Name(k))
         /\ KernelArch[Name(k)] = Kernels[Name(k)].arch
         /\ arch(Name(k)) # NoRefs_
  BY RowParts DEF WithArch, Rows, KernelArch
<1> HIDE DEF new
<1>2. \A k \in DOMAIN new \ DOMAIN db : k \in DOMAIN b /\ b[k] = new[k]
  BY DEF Insert_, @@
<1>3. \A n : arch(n) # NoRefs_ =>
         /\ "arch" \in DOMAIN refs(n)
         /\ refs(n)["arch"] = Row("architectures", Kernels[n].arch)
  <2> SUFFICES ASSUME NEW n, arch(n) # NoRefs_
               PROVE  /\ "arch" \in DOMAIN refs(n)
                      /\ refs(n)["arch"] = Row("architectures", Kernels[n].arch)
    OBVIOUS
  <2>1. /\ DOMAIN arch(n) = {"arch"}
        /\ arch(n)["arch"] = Row("architectures", Kernels[n].arch)
    BY ArchFound
  <2> HIDE DEF arch, board
  <2> QED
    BY <2>1 DEF @@
<1>4. SeedKernels(db) = b
  BY DEF SeedKernels, new
<1> HIDE DEF b, refs, arch
<1>5. \A k \in DOMAIN new \ DOMAIN db : HasArch(b, k, KernelArch[Name(k)])
  BY <1>1, <1>2, <1>3 DEF HasArch, Refers, Has
<1>6. \A k \in DOMAIN new \ DOMAIN db : Table_(k) # "profiles" /\ RowFits(b, k)
  BY <1>1, <1>5 DEF RowFits, BaseFits, PackageFits, ReadsAsItsId
<1> QED
  BY <1>4, <1>6, InsertFits DEF b

LEMMA BaseCatalogFits ==
    ASSUME NEW db, NEW users, Fitting(db, users), NEW kernels, NEW files
    PROVE  Fitting(BaseCatalog(db, kernels, files), users)
<1> DEFINE one   == SeedArchitectures(db)
           two   == SeedBoards(one)
           three == SeedToolchains(two)
<1>1. \/ BaseCatalog(db, kernels, files) = SeedKernels(three)
      \/ BaseCatalog(db, kernels, files) = three
      \/ BaseCatalog(db, kernels, files) = db
  BY DEF BaseCatalog
<1>2. Fitting(one, users)
  BY ArchitecturesFit
<1>3. Fitting(two, users)
  BY <1>2, BoardsFit
<1>4. Fitting(three, users)
  BY <1>3, ToolchainsFit
<1>5. Fitting(SeedKernels(three), users)
  BY <1>4, KernelsFit
<1> QED
  BY <1>1, <1>4, <1>5

LEMMA DistributionsFit ==
    ASSUME NEW db, NEW users, Fitting(db, users), NEW refs
    PROVE  Fitting(GetOrCreateDistributions(db, refs), users)
<1> DEFINE names == {n \in DOMAIN refs : Named(db, n) = {}}
           new == [k \in {NewId(db, "distributions", n) : n \in names} |->
                      refs[Name(k)]]
<1>1. \A k \in DOMAIN new : Table_(k) \notin Stock
  BY NewIdParts DEF Stock
<1> QED
  BY <1>1, OthersFit DEF GetOrCreateDistributions

LEMMA ImportKernelsFits ==
    ASSUME NEW db, NEW users, Fitting(db, users)
    PROVE  Fitting(ImportKernels(db), users)
<1> DEFINE names == {n \in DOMAIN Kernels : Row("kernels", n) \notin DOMAIN db}
           arch(n) == ArchRef(db, Kernels[n].arch)
           config(n) == "kernel" :> Row("kernels", n)
                        @@ "board" :> Row("boards", Kernels[n].board)
           rows == Rows("kernels", names, arch)
           configs == Rows("kernel_configs", names, config)
           new == rows @@ configs
           b == Insert_(db, new)
<1>1. \/ ImportKernels(db) = db
      \/ /\ ImportKernels(db) = b
         /\ AllThere(db, "architectures", {Kernels[n].arch : n \in names})
  BY DEF ImportKernels
<1>2. SUFFICES ASSUME AllThere(db, "architectures", {Kernels[n].arch : n \in names})
               PROVE  Fitting(b, users)
  BY <1>1
<1>3. \A n \in names : /\ DOMAIN arch(n) = {"arch"}
                       /\ arch(n)["arch"] = Row("architectures", Kernels[n].arch)
                       /\ KernelArch[n] = Kernels[n].arch
  BY <1>2 DEF AllThere, ArchRef, Lookup, KernelArch, :>
<1>4. \A k \in DOMAIN rows :
         /\ Table_(k) = "kernels" /\ Name(k) \in names /\ rows[k] = arch(Name(k))
  BY RowParts DEF Rows
<1>5. \A k \in DOMAIN configs : Table_(k) = "kernel_configs"
  BY RowParts DEF Rows
<1> HIDE DEF rows, configs, arch, names
<1>6. /\ DOMAIN new = DOMAIN rows \cup DOMAIN configs
      /\ \A k \in DOMAIN rows : new[k] = rows[k]
  BY DEF @@
<1> HIDE DEF new
<1>7. \A k \in DOMAIN new \ DOMAIN db : k \in DOMAIN b /\ b[k] = new[k]
  BY DEF Insert_, @@
<1> HIDE DEF b
<1>8. \A k \in DOMAIN new \ DOMAIN db :
         Table_(k) = "kernels" => HasArch(b, k, KernelArch[Name(k)])
  BY <1>3, <1>4, <1>5, <1>6, <1>7 DEF HasArch, Refers, Has
<1>9. \A k \in DOMAIN new \ DOMAIN db : Table_(k) # "profiles" /\ RowFits(b, k)
  BY <1>4, <1>5, <1>6, <1>8 DEF RowFits, BaseFits, PackageFits, ReadsAsItsId
<1> QED
  BY <1>9, InsertFits DEF b

LEMMA ImportsFit ==
    ASSUME NEW db, NEW users, Fitting(db, users)
    PROVE  /\ Fitting(ImportArchitectures(db), users)
           /\ Fitting(ImportBoards(db), users)
           /\ Fitting(ImportToolchains(db), users)
           /\ Fitting(ImportDistributions(db), users)
BY ArchitecturesFit, BoardsFit, ToolchainsFit, DistributionsFit
   DEF ImportArchitectures, ImportBoards, ImportToolchains, ImportDistributions

LEMMA BoardFileTable ==
    \A table, board, name : \A k \in DOMAIN BoardFile(table, board, name) :
       Table_(k) = table
BY KeyParts DEF BoardFile, :>

\* Nothing of what these commands seed is in a plan.
LEMMA BoardSeedFits ==
    ASSUME NEW db, NEW users, Fitting(db, users)
    PROVE  Fitting(SeedBoards_(db), users)
<1> DEFINE none(n) == NoRefs_
           names == {"BCM2710", "BCM2711", "Allwinner H3", "Rockchip RK3399"}
           socs == Rows("soc_families", names, none)
           one == SeedSocFamilies(db)
           two == SeedBoardRevisions(one)
<1>1. Fitting(one, users)
  <2>1. one = Insert_(db, socs)
    BY DEF SeedSocFamilies
  <2> HIDE DEF names
  <2>2. \A k \in DOMAIN socs : Table_(k) \notin Stock
    BY RowParts DEF Rows, Stock
  <2> QED
    BY <2>1, <2>2, OthersFit
<1> HIDE DEF one
<1>2. Fitting(two, users)
  <2> DEFINE soc == Lookup(one, "soc_family", Row("soc_families", "BCM2710"))
             rpi == BoardFile("board_revisions", "rpi-zero-2w", "1.0")
             generic == BoardFile("board_revisions", "qemu-x86_64", "generic")
             files == [k \in DOMAIN rpi |-> rpi[k] @@ soc] @@ generic
  <2>1. \A k \in DOMAIN files : Table_(k) \notin Stock
    BY BoardFileTable DEF @@, Stock
  <2>2. two = Insert_(one, OfBoards(one, files))
    BY DEF SeedBoardRevisions
  <2> HIDE DEF files
  <2>3. \A k \in DOMAIN OfBoards(one, files) : Table_(k) \notin Stock
    BY <2>1 DEF OfBoards
  <2> QED
    BY <1>1, <2>2, <2>3, OthersFit
<1> HIDE DEF two
<1>3. Fitting(SeedBoardBsp(two), users)
  <2> DEFINE f1 == BoardFile("board_firmware", "rpi-zero-2w", "start4.elf")
             f2 == BoardFile("board_device_trees", "rpi-zero-2w", "bcm2710.dtb")
             f3 == BoardFile("board_flash_methods", "rpi-zero-2w", "dd")
             f4 == BoardFile("board_flash_methods", "qemu-x86_64", "qemu-img")
             f5 == BoardFile("board_test_methods", "qemu-x86_64", "qemu-x86_64")
             f6 == BoardFile("board_probe_profiles", "qemu-x86_64", "dmi")
             files == f1 @@ f2 @@ f3 @@ f4 @@ f5 @@ f6
  <2>1. /\ \A k \in DOMAIN f1 : Table_(k) \notin Stock
        /\ \A k \in DOMAIN f2 : Table_(k) \notin Stock
        /\ \A k \in DOMAIN f3 : Table_(k) \notin Stock
        /\ \A k \in DOMAIN f4 : Table_(k) \notin Stock
        /\ \A k \in DOMAIN f5 : Table_(k) \notin Stock
        /\ \A k \in DOMAIN f6 : Table_(k) \notin Stock
    BY BoardFileTable DEF Stock
  <2>2. SeedBoardBsp(two) = Insert_(two, OfBoards(two, files))
    BY DEF SeedBoardBsp
  <2> HIDE DEF f1, f2, f3, f4, f5, f6
  <2>3. \A k \in DOMAIN files : Table_(k) \notin Stock
    BY <2>1 DEF @@
  <2> HIDE DEF files
  <2>4. \A k \in DOMAIN OfBoards(two, files) : Table_(k) \notin Stock
    BY <2>3 DEF OfBoards
  <2> QED
    BY <1>2, <2>2, <2>4, OthersFit
<1> QED
  BY <1>3 DEF SeedBoards_, one, two

LEMMA BootChainsFit ==
    ASSUME NEW db, NEW users, Fitting(db, users)
    PROVE  Fitting(SeedBootChains(db), users)
<1> DEFINE scheme(n) == "boot_scheme" :> Row("boot_schemes", ChainSchemes[n])
           names == {n \in DOMAIN ChainSchemes :
                        Row("boot_chains", n) \notin DOMAIN db}
           chain(n) == "boot_chain" :> Row("boot_chains", n)
           bound(n) ==
               "boot_chain" :> Row("boot_chains", "uboot_extlinux")
               @@ "board" :> Row("boards", "rpi4")
           chains == Rows("boot_chains", names, scheme)
           files  == Rows("boot_chain_files", names, chain)
           boards == Rows("boot_chain_bindings", {"rpi4"}, bound)
           new    == chains @@ files @@ boards
<1>1. SeedBootChains(db) = Insert_(db, new)
  BY DEF SeedBootChains
<1> HIDE DEF names, scheme, chain, bound
<1>2. /\ \A k \in DOMAIN chains : Table_(k) \notin Stock
      /\ \A k \in DOMAIN files : Table_(k) \notin Stock
      /\ \A k \in DOMAIN boards : Table_(k) \notin Stock
  BY RowParts DEF Rows, Stock
<1> HIDE DEF chains, files, boards
<1>3. \A k \in DOMAIN new : Table_(k) \notin Stock
  BY <1>2 DEF @@
<1> QED
  BY <1>1, <1>3, OthersFit

LEMMA InitramfsFit ==
    ASSUME NEW db, NEW users, Fitting(db, users)
    PROVE  Fitting(SeedInitramfsProfiles(db), users)
<1> DEFINE none(n) == NoRefs_
           names == {n \in {"minimal-busybox", "recovery-full", "encrypted-root",
                            "network-boot", "debug-shell"} :
                        Row("initramfs_profiles", n) \notin DOMAIN db}
           parts(n) == "profile" :> Row("initramfs_profiles", n)
           profiles == Rows("initramfs_profiles", names, none)
           packages == Rows("initramfs_packages", names, parts)
           new == profiles @@ packages
<1>1. SeedInitramfsProfiles(db) = Insert_(db, new)
  BY DEF SeedInitramfsProfiles
<1> HIDE DEF names, parts
<1>2. /\ \A k \in DOMAIN profiles : Table_(k) \notin Stock
      /\ \A k \in DOMAIN packages : Table_(k) \notin Stock
  BY RowParts DEF Rows, Stock
<1> HIDE DEF profiles, packages
<1>3. \A k \in DOMAIN new : Table_(k) \notin Stock
  BY <1>2 DEF @@
<1> QED
  BY <1>1, <1>3, OthersFit

LEMMA CommandedFits ==
    ASSUME NEW db, NEW users, Fitting(db, users), NEW c \in Commands
    PROVE  Fitting(Commanded(db, c), users)
<1>1. CASE c \in {"architectures", "boards", "toolchains", "distributions"}
  BY <1>1, ImportsFit DEF Commanded
<1>2. CASE c = "kernels"
  BY <1>2, ImportKernelsFits DEF Commanded
<1>3. CASE c = "firmware"
  <2> DEFINE blob == BoardFile("firmware_blobs", "rpi-zero-2w", "start4.elf")
  <2>1. \A k \in DOMAIN blob : Table_(k) \notin Stock
    BY BoardFileTable DEF Stock
  <2>2. Commanded(db, c) = Insert_(db, blob) \/ Commanded(db, c) = db
    BY <1>3 DEF Commanded, ImportFirmware
  <2> HIDE DEF blob
  <2> QED
    BY <2>1, <2>2, OthersFit
<1>4. CASE c \in {"board seed", "boot-chain seed", "initramfs seed"}
  BY <1>4, BoardSeedFits, BootChainsFit, InitramfsFit DEF Commanded
<1> QED
  BY <1>1, <1>2, <1>3, <1>4 DEF Commands

-----------------------------------------------------------------------------
(* A reference distribution.                                               *)

\* What a document says of its plan: one architecture, known packages, and
\* boards, kernels and toolchains of that architecture.
ForOneArch(doc) ==
    LET home == Home(doc.name) IN
    /\ doc.name \in Buildable
    /\ \E a \in Architectures :
          doc.archs = <<a>> /\ home = Row("architectures", a)
    /\ \A g \in DOMAIN doc.packages.groups :
          doc.packages.groups[g] \subseteq doc.packages.packages
    /\ \A n \in DOMAIN doc.profiles :
          LET p == doc.profiles[n] IN
          /\ \A i \in DOMAIN p.boards :
                /\ p.boards[i] \in DOMAIN BoardArch
                /\ Row("architectures", BoardArch[p.boards[i]]) = home
          /\ \A k \in p.kernels :
                /\ k \in DOMAIN Kernels
                /\ Row("architectures", KernelArch[k]) = home
          /\ p.toolchain \in DOMAIN ToolchainArch
          /\ Row("architectures", ToolchainArch[p.toolchain]) = home
Shipped(doc) == doc.name # "ocultum" => ForOneArch(doc)

LEMMA TinywifiShipped == Shipped(Tinywifi)
<1>1. Tinywifi.name = "tinywifi" /\ Tinywifi.archs = <<"aarch64">>
  BY DEF Tinywifi, Document
<1>2. /\ "tinywifi" \in Buildable
      /\ Home("tinywifi") = Row("architectures", "aarch64")
      /\ "aarch64" \in Architectures
  BY DEF Home, Architectures, Buildable, ClassOf
<1>3. ASSUME NEW g \in DOMAIN TinywifiPackages.groups
      PROVE  TinywifiPackages.groups[g] \subseteq TinywifiPackages.packages
  BY DEF TinywifiPackages, Groups, @@, :>
<1>4. /\ BoardArch["rpi-zero-2w"] = "aarch64" /\ KernelArch["linux-rpi"] = "aarch64"
      /\ ToolchainArch["aarch64-linux-musl-bootlin"] = "aarch64"
      /\ "rpi-zero-2w" \in DOMAIN BoardArch /\ "linux-rpi" \in DOMAIN Kernels
      /\ "aarch64-linux-musl-bootlin" \in DOMAIN ToolchainArch
  BY DEF BoardArch, KernelArch, Kernels, ToolchainArch, @@, :>
<1>5. ASSUME NEW n \in DOMAIN TinywifiProfiles
      PROVE  LET p == TinywifiProfiles[n] IN
             /\ \A i \in DOMAIN p.boards : p.boards[i] = "rpi-zero-2w"
             /\ p.kernels = {"linux-rpi"}
             /\ p.toolchain = "aarch64-linux-musl-bootlin"
  BY DEF TinywifiProfiles, Profile, :>
<1>6. Tinywifi.packages = TinywifiPackages /\ Tinywifi.profiles = TinywifiProfiles
  BY DEF Tinywifi, Document
<1> QED
  BY <1>1, <1>2, <1>3, <1>4, <1>5, <1>6 DEF Shipped, ForOneArch

LEMMA NetosShipped == Shipped(Netos)
<1>1. Netos.name = "netos" /\ Netos.archs = <<"x86_64">>
  BY DEF Netos, Document
<1>2. /\ "netos" \in Buildable
      /\ Home("netos") = Row("architectures", "x86_64")
      /\ "x86_64" \in Architectures
  BY DEF Home, Architectures, Buildable, ClassOf
<1>3. ASSUME NEW g \in DOMAIN NetosPackages.groups
      PROVE  NetosPackages.groups[g] \subseteq NetosPackages.packages
  BY DEF NetosPackages, Groups, @@, :>
<1>4. /\ BoardArch["qemu-x86_64"] = "x86_64"
      /\ ToolchainArch["x86_64-linux-musl-bootlin"] = "x86_64"
      /\ "qemu-x86_64" \in DOMAIN BoardArch
      /\ "x86_64-linux-musl-bootlin" \in DOMAIN ToolchainArch
  BY DEF BoardArch, ToolchainArch, @@, :>
<1>5. ASSUME NEW n \in DOMAIN NetosProfiles
      PROVE  LET p == NetosProfiles[n] IN
             /\ \A i \in DOMAIN p.boards : p.boards[i] = "qemu-x86_64"
             /\ p.kernels = {}
             /\ p.toolchain = "x86_64-linux-musl-bootlin"
  BY DEF NetosProfiles, EachSet, Profile
<1>6. Netos.packages = NetosPackages /\ Netos.profiles = NetosProfiles
  BY DEF Netos, Document
<1> QED
  BY <1>1, <1>2, <1>3, <1>4, <1>5, <1>6 DEF Shipped, ForOneArch

LEMMA TinydeskShipped == Shipped(Tinydesk) /\ Shipped(TinydeskOnAnyBoard)
<1> DEFINE one == "orange-pi-5" :> OrangePi(<<"orange-pi-5", "rpi-zero-2w">>)
           two == "orange-pi-5" :> OrangePi(<<"orange-pi-5">>)
                  @@ "rpi-zero-2w" :> OrangePi(<<"rpi-zero-2w">>)
<1>1. /\ Tinydesk.name = "tinydesk" /\ Tinydesk.archs = <<"aarch64">>
      /\ TinydeskOnAnyBoard.name = "tinydesk"
      /\ TinydeskOnAnyBoard.archs = <<"aarch64">>
  BY DEF Tinydesk, TinydeskOnAnyBoard, Document
<1>2. /\ "tinydesk" \in Buildable
      /\ Home("tinydesk") = Row("architectures", "aarch64")
      /\ "aarch64" \in Architectures
  BY DEF Home, Architectures, Buildable, ClassOf
<1>3. ASSUME NEW g \in DOMAIN TinydeskPackages.groups
      PROVE  TinydeskPackages.groups[g] \subseteq TinydeskPackages.packages
  BY DEF TinydeskPackages, Groups, @@, :>
<1>4. /\ BoardArch["rpi-zero-2w"] = "aarch64" /\ BoardArch["orange-pi-5"] = "aarch64"
      /\ KernelArch["linux-rpi"] = "aarch64"
      /\ ToolchainArch["aarch64-linux-musl-bootlin"] = "aarch64"
      /\ {"rpi-zero-2w", "orange-pi-5"} \subseteq DOMAIN BoardArch
      /\ "linux-rpi" \in DOMAIN Kernels
      /\ "aarch64-linux-musl-bootlin" \in DOMAIN ToolchainArch
  BY DEF BoardArch, KernelArch, Kernels, ToolchainArch, @@, :>
<1>5. ASSUME NEW n \in DOMAIN one
      PROVE  LET p == one[n] IN
             /\ \A i \in DOMAIN p.boards : p.boards[i] \in {"rpi-zero-2w", "orange-pi-5"}
             /\ p.kernels = {"linux-rpi"}
             /\ p.toolchain = "aarch64-linux-musl-bootlin"
  BY DEF OrangePi, Profile, :>
<1>6. ASSUME NEW n \in DOMAIN two
      PROVE  LET p == two[n] IN
             /\ \A i \in DOMAIN p.boards : p.boards[i] \in {"rpi-zero-2w", "orange-pi-5"}
             /\ p.kernels = {"linux-rpi"}
             /\ p.toolchain = "aarch64-linux-musl-bootlin"
  BY DEF OrangePi, Profile, @@, :>
<1>7. /\ Tinydesk.packages = TinydeskPackages /\ Tinydesk.profiles = two
      /\ TinydeskOnAnyBoard.packages = TinydeskPackages
      /\ TinydeskOnAnyBoard.profiles = one
  BY DEF Tinydesk, TinydeskOnAnyBoard, Document
<1> HIDE DEF one, two
<1>8. Shipped(Tinydesk)
  BY <1>1, <1>2, <1>3, <1>4, <1>6, <1>7 DEF Shipped, ForOneArch
<1>9. Shipped(TinydeskOnAnyBoard)
  BY <1>1, <1>2, <1>3, <1>4, <1>5, <1>7 DEF Shipped, ForOneArch
<1> QED
  BY <1>8, <1>9

LEMMA OcultumShipped == Shipped(Ocultum) /\ Shipped(OcultumAnyArch)
BY DEF Shipped, Ocultum, OcultumAnyArch, Document

\* The rows of a document's packages, before they are inserted.
LEMMA PackageRowsAre ==
    ASSUME NEW d, NEW arch, NEW packages
    PROVE  LET rows == PackageRows(d, arch, packages) IN
           /\ \A p \in packages.packages :
                 Key("package_versions", p, arch) \in DOMAIN rows
           /\ \A k \in DOMAIN rows :
                /\ Table_(k) = "package_versions" =>
                     /\ DOMAIN rows[k] = {"package", "arch"}
                     /\ rows[k]["package"] = Row("packages", k[2])
                     /\ rows[k]["arch"] = k[3]
                /\ Table_(k) = "package_set_members" =>
                     /\ DOMAIN rows[k] = {"set", "group"}
                     /\ rows[k]["set"] = k[3] /\ rows[k]["group"] = k[2]
                     /\ k[2][3] = d /\ k[3][3] = d
                /\ Table_(k) = "package_group_members" =>
                     /\ DOMAIN rows[k] = {"group", "package"}
                     /\ rows[k]["group"] = k[3]
                     /\ rows[k]["package"] = Row("packages", k[2])
                     /\ k[3][3] = d
                     /\ \E g \in DOMAIN packages.groups : k[2] \in packages.groups[g]
<1> DEFINE rows == PackageRows(d, arch, packages)
           new1 == [j \in {Row("packages", p) : p \in packages.packages} |-> NoRefs_]
           new2 == [j \in {Key("package_versions", p, arch) :
                              p \in packages.packages} |->
                      "package" :> Row("packages", j[2]) @@ "arch" :> arch]
           new3 == [j \in {Group(g, d) : g \in DOMAIN packages.groups}
                          \cup {Set_(s, d) : s \in DOMAIN packages.sets} |->
                      "distribution" :> d]
           members == UNION {{Key("package_group_members", p, Group(g, d)) :
                                 p \in packages.groups[g]} :
                             g \in DOMAIN packages.groups}
           new4 == [j \in members |->
                      "group" :> j[3] @@ "package" :> Row("packages", j[2])]
           chosen == UNION {{Key("package_set_members", Group(g, d), Set_(s, d)) :
                                 g \in packages.sets[s]} :
                             s \in DOMAIN packages.sets}
           new5 == [j \in chosen |-> "set" :> j[3] @@ "group" :> j[2]]
<1>1. rows = new1 @@ new2 @@ new3 @@ new4 @@ new5
  BY DEF PackageRows
<1>2. \A j \in DOMAIN new1 : Table_(j) = "packages"
  BY RowParts
<1>3. \A j \in DOMAIN new2 :
         /\ Table_(j) = "package_versions" /\ DOMAIN new2[j] = {"package", "arch"}
         /\ new2[j]["package"] = Row("packages", j[2]) /\ new2[j]["arch"] = j[3]
  BY KeyParts DEF @@, :>
<1>4. \A j \in DOMAIN new3 : Table_(j) \in {"package_groups", "package_sets"}
  BY KeyParts DEF Group, Set_
<1>5. \A j \in DOMAIN new4 :
         /\ Table_(j) = "package_group_members" /\ j[3][3] = d
         /\ \E g \in DOMAIN packages.groups : j[2] \in packages.groups[g]
         /\ DOMAIN new4[j] = {"group", "package"}
         /\ new4[j]["group"] = j[3] /\ new4[j]["package"] = Row("packages", j[2])
  <2> SUFFICES ASSUME NEW j \in DOMAIN new4
               PROVE  /\ Table_(j) = "package_group_members" /\ j[3][3] = d
                      /\ \E g \in DOMAIN packages.groups : j[2] \in packages.groups[g]
                      /\ DOMAIN new4[j] = {"group", "package"}
                      /\ new4[j]["group"] = j[3]
                      /\ new4[j]["package"] = Row("packages", j[2])
    OBVIOUS
  <2>1. PICK g \in DOMAIN packages.groups : \E p \in packages.groups[g] :
           j = Key("package_group_members", p, Group(g, d))
    OBVIOUS
  <2>2. PICK p \in packages.groups[g] : j = Key("package_group_members", p, Group(g, d))
    BY <2>1
  <2>3. Table_(j) = "package_group_members" /\ j[2] = p /\ j[3][3] = d
    BY <2>2 DEF Key, Group, Table_
  <2>4. new4[j] = "group" :> j[3] @@ "package" :> Row("packages", j[2])
    OBVIOUS
  <2> HIDE DEF new4
  <2> QED
    BY <2>2, <2>3, <2>4 DEF @@, :>
<1>6. \A j \in DOMAIN new5 :
         /\ Table_(j) = "package_set_members" /\ j[2][3] = d /\ j[3][3] = d
         /\ DOMAIN new5[j] = {"set", "group"}
         /\ new5[j]["set"] = j[3] /\ new5[j]["group"] = j[2]
  <2> SUFFICES ASSUME NEW j \in DOMAIN new5
               PROVE  /\ Table_(j) = "package_set_members"
                      /\ j[2][3] = d /\ j[3][3] = d
                      /\ DOMAIN new5[j] = {"set", "group"}
                      /\ new5[j]["set"] = j[3] /\ new5[j]["group"] = j[2]
    OBVIOUS
  <2>1. PICK s \in DOMAIN packages.sets : \E g \in packages.sets[s] :
           j = Key("package_set_members", Group(g, d), Set_(s, d))
    OBVIOUS
  <2>2. Table_(j) = "package_set_members" /\ j[2][3] = d /\ j[3][3] = d
    BY <2>1 DEF Key, Group, Set_, Table_
  <2>3. new5[j] = "set" :> j[3] @@ "group" :> j[2]
    OBVIOUS
  <2> HIDE DEF new5
  <2> QED
    BY <2>2, <2>3 DEF @@, :>
<1>7. \A p \in packages.packages : Key("package_versions", p, arch) \in DOMAIN new2
  OBVIOUS
<1> HIDE DEF rows, new1, new2, new3, new4, new5
<1>8. /\ DOMAIN rows = DOMAIN new1 \cup DOMAIN new2 \cup DOMAIN new3 \cup DOMAIN new4
                       \cup DOMAIN new5
      /\ \A k \in DOMAIN rows :
            /\ Table_(k) = "package_versions" => k \in DOMAIN new2 /\ rows[k] = new2[k]
            /\ Table_(k) = "package_group_members" =>
                 k \in DOMAIN new4 /\ rows[k] = new4[k]
            /\ Table_(k) = "package_set_members" =>
                 k \in DOMAIN new5 /\ rows[k] = new5[k]
  BY <1>1, <1>2, <1>3, <1>4, <1>5, <1>6 DEF @@
<1> QED
  BY <1>3, <1>5, <1>6, <1>7, <1>8 DEF rows

LEMMA PackagesFit ==
    ASSUME NEW db, NEW users, Fitting(db, users), NEW doc, Shipped(doc),
           NEW d, Name(d) = doc.name, HasRows(db, "architectures", Architectures)
    PROVE  Fitting(WithPackages(db, d, doc), users)
<1> DEFINE arch == FirstArch(db, doc.archs)
           rows == PackageRows(d, arch, doc.packages)
           b == Insert_(db, rows)
<1>1. doc.name # "ocultum" => arch = Home(doc.name)
  <2> SUFFICES ASSUME doc.name # "ocultum" PROVE arch = Home(doc.name)
    OBVIOUS
  <2>1. PICK a \in Architectures :
           doc.archs = <<a>> /\ Home(doc.name) = Row("architectures", a)
    BY DEF Shipped, ForOneArch
  <2>2. Row("architectures", a) \in DOMAIN db
    BY DEF HasRows
  <2>3. FirstOf(db, "architectures", <<a>>) = {Row("architectures", a)}
    BY <2>2 DEF FirstOf
  <2> QED
    BY <2>1, <2>3 DEF FirstArch
<1>2. /\ \A p \in doc.packages.packages :
            Key("package_versions", p, arch) \in DOMAIN rows
      /\ \A k \in DOMAIN rows :
            /\ Table_(k) = "package_versions" =>
                 /\ DOMAIN rows[k] = {"package", "arch"}
                 /\ rows[k]["package"] = Row("packages", k[2])
                 /\ rows[k]["arch"] = k[3]
            /\ Table_(k) = "package_set_members" =>
                 /\ DOMAIN rows[k] = {"set", "group"}
                 /\ rows[k]["set"] = k[3] /\ rows[k]["group"] = k[2]
                 /\ k[2][3] = d /\ k[3][3] = d
            /\ Table_(k) = "package_group_members" =>
                 /\ DOMAIN rows[k] = {"group", "package"}
                 /\ rows[k]["group"] = k[3]
                 /\ rows[k]["package"] = Row("packages", k[2])
                 /\ k[3][3] = d
                 /\ \E g \in DOMAIN doc.packages.groups :
                       k[2] \in doc.packages.groups[g]
  BY PackageRowsAre
<1>3. \A k \in DOMAIN rows : Table_(k) \in PackageTables
  BY PackageRowsTables
<1> HIDE DEF rows, arch
<1>4. /\ DOMAIN b = DOMAIN db \cup DOMAIN rows
      /\ \A k \in DOMAIN rows \ DOMAIN db : b[k] = rows[k]
  BY DEF Insert_, @@
<1> HIDE DEF b
<1>5. ASSUME NEW k \in DOMAIN rows, Table_(k) = "package_group_members",
             Name(k[3][3]) \in Buildable
      PROVE  Key("package_versions", k[2], Home(Name(k[3][3]))) \in DOMAIN b
  <2>. doc.name # "ocultum"
    BY <1>2, <1>5 DEF Buildable
  <2>1. k[3][3] = d /\ \E g \in DOMAIN doc.packages.groups :
                          k[2] \in doc.packages.groups[g]
    BY <1>2, <1>5
  <2>2. k[2] \in doc.packages.packages
    BY <1>5, <2>1 DEF Shipped, ForOneArch
  <2> QED
    BY <1>1, <1>2, <1>4, <1>5, <2>1, <2>2
<1>6. \A k \in DOMAIN rows \ DOMAIN db : PackageFits(b, k)
  BY <1>2, <1>4, <1>5 DEF PackageFits, ReadsAsItsId, Refers, Has
<1>7. \A k \in DOMAIN rows \ DOMAIN db : Table_(k) # "profiles" /\ RowFits(b, k)
  BY <1>3, <1>6 DEF RowFits, BaseFits, PackageTables
<1> QED
  BY <1>7, InsertFits DEF WithPackages, b, rows, arch

\* What a profile document looks up.
LEMMA ProfileRefsFit ==
    ASSUME NEW db, NEW users, Fitting(db, users), NEW d, NEW p, NEW home,
           \A i \in DOMAIN p.boards :
              /\ p.boards[i] \in DOMAIN BoardArch
              /\ Row("architectures", BoardArch[p.boards[i]]) = home,
           \A k \in p.kernels :
              k \in DOMAIN Kernels /\ Row("architectures", KernelArch[k]) = home,
           p.toolchain \in DOMAIN ToolchainArch,
           Row("architectures", ToolchainArch[p.toolchain]) = home,
           NEW c \in Parts \cap DOMAIN ProfileRefs(db, d, p)
    PROVE  /\ ArchOf(db, ProfileRefs(db, d, p)[c]) = {home}
           /\ Table_(ProfileRefs(db, d, p)[c]) \in PartTables
<1> DEFINE boards == FirstOf(db, "boards", p.boards)
           board == [x \in {"board" : b \in boards} |-> CHOOSE b \in boards : TRUE]
           kernel == IF p.kernels = {} THEN NoRefs_
                     ELSE Lookup(db, "kernel",
                                 Row("kernels", CHOOSE k \in p.kernels : TRUE))
           toolchain == Lookup(db, "toolchain", Row("toolchains", p.toolchain))
           set == "package_set" :> Key("package_sets", p.set, d)
           refs == board @@ kernel @@ toolchain @@ set
<1>1. ProfileRefs(db, d, p) = refs
  BY DEF ProfileRefs
<1>2. \A k \in DOMAIN db : BaseFits(db, k)
  BY DEF Fitting, RowFits
<1>3. \A k \in DOMAIN db :
         /\ Table_(k) = "boards" /\ Name(k) \in DOMAIN BoardArch =>
              ArchOf(db, k) = {Row("architectures", BoardArch[Name(k)])}
         /\ Table_(k) = "toolchains" /\ Name(k) \in DOMAIN ToolchainArch =>
              ArchOf(db, k) = {Row("architectures", ToolchainArch[Name(k)])}
         /\ Table_(k) = "kernels" /\ Name(k) \in DOMAIN Kernels =>
              ArchOf(db, k) = {Row("architectures", KernelArch[Name(k)])}
  BY <1>2 DEF BaseFits, HasArch, Refers, ArchOf
<1>4. ASSUME NEW x \in DOMAIN board
      PROVE  /\ x = "board" /\ ArchOf(db, board[x]) = {home}
             /\ Table_(board[x]) \in PartTables
  <2>1. PICK b \in boards : board[x] = b
    OBVIOUS
  <2>2. PICK i \in DOMAIN p.boards :
           b = Row("boards", p.boards[i]) /\ b \in DOMAIN db
    BY <2>1 DEF FirstOf
  <2>3. Table_(b) = "boards" /\ Name(b) = p.boards[i]
    BY <2>2, RowParts
  <2>4. ArchOf(db, b) = {Row("architectures", BoardArch[p.boards[i]])}
    BY <1>3, <2>2, <2>3
  <2>5. x = "board"
    OBVIOUS
  <2> QED
    BY <2>1, <2>3, <2>4, <2>5 DEF PartTables
<1>5. ASSUME NEW x \in DOMAIN kernel
      PROVE  /\ x = "kernel" /\ ArchOf(db, kernel[x]) = {home}
             /\ Table_(kernel[x]) \in PartTables
  <2>1. p.kernels # {}
    BY <1>5 DEF NoRefs_
  <2>2. PICK k \in p.kernels : kernel = Lookup(db, "kernel", Row("kernels", k))
    BY <2>1
  <2>3. Row("kernels", k) \in DOMAIN db /\ x = "kernel" /\ kernel[x] = Row("kernels", k)
    BY <1>5, <2>2 DEF Lookup, NoRefs_, :>
  <2> HIDE DEF kernel
  <2>4. Table_(kernel[x]) = "kernels" /\ Name(kernel[x]) = k
    BY <2>3, RowParts
  <2>5. ArchOf(db, kernel[x]) = {Row("architectures", KernelArch[k])}
    BY <1>3, <2>3, <2>4
  <2> QED
    BY <2>3, <2>4, <2>5 DEF PartTables
<1>6. ASSUME NEW x \in DOMAIN toolchain
      PROVE  /\ x = "toolchain" /\ ArchOf(db, toolchain[x]) = {home}
             /\ Table_(toolchain[x]) \in PartTables
  <2>1. /\ Row("toolchains", p.toolchain) \in DOMAIN db
        /\ x = "toolchain" /\ toolchain[x] = Row("toolchains", p.toolchain)
    BY <1>6 DEF Lookup, NoRefs_, :>
  <2> QED
    BY <1>3, <2>1, RowParts DEF PartTables
<1>7. DOMAIN set = {"package_set"}
  BY DEF :>
<1> HIDE DEF board, kernel, toolchain, set
<1>8. /\ DOMAIN refs = DOMAIN board \cup DOMAIN kernel \cup DOMAIN toolchain \cup DOMAIN set
      /\ \A x \in DOMAIN refs :
            \/ x \in DOMAIN board /\ refs[x] = board[x]
            \/ x \in DOMAIN kernel /\ refs[x] = kernel[x]
            \/ x \in DOMAIN toolchain /\ refs[x] = toolchain[x]
            \/ x \in DOMAIN set
  BY DEF @@
<1> QED
  BY <1>1, <1>4, <1>5, <1>6, <1>7, <1>8 DEF Parts

LEMMA PackageSetOf ==
    ASSUME NEW db, NEW d, NEW p, "package_set" \in DOMAIN ProfileRefs(db, d, p)
    PROVE  ProfileRefs(db, d, p)["package_set"][3] = d
<1> DEFINE boards == FirstOf(db, "boards", p.boards)
           board == [x \in {"board" : b \in boards} |-> CHOOSE b \in boards : TRUE]
           kernel == IF p.kernels = {} THEN NoRefs_
                     ELSE Lookup(db, "kernel",
                                 Row("kernels", CHOOSE k \in p.kernels : TRUE))
           toolchain == Lookup(db, "toolchain", Row("toolchains", p.toolchain))
           set == "package_set" :> Key("package_sets", p.set, d)
           refs == board @@ kernel @@ toolchain @@ set
<1>1. ProfileRefs(db, d, p) = refs
  BY DEF ProfileRefs
<1>2. DOMAIN board \subseteq {"board"}
  OBVIOUS
<1>3. DOMAIN kernel \subseteq {"kernel"}
  <2> DEFINE k == Row("kernels", CHOOSE k \in p.kernels : TRUE)
  <2>1. kernel = NoRefs_ \/ kernel = Lookup(db, "kernel", k)
    OBVIOUS
  <2> HIDE DEF k, kernel
  <2> QED
    BY <2>1 DEF Lookup, NoRefs_, :>
<1>4. DOMAIN toolchain \subseteq {"toolchain"}
  BY DEF Lookup, NoRefs_, :>
<1>5. set["package_set"][3] = d
  BY DEF Key, :>
<1> HIDE DEF board, kernel, toolchain, set
<1>6. refs["package_set"] = set["package_set"]
  BY <1>1, <1>2, <1>3, <1>4 DEF @@
<1> QED
  BY <1>1, <1>5, <1>6

LEMMA ProfilesFit ==
    ASSUME NEW db, NEW users, Fitting(db, users), IsNumbered(db),
           NEW doc, Shipped(doc), NEW d, Name(d) = doc.name
    PROVE  Fitting(WithProfiles(db, d, doc.profiles), users)
<1> DEFINE profiles == doc.profiles
           refs == [n \in DOMAIN profiles |-> ProfileRefs(db, d, profiles[n])]
           b == GetOrCreateProfiles(db, d, refs)
           ids == {ProfileId(db, d, n) : n \in DOMAIN refs}
<1>1. WithProfiles(db, d, profiles) = b
  BY DEF WithProfiles
<1>2. ProfilesMade(db, b, d, refs)
  BY ProfilesAre
<1> HIDE DEF b
<1>3. /\ DOMAIN b = DOMAIN db \cup ids
      /\ \A k \in DOMAIN db \ ids : b[k] = db[k]
      /\ \A n \in DOMAIN refs :
            b[ProfileId(db, d, n)] = refs[n] @@ Owned(db, d, ProfileId(db, d, n))
  BY <1>2 DEF ProfilesMade
<1>4. \A k \in ids : Table_(k) = "profiles"
  BY ProfileIdIs
<1>5. \A n \in DOMAIN refs :
         /\ refs[n] = ProfileRefs(db, d, profiles[n])
         /\ DOMAIN refs[n] \subseteq Reset
  BY PlainProfile
<1>6. DOMAIN refs = DOMAIN profiles
  OBVIOUS
<1> HIDE DEF refs
<1>7. \A n \in DOMAIN refs : LET k == ProfileId(db, d, n) IN
         /\ DOMAIN b[k] = DOMAIN refs[n] \cup DOMAIN Owned(db, d, k)
         /\ \A c \in DOMAIN refs[n] : b[k][c] = refs[n][c]
         /\ \A c \in DOMAIN Owned(db, d, k) \ DOMAIN refs[n] :
               b[k][c] = Owned(db, d, k)[c]
  BY <1>3 DEF @@
<1>8. ASSUME NEW k, NEW a, ArchOf(db, k) = {a}
      PROVE  ArchOf(b, k) = {a}
  <2>1. k \in DOMAIN db /\ "arch" \in DOMAIN db[k] /\ a = db[k]["arch"]
    BY <1>8 DEF ArchOf, Has
  <2>2. CASE k \notin ids
    BY <1>3, <2>1, <2>2 DEF ArchOf, Has
  <2>3. CASE k \in ids
    <3>1. PICK n \in DOMAIN refs : k = ProfileId(db, d, n)
      BY <2>3
    <3>2. Owned(db, d, k) = db[k] /\ "arch" \notin DOMAIN refs[n]
      BY <1>5, <2>1 DEF Owned, Reset
    <3>3. k \in DOMAIN b /\ "arch" \in DOMAIN b[k] /\ b[k]["arch"] = a
      BY <1>3, <1>7, <2>1, <3>1, <3>2
    <3> QED
      BY <3>3 DEF ArchOf, Has
  <2> QED
    BY <2>2, <2>3
<1>9. ASSUME NEW k \in DOMAIN b
      PROVE  RowFits(b, k)
  <2>1. CASE k \in ids
    BY <1>4, <2>1 DEF RowFits, BaseFits, PackageFits, ReadsAsItsId
  <2>2. CASE k \notin ids
    <3>1. k \in DOMAIN db /\ b[k] = db[k] /\ RowFits(db, k)
      BY <1>3, <2>2 DEF Fitting
    <3> QED
      BY <1>3, <3>1
      DEF RowFits, BaseFits, PackageFits, ReadsAsItsId, HasArch, Refers, Has
  <2> QED
    BY <2>1, <2>2
<1>10. ASSUME NEW n \in DOMAIN refs, NEW c \in Parts,
              c \in DOMAIN refs[n], doc.name # "ocultum"
       PROVE  /\ ArchOf(b, refs[n][c]) = {Home(doc.name)}
              /\ Table_(refs[n][c]) \in PartTables
  <2> DEFINE p == profiles[n]
  <2>1. /\ \A i \in DOMAIN p.boards :
              /\ p.boards[i] \in DOMAIN BoardArch
              /\ Row("architectures", BoardArch[p.boards[i]]) = Home(doc.name)
        /\ \A k \in p.kernels :
              /\ k \in DOMAIN Kernels
              /\ Row("architectures", KernelArch[k]) = Home(doc.name)
        /\ p.toolchain \in DOMAIN ToolchainArch
        /\ Row("architectures", ToolchainArch[p.toolchain]) = Home(doc.name)
    BY <1>6, <1>10 DEF Shipped, ForOneArch
  <2>2. c \in Parts \cap DOMAIN ProfileRefs(db, d, p)
    BY <1>5, <1>10
  <2> HIDE DEF p
  <2>3. /\ ArchOf(db, ProfileRefs(db, d, p)[c]) = {Home(doc.name)}
        /\ Table_(ProfileRefs(db, d, p)[c]) \in PartTables
    BY <2>1, <2>2, ProfileRefsFit
  <2> QED
    BY <1>5, <1>8, <2>3 DEF p
<1>11. \A n \in DOMAIN refs :
          "package_set" \in DOMAIN refs[n] => refs[n]["package_set"][3] = d
  BY <1>5, PackageSetOf
<1>12. ASSUME NEW p \in Of(b, "profiles") \ users
       PROVE  ProfileFits(b, p)
  <2>1. CASE p \notin ids
    <3>1. b[p] = db[p] /\ ProfileFits(db, p)
      BY <1>3, <2>1 DEF Fitting, Of
    <3> QED
      BY <1>8, <3>1, ProfileStays
  <2>2. CASE p \in ids
    <3>1. PICK n \in DOMAIN refs : p = ProfileId(db, d, n)
      BY <2>2
    <3> DEFINE own == Owned(db, d, p)
    <3>2. /\ "inherits" \notin DOMAIN own /\ "distribution" \in DOMAIN own
          /\ own["distribution"] = d
          /\ p \in DOMAIN db => ProfileFits(db, p) /\ own = db[p]
          /\ p \notin DOMAIN db => DOMAIN own = {"distribution"}
      <4>1. CASE p \in DOMAIN db
        <5>1. ProfilesNamed(db, d, n) # {}
          BY <3>1, <4>1, ProfileIdIs
        <5>2. p \in ProfilesNamed(db, d, n)
          BY <3>1, <5>1, ProfileIdIs
        <5>3. p \in Of(db, "profiles") \ users /\ db[p]["distribution"] = d
          BY <5>2 DEF ProfilesNamed, ProfilesOf, Of, Refers
        <5>4. ProfileFits(db, p) /\ own = db[p]
          BY <4>1, <5>3 DEF Fitting, Owned
        <5> QED
          BY <4>1, <5>3, <5>4 DEF ProfileFits
      <4>2. CASE p \notin DOMAIN db
        BY <4>2 DEF Owned, :>
      <4> QED
        BY <4>1, <4>2
    <3> HIDE DEF own
    <3>3. /\ DOMAIN b[p] = DOMAIN refs[n] \cup DOMAIN own
          /\ \A c \in DOMAIN refs[n] : b[p][c] = refs[n][c]
          /\ \A c \in DOMAIN own \ DOMAIN refs[n] : b[p][c] = own[c]
      BY <1>7, <3>1 DEF own
    <3>4. "inherits" \notin DOMAIN refs[n] /\ "distribution" \notin DOMAIN refs[n]
      BY <1>5 DEF Reset
    <3>5. /\ "inherits" \notin DOMAIN b[p] /\ "distribution" \in DOMAIN b[p]
          /\ b[p]["distribution"] = d
      BY <3>2, <3>3, <3>4
    <3>6. ASSUME Name(d) # "ocultum", NEW c \in Parts \cap DOMAIN b[p]
          PROVE  /\ ArchOf(b, b[p][c]) = {Home(Name(d))}
                 /\ Table_(b[p][c]) \in PartTables
      <4>1. CASE c \in DOMAIN refs[n]
        BY <1>10, <3>3, <3>6, <4>1
      <4>2. CASE c \notin DOMAIN refs[n]
        <5>1. c \in DOMAIN own /\ b[p][c] = own[c]
          BY <3>3, <4>2
        <5>2. p \in DOMAIN db
          BY <3>2, <5>1 DEF Parts
        <5>3. /\ ArchOf(db, own[c]) = {Home(Name(d))}
              /\ Table_(own[c]) \in PartTables
          BY <3>2, <3>6, <5>1, <5>2 DEF ProfileFits, PartTables
        <5> QED
          BY <1>8, <5>1, <5>3
      <4> QED
        BY <4>1, <4>2
    <3>7. ASSUME Name(d) # "ocultum", "package_set" \in DOMAIN b[p]
          PROVE  b[p]["package_set"][3] = d
      <4>1. CASE "package_set" \in DOMAIN refs[n]
        BY <1>11, <3>3, <4>1
      <4>2. CASE "package_set" \notin DOMAIN refs[n]
        <5>1. /\ "package_set" \in DOMAIN own
              /\ b[p]["package_set"] = own["package_set"]
          BY <3>3, <3>7, <4>2
        <5> QED
          BY <3>2, <3>7, <5>1 DEF ProfileFits
      <4> QED
        BY <4>1, <4>2
    <3>8. Name(d) # "ocultum" => Name(d) \in Buildable
      BY DEF Shipped, ForOneArch
    <3> QED
      BY <3>5, <3>6, <3>7, <3>8 DEF ProfileFits, PartTables
  <2> QED
    BY <2>1, <2>2
<1>13. Fitting(b, users)
  BY <1>9, <1>12 DEF Fitting
<1> QED
  BY <1>1, <1>13

-----------------------------------------------------------------------------
(* What requests leave alone.                                              *)

StockRows == Stock \ {"profiles"}
SameStock(a, b) ==
    \A k : Table_(k) \in StockRows =>
              /\ k \in DOMAIN b <=> k \in DOMAIN a
              /\ k \in DOMAIN a => b[k] = a[k]

\* Profiles that are changed count as the users'.
LEMMA SameFits ==
    ASSUME NEW a, NEW users, Fitting(a, users), NEW b, SameStock(a, b), NEW more,
           \A p \in Of(b, "profiles") \ more : p \in DOMAIN a /\ b[p] = a[p]
    PROVE  Fitting(b, users \cup more)
<1>1. \A k : Table_(k) \in StockRows =>
                /\ k \in DOMAIN b <=> k \in DOMAIN a
                /\ k \in DOMAIN a => b[k] = a[k]
  BY DEF SameStock
<1>2. \A k, x : Table_(k) \in PartTables /\ ArchOf(a, k) = {x} => ArchOf(b, k) = {x}
  BY <1>1 DEF ArchOf, Has, PartTables, StockRows, Stock
<1>3. ASSUME NEW k \in DOMAIN b
      PROVE  RowFits(b, k)
  <2>1. CASE Table_(k) \notin StockRows
    BY <2>1 DEF RowFits, BaseFits, PackageFits, ReadsAsItsId, StockRows, Stock
  <2>2. CASE Table_(k) \in StockRows
    <3>1. k \in DOMAIN a /\ b[k] = a[k]
      BY <1>1, <1>3, <2>2
    <3>2. BaseFits(a, k) /\ PackageFits(a, k)
      BY <3>1 DEF Fitting, RowFits
    <3>3. BaseFits(b, k)
      BY <1>3, <3>1, <3>2 DEF BaseFits, HasArch, Refers, Has
    <3>4. \A column, x : Refers(a, k, column, x) => Refers(b, k, column, x)
      BY <1>3, <3>1 DEF Refers, Has
    <3>5. \A p, x : Key("package_versions", p, x) \in DOMAIN a =>
                       Key("package_versions", p, x) \in DOMAIN b
      <4>1. \A p, x : Table_(Key("package_versions", p, x)) \in StockRows
        BY KeyParts DEF StockRows, Stock
      <4> QED
        BY <1>1, <4>1
    <3>6. PackageFits(b, k)
      BY <3>2, <3>4, <3>5 DEF PackageFits, ReadsAsItsId
    <3> QED
      BY <3>3, <3>6 DEF RowFits
  <2> QED
    BY <2>1, <2>2
<1>4. ASSUME NEW p \in Of(b, "profiles") \ (users \cup more)
      PROVE  ProfileFits(b, p)
  <2>1. p \in Of(a, "profiles") \ users /\ b[p] = a[p]
    BY <1>4 DEF Of
  <2>2. ProfileFits(a, p)
    BY <2>1 DEF Fitting
  <2> QED
    BY <1>2, <2>1, <2>2, ProfileStays
<1> QED
  BY <1>3, <1>4 DEF Fitting

LEMMA AddedSame ==
    ASSUME NEW db, NEW new, \A k \in DOMAIN new : Table_(k) \notin StockRows
    PROVE  SameStock(db, db @@ new)
BY DEF SameStock, @@

LEMMA OneAddedSame ==
    ASSUME NEW db, NEW k, Table_(k) \notin StockRows, NEW r
    PROVE  SameStock(db, db @@ (k :> r))
<1> DEFINE new == k :> r
<1>1. DOMAIN new = {k}
  BY DEF :>
<1> HIDE DEF new
<1>2. SameStock(db, db @@ new)
  BY <1>1, AddedSame
<1> QED
  BY <1>2 DEF new

LEMMA GoneSame ==
    ASSUME NEW db, NEW keys, \A k \in keys : Table_(k) \notin StockRows
    PROVE  SameStock(db, Without(db, keys))
<1> DEFINE b == Without(db, keys)
<1>1. \A q : Table_(Row("deleted", q)) \notin StockRows
  BY RowParts DEF StockRows, Stock
<1>2. /\ DOMAIN b = (DOMAIN db \ keys) \cup {Row("deleted", q) : q \in keys}
      /\ \A k \in DOMAIN b : Table_(k) # "deleted" => b[k] = db[k]
  BY DEF Without
<1>3. "deleted" \notin StockRows
  BY DEF StockRows, Stock
<1> HIDE DEF b
<1>4. ASSUME NEW k, Table_(k) \in StockRows
      PROVE  /\ k \in DOMAIN b <=> k \in DOMAIN db
             /\ k \in DOMAIN db => b[k] = db[k]
  <2>1. k \notin keys /\ Table_(k) # "deleted"
    BY <1>3, <1>4
  <2>2. k \in DOMAIN b <=> k \in DOMAIN db
    BY <1>1, <1>2, <1>4, <2>1
  <2> QED
    BY <1>2, <2>1, <2>2
<1>5. SameStock(db, b)
  BY <1>4 DEF SameStock
<1> QED
  BY <1>5 DEF b

LEMMA WriteSame ==
    ASSUME NEW db, NEW k \in DOMAIN db, Table_(k) \notin StockRows,
           NEW columns, NEW refs
    PROVE  SameStock(db, Write(db, k, columns, refs))
<1> DEFINE b == Write(db, k, columns, refs)
<1>1. DOMAIN b = DOMAIN db /\ \A j \in DOMAIN db \ {k} : b[j] = db[j]
  BY DEF Write
<1> HIDE DEF b
<1>2. SameStock(db, b)
  BY <1>1 DEF SameStock
<1> QED
  BY <1>2 DEF b

LEMMA SetIs ==
    ASSUME NEW db, NEW k, NEW refs
    PROVE  /\ DOMAIN Set(db, k, refs) = DOMAIN db
           /\ \A j \in DOMAIN db \ {k} : Set(db, k, refs)[j] = db[j]
BY DEF Set

LEMMA SetSame ==
    ASSUME NEW db, NEW k \in DOMAIN db, Table_(k) \notin StockRows, NEW refs
    PROVE  SameStock(db, Set(db, k, refs))
<1> DEFINE b == Set(db, k, refs)
<1>1. DOMAIN b = DOMAIN db /\ \A j \in DOMAIN db \ {k} : b[j] = db[j]
  BY SetIs
<1> HIDE DEF b
<1>2. SameStock(db, b)
  BY <1>1 DEF SameStock
<1> QED
  BY <1>2 DEF b

LEMMA SameTransitive ==
    ASSUME NEW a, NEW b, NEW c, SameStock(a, b), SameStock(b, c)
    PROVE  SameStock(a, c)
BY DEF SameStock

LEMMA ClassSetFits ==
    ASSUME NEW db, NEW users, Fitting(db, users), NEW d \in Distributions(db),
           NEW class
    PROVE  Fitting(Set(db, d, ClassRef(db, class)), users)
<1> DEFINE refs == ClassRef(db, class)
           b    == Set(db, d, refs)
<1>1. d \in DOMAIN db /\ Table_(d) = "distributions"
  BY DEF Distributions, Of
<1> HIDE DEF refs
<1>2. SameStock(db, b)
  BY <1>1, SetSame DEF StockRows, Stock
<1>3. DOMAIN b = DOMAIN db /\ \A j \in DOMAIN db \ {d} : b[j] = db[j]
  BY <1>1, SetIs
<1> HIDE DEF b
<1>4. \A p \in Of(b, "profiles") \ {} : p \in DOMAIN db /\ b[p] = db[p]
  BY <1>1, <1>3 DEF Of
<1>5. Fitting(b, users \cup {})
  BY <1>2, <1>4, SameFits
<1>6. users \cup {} = users
  OBVIOUS
<1> QED
  BY <1>5, <1>6 DEF b, refs

-----------------------------------------------------------------------------
(* Reference distributions and revisions.                                  *)

HasArchs(db) == HasRows(db, "architectures", Architectures)

LEMMA ArchsStay ==
    ASSUME NEW a, NEW b, Grows(a, b), HasArchs(a)
    PROVE  HasArchs(b)
BY RowsStay DEF Grows, Keeps, HasArchs

LEMMA ReferenceFits ==
    ASSUME NEW db, NEW users, Fitting(db, users), IsNumbered(db), HasArchs(db),
           NEW doc, Shipped(doc)
    PROVE  Fitting(SeedReference(db, doc), users)
<1> DEFINE name  == doc.name
           class == ClassOf[name]
           row   == name :> ClassRef(db, class)
           made  == GetOrCreateDistributions(db, row)
           d     == TheDistribution(made, name)
           one   == Classed(made, d, class)
           two   == WithPackages(one, d, doc)
           three == WithProfiles(two, d, doc.profiles)
           new   == PackageRows(d, FirstArch(one, doc.archs), doc.packages)
<1>1. SeedReference(db, doc) = three
  BY DEF SeedReference, WithContents
<1>2. name \in DOMAIN row /\ \A n \in DOMAIN row : Plain(db, row[n])
  BY PlainClass DEF :>
<1> HIDE DEF row
<1>3. Grows(db, made) /\ Named(made, name) # {} /\ Fitting(made, users)
  BY <1>2, DistributionsGrow, DistributionsFit
<1> HIDE DEF made
<1>4. /\ d \in Distributions(made) /\ d \in DOMAIN made /\ Name(d) = name
      /\ IsNumbered(made)
  BY <1>3 DEF TheDistribution, Named, Distributions, Of, Grows
<1> HIDE DEF d
<1>5. Grows(made, one) /\ Fitting(one, users)
  <2>1. CASE Has(made, d, "class")
    BY <1>3, <2>1, GrowsReflexive DEF Classed
  <2>2. CASE ~Has(made, d, "class")
    BY <1>3, <1>4, <2>2, ClassSetGrows, ClassSetFits DEF Classed
  <2> QED
    BY <2>1, <2>2
<1> HIDE DEF one
<1>6. IsNumbered(one) /\ HasArchs(one) /\ d \in DOMAIN one
  <2>1. HasArchs(made)
    BY <1>3, ArchsStay
  <2> QED
    BY <1>4, <1>5, <2>1, ArchsStay DEF Grows, Keeps
<1>7. Grows(one, two)
  BY <1>6, FirstArchTable, PackageRowsAreOthers, InsertGrows DEF WithPackages
<1>8. Fitting(two, users)
  BY <1>4, <1>5, <1>6, PackagesFit DEF HasArchs
<1> HIDE DEF two
<1>9. Fitting(three, users)
  BY <1>4, <1>6, <1>7, <1>8, ProfilesFit DEF Grows
<1> QED
  BY <1>1, <1>9

LEMMA TinywifiRowsFit ==
    ASSUME NEW db, NEW users, Fitting(db, users)
    PROVE  /\ Fitting(SeedTinywifiConfigValues(db), users)
           /\ Fitting(SeedTinywifiServiceProfile(db), users)
<1> DEFINE d   == TheDistribution(db, "tinywifi")
           k   == Key("config_values", "hostapd.ssid", d)
           config == k :> ("distribution" :> d)
           sp  == ServiceProfile(db, d)
           own == sp :> ("distribution" :> d)
           rows == {Key("service_entries", n, sp) : n \in Entries}
           entries == [j \in rows |-> "profile" :> sp]
           services == own @@ entries
<1>1. /\ SeedTinywifiConfigValues(db) = Insert_(db, config)
      /\ SeedTinywifiServiceProfile(db) = Insert_(db, services)
  BY DEF SeedTinywifiConfigValues, SeedTinywifiServiceProfile, ServiceProfile,
         ChosenOf, ServiceProfiles, Entries
<1>2. Table_(sp) = "service_profiles"
  <2>1. CASE ServiceProfiles(db, d) = {}
    BY <2>1, KeyParts DEF ServiceProfile, ChosenOf
  <2>2. CASE ServiceProfiles(db, d) # {}
    <3>1. sp \in ServiceProfiles(db, d)
      BY <2>2 DEF ServiceProfile, ChosenOf
    <3> QED
      BY <3>1 DEF ServiceProfiles, Of
  <2> QED
    BY <2>1, <2>2
<1>3. \A j \in rows : Table_(j) = "service_entries"
  BY KeyParts
<1>4. DOMAIN config = {k} /\ Table_(k) = "config_values"
  BY KeyParts DEF :>
<1>5. DOMAIN services = {sp} \cup rows
  BY DEF @@, :>
<1> HIDE DEF config, services, rows, sp, k
<1>6. /\ \A j \in DOMAIN config : Table_(j) \notin Stock
      /\ \A j \in DOMAIN services : Table_(j) \notin Stock
  BY <1>2, <1>3, <1>4, <1>5 DEF Stock
<1> QED
  BY <1>1, <1>6, OthersFit

LEMMA SettingsFit ==
    ASSUME NEW db, NEW users, Fitting(db, users)
    PROVE  Fitting(WithSettings(db), users)
<1> DEFINE one == SeedTinywifiConfigValues(db)
           two == SeedTinywifiServiceProfile(one)
<1>1. WithSettings(db) = db \/ WithSettings(db) = two
  BY DEF WithSettings
<1>2. Fitting(one, users)
  BY TinywifiRowsFit
<1> HIDE DEF one
<1>3. Fitting(two, users)
  BY <1>2, TinywifiRowsFit
<1> QED
  BY <1>1, <1>3

LEMMA OwnReferenceFits ==
    ASSUME NEW db, NEW users, Fitting(db, users), IsNumbered(db),
           NEW r \in DOMAIN DocumentOf
    PROVE  Fitting(SeedOwnReference(db, r, TRUE), users)
<1> DEFINE kernels == r \in {"0045", "0051"}
           one   == BaseCatalog(db, kernels, TRUE)
           two   == SeedDistributionClasses(one)
           three == SeedReference(two, DocumentOf[r])
           four  == SeedTinywifiConfigValues(three)
           five  == SeedTinywifiServiceProfile(four)
<1>1. SeedOwnReference(db, r, TRUE) = IF r = "0045" THEN five ELSE three
  BY DEF SeedOwnReference
<1>2. Grows(db, one) /\ Grows(one, two)
  BY BaseGrows, ClassesGrow
<1>3. Fitting(one, users) /\ HasArchs(one)
  BY BaseCatalogFits, BaseSettles DEF HasBase, HasArchs
<1> HIDE DEF one
<1>4. Fitting(two, users) /\ HasArchs(two) /\ IsNumbered(two)
  BY <1>2, <1>3, ClassesFit, ArchsStay DEF Grows
<1> HIDE DEF two
<1>5. Shipped(DocumentOf[r])
  <2>1. DocumentOf[r] \in {Tinywifi, Netos, OcultumAnyArch, TinydeskOnAnyBoard}
    BY DEF DocumentOf, @@, :>
  <2> QED
    BY <2>1, TinywifiShipped, NetosShipped, OcultumShipped, TinydeskShipped
<1>6. Fitting(three, users)
  BY <1>4, <1>5, ReferenceFits
<1> HIDE DEF three
<1>7. Fitting(four, users)
  BY <1>6, TinywifiRowsFit
<1> HIDE DEF four
<1>8. Fitting(five, users)
  BY <1>7, TinywifiRowsFit
<1> HIDE DEF five
<1> QED
  BY <1>1, <1>6, <1>8

LEMMA CatalogFits ==
    ASSUME NEW db, NEW users, Fitting(db, users), IsNumbered(db), HasArchs(db)
    PROVE  Fitting(SeedDistributionCatalog(db), users)
<1> DEFINE one   == SeedReference(db, Netos)
           two   == SeedReference(one, Ocultum)
           three == SeedReference(two, Tinydesk)
           four  == SeedReference(three, Tinywifi)
<1>1. SeedDistributionCatalog(db) = four
  BY DEF SeedDistributionCatalog
<1>2. Grows(db, one) /\ Grows(one, two) /\ Grows(two, three)
  BY ReferenceGrows
<1>3. Fitting(one, users)
  BY NetosShipped, ReferenceFits
<1> HIDE DEF one
<1>4. IsNumbered(one) /\ HasArchs(one)
  BY <1>2, ArchsStay DEF Grows
<1>5. Fitting(two, users)
  BY <1>3, <1>4, OcultumShipped, ReferenceFits
<1> HIDE DEF two
<1>6. IsNumbered(two) /\ HasArchs(two)
  BY <1>2, <1>4, ArchsStay DEF Grows
<1>7. Fitting(three, users)
  BY <1>5, <1>6, TinydeskShipped, ReferenceFits
<1> HIDE DEF three
<1>8. IsNumbered(three) /\ HasArchs(three)
  BY <1>2, <1>6, ArchsStay DEF Grows
<1> QED
  BY <1>1, <1>7, <1>8, TinywifiShipped, ReferenceFits

LEMMA UpgradedFits ==
    ASSUME NEW db, NEW users, Fitting(db, users), IsNumbered(db),
           NEW r \in SeedRevisions
    PROVE  Fitting(Upgraded(db, r, TRUE), users)
<1> DEFINE classes == SeedDistributionClasses(db)
           base  == BaseCatalog(classes, TRUE, TRUE)
           all   == WithDistributions(db, TRUE)
           start == IF r \in {"0045", "0051", "0052"} THEN all ELSE db
<1>1. all = SeedDistributions(base)
  BY DEF WithDistributions
<1>2. Fitting(classes, users)
  BY ClassesFit
<1> HIDE DEF classes
<1>3. Fitting(base, users) /\ HasArchs(base)
  BY <1>2, BaseCatalogFits, BaseSettles DEF HasBase, HasArchs
<1> HIDE DEF base
<1>4. Grows(base, SeedDistributions(base))
  BY SeedDistributionsGrows
<1>5. Fitting(all, users)
  BY <1>1, <1>3, DistributionsFit DEF SeedDistributions
<1>6. HasArchs(all)
  BY <1>1, <1>3, <1>4, ArchsStay
<1>7. IsNumbered(all)
  BY WithDistributionsGrows DEF Grows
<1> HIDE DEF all
<1>8. /\ Fitting(start, users) /\ IsNumbered(start)
      /\ r = "0052" => HasArchs(start)
  BY <1>5, <1>6, <1>7
<1>9. Upgraded(db, r, TRUE) =
        IF r = "0050" THEN WithSettings(db)
        ELSE IF r = "0052" THEN SeedDistributionCatalog(start)
        ELSE SeedOwnReference(start, r, TRUE)
  BY UpgradedIs DEF all
<1> HIDE DEF start
<1>10. r \in DOMAIN DocumentOf => Fitting(SeedOwnReference(start, r, TRUE), users)
  BY <1>8, OwnReferenceFits
<1>11. r = "0052" => Fitting(SeedDistributionCatalog(start), users)
  BY <1>8, CatalogFits
<1>12. Fitting(WithSettings(db), users)
  BY SettingsFit
<1> QED
  BY <1>9, <1>10, <1>11, <1>12, RevisionKinds

-----------------------------------------------------------------------------
(* Requests.                                                               *)

LEMMA NewIdAddedSame ==
    ASSUME NEW db, NEW table \in Numbered, NEW name, NEW r
    PROVE  SameStock(db, db @@ (NewId(db, table, name) :> r))
<1> DEFINE k == NewId(db, table, name)
<1>1. Table_(k) \notin StockRows
  BY NewIdParts DEF StockRows, Stock, Numbered
<1> HIDE DEF k
<1>2. SameStock(db, db @@ (k :> r))
  BY <1>1, OneAddedSame
<1> QED
  BY <1>2 DEF k

LEMMA ClonedSame ==
    ASSUME NEW db, NEW d, NEW name, NEW refs
    PROVE  SameStock(db, Cloned(db, d, name, refs))
<1> DEFINE clone == NewId(db, "distributions", name)
           one == clone :> refs
           new == Copies(db, d, clone)
<1>1. Cloned(db, d, name, refs) = db @@ one @@ new
  BY DEF Cloned
<1>2. Table_(clone) \notin StockRows
  BY NewIdParts DEF StockRows, Stock
<1> HIDE DEF clone
<1>3. DOMAIN one = {clone}
  BY OneRow
<1>4. \A k \in DOMAIN new : Table_(k) \notin StockRows
  <2> DEFINE copy == [p \in ProfilesOf(db, d) |-> NewId(db, "profiles", Name(p))]
  <2>1. DOMAIN new = {copy[p] : p \in DOMAIN copy}
    BY DEF Copies
  <2>2. \A p \in DOMAIN copy : Table_(copy[p]) = "profiles"
    BY NewIdParts
  <2> QED
    BY <2>1, <2>2 DEF StockRows
<1> HIDE DEF one, new
<1>5. SameStock(db, db @@ one)
  BY <1>2, <1>3, AddedSame
<1>6. SameStock(db @@ one, (db @@ one) @@ new)
  BY <1>4, AddedSame
<1>7. db @@ one @@ new = (db @@ one) @@ new
  BY BothOnce
<1> QED
  BY <1>1, <1>5, <1>6, <1>7, SameTransitive

LEMMA ImportedSame ==
    ASSUME NEW db, NEW gone, \A k \in gone : Table_(k) \notin StockRows,
           NEW name, NEW profile, NEW child
    PROVE  SameStock(db, Imported(db, gone, name, profile, child))
<1> DEFINE base  == Without(db, gone)
           d     == NewId(base, "distributions", name)
           top   == NewId(base, "profiles", profile)
           below == NewId(base, "profiles", child)
           one   == d :> NoRefs_
           two   == top :> ("distribution" :> d)
           three == below :> ("distribution" :> d @@ "inherits" :> top)
<1>1. Imported(db, gone, name, profile, child) = base @@ one @@ two @@ three
  BY DEF Imported
<1>2. SameStock(db, base)
  BY GoneSame
<1> HIDE DEF base
<1>3. /\ Table_(d) \notin StockRows
      /\ Table_(top) \notin StockRows
      /\ Table_(below) \notin StockRows
  BY NewIdParts DEF StockRows, Stock
<1> HIDE DEF d, top, below
<1>4. DOMAIN one = {d} /\ DOMAIN two = {top} /\ DOMAIN three = {below}
  BY OneRow
<1> HIDE DEF one, two, three
<1>5. SameStock(base, base @@ one)
  BY <1>3, <1>4, AddedSame
<1>6. SameStock(base @@ one, (base @@ one) @@ two)
  BY <1>3, <1>4, AddedSame
<1>7. SameStock((base @@ one) @@ two, ((base @@ one) @@ two) @@ three)
  BY <1>3, <1>4, AddedSame
<1>8. SameStock(base, ((base @@ one) @@ two) @@ three)
  BY <1>5, <1>6, <1>7, SameTransitive
<1>9. base @@ one @@ two @@ three = ((base @@ one) @@ two) @@ three
  BY BothOnce
<1> QED
  BY <1>1, <1>2, <1>8, <1>9, SameTransitive

LEMMA ReplacedSame ==
    ASSUME NEW db, NEW d, NEW old, Table_(old) = "profiles", NEW name, NEW parents
    PROVE  SameStock(db, Replaced(db, d, old, name, parents))
<1> DEFINE base  == Without(db, {old})
           found == ParentsFound(base, d, parents)
           refs  == [c \in {"distribution"} \cup {"inherits" : q \in found} |->
                       IF c = "distribution" THEN d
                       ELSE CHOOSE q \in found : TRUE]
<1>1. Replaced(db, d, old, name, parents)
        = base @@ (NewId(base, "profiles", name) :> refs)
  BY DEF Replaced
<1>2. SameStock(db, base)
  <2>1. \A k \in {old} : Table_(k) \notin StockRows
    BY DEF StockRows
  <2> QED
    BY <2>1, GoneSame
<1> HIDE DEF base, refs
<1>3. SameStock(base, base @@ (NewId(base, "profiles", name) :> refs))
  BY NewIdAddedSame DEF Numbered
<1> QED
  BY <1>1, <1>2, <1>3, SameTransitive

-----------------------------------------------------------------------------
(* Plans.                                                                  *)

PlansInv == shipped => Fitting(catalogue, touched)

LEMMA PlansStart == CatalogueInit => PlansInv
<1> SUFFICES ASSUME CatalogueInit, shipped PROVE Fitting(catalogue, touched)
  BY DEF PlansInv
<1>1. PICK s \in Starts :
         catalogue = s.rows /\ shipped = s.shipped /\ touched = s.own
  BY DEF CatalogueInit
<1>2. /\ \A k \in DOMAIN s.rows : RowFits(s.rows, k)
      /\ \A p \in Of(s.rows, "profiles") \ s.own : ProfileFits(s.rows, p)
  BY <1>1, ShippedAssumption
<1> QED
  BY <1>1, <1>2 DEF Fitting

\* A request leaves the stock alone, and a profile it makes or changes is a
\* user's.
LEMMA WrittenFits ==
    ASSUME PlansInv, NEW r, NEW db, Writes(r, db), SameStock(catalogue, db)
    PROVE  PlansInv'
<1> SUFFICES ASSUME shipped' PROVE Fitting(catalogue', touched')
  BY DEF PlansInv
<1>1. /\ shipped' = shipped /\ catalogue' = db
      /\ touched' = touched \cup Changed(db)
  BY DEF Writes, Answered
<1>2. Fitting(catalogue, touched)
  BY <1>1 DEF PlansInv
<1>3. \A p \in Of(db, "profiles") \ Changed(db) :
         p \in DOMAIN catalogue /\ db[p] = catalogue[p]
  BY DEF Changed
<1>4. Fitting(db, touched \cup Changed(db))
  BY <1>2, <1>3, SameFits
<1> QED
  BY <1>1, <1>4

LEMMA CommitFits ==
    ASSUME PlansInv, CatalogueInv, NEW r \in open,
           \/ CommitInsert(r)
           \/ CommitUpdate(r)
           \/ CommitDelete(r)
           \/ CommitClone(r)
           \/ CommitImport(r)
    PROVE  PlansInv'
<1>1. PICK n \in Nat : Well(catalogue, n, r)
  BY DEF CatalogueInv
<1>2. ASSUME CommitInsert(r)
      PROVE  PlansInv'
  <2>1. ASSUME Writes(r, catalogue
                         @@ (NewId(catalogue, "distributions", r.name) :> r.refs))
        PROVE  PlansInv'
    BY <2>1, NewIdAddedSame, WrittenFits DEF Numbered
  <2>2. ASSUME Writes(r, catalogue
                         @@ (NewId(catalogue, "profiles", r.name) :> r.refs))
        PROVE  PlansInv'
    BY <2>2, NewIdAddedSame, WrittenFits DEF Numbered
  <2>3. ASSUME r.op = "row", Writes(r, catalogue @@ (r.row :> r.refs))
        PROVE  PlansInv'
    <3>1. Table_(r.row) \notin StockRows
      BY <1>1, <2>3 DEF Well, StockRows, Stock
    <3> QED
      BY <2>3, <3>1, OneAddedSame, WrittenFits
  <2> QED
    BY <1>2, <2>1, <2>2, <2>3 DEF CommitInsert
<1>3. ASSUME CommitUpdate(r)
      PROVE  PlansInv'
  <2>1. r.row \in DOMAIN catalogue /\ Table_(r.row) \notin StockRows
    BY <1>1, <1>3 DEF CommitUpdate, Well, WriteWell, Numbered, StockRows, Stock
  <2> QED
    BY <1>3, <2>1, WriteSame, WrittenFits DEF CommitUpdate
<1>4. r.op \in {"delete", "import"} => \A k \in r.rows : Table_(k) \notin StockRows
  BY <1>1 DEF Well, RowsWell, Deletable, Numbered, StockRows, Stock
<1>5. ASSUME CommitDelete(r)
      PROVE  PlansInv'
  BY <1>4, <1>5, GoneSame, WrittenFits DEF CommitDelete
<1>6. ASSUME CommitClone(r)
      PROVE  PlansInv'
  BY <1>6, ClonedSame, WrittenFits DEF CommitClone
<1>7. ASSUME CommitImport(r)
      PROVE  PlansInv'
  <2>1. ASSUME r.op = "import",
               Writes(r, Imported(catalogue, r.rows, r.name, r.profile, r.child))
        PROVE  PlansInv'
    BY <1>4, <2>1, ImportedSame, WrittenFits
  <2>2. ASSUME r.op = "replace",
               Writes(r, Replaced(catalogue, r.distribution, r.old, r.name,
                                  r.parents))
        PROVE  PlansInv'
    <3>1. Table_(r.old) = "profiles"
      BY <1>1, <2>2 DEF Well
    <3> QED
      BY <2>2, <3>1, ReplacedSame, WrittenFits
  <2> QED
    BY <1>7, <2>1, <2>2 DEF CommitImport
<1> QED
  BY <1>2, <1>3, <1>5, <1>6, <1>7

\* What requests look up changes nothing.
LEMMA AskedFits ==
    ASSUME PlansInv, AskDistribution \/ AskProfile \/ AskBuild
    PROVE  PlansInv'
<1>1. /\ AskDistribution => \E r : Ask(r)
      /\ AskProfile => \E r : Ask(r)
      /\ AskBuild => \E r : Ask(r)
  <2>1. AskDistribution => \E r : Ask(r)
    BY DEF AskDistribution
  <2>2. AskProfile => \E r : Ask(r)
    BY DEF AskProfile
  <2>3. AskBuild => \E r : Ask(r)
    BY DEF AskBuild
  <2> QED
    BY <2>1, <2>2, <2>3
<1>2. catalogue' = catalogue /\ shipped' = shipped /\ touched' = touched
  BY <1>1 DEF Ask
<1> QED
  BY <1>2 DEF PlansInv

LEMMA PlansStep ==
    PlansInv /\ CatalogueInv /\ [CatalogueNext]_catalogueVars => PlansInv'
<1> SUFFICES ASSUME PlansInv, CatalogueInv, [CatalogueNext]_catalogueVars
             PROVE  PlansInv'
  OBVIOUS
<1>1. CASE Upgrade
  <2> SUFFICES ASSUME shipped' PROVE Fitting(catalogue', touched')
    BY DEF PlansInv
  <2>1. /\ shipped' = shipped /\ touched' = touched
        /\ catalogue' = Upgraded(catalogue, Head(pending), shipped)
    BY <1>1 DEF Upgrade
  <2>2. Head(pending) \in SeedRevisions
    <3>1. pending \in Seq(SeedRevisions) /\ pending # <<>>
      BY <1>1 DEF Upgrade, CatalogueInv
    <3> QED
      BY <3>1
  <2>3. Fitting(catalogue, touched) /\ IsNumbered(catalogue)
    BY <2>1 DEF PlansInv, CatalogueInv, Orderly, IsNumbered
  <2>4. shipped = TRUE
    BY <2>1
  <2>5. Fitting(Upgraded(catalogue, Head(pending), TRUE), touched)
    BY <2>3, <2>2, UpgradedFits
  <2> QED
    BY <2>1, <2>4, <2>5
<1>2. CASE \E c \in Commands : RunCommand(c)
  BY <1>2, CommandedFits DEF PlansInv, RunCommand
<1>3. CASE AskDistribution \/ AskProfile \/ AskBuild
  BY <1>3, AskedFits
<1>4. CASE \E r \in open : \/ CommitInsert(r)
                           \/ CommitUpdate(r)
                           \/ CommitDelete(r)
                           \/ CommitClone(r)
                           \/ CommitImport(r)
  BY <1>4, CommitFits
<1>5. CASE \E r \in open : DropRequest(r)
  BY <1>5 DEF PlansInv, DropRequest, Answered
<1>6. CASE UNCHANGED catalogueVars
  BY <1>6 DEF PlansInv, catalogueVars
<1> QED
  BY <1>1, <1>2, <1>3, <1>4, <1>5, <1>6 DEF CatalogueNext

\* A profile of tinywifi, netos or tinydesk that the seeds made, and no user has
\* changed since, resolves to a plan that builds, whatever revisions, commands
\* and requests came in between: the toolchain and the kernel are of the board's
\* architecture, and no package of its set lacks a version in it (resolver.py,
\* seed_data.py).  It is so from every database in which the rows that have the
\* names of the catalogue's files, and of the packages of those distributions,
\* are what the seeds would have made them.
THEOREM ReferencePlansComplete == CatalogueSpec => []PlansComplete
<1>1. PlansInv => PlansComplete
  BY FittingPlans DEF PlansInv, PlansComplete
<1>2. PlansInv /\ CatalogueInv => PlansComplete
  BY <1>1
<1>3. PlansInv /\ CatalogueInv /\ [CatalogueNext]_catalogueVars
        => (PlansInv /\ CatalogueInv)'
  BY PlansStep, CatalogueStep
<1>4. CatalogueInit => PlansInv /\ CatalogueInv
  BY PlansStart, CatalogueStart
<1> QED
  BY <1>2, <1>3, <1>4, PTL DEF CatalogueSpec
=============================================================================
