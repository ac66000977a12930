------------------------------- MODULE Seeds -------------------------------
(***************************************************************************)
(* The catalogue the core ships with (catalog/seed/*.yaml and the          *)
(* reference distributions of osfabricum/db/seed_data.py) and how it gets  *)
(* into a database that users work with: by the revisions 0045, 0046,      *)
(* 0047, 0050, 0051 and 0052, by the import commands, and by the seed      *)
(* commands.  Each of them is one transaction.  The users' requests look   *)
(* up first and write later, with others in between (Catalogue).           *)
(***************************************************************************)
EXTENDS Catalogue

CONSTANTS
    Starts,     \* [rows, own, due, shipped, requests]: the databases to start
                \* from, the profiles users have made or changed, the
                \* revisions still due, whether the catalogue's files lie
                \* beside the package, and the bound on the requests
    Classes,    \* the distribution classes that documents name
    DistNames, ProfileNames   \* the names requests give

VARIABLES
    catalogue,  \* the database: row -> its references
    pending,    \* the revisions still to run
    shipped,
    requests,   \* still to come
    open,       \* the requests that have looked up and not yet written
    touched     \* the profiles a user has made or changed

catalogueVars == <<catalogue, pending, shipped, requests, open, touched>>

-----------------------------------------------------------------------------
(* The files                                                               *)

Architectures == {"aarch64", "x86_64", "riscv64"}
BoardArch ==
    "rpi-zero-2w" :> "aarch64" @@ "qemu-x86_64" :> "x86_64"
    @@ "orange-pi-5" :> "aarch64"
ToolchainArch ==
    "aarch64-linux-musl-bootlin" :> "aarch64"
    @@ "x86_64-linux-musl-bootlin" :> "x86_64"
Kernels == "linux-rpi" :> [arch |-> "aarch64", board |-> "rpi-zero-2w"]
ClassOf == [ tinywifi |-> "router", netos |-> "server",
             ocultum |-> "mobile-handheld", tinydesk |-> "desktop" ]

\* The rows of a table, each with its references; rows that are there stay.
Insert_(db, new) == db @@ new
Rows(table, names, refs(_)) ==
    [k \in {Row(table, n) : n \in names} |-> refs(Name(k))]

ArchRef(db, a) == Lookup(db, "arch", Row("architectures", a))

\* Only the rows whose architecture is there.
WithArch(db, table, archs, refs(_)) ==
    LET known == {n \in DOMAIN archs : ArchRef(db, archs[n]) # NoRefs_}
    IN Rows(table, known, refs)

SeedDistributionClasses(db) ==
    LET none(n) == NoRefs_
    IN Insert_(db, Rows("distribution_classes", Classes, none))

SeedArchitectures(db) ==
    LET none(n) == NoRefs_
    IN Insert_(db, Rows("architectures", Architectures, none))

SeedBoards(db) ==
    LET refs(n) == ArchRef(db, BoardArch[n])
    IN Insert_(db, WithArch(db, "boards", BoardArch, refs))

SeedToolchains(db) ==
    LET refs(n) == ArchRef(db, ToolchainArch[n])
    IN Insert_(db, WithArch(db, "toolchains", ToolchainArch, refs))

KernelArch == [n \in DOMAIN Kernels |-> Kernels[n].arch]
SeedKernels(db) ==
    LET refs(n) == ArchRef(db, Kernels[n].arch)
                   @@ Lookup(db, "board", Row("boards", Kernels[n].board))
    IN Insert_(db, WithArch(db, "kernels", KernelArch, refs))

ClassRef(db, class) ==
    Lookup(db, "class", Row("distribution_classes", class))

\* refs: name -> references.  Looked up by name, made when there is none.
GetOrCreateDistributions(db, refs) ==
    LET new == {n \in DOMAIN refs : Named(db, n) = {}}
    IN Insert_(db, [k \in {NewId(db, "distributions", n) : n \in new} |->
                       refs[Name(k)]])

SeedDistributions(db) ==
    GetOrCreateDistributions(db,
        [n \in DOMAIN ClassOf |-> ClassRef(db, ClassOf[n])])

-----------------------------------------------------------------------------
(* The reference distributions                                             *)

Groups(packages, groups, sets) ==
    [packages |-> packages, groups |-> groups, sets |-> sets]

TinywifiPackages ==
    Groups({"busybox", "dropbear", "hostapd", "nanodhcp", "webui-agent"},
           "base" :> {"busybox"} @@ "networking" :> {"nanodhcp", "dropbear"}
           @@ "wifi" :> {"hostapd"} @@ "management" :> {"webui-agent"},
           "default" :> {"base", "networking", "wifi", "management"})

NetosPackages ==
    Groups({"busybox", "openssh", "nftables", "frr", "ovs-vswitchd",
            "ovsdb-server", "strongswan", "curl", "systemd", "python3",
            "netdata"},
           "base" :> {"busybox", "systemd", "openssh", "curl"}
           @@ "network" :> {"nftables", "frr"}
           @@ "sdn" :> {"ovs-vswitchd", "ovsdb-server"}
           @@ "security" :> {"strongswan"}
           @@ "monitoring" :> {"netdata", "python3"},
           "nervum" :> {"base", "network", "security", "monitoring"}
           @@ "testum" :> {"base", "network"}
           @@ "ovsdb" :> {"base", "network", "sdn", "security"})

OcultumPackages ==
    LET all == {"base", "ui", "audio", "telephony", "apps"}
    IN Groups({"busybox", "systemd", "wayland", "weston", "pipewire",
               "modem-manager", "network-manager", "calls-app",
               "contacts-app", "messages-app", "phosh", "glib2", "gtk4",
               "wireplumber"},
              "base" :> {"busybox", "systemd", "glib2"}
              @@ "ui" :> {"wayland", "weston", "phosh", "gtk4"}
              @@ "audio" :> {"pipewire", "wireplumber"}
              @@ "telephony" :> {"modem-manager", "network-manager",
                                 "calls-app"}
              @@ "apps" :> {"contacts-app", "messages-app"},
              "communicator" :> all @@ "minimal" :> {"base", "ui"}
              @@ "dev" :> all)

TinydeskPackages ==
    Groups({"busybox", "xterm", "openbox", "xorg-server"},
           "base" :> {"busybox"}
           @@ "desktop" :> {"xterm", "openbox", "xorg-server"},
           "default" :> {"base", "desktop"})

\* A profile document: its set, its board (or another if that is not there),
\* the kernel if it names one, the toolchain.
Profile(set, boards, kernels, toolchain) ==
    [set |-> set, boards |-> boards, kernels |-> kernels,
     toolchain |-> toolchain]
EachSet(packages, boards, toolchain) ==
    [s \in DOMAIN packages.sets |-> Profile(s, boards, {}, toolchain)]

Key(table, name, owner) == <<table, name, owner>>

\* The profile of a name in a distribution, or the one to be made.
ProfileId(db, d, name) ==
    LET old == ProfilesNamed(db, d, name)
    IN IF old = {} THEN NewId(db, "profiles", name) ELSE CHOOSE p \in old : TRUE

\* A likely bug: the whole row is written anew.
RewriteProfiles(db, d, refs) ==
    [k \in {ProfileId(db, d, n) : n \in DOMAIN refs} |->
        refs[Name(k)] @@ "distribution" :> d]
    @@ db

\* refs: name -> references.  A column whose new value is not NULL is set,
\* whoever has chosen the old one.
GetOrCreateProfiles(db, d, refs) ==
    [k \in {ProfileId(db, d, n) : n \in DOMAIN refs} |->
        refs[Name(k)] @@ (IF k \in DOMAIN db THEN db[k] ELSE "distribution" :> d)]
    @@ db

FirstOf(db, table, names) ==
    LET there == {i \in DOMAIN names : Row(table, names[i]) \in DOMAIN db}
    IN {Row(table, names[i]) : i \in {j \in there : \A k \in there : j <= k}}

ProfileRefs(db, d, p) ==
    LET boards == FirstOf(db, "boards", p.boards)
    IN [c \in {"board" : b \in boards} |-> CHOOSE b \in boards : TRUE]
       @@ (IF p.kernels = {} THEN NoRefs_
           ELSE Lookup(db, "kernel",
                       Row("kernels", CHOOSE k \in p.kernels : TRUE)))
       @@ Lookup(db, "toolchain", Row("toolchains", p.toolchain))
       @@ ("package_set" :> Key("package_sets", p.set, d))

\* A reference distribution: the architectures to look for, the packages with
\* their groups and sets, the profiles.
Document(name, archs, packages, profiles) ==
    [name |-> name, archs |-> archs, packages |-> packages,
     profiles |-> profiles]

\* The distribution of that name, with its class if it has none.
Classed(db, d, class) ==
    IF Has(db, d, "class") THEN db ELSE Set(db, d, ClassRef(db, class))

\* An architecture that is not there leaves the package versions with an id no
\* row has.
FirstArch(db, archs) ==
    LET found == FirstOf(db, "architectures", archs)
    IN IF found = {} THEN Row("architectures", "")
       ELSE CHOOSE a \in found : TRUE

Group(g, d) == Key("package_groups", g, d)
Set_(s, d)  == Key("package_sets", s, d)

\* The packages of a distribution, their groups and sets.
PackageRows(d, arch, packages) ==
    [k \in {Row("packages", p) : p \in packages.packages} |-> NoRefs_]
    @@ [k \in {Key("package_versions", p, arch) : p \in packages.packages} |->
          "package" :> Row("packages", k[2]) @@ "arch" :> arch]
    @@ [k \in {Group(g, d) : g \in DOMAIN packages.groups}
              \cup {Set_(s, d) : s \in DOMAIN packages.sets} |->
          "distribution" :> d]
    @@ [k \in UNION {{Key("package_group_members", p, Group(g, d)) :
                         p \in packages.groups[g]} :
                     g \in DOMAIN packages.groups} |->
          "group" :> k[3] @@ "package" :> Row("packages", k[2])]
    @@ [k \in UNION {{Key("package_set_members", Group(g, d), Set_(s, d)) :
                         g \in packages.sets[s]} :
                     s \in DOMAIN packages.sets} |->
          "set" :> k[3] @@ "group" :> k[2]]

WithPackages(db, d, doc) ==
    Insert_(db, PackageRows(d, FirstArch(db, doc.archs), doc.packages))

WithProfiles(db, d, profiles) ==
    GetOrCreateProfiles(db, d,
        [n \in DOMAIN profiles |-> ProfileRefs(db, d, profiles[n])])

WithContents(db, d, doc) ==
    WithProfiles(WithPackages(Classed(db, d, ClassOf[doc.name]), d, doc),
                 d, doc.profiles)

\* The rows of one distribution.
SeedReference(db, doc) ==
    LET made == GetOrCreateDistributions(db,
                    doc.name :> ClassRef(db, ClassOf[doc.name]))
    IN WithContents(made, TheDistribution(made, doc.name), doc)

\* Thirteen settings, of which one stands for all.
SeedTinywifiConfigValues(db) ==
    LET d == TheDistribution(db, "tinywifi")
    IN Insert_(db, Key("config_values", "hostapd.ssid", d)
                       :> ("distribution" :> d))

\* The entries go to whichever service profile the distribution has.
SeedTinywifiServiceProfile(db) ==
    LET d     == TheDistribution(db, "tinywifi")
        there == {k \in Of(db, "service_profiles") :
                     Refers(db, k, "distribution", d)}
        sp    == IF there = {} THEN Key("service_profiles", "default", d)
                 ELSE CHOOSE k \in there : TRUE
    IN Insert_(db,
         (sp :> ("distribution" :> d))
         @@ [k \in {Key("service_entries", n, sp) :
                       n \in {"network", "hostapd", "nanodhcp",
                              "tinywifi-web"}} |-> "profile" :> sp])

TinywifiProfiles ==
    "default" :> Profile("default", <<"rpi-zero-2w">>, {"linux-rpi"},
                         "aarch64-linux-musl-bootlin")

NetosProfiles ==
    EachSet(NetosPackages, <<"qemu-x86_64">>, "x86_64-linux-musl-bootlin")
OcultumProfiles ==
    EachSet(OcultumPackages, <<"qemu-x86_64">>, "aarch64-linux-musl-bootlin")

\* A likely bug: the toolchain of another reference distribution.
OrangePiMixed(boards) ==
    Profile("default", boards, {"linux-rpi"}, "x86_64-linux-musl-bootlin")

OrangePi(boards) ==
    Profile("default", boards, {"linux-rpi"}, "aarch64-linux-musl-bootlin")

Tinywifi ==
    Document("tinywifi", <<"aarch64">>, TinywifiPackages, TinywifiProfiles)
Netos == Document("netos", <<"x86_64">>, NetosPackages, NetosProfiles)
OcultumAnyArch ==
    Document("ocultum", <<"aarch64", "x86_64">>, OcultumPackages,
             OcultumProfiles)
TinydeskOnAnyBoard ==
    Document("tinydesk", <<"aarch64">>, TinydeskPackages,
             "orange-pi-5" :> OrangePi(<<"orange-pi-5", "rpi-zero-2w">>))

\* From one file each; tinydesk has a second profile there.
Ocultum ==
    Document("ocultum", <<"aarch64">>, OcultumPackages, OcultumProfiles)
Tinydesk ==
    Document("tinydesk", <<"aarch64">>, TinydeskPackages,
             "orange-pi-5" :> OrangePi(<<"orange-pi-5">>)
             @@ "rpi-zero-2w" :> OrangePi(<<"rpi-zero-2w">>))

SeedDistributionCatalog(db) ==
    SeedReference(SeedReference(SeedReference(SeedReference(db, Netos),
        Ocultum), Tinydesk), Tinywifi)

\* Nothing of the catalogue is seeded where its files are not.
BaseCatalog(db, kernels, files) ==
    LET rows == SeedToolchains(SeedBoards(SeedArchitectures(db)))
    IN IF files THEN (IF kernels THEN SeedKernels(rows) ELSE rows) ELSE db

\* The reference distribution of a revision, its classes and base catalogue
\* before it; two of them need kernels, and tinywifi has more rows of its own.
DocumentOf ==
    "0045" :> Tinywifi @@ "0046" :> Netos @@ "0047" :> OcultumAnyArch
    @@ "0051" :> TinydeskOnAnyBoard
SeedOwnReference(db, revision, files) ==
    LET base == BaseCatalog(db, revision \in {"0045", "0051"}, files)
        rows == SeedReference(SeedDistributionClasses(base),
                              DocumentOf[revision])
    IN IF revision = "0045"
       THEN SeedTinywifiServiceProfile(SeedTinywifiConfigValues(rows))
       ELSE rows

\* 0045 and 0051 seed the base catalogue first, 0052 the base catalogue and all
\* reference distributions.
WithDistributions(db, files) ==
    LET start == SeedDistributionClasses(db)
    IN IF files THEN SeedDistributions(BaseCatalog(start, TRUE, files))
       ELSE start

\* 0050 makes the table of the settings, and gives tinywifi its own if it is
\* there.
WithSettings(db) ==
    IF Named(db, "tinywifi") = {} THEN db
    ELSE SeedTinywifiServiceProfile(SeedTinywifiConfigValues(db))

\* A database in which 0045 runs has that table from 0001 (Migrations).
Upgraded(db, revision, files) ==
    LET start == IF revision \in {"0045", "0051", "0052"}
                 THEN WithDistributions(db, files) ELSE db
    IN CASE revision = "0050" -> WithSettings(db)
         [] revision = "0052" ->
               IF files THEN SeedDistributionCatalog(start) ELSE start
         [] OTHER -> SeedOwnReference(start, revision, files)
SeedRevisions == {"0045", "0046", "0047", "0050", "0051", "0052"}

-----------------------------------------------------------------------------
(* osfabricumctl catalog import: a row whose architecture or board is not  *)
(* there fails the whole file.                                             *)

ImportArchitectures(db) == SeedArchitectures(db)

AllThere(db, table, names) == {Row(table, n) : n \in names} \subseteq DOMAIN db
ArchsOf(f) == {f[n] : n \in DOMAIN f}

ImportBoards(db) ==
    IF AllThere(db, "architectures", ArchsOf(BoardArch)) THEN SeedBoards(db)
    ELSE db
ImportToolchains(db) ==
    IF AllThere(db, "architectures", ArchsOf(ToolchainArch))
    THEN SeedToolchains(db) ELSE db

\* A kernel has no board here; its configuration has.
ImportKernels(db) ==
    LET new == {n \in DOMAIN Kernels : Row("kernels", n) \notin DOMAIN db}
        arch(n) == ArchRef(db, Kernels[n].arch)
        config(n) == "kernel" :> Row("kernels", n)
                     @@ "board" :> Row("boards", Kernels[n].board)
    IN IF /\ AllThere(db, "architectures", {Kernels[n].arch : n \in new})
          /\ AllThere(db, "boards", {Kernels[n].board : n \in new})
       THEN Insert_(db, Rows("kernels", new, arch)
                        @@ Rows("kernel_configs", new, config))
       ELSE db

\* A likely bug: made without looking.
AlwaysImportDistributions(db) ==
    Insert_(db, [k \in {NewId(db, "distributions", n) : n \in DOMAIN ClassOf} |->
                    NoRefs_])

\* The class a file gives is left out.
ImportDistributions(db) ==
    GetOrCreateDistributions(db, [n \in DOMAIN ClassOf |-> NoRefs_])

BoardFile(table, board, name) ==
    Key(table, name, Row("boards", board)) :> ("board" :> Row("boards", board))

ImportFirmware(db) ==
    IF AllThere(db, "boards", {"rpi-zero-2w"})
    THEN Insert_(db, BoardFile("firmware_blobs", "rpi-zero-2w", "start4.elf"))
    ELSE db

-----------------------------------------------------------------------------
(* osfabricumctl board seed, boot-chain seed, initramfs seed               *)

SeedSocFamilies(db) ==
    LET none(n) == NoRefs_
    IN Insert_(db, Rows("soc_families",
                        {"BCM2710", "BCM2711", "Allwinner H3",
                         "Rockchip RK3399"}, none))

\* Files of boards that are not there are passed over.
OfBoards(db, files) ==
    [k \in {f \in DOMAIN files : f[3] \in DOMAIN db} |-> files[k]]

SeedBoardRevisions(db) ==
    LET soc == Lookup(db, "soc_family", Row("soc_families", "BCM2710"))
        rpi == BoardFile("board_revisions", "rpi-zero-2w", "1.0")
        files == [k \in DOMAIN rpi |-> rpi[k] @@ soc]
                 @@ BoardFile("board_revisions", "qemu-x86_64", "generic")
    IN Insert_(db, OfBoards(db, files))

SeedBoardBsp(db) ==
    Insert_(db, OfBoards(db,
        BoardFile("board_firmware", "rpi-zero-2w", "start4.elf")
        @@ BoardFile("board_device_trees", "rpi-zero-2w", "bcm2710.dtb")
        @@ BoardFile("board_flash_methods", "rpi-zero-2w", "dd")
        @@ BoardFile("board_flash_methods", "qemu-x86_64", "qemu-img")
        @@ BoardFile("board_test_methods", "qemu-x86_64", "qemu-x86_64")
        @@ BoardFile("board_probe_profiles", "qemu-x86_64", "dmi")))

SeedBoards_(db) == SeedBoardBsp(SeedBoardRevisions(SeedSocFamilies(db)))

\* Chains name their boot scheme, and bindings their board and profile, by ids
\* no row has.
ChainSchemes ==
    [ grub_uefi |-> "uefi", uboot_extlinux |-> "uboot",
      syslinux_bios |-> "bios", grub_bios |-> "bios" ]
SeedBootChains(db) ==
    LET scheme(n) == "boot_scheme" :> Row("boot_schemes", ChainSchemes[n])
        new   == {n \in DOMAIN ChainSchemes :
                     Row("boot_chains", n) \notin DOMAIN db}
        chain(n) == "boot_chain" :> Row("boot_chains", n)
        bound(n) ==
            "boot_chain" :> Row("boot_chains", "uboot_extlinux")
            @@ "board" :> Row("boards", "rpi4")
    IN Insert_(db, Rows("boot_chains", new, scheme)
                   @@ Rows("boot_chain_files", new, chain)
                   @@ Rows("boot_chain_bindings", {"rpi4"}, bound))

SeedInitramfsProfiles(db) ==
    LET none(n) == NoRefs_
        new == {n \in {"minimal-busybox", "recovery-full", "encrypted-root",
                       "network-boot", "debug-shell"} :
                   Row("initramfs_profiles", n) \notin DOMAIN db}
        parts(n) == "profile" :> Row("initramfs_profiles", n)
    IN Insert_(db, Rows("initramfs_profiles", new, none)
                   @@ Rows("initramfs_packages", new, parts))

Commands ==
    {"architectures", "boards", "toolchains", "kernels", "distributions",
     "firmware", "board seed", "boot-chain seed", "initramfs seed"}
Commanded(db, command) ==
    CASE command = "architectures"   -> ImportArchitectures(db)
      [] command = "boards"          -> ImportBoards(db)
      [] command = "toolchains"      -> ImportToolchains(db)
      [] command = "kernels"         -> ImportKernels(db)
      [] command = "distributions"   -> ImportDistributions(db)
      [] command = "firmware"        -> ImportFirmware(db)
      [] command = "board seed"      -> SeedBoards_(db)
      [] command = "boot-chain seed" -> SeedBootChains(db)
      [] command = "initramfs seed"  -> SeedInitramfsProfiles(db)

-----------------------------------------------------------------------------
(* What is assumed of the databases to start from.                         *)

\* The numbers of the ids that are made anew whenever a row is.
NumberedUpTo(rows, n) ==
    \A k \in Mentioned(rows) :
       Table_(k) \in {"distributions", "profiles"} => k[3] \in 0..n

\* Nothing was deleted yet, names of distributions are unique, and a profile has
\* a distribution, and a parent in it if it inherits.
Sound(rows) ==
    /\ Of(rows, "deleted") = {}
    /\ \A d, e \in Distributions(rows) : Name(d) = Name(e) => d = e
    /\ \A p \in Of(rows, "profiles") :
          /\ Has(rows, p, "distribution")
          /\ rows[p]["distribution"] \in Distributions(rows)
          /\ \A q \in Parent(rows, p) :
                q \in ProfilesOf(rows, rows[p]["distribution"])

ASSUME StartsAssumption ==
    \A s \in Starts :
       /\ s.due \in Seq(SeedRevisions)
       /\ Sound(s.rows)
       /\ \E n \in 0..Cardinality(Mentioned(s.rows)) : NumberedUpTo(s.rows, n)

\* The id of a package's row says what the row refers to.
ReadsAsItsId(rows, k) ==
    /\ Table_(k) = "package_versions" =>
         /\ Refers(rows, k, "package", Row("packages", k[2]))
         /\ Refers(rows, k, "arch", k[3])
    /\ Table_(k) = "package_set_members" =>
         Refers(rows, k, "set", k[3]) /\ Refers(rows, k, "group", k[2])
    /\ Table_(k) = "package_group_members" =>
         /\ Refers(rows, k, "group", k[3])
         /\ Refers(rows, k, "package", Row("packages", k[2]))

\* The reference distributions for one architecture: all but ocultum, whose
\* profiles name an x86_64 board and an aarch64 toolchain.
Buildable == DOMAIN ClassOf \ {"ocultum"}
Home(name) == Row("architectures", IF name = "netos" THEN "x86_64" ELSE "aarch64")
HasArch(db, k, a) == Refers(db, k, "arch", Row("architectures", a))

\* What has the name of a row of the catalogue's files is that row.
BaseFits(db, k) ==
    /\ Table_(k) = "boards" /\ Name(k) \in DOMAIN BoardArch =>
         HasArch(db, k, BoardArch[Name(k)])
    /\ Table_(k) = "toolchains" /\ Name(k) \in DOMAIN ToolchainArch =>
         HasArch(db, k, ToolchainArch[Name(k)])
    /\ Table_(k) = "kernels" /\ Name(k) \in DOMAIN Kernels =>
         HasArch(db, k, KernelArch[Name(k)])

\* The sets of a reference distribution consist of its own groups, and their
\* packages come in its architecture.
PackageFits(db, k) ==
    /\ ReadsAsItsId(db, k)
    /\ Table_(k) = "package_set_members" /\ Name(k[3][3]) \in Buildable =>
         k[2][3] = k[3][3]
    /\ Table_(k) = "package_group_members" /\ Name(k[3][3]) \in Buildable =>
         Key("package_versions", k[2], Home(Name(k[3][3]))) \in DOMAIN db
RowFits(db, k) == BaseFits(db, k) /\ PackageFits(db, k)

\* A profile as the seeds make it.
Parts == {"board", "toolchain", "kernel"}
ProfileFits(db, p) ==
    /\ "inherits" \notin DOMAIN db[p] /\ "distribution" \in DOMAIN db[p]
    /\ LET d == db[p]["distribution"] IN
       Name(d) # "ocultum" =>
          /\ Name(d) \in Buildable
          /\ \A c \in Parts \cap DOMAIN db[p] :
                /\ ArchOf(db, db[p][c]) = {Home(Name(d))}
                /\ Table_(db[p][c]) \in {"boards", "toolchains", "kernels"}
          /\ "package_set" \in DOMAIN db[p] => db[p]["package_set"][3] = d

\* Where the catalogue's files come with the package, nothing is there under
\* their names that earlier runs of the seeds have not made, but for profiles.
ASSUME ShippedAssumption ==
    \A s \in Starts : s.shipped =>
       /\ \A k \in DOMAIN s.rows : RowFits(s.rows, k)
       /\ \A p \in Of(s.rows, "profiles") \ s.own : ProfileFits(s.rows, p)

-----------------------------------------------------------------------------

CatalogueInit ==
    \E s \in Starts :
       /\ catalogue = s.rows /\ pending = s.due /\ shipped = s.shipped
       /\ requests = s.requests /\ open = {} /\ touched = s.own

Upgrade ==
    /\ pending # <<>>
    /\ catalogue' = Upgraded(catalogue, Head(pending), shipped)
    /\ pending' = Tail(pending)
    /\ UNCHANGED <<shipped, requests, open, touched>>

RunCommand(c) ==
    /\ requests > 0 /\ requests' = requests - 1
    /\ catalogue' = Commanded(catalogue, c)
    /\ UNCHANGED <<pending, shipped, open, touched>>

\* A request has found what it needs.
Ask(r) ==
    /\ requests > 0 /\ requests' = requests - 1
    /\ open' = open \cup {r}
    /\ UNCHANGED <<catalogue, pending, shipped, touched>>

\* The optional class of a distribution and parent of a profile.
ClassRefs(db) == {NoRefs_} \cup {ClassRef(db, c) : c \in Classes}
InheritsRefs(db, d) ==
    {NoRefs_} \cup {"inherits" :> q : q \in ProfilesOf(db, d)}

\* The distributions users work with.
OwnDistributions == {d \in Distributions(catalogue) : Name(d) \in DistNames}
OwnProfiles(d) == ProfilesOf(catalogue, d)

\* The columns of a row that are to become something else.
Differs(k, column, refs) ==
    \/ column \in DOMAIN refs /\ ~Refers(catalogue, k, column, refs[column])
    \/ column \notin DOMAIN refs /\ Has(catalogue, k, column)

AskDistribution ==
    \/ \E n \in DistNames, class \in ClassRefs(catalogue) :
          /\ Named(catalogue, n) = {}
          /\ Ask(InsertDistribution(n, class))
    \/ \E d \in OwnDistributions, class \in ClassRefs(catalogue) :
          /\ Differs(d, "class", class)
          /\ Ask(Update(d, {"class"}, class))
    \/ \E d \in OwnDistributions :
          /\ \A b \in Of(catalogue, "builds") :
                ~Refers(catalogue, b, "distribution", d)
          /\ Ask(DeleteDistribution(catalogue, d))
    \/ \E d \in OwnDistributions, n \in DistNames :
          /\ Named(catalogue, n) = {}
          /\ Ask(CloneDistribution(catalogue, d, n))
    \/ \E n \in DistNames, p, q \in ProfileNames :
          p # q /\ Ask(ImportDistribution(catalogue, n, p, q))

\* A document whose name is taken replaces the profile.
AskProfile ==
    \E d \in OwnDistributions :
      \/ \E n \in ProfileNames, parent \in InheritsRefs(catalogue, d) :
            /\ ProfilesNamed(catalogue, d, n) = {}
            /\ Ask(InsertProfile(d, n, parent))
      \/ \E p \in OwnProfiles(d), parent \in InheritsRefs(catalogue, d) :
            /\ Differs(p, "inherits", parent)
            /\ Ask(Update(p, {"inherits"}, parent))
      \/ \E p \in OwnProfiles(d), b \in Of(catalogue, "boards") :
            /\ Differs(p, "board", "board" :> b)
            /\ Ask(Update(p, {"board"}, "board" :> b))
      \/ \E p \in OwnProfiles(d) :
            Children(catalogue, p) = {} /\ Ask(DeleteProfile(catalogue, p))
      \/ \E p \in OwnProfiles(d), n \in ProfileNames :
            /\ ProfilesNamed(catalogue, d, n) = {}
            /\ Ask(CloneProfile(catalogue, p, n))
      \/ \E p \in OwnProfiles(d) : Ask(CreateVersion(catalogue, p))
      \/ \E n \in ProfileNames :
            \E old \in ProfilesNamed(catalogue, d, n),
               parents \in {{}} \cup {{q} : q \in ProfileNames \ {n}} :
               Ask(ImportProfile(d, old, n, parents))

\* A build is planned, and then recorded (orchestrator/build.py).  One build of
\* a profile stands for all.
AskBuild ==
    \E d \in OwnDistributions : \E p \in OwnProfiles(d) :
       Ask(InsertRow(Row("builds", p), "distribution" :> d @@ "profile" :> p))

\* The profiles that are made or changed.
Changed(db) ==
    {p \in Of(db, "profiles") :
        p \notin DOMAIN catalogue \/ catalogue[p] # db[p]}

Answered(r) ==
    /\ open' = open \ {r}
    /\ UNCHANGED <<pending, shipped, requests>>

Writes(r, db) ==
    /\ catalogue' = db
    /\ touched' = touched \cup Changed(db)
    /\ Answered(r)

\* Names are unique, of distributions and within one; so are the numbers of a
\* profile's versions.
CommitInsert(r) ==
    \/ /\ r.op = "distribution" /\ Named(catalogue, r.name) = {}
       /\ Writes(r, catalogue
                    @@ (NewId(catalogue, "distributions", r.name) :> r.refs))
    \/ /\ r.op = "profile"
       /\ ProfilesNamed(catalogue, r.refs["distribution"], r.name) = {}
       /\ Writes(r, catalogue
                    @@ (NewId(catalogue, "profiles", r.name) :> r.refs))
    \/ /\ r.op = "row" /\ r.row \notin DOMAIN catalogue
       /\ Writes(r, catalogue @@ (r.row :> r.refs))

\* An UPDATE whose row has gone is refused; a DELETE is not.
CommitUpdate(r) ==
    /\ r.op = "update" /\ r.row \in DOMAIN catalogue
    /\ Writes(r, Write(catalogue, r.row, r.columns, r.refs))

CommitDelete(r) ==
    r.op = "delete" /\ Writes(r, Without(catalogue, r.rows))

CommitClone(r) ==
    /\ r.op = "clone" /\ Named(catalogue, r.name) = {}
    /\ Writes(r, Cloned(catalogue, r.row, r.name, r.refs))

CommitImport(r) ==
    \/ /\ r.op = "import" /\ Named(catalogue, r.name) \subseteq r.rows
       /\ Writes(r, Imported(catalogue, r.rows, r.name, r.profile, r.child))
    \/ /\ r.op = "replace"
       /\ ProfilesNamed(catalogue, r.distribution, r.name) \subseteq {r.old}
       /\ r.parents # {} =>
             ParentsFound(catalogue, r.distribution, r.parents) # {}
       /\ Writes(r, Replaced(catalogue, r.distribution, r.old, r.name,
                             r.parents))

\* The request is refused, or dies.
DropRequest(r) == Answered(r) /\ UNCHANGED <<catalogue, touched>>

CatalogueNext ==
    \/ Upgrade
    \/ \E c \in Commands : RunCommand(c)
    \/ AskDistribution
    \/ AskProfile
    \/ AskBuild
    \/ \E r \in open : CommitInsert(r)
    \/ \E r \in open : CommitUpdate(r)
    \/ \E r \in open : CommitDelete(r)
    \/ \E r \in open : CommitClone(r)
    \/ \E r \in open : CommitImport(r)
    \/ \E r \in open : DropRequest(r)

CatalogueSpec == CatalogueInit /\ [][CatalogueNext]_catalogueVars

-----------------------------------------------------------------------------

\* "Idempotent", every docstring says: a revision or a command that runs twice
\* in a row on any database there can be leaves it as the first run did.
SeedsSettle ==
    /\ \A r \in SeedRevisions :
          \A once \in {Upgraded(catalogue, r, shipped)} :
             Upgraded(once, r, shipped) = once
    /\ \A c \in Commands :
          \A once \in {Commanded(catalogue, c)} : Commanded(once, c) = once

\* The same of every database but the empty one.
CatalogueSettles == catalogue # <<>> => SeedsSettle

\* What a seeding revision may do to the rows that are there: nothing but set
\* the class of a distribution that has none and choose the board, kernel,
\* toolchain and packages of a reference profile, which it does over the
\* user's choice.
Reset == {"board", "kernel", "toolchain", "package_set"}
SeedsOnlyAdd ==
    [][pending' # pending =>
         \A k \in DOMAIN catalogue :
            /\ k \in DOMAIN catalogue'
            /\ \A c \in DOMAIN catalogue[k] :
                  \/ Refers(catalogue', k, c, catalogue[k][c])
                  \/ Table_(k) = "profiles" /\ c \in Reset]_catalogueVars

\* No profile of a distribution inherits from one of another, so that deleting
\* or replacing a distribution never reaches into a second one, and the packages
\* a profile inherits are of its own: however look-ups and commits of requests
\* overlap with each other and with the seeds, and whatever documents replace.
\* A parent may be gone: the look-up that refuses to delete it is not repeated
\* with the deletion, nor the look-up of the parent with the insertion.
ParentsAreOwn ==
    \A p \in Of(catalogue, "profiles") : \A q \in Parent(catalogue, p) :
       LET d == catalogue[p]["distribution"] IN
       {d, q} \subseteq DOMAIN catalogue => q \in ProfilesOf(catalogue, d)

\* The profiles the seeds made for tinywifi, netos and tinydesk, and no user has
\* changed, can be built: their board's architecture is that of the toolchain
\* and the kernel they name, and every package of their set comes in it.
PlansComplete ==
    \A p \in Of(catalogue, "profiles") \ touched :
       LET d == catalogue[p]["distribution"] IN
       shipped /\ d \in DOMAIN catalogue /\ Name(d) # "ocultum" =>
         \A b \in Pick(catalogue, p, "board") : \A a \in ArchOf(catalogue, b) :
            /\ \A t \in Pick(catalogue, p, "toolchain")
                         \cup Pick(catalogue, p, "kernel") :
                  ArchOf(catalogue, t) = {a}
            /\ \A s \in Pick(catalogue, p, "package_set") :
                  PackagesFromSet(catalogue, s, a) = MembersOf(catalogue, s)
=============================================================================
