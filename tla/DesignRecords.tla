----------------------------- MODULE DesignRecords -----------------------------
(***************************************************************************)
(* The services that keep rows and render no text of them, in the terms of *)
(* Designers; all the designs there are; and what the services leave to    *)
(* their callers.                                                          *)
(***************************************************************************)
EXTENDS Designers

-----------------------------------------------------------------------------
(* repository/service.py: the index of a repository is one row per channel *)

IndexesCreateRepository == Insert("profile", Nothing, {})
IndexesIndex == Upsert("indexes", Root, {})

Indexes ==
    [ columns |-> <<>>,
      keys |-> {"profile"},
      apart |-> <<>>,
      requests |-> [ createRepository |-> IndexesCreateRepository,
                     index |-> IndexesIndex ] ]

-----------------------------------------------------------------------------
(* bootchain/service.py *)

BootChainsCreate == Insert("profile", Nothing, {})
BootChainsAddTemplate == Insert("templates", Root, {})
BootChainsAddFile == Insert("files", {"profile", "templates"}, {})
BootChainsBind == Insert("bindings", Root, {})

BootChains ==
    [ columns |-> <<>>,
      keys |-> {"profile"},
      apart |-> <<>>,
      requests |-> [ create |-> BootChainsCreate,
                     addTemplate |-> BootChainsAddTemplate,
                     addFile |-> BootChainsAddFile, bind |-> BootChainsBind ] ]

-----------------------------------------------------------------------------
(* initramfs/service.py: never committed without a session *)

InitramfsCreate == Uncommitted("profile", Nothing, {})
InitramfsAddPackage == Uncommitted("packages", Nothing, {})
InitramfsAddScript == Uncommitted("scripts", Nothing, {})
InitramfsAddHook == Uncommitted("hooks", Nothing, {})
InitramfsCreateArtifact == Uncommitted("artifacts", Nothing, {})

Initramfs ==
    [ columns |-> <<>>,
      keys |-> {},
      apart |-> <<>>,
      requests |-> [ create |-> InitramfsCreate,
                     addPackage |-> InitramfsAddPackage,
                     addScript |-> InitramfsAddScript,
                     addHook |-> InitramfsAddHook,
                     createArtifact |-> InitramfsCreateArtifact ] ]

-----------------------------------------------------------------------------
(* board/service.py: rows are accepted for any board id *)

BoardsCreateRevision == Unique("revisions", Root, {})
BoardsAddFirmware == Insert("firmware", Nothing, {})
BoardsAddDeviceTree == Insert("device_trees", Nothing, {})
BoardsAddFlashMethod == Insert("flash_methods", Nothing, {})
BoardsAddTestMethod == Insert("test_methods", Nothing, {})
BoardsAddProbeProfile == Insert("probe_profiles", Nothing, {})

Boards ==
    [ columns |-> <<>>,
      keys |-> {"profile"},
      apart |-> <<>>,
      requests |-> [ createRevision |-> BoardsCreateRevision,
                     addFirmware |-> BoardsAddFirmware,
                     addDeviceTree |-> BoardsAddDeviceTree,
                     addFlashMethod |-> BoardsAddFlashMethod,
                     addTestMethod |-> BoardsAddTestMethod,
                     addProbeProfile |-> BoardsAddProbeProfile ] ]

-----------------------------------------------------------------------------
(* imagedesign/service.py *)

ImagesCreate == Unique("profile", Nothing, {})
ImagesSetTargets == Change("profile", Root, {})
ImagesAddOutput == Insert("outputs", Root, {})
ImagesAddMount == Insert("mounts", Root, {})
ImagesAddOverlay == Insert("overlays", Root, {})

Images ==
    [ columns |-> <<>>,
      keys |-> {"profile", "outputs"},
      apart |-> <<>>,
      requests |-> [ create |-> ImagesCreate, setTargets |-> ImagesSetTargets,
                     addOutput |-> ImagesAddOutput,
                     addMount |-> ImagesAddMount,
                     addOverlay |-> ImagesAddOverlay ] ]

-----------------------------------------------------------------------------
(* imagedesign/service.py *)

ImagePartsCreateFilesystem == Unique("filesystems", Nothing, {})
ImagePartsCreateSizePolicy == Unique("size_policies", Nothing, {})
ImagePartsCreateLayout == Unique("profile", Nothing, {})
ImagePartsAddPartition == Insert("partitions", Root, {})

ImageParts ==
    [ columns |-> <<>>,
      keys |-> {"profile", "filesystems", "size_policies", "partitions"},
      apart |-> "filesystems" :> {} @@ "size_policies" :> {},
      requests |-> [ createFilesystem |-> ImagePartsCreateFilesystem,
                     createSizePolicy |-> ImagePartsCreateSizePolicy,
                     createLayout |-> ImagePartsCreateLayout,
                     addPartition |-> ImagePartsAddPartition ] ]

-----------------------------------------------------------------------------
(* kerneldesign/service.py *)

DriverBundlesCreate == Unique("profile", Nothing, {})
DriverBundlesAddOption == Insert("options", Root, {})
DriverBundlesAddModule == Insert("modules", Root, {})
DriverBundlesAddFirmware == Insert("firmware", Root, {})
DriverBundlesAddDtOverlay == Insert("dt_overlays", Root, {})

DriverBundles ==
    [ columns |-> <<>>,
      keys |-> {"profile"},
      apart |-> <<>>,
      requests |-> [ create |-> DriverBundlesCreate,
                     addOption |-> DriverBundlesAddOption,
                     addModule |-> DriverBundlesAddModule,
                     addFirmware |-> DriverBundlesAddFirmware,
                     addDtOverlay |-> DriverBundlesAddDtOverlay ] ]

-----------------------------------------------------------------------------
(* kerneldesign/service.py *)

KernelModulesCreate == Unique("profile", Nothing, {})
KernelModulesAddRecipe == Insert("recipes", Root, {})
KernelModulesSavePreset == Insert("presets", Nothing, {})
KernelModulesIndexKconfig == Insert("indexes", Nothing, {})

KernelModules ==
    [ columns |-> <<>>,
      keys |-> {"profile", "presets"},
      apart |-> "presets" :> {} @@ "indexes" :> {},
      requests |-> [ create |-> KernelModulesCreate,
                     addRecipe |-> KernelModulesAddRecipe,
                     savePreset |-> KernelModulesSavePreset,
                     indexKconfig |-> KernelModulesIndexKconfig ] ]

-----------------------------------------------------------------------------
(* packageworkspace/service.py *)

PackagesClassify == Change("profile", Root, {})
PackagesCreateGroup == Unique("groups", Nothing, {})
PackagesAddToGroup == Unique("group_members", {"profile", "groups"}, {})
PackagesCreateSet == Unique("sets", Nothing, {})
PackagesAddToSet == Insert("set_members", {"sets"}, {})
PackagesResolveSet == Insert("install_plans", {"sets"}, {})
PackagesCreateLock == Unique("locks", Nothing, {})
PackagesCreateVariant == Insert("variants", Root, {})

Packages ==
    [ columns |-> <<>>,
      keys |-> {"profile", "groups", "group_members", "sets", "locks",
               "variants"},
      apart |-> "groups" :> {}
                @@ "sets" :> {}
                @@ "locks" :> {}
                @@ "group_members" :> {"groups"}
                @@ "set_members" :> {"sets"}
                @@ "install_plans" :> {"sets"},
      requests |-> [ classify |-> PackagesClassify,
                     createGroup |-> PackagesCreateGroup,
                     addToGroup |-> PackagesAddToGroup,
                     createSet |-> PackagesCreateSet,
                     addToSet |-> PackagesAddToSet,
                     resolveSet |-> PackagesResolveSet,
                     createLock |-> PackagesCreateLock,
                     createVariant |-> PackagesCreateVariant ] ]

-----------------------------------------------------------------------------
(* packageworkspace/service.py *)

FeedsCreate == Unique("profile", Nothing, {})
FeedsAddIndex == Insert("entries", Root, {})
FeedsPromote == Insert("promotions", Nothing, {})
FeedsScope == Insert("channels", Root, {})
FeedsPublish == Logging(Insert("signatures", Root, {}), {"publish_jobs"})
FeedsRecordCacheEntry == Unique("cache_entries", Nothing, {})

Feeds ==
    [ columns |-> <<>>,
      keys |-> {"profile", "cache_entries"},
      apart |-> "promotions" :> {} @@ "cache_entries" :> {},
      requests |-> [ create |-> FeedsCreate, addIndex |-> FeedsAddIndex,
                     promote |-> FeedsPromote, scope |-> FeedsScope,
                     publish |-> FeedsPublish,
                     recordCacheEntry |-> FeedsRecordCacheEntry ] ]

-----------------------------------------------------------------------------
(* packageworkspace/features.py *)

FeaturesDefine == Unique("options", Root, {})
FeaturesRecordVariant == Unique("build_variants", Nothing, {})
FeaturesAddArtifact == Insert("artifacts", {"build_variants"}, {})

Features ==
    [ columns |-> <<>>,
      keys |-> {"options", "build_variants"},
      apart |-> "artifacts" :> {"build_variants"},
      requests |-> [ define |-> FeaturesDefine,
                     recordVariant |-> FeaturesRecordVariant,
                     addArtifact |-> FeaturesAddArtifact ] ]

-----------------------------------------------------------------------------
(* workerpool/service.py: rows are accepted for any pool id *)

WorkerPoolsCreate == Insert("profile", Nothing, {})
WorkerPoolsUpdate == Change("profile", Root, {})
WorkerPoolsAddMember == Insert("members", Nothing, {})
WorkerPoolsAddAffinity == Insert("affinities", Nothing, {})
WorkerPoolsSetQuota == Upsert("quotas", Nothing, {})

WorkerPools ==
    [ columns |-> <<>>,
      keys |-> {"profile"},
      apart |-> <<>>,
      requests |-> [ create |-> WorkerPoolsCreate,
                     update |-> WorkerPoolsUpdate,
                     addMember |-> WorkerPoolsAddMember,
                     addAffinity |-> WorkerPoolsAddAffinity,
                     setQuota |-> WorkerPoolsSetQuota ] ]

-----------------------------------------------------------------------------
(* isolation/service.py *)

IsolationCreate == Insert("profile", Nothing, {})
IsolationUpdate == Change("profile", Root, {})
IsolationAddRequirement == Insert("requirements", Nothing, {})

Isolation ==
    [ columns |-> <<>>,
      keys |-> {"profile"},
      apart |-> "requirements" :> {},
      requests |-> [ create |-> IsolationCreate, update |-> IsolationUpdate,
                     addRequirement |-> IsolationAddRequirement ] ]

-----------------------------------------------------------------------------
(* upgrade/service.py: results are accepted for any id *)

UpgradesCreate == Insert("profile", Nothing, {})
UpgradesSetStatus == Change("profile", Root, {})
UpgradesRecordResult == Insert("results", Nothing, {})

Upgrades ==
    [ columns |-> <<>>,
      keys |-> {},
      apart |-> <<>>,
      requests |-> [ create |-> UpgradesCreate,
                     setStatus |-> UpgradesSetStatus,
                     recordResult |-> UpgradesRecordResult ] ]

-----------------------------------------------------------------------------
(* importers/service.py: a job can be run again and again *)

ImportsCreate == Insert("profile", Nothing, {})
ImportsRun == Insert("reports", Root, {})

Imports ==
    [ columns |-> <<>>,
      keys |-> {},
      apart |-> <<>>,
      requests |-> [ create |-> ImportsCreate, run |-> ImportsRun ] ]

-----------------------------------------------------------------------------
(* analysis/service.py: reports are written once *)

ReportsAnalyze == Insert("analyses", Nothing, {})

Reports ==
    [ columns |-> <<>>,
      keys |-> {},
      apart |-> "analyses" :> {},
      requests |-> [ analyze |-> ReportsAnalyze ] ]

-----------------------------------------------------------------------------
(* sizeopt/service.py *)

SizesSetBudget == Upsert("budgets", Nothing, {})
SizesAnalyze == Insert("reports", Nothing, {})

Sizes ==
    [ columns |-> <<>>,
      keys |-> {"budgets"},
      apart |-> "budgets" :> {} @@ "reports" :> {},
      requests |-> [ setBudget |-> SizesSetBudget, analyze |-> SizesAnalyze ] ]

-----------------------------------------------------------------------------
(* graph/service.py *)

GraphsCompute == Insert("snapshots", Nothing, {})
GraphsComputeReverse == Insert("snapshots", Nothing, {})

Graphs ==
    [ columns |-> <<>>,
      keys |-> {},
      apart |-> "snapshots" :> {},
      requests |-> [ compute |-> GraphsCompute,
                     computeReverse |-> GraphsComputeReverse ] ]

-----------------------------------------------------------------------------
(* probe/service.py *)

ProbesImport == Insert("profile", Nothing, {})
ProbesDelete == Delete("profile", Root, {})

Probes ==
    [ columns |-> <<>>,
      keys |-> {},
      apart |-> <<>>,
      requests |-> [ import |-> ProbesImport, delete |-> ProbesDelete ] ]

-----------------------------------------------------------------------------
(* explain/service.py *)

ExplanationsAddTrace == Insert("traces", Nothing, {})

Explanations ==
    [ columns |-> <<>>,
      keys |-> {},
      apart |-> "traces" :> {},
      requests |-> [ addTrace |-> ExplanationsAddTrace ] ]

-----------------------------------------------------------------------------

Designs_ ==
    [ network |-> Network, services |-> Services, hardening |-> Hardening,
      users |-> Users, branding |-> Branding, graphical |-> Graphical,
      theme |-> Theme, desktopInt |-> DesktopInt, appCatalog |-> AppCatalog,
      compliance |-> Compliance, updates |-> Updates, sdk |-> Sdk,
      mirror |-> Mirror, overrides |-> Overrides, layers |-> Layers,
      patches |-> Patches, lockfile |-> Lockfile,
      bootProfiler |-> BootProfiler, generations |-> Generations,
      releases |-> Releases, packagePolicy |-> PackagePolicy,
      diffReports |-> DiffReports, indexes |-> Indexes,
      bootChains |-> BootChains, initramfs |-> Initramfs, boards |-> Boards,
      images |-> Images, imageParts |-> ImageParts,
      driverBundles |-> DriverBundles, kernelModules |-> KernelModules,
      packages |-> Packages, feeds |-> Feeds, features |-> Features,
      workerPools |-> WorkerPools, isolation |-> Isolation,
      upgrades |-> Upgrades, imports |-> Imports, reports |-> Reports,
      sizes |-> Sizes, graphs |-> Graphs, probes |-> Probes,
      explanations |-> Explanations ]

-----------------------------------------------------------------------------
(* What these services leave to their callers.                             *)

\* The changes that do not clear the texts they make stale: a column and a
\* section it depends on.
Silent ==
    [ network |-> (DOMAIN NetworkColumns)
                    \X {"interfaces", "dns", "routes", "firewall"},
      services |-> (DOMAIN ServicesColumns) \X {"entries", "device_rules"},
      hardening |-> (DOMAIN HardeningColumns) \X {"mac_rules", "pam_rules"},
      users |-> (DOMAIN UsersColumns)
                    \X {"groups", "users", "memberships", "secrets"},
      branding |-> ({"rendered_motd"} \X {"profile", "motd_template"})
                   \cup ((DOMAIN BrandingColumns) \X {"os_release_template"}),
      graphical |-> (DOMAIN GraphicalColumns) \X {"sessions"},
      theme |-> (DOMAIN ThemeColumns) \X {"overrides"},
      desktopInt |-> (DOMAIN DesktopIntColumns)
                    \X {"associations", "user_dirs"},
      appCatalog |-> (DOMAIN AppCatalogColumns)
                    \X {"apps", "groups", "members", "roles"} ]

\* Sections that are looked up by a key no constraint protects.
Doubled ==
    [ indexes |-> {"indexes"}, boards |-> {"revisions"},
      workerPools |-> {"quotas"} ]

\* Keys that take in the distribution (of a build variant, the architecture).
\* Where that is NULL the unique constraint excludes nothing.
MayBeShared ==
    [ d \in {"network", "services", "hardening", "users", "branding",
             "graphical", "theme", "desktopInt", "appCatalog", "compliance",
             "updates", "sdk", "mirror", "overrides", "layers", "patches",
             "images"} |-> {"profile"} ]
    @@ "packages" :> {"groups", "sets"} @@ "features" :> {"build_variants"}

\* Sections whose rows are accepted for an owner that does not exist.
Orphaned ==
    [ lockfile |-> {"entries"}, bootProfiler |-> {"samples"},
      generations |-> {"artifacts", "rollbacks"}, releases |-> {"artifacts"},
      boards |-> {"firmware", "device_trees", "flash_methods", "test_methods",
                  "probe_profiles"},
      workerPools |-> {"members", "affinities", "quotas"},
      upgrades |-> {"results"}, features |-> {"build_variants"} ]

\* Designs whose requests are answered and not committed.
Lost == {"initramfs"}
=============================================================================
