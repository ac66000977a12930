------------------------------ MODULE SeedData ------------------------------
(***************************************************************************)
(* The enumerations the core ships with (osfabricum/db/seed_data.py), fixed*)
(* lists of names, each of which a revision puts into a table of its own.  *)
(* The rows of a list are not told apart: a table holds the list or not.   *)
(***************************************************************************)
EXTENDS Maps

\* A statement of a revision: what it does (op), to which table, with which
\* item, under which guard ("" for none), and whether its failure is swallowed.
Statement(op, table, item) ==
    [op |-> op, table |-> table, item |-> item, guard |-> "", on |-> "",
     try |-> FALSE]

\* An ORM seeding function: it selects from these tables with every column
\* the models have today, and inserts the rows it does not find.
Seed(tables) == Statement("seed", "", tables)

\* Inserts that name their columns, for the rows that are not there yet.
Fill(t) == Statement("fill", t, {})

\* Lists the revisions insert themselves.
DistributionClasses      == Fill("distribution_classes")
BootSchemes              == Fill("boot_schemes")
PackageKinds             == Fill("package_kinds")
PackageLayers            == Fill("package_layers")
RuntimeBackends          == Fill("runtime_package_backends")
CompositorBackends       == Fill("compositor_backends")
DisplayManagerBackends   == Fill("display_manager_backends")
AppCategories            == Fill("app_categories")
MimeTypeDefinitions      == Fill("mime_type_definitions")
ThemeAssetKinds          == Fill("theme_asset_kinds")
UserShellKinds           == Fill("user_shell_kinds")
NetworkInterfaceKinds    == Fill("network_interface_kinds")
InitSystemKinds          == Fill("init_system_kinds")
SecurityMacKinds         == Fill("security_mac_kinds")
SpdxLicenseKinds         == Fill("spdx_license_kinds")
UpdateStrategyKinds      == Fill("update_strategy_kinds")

\* Seeding functions the revisions call.
SeedSdkExportKinds     == Seed({"sdk_export_kinds"})
SeedCachePolicyKinds   == Seed({"cache_policy_kinds"})
SeedProbeSourceKinds   == Seed({"probe_source_kinds"})
SeedLayerKinds         == Seed({"layer_kinds"})
SeedOverrideKinds      == Seed({"override_kinds"})
SeedPatchTargetKinds   == Seed({"patch_target_kinds"})
SeedGraphKinds         == Seed({"graph_kinds"})
SeedExplainTraceKinds  == Seed({"explain_trace_kinds"})
SeedDiffReportKinds    == Seed({"diff_report_kinds"})
SeedRollbackKinds      == Seed({"rollback_kinds"})
SeedImportKinds        == Seed({"import_kinds"})
SeedSizeBudgetKinds    == Seed({"size_budget_kinds"})
SeedReleaseChannels    == Seed({"release_channels"})
=============================================================================
