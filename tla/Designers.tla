----------------------------- MODULE Designers -----------------------------
(***************************************************************************)
(* The designers of the distribution (osfabricum/*/service.py): what each  *)
(* request of a designer's service asks, reads, writes and clears.  The    *)
(* machine that runs them, several at a time, is RenderedDesign.           *)
(*                                                                         *)
(* A design is a root row, the section "profile", and sections of rows     *)
(* that belong to it.  Its columns hold rendered texts and their           *)
(* content_hash; every column is a function of the sections listed with    *)
(* it.  Requests are about one key of each section, and arguments outside  *)
(* the services' enumerations are refused before anything is read.         *)
(***************************************************************************)
EXTENDS Naturals, Sequences, Maps

Root    == {"profile"}
Nothing == {}

\* A request refers to rows of the sections in needs and is refused when one
\* of them is missing.
Request(kind, on, needs, clears) ==
    [ kind |-> kind, on |-> on, needs |-> needs,
      clears |-> clears, updates |-> {}, reads |-> <<>>, writes |-> {},
      logs |-> {} ]

\* Looks for the key and inserts a row when there is none.
Unique(on, needs, clears) == Request("unique", on, needs, clears)

\* Inserts a row without looking.
Insert(on, needs, clears) == Request("insert", on, needs, clears)

\* Looks for the key, changes the row or inserts one.
Upsert(on, needs, clears) == Request("upsert", on, needs, clears)

\* Changes a row that must be there.
Change(on, needs, clears) == Request("change", on, needs \cup {on}, clears)

\* Deletes a row that must be there.
Delete(on, needs, clears) == Request("delete", on, needs \cup {on}, clears)

\* Inserts a row, answers, and closes the session without a commit.
Uncommitted(on, needs, clears) == Request("uncommitted", on, needs, clears)

\* Inserts rows there too, which stay when the request fails.
Logging(request, sections) == [request EXCEPT !.logs = sections]

\* Clears by an UPDATE of its own, not through the row it has loaded.
ByStatement(request) ==
    [request EXCEPT !.clears = {}, !.updates = request.clears]

\* Loads the root row, reads the sections in this order, one query each, and
\* sets the columns.
Render(writes, reads, needs) ==
    [Request("render", "profile", needs, {})
       EXCEPT !.reads = reads, !.writes = writes]

-----------------------------------------------------------------------------
(* network/service.py: adding a row clears nothing *)

NetworkColumns ==
    "rendered_networkd" :> {"interfaces", "routes"}
    @@ "rendered_resolv_conf" :> {"dns"}
    @@ "rendered_hosts" :> {"profile"}
    @@ "content_hash" :> {"profile", "interfaces", "dns", "routes", "firewall"}
NetworkCache == {"rendered_networkd", "rendered_resolv_conf", "rendered_hosts",
                "content_hash"}
NetworkCreate == Unique("profile", Nothing, {})
NetworkUpdate == Change("profile", Root, NetworkCache)
NetworkAddInterface == Unique("interfaces", Root, {})
NetworkAddDnsEntry == Unique("dns", Root, {})
NetworkAddRoute == Unique("routes", Root, {})
NetworkAddFirewallRule == Insert("firewall", Root, {})
NetworkRender ==
    Render(DOMAIN NetworkColumns,
           <<"interfaces", "dns", "routes", "firewall">>, Root)

Network ==
    [ columns |-> NetworkColumns,
      keys |-> {"profile", "interfaces", "dns", "routes"},
      apart |-> <<>>,
      requests |-> [ create |-> NetworkCreate, update |-> NetworkUpdate,
                     addInterface |-> NetworkAddInterface,
                     addDnsEntry |-> NetworkAddDnsEntry,
                     addRoute |-> NetworkAddRoute,
                     addFirewallRule |-> NetworkAddFirewallRule,
                     render |-> NetworkRender ] ]

-----------------------------------------------------------------------------
(* services/service.py: only an override clears what is rendered *)

ServicesColumns ==
    "rendered_units" :> {"entries"}
    @@ "rendered_udev" :> {"device_rules"}
    @@ "rendered_overrides" :> {"overrides"}
    @@ "content_hash" :> {"entries", "device_rules", "overrides"}
ServicesCache == {"rendered_units", "rendered_udev", "rendered_overrides",
                 "content_hash"}
ServicesCreate == Unique("profile", Nothing, {})
ServicesUpdate == Change("profile", Root, ServicesCache)
ServicesAddEntry == Unique("entries", Root, {})
ServicesAddDeviceRule == Insert("device_rules", Root, {})
ServicesSetOverride == Upsert("overrides", Root, ServicesCache)
ServicesRender ==
    Render(DOMAIN ServicesColumns,
           <<"entries", "device_rules", "overrides">>, Root)

Services ==
    [ columns |-> ServicesColumns,
      keys |-> {"profile", "entries", "overrides"},
      apart |-> <<>>,
      requests |-> [ create |-> ServicesCreate, update |-> ServicesUpdate,
                     addEntry |-> ServicesAddEntry,
                     addDeviceRule |-> ServicesAddDeviceRule,
                     setOverride |-> ServicesSetOverride,
                     render |-> ServicesRender ] ]

-----------------------------------------------------------------------------
(* hardening/service.py: the two upserts clear, the two inserts do not *)

HardeningColumns ==
    "rendered_sysctl" :> {"sysctl"}
    @@ "rendered_mac_rules" :> {"profile", "mac_rules"}
    @@ "rendered_pam_config" :> {"pam_rules"}
    @@ "rendered_capabilities" :> {"capabilities"}
    @@ "content_hash" :>
           {"profile", "sysctl", "mac_rules", "pam_rules", "capabilities"}
HardeningCache == {"rendered_sysctl", "rendered_mac_rules",
                  "rendered_pam_config", "rendered_capabilities",
                  "content_hash"}
HardeningCreate == Unique("profile", Nothing, {})
HardeningUpdate == Change("profile", Root, HardeningCache)
HardeningSetSysctl == Upsert("sysctl", Root, HardeningCache)
HardeningAddMacRule == Insert("mac_rules", Root, {})
HardeningAddPamRule == Unique("pam_rules", Root, {})
HardeningSetCapability == Upsert("capabilities", Root, HardeningCache)
HardeningRender ==
    Render(DOMAIN HardeningColumns,
           <<"sysctl", "mac_rules", "pam_rules", "capabilities">>, Root)

Hardening ==
    [ columns |-> HardeningColumns,
      keys |-> {"profile", "sysctl", "pam_rules", "capabilities"},
      apart |-> <<>>,
      requests |-> [ create |-> HardeningCreate, update |-> HardeningUpdate,
                     setSysctl |-> HardeningSetSysctl,
                     addMacRule |-> HardeningAddMacRule,
                     addPamRule |-> HardeningAddPamRule,
                     setCapability |-> HardeningSetCapability,
                     render |-> HardeningRender ] ]

-----------------------------------------------------------------------------
(* users/service.py: adding a row clears nothing *)

UsersColumns ==
    "rendered_passwd" :> {"users", "groups"}
    @@ "rendered_group" :> {"groups", "users", "memberships"}
    @@ "rendered_secrets_manifest" :> {"secrets"}
    @@ "content_hash" :> {"users", "groups", "memberships", "secrets"}
UsersCache == {"rendered_passwd", "rendered_group",
              "rendered_secrets_manifest", "content_hash"}
UsersCreate == Unique("profile", Nothing, {})
UsersUpdate == Change("profile", Root, UsersCache)
UsersAddGroup == Unique("groups", Root, {})
UsersAddUser == Unique("users", Root, {})
UsersAddMembership == Unique("memberships", {"users"}, {})
UsersAddSecret == Unique("secrets", Root, {})
UsersRender ==
    Render(DOMAIN UsersColumns,
           <<"groups", "users", "memberships", "secrets">>, Root)

Users ==
    [ columns |-> UsersColumns,
      keys |-> {"profile", "groups", "users", "memberships", "secrets"},
      apart |-> "memberships" :> {"users"},
      requests |-> [ create |-> UsersCreate, update |-> UsersUpdate,
                     addGroup |-> UsersAddGroup, addUser |-> UsersAddUser,
                     addMembership |-> UsersAddMembership,
                     addSecret |-> UsersAddSecret, render |-> UsersRender ] ]

-----------------------------------------------------------------------------
(* branding/service.py: the message of the day is never cleared *)

BrandingColumns ==
    "rendered_os_release" :> {"profile", "os_release_template"}
    @@ "rendered_motd" :> {"profile", "motd_template"}
    @@ "content_hash" :> {"profile", "os_release_template"}
BrandingCreate == Unique("profile", Nothing, {})
BrandingUpdate ==
    Change("profile", Root, {"rendered_os_release", "content_hash"})
BrandingAddAsset == Insert("assets", Root, {})
BrandingSetTarget == Upsert("targets", Root, {})
BrandingRenderOsRelease ==
    Render({"rendered_os_release", "content_hash"},
           <<"os_release_template">>, Root)
BrandingRenderMotd == Render({"rendered_motd"}, <<"motd_template">>, Root)
BrandingSetBootSplash == Upsert("boot_splash", Root, {})
BrandingSetLoginTheme == Upsert("login_theme", Root, {})
BrandingAddWallpaper == Insert("wallpapers", Root, {})
BrandingSetOsReleaseTemplate == Upsert("os_release_template", Root, {})
BrandingSetMotdTemplate == Upsert("motd_template", Root, {})

Branding ==
    [ columns |-> BrandingColumns,
      keys |-> {"profile", "assets", "targets", "boot_splash", "login_theme",
               "os_release_template", "motd_template"},
      apart |-> <<>>,
      requests |-> [ create |-> BrandingCreate, update |-> BrandingUpdate,
                     addAsset |-> BrandingAddAsset,
                     setTarget |-> BrandingSetTarget,
                     renderOsRelease |-> BrandingRenderOsRelease,
                     renderMotd |-> BrandingRenderMotd,
                     setBootSplash |-> BrandingSetBootSplash,
                     setLoginTheme |-> BrandingSetLoginTheme,
                     addWallpaper |-> BrandingAddWallpaper,
                     setOsReleaseTemplate |-> BrandingSetOsReleaseTemplate,
                     setMotdTemplate |-> BrandingSetMotdTemplate ] ]

-----------------------------------------------------------------------------
(* graphical/service.py: a session changes without clearing *)

GraphicalColumns ==
    "rendered_session_config" :> {"profile", "sessions"}
    @@ "content_hash" :> {"profile", "sessions"}
GraphicalCreate == Unique("profile", Nothing, {})
GraphicalUpdate == Change("profile", Root, DOMAIN GraphicalColumns)
GraphicalAddComponent == Insert("components", Root, {})
GraphicalAddSession == Unique("sessions", Root, {})
GraphicalUpdateSession == Change("sessions", Root, {})
GraphicalRender == Render(DOMAIN GraphicalColumns, <<"sessions">>, Root)

Graphical ==
    [ columns |-> GraphicalColumns,
      keys |-> {"profile", "components", "sessions"},
      apart |-> <<>>,
      requests |-> [ create |-> GraphicalCreate, update |-> GraphicalUpdate,
                     addComponent |-> GraphicalAddComponent,
                     addSession |-> GraphicalAddSession,
                     updateSession |-> GraphicalUpdateSession,
                     render |-> GraphicalRender ] ]

-----------------------------------------------------------------------------
(* theme/service.py: packages and overrides do not clear *)

ThemeColumns ==
    "rendered_gsettings" :> {"profile", "overrides"}
    @@ "rendered_gtk_ini" :> {"profile"}
    @@ "content_hash" :> {"profile", "overrides"}
ThemeCreate == Unique("profile", Nothing, {})
ThemeUpdate == Change("profile", Root, DOMAIN ThemeColumns)
ThemeAddPackage == Unique("packages", Root, {})
ThemeSetOverride == Upsert("overrides", Root, {})
ThemeRender == Render(DOMAIN ThemeColumns, <<"overrides", "packages">>, Root)

Theme ==
    [ columns |-> ThemeColumns,
      keys |-> {"profile", "packages", "overrides"},
      apart |-> <<>>,
      requests |-> [ create |-> ThemeCreate, update |-> ThemeUpdate,
                     addPackage |-> ThemeAddPackage,
                     setOverride |-> ThemeSetOverride,
                     render |-> ThemeRender ] ]

-----------------------------------------------------------------------------
(* desktopint/service.py: associations and user directories do not clear *)

DesktopIntColumns ==
    "rendered_mimeapps" :> {"associations"}
    @@ "rendered_user_dirs" :> {"user_dirs"}
    @@ "content_hash" :> {"associations", "user_dirs"}
DesktopIntCreate == Unique("profile", Nothing, {})
DesktopIntUpdate == Change("profile", Root, DOMAIN DesktopIntColumns)
DesktopIntAddAssociation == Unique("associations", Root, {})
DesktopIntAddAutostart == Unique("autostart", Root, {})
DesktopIntSetUserDir == Upsert("user_dirs", Root, {})
DesktopIntRender ==
    Render(DOMAIN DesktopIntColumns, <<"associations", "user_dirs">>, Root)

DesktopInt ==
    [ columns |-> DesktopIntColumns,
      keys |-> {"profile", "associations", "autostart", "user_dirs"},
      apart |-> <<>>,
      requests |-> [ create |-> DesktopIntCreate, update |-> DesktopIntUpdate,
                     addAssociation |-> DesktopIntAddAssociation,
                     addAutostart |-> DesktopIntAddAutostart,
                     setUserDir |-> DesktopIntSetUserDir,
                     render |-> DesktopIntRender ] ]

-----------------------------------------------------------------------------
(* appcatalog/service.py: apps, groups and roles do not clear *)

AppCatalogColumns ==
    "rendered_app_list" :> {"apps", "groups", "members", "roles"}
    @@ "content_hash" :> {"apps", "groups", "members", "roles"}
AppCatalogCreate == Unique("profile", Nothing, {})
AppCatalogUpdate == Change("profile", Root, DOMAIN AppCatalogColumns)
AppCatalogAddApp == Unique("apps", Root, {})
AppCatalogAddGroup == Unique("groups", Root, {})
AppCatalogAddMember == Unique("members", {"apps", "groups"}, {})
AppCatalogSetRole == Upsert("roles", Root, {})
AppCatalogRender ==
    Render(DOMAIN AppCatalogColumns,
           <<"apps", "groups", "roles", "members">>, Root)

AppCatalog ==
    [ columns |-> AppCatalogColumns,
      keys |-> {"profile", "apps", "groups", "members", "roles"},
      apart |-> "members" :> {"groups"},
      requests |-> [ create |-> AppCatalogCreate, update |-> AppCatalogUpdate,
                     addApp |-> AppCatalogAddApp,
                     addGroup |-> AppCatalogAddGroup,
                     addMember |-> AppCatalogAddMember,
                     setRole |-> AppCatalogSetRole,
                     render |-> AppCatalogRender ] ]

-----------------------------------------------------------------------------
(* compliance/service.py: _invalidate is an UPDATE of its own *)

ComplianceColumns ==
    "rendered_sbom" :> {"profile", "entries"}
    @@ "rendered_vuln_report" :> {"profile", "gates"}
    @@ "rendered_license_report" :> {"profile", "entries", "rules"}
    @@ "content_hash" :> {"profile", "entries", "gates", "rules"}
ComplianceInvalidate == {"content_hash"}
ComplianceCreate == Unique("profile", Nothing, {})
ComplianceUpdate == Change("profile", Root, {"content_hash"})
ComplianceSetLicenseRule ==
    ByStatement(Upsert("rules", Root, ComplianceInvalidate))
ComplianceSetVulnGate ==
    ByStatement(Upsert("gates", Root, ComplianceInvalidate))
ComplianceAddSbomEntry ==
    ByStatement(Upsert("entries", Root, ComplianceInvalidate))
ComplianceRender ==
    Render(DOMAIN ComplianceColumns, <<"entries", "gates", "rules">>, Root)

Compliance ==
    [ columns |-> ComplianceColumns,
      keys |-> {"profile", "rules", "gates", "entries"},
      apart |-> <<>>,
      requests |-> [ create |-> ComplianceCreate, update |-> ComplianceUpdate,
                     setLicenseRule |-> ComplianceSetLicenseRule,
                     setVulnGate |-> ComplianceSetVulnGate,
                     addSbomEntry |-> ComplianceAddSbomEntry,
                     render |-> ComplianceRender ] ]

-----------------------------------------------------------------------------
(* updates/service.py: _invalidate is an UPDATE of its own *)

UpdatesColumns ==
    "rendered_update_config" :> {"profile", "channels", "hooks"}
    @@ "rendered_recovery_config" :> {"profile", "targets"}
    @@ "content_hash" :> {"profile", "channels", "hooks", "targets"}
UpdatesInvalidate == {"content_hash"}
UpdatesCreate == Unique("profile", Nothing, {})
UpdatesUpdate == ByStatement(Change("profile", Root, UpdatesInvalidate))
UpdatesAddChannel == ByStatement(Upsert("channels", Root, UpdatesInvalidate))
UpdatesAddTarget == ByStatement(Upsert("targets", Root, UpdatesInvalidate))
UpdatesAddHook == ByStatement(Upsert("hooks", Root, UpdatesInvalidate))
UpdatesRender ==
    Render(DOMAIN UpdatesColumns, <<"channels", "targets", "hooks">>, Root)

Updates ==
    [ columns |-> UpdatesColumns,
      keys |-> {"profile", "channels", "targets", "hooks"},
      apart |-> <<>>,
      requests |-> [ create |-> UpdatesCreate, update |-> UpdatesUpdate,
                     addChannel |-> UpdatesAddChannel,
                     addTarget |-> UpdatesAddTarget,
                     addHook |-> UpdatesAddHook, render |-> UpdatesRender ] ]

-----------------------------------------------------------------------------
(* sdk/service.py *)

SdkColumns ==
    "rendered_setup_script" :> {"profile", "variables"}
    @@ "rendered_env_script" :> {"profile", "variables"}
    @@ "content_hash" :> {"profile", "variables"}
SdkInvalidate == {"content_hash"}
SdkCreate == Unique("profile", Nothing, {})
SdkUpdate == Change("profile", Root, {"content_hash"})
SdkSetVariable == Upsert("variables", Root, SdkInvalidate)
SdkRender == Render(DOMAIN SdkColumns, <<"variables">>, Root)

Sdk ==
    [ columns |-> SdkColumns,
      keys |-> {"profile", "variables"},
      apart |-> <<>>,
      requests |-> [ create |-> SdkCreate, update |-> SdkUpdate,
                     setVariable |-> SdkSetVariable, render |-> SdkRender ] ]

-----------------------------------------------------------------------------
(* mirror/service.py *)

MirrorColumns ==
    "rendered_config" :> {"profile", "endpoints", "rules"}
    @@ "content_hash" :> {"profile", "endpoints", "rules"}
MirrorInvalidate == {"content_hash"}
MirrorCreate == Unique("profile", Nothing, {})
MirrorUpdate == Change("profile", Root, {"content_hash"})
MirrorAddEndpoint == Upsert("endpoints", Root, MirrorInvalidate)
MirrorAddRule == Upsert("rules", Root, MirrorInvalidate)
MirrorRender == Render(DOMAIN MirrorColumns, <<"endpoints", "rules">>, Root)

Mirror ==
    [ columns |-> MirrorColumns,
      keys |-> {"profile", "endpoints", "rules"},
      apart |-> <<>>,
      requests |-> [ create |-> MirrorCreate, update |-> MirrorUpdate,
                     addEndpoint |-> MirrorAddEndpoint,
                     addRule |-> MirrorAddRule, render |-> MirrorRender ] ]

-----------------------------------------------------------------------------
(* overrides/service.py *)

OverridesColumns ==
    "rendered_policy" :> {"profile", "rules"}
    @@ "content_hash" :> {"profile", "rules"}
OverridesInvalidate == {"content_hash"}
OverridesCreate == Unique("profile", Nothing, {})
OverridesUpdate == Change("profile", Root, {"content_hash"})
OverridesAddRule == Upsert("rules", Root, OverridesInvalidate)
OverridesRender == Render(DOMAIN OverridesColumns, <<"rules">>, Root)

Overrides ==
    [ columns |-> OverridesColumns,
      keys |-> {"profile", "rules"},
      apart |-> <<>>,
      requests |-> [ create |-> OverridesCreate, update |-> OverridesUpdate,
                     addRule |-> OverridesAddRule,
                     render |-> OverridesRender ] ]

-----------------------------------------------------------------------------
(* layers/service.py *)

LayersColumns ==
    "rendered_manifest" :> {"profile", "entries"}
    @@ "content_hash" :> {"profile", "entries"}
LayersInvalidate == {"content_hash"}
LayersCreate == Unique("profile", Nothing, {})
LayersUpdate == Change("profile", Root, {"content_hash"})
LayersAddEntry == Upsert("entries", Root, LayersInvalidate)
LayersRender == Render(DOMAIN LayersColumns, <<"entries">>, Root)

Layers ==
    [ columns |-> LayersColumns,
      keys |-> {"profile", "entries"},
      apart |-> <<>>,
      requests |-> [ create |-> LayersCreate, update |-> LayersUpdate,
                     addEntry |-> LayersAddEntry, render |-> LayersRender ] ]

-----------------------------------------------------------------------------
(* patches/service.py *)

PatchesColumns ==
    "rendered_patch_manifest" :> {"profile", "patches"}
    @@ "content_hash" :> {"profile", "patches"}
PatchesInvalidate == {"content_hash"}
PatchesCreate == Unique("profile", Nothing, {})
PatchesUpdate == Change("profile", Root, {"content_hash"})
PatchesAddPatch == Upsert("patches", Root, PatchesInvalidate)
PatchesRender == Render(DOMAIN PatchesColumns, <<"patches">>, Root)
PatchesRecordApplication == Insert("applications", Root, {})

Patches ==
    [ columns |-> PatchesColumns,
      keys |-> {"profile", "patches"},
      apart |-> <<>>,
      requests |-> [ create |-> PatchesCreate, update |-> PatchesUpdate,
                     addPatch |-> PatchesAddPatch, render |-> PatchesRender,
                     recordApplication |-> PatchesRecordApplication ] ]

-----------------------------------------------------------------------------
(* lockfile/service.py: an entry is accepted for any lockfile id *)

LockfileColumns ==
    "rendered_lock" :> {"profile", "entries"}
    @@ "content_hash" :> {"profile", "entries"}
LockfileCreate == Insert("profile", Nothing, {})
LockfileAddEntry == Upsert("entries", Nothing, {"content_hash"})
LockfileRender == Render(DOMAIN LockfileColumns, <<"entries">>, Root)

Lockfile ==
    [ columns |-> LockfileColumns,
      keys |-> {"entries"},
      apart |-> <<>>,
      requests |-> [ create |-> LockfileCreate, addEntry |-> LockfileAddEntry,
                     render |-> LockfileRender ] ]

-----------------------------------------------------------------------------
(* bootprofiler/service.py: a sample is accepted for any boot profile id *)

BootProfilerColumns ==
    "rendered_timeline" :> {"profile", "samples"}
    @@ "summary_json" :> {"profile", "samples"}
    @@ "content_hash" :> {"profile", "samples"}
BootProfilerCreate == Insert("profile", Nothing, {})
BootProfilerAddSample == Insert("samples", Nothing, {"content_hash"})
BootProfilerRender == Render(DOMAIN BootProfilerColumns, <<"samples">>, Root)

BootProfiler ==
    [ columns |-> BootProfilerColumns,
      keys |-> {},
      apart |-> <<>>,
      requests |-> [ create |-> BootProfilerCreate,
                     addSample |-> BootProfilerAddSample,
                     render |-> BootProfilerRender ] ]

-----------------------------------------------------------------------------
(* generations/service.py: rows are accepted for any generation id *)

GenerationsColumns ==
    "rendered_generation_manifest" :> {"profile", "artifacts", "rollbacks"}
    @@ "rendered_rollback_plan" :> {"rollbacks"}
    @@ "content_hash" :> {"profile", "artifacts", "rollbacks"}
GenerationsInvalidate == {"rendered_generation_manifest", "content_hash"}
GenerationsCreate == Insert("profile", Nothing, {})
GenerationsUpdate == Change("profile", Root, GenerationsInvalidate)
GenerationsAddArtifact == Upsert("artifacts", Nothing, GenerationsInvalidate)
GenerationsAddRollback ==
    Upsert("rollbacks",
           Nothing, GenerationsInvalidate \cup {"rendered_rollback_plan"})
GenerationsRenderManifest ==
    Render({"rendered_generation_manifest", "content_hash"},
           <<"artifacts", "rollbacks">>, Root)
GenerationsRenderPlan ==
    Render({"rendered_rollback_plan"}, <<"rollbacks">>, {"rollbacks"})

Generations ==
    [ columns |-> GenerationsColumns,
      keys |-> {"profile", "artifacts", "rollbacks"},
      apart |-> <<>>,
      requests |-> [ create |-> GenerationsCreate,
                     update |-> GenerationsUpdate,
                     addArtifact |-> GenerationsAddArtifact,
                     addRollback |-> GenerationsAddRollback,
                     renderManifest |-> GenerationsRenderManifest,
                     renderPlan |-> GenerationsRenderPlan ] ]

-----------------------------------------------------------------------------
(* repository/service.py: rows are accepted for any release id *)

ReleasesColumns ==
    "rendered_release_manifest" :> {"profile", "artifacts"}
    @@ "content_hash" :> {"profile", "artifacts"}
ReleasesInvalidate == {"rendered_release_manifest", "content_hash"}
ReleasesCreate == Insert("profile", Nothing, {})
ReleasesPromote == Change("profile", Root, ReleasesInvalidate)
ReleasesAddArtifact == Upsert("artifacts", Nothing, ReleasesInvalidate)
ReleasesRender == Render(DOMAIN ReleasesColumns, <<"artifacts">>, Root)

Releases ==
    [ columns |-> ReleasesColumns,
      keys |-> {"artifacts"},
      apart |-> <<>>,
      requests |-> [ create |-> ReleasesCreate, promote |-> ReleasesPromote,
                     addArtifact |-> ReleasesAddArtifact,
                     render |-> ReleasesRender ] ]

-----------------------------------------------------------------------------
(* packagepolicy/service.py: a text without a hash *)

PackagePolicyColumns ==
    "rendered_config" :> {"profile"}
PackagePolicySetPolicy == Upsert("profile", Nothing, {"rendered_config"})
PackagePolicyRender == Render(DOMAIN PackagePolicyColumns, <<>>, Root)

PackagePolicy ==
    [ columns |-> PackagePolicyColumns,
      keys |-> {"profile"},
      apart |-> <<>>,
      requests |-> [ setPolicy |-> PackagePolicySetPolicy,
                     render |-> PackagePolicyRender ] ]

-----------------------------------------------------------------------------
(* diff/service.py *)

DiffReportsColumns ==
    "rendered_diff" :> {"profile"}
    @@ "summary_json" :> {"profile"}
    @@ "content_hash" :> {"profile"}
DiffReportsCreate == Insert("profile", Nothing, {})
DiffReportsRender == Render(DOMAIN DiffReportsColumns, <<>>, Root)

DiffReports ==
    [ columns |-> DiffReportsColumns,
      keys |-> {},
      apart |-> <<>>,
      requests |-> [ create |-> DiffReportsCreate,
                     render |-> DiffReportsRender ] ]
=============================================================================
