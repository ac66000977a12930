------------------------------- MODULE Schema -------------------------------
(***************************************************************************)
(* The tables of the database as the ORM models declare them               *)
(* (osfabricum/db/models.py): the plain columns of each table and, for a   *)
(* column with a foreign key, the table it refers to.  Types, defaults,    *)
(* nullability, indexes and uniqueness are left out: what the migrations   *)
(* can get wrong is which tables and columns exist, when, and in which     *)
(* order tables that refer to each other come and go.                      *)
(***************************************************************************)
EXTENDS Maps

Table(cols, refs) == [cols |-> cols, refs |-> refs]
NoRefs == <<>>

Columns(table) == table.cols \cup DOMAIN table.refs
Targets(table) == {table.refs[c] : c \in DOMAIN table.refs}

BoardTables ==
  [ architectures |-> Table({"id", "name"}, NoRefs),
    boards |-> Table(
        {"id", "name", "boot_scheme", "firmware_required", "metadata_json"},
        [arch_id |-> "architectures"]),
    soc_families |-> Table(
        {"id", "name", "vendor", "description", "metadata_json"}, NoRefs),
    board_revisions |-> Table(
        {"id", "revision", "description", "is_default", "metadata_json"},
        [board_id |-> "boards", soc_family_id |-> "soc_families"]),
    board_firmware |-> Table(
        {"id", "filename", "source_uri", "source_ref", "expected_hash",
         "required", "placement", "metadata_json"},
        [board_id |-> "boards", board_revision_id |-> "board_revisions",
         artifact_id |-> "artifacts"]),
    board_device_trees |-> Table(
        {"id", "filename", "dtb_type", "source_uri", "source_ref",
         "expected_hash", "required", "placement", "metadata_json"},
        [board_id |-> "boards", board_revision_id |-> "board_revisions",
         artifact_id |-> "artifacts"]),
    board_default_kernels |-> Table(
        {"id", "priority", "metadata_json"},
        [board_id |-> "boards", board_revision_id |-> "board_revisions",
         kernel_id |-> "kernels"]),
    board_default_toolchains |-> Table(
        {"id", "priority", "metadata_json"},
        [board_id |-> "boards", board_revision_id |-> "board_revisions",
         toolchain_id |-> "toolchains"]),
    board_supported_layouts |-> Table(
        {"id", "is_default", "metadata_json"},
        [board_id |-> "boards", board_revision_id |-> "board_revisions",
         layout_id |-> "partition_layouts"]) ]

BoardMethodAndBootTables ==
  [ board_flash_methods |-> Table(
        {"id", "method_name", "description", "command_template",
         "requires_tools", "device_pattern", "is_default", "metadata_json"},
        [board_id |-> "boards", board_revision_id |-> "board_revisions"]),
    board_test_methods |-> Table(
        {"id", "method_name", "description", "test_command", "requires_tools",
         "timeout_seconds", "is_default", "metadata_json"},
        [board_id |-> "boards", board_revision_id |-> "board_revisions"]),
    board_probe_profiles |-> Table(
        {"id", "probe_method", "match_pattern", "match_fields", "confidence",
         "metadata_json"},
        [board_id |-> "boards", board_revision_id |-> "board_revisions"]),
    boot_chains |-> Table(
        {"id", "name", "description", "metadata_json", "created_at"},
        [boot_scheme_id |-> "boot_schemes"]),
    boot_chain_templates |-> Table(
        {"id", "template_type", "content", "variables", "metadata_json"},
        [boot_chain_id |-> "boot_chains"]),
    boot_chain_files |-> Table(
        {"id", "filename", "content_template", "placement", "required",
         "permissions", "metadata_json"},
        [boot_chain_id |-> "boot_chains",
         template_id |-> "boot_chain_templates"]),
    boot_chain_bindings |-> Table(
        {"id", "is_default", "priority", "metadata_json"},
        [boot_chain_id |-> "boot_chains", board_id |-> "boards",
         profile_id |-> "profiles"]) ]

InitramfsAndDistributionTables ==
  [ initramfs_profiles |-> Table(
        {"id", "name", "profile_type", "description", "compression",
         "size_limit_mb", "include_modules", "include_firmware",
         "enable_debug_shell", "enable_network", "enable_encryption_unlock",
         "enable_factory_reset", "metadata_json", "created_at", "updated_at"},
        NoRefs),
    initramfs_packages |-> Table(
        {"id", "package_name", "version_constraint", "required", "priority",
         "metadata_json"},
        [initramfs_profile_id |-> "initramfs_profiles"]),
    initramfs_scripts |-> Table(
        {"id", "script_name", "script_type", "content", "execution_order",
         "required", "metadata_json"},
        [initramfs_profile_id |-> "initramfs_profiles"]),
    initramfs_hooks |-> Table(
        {"id", "hook_name", "hook_stage", "command", "execution_order",
         "enabled", "metadata_json"},
        [initramfs_profile_id |-> "initramfs_profiles"]),
    initramfs_artifacts |-> Table(
        {"id", "board_id", "kernel_version", "artifact_id", "size_bytes",
         "compression", "modules_manifest_json", "build_hash", "created_at",
         "metadata_json"},
        [initramfs_profile_id |-> "initramfs_profiles"]),
    distributions |-> Table(
        {"id", "name", "description", "default_channel", "metadata_json"},
        [class_id |-> "distribution_classes"]) ]

ProfileKernelAndToolchainTables ==
  [ profiles |-> Table(
        {"id", "name", "inputs_json", "runtime_policy_id"},
        [distribution_id |-> "distributions", inherits_id |-> "profiles",
         class_id |-> "distribution_classes", board_id |-> "boards",
         kernel_id |-> "kernels", toolchain_id |-> "toolchains",
         package_set_id |-> "package_sets", boot_scheme_id |-> "boot_schemes",
         image_recipe_id |-> "image_recipes",
         branding_profile_id |-> "branding_profiles",
         graphical_profile_id |-> "graphical_profiles",
         network_profile_id |-> "network_profiles",
         security_profile_id |-> "security_profiles",
         update_strategy_id |-> "update_strategies",
         validation_profile_id |-> "validation_profiles"]),
    kernels |-> Table(
        {"id", "name", "version", "source_uri", "source_ref", "metadata_json"},
        [arch_id |-> "architectures", board_id |-> "boards"]),
    kernel_configs |-> Table(
        {"id"},
        [kernel_id |-> "kernels", board_id |-> "boards",
         config_artifact_id |-> "artifacts"]),
    toolchains |-> Table(
        {"id", "name", "libc", "version", "source_type", "metadata_json"},
        [arch_id |-> "architectures"]),
    toolchain_artifacts |-> Table(
        {"id", "verified_at"},
        [toolchain_id |-> "toolchains", artifact_id |-> "artifacts"]),
    packages |-> Table(
        {"id", "name", "namespace", "package_type", "kind", "layer",
         "metadata_json"}, NoRefs) ]

PackageVersionAndSourceTables ==
  [ package_versions |-> Table(
        {"id", "version", "status"},
        [package_id |-> "packages", arch_id |-> "architectures",
         recipe_id |-> "build_recipes", artifact_id |-> "artifacts"]),
    package_dependencies |-> Table(
        {"dep_name", "dep_type", "constraint_expr"},
        [src_version_id |-> "package_versions"]),
    build_recipes |-> Table(
        {"id", "build_system", "steps_json", "env_json"},
        [package_version_id |-> "package_versions"]),
    sources |-> Table(
        {"id", "uri", "source_type", "ref", "expected_hash", "metadata_json"},
        NoRefs),
    overlays |-> Table(
        {"id", "name"},
        [distribution_id |-> "distributions", profile_id |-> "profiles",
         board_id |-> "boards", artifact_id |-> "artifacts"]),
    scripts |-> Table(
        {"id", "name", "hook", "metadata_json"},
        [content_artifact_id |-> "artifacts"]),
    services |-> Table(
        {"id", "name", "init_system", "enabled_by_default"},
        [unit_artifact_id |-> "artifacts"]),
    firmware_blobs |-> Table(
        {"id", "filename", "required", "placement", "metadata_json"},
        [board_id |-> "boards", artifact_id |-> "artifacts"]),
    partition_layouts |-> Table(
        {"id", "name", "layout_json"},
        [board_id |-> "boards"]),
    config_templates |-> Table(
        {"id", "name", "schema_json"},
        [template_artifact_id |-> "artifacts"]) ]

ArtifactAndBuildTables ==
  [ config_values |-> Table(
        {"id", "values_json"},
        [template_id |-> "config_templates", profile_id |-> "profiles",
         board_id |-> "boards"]),
    artifacts |-> Table(
        {"id", "kind", "name", "version", "arch", "store_key", "blob_sha256",
         "size_bytes", "media_type", "retention_class", "pinned",
         "producer_build_id", "input_hash", "metadata_json", "created_at"},
        NoRefs),
    artifact_relations |-> Table(
        {"relation_type"},
        [parent_id |-> "artifacts", child_id |-> "artifacts"]),
    artifact_attestations |-> Table(
        {"id", "attestation_type"},
        [artifact_id |-> "artifacts", bundle_artifact_id |-> "artifacts"]),
    builds |-> Table(
        {"id", "resolution_hash", "status", "created_at", "updated_at"},
        [distribution_id |-> "distributions", profile_id |-> "profiles",
         board_id |-> "boards"]),
    build_jobs |-> Table(
        {"id", "pyjobkit_job_id", "step_kind", "attempt", "status"},
        [build_id |-> "builds"]),
    build_events |-> Table(
        {"id", "ts", "event_type", "payload_json"},
        [build_id |-> "builds", job_id |-> "build_jobs"]),
    build_logs |-> Table(
        {"id", "ts", "stream", "line_no", "message"},
        [build_id |-> "builds", job_id |-> "build_jobs"]),
    workers |-> Table(
        {"id", "hostname", "enabled", "kinds_json", "tags_json",
         "capabilities_json", "last_seen_at", "pid"}, NoRefs) ]

ReleaseAndPackageSetTables ==
  [ releases |-> Table(
        {"id", "version", "channel", "status", "published_at"},
        [distribution_id |-> "distributions"]),
    legacy_release_artifacts |-> Table(
        {"role"},
        [release_id |-> "releases", artifact_id |-> "artifacts"]),
    distribution_classes |-> Table({"id", "name", "description"}, NoRefs),
    package_groups |-> Table(
        {"id", "name", "description", "metadata_json"},
        [distribution_id |-> "distributions"]),
    package_group_members |-> Table(
        {"version_constraint"},
        [group_id |-> "package_groups", package_id |-> "packages"]),
    package_sets |-> Table(
        {"id", "name", "description", "metadata_json"},
        [distribution_id |-> "distributions"]),
    package_set_members |-> Table(
        {"id", "member_kind"},
        [set_id |-> "package_sets", group_id |-> "package_groups",
         package_id |-> "packages"]),
    boot_schemes |-> Table(
        {"id", "name", "description", "boot_type", "requires_bootloader",
         "requires_firmware", "metadata_json"}, NoRefs) ]

ImageAndBrandingTables ==
  [ image_recipes |-> Table(
        {"id", "name", "output_format", "description", "partition_layout_id",
         "size_policy_id", "root_filesystem_id", "metadata_json"},
        [distribution_id |-> "distributions"]),
    branding_profiles |-> Table(
        {"id", "name", "os_name", "os_id", "os_version", "os_pretty_name",
         "os_home_url", "vendor_name", "vendor_url", "support_url",
         "bug_report_url", "logo_asset_id", "icon_asset_id",
         "rendered_os_release", "rendered_motd", "content_hash",
         "rendered_at", "metadata_json", "created_at", "updated_at"},
        [distribution_id |-> "distributions"]),
    branding_assets |-> Table(
        {"id", "name", "asset_kind", "source_path", "artifact_id",
         "mime_type", "width_px", "height_px", "created_at"},
        [branding_profile_id |-> "branding_profiles"]),
    branding_targets |-> Table(
        {"id", "stage", "asset_id", "config_json", "created_at"},
        [branding_profile_id |-> "branding_profiles"]),
    os_release_templates |-> Table(
        {"id", "template_text", "rendered_text", "rendered_at", "created_at"},
        [branding_profile_id |-> "branding_profiles"]),
    motd_templates |-> Table(
        {"id", "template_text", "rendered_text", "rendered_at", "created_at"},
        [branding_profile_id |-> "branding_profiles"]) ]

ThemeAndGraphicalTables ==
  [ wallpaper_sets |-> Table(
        {"id", "name", "resolution", "asset_id", "is_default", "created_at"},
        [branding_profile_id |-> "branding_profiles"]),
    boot_splash_themes |-> Table(
        {"id", "theme_name", "package_name", "config_json", "created_at"},
        [branding_profile_id |-> "branding_profiles"]),
    login_screen_themes |-> Table(
        {"id", "theme_name", "display_manager", "config_json", "created_at"},
        [branding_profile_id |-> "branding_profiles"]),
    graphical_profiles |-> Table(
        {"id", "name", "mode", "display_server", "compositor",
         "display_manager", "session_manager", "toolkit_default",
         "rendered_session_config", "content_hash", "rendered_at",
         "metadata_json", "created_at", "updated_at"},
        [distribution_id |-> "distributions"]),
    compositor_backends |-> Table(
        {"id", "name", "description", "protocol", "package_name",
         "config_template"}, NoRefs),
    display_manager_backends |-> Table(
        {"id", "name", "description", "package_name", "config_template"},
        NoRefs),
    graphical_components |-> Table(
        {"id", "component_kind", "package_name", "version_constraint",
         "config_fragment", "is_required", "created_at"},
        [graphical_profile_id |-> "graphical_profiles"]) ]

NetworkAndSecurityTables ==
  [ graphical_sessions |-> Table(
        {"id", "name", "session_type", "exec_cmd", "desktop_entry",
         "is_default", "created_at"},
        [graphical_profile_id |-> "graphical_profiles"]),
    network_profiles |-> Table(
        {"id", "name", "hostname", "rendered_networkd",
         "rendered_resolv_conf", "rendered_hosts", "content_hash",
         "rendered_at", "created_at", "updated_at"},
        [distribution_id |-> "distributions"]),
    security_mac_kinds |-> Table(
        {"name", "description", "display_order"}, NoRefs),
    security_profiles |-> Table(
        {"id", "name", "mac_policy", "description", "rendered_sysctl",
         "rendered_mac_rules", "rendered_pam_config", "rendered_capabilities",
         "content_hash", "rendered_at", "created_at", "updated_at"},
        [distribution_id |-> "distributions"]),
    sysctl_settings |-> Table(
        {"id", "key", "value", "description"},
        [profile_id |-> "security_profiles"]),
    mac_rules |-> Table(
        {"id", "subject", "rule_text", "is_enforcing", "priority", "comment"},
        [profile_id |-> "security_profiles"]) ]

HardeningAndDraftTables ==
  [ pam_rules |-> Table(
        {"id", "service", "module_type", "control_flag", "module_path",
         "module_args", "priority"},
        [profile_id |-> "security_profiles"]),
    capability_grants |-> Table(
        {"id", "executable", "add_caps", "drop_caps", "no_new_privs",
         "description"},
        [profile_id |-> "security_profiles"]),
    update_strategies |-> Table(
        {"id", "name", "strategy", "metadata_json"},
        [distribution_id |-> "distributions"]),
    validation_profiles |-> Table(
        {"id", "name", "metadata_json"},
        [distribution_id |-> "distributions"]),
    build_drafts |-> Table(
        {"id", "name", "source_kind", "distribution", "profile", "board",
         "overrides_json", "status", "created_at", "updated_at"}, NoRefs),
    profile_versions |-> Table(
        {"id", "version", "snapshot_json", "created_at"},
        [profile_id |-> "profiles"]) ]

KernelDesignerTables ==
  [ kernel_kconfig_indexes |-> Table(
        {"id", "arch", "source_ref", "created_at"},
        [kernel_id |-> "kernels"]),
    kernel_option_symbols |-> Table(
        {"id", "name", "type", "prompt", "help", "default_value",
         "depends_on", "choice_group", "metadata_json"},
        [index_id |-> "kernel_kconfig_indexes"]),
    kernel_option_dependencies |-> Table(
        {"id", "dep_kind", "target", "condition"},
        [symbol_id |-> "kernel_option_symbols"]),
    kernel_config_fragments |-> Table(
        {"id", "name", "description", "created_at"},
        [kernel_id |-> "kernels"]),
    kernel_config_values |-> Table(
        {"id", "symbol", "value"},
        [fragment_id |-> "kernel_config_fragments"]),
    kernel_config_presets |-> Table(
        {"id", "name", "content", "config_hash", "created_at"},
        [kernel_id |-> "kernels"]),
    driver_bundles |-> Table(
        {"id", "name", "description", "created_at"},
        [kernel_id |-> "kernels"]),
    driver_bundle_kernel_options |-> Table(
        {"id", "symbol", "value"},
        [bundle_id |-> "driver_bundles"]),
    driver_bundle_modules |-> Table(
        {"id", "module_name"},
        [bundle_id |-> "driver_bundles"]),
    driver_bundle_firmware |-> Table(
        {"id", "filename"},
        [bundle_id |-> "driver_bundles"]),
    driver_bundle_dt_overlays |-> Table(
        {"id", "overlay_name"},
        [bundle_id |-> "driver_bundles"]) ]

ImageRecipeTables ==
  [ external_kernel_modules |-> Table(
        {"id", "name", "source_uri", "source_ref", "metadata_json"}, NoRefs),
    external_kernel_module_recipes |-> Table(
        {"id", "build_system", "steps_json"},
        [module_id |-> "external_kernel_modules", kernel_id |-> "kernels"]),
    filesystem_profiles |-> Table(
        {"id", "name", "fs_type", "label", "mount_point", "read_only",
         "compression", "options_json"}, NoRefs),
    size_policies |-> Table(
        {"id", "name", "free_space_pct", "min_free_mb", "align_mb",
         "reserve_mb", "grow_to_fit"}, NoRefs),
    partition_entries |-> Table(
        {"id", "name", "role", "size_mb", "grow", "position", "flags_json"},
        [layout_id |-> "partition_layouts",
         filesystem_id |-> "filesystem_profiles"]),
    image_outputs |-> Table(
        {"id", "output_format", "compression", "filename_template",
         "position"},
        [recipe_id |-> "image_recipes"]),
    mount_policies |-> Table(
        {"id", "source", "target", "fstype", "options", "position"},
        [recipe_id |-> "image_recipes"]),
    overlay_policies |-> Table(
        {"id", "target", "lower_dir", "upper_dir", "work_dir", "persistent"},
        [recipe_id |-> "image_recipes"]),
    package_kinds |-> Table({"id", "name", "description"}, NoRefs) ]

PackageWorkspaceTables ==
  [ package_layers |-> Table({"id", "name", "position", "description"}, NoRefs),
    package_variants |-> Table(
        {"id", "name", "feature_hash", "description"},
        [package_id |-> "packages"]),
    package_variant_features |-> Table(
        {"id", "feature", "value"},
        [variant_id |-> "package_variants"]),
    package_cache_entries |-> Table(
        {"id", "cache_key", "package_name", "version", "arch", "kind",
         "key_fields_json", "created_at"},
        [artifact_id |-> "artifacts"]),
    package_compatibility |-> Table(
        {"id", "package_name", "kind", "kernel_release", "kernel_config_hash",
         "toolchain_hash", "abi_hash"},
        [cache_entry_id |-> "package_cache_entries"]),
    package_locks |-> Table(
        {"id", "package_name", "version", "cache_key", "reason", "created_at"},
        NoRefs),
    package_feeds |-> Table(
        {"id", "name", "channel", "description", "created_at"}, NoRefs),
    package_feed_indexes |-> Table(
        {"id", "package_name", "version", "cache_key", "position"},
        [feed_id |-> "package_feeds"]),
    package_promotions |-> Table(
        {"id", "package_name", "version", "from_channel", "to_channel",
         "created_at"}, NoRefs) ]

FeedAndVariantTables ==
  [ feed_channels |-> Table(
        {"id", "distribution", "arch", "libc", "kernel_release", "created_at"},
        [feed_id |-> "package_feeds"]),
    feed_signatures |-> Table(
        {"id", "algorithm", "index_hash", "entry_count", "signed_at"},
        [feed_id |-> "package_feeds"]),
    feed_publish_jobs |-> Table(
        {"id", "status", "index_hash", "entry_count", "triggered_at",
         "completed_at", "error"},
        [feed_id |-> "package_feeds"]),
    package_install_plans |-> Table(
        {"id", "profile_id", "plan_json", "plan_hash", "created_at"},
        [set_id |-> "package_sets"]),
    package_feature_options |-> Table(
        {"id", "name", "type", "default_value", "description"},
        [package_id |-> "packages"]),
    package_feature_values |-> Table(
        {"id", "value", "implied_deps_json", "description"},
        [option_id |-> "package_feature_options"]),
    package_build_variants |-> Table(
        {"id", "name", "feature_hash", "arch", "resolved_json", "description"},
        [package_id |-> "packages"]),
    package_variant_artifacts |-> Table(
        {"id", "arch", "created_at"},
        [build_variant_id |-> "package_build_variants",
         artifact_id |-> "artifacts"]) ]

RuntimePolicyAndAppTables ==
  [ runtime_package_backends |-> Table(
        {"id", "name", "description", "config_template"}, NoRefs),
    runtime_package_policies |-> Table(
        {"id", "profile_id", "policy", "backend_name", "feed_ids",
         "config_path", "rendered_config", "rendered_at", "created_at",
         "updated_at"}, NoRefs),
    app_categories |-> Table(
        {"name", "description", "icon", "display_order"}, NoRefs),
    app_catalog_profiles |-> Table(
        {"id", "name", "description", "rendered_app_list", "content_hash",
         "rendered_at", "created_at", "updated_at"},
        [distribution_id |-> "distributions"]),
    catalog_apps |-> Table(
        {"id", "name", "display_name", "description", "category_name",
         "package_name", "version_constraint", "icon_name",
         "is_default_install", "is_optional", "tags", "created_at"},
        [catalog_profile_id |-> "app_catalog_profiles"]),
    app_groups |-> Table(
        {"id", "name", "description", "is_default", "created_at"},
        [catalog_profile_id |-> "app_catalog_profiles"]),
    app_group_members |-> Table(
        {"id", "position"},
        [group_id |-> "app_groups", catalog_app_id |-> "catalog_apps"]) ]

DesktopTables ==
  [ default_app_roles |-> Table(
        {"id", "role", "app_name", "package_name", "created_at"},
        [catalog_profile_id |-> "app_catalog_profiles"]),
    mime_type_definitions |-> Table(
        {"name", "description", "parent", "icon", "display_order"}, NoRefs),
    desktop_integration_profiles |-> Table(
        {"id", "name", "xdg_data_dirs", "xdg_config_dirs",
         "rendered_mimeapps", "rendered_user_dirs", "content_hash",
         "rendered_at", "created_at", "updated_at"},
        [distribution_id |-> "distributions"]),
    mime_associations |-> Table(
        {"id", "mime_type", "desktop_file", "association_type", "priority"},
        [profile_id |-> "desktop_integration_profiles"]),
    autostart_entries |-> Table(
        {"id", "name", "exec_cmd", "comment", "condition", "is_enabled",
         "desktop_entry"},
        [profile_id |-> "desktop_integration_profiles"]),
    xdg_user_dirs |-> Table(
        {"id", "dir_name", "path"},
        [profile_id |-> "desktop_integration_profiles"]) ]

ThemeDesignerTables ==
  [ theme_asset_kinds |-> Table(
        {"name", "description", "display_order"}, NoRefs),
    theme_profiles |-> Table(
        {"id", "name", "gtk_theme", "icon_theme", "cursor_theme",
         "sound_theme", "dark_mode", "font_default", "font_monospace",
         "font_document", "font_size", "cursor_size", "scaling_factor",
         "rendered_gsettings", "rendered_gtk_ini", "content_hash",
         "rendered_at", "created_at", "updated_at"},
        [distribution_id |-> "distributions"]),
    theme_packages |-> Table(
        {"id", "asset_kind", "package_name", "version_constraint",
         "is_default"},
        [profile_id |-> "theme_profiles"]),
    gsettings_overrides |-> Table(
        {"id", "schema", "key", "value", "description"},
        [profile_id |-> "theme_profiles"]),
    user_shell_kinds |-> Table(
        {"path", "description", "display_order"}, NoRefs) ]

UserDesignerTables ==
  [ os_user_profiles |-> Table(
        {"id", "name", "rendered_passwd", "rendered_group",
         "rendered_secrets_manifest", "content_hash", "rendered_at",
         "created_at", "updated_at"},
        [distribution_id |-> "distributions"]),
    os_groups |-> Table(
        {"id", "name", "gid", "is_system", "description"},
        [profile_id |-> "os_user_profiles"]),
    os_users |-> Table(
        {"id", "username", "uid", "primary_group", "home_dir", "shell",
         "gecos", "is_system", "is_locked", "password_hash"},
        [profile_id |-> "os_user_profiles"]),
    user_supplementary_groups |-> Table(
        {"id", "group_name"},
        [user_id |-> "os_users"]),
    secret_variables |-> Table(
        {"id", "name", "kind", "description", "masked_value", "is_required"},
        [profile_id |-> "os_user_profiles"]),
    network_interface_kinds |-> Table(
        {"name", "description", "display_order"}, NoRefs) ]

NetworkDesignerTables ==
  [ net_interfaces |-> Table(
        {"id", "name", "kind", "description", "mtu", "mac_address",
         "is_dhcp4", "is_dhcp6", "static_addresses", "gateway4", "metric",
         "parent_name", "vlan_id"},
        [profile_id |-> "network_profiles"]),
    net_dns_entries |-> Table(
        {"id", "nameserver", "search_domain", "priority"},
        [profile_id |-> "network_profiles"]),
    net_routes |-> Table(
        {"id", "destination", "gateway", "metric", "interface_name",
         "description"},
        [profile_id |-> "network_profiles"]),
    net_firewall_rules |-> Table(
        {"id", "chain", "protocol", "source_cidr", "destination_cidr",
         "dport", "action", "priority", "comment"},
        [profile_id |-> "network_profiles"]),
    init_system_kinds |-> Table(
        {"name", "description", "display_order"}, NoRefs),
    service_profiles |-> Table(
        {"id", "name", "init_system", "description", "rendered_units",
         "rendered_udev", "rendered_overrides", "content_hash", "rendered_at",
         "created_at", "updated_at"},
        [distribution_id |-> "distributions"]) ]

ServiceDesignerTables ==
  [ service_entries |-> Table(
        {"id", "name", "unit_type", "description", "exec_start", "exec_stop",
         "exec_pre_start", "restart_policy", "wanted_by", "after", "requires",
         "environment", "working_directory", "run_user", "run_group",
         "is_enabled", "is_masked", "priority"},
        [profile_id |-> "service_profiles"]),
    device_rules |-> Table(
        {"id", "subsystem", "kernel_pattern", "attr_filter", "udev_action",
         "symlink", "mode", "owner", "group_name", "run_command", "priority",
         "comment"},
        [profile_id |-> "service_profiles"]),
    systemd_unit_overrides |-> Table(
        {"id", "unit_name", "section", "override_content"},
        [profile_id |-> "service_profiles"]),
    spdx_license_kinds |-> Table(
        {"spdx_id", "name", "is_copyleft", "is_permissive", "display_order"},
        NoRefs) ]

ComplianceTables ==
  [ compliance_profiles |-> Table(
        {"id", "name", "description", "allow_copyleft", "allow_proprietary",
         "min_vuln_severity_to_block", "require_sbom", "rendered_sbom",
         "rendered_vuln_report", "rendered_license_report", "content_hash",
         "rendered_at", "created_at", "updated_at"},
        [distribution_id |-> "distributions"]),
    license_rules |-> Table(
        {"id", "spdx_id", "policy", "reason"},
        [profile_id |-> "compliance_profiles"]),
    vuln_gates |-> Table(
        {"id", "cve_id", "severity", "action", "package_name",
         "affected_version", "reason"},
        [profile_id |-> "compliance_profiles"]),
    sbom_entries |-> Table(
        {"id", "package_name", "package_version", "spdx_id", "purl",
         "supplier", "source_url", "is_source_available"},
        [profile_id |-> "compliance_profiles"]),
    update_strategy_kinds |-> Table(
        {"kind", "label", "description", "display_order"}, NoRefs) ]

UpdateDesignerTables ==
  [ update_profiles |-> Table(
        {"id", "name", "description", "strategy", "signing_required",
         "rollback_enabled", "rollback_window_days", "max_delta_size_mb",
         "verification_mode", "rendered_update_config",
         "rendered_recovery_config", "content_hash", "rendered_at",
         "created_at", "updated_at"},
        [distribution_id |-> "distributions"]),
    update_channels |-> Table(
        {"id", "name", "url", "signing_key_id", "priority", "is_default"},
        [profile_id |-> "update_profiles"]),
    recovery_targets |-> Table(
        {"id", "name", "target_type", "kernel_args", "initramfs_hint",
         "is_default", "priority"},
        [profile_id |-> "update_profiles"]),
    update_hooks |-> Table(
        {"id", "hook_point", "script_content", "is_enabled", "priority"},
        [profile_id |-> "update_profiles"]),
    sdk_export_kinds |-> Table(
        {"kind", "label", "description", "display_order"}, NoRefs) ]

SdkAndMirrorTables ==
  [ sdk_profiles |-> Table(
        {"id", "name", "description", "export_format", "python_version",
         "include_debug_symbols", "rendered_setup_script",
         "rendered_env_script", "content_hash", "rendered_at", "created_at",
         "updated_at"},
        [distribution_id |-> "distributions"]),
    sdk_variables |-> Table(
        {"id", "key", "value", "description", "is_secret"},
        [profile_id |-> "sdk_profiles"]),
    cache_policy_kinds |-> Table(
        {"kind", "label", "description", "display_order"}, NoRefs),
    mirror_profiles |-> Table(
        {"id", "name", "description", "offline_mode", "max_cache_size_mb",
         "cache_ttl_days", "rendered_mirror_config", "content_hash",
         "rendered_at", "created_at", "updated_at"},
        [distribution_id |-> "distributions"]),
    mirror_endpoints |-> Table(
        {"id", "url", "priority", "is_default", "requires_auth",
         "auth_token_id"},
        [profile_id |-> "mirror_profiles"]) ]

ProbeAndLayerTables ==
  [ cache_priority_rules |-> Table(
        {"id", "source_pattern", "priority", "cache_policy"},
        [profile_id |-> "mirror_profiles"]),
    probe_source_kinds |-> Table(
        {"kind", "label", "description", "display_order"}, NoRefs),
    hardware_probes |-> Table(
        {"id", "name", "probe_source", "raw_probe_json", "cpu_arch",
         "cpu_model", "mem_mb", "rendered_board_hints", "content_hash",
         "probed_at", "created_at", "updated_at"},
        [board_id |-> "boards"]),
    layer_kinds |-> Table(
        {"kind", "label", "description", "display_order"}, NoRefs),
    layer_profiles |-> Table(
        {"id", "name", "description", "base_layer", "rendered_manifest",
         "content_hash", "rendered_at", "created_at", "updated_at"},
        [distribution_id |-> "distributions"]),
    layer_entries |-> Table(
        {"id", "name", "layer_kind", "source_url", "sha256_hint", "priority",
         "is_enabled", "description"},
        [profile_id |-> "layer_profiles"]) ]

OverrideAndPatchTables ==
  [ override_kinds |-> Table(
        {"kind", "label", "description", "display_order"}, NoRefs),
    override_profiles |-> Table(
        {"id", "name", "description", "rendered_override_policy",
         "content_hash", "rendered_at", "created_at", "updated_at"},
        [distribution_id |-> "distributions"]),
    override_rules |-> Table(
        {"id", "target_type", "target_key", "action", "value", "reason",
         "priority"},
        [profile_id |-> "override_profiles"]),
    patch_target_kinds |-> Table(
        {"kind", "label", "description", "display_order"}, NoRefs),
    patch_sets |-> Table(
        {"id", "name", "description", "target_kind",
         "rendered_patch_manifest", "content_hash", "rendered_at",
         "created_at", "updated_at"},
        [distribution_id |-> "distributions"]),
    patches |-> Table(
        {"id", "sequence_num", "name", "patch_content", "patch_format",
         "is_enabled", "description"},
        [patch_set_id |-> "patch_sets"]) ]

ExplainAndDiffTables ==
  [ patch_application_results |-> Table(
        {"id", "applied_at", "status", "applied_count", "failed_at_sequence",
         "error_message"},
        [patch_set_id |-> "patch_sets"]),
    graph_kinds |-> Table(
        {"kind", "label", "description", "display_order"}, NoRefs),
    graph_snapshots |-> Table(
        {"id", "kind", "root_node", "rendered_graph_json", "node_count",
         "edge_count", "content_hash", "rendered_at", "created_at"},
        [distribution_id |-> "distributions"]),
    explain_trace_kinds |-> Table(
        {"kind", "label", "description", "display_order"}, NoRefs),
    explain_traces |-> Table(
        {"id", "target_kind", "target_key", "reason_kind", "reason_detail",
         "source_id", "created_at"},
        [build_id |-> "builds"]),
    diff_report_kinds |-> Table(
        {"kind", "label", "description", "display_order"}, NoRefs),
    diff_reports |-> Table(
        {"id", "entity_kind", "entity_a_id", "entity_b_id", "rendered_diff",
         "summary_json", "content_hash", "created_at"}, NoRefs) ]

GenerationTables ==
  [ rollback_kinds |-> Table(
        {"kind", "label", "description", "display_order"}, NoRefs),
    generations |-> Table(
        {"id", "release_id", "generation_number", "status", "description",
         "rendered_generation_manifest", "content_hash", "rendered_at",
         "created_at", "updated_at"},
        [distribution_id |-> "distributions"]),
    generation_artifacts |-> Table(
        {"id", "artifact_role", "artifact_uri"},
        [generation_id |-> "generations", artifact_id |-> "artifacts"]),
    rollback_targets |-> Table(
        {"id", "target_generation_number", "rollback_kind",
         "rendered_rollback_plan", "priority", "created_at"},
        [generation_id |-> "generations"]),
    upgrade_requests |-> Table(
        {"id", "target_channel", "target_version", "status", "requested_at",
         "completed_at", "result_json"},
        [distribution_id |-> "distributions", profile_id |-> "profiles",
         current_generation_id |-> "generations"]) ]

LockfileAndImportTables ==
  [ upgrade_results |-> Table(
        {"id", "status", "new_generation_id", "diff_report_id",
         "rollback_plan", "error_message", "created_at"},
        [upgrade_id |-> "upgrade_requests", artifact_id |-> "artifacts"]),
    lockfiles |-> Table(
        {"id", "lock_version", "rendered_lock", "content_hash", "created_at"},
        [distribution_id |-> "distributions", profile_id |-> "profiles",
         build_id |-> "builds"]),
    lockfile_entries |-> Table(
        {"id", "entry_kind", "entry_key", "version", "source_hash",
         "extra_json"},
        [lockfile_id |-> "lockfiles"]),
    import_kinds |-> Table(
        {"kind", "label", "description", "display_order"}, NoRefs),
    import_jobs |-> Table(
        {"id", "import_kind", "source_data", "source_filename", "status",
         "created_at", "completed_at"}, NoRefs),
    import_reports |-> Table(
        {"id", "mapped_count", "unknown_count", "report_text",
         "draft_profile_id", "created_at"},
        [import_job_id |-> "import_jobs"]) ]

AnalysisTables ==
  [ build_analyses |-> Table(
        {"id", "analysis_kind", "rendered_report", "summary_json",
         "content_hash", "created_at"},
        [build_id |-> "builds"]),
    size_budget_kinds |-> Table(
        {"kind", "label", "description", "display_order"}, NoRefs),
    size_budgets |-> Table(
        {"id", "budget_kind", "budget_bytes", "is_hard_limit", "created_at"},
        [profile_id |-> "profiles"]),
    size_reports |-> Table(
        {"id", "rendered_report", "summary_json", "content_hash",
         "created_at"},
        [build_id |-> "builds", profile_id |-> "profiles"]),
    boot_profiles |-> Table(
        {"id", "capture_method", "total_boot_ms", "rendered_timeline",
         "summary_json", "content_hash", "created_at"},
        [build_id |-> "builds"]),
    boot_samples |-> Table(
        {"id", "event_kind", "event_name", "timestamp_ms", "duration_ms",
         "is_critical_path"},
        [boot_profile_id |-> "boot_profiles"]) ]

PoolAndIsolationTables ==
  [ worker_pools |-> Table(
        {"id", "name", "label", "description", "pool_kind", "max_parallelism",
         "created_at", "updated_at"}, NoRefs),
    worker_pool_members |-> Table(
        {"id", "joined_at"},
        [worker_pool_id |-> "worker_pools", worker_id |-> "workers"]),
    job_affinities |-> Table(
        {"id", "job_kind", "affinity_weight"},
        [pool_id |-> "worker_pools"]),
    pool_quotas |-> Table(
        {"id", "resource_kind", "limit_value", "period_seconds"},
        [pool_id |-> "worker_pools"]),
    isolation_policies |-> Table(
        {"id", "name", "label", "description", "mode", "network_allowed",
         "write_access", "cache_mode", "secret_access", "privileged",
         "created_at", "updated_at"}, NoRefs),
    recipe_isolation_requirements |-> Table(
        {"id", "recipe_id", "required_mode", "reason", "created_at"}, NoRefs) ]

RepositoryTables ==
  [ release_channels |-> Table(
        {"channel", "label", "description", "display_order"}, NoRefs),
    repositories |-> Table(
        {"id", "name", "label", "description", "repo_kind", "base_url",
         "sign_key_id", "is_published", "created_at", "updated_at"}, NoRefs),
    repository_indexes |-> Table(
        {"id", "channel", "rendered_index", "content_hash", "indexed_at",
         "created_at"},
        [repository_id |-> "repositories"]),
    published_releases |-> Table(
        {"id", "channel", "version", "status", "rendered_release_manifest",
         "content_hash", "rendered_at", "created_at", "updated_at"},
        [distribution_id |-> "distributions"]),
    release_artifacts |-> Table(
        {"id", "artifact_role", "artifact_uri"},
        [release_id |-> "published_releases", artifact_id |-> "artifacts"]),
    distribution_config_values |-> Table(
        {"id", "key", "value", "updated_at"},
        [distribution_id |-> "distributions"]) ]

\* Base.metadata: what create_all builds.
Models ==
    BoardTables @@
    BoardMethodAndBootTables @@
    InitramfsAndDistributionTables @@
    ProfileKernelAndToolchainTables @@
    PackageVersionAndSourceTables @@
    ArtifactAndBuildTables @@
    ReleaseAndPackageSetTables @@
    ImageAndBrandingTables @@
    ThemeAndGraphicalTables @@
    NetworkAndSecurityTables @@
    HardeningAndDraftTables @@
    KernelDesignerTables @@
    ImageRecipeTables @@
    PackageWorkspaceTables @@
    FeedAndVariantTables @@
    RuntimePolicyAndAppTables @@
    DesktopTables @@
    ThemeDesignerTables @@
    UserDesignerTables @@
    NetworkDesignerTables @@
    ServiceDesignerTables @@
    ComplianceTables @@
    UpdateDesignerTables @@
    SdkAndMirrorTables @@
    ProbeAndLayerTables @@
    OverrideAndPatchTables @@
    ExplainAndDiffTables @@
    GenerationTables @@
    LockfileAndImportTables @@
    AnalysisTables @@
    PoolAndIsolationTables @@
    RepositoryTables
=============================================================================
