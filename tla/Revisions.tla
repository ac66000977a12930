----------------------------- MODULE Revisions -----------------------------
(***************************************************************************)
(* The Alembic revisions (migrations/versions/): for each, the statements  *)
(* of upgrade() and of downgrade() in order, with the guards the code      *)
(* evaluates before it runs them.  Indexes and constraints other than      *)
(* foreign keys are left out, as in Schema.                                *)
(***************************************************************************)
EXTENDS Schema, SeedData, Sequences, Naturals

Create(t, table) == Statement("create", t, table)

\* Skipped when the table is already there, each table on its own.
CreateMissing(t, table) ==
    [Create(t, table) EXCEPT !.guard = "tableMissing", !.on = t]

\* UPDATE boot_schemes SET requires_bootloader = 0: PostgreSQL does not take an
\* integer for a boolean.
IntegerForBoolean(t) == Statement("integerForBoolean", t, {})

Each(op, t, cs, guard) ==
    [i \in DOMAIN cs |-> [Statement(op, t, cs[i]) EXCEPT !.guard = guard]]

Add(t, cs)         == Each("addColumn", t, cs, "")
AddMissing(t, cs)  == Each("addColumn", t, cs, "columnMissing")
DropColumns(t, cs) == Each("dropColumn", t, cs, "")
DropPresent(t, cs) == Each("dropColumn", t, cs, "columnPresent")
Drop(ts)           == [i \in DOMAIN ts |-> Statement("drop", ts[i], {})]

\* One look at one table decides for all the statements.
Unless(t, stmts) ==
    [i \in DOMAIN stmts |->
        IF stmts[i].guard = ""
        THEN [stmts[i] EXCEPT !.guard = "tableMissing", !.on = t]
        ELSE [stmts[i] EXCEPT !.on = t]]

\* try: ... except Exception: pass
Try(stmts) == [i \in DOMAIN stmts |-> [stmts[i] EXCEPT !.try = TRUE]]

\* job_tasks is pyjobkit's table: 0002 takes it from pyjobkit's metadata, 0048
\* spells it out.
JobTasks ==
    Table({"id", "created_at", "scheduled_for", "started_at", "finished_at",
           "status", "attempts", "max_attempts", "priority", "kind", "payload",
           "result", "idempotency_key", "cancel_requested", "leased_by",
           "lease_until", "version", "timeout_s"}, NoRefs)

\* What the reference distributions' seeding functions read and write.
CatalogTables == {"distribution_config_values", "service_profiles",
                  "service_entries"}
ReferenceTables ==
    {"distribution_classes", "architectures", "boards", "toolchains",
     "kernels", "distributions", "packages", "package_versions",
     "package_groups", "package_group_members", "package_sets",
     "package_set_members", "profiles"}

M0002 ==
  [ up   |-> Unless("job_tasks",
                << Create("job_tasks", JobTasks) >>),
    down |-> Drop(<<"job_tasks">>) ]

M0003 ==
  [ up   |-> AddMissing("kernels", <<"metadata_json">>),
    down |-> DropColumns("kernels", <<"metadata_json">>) ]

M0004 ==
  [ up   |-> AddMissing("firmware_blobs", <<"metadata_json">>),
    down |-> DropColumns("firmware_blobs", <<"metadata_json">>) ]

M0005 ==
  [ up   |-> AddMissing("artifacts", <<"input_hash">>),
    down |-> DropColumns("artifacts", <<"input_hash">>) ]

Up0006 ==
    << CreateMissing("distribution_classes",
           Table({"id", "name", "description"}, NoRefs)),
       CreateMissing("boot_schemes",
           Table({"id", "name", "description", "metadata_json"}, NoRefs)),
       CreateMissing("package_groups",
           Table({"id", "name", "description", "metadata_json"},
                 [distribution_id |-> "distributions"])),
       CreateMissing("package_sets",
           Table({"id", "name", "description", "metadata_json"},
                 [distribution_id |-> "distributions"])),
       CreateMissing("package_group_members",
           Table({"version_constraint"},
                 [group_id |-> "package_groups",
                  package_id |-> "packages"])),
       CreateMissing("package_set_members",
           Table({"id", "member_kind"},
                 [set_id |-> "package_sets", group_id |-> "package_groups",
                  package_id |-> "packages"])),
       CreateMissing("image_recipes",
           Table({"id", "name", "output_format", "metadata_json"},
                 [distribution_id |-> "distributions"])),
       CreateMissing("branding_profiles",
           Table({"id", "name", "metadata_json"},
                 [distribution_id |-> "distributions"])),
       CreateMissing("graphical_profiles",
           Table({"id", "name", "mode", "metadata_json"},
                 [distribution_id |-> "distributions"])),
       CreateMissing("network_profiles",
           Table({"id", "name", "metadata_json"},
                 [distribution_id |-> "distributions"])),
       CreateMissing("security_profiles",
           Table({"id", "name", "metadata_json"},
                 [distribution_id |-> "distributions"])),
       CreateMissing("update_strategies",
           Table({"id", "name", "strategy", "metadata_json"},
                 [distribution_id |-> "distributions"])),
       CreateMissing("validation_profiles",
           Table({"id", "name", "metadata_json"},
                 [distribution_id |-> "distributions"])) >>
    \o AddMissing("distributions", <<"class_id">>)
    \o AddMissing("profiles",
           <<"class_id", "board_id", "kernel_id", "toolchain_id",
             "package_set_id", "boot_scheme_id", "image_recipe_id",
             "branding_profile_id", "graphical_profile_id",
             "network_profile_id", "security_profile_id",
             "update_strategy_id", "validation_profile_id">>)
    \o <<DistributionClasses, BootSchemes>>

Down0006 ==
    DropColumns("profiles",
        <<"validation_profile_id", "update_strategy_id",
          "security_profile_id", "network_profile_id", "graphical_profile_id",
          "branding_profile_id", "image_recipe_id", "boot_scheme_id",
          "package_set_id", "toolchain_id", "kernel_id", "board_id",
          "class_id">>)
    \o DropColumns("distributions", <<"class_id">>)
    \o Drop(<<"validation_profiles", "update_strategies", "security_profiles",
              "network_profiles", "graphical_profiles", "branding_profiles",
              "image_recipes", "package_set_members", "package_group_members",
              "package_sets", "package_groups", "boot_schemes",
              "distribution_classes">>)

M0007 ==
  [ up   |-> Unless("profile_versions",
                << Create("profile_versions",
                       Table({"id", "version", "snapshot_json", "created_at"},
                             [profile_id |-> "profiles"])) >>),
    down |-> Drop(<<"profile_versions">>) ]

M0008 ==
  [ up   |-> Unless("build_drafts",
                << Create("build_drafts",
                       Table({"id", "name", "source_kind", "distribution",
                              "profile", "board", "overrides_json", "status",
                              "created_at", "updated_at"}, NoRefs)) >>),
    down |-> Drop(<<"build_drafts">>) ]

Up77de ==
    Unless("soc_families",
        << Create("soc_families",
               Table({"id", "name", "vendor", "description", "metadata_json"},
                     NoRefs)) >>
        \o Add("boot_schemes",
               <<"boot_type", "requires_bootloader", "requires_firmware">>)
        \o <<IntegerForBoolean("boot_schemes")>>
        \o << Create("board_revisions",
                  Table({"id", "revision", "description", "is_default",
                         "metadata_json"},
                        [board_id |-> "boards",
                         soc_family_id |-> "soc_families"])),
              Create("board_firmware",
                  Table({"id", "filename", "source_uri", "source_ref",
                         "expected_hash", "required", "placement",
                         "metadata_json"},
                        [board_id |-> "boards",
                         board_revision_id |-> "board_revisions",
                         artifact_id |-> "artifacts"])),
              Create("board_device_trees",
                  Table({"id", "filename", "dtb_type", "source_uri",
                         "source_ref", "expected_hash", "required",
                         "placement", "metadata_json"},
                        [board_id |-> "boards",
                         board_revision_id |-> "board_revisions",
                         artifact_id |-> "artifacts"])),
              Create("board_default_kernels",
                  Table({"id", "priority", "metadata_json"},
                        [board_id |-> "boards",
                         board_revision_id |-> "board_revisions",
                         kernel_id |-> "kernels"])),
              Create("board_default_toolchains",
                  Table({"id", "priority", "metadata_json"},
                        [board_id |-> "boards",
                         board_revision_id |-> "board_revisions",
                         toolchain_id |-> "toolchains"])),
              Create("board_supported_layouts",
                  Table({"id", "is_default", "metadata_json"},
                        [board_id |-> "boards",
                         board_revision_id |-> "board_revisions",
                         layout_id |-> "partition_layouts"])),
              Create("board_flash_methods",
                  Table({"id", "method_name", "description",
                         "command_template", "requires_tools",
                         "device_pattern", "is_default", "metadata_json"},
                        [board_id |-> "boards",
                         board_revision_id |-> "board_revisions"])),
              Create("board_test_methods",
                  Table({"id", "method_name", "description", "test_command",
                         "requires_tools", "timeout_seconds", "is_default",
                         "metadata_json"},
                        [board_id |-> "boards",
                         board_revision_id |-> "board_revisions"])),
              Create("board_probe_profiles",
                  Table({"id", "probe_method", "match_pattern",
                         "match_fields", "confidence", "metadata_json"},
                        [board_id |-> "boards",
                         board_revision_id |-> "board_revisions"])) >>)

Down77de ==
    Drop(<<"board_probe_profiles", "board_test_methods",
           "board_flash_methods", "board_supported_layouts",
           "board_default_toolchains", "board_default_kernels",
           "board_device_trees", "board_firmware", "board_revisions">>)
    \o DropColumns("boot_schemes",
           <<"requires_firmware", "requires_bootloader", "boot_type">>)
    \o Drop(<<"soc_families">>)

Mb347 ==
  [ up   |-> Unless("boot_chains",
                << Create("boot_chains",
                       Table({"id", "name", "description", "metadata_json",
                              "created_at"},
                             [boot_scheme_id |-> "boot_schemes"])),
                   Create("boot_chain_templates",
                       Table({"id", "template_type", "content", "variables",
                              "metadata_json"},
                             [boot_chain_id |-> "boot_chains"])),
                   Create("boot_chain_files",
                       Table({"id", "filename", "content_template",
                              "placement", "required", "permissions",
                              "metadata_json"},
                             [boot_chain_id |-> "boot_chains",
                              template_id |-> "boot_chain_templates"])),
                   Create("boot_chain_bindings",
                       Table({"id", "is_default", "priority", "metadata_json"},
                             [boot_chain_id |-> "boot_chains",
                              board_id |-> "boards",
                              profile_id |-> "profiles"])) >>),
    down |-> Drop(<<"boot_chain_bindings", "boot_chain_files",
                     "boot_chain_templates", "boot_chains">>) ]

M0fc7 ==
  [ up   |-> Unless("initramfs_profiles",
                << Create("initramfs_profiles",
                       Table({"id", "name", "profile_type", "description",
                              "compression", "size_limit_mb",
                              "include_modules", "include_firmware",
                              "enable_debug_shell", "enable_network",
                              "enable_encryption_unlock",
                              "enable_factory_reset", "metadata_json",
                              "created_at", "updated_at"}, NoRefs)),
                   Create("initramfs_packages",
                       Table({"id", "package_name", "version_constraint",
                              "required", "priority", "metadata_json"},
                             [initramfs_profile_id |-> "initramfs_profiles"])),
                   Create("initramfs_scripts",
                       Table({"id", "script_name", "script_type", "content",
                              "execution_order", "required", "metadata_json"},
                             [initramfs_profile_id |-> "initramfs_profiles"])),
                   Create("initramfs_hooks",
                       Table({"id", "hook_name", "hook_stage", "command",
                              "execution_order", "enabled", "metadata_json"},
                             [initramfs_profile_id |-> "initramfs_profiles"])),
                   Create("initramfs_artifacts",
                       Table({"id", "board_id", "kernel_version",
                              "artifact_id", "size_bytes", "compression",
                              "modules_manifest_json", "build_hash",
                              "created_at", "metadata_json"},
                             [initramfs_profile_id |-> "initramfs_profiles"])) >>),
    down |-> Drop(<<"initramfs_artifacts", "initramfs_hooks",
                     "initramfs_scripts", "initramfs_packages",
                     "initramfs_profiles">>) ]

M0009 ==
  [ up   |-> Unless("kernel_kconfig_indexes",
                << Create("kernel_kconfig_indexes",
                       Table({"id", "arch", "source_ref", "created_at"},
                             [kernel_id |-> "kernels"])),
                   Create("kernel_option_symbols",
                       Table({"id", "name", "type", "prompt", "help",
                              "default_value", "depends_on", "choice_group",
                              "metadata_json"},
                             [index_id |-> "kernel_kconfig_indexes"])),
                   Create("kernel_option_dependencies",
                       Table({"id", "dep_kind", "target", "condition"},
                             [symbol_id |-> "kernel_option_symbols"])),
                   Create("kernel_config_fragments",
                       Table({"id", "name", "description", "created_at"},
                             [kernel_id |-> "kernels"])),
                   Create("kernel_config_values",
                       Table({"id", "symbol", "value"},
                             [fragment_id |-> "kernel_config_fragments"])),
                   Create("kernel_config_presets",
                       Table({"id", "name", "content", "config_hash",
                              "created_at"}, [kernel_id |-> "kernels"])),
                   Create("driver_bundles",
                       Table({"id", "name", "description", "created_at"},
                             [kernel_id |-> "kernels"])),
                   Create("driver_bundle_kernel_options",
                       Table({"id", "symbol", "value"},
                             [bundle_id |-> "driver_bundles"])),
                   Create("driver_bundle_modules",
                       Table({"id", "module_name"},
                             [bundle_id |-> "driver_bundles"])),
                   Create("driver_bundle_firmware",
                       Table({"id", "filename"},
                             [bundle_id |-> "driver_bundles"])),
                   Create("driver_bundle_dt_overlays",
                       Table({"id", "overlay_name"},
                             [bundle_id |-> "driver_bundles"])),
                   Create("external_kernel_modules",
                       Table({"id", "name", "source_uri", "source_ref",
                              "metadata_json"}, NoRefs)),
                   Create("external_kernel_module_recipes",
                       Table({"id", "build_system", "steps_json"},
                             [module_id |-> "external_kernel_modules",
                              kernel_id |-> "kernels"])) >>),
    down |-> Drop(<<"external_kernel_module_recipes",
                     "external_kernel_modules", "driver_bundle_dt_overlays",
                     "driver_bundle_firmware", "driver_bundle_modules",
                     "driver_bundle_kernel_options", "driver_bundles",
                     "kernel_config_presets", "kernel_config_values",
                     "kernel_config_fragments", "kernel_option_dependencies",
                     "kernel_option_symbols", "kernel_kconfig_indexes">>) ]

M0010 ==
  [ up   |-> Unless("image_outputs",
                << Create("filesystem_profiles",
                       Table({"id", "name", "fs_type", "label", "mount_point",
                              "read_only", "compression", "options_json"},
                             NoRefs)),
                   Create("size_policies",
                       Table({"id", "name", "free_space_pct", "min_free_mb",
                              "align_mb", "reserve_mb", "grow_to_fit"},
                             NoRefs)),
                   Create("partition_entries",
                       Table({"id", "name", "role", "size_mb", "grow",
                              "position", "flags_json"},
                             [layout_id |-> "partition_layouts",
                              filesystem_id |-> "filesystem_profiles"])),
                   Create("image_outputs",
                       Table({"id", "output_format", "compression",
                              "filename_template", "position"},
                             [recipe_id |-> "image_recipes"])),
                   Create("mount_policies",
                       Table({"id", "source", "target", "fstype", "options",
                              "position"},
                             [recipe_id |-> "image_recipes"])),
                   Create("overlay_policies",
                       Table({"id", "target", "lower_dir", "upper_dir",
                              "work_dir", "persistent"},
                             [recipe_id |-> "image_recipes"])) >>
                \o AddMissing("image_recipes",
                       <<"description", "partition_layout_id",
                         "size_policy_id", "root_filesystem_id">>)),
    down |-> DropColumns("image_recipes",
                  <<"root_filesystem_id", "size_policy_id",
                    "partition_layout_id", "description">>)
              \o Drop(<<"overlay_policies", "mount_policies", "image_outputs",
                        "partition_entries", "size_policies",
                        "filesystem_profiles">>) ]

Up0011 ==
    Unless("package_cache_entries",
        << Create("package_kinds",
               Table({"id", "name", "description"}, NoRefs)),
           Create("package_layers",
               Table({"id", "name", "position", "description"}, NoRefs)),
           Create("package_variants",
               Table({"id", "name", "feature_hash", "description"},
                     [package_id |-> "packages"])),
           Create("package_variant_features",
               Table({"id", "feature", "value"},
                     [variant_id |-> "package_variants"])),
           Create("package_cache_entries",
               Table({"id", "cache_key", "package_name", "version", "arch",
                      "kind", "key_fields_json", "created_at"},
                     [artifact_id |-> "artifacts"])),
           Create("package_compatibility",
               Table({"id", "package_name", "kind", "kernel_release",
                      "kernel_config_hash", "toolchain_hash", "abi_hash"},
                     [cache_entry_id |-> "package_cache_entries"])),
           Create("package_locks",
               Table({"id", "package_name", "version", "cache_key", "reason",
                      "created_at"}, NoRefs)),
           Create("package_feeds",
               Table({"id", "name", "channel", "description", "created_at"},
                     NoRefs)),
           Create("package_feed_indexes",
               Table({"id", "package_name", "version", "cache_key",
                      "position"}, [feed_id |-> "package_feeds"])),
           Create("package_promotions",
               Table({"id", "package_name", "version", "from_channel",
                      "to_channel", "created_at"}, NoRefs)),
           Create("package_install_plans",
               Table({"id", "profile_id", "plan_json", "plan_hash",
                      "created_at"}, [set_id |-> "package_sets"])) >>
        \o AddMissing("packages", <<"kind", "layer">>))
    \o <<PackageKinds, PackageLayers>>

Down0011 ==
    DropColumns("packages", <<"layer", "kind">>)
    \o Drop(<<"package_install_plans", "package_promotions",
              "package_feed_indexes", "package_feeds", "package_locks",
              "package_compatibility", "package_cache_entries",
              "package_variant_features", "package_variants",
              "package_layers", "package_kinds">>)

M0012 ==
  [ up   |-> Unless("package_feature_options",
                << Create("package_feature_options",
                       Table({"id", "name", "type", "default_value",
                              "description"},
                             [package_id |-> "packages"])),
                   Create("package_feature_values",
                       Table({"id", "value", "implied_deps_json",
                              "description"},
                             [option_id |-> "package_feature_options"])),
                   Create("package_build_variants",
                       Table({"id", "name", "feature_hash", "arch",
                              "resolved_json", "description"},
                             [package_id |-> "packages"])),
                   Create("package_variant_artifacts",
                       Table({"id", "arch", "created_at"},
                             [build_variant_id |-> "package_build_variants",
                              artifact_id |-> "artifacts"])) >>),
    down |-> Drop(<<"package_variant_artifacts", "package_build_variants",
                     "package_feature_values", "package_feature_options">>) ]

M0013 ==
  [ up   |-> Unless("feed_signatures",
                << Create("feed_channels",
                       Table({"id", "distribution", "arch", "libc",
                              "kernel_release", "created_at"},
                             [feed_id |-> "package_feeds"])),
                   Create("feed_signatures",
                       Table({"id", "algorithm", "index_hash", "entry_count",
                              "signed_at"},
                             [feed_id |-> "package_feeds"])),
                   Create("feed_publish_jobs",
                       Table({"id", "status", "index_hash", "entry_count",
                              "triggered_at", "completed_at", "error"},
                             [feed_id |-> "package_feeds"])) >>),
    down |-> Drop(<<"feed_publish_jobs", "feed_signatures", "feed_channels">>) ]

M0014 ==
  [ up   |-> Unless("runtime_package_backends",
                << Create("runtime_package_backends",
                       Table({"id", "name", "description", "config_template"},
                             NoRefs)),
                   Create("runtime_package_policies",
                       Table({"id", "profile_id", "policy", "backend_name",
                              "feed_ids", "config_path", "rendered_config",
                              "rendered_at", "created_at", "updated_at"},
                             NoRefs)) >>)
            \o <<RuntimeBackends>>
            \o AddMissing("profiles", <<"runtime_policy_id">>),
    down |-> DropPresent("profiles", <<"runtime_policy_id">>)
              \o Drop(<<"runtime_package_policies",
                        "runtime_package_backends">>) ]

Up0015 ==
    AddMissing("branding_profiles",
        <<"os_name", "os_id", "os_version", "os_pretty_name", "os_home_url",
          "vendor_name", "vendor_url", "support_url", "bug_report_url",
          "logo_asset_id", "icon_asset_id", "rendered_os_release",
          "rendered_motd", "content_hash", "rendered_at", "created_at",
          "updated_at">>)
    \o Unless("branding_assets",
           << Create("branding_assets",
                  Table({"id", "name", "asset_kind", "source_path",
                         "artifact_id", "mime_type", "width_px", "height_px",
                         "created_at"},
                        [branding_profile_id |-> "branding_profiles"])),
              Create("branding_targets",
                  Table({"id", "stage", "asset_id", "config_json",
                         "created_at"},
                        [branding_profile_id |-> "branding_profiles"])),
              Create("os_release_templates",
                  Table({"id", "template_text", "rendered_text",
                         "rendered_at", "created_at"},
                        [branding_profile_id |-> "branding_profiles"])),
              Create("motd_templates",
                  Table({"id", "template_text", "rendered_text",
                         "rendered_at", "created_at"},
                        [branding_profile_id |-> "branding_profiles"])),
              Create("wallpaper_sets",
                  Table({"id", "name", "resolution", "asset_id", "is_default",
                         "created_at"},
                        [branding_profile_id |-> "branding_profiles"])),
              Create("boot_splash_themes",
                  Table({"id", "theme_name", "package_name", "config_json",
                         "created_at"},
                        [branding_profile_id |-> "branding_profiles"])),
              Create("login_screen_themes",
                  Table({"id", "theme_name", "display_manager", "config_json",
                         "created_at"},
                        [branding_profile_id |-> "branding_profiles"])) >>)

Down0015 ==
    Try(Drop(<<"login_screen_themes", "boot_splash_themes", "wallpaper_sets",
               "motd_templates", "os_release_templates", "branding_targets",
               "branding_assets">>))
    \o Try(DropPresent("branding_profiles",
           <<"updated_at", "created_at", "rendered_at", "content_hash",
             "rendered_motd", "rendered_os_release", "icon_asset_id",
             "logo_asset_id", "bug_report_url", "support_url", "vendor_url",
             "vendor_name", "os_home_url", "os_pretty_name", "os_version",
             "os_id", "os_name">>))

Up0016 ==
    AddMissing("graphical_profiles",
        <<"display_server", "compositor", "display_manager",
          "session_manager", "toolkit_default", "rendered_session_config",
          "content_hash", "rendered_at", "created_at", "updated_at">>)
    \o Unless("compositor_backends",
           << Create("compositor_backends",
                  Table({"id", "name", "description", "protocol",
                         "package_name", "config_template"}, NoRefs)),
              Create("display_manager_backends",
                  Table({"id", "name", "description", "package_name",
                         "config_template"}, NoRefs)),
              Create("graphical_components",
                  Table({"id", "component_kind", "package_name",
                         "version_constraint", "config_fragment",
                         "is_required", "created_at"},
                        [graphical_profile_id |-> "graphical_profiles"])),
              Create("graphical_sessions",
                  Table({"id", "name", "session_type", "exec_cmd",
                         "desktop_entry", "is_default", "created_at"},
                        [graphical_profile_id |-> "graphical_profiles"])) >>
           \o <<CompositorBackends>>
           \o <<DisplayManagerBackends>>)

Down0016 ==
    Try(Drop(<<"graphical_sessions", "graphical_components",
               "display_manager_backends", "compositor_backends">>))
    \o Try(DropPresent("graphical_profiles",
           <<"updated_at", "created_at", "rendered_at", "content_hash",
             "rendered_session_config", "toolkit_default", "session_manager",
             "display_manager", "compositor", "display_server">>))

Up0017 ==
    Unless("app_categories",
        << Create("app_categories",
               Table({"name", "description", "icon", "display_order"},
                     NoRefs)),
           Create("app_catalog_profiles",
               Table({"id", "name", "description", "rendered_app_list",
                      "content_hash", "rendered_at", "created_at",
                      "updated_at"},
                     [distribution_id |-> "distributions"])),
           Create("catalog_apps",
               Table({"id", "name", "display_name", "description",
                      "category_name", "package_name", "version_constraint",
                      "icon_name", "is_default_install", "is_optional",
                      "tags", "created_at"},
                     [catalog_profile_id |-> "app_catalog_profiles"])),
           Create("app_groups",
               Table({"id", "name", "description", "is_default", "created_at"},
                     [catalog_profile_id |-> "app_catalog_profiles"])),
           Create("app_group_members",
               Table({"id", "position"},
                     [group_id |-> "app_groups",
                      catalog_app_id |-> "catalog_apps"])),
           Create("default_app_roles",
               Table({"id", "role", "app_name", "package_name", "created_at"},
                     [catalog_profile_id |-> "app_catalog_profiles"])) >>
        \o <<AppCategories>>)

Down0017 ==
    Try(Drop(<<"default_app_roles", "app_group_members", "app_groups",
               "catalog_apps", "app_catalog_profiles", "app_categories">>))

Up0018 ==
    Unless("mime_type_definitions",
        << Create("mime_type_definitions",
               Table({"name", "description", "parent", "icon",
                      "display_order"}, NoRefs)),
           Create("desktop_integration_profiles",
               Table({"id", "name", "xdg_data_dirs", "xdg_config_dirs",
                      "rendered_mimeapps", "rendered_user_dirs",
                      "content_hash", "rendered_at", "created_at",
                      "updated_at"},
                     [distribution_id |-> "distributions"])),
           Create("mime_associations",
               Table({"id", "mime_type", "desktop_file", "association_type",
                      "priority"},
                     [profile_id |-> "desktop_integration_profiles"])),
           Create("autostart_entries",
               Table({"id", "name", "exec_cmd", "comment", "condition",
                      "is_enabled", "desktop_entry"},
                     [profile_id |-> "desktop_integration_profiles"])),
           Create("xdg_user_dirs",
               Table({"id", "dir_name", "path"},
                     [profile_id |-> "desktop_integration_profiles"])) >>
        \o <<MimeTypeDefinitions>>)

Down0018 ==
    Try(Drop(<<"xdg_user_dirs", "autostart_entries", "mime_associations",
               "desktop_integration_profiles", "mime_type_definitions">>))

M0019 ==
  [ up   |-> Unless("theme_asset_kinds",
                << Create("theme_asset_kinds",
                       Table({"name", "description", "display_order"},
                             NoRefs)),
                   Create("theme_profiles",
                       Table({"id", "name", "gtk_theme", "icon_theme",
                              "cursor_theme", "sound_theme", "dark_mode",
                              "font_default", "font_monospace",
                              "font_document", "font_size", "cursor_size",
                              "scaling_factor", "rendered_gsettings",
                              "rendered_gtk_ini", "content_hash",
                              "rendered_at", "created_at", "updated_at"},
                             [distribution_id |-> "distributions"])),
                   Create("theme_packages",
                       Table({"id", "asset_kind", "package_name",
                              "version_constraint", "is_default"},
                             [profile_id |-> "theme_profiles"])),
                   Create("gsettings_overrides",
                       Table({"id", "schema", "key", "value", "description"},
                             [profile_id |-> "theme_profiles"])) >>
                \o <<ThemeAssetKinds>>),
    down |-> Try(Drop(<<"gsettings_overrides", "theme_packages",
                         "theme_profiles", "theme_asset_kinds">>)) ]

Up0020 ==
    Unless("user_shell_kinds",
        << Create("user_shell_kinds",
               Table({"path", "description", "display_order"}, NoRefs)),
           Create("os_user_profiles",
               Table({"id", "name", "rendered_passwd", "rendered_group",
                      "rendered_secrets_manifest", "content_hash",
                      "rendered_at", "created_at", "updated_at"},
                     [distribution_id |-> "distributions"])),
           Create("os_groups",
               Table({"id", "name", "gid", "is_system", "description"},
                     [profile_id |-> "os_user_profiles"])),
           Create("os_users",
               Table({"id", "username", "uid", "primary_group", "home_dir",
                      "shell", "gecos", "is_system", "is_locked",
                      "password_hash"},
                     [profile_id |-> "os_user_profiles"])),
           Create("user_supplementary_groups",
               Table({"id", "group_name"}, [user_id |-> "os_users"])),
           Create("secret_variables",
               Table({"id", "name", "kind", "description", "masked_value",
                      "is_required"},
                     [profile_id |-> "os_user_profiles"])) >>
        \o <<UserShellKinds>>)

Down0020 ==
    Try(Drop(<<"secret_variables", "user_supplementary_groups", "os_users",
               "os_groups", "os_user_profiles", "user_shell_kinds">>))

Up0021 ==
    Unless("network_interface_kinds",
        << Create("network_interface_kinds",
               Table({"name", "description", "display_order"}, NoRefs)),
           Create("network_profiles",
               Table({"id", "name", "hostname", "rendered_networkd",
                      "rendered_resolv_conf", "rendered_hosts",
                      "content_hash", "rendered_at", "created_at",
                      "updated_at"},
                     [distribution_id |-> "distributions"])),
           Create("net_interfaces",
               Table({"id", "name", "kind", "description", "mtu",
                      "mac_address", "is_dhcp4", "is_dhcp6",
                      "static_addresses", "gateway4", "metric", "parent_name",
                      "vlan_id"}, [profile_id |-> "network_profiles"])),
           Create("net_dns_entries",
               Table({"id", "nameserver", "search_domain", "priority"},
                     [profile_id |-> "network_profiles"])),
           Create("net_routes",
               Table({"id", "destination", "gateway", "metric",
                      "interface_name", "description"},
                     [profile_id |-> "network_profiles"])),
           Create("net_firewall_rules",
               Table({"id", "chain", "protocol", "source_cidr",
                      "destination_cidr", "dport", "action", "priority",
                      "comment"}, [profile_id |-> "network_profiles"])) >>
        \o <<NetworkInterfaceKinds>>)

Down0021 ==
    Try(Drop(<<"net_firewall_rules", "net_routes", "net_dns_entries",
               "net_interfaces", "network_profiles",
               "network_interface_kinds">>))

Up0022 ==
    Unless("init_system_kinds",
        << Create("init_system_kinds",
               Table({"name", "description", "display_order"}, NoRefs)),
           Create("service_profiles",
               Table({"id", "name", "init_system", "description",
                      "rendered_units", "rendered_udev", "rendered_overrides",
                      "content_hash", "rendered_at", "created_at",
                      "updated_at"},
                     [distribution_id |-> "distributions"])),
           Create("service_entries",
               Table({"id", "name", "unit_type", "description", "exec_start",
                      "exec_stop", "exec_pre_start", "restart_policy",
                      "wanted_by", "after", "requires", "environment",
                      "working_directory", "run_user", "run_group",
                      "is_enabled", "is_masked", "priority"},
                     [profile_id |-> "service_profiles"])),
           Create("device_rules",
               Table({"id", "subsystem", "kernel_pattern", "attr_filter",
                      "udev_action", "symlink", "mode", "owner", "group_name",
                      "run_command", "priority", "comment"},
                     [profile_id |-> "service_profiles"])),
           Create("systemd_unit_overrides",
               Table({"id", "unit_name", "section", "override_content"},
                     [profile_id |-> "service_profiles"])) >>
        \o <<InitSystemKinds>>)

Down0022 ==
    Try(Drop(<<"systemd_unit_overrides", "device_rules", "service_entries",
               "service_profiles", "init_system_kinds">>))

Up0023 ==
    Unless("security_mac_kinds",
        << Create("security_mac_kinds",
               Table({"name", "description", "display_order"}, NoRefs)) >>
        \o AddMissing("security_profiles",
               <<"mac_policy", "description", "rendered_sysctl",
                 "rendered_mac_rules", "rendered_pam_config",
                 "rendered_capabilities", "content_hash", "rendered_at",
                 "created_at", "updated_at">>)
        \o DropPresent("security_profiles", <<"metadata_json">>)
        \o << Create("sysctl_settings",
                  Table({"id", "key", "value", "description"},
                        [profile_id |-> "security_profiles"])),
              Create("mac_rules",
                  Table({"id", "subject", "rule_text", "is_enforcing",
                         "priority", "comment"},
                        [profile_id |-> "security_profiles"])),
              Create("pam_rules",
                  Table({"id", "service", "module_type", "control_flag",
                         "module_path", "module_args", "priority"},
                        [profile_id |-> "security_profiles"])),
              Create("capability_grants",
                  Table({"id", "executable", "add_caps", "drop_caps",
                         "no_new_privs", "description"},
                        [profile_id |-> "security_profiles"])) >>
        \o <<SecurityMacKinds>>)

Down0023 ==
    Try(Drop(<<"capability_grants", "pam_rules", "mac_rules",
               "sysctl_settings", "security_mac_kinds">>))

Up0024 ==
    Unless("spdx_license_kinds",
        << Create("spdx_license_kinds",
               Table({"spdx_id", "name", "is_copyleft", "is_permissive",
                      "display_order"}, NoRefs)),
           Create("compliance_profiles",
               Table({"id", "name", "description", "allow_copyleft",
                      "allow_proprietary", "min_vuln_severity_to_block",
                      "require_sbom", "rendered_sbom", "rendered_vuln_report",
                      "rendered_license_report", "content_hash",
                      "rendered_at", "created_at", "updated_at"},
                     [distribution_id |-> "distributions"])),
           Create("license_rules",
               Table({"id", "spdx_id", "policy", "reason"},
                     [profile_id |-> "compliance_profiles"])),
           Create("vuln_gates",
               Table({"id", "cve_id", "severity", "action", "package_name",
                      "affected_version", "reason"},
                     [profile_id |-> "compliance_profiles"])),
           Create("sbom_entries",
               Table({"id", "package_name", "package_version", "spdx_id",
                      "purl", "supplier", "source_url", "is_source_available"},
                     [profile_id |-> "compliance_profiles"])) >>
        \o <<SpdxLicenseKinds>>)

Down0024 ==
    Try(Drop(<<"sbom_entries", "vuln_gates", "license_rules",
               "compliance_profiles", "spdx_license_kinds">>))

Up0025 ==
    Unless("update_strategy_kinds",
        << Create("update_strategy_kinds",
               Table({"kind", "label", "description", "display_order"},
                     NoRefs)),
           Create("update_profiles",
               Table({"id", "name", "description", "strategy",
                      "signing_required", "rollback_enabled",
                      "rollback_window_days", "max_delta_size_mb",
                      "verification_mode", "rendered_update_config",
                      "rendered_recovery_config", "content_hash",
                      "rendered_at", "created_at", "updated_at"},
                     [distribution_id |-> "distributions"])),
           Create("update_channels",
               Table({"id", "name", "url", "signing_key_id", "priority",
                      "is_default"}, [profile_id |-> "update_profiles"])),
           Create("recovery_targets",
               Table({"id", "name", "target_type", "kernel_args",
                      "initramfs_hint", "is_default", "priority"},
                     [profile_id |-> "update_profiles"])),
           Create("update_hooks",
               Table({"id", "hook_point", "script_content", "is_enabled",
                      "priority"}, [profile_id |-> "update_profiles"])) >>
        \o <<UpdateStrategyKinds>>)

Down0025 ==
    Try(Drop(<<"update_hooks", "recovery_targets", "update_channels",
               "update_profiles", "update_strategy_kinds">>))

M0026 ==
  [ up   |-> Unless("sdk_export_kinds",
                << Create("sdk_export_kinds",
                       Table({"kind", "label", "description", "display_order"},
                             NoRefs)),
                   Create("sdk_profiles",
                       Table({"id", "name", "description", "export_format",
                              "python_version", "include_debug_symbols",
                              "rendered_setup_script", "rendered_env_script",
                              "content_hash", "rendered_at", "created_at",
                              "updated_at"},
                             [distribution_id |-> "distributions"])),
                   Create("sdk_variables",
                       Table({"id", "key", "value", "description",
                              "is_secret"},
                             [profile_id |-> "sdk_profiles"])) >>
                \o <<SeedSdkExportKinds>>),
    down |-> Drop(<<"sdk_variables", "sdk_profiles", "sdk_export_kinds">>) ]

M0027 ==
  [ up   |-> Unless("cache_policy_kinds",
                << Create("cache_policy_kinds",
                       Table({"kind", "label", "description", "display_order"},
                             NoRefs)),
                   Create("mirror_profiles",
                       Table({"id", "name", "description", "offline_mode",
                              "max_cache_size_mb", "cache_ttl_days",
                              "rendered_mirror_config", "content_hash",
                              "rendered_at", "created_at", "updated_at"},
                             [distribution_id |-> "distributions"])),
                   Create("mirror_endpoints",
                       Table({"id", "url", "priority", "is_default",
                              "requires_auth", "auth_token_id"},
                             [profile_id |-> "mirror_profiles"])),
                   Create("cache_priority_rules",
                       Table({"id", "source_pattern", "priority",
                              "cache_policy"},
                             [profile_id |-> "mirror_profiles"])) >>
                \o <<SeedCachePolicyKinds>>),
    down |-> Drop(<<"cache_priority_rules", "mirror_endpoints",
                     "mirror_profiles", "cache_policy_kinds">>) ]

M0028 ==
  [ up   |-> Unless("probe_source_kinds",
                << Create("probe_source_kinds",
                       Table({"kind", "label", "description", "display_order"},
                             NoRefs)),
                   Create("hardware_probes",
                       Table({"id", "name", "probe_source", "raw_probe_json",
                              "cpu_arch", "cpu_model", "mem_mb",
                              "rendered_board_hints", "content_hash",
                              "probed_at", "created_at", "updated_at"},
                             [board_id |-> "boards"])) >>
                \o <<SeedProbeSourceKinds>>),
    down |-> Drop(<<"hardware_probes", "probe_source_kinds">>) ]

M0029 ==
  [ up   |-> Unless("layer_kinds",
                << Create("layer_kinds",
                       Table({"kind", "label", "description", "display_order"},
                             NoRefs)),
                   Create("layer_profiles",
                       Table({"id", "name", "description", "base_layer",
                              "rendered_manifest", "content_hash",
                              "rendered_at", "created_at", "updated_at"},
                             [distribution_id |-> "distributions"])),
                   Create("layer_entries",
                       Table({"id", "name", "layer_kind", "source_url",
                              "sha256_hint", "priority", "is_enabled",
                              "description"},
                             [profile_id |-> "layer_profiles"])) >>
                \o <<SeedLayerKinds>>),
    down |-> Drop(<<"layer_entries", "layer_profiles", "layer_kinds">>) ]

M0030 ==
  [ up   |-> Unless("override_kinds",
                << Create("override_kinds",
                       Table({"kind", "label", "description", "display_order"},
                             NoRefs)),
                   Create("override_profiles",
                       Table({"id", "name", "description",
                              "rendered_override_policy", "content_hash",
                              "rendered_at", "created_at", "updated_at"},
                             [distribution_id |-> "distributions"])),
                   Create("override_rules",
                       Table({"id", "target_type", "target_key", "action",
                              "value", "reason", "priority"},
                             [profile_id |-> "override_profiles"])) >>
                \o <<SeedOverrideKinds>>),
    down |-> Drop(<<"override_rules", "override_profiles", "override_kinds">>) ]

M0031 ==
  [ up   |-> Unless("patch_target_kinds",
                << Create("patch_target_kinds",
                       Table({"kind", "label", "description", "display_order"},
                             NoRefs)),
                   Create("patch_sets",
                       Table({"id", "name", "description", "target_kind",
                              "rendered_patch_manifest", "content_hash",
                              "rendered_at", "created_at", "updated_at"},
                             [distribution_id |-> "distributions"])),
                   Create("patches",
                       Table({"id", "sequence_num", "name", "patch_content",
                              "patch_format", "is_enabled", "description"},
                             [patch_set_id |-> "patch_sets"])),
                   Create("patch_application_results",
                       Table({"id", "applied_at", "status", "applied_count",
                              "failed_at_sequence", "error_message"},
                             [patch_set_id |-> "patch_sets"])) >>
                \o <<SeedPatchTargetKinds>>),
    down |-> Drop(<<"patch_application_results", "patches", "patch_sets",
                     "patch_target_kinds">>) ]

M0032 ==
  [ up   |-> Unless("graph_kinds",
                << Create("graph_kinds",
                       Table({"kind", "label", "description", "display_order"},
                             NoRefs)),
                   Create("graph_snapshots",
                       Table({"id", "kind", "root_node",
                              "rendered_graph_json", "node_count",
                              "edge_count", "content_hash", "rendered_at",
                              "created_at"},
                             [distribution_id |-> "distributions"])) >>
                \o <<SeedGraphKinds>>),
    down |-> Drop(<<"graph_snapshots", "graph_kinds">>) ]

M0033 ==
  [ up   |-> Unless("explain_trace_kinds",
                << Create("explain_trace_kinds",
                       Table({"kind", "label", "description", "display_order"},
                             NoRefs)),
                   Create("explain_traces",
                       Table({"id", "target_kind", "target_key",
                              "reason_kind", "reason_detail", "source_id",
                              "created_at"}, [build_id |-> "builds"])) >>
                \o <<SeedExplainTraceKinds>>),
    down |-> Drop(<<"explain_traces", "explain_trace_kinds">>) ]

M0034 ==
  [ up   |-> Unless("diff_report_kinds",
                << Create("diff_report_kinds",
                       Table({"kind", "label", "description", "display_order"},
                             NoRefs)),
                   Create("diff_reports",
                       Table({"id", "entity_kind", "entity_a_id",
                              "entity_b_id", "rendered_diff", "summary_json",
                              "content_hash", "created_at"}, NoRefs)) >>
                \o <<SeedDiffReportKinds>>),
    down |-> Drop(<<"diff_reports", "diff_report_kinds">>) ]

Up0035 ==
    Unless("rollback_kinds",
            << Create("rollback_kinds",
                   Table({"kind", "label", "description", "display_order"},
                         NoRefs)),
               Create("generations",
                   Table({"id", "release_id", "generation_number",
                          "status", "description",
                          "rendered_generation_manifest", "content_hash",
                          "rendered_at", "created_at", "updated_at"},
                         [distribution_id |-> "distributions"])),
               Create("generation_artifacts",
                   Table({"id", "artifact_role", "artifact_uri"},
                         [generation_id |-> "generations",
                          artifact_id |-> "artifacts"])),
               Create("rollback_targets",
                   Table({"id", "target_generation_number",
                          "rollback_kind", "rendered_rollback_plan",
                          "priority", "created_at"},
                         [generation_id |-> "generations"])) >>
            \o <<SeedRollbackKinds>>)

Down0035 ==
    Drop(<<"rollback_targets", "generation_artifacts", "generations",
           "rollback_kinds">>)

M0036 ==
  [ up   |-> Unless("upgrade_requests",
                << Create("upgrade_requests",
                       Table({"id", "target_channel", "target_version",
                              "status", "requested_at", "completed_at",
                              "result_json"},
                             [distribution_id |-> "distributions",
                              profile_id |-> "profiles",
                              current_generation_id |-> "generations"])),
                   Create("upgrade_results",
                       Table({"id", "status", "new_generation_id",
                              "diff_report_id", "rollback_plan",
                              "error_message", "created_at"},
                             [upgrade_id |-> "upgrade_requests",
                              artifact_id |-> "artifacts"])) >>),
    down |-> Drop(<<"upgrade_results", "upgrade_requests">>) ]

M0037 ==
  [ up   |-> Unless("lockfiles",
                << Create("lockfiles",
                       Table({"id", "lock_version", "rendered_lock",
                              "content_hash", "created_at"},
                             [distribution_id |-> "distributions",
                              profile_id |-> "profiles",
                              build_id |-> "builds"])),
                   Create("lockfile_entries",
                       Table({"id", "entry_kind", "entry_key", "version",
                              "source_hash", "extra_json"},
                             [lockfile_id |-> "lockfiles"])) >>),
    down |-> Drop(<<"lockfile_entries", "lockfiles">>) ]

M0038 ==
  [ up   |-> Unless("import_kinds",
                << Create("import_kinds",
                       Table({"kind", "label", "description", "display_order"},
                             NoRefs)),
                   Create("import_jobs",
                       Table({"id", "import_kind", "source_data",
                              "source_filename", "status", "created_at",
                              "completed_at"}, NoRefs)),
                   Create("import_reports",
                       Table({"id", "mapped_count", "unknown_count",
                              "report_text", "draft_profile_id", "created_at"},
                             [import_job_id |-> "import_jobs"])) >>
                \o <<SeedImportKinds>>),
    down |-> Drop(<<"import_reports", "import_jobs", "import_kinds">>) ]

M0039 ==
  [ up   |-> Unless("build_analyses",
                << Create("build_analyses",
                       Table({"id", "analysis_kind", "rendered_report",
                              "summary_json", "content_hash", "created_at"},
                             [build_id |-> "builds"])) >>),
    down |-> Drop(<<"build_analyses">>) ]

M0040 ==
  [ up   |-> Unless("size_budget_kinds",
                << Create("size_budget_kinds",
                       Table({"kind", "label", "description", "display_order"},
                             NoRefs)),
                   Create("size_budgets",
                       Table({"id", "budget_kind", "budget_bytes",
                              "is_hard_limit", "created_at"},
                             [profile_id |-> "profiles"])),
                   Create("size_reports",
                       Table({"id", "rendered_report", "summary_json",
                              "content_hash", "created_at"},
                             [build_id |-> "builds",
                              profile_id |-> "profiles"])) >>
                \o <<SeedSizeBudgetKinds>>),
    down |-> Drop(<<"size_reports", "size_budgets", "size_budget_kinds">>) ]

M0041 ==
  [ up   |-> Unless("boot_profiles",
                << Create("boot_profiles",
                       Table({"id", "capture_method", "total_boot_ms",
                              "rendered_timeline", "summary_json",
                              "content_hash", "created_at"},
                             [build_id |-> "builds"])),
                   Create("boot_samples",
                       Table({"id", "event_kind", "event_name",
                              "timestamp_ms", "duration_ms",
                              "is_critical_path"},
                             [boot_profile_id |-> "boot_profiles"])) >>),
    down |-> Drop(<<"boot_samples", "boot_profiles">>) ]

M0042 ==
  [ up   |-> Unless("worker_pools",
                << Create("worker_pools",
                       Table({"id", "name", "label", "description",
                              "pool_kind", "max_parallelism", "created_at",
                              "updated_at"}, NoRefs)),
                   Create("worker_pool_members",
                       Table({"id", "joined_at"},
                             [worker_pool_id |-> "worker_pools",
                              worker_id |-> "workers"])),
                   Create("job_affinities",
                       Table({"id", "job_kind", "affinity_weight"},
                             [pool_id |-> "worker_pools"])),
                   Create("pool_quotas",
                       Table({"id", "resource_kind", "limit_value",
                              "period_seconds"},
                             [pool_id |-> "worker_pools"])) >>),
    down |-> Drop(<<"pool_quotas", "job_affinities", "worker_pool_members",
                     "worker_pools">>) ]

M0043 ==
  [ up   |-> Unless("isolation_policies",
                << Create("isolation_policies",
                       Table({"id", "name", "label", "description", "mode",
                              "network_allowed", "write_access", "cache_mode",
                              "secret_access", "privileged", "created_at",
                              "updated_at"}, NoRefs)),
                   Create("recipe_isolation_requirements",
                       Table({"id", "recipe_id", "required_mode", "reason",
                              "created_at"}, NoRefs)) >>),
    down |-> Drop(<<"recipe_isolation_requirements", "isolation_policies">>) ]

M0044 ==
  [ up   |-> Unless("release_channels",
                << Create("release_channels",
                       Table({"channel", "label", "description",
                              "display_order"}, NoRefs)),
                   Create("repositories",
                       Table({"id", "name", "label", "description",
                              "repo_kind", "base_url", "sign_key_id",
                              "is_published", "created_at", "updated_at"},
                             NoRefs)),
                   Create("repository_indexes",
                       Table({"id", "channel", "rendered_index",
                              "content_hash", "indexed_at", "created_at"},
                             [repository_id |-> "repositories"])),
                   Create("published_releases",
                       Table({"id", "channel", "version", "status",
                              "rendered_release_manifest", "content_hash",
                              "rendered_at", "created_at", "updated_at"},
                             [distribution_id |-> "distributions"])),
                   Create("release_artifacts",
                       Table({"id", "artifact_role", "artifact_uri"},
                             [release_id |-> "published_releases",
                              artifact_id |-> "artifacts"])) >>
                \o <<SeedReleaseChannels>>),
    down |-> Drop(<<"release_artifacts", "published_releases",
                     "repository_indexes", "repositories",
                     "release_channels">>) ]

M0045 ==
  [ up   |-> <<Seed(ReferenceTables \cup CatalogTables)>>,
    down |-> <<>> ]

M0046 ==
  [ up   |-> <<Seed(ReferenceTables)>>,
    down |-> <<>> ]

M0047 ==
  [ up   |-> <<Seed(ReferenceTables)>>,
    down |-> <<>> ]

M0048 ==
  [ up   |-> << CreateMissing("job_tasks", JobTasks) >>,
    down |-> Drop(<<"job_tasks">>) ]

M0049 ==
  [ up   |-> Add("workers", <<"pid">>),
    down |-> DropColumns("workers", <<"pid">>) ]

M0050 ==
  [ up   |-> << Create("distribution_config_values",
                   Table({"id", "key", "value", "updated_at"},
                         [distribution_id |-> "distributions"])) >>
            \o <<Seed(CatalogTables)>>,
    down |-> Drop(<<"distribution_config_values">>) ]

M0051 ==
  [ up   |-> <<Seed(ReferenceTables)>>,
    down |-> <<>> ]

M0052 ==
  [ up   |-> <<Seed(ReferenceTables)>>,
    down |-> <<>> ]

\* The chain from 0002 on, in the order of down_revision.
Chain ==
  << M0002, M0003, M0004, M0005, [up |-> Up0006, down |-> Down0006], M0007,
     M0008, [up |-> Up77de, down |-> Down77de], Mb347, M0fc7, M0009, M0010,
     [up |-> Up0011, down |-> Down0011], M0012, M0013, M0014,
     [up |-> Up0015, down |-> Down0015], [up |-> Up0016, down |-> Down0016],
     [up |-> Up0017, down |-> Down0017], [up |-> Up0018, down |-> Down0018],
     M0019, [up |-> Up0020, down |-> Down0020],
     [up |-> Up0021, down |-> Down0021], [up |-> Up0022, down |-> Down0022],
     [up |-> Up0023, down |-> Down0023], [up |-> Up0024, down |-> Down0024],
     [up |-> Up0025, down |-> Down0025], M0026, M0027, M0028, M0029, M0030,
     M0031, M0032, M0033, M0034, [up |-> Up0035, down |-> Down0035],
     M0036, M0037, M0038, M0039, M0040, M0041, M0042, M0043, M0044, M0045,
     M0046, M0047, M0048, M0049, M0050, M0051, M0052 >>
=============================================================================
