------------------------- MODULE CatalogProtection -------------------------
(***************************************************************************)
(* The catalog entries of the tasks that copy data to another place: for   *)
(* every resource its schema, what its payloads send, how a response is    *)
(* taken into the model, and the steps of its handlers.                    *)
(***************************************************************************)
EXTENDS Steps

-----------------------------------------------------------------------------
(* truenas_replication: transport as inferred for a task with no           *)
(* ssh_credentials.                                                        *)

ReplicationSchema ==
  Attrs({"id"}, Computed)
    @@ Attrs({"name", "source_datasets", "target_dataset", "recursive", "auto"},
    Required) @@ Attrs({"direction"}, Nonzero(Replacing(Required)))
    @@ Attrs({"transport"}, Nonzero(Mod(Unkept, <<"resetWhenUnset", "replace">>)))
    @@ Attrs({"ssh_credentials", "exclude", "naming_schema",
      "also_include_naming_schema"}, Initially("zero", Kept))
    @@ Attrs({"sudo", "properties", "replicate", "enabled", "retries", "compressed",
      "embed", "large_block", "allow_from_scratch", "hold_pending_snapshots",
      "only_matching_schedule", "properties_exclude", "encryption",
      "encryption_inherit", "encryption_key_location"}, Kept)
    @@ Attrs({"compression", "speed_limit", "netcat_active_side",
      "netcat_active_side_port_min", "netcat_active_side_port_max", "lifetime_unit",
      "properties_override", "lifetimes"}, Nonzero(Optional))
    @@ Attrs({"netcat_active_side_listen_address",
      "netcat_passive_side_connect_address", "schedule", "restrict_schedule"}, Optional)
    @@ Attrs({"periodic_snapshot_tasks"},
    Initially("zero", Custom(Mod(Unkept, <<"keepEquivalent", "keep">>))))
    @@ Attrs({"name_regex"}, Initially("zero", LosesZero(Kept)))
    @@ Attrs({"retention_policy"}, Nonzero(Required))
    @@ Attrs({"lifetime_value"}, LosesZero(Optional))
    @@ Attrs({"readonly", "logging_level", "encryption_key_format"}, Nonzero(Kept))
    @@ Attrs({"encryption_key"}, Secret)
    @@ Attrs({"encryption_key_wo_version"}, Local(Optional))
ReplicationResponse ==
  Attrs({"compression", "speed_limit", "netcat_active_side",
      "netcat_active_side_listen_address", "netcat_active_side_port_min",
      "netcat_active_side_port_max", "netcat_passive_side_connect_address",
      "lifetime_value", "lifetime_unit", "logging_level", "encryption_inherit",
      "encryption_key_format", "encryption_key_location", "schedule",
      "restrict_schedule"}, "pointer")
    @@ Attrs({"lifetimes", "properties_override"}, "nullIfZero")
    @@ Attrs(DOMAIN ReplicationSchema \ {"encryption_key", "encryption_key_wo_version"},
    "value")
ReplicationPayload ==
  Attrs({"name", "direction", "transport", "target_dataset", "recursive", "auto",
      "retention_policy", "source_datasets", "exclude", "periodic_snapshot_tasks",
      "naming_schema", "also_include_naming_schema"}, "always")
    @@ Attrs({"ssh_credentials", "lifetime_value", "lifetime_unit"}, "nilZero")
    @@ Attrs({"restrict_schedule", "schedule"}, "nullable")
    @@ Attrs({"properties_override", "lifetimes"}, "unlessUnknown")
    @@ Attrs({"compression", "speed_limit", "netcat_active_side",
      "netcat_active_side_listen_address", "netcat_active_side_port_min",
      "netcat_active_side_port_max", "netcat_passive_side_connect_address"}, "nil")
    @@ Attrs({"name_regex"}, "nonzero")
    @@ Attrs(DOMAIN ReplicationSchema \ {"id", "encryption_key",
      "encryption_key_wo_version"}, "known")
ReplicationModifyPlan == Attrs({"transport"}, <<"inferredOnCreate">>)
ReplicationSecrets == Attrs({"encryption_key"}, "known")
ReplicationCreate ==
  <<Create(ReplicationPayload @@ ReplicationSecrets), Fetch, Take(ReplicationResponse),
    RecordManaged, Save>>
ReplicationRead == <<FetchOrForget, Take(ReplicationResponse), Save>>
Replication ==
  Resource(Amend(ReplicationSchema, ReplicationModifyPlan), ReplicationCreate,
    ReplicationRead,
    <<Update(ReplicationPayload @@ IfChanged(ReplicationSecrets)), Fetch,
      Take(ReplicationResponse), Save>>, <<Delete>>,
    <<Fetch, Take(ReplicationResponse), Save>>)

-----------------------------------------------------------------------------
(* truenas_replication_config.                                             *)

ReplicationConfigSchema ==
  Attrs({"id"}, Computed) @@ Attrs({"max_parallel_replication_tasks"}, Kept)
ReplicationConfigResponse ==
  Attrs({"max_parallel_replication_tasks"}, "value") @@ Attrs({"id"}, "fixed")
ReplicationConfigUpdatePayload ==
  Attrs({"max_parallel_replication_tasks"}, "knownNilZero")
ReplicationConfigCreate ==
  <<Update(ReplicationConfigUpdatePayload), Fetch, Take(ReplicationConfigResponse),
    Save>>
ReplicationConfigRead == <<Fetch, Take(ReplicationConfigResponse), Save>>
ReplicationConfig ==
  Resource(ReplicationConfigSchema, ReplicationConfigCreate, ReplicationConfigRead,
    <<Update(ReplicationConfigUpdatePayload), Fetch, Take(ReplicationConfigResponse),
      Save>>, <<LeaveInPlace>>, <<SaveId>>)

-----------------------------------------------------------------------------
(* truenas_rsync_task.                                                     *)

RsyncTaskSchema ==
  Attrs({"id"}, Computed) @@ Attrs({"path", "user"}, Required)
    @@ Attrs({"mode", "direction"}, Nonzero(Kept))
    @@ Attrs({"remotehost", "remoteport", "remotemodule", "ssh_credentials",
      "remotepath", "desc", "schedule", "recursive", "times", "compress", "archive",
      "delete", "quiet", "preserveperm", "preserveattr", "delayupdates", "extra",
      "enabled"}, Kept) @@ Attrs({"validate_rpath", "ssh_keyscan"}, Local(Unseen))
RsyncTaskResponse ==
  Attrs({"remotehost", "remoteport", "remotemodule", "ssh_credentials"}, "pointer")
    @@ Attrs(DOMAIN RsyncTaskSchema \ {"validate_rpath", "ssh_keyscan"}, "value")
RsyncTaskPayload ==
  Attrs({"path", "user"}, "always") @@ Attrs(DOMAIN RsyncTaskSchema \ {"id"}, "known")
RsyncTaskCreate == <<Create(RsyncTaskPayload), Take(RsyncTaskResponse), Save>>
RsyncTaskRead == <<FetchOrForget, Take(RsyncTaskResponse), Save>>
RsyncTask ==
  Resource(RsyncTaskSchema, RsyncTaskCreate, RsyncTaskRead,
    <<Update(RsyncTaskPayload), Take(RsyncTaskResponse), Save>>, <<Delete>>,
    <<Fetch, Take(RsyncTaskResponse), Save>>)

-----------------------------------------------------------------------------
(* truenas_cloudsync.                                                      *)

CloudsyncSchema ==
  Attrs({"id"}, Computed)
    @@ Attrs({"description", "path", "credentials", "schedule"}, Required)
    @@ Attrs({"direction", "transfer_mode"}, Nonzero(Required))
    @@ Attrs({"attributes"},
    Excused({"NoDiffAfterApply"}, Spelt(Mod(Required, <<"keepImported">>))))
    @@ Attrs({"enabled", "snapshot", "transfers", "follow_symlinks",
      "create_empty_src_dirs", "encryption", "filename_encryption", "bwlimit",
      "pre_script", "post_script"}, Kept)
    @@ Attrs({"encryption_password", "encryption_salt"}, Secret)
    @@ Attrs({"encryption_wo_version"}, Local(Optional))
    @@ Attrs({"include", "exclude"}, Initially("zero", Kept))
CloudsyncPayload ==
  Attrs({"description", "path", "credentials", "direction", "transfer_mode",
      "attributes", "schedule", "include", "exclude"}, "always")
    @@ Attrs({"enabled", "snapshot", "transfers", "follow_symlinks",
      "create_empty_src_dirs", "encryption", "filename_encryption", "pre_script",
      "post_script", "bwlimit"}, "known")
CloudsyncResponse ==
  Attrs({"transfers"}, "pointer")
    @@ Attrs(DOMAIN CloudsyncSchema \ {"attributes", "encryption_password",
      "encryption_salt", "encryption_wo_version"}, "value")
CloudsyncSecrets == Attrs({"encryption_password", "encryption_salt"}, "known")
CloudsyncDrift == Attrs({"attributes"}, "keepEquivalent")
CloudsyncCreate ==
  <<Create(CloudsyncPayload @@ CloudsyncSecrets), Fetch, Take(CloudsyncResponse),
    SetImported(FALSE), Save>>
CloudsyncRead == <<FetchOrForget, Take(CloudsyncResponse @@ CloudsyncDrift), Save>>
Cloudsync ==
  Resource(CloudsyncSchema, CloudsyncCreate, CloudsyncRead,
    <<Update(CloudsyncPayload @@ IfChanged(CloudsyncSecrets)), Fetch,
      Take(CloudsyncResponse), SetImported(FALSE), Save>>, <<Delete>>,
    <<Fetch, Take(CloudsyncResponse @@ Attrs({"attributes"}, "value")),
      SetImported(TRUE), Save>>)

-----------------------------------------------------------------------------
(* truenas_cloudsync_credentials.                                          *)

CloudsyncCredentialsSchema ==
  Attrs({"id"}, Computed) @@ Attrs({"name"}, Required)
    @@ Attrs({"provider_config"},
    Excused({"NoDiffAfterApply"}, Spelt(Mod(Required, <<"keepImported">>))))
    @@ Attrs({"provider_secrets_wo"}, Secret)
    @@ Attrs({"provider_secrets_wo_version"}, Local(Optional))
CloudsyncCredentialsResponse == Attrs({"id", "name"}, "value")
CloudsyncCredentialsCreatePayload == Attrs({"name", "provider_config"}, "always")
CloudsyncCredentialsUpdatePayload == Attrs({"name", "provider_config"}, "always")
CloudsyncCredentialsSecrets == Attrs({"provider_secrets_wo"}, "nonzero")
CloudsyncCredentialsRefresh == Attrs({"provider_config"}, "equivalentOrRedacted")
CloudsyncCredentialsCreate ==
  <<Create(CloudsyncCredentialsCreatePayload @@ CloudsyncCredentialsSecrets), Fetch,
    Take(CloudsyncCredentialsResponse), SetImported(FALSE), Save>>
CloudsyncCredentialsRead ==
  <<FetchOrForget, Take(CloudsyncCredentialsResponse @@ CloudsyncCredentialsRefresh),
    Save>>
CloudsyncCredentialsUpdate ==
  <<Fetch, Update(CloudsyncCredentialsUpdatePayload
      @@ IfChanged(CloudsyncCredentialsSecrets)), Fetch,
    Take(CloudsyncCredentialsResponse), SetImported(FALSE), Save>>
CloudsyncCredentials ==
  Resource(CloudsyncCredentialsSchema, CloudsyncCredentialsCreate,
    CloudsyncCredentialsRead, CloudsyncCredentialsUpdate, <<Delete>>,
    <<Fetch, Take(Attrs({"provider_config"}, "value") @@ CloudsyncCredentialsResponse),
      SetImported(TRUE), Save>>)

-----------------------------------------------------------------------------
(* truenas_cloud_backup.                                                   *)

CloudBackupSchema ==
  Attrs({"id"}, Computed) @@ Attrs({"description"}, Mod(Unkept, <<"resetWhenUnset">>))
    @@ Attrs({"path", "credentials"}, Required)
    @@ Attrs({"attributes"},
    Excused({"NoDiffAfterApply"}, Spelt(Mod(Required, <<"keepImported">>))))
    @@ Attrs({"schedule", "pre_script", "post_script", "snapshot", "include", "exclude",
      "enabled", "cache_path"}, Kept) @@ Attrs({"password"}, Nonzero(Optional))
    @@ Attrs({"password_wo"}, Secret) @@ Attrs({"password_wo_version"}, Local(Optional))
    @@ Attrs({"keep_last"}, Nonzero(Required))
    @@ Attrs({"transfer_setting", "rate_limit"}, Nonzero(Kept))
    @@ Attrs({"absolute_paths"}, Replacing(Kept))
CloudBackupPayload ==
  Attrs({"path", "credentials", "keep_last", "attributes"}, "always")
    @@ Attrs(DOMAIN CloudBackupSchema \ {"id", "password_wo", "password_wo_version"},
    "known")
CloudBackupUpdatePayload == Without(CloudBackupPayload, {"absolute_paths"})
CloudBackupResponse ==
  Attrs({"password"}, "ifManaged") @@ Attrs({"cache_path", "rate_limit"}, "pointer")
    @@ Attrs(DOMAIN CloudBackupSchema \ {"attributes", "password_wo",
      "password_wo_version"}, "value")
CloudBackupSecrets == Attrs({"password_wo"}, "known")
CloudBackupDrift == Attrs({"attributes"}, "keepEquivalent")
CloudBackupCreate ==
  <<Create(CloudBackupPayload @@ CloudBackupSecrets), Fetch, Take(CloudBackupResponse),
    SetImported(FALSE), RecordManaged, Save>>
CloudBackupRead ==
  <<FetchOrForget, Take(CloudBackupResponse @@ CloudBackupDrift), Save>>
CloudBackupUpdate ==
  <<Update(CloudBackupUpdatePayload @@ IfChanged(CloudBackupSecrets)), Fetch,
    Take(CloudBackupResponse), SetImported(FALSE), Save>>
CloudBackup ==
  Resource(CloudBackupSchema, CloudBackupCreate, CloudBackupRead, CloudBackupUpdate,
    <<Delete>>,
    <<Fetch, Take(Attrs({"attributes", "password"}, "value") @@ CloudBackupResponse),
      SetImported(TRUE), Save>>)

-----------------------------------------------------------------------------
(* truenas_vmware.                                                         *)

VmwareSchema ==
  Attrs({"id"}, Computed)
    @@ Attrs({"datastore", "filesystem", "hostname", "username"}, Required)
    @@ Attrs({"password"}, RequiredSecret)
    @@ Attrs({"password_wo_version"}, Local(Optional)) @@ Attrs({"state"}, Volatile)
VmwarePayload ==
  Attrs({"datastore", "filesystem", "hostname", "username"}, "always")
VmwareResponse ==
  Attrs(DOMAIN VmwareSchema \ {"password", "password_wo_version"}, "value")
VmwareCreate ==
  <<Create(VmwarePayload @@ Attrs({"password"}, "known")), Take(VmwareResponse), Save>>
VmwareRead == <<FetchOrForget, Take(VmwareResponse), Save>>
Vmware ==
  Resource(VmwareSchema, VmwareCreate, VmwareRead,
    <<Update(VmwarePayload @@ IfChanged(Attrs({"password"}, "known"))), Fetch,
      Take(VmwareResponse), Save>>, <<Delete>>, <<Fetch, Take(VmwareResponse), Save>>)
=============================================================================
