--------------------------- MODULE CatalogStorage ---------------------------
(***************************************************************************)
(* The catalog entries of pools, datasets, zvols, snapshots and the        *)
(* permissions of the files on them: for every resource its schema, what   *)
(* its payloads send, how a response is taken into the model, and the      *)
(* steps of its handlers.                                                  *)
(***************************************************************************)
EXTENDS Steps

-----------------------------------------------------------------------------
(* truenas_pool.                                                           *)

PoolSchema ==
  Attrs({"id", "guid", "status", "healthy", "path", "size", "free", "allocated"},
    Computed) @@ Attrs({"name"}, Mod(Required, <<"refuse">>))
    @@ Attrs({"topology"}, Nonzero(Spelt(Required))) @@ Attrs({"autotrim"}, Kept)
    @@ Attrs({"deduplication", "checksum"},
    Excused({"AppliedAsPlanned"}, Nonzero(Kept)))
PoolResponse == Attrs(DOMAIN PoolSchema \ {"deduplication", "checksum"}, "value")
PoolPayload ==
  Attrs({"deduplication", "checksum"}, "known") @@ Attrs({"name", "topology"}, "always")
PoolModifyPlan == Attrs({"topology"}, <<"keepEquivalent", "refuse">>)
PoolRootProps == Attrs({"deduplication", "checksum"}, "ifRead")
PoolPlannedTopology == Attrs({"topology"}, "none")
PoolCreate ==
  <<Create(PoolPayload), Update(Attrs({"autotrim"}, "known")), Fetch,
    Take(PoolPlannedTopology @@ PoolRootProps @@ PoolResponse), Save>>
PoolRead == <<FetchOrForget, Take(PoolRootProps @@ PoolResponse), Save>>
Pool ==
  Resource(Amend(PoolSchema, PoolModifyPlan), PoolCreate, PoolRead,
    <<Update(Attrs({"autotrim"}, "always")),
      Update(Attrs({"deduplication", "checksum"}, "known")), Save>>, <<Delete>>,
    <<Fetch, Take(PoolRootProps @@ PoolResponse), Save>>)

-----------------------------------------------------------------------------
(* truenas_dataset: encryption_algorithm follows the case where the        *)
(* release lets it be chosen.                                              *)

DatasetSchema ==
  Attrs({"id", "xattr", "mountpoint", "encrypted", "key_format", "locked", "pool"},
    Computed) @@ Attrs({"name"}, Replacing(Required))
    @@ Attrs({"type"}, Spelt(Mod(Kept, <<"replaceFromKnownFold">>)))
    @@ Attrs({"compression"}, Nonzero(Spelt(Kept)))
    @@ Attrs({"acltype"}, Nonzero(Spelt(Mod(Kept, <<"replaceFromKnownFold">>))))
    @@ Attrs({"share_type"},
    Once(Nonzero(Spelt(Mod(Optional, <<"replaceFromKnownFold">>)))))
    @@ Attrs({"comments", "quota", "refquota", "reservation",
      "special_small_block_size"}, Kept)
    @@ Attrs({"volsize", "aclmode", "atime", "exec", "readonly", "sync", "checksum",
      "snapdir", "dedup", "copies"}, Nonzero(Kept))
    @@ Attrs({"recordsize"}, Nonzero(Custom(Mod(Unkept, <<"keepEquivalent", "keep">>))))
    @@ Attrs({"refreservation"}, Mod(Unkept, <<"keepUnlessFollowed">>))
    @@ Attrs({"encryption"}, Replacing(Kept))
    @@ Attrs({"inherit_encryption"}, Mod(Kept, <<"replaceFromKnown">>))
    @@ Attrs({"encryption_algorithm"}, Nonzero(Replacing(Kept)))
    @@ Attrs({"encryption_generate_key"}, Once(Mod(Optional, <<"replaceFromKnown">>)))
    @@ Attrs({"encryption_passphrase", "encryption_key"}, Once(Unseen))
    @@ Attrs({"force_destroy"}, Local(Default(Unkept, "zero")))
DatasetPayload ==
  Attrs({"volsize", "encryption_algorithm"}, "nonzero") @@ Attrs({"name"}, "always")
    @@ Attrs({"comments", "quota", "refquota", "reservation", "encryption",
      "inherit_encryption", "type", "compression", "acltype", "share_type", "aclmode",
      "atime", "exec", "readonly", "sync", "checksum", "snapdir", "dedup", "recordsize",
      "copies", "special_small_block_size", "refreservation",
      "encryption_generate_key"}, "known")
DatasetResponse ==
  Attrs({"type", "compression", "acltype"}, "keepEquivalent")
    @@ Attrs({"encryption_algorithm", "key_format"}, "nullIfZero")
    @@ Attrs({"aclmode", "atime", "exec", "readonly", "sync", "checksum", "snapdir",
      "dedup", "recordsize", "copies", "special_small_block_size", "refreservation",
      "xattr"}, "pointer")
    @@ Attrs({"id", "name", "mountpoint", "encrypted", "encryption", "locked", "pool",
      "volsize", "inherit_encryption", "comments", "quota", "refquota", "reservation"},
    "value")
DatasetCreatePayload == Attrs({"aclmode"}, "knownOrImplied") @@ DatasetPayload
DatasetUpdatableFields ==
  Without(DatasetPayload,
    {"name", "type", "encryption", "inherit_encryption", "encryption_algorithm",
      "encryption_generate_key", "share_type", "acltype"})
DatasetUpdatePayload ==
  Attrs({"refreservation"}, "changedOrFollowed") @@ IfChanged(DatasetUpdatableFields)
DatasetSecrets == Attrs({"encryption_passphrase", "encryption_key"}, "nonzero")
DatasetForceDestroyOrFalse == Attrs({"force_destroy"}, "orZero")
DatasetCreate ==
  <<Create(DatasetCreatePayload @@ DatasetSecrets), Fetch,
    Update(Attrs({"refreservation"}, "known")), Fetch, Take(DatasetResponse), Save>>
DatasetRead ==
  <<FetchOrForget, Take(DatasetResponse @@ DatasetForceDestroyOrFalse), Save>>
Dataset ==
  Resource(DatasetSchema, DatasetCreate, DatasetRead,
    <<Update(DatasetUpdatePayload), Fetch, Take(DatasetResponse), Save>>,
    <<Check, Check, Delete>>,
    <<Fetch, Take(Attrs({"force_destroy"}, "zero") @@ DatasetResponse), Save>>)

-----------------------------------------------------------------------------
(* truenas_zvol.                                                           *)

ZvolSchema ==
  Attrs({"id", "pool", "encrypted", "key_format", "locked"}, Computed)
    @@ Attrs({"name"}, Replacing(Required)) @@ Attrs({"volsize"}, Nonzero(Required))
    @@ Attrs({"volblocksize", "encryption_algorithm"}, Nonzero(Replacing(Kept)))
    @@ Attrs({"compression"}, Nonzero(Spelt(Kept)))
    @@ Attrs({"sync", "dedup", "checksum", "readonly", "snapdev", "copies"},
    Nonzero(Kept)) @@ Attrs({"sparse"}, Once(Kept))
    @@ Attrs({"comments", "reservation"}, Kept)
    @@ Attrs({"refreservation"}, Mod(Kept, <<"unknownIfFollowed">>))
    @@ Attrs({"encryption"}, Replacing(Kept))
    @@ Attrs({"inherit_encryption"}, Mod(Kept, <<"replaceFromKnown">>))
    @@ Attrs({"encryption_generate_key"}, Once(Mod(Optional, <<"replaceFromKnown">>)))
    @@ Attrs({"encryption_passphrase", "encryption_key"}, Once(Unseen))
    @@ Attrs({"force_destroy"}, Local(Default(Unkept, "zero")))
ZvolPayload ==
  Attrs({"name", "volsize"}, "always")
    @@ Attrs({"volblocksize", "encryption_algorithm"}, "nonzero")
    @@ Attrs({"sparse", "comments", "encryption", "inherit_encryption", "compression",
      "sync", "dedup", "checksum", "readonly", "snapdev", "copies", "reservation",
      "refreservation", "encryption_generate_key"}, "known")
ZvolResponse ==
  Attrs({"encryption_algorithm", "key_format"}, "nullIfZero")
    @@ Attrs({"compression"}, "keepEquivalent")
    @@ Attrs({"copies", "reservation", "refreservation"}, "pointer")
    @@ Attrs(DOMAIN ZvolSchema \ {"sparse", "encryption_generate_key",
      "encryption_passphrase", "encryption_key", "force_destroy"}, "value")
ZvolModifyPlan == Attrs({"sparse"}, <<"refuse">>)
ZvolCreatePayload == Attrs({"inherit_encryption"}, "knownOrImplied") @@ ZvolPayload
ZvolUpdatableFields ==
  Without(ZvolPayload,
    {"name", "volblocksize", "sparse", "encryption", "inherit_encryption",
      "encryption_algorithm", "encryption_generate_key"})
ZvolUpdatePayload ==
  Attrs({"refreservation"}, "changedOrFollowed") @@ IfChanged(ZvolUpdatableFields)
ZvolSecrets == Attrs({"encryption_passphrase", "encryption_key"}, "nonzero")
ZvolSparse == Attrs({"sparse"}, "ifUnset")
ZvolCreate ==
  <<Create(ZvolCreatePayload @@ ZvolSecrets), Fetch,
    Update(Attrs({"refreservation"}, "known")), Fetch, Take(ZvolSparse @@ ZvolResponse),
    Save>>
ZvolRead ==
  <<FetchOrForget,
    Take(Attrs({"force_destroy"}, "orZero") @@ ZvolSparse @@ ZvolResponse), Save>>
Zvol ==
  Resource(Amend(ZvolSchema, ZvolModifyPlan), ZvolCreate, ZvolRead,
    <<Update(ZvolUpdatePayload), Fetch, Take(ZvolResponse), Save>>,
    <<Check, Check, Delete>>,
    <<Fetch, Take(Attrs({"force_destroy"}, "zero") @@ Attrs({"sparse"}, "value")
      @@ ZvolResponse), Save>>)

-----------------------------------------------------------------------------
(* truenas_snapshot.                                                       *)

SnapshotSchema ==
  Attrs({"id", "pool", "createtxg"}, Computed)
    @@ Attrs({"dataset", "name"}, Replacing(Required))
    @@ Attrs({"recursive"}, Once(Mod(Optional, <<"replaceFromKnown">>)))
SnapshotResponse == Attrs({"id", "dataset", "name", "pool", "createtxg"}, "value")
SnapshotCreate ==
  <<Create(Attrs({"dataset", "name", "recursive"}, "always")), Fetch,
    Take(SnapshotResponse), Save>>
SnapshotRead == <<FetchOrForget, Take(SnapshotResponse), Save>>
Snapshot ==
  Resource(SnapshotSchema, SnapshotCreate, SnapshotRead, <<Save>>, <<Delete>>,
    <<Fetch, Take(SnapshotResponse), Save>>)

-----------------------------------------------------------------------------
(* truenas_periodic_snapshot.                                              *)

PeriodicSnapshotSchema ==
  Attrs({"id"}, Computed)
    @@ Attrs({"dataset", "lifetime_value", "naming_schema", "schedule"}, Required)
    @@ Attrs({"recursive", "exclude", "allow_empty", "enabled"}, Kept)
    @@ Attrs({"lifetime_unit"}, Nonzero(Required))
PeriodicSnapshotPayload ==
  Attrs({"exclude", "recursive", "allow_empty", "enabled"}, "known")
    @@ Attrs({"dataset", "lifetime_value", "lifetime_unit", "naming_schema",
      "schedule"}, "always")
PeriodicSnapshotResponse == Attrs(DOMAIN PeriodicSnapshotSchema, "value")
PeriodicSnapshotCreate ==
  <<Create(PeriodicSnapshotPayload), Fetch, Take(PeriodicSnapshotResponse), Save>>
PeriodicSnapshotRead == <<FetchOrForget, Take(PeriodicSnapshotResponse), Save>>
PeriodicSnapshot ==
  Resource(PeriodicSnapshotSchema, PeriodicSnapshotCreate, PeriodicSnapshotRead,
    <<Update(PeriodicSnapshotPayload), Fetch, Take(PeriodicSnapshotResponse), Save>>,
    <<Delete>>, <<Fetch, Take(PeriodicSnapshotResponse), Save>>)

-----------------------------------------------------------------------------
(* truenas_scrub_task.                                                     *)

ScrubTaskSchema ==
  Attrs({"id", "pool_name"}, Computed) @@ Attrs({"pool"}, Replacing(Required))
    @@ Attrs({"threshold", "description", "schedule", "enabled"}, Kept)
ScrubTaskResponse == Attrs(DOMAIN ScrubTaskSchema, "value")
ScrubTaskPayload ==
  Attrs({"pool"}, "always")
    @@ Attrs({"threshold", "description", "enabled", "schedule"}, "known")
ScrubTaskCreate == <<Create(ScrubTaskPayload), Take(ScrubTaskResponse), Save>>
ScrubTaskRead == <<FetchOrForget, Take(ScrubTaskResponse), Save>>
ScrubTask ==
  Resource(ScrubTaskSchema, ScrubTaskCreate, ScrubTaskRead,
    <<Update(ScrubTaskPayload), Take(ScrubTaskResponse), Save>>, <<Delete>>,
    <<Fetch, Take(ScrubTaskResponse), Save>>)

-----------------------------------------------------------------------------
(* truenas_resilver_config.                                                *)

ResilverConfigSchema ==
  Attrs({"id"}, Computed)
    @@ Attrs({"begin", "end"}, Custom(Mod(Unkept, <<"keepEquivalent", "keep">>)))
    @@ Attrs({"enabled", "weekday"}, Kept)
ResilverConfigResponse ==
  Attrs({"id"}, "fixed") @@ Attrs({"begin", "end", "enabled", "weekday"}, "value")
ResilverConfigUpdatePayload ==
  Attrs({"begin", "end", "enabled", "weekday"}, "known")
ResilverConfigCreate ==
  <<Update(ResilverConfigUpdatePayload), Fetch, Take(ResilverConfigResponse), Save>>
ResilverConfigRead == <<Fetch, Take(ResilverConfigResponse), Save>>
ResilverConfig ==
  Resource(ResilverConfigSchema, ResilverConfigCreate, ResilverConfigRead,
    <<Update(ResilverConfigUpdatePayload), Fetch, Take(ResilverConfigResponse), Save>>,
    <<LeaveInPlace>>, <<SaveId>>)

-----------------------------------------------------------------------------
(* truenas_filesystem_acl.                                                 *)

FilesystemAclSchema ==
  Attrs({"id", "acltype"}, Computed) @@ Attrs({"path"}, Replacing(Required))
    @@ Attrs({"entries"}, Spelt(Required)) @@ Attrs({"uid", "gid"}, Kept)
    @@ Attrs({"recursive", "traverse"}, Local(Unseen))
FilesystemAclSetaclPayload ==
  Attrs({"uid", "gid"}, "known")
    @@ Attrs({"path", "entries", "recursive", "traverse"}, "always")
FilesystemAclDeleteACLPayload == Attrs({"entries"}, "original")
FilesystemAclResponse == Attrs({"id", "path", "acltype", "uid", "gid"}, "value")
FilesystemAclModifyPlan == Attrs({"entries"}, <<"keepEquivalent">>)
FilesystemAclDrift == Attrs({"entries"}, "keepEquivalent")
FilesystemAclCreate ==
  <<Update(FilesystemAclSetaclPayload), Take(FilesystemAclResponse), Save>>
FilesystemAclRead ==
  <<FetchOrForget, Take(FilesystemAclResponse @@ FilesystemAclDrift), Save>>
FilesystemAclUpdate ==
  <<Update(Attrs({"entries", "uid", "gid"}, "unlessAllSame")
      @@ FilesystemAclSetaclPayload), Fetch, Take(FilesystemAclResponse), Save>>
FilesystemAcl ==
  Resource(Amend(FilesystemAclSchema, FilesystemAclModifyPlan), FilesystemAclCreate,
    FilesystemAclRead, FilesystemAclUpdate,
    <<Undo(FilesystemAclDeleteACLPayload), LeaveInPlace>>,
    <<Fetch, Take(Attrs({"entries"}, "value") @@ FilesystemAclResponse), Save>>)

-----------------------------------------------------------------------------
(* truenas_filesystem_permissions.                                         *)

FilesystemPermissionsSchema ==
  Attrs({"id"}, Computed) @@ Attrs({"path"}, Replacing(Required))
    @@ Attrs({"mode"}, Nonzero(Custom(Mod(Unkept, <<"keepEquivalent", "keep">>))))
    @@ Attrs({"uid", "gid"}, Kept) @@ Attrs({"recursive", "traverse"}, Local(Unseen))
FilesystemPermissionsSetpermPayload ==
  Attrs({"mode", "uid", "gid"}, "known")
    @@ Attrs({"path", "recursive", "traverse"}, "always")
FilesystemPermissionsResponse ==
  Attrs({"uid", "gid", "id", "path", "mode"}, "value")
FilesystemPermissionsCreate ==
  <<Update(FilesystemPermissionsSetpermPayload), Fetch,
    Take(FilesystemPermissionsResponse), Save>>
FilesystemPermissionsRead ==
  <<FetchOrForget, Take(FilesystemPermissionsResponse), Save>>
FilesystemPermissions ==
  Resource(FilesystemPermissionsSchema, FilesystemPermissionsCreate,
    FilesystemPermissionsRead,
    <<Update(FilesystemPermissionsSetpermPayload), Fetch,
      Take(FilesystemPermissionsResponse), Save>>, <<LeaveInPlace>>,
    <<Fetch, Take(FilesystemPermissionsResponse), Save>>)

-----------------------------------------------------------------------------
(* truenas_acl_template.                                                   *)

AclTemplateSchema ==
  Attrs({"id", "builtin"}, Computed) @@ Attrs({"name"}, Required)
    @@ Attrs({"acltype"}, Nonzero(Required)) @@ Attrs({"acl"}, Spelt(Required))
    @@ Attrs({"comment"}, Kept)
AclTemplatePayload ==
  Attrs({"comment"}, "known") @@ Attrs({"name", "acltype", "acl"}, "always")
AclTemplateResponse ==
  Attrs({"id", "name", "acltype", "comment", "builtin"}, "value")
AclTemplateModifyPlan == Attrs({"acl"}, <<"keepEquivalent">>)
AclTemplateDrift == Attrs({"acl"}, "keepEquivalent")
AclTemplateCreate ==
  <<Create(AclTemplatePayload), Take(AclTemplateResponse), Save>>
AclTemplateRead ==
  <<FetchOrForget, Take(AclTemplateDrift @@ AclTemplateResponse), Save>>
AclTemplate ==
  Resource(Amend(AclTemplateSchema, AclTemplateModifyPlan), AclTemplateCreate,
    AclTemplateRead, <<Update(AclTemplatePayload), Take(AclTemplateResponse), Save>>,
    <<Delete>>, <<Fetch, Take(Attrs({"acl"}, "value") @@ AclTemplateResponse), Save>>)
=============================================================================
