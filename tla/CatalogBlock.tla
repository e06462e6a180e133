---------------------------- MODULE CatalogBlock ----------------------------
(***************************************************************************)
(* The catalog entries of block targets, iSCSI and NVMe-oF: for every      *)
(* resource its schema, what its payloads send, how a response is taken    *)
(* into the model, and the steps of its handlers.                          *)
(***************************************************************************)
EXTENDS Steps

-----------------------------------------------------------------------------
(* truenas_iscsi_auth.                                                     *)

IscsiAuthSchema ==
  Attrs({"id"}, Computed) @@ Attrs({"tag", "user"}, Required)
    @@ Attrs({"secret"}, RequiredSecret)
    @@ Attrs({"peeruser"}, Mod(Unkept, <<"resetWhenUnset">>))
    @@ Attrs({"peersecret"}, Secret)
    @@ Attrs({"secret_wo_version", "peersecret_wo_version"}, Local(Optional))
    @@ Attrs({"discovery_auth"}, Nonzero(Kept))
IscsiAuthResponse ==
  Attrs({"id", "tag", "user", "peeruser", "discovery_auth"}, "value")
IscsiAuthPayload ==
  Attrs({"peeruser", "discovery_auth"}, "known") @@ Attrs({"tag", "user"}, "always")
IscsiAuthSecrets == Attrs({"peersecret"}, "nonzero") @@ Attrs({"secret"}, "known")
IscsiAuthCreate ==
  <<Create(IscsiAuthPayload @@ IscsiAuthSecrets), Fetch, Take(IscsiAuthResponse),
    RecordManaged, Save>>
IscsiAuthRead == <<FetchOrForget, Take(IscsiAuthResponse), Save>>
IscsiAuthUpdate ==
  <<Update(Attrs({"discovery_auth"}, "interim") @@ IscsiAuthPayload
      @@ IfChanged(IscsiAuthSecrets)), Update(Attrs({"discovery_auth"}, "known")),
    Fetch, Take(IscsiAuthResponse), Save>>
IscsiAuth ==
  Resource(IscsiAuthSchema, IscsiAuthCreate, IscsiAuthRead, IscsiAuthUpdate, <<Delete>>,
    <<Fetch, Take(IscsiAuthResponse), Save>>)

-----------------------------------------------------------------------------
(* truenas_iscsi_extent: disk as on a DISK extent, path as on a FILE       *)
(* extent.                                                                 *)

IscsiExtentSchema ==
  Attrs({"id", "naa", "serial", "product_id", "vendor", "locked"}, Computed)
    @@ Attrs({"name"}, Required) @@ Attrs({"type"}, Nonzero(Required))
    @@ Attrs({"disk", "path"}, Initially("zero", Mod(Unkept, <<"keepUnlessFollowed">>)))
    @@ Attrs({"filesize", "rpm"}, Nonzero(Kept))
    @@ Attrs({"comment", "blocksize", "pblocksize", "avail_threshold", "insecure_tpc",
      "xen", "ro", "enabled"}, Kept)
IscsiExtentResponse == Attrs(DOMAIN IscsiExtentSchema, "value")
IscsiExtentPayload ==
  Attrs({"name", "type", "disk", "path"}, "always")
    @@ Attrs({"avail_threshold"}, "knownNilZero") @@ Attrs({"filesize"}, "nonzero")
    @@ Attrs({"comment", "blocksize", "pblocksize", "insecure_tpc", "xen", "ro", "rpm",
      "enabled"}, "known")
IscsiExtentCreate ==
  <<Create(IscsiExtentPayload), Fetch, Take(IscsiExtentResponse), Save>>
IscsiExtentRead == <<FetchOrForget, Take(IscsiExtentResponse), Save>>
IscsiExtentUpdate ==
  <<Update(IscsiExtentPayload), Fetch, Take(IscsiExtentResponse), Save>>
IscsiExtentDelete == <<Delete>>
IscsiExtentImport == <<Fetch, Take(IscsiExtentResponse), Save>>
IscsiExtent ==
  Resource(IscsiExtentSchema, IscsiExtentCreate, IscsiExtentRead, IscsiExtentUpdate,
    IscsiExtentDelete, IscsiExtentImport)

-----------------------------------------------------------------------------
(* truenas_iscsi_global.                                                   *)

IscsiGlobalSchema ==
  Attrs({"id"}, Computed)
    @@ Attrs({"basename", "listen_port", "alua", "iser", "isns_servers",
      "pool_avail_threshold"}, Kept)
IscsiGlobalResponse ==
  Attrs({"id"}, "fixed") @@ Attrs(DOMAIN IscsiGlobalSchema, "value")
IscsiGlobalUpdatePayload ==
  Attrs({"pool_avail_threshold"}, "knownNilZero")
    @@ Attrs({"basename", "listen_port", "alua", "iser", "isns_servers"}, "known")
IscsiGlobalCreate ==
  <<Update(IscsiGlobalUpdatePayload), Fetch, Take(IscsiGlobalResponse), Save>>
IscsiGlobalRead == <<Fetch, Take(IscsiGlobalResponse), Save>>
IscsiGlobal ==
  Resource(IscsiGlobalSchema, IscsiGlobalCreate, IscsiGlobalRead,
    <<Update(IscsiGlobalUpdatePayload), Fetch, Take(IscsiGlobalResponse), Save>>,
    <<LeaveInPlace>>, <<SaveId>>)

-----------------------------------------------------------------------------
(* truenas_iscsi_initiator.                                                *)

IscsiInitiatorSchema ==
  Attrs({"id"}, Computed) @@ Attrs({"comment", "initiators"}, Kept)
IscsiInitiatorResponse == Attrs({"id", "comment", "initiators"}, "value")
IscsiInitiatorPayload == Attrs({"comment", "initiators"}, "unlessUnknown")
IscsiInitiatorCreate ==
  <<Create(IscsiInitiatorPayload), Fetch, Take(IscsiInitiatorResponse), Save>>
IscsiInitiatorRead == <<FetchOrForget, Take(IscsiInitiatorResponse), Save>>
IscsiInitiator ==
  Resource(IscsiInitiatorSchema, IscsiInitiatorCreate, IscsiInitiatorRead,
    <<Update(IscsiInitiatorPayload), Fetch, Take(IscsiInitiatorResponse), Save>>,
    <<Delete>>, <<Fetch, Take(IscsiInitiatorResponse), Save>>)

-----------------------------------------------------------------------------
(* truenas_iscsi_portal.                                                   *)

IscsiPortalSchema ==
  Attrs({"id", "tag"}, Computed) @@ Attrs({"comment"}, Kept)
    @@ Attrs({"listen"}, Spelt(Required))
IscsiPortalResponse ==
  Attrs({"listen"}, "keepEquivalent") @@ Attrs({"id", "comment", "tag"}, "value")
IscsiPortalPayload == Attrs({"listen"}, "always") @@ Attrs({"comment"}, "known")
IscsiPortalCreate ==
  <<Create(IscsiPortalPayload), Fetch, Take(IscsiPortalResponse), Save>>
IscsiPortalRead == <<FetchOrForget, Take(IscsiPortalResponse), Save>>
IscsiPortal ==
  Resource(IscsiPortalSchema, IscsiPortalCreate, IscsiPortalRead,
    <<Update(IscsiPortalPayload), Fetch, Take(IscsiPortalResponse), Save>>, <<Delete>>,
    <<Fetch, Take(IscsiPortalResponse), Save>>)

-----------------------------------------------------------------------------
(* truenas_iscsi_target.                                                   *)

IscsiTargetSchema ==
  Attrs({"id", "rel_tgt_id"}, Computed) @@ Attrs({"name"}, Required)
    @@ Attrs({"alias", "iscsi_parameters"}, Kept) @@ Attrs({"mode"}, Nonzero(Kept))
    @@ Attrs({"groups", "auth_networks"}, Initially("zero", Kept))
IscsiTargetResponse ==
  Attrs({"iscsi_parameters"}, "pointer") @@ Attrs(DOMAIN IscsiTargetSchema, "value")
IscsiTargetPayload ==
  Attrs({"mode"}, "nonzero") @@ Attrs({"alias"}, "knownNilZero")
    @@ Attrs({"iscsi_parameters"}, "known")
    @@ Attrs({"name", "groups", "auth_networks"}, "always")
IscsiTargetCreate ==
  <<Create(IscsiTargetPayload), Fetch, Take(IscsiTargetResponse), Save>>
IscsiTargetRead == <<FetchOrForget, Take(IscsiTargetResponse), Save>>
IscsiTarget ==
  Resource(IscsiTargetSchema, IscsiTargetCreate, IscsiTargetRead,
    <<Update(IscsiTargetPayload), Fetch, Take(IscsiTargetResponse), Save>>, <<Delete>>,
    <<Fetch, Take(IscsiTargetResponse), Save>>)

-----------------------------------------------------------------------------
(* truenas_iscsi_targetextent.                                             *)

IscsiTargetextentSchema ==
  Attrs({"id"}, Computed) @@ Attrs({"target", "extent"}, Replacing(Required))
    @@ Attrs({"lunid"}, Kept)
IscsiTargetextentResponse == Attrs({"id", "target", "extent", "lunid"}, "value")
IscsiTargetextentPayload ==
  Attrs({"lunid"}, "known") @@ Attrs({"target", "extent"}, "always")
IscsiTargetextentCreate ==
  <<Create(IscsiTargetextentPayload), Fetch, Take(IscsiTargetextentResponse), Save>>
IscsiTargetextentRead == <<FetchOrForget, Take(IscsiTargetextentResponse), Save>>
IscsiTargetextent ==
  Resource(IscsiTargetextentSchema, IscsiTargetextentCreate, IscsiTargetextentRead,
    <<Update(IscsiTargetextentPayload), Fetch, Take(IscsiTargetextentResponse), Save>>,
    <<Delete>>, <<Fetch, Take(IscsiTargetextentResponse), Save>>)

-----------------------------------------------------------------------------
(* truenas_nvmet_global.                                                   *)

NvmetGlobalSchema ==
  Attrs({"id"}, Computed)
    @@ Attrs({"basenqn", "ana", "kernel", "rdma", "xport_referral"}, Kept)
NvmetGlobalResponse ==
  Attrs({"id"}, "fixed")
    @@ Attrs({"basenqn", "ana", "kernel", "rdma", "xport_referral"}, "value")
NvmetGlobalUpdatePayload ==
  Attrs({"basenqn", "ana", "kernel", "rdma", "xport_referral"}, "known")
NvmetGlobalCreate ==
  <<Update(NvmetGlobalUpdatePayload), Fetch, Take(NvmetGlobalResponse), Save>>
NvmetGlobalRead == <<Fetch, Take(NvmetGlobalResponse), Save>>
NvmetGlobal ==
  Resource(NvmetGlobalSchema, NvmetGlobalCreate, NvmetGlobalRead,
    <<Update(NvmetGlobalUpdatePayload), Fetch, Take(NvmetGlobalResponse), Save>>,
    <<LeaveInPlace>>, <<SaveId>>)

-----------------------------------------------------------------------------
(* truenas_nvmet_host: the plan of dhchap_key_set says whether a key is    *)
(* configured; it is followed as unknown.                                  *)

NvmetHostSchema ==
  Attrs({"id"}, Computed) @@ Attrs({"hostnqn"}, Required)
    @@ Attrs({"description", "dhchap_dhgroup"}, Kept)
    @@ Attrs({"dhchap_key", "dhchap_ctrl_key"}, Secret)
    @@ Attrs({"dhchap_key_wo_version", "dhchap_ctrl_key_wo_version"}, Local(Optional))
    @@ Attrs({"dhchap_key_set", "dhchap_ctrl_key_set"}, Volatile)
    @@ Attrs({"dhchap_hash"}, Nonzero(Kept))
NvmetHostResponse ==
  Attrs({"id", "hostnqn", "description", "dhchap_hash", "dhchap_dhgroup",
      "dhchap_key_set", "dhchap_ctrl_key_set"}, "value")
NvmetHostGuardedFields ==
  Attrs({"dhchap_dhgroup"}, "knownNilZero")
    @@ Attrs({"description", "dhchap_hash"}, "known")
NvmetHostCreatePayload ==
  Attrs({"hostnqn"}, "always") @@ Attrs({"dhchap_key", "dhchap_ctrl_key"}, "nonzero")
    @@ NvmetHostGuardedFields
NvmetHostUpdatePayload == Attrs({"hostnqn"}, "always") @@ NvmetHostGuardedFields
NvmetHostSecrets == Attrs({"dhchap_key", "dhchap_ctrl_key"}, "nilZero")
NvmetHostModifyPlan ==
  Attrs({"dhchap_key_set", "dhchap_ctrl_key_set"}, <<"unknownIfFollowed">>)
NvmetHostCreate ==
  <<Check, Create(NvmetHostCreatePayload), Fetch, Take(NvmetHostResponse), Save>>
NvmetHostRead == <<FetchOrForget, Take(NvmetHostResponse), Save>>
NvmetHost ==
  Resource(Amend(NvmetHostSchema, NvmetHostModifyPlan), NvmetHostCreate, NvmetHostRead,
    <<Check, Update(NvmetHostUpdatePayload @@ IfChanged(NvmetHostSecrets)), Fetch,
      Take(NvmetHostResponse), Save>>, <<Delete>>,
    <<Fetch, Take(NvmetHostResponse), Save>>)

-----------------------------------------------------------------------------
(* truenas_nvmet_host_subsys.                                              *)

NvmetHostSubsysSchema ==
  Attrs({"id"}, Computed) @@ Attrs({"host_id", "subsys_id"}, Replacing(Required))
NvmetHostSubsysResponse == Attrs({"id", "host_id", "subsys_id"}, "value")
NvmetHostSubsysPayload == Attrs({"host_id", "subsys_id"}, "always")
NvmetHostSubsysCreate ==
  <<Create(NvmetHostSubsysPayload), Fetch, Take(NvmetHostSubsysResponse), Save>>
NvmetHostSubsysRead == <<FetchOrForget, Take(NvmetHostSubsysResponse), Save>>
NvmetHostSubsys ==
  Resource(NvmetHostSubsysSchema, NvmetHostSubsysCreate, NvmetHostSubsysRead,
    <<Fetch, Take(NvmetHostSubsysResponse), Save>>, <<Delete>>,
    <<Fetch, Take(NvmetHostSubsysResponse), Save>>)

-----------------------------------------------------------------------------
(* truenas_nvmet_namespace.                                                *)

NvmetNamespaceSchema ==
  Attrs({"id", "device_nguid", "device_uuid"}, Computed)
    @@ Attrs({"subsys_id"}, Replacing(Required)) @@ Attrs({"device_path"}, Required)
    @@ Attrs({"device_type"}, Nonzero(Mod(Unkept, <<"keepUnlessFollowed">>)))
    @@ Attrs({"enabled", "filesize"}, Kept) @@ Attrs({"nsid"}, Replacing(Kept))
    @@ Attrs({"locked"}, Volatile)
NvmetNamespaceResponse ==
  Attrs({"filesize"}, "pointer") @@ Attrs(DOMAIN NvmetNamespaceSchema, "value")
NvmetNamespaceGuardedFields ==
  Attrs({"device_type"}, "knownOrImplied") @@ Attrs({"enabled", "filesize"}, "known")
NvmetNamespaceCreatePayload ==
  Attrs({"subsys_id", "device_path"}, "always") @@ Attrs({"nsid"}, "known")
    @@ NvmetNamespaceGuardedFields
NvmetNamespaceUpdatePayload ==
  Attrs({"device_path"}, "known") @@ NvmetNamespaceGuardedFields
NvmetNamespaceDisable == Attrs({"enabled"}, "interimZero")
NvmetNamespaceCreate ==
  <<Create(NvmetNamespaceCreatePayload), Fetch, Take(NvmetNamespaceResponse), Save>>
NvmetNamespaceRead == <<FetchOrForget, Take(NvmetNamespaceResponse), Save>>
NvmetNamespaceUpdate ==
  <<Update(NvmetNamespaceDisable), Restoring(Update(NvmetNamespaceUpdatePayload)),
    Fetch, Take(NvmetNamespaceResponse), Save>>
NvmetNamespace ==
  Resource(NvmetNamespaceSchema, NvmetNamespaceCreate, NvmetNamespaceRead,
    NvmetNamespaceUpdate, <<Delete>>, <<Fetch, Take(NvmetNamespaceResponse), Save>>)

-----------------------------------------------------------------------------
(* truenas_nvmet_port.                                                     *)

NvmetPortSchema ==
  Attrs({"id", "index"}, Computed)
    @@ Attrs({"addr_trtype"}, Nonzero(Replacing(Required)))
    @@ Attrs({"addr_traddr"}, Required)
    @@ Attrs({"addr_trsvcid", "enabled", "inline_data_size", "max_queue_size",
      "pi_enable"}, Kept) @@ Attrs({"addr_adrfam"}, Volatile)
NvmetPortResponse ==
  Attrs({"inline_data_size", "max_queue_size", "pi_enable"}, "pointer")
    @@ Attrs(DOMAIN NvmetPortSchema, "value")
NvmetPortGuardedFields ==
  Attrs({"addr_trsvcid", "enabled", "inline_data_size", "max_queue_size", "pi_enable"},
    "known")
NvmetPortCreatePayload ==
  Attrs({"addr_trtype", "addr_traddr"}, "always") @@ NvmetPortGuardedFields
NvmetPortUpdatePayload ==
  Attrs({"addr_traddr"}, "always") @@ NvmetPortGuardedFields
NvmetPortCreate ==
  <<Create(NvmetPortCreatePayload), Fetch, Take(NvmetPortResponse), Save>>
NvmetPortRead == <<FetchOrForget, Take(NvmetPortResponse), Save>>
NvmetPortUpdate ==
  <<Update(Attrs({"enabled"}, "interimZero")),
    Restoring(Update(NvmetPortUpdatePayload)), Fetch, Take(NvmetPortResponse), Save>>
NvmetPort ==
  Resource(NvmetPortSchema, NvmetPortCreate, NvmetPortRead, NvmetPortUpdate, <<Delete>>,
    <<Fetch, Take(NvmetPortResponse), Save>>)

-----------------------------------------------------------------------------
(* truenas_nvmet_port_subsys.                                              *)

NvmetPortSubsysSchema ==
  Attrs({"id"}, Computed) @@ Attrs({"port_id", "subsys_id"}, Replacing(Required))
NvmetPortSubsysResponse == Attrs({"id", "port_id", "subsys_id"}, "value")
NvmetPortSubsysPayload == Attrs({"port_id", "subsys_id"}, "always")
NvmetPortSubsysCreate ==
  <<Create(NvmetPortSubsysPayload), Fetch, Take(NvmetPortSubsysResponse), Save>>
NvmetPortSubsysRead == <<FetchOrForget, Take(NvmetPortSubsysResponse), Save>>
NvmetPortSubsys ==
  Resource(NvmetPortSubsysSchema, NvmetPortSubsysCreate, NvmetPortSubsysRead,
    <<Fetch, Take(NvmetPortSubsysResponse), Save>>, <<Delete>>,
    <<Fetch, Take(NvmetPortSubsysResponse), Save>>)

-----------------------------------------------------------------------------
(* truenas_nvmet_subsys.                                                   *)

NvmetSubsysSchema ==
  Attrs({"id", "serial"}, Computed) @@ Attrs({"name"}, Required)
    @@ Attrs({"subnqn", "ieee_oui"}, Nonzero(Kept))
    @@ Attrs({"allow_any_host", "ana", "pi_enable", "qid_max"}, Kept)
NvmetSubsysResponse ==
  Attrs({"ana", "pi_enable", "qid_max"}, "pointer")
    @@ Attrs(DOMAIN NvmetSubsysSchema, "value")
NvmetSubsysGuardedFields ==
  Attrs({"ieee_oui"}, "knownNilZero")
    @@ Attrs({"subnqn", "allow_any_host", "ana", "pi_enable", "qid_max"}, "known")
NvmetSubsysCreatePayload == Attrs({"name"}, "always") @@ NvmetSubsysGuardedFields
NvmetSubsysUpdatePayload == Attrs({"name"}, "always") @@ NvmetSubsysGuardedFields
NvmetSubsysCreate ==
  <<Create(NvmetSubsysCreatePayload), Fetch, Take(NvmetSubsysResponse), Save>>
NvmetSubsysRead == <<FetchOrForget, Take(NvmetSubsysResponse), Save>>
NvmetSubsys ==
  Resource(NvmetSubsysSchema, NvmetSubsysCreate, NvmetSubsysRead,
    <<Update(NvmetSubsysUpdatePayload), Fetch, Take(NvmetSubsysResponse), Save>>,
    <<Delete>>, <<Fetch, Take(NvmetSubsysResponse), Save>>)
=============================================================================
