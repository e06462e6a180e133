--------------------------- MODULE CatalogSharing ---------------------------
(***************************************************************************)
(* The catalog entries of file shares and their services: for every        *)
(* resource its schema, what its payloads send, how a response is taken    *)
(* into the model, and the steps of its handlers.                          *)
(***************************************************************************)
EXTENDS Steps

-----------------------------------------------------------------------------
(* truenas_smb: a LEGACY_SHARE; its options by their own names when no     *)
(* options block is configured.                                            *)

SmbSchema ==
  Attrs({"id", "vuid", "locked"}, Computed) @@ Attrs({"path"}, Replacing(Required))
    @@ Attrs({"name"}, Required)
    @@ Attrs({"comment", "ro", "browsable", "abe", "enabled"},
    Mod(Unkept, <<"resetWhenUnset">>))
    @@ Attrs({"recyclebin", "guestok", "hostsallow", "hostsdeny", "acl",
      "durablehandle", "streams", "timemachine", "timemachine_quota", "home"}, Unkept)
    @@ Attrs({"purpose"}, Nonzero(Kept)) @@ Attrs({"options"}, Kept)
    @@ Attrs({"audit"}, Mod(Unkept, <<"resetWhenUnset", "keep">>))
SmbResponse == Attrs(DOMAIN SmbSchema, "value")
SmbPayload ==
  Attrs({"path", "name"}, "always")
    @@ Attrs(DOMAIN SmbSchema \ {"id", "vuid", "locked"}, "known")
SmbModifyPlan ==
  Attrs({"options", "vuid"}, <<"unknownIfFollowed">>)
    @@ Attrs({"recyclebin", "guestok", "hostsallow", "hostsdeny", "acl",
      "durablehandle", "streams", "timemachine", "timemachine_quota", "home"},
    <<"resetIfManaged">>)
SmbCreate == <<Create(SmbPayload), Fetch, Take(SmbResponse), RecordManaged, Save>>
SmbRead == <<FetchOrForget, Take(SmbResponse), Save>>
Smb ==
  Resource(Amend(SmbSchema, SmbModifyPlan), SmbCreate, SmbRead,
    <<Update(SmbPayload), Fetch, Take(SmbResponse), Save>>, <<Delete>>,
    <<Fetch, Take(SmbResponse), Save>>)

-----------------------------------------------------------------------------
(* truenas_smb_config.                                                     *)

SmbConfigSchema ==
  Attrs({"id", "server_sid"}, Computed)
    @@ Attrs({"netbiosname", "netbiosalias", "workgroup", "description", "localmaster",
      "syslog", "aapl_extensions", "admin_group", "guest", "filemask", "dirmask",
      "ntlmv1_auth", "multichannel", "encryption", "bindip", "smb_options", "debug",
      "stateful_failover", "minimum_protocol", "search_protocols"}, Kept)
    @@ Attrs({"unixcharset"}, Nonzero(Kept))
SmbConfigResponse ==
  Attrs({"id"}, "fixed") @@ Attrs(DOMAIN SmbConfigSchema, "value")
SmbConfigUpdatePayload ==
  Attrs({"admin_group"}, "knownNilZero")
    @@ Attrs(DOMAIN SmbConfigSchema \ {"id", "stateful_failover", "minimum_protocol",
      "search_protocols", "server_sid"}, "known")
SmbConfigPost2600FieldsSupport ==
  Attrs({"stateful_failover", "minimum_protocol", "search_protocols"}, "configured")
SmbConfigCreate ==
  <<Check, Update(SmbConfigPost2600FieldsSupport @@ SmbConfigUpdatePayload), Fetch,
    Take(SmbConfigResponse), Save>>
SmbConfigRead == <<Fetch, Take(SmbConfigResponse), Save>>
SmbConfig ==
  Resource(SmbConfigSchema, SmbConfigCreate, SmbConfigRead,
    <<Check, Update(SmbConfigPost2600FieldsSupport @@ SmbConfigUpdatePayload), Fetch,
      Take(SmbConfigResponse), Save>>, <<LeaveInPlace>>, <<SaveId>>)

-----------------------------------------------------------------------------
(* truenas_smb_share_acl.                                                  *)

SmbShareAclSchema ==
  Attrs({"id"}, Computed) @@ Attrs({"share_name"}, Replacing(Required))
    @@ Attrs({"share_acl"}, Nonzero(Spelt(Required)))
SmbShareAclSetaclPayload == Attrs({"share_name", "share_acl"}, "always")
SmbShareAclDefaultShareACLPayload == Attrs({"share_acl"}, "fixed")
SmbShareAclModifyPlan == Attrs({"share_acl"}, <<"keepEquivalent">>)
SmbShareAclResponse ==
  Attrs({"share_acl"}, "keepEquivalent") @@ Attrs({"id", "share_name"}, "value")
SmbShareAclCreate ==
  <<Update(SmbShareAclSetaclPayload), Fetch, Take(SmbShareAclResponse), Save>>
SmbShareAclRead == <<FetchOrForget, Take(SmbShareAclResponse), Save>>
SmbShareAcl ==
  Resource(Amend(SmbShareAclSchema, SmbShareAclModifyPlan), SmbShareAclCreate,
    SmbShareAclRead,
    <<Update(SmbShareAclSetaclPayload), Fetch, Take(SmbShareAclResponse), Save>>,
    <<Undo(SmbShareAclDefaultShareACLPayload), LeaveInPlace>>,
    <<Fetch, Take(Attrs({"share_acl"}, "value") @@ SmbShareAclResponse), Save>>)

-----------------------------------------------------------------------------
(* truenas_nfs.                                                            *)

NfsSchema ==
  Attrs({"id"}, Computed) @@ Attrs({"path"}, Replacing(Required))
    @@ Attrs({"comment", "enabled", "ro", "hosts", "maproot_user", "maproot_group",
      "mapall_user", "mapall_group", "security", "expose_snapshots"},
    Mod(Unkept, <<"resetWhenUnset">>))
    @@ Attrs({"networks"}, Custom(Mod(Unkept, <<"keepEquivalent", "resetWhenUnset">>)))
NfsPayload ==
  Attrs({"path"}, "always")
    @@ Attrs({"maproot_user", "maproot_group", "mapall_user", "mapall_group"},
    "emptyIsNil") @@ Attrs(DOMAIN NfsSchema \ {"id"}, "known")
NfsResponse == Attrs(DOMAIN NfsSchema, "value")
NfsCreate == <<Create(NfsPayload), Take(NfsResponse), RecordManaged, Save>>
NfsRead == <<FetchOrForget, Take(NfsResponse), Save>>
Nfs ==
  Resource(NfsSchema, NfsCreate, NfsRead,
    <<Update(NfsPayload), Fetch, Take(NfsResponse), Save>>, <<Delete>>,
    <<Fetch, Take(NfsResponse), Save>>)

-----------------------------------------------------------------------------
(* truenas_nfs_config.                                                     *)

NfsConfigSchema ==
  Attrs({"id", "managed_nfsd", "v4_krb_enabled", "keytab_has_nfs_spn"}, Computed)
    @@ Attrs({"servers", "allow_nonroot", "protocols", "v4_domain", "v4_krb", "bindip",
      "mountd_port", "rpcstatd_port", "rpclockd_port", "mountd_log", "statd_lockd_log",
      "userd_manage_gids", "rdma"}, Kept)
NfsConfigResponse ==
  Attrs({"id"}, "fixed") @@ Attrs(DOMAIN NfsConfigSchema, "value")
NfsConfigUpdatePayload ==
  Attrs({"servers", "mountd_port", "rpcstatd_port", "rpclockd_port"}, "knownNilZero")
    @@ Attrs({"allow_nonroot", "protocols", "v4_domain", "v4_krb", "bindip",
      "mountd_log", "statd_lockd_log", "userd_manage_gids", "rdma"}, "known")
NfsConfigModifyPlan ==
  Attrs({"managed_nfsd", "v4_krb_enabled", "keytab_has_nfs_spn"},
    <<"unknownIfFollowed">>)
NfsConfigCreate ==
  <<Update(NfsConfigUpdatePayload), Fetch, Take(NfsConfigResponse), Save>>
NfsConfigRead == <<Fetch, Take(NfsConfigResponse), Save>>
NfsConfigUpdate ==
  <<Update(NfsConfigUpdatePayload), Fetch, Take(NfsConfigResponse), Save>>
NfsConfigDelete == <<LeaveInPlace>>
NfsConfigImport == <<SaveId>>
NfsConfig ==
  Resource(Amend(NfsConfigSchema, NfsConfigModifyPlan), NfsConfigCreate, NfsConfigRead,
    NfsConfigUpdate, NfsConfigDelete, NfsConfigImport)

-----------------------------------------------------------------------------
(* truenas_ftp_config.                                                     *)

FtpConfigSchema ==
  Attrs({"id"}, Computed)
    @@ Attrs({"port", "clients", "ipconnections", "loginattempt", "timeout",
      "timeout_notransfer", "localuserbw", "localuserdlbw", "anonuserbw",
      "anonuserdlbw", "passiveportsmin", "passiveportsmax", "defaultroot",
      "onlyanonymous", "onlylocal", "ident", "fxp", "resume", "reversedns", "tls",
      "tls_opt_allow_client_renegotiations", "tls_opt_allow_dot_login",
      "tls_opt_allow_per_user", "tls_opt_common_name_required",
      "tls_opt_dns_name_required", "tls_opt_enable_diags", "tls_opt_export_cert_data",
      "tls_opt_ip_address_required", "tls_opt_no_empty_fragments",
      "tls_opt_no_session_reuse_required", "tls_opt_stdenvvars", "masqaddress",
      "banner", "options", "dirmask", "filemask", "tls_policy", "ssltls_certificate",
      "anonpath"}, Kept)
FtpConfigResponse ==
  Attrs({"id"}, "fixed") @@ Attrs(DOMAIN FtpConfigSchema, "value")
FtpConfigUpdatePayload ==
  Attrs({"ssltls_certificate", "anonpath"}, "knownNilZero")
    @@ Attrs(DOMAIN FtpConfigSchema \ {"id"}, "known")
FtpConfigModifyPlan == Attrs({"anonpath"}, <<"zeroIfFollowed">>)
FtpConfigCreate ==
  <<Update(FtpConfigUpdatePayload), Fetch, Take(FtpConfigResponse), Save>>
FtpConfigRead == <<Fetch, Take(FtpConfigResponse), Save>>
FtpConfig ==
  Resource(Amend(FtpConfigSchema, FtpConfigModifyPlan), FtpConfigCreate, FtpConfigRead,
    <<Update(FtpConfigUpdatePayload), Fetch, Take(FtpConfigResponse), Save>>,
    <<LeaveInPlace>>, <<SaveId>>)

-----------------------------------------------------------------------------
(* truenas_webshare.                                                       *)

WebshareSchema ==
  Attrs({"id"}, Computed) @@ Attrs({"name"}, Required)
    @@ Attrs({"path"}, Replacing(Required))
    @@ Attrs({"enabled"},
    Excused({"UnsetGetsServerDefault"}, Mod(Unkept, <<"resetWhenUnset", "keep">>)))
    @@ Attrs({"is_home_base"},
    Initially("zero", Mod(Unkept, <<"resetWhenUnset", "keep">>)))
    @@ Attrs({"dataset", "relative_path", "locked"}, Volatile)
WebshareResponse ==
  Attrs({"dataset", "relative_path", "locked"}, "pointer")
    @@ Attrs({"id", "name", "path", "enabled", "is_home_base"}, "value")
WebshareCreatePayload ==
  Attrs({"name", "path", "enabled", "is_home_base"}, "always")
WebshareUpdatePayload ==
  Attrs({"name", "path", "enabled", "is_home_base"}, "always")
WebshareCreate ==
  <<Check, Create(WebshareCreatePayload), Fetch, Take(WebshareResponse), RecordManaged,
    Save>>
WebshareRead == <<Check, FetchOrForget, Take(WebshareResponse), Save>>
Webshare ==
  Resource(WebshareSchema, WebshareCreate, WebshareRead,
    <<Check, Update(WebshareUpdatePayload), Fetch, Take(WebshareResponse), Save>>,
    <<Check, Delete>>, <<Check, Fetch, Take(WebshareResponse), Save>>)

-----------------------------------------------------------------------------
(* truenas_webshare_config.                                                *)

WebshareConfigSchema ==
  Attrs({"id"}, Computed)
    @@ Attrs({"bindip", "search", "passkey", "groups", "mcp_enabled",
      "mcp_allowed_groups", "mcp_allow_write"}, Kept)
WebshareConfigResponse ==
  Attrs({"id"}, "fixed")
    @@ Attrs({"mcp_enabled", "mcp_allowed_groups", "mcp_allow_write"}, "pointer")
    @@ Attrs({"bindip", "search", "passkey", "groups"}, "value")
WebshareConfigUpdatePayload ==
  Attrs(DOMAIN WebshareConfigSchema \ {"id"}, "configured")
WebshareConfigCreate ==
  <<Check, Check, Update(WebshareConfigUpdatePayload), Fetch,
    Take(WebshareConfigResponse), Save>>
WebshareConfigRead == <<Check, Fetch, Take(WebshareConfigResponse), Save>>
WebshareConfig ==
  Resource(WebshareConfigSchema, WebshareConfigCreate, WebshareConfigRead,
    <<Check, Check, Update(WebshareConfigUpdatePayload), Fetch,
      Take(WebshareConfigResponse), Save>>, <<LeaveInPlace>>, <<SaveId>>)
=============================================================================
