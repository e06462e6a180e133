--------------------------- MODULE CatalogSystem ---------------------------
(***************************************************************************)
(* The catalog entries of the settings of the appliance itself, its alerts *)
(* and its hardware: for every resource its schema, what its payloads      *)
(* send, how a response is taken into the model, and the steps of its      *)
(* handlers.                                                               *)
(***************************************************************************)
EXTENDS Steps

-----------------------------------------------------------------------------
(* truenas_system_advanced.                                                *)

SystemAdvancedSchema ==
  Attrs({"id", "anonstats_token", "isolated_gpu_pci_ids"}, Computed)
    @@ Attrs({"advancedmode", "anonstats", "autotune", "boot_scrub", "consolemenu",
      "consolemsg", "debugkernel", "fqdn_syslog", "kdump_enabled",
      "kernel_extra_options", "login_banner", "motd", "nvidia", "powerdaemon",
      "sed_user", "serialconsole", "serialport", "serialspeed", "syslog_audit",
      "sysloglevel", "syslogservers", "traceback", "uploadcrash"}, Kept)
    @@ Attrs({"overprovision"}, LosesZero(Kept)) @@ Attrs({"sed_passwd"}, Unseen)
SystemAdvancedResponse ==
  Attrs({"id"}, "fixed") @@ Attrs({"overprovision"}, "pointer")
    @@ Attrs(DOMAIN SystemAdvancedSchema \ {"sed_passwd"}, "value")
SystemAdvancedUpdatePayload ==
  Attrs({"overprovision"}, "knownNilZero")
    @@ Attrs(DOMAIN SystemAdvancedSchema \ {"id", "nvidia", "anonstats_token",
      "isolated_gpu_pci_ids"}, "known")
SystemAdvancedNvidiaSupport == Attrs({"nvidia"}, "configured")
SystemAdvancedCreate ==
  <<Check, Update(SystemAdvancedNvidiaSupport @@ SystemAdvancedUpdatePayload), Fetch,
    Take(SystemAdvancedResponse), Save>>
SystemAdvancedRead == <<Fetch, Take(SystemAdvancedResponse), Save>>
SystemAdvancedUpdate ==
  <<Check, Update(SystemAdvancedNvidiaSupport @@ SystemAdvancedUpdatePayload), Fetch,
    Take(SystemAdvancedResponse), Save>>
SystemAdvanced ==
  Resource(SystemAdvancedSchema, SystemAdvancedCreate, SystemAdvancedRead,
    SystemAdvancedUpdate, <<LeaveInPlace>>, <<SaveId>>)

-----------------------------------------------------------------------------
(* truenas_system_dataset.                                                 *)

SystemDatasetSchema ==
  Attrs({"id", "uuid"}, Computed) @@ Attrs({"pool"}, Kept)
    @@ Attrs({"pool_exclude"}, Once(Optional))
    @@ Attrs({"basename", "path", "pool_set"}, Volatile)
SystemDatasetResponse ==
  Attrs({"id"}, "fixed")
    @@ Attrs({"pool", "basename", "path", "uuid", "pool_set"}, "value")
SystemDatasetUpdatePayload == Attrs({"pool", "pool_exclude"}, "known")
SystemDatasetCreate ==
  <<Update(SystemDatasetUpdatePayload), Fetch, Take(SystemDatasetResponse), Save>>
SystemDatasetRead == <<Fetch, Take(SystemDatasetResponse), Save>>
SystemDataset ==
  Resource(SystemDatasetSchema, SystemDatasetCreate, SystemDatasetRead,
    <<Update(SystemDatasetUpdatePayload), Fetch, Take(SystemDatasetResponse), Save>>,
    <<LeaveInPlace>>, <<SaveId>>)

-----------------------------------------------------------------------------
(* truenas_system_general.                                                 *)

SystemGeneralSchema ==
  Attrs({"id"}, Computed)
    @@ Attrs({"ds_auth", "kbdmap", "timezone", "ui_address", "ui_allowlist",
      "ui_consolemsg", "ui_httpsport", "ui_httpsprotocols", "ui_httpsredirect",
      "ui_port", "ui_v6address", "ui_x_frame_options", "usage_collection"}, Kept)
    @@ Attrs({"ui_certificate"}, Excused({"AppliedAsPlanned"}, Nonzero(Kept)))
    @@ Attrs({"ui_certificate_name", "usage_collection_is_set", "wizardshown"},
    Volatile)
SystemGeneralResponse ==
  Attrs({"id"}, "fixed") @@ Attrs({"usage_collection"}, "pointer")
    @@ Attrs({"ui_certificate", "ui_certificate_name"}, "unlessRedacted")
    @@ Attrs(DOMAIN SystemGeneralSchema, "value")
SystemGeneralUpdatePayload ==
  Attrs(DOMAIN SystemGeneralSchema \ {"id", "ui_certificate_name",
      "usage_collection_is_set", "wizardshown"}, "configured")
SystemGeneralCreate ==
  <<Fetch, Update(SystemGeneralUpdatePayload), Check, Fetch,
    Take(SystemGeneralResponse), Save>>
SystemGeneralRead == <<Fetch, Take(SystemGeneralResponse), Save>>
SystemGeneral ==
  Resource(SystemGeneralSchema, SystemGeneralCreate, SystemGeneralRead,
    <<Fetch, Update(SystemGeneralUpdatePayload), Check, Fetch,
      Take(SystemGeneralResponse), Save>>, <<LeaveInPlace>>, <<SaveId>>)

-----------------------------------------------------------------------------
(* truenas_mail.                                                           *)

MailSchema ==
  Attrs({"id"}, Computed)
    @@ Attrs({"fromemail", "fromname", "outgoingserver", "port", "security", "smtp",
      "user"}, Kept) @@ Attrs({"pass"}, Secret)
    @@ Attrs({"pass_wo_version"}, Local(Optional))
MailResponse ==
  Attrs({"id"}, "fixed")
    @@ Attrs(DOMAIN MailSchema \ {"pass", "pass_wo_version"}, "value")
MailUpdatePayload ==
  Attrs({"user"}, "knownNilZero")
    @@ Attrs({"fromemail", "fromname", "outgoingserver", "port", "security", "smtp"},
    "known")
MailSecrets == Attrs({"pass"}, "known")
MailCreate ==
  <<Fetch, Update(MailUpdatePayload @@ MailSecrets), Fetch, Take(MailResponse), Save>>
MailRead == <<Fetch, Take(MailResponse), Save>>
Mail ==
  Resource(MailSchema, MailCreate, MailRead,
    <<Fetch, Update(MailUpdatePayload @@ IfChanged(MailSecrets)), Fetch,
      Take(MailResponse), Save>>, <<LeaveInPlace>>, <<SaveId>>)

-----------------------------------------------------------------------------
(* truenas_ntp_server.                                                     *)

NtpServerSchema ==
  Attrs({"id"}, Computed) @@ Attrs({"address"}, Required)
    @@ Attrs({"burst", "iburst", "prefer", "minpoll", "maxpoll"}, Kept)
    @@ Attrs({"force"}, Local(Unseen))
NtpServerResponse == Attrs(DOMAIN NtpServerSchema \ {"force"}, "value")
NtpServerPayload ==
  Attrs({"address"}, "always")
    @@ Attrs({"burst", "iburst", "prefer", "minpoll", "maxpoll"}, "known")
NtpServerCreate ==
  <<Create(NtpServerPayload @@ Attrs({"force"}, "configured")), Fetch,
    Take(NtpServerResponse), Save>>
NtpServerRead == <<FetchOrForget, Take(NtpServerResponse), Save>>
NtpServer ==
  Resource(NtpServerSchema, NtpServerCreate, NtpServerRead,
    <<Update(NtpServerPayload @@ Attrs({"force"}, "configured")), Fetch,
      Take(NtpServerResponse), Save>>, <<Delete>>,
    <<Fetch, Take(NtpServerResponse), Save>>)

-----------------------------------------------------------------------------
(* truenas_alert_policy.                                                   *)

AlertPolicySchema == Attrs({"id"}, Computed) @@ Attrs({"classes"}, Spelt(Required))
AlertPolicyUpdatePayload == Attrs({"classes"}, "always")
AlertPolicyDeletePayload == Attrs({"classes"}, "zero")
AlertPolicyResponse ==
  Attrs({"classes"}, "keepEquivalent") @@ Attrs({"id"}, "fixed")
AlertPolicyCreate ==
  <<Update(AlertPolicyUpdatePayload), Fetch, Take(AlertPolicyResponse), Save>>
AlertPolicyRead == <<Fetch, Take(AlertPolicyResponse), Save>>
AlertPolicy ==
  Resource(AlertPolicySchema, AlertPolicyCreate, AlertPolicyRead,
    <<Update(AlertPolicyUpdatePayload), Fetch, Take(AlertPolicyResponse), Save>>,
    <<Update(AlertPolicyDeletePayload)>>, <<SaveId>>)

-----------------------------------------------------------------------------
(* truenas_alert_service.                                                  *)

AlertServiceSchema ==
  Attrs({"id"}, Computed) @@ Attrs({"name"}, Required)
    @@ Attrs({"level"}, Nonzero(Required)) @@ Attrs({"enabled"}, Kept)
    @@ Attrs({"attributes"},
    Excused({"NoDiffAfterApply"}, Custom(Mod(Required, <<"keepImported">>))))
    @@ Attrs({"attributes_secrets_wo"}, Secret)
    @@ Attrs({"attributes_secrets_wo_version"}, Local(Optional))
AlertServiceResponse == Attrs({"id", "name", "level", "enabled"}, "value")
AlertServicePayload ==
  Attrs({"enabled"}, "known") @@ Attrs({"name", "level", "attributes"}, "always")
AlertServiceSecrets == Attrs({"attributes_secrets_wo"}, "nonzero")
AlertServiceRefresh == Attrs({"attributes"}, "unlessRedacted")
AlertServiceCreate ==
  <<Create(AlertServicePayload @@ AlertServiceSecrets), Fetch,
    Take(AlertServiceResponse), SetImported(FALSE), Save>>
AlertServiceRead ==
  <<FetchOrForget, Take(AlertServiceResponse @@ AlertServiceRefresh), Save>>
AlertServiceUpdate ==
  <<Fetch, Update(AlertServicePayload @@ IfChanged(AlertServiceSecrets)), Fetch,
    Take(AlertServiceResponse), SetImported(FALSE), Save>>
AlertService ==
  Resource(AlertServiceSchema, AlertServiceCreate, AlertServiceRead, AlertServiceUpdate,
    <<Delete>>,
    <<Fetch, Take(AlertServiceResponse @@ Attrs({"attributes"}, "value")),
      SetImported(TRUE), Save>>)

-----------------------------------------------------------------------------
(* truenas_audit_config.                                                   *)

AuditConfigSchema ==
  Attrs({"id"}, Computed)
    @@ Attrs({"retention", "quota_fill_warning", "quota_fill_critical"}, Nonzero(Kept))
    @@ Attrs({"reservation", "quota"}, Kept)
    @@ Attrs({"remote_logging_enabled", "space", "enabled_services"}, Volatile)
AuditConfigResponse ==
  Attrs({"id"}, "fixed") @@ Attrs(DOMAIN AuditConfigSchema, "value")
AuditConfigUpdatePayload ==
  Attrs({"retention", "reservation", "quota", "quota_fill_warning",
      "quota_fill_critical"}, "configured")
AuditConfigCreate ==
  <<Update(AuditConfigUpdatePayload), Fetch, Take(AuditConfigResponse), Save>>
AuditConfigRead == <<Fetch, Take(AuditConfigResponse), Save>>
AuditConfig ==
  Resource(AuditConfigSchema, AuditConfigCreate, AuditConfigRead,
    <<Update(AuditConfigUpdatePayload), Fetch, Take(AuditConfigResponse), Save>>,
    <<LeaveInPlace>>, <<SaveId>>)

-----------------------------------------------------------------------------
(* truenas_boot_environment.                                               *)

BootEnvironmentSchema ==
  Attrs({"id", "dataset"}, Computed) @@ Attrs({"name"}, Replacing(Required))
    @@ Attrs({"source"}, Once(Mod(Required, <<"replaceFromKnown">>)))
    @@ Attrs({"activated"}, Initially("zero", Kept)) @@ Attrs({"keep"}, Kept)
    @@ Attrs({"active", "used_bytes"}, Volatile)
BootEnvironmentResponse ==
  Attrs(DOMAIN BootEnvironmentSchema \ {"source"}, "value")
BootEnvironmentClonePayload == Attrs({"name", "source"}, "always")
BootEnvironmentKeepPayload == Attrs({"keep"}, "known")
BootEnvironmentActivatePayload == Attrs({"activated"}, "setOnly")
BootEnvironmentCreate ==
  <<Create(BootEnvironmentClonePayload), Update(BootEnvironmentKeepPayload),
    Update(BootEnvironmentActivatePayload), Fetch, Take(BootEnvironmentResponse), Save>>
BootEnvironmentRead == <<FetchOrForget, Take(BootEnvironmentResponse), Save>>
BootEnvironmentUpdate ==
  <<Update(Attrs({"keep"}, "changed")), Update(BootEnvironmentActivatePayload), Fetch,
    Take(BootEnvironmentResponse), Save>>
BootEnvironment ==
  Resource(BootEnvironmentSchema, BootEnvironmentCreate, BootEnvironmentRead,
    BootEnvironmentUpdate, <<Check, Delete>>, <<SaveId>>)

-----------------------------------------------------------------------------
(* truenas_failover_config.                                                *)

FailoverConfigSchema ==
  Attrs({"id"}, Computed) @@ Attrs({"disabled", "master", "timeout"}, Kept)
FailoverConfigResponse ==
  Attrs({"id"}, "fixed") @@ Attrs({"disabled", "master", "timeout"}, "value")
FailoverConfigUpdatePayload ==
  Attrs({"disabled", "master", "timeout"}, "configured")
FailoverConfigCreate ==
  <<Fetch, Check, Update(FailoverConfigUpdatePayload), Fetch,
    Take(FailoverConfigResponse), Save>>
FailoverConfigRead == <<Fetch, Take(FailoverConfigResponse), Save>>
FailoverConfig ==
  Resource(FailoverConfigSchema, FailoverConfigCreate, FailoverConfigRead,
    <<Fetch, Check, Update(FailoverConfigUpdatePayload), Fetch,
      Take(FailoverConfigResponse), Save>>, <<LeaveInPlace>>, <<SaveId>>)

-----------------------------------------------------------------------------
(* truenas_enclosure_label.                                                *)

EnclosureLabelSchema ==
  Attrs({"id"}, Local(Replacing(Required))) @@ Attrs({"label"}, Nonzero(Required))
    @@ Attrs({"name"}, Computed)
EnclosureLabelResponse == Attrs({"id", "label", "name"}, "value")
EnclosureLabelOriginalLabel ==
  Attrs({"id"}, "always") @@ Attrs({"label"}, "original")
EnclosureLabelCreate ==
  <<Fetch, Update(Attrs({"id", "label"}, "always")), Fetch,
    Take(EnclosureLabelResponse), Save>>
EnclosureLabelRead == <<FetchOrForget, Take(EnclosureLabelResponse), Save>>
EnclosureLabel ==
  Resource(EnclosureLabelSchema, EnclosureLabelCreate, EnclosureLabelRead,
    <<Update(Attrs({"id", "label"}, "always")), Fetch, Take(EnclosureLabelResponse),
      Save>>, <<Update(EnclosureLabelOriginalLabel)>>,
    <<Fetch, Take(EnclosureLabelResponse), Save>>)

-----------------------------------------------------------------------------
(* truenas_ipmi_lan.                                                       *)

IpmiLanSchema ==
  Attrs({"id", "vlan_priority", "mac_address"}, Computed)
    @@ Attrs({"channel"}, Local(Replacing(Required))) @@ Attrs({"dhcp"}, Required)
    @@ Attrs({"ipaddress", "netmask", "gateway", "vlan"}, Kept)
    @@ Attrs({"password"}, Secret) @@ Attrs({"password_wo_version"}, Local(Optional))
    @@ Attrs({"apply_remote"}, Local(Unseen))
IpmiLanResponse ==
  Attrs({"vlan"}, "pointer")
    @@ Attrs({"id", "channel", "ipaddress", "netmask", "gateway", "vlan_priority",
      "mac_address", "dhcp"}, "value")
IpmiLanUpdatePayload ==
  Attrs({"dhcp", "channel"}, "always") @@ Attrs({"vlan"}, "cannotClear")
    @@ Attrs({"ipaddress", "netmask", "gateway", "apply_remote"}, "configured")
IpmiLanModifyPlan ==
  Attrs({"vlan_priority", "ipaddress", "netmask", "gateway"}, <<"unknownIfFollowed">>)
IpmiLanSecrets == Attrs({"password"}, "nonzero")
IpmiLanCreate ==
  <<Check, Update(IpmiLanUpdatePayload @@ IpmiLanSecrets), Fetch, Take(IpmiLanResponse),
    Save>>
IpmiLanRead == <<FetchOrForget, Take(IpmiLanResponse), Save>>
IpmiLan ==
  Resource(Amend(IpmiLanSchema, IpmiLanModifyPlan), IpmiLanCreate, IpmiLanRead,
    <<Check, Update(IpmiLanUpdatePayload @@ IfChanged(IpmiLanSecrets)), Fetch,
      Take(IpmiLanResponse), Save>>, <<LeaveInPlace>>,
    <<Fetch, Take(IpmiLanResponse), Save>>)
=============================================================================
