-------------------------- MODULE CatalogServices --------------------------
(***************************************************************************)
(* The catalog entries of system services, exporters, tunables and         *)
(* scheduled commands: for every resource its schema, what its payloads    *)
(* send, how a response is taken into the model, and the steps of its      *)
(* handlers.                                                               *)
(***************************************************************************)
EXTENDS Steps

-----------------------------------------------------------------------------
(* truenas_cronjob.                                                        *)

CronjobSchema ==
  Attrs({"id"}, Computed) @@ Attrs({"command", "user"}, Required)
    @@ Attrs({"description", "schedule", "enabled", "stdout", "stderr"}, Kept)
CronjobResponse == Attrs(DOMAIN CronjobSchema, "value")
CronjobPayload ==
  Attrs({"command", "user"}, "always")
    @@ Attrs({"description", "enabled", "stdout", "stderr", "schedule"}, "known")
CronjobCreate == <<Create(CronjobPayload), Take(CronjobResponse), Save>>
CronjobRead == <<FetchOrForget, Take(CronjobResponse), Save>>
Cronjob ==
  Resource(CronjobSchema, CronjobCreate, CronjobRead,
    <<Update(CronjobPayload), Take(CronjobResponse), Save>>, <<Delete>>,
    <<Fetch, Take(CronjobResponse), Save>>)

-----------------------------------------------------------------------------
(* truenas_init_shutdown_script.                                           *)

InitShutdownScriptSchema ==
  Attrs({"id"}, Computed) @@ Attrs({"type", "when"}, Nonzero(Required))
    @@ Attrs({"command", "script", "enabled", "timeout", "comment"}, Kept)
InitShutdownScriptResponse == Attrs(DOMAIN InitShutdownScriptSchema, "value")
InitShutdownScriptPayload ==
  Attrs({"type", "when"}, "always")
    @@ Attrs({"command", "script", "enabled", "timeout", "comment"}, "known")
InitShutdownScriptCreate ==
  <<Create(InitShutdownScriptPayload), Take(InitShutdownScriptResponse), Save>>
InitShutdownScriptRead == <<FetchOrForget, Take(InitShutdownScriptResponse), Save>>
InitShutdownScript ==
  Resource(InitShutdownScriptSchema, InitShutdownScriptCreate, InitShutdownScriptRead,
    <<Update(InitShutdownScriptPayload), Take(InitShutdownScriptResponse), Save>>,
    <<Delete>>, <<Fetch, Take(InitShutdownScriptResponse), Save>>)

-----------------------------------------------------------------------------
(* truenas_tunable.                                                        *)

TunableSchema ==
  Attrs({"id"}, Computed) @@ Attrs({"var"}, Replacing(Required))
    @@ Attrs({"value"}, Required)
    @@ Attrs({"type"}, Nonzero(Mod(Unkept, <<"replace", "keep">>)))
    @@ Attrs({"comment", "enabled"}, Kept) @@ Attrs({"update_initramfs"}, Local(Unseen))
    @@ Attrs({"orig_value"}, Volatile)
TunableResponse == Attrs(DOMAIN TunableSchema \ {"update_initramfs"}, "value")
TunableCreatePayload ==
  Attrs({"var", "value"}, "always") @@ Attrs({"type", "comment", "enabled"}, "known")
TunableUpdatePayload ==
  Attrs({"value"}, "always") @@ Attrs({"comment", "enabled"}, "known")
TunableCreate ==
  <<Create(Attrs({"update_initramfs"}, "configured") @@ TunableCreatePayload), Fetch,
    Take(TunableResponse), Save>>
TunableRead == <<FetchOrForget, Take(TunableResponse), Save>>
Tunable ==
  Resource(TunableSchema, TunableCreate, TunableRead,
    <<Update(Attrs({"update_initramfs"}, "configured") @@ TunableUpdatePayload), Fetch,
      Take(TunableResponse), Save>>, <<Delete>>, <<Fetch, Take(TunableResponse), Save>>)

-----------------------------------------------------------------------------
(* truenas_reporting_exporter: the optional members of attributes by their *)
(* own names.                                                              *)

ReportingExporterSchema ==
  Attrs({"id"}, Computed) @@ Attrs({"name", "enabled", "attributes"}, Required)
    @@ Attrs({"prefix", "update_every", "buffer_on_failures",
      "send_names_instead_of_ids", "matching_charts"},
    Mod(Unkept, <<"resetWhenUnset">>))
ReportingExporterResponse == Attrs(DOMAIN ReportingExporterSchema, "value")
ReportingExporterAttributesPayload ==
  Attrs({"attributes"}, "always")
    @@ Attrs({"prefix", "update_every", "buffer_on_failures",
      "send_names_instead_of_ids", "matching_charts"}, "known")
ReportingExporterPayload ==
  Attrs({"name", "enabled"}, "always") @@ ReportingExporterAttributesPayload
ReportingExporterCreate ==
  <<Create(ReportingExporterPayload), Take(ReportingExporterResponse), RecordManaged,
    Save>>
ReportingExporterRead == <<FetchOrForget, Take(ReportingExporterResponse), Save>>
ReportingExporter ==
  Resource(ReportingExporterSchema, ReportingExporterCreate, ReportingExporterRead,
    <<Update(ReportingExporterPayload), Take(ReportingExporterResponse), Save>>,
    <<Delete>>, <<Fetch, Take(ReportingExporterResponse), Save>>)

-----------------------------------------------------------------------------
(* truenas_ups_config.                                                     *)

UpsConfigSchema ==
  Attrs({"id"}, Computed)
    @@ Attrs({"identifier", "mode", "remotehost", "remoteport", "driver", "port",
      "options", "optionsupsd", "description", "shutdown", "shutdowntimer",
      "shutdowncmd", "monuser", "extrausers", "rmonitor", "powerdown", "hostsync",
      "nocommwarntime"}, Kept) @@ Attrs({"monpwd"}, Secret)
    @@ Attrs({"monpwd_wo_version"}, Local(Optional))
    @@ Attrs({"complete_identifier"}, Volatile)
UpsConfigResponse ==
  Attrs({"id"}, "fixed")
    @@ Attrs(DOMAIN UpsConfigSchema \ {"monpwd", "monpwd_wo_version"}, "value")
UpsConfigUpdatePayload ==
  Attrs({"shutdowncmd", "nocommwarntime"}, "knownNilZero")
    @@ Attrs(DOMAIN UpsConfigSchema \ {"id", "monpwd", "monpwd_wo_version",
      "complete_identifier"}, "known")
UpsConfigSecrets == Attrs({"monpwd"}, "known")
UpsConfigCreate ==
  <<Fetch, Update(UpsConfigUpdatePayload @@ UpsConfigSecrets), Fetch,
    Take(UpsConfigResponse), Save>>
UpsConfigRead == <<Fetch, Take(UpsConfigResponse), Save>>
UpsConfig ==
  Resource(UpsConfigSchema, UpsConfigCreate, UpsConfigRead,
    <<Fetch, Update(UpsConfigUpdatePayload @@ IfChanged(UpsConfigSecrets)), Fetch,
      Take(UpsConfigResponse), Save>>, <<LeaveInPlace>>, <<SaveId>>)

-----------------------------------------------------------------------------
(* truenas_snmp_config: community as when community_wo is not used.        *)

SnmpConfigSchema ==
  Attrs({"id"}, Computed)
    @@ Attrs({"community", "location", "loglevel", "options", "traps", "zilstat", "v3",
      "v3_username", "v3_authtype", "v3_privproto"}, Kept)
    @@ Attrs({"community_wo"}, Secret)
    @@ Attrs({"community_wo_version"}, Local(Optional))
    @@ Attrs({"contact"}, Custom(Mod(Unkept, <<"keepEquivalent", "keep">>)))
    @@ Attrs({"v3_password", "v3_privpassphrase"}, Unseen)
SnmpConfigResponse ==
  Attrs({"id"}, "fixed") @@ Attrs({"loglevel"}, "pointer")
    @@ Attrs({"community", "contact", "location", "options", "traps", "zilstat", "v3",
      "v3_username", "v3_authtype", "v3_privproto"}, "value")
SnmpConfigUpdatePayload ==
  Attrs({"v3_privproto"}, "knownNilZero")
    @@ Attrs(DOMAIN SnmpConfigSchema \ {"id", "community_wo", "community_wo_version"},
    "known")
SnmpConfigSecrets == Attrs({"community_wo"}, "nonzero")
SnmpConfigCreate ==
  <<Check, Update(SnmpConfigUpdatePayload @@ SnmpConfigSecrets), Fetch,
    Take(SnmpConfigResponse), Save>>
SnmpConfigRead == <<Fetch, Take(SnmpConfigResponse), Save>>
SnmpConfig ==
  Resource(SnmpConfigSchema, SnmpConfigCreate, SnmpConfigRead,
    <<Check, Update(SnmpConfigUpdatePayload @@ IfChanged(SnmpConfigSecrets)), Fetch,
      Take(SnmpConfigResponse), Save>>, <<LeaveInPlace>>, <<SaveId>>)

-----------------------------------------------------------------------------
(* truenas_ssh_config.                                                     *)

SshConfigSchema ==
  Attrs({"id"}, Computed)
    @@ Attrs({"bindiface", "compression", "kerberosauth", "options",
      "password_login_groups", "passwordauth", "sftp_log_facility", "sftp_log_level",
      "tcpfwd", "tcpport", "weak_ciphers"}, Kept)
SshConfigResponse ==
  Attrs({"id"}, "fixed") @@ Attrs(DOMAIN SshConfigSchema, "value")
SshConfigUpdatePayload == Attrs(DOMAIN SshConfigSchema \ {"id"}, "known")
SshConfigCreate ==
  <<Update(SshConfigUpdatePayload), Fetch, Take(SshConfigResponse), Save>>
SshConfigRead == <<Fetch, Take(SshConfigResponse), Save>>
SshConfig ==
  Resource(SshConfigSchema, SshConfigCreate, SshConfigRead,
    <<Update(SshConfigUpdatePayload), Fetch, Take(SshConfigResponse), Save>>,
    <<LeaveInPlace>>, <<SaveId>>)

-----------------------------------------------------------------------------
(* truenas_service.                                                        *)

ServiceSchema ==
  Attrs({"id"}, Computed) @@ Attrs({"name"}, Local(Replacing(Required)))
    @@ Attrs({"enabled", "running"}, Kept)
ServiceResponse == Attrs({"id", "name", "enabled", "running"}, "value")
ServiceEnabled == Attrs({"name"}, "always") @@ Attrs({"enabled"}, "known")
ServiceRunningState == Attrs({"running"}, "known")
ServiceCreate ==
  <<Fetch, Update(ServiceEnabled), Update(ServiceRunningState), Fetch,
    Take(ServiceResponse), Save>>
ServiceRead == <<FetchOrForget, Take(ServiceResponse), Save>>
Service ==
  Resource(ServiceSchema, ServiceCreate, ServiceRead,
    <<Fetch, Update(ServiceEnabled), Update(ServiceRunningState), Fetch,
      Take(ServiceResponse), Save>>, <<LeaveInPlace>>, <<SaveId>>)

-----------------------------------------------------------------------------
(* truenas_tn_connect_config.                                              *)

TnConnectConfigSchema ==
  Attrs({"id", "status", "status_reason", "certificate", "account_service_base_url",
      "leca_service_base_url", "tnc_base_url", "heartbeat_url", "registration_details",
      "tier", "last_heartbeat_failure_datetime", "ips", "interfaces", "interfaces_ips",
      "use_all_interfaces"}, Computed) @@ Attrs({"enabled"}, Kept)
TnConnectConfigResponse ==
  Attrs({"id"}, "fixed") @@ Attrs(DOMAIN TnConnectConfigSchema, "value")
TnConnectConfigUpdatePayload == Attrs({"enabled"}, "configured")
TnConnectConfigModifyPlan ==
  Attrs({"status", "status_reason", "certificate", "registration_details", "tier",
      "last_heartbeat_failure_datetime", "ips", "interfaces", "interfaces_ips",
      "use_all_interfaces"}, <<"unknownIfFollowed">>)
TnConnectConfigCreate ==
  <<Update(TnConnectConfigUpdatePayload), Fetch, Take(TnConnectConfigResponse), Save>>
TnConnectConfigRead == <<Fetch, Take(TnConnectConfigResponse), Save>>
TnConnectConfigUpdate ==
  <<Update(TnConnectConfigUpdatePayload), Fetch, Take(TnConnectConfigResponse), Save>>
TnConnectConfigDelete == <<LeaveInPlace>>
TnConnectConfigImport == <<SaveId>>
TnConnectConfig ==
  Resource(Amend(TnConnectConfigSchema, TnConnectConfigModifyPlan),
    TnConnectConfigCreate, TnConnectConfigRead, TnConnectConfigUpdate,
    TnConnectConfigDelete, TnConnectConfigImport)

-----------------------------------------------------------------------------
(* truenas_truecommand_config: api_key as when api_key_wo is not used.     *)

TruecommandConfigSchema ==
  Attrs({"id", "status", "status_reason", "remote_url", "remote_ip_address"}, Computed)
    @@ Attrs({"enabled"}, Kept)
    @@ Attrs({"api_key"}, Excused({"AppliedAsPlanned"}, Nonzero(Kept)))
    @@ Attrs({"api_key_wo"}, Nonzero(Secret))
    @@ Attrs({"api_key_wo_version"}, Local(Optional))
TruecommandConfigResponse ==
  Attrs({"id"}, "fixed") @@ Attrs({"api_key"}, "unlessRedacted")
    @@ Attrs({"enabled", "status", "status_reason", "remote_url", "remote_ip_address"},
    "value")
TruecommandConfigUpdatePayload == Attrs({"enabled", "api_key"}, "configured")
TruecommandConfigModifyPlan ==
  Attrs({"status", "status_reason", "remote_url", "remote_ip_address"},
    <<"unknownIfFollowed">>)
TruecommandConfigSecrets == Attrs({"api_key_wo"}, "nonzero")
TruecommandConfigCreate ==
  <<Update(TruecommandConfigUpdatePayload @@ TruecommandConfigSecrets), Fetch,
    Take(TruecommandConfigResponse), Save>>
TruecommandConfigRead == <<Fetch, Take(TruecommandConfigResponse), Save>>
TruecommandConfigUpdate ==
  <<Update(TruecommandConfigUpdatePayload @@ IfChanged(TruecommandConfigSecrets)),
    Fetch, Take(TruecommandConfigResponse), Save>>
TruecommandConfigDelete == <<LeaveInPlace>>
TruecommandConfigImport == <<SaveId>>
TruecommandConfig ==
  Resource(Amend(TruecommandConfigSchema, TruecommandConfigModifyPlan),
    TruecommandConfigCreate, TruecommandConfigRead, TruecommandConfigUpdate,
    TruecommandConfigDelete, TruecommandConfigImport)
=============================================================================
