------------------------------ MODULE Catalog ------------------------------
(***************************************************************************)
(* The resources the provider serves, by their type name.                  *)
(***************************************************************************)
EXTENDS CatalogAccounts, CatalogSystem, CatalogServices, CatalogStorage, CatalogProtection,
        CatalogSharing, CatalogBlock, CatalogCompute, CatalogNetwork

Catalog ==
  [acl_template |-> AclTemplate,
   acme_dns_authenticator |-> AcmeDnsAuthenticator,
   alert_policy |-> AlertPolicy,
   alert_service |-> AlertService,
   api_key |-> ApiKey,
   app |-> App,
   app_registry |-> AppRegistry,
   audit_config |-> AuditConfig,
   boot_environment |-> BootEnvironment,
   catalog_config |-> CatalogConfig,
   certificate |-> Certificate,
   cloud_backup |-> CloudBackup,
   cloudsync |-> Cloudsync,
   cloudsync_credentials |-> CloudsyncCredentials,
   container |-> Container,
   container_device |-> ContainerDevice,
   cronjob |-> Cronjob,
   dataset |-> Dataset,
   directoryservices |-> Directoryservices,
   docker_config |-> DockerConfig,
   enclosure_label |-> EnclosureLabel,
   failover_config |-> FailoverConfig,
   filesystem_acl |-> FilesystemAcl,
   filesystem_permissions |-> FilesystemPermissions,
   ftp_config |-> FtpConfig,
   group |-> Group,
   init_shutdown_script |-> InitShutdownScript,
   ipmi_lan |-> IpmiLan,
   iscsi_auth |-> IscsiAuth,
   iscsi_extent |-> IscsiExtent,
   iscsi_global |-> IscsiGlobal,
   iscsi_initiator |-> IscsiInitiator,
   iscsi_portal |-> IscsiPortal,
   iscsi_target |-> IscsiTarget,
   iscsi_targetextent |-> IscsiTargetextent,
   kerberos_config |-> KerberosConfig,
   kerberos_keytab |-> KerberosKeytab,
   kerberos_realm |-> KerberosRealm,
   keychain_ssh_connection |-> KeychainSshConnection,
   keychain_ssh_keypair |-> KeychainSshKeypair,
   lxc_config |-> LxcConfig,
   mail |-> Mail,
   network_config |-> NetworkConfig,
   network_interface |-> NetworkInterface,
   nfs |-> Nfs,
   nfs_config |-> NfsConfig,
   ntp_server |-> NtpServer,
   nvmet_global |-> NvmetGlobal,
   nvmet_host |-> NvmetHost,
   nvmet_host_subsys |-> NvmetHostSubsys,
   nvmet_namespace |-> NvmetNamespace,
   nvmet_port |-> NvmetPort,
   nvmet_port_subsys |-> NvmetPortSubsys,
   nvmet_subsys |-> NvmetSubsys,
   periodic_snapshot |-> PeriodicSnapshot,
   pool |-> Pool,
   privilege |-> Privilege,
   replication |-> Replication,
   replication_config |-> ReplicationConfig,
   reporting_exporter |-> ReportingExporter,
   resilver_config |-> ResilverConfig,
   rsync_task |-> RsyncTask,
   scrub_task |-> ScrubTask,
   service |-> Service,
   smb |-> Smb,
   smb_config |-> SmbConfig,
   smb_share_acl |-> SmbShareAcl,
   snapshot |-> Snapshot,
   snmp_config |-> SnmpConfig,
   ssh_config |-> SshConfig,
   static_route |-> StaticRoute,
   system_advanced |-> SystemAdvanced,
   system_dataset |-> SystemDataset,
   system_general |-> SystemGeneral,
   tn_connect_config |-> TnConnectConfig,
   truecommand_config |-> TruecommandConfig,
   tunable |-> Tunable,
   twofactor_auth |-> TwofactorAuth,
   ups_config |-> UpsConfig,
   user |-> User,
   vm |-> Vm,
   vm_device |-> VmDevice,
   vmware |-> Vmware,
   webshare |-> Webshare,
   webshare_config |-> WebshareConfig,
   zvol |-> Zvol]
=============================================================================
