-------------------------- MODULE CatalogAccounts --------------------------
(***************************************************************************)
(* The catalog entries of users, groups, privileges and credentials: who   *)
(* may do what, and the keys and certificates they do it with: for every   *)
(* resource its schema, what its payloads send, how a response is taken    *)
(* into the model, and the steps of its handlers.                          *)
(***************************************************************************)
EXTENDS Steps

-----------------------------------------------------------------------------
(* truenas_user: groups are compared on the configured ones: those the     *)
(* appliance adds are ignored.                                             *)

UserSchema ==
  Attrs({"id", "builtin", "immutable", "local"}, Computed)
    @@ Attrs({"uid"}, Mod(Unkept, <<"replace", "keep">>))
    @@ Attrs({"username"}, Replacing(Required)) @@ Attrs({"full_name"}, Required)
    @@ Attrs({"email", "home", "shell", "locked", "password_disabled", "smb",
      "webshare", "ssh_password_enabled", "sudo_commands", "sudo_commands_nopasswd",
      "group"}, Kept)
    @@ Attrs({"home_mode"},
    LosesZero(Custom(Mod(Unkept, <<"keepEquivalent", "keep">>))))
    @@ Attrs({"sshpubkey"}, Custom(Mod(Unkept, <<"keepEquivalent", "keep">>)))
    @@ Attrs({"groups"}, Spelt(Kept)) @@ Attrs({"group_create"}, Once(Kept))
    @@ Attrs({"password"}, Secret) @@ Attrs({"password_wo_version"}, Local(Optional))
UserResponse ==
  Attrs({"groups"}, "keepEquivalent") @@ Attrs({"group"}, "pointer")
    @@ Attrs({"group_create"}, "ifUnset") @@ Attrs({"home_mode"}, "nullIfUnknown")
    @@ Attrs(DOMAIN UserSchema \ {"password", "password_wo_version"}, "value")
UserBasePayload ==
  Attrs({"email", "sshpubkey"}, "knownNilZero") @@ Attrs({"home_mode"}, "nonzero")
    @@ Attrs({"full_name", "home", "shell", "locked", "password_disabled", "smb",
      "webshare", "ssh_password_enabled", "group", "groups", "sudo_commands",
      "sudo_commands_nopasswd"}, "known")
UserCreatePayload ==
  Attrs({"username"}, "always") @@ Attrs({"uid", "group_create"}, "known")
    @@ UserBasePayload
UserUpdatePayload == IfChanged(UserBasePayload)
UserModifyPlan == Attrs({"group_create"}, <<"inferredOnCreate">>)
UserSecrets == Attrs({"password"}, "known")
(* Sent when its version moved, or when smb is turned on.                  *)
UserResentSecrets == Attrs({"password"}, "unlessAllSame")
UserCreate ==
  <<Create(UserCreatePayload @@ UserSecrets), Fetch, Take(UserResponse), Save>>
UserRead == <<FetchOrForget, Take(UserResponse), Save>>
User ==
  Resource(Amend(UserSchema, UserModifyPlan), UserCreate, UserRead,
    <<Update(UserUpdatePayload @@ UserResentSecrets), Fetch, Take(UserResponse),
      Save>>, <<Delete>>,
    <<Fetch, Take(UserResponse), Check, Take(Attrs({"home_mode"}, "value")), Save>>)

-----------------------------------------------------------------------------
(* truenas_group.                                                          *)

GroupSchema ==
  Attrs({"id", "builtin", "immutable", "local"}, Computed)
    @@ Attrs({"gid"}, Mod(Unkept, <<"replace", "keep">>))
    @@ Attrs({"name"}, Replacing(Required))
    @@ Attrs({"smb", "sudo_commands", "sudo_commands_nopasswd"}, Kept)
    @@ Attrs({"users"}, Custom(Mod(Unkept, <<"keepEquivalent", "keep">>)))
GroupResponse == Attrs(DOMAIN GroupSchema, "value")
GroupBasePayload ==
  Attrs({"smb", "sudo_commands", "sudo_commands_nopasswd", "users"}, "known")
GroupCreatePayload ==
  Attrs({"name"}, "always") @@ Attrs({"gid"}, "known") @@ GroupBasePayload
GroupUpdatePayload == IfChanged(GroupBasePayload)
GroupCreate ==
  <<Create(GroupCreatePayload), Fetch, Check, Take(GroupResponse), Save>>
GroupRead == <<FetchOrForget, Check, Take(GroupResponse), Save>>
Group ==
  Resource(GroupSchema, GroupCreate, GroupRead,
    <<Update(GroupUpdatePayload), Fetch, Check, Take(GroupResponse), Save>>, <<Delete>>,
    <<Fetch, Check, Take(GroupResponse), Save>>)

-----------------------------------------------------------------------------
(* truenas_privilege.                                                      *)

PrivilegeSchema ==
  Attrs({"id", "builtin_name"}, Computed) @@ Attrs({"name", "web_shell"}, Required)
    @@ Attrs({"local_groups", "ds_groups", "roles"}, Initially("zero", Kept))
PrivilegeResponse ==
  Attrs({"builtin_name"}, "pointer") @@ Attrs(DOMAIN PrivilegeSchema, "value")
PrivilegePayload ==
  Attrs({"name", "web_shell", "local_groups", "ds_groups", "roles"}, "always")
PrivilegeCreate == <<Create(PrivilegePayload), Take(PrivilegeResponse), Save>>
PrivilegeRead == <<FetchOrForget, Take(PrivilegeResponse), Save>>
Privilege ==
  Resource(PrivilegeSchema, PrivilegeCreate, PrivilegeRead,
    <<Update(PrivilegePayload), Take(PrivilegeResponse), Save>>, <<Delete>>,
    <<Fetch, Take(PrivilegeResponse), Save>>)

-----------------------------------------------------------------------------
(* truenas_api_key.                                                        *)

ApiKeySchema ==
  Attrs({"id", "key", "created_at", "local", "revoked"}, Computed)
    @@ Attrs({"name"}, Required) @@ Attrs({"username"}, Replacing(Required))
    @@ Attrs({"expires_at"}, Custom(Mod(Optional, <<"keepEquivalent">>)))
ApiKeyResponse ==
  Attrs({"expires_at"}, "pointer") @@ Attrs(DOMAIN ApiKeySchema \ {"key"}, "value")
ApiKeyCreatePayload ==
  Attrs({"expires_at"}, "nil") @@ Attrs({"username", "name"}, "always")
ApiKeyUpdatePayload == Attrs({"expires_at"}, "nil") @@ Attrs({"name"}, "always")
ApiKeyCreate ==
  <<Create(ApiKeyCreatePayload), Take(ApiKeyResponse), Check,
    Take(Attrs({"key"}, "value")), Save>>
ApiKeyRead == <<FetchOrForget, Take(ApiKeyResponse), Save>>
ApiKey ==
  Resource(ApiKeySchema, ApiKeyCreate, ApiKeyRead,
    <<Update(ApiKeyUpdatePayload), Take(ApiKeyResponse), Save>>, <<Delete>>,
    <<Fetch, Take(ApiKeyResponse @@ Attrs({"key"}, "null")), Save>>)

-----------------------------------------------------------------------------
(* truenas_twofactor_auth.                                                 *)

TwofactorAuthSchema ==
  Attrs({"id"}, Computed) @@ Attrs({"enabled", "window", "services"}, Kept)
TwofactorAuthResponse ==
  Attrs({"id"}, "fixed") @@ Attrs({"enabled", "window", "services"}, "value")
TwofactorAuthUpdatePayload ==
  Attrs({"enabled", "window", "services"}, "configured")
TwofactorAuthCreate ==
  <<Update(TwofactorAuthUpdatePayload), Fetch, Take(TwofactorAuthResponse), Save>>
TwofactorAuthRead == <<Fetch, Take(TwofactorAuthResponse), Save>>
TwofactorAuth ==
  Resource(TwofactorAuthSchema, TwofactorAuthCreate, TwofactorAuthRead,
    <<Update(TwofactorAuthUpdatePayload), Fetch, Take(TwofactorAuthResponse), Save>>,
    <<LeaveInPlace>>, <<SaveId>>)

-----------------------------------------------------------------------------
(* truenas_directoryservices: with enable set: a disabled configuration    *)
(* sends only enable and the first three settings.                         *)

DirectoryservicesSchema ==
  Attrs({"id"}, Computed) @@ Attrs({"service_type", "timeout"}, Nonzero(Kept))
    @@ Attrs({"enable"}, Required)
    @@ Attrs({"enable_account_cache", "enable_dns_updates", "kerberos_realm",
      "configuration_activedirectory", "configuration_ldap", "configuration_ipa"}, Kept)
    @@ Attrs({"credential"}, Once(Optional))
DirectoryservicesResponse ==
  Attrs({"id"}, "fixed")
    @@ Attrs({"service_type", "configuration_activedirectory", "configuration_ldap",
      "configuration_ipa"}, "pointer")
    @@ Attrs({"enable", "enable_account_cache", "enable_dns_updates", "timeout",
      "kerberos_realm"}, "value")
DirectoryservicesUpdatePayload ==
  Attrs({"enable"}, "always") @@ Attrs({"kerberos_realm"}, "knownNilZero")
    @@ Attrs(DOMAIN DirectoryservicesSchema \ {"id"}, "known")
DirectoryservicesReset ==
  Attrs({"enable"}, "maybeZero")
    @@ Attrs({"service_type", "configuration_activedirectory", "configuration_ldap",
      "configuration_ipa"}, "maybeNull")
DirectoryservicesDisable == Attrs({"enable"}, "maybeZero")
DirectoryservicesCreate ==
  <<Fetch, Update(DirectoryservicesReset), Fetch,
    Update(DirectoryservicesUpdatePayload), Fetch, Take(DirectoryservicesResponse),
    Save, Check>>
DirectoryservicesRead == <<Fetch, Take(DirectoryservicesResponse), Save>>
DirectoryservicesUpdate ==
  <<Fetch, Update(DirectoryservicesReset), Fetch, Update(DirectoryservicesDisable),
    Fetch, Update(DirectoryservicesUpdatePayload), Fetch,
    Take(DirectoryservicesResponse), Save, Check>>
Directoryservices ==
  Resource(DirectoryservicesSchema, DirectoryservicesCreate, DirectoryservicesRead,
    DirectoryservicesUpdate, <<Update(Attrs({"enable"}, "zero"))>>, <<SaveId>>)

-----------------------------------------------------------------------------
(* truenas_kerberos_config.                                                *)

KerberosConfigSchema ==
  Attrs({"id"}, Computed) @@ Attrs({"appdefaults_aux", "libdefaults_aux"}, Kept)
KerberosConfigResponse ==
  Attrs({"id"}, "fixed") @@ Attrs({"appdefaults_aux", "libdefaults_aux"}, "value")
KerberosConfigUpdatePayload ==
  Attrs({"appdefaults_aux", "libdefaults_aux"}, "known")
KerberosConfigCreate ==
  <<Update(KerberosConfigUpdatePayload), Fetch, Take(KerberosConfigResponse), Save>>
KerberosConfigRead == <<Fetch, Take(KerberosConfigResponse), Save>>
KerberosConfig ==
  Resource(KerberosConfigSchema, KerberosConfigCreate, KerberosConfigRead,
    <<Update(KerberosConfigUpdatePayload), Fetch, Take(KerberosConfigResponse), Save>>,
    <<LeaveInPlace>>, <<SaveId>>)

-----------------------------------------------------------------------------
(* truenas_kerberos_keytab.                                                *)

KerberosKeytabSchema ==
  Attrs({"id"}, Computed) @@ Attrs({"name"}, Required) @@ Attrs({"file"}, Optional)
    @@ Attrs({"file_wo"}, Secret) @@ Attrs({"file_wo_version"}, Local(Optional))
KerberosKeytabResponse ==
  Attrs({"file"}, "redactable") @@ Attrs({"id", "name"}, "value")
KerberosKeytabPayload == Attrs({"name"}, "always") @@ Attrs({"file"}, "known")
KerberosKeytabSecrets == Attrs({"file_wo"}, "known")
KerberosKeytabCreate ==
  <<Create(KerberosKeytabPayload @@ KerberosKeytabSecrets),
    Take(KerberosKeytabResponse), Save>>
KerberosKeytabRead == <<FetchOrForget, Take(KerberosKeytabResponse), Save>>
KerberosKeytab ==
  Resource(KerberosKeytabSchema, KerberosKeytabCreate, KerberosKeytabRead,
    <<Update(KerberosKeytabPayload @@ IfChanged(KerberosKeytabSecrets)),
      Take(KerberosKeytabResponse), Save>>, <<Delete>>,
    <<Fetch, Take(KerberosKeytabResponse), Save>>)

-----------------------------------------------------------------------------
(* truenas_kerberos_realm.                                                 *)

KerberosRealmSchema ==
  Attrs({"id"}, Computed) @@ Attrs({"realm"}, Required)
    @@ Attrs({"primary_kdc"}, Nonzero(Optional))
    @@ Attrs({"kdc", "admin_server", "kpasswd_server"}, Kept)
KerberosRealmResponse ==
  Attrs({"primary_kdc"}, "pointer")
    @@ Attrs({"id", "realm", "kdc", "admin_server", "kpasswd_server"}, "value")
KerberosRealmPayload ==
  Attrs({"realm"}, "always") @@ Attrs({"primary_kdc"}, "nil")
    @@ Attrs({"kdc", "admin_server", "kpasswd_server"}, "known")
KerberosRealmCreate ==
  <<Create(KerberosRealmPayload), Take(KerberosRealmResponse), Save>>
KerberosRealmRead == <<FetchOrForget, Take(KerberosRealmResponse), Save>>
KerberosRealm ==
  Resource(KerberosRealmSchema, KerberosRealmCreate, KerberosRealmRead,
    <<Update(KerberosRealmPayload), Take(KerberosRealmResponse), Save>>, <<Delete>>,
    <<Fetch, Take(KerberosRealmResponse), Save>>)

-----------------------------------------------------------------------------
(* truenas_keychain_ssh_connection.                                        *)

KeychainSshConnectionSchema ==
  Attrs({"id"}, Computed)
    @@ Attrs({"name", "host", "private_key_id", "remote_host_key"}, Required)
    @@ Attrs({"port", "connect_timeout"},
    Excused({"UnsetGetsServerDefault"},
      Nonzero(Mod(Unkept, <<"resetWhenUnset", "keep">>))))
    @@ Attrs({"username"},
    Excused({"UnsetGetsServerDefault"}, Mod(Unkept, <<"resetWhenUnset", "keep">>)))
KeychainSshConnectionAttributesPayload ==
  Attrs(DOMAIN KeychainSshConnectionSchema \ {"id", "name"}, "always")
KeychainSshConnectionCreatePayload ==
  Attrs({"name"}, "always") @@ KeychainSshConnectionAttributesPayload
KeychainSshConnectionUpdatePayload ==
  Attrs({"name"}, "always") @@ KeychainSshConnectionAttributesPayload
KeychainSshConnectionResponse == Attrs(DOMAIN KeychainSshConnectionSchema, "value")
KeychainSshConnectionCreate ==
  <<Create(KeychainSshConnectionCreatePayload), Check,
    Take(KeychainSshConnectionResponse), RecordManaged, Save>>
KeychainSshConnectionRead ==
  <<FetchOrForget, Check, Take(KeychainSshConnectionResponse), Save>>
KeychainSshConnection ==
  Resource(KeychainSshConnectionSchema, KeychainSshConnectionCreate,
    KeychainSshConnectionRead,
    <<Update(KeychainSshConnectionUpdatePayload), Check,
      Take(KeychainSshConnectionResponse), Save>>, <<Delete>>,
    <<Fetch, Check, Take(KeychainSshConnectionResponse), Save>>)

-----------------------------------------------------------------------------
(* truenas_keychain_ssh_keypair.                                           *)

KeychainSshKeypairSchema ==
  Attrs({"id", "public_key"}, Computed) @@ Attrs({"name"}, Required)
    @@ Attrs({"generate"}, Once(Mod(Kept, <<"replaceFromKnown">>)))
    @@ Attrs({"private_key"},
    Custom(Mod(Unkept, <<"keepEquivalent", "keep", "replace">>)))
KeychainSshKeypairCreatePayload ==
  Attrs({"private_key"}, "knownOrImplied") @@ Attrs({"name"}, "always")
KeychainSshKeypairUpdatePayload == Attrs({"name"}, "always")
KeychainSshKeypairResponse ==
  Attrs({"id", "name", "private_key", "public_key"}, "value")
KeychainSshKeypairCreate ==
  <<Check, Create(KeychainSshKeypairCreatePayload), Check,
    Take(Attrs({"generate"}, "orZero") @@ KeychainSshKeypairResponse), Save>>
KeychainSshKeypairRead ==
  <<FetchOrForget, Check, Take(KeychainSshKeypairResponse), Save>>
KeychainSshKeypair ==
  Resource(KeychainSshKeypairSchema, KeychainSshKeypairCreate, KeychainSshKeypairRead,
    <<Update(KeychainSshKeypairUpdatePayload), Check, Take(KeychainSshKeypairResponse),
      Save>>, <<Delete>>,
    <<Fetch, Check, Take(Attrs({"generate"}, "null") @@ KeychainSshKeypairResponse),
      Save>>)

-----------------------------------------------------------------------------
(* truenas_certificate: privatekey as of a stored key, of a certificate    *)
(* that is not ACME's.                                                     *)

CertificateSchema ==
  Attrs({"id"}, Computed) @@ Attrs({"name"}, Required)
    @@ Attrs({"create_type"}, Once(Nonzero(Mod(Required, <<"replaceFromKnown">>))))
    @@ Attrs({"add_to_trusted_store"}, Default(Unkept, "zero"))
    @@ Attrs({"renew_days"}, Nonzero(Kept))
    @@ Attrs({"certificate", "csr", "city", "common", "country", "organization",
      "organizational_unit", "state"}, Replacing(Kept))
    @@ Attrs({"privatekey"}, Nonzero(Spelt(Mod(Kept, <<"replaceUnlessEquivalent">>))))
    @@ Attrs({"store_privatekey"}, Local(Default(Replacing(Kept), "nonzero")))
    @@ Attrs({"key_type", "key_length"}, Nonzero(Replacing(Kept)))
    @@ Attrs({"ec_curve"}, Once(Nonzero(Mod(Optional, <<"replaceFromKnown">>))))
    @@ Attrs({"passphrase", "acme_directory_uri", "csr_id", "tos", "dns_mapping"},
    Once(Mod(Optional, <<"replaceFromKnown">>)))
    @@ Attrs({"email", "san"},
    Custom(Mod(Unkept, <<"keepEquivalent", "keep", "replace">>)))
    @@ Attrs({"digest_algorithm"}, Nonzero(Mod(Kept, <<"replaceFromKnown">>)))
    @@ Attrs({"certificate_path", "privatekey_path", "csr_path", "root_path",
      "cert_type", "fingerprint", "expired"}, Volatile)
CertificateCreatePayload ==
  Attrs({"name", "create_type"}, "always")
    @@ Attrs({"add_to_trusted_store", "renew_days", "certificate", "privatekey", "csr",
      "key_type", "key_length", "ec_curve", "passphrase", "city", "common", "country",
      "email", "organization", "organizational_unit", "state", "digest_algorithm",
      "acme_directory_uri", "csr_id", "tos", "san", "dns_mapping"}, "known")
CertificateUpdatePayload ==
  Attrs({"name"}, "always") @@ Attrs({"add_to_trusted_store", "renew_days"}, "known")
CertificateResponse ==
  Attrs({"privatekey"}, "keepEquivalent") @@ Attrs({"digest_algorithm"}, "ifSet")
    @@ Attrs({"id", "name", "add_to_trusted_store", "renew_days", "certificate", "csr",
      "key_type", "key_length", "city", "common", "country", "email", "organization",
      "organizational_unit", "state", "certificate_path", "privatekey_path", "csr_path",
      "root_path", "cert_type", "fingerprint", "expired", "san"}, "value")
CertificateCreate ==
  <<Check, Create(CertificateCreatePayload), Fetch, Take(CertificateResponse), Save>>
CertificateRead == <<FetchOrForget, Take(CertificateResponse), Save>>
Certificate ==
  Resource(CertificateSchema, CertificateCreate, CertificateRead,
    <<Check, Update(CertificateUpdatePayload), Fetch, Take(CertificateResponse), Save>>,
    <<Delete>>,
    <<Fetch, Take(Attrs({"create_type"}, "value")
      @@ Attrs({"store_privatekey"}, "fixed") @@ CertificateResponse), Save>>)

-----------------------------------------------------------------------------
(* truenas_acme_dns_authenticator.                                         *)

AcmeDnsAuthenticatorSchema ==
  Attrs({"id"}, Computed) @@ Attrs({"name"}, Required)
    @@ Attrs({"attributes"},
    Excused({"NoDiffAfterApply"}, Custom(Mod(Required, <<"keepImported">>))))
    @@ Attrs({"attributes_secrets_wo"}, Secret)
    @@ Attrs({"attributes_secrets_wo_version"}, Local(Optional))
AcmeDnsAuthenticatorResponse == Attrs({"id", "name"}, "value")
AcmeDnsAuthenticatorCreatePayload == Attrs({"name", "attributes"}, "always")
AcmeDnsAuthenticatorUpdatePayload == AcmeDnsAuthenticatorCreatePayload
AcmeDnsAuthenticatorSecrets == Attrs({"attributes_secrets_wo"}, "nonzero")
AcmeDnsAuthenticatorRefresh == Attrs({"attributes"}, "unlessRedacted")
AcmeDnsAuthenticatorCreate ==
  <<Create(AcmeDnsAuthenticatorCreatePayload @@ AcmeDnsAuthenticatorSecrets),
    Take(AcmeDnsAuthenticatorResponse), SetImported(FALSE), Save>>
AcmeDnsAuthenticatorRead ==
  <<FetchOrForget, Take(AcmeDnsAuthenticatorResponse @@ AcmeDnsAuthenticatorRefresh),
    Save>>
AcmeDnsAuthenticatorUpdate ==
  <<Fetch, Update(AcmeDnsAuthenticatorUpdatePayload
      @@ IfChanged(AcmeDnsAuthenticatorSecrets)), Take(AcmeDnsAuthenticatorResponse),
    SetImported(FALSE), Save>>
AcmeDnsAuthenticator ==
  Resource(AcmeDnsAuthenticatorSchema, AcmeDnsAuthenticatorCreate,
    AcmeDnsAuthenticatorRead, AcmeDnsAuthenticatorUpdate, <<Delete>>,
    <<Fetch, Take(AcmeDnsAuthenticatorResponse), Check,
      Take(Attrs({"attributes"}, "value")), SetImported(TRUE), Save>>)
=============================================================================
