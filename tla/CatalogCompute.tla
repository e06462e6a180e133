--------------------------- MODULE CatalogCompute ---------------------------
(***************************************************************************)
(* The catalog entries of apps, containers and virtual machines: for every *)
(* resource its schema, what its payloads send, how a response is taken    *)
(* into the model, and the steps of its handlers.                          *)
(***************************************************************************)
EXTENDS Steps

-----------------------------------------------------------------------------
(* truenas_app.                                                            *)

AppSchema ==
  Attrs({"id"}, Computed) @@ Attrs({"name"}, Replacing(Required))
    @@ Attrs({"catalog_app"}, Initially("zero", Nonzero(Replacing(Optional))))
    @@ Attrs({"train", "custom_app"}, Mod(Unkept, <<"replace", "keep">>))
    @@ Attrs({"version"}, Sentinel(Kept)) @@ Attrs({"running"}, Kept)
    @@ Attrs({"values"}, Initially("zero", Nonzero(Spelt(Optional))))
    @@ Attrs({"custom_compose_config_string"},
    Excused({"NoDiffAfterApply"}, Initially("zero", Nonzero(Spelt(Optional)))))
    @@ Attrs({"custom_compose_config_string_wo"}, Secret)
    @@ Attrs({"custom_compose_config_string_wo_version"}, Local(Optional))
    @@ Attrs({"state"}, Mod(Volatile, <<"keepSettled">>))
    @@ Attrs({"human_version", "upgrade_available"}, Mod(Volatile, <<"keepUnlessFollowed">>))
AppResponse ==
  Attrs({"catalog_app"}, "ifSet") @@ Attrs({"version"}, "unlessSentinel")
    @@ Attrs({"id", "name", "train", "custom_app", "state", "human_version",
      "upgrade_available", "running"}, "value")
AppCreatePayload ==
  Attrs({"name"}, "always")
    @@ Attrs({"custom_compose_config_string", "values"}, "nonzero")
    @@ Attrs({"catalog_app", "train", "version", "custom_app"}, "known")
AppUpdatePayload ==
  Attrs({"custom_compose_config_string", "values", "custom_compose_config_string_wo"},
    "unlessAllSame")
AppSecrets == Attrs({"custom_compose_config_string_wo"}, "nonzero")
(* Mutant: a document the server spells in its own way is taken as it is.  *)
AppReconcile_AsRead == Attrs({"custom_compose_config_string", "values"}, "value")
AppReconcile ==
  Attrs({"custom_compose_config_string"}, "ifPresent") @@ Attrs({"values"}, "ifManagedAndRead")
AppUpgrade == Attrs({"version"}, "upgrade")
AppCreate ==
  <<Create(AppCreatePayload @@ AppSecrets), Fetch, Update(Attrs({"running"}, "known")),
    Fetch, Take(AppResponse), Save>>
AppRead == <<FetchOrAsk, ForgetIfRunning, Fetch, Take(AppResponse @@ AppReconcile), Save>>
AppUpdate ==
  <<Fetch, Update(AppUpgrade), Update(AppUpdatePayload), Update(Attrs({"running"}, "changed")),
    Fetch, Take(AppResponse), Save>>
AppDelete == <<DeleteOrAsk, GoneIfRunning>>
AppImport == <<SaveName>>
App ==
  Hosted(Resource(AppSchema, AppCreate, AppRead, AppUpdate, AppDelete, AppImport))

-----------------------------------------------------------------------------
(* truenas_app_registry.                                                   *)

AppRegistrySchema ==
  Attrs({"id"}, Computed) @@ Attrs({"name", "username"}, Required)
    @@ Attrs({"description"}, Optional)
    @@ Attrs({"uri"}, Custom(Mod(Kept, <<"keepEquivalent">>)))
    @@ Attrs({"password_wo"}, RequiredSecret)
    @@ Attrs({"password_wo_version"}, Local(Required))
AppRegistryResponse ==
  Attrs({"description"}, "pointer") @@ Attrs({"username"}, "unlessRedacted")
    @@ Attrs({"id", "name", "uri"}, "value")
(* Mutant: the uri is sent whether or not it is known.                     *)
AppRegistryPayload_AlwaysUri ==
  Attrs({"description"}, "nullable") @@ Attrs({"password_wo"}, "known")
    @@ Attrs({"name", "username", "uri"}, "always")
AppRegistryPayload ==
  Attrs({"description"}, "nullable") @@ Attrs({"uri", "password_wo"}, "known")
    @@ Attrs({"name", "username"}, "always")
AppRegistryCreate ==
  <<Create(AppRegistryPayload), Take(AppRegistryResponse), Save>>
AppRegistryRead == <<FetchOrForget, Take(AppRegistryResponse), Save>>
AppRegistry ==
  Resource(AppRegistrySchema, AppRegistryCreate, AppRegistryRead,
    <<Update(IfChanged(Attrs({"password_wo"}, "known")) @@ AppRegistryPayload), Fetch,
      Take(AppRegistryResponse), Save>>, <<Delete>>,
    <<Fetch, Take(AppRegistryResponse), Save>>)

-----------------------------------------------------------------------------
(* truenas_catalog_config.                                                 *)

CatalogConfigSchema ==
  Attrs({"id", "label", "location"}, Computed) @@ Attrs({"preferred_trains"}, Kept)
CatalogConfigResponse ==
  Attrs({"id"}, "fixed") @@ Attrs({"label", "location", "preferred_trains"}, "value")
CatalogConfigUpdatePayload == Attrs({"preferred_trains"}, "known")
CatalogConfigCreate ==
  <<Update(CatalogConfigUpdatePayload), Fetch, Take(CatalogConfigResponse), Save>>
CatalogConfigRead == <<Fetch, Take(CatalogConfigResponse), Save>>
CatalogConfig ==
  Resource(CatalogConfigSchema, CatalogConfigCreate, CatalogConfigRead,
    <<Update(CatalogConfigUpdatePayload), Fetch, Take(CatalogConfigResponse), Save>>,
    <<LeaveInPlace>>, <<SaveId>>)

-----------------------------------------------------------------------------
(* truenas_docker_config.                                                  *)

DockerConfigSchema ==
  Attrs({"id", "dataset"}, Computed)
    @@ Attrs({"enable_image_updates", "pool", "nvidia", "address_pools"}, Kept)
    @@ Attrs({"cidr_v6"}, Custom(Mod(Kept, <<"keepEquivalent">>)))
    @@ Attrs({"registry_mirrors"}, Spelt(Kept))
DockerConfigResponse ==
  Attrs({"id"}, "fixed") @@ Attrs({"nvidia"}, "pointer")
    @@ Attrs({"registry_mirrors"}, "keepEquivalent")
    @@ Attrs({"enable_image_updates", "pool", "dataset", "cidr_v6", "address_pools"},
    "value")
DockerConfigUpdatePayload ==
  Attrs({"pool"}, "nullable")
    @@ Attrs({"enable_image_updates", "cidr_v6", "address_pools", "registry_mirrors"},
    "known")
DockerConfigModifyPlan == Attrs({"dataset"}, <<"unknownIfFollowed">>)
DockerConfigNvidiaSupport == Attrs({"nvidia"}, "configured")
DockerConfigCreate ==
  <<Check, Update(DockerConfigUpdatePayload @@ DockerConfigNvidiaSupport), Fetch,
    Take(DockerConfigResponse), Save>>
DockerConfigRead == <<Fetch, Take(DockerConfigResponse), Save>>
DockerConfig ==
  Resource(Amend(DockerConfigSchema, DockerConfigModifyPlan), DockerConfigCreate,
    DockerConfigRead,
    <<Check, Update(DockerConfigUpdatePayload @@ DockerConfigNvidiaSupport), Fetch,
      Take(DockerConfigResponse), Save>>, <<LeaveInPlace>>, <<SaveId>>)

-----------------------------------------------------------------------------
(* truenas_container.                                                      *)

ContainerSchema ==
  Attrs({"id", "uuid", "default_network"}, Computed) @@ Attrs({"name"}, Required)
    @@ Attrs({"pool"}, Replacing(Required))
    @@ Attrs({"image"}, Once(Mod(Required, <<"replaceFromKnown">>)))
    @@ Attrs({"description", "autostart", "shutdown_timeout", "init", "initenv",
      "capabilities_state"}, Kept)
    @@ Attrs({"cpuset", "initdir", "inituser", "initgroup"}, Optional)
    @@ Attrs({"time", "capabilities_policy"}, Nonzero(Kept))
    @@ Attrs({"idmap"}, Once(Spelt(Mod(Kept, <<"idmapReplace">>))))
    @@ Attrs({"running"}, Initially("zero", Kept))
    @@ Attrs({"dataset", "status"}, Mod(Volatile, <<"keepUnlessFollowed">>))
ContainerResponse ==
  Attrs({"cpuset", "initdir", "inituser", "initgroup"}, "pointer")
    @@ Attrs(DOMAIN ContainerSchema \ {"image", "idmap"}, "value")
ContainerCreatePayload ==
  Attrs({"name", "pool", "image"}, "always")
    @@ Attrs({"cpuset", "initdir", "inituser", "initgroup"}, "nullable")
    @@ Attrs({"description", "autostart", "time", "shutdown_timeout", "init",
      "capabilities_policy", "initenv", "capabilities_state", "idmap"}, "known")
ContainerUpdatePayload ==
  Attrs({"name"}, "always")
    @@ Attrs({"cpuset", "initdir", "inituser", "initgroup"}, "nullable")
    @@ Attrs({"description", "autostart", "time", "shutdown_timeout", "init",
      "capabilities_policy", "initenv", "capabilities_state"}, "known")
ContainerIdmapResponse == Attrs({"idmap"}, "ifUnknown")
ContainerIdmapImport == Attrs({"idmap"}, "pointer")
ContainerStart == Attrs({"running"}, "nonzero")
ContainerCreate ==
  <<Check, Create(ContainerCreatePayload), FetchOrRecord,
    Take(ContainerIdmapResponse @@ ContainerResponse), Save, Update(ContainerStart),
    Fetch, Take(ContainerResponse), Save>>
ContainerRead == <<Check, FetchOrForget, Take(ContainerResponse), Save>>
Container ==
  Recorded(Resource(ContainerSchema, ContainerCreate, ContainerRead,
      <<Check, Update(ContainerUpdatePayload), Update(Attrs({"running"}, "changed")),
      Fetch, Take(ContainerResponse), Save>>, <<Check, Check, Delete>>,
      <<Check, Fetch, Take(ContainerIdmapImport @@ ContainerResponse), Save>>))

-----------------------------------------------------------------------------
(* truenas_container_device.                                               *)

ContainerDeviceSchema ==
  Attrs({"id"}, Computed) @@ Attrs({"container"}, Replacing(Required))
    @@ Attrs({"attributes"},
    Excused({"NoDiffAfterApply"}, Spelt(Mod(Required, <<"keepImported">>))))
ContainerDeviceResponse == Attrs({"id", "container"}, "value")
ContainerDeviceCreatePayload == Attrs({"container", "attributes"}, "always")
ContainerDeviceUpdatePayload == Attrs({"attributes"}, "always")
ContainerDeviceDrift == Attrs({"attributes"}, "keepEquivalent")
ContainerDeviceCreate ==
  <<Check, Create(ContainerDeviceCreatePayload), Fetch, Take(ContainerDeviceResponse),
    SetImported(FALSE), Save>>
ContainerDeviceRead ==
  <<Check, FetchOrForget, Take(ContainerDeviceResponse @@ ContainerDeviceDrift), Save>>
ContainerDevice ==
  Resource(ContainerDeviceSchema, ContainerDeviceCreate, ContainerDeviceRead,
    <<Check, Update(ContainerDeviceUpdatePayload), Fetch, Take(ContainerDeviceResponse),
      SetImported(FALSE), Save>>, <<Check, Delete>>,
    <<Check, Fetch, Take(Attrs({"attributes"}, "value") @@ ContainerDeviceResponse),
      SetImported(TRUE), Save>>)

-----------------------------------------------------------------------------
(* truenas_lxc_config.                                                     *)

LxcConfigSchema ==
  Attrs({"id"}, Computed) @@ Attrs({"preferred_pool", "v4_network", "v6_network"}, Kept)
    @@ Attrs({"bridge"}, Nonzero(Spelt(Kept)))
LxcConfigResponse ==
  Attrs({"id"}, "fixed") @@ Attrs({"bridge"}, "keepEquivalent")
    @@ Attrs({"preferred_pool", "v4_network", "v6_network"}, "value")
LxcConfigUpdatePayload ==
  Attrs({"preferred_pool", "bridge"}, "nullable")
    @@ Attrs({"v4_network", "v6_network"}, "configured")
LxcConfigCreate ==
  <<Check, Update(LxcConfigUpdatePayload), Fetch, Take(LxcConfigResponse), Save>>
LxcConfigRead == <<Check, Fetch, Take(LxcConfigResponse), Save>>
LxcConfig ==
  Resource(LxcConfigSchema, LxcConfigCreate, LxcConfigRead,
    <<Check, Update(LxcConfigUpdatePayload), Fetch, Take(LxcConfigResponse), Save>>,
    <<LeaveInPlace>>, <<SaveId>>)

-----------------------------------------------------------------------------
(* truenas_vm.                                                             *)

VmSchema ==
  Attrs({"id"}, Computed) @@ Attrs({"name", "memory"}, Required)
    @@ Attrs({"description", "min_memory", "vcpus", "cores", "threads", "autostart",
      "shutdown_timeout", "cpu_model", "machine_type", "arch_type", "command_line_args",
      "cpuset", "nodeset", "trusted_platform_module", "pin_vcpus", "hide_from_msr",
      "hyperv_enlightenments", "enable_cpu_topology_extension", "suspend_on_snapshot"},
    Kept) @@ Attrs({"bootloader", "time", "cpu_mode"}, Nonzero(Kept))
    @@ Attrs({"running"}, Initially("zero", Kept))
    @@ Attrs({"bootloader_ovmf"}, LosesZero(Replacing(Kept)))
    @@ Attrs({"enable_secure_boot"}, Replacing(Kept))
    @@ Attrs({"status"}, Mod(Volatile, <<"keepUnlessFollowed">>))
VmResponse ==
  Attrs({"bootloader_ovmf"}, "pointer") @@ Attrs(DOMAIN VmSchema, "value")
VmPayload ==
  Attrs({"name", "memory"}, "always")
    @@ Attrs({"cpu_model", "min_memory", "machine_type", "arch_type", "cpuset",
      "nodeset"}, "knownNilZero") @@ Attrs({"bootloader_ovmf"}, "nonzero")
    @@ Attrs(DOMAIN VmSchema \ {"id", "running", "status"}, "known")
VmUpdatePayload == Without(VmPayload, {"bootloader_ovmf", "enable_secure_boot"})
VmCreate ==
  <<Create(VmPayload), FetchOrRecord, Take(VmResponse), Save,
    Update(Attrs({"running"}, "nonzero")), Fetch, Take(VmResponse), Save>>
VmRead == <<FetchOrForget, Take(VmResponse), Save>>
Vm ==
  Recorded(Resource(VmSchema, VmCreate, VmRead,
      <<Update(VmUpdatePayload), Update(Attrs({"running"}, "changed")), Fetch,
      Take(VmResponse), Save>>, <<Check, Check, Delete>>,
      <<Fetch, Take(VmResponse), Save>>))

-----------------------------------------------------------------------------
(* truenas_vm_device.                                                      *)

VmDeviceSchema ==
  Attrs({"id"}, Computed) @@ Attrs({"vm"}, Replacing(Required))
    @@ Attrs({"attributes"}, Spelt(Mod(Required, <<"keepImported">>)))
    @@ Attrs({"attributes_secrets_wo"}, Secret)
    @@ Attrs({"attributes_secrets_wo_version"}, Local(Optional))
    @@ Attrs({"order"}, Kept)
VmDeviceResponse == Attrs({"id", "vm", "order"}, "value")
VmDeviceCreatePayload ==
  Attrs({"order"}, "known") @@ Attrs({"vm", "attributes"}, "always")
VmDeviceUpdatePayload ==
  Attrs({"attributes"}, "always") @@ Attrs({"order"}, "known")
VmDeviceSecrets == Attrs({"attributes_secrets_wo"}, "nonzero")
VmDeviceDrift == Attrs({"attributes"}, "keepEquivalent")
VmDeviceCreate ==
  <<Create(VmDeviceCreatePayload @@ VmDeviceSecrets), Fetch, Take(VmDeviceResponse),
    SetImported(FALSE), Save>>
VmDeviceRead == <<FetchOrForget, Take(VmDeviceResponse @@ VmDeviceDrift), Save>>
VmDevice ==
  Resource(VmDeviceSchema, VmDeviceCreate, VmDeviceRead,
    <<Update(VmDeviceUpdatePayload @@ IfChanged(VmDeviceSecrets)), Fetch,
      Take(VmDeviceResponse), KeepImported, Save>>, <<Delete>>,
    <<Fetch, Take(Attrs({"attributes"}, "value") @@ VmDeviceResponse),
      SetImported(TRUE), Save>>)
=============================================================================
