--------------------------- MODULE CatalogNetwork ---------------------------
(***************************************************************************)
(* The catalog entries of interfaces, routes and the global network        *)
(* settings: for every resource its schema, what its payloads send, how a  *)
(* response is taken into the model, and the steps of its handlers.        *)
(***************************************************************************)
EXTENDS Steps

-----------------------------------------------------------------------------
(* truenas_network_config.                                                 *)

NetworkConfigSchema ==
  Attrs({"id"}, Computed)
    @@ Attrs({"hostname", "domain", "domains", "hosts", "httpproxy", "ipv4gateway",
      "ipv6gateway", "nameserver1", "nameserver2", "nameserver3",
      "service_announcement"}, Kept)
NetworkConfigResponse ==
  Attrs({"id"}, "fixed") @@ Attrs({"service_announcement"}, "pointer")
    @@ Attrs(DOMAIN NetworkConfigSchema, "value")
NetworkConfigUpdatePayload == Attrs(DOMAIN NetworkConfigSchema \ {"id"}, "known")
NetworkConfigCreate ==
  <<Update(NetworkConfigUpdatePayload), Fetch, Take(NetworkConfigResponse), Save>>
NetworkConfigRead == <<Fetch, Take(NetworkConfigResponse), Save>>
NetworkConfig ==
  Resource(NetworkConfigSchema, NetworkConfigCreate, NetworkConfigRead,
    <<Update(NetworkConfigUpdatePayload), Fetch, Take(NetworkConfigResponse), Save>>,
    <<LeaveInPlace>>, <<SaveId>>)

-----------------------------------------------------------------------------
(* truenas_network_interface: one interface; its creation and removal      *)
(* through staged changes is InterfaceStaging's. A member attribute is     *)
(* followed on an interface of its type.                                   *)

NetworkInterfaceSchema ==
  Attrs({"id"}, Computed) @@ Attrs({"name"}, Replacing(Required))
    @@ Attrs({"type"}, Nonzero(Replacing(Required)))
    @@ Attrs({"description", "ipv4_dhcp", "ipv6_auto", "aliases", "bridge_members",
      "lag_ports"}, Initially("zero", Kept))
    @@ Attrs({"mtu"}, Initially("zero", LosesZero(Kept)))
    @@ Attrs({"stp", "vlan_parent_interface", "vlan_tag", "enable_learning",
      "vlan_pcp"}, Kept)
    @@ Attrs({"lag_protocol", "lacpdu_rate", "xmit_hash_policy"}, Nonzero(Kept))
NetworkInterfaceResponse ==
  Attrs({"stp", "enable_learning", "lacpdu_rate", "xmit_hash_policy", "vlan_pcp"},
    "pointer") @@ Attrs(DOMAIN NetworkInterfaceSchema, "value")
NetworkInterfaceBasePayload ==
  Attrs({"description", "ipv4_dhcp", "ipv6_auto", "aliases", "bridge_members",
      "lag_ports"}, "always") @@ Attrs({"mtu"}, "nonzero")
    @@ Attrs({"enable_learning", "stp", "lag_protocol", "lacpdu_rate",
      "xmit_hash_policy", "vlan_parent_interface", "vlan_tag", "vlan_pcp"}, "known")
NetworkInterfaceCreatePayload ==
  Attrs({"name", "type"}, "always") @@ NetworkInterfaceBasePayload
NetworkInterfaceUpdatePayload == NetworkInterfaceBasePayload
NetworkInterfaceModifyPlan ==
  Attrs({"lacpdu_rate", "xmit_hash_policy"}, <<"unknownIfFollowed">>)
NetworkInterfaceCreate ==
  <<Create(NetworkInterfaceCreatePayload), Check, Fetch, Take(NetworkInterfaceResponse),
    Save>>
NetworkInterfaceRead == <<FetchOrForget, Take(NetworkInterfaceResponse), Save>>
NetworkInterface ==
  Resource(Amend(NetworkInterfaceSchema, NetworkInterfaceModifyPlan),
    NetworkInterfaceCreate, NetworkInterfaceRead,
    <<Update(NetworkInterfaceUpdatePayload), Check, Fetch,
      Take(NetworkInterfaceResponse), Save>>, <<Delete, Check>>, <<SaveId>>)

-----------------------------------------------------------------------------
(* truenas_static_route.                                                   *)

(* Mutant: the description lost its UseStateForUnknown.                    *)
StaticRouteSchema_NotKept ==
  Attrs({"id"}, Computed)
    @@ Attrs({"destination", "gateway"}, Custom(Mod(Required, <<"keepEquivalent">>)))
    @@ Attrs({"description"}, Initially("zero", Unkept))
StaticRouteSchema ==
  Attrs({"id"}, Computed)
    @@ Attrs({"destination", "gateway"}, Custom(Mod(Required, <<"keepEquivalent">>)))
    @@ Attrs({"description"}, Initially("zero", Kept))
(* Mutants: an empty description becomes null; the gateway is not read.     *)
StaticRouteResponse_EmptyIsNull ==
  Attrs({"id", "destination", "gateway"}, "value") @@ Attrs({"description"}, "nullIfZero")
StaticRouteResponse_NoGateway == Attrs({"id", "destination", "description"}, "value")
StaticRouteResponse ==
  Attrs({"id", "destination", "gateway", "description"}, "value")
(* Mutant: an empty description is left out of the payload.                *)
StaticRoutePayload_OmitEmpty ==
  Attrs({"destination", "gateway"}, "always") @@ Attrs({"description"}, "nonzero")
StaticRoutePayload == Attrs({"destination", "gateway", "description"}, "always")
StaticRouteCreate ==
  <<Create(StaticRoutePayload), Fetch, Take(StaticRouteResponse), Save>>
StaticRouteRead == <<FetchOrForget, Take(StaticRouteResponse), Save>>
StaticRoute ==
  Resource(StaticRouteSchema, StaticRouteCreate, StaticRouteRead,
    <<Update(StaticRoutePayload), Fetch, Take(StaticRouteResponse), Save>>, <<Delete>>,
    <<Fetch, Take(StaticRouteResponse), Save>>)
=============================================================================
