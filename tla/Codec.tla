------------------------------- MODULE Codec -------------------------------
(***************************************************************************)
(* lib/src/serialize.cpp: from_json for the requests and to_json for the   *)
(* responses of a plugin.                                                  *)
(*                                                                         *)
(* The functions are alike, so they are tables here, one row for each      *)
(* field of a JSON object and the member of the C++ struct that it fills   *)
(* or is filled from, and one operator that reads a table for all of them. *)
(* A JSON value is a record whose only field is named after its type.      *)
(***************************************************************************)
EXTENDS Integers, Sequences, SequencesExt, FiniteSets

String(s) == [string |-> s]
Bool(b)   == [bool |-> b]
Int64(n)  == [int64 |-> n]
Object(f) == [object |-> f]
Array(s)  == [array |-> s]
Null      == [null |-> TRUE]
NotJson   == [text |-> "not json"]

(* value::is *)
Is(v, type) == type \in DOMAIN v

(* value::is for the type that belongs to a kind of member *)
JsonType == [text |-> "string", flag |-> "bool", number |-> "int64"]

Has(obj, key, type) == key \in DOMAIN obj /\ Is(obj[key], type)

(* The field key of a JSON object and the member of a struct, which is a   *)
(* "text", "flag", "number", "map" of texts, or one of the nested kinds.   *)
(* Numbers are small enough for an int.                                    *)
Row(key, member, kind) == [key |-> key, member |-> member, kind |-> kind]
Text(key, member) == Row(key, member, "text")
Options == Row("Options", "options", "map")

Members(rows) == {row.member : row \in rows}
RowOf(rows, member) == CHOOSE row \in rows : row.member = member

-----------------------------------------------------------------------------
(* What members hold when nothing fills them: the initializers of api.h.   *)
NoEntries == [k \in {} |-> ""]

Interface == {Text("Address", "ipv4_address"), Text("AddressIPv6", "ipv6_address"),
              Text("MacAddress", "mac_address")}
(* Mutant of IpamData: a key is misspelled. *)
IpamDataMisspelled == {Text("AddressSpace", "address_space"), Text("Pool", "pool"),
                       Text("GateWay", "gateway"), Row("AuxAddresses", "aux_addresses", "map")}
IpamData == {Text("AddressSpace", "address_space"), Text("Pool", "pool"),
             Text("Gateway", "gateway"), Row("AuxAddresses", "aux_addresses", "map")}
NodeInfo == {Text("Address", "address"), Row("self", "self", "flag")}

Plain(kind) ==
  CASE kind = "text" -> ""
    [] kind = "flag" -> FALSE
    [] kind = "number" -> 0
    [] kind = "map" -> NoEntries

Blank(rows) == [m \in Members(rows) |-> Plain(RowOf(rows, m).kind)]

Default(kind) ==
  CASE kind \in {"text", "flag", "number", "map"} -> Plain(kind)
    [] kind = "ipam" -> <<>>
    [] kind = "interface" -> Blank(Interface)
    [] kind = "node" -> Blank(NodeInfo)

-----------------------------------------------------------------------------
(* The tables of from_json.                                                *)
Network  == Text("NetworkID", "network_id")
Endpoint == {Network, Text("EndpointID", "endpoint_id")}
Named    == {Text("Name", "name")}
Mounting == Named \cup {Text("ID", "id")}

VolumeRequests ==
  [create_request  |-> Named \cup {Row("Opts", "options", "map")},
   remove_request  |-> Named,
   mount_request   |-> Mounting,
   unmount_request |-> Mounting,
   path_request    |-> Named,
   get_request     |-> Named]

(* ipv6_data is a member of the two structs that no field fills. *)
NoKey == ""
Ipam  == {Row("IPv4Data", "ipv4_data", "ipam"), Row(NoKey, "ipv6_data", "ipam")}

NetworkRequests ==
  [create_network_request   |-> {Network, Options} \cup Ipam,
   allocate_network_request |-> {Network, Options} \cup Ipam,
   delete_network_request   |-> {Network},
   free_network_request     |-> {Network}]

EndpointRequests ==
  [create_endpoint_request |-> Endpoint \cup {Row("Interface", "interface", "interface"), Options},
   delete_endpoint_request |-> Endpoint,
   info_request  |-> Endpoint,
   join_request  |-> Endpoint \cup {Text("SandboxKey", "sandbox_key"), Options},
   leave_request |-> Endpoint,
   discovery_notification |->
     {Row("DiscoveryType", "discovery_type", "number"), Row("DiscoveryData", "node_info", "node")},
   program_external_connectivity_request |-> Endpoint \cup {Options},
   revoke_external_connectivity_request  |-> Endpoint]

IpamRequests ==
  [request_pool_request |->
     {Text("AddressSpace", "address_space"), Text("Pool", "pool"), Text("SubPool", "sub_pool"),
      Options, Row("V6", "ipv6", "flag")},
   release_pool_request    |-> {Text("PoolID", "pool_id")},
   request_address_request |-> {Text("PoolID", "pool_id"), Text("Address", "address"), Options},
   release_address_request |-> {Text("PoolID", "pool_id"), Text("Address", "address")}]

RequestRows(type) ==
  CASE type \in DOMAIN VolumeRequests   -> VolumeRequests[type]
    [] type \in DOMAIN NetworkRequests  -> NetworkRequests[type]
    [] type \in DOMAIN EndpointRequests -> EndpointRequests[type]
    [] type \in DOMAIN IpamRequests     -> IpamRequests[type]

-----------------------------------------------------------------------------
(* from_json. *)

(* convert_map returns for an object, and get throws for anything else.    *)
ConvertMapThrows(v) == ~Is(v, "object")
ConvertMap(v) == NoEntries

FlatValue(row, obj) ==
  IF row.kind = "map" THEN Plain("map")
  ELSE IF Has(obj, row.key, JsonType[row.kind]) THEN obj[row.key][JsonType[row.kind]]
       ELSE Plain(row.kind)

Flat(rows, obj) == [m \in Members(rows) |-> FlatValue(RowOf(rows, m), obj)]

(* The n-th smallest of a set of numbers. *)
Nth(set, n) == CHOOSE i \in set : Cardinality({j \in set : j <= i}) = n

(* parse_ipam_data keeps the elements in which something is set.           *)
ParseIpamData(v) ==
  LET kept == {i \in DOMAIN v.array :
                 /\ Is(v.array[i], "object")
                 /\ Flat(IpamData, v.array[i].object) # Blank(IpamData)}
  IN  IF ~Is(v, "array") THEN <<>>
      ELSE [n \in 1..Cardinality(kept) |-> Flat(IpamData, v.array[Nth(kept, n)].object)]

ParseEndpointInterface(v) ==
  IF Is(v, "object") THEN Flat(Interface, v.object) ELSE Blank(Interface)

(* Only notices about nodes, of type 1, have data that is looked at.       *)
ParseNodeInfo(obj) ==
  IF Has(obj, "DiscoveryType", "int64") /\ obj["DiscoveryType"].int64 = 1
     /\ Has(obj, "DiscoveryData", "object")
  THEN Flat(NodeInfo, obj["DiscoveryData"].object)
  ELSE Blank(NodeInfo)

MemberValue(row, obj) ==
  CASE row.key \notin DOMAIN obj -> Default(row.kind)
    [] row.key \in DOMAIN obj /\ row.kind \in {"text", "flag", "number"} -> FlatValue(row, obj)
    [] row.key \in DOMAIN obj /\ row.kind = "map" -> ConvertMap(obj[row.key])
    [] row.key \in DOMAIN obj /\ row.kind = "ipam" -> ParseIpamData(obj[row.key])
    [] row.key \in DOMAIN obj /\ row.kind = "interface" -> ParseEndpointInterface(obj[row.key])
    [] row.key \in DOMAIN obj /\ row.kind = "node" -> ParseNodeInfo(obj)

(* A map that is no object makes from_json throw, at the top or inside of  *)
(* the objects of an ipam array.                                           *)
MapThrows(rows, obj) ==
  \E row \in rows :
    row.kind = "map" /\ row.key \in DOMAIN obj /\ ConvertMapThrows(obj[row.key])

IpamThrows(rows, obj) ==
  \E row \in rows :
    /\ row.kind = "ipam" /\ Has(obj, row.key, "array")
    /\ \E e \in ToSet(obj[row.key].array) : Is(e, "object") /\ MapThrows(IpamData, e.object)

Nothing == [m \in {} |-> ""]
Parsed(value)  == [threw |-> "nothing", value |-> value]
Threw(what)    == [threw |-> what, value |-> Nothing]

FromJson(type, body) ==
  IF type = "empty_type" THEN Parsed(Nothing)
  ELSE IF ~Is(body, "object") THEN Threw("invalid_argument")
  ELSE IF MapThrows(RequestRows(type), body.object) \/ IpamThrows(RequestRows(type), body.object)
       THEN Threw("runtime_error")
  ELSE Parsed([m \in Members(RequestRows(type)) |->
                 MemberValue(RowOf(RequestRows(type), m), body.object)])
-----------------------------------------------------------------------------
(* The tables of to_json.                                                  *)
Mountpoint == Text("Mountpoint", "mountpoint")
VolumeInfo == {Text("Name", "name"), Mountpoint, Row("CreatedAt", "created_at", "time"),
               Row("Status", "status", "map")}
(* Mutant of InterfaceName: each key is written from the other's member. *)
InterfaceNameSwapped == {Text("SrcName", "dst_prefix"), Text("DstPrefix", "src_name")}
InterfaceName == {Text("SrcName", "src_name"), Text("DstPrefix", "dst_prefix")}
StaticRoute == {Text("Destination", "destination"), Row("RouteType", "route_type", "number"),
                Text("NextHop", "next_hop")}

(* The rows of the objects that nest in others. *)
Nested ==
  [interface |-> Interface, volume |-> VolumeInfo, volumes |-> VolumeInfo,
   capabilities |-> {Text("Scope", "scope")},
   interface_name |-> InterfaceName, routes |-> StaticRoute]

(* Mutant of PluginResponses: a key is misspelled. *)
PluginResponsesMisspelled ==
  [activate_response |-> {Row("Implements", "implements", "names")},
   error_response    |-> {Text("Error", "error")}]

PluginResponses ==
  [activate_response |-> {Row("Implements", "implements", "names")},
   error_response    |-> {Text("Err", "error")}]

VolumeResponses ==
  [mount_response |-> {Mountpoint},
   path_response  |-> {Mountpoint},
   get_response   |-> {Row("Volume", "volume", "volume")},
   list_response  |-> {Row("Volumes", "volumes", "volumes")},
   volume_capabilities_response |-> {Row("Capabilities", "capabilities", "capabilities")}]

NetworkResponses ==
  [network_capabilities_response |->
     {Text("Scope", "scope"), Text("ConnectivityScope", "connectivity_scope")},
   allocate_network_response |-> {Options},
   create_endpoint_response  |-> {Row("Interface", "interface", "interface")},
   info_response |-> {Row("Value", "value", "map")},
   join_response |->
     {Row("InterfaceName", "interface_name", "interface_name"),
      Text("Gateway", "gateway_ipv4"), Text("GatewayIPv6", "gateway_ipv6"),
      Row("DisableGatewayService", "disable_gateway_service", "flag"),
      Row("StaticRoutes", "static_routes", "routes")}]

(* Both address spaces are written from the local one. *)
IpamResponses ==
  [ipam_capabilities_response |-> {Row("RequiresMACAddress", "requires_mac_address", "flag")},
   address_spaces_response |->
     {Text("LocalDefaultAddressSpace", "local_default_address_space"),
      Text("GlobalDefaultAddressSpace", "local_default_address_space")},
   request_pool_response |->
     {Text("PoolID", "pool_id"), Text("Pool", "pool"), Row("Data", "data", "map")},
   request_address_response |-> {Text("Address", "address"), Row("Data", "data", "map")}]

ResponseRows(type) ==
  CASE type \in DOMAIN PluginResponses  -> PluginResponses[type]
    [] type \in DOMAIN VolumeResponses  -> VolumeResponses[type]
    [] type \in DOMAIN NetworkResponses -> NetworkResponses[type]
    [] type \in DOMAIN IpamResponses    -> IpamResponses[type]

-----------------------------------------------------------------------------
(* to_json. *)

TicksPerSecond == 1000

(* convert_time writes whole seconds. *)
ConvertTime(t) == String([seconds |-> t \div TicksPerSecond])

Leaf(kind, v) ==
  CASE kind = "text" -> String(v)
    [] kind = "flag" -> Bool(v)
    [] kind = "number" -> Int64(v)
    [] kind = "map" -> Object([k \in DOMAIN v |-> String(v[k])])
    [] kind = "time" -> ConvertTime(v)

KeyRow(rows, key) == CHOOSE row \in rows : row.key = key
FlatJson(rows, v) ==
  Object([k \in {row.key : row \in rows} |->
            Leaf(KeyRow(rows, k).kind, v[KeyRow(rows, k).member])])

(* A std::set becomes an array, in the order of the names. *)
MemberJson(kind, v) ==
  CASE kind \in {"text", "flag", "number", "map", "time"} -> Leaf(kind, v)
    [] kind = "names" -> Array(SetToSeq({String(n) : n \in v}))
    [] kind = "volumes" -> Array(SetToSeq({FlatJson(VolumeInfo, x) : x \in v}))
    [] kind = "routes" -> Array([i \in 1..Len(v) |-> FlatJson(StaticRoute, v[i])])
    [] kind \in {"volume", "interface", "capabilities", "interface_name"} ->
         FlatJson(Nested[kind], v)

(* create_endpoint_response has no interface if there is nothing in it.    *)
Written(rows, v) ==
  {row \in rows : row.kind = "interface" => v[row.member] # Blank(Interface)}

ToJson(type, v) ==
  LET rows == Written(ResponseRows(type), v)
  IN  Object([k \in {row.key : row \in rows} |->
                MemberJson(KeyRow(rows, k).kind, v[KeyRow(rows, k).member])])
=============================================================================
