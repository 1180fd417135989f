--------------------------- MODULE PluginDispatch ---------------------------
(***************************************************************************)
(* lib/src/plugin.cpp: drivers are registered with a plugin, and what      *)
(* dockerd asks is routed by its url, decoded, given to a driver and       *)
(* answered.  on_message_complete runs to its end within one step, for the *)
(* plugin is a single thread and other connections wait; dockerd reads the *)
(* answer before it asks again (HttpConnection has pipelined requests).    *)
(* Between two calls of run the application may register a driver, and the *)
(* process, once a driver has brought it down, is started again.           *)
(***************************************************************************)
EXTENDS Codec

CONSTANTS
  Requests,    \* what dockerd may ask
  Results(_),  \* Results(type): what a driver may return for a response type
  Errors,      \* the error_response values that a driver may throw
  AtStart      \* drivers that main registers before it calls run

Drivers == {"volume", "network", "ipam"}

(* Of a request that dockerd writes itself, means is a record of the       *)
(* members of its type; clear is FALSE for one with any other body.        *)
Request(url, body, clear, means) ==
  [url |-> url, body |-> body, clear |-> clear, means |-> means]
NoRequest == Request(<<>>, NotJson, FALSE, Nothing)

ASSUME RequestsAssumption ==
  \A r \in Requests : r = Request(r.url, r.body, r.clear, r.means)
ASSUME ErrorsAssumption ==
  \A e \in Errors : e = [status |-> e.status, error |-> e.error] /\ e.status \in Nat
ASSUME AtStartAssumption == AtStart \subseteq Drivers

VARIABLES
  alive,       \* the process runs
  registered,  \* m_volume_driver, m_network_driver and m_ipam_driver that are set
  \* history
  announced,   \* drivers that dockerd learned of from Plugin.Activate
  outdated,    \* the process that told dockerd so has ended since
  last         \* what became of the last request, until dockerd has read it

vars == <<alive, registered, announced, outdated, last>>

-----------------------------------------------------------------------------
(* The comparisons of on_message_complete, url by url. *)

Route(url, driver, fn, request, response) ==
  [url |-> url, driver |-> driver, fn |-> fn, request |-> request, response |-> response]

Activate == Route(<<"Plugin", "Activate">>, "plugin", "activate", "empty_type", "activate_response")

VolumeRoute(name, fn, request, response) ==
  Route(<<"VolumeDriver", name>>, "volume", fn, request, response)
NetworkRoute(name, fn, request, response) ==
  Route(<<"NetworkDriver", name>>, "network", fn, request, response)
IpamRoute(name, fn, request, response) ==
  Route(<<"IpamDriver", name>>, "ipam", fn, request, response)

VolumeRoutes ==
  {VolumeRoute("Create", "create", "create_request", "error_response"),
   VolumeRoute("Remove", "remove", "remove_request", "error_response"),
   VolumeRoute("Mount", "mount", "mount_request", "mount_response"),
   VolumeRoute("Path", "path", "path_request", "path_response"),
   VolumeRoute("Unmount", "unmount", "unmount_request", "error_response"),
   VolumeRoute("Get", "get", "get_request", "get_response"),
   VolumeRoute("List", "list", "empty_type", "list_response"),
   VolumeRoute("Capabilities", "capabilities", "empty_type", "volume_capabilities_response")}

NetworkRoutes ==
  {NetworkRoute("GetCapabilities", "capabilities", "empty_type", "network_capabilities_response"),
   NetworkRoute("CreateNetwork", "create_network", "create_network_request", "error_response"),
   NetworkRoute("AllocateNetwork", "allocate_network", "allocate_network_request",
            "allocate_network_response"),
   NetworkRoute("DeleteNetwork", "delete_network", "delete_network_request", "error_response"),
   NetworkRoute("FreeNetwork", "free_network", "free_network_request", "error_response"),
   NetworkRoute("CreateEndpoint", "create_endpoint", "create_endpoint_request",
            "create_endpoint_response"),
   NetworkRoute("DeleteEndpoint", "delete_endpoint", "delete_endpoint_request", "error_response"),
   NetworkRoute("EndpointOperInfo", "endpoint_info", "info_request", "info_response"),
   NetworkRoute("Join", "join", "join_request", "join_response"),
   NetworkRoute("Leave", "leave", "leave_request", "error_response"),
   NetworkRoute("DiscoverNew", "discover_new", "discovery_notification", "error_response"),
   NetworkRoute("DiscoverDelete", "discover_delete", "discovery_notification", "error_response"),
   NetworkRoute("ProgramExternalConnectivity", "program_external_connectivity",
            "program_external_connectivity_request", "error_response"),
   NetworkRoute("RevokeExternalConnectivity", "revoke_external_connectivity",
            "revoke_external_connectivity_request", "error_response")}

IpamRoutes ==
  {IpamRoute("GetCapabilities", "capabilities", "empty_type", "ipam_capabilities_response"),
   IpamRoute("GetDefaultAddressSpaces", "default_address_spaces", "empty_type",
         "address_spaces_response"),
   IpamRoute("RequestPool", "request_pool", "request_pool_request", "request_pool_response"),
   IpamRoute("ReleasePool", "release_pool", "release_pool_request", "error_response"),
   IpamRoute("RequestAddress", "request_address", "request_address_request",
         "request_address_response"),
   IpamRoute("ReleaseAddress", "release_address", "release_address_request", "error_response")}

Routes == {Activate} \cup VolumeRoutes \cup NetworkRoutes \cup IpamRoutes
NoRoute == Route(<<>>, "none", "none", "empty_type", "error_response")

RouteOf(url) ==
  IF \E r \in Routes : r.url = url THEN CHOOSE r \in Routes : r.url = url ELSE NoRoute

-----------------------------------------------------------------------------
(* invoke_plugin_handler. *)

(* What a driver does in a call: it returns a value, or throws one of the  *)
(* exceptions that invoke_plugin_handler catches.                          *)
Outcome(how, value) == [how |-> how, value |-> value]
NotCalled == Outcome("not called", Nothing)

Outcomes(route) ==
  {Outcome("returns", v) : v \in Results(route.response)}
    \cup {Outcome("error_response", e) : e \in Errors}
    \cup {Outcome(how, [status |-> 0, error |-> "what"]) :
            how \in {"invalid_argument", "exception"}}

(* Mutant of ActivateResponse: a driver that is not there is listed too. *)
ActivateResponseAll == [implements |-> Drivers]

(* plugin_activate *)
ActivateResponse == [implements |-> registered]

(* The error_response that the last two handlers make. *)
What(text) == [status |-> 0, error |-> text]

Answer(status, body) == [status |-> status, body |-> body]
NotFound == Answer(404, NotJson)

Answered(route, outcome) ==
  CASE outcome.how = "returns" -> Answer(200, ToJson(route.response, outcome.value))
    [] outcome.how = "error_response" ->
         Answer(outcome.value.status, ToJson("error_response", outcome.value))
    [] outcome.how = "invalid_argument" ->
         Answer(400, ToJson("error_response", What(outcome.value.error)))
    [] outcome.how = "exception" ->
         Answer(500, ToJson("error_response", What(outcome.value.error)))

(* obj is set: plugin_activate is called on the connection itself. *)
HasObject(route) == route.driver \in registered \cup {"plugin"}

-----------------------------------------------------------------------------
Exchange(r, route, argument, outcome, answer) ==
  [request |-> r, route |-> route, argument |-> argument, outcome |-> outcome,
   answer |-> answer]

NothingYet == Exchange(NoRequest, NoRoute, Nothing, NotCalled, NotFound)

Init ==
  /\ alive = TRUE /\ registered = AtStart
  /\ announced = {} /\ outdated = FALSE /\ last = NothingYet

(* register_volume, register_network and register_ipam, between two calls  *)
(* of run.                                                                 *)
Register(d) ==
  /\ alive /\ d \notin registered
  /\ registered' = registered \cup {d}
  /\ UNCHANGED <<alive, announced, outdated, last>>

(* The url names nothing, or nothing that is registered. *)
AnswerNotFound(r) ==
  LET route == RouteOf(r.url)
  IN  /\ alive /\ ~HasObject(route)
      /\ last' = Exchange(r, route, Nothing, NotCalled, NotFound)
      /\ UNCHANGED <<alive, registered, announced, outdated>>

(* from_json throws, and the driver is not called. *)
AnswerUnparsed(r) ==
  LET route == RouteOf(r.url)
      threw == FromJson(route.request, r.body).threw
  IN  /\ alive /\ HasObject(route) /\ threw # "nothing"
      /\ last' = Exchange(r, route, Nothing, NotCalled,
                          Answer(IF threw = "invalid_argument" THEN 400 ELSE 500,
                                 ToJson("error_response", What(threw))))
      /\ UNCHANGED <<alive, registered, announced, outdated>>

AnswerActivate(r) ==
  LET outcome == Outcome("returns", ActivateResponse)
  IN  /\ alive /\ RouteOf(r.url) = Activate
      /\ last' = Exchange(r, Activate, Nothing, outcome, Answered(Activate, outcome))
      /\ announced' = ActivateResponse.implements /\ outdated' = FALSE
      /\ UNCHANGED <<alive, registered>>

(* The driver can be called with what from_json made of the request. *)
Callable(r) ==
  /\ alive /\ RouteOf(r.url) # Activate /\ HasObject(RouteOf(r.url))
  /\ FromJson(RouteOf(r.url).request, r.body).threw = "nothing"

AnswerCalled(r) ==
  LET route == RouteOf(r.url)
  IN  /\ Callable(r)
      /\ \E outcome \in Outcomes(route) :
           last' = Exchange(r, route, FromJson(route.request, r.body).value,
                            outcome, Answered(route, outcome))
      /\ UNCHANGED <<alive, registered, announced, outdated>>

(* An exception that is no std::exception leaves on_message_complete,      *)
(* which is noexcept: the process ends, and with it what was registered.   *)
(* dockerd knows nothing of it, and does not ask for Plugin.Activate again *)
(* before it goes on.                                                      *)
Terminate(r) ==
  /\ Callable(r)
  /\ alive' = FALSE /\ outdated' = TRUE
  /\ registered' = {} /\ last' = NothingYet
  /\ UNCHANGED announced

Restart ==
  /\ ~alive
  /\ alive' = TRUE /\ registered' = AtStart
  /\ UNCHANGED <<announced, outdated, last>>

(* The end of a request with one of its five outcomes. *)
OnMessageComplete(r) ==
  /\ last = NothingYet
  /\ \/ AnswerNotFound(r) \/ AnswerUnparsed(r) \/ AnswerActivate(r)
     \/ AnswerCalled(r) \/ Terminate(r)

(* dockerd has read the answer, and goes on. *)
ReadAnswer ==
  /\ last # NothingYet
  /\ last' = NothingYet
  /\ UNCHANGED <<alive, registered, announced, outdated>>

Next ==
  \/ Restart \/ ReadAnswer
  \/ \E d \in Drivers : Register(d)
  \/ \E r \in Requests : OnMessageComplete(r)

Spec == Init /\ [][Next]_vars

-----------------------------------------------------------------------------
(* What dockerd writes and reads: the field of each member in its API, of  *)
(* the messages and of the objects in them.  Nothing of it is taken from   *)
(* the tables of Codec.                                                    *)
Api ==
  {Text("Name", "name"), Text("ID", "id"), Row("Options", "options", "map"),
   Text("NetworkID", "network_id"), Text("EndpointID", "endpoint_id"),
   Row("IPv4Data", "ipv4_data", "ipam"), Row("IPv6Data", "ipv6_data", "ipam"),
   Row("Interface", "interface", "interface"), Text("SandboxKey", "sandbox_key"),
   Row("DiscoveryType", "discovery_type", "number"), Row("DiscoveryData", "node_info", "node"),
   Text("AddressSpace", "address_space"), Text("Pool", "pool"), Text("SubPool", "sub_pool"),
   Row("V6", "ipv6", "flag"), Text("PoolID", "pool_id"), Text("Address", "address"),
   Row("Implements", "implements", "names"), Text("Err", "error"),
   Text("Mountpoint", "mountpoint"), Row("Volume", "volume", "volume"),
   Row("Volumes", "volumes", "volumes"), Row("Capabilities", "capabilities", "capabilities"),
   Text("Scope", "scope"), Text("ConnectivityScope", "connectivity_scope"),
   Row("Value", "value", "map"), Row("InterfaceName", "interface_name", "interface_name"),
   Text("Gateway", "gateway_ipv4"), Text("GatewayIPv6", "gateway_ipv6"),
   Row("DisableGatewayService", "disable_gateway_service", "flag"),
   Row("StaticRoutes", "static_routes", "routes"),
   Row("RequiresMACAddress", "requires_mac_address", "flag"),
   Text("LocalDefaultAddressSpace", "local_default_address_space"),
   Text("GlobalDefaultAddressSpace", "global_default_address_space"),
   Row("Data", "data", "map")}

ApiNested ==
  [ipam |-> {Text("AddressSpace", "address_space"), Text("Pool", "pool"),
             Text("Gateway", "gateway"), Row("AuxAddresses", "aux_addresses", "map")},
   node |-> {Text("Address", "address"), Row("self", "self", "flag")},
   interface |-> {Text("Address", "ipv4_address"), Text("AddressIPv6", "ipv6_address"),
                  Text("MacAddress", "mac_address")},
   volume |-> {Text("Name", "name"), Text("Mountpoint", "mountpoint"),
               Row("CreatedAt", "created_at", "time"), Row("Status", "status", "map")},
   capabilities |-> {Text("Scope", "scope")},
   interface_name |-> {Text("SrcName", "src_name"), Text("DstPrefix", "dst_prefix")},
   routes |-> {Text("Destination", "destination"), Row("RouteType", "route_type", "number"),
               Text("NextHop", "next_hop")}]

ApiRow(type, member) ==
  IF type = "create_request" /\ member = "options" THEN Row("Opts", "options", "map")
  ELSE RowOf(Api, member)

(* A time is written to the second that it lies in; it has milliseconds. *)
SecondOf(t) == CHOOSE s \in 0..t : s * 1000 <= t /\ t < (s + 1) * 1000

ApiLeaf(kind, v) ==
  CASE kind = "text" -> String(v)
    [] kind = "flag" -> Bool(v)
    [] kind = "number" -> Int64(v)
    [] kind = "map" -> Object([k \in DOMAIN v |-> String(v[k])])
    [] kind = "time" -> String([seconds |-> SecondOf(v)])

ApiObject(rows, v) ==
  Object([k \in {row.key : row \in rows} |->
            ApiLeaf(KeyRow(rows, k).kind, v[KeyRow(rows, k).member])])

ApiMember(kind, v) ==
  CASE kind \in {"text", "flag", "number", "map"} -> ApiLeaf(kind, v)
    [] kind = "names" -> Array(SetToSeq({String(n) : n \in v}))
    [] kind = "volumes" -> Array(SetToSeq({ApiObject(ApiNested.volume, x) : x \in v}))
    [] kind \in {"ipam", "routes"} ->
         Array([i \in 1..Len(v) |-> ApiObject(ApiNested[kind], v[i])])
    [] kind \in {"node", "interface", "volume", "capabilities", "interface_name"} ->
         ApiObject(ApiNested[kind], v)

(* The JSON object of a request or a response; an interface is only there  *)
(* if there is something in it.                                            *)
NoText == ""
NoInterface == [m \in {"ipv4_address", "ipv6_address", "mac_address"} |-> NoText]

ApiJson(type, v) ==
  LET rows == {row \in {ApiRow(type, m) : m \in DOMAIN v \ {"status"}} :
                 row.kind = "interface" => v[row.member] # NoInterface}
  IN  Object([k \in {row.key : row \in rows} |->
                ApiMember(KeyRow(rows, k).kind, v[KeyRow(rows, k).member])])

(* dockerd takes an answer for a failure. *)
Failure(answer) ==
  \/ answer.status # 200
  \/ Is(answer.body, "object") /\ Has(answer.body.object, "Err", "string")
     /\ answer.body.object["Err"].string # ""

(* The driver means that the call failed. *)
Fails(route, outcome) ==
  outcome.how = "returns" => route.response = "error_response" /\ outcome.value # What("")

-----------------------------------------------------------------------------
(* Properties. *)

(* plugin.h: registering makes the plugin announce a driver and forward    *)
(* all calls to it.  What Plugin.Activate has listed is answered with "Not *)
(* found" in one case only: the process that listed it has ended since,    *)
(* and main does not register that driver before it calls run.             *)
AnnouncedIsServed ==
  last.answer = NotFound /\ last.outcome = NotCalled /\ last.route.driver \in announced
    => outdated /\ last.route.driver \notin AtStart

(* dockerd takes an answer for a failure if, and only if, the driver was   *)
(* not called or means that the call failed.                               *)
OutcomeAgreed ==
  last # NothingYet => (Failure(last.answer) <=> Fails(last.route, last.outcome))

(* What dockerd writes in its API reaches the driver that the url names,   *)
(* member by member as dockerd means it, if the driver is there.           *)
RequestUnderstood ==
  last.request.clear =>
    \/ last.answer = NotFound /\ last.outcome = NotCalled
    \/ last.outcome # NotCalled /\ last.argument = last.request.means

(* What a driver returns reaches dockerd as its API has it. *)
AnswerUnderstood ==
  last.outcome.how = "returns" =>
    last.answer = Answer(200, ApiJson(last.route.response, last.outcome.value))

(* plugin.h says of error_response::status: "Not exposed in response, but  *)
(* used to set the http status".                                           *)
StatusIsUsed ==
  LET outcome == last.outcome
      isError == \/ outcome.how = "error_response"
                 \/ outcome.how = "returns" /\ last.route.response = "error_response"
  IN  isError => outcome.value.status \in {0, last.answer.status}
=============================================================================
