-------------------------- MODULE MCPluginDispatch --------------------------
(* Instances of PluginDispatch for TLC: see the .cfg files named after it. *)
EXTENDS PluginDispatch

-----------------------------------------------------------------------------
(* Values: a text is the name of the member that holds it, so that no two  *)
(* members can be mixed up unnoticed.                                      *)
FilledFlat(rows) ==
  [m \in Members(rows) |->
     CASE RowOf(rows, m).kind = "text" -> m
       [] RowOf(rows, m).kind = "flag" -> TRUE
       [] RowOf(rows, m).kind = "number" -> 1
       [] RowOf(rows, m).kind = "map" -> NoEntries
       [] RowOf(rows, m).kind = "time" -> 1500]

FilledMember(row) ==
  CASE row.kind \in {"text", "flag", "number", "map"} -> FilledFlat({row})[row.member]
    [] row.kind = "ipam" -> <<FilledFlat(ApiNested.ipam)>>
        [] row.kind = "names" -> {"name"}
    [] row.kind = "volumes" ->
         {FilledFlat(ApiNested.volume), [FilledFlat(ApiNested.volume) EXCEPT !.name = "other"]}
    [] row.kind = "routes" -> <<FilledFlat(ApiNested.routes)>>
    [] OTHER -> FilledFlat(ApiNested[row.kind])

BlankMember(row) ==
  CASE row.kind \in {"names", "volumes"} -> {}
    [] row.kind = "routes" -> <<>>
    [] row.kind \in {"volume", "capabilities", "interface_name"} -> FilledFlat(ApiNested[row.kind])
    [] OTHER -> Default(row.kind)

(* The struct of a type with the members in set filled. *)
Struct(rows, set) ==
  [m \in Members(rows) |->
     IF m \in set THEN FilledMember(RowOf(rows, m)) ELSE BlankMember(RowOf(rows, m))]

-----------------------------------------------------------------------------
(* Requests.  A notice has data about a node only if its type says so.     *)
RequestTypes ==
  DOMAIN VolumeRequests \cup DOMAIN NetworkRequests \cup DOMAIN EndpointRequests
    \cup DOMAIN IpamRequests

(* All members but one, the first of them none. *)
Fillings(rows) ==
  LET filled == {row.member : row \in {x \in rows : x.kind # "map" /\ x.member # "ipv6_data"}}
  IN  {f \in {filled} \cup {{m} : m \in filled} \cup {{}} :
         "node_info" \in f => "discovery_type" \in f}

Meanings(type) ==
  IF type = "empty_type" THEN {Nothing}
  ELSE {Struct(RequestRows(type), f) : f \in Fillings(RequestRows(type))}

ClearRequests ==
  UNION {{Request(r.url, ApiJson(r.request, v), TRUE, v) : v \in Meanings(r.request)} : r \in Routes}

(* Bodies that are no object, or have members of another type. *)
OddBodies(type) ==
  {NotJson, Null, Object(Nothing)}
    \cup {Object([k \in {row.key} |-> Null]) : row \in RequestRows(type)}

OddRequests ==
  UNION {{Request(r.url, b, FALSE, Nothing) : b \in OddBodies(r.request)} :
           r \in {x \in Routes : x.request # "empty_type"}}

UnknownUrl == {Request(<<"VolumeDriver", "Rename">>, NotJson, FALSE, Nothing)}

PlainRequests == ClearRequests \cup OddRequests \cup UnknownUrl

(* What docker volume create writes: options, or none, which is null.      *)
OptionsJson == {Object([k \in {"o"} |-> String("size=1")]), Null}
OptionRequests ==
  {Request(<<"VolumeDriver", "Create">>,
           Object([k \in {"Name", "Opts"} |-> IF k = "Name" THEN String("name") ELSE o]), TRUE,
           [name |-> "name",
            options |-> IF o = Null THEN NoEntries ELSE [k \in {"o"} |-> "size=1"]]) :
     o \in OptionsJson}

-----------------------------------------------------------------------------
(* Results.  A driver that fails says why, and both address spaces of a    *)
(* driver are the same.                                                    *)
OneSpace ==
  [local_default_address_space |-> "space", global_default_address_space |-> "space"]

PlainResults(type) ==
  CASE type = "error_response" -> {What(""), What("failed"), [status |-> 409, error |-> "exists"]}
    [] type = "address_spaces_response" -> {OneSpace}
    [] OTHER -> {Struct(ResponseRows(type), {}),
                 Struct(ResponseRows(type), Members(ResponseRows(type)))}

PlainErrors == {[status |-> 404, error |-> "no such volume"], What("failed"), [status |-> 409, error |-> ""]}

VolumeOnly == {"volume"}
=============================================================================
