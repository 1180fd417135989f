---------------------------- MODULE CodecProofs ----------------------------
(***************************************************************************)
(* What dockerd makes of an answer of the plugin: that it takes a failure  *)
(* for one and a success for none (OutcomeAgreed), and that what a driver  *)
(* returns is what dockerd reads (AnswerUnderstood).  Both come down to    *)
(* the to_json functions of serialize.cpp, the tables of Codec, compared   *)
(* row by row with the fields of dockerd's API.                            *)
(***************************************************************************)
EXTENDS PluginDispatchProofs, FiniteSetTheorems

-----------------------------------------------------------------------------
(* The tables. *)

(* The types that have a to_json function.                                 *)
ResponseTypes ==
  DOMAIN PluginResponses \cup DOMAIN VolumeResponses \cup DOMAIN NetworkResponses
    \cup DOMAIN IpamResponses

(* No type is in two tables, so ResponseRows finds the table of each.      *)
LEMMA ResponseTables ==
  /\ \A type \in DOMAIN PluginResponses : ResponseRows(type) = PluginResponses[type]
  /\ \A type \in DOMAIN VolumeResponses : ResponseRows(type) = VolumeResponses[type]
  /\ \A type \in DOMAIN NetworkResponses : ResponseRows(type) = NetworkResponses[type]
  /\ \A type \in DOMAIN IpamResponses : ResponseRows(type) = IpamResponses[type]
<1>1. DOMAIN PluginResponses = {"activate_response", "error_response"}
  BY DEF PluginResponses
<1>2. DOMAIN VolumeResponses = {"mount_response", "path_response", "get_response",
                                "list_response", "volume_capabilities_response"}
  BY DEF VolumeResponses
<1>3. DOMAIN NetworkResponses = {"network_capabilities_response", "allocate_network_response",
                                 "create_endpoint_response", "info_response", "join_response"}
  BY DEF NetworkResponses
<1>4. DOMAIN IpamResponses = {"ipam_capabilities_response", "address_spaces_response",
                              "request_pool_response", "request_address_response"}
  BY DEF IpamResponses
<1> QED BY <1>1, <1>2, <1>3, <1>4 DEF ResponseRows

(* Every handler of on_message_complete answers with a type of the tables. *)
LEMMA RoutesAnswer ==
  ASSUME NEW route \in Routes
  PROVE  route.response \in ResponseTypes /\ route.driver \in Drivers \cup {"plugin"}
<1>1. CASE route = Activate
  BY <1>1 DEF Activate, Route, ResponseTypes, PluginResponses
<1>2. CASE route \in VolumeRoutes
  BY <1>2 DEF VolumeRoutes, VolumeRoute, Route, Drivers, ResponseTypes, PluginResponses, VolumeResponses
<1>3. CASE route \in NetworkRoutes
  BY <1>3 DEF NetworkRoutes, NetworkRoute, Route, Drivers, ResponseTypes, PluginResponses, NetworkResponses
<1>4. CASE route \in IpamRoutes
  BY <1>4 DEF IpamRoutes, IpamRoute, Route, Drivers, ResponseTypes, PluginResponses, IpamResponses
<1> QED BY <1>1, <1>2, <1>3, <1>4 DEF Routes

(* What the proofs need of a table: a key is written once, "Err" by        *)
(* error_response alone, and a member under the key that the API has for   *)
(* it; volumes are in two responses only.  The table of                    *)
(* address_spaces_response has one member in two rows, and is treated by   *)
(* itself.                                                                 *)
Table(rows, type) ==
  /\ \A row, other \in rows : row.key = other.key => row = other
  /\ \A row \in rows :
       /\ row.kind \in {"text", "flag", "number", "map", "names", "volume", "volumes",
                        "routes", "interface", "capabilities", "interface_name"}
       /\ row.kind = "volume" => type = "get_response" /\ row.member = "volume"
       /\ row.kind = "volumes" => type = "list_response" /\ row.member = "volumes"
       /\ row.key = "Err" => type = "error_response"
       /\ type # "address_spaces_response" => ApiRow(type, row.member) = row

(* All tables are so.                                                      *)
LEMMA TablesFit ==
  ASSUME NEW type \in ResponseTypes
  PROVE  Table(ResponseRows(type), type)
<1>1. ASSUME NEW t \in DOMAIN PluginResponses PROVE Table(PluginResponses[t], t)
  <2>1. \A row \in PluginResponses[t] : ApiRow(t, row.member) = row
    BY DEF PluginResponses, ApiRow, RowOf, Api, Text, Row, Options
  <2> QED BY <2>1 DEF Table, PluginResponses, Text, Row
<1>2. ASSUME NEW t \in DOMAIN VolumeResponses PROVE Table(VolumeResponses[t], t)
  <2>1. \A row \in VolumeResponses[t] : ApiRow(t, row.member) = row
    BY DEF VolumeResponses, Mountpoint, ApiRow, RowOf, Api, Text, Row, Options
  <2> QED BY <2>1 DEF Table, VolumeResponses, Text, Row, Mountpoint
<1>3. ASSUME NEW t \in DOMAIN NetworkResponses PROVE Table(NetworkResponses[t], t)
  <2>1. \A row \in NetworkResponses[t] : ApiRow(t, row.member) = row
    BY DEF NetworkResponses, ApiRow, RowOf, Api, Text, Row, Options
  <2> QED BY <2>1 DEF Table, NetworkResponses, Text, Row, Options
<1>4. ASSUME NEW t \in DOMAIN IpamResponses PROVE Table(IpamResponses[t], t)
  <2>1. t # "address_spaces_response" => \A row \in IpamResponses[t] : ApiRow(t, row.member) = row
    BY DEF IpamResponses, ApiRow, RowOf, Api, Text, Row, Options
  <2> QED BY <2>1 DEF Table, IpamResponses, Text, Row
<1> QED BY <1>1, <1>2, <1>3, <1>4, ResponseTables DEF ResponseTypes

(* KeyRow finds the one row of a key.                                      *)
LEMMA KeyRowIs ==
  ASSUME NEW rows, NEW row \in rows,
         \A r, other \in rows : r.key = other.key => r = other
  PROVE  KeyRow(rows, row.key) = row
BY DEF KeyRow

-----------------------------------------------------------------------------
(* The objects inside of the messages, and what is in them. *)

(* A flat table has one row for a key and one for a member. *)
FlatTable(rows) ==
  /\ \A row, other \in rows : row.key = other.key \/ row.member = other.member => row = other
  /\ \A row \in rows : row.kind \in {"text", "flag", "number", "map", "time"}

LEMMA FlatTables ==
  /\ FlatTable(Interface) /\ FlatTable(IpamData) /\ FlatTable(NodeInfo) /\ FlatTable(VolumeInfo)
  /\ FlatTable(InterfaceName) /\ FlatTable(StaticRoute) /\ FlatTable(Nested.capabilities)
<1>1. FlatTable(Interface) /\ FlatTable(IpamData) /\ FlatTable(NodeInfo)
  BY DEF FlatTable, Interface, IpamData, NodeInfo, Text, Row
<1>2. FlatTable(VolumeInfo) /\ FlatTable(InterfaceName) /\ FlatTable(StaticRoute)
  BY DEF FlatTable, VolumeInfo, Mountpoint, InterfaceName, StaticRoute, Text, Row
<1>3. FlatTable(Nested.capabilities)
  BY DEF FlatTable, Nested, Text, Row
<1> QED BY <1>1, <1>2, <1>3

(* No time is written but that of a volume. *)
LEMMA Timeless ==
  /\ \A row \in Interface \cup IpamData \cup NodeInfo \cup InterfaceName \cup StaticRoute
                   \cup Nested.capabilities : row.kind # "time"
  /\ \A row \in VolumeInfo : row.kind = "time" => row.member = "created_at"
<1>1. \A row \in Interface \cup IpamData \cup NodeInfo : row.kind # "time"
  BY DEF Interface, IpamData, NodeInfo, Text, Row
<1>2. \A row \in InterfaceName \cup StaticRoute \cup Nested.capabilities : row.kind # "time"
  BY DEF InterfaceName, StaticRoute, Nested, Text, Row
<1>3. \A row \in VolumeInfo : row.kind = "time" => row.member = "created_at"
  BY DEF VolumeInfo, Mountpoint, Text, Row
<1> QED BY <1>1, <1>2, <1>3

(* The keys of the nested objects are those of the API, each for the same  *)
(* member.                                                                 *)
LEMMA NestedFit ==
  /\ ApiNested["ipam"] = IpamData /\ ApiNested["node"] = NodeInfo
  /\ ApiNested["interface"] = Interface /\ ApiNested["volume"] = VolumeInfo
  /\ ApiNested["capabilities"] = Nested["capabilities"]
  /\ ApiNested["interface_name"] = InterfaceName /\ ApiNested["routes"] = StaticRoute
<1>1. ApiNested["ipam"] = IpamData BY DEF ApiNested, IpamData
<1>2. ApiNested["node"] = NodeInfo BY DEF ApiNested, NodeInfo
<1>3. ApiNested["interface"] = Interface BY DEF ApiNested, Interface
<1>4. ApiNested["volume"] = VolumeInfo BY DEF ApiNested, VolumeInfo, Mountpoint
<1>5. ApiNested["capabilities"] = Nested["capabilities"] BY DEF ApiNested, Nested
<1>6. ApiNested["interface_name"] = InterfaceName BY DEF ApiNested, InterfaceName
<1>7. ApiNested["routes"] = StaticRoute BY DEF ApiNested, StaticRoute
<1> QED BY <1>1, <1>2, <1>3, <1>4, <1>5, <1>6, <1>7

LEMMA NestedIs ==
  /\ Nested["interface"] = Interface /\ Nested["volume"] = VolumeInfo
  /\ Nested["interface_name"] = InterfaceName
BY DEF Nested

(* An interface with nothing in it is the same for both sides. *)
LEMMA BlankIsNothing == Blank(Interface) = NoInterface
<1>1. Plain("text") = NoText BY Zenon DEF Plain, NoText
<1>2. Members(Interface) = {"ipv4_address", "ipv6_address", "mac_address"}
  BY DEF Members, Interface, Text, Row
<1>3. \A m \in Members(Interface) : RowOf(Interface, m).kind = "text"
  BY DEF Members, RowOf, Interface, Text, Row
<1> HIDE DEF Interface
<1> QED BY <1>1, <1>2, <1>3 DEF Blank, NoInterface

(* convert_time cuts a time to its second. *)
LEMMA SecondIs ==
  ASSUME NEW t \in Nat
  PROVE  SecondOf(t) = t \div 1000
<1> DEFINE s == t \div 1000
<1>1. s \in 0..t /\ s * 1000 <= t /\ t < (s + 1) * 1000
  OBVIOUS
<1>2. ASSUME NEW n \in 0..t, n * 1000 <= t, t < (n + 1) * 1000 PROVE n = s
  BY <1>1, <1>2
<1> HIDE DEF s
<1>3. SecondOf(t) = s
  BY <1>1, <1>2 DEF SecondOf
<1> QED BY <1>3 DEF s

LEMMA LeafLikeApi ==
  ASSUME NEW kind \in {"text", "flag", "number", "map", "time"}, NEW v,
         kind = "time" => v \in Nat
  PROVE  ApiLeaf(kind, v) = Leaf(kind, v)
<1>1. CASE kind = "time"
  BY <1>1, SecondIs DEF ApiLeaf, Leaf, ConvertTime, TicksPerSecond
<1>2. CASE kind # "time"
  BY <1>2 DEF ApiLeaf, Leaf
<1> QED BY <1>1, <1>2

(* A flat struct is written as the API has it. *)
LEMMA ObjectLikeApi ==
  ASSUME NEW rows, FlatTable(rows), NEW v,
         \A row \in rows : row.kind = "time" => v[row.member] \in Nat
  PROVE  ApiObject(rows, v) = FlatJson(rows, v)
<1> DEFINE keys == {row.key : row \in rows}
<1>1. ASSUME NEW k \in keys
      PROVE  ApiLeaf(KeyRow(rows, k).kind, v[KeyRow(rows, k).member])
               = Leaf(KeyRow(rows, k).kind, v[KeyRow(rows, k).member])
  <2>1. PICK row \in rows : row.key = k
    OBVIOUS
  <2>2. KeyRow(rows, k) = row
    BY <2>1, KeyRowIs DEF FlatTable
  <2> QED BY <2>1, <2>2, LeafLikeApi DEF FlatTable
<1> HIDE DEF keys
<1> QED BY <1>1 DEF ApiObject, FlatJson, keys

(* What the two sides write for a member of each kind. *)
LEMMA ApiMembers ==
  ASSUME NEW v
  PROVE  /\ \A kind \in {"text", "flag", "number", "map"} : ApiMember(kind, v) = Leaf(kind, v)
         /\ ApiMember("ipam", v) = Array([i \in 1..Len(v) |-> FlatJson(IpamData, v[i])])
         /\ ApiMember("routes", v) = Array([i \in 1..Len(v) |-> FlatJson(StaticRoute, v[i])])
         /\ ApiMember("node", v) = FlatJson(NodeInfo, v)
         /\ ApiMember("interface", v) = FlatJson(Interface, v)
         /\ ApiMember("capabilities", v) = FlatJson(Nested["capabilities"], v)
         /\ ApiMember("interface_name", v) = FlatJson(InterfaceName, v)
         /\ v["created_at"] \in Nat => ApiMember("volume", v) = FlatJson(VolumeInfo, v)
         /\ (\A x \in v : x["created_at"] \in Nat) =>
              ApiMember("volumes", v) = Array(SetToSeq({FlatJson(VolumeInfo, x) : x \in v}))
<1>1. \A kind \in {"text", "flag", "number", "map"} : ApiMember(kind, v) = Leaf(kind, v)
  BY LeafLikeApi DEF ApiMember
<1>2. \A x : /\ ApiObject(IpamData, x) = FlatJson(IpamData, x)
             /\ ApiObject(StaticRoute, x) = FlatJson(StaticRoute, x)
             /\ ApiObject(NodeInfo, x) = FlatJson(NodeInfo, x)
             /\ ApiObject(Interface, x) = FlatJson(Interface, x)
             /\ ApiObject(Nested["capabilities"], x) = FlatJson(Nested["capabilities"], x)
             /\ ApiObject(InterfaceName, x) = FlatJson(InterfaceName, x)
  BY ObjectLikeApi, FlatTables, Timeless
<1>3. \A x : x["created_at"] \in Nat => ApiObject(VolumeInfo, x) = FlatJson(VolumeInfo, x)
  BY ObjectLikeApi, FlatTables, Timeless
<1>4. ApiMember("ipam", v) = Array([i \in 1..Len(v) |-> FlatJson(IpamData, v[i])])
  BY <1>2, NestedFit DEF ApiMember
<1>5. ApiMember("routes", v) = Array([i \in 1..Len(v) |-> FlatJson(StaticRoute, v[i])])
  BY <1>2, NestedFit DEF ApiMember
<1>6. /\ ApiMember("node", v) = FlatJson(NodeInfo, v)
      /\ ApiMember("interface", v) = FlatJson(Interface, v)
      /\ ApiMember("capabilities", v) = FlatJson(Nested["capabilities"], v)
      /\ ApiMember("interface_name", v) = FlatJson(InterfaceName, v)
  BY <1>2, NestedFit DEF ApiMember
<1>7. v["created_at"] \in Nat => ApiMember("volume", v) = FlatJson(VolumeInfo, v)
  BY <1>3, NestedFit DEF ApiMember
<1>8. ASSUME \A x \in v : x["created_at"] \in Nat
      PROVE  ApiMember("volumes", v) = Array(SetToSeq({FlatJson(VolumeInfo, x) : x \in v}))
  <2>1. {ApiObject(ApiNested["volume"], x) : x \in v} = {FlatJson(VolumeInfo, x) : x \in v}
    BY <1>3, <1>8, NestedFit
  <2> QED BY <2>1 DEF ApiMember
<1> QED BY <1>1, <1>4, <1>5, <1>6, <1>7, <1>8

-----------------------------------------------------------------------------
(* Whether dockerd sees a failure depends on the member Err alone. *)
(* A response without Err fails by its status only.                        *)
LEMMA NoErr ==
  ASSUME NEW type \in ResponseTypes, type # "error_response", NEW v, NEW status
  PROVE  Failure(Answer(status, ToJson(type, v))) <=> status # 200
<1> DEFINE rows == Written(ResponseRows(type), v)
           json == [k \in {row.key : row \in rows} |->
                      MemberJson(KeyRow(rows, k).kind, v[KeyRow(rows, k).member])]
<1>1. \A row \in rows : row.key # "Err"
  BY TablesFit DEF Written, Table
<1>2. "Err" \notin DOMAIN json
  BY <1>1
<1>3. ToJson(type, v) = Object(json)
  BY DEF ToJson
<1> HIDE DEF json
<1>4. Answer(status, ToJson(type, v)).status = status
      /\ Answer(status, ToJson(type, v)).body.object = json
  BY <1>3 DEF Answer, Object
<1> QED BY <1>2, <1>4 DEF Failure, Has

(* An error_response fails by its status or by its text.                   *)
LEMMA ErrIsError ==
  ASSUME NEW v, NEW status
  PROVE  Failure(Answer(status, ToJson("error_response", v))) <=> status # 200 \/ v.error # ""
<1> DEFINE row == Text("Err", "error")
           json == [k \in {"Err"} |-> String(v.error)]
<1>1. ResponseRows("error_response") = {row}
  <2>1. "error_response" \in DOMAIN PluginResponses /\ PluginResponses["error_response"] = {row}
    BY DEF PluginResponses
  <2> QED BY <2>1, ResponseTables
<1>2. row.key = "Err" /\ row.member = "error" /\ row.kind = "text"
  BY DEF Text, Row
<1> HIDE DEF row
<1>3. Written({row}, v) = {row}
  BY <1>2 DEF Written
<1>4. KeyRow({row}, "Err") = row
  BY <1>2 DEF KeyRow
<1>5. MemberJson("text", v.error) = String(v.error)
  BY DEF MemberJson, Leaf
<1>6. ToJson("error_response", v) = Object(json)
  BY <1>1, <1>2, <1>3, <1>4, <1>5 DEF ToJson
<1>7. "Err" \in DOMAIN json /\ json["Err"] = String(v.error)
  OBVIOUS
<1> HIDE DEF json
<1>8. /\ Answer(status, ToJson("error_response", v)).status = status
      /\ Answer(status, ToJson("error_response", v)).body = Object(json)
      /\ Object(json).object = json /\ Is(Object(json), "object")
  BY <1>6 DEF Answer, Object, Is
<1>9. Is(String(v.error), "string") /\ String(v.error).string = v.error
  BY DEF Is, String
<1> DEFINE answer == Answer(status, ToJson("error_response", v))
<1>10. /\ answer.status = status /\ Is(answer.body, "object")
       /\ Has(answer.body.object, "Err", "string") /\ answer.body.object["Err"].string = v.error
  BY <1>7, <1>8, <1>9 DEF Has
<1> HIDE DEF answer
<1>11. Failure(answer) <=> status # 200 \/ v.error # ""
  BY <1>10, Zenon DEF Failure
<1> QED BY <1>11 DEF answer

(* A driver that fails says why.  Without it OutcomeAgreed is false: an    *)
(* error_response that is returned with a status and no text is taken for  *)
(* a success, because its status is not used (run dispatch_status), and so *)
(* is one that is thrown with status 200 and no text.                      *)
FailuresShow ==
  /\ \A v \in Results("error_response") : v # What("") => v.error # ""
  /\ \A e \in Errors : e.status # 200 \/ e.error # ""

(* Any other status is a failure, whatever the body is.                    *)
LEMMA StatusFails ==
  ASSUME NEW answer, answer.status # 200
  PROVE  Failure(answer)
BY Zenon DEF Failure

(* The members of what the last two handlers of invoke_plugin_handler make. *)
LEMMA WhatFacts ==
  ASSUME NEW text
  PROVE  What(text).error = text /\ What(text).status = 0
BY DEF What

(* Each end of invoke_plugin_handler shows whether the driver has failed.  *)
LEMMA OutcomeShown ==
  ASSUME FailuresShow, NEW route \in Routes, NEW outcome \in Outcomes(route)
  PROVE  Failure(Answered(route, outcome)) <=> Fails(route, outcome)
<1>1. CASE outcome.how = "returns" /\ route.response = "error_response"
  <2>1. outcome.value \in Results("error_response")
    BY <1>1 DEF Outcomes, Outcome
  <2>2. Answered(route, outcome) = Answer(200, ToJson("error_response", outcome.value))
    BY <1>1 DEF Answered
  <2>3. What("").error = ""
    BY WhatFacts
  <2> QED BY <1>1, <2>1, <2>2, <2>3, ErrIsError DEF FailuresShow, Fails
<1>2. CASE outcome.how = "returns" /\ route.response # "error_response"
  <2>1. Answered(route, outcome) = Answer(200, ToJson(route.response, outcome.value))
    BY <1>2 DEF Answered
  <2>2. route.response \in ResponseTypes
    BY RoutesAnswer
  <2>3. Failure(Answer(200, ToJson(route.response, outcome.value))) <=> 200 # 200
    BY <1>2, <2>2, NoErr
  <2>4. ~Fails(route, outcome)
    BY <1>2 DEF Fails
  <2> QED BY <2>1, <2>3, <2>4
<1>3. CASE outcome.how = "error_response"
  <2>1. outcome.value \in Errors
    BY <1>3 DEF Outcomes, Outcome
  <2>2. Answered(route, outcome) = Answer(outcome.value.status, ToJson("error_response", outcome.value))
    BY <1>3 DEF Answered
  <2> QED BY <1>3, <2>1, <2>2, ErrIsError DEF FailuresShow, Fails
<1>4. CASE outcome.how \in {"invalid_argument", "exception"}
  <2>1. Answered(route, outcome).status \in {400, 500}
    BY <1>4 DEF Answered, Answer
  <2>2. Failure(Answered(route, outcome))
    BY <2>1, StatusFails
  <2>3. Fails(route, outcome)
    BY <1>4 DEF Fails
  <2> QED BY <2>2, <2>3
<1> QED BY <1>1, <1>2, <1>3, <1>4, OutcomeType

(* A driver is called on a route of on_message_complete, never on none. *)
LEMMA CalledRoute ==
  ASSUME IndInv, NEW r \in Requests, AnswerCalled(r)
  PROVE  RouteOf(r.url) \in Routes
BY RouteOfType, NoDriver
   DEF AnswerCalled, Callable, HasObject, IndInv, DriversKnown, NoRoute, Route

(* dockerd takes an answer for a failure if, and only if, the driver was   *)
(* not called or means that the call failed: on all 29 routes of           *)
(* on_message_complete, for every request, every value that a driver       *)
(* returns and every exception that invoke_plugin_handler catches.         *)
THEOREM OutcomesAgree ==
  ASSUME FailuresShow
  PROVE  Spec => []OutcomeAgreed
<1>1. Init => OutcomeAgreed
  BY DEF Init, OutcomeAgreed
<1>2. IndInv /\ OutcomeAgreed /\ [Next]_vars => OutcomeAgreed'
  <2> SUFFICES ASSUME IndInv, OutcomeAgreed, [Next]_vars PROVE OutcomeAgreed'
    OBVIOUS
  <2>1. CASE last' = last \/ last' = NothingYet
    BY <2>1 DEF OutcomeAgreed
  <2>2. ASSUME NEW route, NEW r, NEW argument, NEW outcome, NEW answer,
               last' = Exchange(r, route, argument, outcome, answer),
               Failure(answer) <=> Fails(route, outcome)
        PROVE  OutcomeAgreed'
    <3>1. last'.answer = answer /\ last'.route = route /\ last'.outcome = outcome
      BY <2>2 DEF Exchange
    <3> QED BY <2>2, <3>1 DEF OutcomeAgreed
  <2>4. \A route : Fails(route, NotCalled)
    BY DEF Fails, NotCalled, Outcome
  <2>5. ASSUME NEW r \in Requests, AnswerNotFound(r) PROVE OutcomeAgreed'
    <3>1. NotFound.status # 200
      BY DEF NotFound, Answer
    <3>2. last' = Exchange(r, RouteOf(r.url), Nothing, NotCalled, NotFound)
      BY <2>5 DEF AnswerNotFound
    <3> QED BY <2>2, <2>4, <3>1, <3>2, StatusFails
  <2>6. ASSUME NEW r \in Requests, AnswerUnparsed(r) PROVE OutcomeAgreed'
    <3>1. PICK answer : /\ last' = Exchange(r, RouteOf(r.url), Nothing, NotCalled, answer)
                        /\ answer.status \in {400, 500}
      BY <2>6 DEF AnswerUnparsed, Answer
    <3>2. Failure(answer)
      BY <3>1, StatusFails
    <3> QED BY <2>2, <2>4, <3>1, <3>2
  <2>7. ASSUME NEW r \in Requests, AnswerActivate(r) PROVE OutcomeAgreed'
    <3> DEFINE outcome == Outcome("returns", ActivateResponse)
    <3>1. last' = Exchange(r, Activate, Nothing, outcome, Answered(Activate, outcome))
      BY <2>7 DEF AnswerActivate
    <3>2. outcome.how = "returns" /\ outcome.value = ActivateResponse
      BY DEF Outcome
    <3>3. Activate.response = "activate_response" /\ Activate.response \in ResponseTypes
      BY DEF Activate, Route, ResponseTypes, PluginResponses
    <3> HIDE DEF outcome
    <3>4. Answered(Activate, outcome) = Answer(200, ToJson("activate_response", outcome.value))
      BY <3>2, <3>3 DEF Answered
    <3>5. Failure(Answer(200, ToJson("activate_response", outcome.value))) <=> 200 # 200
      BY <3>3, NoErr
    <3>6. ~Fails(Activate, outcome)
      BY <3>2, <3>3 DEF Fails
    <3> QED BY <2>2, <3>1, <3>4, <3>5, <3>6
  <2>8. ASSUME NEW r \in Requests, AnswerCalled(r) PROVE OutcomeAgreed'
    <3> DEFINE route == RouteOf(r.url)
    <3>1. route \in Routes
      BY <2>8, CalledRoute
    <3>2. PICK outcome \in Outcomes(route) :
            last' = Exchange(r, route, FromJson(route.request, r.body).value, outcome,
                             Answered(route, outcome))
      BY <2>8 DEF AnswerCalled
    <3> HIDE DEF route
    <3> QED BY <2>2, <3>1, <3>2, OutcomeShown
  <2>9. ASSUME NEW r \in Requests, Terminate(r) PROVE OutcomeAgreed'
    BY <2>1, <2>9 DEF Terminate
  <2> QED BY <2>1, <2>5, <2>6, <2>7, <2>8, <2>9
          DEF Next, OnMessageComplete, Restart, ReadAnswer, Register, vars
<1> QED BY <1>1, <1>2, Invariance, PTL DEF Spec

-----------------------------------------------------------------------------
(* What a struct of the C++ type holds; the table of address_spaces_response *)
(* lacks one of its two members.                                           *)
MembersOf(type) ==
  IF type = "address_spaces_response"
  THEN {"local_default_address_space", "global_default_address_space"}
  ELSE Members(ResponseRows(type))

(* A driver returns structs of the type that its method has: they have all *)
(* members of the type, whatever the values (status is not written); times *)
(* are not before 1970.                                                    *)
IsResult(type, v) ==
  /\ DOMAIN v \ {"status"} = MembersOf(type)
  /\ type = "get_response" => v["volume"]["created_at"] \in Nat
  /\ type = "list_response" => \A x \in v["volumes"] : x["created_at"] \in Nat

ResultsAreStructs ==
  \A type \in ResponseTypes : \A v \in Results(type) : IsResult(type, v)

(* to_json writes the local default address space for the global one too   *)
(* (serialize.cpp:431), so that AnswerUnderstood is false of a driver      *)
(* whose two differ.                                                       *)
OneAddressSpace ==
  \A v \in Results("address_spaces_response") :
    v["global_default_address_space"] = v["local_default_address_space"]

(* to_json of every other type writes what the API has.                    *)
LEMMA LikeApi ==
  ASSUME NEW type \in ResponseTypes, type # "address_spaces_response", NEW v, IsResult(type, v)
  PROVE  ToJson(type, v) = ApiJson(type, v)
<1> DEFINE rows == ResponseRows(type)
           written == Written(rows, v)
           keys == {row.key : row \in written}
<1>1. Table(rows, type)
  BY TablesFit
<1>2. {ApiRow(type, m) : m \in DOMAIN v \ {"status"}} = rows
  <2>1. DOMAIN v \ {"status"} = {row.member : row \in rows}
    BY DEF Members, MembersOf, IsResult
  <2>2. \A row \in rows : ApiRow(type, row.member) = row
    BY <1>1 DEF Table
  <2> QED BY <2>1, <2>2
<1>3. \A k \in keys : KeyRow(written, k) \in rows
  <2> SUFFICES ASSUME NEW row \in written PROVE KeyRow(written, row.key) \in rows
    OBVIOUS
  <2>1. row \in rows /\ \A r, other \in written : r.key = other.key => r = other
    BY <1>1 DEF Table, Written
  <2> HIDE DEF written
  <2> QED BY <2>1, KeyRowIs
<1>4. ASSUME NEW row \in rows
      PROVE  ApiMember(row.kind, v[row.member]) = MemberJson(row.kind, v[row.member])
  <2> DEFINE x == v[row.member]
  <2>1. CASE row.kind \in {"text", "flag", "number", "map"}
    BY <2>1, ApiMembers DEF MemberJson
  <2>2. CASE row.kind = "names"
    BY <2>2 DEF ApiMember, MemberJson
  <2>3. CASE row.kind = "volume"
    <3>1. x["created_at"] \in Nat
      BY <1>1, <2>3 DEF Table, IsResult
    <3> QED BY <2>3, <3>1, ApiMembers, NestedIs DEF MemberJson
  <2>4. CASE row.kind = "volumes"
    <3>1. \A y \in x : y["created_at"] \in Nat
      BY <1>1, <2>4 DEF Table, IsResult
    <3> QED BY <2>4, <3>1, ApiMembers DEF MemberJson
  <2>5. CASE row.kind = "routes"
    BY <2>5, ApiMembers DEF MemberJson
  <2>6. CASE row.kind \in {"interface", "capabilities", "interface_name"}
    BY <2>6, ApiMembers, NestedIs DEF MemberJson
  <2> QED BY <1>1, <2>1, <2>2, <2>3, <2>4, <2>5, <2>6 DEF Table
<1>5. \A k \in keys : ApiMember(KeyRow(written, k).kind, v[KeyRow(written, k).member])
                         = MemberJson(KeyRow(written, k).kind, v[KeyRow(written, k).member])
  BY <1>3, <1>4
<1>6. ToJson(type, v) =
        Object([k \in keys |-> MemberJson(KeyRow(written, k).kind, v[KeyRow(written, k).member])])
  BY DEF ToJson
<1>7. ApiJson(type, v) =
        Object([k \in keys |-> ApiMember(KeyRow(written, k).kind, v[KeyRow(written, k).member])])
  BY <1>2, BlankIsNothing DEF ApiJson, Written
<1> HIDE DEF keys, written
<1> QED BY <1>5, <1>6, <1>7

(* The type whose table differs from the API, if the difference is unseen. *)
LEMMA SpacesLikeApi ==
  ASSUME NEW v, DOMAIN v \ {"status"} = MembersOf("address_spaces_response"),
         v["global_default_address_space"] = v["local_default_address_space"]
  PROVE  ToJson("address_spaces_response", v) = ApiJson("address_spaces_response", v)
<1> DEFINE local  == Text("LocalDefaultAddressSpace", "local_default_address_space")
           both   == Text("GlobalDefaultAddressSpace", "local_default_address_space")
           global == Text("GlobalDefaultAddressSpace", "global_default_address_space")
           keys   == {"LocalDefaultAddressSpace", "GlobalDefaultAddressSpace"}
           space  == v["local_default_address_space"]
           json   == [k \in keys |-> String(space)]
<1>1. ResponseRows("address_spaces_response") = {local, both}
  <2>1. /\ "address_spaces_response" \in DOMAIN IpamResponses
        /\ IpamResponses["address_spaces_response"] = {local, both}
    BY DEF IpamResponses
  <2> QED BY <2>1, ResponseTables
<1>2. {ApiRow("address_spaces_response", m) : m \in DOMAIN v \ {"status"}} = {local, global}
  <2>1. /\ ApiRow("address_spaces_response", "local_default_address_space") = local
        /\ ApiRow("address_spaces_response", "global_default_address_space") = global
    BY DEF ApiRow, RowOf, Api, Text, Row, Options
  <2> QED BY <2>1 DEF MembersOf
<1>3. /\ local.key = "LocalDefaultAddressSpace" /\ local.member = "local_default_address_space"
      /\ both.key = "GlobalDefaultAddressSpace" /\ both.member = "local_default_address_space"
      /\ global.key = "GlobalDefaultAddressSpace" /\ global.member = "global_default_address_space"
      /\ local.kind = "text" /\ both.kind = "text" /\ global.kind = "text"
  BY DEF Text, Row
<1> HIDE DEF local, both, global
<1>4. Written({local, both}, v) = {local, both} /\ Written({local, global}, v) = {local, global}
  BY <1>3 DEF Written
<1>5. /\ KeyRow({local, both}, "LocalDefaultAddressSpace") = local
      /\ KeyRow({local, both}, "GlobalDefaultAddressSpace") = both
      /\ KeyRow({local, global}, "LocalDefaultAddressSpace") = local
      /\ KeyRow({local, global}, "GlobalDefaultAddressSpace") = global
  BY <1>3 DEF KeyRow
<1>6. MemberJson("text", space) = String(space) /\ ApiMember("text", space) = String(space)
  BY ApiMembers DEF MemberJson, Leaf
<1>7. {row.key : row \in {local, both}} = keys /\ {row.key : row \in {local, global}} = keys
  BY <1>3
<1>8. ToJson("address_spaces_response", v) = Object(json)
  <2> DEFINE R == {local, both}
  <2>1. ToJson("address_spaces_response", v) =
          Object([k \in keys |-> MemberJson(KeyRow(R, k).kind, v[KeyRow(R, k).member])])
    BY <1>1, <1>4, <1>7 DEF ToJson
  <2>2. \A k \in keys : MemberJson(KeyRow(R, k).kind, v[KeyRow(R, k).member]) = String(space)
    BY <1>3, <1>5, <1>6
  <2> HIDE DEF R
  <2> QED BY <2>1, <2>2
<1>9. ApiJson("address_spaces_response", v) = Object(json)
  BY <1>2, <1>3, <1>4, <1>5, <1>6, <1>7, BlankIsNothing DEF ApiJson, Written
<1> QED BY <1>8, <1>9

(* Whatever a driver returns is written as the API has it.                 *)
LEMMA ResultLikeApi ==
  ASSUME ResultsAreStructs, OneAddressSpace, NEW type \in ResponseTypes, NEW v \in Results(type)
  PROVE  ToJson(type, v) = ApiJson(type, v)
<1>1. IsResult(type, v)
  BY DEF ResultsAreStructs
<1>2. CASE type = "address_spaces_response"
  BY <1>1, <1>2, SpacesLikeApi DEF OneAddressSpace, IsResult
<1>3. CASE type # "address_spaces_response"
  BY <1>1, <1>3, LikeApi
<1> QED BY <1>2, <1>3

(* What a driver returns, member by member, reaches dockerd as its API has *)
(* it: no key is misspelled, none is left out but an empty interface, and  *)
(* none is written from another member.                                    *)
THEOREM AnswersUnderstood ==
  ASSUME ResultsAreStructs, OneAddressSpace
  PROVE  Spec => []AnswerUnderstood
<1>1. NothingYet.outcome.how # "returns"
  BY DEF NothingYet, Exchange, NotCalled, Outcome
<1>2. Init => AnswerUnderstood
  BY <1>1 DEF Init, AnswerUnderstood
<1>3. IndInv /\ AnswerUnderstood /\ [Next]_vars => AnswerUnderstood'
  <2> SUFFICES ASSUME IndInv, AnswerUnderstood, [Next]_vars PROVE AnswerUnderstood'
    OBVIOUS
  <2>1. CASE last' = last \/ last' = NothingYet
    BY <1>1, <2>1 DEF AnswerUnderstood
  <2>2. ASSUME NEW r \in Requests, AnswerNotFound(r) \/ AnswerUnparsed(r) PROVE AnswerUnderstood'
    <3>1. last'.outcome = NotCalled
      BY <2>2 DEF AnswerNotFound, AnswerUnparsed, Exchange
    <3>2. NotCalled.how # "returns"
      BY DEF NotCalled, Outcome
    <3> QED BY <3>1, <3>2 DEF AnswerUnderstood
  <2>3. ASSUME NEW route, NEW r, NEW argument, NEW outcome,
               last' = Exchange(r, route, argument, outcome, Answered(route, outcome)),
               outcome.how = "returns" =>
                 ToJson(route.response, outcome.value) = ApiJson(route.response, outcome.value)
        PROVE  AnswerUnderstood'
    <3>1. /\ last'.route = route /\ last'.outcome = outcome
          /\ last'.answer = Answered(route, outcome)
      BY <2>3 DEF Exchange
    <3>2. outcome.how = "returns" =>
            Answered(route, outcome) = Answer(200, ToJson(route.response, outcome.value))
      BY DEF Answered
    <3> QED BY <2>3, <3>1, <3>2 DEF AnswerUnderstood
  <2>4. ASSUME NEW r \in Requests, AnswerActivate(r) PROVE AnswerUnderstood'
    <3> DEFINE outcome == Outcome("returns", ActivateResponse)
    <3>1. last' = Exchange(r, Activate, Nothing, outcome, Answered(Activate, outcome))
      BY <2>4 DEF AnswerActivate
    <3>2. outcome.value = ActivateResponse
      BY DEF Outcome
    <3>3. /\ Activate.response = "activate_response"
          /\ "activate_response" \in DOMAIN PluginResponses
          /\ PluginResponses["activate_response"] = {Row("Implements", "implements", "names")}
      BY DEF Activate, Route, PluginResponses
    <3>4. IsResult("activate_response", ActivateResponse)
      <4>1. Members({Row("Implements", "implements", "names")}) = {"implements"}
        BY DEF Members, Row
      <4>2. DOMAIN ActivateResponse \ {"status"} = {"implements"}
        BY DEF ActivateResponse
      <4> QED BY <3>3, <4>1, <4>2, ResponseTables DEF IsResult, MembersOf
    <3>5. ToJson("activate_response", ActivateResponse)
            = ApiJson("activate_response", ActivateResponse)
      BY <3>3, <3>4, LikeApi DEF ResponseTypes
    <3> HIDE DEF outcome
    <3> QED BY <2>3, <3>1, <3>2, <3>3, <3>5
  <2>5. ASSUME NEW r \in Requests, AnswerCalled(r) PROVE AnswerUnderstood'
    <3> DEFINE route == RouteOf(r.url)
    <3>1. route.response \in ResponseTypes
      BY <2>5, CalledRoute, RoutesAnswer
    <3>2. PICK outcome \in Outcomes(route) :
            last' = Exchange(r, route, FromJson(route.request, r.body).value, outcome,
                             Answered(route, outcome))
      BY <2>5 DEF AnswerCalled
    <3>3. outcome.how = "returns" => outcome.value \in Results(route.response)
      BY <3>2 DEF Outcomes, Outcome
    <3> HIDE DEF route
    <3> QED BY <2>3, <3>1, <3>2, <3>3, ResultLikeApi
  <2>6. ASSUME NEW r \in Requests, Terminate(r) PROVE AnswerUnderstood'
    BY <2>1, <2>6 DEF Terminate
  <2> QED BY <2>1, <2>2, <2>4, <2>5, <2>6
          DEF Next, OnMessageComplete, Restart, ReadAnswer, Register, vars
<1> QED BY <1>2, <1>3, Invariance, PTL DEF Spec
-----------------------------------------------------------------------------
(* Requests. *)

(* The types that have a from_json function that reads the body.           *)
RequestTypes ==
  DOMAIN VolumeRequests \cup DOMAIN NetworkRequests \cup DOMAIN EndpointRequests
    \cup DOMAIN IpamRequests

(* No type is in two tables, so RequestRows finds the table of each.       *)
LEMMA RequestTables ==
  /\ \A type \in DOMAIN VolumeRequests : RequestRows(type) = VolumeRequests[type]
  /\ \A type \in DOMAIN NetworkRequests : RequestRows(type) = NetworkRequests[type]
  /\ \A type \in DOMAIN EndpointRequests : RequestRows(type) = EndpointRequests[type]
  /\ \A type \in DOMAIN IpamRequests : RequestRows(type) = IpamRequests[type]
<1>1. DOMAIN VolumeRequests = {"create_request", "remove_request", "mount_request",
                               "unmount_request", "path_request", "get_request"}
  BY DEF VolumeRequests
<1>2. DOMAIN NetworkRequests = {"create_network_request", "allocate_network_request",
                                "delete_network_request", "free_network_request"}
  BY DEF NetworkRequests
<1>3. DOMAIN EndpointRequests =
        {"create_endpoint_request", "delete_endpoint_request", "info_request", "join_request",
         "leave_request", "discovery_notification", "program_external_connectivity_request",
         "revoke_external_connectivity_request"}
  BY DEF EndpointRequests
<1>4. DOMAIN IpamRequests = {"request_pool_request", "release_pool_request",
                             "request_address_request", "release_address_request"}
  BY DEF IpamRequests
<1> QED BY <1>1, <1>2, <1>3, <1>4 DEF RequestRows

(* What the proofs need of a table of from_json: a key and a member have   *)
(* one row each, and the row is the one that the API has for the member,   *)
(* but for ipv6_data, which nothing reads.                                 *)
Unread == Row(NoKey, "ipv6_data", "ipam")
Kinds  == {"text", "flag", "number", "map", "ipam", "interface", "node"}

RequestTable(rows, type) ==
  /\ \A row, other \in rows : row.key = other.key \/ row.member = other.member => row = other
  /\ \A row \in rows :
       /\ row.kind \in Kinds /\ row.member # "status" /\ row.key # "IPv6Data"
       /\ row # Unread => row.key # NoKey /\ ApiRow(type, row.member) = row
       /\ row.kind = "node" =>
            /\ row.key = "DiscoveryData"
            /\ Row("DiscoveryType", "discovery_type", "number") \in rows

(* No key is the empty text, which stands for no key in the row Unread.    *)
LEMMA KeysShown ==
  /\ "Name" # NoKey /\ "ID" # NoKey /\ "Opts" # NoKey /\ "Options" # NoKey /\ "NetworkID" # NoKey
  /\ "EndpointID" # NoKey /\ "IPv4Data" # NoKey /\ "IPv6Data" # NoKey /\ "Interface" # NoKey
  /\ "SandboxKey" # NoKey /\ "DiscoveryType" # NoKey /\ "DiscoveryData" # NoKey /\ "AddressSpace" # NoKey
  /\ "Pool" # NoKey /\ "SubPool" # NoKey /\ "V6" # NoKey /\ "PoolID" # NoKey /\ "Address" # NoKey
BY Zenon DEF NoKey

(* All tables are so.                                                      *)
LEMMA RequestTablesFit ==
  ASSUME NEW type \in RequestTypes
  PROVE  RequestTable(RequestRows(type), type)
<1>1. ASSUME NEW t \in DOMAIN VolumeRequests PROVE RequestTable(VolumeRequests[t], t)
  <2>1. \A row \in VolumeRequests[t] : ApiRow(t, row.member) = row
    BY KeysShown DEF VolumeRequests, Named, Mounting, ApiRow, RowOf, Api, Text, Row, Options
  <2>2. \A row, other \in VolumeRequests[t] : row.key = other.key \/ row.member = other.member => row = other
    BY KeysShown DEF VolumeRequests, Named, Mounting, Text, Row, Options
  <2>3. \A row \in VolumeRequests[t] : row.kind \in Kinds /\ row.member # "status" /\ row.key # "IPv6Data"
    BY KeysShown DEF VolumeRequests, Named, Mounting, Text, Row, Options, Kinds
  <2>4. \A row \in VolumeRequests[t] : row # Unread => row.key # NoKey
    BY KeysShown DEF VolumeRequests, Named, Mounting, Text, Row, Options, Unread
  <2>5. \A row \in VolumeRequests[t] : row.kind = "node" =>
          row.key = "DiscoveryData" /\ Row("DiscoveryType", "discovery_type", "number") \in VolumeRequests[t]
    BY KeysShown DEF VolumeRequests, Named, Mounting, Text, Row, Options
  <2> QED BY <2>1, <2>2, <2>3, <2>4, <2>5 DEF RequestTable
<1>2. ASSUME NEW t \in DOMAIN NetworkRequests PROVE RequestTable(NetworkRequests[t], t)
  <2>1. \A row \in NetworkRequests[t] : row # Unread => ApiRow(t, row.member) = row
    BY KeysShown DEF NetworkRequests, Network, Ipam, ApiRow, RowOf, Api, Text, Row, Options, Unread
  <2>2. \A row, other \in NetworkRequests[t] : row.key = other.key \/ row.member = other.member => row = other
    BY KeysShown DEF NetworkRequests, Network, Ipam, Text, Row, Options
  <2>3. \A row \in NetworkRequests[t] : row.kind \in Kinds /\ row.member # "status" /\ row.key # "IPv6Data"
    BY KeysShown DEF NetworkRequests, Network, Ipam, Text, Row, Options, Kinds
  <2>4. \A row \in NetworkRequests[t] : row # Unread => row.key # NoKey
    BY KeysShown DEF NetworkRequests, Network, Ipam, Text, Row, Options, Unread
  <2>5. \A row \in NetworkRequests[t] : row.kind = "node" =>
          row.key = "DiscoveryData" /\ Row("DiscoveryType", "discovery_type", "number") \in NetworkRequests[t]
    BY KeysShown DEF NetworkRequests, Network, Ipam, Text, Row, Options
  <2> QED BY <2>1, <2>2, <2>3, <2>4, <2>5 DEF RequestTable
<1>3. ASSUME NEW t \in DOMAIN EndpointRequests PROVE RequestTable(EndpointRequests[t], t)
  <2>1. \A row \in EndpointRequests[t] : ApiRow(t, row.member) = row
    BY KeysShown DEF EndpointRequests, Network, Endpoint, ApiRow, RowOf, Api, Text, Row, Options
  <2>2. \A row, other \in EndpointRequests[t] : row.key = other.key \/ row.member = other.member => row = other
    BY KeysShown DEF EndpointRequests, Network, Endpoint, Text, Row, Options
  <2>3. \A row \in EndpointRequests[t] : row.kind \in Kinds /\ row.member # "status" /\ row.key # "IPv6Data"
    BY KeysShown DEF EndpointRequests, Network, Endpoint, Text, Row, Options, Kinds
  <2>4. \A row \in EndpointRequests[t] : row # Unread => row.key # NoKey
    BY KeysShown DEF EndpointRequests, Network, Endpoint, Text, Row, Options, Unread
  <2>5. \A row \in EndpointRequests[t] : row.kind = "node" =>
          row.key = "DiscoveryData" /\ Row("DiscoveryType", "discovery_type", "number") \in EndpointRequests[t]
    BY KeysShown DEF EndpointRequests, Network, Endpoint, Text, Row, Options
  <2> QED BY <2>1, <2>2, <2>3, <2>4, <2>5 DEF RequestTable
<1>4. ASSUME NEW t \in DOMAIN IpamRequests PROVE RequestTable(IpamRequests[t], t)
  <2>1. \A row \in IpamRequests[t] : ApiRow(t, row.member) = row
    BY KeysShown DEF IpamRequests, ApiRow, RowOf, Api, Text, Row, Options
  <2>2. \A row, other \in IpamRequests[t] : row.key = other.key \/ row.member = other.member => row = other
    BY KeysShown DEF IpamRequests, Text, Row, Options
  <2>3. \A row \in IpamRequests[t] : row.kind \in Kinds /\ row.member # "status" /\ row.key # "IPv6Data"
    BY KeysShown DEF IpamRequests, Text, Row, Options, Kinds
  <2>4. \A row \in IpamRequests[t] : row # Unread => row.key # NoKey
    BY KeysShown DEF IpamRequests, Text, Row, Options, Unread
  <2>5. \A row \in IpamRequests[t] : row.kind = "node" =>
          row.key = "DiscoveryData" /\ Row("DiscoveryType", "discovery_type", "number") \in IpamRequests[t]
    BY KeysShown DEF IpamRequests, Text, Row, Options
  <2> QED BY <2>1, <2>2, <2>3, <2>4, <2>5 DEF RequestTable
<1> QED BY <1>1, <1>2, <1>3, <1>4, RequestTables DEF RequestTypes

(* Every handler of on_message_complete reads a type of the tables, or     *)
(* does not look at the body.                                              *)
LEMMA RoutesRead ==
  ASSUME NEW route \in Routes \cup {NoRoute}
  PROVE  route.request \in RequestTypes \cup {"empty_type"}
<1>1. CASE route = Activate \/ route = NoRoute
  BY <1>1 DEF Activate, NoRoute, Route
<1>2. CASE route \in VolumeRoutes
  BY <1>2 DEF VolumeRoutes, VolumeRoute, Route, RequestTypes, VolumeRequests
<1>3. CASE route \in NetworkRoutes
  BY <1>3 DEF NetworkRoutes, NetworkRoute, Route, RequestTypes, NetworkRequests, EndpointRequests
<1>4. CASE route \in IpamRoutes
  BY <1>4 DEF IpamRoutes, IpamRoute, Route, RequestTypes, IpamRequests
<1> QED BY <1>1, <1>2, <1>3, <1>4 DEF Routes

-----------------------------------------------------------------------------
(* The elements of an array of pools. *)

(* Nth counts the numbers up to n one by one.                              *)
LEMMA NthOfAll ==
  ASSUME NEW len \in Nat, NEW n \in 1..len
  PROVE  Nth(1..len, n) = n
<1>1. \A i \in 1..len : {j \in 1..len : j <= i} = 1..i
  OBVIOUS
<1>2. \A i \in 1..len : Cardinality(1..i) = i
  BY FS_Interval
<1> QED BY <1>1, <1>2 DEF Nth

(* The members of a struct whose rows are flat, with maps that are empty:  *)
(* convert_map loses what is in them (run dispatch_options).               *)
IsFlat(rows, v) ==
  /\ v = [m \in Members(rows) |-> v[m]]
  /\ \A row \in rows : row.kind = "map" => v[row.member] = NoEntries

(* What a leaf is written as is read as the leaf.                          *)
LEMMA LeafRead ==
  ASSUME NEW kind \in {"text", "flag", "number"}, NEW x
  PROVE  Is(Leaf(kind, x), JsonType[kind]) /\ Leaf(kind, x)[JsonType[kind]] = x
BY DEF Leaf, JsonType, Is, String, Bool, Int64

(* A flat struct is read from the object that is written for it.           *)
LEMMA FlatRead ==
  ASSUME NEW rows, FlatTable(rows), \A row \in rows : row.kind # "time", NEW v, IsFlat(rows, v)
  PROVE  Is(FlatJson(rows, v), "object") /\ Flat(rows, FlatJson(rows, v).object) = v
<1> DEFINE obj == [k \in {row.key : row \in rows} |->
                     Leaf(KeyRow(rows, k).kind, v[KeyRow(rows, k).member])]
<1>1. FlatJson(rows, v) = Object(obj)
  BY DEF FlatJson
<1>2. ASSUME NEW row \in rows
      PROVE  row.key \in DOMAIN obj /\ obj[row.key] = Leaf(row.kind, v[row.member])
  <2>1. KeyRow(rows, row.key) = row
    BY KeyRowIs DEF FlatTable
  <2> QED BY <2>1
<1> HIDE DEF obj
<1>3. ASSUME NEW row \in rows PROVE FlatValue(row, obj) = v[row.member]
  <2>1. CASE row.kind = "map"
    BY <2>1 DEF FlatValue, Plain, IsFlat
  <2>2. CASE row.kind \in {"text", "flag", "number"}
    <3>1. Has(obj, row.key, JsonType[row.kind]) /\ obj[row.key][JsonType[row.kind]] = v[row.member]
      BY <1>2, <2>2, LeafRead DEF Has
    <3> QED BY <2>2, <3>1 DEF FlatValue
  <2> QED BY <2>1, <2>2 DEF FlatTable
<1>4. \A m \in Members(rows) : FlatValue(RowOf(rows, m), obj) = v[m]
  <2> SUFFICES ASSUME NEW row \in rows PROVE FlatValue(RowOf(rows, row.member), obj) = v[row.member]
    BY DEF Members
  <2>1. RowOf(rows, row.member) = row
    BY DEF RowOf, FlatTable
  <2> QED BY <1>3, <2>1
<1>5. Flat(rows, obj) = v
  BY <1>4 DEF Flat, IsFlat
<1> QED BY <1>1, <1>5 DEF Object, Is

(* parse_ipam_data keeps all that is written if nothing of it is blank.    *)
LEMMA IpamRead ==
  ASSUME NEW v, v = [i \in 1..Len(v) |-> v[i]], Len(v) \in Nat,
         \A i \in 1..Len(v) : IsFlat(IpamData, v[i]) /\ v[i] # Blank(IpamData)
  PROVE  ParseIpamData(ApiMember("ipam", v)) = v
<1> DEFINE array == [i \in 1..Len(v) |-> FlatJson(IpamData, v[i])]
           kept  == {i \in DOMAIN array : /\ Is(array[i], "object")
                                          /\ Flat(IpamData, array[i].object) # Blank(IpamData)}
<1>1. ApiMember("ipam", v) = Array(array)
  BY ApiMembers
<1>2. \A i \in 1..Len(v) : Is(array[i], "object") /\ Flat(IpamData, array[i].object) = v[i]
  BY FlatRead, FlatTables, Timeless
<1>3. kept = 1..Len(v)
  BY <1>2
<1>4. Is(Array(array), "array") /\ Array(array).array = array
  BY DEF Is, Array
<1> HIDE DEF array
<1>5. ParseIpamData(Array(array)) =
        [n \in 1..Cardinality(kept) |-> Flat(IpamData, array[Nth(kept, n)].object)]
  BY <1>4 DEF ParseIpamData
<1>6. Cardinality(1..Len(v)) = Len(v)
  BY FS_Interval
<1>7. \A n \in 1..Len(v) : Flat(IpamData, array[Nth(1..Len(v), n)].object) = v[n]
  BY <1>2, NthOfAll
<1> HIDE DEF kept
<1>8. ParseIpamData(Array(array)) = [n \in 1..Len(v) |-> v[n]]
  BY <1>3, <1>5, <1>6, <1>7
<1> QED BY <1>1, <1>8
-----------------------------------------------------------------------------
(* Whole requests. *)

(* An array of pools, of which parse_ipam_data drops none.                 *)
IsPools(x) ==
  /\ x \in Seq(ToSet(x))
  /\ \A i \in 1..Len(x) : IsFlat(IpamData, x[i]) /\ x[i] # Blank(IpamData)

(* What the plugin can be told: all members of the type, of any value, but *)
(* no options or auxiliary addresses and no IPv6 pools, which from_json    *)
(* loses, and data about a node only if the notice is about a node.        *)
IsMeant(type, v) ==
  /\ v = [m \in Members(RequestRows(type)) |-> v[m]]
  /\ \A row \in RequestRows(type) :
       /\ row.kind = "map" => v[row.member] = NoEntries
       /\ row.kind = "ipam" => IsPools(v[row.member])
       /\ row = Unread => v[row.member] = <<>>
       /\ row.kind = "interface" => IsFlat(Interface, v[row.member])
       /\ row.kind = "node" =>
            /\ IsFlat(NodeInfo, v[row.member])
            /\ v["discovery_type"] # 1 => v[row.member] = Blank(NodeInfo)

(* A member is read from the field that is written for it.                 *)
LEMMA MemberRead ==
  ASSUME NEW type \in RequestTypes, NEW v, IsMeant(type, v),
         NEW row \in RequestRows(type), row # Unread, NEW obj,
         row.key \in DOMAIN obj, obj[row.key] = ApiMember(row.kind, v[row.member]),
         row.kind = "node" =>
           /\ "DiscoveryType" \in DOMAIN obj
           /\ obj["DiscoveryType"] = Int64(v["discovery_type"])
  PROVE  MemberValue(row, obj) = v[row.member]
<1> DEFINE x == v[row.member]
<1>1. row.kind \in Kinds /\ (row.kind = "node" => row.key = "DiscoveryData")
  BY RequestTablesFit DEF RequestTable
<1>2. CASE row.kind \in {"text", "flag", "number"}
  <2>1. obj[row.key] = Leaf(row.kind, x)
    BY <1>2, ApiMembers
  <2>2. Has(obj, row.key, JsonType[row.kind]) /\ obj[row.key][JsonType[row.kind]] = x
    BY <1>2, <2>1, LeafRead DEF Has
  <2>3. FlatValue(row, obj) = x
    BY <1>2, <2>2 DEF FlatValue
  <2> QED BY <1>2, <2>3 DEF MemberValue
<1>3. CASE row.kind = "map"
  BY <1>3 DEF MemberValue, ConvertMap, IsMeant
<1>4. CASE row.kind = "ipam"
  <2>1. IsPools(x)
    BY <1>4 DEF IsMeant
  <2>2. x = [i \in 1..Len(x) |-> x[i]] /\ Len(x) \in Nat
    BY <2>1 DEF IsPools
  <2>3. ParseIpamData(ApiMember("ipam", x)) = x
    BY <2>1, <2>2, IpamRead DEF IsPools
  <2> QED BY <1>4, <2>3 DEF MemberValue
<1>5. CASE row.kind = "interface"
  <2>1. IsFlat(Interface, x)
    BY <1>5 DEF IsMeant
  <2>2. obj[row.key] = FlatJson(Interface, x)
    BY <1>5, ApiMembers
  <2>3. ParseEndpointInterface(FlatJson(Interface, x)) = x
    BY <2>1, FlatRead, FlatTables, Timeless DEF ParseEndpointInterface
  <2> QED BY <1>5, <2>2, <2>3 DEF MemberValue
<1>6. CASE row.kind = "node"
  <2>1. IsFlat(NodeInfo, x) /\ (v["discovery_type"] # 1 => x = Blank(NodeInfo))
    BY <1>6 DEF IsMeant
  <2>2. obj["DiscoveryData"] = FlatJson(NodeInfo, x) /\ "DiscoveryData" \in DOMAIN obj
    BY <1>1, <1>6, ApiMembers
  <2>3. Is(FlatJson(NodeInfo, x), "object") /\ Flat(NodeInfo, FlatJson(NodeInfo, x).object) = x
    BY <2>1, FlatRead, FlatTables, Timeless
  <2>4. obj["DiscoveryType"].int64 = v["discovery_type"] /\ Is(obj["DiscoveryType"], "int64")
    BY <1>6 DEF Int64, Is
  <2>5. ParseNodeInfo(obj) = x
    BY <1>6, <2>1, <2>2, <2>3, <2>4 DEF ParseNodeInfo, Has
  <2> QED BY <1>6, <2>5 DEF MemberValue
<1> QED BY <1>1, <1>2, <1>3, <1>4, <1>5, <1>6 DEF Kinds

(* Nothing that dockerd writes makes convert_map throw.                    *)
LEMMA NothingThrows ==
  ASSUME NEW type \in RequestTypes, NEW v, IsMeant(type, v), NEW obj,
         \A row \in RequestRows(type) :
           row.key \in DOMAIN obj => obj[row.key] = ApiMember(row.kind, v[row.member])
  PROVE  ~MapThrows(RequestRows(type), obj) /\ ~IpamThrows(RequestRows(type), obj)
<1>1. \A x : Is(ApiMember("map", x), "object")
  <2>1. \A x : ApiMember("map", x) = Leaf("map", x)
    BY ApiMembers
  <2>2. \A x : Is(Leaf("map", x), "object")
    BY DEF Leaf, Object, Is
  <2> QED BY <2>1, <2>2
<1>2. ~MapThrows(RequestRows(type), obj)
  BY <1>1 DEF MapThrows, ConvertMapThrows
<1>3. \A x : ~MapThrows(IpamData, FlatJson(IpamData, x).object)
  <2> SUFFICES ASSUME NEW x, NEW row \in IpamData, row.kind = "map"
               PROVE  Is(FlatJson(IpamData, x).object[row.key], "object")
    BY DEF MapThrows, ConvertMapThrows
  <2>1. KeyRow(IpamData, row.key) = row
    BY KeyRowIs, FlatTables DEF FlatTable
  <2>2. FlatJson(IpamData, x).object[row.key] = Leaf("map", x[row.member])
    BY <2>1 DEF FlatJson, Object
  <2> QED BY <2>2 DEF Leaf, Object, Is
<1>4. ASSUME NEW row \in RequestRows(type), row.kind = "ipam", Has(obj, row.key, "array"),
             NEW e \in ToSet(obj[row.key].array)
      PROVE  ~MapThrows(IpamData, e.object)
  <2> DEFINE x == v[row.member]
             array == [i \in 1..Len(x) |-> FlatJson(IpamData, x[i])]
  <2>1. obj[row.key] = Array(array)
    BY <1>4, ApiMembers DEF Has
  <2>2. obj[row.key].array = array
    BY <2>1 DEF Array
  <2>3. PICK i \in 1..Len(x) : e = FlatJson(IpamData, x[i])
    BY <1>4, <2>2 DEF ToSet
  <2> QED BY <1>3, <2>3
<1>5. ~IpamThrows(RequestRows(type), obj)
  BY <1>4 DEF IpamThrows
<1> QED BY <1>2, <1>5

(* What dockerd writes is parsed as dockerd means it.                      *)
LEMMA RoundTrip ==
  ASSUME NEW type \in RequestTypes, NEW v, IsMeant(type, v)
  PROVE  FromJson(type, ApiJson(type, v)) = Parsed(v)
<1> DEFINE rows == RequestRows(type)
           ipv6 == Row("IPv6Data", "ipv6_data", "ipam")
           all  == {ApiRow(type, m) : m \in DOMAIN v \ {"status"}}
           sent == {row \in all : row.kind = "interface" => v[row.member] # Blank(Interface)}
           obj  == [k \in {row.key : row \in sent} |->
                      ApiMember(KeyRow(sent, k).kind, v[KeyRow(sent, k).member])]
           left == {row \in rows : \/ row = Unread
                                   \/ row.kind = "interface" /\ v[row.member] = Blank(Interface)}
<1>1. RequestTable(rows, type)
  BY RequestTablesFit
<1>2. DOMAIN v = {row.member : row \in rows}
  BY DEF IsMeant, Members
<1>3. ApiRow(type, Unread.member) = ipv6
  BY DEF ApiRow, Unread, RowOf, Api, Text, Row, Options
<1>4. \A row \in rows : ApiRow(type, row.member) = IF row = Unread THEN ipv6 ELSE row
  BY <1>1, <1>3 DEF RequestTable
<1>5. all = {ApiRow(type, row.member) : row \in rows}
  BY <1>1, <1>2 DEF RequestTable
<1>6. \A row \in all : (row \in rows /\ row # Unread) \/ row = ipv6
  BY <1>4, <1>5
<1>7. \A row \in rows : row # Unread => row \in all
  BY <1>4, <1>5
<1>8. /\ ipv6.key = "IPv6Data" /\ Unread.key = NoKey
      /\ \A row \in rows : row.key # ipv6.key
      /\ \A row \in rows : row # Unread => row.key # Unread.key
      /\ ipv6.key # Unread.key
  BY <1>1, KeysShown DEF RequestTable, Unread, Row
<1>9. \A row, other \in all : row.key = other.key => row = other
  BY <1>1, <1>6, <1>8 DEF RequestTable
<1> HIDE DEF ipv6, all
<1>10. ASSUME NEW row \in rows, row \notin left
       PROVE  row.key \in DOMAIN obj /\ obj[row.key] = ApiMember(row.kind, v[row.member])
  <2>1. row \in sent
    BY <1>7, <1>10
  <2>2. KeyRow(sent, row.key) = row
    <3>1. \A r, other \in sent : r.key = other.key => r = other
      BY <1>9
    <3> HIDE DEF sent
    <3> QED BY <2>1, <3>1, KeyRowIs
  <2> HIDE DEF sent
  <2> QED BY <2>1, <2>2
<1>11. ASSUME NEW row \in left PROVE row.key \notin DOMAIN obj
  <2> SUFFICES ASSUME NEW other \in sent, other.key = row.key PROVE FALSE
    OBVIOUS
  <2>1. other \in rows /\ other # Unread
    BY <1>6, <1>8
  <2>2. other = row
    BY <1>1, <2>1 DEF RequestTable
  <2> QED BY <1>11, <2>1, <2>2
<1>12. ApiJson(type, v) = Object(obj)
  BY BlankIsNothing DEF ApiJson, all
<1> HIDE DEF sent, obj
<1>13. \A row \in rows :
         row.key \in DOMAIN obj => obj[row.key] = ApiMember(row.kind, v[row.member])
  BY <1>10, <1>11
<1>14. ASSUME NEW row \in rows PROVE MemberValue(row, obj) = v[row.member]
  <2>1. CASE row = Unread
    <3>1. row.kind = "ipam" /\ v[row.member] = <<>>
      BY <2>1 DEF IsMeant, Unread, Row
    <3> QED BY <1>11, <2>1, <3>1 DEF MemberValue, Default
  <2>2. CASE row # Unread /\ row \in left
    BY <1>11, <2>2 DEF MemberValue, Default
  <2>3. CASE row \notin left
    <3>1. row.key \in DOMAIN obj /\ obj[row.key] = ApiMember(row.kind, v[row.member]) /\ row # Unread
      BY <1>10, <2>3
    <3>2. row.kind = "node" =>
            /\ "DiscoveryType" \in DOMAIN obj
            /\ obj["DiscoveryType"] = Int64(v["discovery_type"])
      <4> DEFINE notice == Row("DiscoveryType", "discovery_type", "number")
      <4> SUFFICES ASSUME row.kind = "node"
                   PROVE  /\ "DiscoveryType" \in DOMAIN obj
                          /\ obj["DiscoveryType"] = Int64(v["discovery_type"])
        OBVIOUS
      <4>1. notice \in rows
        BY <1>1 DEF RequestTable
      <4>2. /\ notice.key = "DiscoveryType" /\ notice.member = "discovery_type"
            /\ notice.kind = "number" /\ notice # Unread
        BY DEF Row, Unread
      <4>3. ApiMember("number", v["discovery_type"]) = Int64(v["discovery_type"])
        BY ApiMembers DEF Leaf
      <4> HIDE DEF notice
      <4> QED BY <1>10, <4>1, <4>2, <4>3
    <3> HIDE DEF left
    <3> QED BY <3>1, <3>2, MemberRead
  <2> QED BY <2>1, <2>2, <2>3
<1>15. \A m \in Members(rows) : MemberValue(RowOf(rows, m), obj) = v[m]
  <2> SUFFICES ASSUME NEW row \in rows PROVE MemberValue(RowOf(rows, row.member), obj) = v[row.member]
    BY DEF Members
  <2>1. RowOf(rows, row.member) = row
    BY <1>1 DEF RowOf, RequestTable
  <2> QED BY <1>14, <2>1
<1>16. ~MapThrows(rows, obj) /\ ~IpamThrows(rows, obj)
  BY <1>13, NothingThrows
<1>17. type # "empty_type"
  BY DEF RequestTypes, VolumeRequests, NetworkRequests, EndpointRequests, IpamRequests
<1>18. Is(Object(obj), "object") /\ Object(obj).object = obj
  BY DEF Object, Is
<1>19. [m \in Members(rows) |-> MemberValue(RowOf(rows, m), obj)] = v
  BY <1>15 DEF IsMeant
<1> QED BY <1>12, <1>16, <1>17, <1>18, <1>19 DEF FromJson

(* dockerd writes its requests in its API, for types of the routes.        *)
RequestsAreMeant ==
  \A r \in Requests : r.clear =>
    LET type == RouteOf(r.url).request
    IN  IF type = "empty_type" THEN r.means = Nothing
        ELSE IsMeant(type, r.means) /\ r.body = ApiJson(type, r.means)

(* What dockerd writes in its API reaches the driver that the url names,   *)
(* member by member as dockerd means it, if the driver is there: for each  *)
(* of the types of request, whatever the members hold, but without options *)
(* and IPv6 pools, which are lost (run dispatch_options).                  *)
THEOREM RequestsUnderstood ==
  ASSUME RequestsAreMeant
  PROVE  Spec => []RequestUnderstood
<1>1. NothingYet.request.clear = FALSE
  BY DEF NothingYet, Exchange, NoRequest, Request
<1>2. Init => RequestUnderstood
  BY <1>1 DEF Init, RequestUnderstood
<1>3. ASSUME NEW r \in Requests, r.clear
      PROVE  /\ FromJson(RouteOf(r.url).request, r.body).threw = "nothing"
             /\ FromJson(RouteOf(r.url).request, r.body).value = r.means
  <2> DEFINE type == RouteOf(r.url).request
  <2>1. type \in RequestTypes \cup {"empty_type"}
    BY RouteOfType, RoutesRead
  <2>2. IF type = "empty_type" THEN r.means = Nothing
        ELSE IsMeant(type, r.means) /\ r.body = ApiJson(type, r.means)
    BY <1>3 DEF RequestsAreMeant
  <2> HIDE DEF type
  <2>3. FromJson(type, r.body) = Parsed(r.means)
    <3>1. CASE type = "empty_type"
      BY <2>2, <3>1 DEF FromJson
    <3>2. CASE type # "empty_type"
      BY <2>1, <2>2, <3>2, RoundTrip
    <3> QED BY <3>1, <3>2
  <2>4. Parsed(r.means).threw = "nothing" /\ Parsed(r.means).value = r.means
    BY DEF Parsed
  <2> QED BY <2>3, <2>4 DEF type
<1>4. IndInv /\ RequestUnderstood /\ [Next]_vars => RequestUnderstood'
  <2> SUFFICES ASSUME IndInv, RequestUnderstood, [Next]_vars PROVE RequestUnderstood'
    OBVIOUS
  <2>1. CASE last' = last \/ last' = NothingYet
    BY <1>1, <2>1 DEF RequestUnderstood
  <2>2. ASSUME NEW r \in Requests, AnswerNotFound(r) PROVE RequestUnderstood'
    BY <2>2 DEF AnswerNotFound, Exchange, RequestUnderstood
  <2>3. ASSUME NEW r \in Requests, AnswerUnparsed(r) PROVE RequestUnderstood'
    <3>1. last'.request = r /\ FromJson(RouteOf(r.url).request, r.body).threw # "nothing"
      BY <2>3 DEF AnswerUnparsed, Exchange
    <3> QED BY <1>3, <3>1 DEF RequestUnderstood
  <2>4. ASSUME last'.outcome.how # "not called",
               last'.request.clear => last'.argument = last'.request.means
        PROVE  RequestUnderstood'
    <3>1. NotCalled.how = "not called"
      BY DEF NotCalled, Outcome
    <3>2. last'.outcome # NotCalled
      BY <2>4, <3>1
    <3> QED BY <2>4, <3>2 DEF RequestUnderstood
  <2>5. ASSUME NEW r \in Requests, AnswerActivate(r) PROVE RequestUnderstood'
    <3> DEFINE outcome == Outcome("returns", ActivateResponse)
    <3>1. last' = Exchange(r, Activate, Nothing, outcome, Answered(Activate, outcome))
      BY <2>5 DEF AnswerActivate
    <3>2. outcome.how # "not called"
      BY DEF Outcome
    <3>3. r.clear => r.means = Nothing
      <4>1. RouteOf(r.url).request = "empty_type"
        BY <2>5 DEF AnswerActivate, Activate, Route
      <4> QED BY <4>1 DEF RequestsAreMeant
    <3>4. last'.outcome = outcome /\ last'.request = r /\ last'.argument = Nothing
      BY <3>1 DEF Exchange
    <3> HIDE DEF outcome
    <3> QED BY <2>4, <3>2, <3>3, <3>4
  <2>6. ASSUME NEW r \in Requests, AnswerCalled(r) PROVE RequestUnderstood'
    <3> DEFINE route == RouteOf(r.url)
               argument == FromJson(route.request, r.body).value
    <3>1. PICK outcome \in Outcomes(route) :
            last' = Exchange(r, route, argument, outcome, Answered(route, outcome))
      BY <2>6 DEF AnswerCalled
    <3>2. outcome.how # "not called"
      BY OutcomeType
    <3>3. r.clear => argument = r.means
      BY <1>3
    <3>4. last'.outcome = outcome /\ last'.request = r /\ last'.argument = argument
      BY <3>1 DEF Exchange
    <3> HIDE DEF route, argument
    <3> QED BY <2>4, <3>2, <3>3, <3>4
  <2>7. ASSUME NEW r \in Requests, Terminate(r) PROVE RequestUnderstood'
    BY <2>1, <2>7 DEF Terminate
  <2> QED BY <2>1, <2>2, <2>3, <2>5, <2>6, <2>7
          DEF Next, OnMessageComplete, Restart, ReadAnswer, Register, vars
<1> QED BY <1>2, <1>4, Invariance, PTL DEF Spec
=============================================================================
