--------------------------- MODULE HttpConnection ---------------------------
(***************************************************************************)
(* One connection of lib/src/http_server.cpp with the handler that         *)
(* lib/src/plugin.cpp derives from it, up to what a handler answers.       *)
(*                                                                         *)
(* The parser (llhttp) is external: it turns the stream into callbacks.    *)
(* One step of the model is one callback, with one unit of the stream, so  *)
(* a read may end between any two of them; or it is one write of a         *)
(* response, so that the client may go between any two of those.  Texts    *)
(* are sequences of units that say where they come from, so that no two    *)
(* texts are equal by chance.                                              *)
(***************************************************************************)
EXTENDS Integers, Sequences, SequencesExt

CONSTANTS
  Shapes,       \* shapes of requests that the client may send
  MaxRequests,  \* bound: requests on one connection
  TextLen,      \* units of a url, of the name and of the value of a header
  Statuses,     \* what handlers give to response_status
  Pieces,       \* units that handlers give to send_data, and to an
                \* end(data) that follows it
  Bodies,       \* units that handlers give to an end(data) that stands alone
  AnswerMax,    \* bound: units of one answer
  ChunkMax      \* units that send_data puts in one chunk, UINT16_MAX

(* A shape says whether the method is POST, how many header fields, body   *)
(* units and trailer fields there are, and where llhttp gives up: nowhere, *)
(* "inside" the message, or "after" it (what follows is no request, the    *)
(* message was an upgrade, or it said connection: close and more follows). *)
ShapeType == [post : BOOLEAN, headers : Nat, body : Nat, trailers : Nat,
              error : {"none", "inside", "after"}]

ASSUME ShapesAssumption == Shapes \subseteq ShapeType
ASSUME LengthsAssumption ==
  /\ MaxRequests \in Nat /\ TextLen \in Nat \ {0} /\ ChunkMax \in Nat \ {0}
  /\ Statuses \subseteq Nat /\ Pieces \subseteq Nat /\ Bodies \subseteq Nat
  /\ AnswerMax \in Nat

VARIABLES
  \* the client
  sent,       \* shapes of the requests it has written
  gone,       \* it has closed its end
  view,       \* what it has made of what was written to it
  \* llhttp: the message, the part of it, the field and the unit it is at
  parser,
  \* uds_connection, http_connection and plugin_http_connection
  open,       \* m_socket is there
  m_url, m_buffer, m_buffer_body, m_buffer_headers, m_headers, m_current_header,
  m_response_status, m_response_headers, m_response_headers_sent, m_response_chunked,
  \* local variables of send_data, end and the handler
  call,
  \* history
  delivered,  \* the requests as on_message_complete found them
  intended    \* the answers that were asked of the connection

client   == <<sent, gone>>
request  == <<m_url, m_buffer, m_buffer_body, m_buffer_headers, m_headers, m_current_header>>
response == <<m_response_status, m_response_headers, m_response_headers_sent,
              m_response_chunked>>
vars     == <<client, view, parser, open, request, response, call, delivered, intended>>

-----------------------------------------------------------------------------
(* Texts: the first n units of a part of the k-th request or answer; h     *)
(* numbers the fields.                                                     *)
Units(k, part, h, n) ==
  [i \in 1..n |-> [of |-> k, part |-> part, field |-> h, at |-> i, lower |-> FALSE]]

UrlText(k)      == Units(k, "url", 0, TextLen)
NameText(k, h)  == Units(k, "name", h, TextLen)
ValueText(k, h) == Units(k, "value", h, TextLen)
BodyText(k, n)  == Units(k, "body", 0, n)
AnswerText(k, n) == Units(k, "answer", 0, n)
RefusalText     == Units(0, "refusal", 0, TextLen)

Refusal == [status |-> 405, body |-> RefusalText]

(* tolower, unit by unit *)
Lower(text) == [i \in 1..Len(text) |-> [text[i] EXCEPT !.lower = TRUE]]

-----------------------------------------------------------------------------
(* No content-length is set. *)
None == -1
NoHeaders == [contentLength |-> None, chunked |-> FALSE]

(* What a client makes of the bytes it receives, as RFC 9112 has it: the   *)
(* answers that are complete, and the mode of its parser.                  *)
ViewInit == [done |-> <<>>, mode |-> "head", need |-> 0, status |-> 0, body |-> <<>>]

Finish(v) ==
  [v EXCEPT !.done = Append(@, [status |-> v.status, body |-> v.body]),
            !.mode = "head", !.body = <<>>]

Receive(v, i) ==
  CASE v.mode = "head" /\ i.item = "head" ->
         LET w == [v EXCEPT !.status = i.status]
         IN  IF i.chunked THEN [w EXCEPT !.mode = "size"]
             ELSE IF i.length = None THEN [w EXCEPT !.mode = "until close"]
             ELSE IF i.length = 0 THEN Finish(w)
             ELSE [w EXCEPT !.mode = "length", !.need = i.length]
    [] v.mode = "length" /\ i.item = "data" /\ Len(i.units) < v.need ->
         [v EXCEPT !.body = @ \o i.units, !.need = @ - Len(i.units)]
    [] v.mode = "length" /\ i.item = "data" /\ Len(i.units) = v.need ->
         Finish([v EXCEPT !.body = @ \o i.units])
    [] v.mode = "size" /\ i.item = "size" -> [v EXCEPT !.mode = "chunk", !.need = i.length]
    [] v.mode = "size" /\ i.item = "last" -> Finish(v)
    [] v.mode = "chunk" /\ i.item = "data" /\ Len(i.units) = v.need ->
         [v EXCEPT !.mode = "crlf", !.body = @ \o i.units]
    [] v.mode = "crlf" /\ i.item = "crlf" -> [v EXCEPT !.mode = "size"]
    [] OTHER -> [v EXCEPT !.mode = "broken"]

-----------------------------------------------------------------------------
(* Where the connection is: "parse" inside llhttp_execute; "handler" and   *)
(* "refuse" before the next call that answers; "size", "chunk", "crlf" and *)
(* "body" before a write of send_data, which goes on to `next'; "end" and  *)
(* "last" inside end.                                                      *)
At(step) == [at |-> step, data |-> <<>>, left |-> 0, next |-> step]

Init ==
  /\ sent = <<>> /\ gone = FALSE /\ view = ViewInit
  /\ parser = [message |-> 0, phase |-> "between", field |-> 0, at |-> 0]
  /\ open = TRUE
  /\ m_url = <<>> /\ m_buffer = <<>> /\ m_buffer_body = FALSE /\ m_buffer_headers = FALSE
  /\ m_headers = <<>> /\ m_current_header = 0
  /\ m_response_status = 200 /\ m_response_headers = NoHeaders
  /\ m_response_headers_sent = FALSE /\ m_response_chunked = FALSE
  /\ call = At("parse")
  /\ delivered = <<>> /\ intended = <<>>

(* The client writes its next request, whether or not the ones before it   *)
(* were answered.                                                          *)
Ask ==
  /\ open /\ ~gone /\ Len(sent) < MaxRequests
  /\ \E s \in Shapes : sent' = Append(sent, s)
  /\ UNCHANGED <<gone, view, parser, open, request, response, call, delivered, intended>>

(* The client closes its end; what it wrote can still be read.             *)
Leave ==
  /\ ~gone /\ gone' = TRUE
  /\ UNCHANGED <<sent, view, parser, open, request, response, call, delivered, intended>>

-----------------------------------------------------------------------------
(* The parser.  Trailer fields follow the body of a chunked message and    *)
(* cause the callbacks of header fields.                                   *)
Parses(phase) == open /\ call = At("parse") /\ parser.phase = phase

Message == parser.message
Shape   == sent[parser.message]

Goto(phase, field) ==
  parser' = [message |-> parser.message, phase |-> phase, field |-> field, at |-> 0]

AfterField(h) ==
  IF h = Shape.headers THEN "headers"
  ELSE IF h = Shape.headers + Shape.trailers THEN "end" ELSE "name"

AfterBody(n) ==
  IF n < Shape.body THEN "body" ELSE IF Shape.trailers > 0 THEN "name" ELSE "end"

(* The callbacks of get_settings, with plugin_http_connection's overrides. *)
OnMessageBegin ==
  /\ Parses("between") /\ parser.message < Len(sent)
  /\ parser' = [message |-> parser.message + 1, phase |-> "url", field |-> 0, at |-> 0]
  /\ m_buffer' = <<>> /\ m_buffer_headers' = TRUE /\ m_buffer_body' = TRUE
  /\ UNCHANGED <<client, view, open, m_url, m_headers, m_current_header, response, call,
                 delivered, intended>>

(* on_url, on_header_field and on_header_value: the next unit of text.     *)
OnSpan(text) ==
  /\ parser.at < TextLen
  /\ m_buffer' = Append(m_buffer, text[parser.at + 1])
  /\ parser' = [parser EXCEPT !.at = @ + 1]
  /\ UNCHANGED <<client, view, open, m_url, m_buffer_body, m_buffer_headers, m_headers,
                 m_current_header, response, call, delivered, intended>>

OnUrl         == Parses("url") /\ OnSpan(UrlText(Message))
OnHeaderField == Parses("name") /\ OnSpan(NameText(Message, parser.field))
OnHeaderValue == Parses("value") /\ OnSpan(ValueText(Message, parser.field))

OnUrlComplete ==
  /\ Parses("url") /\ parser.at = TextLen /\ Shape.post
  /\ m_url' = m_buffer /\ m_buffer' = <<>>
  /\ Goto(AfterField(0), 1)
  /\ UNCHANGED <<client, view, open, m_buffer_body, m_buffer_headers, m_headers,
                 m_current_header, response, call, delivered, intended>>

(* Without the reason phrase, which nobody parses. *)
ResponseStatus(status) == m_response_status' = status

(* Mutant of Refuse: on_url returns 0, and the request goes on. *)
RefuseAndGoOn ==
  /\ Parses("url") /\ parser.at = TextLen /\ ~Shape.post
  /\ ResponseStatus(405)
  /\ call' = At("refuse")
  /\ intended' = Append(intended, Refusal)
  /\ Goto(AfterField(0), 1)
  /\ UNCHANGED <<client, view, open, request, m_response_headers, m_response_headers_sent,
                 m_response_chunked, delivered>>

(* No POST: on_url answers and returns 1, llhttp_execute will fail.  That  *)
(* m_buffer is cleared then changes nothing, since end() has cleared it.   *)
Refuse ==
  /\ Parses("url") /\ parser.at = TextLen /\ ~Shape.post
  /\ ResponseStatus(405)
  /\ call' = At("refuse")
  /\ intended' = Append(intended, Refusal)
  /\ Goto("error", 0)
  /\ UNCHANGED <<client, view, open, request, m_response_headers, m_response_headers_sent,
                 m_response_chunked, delivered>>

OnHeaderFieldComplete ==
  /\ Parses("name") /\ parser.at = TextLen
  /\ IF m_buffer_headers
     THEN /\ m_headers' = Append(m_headers, [name |-> Lower(m_buffer), value |-> <<>>])
          /\ m_current_header' = Len(m_headers) + 1
     ELSE UNCHANGED <<m_headers, m_current_header>>
  /\ m_buffer' = <<>>
  /\ Goto("value", parser.field)
  /\ UNCHANGED <<client, view, open, m_url, m_buffer_body, m_buffer_headers, response, call,
                 delivered, intended>>

OnHeaderValueComplete ==
  /\ Parses("value") /\ parser.at = TextLen
  /\ m_headers' = IF m_buffer_headers /\ m_current_header # 0
                  THEN [m_headers EXCEPT ![m_current_header].value = m_buffer]
                  ELSE m_headers
  /\ m_buffer' = <<>>
  /\ Goto(AfterField(parser.field), parser.field + 1)
  /\ UNCHANGED <<client, view, open, m_url, m_buffer_body, m_buffer_headers,
                 m_current_header, response, call, delivered, intended>>

OnHeadersComplete ==
  /\ Parses("headers")
  /\ m_buffer' = <<>>
  /\ Goto(AfterBody(0), parser.field)
  /\ UNCHANGED <<client, view, open, m_url, m_buffer_body, m_buffer_headers, m_headers,
                 m_current_header, response, call, delivered, intended>>

OnBody ==
  /\ Parses("body")
  /\ m_buffer' = IF m_buffer_body
                 THEN Append(m_buffer, BodyText(Message, Shape.body)[parser.at + 1])
                 ELSE m_buffer
  /\ parser' = [parser EXCEPT !.phase = AfterBody(parser.at + 1),
                              !.at = IF parser.at + 1 < Shape.body THEN @ + 1 ELSE 0]
  /\ UNCHANGED <<client, view, open, m_url, m_buffer_body, m_buffer_headers, m_headers,
                 m_current_header, response, call, delivered, intended>>

(* The derived class finds the request in m_url, m_headers and m_buffer,   *)
(* and its handler starts with response_status.                            *)
OnMessageComplete ==
  /\ Parses("end") /\ Shape.error # "inside"
  /\ m_buffer' = IF m_buffer_body THEN m_buffer ELSE <<>>
  /\ delivered' = Append(delivered, [url |-> m_url, headers |-> m_headers, body |-> m_buffer'])
  /\ \E status \in Statuses :
       /\ ResponseStatus(status)
       /\ intended' = Append(intended, [status |-> status, body |-> <<>>])
  /\ call' = At("handler")
  /\ Goto(IF Shape.error = "after" THEN "error" ELSE "between", 0)
  /\ UNCHANGED <<client, view, open, m_url, m_buffer_body, m_buffer_headers, m_headers,
                 m_current_header, m_response_headers, m_response_headers_sent,
                 m_response_chunked>>

(* llhttp_execute fails: on_read closes the connection. *)
ParseError ==
  /\ open /\ call = At("parse")
  /\ \/ parser.phase = "error"
     \/ parser.phase # "between" /\ Shape.error = "inside"
  /\ open' = FALSE
  /\ UNCHANGED <<client, view, parser, request, response, call, delivered, intended>>

-----------------------------------------------------------------------------
(* The functions that write a response. *)

(* uds_connection::write: what is written after the client has gone is     *)
(* lost and nobody looks at the result.                                    *)
Write(item) == view' = IF gone \/ ~open THEN view ELSE Receive(view, item)

(* `headers' is m_response_headers with what the caller added to it.       *)
SendHeaders(headers) ==
  IF m_response_headers_sent THEN UNCHANGED <<view, response>>
  ELSE /\ Write([item |-> "head", status |-> m_response_status,
                 length |-> headers.contentLength, chunked |-> headers.chunked])
       /\ m_response_headers' = NoHeaders
       /\ m_response_headers_sent' = TRUE
       /\ m_response_chunked' = (m_response_chunked \/ headers.chunked)
       /\ UNCHANGED m_response_status

(* The loop of send_data, with left units to go. *)
Loop(data, left, next) ==
  IF left = 0 THEN At(next) ELSE [at |-> "size", data |-> data, left |-> left, next |-> next]

(* send_data up to its first write of data. *)
SendDataWith(headers, data, next) ==
  /\ SendHeaders(headers)
  /\ call' = IF m_response_chunked' THEN Loop(data, Len(data), next)
             ELSE [at |-> "body", data |-> data, left |-> Len(data), next |-> next]
  /\ UNCHANGED <<client, parser, open, request, delivered>>

SendData(data) ==
  SendDataWith(IF m_response_headers.contentLength = None
               THEN [m_response_headers EXCEPT !.chunked = TRUE] ELSE m_response_headers,
               data, "handler")

(* end(data, len) *)
EndWith(data) ==
  SendDataWith([m_response_headers EXCEPT !.contentLength = Len(data)], data, "end")

(* The handler goes on with its answer: it grows by n units, which belong  *)
(* to the request that was delivered last.                                 *)
Given == Len(Last(intended).body)

NextUnits(n) == SubSeq(AnswerText(Len(delivered), Given + n), Given + 1, Given + n)

Grow(data) == intended' = [intended EXCEPT ![Len(intended)].body = @ \o data]

HandlerSends ==
  /\ call.at = "handler"
  /\ \E n \in Pieces :
       /\ Given + n <= AnswerMax
       /\ SendData(NextUnits(n)) /\ Grow(NextUnits(n))

HandlerEndsWith ==
  /\ call.at = "handler"
  /\ \E n \in IF m_response_headers_sent THEN Pieces ELSE Bodies :
       /\ Given + n <= AnswerMax
       /\ EndWith(NextUnits(n)) /\ Grow(NextUnits(n))

EndsWithRefusal ==
  /\ call.at = "refuse"
  /\ EndWith(RefusalText)
  /\ UNCHANGED intended

(* One round of the loop.  It takes len down by the size of each chunk and *)
(* writes from `data', which stays where it is.                            *)
Small == IF call.left < ChunkMax THEN call.left ELSE ChunkMax

WriteSize ==
  /\ call.at = "size"
  /\ Write([item |-> "size", length |-> Small])
  /\ call' = [call EXCEPT !.at = "chunk"]
  /\ UNCHANGED <<client, parser, open, request, response, delivered, intended>>

WriteChunk ==
  /\ call.at = "chunk"
  /\ Write([item |-> "data", units |-> SubSeq(call.data, 1, Small)])
  /\ call' = [call EXCEPT !.at = "crlf"]
  /\ UNCHANGED <<client, parser, open, request, response, delivered, intended>>

WriteCrlf ==
  /\ call.at = "crlf"
  /\ Write([item |-> "crlf"])
  /\ call' = Loop(call.data, call.left - Small, call.next)
  /\ UNCHANGED <<client, parser, open, request, response, delivered, intended>>

(* Without chunks; a write of no bytes is none. *)
WriteBody ==
  /\ call.at = "body"
  /\ IF call.data = <<>> THEN UNCHANGED view
     ELSE Write([item |-> "data", units |-> call.data])
  /\ call' = At(call.next)
  /\ UNCHANGED <<client, parser, open, request, response, delivered, intended>>

(* end(), called by the handler or by end(data, len). *)
End ==
  /\ call.at \in {"handler", "end"}
  /\ SendHeaders(IF m_response_headers.contentLength = None
                 THEN [m_response_headers EXCEPT !.contentLength = 0]
                 ELSE m_response_headers)
  /\ call' = At("last")
  /\ UNCHANGED <<client, parser, open, request, delivered, intended>>

(* Mutants of Reset: one member is forgotten. *)
ResetBut ==
  /\ m_buffer' = <<>> /\ m_buffer_body' = FALSE /\ m_buffer_headers' = FALSE
  /\ m_response_status' = 200 /\ m_response_headers' = NoHeaders
  /\ m_response_headers_sent' = FALSE

ResetKeepsIterator ==
  ResetBut /\ m_headers' = <<>> /\ m_response_chunked' = FALSE /\ UNCHANGED m_current_header
ResetKeepsHeaders ==
  ResetBut /\ m_current_header' = 0 /\ m_response_chunked' = FALSE /\ UNCHANGED m_headers
ResetKeepsChunked ==
  ResetBut /\ m_headers' = <<>> /\ m_current_header' = 0 /\ UNCHANGED m_response_chunked

(* The clean up at the end of end(). *)
Reset ==
  /\ m_buffer' = <<>> /\ m_buffer_body' = FALSE /\ m_buffer_headers' = FALSE
  /\ m_headers' = <<>> /\ m_current_header' = 0
  /\ m_response_status' = 200 /\ m_response_headers' = NoHeaders
  /\ m_response_headers_sent' = FALSE /\ m_response_chunked' = FALSE

(* Mutant of WriteLast: the chunk that ends a chunked answer is not written. *)
WriteLastForgotten ==
  /\ call.at = "last"
  /\ Reset
  /\ call' = At("parse")
  /\ UNCHANGED <<client, view, parser, open, m_url, delivered, intended>>

WriteLast ==
  /\ call.at = "last"
  /\ IF m_response_chunked THEN Write([item |-> "last"]) ELSE UNCHANGED view
  /\ Reset
  /\ call' = At("parse")
  /\ UNCHANGED <<client, parser, open, m_url, delivered, intended>>

-----------------------------------------------------------------------------
Callback ==
  \/ OnMessageBegin \/ OnUrl \/ OnUrlComplete \/ Refuse
  \/ OnHeaderField \/ OnHeaderFieldComplete \/ OnHeaderValue \/ OnHeaderValueComplete
  \/ OnHeadersComplete \/ OnBody \/ OnMessageComplete

Respond ==
  \/ HandlerSends \/ HandlerEndsWith \/ EndsWithRefusal
  \/ WriteSize \/ WriteChunk \/ WriteCrlf \/ WriteBody \/ End \/ WriteLast

OnRead == Callback \/ ParseError \/ Respond
Next == Ask \/ Leave \/ OnRead

Spec == Init /\ [][Next]_vars

(* The loop of run reads what has arrived (UdsServer, NoStarvation). *)
FairSpec == Spec /\ WF_vars(OnRead)

-----------------------------------------------------------------------------
(* A request as the client means it; field names are compared in lower     *)
(* case, and a trailer field is one of the fields.                         *)
Field(k, h) == [name |-> Lower(NameText(k, h)), value |-> ValueText(k, h)]

Meant(k, s) ==
  [url |-> UrlText(k),
   headers |-> [h \in 1..(s.headers + s.trailers) |-> Field(k, h)],
   body |-> BodyText(k, s.body)]

(* The request that the k-th answer is for: the one a handler was given; a *)
(* refused request was looked at as far as it was needed.                  *)
Understood(k) ==
  CASE k <= Len(delivered) -> delivered[k]
    [] k > Len(delivered) /\ k <= Len(sent) -> Meant(k, sent[k])
    [] OTHER -> [url |-> <<>>, headers |-> <<>>, body |-> <<>>]

(* What may be answered to the k-th request. *)
AnswersTo(k) ==
  {[status |-> s, body |-> AnswerText(k, n)] : s \in Statuses, n \in 0..AnswerMax}
    \cup {Refusal}

-----------------------------------------------------------------------------
(* Properties. *)

Parts == {"url", "name", "value", "body", "answer", "refusal"}
UnitType == [of : Nat, part : Parts, field : Nat, at : Nat, lower : BOOLEAN]
Text == Seq(UnitType)
AnswerType == [status : Nat, body : Text]
FieldType == [name : Text, value : Text]
RequestType == [url : Text, headers : Seq(FieldType), body : Text]
ViewType ==
  [done : Seq(AnswerType), need : Nat, status : Nat, body : Text,
   mode : {"head", "length", "size", "chunk", "crlf", "until close", "broken"}]

(* The members of the connection keep their types; there is a current      *)
(* header only while the headers that it points into are there, and        *)
(* send_data writes no more than it was given.                             *)
TypeOK ==
  /\ sent \in Seq(Shapes) /\ gone \in BOOLEAN
  /\ view \in ViewType
  /\ parser \in [message : Nat, field : Nat, at : Nat,
                 phase : {"between", "url", "name", "value", "headers", "body", "end", "error"}]
  /\ parser.message <= Len(sent) /\ (parser.phase # "between" => parser.message > 0)
  /\ open \in BOOLEAN
  /\ m_url \in Text /\ m_buffer \in Text
  /\ m_buffer_body \in BOOLEAN /\ m_buffer_headers \in BOOLEAN
  /\ m_headers \in Seq(FieldType) /\ m_current_header \in 0..Len(m_headers)
  /\ m_response_status \in Nat
  /\ m_response_headers \in [contentLength : Nat \cup {None}, chunked : BOOLEAN]
  /\ m_response_headers_sent \in BOOLEAN /\ m_response_chunked \in BOOLEAN
  /\ call \in [at : {"parse", "handler", "refuse", "size", "chunk", "crlf", "body", "end",
                     "last"},
               data : Text, left : Nat,
               next : {"parse", "handler", "refuse", "end", "last"}]
  /\ call.left <= Len(call.data)
  /\ delivered \in Seq(RequestType)
  /\ intended \in Seq(AnswerType)

(* m_buffer serves the url, each field name, each value and the body, and  *)
(* it outlives the message: what a handler is given is nevertheless the    *)
(* request that was sent, with nothing of its neighbours in it.            *)
RequestsIntact ==
  \A k \in 1..Len(delivered) : delivered[k] = Meant(k, sent[k])

(* A client that is there can decode every byte, and finds the answers     *)
(* that the handlers gave in order, and all of them when nothing is being  *)
(* answered; one that has left got a part of that.                         *)
ResponsesDecodable ==
  /\ IsPrefix(view.done, intended)
  /\ ~gone => view.mode # "broken"
  /\ ~gone /\ call.at = "parse" => view.done = intended /\ view.mode = "head"

(* The connection is what HttpExchange promises, to the client's eye.      *)
Exchange == INSTANCE HttpExchange WITH
  Request  <- Meant,
  Answers  <- AnswersTo,
  asked    <- [k \in 1..Len(sent) |-> Meant(k, sent[k])],
  answered <- [k \in 1..Len(view.done) |->
                 [request |-> Understood(k), answer |-> view.done[k]]],
  open     <- open /\ ~gone

ImplementsExchange == Exchange!ExchangeSpec

(* A request that was written is answered without the client doing         *)
(* anything more, unless the connection ends.                              *)
EveryRequestAnswered ==
  \A k \in 1..MaxRequests :
    Len(sent) >= k ~> Len(view.done) >= k \/ ~open \/ gone
=============================================================================
