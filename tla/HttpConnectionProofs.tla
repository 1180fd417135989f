----------------------- MODULE HttpConnectionProofs ------------------------
(***************************************************************************)
(* Proofs about HttpConnection, for any shapes of requests, any texts, any *)
(* handlers and any number of requests on a connection.                    *)
(***************************************************************************)
EXTENDS HttpConnection, SequenceTheorems, TLAPS

-----------------------------------------------------------------------------
(* Texts. *)

LEMMA UnitsProperties ==
  ASSUME NEW k \in Nat, NEW part \in Parts, NEW h \in Nat, NEW n \in Nat
  PROVE  /\ Units(k, part, h, n) \in Text
         /\ Len(Units(k, part, h, n)) = n
         /\ n = 0 => Units(k, part, h, n) = <<>>
<1>1. \A i \in 1..n : [of |-> k, part |-> part, field |-> h, at |-> i, lower |-> FALSE]
                        \in UnitType
  BY DEF UnitType
<1>2. Units(k, part, h, n) \in [1..n -> UnitType]
  BY <1>1 DEF Units
<1> QED BY <1>2 DEF Text, Units

LEMMA TextsProperties ==
  ASSUME NEW k \in Nat, NEW h \in Nat
  PROVE  /\ UrlText(k) \in Text /\ Len(UrlText(k)) = TextLen
         /\ NameText(k, h) \in Text /\ Len(NameText(k, h)) = TextLen
         /\ ValueText(k, h) \in Text /\ Len(ValueText(k, h)) = TextLen
         /\ BodyText(k, h) \in Text /\ Len(BodyText(k, h)) = h
         /\ AnswerText(k, h) \in Text /\ Len(AnswerText(k, h)) = h
         /\ RefusalText \in Text /\ Len(RefusalText) = TextLen
<1>1. {"url", "name", "value", "body", "answer", "refusal"} \subseteq Parts /\ TextLen \in Nat
  BY LengthsAssumption DEF Parts
<1>2. UrlText(k) \in Text /\ Len(UrlText(k)) = TextLen
  BY <1>1, UnitsProperties DEF UrlText
<1>3. NameText(k, h) \in Text /\ Len(NameText(k, h)) = TextLen
  BY <1>1, UnitsProperties DEF NameText
<1>4. ValueText(k, h) \in Text /\ Len(ValueText(k, h)) = TextLen
  BY <1>1, UnitsProperties DEF ValueText
<1>5. BodyText(k, h) \in Text /\ Len(BodyText(k, h)) = h
  BY <1>1, UnitsProperties DEF BodyText
<1>6. AnswerText(k, h) \in Text /\ Len(AnswerText(k, h)) = h
  BY <1>1, UnitsProperties DEF AnswerText
<1>7. RefusalText \in Text /\ Len(RefusalText) = TextLen
  BY <1>1, UnitsProperties DEF RefusalText
<1> QED BY <1>2, <1>3, <1>4, <1>5, <1>6, <1>7

LEMMA LowerProperties ==
  ASSUME NEW text \in Text
  PROVE  Lower(text) \in Text
<1>1. \A i \in 1..Len(text) : [text[i] EXCEPT !.lower = TRUE] \in UnitType
  <2> TAKE i \in 1..Len(text)
  <2>1. text[i] \in UnitType
    BY DEF Text
  <2> QED BY <2>1 DEF UnitType
<1>2. Lower(text) \in [1..Len(text) -> UnitType] /\ Len(text) \in Nat
  BY <1>1 DEF Text, Lower
<1> QED BY <1>2 DEF Text

-----------------------------------------------------------------------------
(* Type correctness.  What TypeOK leaves open is where the parser is in a  *)
(* body, and that there is an answer for a handler to go on with.          *)
TypeInv ==
  /\ TypeOK
  /\ parser.phase = "body" => parser.at < Shape.body
  /\ call.at # "parse" => intended # <<>>

ItemType ==
  [item : {"head"}, status : Nat, length : Nat \cup {None}, chunked : BOOLEAN]
    \cup [item : {"size"}, length : Nat] \cup [item : {"data"}, units : Text]
    \cup [item : {"crlf", "last"}]

LEMMA FinishType ==
  ASSUME NEW v \in ViewType
  PROVE  Finish(v) \in ViewType
<1>1. [status |-> v.status, body |-> v.body] \in AnswerType /\ v.done \in Seq(AnswerType)
  BY DEF ViewType, AnswerType
<1>2. Append(v.done, [status |-> v.status, body |-> v.body]) \in Seq(AnswerType)
  BY <1>1
<1>3. <<>> \in Text
  BY DEF Text
<1> QED BY <1>2, <1>3 DEF Finish, ViewType

LEMMA ReceiveType ==
  ASSUME NEW v \in ViewType, NEW i \in ItemType
  PROVE  Receive(v, i) \in ViewType
<1>1. \A w \in ViewType : Finish(w) \in ViewType
  BY FinishType
<1>2. CASE v.mode = "head" /\ i.item = "head"
  <2> DEFINE w == [v EXCEPT !.status = i.status]
  <2>1. i.status \in Nat /\ i.length \in Nat \cup {None} /\ i.chunked \in BOOLEAN
    BY <1>2 DEF ItemType
  <2>2. w \in ViewType
    BY <2>1 DEF ViewType
  <2>3. Receive(v, i) = IF i.chunked THEN [w EXCEPT !.mode = "size"]
                        ELSE IF i.length = None THEN [w EXCEPT !.mode = "until close"]
                        ELSE IF i.length = 0 THEN Finish(w)
                        ELSE [w EXCEPT !.mode = "length", !.need = i.length]
    BY <1>2 DEF Receive
  <2>4. [w EXCEPT !.mode = "size"] \in ViewType /\ [w EXCEPT !.mode = "until close"] \in ViewType
    BY <2>2 DEF ViewType
  <2>5. ASSUME i.length # None PROVE [w EXCEPT !.mode = "length", !.need = i.length] \in ViewType
    BY <2>1, <2>2, <2>5 DEF ViewType
  <2> QED BY <1>1, <2>2, <2>3, <2>4, <2>5
<1>3. CASE i.item = "data"
  <2>1. i.units \in Text
    BY <1>3 DEF ItemType
  <2>2. v.body \o i.units \in Text /\ Len(i.units) \in Nat
    <3>1. v.body \in Seq(UnitType) /\ i.units \in Seq(UnitType)
      BY <2>1 DEF Text, ViewType
    <3> QED BY <3>1, ConcatProperties DEF Text
  <2> DEFINE b == v.body \o i.units
             n == v.need - Len(i.units)
  <2>3. /\ [v EXCEPT !.body = b] \in ViewType /\ [v EXCEPT !.mode = "crlf", !.body = b] \in ViewType
        /\ [v EXCEPT !.mode = "broken"] \in ViewType
    BY <2>2 DEF ViewType
  <2>4. ASSUME Len(i.units) < v.need PROVE [v EXCEPT !.body = b, !.need = n] \in ViewType
    <3>1. v.need \in Nat
      BY DEF ViewType
    <3>2. n \in Nat
      BY <2>2, <2>4, <3>1
    <3> QED BY <2>2, <3>2 DEF ViewType
  <2> QED BY <1>1, <1>3, <2>3, <2>4 DEF Receive
<1>4. CASE i.item = "size"
  <2>1. i.length \in Nat
    BY <1>4 DEF ItemType
  <2> QED BY <1>1, <1>4, <2>1 DEF Receive, ViewType
<1>5. CASE i.item \in {"crlf", "last"} \/ (i.item = "head" /\ v.mode # "head")
  BY <1>1, <1>5 DEF Receive, ViewType
<1>6. i.item \in {"head", "data", "size", "crlf", "last"}
  BY DEF ItemType
<1> QED BY <1>2, <1>3, <1>4, <1>5, <1>6

LEMMA ShapeFacts ==
  ASSUME TypeOK, parser.phase # "between"
  PROVE  /\ Message \in 1..Len(sent) /\ Shape \in Shapes
         /\ Shape.headers \in Nat /\ Shape.body \in Nat /\ Shape.trailers \in Nat
         /\ Shape.post \in BOOLEAN /\ Shape.error \in {"none", "inside", "after"}
<1>1. Message \in 1..Len(sent) /\ sent \in Seq(Shapes)
  BY DEF TypeOK, Message
<1>2. Shape \in Shapes
  BY <1>1 DEF Shape, Message
<1> QED BY <1>1, <1>2, ShapesAssumption DEF ShapeType

Phases == {"between", "url", "name", "value", "headers", "body", "end", "error"}

LEMMA GotoType ==
  ASSUME TypeOK, NEW phase \in Phases, NEW field \in Nat, Goto(phase, field), sent' = sent,
         parser.phase # "between"
  PROVE  /\ parser' \in [message : Nat, field : Nat, at : Nat, phase : Phases]
         /\ parser'.message <= Len(sent') /\ parser'.message > 0
         /\ parser'.message = parser.message /\ parser'.phase = phase
         /\ parser'.field = field /\ parser'.at = 0
BY ShapeFacts DEF TypeOK, Goto, Message, Phases

LEMMA TypesKept ==
  ASSUME TypeInv, UNCHANGED <<sent, call, intended>>,
         UNCHANGED parser
         \/ /\ parser' \in [message : Nat, field : Nat, at : Nat, phase : Phases]
            /\ parser'.message <= Len(sent') /\ parser'.message > 0
            /\ parser'.phase = "body" => parser'.at < Shape'.body,
         UNCHANGED open \/ open' = FALSE,
         gone' \in BOOLEAN, UNCHANGED <<view, delivered, response>>,
         UNCHANGED m_url \/ m_url' = m_buffer,
         m_buffer' \in Text, m_buffer_body' \in BOOLEAN, m_buffer_headers' \in BOOLEAN,
         m_headers' \in Seq(FieldType), m_current_header' \in 0..Len(m_headers')
  PROVE  TypeInv'
<1>1. /\ parser' \in [message : Nat, field : Nat, at : Nat, phase : Phases]
      /\ parser'.message <= Len(sent') /\ (parser'.phase # "between" => parser'.message > 0)
      /\ parser'.phase = "body" => parser'.at < Shape'.body
  BY DEF TypeInv, TypeOK, Phases, Shape
<1>2. /\ sent' \in Seq(Shapes) /\ gone' \in BOOLEAN /\ open' \in BOOLEAN
      /\ view' \in ViewType /\ m_url' \in Text
  BY DEF TypeInv, TypeOK
<1>3. /\ m_response_status' \in Nat
      /\ m_response_headers' \in [contentLength : Nat \cup {None}, chunked : BOOLEAN]
      /\ m_response_headers_sent' \in BOOLEAN /\ m_response_chunked' \in BOOLEAN
      /\ delivered' \in Seq(RequestType) /\ intended' \in Seq(AnswerType)
      /\ call' = call /\ intended' = intended
  BY DEF TypeInv, TypeOK, response
<1> QED BY <1>1, <1>2, <1>3 DEF TypeInv, TypeOK, Phases

LEMMA ParserTypes ==
  ASSUME TypeInv, OnMessageBegin \/ OnUrl \/ OnUrlComplete \/ OnHeaderField
                  \/ OnHeaderFieldComplete \/ OnHeaderValue \/ OnHeaderValueComplete
                  \/ OnHeadersComplete \/ OnBody \/ ParseError
  PROVE  TypeInv'
<1> USE DEF client, request
<1>1. TypeOK
  BY DEF TypeInv
<1>2. <<>> \in Text
  BY DEF Text
<1>3. /\ m_buffer \in Text /\ m_buffer_body \in BOOLEAN /\ m_buffer_headers \in BOOLEAN
      /\ m_headers \in Seq(FieldType) /\ m_current_header \in 0..Len(m_headers)
      /\ gone \in BOOLEAN /\ open \in BOOLEAN
      /\ parser \in [message : Nat, field : Nat, at : Nat, phase : Phases]
  BY <1>1 DEF TypeOK, Phases
<1>4. CASE OnMessageBegin
  <2>1. /\ parser' = [message |-> parser.message + 1, phase |-> "url", field |-> 0, at |-> 0]
        /\ parser.message < Len(sent) /\ sent' = sent
    BY <1>4 DEF OnMessageBegin
  <2>2. Len(sent) \in Nat
    BY <1>1 DEF TypeOK
  <2>3. /\ parser' \in [message : Nat, field : Nat, at : Nat, phase : Phases]
        /\ parser'.message <= Len(sent') /\ parser'.message > 0 /\ parser'.phase = "url"
    BY <1>3, <2>1, <2>2 DEF Phases
  <2> QED BY <1>2, <1>3, <1>4, <2>3, TypesKept DEF OnMessageBegin
<1>5. ASSUME NEW text, OnSpan(text), parser.phase \in {"url", "name", "value"},
             text \in Text, Len(text) = TextLen
      PROVE  TypeInv'
  <2>1. parser.at + 1 \in 1..TextLen
    BY <1>3, <1>5, LengthsAssumption DEF OnSpan
  <2>2. m_buffer' \in Text
    BY <1>3, <1>5, <2>1 DEF OnSpan, Text
  <2>3. /\ parser' \in [message : Nat, field : Nat, at : Nat, phase : Phases]
        /\ parser'.message = parser.message /\ parser'.phase = parser.phase
    BY <1>3, <1>5 DEF OnSpan
  <2>4. parser'.message <= Len(sent') /\ parser'.message > 0
    BY <1>1, <1>5, <2>3 DEF TypeOK, OnSpan
  <2> QED BY <1>3, <1>5, <2>2, <2>3, <2>4, TypesKept DEF OnSpan
<1>6. CASE OnUrl \/ OnHeaderField \/ OnHeaderValue
  <2>1. parser.phase \in {"url", "name", "value"} /\ Message \in Nat /\ parser.field \in Nat
    BY <1>3, <1>6 DEF OnUrl, OnHeaderField, OnHeaderValue, Parses, Message
  <2>2. \A text \in {UrlText(Message), NameText(Message, parser.field),
                     ValueText(Message, parser.field)} : text \in Text /\ Len(text) = TextLen
    BY <2>1, TextsProperties
  <2> QED BY <1>5, <1>6, <2>1, <2>2 DEF OnUrl, OnHeaderField, OnHeaderValue
<1>7. CASE OnUrlComplete
  <2>1. parser.phase = "url" /\ AfterField(0) \in Phases \ {"body"}
    BY <1>7 DEF OnUrlComplete, Parses, AfterField, Phases
  <2>2. Goto(AfterField(0), 1) /\ sent' = sent
    BY <1>7 DEF OnUrlComplete
  <2> QED BY <1>1, <1>2, <1>3, <1>7, <2>1, <2>2, GotoType, TypesKept DEF OnUrlComplete
<1>8. CASE OnHeaderFieldComplete
  <2>1. parser.phase = "name" /\ Goto("value", parser.field) /\ sent' = sent
    BY <1>8 DEF OnHeaderFieldComplete, Parses
  <2>2. [name |-> Lower(m_buffer), value |-> <<>>] \in FieldType
    BY <1>2, <1>3, LowerProperties DEF FieldType
  <2>3. m_headers' \in Seq(FieldType) /\ m_current_header' \in 0..Len(m_headers')
    <3> DEFINE f == [name |-> Lower(m_buffer), value |-> <<>>]
    <3>1. /\ Append(m_headers, f) \in Seq(FieldType) /\ Len(m_headers) \in Nat
          /\ Len(Append(m_headers, f)) = Len(m_headers) + 1
      BY <1>3, <2>2
    <3> HIDE DEF f
    <3>2. m_headers' \in {Append(m_headers, f), m_headers}
          /\ m_current_header' \in {Len(m_headers) + 1, m_current_header}
          /\ (m_headers' = m_headers => m_current_header' = m_current_header)
      BY <1>8, <3>1 DEF OnHeaderFieldComplete, f
    <3> QED BY <1>3, <3>1, <3>2
  <2>4. "value" \in Phases
    BY DEF Phases
  <2> QED BY <1>1, <1>2, <1>3, <1>8, <2>1, <2>3, <2>4, GotoType, TypesKept
          DEF OnHeaderFieldComplete
<1>9. CASE OnHeaderValueComplete
  <2>1. /\ parser.phase = "value" /\ sent' = sent
        /\ Goto(AfterField(parser.field), parser.field + 1)
        /\ AfterField(parser.field) \in Phases \ {"body"}
    BY <1>9 DEF OnHeaderValueComplete, Parses, AfterField, Phases
  <2>2. m_headers' \in Seq(FieldType) /\ m_current_header' \in 0..Len(m_headers')
    <3>1. CASE m_buffer_headers /\ m_current_header # 0
      <4>1. m_current_header \in 1..Len(m_headers)
        BY <1>3, <3>1
      <4>2. [m_headers[m_current_header] EXCEPT !.value = m_buffer] \in FieldType
        <5>1. m_headers[m_current_header] \in FieldType
          BY <1>3, <4>1
        <5> QED BY <1>3, <5>1 DEF FieldType
      <4>3. /\ m_headers' = [m_headers EXCEPT ![m_current_header] =
                               [m_headers[m_current_header] EXCEPT !.value = m_buffer]]
            /\ m_current_header' = m_current_header
        BY <1>9, <3>1 DEF OnHeaderValueComplete
      <4> QED BY <1>3, <4>1, <4>2, <4>3
    <3>2. CASE ~(m_buffer_headers /\ m_current_header # 0)
      BY <1>3, <1>9, <3>2 DEF OnHeaderValueComplete
    <3> QED BY <3>1, <3>2
  <2> QED BY <1>1, <1>2, <1>3, <1>9, <2>1, <2>2, GotoType, TypesKept
          DEF OnHeaderValueComplete
<1>10. CASE OnHeadersComplete
  <2>1. /\ parser.phase = "headers" /\ Goto(AfterBody(0), parser.field) /\ sent' = sent
        /\ AfterBody(0) \in Phases /\ (AfterBody(0) = "body" => 0 < Shape.body)
    BY <1>10 DEF OnHeadersComplete, Parses, AfterBody, Phases
  <2>2. Shape' = Shape
    BY <2>1 DEF Shape, Goto
  <2> QED BY <1>1, <1>2, <1>3, <1>10, <2>1, <2>2, GotoType, TypesKept DEF OnHeadersComplete
<1>11. CASE OnBody
  <2>1. parser.phase = "body" /\ parser.at < Shape.body /\ sent' = sent
    BY <1>11 DEF OnBody, Parses, TypeInv
  <2>2. /\ Message \in Nat /\ Shape.body \in Nat /\ parser.message \in 1..Len(sent)
    BY <1>1, <2>1, ShapeFacts DEF Message
  <2>3. BodyText(Message, Shape.body) \in Text /\ Len(BodyText(Message, Shape.body)) = Shape.body
    BY <2>2, TextsProperties
  <2>4. parser.at + 1 \in 1..Shape.body
    BY <1>3, <2>1, <2>2
  <2>5. m_buffer' \in Text
    BY <1>3, <1>11, <2>3, <2>4 DEF OnBody, Text
  <2>6. /\ parser' \in [message : Nat, field : Nat, at : Nat, phase : Phases]
        /\ parser'.message = parser.message
        /\ parser'.phase = "body" => parser'.at < Shape.body
    <3>1. parser.at + 1 \in Nat /\ AfterBody(parser.at + 1) \in Phases
      BY <1>3 DEF AfterBody, Phases
    <3>2. /\ parser' = [parser EXCEPT !.phase = AfterBody(parser.at + 1),
                          !.at = IF parser.at + 1 < Shape.body THEN parser.at + 1 ELSE 0]
          /\ AfterBody(parser.at + 1) = "body" => parser.at + 1 < Shape.body
      BY <1>11 DEF OnBody, AfterBody
    <3> QED BY <1>3, <3>1, <3>2
  <2>7. Shape' = Shape
    BY <2>1, <2>6 DEF Shape
  <2> QED BY <1>3, <1>11, <2>2, <2>5, <2>6, <2>7, TypesKept DEF OnBody
<1>12. CASE ParseError
  BY <1>3, <1>12, TypesKept DEF ParseError
<1> QED BY <1>4, <1>6, <1>7, <1>8, <1>9, <1>10, <1>11, <1>12

-----------------------------------------------------------------------------
CallType ==
  [at : {"parse", "handler", "refuse", "size", "chunk", "crlf", "body", "end", "last"},
   data : Text, left : Nat, next : {"parse", "handler", "refuse", "end", "last"}]

HeadersType == [contentLength : Nat \cup {None}, chunked : BOOLEAN]

LEMMA AtType ==
  ASSUME NEW step \in {"parse", "handler", "refuse", "end", "last"}
  PROVE  /\ At(step) \in CallType /\ At(step).left <= Len(At(step).data)
         /\ At(step).at = step
<1>1. <<>> \in Text /\ Len(<<>>) = 0
  BY DEF Text
<1> QED BY <1>1 DEF At, CallType

LEMMA WriteType ==
  ASSUME TypeInv, NEW item \in ItemType, Write(item)
  PROVE  view' \in ViewType
<1>1. view \in ViewType
  BY DEF TypeInv, TypeOK
<1> QED BY <1>1, ReceiveType DEF Write

LEMMA SendHeadersType ==
  ASSUME TypeInv, NEW headers \in HeadersType, SendHeaders(headers)
  PROVE  /\ view' \in ViewType /\ m_response_status' = m_response_status
         /\ m_response_headers' \in HeadersType
         /\ m_response_headers_sent' = TRUE /\ m_response_chunked' \in BOOLEAN
<1>1. /\ view \in ViewType /\ m_response_status \in Nat /\ m_response_headers \in HeadersType
      /\ m_response_headers_sent \in BOOLEAN /\ m_response_chunked \in BOOLEAN
  BY DEF TypeInv, TypeOK, HeadersType
<1>2. CASE m_response_headers_sent
  BY <1>1, <1>2 DEF SendHeaders, response
<1>3. CASE ~m_response_headers_sent
  <2> DEFINE item == [item |-> "head", status |-> m_response_status,
                      length |-> headers.contentLength, chunked |-> headers.chunked]
  <2>1. item \in ItemType
    BY <1>1 DEF ItemType, HeadersType
  <2>2. Write(item)
    BY <1>3 DEF SendHeaders
  <2>3. view' \in ViewType
    BY <2>1, <2>2, WriteType
  <2>4. NoHeaders \in HeadersType /\ headers.chunked \in BOOLEAN
    BY DEF NoHeaders, HeadersType, None
  <2> QED BY <1>1, <1>3, <2>3, <2>4 DEF SendHeaders
<1> QED BY <1>2, <1>3

LEMMA ResponseTypes ==
  ASSUME TypeInv, UNCHANGED <<sent, gone, parser, open, m_url, delivered>>,
         view' \in ViewType, call' \in CallType, call'.left <= Len(call'.data),
         intended' \in Seq(AnswerType), call'.at # "parse" => intended' # <<>>,
         m_response_status' \in Nat, m_response_headers' \in HeadersType,
         m_response_headers_sent' \in BOOLEAN, m_response_chunked' \in BOOLEAN,
         m_buffer' \in Text, m_buffer_body' \in BOOLEAN, m_buffer_headers' \in BOOLEAN,
         m_headers' \in Seq(FieldType), m_current_header' \in 0..Len(m_headers')
  PROVE  TypeInv'
<1>1. TypeOK'
  BY DEF TypeInv, TypeOK, CallType, HeadersType
<1>2. Shape' = Shape
  BY DEF Shape
<1> QED BY <1>1, <1>2 DEF TypeInv

LEMMA LoopType ==
  ASSUME NEW data \in Text, NEW left \in 0..Len(data), NEW next \in {"handler", "end"}
  PROVE  /\ Loop(data, left, next) \in CallType
         /\ Loop(data, left, next).left <= Len(Loop(data, left, next).data)
<1>1. CASE left = 0
  BY <1>1, AtType DEF Loop
<1>2. CASE left # 0
  BY <1>2 DEF Loop, CallType
<1> QED BY <1>1, <1>2

LEMMA SendDataTypes ==
  ASSUME TypeInv, NEW headers \in HeadersType, NEW data \in Text,
         NEW next \in {"handler", "end"}, SendDataWith(headers, data, next),
         intended' \in Seq(AnswerType), intended' # <<>>
  PROVE  TypeInv'
<1> USE DEF client, request
<1>1. SendHeaders(headers) /\ UNCHANGED <<client, parser, open, request, delivered>>
  BY DEF SendDataWith
<1>2. /\ view' \in ViewType /\ m_response_status' = m_response_status
      /\ m_response_headers' \in HeadersType
      /\ m_response_headers_sent' = TRUE /\ m_response_chunked' \in BOOLEAN
  BY <1>1, SendHeadersType
<1>3. Len(data) \in Nat
  BY DEF Text
<1>4. /\ call' \in CallType /\ call'.left <= Len(call'.data)
  <2>1. CASE m_response_chunked'
    BY <1>3, <2>1, LoopType DEF SendDataWith
  <2>2. CASE ~m_response_chunked'
    BY <1>3, <2>2 DEF SendDataWith, CallType
  <2> QED BY <2>1, <2>2
<1>5. /\ m_response_status \in Nat
      /\ m_buffer \in Text /\ m_buffer_body \in BOOLEAN /\ m_buffer_headers \in BOOLEAN
      /\ m_headers \in Seq(FieldType) /\ m_current_header \in 0..Len(m_headers)
  BY DEF TypeInv, TypeOK
<1> QED BY <1>1, <1>2, <1>4, <1>5, ResponseTypes

LEMMA NextUnitsProperties ==
  ASSUME TypeOK, intended # <<>>, NEW n \in Nat
  PROVE  /\ Given \in Nat /\ Last(intended) = intended[Len(intended)]
         /\ Len(intended) \in Nat \ {0} /\ Last(intended) \in AnswerType
         /\ NextUnits(n) \in Text /\ Len(NextUnits(n)) = n
         /\ \A i \in 1..n : NextUnits(n)[i] = AnswerText(Len(delivered), Given + n)[Given + i]
<1>1. Last(intended) = intended[Len(intended)] /\ Len(intended) \in Nat \ {0}
  BY EmptySeq DEF TypeOK, Last
<1>2. Last(intended) \in AnswerType
  BY <1>1 DEF TypeOK
<1>3. Given \in Nat
  BY <1>2 DEF Given, AnswerType, Text
<1>4. Len(delivered) \in Nat /\ Given + n \in Nat
  BY <1>3 DEF TypeOK
<1>5. /\ AnswerText(Len(delivered), Given + n) \in Text
      /\ Len(AnswerText(Len(delivered), Given + n)) = Given + n
  BY <1>4, TextsProperties
<1> DEFINE text == AnswerText(Len(delivered), Given + n)
<1>6. \A i \in (Given + 1)..(Given + n) : text[i] \in UnitType
  BY <1>3, <1>5 DEF Text
<1>7. /\ NextUnits(n) \in Seq(UnitType)
      /\ Len(NextUnits(n)) = IF Given + 1 <= Given + n THEN (Given + n) - (Given + 1) + 1 ELSE 0
      /\ \A i \in 1..((Given + n) - (Given + 1) + 1) :
           NextUnits(n)[i] = text[(Given + 1) + i - 1]
  <2> HIDE DEF text
  <2>1. Given + 1 \in Int /\ Given + n \in Int
    BY <1>3
  <2>2. NextUnits(n) = SubSeq(text, Given + 1, Given + n)
    BY DEF NextUnits, text
  <2> QED BY <1>6, <2>1, <2>2, SubSeqProperties
<1>8. (Given + n) - (Given + 1) + 1 = n /\ \A i \in 1..n : (Given + 1) + i - 1 = Given + i
  BY <1>3
<1> QED BY <1>1, <1>2, <1>3, <1>7, <1>8 DEF Text

LEMMA GrowType ==
  ASSUME TypeOK, intended # <<>>, NEW data \in Text, Grow(data)
  PROVE  /\ intended' \in Seq(AnswerType) /\ intended' # <<>>
         /\ Len(intended') = Len(intended)
         /\ \A i \in 1..(Len(intended) - 1) : intended'[i] = intended[i]
         /\ Last(intended') = [Last(intended) EXCEPT !.body = @ \o data]
<1> DEFINE n == Len(intended)
           a == [intended[n] EXCEPT !.body = intended[n].body \o data]
<1>1. n \in Nat \ {0} /\ intended[n] \in AnswerType /\ Last(intended) = intended[n]
      /\ intended \in Seq(AnswerType)
  BY NextUnitsProperties DEF TypeOK
<1>2. intended[n].body \o data \in Text
  BY <1>1, ConcatProperties DEF AnswerType, Text
<1>3. a \in AnswerType
  BY <1>1, <1>2 DEF AnswerType
<1>4. intended' = [intended EXCEPT ![n] = a]
  BY DEF Grow
<1> HIDE DEF a
<1>5. /\ intended' \in Seq(AnswerType) /\ Len(intended') = n /\ intended'[n] = a
      /\ \A i \in 1..(n - 1) : intended'[i] = intended[i]
  BY <1>1, <1>3, <1>4
<1>6. intended' # <<>> /\ Last(intended') = a
  BY <1>1, <1>5, EmptySeq DEF Last
<1> QED BY <1>1, <1>5, <1>6 DEF a

LEMMA WriteStepTypes ==
  ASSUME TypeInv, NEW item \in ItemType, Write(item) \/ UNCHANGED view,
         call' \in CallType, call'.left <= Len(call'.data),
         intended # <<>>,
         UNCHANGED <<client, parser, open, request, response, delivered, intended>>
  PROVE  TypeInv'
<1>1. view' \in ViewType
  BY WriteType DEF TypeInv, TypeOK
<1>2. /\ m_response_status \in Nat /\ m_response_headers \in HeadersType
      /\ m_response_headers_sent \in BOOLEAN /\ m_response_chunked \in BOOLEAN
      /\ m_buffer \in Text /\ m_buffer_body \in BOOLEAN /\ m_buffer_headers \in BOOLEAN
      /\ m_headers \in Seq(FieldType) /\ m_current_header \in 0..Len(m_headers)
      /\ intended \in Seq(AnswerType)
  BY DEF TypeInv, TypeOK, HeadersType
<1> QED BY <1>1, <1>2, ResponseTypes DEF client, request, response

LEMMA RespondTypes ==
  ASSUME TypeInv, Respond
  PROVE  TypeInv'
<1>1. TypeOK /\ call \in CallType /\ call.left <= Len(call.data)
      /\ m_response_headers \in HeadersType /\ intended \in Seq(AnswerType)
      /\ intended # <<>>
  BY DEF Respond, HandlerSends, HandlerEndsWith, EndsWithRefusal, WriteSize, WriteChunk,
         WriteCrlf, WriteBody, End, WriteLast, TypeInv, TypeOK, CallType, HeadersType
<1>2. CASE HandlerSends
  <2>1. PICK n \in Pieces : SendData(NextUnits(n)) /\ Grow(NextUnits(n))
    BY <1>2 DEF HandlerSends
  <2>2. n \in Nat
    BY LengthsAssumption
  <2>3. NextUnits(n) \in Text
    BY <1>1, <2>2, NextUnitsProperties
  <2>4. intended' \in Seq(AnswerType) /\ intended' # <<>>
    BY <1>1, <2>1, <2>2, <2>3, GrowType
  <2>5. [m_response_headers EXCEPT !.chunked = TRUE] \in HeadersType
    BY <1>1 DEF HeadersType
  <2> QED BY <1>1, <2>1, <2>3, <2>4, <2>5, SendDataTypes DEF SendData
<1>3. CASE HandlerEndsWith
  <2>1. PICK n \in Nat : EndWith(NextUnits(n)) /\ Grow(NextUnits(n))
    BY <1>3, LengthsAssumption DEF HandlerEndsWith
  <2>3. NextUnits(n) \in Text /\ Len(NextUnits(n)) = n
    BY <1>1, NextUnitsProperties
  <2>4. intended' \in Seq(AnswerType) /\ intended' # <<>>
    BY <1>1, <2>1, <2>3, GrowType
  <2>5. [m_response_headers EXCEPT !.contentLength = n] \in HeadersType
    BY <1>1 DEF HeadersType
  <2> QED BY <2>1, <2>3, <2>4, <2>5, SendDataTypes DEF EndWith
<1>4. CASE EndsWithRefusal
  <2>1. EndWith(RefusalText) /\ intended' = intended
    BY <1>4 DEF EndsWithRefusal
  <2>2. RefusalText \in Text /\ Len(RefusalText) \in Nat
    BY TextsProperties, LengthsAssumption
  <2>3. [m_response_headers EXCEPT !.contentLength = Len(RefusalText)] \in HeadersType
    BY <1>1, <2>2 DEF HeadersType
  <2> QED BY <1>1, <2>1, <2>2, <2>3, SendDataTypes DEF EndWith
<1>5. Small \in 0..Len(call.data) /\ Small \in Nat /\ Small <= call.left
      /\ Len(call.data) \in Nat /\ call.left \in Nat /\ call.data \in Text
  BY <1>1, LengthsAssumption DEF Small, CallType, Text
<1>6. CASE WriteSize
  <2>1. /\ Write([item |-> "size", length |-> Small])
        /\ call' = [call EXCEPT !.at = "chunk"]
        /\ UNCHANGED <<client, parser, open, request, response, delivered, intended>>
    BY <1>6 DEF WriteSize
  <2>2. [item |-> "size", length |-> Small] \in ItemType
    BY <1>5 DEF ItemType
  <2>3. call' \in CallType /\ call'.at = "chunk" /\ call'.left <= Len(call'.data)
    BY <1>1, <2>1 DEF CallType
  <2> QED BY <1>1, <2>1, <2>2, <2>3, WriteStepTypes
<1>7. CASE WriteChunk
  <2>1. /\ Write([item |-> "data", units |-> SubSeq(call.data, 1, Small)])
        /\ call' = [call EXCEPT !.at = "crlf"]
        /\ UNCHANGED <<client, parser, open, request, response, delivered, intended>>
    BY <1>7 DEF WriteChunk
  <2>2. \A i \in 1..Small : call.data[i] \in UnitType
    BY <1>5 DEF Text
  <2>3. SubSeq(call.data, 1, Small) \in Text
    BY <1>5, <2>2, SubSeqProperties DEF Text
  <2>4. [item |-> "data", units |-> SubSeq(call.data, 1, Small)] \in ItemType
    BY <2>3 DEF ItemType
  <2>5. call' \in CallType /\ call'.at = "crlf" /\ call'.left <= Len(call'.data)
    BY <1>1, <2>1 DEF CallType
  <2> QED BY <1>1, <2>1, <2>4, <2>5, WriteStepTypes
<1>8. CASE WriteCrlf
  <2>1. /\ call.at = "crlf" /\ Write([item |-> "crlf"])
        /\ call' = Loop(call.data, call.left - Small, call.next)
        /\ UNCHANGED <<client, parser, open, request, response, delivered, intended>>
    BY <1>8 DEF WriteCrlf
  <2>2. [item |-> "crlf"] \in ItemType
    BY DEF ItemType
  <2>3. call.left - Small \in 0..Len(call.data)
    BY <1>1, <1>5
  <2>4. call' \in CallType /\ call'.left <= Len(call'.data)
    <3>1. CASE call.left - Small = 0
      BY <1>1, <2>1, <3>1, AtType DEF Loop, CallType
    <3>2. CASE call.left - Small # 0
      BY <1>1, <1>5, <2>1, <2>3, <3>2 DEF Loop, CallType
    <3> QED BY <3>1, <3>2
  <2> QED BY <1>1, <2>1, <2>2, <2>4, WriteStepTypes
<1>9. CASE WriteBody
  <2>1. /\ call.at = "body" /\ call' = At(call.next)
        /\ UNCHANGED view \/ Write([item |-> "data", units |-> call.data])
        /\ UNCHANGED <<client, parser, open, request, response, delivered, intended>>
    BY <1>9 DEF WriteBody
  <2>2. [item |-> "data", units |-> call.data] \in ItemType
    BY <1>5 DEF ItemType
  <2>3. call' \in CallType /\ call'.left <= Len(call'.data)
    BY <1>1, <2>1, AtType DEF CallType
  <2> QED BY <1>1, <2>1, <2>2, <2>3, WriteStepTypes
<1>10. CASE End
  <2>1. [m_response_headers EXCEPT !.contentLength = 0] \in HeadersType
    BY <1>1 DEF HeadersType
  <2>2. PICK headers \in HeadersType : SendHeaders(headers)
    BY <1>1, <1>10, <2>1 DEF End
  <2>3. /\ view' \in ViewType /\ m_response_status' = m_response_status
        /\ m_response_headers' \in HeadersType
        /\ m_response_headers_sent' = TRUE /\ m_response_chunked' \in BOOLEAN
    BY <2>2, SendHeadersType
  <2>4. /\ call' = At("last")
        /\ UNCHANGED <<client, parser, open, request, delivered, intended>>
    BY <1>10 DEF End
  <2>5. call' \in CallType /\ call'.left <= Len(call'.data) /\ call'.at = "last"
    BY <2>4, AtType
  <2>6. /\ m_response_status \in Nat
        /\ m_buffer \in Text /\ m_buffer_body \in BOOLEAN /\ m_buffer_headers \in BOOLEAN
        /\ m_headers \in Seq(FieldType) /\ m_current_header \in 0..Len(m_headers)
    BY <1>1 DEF TypeOK
  <2> QED BY <1>1, <2>3, <2>4, <2>5, <2>6, ResponseTypes DEF client, request
<1>11. CASE WriteLast
  <2>1. UNCHANGED view \/ Write([item |-> "last"])
    BY <1>11 DEF WriteLast
  <2>2. [item |-> "last"] \in ItemType
    BY DEF ItemType
  <2>3. view' \in ViewType
    BY <1>1, <2>1, <2>2, WriteType DEF TypeOK
  <2>4. /\ call' = At("parse") /\ Reset
        /\ UNCHANGED <<client, parser, open, m_url, delivered, intended>>
    BY <1>11 DEF WriteLast
  <2>5. call' \in CallType /\ call'.left <= Len(call'.data) /\ call'.at = "parse"
    BY <2>4, AtType
  <2>6. /\ m_buffer' = <<>> /\ m_buffer' \in Text /\ m_headers' \in Seq(FieldType)
        /\ m_current_header' \in 0..Len(m_headers')
    BY <2>4, EmptySeq DEF Reset, Text
  <2>7. NoHeaders \in HeadersType
    BY DEF NoHeaders, HeadersType, None
  <2> QED BY <1>1, <2>3, <2>4, <2>5, <2>6, <2>7, ResponseTypes DEF client, Reset
<1> QED BY <1>2, <1>3, <1>4, <1>6, <1>7, <1>8, <1>9, <1>10, <1>11 DEF Respond

LEMMA TypeInvStep ==
  ASSUME TypeInv, [Next]_vars
  PROVE  TypeInv'
<1> USE DEF client, request, response
<1>1. /\ TypeOK /\ sent \in Seq(Shapes) /\ Len(sent) \in Nat
      /\ parser \in [message : Nat, field : Nat, at : Nat, phase : Phases]
      /\ parser.message <= Len(sent) /\ (parser.phase # "between" => parser.message > 0)
  BY DEF TypeInv, TypeOK, Phases
<1>2. CASE Ask
  <2>1. PICK s \in Shapes : sent' = Append(sent, s)
    BY <1>2 DEF Ask
  <2>2. UNCHANGED <<gone, view, parser, open, request, response, call, delivered, intended>>
    BY <1>2 DEF Ask
  <2>3. sent' \in Seq(Shapes) /\ Len(sent') = Len(sent) + 1
        /\ \A i \in 1..Len(sent) : sent'[i] = sent[i]
    BY <1>1, <2>1, AppendProperties
  <2>4. parser.phase # "between" => Shape' = Shape
    BY <1>1, <2>2, <2>3 DEF Shape
  <2>5. parser.message <= Len(sent')
    BY <1>1, <2>3
  <2>6. TypeOK'
    BY <2>2, <2>3, <2>5 DEF TypeInv, TypeOK
  <2> QED BY <2>2, <2>4, <2>6 DEF TypeInv
<1>3. CASE Leave \/ UNCHANGED vars
  <2>1. /\ UNCHANGED <<sent, view, parser, open, m_url, m_buffer, m_buffer_body,
                       m_buffer_headers, m_headers, m_current_header, call, delivered, intended>>
        /\ UNCHANGED response
    BY <1>3 DEF Leave, vars
  <2>2. gone' \in BOOLEAN
    BY <1>1, <1>3 DEF Leave, vars, TypeOK
  <2>3. Shape' = Shape
    BY <2>1 DEF Shape
  <2>4. TypeOK'
    BY <1>1, <2>1, <2>2 DEF TypeOK
  <2> QED BY <2>1, <2>3, <2>4 DEF TypeInv
<1>4. CASE Refuse \/ OnMessageComplete
  <2>1. parser.phase # "between" /\ sent' = sent
    BY <1>4 DEF Refuse, OnMessageComplete, ResponseStatus, Parses
  <2>2. PICK phase \in {"error", "between"} : Goto(phase, 0)
    BY <1>4 DEF Refuse, OnMessageComplete, ResponseStatus
  <2>3. /\ parser' \in [message : Nat, field : Nat, at : Nat, phase : Phases]
        /\ parser'.message <= Len(sent') /\ parser'.message > 0 /\ parser'.phase # "body"
    BY <1>1, <2>1, <2>2, GotoType DEF Phases
  <2>4. call' \in CallType /\ call'.left <= Len(call'.data)
    BY <1>4, AtType DEF Refuse, OnMessageComplete, ResponseStatus
  <2>5. PICK status \in Nat :
          /\ m_response_status' = status
          /\ \/ intended' = Append(intended, Refusal)
             \/ intended' = Append(intended, [status |-> status, body |-> <<>>])
    BY <1>4, LengthsAssumption DEF Refuse, OnMessageComplete, ResponseStatus
  <2>6. intended' \in Seq(AnswerType) /\ intended' # <<>>
    <3>1. <<>> \in Text /\ RefusalText \in Text
      BY TextsProperties DEF Text
    <3>2. Refusal \in AnswerType /\ [status |-> status, body |-> <<>>] \in AnswerType
      BY <3>1 DEF AnswerType, Refusal
    <3>3. intended \in Seq(AnswerType)
      BY <1>1 DEF TypeOK
    <3>4. CASE intended' = Append(intended, Refusal)
      BY <3>2, <3>3, <3>4, AppendProperties
    <3>5. CASE intended' = Append(intended, [status |-> status, body |-> <<>>])
      BY <3>2, <3>3, <3>5, AppendProperties
    <3> QED BY <2>5, <3>4, <3>5
  <2>7. m_buffer' \in Text /\ delivered' \in Seq(RequestType)
    <3>1. CASE Refuse
      BY <1>1, <3>1 DEF Refuse, ResponseStatus, TypeOK
    <3>2. CASE OnMessageComplete
      <4>1. m_buffer' \in Text
        BY <1>1, <3>2 DEF OnMessageComplete, ResponseStatus, TypeOK, Text
      <4>2. [url |-> m_url, headers |-> m_headers, body |-> m_buffer'] \in RequestType
        BY <1>1, <4>1 DEF RequestType, TypeOK
      <4> QED BY <1>1, <3>2, <4>1, <4>2 DEF OnMessageComplete, ResponseStatus, TypeOK
    <3> QED BY <1>4, <3>1, <3>2
  <2>8. UNCHANGED <<gone, view, open, m_url, m_buffer_body, m_buffer_headers, m_headers,
                    m_current_header, m_response_headers, m_response_headers_sent,
                    m_response_chunked>>
    BY <1>4 DEF Refuse, OnMessageComplete, ResponseStatus
  <2> QED BY <1>1, <2>1, <2>3, <2>4, <2>5, <2>6, <2>7, <2>8
          DEF TypeInv, TypeOK, CallType, Phases
<1> QED BY <1>2, <1>3, <1>4, ParserTypes, RespondTypes DEF Next, OnRead, Callback

LEMMA TypeInvariance == Spec => []TypeInv
<1>1. Init => TypeInv
  <2> SUFFICES ASSUME Init PROVE TypeInv
    OBVIOUS
  <2>1. <<>> \in Text /\ Len(<<>>) = 0
    BY DEF Text
  <2>2. call \in CallType /\ call.left <= Len(call.data) /\ call.at = "parse"
    BY AtType DEF Init
  <2>3. view \in ViewType
    <3>1. <<>> \in Seq(AnswerType) /\ "head" \in {"head", "length", "size", "chunk", "crlf", "until close", "broken"}
      OBVIOUS
    <3> QED BY <2>1, <3>1 DEF Init, ViewInit, ViewType
  <2>4. /\ sent \in Seq(Shapes) /\ m_headers \in Seq(FieldType) /\ delivered \in Seq(RequestType)
        /\ intended \in Seq(AnswerType) /\ parser.message <= Len(sent)
        /\ m_current_header \in 0..Len(m_headers)
    BY DEF Init
  <2>5. /\ m_response_headers \in [contentLength : Nat \cup {None}, chunked : BOOLEAN]
        /\ parser \in [message : Nat, field : Nat, at : Nat, phase : Phases]
        /\ parser.phase = "between"
    BY DEF Init, NoHeaders, None, Phases
  <2>6. TypeOK
    BY <2>1, <2>2, <2>3, <2>4, <2>5 DEF Init, TypeOK, CallType, Phases
  <2> QED BY <2>2, <2>5, <2>6 DEF TypeInv
<1>2. TypeInv /\ [Next]_vars => TypeInv'
  BY TypeInvStep
<1> QED BY <1>1, <1>2, PTL DEF Spec

(* Every variable keeps its type, whatever the requests and the handlers:  *)
(* m_current_header points into m_headers or at nothing, and send_data     *)
(* never has more to write than it was given.                              *)
THEOREM TypeCorrect == Spec => []TypeOK
<1>1. TypeInv => TypeOK
  BY DEF TypeInv
<1> QED BY <1>1, TypeInvariance, PTL

-----------------------------------------------------------------------------
(* Requests.  NoTrailers leaves out what the run http_trailers refutes.    *)
NoTrailers == \A s \in Shapes : s.trailers = 0

FieldsOf(k, n) == [h \in 1..n |-> Field(k, h)]

InMessage == parser.phase \notin {"between", "error"}

(* What m_buffer holds belongs to the part of the message that the parser  *)
(* is in, and to nothing else; fields that are finished are in m_headers,  *)
(* in order; and between two messages nothing is left of the first.        *)
RequestInv ==
  /\ Len(delivered) <= Len(sent) /\ RequestsIntact
  /\ parser.phase = "between" => parser.message = Len(delivered)
  /\ InMessage =>
       /\ parser.message = Len(delivered) + 1 /\ call.at = "parse"
       /\ m_buffer_body /\ m_buffer_headers
  /\ call.at = "parse" /\ parser.phase \in {"between", "url"} =>
       m_headers = <<>> /\ m_current_header = 0
  /\ parser.phase = "url" =>
       parser.at <= TextLen /\ m_buffer = Units(Message, "url", 0, parser.at)
  /\ parser.phase \in {"name", "value", "headers", "body", "end"} => m_url = UrlText(Message)
  /\ parser.phase \in {"name", "value"} => parser.field \in 1..Shape.headers
  /\ parser.phase = "name" =>
       /\ m_headers = FieldsOf(Message, parser.field - 1)
       /\ parser.at <= TextLen
       /\ m_buffer = Units(Message, "name", parser.field, parser.at)
  /\ parser.phase = "value" =>
       /\ m_headers = Append(FieldsOf(Message, parser.field - 1),
                             [name |-> Lower(NameText(Message, parser.field)), value |-> <<>>])
       /\ m_current_header = parser.field
       /\ parser.at <= TextLen
       /\ m_buffer = Units(Message, "value", parser.field, parser.at)
  /\ parser.phase \in {"headers", "body", "end"} =>
       m_headers = FieldsOf(Message, Shape.headers)
  /\ parser.phase = "headers" => m_buffer = <<>>
  /\ parser.phase = "body" => m_buffer = BodyText(Message, parser.at)
  /\ parser.phase = "end" => m_buffer = BodyText(Message, Shape.body)
  /\ call.at \in {"size", "chunk", "crlf", "body"} => call.next \in {"handler", "end"}

LEMMA UnitsAppend ==
  ASSUME NEW k, NEW part, NEW h, NEW n \in Nat, NEW m \in Nat, n < m
  PROVE  Append(Units(k, part, h, n), Units(k, part, h, m)[n + 1]) = Units(k, part, h, n + 1)
<1> DEFINE u(i) == [of |-> k, part |-> part, field |-> h, at |-> i, lower |-> FALSE]
<1>1. Units(k, part, h, m)[n + 1] = u(n + 1)
  BY DEF Units
<1>2. Units(k, part, h, n) = [i \in 1..n |-> u(i)] /\ Units(k, part, h, n + 1) = [i \in 1..(n + 1) |-> u(i)]
  BY DEF Units
<1> HIDE DEF u
<1>3. Append([i \in 1..n |-> u(i)], u(n + 1)) = [i \in 1..(n + 1) |-> u(i)]
  OBVIOUS
<1> QED BY <1>1, <1>2, <1>3

LEMMA FieldsAppend ==
  ASSUME NEW k, NEW n \in Nat \ {0}
  PROVE  /\ FieldsOf(k, n) = Append(FieldsOf(k, n - 1), Field(k, n))
         /\ Len(FieldsOf(k, n - 1)) = n - 1
         /\ FieldsOf(k, 0) = <<>>
<1> DEFINE f(h) == Field(k, h)
<1>1. /\ FieldsOf(k, n) = [h \in 1..n |-> f(h)] /\ FieldsOf(k, n - 1) = [h \in 1..(n - 1) |-> f(h)]
      /\ FieldsOf(k, 0) = [h \in 1..0 |-> f(h)]
  BY DEF FieldsOf
<1> HIDE DEF f
<1>2. [h \in 1..n |-> f(h)] = Append([h \in 1..(n - 1) |-> f(h)], f(n))
  OBVIOUS
<1>3. Len([h \in 1..(n - 1) |-> f(h)]) = n - 1 /\ [h \in 1..0 |-> f(h)] = <<>>
  OBVIOUS
<1> QED BY <1>1, <1>2, <1>3 DEF f

LEMMA ValueSet ==
  ASSUME NEW k, NEW m \in Nat, NEW n, n = m + 1, NEW x, NEW y
  PROVE  /\ [Append(FieldsOf(k, m), x) EXCEPT ![n] = y] = Append(FieldsOf(k, m), y)
         /\ Append(FieldsOf(k, m), x)[n] = x
<1> DEFINE fs == FieldsOf(k, m)
           S == {Field(k, h) : h \in 1..m} \cup {x, y}
<1>1. fs \in Seq(S) /\ Len(fs) = m /\ x \in S /\ y \in S
  BY DEF FieldsOf
<1> HIDE DEF fs, S
<1>2. /\ Append(fs, x) \in Seq(S) /\ Append(fs, y) \in Seq(S)
      /\ Len(Append(fs, x)) = n /\ Len(Append(fs, y)) = n
      /\ Append(fs, x)[n] = x /\ Append(fs, y)[n] = y
      /\ \A i \in 1..m : Append(fs, x)[i] = fs[i] /\ Append(fs, y)[i] = fs[i]
  BY <1>1, AppendProperties
<1>3. /\ [Append(fs, x) EXCEPT ![n] = y] \in Seq(S)
      /\ Len([Append(fs, x) EXCEPT ![n] = y]) = n
      /\ \A i \in 1..n : [Append(fs, x) EXCEPT ![n] = y][i] = IF i = n THEN y ELSE Append(fs, x)[i]
  <2> DEFINE a == Append(fs, x)
  <2>1. a \in Seq(S) /\ n \in 1..Len(a) /\ Len(a) = n /\ y \in S
    BY <1>1, <1>2
  <2> HIDE DEF a
  <2>2. /\ [a EXCEPT ![n] = y] \in Seq(S)
        /\ Len([a EXCEPT ![n] = y]) = Len(a)
        /\ \A j \in 1..Len(a) : [a EXCEPT ![n] = y][j] = IF j = n THEN y ELSE a[j]
    BY <2>1, ExceptSeq
  <2> QED BY <2>1, <2>2 DEF a
<1>4. \A i \in 1..n : [Append(fs, x) EXCEPT ![n] = y][i] = Append(fs, y)[i]
  <2> TAKE i \in 1..n
  <2>1. i = n \/ i \in 1..m
    OBVIOUS
  <2> QED BY <1>2, <1>3, <2>1
<1>5. [Append(fs, x) EXCEPT ![n] = y] = Append(fs, y)
  BY <1>2, <1>3, <1>4, SeqEqual
<1> QED BY <1>2, <1>5 DEF fs

LEMMA MessageFacts ==
  ASSUME TypeInv, NoTrailers, RequestInv, parser.phase # "between"
  PROVE  /\ Message \in Nat \ {0} /\ Message <= Len(sent) /\ parser.message = Message
         /\ Shape.headers \in Nat /\ Shape.body \in Nat /\ Shape.trailers = 0
         /\ sent[Message] = Shape
         /\ parser.field \in Nat /\ parser.at \in Nat /\ TextLen \in Nat \ {0}
         /\ Len(delivered) \in Nat /\ Len(sent) \in Nat
         /\ parser = [message |-> Message, phase |-> parser.phase, field |-> parser.field,
                      at |-> parser.at]
<1>1. TypeOK
  BY DEF TypeInv
<1>2. Message \in 1..Len(sent) /\ Shape \in Shapes /\ Shape.headers \in Nat /\ Shape.body \in Nat
  BY <1>1, ShapeFacts
<1>3. /\ parser \in [message : Nat, field : Nat, at : Nat, phase : Phases]
      /\ Len(delivered) \in Nat /\ Len(sent) \in Nat
  BY <1>1 DEF TypeOK, Phases
<1> QED BY <1>2, <1>3, LengthsAssumption DEF NoTrailers, Message, Shape

(* What stays when the parser goes on inside a message. *)
LEMMA HistoryKept ==
  ASSUME TypeInv, RequestInv, InMessage, InMessage',
         parser'.message = parser.message,
         UNCHANGED <<sent, delivered, call, m_buffer_body, m_buffer_headers>>
  PROVE  /\ Message' = Message /\ Shape' = Shape
         /\ Len(delivered') <= Len(sent') /\ RequestsIntact'
         /\ parser'.message = Len(delivered') + 1 /\ call'.at = "parse"
         /\ m_buffer_body' /\ m_buffer_headers'
         /\ InMessage' /\ parser'.phase # "between"
BY DEF RequestInv, RequestsIntact, InMessage, Message, Shape

LEMMA SpanRequest ==
  ASSUME TypeInv, NoTrailers, RequestInv, OnUrl \/ OnHeaderField \/ OnHeaderValue
  PROVE  RequestInv'
<1> USE DEF client
<1>1. PICK text : OnSpan(text)
  BY DEF OnUrl, OnHeaderField, OnHeaderValue
<1>2. /\ parser.phase \in {"url", "name", "value"} /\ parser.at < TextLen
      /\ parser' = [parser EXCEPT !.at = @ + 1]
      /\ UNCHANGED <<sent, delivered, call, m_url, m_buffer_body, m_buffer_headers, m_headers,
                     m_current_header>>
  BY <1>1 DEF OnSpan, OnUrl, OnHeaderField, OnHeaderValue, Parses
<1>3. InMessage /\ parser.phase # "between"
  BY <1>2 DEF InMessage
<1>4. /\ Message \in Nat /\ parser.field \in Nat /\ parser.at \in Nat /\ TextLen \in Nat
      /\ parser' = [message |-> Message, phase |-> parser.phase, field |-> parser.field,
                    at |-> parser.at + 1]
  BY <1>2, <1>3, MessageFacts
<1>5. InMessage' /\ parser'.message = parser.message
  BY <1>3, <1>4, MessageFacts DEF InMessage
<1>6. /\ Message' = Message /\ Shape' = Shape
      /\ Len(delivered') <= Len(sent') /\ RequestsIntact'
      /\ parser'.message = Len(delivered') + 1 /\ call'.at = "parse"
      /\ m_buffer_body' /\ m_buffer_headers' /\ parser'.phase # "between"
  BY <1>2, <1>3, <1>5, HistoryKept
<1>7. parser.at + 1 <= TextLen
  BY <1>2, <1>4
<1>8. CASE OnUrl
  <2>1. parser.phase = "url" /\ m_buffer' = Append(m_buffer, UrlText(Message)[parser.at + 1])
    BY <1>8 DEF OnUrl, Parses, OnSpan
  <2>2. m_buffer' = Units(Message, "url", 0, parser.at + 1)
    BY <1>2, <1>4, <2>1, UnitsAppend DEF RequestInv, UrlText
  <2> QED BY <1>2, <1>4, <1>6, <1>7, <2>1, <2>2 DEF RequestInv, InMessage
<1>9. CASE OnHeaderField
  <2>1. /\ parser.phase = "name"
        /\ m_buffer' = Append(m_buffer, NameText(Message, parser.field)[parser.at + 1])
    BY <1>9 DEF OnHeaderField, Parses, OnSpan
  <2>2. m_buffer' = Units(Message, "name", parser.field, parser.at + 1)
    BY <1>2, <1>4, <2>1, UnitsAppend DEF RequestInv, NameText
  <2> QED BY <1>2, <1>4, <1>6, <1>7, <2>1, <2>2 DEF RequestInv, InMessage
<1>10. CASE OnHeaderValue
  <2>1. /\ parser.phase = "value"
        /\ m_buffer' = Append(m_buffer, ValueText(Message, parser.field)[parser.at + 1])
    BY <1>10 DEF OnHeaderValue, Parses, OnSpan
  <2>2. m_buffer' = Units(Message, "value", parser.field, parser.at + 1)
    BY <1>2, <1>4, <2>1, UnitsAppend DEF RequestInv, ValueText
  <2> QED BY <1>2, <1>4, <1>6, <1>7, <2>1, <2>2 DEF RequestInv, InMessage
<1> QED BY <1>8, <1>9, <1>10

(* Where the parser goes after a field of a message without trailers. *)
LEMMA AfterFieldNext ==
  ASSUME NEW h \in 0..Shape.headers, Shape.headers \in Nat, Shape.trailers = 0
  PROVE  \/ h = Shape.headers /\ AfterField(h) = "headers"
         \/ h < Shape.headers /\ AfterField(h) = "name"
BY DEF AfterField

LEMMA CompleteRequest ==
  ASSUME TypeInv, NoTrailers, RequestInv,
         OnUrlComplete \/ OnHeaderFieldComplete \/ OnHeaderValueComplete
  PROVE  RequestInv'
<1> USE DEF client
<1>1. /\ parser.phase \in {"url", "name", "value"} /\ parser.at = TextLen
      /\ UNCHANGED <<sent, delivered, call, m_buffer_body, m_buffer_headers>>
      /\ m_buffer' = <<>>
  BY DEF OnUrlComplete, OnHeaderFieldComplete, OnHeaderValueComplete, Parses
<1>2. InMessage /\ parser.phase # "between"
  BY <1>1 DEF InMessage
<1>3. PICK phase \in {"name", "value", "headers"}, field \in Nat : Goto(phase, field)
  <2>1. parser.field \in Nat /\ parser.field + 1 \in Nat
    BY <1>2, MessageFacts
  <2>2. CASE OnUrlComplete
    BY <1>2, <2>2, MessageFacts, AfterFieldNext DEF OnUrlComplete
  <2>3. CASE OnHeaderFieldComplete
    BY <2>1, <2>3 DEF OnHeaderFieldComplete
  <2>4. CASE OnHeaderValueComplete
    <3>1. parser.field \in 0..Shape.headers
      BY <1>2, <2>4, MessageFacts DEF OnHeaderValueComplete, Parses, RequestInv
    <3> QED BY <1>2, <2>1, <2>4, <3>1, MessageFacts, AfterFieldNext DEF OnHeaderValueComplete
  <2> QED BY <2>2, <2>3, <2>4
<1>4. /\ parser'.message = parser.message /\ parser'.phase = phase
      /\ parser'.field = field /\ parser'.at = 0
  BY <1>3 DEF Goto
<1>5. InMessage'
  BY <1>4 DEF InMessage
<1>6. /\ Message' = Message /\ Shape' = Shape
      /\ Len(delivered') <= Len(sent') /\ RequestsIntact'
      /\ parser'.message = Len(delivered') + 1 /\ call'.at = "parse"
      /\ m_buffer_body' /\ m_buffer_headers' /\ parser'.phase # "between"
  BY <1>1, <1>2, <1>4, <1>5, HistoryKept
<1>7. Message \in Nat /\ TextLen \in Nat /\ 0 <= TextLen /\ parser.field \in Nat
      /\ Shape.headers \in Nat /\ Shape.trailers = 0
  BY <1>2, MessageFacts
<1>8. \A part \in Parts, h \in Nat : Units(Message, part, h, 0) = <<>>
  BY <1>7, UnitsProperties
<1>9. CASE OnUrlComplete
  <2>1. /\ Goto(AfterField(0), 1) /\ m_url' = m_buffer /\ parser.phase = "url"
        /\ UNCHANGED <<m_headers, m_current_header>>
    BY <1>9 DEF OnUrlComplete, Parses
  <2>2. m_url' = UrlText(Message) /\ m_headers' = <<>>
    BY <1>1, <1>6, <2>1 DEF RequestInv, UrlText
  <2>3. parser'.phase = AfterField(0) /\ parser'.field = 1 /\ parser'.at = 0
    BY <2>1 DEF Goto
  <2>4. FieldsOf(Message, 0) = <<>> /\ 1 - 1 = 0
    BY FieldsAppend DEF FieldsOf
  <2>5. CASE Shape.headers = 0
    <3>1. AfterField(0) = "headers"
      BY <2>5 DEF AfterField
    <3> QED BY <1>1, <1>6, <2>2, <2>3, <2>4, <2>5, <3>1 DEF RequestInv, InMessage
  <2>6. CASE Shape.headers # 0
    <3>1. AfterField(0) = "name" /\ 1 \in 1..Shape.headers
      BY <1>7, <2>6 DEF AfterField
    <3>2. m_buffer' = Units(Message, "name", 1, 0)
      BY <1>1, <1>8 DEF Parts
    <3> QED BY <1>6, <1>7, <2>2, <2>3, <2>4, <3>1, <3>2 DEF RequestInv, InMessage
  <2> QED BY <2>5, <2>6
<1>10. CASE OnHeaderFieldComplete
  <2>1. /\ Goto("value", parser.field) /\ parser.phase = "name" /\ m_url' = m_url
        /\ m_headers' = Append(m_headers, [name |-> Lower(m_buffer), value |-> <<>>])
        /\ m_current_header' = Len(m_headers) + 1
    BY <1>2, <1>10 DEF OnHeaderFieldComplete, Parses, RequestInv
  <2>2. /\ parser'.phase = "value" /\ parser'.field = parser.field /\ parser'.at = 0
        /\ parser.field \in 1..Shape.headers
    BY <2>1 DEF Goto, RequestInv
  <2>3. /\ m_headers = FieldsOf(Message, parser.field - 1)
        /\ m_buffer = NameText(Message, parser.field) /\ m_url = UrlText(Message)
    BY <1>1, <2>1 DEF RequestInv, NameText
  <2>4. Len(m_headers) + 1 = parser.field
    <3>1. parser.field \in Nat \ {0}
      BY <1>7, <2>2
    <3>2. Len(FieldsOf(Message, parser.field - 1)) = parser.field - 1
      BY <3>1, FieldsAppend
    <3> QED BY <2>3, <3>1, <3>2
  <2>5. m_buffer' = Units(Message, "value", parser.field, 0)
    BY <1>1, <1>7, <1>8 DEF Parts
  <2> QED BY <1>6, <1>7, <2>1, <2>2, <2>3, <2>4, <2>5 DEF RequestInv, InMessage
<1>11. CASE OnHeaderValueComplete
  <2>1. /\ Goto(AfterField(parser.field), parser.field + 1) /\ parser.phase = "value"
        /\ m_url' = m_url
        /\ parser.field \in 1..Shape.headers /\ m_current_header = parser.field
        /\ m_headers = Append(FieldsOf(Message, parser.field - 1),
                              [name |-> Lower(NameText(Message, parser.field)), value |-> <<>>])
        /\ m_buffer = ValueText(Message, parser.field) /\ m_url = UrlText(Message)
        /\ m_buffer_headers
    BY <1>1, <1>2, <1>11 DEF OnHeaderValueComplete, Parses, RequestInv, ValueText
  <2>0. parser.field \in Nat \ {0} /\ m_current_header # 0
    BY <1>7, <2>1
  <2>2. m_headers' = [m_headers EXCEPT ![parser.field].value = m_buffer]
    <3>1. m_headers' = [m_headers EXCEPT ![m_current_header].value = m_buffer]
      BY <1>11, <2>0, <2>1 DEF OnHeaderValueComplete
    <3> QED BY <2>1, <3>1
  <2>3. m_headers' = Append(FieldsOf(Message, parser.field - 1), Field(Message, parser.field))
    <3> DEFINE m == parser.field - 1
               x == [name |-> Lower(NameText(Message, parser.field)), value |-> <<>>]
               y == [x EXCEPT !.value = m_buffer]
    <3>1. m \in Nat /\ parser.field = m + 1
      BY <2>0
    <3>2. m_headers = Append(FieldsOf(Message, m), x) /\ y = Field(Message, parser.field)
      BY <2>1 DEF Field
    <3>3. m_headers' = [m_headers EXCEPT ![parser.field] = [m_headers[parser.field] EXCEPT !.value = m_buffer]]
      BY <2>2
    <3> HIDE DEF m, x
    <3>4. m_headers[parser.field] = x
      BY <3>1, <3>2, ValueSet
    <3>5. m_headers' = [m_headers EXCEPT ![parser.field] = y]
      BY <3>3, <3>4
    <3> HIDE DEF y
    <3>6. [Append(FieldsOf(Message, m), x) EXCEPT ![parser.field] = y]
            = Append(FieldsOf(Message, m), y)
      BY <3>1, ValueSet
    <3>7. m_headers' = Append(FieldsOf(Message, m), y)
      BY <3>2, <3>5, <3>6
    <3> QED BY <3>2, <3>7 DEF m
  <2>4. m_headers' = FieldsOf(Message, parser.field)
    <3>1. FieldsOf(Message, parser.field)
            = Append(FieldsOf(Message, parser.field - 1), Field(Message, parser.field))
      BY <2>0, FieldsAppend
    <3> QED BY <2>3, <3>1
  <2>5. /\ parser'.phase = AfterField(parser.field) /\ parser'.field = parser.field + 1
        /\ parser'.at = 0 /\ (parser.field + 1) - 1 = parser.field
    BY <1>7, <2>1 DEF Goto
  <2>6. CASE parser.field = Shape.headers
    <3>1. AfterField(parser.field) = "headers"
      BY <2>6 DEF AfterField
    <3> QED BY <1>1, <1>6, <2>1, <2>4, <2>5, <2>6, <3>1 DEF RequestInv, InMessage
  <2>7. CASE parser.field # Shape.headers
    <3>1. AfterField(parser.field) = "name" /\ parser.field + 1 \in 1..Shape.headers
      BY <1>7, <2>1, <2>7 DEF AfterField
    <3>2. m_buffer' = Units(Message, "name", parser.field + 1, 0)
      BY <1>1, <1>7, <1>8 DEF Parts
    <3> QED BY <1>6, <1>7, <2>1, <2>4, <2>5, <3>1, <3>2 DEF RequestInv, InMessage
  <2> QED BY <2>6, <2>7
<1> QED BY <1>9, <1>10, <1>11

LEMMA BeginRequest ==
  ASSUME TypeInv, NoTrailers, RequestInv, OnMessageBegin
  PROVE  RequestInv'
<1> USE DEF client
<1>1. /\ parser.phase = "between" /\ call.at = "parse" /\ parser.message < Len(sent)
      /\ parser' = [message |-> parser.message + 1, phase |-> "url", field |-> 0, at |-> 0]
      /\ m_buffer' = <<>> /\ m_buffer_headers' /\ m_buffer_body'
      /\ UNCHANGED <<sent, m_headers, m_current_header, call, delivered>>
  BY DEF OnMessageBegin, Parses, At
<1>2. TypeOK /\ parser.message \in Nat /\ TextLen \in Nat /\ 0 <= TextLen
  BY LengthsAssumption DEF TypeInv, TypeOK
<1>3. Units(Message, "url", 0, 0)' = <<>>
  <2>1. parser.message + 1 \in Nat /\ "url" \in Parts /\ 0 \in Nat
    BY <1>2 DEF Parts
  <2>2. Units(parser.message + 1, "url", 0, 0) = <<>>
    BY <2>1, UnitsProperties
  <2> QED BY <1>1, <2>2 DEF Message
<1> QED BY <1>1, <1>2, <1>3 DEF RequestInv, RequestsIntact, InMessage, Message

LEMMA RefuseRequest ==
  ASSUME TypeInv, NoTrailers, RequestInv, Refuse
  PROVE  RequestInv'
<1> USE DEF client, request
<1>1. /\ parser'.phase = "error" /\ call'.at = "refuse"
      /\ UNCHANGED <<sent, delivered>>
  BY DEF Refuse, ResponseStatus, Goto, At
<1> QED BY <1>1 DEF RequestInv, RequestsIntact, InMessage

LEMMA HeadersRequest ==
  ASSUME TypeInv, NoTrailers, RequestInv, OnHeadersComplete
  PROVE  RequestInv'
<1> USE DEF client
<1>1. /\ parser.phase = "headers" /\ Goto(AfterBody(0), parser.field) /\ m_buffer' = <<>>
      /\ UNCHANGED <<sent, delivered, call, m_url, m_buffer_body, m_buffer_headers, m_headers>>
  BY DEF OnHeadersComplete, Parses
<1>2. InMessage /\ parser.phase # "between"
  BY <1>1 DEF InMessage
<1>3. Message \in Nat /\ Shape.body \in Nat /\ Shape.trailers = 0 /\ parser.message = Message
  BY <1>2, MessageFacts
<1>4. parser'.message = parser.message /\ parser'.phase = AfterBody(0) /\ parser'.at = 0
  BY <1>1 DEF Goto
<1>5. \/ Shape.body > 0 /\ AfterBody(0) = "body"
      \/ Shape.body = 0 /\ AfterBody(0) = "end"
  BY <1>3 DEF AfterBody
<1>6. InMessage'
  BY <1>4, <1>5 DEF InMessage
<1>7. /\ Message' = Message /\ Shape' = Shape
      /\ Len(delivered') <= Len(sent') /\ RequestsIntact'
      /\ parser'.message = Len(delivered') + 1 /\ call'.at = "parse"
      /\ m_buffer_body' /\ m_buffer_headers' /\ parser'.phase # "between"
  BY <1>1, <1>2, <1>4, <1>6, HistoryKept
<1>8. BodyText(Message, 0) = <<>>
  BY <1>3, UnitsProperties DEF BodyText, Parts
<1>9. m_url' = UrlText(Message') /\ m_headers' = FieldsOf(Message', Shape'.headers)
  BY <1>1, <1>7 DEF RequestInv
<1> QED BY <1>1, <1>4, <1>5, <1>7, <1>8, <1>9 DEF RequestInv

LEMMA BodyRequest ==
  ASSUME TypeInv, NoTrailers, RequestInv, OnBody
  PROVE  RequestInv'
<1> USE DEF client
<1>1. /\ parser.phase = "body"
      /\ m_buffer' = IF m_buffer_body
                     THEN Append(m_buffer, BodyText(Message, Shape.body)[parser.at + 1])
                     ELSE m_buffer
      /\ parser' = [parser EXCEPT !.phase = AfterBody(parser.at + 1),
                                  !.at = IF parser.at + 1 < Shape.body THEN @ + 1 ELSE 0]
      /\ UNCHANGED <<sent, delivered, call, m_url, m_buffer_body, m_buffer_headers, m_headers>>
  BY DEF OnBody, Parses
<1>2. InMessage /\ parser.phase # "between"
  BY <1>1 DEF InMessage
<1>3. /\ Message \in Nat /\ Shape.body \in Nat /\ Shape.trailers = 0
      /\ parser.message = Message /\ parser.at \in Nat
      /\ parser = [message |-> Message, phase |-> parser.phase, field |-> parser.field,
                   at |-> parser.at]
  BY <1>2, MessageFacts
<1>4. parser.at < Shape.body
  BY <1>1 DEF TypeInv
<1>5. m_buffer' = BodyText(Message, parser.at + 1)
  <2>1. m_buffer' = Append(BodyText(Message, parser.at),
                           BodyText(Message, Shape.body)[parser.at + 1])
    BY <1>1, <1>2 DEF RequestInv
  <2> QED BY <1>3, <1>4, <2>1, UnitsAppend DEF BodyText
<1>6. /\ parser'.message = parser.message /\ parser'.phase = AfterBody(parser.at + 1)
      /\ parser'.at = IF parser.at + 1 < Shape.body THEN parser.at + 1 ELSE 0
  BY <1>1, <1>3
<1>7. \/ parser.at + 1 < Shape.body /\ AfterBody(parser.at + 1) = "body"
      \/ parser.at + 1 = Shape.body /\ AfterBody(parser.at + 1) = "end"
  BY <1>3, <1>4 DEF AfterBody
<1>8. InMessage'
  BY <1>6, <1>7 DEF InMessage
<1>9. /\ Message' = Message /\ Shape' = Shape
      /\ Len(delivered') <= Len(sent') /\ RequestsIntact'
      /\ parser'.message = Len(delivered') + 1 /\ call'.at = "parse"
      /\ m_buffer_body' /\ m_buffer_headers' /\ parser'.phase # "between"
  BY <1>1, <1>2, <1>6, <1>8, HistoryKept
<1>10. m_url' = UrlText(Message') /\ m_headers' = FieldsOf(Message', Shape'.headers)
  BY <1>1, <1>9 DEF RequestInv
<1> QED BY <1>1, <1>5, <1>6, <1>7, <1>9, <1>10 DEF RequestInv

(* What a handler is given. *)
LEMMA DeliverRequest ==
  ASSUME TypeInv, NoTrailers, RequestInv, OnMessageComplete
  PROVE  RequestInv'
<1> USE DEF client
<1> DEFINE given == [url |-> m_url, headers |-> m_headers, body |-> m_buffer']
<1>1. /\ parser.phase = "end" /\ call'.at = "handler"
      /\ m_buffer' = IF m_buffer_body THEN m_buffer ELSE <<>>
      /\ delivered' = Append(delivered, given)
      /\ parser'.message = parser.message /\ parser'.phase \in {"between", "error"}
      /\ sent' = sent
  BY DEF OnMessageComplete, ResponseStatus, Parses, At, Goto
<1>2. InMessage /\ parser.phase # "between"
  BY <1>1 DEF InMessage
<1>3. /\ Message \in Nat /\ Message <= Len(sent) /\ parser.message = Message
      /\ Shape.headers \in Nat /\ Shape.trailers = 0 /\ sent[Message] = Shape
      /\ Len(delivered) \in Nat /\ Len(sent) \in Nat
  BY <1>2, MessageFacts
<1>4. Message = Len(delivered) + 1
  BY <1>2, <1>3 DEF RequestInv
<1>5. given = Meant(Message, sent[Message])
  <2>1. /\ m_url = UrlText(Message) /\ m_buffer' = BodyText(Message, Shape.body)
        /\ m_headers = FieldsOf(Message, Shape.headers)
    BY <1>1, <1>2 DEF RequestInv
  <2>2. Shape.headers + Shape.trailers = Shape.headers
    BY <1>3
  <2>3. Meant(Message, Shape)
          = [url |-> UrlText(Message), headers |-> FieldsOf(Message, Shape.headers),
             body |-> BodyText(Message, Shape.body)]
    BY <2>2 DEF Meant, FieldsOf
  <2> QED BY <1>3, <2>1, <2>3
<1>6. /\ Len(delivered') = Len(delivered) + 1
      /\ \A k \in 1..Len(delivered) : delivered'[k] = delivered[k]
      /\ delivered'[Len(delivered) + 1] = given
  <2>1. delivered \in Seq(RequestType)
    BY DEF TypeInv, TypeOK
  <2> HIDE DEF given
  <2> QED BY <1>1, <2>1
<1>7. Len(delivered') <= Len(sent') /\ RequestsIntact'
  <2>1. ASSUME NEW k \in 1..Len(delivered')
        PROVE  delivered'[k] = Meant(k, sent'[k])
    <3>1. CASE k = Len(delivered) + 1
      BY <1>1, <1>4, <1>5, <1>6, <3>1
    <3>2. CASE k # Len(delivered) + 1
      <4>1. k \in 1..Len(delivered)
        BY <1>3, <1>6, <2>1, <3>2
      <4> QED BY <1>1, <1>6, <4>1 DEF RequestInv, RequestsIntact
    <3> QED BY <3>1, <3>2
  <2> QED BY <1>1, <1>3, <1>4, <1>6, <2>1 DEF RequestsIntact
<1> QED BY <1>1, <1>3, <1>4, <1>6, <1>7 DEF RequestInv, InMessage

(* A response is written between two callbacks, and touches no request. *)
LEMMA RespondFacts ==
  ASSUME TypeInv, RequestInv, Respond
  PROVE  /\ call.at # "parse"
         /\ UNCHANGED <<sent, gone, parser, open, m_url, delivered>>
         /\ call'.at = "parse" => m_headers' = <<>> /\ m_current_header' = 0
         /\ call'.at \in {"size", "chunk", "crlf", "body"} => call'.next \in {"handler", "end"}
<1> USE DEF client, request
<1>1. /\ TypeOK /\ call \in CallType
  BY DEF TypeInv, TypeOK, CallType
<1>2. ASSUME NEW headers, NEW data, NEW next \in {"handler", "end"},
             SendDataWith(headers, data, next)
      PROVE  /\ call'.at # "parse"
             /\ call'.at \in {"size", "chunk", "crlf", "body"} => call'.next \in {"handler", "end"}
             /\ UNCHANGED <<sent, gone, parser, open, m_url, delivered>>
  BY <1>2 DEF SendDataWith, Loop, At
<1>3. CASE HandlerSends
  BY <1>2, <1>3 DEF HandlerSends, SendData
<1>4. CASE HandlerEndsWith
  BY <1>2, <1>4 DEF HandlerEndsWith, EndWith
<1>5. CASE EndsWithRefusal
  BY <1>2, <1>5 DEF EndsWithRefusal, EndWith
<1>6. CASE WriteSize \/ WriteChunk
  <2>1. call = [at |-> call.at, data |-> call.data, left |-> call.left, next |-> call.next]
    BY <1>1 DEF CallType
  <2> QED BY <1>6, <2>1 DEF WriteSize, WriteChunk, RequestInv
<1>7. CASE WriteCrlf
  <2>1. call.next \in {"handler", "end"}
    BY <1>7 DEF WriteCrlf, RequestInv
  <2> QED BY <1>7, <2>1 DEF WriteCrlf, Loop, At
<1>8. CASE WriteBody
  <2>1. call.next \in {"handler", "end"}
    BY <1>8 DEF WriteBody, RequestInv
  <2> QED BY <1>8, <2>1 DEF WriteBody, At
<1>9. CASE End
  BY <1>9 DEF End, At
<1>10. CASE WriteLast
  BY <1>10 DEF WriteLast, Reset, At
<1> QED BY <1>3, <1>4, <1>5, <1>6, <1>7, <1>8, <1>9, <1>10 DEF Respond

LEMMA RespondRequest ==
  ASSUME TypeInv, RequestInv, Respond
  PROVE  RequestInv'
<1>1. /\ call.at # "parse" /\ UNCHANGED <<sent, parser, m_url, delivered>>
      /\ call'.at = "parse" => m_headers' = <<>> /\ m_current_header' = 0
      /\ call'.at \in {"size", "chunk", "crlf", "body"} => call'.next \in {"handler", "end"}
  BY RespondFacts
<1>2. ~InMessage /\ ~InMessage'
  BY <1>1 DEF RequestInv, InMessage
<1>3. parser.phase \in {"between", "error"} /\ parser'.phase \in {"between", "error"}
  BY <1>2 DEF InMessage
<1> QED BY <1>1, <1>2, <1>3 DEF RequestInv, RequestsIntact

(* The client writes more, or nothing that a request is made of changes. *)
LEMMA ClientRequest ==
  ASSUME TypeInv, RequestInv, Ask \/ Leave \/ ParseError \/ UNCHANGED vars
  PROVE  RequestInv'
<1> USE DEF client, request
<1>1. UNCHANGED <<parser, request, call, delivered>>
  BY DEF Ask, Leave, ParseError, vars
<1>2. /\ Len(sent) \in Nat /\ Len(sent') \in Nat /\ Len(sent') >= Len(sent)
      /\ \A k \in 1..Len(sent) : sent'[k] = sent[k]
  <2>1. sent \in Seq(Shapes)
    BY DEF TypeInv, TypeOK
  <2>2. CASE Ask
    BY <2>1, <2>2 DEF Ask
  <2>3. CASE ~Ask
    BY <2>1, <2>3 DEF Leave, ParseError, vars
  <2> QED BY <2>2, <2>3
<1>3. Len(delivered') <= Len(sent') /\ RequestsIntact'
  <2>1. Len(delivered) \in Nat /\ Len(delivered) <= Len(sent)
    BY DEF TypeInv, TypeOK, RequestInv
  <2> QED BY <1>1, <1>2, <2>1 DEF RequestInv, RequestsIntact
<1>4. CASE parser.phase \in {"between", "error"}
  BY <1>1, <1>3, <1>4 DEF RequestInv, InMessage
<1>5. CASE parser.phase \notin {"between", "error"}
  <2>1. parser.message \in 1..Len(sent)
    BY <1>5 DEF TypeInv, TypeOK
  <2>2. Message' = Message /\ Shape' = Shape
    BY <1>1, <1>2, <2>1 DEF Message, Shape
  <2> QED BY <1>1, <1>3, <2>2 DEF RequestInv, InMessage
<1> QED BY <1>4, <1>5

LEMMA RequestInvariance ==
  ASSUME NoTrailers
  PROVE  Spec => []RequestInv
<1>1. Init => RequestInv
  BY LengthsAssumption DEF Init, RequestInv, RequestsIntact, InMessage, At
<1>2. TypeInv /\ RequestInv /\ [Next]_vars => RequestInv'
  BY SpanRequest, CompleteRequest, BeginRequest, RefuseRequest, HeadersRequest, BodyRequest,
     DeliverRequest, RespondRequest, ClientRequest
     DEF Next, OnRead, Callback
<1> QED BY <1>1, <1>2, TypeInvariance, PTL DEF Spec

(* What a handler is given is the request that was sent, to the last unit: *)
(* m_buffer and the current header are where each callback expects them,   *)
(* whatever came before on the connection.  With trailer fields it is not  *)
(* so (the run http_trailers).                                             *)
THEOREM RequestsAreIntact ==
  ASSUME NoTrailers
  PROVE  Spec => []RequestsIntact
<1>1. RequestInv => RequestsIntact
  BY DEF RequestInv
<1> QED BY <1>1, RequestInvariance, PTL
=============================================================================
