------------------------- MODULE HttpExchangeProofs -------------------------
(***************************************************************************)
(* Proofs about what HttpConnection writes: that a client can decode it,   *)
(* and that the connection implements HttpExchange.                        *)
(***************************************************************************)
EXTENDS HttpConnectionProofs

(* Leaves out the data that send_data takes longer than a chunk: of such   *)
(* data it writes the beginning of `data' again for every chunk.           *)
SmallPieces == \A n \in Pieces : n <= ChunkMax

-----------------------------------------------------------------------------
(* Framing.  The client has the answers before the last one; and of the    *)
(* last one what the members of the connection say was written.            *)
Settled == view.done = intended /\ view.mode = "head" /\ view.body = <<>>

Expects(mode, body) ==
  /\ intended = Append(view.done, Last(intended))
  /\ view.mode = mode /\ view.body = body
  /\ mode # "head" => view.status = Last(intended).status

ClientSees ==
  /\ call.at = "parse" => Settled
  /\ call.at \in {"handler", "refuse"} /\ ~m_response_headers_sent => Expects("head", <<>>)
  /\ call.at = "handler" /\ m_response_headers_sent => Expects("size", Last(intended).body)
  /\ call.at \in {"size", "chunk"} =>
       Expects(call.at, view.body) /\ view.body \o call.data = Last(intended).body
  /\ call.at = "chunk" => view.need = call.left
  /\ call.at = "crlf" => Expects("crlf", Last(intended).body)
  /\ call.at = "body" /\ call.data = <<>> => Settled
  /\ call.at = "body" /\ call.data # <<>> =>
       Expects("length", <<>>) /\ view.need = Len(call.data)
  /\ call.at \in {"end", "last"} =>
       IF m_response_chunked THEN Expects("size", Last(intended).body) ELSE Settled

(* What send_data and end() know of the answer that is being written. *)
ResponseInv ==
  /\ m_response_headers = NoHeaders
  /\ call.at # "parse" => open /\ m_response_status = Last(intended).status
  /\ call.at \in {"parse", "handler", "refuse", "end", "last"} => call = At(call.at)
  /\ call.at \in {"parse", "refuse"} => ~m_response_headers_sent
  /\ ~m_response_headers_sent => ~m_response_chunked
  /\ call.at = "handler" =>
       /\ m_response_headers_sent => m_response_chunked
       /\ ~m_response_headers_sent => Last(intended).body = <<>>
  /\ call.at = "refuse" => Last(intended) = Refusal
  /\ call.at \in {"size", "chunk", "crlf"} =>
       /\ m_response_headers_sent /\ m_response_chunked
       /\ call.next \in {"handler", "end"}
       /\ call.left = Len(call.data) /\ call.left \in 1..ChunkMax
  /\ call.at = "body" =>
       /\ m_response_headers_sent /\ ~m_response_chunked
       /\ call.next = "end" /\ call.data = Last(intended).body
  /\ call.at \in {"end", "last"} => m_response_headers_sent

(* An answer that may still grow is not one the client has. *)
HistoryInv ==
  /\ Len(view.done) <= Len(intended)
  /\ call.next = "handler" => Len(view.done) < Len(intended)
  /\ \A k \in 1..Len(view.done) : view.done[k] = intended[k]

FramingInv == ResponseInv /\ HistoryInv /\ (~gone => ClientSees)

-----------------------------------------------------------------------------
(* What every step of a response starts from. *)
LEMMA ResponseFacts ==
  ASSUME TypeInv, ResponseInv, call.at # "parse"
  PROVE  /\ TypeOK /\ open /\ intended # <<>> /\ Len(intended) \in Nat \ {0}
         /\ Last(intended) = intended[Len(intended)] /\ Last(intended) \in AnswerType
         /\ Last(intended).body \in Text /\ Last(intended).status \in Nat
         /\ call.data \in Text /\ Len(call.data) \in Nat /\ call.left \in Nat
         /\ m_response_headers_sent \in BOOLEAN /\ m_response_chunked \in BOOLEAN
         /\ ChunkMax \in Nat \ {0}
         /\ call = [at |-> call.at, data |-> call.data, left |-> call.left, next |-> call.next]
<1>1. TypeOK /\ intended # <<>> /\ open
  BY DEF TypeInv, ResponseInv
<1>2. /\ Len(intended) \in Nat \ {0} /\ Last(intended) = intended[Len(intended)]
      /\ Last(intended) \in AnswerType
  BY <1>1, NextUnitsProperties
<1>3. Last(intended).body \in Text /\ Last(intended).status \in Nat
  BY <1>2 DEF AnswerType
<1>4. call \in CallType /\ m_response_headers_sent \in BOOLEAN /\ m_response_chunked \in BOOLEAN
  BY <1>1 DEF TypeOK, CallType
<1>5. call.data \in Text /\ Len(call.data) \in Nat /\ call.left \in Nat
  BY <1>4 DEF CallType, Text
<1> QED BY <1>1, <1>2, <1>3, <1>4, <1>5, LengthsAssumption DEF CallType

LEMMA HistoryFacts ==
  ASSUME TypeInv
  PROVE  /\ intended \in Seq(AnswerType) /\ view.done \in Seq(AnswerType)
         /\ Len(intended) \in Nat /\ Len(view.done) \in Nat
         /\ call.at \in {"parse", "handler", "refuse", "size", "chunk", "crlf", "body", "end",
                         "last"}
<1>1. intended \in Seq(AnswerType) /\ view \in ViewType
  BY DEF TypeInv, TypeOK
<1>2. view.done \in Seq(AnswerType)
  BY <1>1 DEF ViewType
<1>3. call.at \in {"parse", "handler", "refuse", "size", "chunk", "crlf", "body", "end", "last"}
  BY DEF TypeInv, TypeOK
<1> QED BY <1>1, <1>2, <1>3

LEMMA AtFields ==
  ASSUME NEW step
  PROVE  At(step).at = step /\ At(step).next = step /\ At(step).data = <<>> /\ At(step).left = 0
BY DEF At

LEMMA SendHeadersFacts ==
  ASSUME TypeInv, ResponseInv, NEW headers \in HeadersType, SendHeaders(headers)
  PROVE  /\ m_response_headers' = NoHeaders /\ m_response_headers_sent'
         /\ m_response_status' = m_response_status
         /\ m_response_headers_sent => m_response_chunked' = m_response_chunked
         /\ ~m_response_headers_sent => m_response_chunked' = headers.chunked
<1>1. m_response_chunked \in BOOLEAN /\ headers.chunked \in BOOLEAN
  BY DEF TypeInv, TypeOK, HeadersType
<1>2. CASE m_response_headers_sent
  BY <1>2 DEF SendHeaders, response, ResponseInv
<1>3. CASE ~m_response_headers_sent
  BY <1>1, <1>3 DEF SendHeaders, ResponseInv
<1> QED BY <1>2, <1>3

(* The headers that send_data and end() send. *)
LEMMA HeadersFacts ==
  ASSUME ResponseInv, NEW n \in Nat
  PROVE  /\ m_response_headers.contentLength = None
         /\ [m_response_headers EXCEPT !.chunked = TRUE]
              = [contentLength |-> None, chunked |-> TRUE]
         /\ [m_response_headers EXCEPT !.contentLength = n]
              = [contentLength |-> n, chunked |-> FALSE]
         /\ [contentLength |-> None, chunked |-> TRUE] \in HeadersType
         /\ [contentLength |-> n, chunked |-> FALSE] \in HeadersType
<1>1. m_response_headers = [contentLength |-> None, chunked |-> FALSE]
  BY DEF ResponseInv, NoHeaders
<1>2. m_response_headers \in HeadersType
  BY <1>1 DEF HeadersType, None
<1>4. [m_response_headers EXCEPT !.chunked = TRUE]
        = [contentLength |-> m_response_headers.contentLength, chunked |-> TRUE]
  <2> DEFINE b == TRUE
  <2>1. b \in BOOLEAN
    OBVIOUS
  <2> HIDE DEF b
  <2>2. [m_response_headers EXCEPT !.chunked = b]
          = [contentLength |-> m_response_headers.contentLength, chunked |-> b]
    BY <1>2, <2>1 DEF HeadersType
  <2> QED BY <2>2 DEF b
<1>5. [m_response_headers EXCEPT !.contentLength = n]
        = [contentLength |-> n, chunked |-> m_response_headers.chunked]
  BY <1>2 DEF HeadersType
<1>6. m_response_headers.contentLength = None /\ m_response_headers.chunked = FALSE
  BY <1>1
<1>3. /\ [contentLength |-> None, chunked |-> TRUE] \in HeadersType
      /\ [contentLength |-> n, chunked |-> FALSE] \in HeadersType
  BY DEF HeadersType, None
<1> QED BY <1>3, <1>4, <1>5, <1>6

(* A handler sends more: the answer grows by what is given to send_data.   *)
LEMMA GrowFacts ==
  ASSUME TypeInv, ResponseInv, call.at = "handler", NEW n \in Nat, Grow(NextUnits(n))
  PROVE  /\ NextUnits(n) \in Text /\ Len(NextUnits(n)) = n
         /\ n = 0 => NextUnits(n) = <<>>
         /\ intended' \in Seq(AnswerType) /\ Len(intended') = Len(intended)
         /\ Last(intended').status = Last(intended).status
         /\ Last(intended').body = Last(intended).body \o NextUnits(n)
         /\ \A i \in 1..(Len(intended) - 1) : intended'[i] = intended[i]
<1>1. TypeOK /\ intended # <<>> /\ Last(intended) \in AnswerType
  BY ResponseFacts
<1>2. NextUnits(n) \in Text /\ Len(NextUnits(n)) = n
  BY <1>1, NextUnitsProperties
<1>3. n = 0 => NextUnits(n) = <<>>
  BY <1>2, EmptySeq DEF Text
<1>4. /\ intended' \in Seq(AnswerType) /\ Len(intended') = Len(intended)
      /\ \A i \in 1..(Len(intended) - 1) : intended'[i] = intended[i]
      /\ Last(intended') = [Last(intended) EXCEPT !.body = Last(intended).body \o NextUnits(n)]
  BY <1>1, <1>2, GrowType
<1> QED BY <1>1, <1>2, <1>3, <1>4 DEF AnswerType

LEMMA SendsResponse ==
  ASSUME TypeInv, SmallPieces, ResponseInv, HandlerSends \/ HandlerEndsWith
  PROVE  ResponseInv'
<1> USE DEF client, request
<1>1. /\ call.at = "handler" /\ open /\ m_response_status = Last(intended).status
      /\ m_response_headers_sent => m_response_chunked
      /\ ~m_response_headers_sent => Last(intended).body = <<>>
  BY DEF HandlerSends, HandlerEndsWith, ResponseInv
<1>2. CASE HandlerSends
  <2>1. PICK n \in Pieces : SendData(NextUnits(n)) /\ Grow(NextUnits(n))
    BY <1>2 DEF HandlerSends
  <2>2. n \in Nat /\ n <= ChunkMax
    BY LengthsAssumption DEF SmallPieces
  <2>3. /\ NextUnits(n) \in Text /\ Len(NextUnits(n)) = n
        /\ Last(intended').status = Last(intended).status
    BY <1>1, <2>1, <2>2, GrowFacts
  <2>4. SendDataWith([contentLength |-> None, chunked |-> TRUE], NextUnits(n), "handler")
    BY <2>1, <2>2, HeadersFacts DEF SendData
  <2>5. /\ m_response_headers' = NoHeaders /\ m_response_headers_sent'
        /\ m_response_status' = m_response_status /\ m_response_chunked'
    BY <1>1, <2>2, <2>4, HeadersFacts, SendHeadersFacts DEF SendDataWith
  <2>6. call' = Loop(NextUnits(n), n, "handler") /\ open' = open
    BY <2>3, <2>4, <2>5 DEF SendDataWith
  <2>7. CASE n = 0
    <3>1. call' = At("handler")
      BY <2>6, <2>7 DEF Loop
    <3> QED BY <1>1, <2>3, <2>5, <2>6, <3>1, AtFields DEF ResponseInv
  <2>8. CASE n # 0
    <3>1. call' = [at |-> "size", data |-> NextUnits(n), left |-> n, next |-> "handler"]
      BY <2>6, <2>8 DEF Loop
    <3> QED BY <1>1, <2>2, <2>3, <2>5, <2>6, <2>8, <3>1 DEF ResponseInv
  <2> QED BY <2>7, <2>8
<1>3. CASE HandlerEndsWith
  <2>1. PICK n \in IF m_response_headers_sent THEN Pieces ELSE Bodies :
          EndWith(NextUnits(n)) /\ Grow(NextUnits(n))
    BY <1>3 DEF HandlerEndsWith
  <2>2. n \in Nat /\ (m_response_headers_sent => n <= ChunkMax)
    BY <2>1, LengthsAssumption DEF SmallPieces
  <2>3. /\ NextUnits(n) \in Text /\ Len(NextUnits(n)) = n
        /\ Last(intended').status = Last(intended).status
        /\ Last(intended').body = Last(intended).body \o NextUnits(n)
    BY <1>1, <2>1, <2>2, GrowFacts
  <2>4. SendDataWith([contentLength |-> n, chunked |-> FALSE], NextUnits(n), "end")
    BY <2>1, <2>2, <2>3, HeadersFacts DEF EndWith
  <2>5. /\ m_response_headers' = NoHeaders /\ m_response_headers_sent'
        /\ m_response_status' = m_response_status
        /\ m_response_headers_sent => m_response_chunked'
        /\ ~m_response_headers_sent => ~m_response_chunked'
    BY <1>1, <2>2, <2>4, HeadersFacts, SendHeadersFacts DEF SendDataWith
  <2>6. /\ call' = IF m_response_chunked' THEN Loop(NextUnits(n), n, "end")
                   ELSE [at |-> "body", data |-> NextUnits(n), left |-> n, next |-> "end"]
        /\ open' = open
    BY <2>3, <2>4 DEF SendDataWith
  <2>7. CASE ~m_response_headers_sent
    <3>1. call' = [at |-> "body", data |-> NextUnits(n), left |-> n, next |-> "end"]
      BY <2>5, <2>6, <2>7
    <3>2. Last(intended').body = NextUnits(n)
      BY <1>1, <2>3, <2>7, ConcatEmptySeq DEF Text
    <3> QED BY <1>1, <2>3, <2>5, <2>6, <2>7, <3>1, <3>2 DEF ResponseInv
  <2>8. CASE m_response_headers_sent /\ n = 0
    <3>1. call' = At("end")
      BY <2>5, <2>6, <2>8 DEF Loop
    <3> QED BY <1>1, <2>3, <2>5, <2>6, <2>8, <3>1, AtFields DEF ResponseInv
  <2>9. CASE m_response_headers_sent /\ n # 0
    <3>1. call' = [at |-> "size", data |-> NextUnits(n), left |-> n, next |-> "end"]
      BY <2>5, <2>6, <2>9 DEF Loop
    <3> QED BY <1>1, <2>2, <2>3, <2>5, <2>6, <2>9, <3>1 DEF ResponseInv
  <2> QED BY <2>7, <2>8, <2>9
<1> QED BY <1>2, <1>3

LEMMA RefusalResponse ==
  ASSUME TypeInv, ResponseInv, EndsWithRefusal
  PROVE  ResponseInv'
<1> USE DEF client, request
<1>1. /\ call.at = "refuse" /\ open /\ m_response_status = Last(intended).status
      /\ ~m_response_headers_sent /\ Last(intended).body = RefusalText
      /\ EndWith(RefusalText) /\ intended' = intended
  BY DEF EndsWithRefusal, ResponseInv, Refusal
<1>2. Len(RefusalText) \in Nat
  BY TextsProperties, LengthsAssumption
<1>3. SendDataWith([contentLength |-> Len(RefusalText), chunked |-> FALSE], RefusalText, "end")
  BY <1>1, <1>2, HeadersFacts DEF EndWith
<1>4. /\ m_response_headers' = NoHeaders /\ m_response_headers_sent'
      /\ m_response_status' = m_response_status /\ ~m_response_chunked'
  BY <1>1, <1>2, <1>3, HeadersFacts, SendHeadersFacts DEF SendDataWith
<1>5. /\ call' = [at |-> "body", data |-> RefusalText, left |-> Len(RefusalText), next |-> "end"]
      /\ open' = open
  BY <1>3, <1>4 DEF SendDataWith
<1> QED BY <1>1, <1>4, <1>5 DEF ResponseInv

LEMMA WritesResponse ==
  ASSUME TypeInv, ResponseInv,
         WriteSize \/ WriteChunk \/ WriteCrlf \/ WriteBody \/ End \/ WriteLast
  PROVE  ResponseInv'
<1> USE DEF client, request, response
<1>1. /\ call.at # "parse" /\ open /\ m_response_status = Last(intended).status
      /\ call = [at |-> call.at, data |-> call.data, left |-> call.left, next |-> call.next]
      /\ call.left \in Nat /\ ChunkMax \in Nat
      /\ m_response_headers = NoHeaders
      /\ UNCHANGED <<open, intended>>
  <2>1. call.at # "parse" /\ UNCHANGED <<open, intended>>
    BY DEF WriteSize, WriteChunk, WriteCrlf, WriteBody, End, WriteLast
  <2> QED BY <2>1, ResponseFacts DEF ResponseInv
<1>2. CASE WriteSize \/ WriteChunk
  BY <1>1, <1>2 DEF WriteSize, WriteChunk, ResponseInv
<1>3. CASE WriteCrlf
  <2>1. /\ call.at = "crlf" /\ call' = Loop(call.data, call.left - Small, call.next)
        /\ UNCHANGED response
    BY <1>3 DEF WriteCrlf
  <2>2. /\ m_response_headers_sent /\ m_response_chunked /\ call.next \in {"handler", "end"}
        /\ call.left \in 1..ChunkMax
    BY <2>1 DEF ResponseInv
  <2>3. call.left - Small = 0
    BY <1>1, <2>2 DEF Small
  <2>4. call' = At(call.next)
    BY <2>1, <2>3 DEF Loop
  <2> QED BY <1>1, <2>1, <2>2, <2>4, AtFields DEF ResponseInv
<1>4. CASE WriteBody
  <2>1. call.at = "body" /\ call' = At(call.next) /\ UNCHANGED response
    BY <1>4 DEF WriteBody
  <2>2. m_response_headers_sent /\ call.next = "end"
    BY <2>1 DEF ResponseInv
  <2> QED BY <1>1, <2>1, <2>2, AtFields DEF ResponseInv
<1>5. CASE End
  <2>1. SendHeaders([contentLength |-> 0, chunked |-> FALSE]) /\ call' = At("last")
    BY <1>5, HeadersFacts DEF End
  <2>2. /\ m_response_headers' = NoHeaders /\ m_response_headers_sent'
        /\ m_response_status' = m_response_status
    BY <2>1, HeadersFacts, SendHeadersFacts
  <2> QED BY <1>1, <2>1, <2>2, AtFields DEF ResponseInv
<1>6. CASE WriteLast
  BY <1>1, <1>6, AtFields DEF WriteLast, Reset, ResponseInv
<1> QED BY <1>2, <1>3, <1>4, <1>5, <1>6

(* An answer is begun: by a handler, or because the method is not POST. *)
LEMMA BeginsResponse ==
  ASSUME TypeInv, ResponseInv, Refuse \/ OnMessageComplete
  PROVE  /\ ResponseInv' /\ call.at = "parse" /\ open
         /\ UNCHANGED <<sent, gone, view, m_response_headers_sent, m_response_chunked>>
         /\ call'.at \in {"handler", "refuse"} /\ call'.next = call'.at
         /\ \E a \in AnswerType : intended' = Append(intended, a) /\ Last(intended') = a
<1> USE DEF client
<1>1. call = At("parse") /\ open
  BY DEF Refuse, OnMessageComplete, ResponseStatus, Parses
<1>2. call.at = "parse" /\ ~m_response_headers_sent /\ ~m_response_chunked
  BY <1>1, AtFields DEF ResponseInv
<1>3. \A a \in AnswerType :
        intended' = Append(intended, a) => Last(intended') = a
  <2> SUFFICES ASSUME NEW a \in AnswerType, intended' = Append(intended, a)
               PROVE  Last(intended') = a
    OBVIOUS
  <2>1. intended \in Seq(AnswerType)
    BY DEF TypeInv, TypeOK
  <2> QED BY <2>1, AppendProperties DEF Last
<1>4. CASE Refuse
  <2>1. Refusal \in AnswerType /\ Refusal.status = 405
    BY TextsProperties DEF Refusal, AnswerType
  <2>2. /\ m_response_status' = 405 /\ call' = At("refuse") /\ intended' = Append(intended, Refusal)
        /\ UNCHANGED <<sent, gone, view, open, m_response_headers, m_response_headers_sent,
                       m_response_chunked>>
    BY <1>4 DEF Refuse, ResponseStatus
  <2>3. Last(intended') = Refusal
    BY <1>3, <2>1, <2>2
  <2> QED BY <1>1, <1>2, <2>1, <2>2, <2>3, AtFields DEF ResponseInv
<1>5. CASE OnMessageComplete
  <2>1. PICK status \in Statuses :
          m_response_status' = status /\ intended' = Append(intended, [status |-> status, body |-> <<>>])
    BY <1>5 DEF OnMessageComplete, ResponseStatus
  <2> DEFINE a == [status |-> status, body |-> <<>>]
  <2>2. /\ call' = At("handler")
        /\ UNCHANGED <<sent, gone, view, open, m_response_headers, m_response_headers_sent,
                       m_response_chunked>>
    BY <1>5 DEF OnMessageComplete, ResponseStatus
  <2>3. a \in AnswerType /\ a.status = status /\ a.body = <<>>
    BY LengthsAssumption DEF AnswerType, Text
  <2>4. intended' = Append(intended, a) /\ m_response_status' = status
    BY <2>1
  <2> HIDE DEF a
  <2>5. Last(intended') = a
    BY <1>3, <2>3, <2>4
  <2> QED BY <1>1, <1>2, <2>2, <2>3, <2>4, <2>5, AtFields DEF ResponseInv
<1> QED BY <1>4, <1>5

(* The other steps leave the response alone, and are not inside of one. *)
LEMMA OtherFacts ==
  ASSUME [Next]_vars, ~Respond, ~Refuse, ~OnMessageComplete
  PROVE  /\ UNCHANGED <<view, response, call, intended>>
         /\ call.at # "parse" => open' = open
         /\ gone' = gone \/ gone'
<1> USE DEF client, response
<1>1. CASE UNCHANGED vars
  BY <1>1 DEF vars
<1>2. CASE Ask \/ Leave \/ ParseError
  BY <1>2, AtFields DEF Ask, Leave, ParseError
<1>3. CASE Callback
  BY <1>3 DEF Callback, OnMessageBegin, OnUrl, OnUrlComplete, OnHeaderField,
              OnHeaderFieldComplete, OnHeaderValue, OnHeaderValueComplete, OnHeadersComplete,
              OnBody, OnSpan
<1> QED BY <1>1, <1>2, <1>3 DEF Next, OnRead

LEMMA ResponseStep ==
  ASSUME TypeInv, SmallPieces, ResponseInv, [Next]_vars
  PROVE  ResponseInv'
<1>1. CASE Respond
  BY <1>1, SendsResponse, RefusalResponse, WritesResponse DEF Respond
<1>2. CASE Refuse \/ OnMessageComplete
  BY <1>2, BeginsResponse
<1>3. CASE ~Respond /\ ~Refuse /\ ~OnMessageComplete
  BY <1>3, OtherFacts DEF ResponseInv, response
<1> QED BY <1>1, <1>2, <1>3

-----------------------------------------------------------------------------
(* What a client makes of each thing that is written. *)
LEMMA FinishFields ==
  ASSUME NEW v \in ViewType
  PROVE  /\ Finish(v).done = Append(v.done, [status |-> v.status, body |-> v.body])
         /\ Finish(v).mode = "head" /\ Finish(v).body = <<>> /\ Finish(v).status = v.status
BY DEF Finish, ViewType

LEMMA ReceiveHead ==
  ASSUME NEW v \in ViewType, v.mode = "head", NEW i, i.item = "head",
         i.status \in Nat, i.chunked \/ i.length \in Nat, NEW w, w = Receive(v, i)
  PROVE  /\ i.chunked =>
              /\ w.done = v.done /\ w.mode = "size"
              /\ w.status = i.status /\ w.body = v.body
         /\ ~i.chunked /\ i.length = 0 =>
              /\ w.done = Append(v.done, [status |-> i.status, body |-> v.body])
              /\ w.mode = "head" /\ w.body = <<>>
         /\ ~i.chunked /\ i.length # 0 =>
              /\ w.done = v.done /\ w.mode = "length" /\ w.need = i.length
              /\ w.status = i.status /\ w.body = v.body
<1> DEFINE u == [v EXCEPT !.status = i.status]
<1>1. u \in ViewType /\ u.done = v.done /\ u.body = v.body /\ u.status = i.status
  BY DEF ViewType
<1>2. w = IF i.chunked THEN [u EXCEPT !.mode = "size"]
          ELSE IF i.length = None THEN [u EXCEPT !.mode = "until close"]
          ELSE IF i.length = 0 THEN Finish(u)
          ELSE [u EXCEPT !.mode = "length", !.need = i.length]
  BY DEF Receive
<1> HIDE DEF u
<1>3. CASE i.chunked
  BY <1>1, <1>2, <1>3 DEF ViewType
<1>4. CASE ~i.chunked /\ i.length = 0
  <2>1. w = Finish(u)
    BY <1>2, <1>4 DEF None
  <2> QED BY <1>1, <1>4, <2>1, FinishFields
<1>5. CASE ~i.chunked /\ i.length # 0
  <2>1. i.length # None /\ i.length # 0 /\ i.length \in Nat
    BY <1>5 DEF None
  <2>2. w = [u EXCEPT !.mode = "length", !.need = i.length]
    BY <1>2, <1>5, <2>1
  <2> QED BY <1>1, <1>5, <2>1, <2>2 DEF ViewType
<1> QED BY <1>3, <1>4, <1>5

LEMMA ReceiveBody ==
  ASSUME NEW v \in ViewType, v.mode = "length", NEW i, i.item = "data", i.units \in Text,
         Len(i.units) = v.need, NEW w, w = Receive(v, i)
  PROVE  /\ w.done = Append(v.done, [status |-> v.status, body |-> v.body \o i.units])
         /\ w.mode = "head" /\ w.body = <<>>
<1> DEFINE u == [v EXCEPT !.body = @ \o i.units]
<1>1. v.body \o i.units \in Text
  <2>1. v.body \in Seq(UnitType) /\ i.units \in Seq(UnitType)
    BY DEF Text, ViewType
  <2> QED BY <2>1, ConcatProperties DEF Text
<1>2. u \in ViewType /\ u.done = v.done /\ u.status = v.status /\ u.body = v.body \o i.units
  BY <1>1 DEF ViewType
<1>3. w = Finish(u)
  BY DEF Receive
<1> HIDE DEF u
<1> QED BY <1>2, <1>3, FinishFields

LEMMA ReceiveSize ==
  ASSUME NEW v \in ViewType, v.mode = "size", NEW i, i.item = "size", i.length \in Nat,
         NEW w, w = Receive(v, i)
  PROVE  /\ w.done = v.done /\ w.mode = "chunk" /\ w.need = i.length
         /\ w.status = v.status /\ w.body = v.body
BY DEF Receive, ViewType

LEMMA ReceiveChunk ==
  ASSUME NEW v \in ViewType, v.mode = "chunk", NEW i, i.item = "data",
         Len(i.units) = v.need, NEW w, w = Receive(v, i)
  PROVE  /\ w.done = v.done /\ w.mode = "crlf"
         /\ w.status = v.status /\ w.body = v.body \o i.units
BY DEF Receive, ViewType

LEMMA ReceiveCrlf ==
  ASSUME NEW v \in ViewType, v.mode = "crlf", NEW i, i.item = "crlf", NEW w, w = Receive(v, i)
  PROVE  /\ w.done = v.done /\ w.mode = "size" /\ w.status = v.status /\ w.body = v.body
BY DEF Receive, ViewType

LEMMA ReceiveLast ==
  ASSUME NEW v \in ViewType, v.mode = "size", NEW i, i.item = "last", NEW w, w = Receive(v, i)
  PROVE  /\ w.done = Append(v.done, [status |-> v.status, body |-> v.body])
         /\ w.mode = "head" /\ w.body = <<>>
<1>1. w = Finish(v)
  BY DEF Receive
<1> QED BY <1>1, FinishFields

LEMMA WriteSeen ==
  ASSUME TypeInv, ~gone, open, NEW item, Write(item)
  PROVE  view \in ViewType /\ view' = Receive(view, item)
BY DEF Write, TypeInv, TypeOK

(* The answer is complete as soon as its status and its body are there. *)
LEMMA Completed ==
  ASSUME Last(intended) \in AnswerType, NEW done, intended = Append(done, Last(intended)),
         NEW status, NEW body, status = Last(intended).status, body = Last(intended).body
  PROVE  Append(done, [status |-> status, body |-> body]) = intended
<1>1. Last(intended) = [status |-> status, body |-> body]
  BY DEF AnswerType
<1> QED BY <1>1

(* The answer that grows is the one after those the client has. *)
LEMMA GrownAfter ==
  ASSUME TypeInv, ResponseInv, call.at = "handler", NEW n \in Nat, Grow(NextUnits(n)),
         intended = Append(view.done, Last(intended))
  PROVE  intended' = Append(view.done, Last(intended'))
<1>1. /\ intended' \in Seq(AnswerType) /\ Len(intended') = Len(intended)
      /\ \A i \in 1..(Len(intended) - 1) : intended'[i] = intended[i]
  BY GrowFacts
<1>2. /\ Last(intended) \in AnswerType /\ view.done \in Seq(AnswerType)
      /\ Len(intended) \in Nat \ {0}
  BY ResponseFacts DEF TypeOK, ViewType
<1>3. /\ Len(intended) = Len(view.done) + 1
      /\ \A i \in 1..Len(view.done) : intended[i] = view.done[i]
  <2> DEFINE a == Last(intended)
  <2>1. /\ Len(Append(view.done, a)) = Len(view.done) + 1
        /\ \A i \in 1..Len(view.done) : Append(view.done, a)[i] = view.done[i]
    <3> HIDE DEF a
    <3> QED BY <1>2, AppendProperties DEF a
  <2> QED BY <2>1
<1>4. Last(intended') = intended'[Len(intended')] /\ Last(intended') \in AnswerType
  BY <1>1, <1>2, <1>3 DEF Last
<1> DEFINE b == Last(intended')
<1>5. /\ Append(view.done, b) \in Seq(AnswerType)
      /\ Len(Append(view.done, b)) = Len(view.done) + 1
      /\ Append(view.done, b)[Len(view.done) + 1] = b
      /\ \A i \in 1..Len(view.done) : Append(view.done, b)[i] = view.done[i]
  <2>1. b \in AnswerType /\ view.done \in Seq(AnswerType)
    BY <1>2, <1>4
  <2> HIDE DEF b
  <2> QED BY <2>1, AppendProperties
<1>6. Len(view.done) \in Nat
  BY <1>2
<1>7. \A i \in 1..Len(intended') : intended'[i] = Append(view.done, b)[i]
  <2> TAKE i \in 1..Len(intended')
  <2>1. i = Len(view.done) + 1 \/ i \in 1..Len(view.done)
    BY <1>1, <1>3, <1>6
  <2>2. CASE i = Len(view.done) + 1
    BY <1>1, <1>3, <1>4, <1>5, <2>2
  <2>3. CASE i \in 1..Len(view.done)
    BY <1>1, <1>3, <1>5, <1>6, <2>3
  <2> QED BY <2>1, <2>2, <2>3
<1> HIDE DEF b
<1>8. intended' = Append(view.done, b)
  BY <1>1, <1>3, <1>5, <1>7, SeqEqual
<1> QED BY <1>8 DEF b

-----------------------------------------------------------------------------
(* The client, step by step. *)
LEMMA HandlerSendsSeen ==
  ASSUME TypeInv, SmallPieces, ResponseInv, ResponseInv', ~gone, ClientSees,
         HandlerSends \/ HandlerEndsWith
  PROVE  ClientSees'
<1> USE DEF client
<1>1. PICK n \in Nat, next \in {"handler", "end"}, headers \in HeadersType :
        /\ SendDataWith(headers, NextUnits(n), next) /\ Grow(NextUnits(n))
        /\ next = "handler" => headers.chunked
        /\ next = "end" => headers.contentLength = n /\ ~headers.chunked
  <2>1. CASE HandlerSends
    <3>1. PICK n \in Pieces : SendData(NextUnits(n)) /\ Grow(NextUnits(n))
      BY <2>1 DEF HandlerSends
    <3>2. n \in Nat
      BY LengthsAssumption
    <3>3. SendDataWith([contentLength |-> None, chunked |-> TRUE], NextUnits(n), "handler")
      BY <3>1, <3>2, HeadersFacts DEF SendData
    <3> QED BY <3>1, <3>2, <3>3, HeadersFacts
  <2>2. CASE HandlerEndsWith
    <3>1. PICK n \in Pieces \cup Bodies : EndWith(NextUnits(n)) /\ Grow(NextUnits(n))
      BY <2>2 DEF HandlerEndsWith
    <3>2. n \in Nat
      BY LengthsAssumption
    <3>3. Len(NextUnits(n)) = n
      BY <2>2, <3>1, <3>2, GrowFacts DEF HandlerEndsWith
    <3>4. SendDataWith([contentLength |-> n, chunked |-> FALSE], NextUnits(n), "end")
      BY <3>1, <3>2, <3>3, HeadersFacts DEF EndWith
    <3> QED BY <3>1, <3>2, <3>4, HeadersFacts
  <2> QED BY <2>1, <2>2
<1>2. /\ call.at = "handler" /\ open /\ m_response_status = Last(intended).status
      /\ m_response_headers_sent => m_response_chunked
      /\ ~m_response_headers_sent => Last(intended).body = <<>>
      /\ Last(intended).body \in Text
  <2>1. call.at = "handler"
    BY DEF HandlerSends, HandlerEndsWith
  <2> QED BY <2>1, ResponseFacts DEF ResponseInv
<1> DEFINE data == NextUnits(n)
           old == Last(intended).body
<1>3. /\ data \in Text /\ Len(data) = n /\ (n = 0 => data = <<>>)
      /\ Last(intended').status = Last(intended).status
      /\ Last(intended').body = old \o data
      /\ Last(intended') \in AnswerType
  <2>1. Last(intended').status = Last(intended).status /\ Last(intended').body = old \o data
        /\ intended' \in Seq(AnswerType) /\ Len(intended') = Len(intended)
        /\ data \in Text /\ Len(data) = n /\ (n = 0 => data = <<>>)
    BY <1>1, <1>2, GrowFacts
  <2>2. Len(intended) \in Nat \ {0}
    BY <1>2, ResponseFacts
  <2> QED BY <2>1, <2>2 DEF Last
<1>4. /\ old \o data \in Text /\ <<>> \o data = data /\ (n = 0 => old \o data = old)
  BY <1>2, <1>3, ConcatProperties, ConcatEmptySeq DEF Text
<1>5. /\ m_response_headers_sent' /\ SendHeaders(headers)
      /\ m_response_headers_sent => m_response_chunked'
      /\ ~m_response_headers_sent => m_response_chunked' = headers.chunked
      /\ call' = IF m_response_chunked' THEN Loop(data, n, next)
                 ELSE [at |-> "body", data |-> data, left |-> n, next |-> next]
      /\ gone' = gone
  BY <1>1, <1>2, <1>3, SendHeadersFacts DEF SendDataWith
<1>6. intended = Append(view.done, Last(intended)) /\ view \in ViewType
  BY <1>2 DEF ClientSees, Expects, TypeInv, TypeOK
<1>7. intended' = Append(view.done, Last(intended'))
  BY <1>1, <1>2, <1>6, GrownAfter
<1>8. headers.chunked \in BOOLEAN /\ headers.contentLength \in Nat \cup {None}
  BY DEF HeadersType
<1> HIDE DEF data, old
<1>9. CASE m_response_chunked'
  <2>1. /\ view'.done = view.done /\ view'.mode = "size"
        /\ view'.status = Last(intended').status /\ view'.body = old
    <3>1. CASE m_response_headers_sent
      <4>1. view' = view
        BY <1>5, <3>1 DEF SendHeaders
      <4> QED BY <1>2, <1>3, <3>1, <4>1 DEF ClientSees, Expects, old
    <3>2. CASE ~m_response_headers_sent
      <4>1. Write([item |-> "head", status |-> m_response_status,
                   length |-> headers.contentLength, chunked |-> headers.chunked])
        BY <1>5, <3>2 DEF SendHeaders
      <4>2. view' = Receive(view, [item |-> "head", status |-> m_response_status,
                                   length |-> headers.contentLength, chunked |-> headers.chunked])
        BY <1>2, <4>1, WriteSeen
      <4>3. view.mode = "head" /\ view.body = <<>> /\ headers.chunked
            /\ m_response_status \in Nat
        BY <1>2, <1>5, <1>9, <3>2 DEF ClientSees, Expects, TypeInv, TypeOK
      <4>4. view'.done = view.done /\ view'.mode = "size"
            /\ view'.status = m_response_status /\ view'.body = <<>>
        <5> DEFINE item == [item |-> "head", status |-> m_response_status,
                            length |-> headers.contentLength, chunked |-> headers.chunked]
        <5>1. /\ item.item = "head" /\ item.chunked /\ item.status = m_response_status
              /\ view' = Receive(view, item)
          BY <4>2, <4>3
        <5> HIDE DEF item
        <5>2. /\ view'.done = view.done /\ view'.mode = "size"
              /\ view'.status = m_response_status /\ view'.body = view.body
          BY <1>6, <4>3, <5>1, ReceiveHead
        <5> QED BY <4>3, <5>2
      <4> QED BY <1>2, <1>3, <3>2, <4>4 DEF old
    <3> QED BY <3>1, <3>2
  <2>2. CASE n = 0
    <3>1. call' = At(next)
      BY <1>5, <1>9, <2>2 DEF Loop
    <3>2. Expects("size", Last(intended).body)'
      BY <1>3, <1>4, <1>7, <2>1, <2>2 DEF Expects
    <3>3. call'.at \in {"handler", "end"}
      BY <3>1, AtFields
    <3> QED BY <1>5, <1>9, <3>2, <3>3 DEF ClientSees
  <2>3. CASE n # 0
    <3>1. call' = [at |-> "size", data |-> data, left |-> n, next |-> next]
      BY <1>5, <1>9, <2>3 DEF Loop
    <3>2. Expects("size", view.body)' /\ view'.body \o data = Last(intended').body
      BY <1>3, <1>7, <2>1 DEF Expects
    <3>3. call'.at = "size" /\ call'.data = data
      BY <3>1
    <3> QED BY <3>2, <3>3 DEF ClientSees, Expects
  <2> QED BY <2>2, <2>3
<1>10. CASE ~m_response_chunked'
  <2>1. /\ ~m_response_headers_sent /\ ~headers.chunked /\ next = "end"
        /\ headers.contentLength = n
        /\ call' = [at |-> "body", data |-> data, left |-> n, next |-> next]
    BY <1>1, <1>5, <1>10
  <2>2. Write([item |-> "head", status |-> m_response_status,
               length |-> headers.contentLength, chunked |-> headers.chunked])
    BY <1>5, <2>1 DEF SendHeaders
  <2>3. view' = Receive(view, [item |-> "head", status |-> m_response_status,
                               length |-> headers.contentLength, chunked |-> headers.chunked])
    BY <1>2, <2>2, WriteSeen
  <2>4. view.mode = "head" /\ view.body = <<>> /\ m_response_status \in Nat
    BY <1>2, <2>1 DEF ClientSees, Expects, TypeInv, TypeOK
  <2>5. /\ n = 0 => /\ view'.done = Append(view.done, [status |-> m_response_status, body |-> <<>>])
                    /\ view'.mode = "head" /\ view'.body = <<>>
        /\ n # 0 => /\ view'.done = view.done /\ view'.mode = "length" /\ view'.need = n
                    /\ view'.status = m_response_status /\ view'.body = <<>>
    <3> DEFINE item == [item |-> "head", status |-> m_response_status,
                        length |-> headers.contentLength, chunked |-> headers.chunked]
    <3>1. /\ item.item = "head" /\ ~item.chunked /\ item.length = n
          /\ item.status = m_response_status /\ view' = Receive(view, item)
      BY <2>1, <2>3
    <3> HIDE DEF item
    <3> QED BY <1>6, <2>4, <3>1, ReceiveHead
  <2>6. Last(intended').body = data /\ Last(intended').status = m_response_status
    BY <1>2, <1>3, <1>4, <2>1 DEF old
  <2>7. CASE n = 0
    <3>1. data = <<>> /\ Last(intended').body = <<>>
      BY <1>3, <2>6, <2>7
    <3>2. [status |-> m_response_status, body |-> <<>>] = Last(intended')
      BY <1>3, <2>6, <3>1 DEF AnswerType
    <3>3. Settled'
      BY <1>7, <2>5, <2>7, <3>2 DEF Settled
    <3> QED BY <2>1, <3>1, <3>3 DEF ClientSees
  <2>8. CASE n # 0
    <3>1. data # <<>>
      BY <1>3, <2>8
    <3>2. Expects("length", <<>>)' /\ view'.need = n
      BY <1>7, <2>5, <2>6, <2>8 DEF Expects
    <3> QED BY <1>3, <2>1, <3>1, <3>2 DEF ClientSees
  <2> QED BY <2>7, <2>8
<1> QED BY <1>9, <1>10

LEMMA RefusalSeen ==
  ASSUME TypeInv, ResponseInv, ~gone, ClientSees, EndsWithRefusal
  PROVE  ClientSees'
<1> USE DEF client
<1> DEFINE n == Len(RefusalText)
<1>1. /\ call.at = "refuse" /\ open /\ m_response_status = Last(intended).status
      /\ ~m_response_headers_sent /\ Last(intended).body = RefusalText
      /\ Last(intended) \in AnswerType
      /\ EndWith(RefusalText) /\ intended' = intended
  <2>1. call.at = "refuse" /\ EndWith(RefusalText) /\ intended' = intended
    BY DEF EndsWithRefusal
  <2> QED BY <2>1, ResponseFacts DEF ResponseInv, Refusal
<1>2. n \in Nat \ {0} /\ RefusalText # <<>>
  BY TextsProperties, LengthsAssumption
<1>3. SendDataWith([contentLength |-> n, chunked |-> FALSE], RefusalText, "end")
  BY <1>1, <1>2, HeadersFacts DEF EndWith
<1>4. /\ ~m_response_chunked'
      /\ Write([item |-> "head", status |-> m_response_status, length |-> n, chunked |-> FALSE])
  <2>1. SendHeaders([contentLength |-> n, chunked |-> FALSE])
    BY <1>3 DEF SendDataWith
  <2> QED BY <1>1, <1>2, <2>1, HeadersFacts, SendHeadersFacts DEF SendHeaders
<1>5. call' = [at |-> "body", data |-> RefusalText, left |-> n, next |-> "end"]
  BY <1>3, <1>4 DEF SendDataWith
<1>6. view.mode = "head" /\ view.body = <<>> /\ m_response_status \in Nat
      /\ intended = Append(view.done, Last(intended))
  BY <1>1 DEF ClientSees, Expects, TypeInv, TypeOK
<1> HIDE DEF n
<1>7. /\ view \in ViewType
      /\ view' = Receive(view, [item |-> "head", status |-> m_response_status,
                                length |-> n, chunked |-> FALSE])
  BY <1>1, <1>4, WriteSeen
<1>8. /\ view'.done = view.done /\ view'.mode = "length" /\ view'.need = n
      /\ view'.status = m_response_status /\ view'.body = <<>>
  <2> DEFINE item == [item |-> "head", status |-> m_response_status, length |-> n,
                      chunked |-> FALSE]
  <2>1. /\ item.item = "head" /\ ~item.chunked /\ item.length = n
        /\ item.status = m_response_status /\ view' = Receive(view, item)
    BY <1>7
  <2>2. item.length \in Nat /\ item.length # 0 /\ item.status \in Nat
    BY <1>2, <1>6, <2>1
  <2> HIDE DEF item
  <2>3. /\ view'.done = view.done /\ view'.mode = "length" /\ view'.need = item.length
        /\ view'.status = item.status /\ view'.body = view.body
    BY <1>6, <1>7, <2>1, <2>2, ReceiveHead
  <2> QED BY <1>6, <2>1, <2>3
<1>9. Expects("length", <<>>)' /\ view'.need = n
  BY <1>1, <1>6, <1>8 DEF Expects
<1> QED BY <1>2, <1>5, <1>9 DEF ClientSees, n

LEMMA WritesSeen ==
  ASSUME TypeInv, ResponseInv, ~gone, ClientSees,
         WriteSize \/ WriteChunk \/ WriteCrlf \/ WriteBody \/ End \/ WriteLast
  PROVE  ClientSees'
<1> USE DEF client, response
<1>1. call.at # "parse" /\ intended' = intended
  BY DEF WriteSize, WriteChunk, WriteCrlf, WriteBody, End, WriteLast
<1>2. /\ open /\ view \in ViewType /\ m_response_status = Last(intended).status
      /\ call.data \in Text /\ Len(call.data) \in Nat
      /\ Last(intended) \in AnswerType /\ Last(intended).status \in Nat
      /\ call = [at |-> call.at, data |-> call.data, left |-> call.left, next |-> call.next]
      /\ call.at \in {"size", "chunk", "crlf"} => Small = call.left
  <2>1. call.at \in {"size", "chunk", "crlf"} => Small = call.left
    BY LengthsAssumption DEF ResponseInv, Small
  <2> QED BY <1>1, <2>1, ResponseFacts DEF ResponseInv, TypeOK
<1>3. CASE WriteSize
  <2>1. /\ call.at = "size" /\ Write([item |-> "size", length |-> Small])
        /\ call' = [call EXCEPT !.at = "chunk"]
    BY <1>3 DEF WriteSize
  <2>2. /\ view.mode = "size" /\ intended = Append(view.done, Last(intended))
        /\ view.status = Last(intended).status
        /\ view.body \o call.data = Last(intended).body
        /\ Small \in Nat /\ Small = call.left
    BY <1>1, <1>2, <2>1, ResponseFacts DEF ClientSees, Expects
  <2>3. view' = Receive(view, [item |-> "size", length |-> Small])
    BY <1>2, <2>1, WriteSeen
  <2>4. /\ view'.done = view.done /\ view'.mode = "chunk" /\ view'.need = Small
        /\ view'.status = view.status /\ view'.body = view.body
    <3> DEFINE item == [item |-> "size", length |-> Small]
    <3>1. item.item = "size" /\ item.length = Small /\ view' = Receive(view, item)
      BY <2>3
    <3> HIDE DEF item
    <3> QED BY <1>2, <2>2, <3>1, ReceiveSize
  <2>5. call'.at = "chunk" /\ call'.data = call.data /\ call'.left = call.left
    BY <1>2, <2>1
  <2> QED BY <1>1, <2>2, <2>4, <2>5 DEF ClientSees, Expects
<1>4. CASE WriteChunk
  <2>1. /\ call.at = "chunk"
        /\ Write([item |-> "data", units |-> SubSeq(call.data, 1, Small)])
        /\ call' = [call EXCEPT !.at = "crlf"]
    BY <1>4 DEF WriteChunk
  <2>2. /\ view.mode = "chunk" /\ intended = Append(view.done, Last(intended))
        /\ view.status = Last(intended).status
        /\ view.body \o call.data = Last(intended).body
        /\ view.need = Len(call.data) /\ Small = Len(call.data)
    BY <1>1, <1>2, <2>1 DEF ClientSees, Expects, ResponseInv
  <2>3. SubSeq(call.data, 1, Small) = call.data
    BY <1>2, <2>2, SubSeqFull DEF Text
  <2>4. view' = Receive(view, [item |-> "data", units |-> call.data])
    BY <1>2, <2>1, <2>3, WriteSeen
  <2>5. /\ view'.done = view.done /\ view'.mode = "crlf"
        /\ view'.status = view.status /\ view'.body = view.body \o call.data
    <3> DEFINE item == [item |-> "data", units |-> call.data]
    <3>1. item.item = "data" /\ item.units = call.data /\ view' = Receive(view, item)
      BY <2>4
    <3> HIDE DEF item
    <3>2. Len(item.units) = view.need
      BY <2>2, <3>1
    <3>3. /\ view'.done = view.done /\ view'.mode = "crlf"
          /\ view'.status = view.status /\ view'.body = view.body \o item.units
      BY <1>2, <2>2, <3>1, <3>2, ReceiveChunk
    <3> QED BY <3>1, <3>3
  <2>6. call'.at = "crlf"
    BY <1>2, <2>1
  <2> QED BY <1>1, <2>2, <2>5, <2>6 DEF ClientSees, Expects
<1>5. CASE WriteCrlf
  <2>1. /\ call.at = "crlf" /\ Write([item |-> "crlf"])
        /\ call' = Loop(call.data, call.left - Small, call.next)
        /\ UNCHANGED response
    BY <1>5 DEF WriteCrlf
  <2>2. /\ view.mode = "crlf" /\ intended = Append(view.done, Last(intended))
        /\ view.status = Last(intended).status /\ view.body = Last(intended).body
        /\ m_response_headers_sent /\ m_response_chunked /\ call.next \in {"handler", "end"}
        /\ call.left - Small = 0
    BY <1>1, <1>2, <2>1, ResponseFacts DEF ClientSees, Expects, ResponseInv
  <2>3. view' = Receive(view, [item |-> "crlf"])
    BY <1>2, <2>1, WriteSeen
  <2>4. /\ view'.done = view.done /\ view'.mode = "size"
        /\ view'.status = view.status /\ view'.body = view.body
    <3> DEFINE item == [item |-> "crlf"]
    <3>1. item.item = "crlf" /\ view' = Receive(view, item)
      BY <2>3
    <3> HIDE DEF item
    <3> QED BY <1>2, <2>2, <3>1, ReceiveCrlf
  <2>5. call' = At(call.next)
    BY <2>1, <2>2 DEF Loop
  <2>6. call'.at = call.next
    BY <2>5, AtFields
  <2> QED BY <1>1, <2>1, <2>2, <2>4, <2>6 DEF ClientSees, Expects
<1>6. CASE WriteBody
  <2>1. /\ call.at = "body" /\ call' = At(call.next) /\ UNCHANGED response
        /\ IF call.data = <<>> THEN UNCHANGED view
           ELSE Write([item |-> "data", units |-> call.data])
    BY <1>6 DEF WriteBody
  <2>2. call.next = "end" /\ ~m_response_chunked /\ call.data = Last(intended).body
    BY <2>1 DEF ResponseInv
  <2>3. Settled'
    <3>1. CASE call.data = <<>>
      BY <1>1, <2>1, <3>1 DEF ClientSees, Settled
    <3>2. CASE call.data # <<>>
      <4>1. /\ view.mode = "length" /\ view.body = <<>> /\ view.need = Len(call.data)
            /\ view.status = Last(intended).status
            /\ intended = Append(view.done, Last(intended))
        BY <2>1, <3>2 DEF ClientSees, Expects
      <4>2. view' = Receive(view, [item |-> "data", units |-> call.data])
        BY <1>2, <2>1, <3>2, WriteSeen
      <4>3. /\ view'.done = Append(view.done, [status |-> view.status,
                                               body |-> view.body \o call.data])
            /\ view'.mode = "head" /\ view'.body = <<>>
        <5> DEFINE item == [item |-> "data", units |-> call.data]
        <5>1. item.item = "data" /\ item.units = call.data /\ view' = Receive(view, item)
          BY <4>2
        <5> HIDE DEF item
        <5> QED BY <1>2, <4>1, <5>1, ReceiveBody
      <4>4. view.body \o call.data = Last(intended).body
        BY <1>2, <2>2, <4>1, ConcatEmptySeq DEF Text
      <4>5. view'.done = intended
        BY <1>2, <4>1, <4>3, <4>4, Completed
      <4> QED BY <1>1, <4>3, <4>5 DEF Settled
    <3> QED BY <3>1, <3>2
  <2>4. call'.at = "end"
    BY <2>1, <2>2, AtFields
  <2> QED BY <2>1, <2>2, <2>3, <2>4 DEF ClientSees
<1>7. CASE End
  <2>1. /\ SendHeaders([contentLength |-> 0, chunked |-> FALSE]) /\ call' = At("last")
        /\ call.at \in {"handler", "end"}
    BY <1>7, HeadersFacts DEF End
  <2>2. /\ m_response_headers_sent => m_response_chunked' = m_response_chunked
        /\ ~m_response_headers_sent => ~m_response_chunked'
    BY <2>1, HeadersFacts, SendHeadersFacts
  <2>3. call'.at = "last"
    BY <2>1, AtFields
  <2>4. CASE m_response_headers_sent
    <3>1. view' = view
      BY <2>1, <2>4 DEF SendHeaders
    <3>2. IF m_response_chunked THEN Expects("size", Last(intended).body) ELSE Settled
      BY <2>1, <2>4 DEF ClientSees, ResponseInv
    <3> QED BY <1>1, <2>2, <2>3, <2>4, <3>1, <3>2 DEF ClientSees, Expects, Settled
  <2>5. CASE ~m_response_headers_sent
    <3>1. /\ call.at = "handler" /\ Last(intended).body = <<>>
          /\ view.mode = "head" /\ view.body = <<>>
          /\ intended = Append(view.done, Last(intended))
      BY <2>1, <2>5 DEF ResponseInv, ClientSees, Expects
    <3>2. Write([item |-> "head", status |-> m_response_status, length |-> 0, chunked |-> FALSE])
      BY <2>1, <2>5 DEF SendHeaders
    <3>3. view' = Receive(view, [item |-> "head", status |-> m_response_status,
                                 length |-> 0, chunked |-> FALSE])
      BY <1>2, <3>2, WriteSeen
    <3>4. /\ view'.done = Append(view.done, [status |-> m_response_status, body |-> <<>>])
          /\ view'.mode = "head" /\ view'.body = <<>>
      <4> DEFINE item == [item |-> "head", status |-> m_response_status, length |-> 0,
                          chunked |-> FALSE]
      <4>1. /\ item.item = "head" /\ ~item.chunked /\ item.length = 0
            /\ item.status = m_response_status /\ view' = Receive(view, item)
        BY <3>3
      <4> HIDE DEF item
      <4> QED BY <1>2, <3>1, <4>1, ReceiveHead
    <3>5. view'.done = intended
      BY <1>2, <3>1, <3>4, Completed
    <3> QED BY <1>1, <2>2, <2>3, <2>5, <3>4, <3>5 DEF ClientSees, Settled
  <2> QED BY <2>4, <2>5
<1>8. CASE WriteLast
  <2>1. /\ call.at = "last" /\ call' = At("parse")
        /\ IF m_response_chunked THEN Write([item |-> "last"]) ELSE UNCHANGED view
    BY <1>8 DEF WriteLast
  <2>2. Settled'
    <3>1. CASE ~m_response_chunked
      BY <1>1, <2>1, <3>1 DEF ClientSees, Settled
    <3>2. CASE m_response_chunked
      <4>1. /\ view.mode = "size" /\ view.body = Last(intended).body
            /\ view.status = Last(intended).status
            /\ intended = Append(view.done, Last(intended))
        BY <2>1, <3>2 DEF ClientSees, Expects
      <4>2. view' = Receive(view, [item |-> "last"])
        BY <1>2, <2>1, <3>2, WriteSeen
      <4>3. /\ view'.done = Append(view.done, [status |-> view.status, body |-> view.body])
            /\ view'.mode = "head" /\ view'.body = <<>>
        <5> DEFINE item == [item |-> "last"]
        <5>1. item.item = "last" /\ view' = Receive(view, item)
          BY <4>2
        <5> HIDE DEF item
        <5> QED BY <1>2, <4>1, <5>1, ReceiveLast
      <4>4. view'.done = intended
        BY <1>2, <4>1, <4>3, Completed
      <4> QED BY <1>1, <4>3, <4>4 DEF Settled
    <3> QED BY <3>1, <3>2
  <2>3. call'.at = "parse"
    BY <2>1, AtFields
  <2> QED BY <2>2, <2>3 DEF ClientSees
<1> QED BY <1>3, <1>4, <1>5, <1>6, <1>7, <1>8

LEMMA BeginsSeen ==
  ASSUME TypeInv, ResponseInv, ~gone, ClientSees, Refuse \/ OnMessageComplete
  PROVE  ClientSees'
<1>1. /\ call.at = "parse" /\ UNCHANGED <<view, m_response_headers_sent>>
      /\ call'.at \in {"handler", "refuse"} /\ ~m_response_headers_sent
  BY BeginsResponse DEF ResponseInv
<1>2. PICK a \in AnswerType : intended' = Append(intended, a) /\ Last(intended') = a
  BY BeginsResponse
<1>3. view.done = intended /\ view.mode = "head" /\ view.body = <<>>
  BY <1>1 DEF ClientSees, Settled
<1> QED BY <1>1, <1>2, <1>3 DEF ClientSees, Expects

LEMMA ClientStep ==
  ASSUME TypeInv, SmallPieces, ResponseInv, ResponseInv', ~gone, ClientSees, [Next]_vars
  PROVE  ClientSees'
<1>1. CASE Respond
  BY <1>1, HandlerSendsSeen, RefusalSeen, WritesSeen DEF Respond
<1>2. CASE Refuse \/ OnMessageComplete
  BY <1>2, BeginsSeen
<1>3. CASE ~Respond /\ ~Refuse /\ ~OnMessageComplete
  <2>1. UNCHANGED <<view, call, intended, m_response_headers_sent, m_response_chunked>>
    BY <1>3, OtherFacts DEF response
  <2> QED BY <2>1 DEF ClientSees, Settled, Expects
<1> QED BY <1>1, <1>2, <1>3

(* A client that is there has the history. *)
LEMMA SeenHistory ==
  ASSUME TypeInv, ResponseInv, ClientSees
  PROVE  HistoryInv
<1>1. /\ intended \in Seq(AnswerType) /\ view.done \in Seq(AnswerType)
      /\ Len(intended) \in Nat /\ Len(view.done) \in Nat
      /\ call.at \in {"parse", "handler", "refuse", "size", "chunk", "crlf", "body", "end", "last"}
  BY HistoryFacts
<1>2. ASSUME Settled, call.next # "handler"
      PROVE  HistoryInv
  BY <1>1, <1>2 DEF Settled, HistoryInv
<1>3. ASSUME NEW mode, NEW body, Expects(mode, body), call.at # "parse"
      PROVE  HistoryInv
  <2> DEFINE a == Last(intended)
  <2>1. intended = Append(view.done, a) /\ a \in AnswerType
    BY <1>3, ResponseFacts DEF Expects
  <2> HIDE DEF a
  <2>2. /\ Len(intended) = Len(view.done) + 1
        /\ \A k \in 1..Len(view.done) : intended[k] = view.done[k]
    BY <1>1, <2>1, AppendProperties
  <2> QED BY <1>1, <2>2 DEF HistoryInv
<1>4. call.at \in {"parse", "refuse", "end", "last"} => call.next # "handler"
  BY AtFields DEF ResponseInv
<1>5. CASE call.at = "parse"
  BY <1>2, <1>4, <1>5 DEF ClientSees
<1>6. CASE call.at \in {"handler", "refuse"}
  <2>1. call.at = "refuse" => ~m_response_headers_sent
    BY DEF ResponseInv
  <2> QED BY <1>3, <1>6, <2>1 DEF ClientSees
<1>7. CASE call.at \in {"size", "chunk", "crlf"}
  BY <1>3, <1>7 DEF ClientSees
<1>8. CASE call.at = "body"
  BY <1>2, <1>3, <1>8 DEF ClientSees, ResponseInv
<1>9. CASE call.at \in {"end", "last"}
  BY <1>2, <1>3, <1>4, <1>9 DEF ClientSees
<1> QED BY <1>1, <1>5, <1>6, <1>7, <1>8, <1>9

LEMMA RespondUntouched ==
  ASSUME Respond
  PROVE  UNCHANGED <<sent, gone, parser, open, delivered>>
BY DEF Respond, HandlerSends, HandlerEndsWith, EndsWithRefusal, SendData, EndWith, SendDataWith,
       WriteSize, WriteChunk, WriteCrlf, WriteBody, End, WriteLast, client

LEMMA GoneStays ==
  ASSUME TypeInv, ResponseInv, [Next]_vars, gone
  PROVE  gone'
<1>1. CASE Respond
  BY <1>1, RespondUntouched
<1>2. CASE Refuse \/ OnMessageComplete
  BY <1>2, BeginsResponse
<1>3. CASE ~Respond /\ ~Refuse /\ ~OnMessageComplete
  BY <1>3, OtherFacts
<1> QED BY <1>1, <1>2, <1>3

(* To a client that has gone nothing is added, and what it has stays.      *)
LEMMA GoneHistory ==
  ASSUME TypeInv, SmallPieces, ResponseInv, HistoryInv, gone', [Next]_vars
  PROVE  HistoryInv'
<1> USE DEF client, request, response
<1>1. view' = view
  <2>1. CASE Respond
    <3>0. gone
      BY <2>1, RespondUntouched
    <3>1. \A item : Write(item) => view' = view
      BY <3>0 DEF Write
    <3>2. ASSUME NEW headers, SendHeaders(headers)
          PROVE  view' = view
      BY <3>1, <3>2 DEF SendHeaders
    <3> QED BY <2>1, <3>1, <3>2
            DEF Respond, HandlerSends, HandlerEndsWith, EndsWithRefusal, SendData, EndWith,
                SendDataWith, WriteSize, WriteChunk, WriteCrlf, WriteBody, End, WriteLast
  <2>2. CASE Refuse \/ OnMessageComplete
    BY <2>2, BeginsResponse
  <2>3. CASE ~Respond /\ ~Refuse /\ ~OnMessageComplete
    BY <2>3, OtherFacts
  <2> QED BY <2>1, <2>2, <2>3
<1>2. /\ intended \in Seq(AnswerType) /\ view.done \in Seq(AnswerType)
      /\ Len(intended) \in Nat /\ Len(view.done) \in Nat
  BY HistoryFacts
<1>3. CASE HandlerSends \/ HandlerEndsWith
  <2>1. PICK n \in Nat : Grow(NextUnits(n))
    BY <1>3, LengthsAssumption DEF HandlerSends, HandlerEndsWith
  <2>2. call.at = "handler"
    BY <1>3 DEF HandlerSends, HandlerEndsWith
  <2>3. /\ Len(intended') = Len(intended)
        /\ \A k \in 1..(Len(intended) - 1) : intended'[k] = intended[k]
    BY <2>1, <2>2, GrowFacts
  <2>4. Len(view.done) < Len(intended)
    BY <2>2, AtFields DEF ResponseInv, HistoryInv
  <2> QED BY <1>1, <1>2, <2>3, <2>4 DEF HistoryInv
<1>4. CASE Refuse \/ OnMessageComplete
  <2>1. PICK a \in AnswerType : intended' = Append(intended, a)
    BY <1>4, BeginsResponse
  <2>2. Len(intended') = Len(intended) + 1 /\ \A k \in 1..Len(intended) : intended'[k] = intended[k]
    BY <1>2, <2>1, AppendProperties
  <2> QED BY <1>1, <1>2, <2>2 DEF HistoryInv
<1>5. CASE EndsWithRefusal \/ End \/ WriteLast
  <2>1. intended' = intended /\ call'.next # "handler"
    <3>1. CASE EndsWithRefusal
      <4>1. call'.next = "end"
        BY <3>1, AtFields DEF EndsWithRefusal, EndWith, SendDataWith, Loop
      <4> QED BY <3>1, <4>1 DEF EndsWithRefusal
    <3>2. CASE End \/ WriteLast
      BY <3>2, AtFields DEF End, WriteLast
    <3> QED BY <1>5, <3>1, <3>2
  <2> QED BY <1>1, <2>1 DEF HistoryInv
<1>6. CASE WriteSize \/ WriteChunk \/ WriteCrlf \/ WriteBody
  <2>1. call.at # "parse" /\ intended' = intended
    BY <1>6 DEF WriteSize, WriteChunk, WriteCrlf, WriteBody
  <2>2. call = [at |-> call.at, data |-> call.data, left |-> call.left, next |-> call.next]
    BY <2>1, ResponseFacts
  <2>3. call'.next = call.next
    <3>1. CASE WriteSize \/ WriteChunk
      BY <2>2, <3>1 DEF WriteSize, WriteChunk
    <3>2. CASE WriteCrlf
      BY <3>2, AtFields DEF WriteCrlf, Loop
    <3>3. CASE WriteBody
      BY <3>3, AtFields DEF WriteBody
    <3> QED BY <1>6, <3>1, <3>2, <3>3
  <2> QED BY <1>1, <2>1, <2>3 DEF HistoryInv
<1>7. CASE ~Respond /\ ~Refuse /\ ~OnMessageComplete
  BY <1>7, OtherFacts DEF HistoryInv
<1> QED BY <1>3, <1>4, <1>5, <1>6, <1>7 DEF Respond

LEMMA FramingInvariance ==
  ASSUME SmallPieces
  PROVE  Spec => []FramingInv
<1>1. Init => ResponseInv /\ HistoryInv /\ (~gone => ClientSees)
  BY AtFields DEF Init, ViewInit, ResponseInv, HistoryInv, ClientSees, Settled
<1>2. TypeInv /\ ResponseInv /\ [Next]_vars => ResponseInv'
  BY ResponseStep
<1>3. /\ TypeInv /\ ResponseInv /\ ResponseInv' /\ (~gone => ClientSees) /\ [Next]_vars
      => (~gone' => ClientSees')
  <2> SUFFICES ASSUME TypeInv, ResponseInv, ResponseInv', ~gone => ClientSees, [Next]_vars, ~gone'
               PROVE  ClientSees'
    OBVIOUS
  <2>1. ~gone
    BY GoneStays
  <2> QED BY <2>1, ClientStep
<1>4. TypeInv /\ ResponseInv /\ HistoryInv /\ gone' /\ [Next]_vars => HistoryInv'
  BY GoneHistory
<1>5. TypeInv /\ ResponseInv /\ ClientSees => HistoryInv
  BY SeenHistory
<1>6. FramingInv <=> ResponseInv /\ HistoryInv /\ (~gone => ClientSees)
  BY DEF FramingInv
<1> QED BY <1>1, <1>2, <1>3, <1>4, <1>5, <1>6, TypeInvariance, PTL DEF Spec

(* A client that is there can decode whatever the handlers and the parser  *)
(* make the connection write, at any time, and finds in it the answers     *)
(* that were given; one that has left has the beginning of them.  Chunks   *)
(* and a content-length are never mixed, and nothing of one response is    *)
(* left in the next.                                                       *)
THEOREM ResponsesAreDecodable ==
  ASSUME SmallPieces
  PROVE  Spec => []ResponsesDecodable
<1>1. TypeInv /\ FramingInv => ResponsesDecodable
  <2> SUFFICES ASSUME TypeInv, FramingInv PROVE ResponsesDecodable
    OBVIOUS
  <2>1. /\ intended \in Seq(AnswerType) /\ view.done \in Seq(AnswerType)
        /\ Len(intended) \in Nat /\ Len(view.done) \in Nat
        /\ Len(view.done) <= Len(intended)
        /\ \A k \in 1..Len(view.done) : view.done[k] = intended[k]
    BY HistoryFacts DEF FramingInv, HistoryInv
  <2>2. SubSeq(view.done, 1, Len(view.done)) = SubSeq(intended, 1, Len(view.done))
    BY <2>1
  <2>3. ~gone => view.mode # "broken"
    <3>1. call.at \in {"parse", "handler", "refuse", "size", "chunk", "crlf", "body", "end",
                       "last"}
      BY DEF TypeInv, TypeOK
    <3> QED BY <3>1 DEF FramingInv, ResponseInv, ClientSees, Settled, Expects
  <2>4. ~gone /\ call.at = "parse" => view.done = intended /\ view.mode = "head"
    BY DEF FramingInv, ClientSees, Settled
  <2> QED BY <2>1, <2>2, <2>3, <2>4 DEF ResponsesDecodable, IsPrefix
<1> QED BY <1>1, TypeInvariance, FramingInvariance, PTL

-----------------------------------------------------------------------------
(* The answers are answers of handlers to the requests they were given. *)
AnswersInv ==
  /\ Len(intended) <= Len(sent)
  /\ \/ Len(intended) = Len(delivered)
     \/ /\ Len(intended) = Len(delivered) + 1 /\ parser.phase = "error"
        /\ call.next # "handler"
  /\ \A k \in 1..Len(intended) : intended[k] \in AnswersTo(k)
  /\ call.next = "handler" =>
       /\ Last(intended).status \in Statuses /\ Given <= AnswerMax
       /\ Last(intended).body = AnswerText(Len(delivered), Given)

LEMMA UnitsPrefix ==
  ASSUME NEW k \in Nat, NEW m \in Nat, NEW n \in 0..m
  PROVE  SubSeq(AnswerText(k, m), 1, n) = AnswerText(k, n)
<1> DEFINE long == AnswerText(k, m)
           short == AnswerText(k, n)
<1>1. /\ long \in Seq(UnitType) /\ Len(long) = m /\ short \in Seq(UnitType) /\ Len(short) = n
  <2>1. n \in Nat
    OBVIOUS
  <2>2. long \in Text /\ Len(long) = m /\ short \in Text /\ Len(short) = n
    BY <2>1, TextsProperties
  <2> QED BY <2>2 DEF Text
<1>2. \A i \in 1..n : long[i] = short[i]
  BY DEF AnswerText, Units
<1> HIDE DEF long, short
<1>3. /\ SubSeq(long, 1, n) \in Seq(UnitType) /\ Len(SubSeq(long, 1, n)) = n
      /\ \A i \in 1..n : SubSeq(long, 1, n)[i] = long[i]
  <2>1. \A i \in 1..n : long[i] \in UnitType
    BY <1>1
  <2>2. /\ SubSeq(long, 1, n) \in Seq(UnitType)
        /\ Len(SubSeq(long, 1, n)) = IF 1 <= n THEN n - 1 + 1 ELSE 0
        /\ \A i \in 1..(n - 1 + 1) : SubSeq(long, 1, n)[i] = long[1 + i - 1]
    BY <2>1, SubSeqProperties
  <2> QED BY <2>2
<1>4. SubSeq(long, 1, n) = short
  BY <1>1, <1>2, <1>3, SeqEqual
<1> QED BY <1>4 DEF long, short

(* What a handler gives continues the text it gave before. *)
LEMMA AnswerGrows ==
  ASSUME NEW k \in Nat, NEW given \in Nat, NEW n \in Nat
  PROVE  AnswerText(k, given) \o SubSeq(AnswerText(k, given + n), given + 1, given + n)
           = AnswerText(k, given + n)
<1> DEFINE text == AnswerText(k, given + n)
<1>1. text \in Seq(UnitType) /\ Len(text) = given + n
  BY TextsProperties DEF Text
<1>2. SubSeq(text, 1, given) = AnswerText(k, given)
  BY UnitsPrefix
<1> HIDE DEF text
<1>3. SubSeq(text, 1, given) \o SubSeq(text, given + 1, given + n) = SubSeq(text, 1, given + n)
  BY <1>1, ConcatAdjacentSubSeq
<1>4. SubSeq(text, 1, given + n) = text
  BY <1>1, SubSeqFull
<1> QED BY <1>2, <1>3, <1>4 DEF text

LEMMA BeginsAnswer ==
  ASSUME TypeInv, RequestInv, NoTrailers, ResponseInv, AnswersInv, Refuse \/ OnMessageComplete
  PROVE  AnswersInv'
<1>1. /\ intended \in Seq(AnswerType) /\ Len(intended) \in Nat
      /\ Len(delivered) \in Nat /\ Len(sent) \in Nat
  BY HistoryFacts DEF TypeInv, TypeOK
<1>2. parser.phase \in {"url", "end"} /\ InMessage /\ parser.phase # "between"
  BY DEF Refuse, OnMessageComplete, ResponseStatus, Parses, InMessage
<1>3. Len(delivered) + 1 <= Len(sent) /\ Len(intended) = Len(delivered)
  <2>1. Message = Len(delivered) + 1 /\ Message <= Len(sent)
    BY <1>2, MessageFacts DEF RequestInv
  <2>2. Len(intended) = Len(delivered)
    BY <1>2 DEF AnswersInv
  <2> QED BY <2>1, <2>2
<1>4. /\ call'.next = call'.at /\ call'.at \in {"handler", "refuse"} /\ sent' = sent
  BY BeginsResponse
<1>5. PICK a \in AnswerType : intended' = Append(intended, a) /\ Last(intended') = a
  BY BeginsResponse
<1>6. /\ Len(intended') = Len(intended) + 1 /\ intended'[Len(intended) + 1] = a
      /\ \A k \in 1..Len(intended) : intended'[k] = intended[k]
  BY <1>1, <1>5, AppendProperties
<1>7. ASSUME \A k \in Nat : a \in AnswersTo(k)
      PROVE  \A k \in 1..Len(intended') : intended'[k] \in AnswersTo(k)
  <2> TAKE k \in 1..Len(intended')
  <2>1. k = Len(intended) + 1 \/ k \in 1..Len(intended)
    BY <1>1, <1>6
  <2> QED BY <1>6, <1>7, <2>1 DEF AnswersInv
<1>8. CASE Refuse
  <2>1. /\ delivered' = delivered /\ parser'.phase = "error" /\ call'.next # "handler"
        /\ a = Refusal
    <3>1. call' = At("refuse") /\ delivered' = delivered /\ Goto("error", 0)
          /\ intended' = Append(intended, Refusal)
      BY <1>8 DEF Refuse, ResponseStatus
    <3>2. Refusal \in AnswerType
      BY TextsProperties DEF Refusal, AnswerType
    <3>3. intended'[Len(intended) + 1] = Refusal
      BY <1>1, <3>1, <3>2, AppendProperties
    <3> QED BY <1>6, <3>1, <3>3, AtFields DEF Goto
  <2>2. \A k \in 1..Len(intended') : intended'[k] \in AnswersTo(k)
    BY <1>7, <2>1 DEF AnswersTo
  <2> QED BY <1>1, <1>3, <1>4, <1>6, <2>1, <2>2 DEF AnswersInv
<1>9. CASE OnMessageComplete
  <2>1. PICK status \in Statuses : intended' = Append(intended, [status |-> status, body |-> <<>>])
    BY <1>9 DEF OnMessageComplete, ResponseStatus
  <2> DEFINE b == [status |-> status, body |-> <<>>]
  <2>2. b \in AnswerType /\ b.status = status /\ b.body = <<>>
    BY LengthsAssumption DEF AnswerType, Text
  <2>3. a = b
    <3>1. intended' = Append(intended, b)
      BY <2>1
    <3> HIDE DEF b
    <3> QED BY <1>1, <1>6, <2>2, <3>1, AppendProperties
  <2>4. \A k \in Nat : AnswerText(k, 0) = <<>>
    BY UnitsProperties DEF AnswerText, Parts
  <2>5. \A k \in Nat : a \in AnswersTo(k)
    <3> TAKE k \in Nat
    <3>1. 0 \in 0..AnswerMax
      BY LengthsAssumption
    <3>2. a = [status |-> status, body |-> AnswerText(k, 0)]
      BY <2>3, <2>4
    <3> QED BY <3>1, <3>2 DEF AnswersTo
  <2>6. Len(delivered') = Len(delivered) + 1
    <3>1. delivered' = Append(delivered, [url |-> m_url, headers |-> m_headers, body |-> m_buffer'])
      BY <1>9 DEF OnMessageComplete, ResponseStatus
    <3>2. delivered \in Seq(RequestType)
      BY DEF TypeInv, TypeOK
    <3> QED BY <3>1, <3>2
  <2>7. Last(intended').status \in Statuses /\ Last(intended').body = <<>>
    BY <1>5, <2>2, <2>3
  <2>8. Len(Last(intended').body) = 0 /\ 0 <= AnswerMax
    BY <2>7, LengthsAssumption
  <2>9. Given' = 0 /\ AnswerText(Len(delivered'), 0) = <<>>
    BY <1>1, <2>4, <2>6, <2>8 DEF Given
  <2>10. \A k \in 1..Len(intended') : intended'[k] \in AnswersTo(k)
    BY <1>7, <2>5
  <2>11. Last(intended').body = AnswerText(Len(delivered'), Given')
    BY <2>7, <2>9
  <2> QED BY <1>1, <1>3, <1>4, <1>6, <2>6, <2>7, <2>8, <2>9, <2>10, <2>11 DEF AnswersInv
<1> QED BY <1>8, <1>9

LEMMA GrowsAnswer ==
  ASSUME TypeInv, ResponseInv, AnswersInv, HandlerSends \/ HandlerEndsWith
  PROVE  AnswersInv'
<1> USE DEF client
<1>1. PICK n \in Nat : Given + n <= AnswerMax /\ Grow(NextUnits(n))
  BY LengthsAssumption DEF HandlerSends, HandlerEndsWith
<1>2. call.at = "handler" /\ UNCHANGED <<sent, parser, delivered>>
  BY RespondUntouched DEF HandlerSends, HandlerEndsWith, Respond, SendData, EndWith, SendDataWith
<1>3. call.next = "handler"
  BY <1>2, AtFields DEF ResponseInv
<1>4. /\ Len(intended) \in Nat \ {0} /\ Last(intended) \in AnswerType
      /\ Last(intended).body \in Text
  BY <1>2, ResponseFacts
<1>5. /\ intended' \in Seq(AnswerType) /\ Len(intended') = Len(intended)
      /\ Last(intended').status = Last(intended).status
      /\ Last(intended').body = Last(intended).body \o NextUnits(n)
      /\ \A i \in 1..(Len(intended) - 1) : intended'[i] = intended[i]
  BY <1>1, <1>2, GrowFacts
<1>6. /\ Given \in Nat /\ Len(intended) = Len(delivered)
      /\ Last(intended).body = AnswerText(Len(delivered), Given)
      /\ Last(intended).status \in Statuses
  BY <1>3, <1>4 DEF AnswersInv, Given, Text
<1>7. Last(intended').body = AnswerText(Len(delivered), Given + n)
  <2>1. NextUnits(n) = SubSeq(AnswerText(Len(delivered), Given + n), Given + 1, Given + n)
    BY DEF NextUnits
  <2> DEFINE g == Given
             k == Len(delivered)
  <2>2. k \in Nat /\ g \in Nat
    BY <1>4, <1>6
  <2> HIDE DEF g, k
  <2>3. AnswerText(k, g) \o SubSeq(AnswerText(k, g + n), g + 1, g + n) = AnswerText(k, g + n)
    BY <2>2, AnswerGrows
  <2> QED BY <1>5, <1>6, <2>1, <2>3 DEF g, k
<1>8. Given' = Given + n
  <2>1. Given + n \in Nat /\ Len(delivered) \in Nat
    BY <1>4, <1>6
  <2>2. Len(AnswerText(Len(delivered), Given + n)) = Given + n
    BY <2>1, TextsProperties
  <2>3. Given' = Len(Last(intended').body)
    BY DEF Given
  <2> QED BY <1>7, <2>2, <2>3
<1>9. \A k \in 1..Len(intended') : intended'[k] \in AnswersTo(k)
  <2> TAKE k \in 1..Len(intended')
  <2>1. CASE k = Len(intended)
    <3>1. intended'[k] = Last(intended') /\ Last(intended') \in AnswerType
      BY <1>4, <1>5, <2>1 DEF Last
    <3>2. Last(intended') = [status |-> Last(intended).status,
                             body |-> AnswerText(k, Given + n)]
      BY <1>5, <1>6, <1>7, <2>1, <3>1 DEF AnswerType
    <3>3. Given + n \in 0..AnswerMax
      BY <1>1, <1>6, LengthsAssumption
    <3> QED BY <1>6, <3>1, <3>2, <3>3 DEF AnswersTo
  <2>2. CASE k # Len(intended)
    <3>1. k \in 1..(Len(intended) - 1) /\ k \in 1..Len(intended)
      BY <1>4, <1>5, <2>2
    <3> QED BY <1>5, <3>1 DEF AnswersInv
  <2> QED BY <2>1, <2>2
<1> QED BY <1>1, <1>2, <1>5, <1>6, <1>7, <1>8, <1>9 DEF AnswersInv

LEMMA KeepsAnswers ==
  ASSUME TypeInv, ResponseInv, AnswersInv, [Next]_vars,
         ~HandlerSends, ~HandlerEndsWith, ~Refuse, ~OnMessageComplete
  PROVE  AnswersInv'
<1> USE DEF client, request, response
<1>1. intended' = intended /\ (call'.next = "handler" => call.next = "handler")
  <2>1. CASE EndsWithRefusal \/ End \/ WriteLast
    BY <2>1, AtFields DEF EndsWithRefusal, EndWith, SendDataWith, Loop, End, WriteLast
  <2>2. CASE WriteSize \/ WriteChunk \/ WriteCrlf \/ WriteBody
    <3>1. call.at # "parse" /\ intended' = intended
      BY <2>2 DEF WriteSize, WriteChunk, WriteCrlf, WriteBody
    <3>2. call = [at |-> call.at, data |-> call.data, left |-> call.left, next |-> call.next]
      BY <3>1, ResponseFacts
    <3>3. CASE WriteSize \/ WriteChunk
      BY <3>2, <3>3 DEF WriteSize, WriteChunk
    <3>4. CASE WriteCrlf
      BY <3>4, AtFields DEF WriteCrlf, Loop
    <3>5. CASE WriteBody
      BY <3>5, AtFields DEF WriteBody
    <3> QED BY <2>2, <3>1, <3>3, <3>4, <3>5
  <2>3. CASE ~Respond
    BY <2>3, OtherFacts
  <2> QED BY <2>1, <2>2, <2>3 DEF Respond
<1>2. /\ delivered' = delivered /\ (parser.phase = "error" => parser'.phase = "error")
      /\ Len(sent') \in Nat /\ Len(sent) \in Nat /\ Len(sent') >= Len(sent)
  <2>1. sent \in Seq(Shapes)
    BY DEF TypeInv, TypeOK
  <2>2. CASE Respond
    BY <2>1, <2>2, RespondUntouched
  <2>3. CASE Ask
    BY <2>1, <2>3 DEF Ask
  <2>4. CASE Leave \/ ParseError \/ UNCHANGED vars
    BY <2>1, <2>4 DEF Leave, ParseError, vars
  <2>5. CASE Callback
    BY <2>1, <2>5 DEF Callback, OnMessageBegin, OnUrl, OnUrlComplete, OnHeaderField,
              OnHeaderFieldComplete, OnHeaderValue, OnHeaderValueComplete, OnHeadersComplete,
              OnBody, OnSpan, Parses
  <2> QED BY <2>2, <2>3, <2>4, <2>5 DEF Next, OnRead
<1>3. Given' = Given
  BY <1>1 DEF Given
<1>4. Len(intended) \in Nat
  BY HistoryFacts
<1> QED BY <1>1, <1>2, <1>3, <1>4 DEF AnswersInv

LEMMA AnswersInvariance ==
  ASSUME SmallPieces, NoTrailers
  PROVE  Spec => []AnswersInv
<1>1. Init => AnswersInv
  BY AtFields DEF Init, AnswersInv
<1>2. TypeInv /\ RequestInv /\ FramingInv /\ AnswersInv /\ [Next]_vars => AnswersInv'
  BY BeginsAnswer, GrowsAnswer, KeepsAnswers DEF FramingInv
<1> QED BY <1>1, <1>2, TypeInvariance, RequestInvariance, FramingInvariance, PTL DEF Spec

-----------------------------------------------------------------------------
(* The connection implements HttpExchange.  Every answer that the client   *)
(* has is to a request that it sent, as it was sent.                       *)
UnderstoodInv ==
  \A k \in 1..Len(view.done) :
    k <= Len(sent) /\ Understood(k) = Meant(k, sent[k]) /\ view.done[k] \in AnswersTo(k)

LEMMA UnderstoodFollows ==
  ASSUME TypeInv, RequestInv, HistoryInv, AnswersInv
  PROVE  UnderstoodInv
<1> SUFFICES ASSUME NEW k \in 1..Len(view.done)
             PROVE  /\ k <= Len(sent) /\ Understood(k) = Meant(k, sent[k])
                    /\ view.done[k] \in AnswersTo(k)
  BY DEF UnderstoodInv
<1>1. /\ Len(view.done) \in Nat /\ Len(intended) \in Nat /\ Len(delivered) \in Nat
      /\ Len(sent) \in Nat
  BY HistoryFacts DEF TypeInv, TypeOK
<1>2. k \in 1..Len(intended) /\ k <= Len(sent)
  BY <1>1 DEF HistoryInv, AnswersInv
<1>3. view.done[k] \in AnswersTo(k)
  BY <1>2 DEF HistoryInv, AnswersInv
<1>4. Understood(k) = Meant(k, sent[k])
  <2>1. CASE k <= Len(delivered)
    BY <1>1, <1>2, <2>1 DEF Understood, RequestInv, RequestsIntact
  <2>2. CASE ~(k <= Len(delivered))
    BY <1>1, <1>2, <2>2 DEF Understood
  <2> QED BY <2>1, <2>2
<1> QED BY <1>2, <1>3, <1>4

LEMMA ReceiveDone ==
  ASSUME NEW v \in ViewType, NEW i
  PROVE  Receive(v, i).done = v.done \/ \E a : Receive(v, i).done = Append(v.done, a)
<1>1. ASSUME NEW w \in ViewType, w.done = v.done
      PROVE  \E a : Finish(w).done = Append(v.done, a)
  BY <1>1, FinishFields
<1>2. CASE v.mode = "head" /\ i.item = "head"
  <2> DEFINE u == [v EXCEPT !.status = i.status]
  <2>1. u.done = v.done /\ DOMAIN u = DOMAIN v
    BY DEF ViewType
  <2>2. Finish(u).done = Append(v.done, [status |-> u.status, body |-> u.body])
    BY DEF Finish, ViewType
  <2>3. Receive(v, i) = IF i.chunked THEN [u EXCEPT !.mode = "size"]
                        ELSE IF i.length = None THEN [u EXCEPT !.mode = "until close"]
                        ELSE IF i.length = 0 THEN Finish(u)
                        ELSE [u EXCEPT !.mode = "length", !.need = i.length]
    BY <1>2 DEF Receive
  <2>4. /\ [u EXCEPT !.mode = "size"].done = v.done
        /\ [u EXCEPT !.mode = "until close"].done = v.done
        /\ [u EXCEPT !.mode = "length", !.need = i.length].done = v.done
    BY DEF ViewType
  <2> HIDE DEF u
  <2> QED BY <2>2, <2>3, <2>4
<1>3. CASE v.mode = "length" /\ i.item = "data" /\ Len(i.units) = v.need
  <2> DEFINE u == [v EXCEPT !.body = @ \o i.units]
  <2>1. Finish(u).done = Append(v.done, [status |-> u.status, body |-> u.body])
    BY DEF Finish, ViewType
  <2>2. Receive(v, i) = Finish(u)
    BY <1>3 DEF Receive
  <2> HIDE DEF u
  <2> QED BY <2>1, <2>2
<1>4. CASE v.mode = "size" /\ i.item = "last"
  BY <1>1, <1>4 DEF Receive
<1>5. CASE ~(v.mode = "head" /\ i.item = "head") /\ ~(v.mode = "size" /\ i.item = "last")
           /\ ~(v.mode = "length" /\ i.item = "data" /\ Len(i.units) = v.need)
  BY <1>5 DEF Receive, ViewType
<1> QED BY <1>2, <1>3, <1>4, <1>5

LEMMA ViewGrows ==
  ASSUME TypeInv, ResponseInv, [Next]_vars
  PROVE  \/ view'.done = view.done
         \/ /\ Respond /\ ~gone /\ open
            /\ \E a : view'.done = Append(view.done, a)
<1> USE DEF client, request, response
<1>1. view \in ViewType
  BY DEF TypeInv, TypeOK
<1>2. CASE Respond
  <2>1. view' = view \/ \E item : Write(item)
    <3>1. ASSUME NEW headers, SendHeaders(headers)
          PROVE  view' = view \/ \E item : Write(item)
      BY <3>1 DEF SendHeaders
    <3> QED BY <1>2, <3>1
            DEF Respond, HandlerSends, HandlerEndsWith, EndsWithRefusal, SendData, EndWith,
                SendDataWith, WriteSize, WriteChunk, WriteCrlf, WriteBody, End, WriteLast
  <2>2. CASE view' = view
    BY <2>2
  <2>3. CASE view' # view
    <3>1. PICK item : Write(item)
      BY <2>1, <2>3
    <3>2. ~gone /\ open /\ view' = Receive(view, item)
      BY <2>3, <3>1 DEF Write
    <3> QED BY <1>1, <1>2, <3>2, ReceiveDone
  <2> QED BY <2>2, <2>3
<1>3. CASE Refuse \/ OnMessageComplete
  BY <1>3, BeginsResponse
<1>4. CASE ~Respond /\ ~Refuse /\ ~OnMessageComplete
  BY <1>4, OtherFacts
<1> QED BY <1>2, <1>3, <1>4

(* The state of HttpExchange that a state of the connection stands for. *)
Asked    == [k \in 1..Len(sent) |-> Meant(k, sent[k])]
Answered == [k \in 1..Len(view.done) |-> [request |-> Understood(k), answer |-> view.done[k]]]

LEMMA SentKept ==
  ASSUME [Next]_vars
  PROVE  \/ Ask
         \/ sent' = sent
<1> USE DEF client
<1>1. CASE Respond
  BY <1>1, RespondUntouched
<1>2. CASE Leave \/ ParseError \/ UNCHANGED vars
  BY <1>2 DEF Leave, ParseError, vars
<1>3. CASE Callback
  BY <1>3 DEF Callback, OnMessageBegin, OnUrl, OnUrlComplete, OnHeaderField, Refuse,
              OnHeaderFieldComplete, OnHeaderValue, OnHeaderValueComplete, OnHeadersComplete,
              OnBody, OnSpan, OnMessageComplete, ResponseStatus
<1> QED BY <1>1, <1>2, <1>3 DEF Next, OnRead

LEMMA AnsweredMeant ==
  ASSUME UnderstoodInv
  PROVE  Answered = [k \in 1..Len(view.done) |->
                       [request |-> Meant(k, sent[k]), answer |-> view.done[k]]]
BY DEF UnderstoodInv, Answered

LEMMA AskMapped ==
  ASSUME TypeInv, UnderstoodInv, Answered' = [k \in 1..Len(view'.done) |->
           [request |-> Meant(k, sent'[k]), answer |-> view'.done[k]]], Ask
  PROVE  Exchange!Ask
<1>1. /\ open /\ ~gone /\ Len(sent) < MaxRequests
      /\ UNCHANGED <<gone, view, open>>
  BY DEF Ask
<1>2. PICK s \in Shapes : sent' = Append(sent, s)
  BY DEF Ask
<1>3. sent \in Seq(Shapes) /\ Len(sent) \in Nat
  BY DEF TypeInv, TypeOK
<1> DEFINE n == Len(sent)
           u(k) == Meant(k, sent'[k])
<1>4. /\ Len(sent') = n + 1 /\ sent'[n + 1] = s /\ n \in Nat
      /\ \A k \in 1..n : sent'[k] = sent[k]
  BY <1>2, <1>3, AppendProperties
<1>5. Asked = [k \in 1..n |-> u(k)] /\ Asked' = [k \in 1..(n + 1) |-> u(k)]
      /\ u(n + 1) = Meant(n + 1, s)
  BY <1>4 DEF Asked
<1>6. Len(Asked) = n
  BY <1>4, <1>5
<1>7. Asked' = Append(Asked, Meant(Len(Asked) + 1, s))
  <2> HIDE DEF u, n
  <2>1. Append([k \in 1..n |-> u(k)], u(n + 1)) = [k \in 1..(n + 1) |-> u(k)]
    BY <1>4
  <2> QED BY <1>5, <1>6, <2>1
<1>8. Answered' = Answered
  <2>1. \A k \in 1..Len(view.done) : sent'[k] = sent[k]
    <3>1. \A k \in 1..Len(view.done) : k \in 1..n
      BY <1>3 DEF UnderstoodInv
    <3> QED BY <1>4, <3>1
  <2> QED BY <1>1, <2>1, AnsweredMeant
<1>9. (open /\ ~gone)' = (open /\ ~gone)
  BY <1>1
<1> QED BY <1>1, <1>6, <1>7, <1>8, <1>9 DEF Exchange!Ask, Asked, Answered

LEMMA AnswerMapped ==
  ASSUME TypeInv, TypeInv', UnderstoodInv, UnderstoodInv',
         Answered' = [k \in 1..Len(view'.done) |->
           [request |-> Meant(k, sent'[k]), answer |-> view'.done[k]]],
         sent' = sent, ~gone, open,
         NEW a, view'.done = Append(view.done, a)
  PROVE  Exchange!Answer
<1> DEFINE n == Len(view.done)
           u(k) == [request |-> Meant(k, sent[k]), answer |-> view'.done[k]]
<1>1. view.done \in Seq(AnswerType) /\ n \in Nat /\ sent \in Seq(Shapes) /\ Len(sent) \in Nat
  BY HistoryFacts DEF TypeInv, TypeOK
<1>2. /\ Len(view'.done) = n + 1 /\ view'.done[n + 1] = a
      /\ \A k \in 1..n : view'.done[k] = view.done[k]
  BY <1>1
<1>3. n + 1 <= Len(sent) /\ a \in AnswersTo(n + 1)
  <2>1. n + 1 \in 1..Len(view'.done)
    BY <1>1, <1>2
  <2> QED BY <1>2, <2>1 DEF UnderstoodInv
<1>4. /\ Answered = [k \in 1..n |-> u(k)] /\ Answered' = [k \in 1..(n + 1) |-> u(k)]
      /\ u(n + 1) = [request |-> Meant(n + 1, sent[n + 1]), answer |-> a]
  BY <1>1, <1>2, AnsweredMeant
<1>5. Len(Answered) = n /\ Len(Asked) = Len(sent) /\ Asked[n + 1] = Meant(n + 1, sent[n + 1])
  BY <1>1, <1>3, <1>4 DEF Asked
<1>6. Answered' = Append(Answered, [request |-> Asked[n + 1], answer |-> a])
  <2>1. u(n + 1) = [request |-> Asked[n + 1], answer |-> a]
    BY <1>4, <1>5
  <2> HIDE DEF u, n
  <2>2. Append([k \in 1..n |-> u(k)], u(n + 1)) = [k \in 1..(n + 1) |-> u(k)]
    BY <1>1
  <2> QED BY <1>4, <2>1, <2>2
<1>7. Asked' = Asked /\ (open /\ ~gone)' \in BOOLEAN
  BY DEF Asked
<1>8. Len(Answered) < Len(Asked) /\ a \in AnswersTo(Len(Answered) + 1)
  BY <1>1, <1>3, <1>5
<1>9. Answered' = Append(Answered, [request |-> Asked[Len(Answered) + 1], answer |-> a])
  BY <1>5, <1>6
<1> QED BY <1>7, <1>8, <1>9 DEF Exchange!Answer, Asked, Answered

LEMMA ExchangeStep ==
  ASSUME TypeInv, TypeInv', ResponseInv, UnderstoodInv, UnderstoodInv',
         Answered' = [k \in 1..Len(view'.done) |->
           [request |-> Meant(k, sent'[k]), answer |-> view'.done[k]]],
         [Next]_vars
  PROVE  [Exchange!ExchangeNext]_(Exchange!evars)
<1>1. CASE Ask
  BY <1>1, AskMapped DEF Exchange!ExchangeNext
<1>2. CASE Respond /\ view'.done # view.done
  <2>1. ~gone /\ open /\ \E a : view'.done = Append(view.done, a)
    BY <1>2, ViewGrows
  <2>2. sent' = sent
    BY <1>2, RespondUntouched
  <2>3. Exchange!Answer
    BY <2>1, <2>2, AnswerMapped
  <2> QED BY <2>3 DEF Exchange!ExchangeNext
<1>3. CASE ~Ask /\ ~(Respond /\ view'.done # view.done)
  <2>1. sent' = sent /\ view'.done = view.done
    BY <1>3, SentKept, ViewGrows
  <2>2. Asked' = Asked /\ Answered' = Answered
    BY <2>1, AnsweredMeant DEF Asked
  <2>3. ~(open /\ ~gone) => ~(open /\ ~gone)'
    <3>1. ~open => ~open'
      <4>1. CASE Respond
        BY <4>1, RespondUntouched
      <4>2. CASE Refuse \/ OnMessageComplete
        BY <4>2 DEF Refuse, OnMessageComplete, ResponseStatus, Parses
      <4>3. CASE ~Respond /\ ~Refuse /\ ~OnMessageComplete
        BY <4>3 DEF Next, OnRead, Callback, OnMessageBegin, OnUrl, OnUrlComplete,
                    OnHeaderField, OnHeaderFieldComplete, OnHeaderValue, OnHeaderValueComplete,
                    OnHeadersComplete, OnBody, OnSpan, Ask, Leave, ParseError, vars
      <4> QED BY <4>1, <4>2, <4>3
    <3>2. gone => gone'
      BY GoneStays
    <3> QED BY <3>1, <3>2
  <2>4. CASE (open /\ ~gone)' = (open /\ ~gone)
    BY <2>2, <2>4 DEF Exchange!evars, Asked, Answered
  <2>5. CASE (open /\ ~gone)' # (open /\ ~gone)
    <3>1. (open /\ ~gone) /\ (open /\ ~gone)' = FALSE
      BY <2>3, <2>5
    <3>2. Exchange!End
      BY <2>2, <3>1 DEF Exchange!End, Asked, Answered
    <3> QED BY <3>2 DEF Exchange!ExchangeNext
  <2> QED BY <2>4, <2>5
<1> QED BY <1>1, <1>2, <1>3

(* The connection is what HttpExchange promises, to the client's eye:      *)
(* requests are answered in the order they were asked, each at most once   *)
(* and with an answer to what was really asked, until one side ends the    *)
(* connection.                                                             *)
THEOREM ExchangeImplemented ==
  ASSUME SmallPieces, NoTrailers
  PROVE  Spec => ImplementsExchange
<1>1. Init => Exchange!ExchangeInit
  <2> SUFFICES ASSUME Init PROVE Exchange!ExchangeInit
    OBVIOUS
  <2>1. sent = <<>> /\ view.done = <<>> /\ open = TRUE /\ gone = FALSE
    BY DEF Init, ViewInit
  <2>2. Asked = <<>> /\ Answered = <<>>
    BY <2>1 DEF Asked, Answered
  <2> QED BY <2>1, <2>2 DEF Exchange!ExchangeInit, Asked, Answered
<1>2. TypeInv /\ RequestInv /\ FramingInv /\ AnswersInv => UnderstoodInv
  BY UnderstoodFollows DEF FramingInv
<1> DEFINE Same == Answered = [k \in 1..Len(view.done) |->
                                 [request |-> Meant(k, sent[k]), answer |-> view.done[k]]]
<1>3. UnderstoodInv => Same
  BY AnsweredMeant
<1>4. TypeInv /\ TypeInv' /\ FramingInv /\ UnderstoodInv /\ UnderstoodInv' /\ Same' /\ [Next]_vars
        => [Exchange!ExchangeNext]_(Exchange!evars)
  BY ExchangeStep DEF FramingInv
<1> HIDE DEF Same
<1> QED BY <1>1, <1>2, <1>3, <1>4, TypeInvariance, RequestInvariance, FramingInvariance,
           AnswersInvariance, PTL DEF Spec, ImplementsExchange, Exchange!ExchangeSpec
=============================================================================
