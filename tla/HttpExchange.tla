---------------------------- MODULE HttpExchange ----------------------------
(***************************************************************************)
(* What a keep-alive connection of the plugin promises to a client, with   *)
(* no parser, no buffers and no framing: requests are answered in the      *)
(* order they were asked, each one at most once and only with the answer   *)
(* to what was really asked, until the connection ends.  HttpConnection    *)
(* implements this module.                                                 *)
(***************************************************************************)
EXTENDS Integers, Sequences

CONSTANTS
  Request(_, _),  \* Request(k, s): the k-th request, of shape s, as a value
  Shapes,         \* shapes of requests
  MaxRequests,    \* bound: requests on one connection
  Answers(_)      \* Answers(k): what may be answered to the k-th request

VARIABLES
  asked,          \* requests the client has written
  answered,       \* pairs of a request as it was understood and its answer
  open            \* neither side has ended the connection

evars == <<asked, answered, open>>

ExchangeInit == asked = <<>> /\ answered = <<>> /\ open = TRUE

Ask ==
  /\ open /\ Len(asked) < MaxRequests
  /\ \E s \in Shapes : asked' = Append(asked, Request(Len(asked) + 1, s))
  /\ UNCHANGED <<answered, open>>

(* The next request gets its answer; the server may end the connection     *)
(* with it.                                                                *)
Answer ==
  /\ open /\ Len(answered) < Len(asked)
  /\ \E a \in Answers(Len(answered) + 1) :
       answered' = Append(answered, [request |-> asked[Len(answered) + 1], answer |-> a])
  /\ open' \in BOOLEAN
  /\ UNCHANGED asked

End == open /\ open' = FALSE /\ UNCHANGED <<asked, answered>>

ExchangeNext == Ask \/ Answer \/ End

ExchangeSpec == ExchangeInit /\ [][ExchangeNext]_evars
=============================================================================
