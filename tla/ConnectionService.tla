------------------------- MODULE ConnectionService -------------------------
(***************************************************************************)
(* What the socket server promises to the clients of the plugin, with no   *)
(* descriptors, no select and no loop over a vector: clients are accepted  *)
(* in the order they connected, the stream of each one reaches its own     *)
(* handler in order and without gaps, and a connection is ended only when  *)
(* its client has closed it and everything it sent was delivered, or when  *)
(* the handler rejected what was sent.  UdsServer implements this module.  *)
(***************************************************************************)
EXTENDS Integers, Sequences, SequencesExt

CONSTANTS
  Conns,      \* the client ends of connections
  StreamMax   \* bound: segments of a client that are under way

(* A segment is named after what on_read does with it. *)
Segments == {"part", "request", "reject"}

VARIABLES
  open,       \* the clients that have not closed their end
  waiting,    \* connected clients that the server has not accepted, in order
  connected,  \* accepted clients
  stream,     \* what each client has sent and the server has not delivered
  rejected    \* clients that were delivered a segment the handler rejects

svars == <<open, waiting, connected, stream, rejected>>

ServiceInit ==
  /\ open = {}
  /\ waiting = <<>>
  /\ connected = {}
  /\ stream = [c \in Conns |-> <<>>]
  /\ rejected = {}

Connect(c) ==
  /\ c \notin open \cup connected \cup ToSet(waiting)
  /\ open' = open \cup {c}
  /\ waiting' = Append(waiting, c)
  /\ stream' = [stream EXCEPT ![c] = <<>>]
  /\ UNCHANGED <<connected, rejected>>

Send(c) ==
  /\ c \in open
  /\ c \in connected \cup ToSet(waiting)
  /\ Len(stream[c]) < StreamMax
  /\ \E s \in Segments : stream' = [stream EXCEPT ![c] = Append(@, s)]
  /\ UNCHANGED <<open, waiting, connected, rejected>>

Leave(c) ==
  /\ c \in open
  /\ open' = open \ {c}
  /\ UNCHANGED <<waiting, connected, stream, rejected>>

Accept ==
  /\ waiting # <<>>
  /\ waiting' = Tail(waiting)
  /\ connected' = connected \cup {Head(waiting)}
  /\ UNCHANGED <<open, stream, rejected>>

(* The server may give up a client at the door, never later. *)
Refuse ==
  /\ waiting # <<>>
  /\ waiting' = Tail(waiting)
  /\ stream' = [stream EXCEPT ![Head(waiting)] = <<>>]
  /\ UNCHANGED <<open, connected, rejected>>

Deliver(c) ==
  /\ c \in connected \ rejected
  /\ \E k \in 1..Len(stream[c]) :
       /\ stream' = [stream EXCEPT ![c] = SubSeq(@, k + 1, Len(@))]
       /\ rejected' = IF "reject" \in ToSet(SubSeq(stream[c], 1, k))
                      THEN rejected \cup {c} ELSE rejected
  /\ UNCHANGED <<open, waiting, connected>>

Discard(c) ==
  /\ c \in rejected
  /\ stream' = [stream EXCEPT ![c] = <<>>]
  /\ UNCHANGED <<open, waiting, connected, rejected>>

Disconnect(c) ==
  /\ c \in connected
  /\ \/ c \in rejected
     \/ c \notin open /\ stream[c] = <<>>
  /\ connected' = connected \ {c}
  /\ rejected' = rejected \ {c}
  /\ stream' = [stream EXCEPT ![c] = <<>>]
  /\ UNCHANGED <<open, waiting>>

ServiceNext ==
  \/ Accept \/ Refuse
  \/ \E c \in Conns :
       \/ Connect(c) \/ Send(c) \/ Leave(c)
       \/ Deliver(c) \/ Discard(c) \/ Disconnect(c)

ServiceSpec == ServiceInit /\ [][ServiceNext]_svars
=============================================================================
