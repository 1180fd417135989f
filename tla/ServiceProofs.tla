---------------------------- MODULE ServiceProofs ---------------------------
(***************************************************************************)
(* UdsServer implements ConnectionService, for any number of clients,      *)
(* descriptors and segments.  IndInv, the invariant of UdsServerProofs,    *)
(* says which connections are live; what is added here is what handle_io   *)
(* knows of the stream of the connection it works on.                      *)
(***************************************************************************)
EXTENDS UdsServerProofs

(* What was received is worked through before anything else is done; a     *)
(* connection is about to be given up only if the handler rejected what it *)
(* got, or if its client has left and nothing is left of what it sent; and *)
(* a connection that was closed receives nothing more.                     *)
DeliveryInv ==
  /\ pc \notin {"read", "send", "return"} => work = <<>>
  /\ pc = "read" /\ m_socket[cur] = NoFd => "reject" \in ToSet(work)
  /\ pc = "return" /\ ~closed => work = <<>>
  /\ pc = "return" /\ closed =>
       "reject" \in ToSet(work) \/ (client[cur] # "open" /\ inbox[cur] = <<>>)
  /\ pc \in {"read", "return"} /\ m_socket[cur] = NoFd => inbox[cur] = <<>>

-----------------------------------------------------------------------------
(* on_connect and on_disconnect follow the life of the objects. *)
LEMMA LiveIsHooked ==
  ASSUME IndInv
  PROVE  Live = {c \in Conns : hooks[c] = 1}
<1>1. ASSUME NEW c \in Live PROVE c \in Conns
  BY LiveElements, Indices DEF IndInv, PositionInv, InAccept, IoPcs
<1> QED BY <1>1 DEF IndInv, HooksBalanced

LEMMA WorkHead ==
  ASSUME IndInv, work # <<>>
  PROVE  /\ Tail(work) \in Seq(Segments)
         /\ ToSet(work) = {Head(work)} \cup ToSet(Tail(work))
<1>1. /\ work \in Seq(Segments) /\ Len(work) \in Nat /\ Len(work) >= 1
      /\ Tail(work) \in Seq(Segments) /\ Len(Tail(work)) = Len(work) - 1
      /\ \A i \in 1..Len(Tail(work)) : Tail(work)[i] = work[i + 1]
      /\ Head(work) = work[1]
  BY HeadTailProperties DEF IndInv, TypeOK
<1>2. ToSet(work) = {work[i] : i \in 1..Len(work)}
  BY <1>1 DEF ToSet
<1>3. ToSet(Tail(work)) = {Tail(work)[i] : i \in 1..(Len(work) - 1)}
  <2>1. DOMAIN Tail(work) = 1..(Len(work) - 1)
    BY <1>1
  <2> QED BY <2>1 DEF ToSet
<1>5. \A i \in 1..(Len(work) - 1) : i + 1 \in 1..Len(work)
  BY <1>1
<1>6. 1 \in 1..Len(work)
  BY <1>1
<1>7. ASSUME NEW x \in ToSet(work) PROVE x \in {work[1]} \cup ToSet(Tail(work))
  <2>1. PICK i \in 1..Len(work) : x = work[i]
    BY <1>2
  <2>2. CASE i = 1
    BY <2>1, <2>2
  <2>3. CASE i # 1
    <3>1. i - 1 \in 1..(Len(work) - 1) /\ Tail(work)[i - 1] = work[i]
      BY <1>1, <2>3
    <3> QED BY <1>3, <2>1, <3>1
  <2> QED BY <2>2, <2>3
<1>8. ASSUME NEW x \in {work[1]} \cup ToSet(Tail(work)) PROVE x \in ToSet(work)
  BY <1>1, <1>2, <1>3, <1>5, <1>6
<1> QED BY <1>1, <1>7, <1>8

(* Who can send has an end at the server, and then waits or is live. *)
LEMMA ServerEnds ==
  ASSUME IndInv, NEW c \in Conns
  PROVE  HasServerEnd(c) <=>
           c \in ToSet(queue) \/ (c \in Live /\ m_socket[c] # NoFd)
<1>1. ASSUME NEW f \in Fds, fdtab[f] = c PROVE c \in Live /\ m_socket[c] # NoFd
  <2>1. c \in Live /\ m_socket[c] = f
    BY <1>1 DEF IndInv, FdOwnership
  <2> QED BY <2>1, FdsAssumption DEF NoFd
<1>2. ASSUME m_socket[c] # NoFd PROVE \E f \in Fds : fdtab[f] = c
  BY <1>2 DEF IndInv, TypeOK, FdOwnership
<1> QED BY <1>1, <1>2 DEF HasServerEnd

-----------------------------------------------------------------------------
LEMMA DeliveryStep ==
  ASSUME IndInv, IndInv', DeliveryInv, [Next]_vars
  PROVE  DeliveryInv'
<1> USE DEF kernel, objects, locals, history
<1>1. pc \in IoPcs => cur \in Conns /\ cur \in Live
  BY CurIsLive
<1>2. inbox \in [Conns -> Seq(Segments)] /\ client \in [Conns -> {"open", "closed", "reset"}]
  BY DEF IndInv, TypeOK
<1>3. CASE \E c \in Conns : Client(c)
  <2>1. PICK c \in Conns : Client(c)
    BY <1>3
  <2>2. UNCHANGED <<pc, work, cur, closed, m_socket>>
    BY <2>1 DEF Client, ClientConnect, ClientSend, ClientRead, ClientClose
  <2>3. pc \in IoPcs /\ inbox[cur] = <<>> /\ (client[cur] # "open" \/ m_socket[cur] = NoFd)
          => inbox'[cur] = <<>> /\ (client[cur] # "open" => client'[cur] # "open")
    <3> SUFFICES ASSUME pc \in IoPcs, inbox[cur] = <<>>, client[cur] # "open" \/ m_socket[cur] = NoFd
                 PROVE  inbox'[cur] = <<>> /\ (client[cur] # "open" => client'[cur] # "open")
      OBVIOUS
    <3>1. CASE ClientConnect(c)
      <4>1. c # cur
        BY <1>1, <3>1 DEF ClientConnect
      <4> QED BY <1>1, <1>2, <3>1, <4>1 DEF ClientConnect
    <3>2. CASE ClientSend(c)
      <4>1. c # cur
        <5>1. cur \notin ToSet(queue)
          BY <1>1, Indices DEF ToSet, IndInv, PositionInv
        <5> QED BY <1>1, <3>2, <5>1, ServerEnds DEF ClientSend
      <4> QED BY <1>1, <1>2, <3>2, <4>1 DEF ClientSend
    <3>3. CASE ClientRead(c) \/ ClientClose(c)
      BY <1>1, <1>2, <3>3 DEF ClientRead, ClientClose
    <3> QED BY <2>1, <3>1, <3>2, <3>3 DEF Client
  <2> QED BY <2>2, <2>3 DEF DeliveryInv, IoPcs
<1>4. CASE OtherOpen \/ OtherClose \/ UNCHANGED vars
  BY <1>4 DEF DeliveryInv, OtherOpen, OtherClose, vars
<1>5. CASE \/ EnterRun \/ SelectReady \/ SelectTimeout \/ SelectInterrupted
           \/ AcceptOk \/ AcceptLost \/ AcceptNoFd \/ LoopHandle \/ LoopSkip \/ LeaveRun
  BY <1>5 DEF DeliveryInv, EnterRun, SelectReady, SelectTimeout, SelectInterrupted, AcceptOk,
              AcceptLost, AcceptNoFd, LoopHandle, LoopSkip, LeaveRun, StartLoop
<1>6. CASE NewClosed \/ NewKept \/ OldClosed \/ OldKept
  BY <1>6 DEF DeliveryInv, NewClosed, NewKept, OldClosed, OldKept, StartLoop, EndIo
<1>7. CASE RecvData \/ RecvEof \/ RecvAgain
  <2>1. pc = "recv" /\ m_socket[cur] # NoFd /\ Peer = cur /\ work = <<>>
    BY <1>7, CurIsLive DEF RecvData, RecvEof, RecvAgain, IoPcs, DeliveryInv
  <2>2. m_socket' = m_socket /\ cur' = cur /\ client' = client
    BY <1>7 DEF RecvData, RecvEof, RecvAgain
  <2> QED BY <1>7, <2>1, <2>2 DEF RecvData, RecvEof, RecvAgain, DeliveryInv
<1>8. CASE RecvError
  <2>1. /\ pc = "recv" /\ m_socket[cur] # NoFd /\ Peer = cur /\ work = <<>>
        /\ inbox[cur] = <<>> /\ client[cur] = "reset" /\ pc' = "return" /\ closed'
        /\ UNCHANGED <<client, cur, work>>
    BY <1>8, CurIsLive DEF RecvError, IoPcs, DeliveryInv
  <2>2. inbox'[cur] = <<>>
    BY <1>1, <1>2, <1>8, <2>1 DEF RecvError, Close, CloseFd, Peer, IoPcs
  <2> QED BY <2>1, <2>2 DEF DeliveryInv
<1>9. CASE ReadPart \/ ReadRequest
  BY <1>9 DEF ReadPart, ReadRequest, DeliveryInv
<1>10. CASE ReadReject
  <2>1. /\ pc = "read" /\ m_socket[cur] # NoFd /\ Peer = cur /\ work # <<>>
        /\ Head(work) = "reject" /\ UNCHANGED <<pc, cur, work, client, closed>>
    BY <1>10, CurIsLive DEF ReadReject, IoPcs
  <2>2. inbox'[cur] = <<>>
    BY <1>1, <1>2, <1>10, <2>1 DEF ReadReject, Close, CloseFd, Peer, IoPcs
  <2>3. "reject" \in ToSet(work)
    BY <2>1, WorkHead
  <2> QED BY <2>1, <2>2, <2>3 DEF DeliveryInv
<1>11. CASE ReadDone
  BY <1>11 DEF ReadDone, DeliveryInv
<1>12. CASE SendSome \/ SendFailed
  <2>1. m_socket[cur] # NoFd
    BY <1>12, CurIsLive DEF SendSome, SendFailed, IoPcs
  <2>2. pc' \in {"send", "read"} /\ UNCHANGED <<m_socket, cur>>
    BY <1>12 DEF SendSome, SendFailed
  <2> QED BY <2>1, <2>2 DEF DeliveryInv
<1> QED BY <1>3, <1>4, <1>5, <1>6, <1>7, <1>8, <1>9, <1>10, <1>11, <1>12 DEF Next, Server

LEMMA Delivery == Spec => []DeliveryInv
<1>1. Init => DeliveryInv
  BY DEF Init, DeliveryInv
<1>2. IndInv /\ [Next]_vars => IndInv'
  BY IndInvStep
<1>3. IndInv /\ DeliveryInv /\ [Next]_vars => DeliveryInv'
  BY <1>2, DeliveryStep
<1> QED BY <1>1, <1>3, Invariance, PTL DEF Spec

-----------------------------------------------------------------------------
(* What the handler has rejected, as the mapping of Service sees it. *)
Rejected == IF "reject" \in ToSet(work) THEN {cur} ELSE {}

LEMMA LiveIsHookedNext == IndInv' => Live' = {c \in Conns : hooks'[c] = 1}
<1>1. IndInv => (Live = {c \in Conns : hooks[c] = 1})
  BY LiveIsHooked
<1>2. IndInv' => (Live = {c \in Conns : hooks[c] = 1})'
  BY <1>1, PTL
<1> QED BY <1>2

LEMMA LiveKept ==
  ASSUME IndInv, IndInv', hooks' = hooks
  PROVE  Live' = Live
BY LiveIsHooked, LiveIsHookedNext

LEMMA SameToSet == \A s : Service!ToSet(s) = ToSet(s)
BY DEF Service!ToSet, ToSet

(* A step that no client can see. *)
LEMMA Stutter ==
  ASSUME IndInv, IndInv', UNCHANGED <<client, queue, inbox, hooks>>, Rejected' = Rejected
  PROVE  UNCHANGED Service!svars
BY LiveKept DEF Rejected, Service!svars

-----------------------------------------------------------------------------
(* Every step is one of the service or a stutter, component by component.  *)
LEMMA ClientMapped ==
  ASSUME IndInv, IndInv', NEW c \in Conns, Client(c)
  PROVE  [Service!ServiceNext]_(Service!svars)
<1> USE DEF objects, locals, history
<1>1. inbox \in [Conns -> Seq(Segments)] /\ client \in [Conns -> {"open", "closed", "reset"}]
  BY DEF IndInv, TypeOK
<1>2. Live' = Live /\ UNCHANGED <<work, cur>>
  <2>1. hooks' = hooks /\ UNCHANGED <<work, cur>>
    BY DEF Client, ClientConnect, ClientSend, ClientRead, ClientClose
  <2> QED BY <2>1, LiveKept
<1>3. CASE ClientConnect(c)
  <2>1. c \notin ToSet(queue)
    BY <1>3 DEF ClientConnect, HasServerEnd
  <2>2. /\ client[c] # "open" /\ c \notin Live
        /\ queue' = Append(queue, c) /\ inbox' = [inbox EXCEPT ![c] = <<>>]
        /\ client' = [client EXCEPT ![c] = "open"]
    BY <1>3 DEF ClientConnect
  <2>3. {d \in Conns : client'[d] = "open"} = {d \in Conns : client[d] = "open"} \cup {c}
    BY <1>1, <2>2
  <2>4. c \notin {d \in Conns : client[d] = "open"} \cup Live \cup ToSet(queue)
    BY <2>1, <2>2
  <2>5. Rejected' = Rejected
    BY <1>2 DEF Rejected
  <2>6. Service!Connect(c)
    BY <1>2, <2>2, <2>3, <2>4, <2>5, SameToSet DEF Service!Connect, Rejected
  <2> QED BY <2>6 DEF Service!ServiceNext
<1>4. CASE ClientSend(c)
  <2>1. c \in ToSet(queue) \/ c \in Live
    BY <1>4, ServerEnds DEF ClientSend
  <2>2. /\ client[c] = "open" /\ Len(inbox[c]) < StreamMax
        /\ \E s \in Segments : inbox' = [inbox EXCEPT ![c] = Append(@, s)]
        /\ client' = client /\ queue' = queue
    BY <1>4 DEF ClientSend
  <2>3. Rejected' = Rejected
    BY <1>2 DEF Rejected
  <2>4. Service!Segments = Segments
    BY DEF Segments, Service!Segments
  <2>5. Service!Send(c)
    BY <1>2, <2>1, <2>2, <2>3, <2>4, SameToSet DEF Service!Send, Rejected
  <2> QED BY <2>5 DEF Service!ServiceNext
<1>5. CASE ClientClose(c)
  <2>1. Service!Leave(c)
    BY <1>1, <1>2, <1>5 DEF ClientClose, Service!Leave
  <2> QED BY <2>1 DEF Service!ServiceNext
<1>6. CASE ClientRead(c)
  BY <1>2, <1>6, Stutter DEF ClientRead, Rejected
<1> QED BY <1>3, <1>4, <1>5, <1>6 DEF Client

LEMMA AcceptMapped ==
  ASSUME IndInv, IndInv', DeliveryInv, AcceptOk \/ AcceptLost
  PROVE  [Service!ServiceNext]_(Service!svars)
<1> USE DEF objects, locals, history
<1> DEFINE h == Head(queue)
<1>1. /\ queue # <<>> /\ work = <<>> /\ work' = <<>> /\ client' = client
      /\ queue' = Tail(queue)
  BY DEF AcceptOk, AcceptLost, IndInv, PositionInv, DeliveryInv, StartLoop
<1>2. Rejected = {} /\ Rejected' = {}
  BY <1>1 DEF Rejected, ToSet
<1>3. h \in Conns /\ h \notin Live
  <2>1. queue \in Seq(Conns) /\ 1 \in 1..Len(queue) /\ h = queue[1]
    BY <1>1, HeadTailProperties DEF IndInv, TypeOK
  <2> QED BY <2>1 DEF IndInv, PositionInv
<1>4. CASE AcceptOk
  <2>0. hooks[h] = 0
    BY <1>3 DEF IndInv, HooksBalanced
  <2>1. hooks' = [hooks EXCEPT ![h] = 1] /\ inbox' = inbox
    BY <1>4, <2>0 DEF AcceptOk
  <2>2. Live' = Live \cup {h}
    BY <1>3, <2>1, LiveIsHooked, LiveIsHookedNext DEF IndInv, TypeOK
  <2>3. Service!Accept
    BY <1>1, <1>2, <2>1, <2>2 DEF Service!Accept, Rejected
  <2> QED BY <2>3 DEF Service!ServiceNext
<1>5. CASE AcceptLost
  <2>1. hooks' = hooks /\ inbox' = [inbox EXCEPT ![h] = <<>>]
    BY <1>5 DEF AcceptLost
  <2>2. Service!Refuse
    BY <1>1, <1>2, <2>1, LiveKept DEF Service!Refuse, Rejected
  <2> QED BY <2>2 DEF Service!ServiceNext
<1> QED BY <1>4, <1>5

LEMMA ReceiveMapped ==
  ASSUME IndInv, IndInv', DeliveryInv, RecvData \/ RecvEof \/ RecvError \/ RecvAgain
  PROVE  [Service!ServiceNext]_(Service!svars)
<1> USE DEF kernel, objects, locals, history
<1>1. /\ pc = "recv" /\ work = <<>> /\ cur \in Conns /\ cur \in Live
      /\ m_socket[cur] # NoFd /\ Peer = cur
  BY CurIsLive DEF RecvData, RecvEof, RecvError, RecvAgain, IoPcs, DeliveryInv
<1>2. UNCHANGED <<client, queue, cur, hooks>>
  BY DEF RecvData, RecvEof, RecvError, RecvAgain
<1>3. Rejected = {}
  BY <1>1 DEF Rejected, ToSet
<1>4. CASE RecvData
  <2>1. Live' = Live
    BY <1>2, LiveKept
  <2>2. PICK k \in 1..Len(inbox[cur]) :
          /\ work' = SubSeq(inbox[cur], 1, k)
          /\ inbox' = [inbox EXCEPT ![cur] = SubSeq(@, k + 1, Len(@))]
    BY <1>1, <1>4 DEF RecvData
  <2>3. Rejected' = IF "reject" \in ToSet(SubSeq(inbox[cur], 1, k))
                    THEN Rejected \cup {cur} ELSE Rejected
    BY <1>2, <1>3, <2>2 DEF Rejected
  <2>4. cur \in Live \ Rejected
    BY <1>1, <1>3
  <2>5. UNCHANGED <<client, queue>>
    BY <1>2
  <2>6. Service!Deliver(cur)
    BY <2>1, <2>2, <2>3, <2>4, <2>5, SameToSet DEF Service!Deliver, Rejected
  <2> QED BY <1>1, <2>6 DEF Service!ServiceNext
<1>5. CASE RecvError
  <2>1. inbox \in [Conns -> Seq(Segments)] /\ inbox[cur] = <<>> /\ work' = work
    BY <1>1, <1>5 DEF RecvError, IndInv, TypeOK
  <2>2. inbox' = [inbox EXCEPT ![cur] = <<>>]
    BY <1>1, <1>5 DEF RecvError, Close, CloseFd, Peer
  <2>3. inbox' = inbox
    BY <1>1, <2>1, <2>2
  <2> QED BY <1>2, <2>1, <2>3, Stutter DEF Rejected
<1>6. CASE RecvEof \/ RecvAgain
  BY <1>2, <1>6, Stutter DEF RecvEof, RecvAgain, Rejected
<1> QED BY <1>4, <1>5, <1>6

LEMMA ReadMapped ==
  ASSUME IndInv, IndInv', ReadPart \/ ReadRequest \/ ReadReject
  PROVE  [Service!ServiceNext]_(Service!svars)
<1> USE DEF kernel, objects, locals, history
<1>1. /\ cur \in Conns /\ m_socket[cur] # NoFd /\ Peer = cur /\ work # <<>>
      /\ UNCHANGED <<client, queue, cur, hooks>>
  BY CurIsLive DEF ReadPart, ReadRequest, ReadReject, IoPcs
<1>2. ToSet(work) = {Head(work)} \cup ToSet(Tail(work))
  BY <1>1, WorkHead
<1>3. CASE ReadPart \/ ReadRequest
  <2>1. work' = Tail(work) /\ inbox' = inbox /\ Head(work) # "reject"
    BY <1>3 DEF ReadPart, ReadRequest
  <2>2. Rejected' = Rejected
    BY <1>1, <1>2, <2>1 DEF Rejected
  <2> QED BY <1>1, <2>1, <2>2, Stutter
<1>4. CASE ReadReject
  <2>1. inbox' = [inbox EXCEPT ![cur] = <<>>] /\ work' = work /\ Head(work) = "reject"
    BY <1>1, <1>4 DEF ReadReject, Close, CloseFd, Peer
  <2>2. Rejected = {cur} /\ Rejected' = {cur}
    BY <1>1, <1>2, <2>1 DEF Rejected
  <2>3. Service!Discard(cur)
    BY <1>1, <2>1, <2>2, LiveKept DEF Service!Discard, Rejected
  <2> QED BY <1>1, <2>3 DEF Service!ServiceNext
<1> QED BY <1>3, <1>4

LEMMA DisconnectMapped ==
  ASSUME IndInv, IndInv', DeliveryInv, NewClosed \/ OldClosed
  PROVE  [Service!ServiceNext]_(Service!svars)
<1> USE DEF objects, locals, history
<1>1. /\ pc = "return" /\ closed /\ cur \in Conns /\ cur \in Live
      /\ m_socket[cur] # NoFd => Peer = cur
  BY CurIsLive DEF NewClosed, OldClosed, IoPcs
<1>2. /\ UNCHANGED <<client, queue>> /\ work' = <<>>
      /\ hooks' = [hooks EXCEPT ![cur] = @ - 1] /\ Destroy(cur)
  BY DEF NewClosed, OldClosed, OnDisconnect, EndIo
<1>3. Live' = Live \ {cur}
  <2>1. hooks[cur] = 1
    BY <1>1 DEF IndInv, HooksBalanced
  <2>2. hooks' = [hooks EXCEPT ![cur] = 0] /\ hooks \in [Conns -> Int]
    BY <1>2, <2>1 DEF IndInv, TypeOK
  <2> QED BY <1>1, <2>2, LiveIsHooked, LiveIsHookedNext
<1>4. inbox' = [inbox EXCEPT ![cur] = <<>>]
  <2>1. CASE m_socket[cur] # NoFd
    BY <1>1, <1>2, <2>1 DEF Destroy, CloseFd, Peer
  <2>2. CASE m_socket[cur] = NoFd
    BY <1>1, <1>2, <2>2 DEF Destroy, CloseFd, DeliveryInv, IndInv, TypeOK
  <2> QED BY <2>1, <2>2
<1>5. Rejected' = {} /\ Rejected \ {cur} = {}
  BY <1>2 DEF Rejected, ToSet
<1>6. cur \in Rejected \/ (client[cur] # "open" /\ inbox[cur] = <<>>)
  BY <1>1 DEF DeliveryInv, Rejected
<1>7. Service!Disconnect(cur)
  BY <1>1, <1>2, <1>3, <1>4, <1>5, <1>6 DEF Service!Disconnect, Rejected
<1> QED BY <1>1, <1>7 DEF Service!ServiceNext

LEMMA ServiceStep ==
  ASSUME IndInv, IndInv', DeliveryInv, [Next]_vars
  PROVE  [Service!ServiceNext]_(Service!svars)
<1> USE DEF kernel, objects, locals, history
<1>1. CASE \E c \in Conns : Client(c)
  BY <1>1, ClientMapped
<1>2. CASE AcceptOk \/ AcceptLost
  BY <1>2, AcceptMapped
<1>3. CASE RecvData \/ RecvEof \/ RecvError \/ RecvAgain
  BY <1>3, ReceiveMapped
<1>4. CASE ReadPart \/ ReadRequest \/ ReadReject
  BY <1>4, ReadMapped
<1>5. CASE NewClosed \/ OldClosed
  BY <1>5, DisconnectMapped
<1>6. CASE OtherOpen \/ OtherClose \/ ReadDone \/ SendSome \/ SendFailed \/ UNCHANGED vars
  BY <1>6, Stutter DEF OtherOpen, OtherClose, ReadDone, SendSome, SendFailed, vars, Rejected
<1>7. CASE \/ EnterRun \/ SelectReady \/ SelectTimeout \/ SelectInterrupted
           \/ AcceptNoFd \/ LoopSkip \/ LeaveRun
  BY <1>7, Stutter DEF EnterRun, SelectReady, SelectTimeout, SelectInterrupted, AcceptNoFd,
                       LoopSkip, LeaveRun, StartLoop, Rejected
<1>8. CASE LoopHandle \/ NewKept \/ OldKept
  <2>1. /\ work = <<>> /\ work' = <<>>
        /\ UNCHANGED <<client, queue, inbox, hooks>>
    BY <1>8 DEF LoopHandle, NewKept, OldKept, EndIo, DeliveryInv
  <2>2. Rejected' = Rejected
    BY <2>1 DEF Rejected, ToSet
  <2> QED BY <2>1, <2>2, Stutter
<1> QED BY <1>1, <1>2, <1>3, <1>4, <1>5, <1>6, <1>7, <1>8 DEF Next, Server

(* The server does what ConnectionService promises: connections are        *)
(* accepted in order, the stream of each reaches its handler in order and  *)
(* without gaps, and none is ended with data of a client undelivered       *)
(* unless the handler rejected what the client sent.                       *)
THEOREM ServiceImplemented == Spec => ImplementsService
<1>1. Init => Service!ServiceInit
  <2> SUFFICES ASSUME Init PROVE Service!ServiceInit
    OBVIOUS
  <2>1. Live = {}
    BY DEF Init, Live, InAccept, ToSet
  <2>2. Rejected = {}
    BY DEF Init, Rejected, ToSet
  <2> QED BY <2>1, <2>2 DEF Init, Service!ServiceInit, Rejected
<1>2. IndInv /\ IndInv' /\ DeliveryInv /\ [Next]_vars
        => [Service!ServiceNext]_(Service!svars)
  BY ServiceStep
<1> QED BY <1>1, <1>2, Invariance, Delivery, PTL
        DEF Spec, ImplementsService, Service!ServiceSpec
=============================================================================
