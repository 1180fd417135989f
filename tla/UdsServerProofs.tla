-------------------------- MODULE UdsServerProofs --------------------------
(***************************************************************************)
(* Theorems about UdsServer, for any number of clients, descriptors and    *)
(* segments.                                                               *)
(***************************************************************************)
EXTENDS UdsServer, SequenceTheorems, TLAPS

(* Removing position i moves the later elements one to the left: what      *)
(* m_connections.erase(it) does.                                           *)
LEMMA RemoveAtProperties ==
  ASSUME NEW S, NEW s \in Seq(S), NEW i \in 1..Len(s)
  PROVE  /\ RemoveAt(s, i) \in Seq(S)
         /\ Len(RemoveAt(s, i)) = Len(s) - 1
         /\ \A j \in 1..(Len(s) - 1) :
              RemoveAt(s, i)[j] = IF j < i THEN s[j] ELSE s[j + 1]
<1> DEFINE left == SubSeq(s, 1, i - 1)
           right == SubSeq(s, i + 1, Len(s))
<1>1. left \in Seq(S) /\ Len(left) = i - 1 /\ \A j \in 1..(i - 1) : left[j] = s[j]
  OBVIOUS
<1>2. /\ right \in Seq(S) /\ Len(right) = Len(s) - i
      /\ \A j \in 1..(Len(s) - i) : right[j] = s[i + j]
  OBVIOUS
<1>3. RemoveAt(s, i) = left \o right
  BY DEF RemoveAt
<1> HIDE DEF left, right
<1>4. /\ left \o right \in Seq(S)
      /\ Len(left \o right) = Len(left) + Len(right)
      /\ \A j \in 1..(Len(left) + Len(right)) :
           (left \o right)[j] = IF j <= Len(left) THEN left[j] ELSE right[j - Len(left)]
  <2>1. left \in Seq(S) /\ right \in Seq(S)
    BY <1>1, <1>2
  <2>2. QED
    BY <2>1, ConcatProperties, Zenon
<1>5. ASSUME NEW j \in 1..(Len(s) - 1)
      PROVE  (left \o right)[j] = IF j < i THEN s[j] ELSE s[j + 1]
  <2>1. j \in 1..(Len(left) + Len(right)) /\ Len(left) = i - 1
    BY <1>1, <1>2
  <2>2. CASE j < i
    <3>1. j <= Len(left) /\ j \in 1..(i - 1)
      BY <2>1, <2>2
    <3>2. QED
      BY <2>1, <2>2, <3>1, <1>1, <1>4
  <2>3. CASE ~(j < i)
    <3>1. /\ ~(j <= Len(left)) /\ j - Len(left) \in 1..(Len(s) - i)
          /\ i + (j - Len(left)) = j + 1
      BY <2>1, <2>3
    <3>2. QED
      BY <2>1, <2>3, <3>1, <1>2, <1>4
  <2>4. QED
    BY <2>2, <2>3
<1>6. Len(left \o right) = Len(s) - 1
  BY <1>1, <1>2, <1>4
<1>7. QED
  BY <1>3, <1>4, <1>5, <1>6

(* The indices of the two sequences and what they hold. *)
LEMMA Indices ==
  ASSUME TypeOK
  PROVE  /\ DOMAIN m_connections = 1..Len(m_connections) /\ Len(m_connections) \in Nat
         /\ DOMAIN queue = 1..Len(queue) /\ Len(queue) \in Nat
         /\ it \in Nat
         /\ \A i \in 1..Len(m_connections) : m_connections[i] \in Conns
<1>1. m_connections \in Seq(Conns) /\ queue \in Seq(Conns) /\ it \in Nat
  BY DEF TypeOK
<1>2. QED
  BY <1>1

(* The live objects, element by element. *)
LEMMA LiveElements ==
  ASSUME TypeOK, NEW c
  PROVE  c \in Live <=> \/ \E i \in 1..Len(m_connections) : c = m_connections[i]
                        \/ InAccept /\ c = cur
<1>1. ToSet(m_connections) = {m_connections[i] : i \in 1..Len(m_connections)}
  BY Indices, Zenon DEF ToSet
<1>2. QED
  BY <1>1 DEF Live

LEMMA InitIndInv == Init => IndInv
  <1> SUFFICES ASSUME Init PROVE IndInv
    OBVIOUS
  <1>1. TypeOK
    <2>1. <<>> \in Seq(Conns) /\ <<>> \in Seq(Segments)
      OBVIOUS
    <2>2. 0 \in 0..OutMax /\ 0 \in 0..RespLen
      BY BoundsAssumption
    <2>3. /\ m_socket \in [Conns -> Fds \cup {NoFd}]
          /\ hooks \in [Conns -> Int]
          /\ fdtab \in [Fds -> Conns \cup {NoConn, Other}]
          /\ client \in [Conns -> {"open", "closed", "reset"}]
      BY DEF Init
    <2>4. outbox \in [Conns -> 0..OutMax] /\ inbox \in [Conns -> Seq(Segments)]
      BY <2>1, <2>2 DEF Init
    <2>5. QED
      BY <2>1, <2>2, <2>3, <2>4 DEF Init, TypeOK, PcValues
  <1>2. Live = {}
    BY DEF Init, Live, ToSet, InAccept
  <1>3. QED
    BY <1>1, <1>2, ConnsAssumption DEF Init, IndInv, PositionInv, FdOwnership, SocketInv,
       HooksBalanced, ReadyInv, Ahead, IoPcs, NoFd

-----------------------------------------------------------------------------
(* Steps that change neither m_connections nor what run holds in `con'     *)
(* leave the set of live objects alone.                                    *)
LEMMA LiveUnchanged ==
  ASSUME m_connections' = m_connections,
         InAccept' <=> InAccept, InAccept => cur' = cur
  PROVE  Live' = Live
BY Zenon DEF Live, ToSet

(* Inside handle_io, cur is a live object, and as long as it has a         *)
(* descriptor, that descriptor leads to its own connection.                *)
LEMMA CurIsLive ==
  ASSUME IndInv, pc \in IoPcs
  PROVE  /\ cur \in Conns /\ cur \in Live
         /\ m_socket[cur] # NoFd => m_socket[cur] \in Fds /\ Peer = cur
         /\ pc \in {"recv", "send"} => m_socket[cur] # NoFd
<1>1. cur \in Conns
  BY DEF IndInv, PositionInv
<1>2. cur \in Live
  <2>1. CASE it = 0
    BY <2>1, LiveElements DEF IndInv, IoPcs, InAccept
  <2>2. CASE it > 0
    <3>1. it \in 1..Len(m_connections) /\ cur = m_connections[it]
      BY <2>2 DEF IndInv, PositionInv, TypeOK
    <3>2. QED
      BY <3>1, LiveElements DEF IndInv
  <2>3. QED
    BY <2>1, <2>2 DEF IndInv, TypeOK
<1>3. m_socket[cur] # NoFd => m_socket[cur] \in Fds /\ Peer = cur
  BY <1>1 DEF IndInv, TypeOK, FdOwnership, Peer
<1>4. pc \in {"recv", "send"} => m_socket[cur] # NoFd
  BY <1>2 DEF IndInv, SocketInv
<1>5. QED
  BY <1>1, <1>2, <1>3, <1>4

(* The loop does not come across cur a second time. *)
LEMMA CurIsBehind ==
  ASSUME IndInv, pc \in IoPcs, NEW i \in Ahead
  PROVE  m_connections[i] # cur
<1>1. i \in 1..Len(m_connections) /\ i > it
  BY DEF Ahead, IoPcs
<1>2. CASE it = 0
  BY <1>1, <1>2 DEF IndInv, PositionInv
<1>3. CASE it > 0
  <2>1. it \in 1..Len(m_connections) /\ cur = m_connections[it]
    BY <1>3 DEF IndInv, PositionInv, TypeOK
  <2>2. i # it
    BY <1>1 DEF IndInv, TypeOK
  <2>3. QED
    BY <1>1, <2>1, <2>2 DEF IndInv, PositionInv
<1>4. QED
  BY <1>2, <1>3 DEF IndInv, TypeOK

(* The parts of IndInv besides the types. *)
Parts == PositionInv /\ FdOwnership /\ SocketInv /\ HooksBalanced /\ ReadyInv

(* Steps of a client, of the rest of the process, and of run before select *)
(* returns: what they change is not what the invariant relates.            *)
LEMMA EnvironmentStep ==
  ASSUME IndInv,
         UNCHANGED <<queue, m_connections, m_socket, it, cur, ready, closed,
                     hooks, selected, served>>,
         \/ pc' = pc
         \/ pc \in {"idle", "select"} /\ pc' \in {"idle", "select"},
         \A f \in Fds : fdtab'[f] # fdtab[f] => {fdtab[f], fdtab'[f]} \cap Conns = {}
  PROVE  Parts'
<1>1. Live' = Live
  BY LiveUnchanged DEF InAccept
<1>2. Ahead' = Ahead
  BY DEF Ahead, IndInv, PositionInv
<1>3. PositionInv'
  BY <1>1 DEF IndInv, PositionInv, IoPcs
<1>4. FdOwnership'
  BY <1>1 DEF IndInv, TypeOK, FdOwnership
<1>5. SocketInv'
  BY <1>1 DEF IndInv, SocketInv
<1>6. HooksBalanced'
  BY <1>1 DEF IndInv, HooksBalanced
<1>7. ReadyInv'
  BY <1>2 DEF IndInv, ReadyInv
<1>8. QED
  BY <1>3, <1>4, <1>5, <1>6, <1>7 DEF Parts

(* Steps inside handle_io that close no descriptor. *)
LEMMA IoStep ==
  ASSUME IndInv, pc \in IoPcs, pc' \in IoPcs \ {"recv"},
         UNCHANGED <<queue, fdtab, m_connections, m_socket, it, cur, ready,
                     hooks, selected>>,
         served' = IF pc = "recv" THEN served \cup {cur} ELSE served,
         pc' = "return" /\ ~closed' => m_socket[cur] # NoFd,
         m_socket[cur] = NoFd => pc' \in {"read", "return"}
  PROVE  Parts'
<1>1. Live' = Live
  BY LiveUnchanged DEF InAccept, IoPcs
<1>2. Ahead' = Ahead
  BY DEF Ahead, IoPcs
<1>3. PositionInv'
  BY <1>1 DEF IndInv, PositionInv, IoPcs
<1>4. FdOwnership'
  BY <1>1 DEF IndInv, FdOwnership
<1>5. SocketInv'
  BY <1>1 DEF IndInv, SocketInv
<1>6. HooksBalanced'
  BY <1>1 DEF IndInv, HooksBalanced
<1>7. \A i \in Ahead : m_connections[i] # cur
  BY CurIsBehind
<1>8. ReadyInv'
  BY <1>2, <1>7 DEF IndInv, ReadyInv, IoPcs
<1>9. QED
  BY <1>3, <1>4, <1>5, <1>6, <1>8 DEF Parts

(* uds_connection::close inside handle_io. *)
LEMMA CloseStep ==
  ASSUME IndInv, pc \in IoPcs, pc' \in {"read", "return"},
         m_socket[cur] # NoFd, Close(cur),
         UNCHANGED <<queue, m_connections, it, cur, ready, hooks, selected>>,
         served' = IF pc = "recv" THEN served \cup {cur} ELSE served,
         pc' = "return" => closed'
  PROVE  Parts'
<1>1. Live' = Live
  BY LiveUnchanged DEF InAccept, IoPcs
<1>2. Ahead' = Ahead
  BY DEF Ahead, IoPcs
<1>3. /\ cur \in Conns /\ m_socket[cur] \in Fds /\ fdtab[m_socket[cur]] = cur
      /\ fdtab' = [fdtab EXCEPT ![m_socket[cur]] = NoConn]
      /\ m_socket' = [m_socket EXCEPT ![cur] = NoFd]
  BY CurIsLive DEF Close, CloseFd, Peer
<1>4. PositionInv'
  BY <1>1 DEF IndInv, PositionInv, IoPcs
<1>5. FdOwnership'
  BY <1>1, <1>3, ConnsAssumption DEF IndInv, TypeOK, FdOwnership
<1>6. SocketInv'
  BY <1>1, <1>3 DEF IndInv, TypeOK, SocketInv
<1>7. HooksBalanced'
  BY <1>1 DEF IndInv, HooksBalanced
<1>8. \A i \in Ahead : m_connections[i] # cur
  BY CurIsBehind
<1>9. \A i \in 1..Len(m_connections) :
        m_connections[i] # cur => m_socket'[m_connections[i]] = m_socket[m_connections[i]]
  BY <1>3 DEF IndInv, TypeOK
<1>10. ReadyInv'
  <2>1. \A i \in Ahead' :
          /\ m_socket'[m_connections'[i]] \in ready' <=> m_connections'[i] \in selected'
          /\ m_connections'[i] \in selected' => m_connections'[i] \notin served'
    BY <1>2, <1>8, <1>9 DEF IndInv, ReadyInv, Ahead
  <2>2. \A c \in selected' \ served' : \E i \in Ahead' : c = m_connections'[i]
    BY <1>2, <1>8 DEF IndInv, ReadyInv, IoPcs
  <2>3. ASSUME it = 0, NEW f \in ready \cap Fds
        PROVE  \E i \in 1..Len(m_connections) : m_socket'[m_connections[i]] = f
    <3>1. PICK i \in 1..Len(m_connections) : m_socket[m_connections[i]] = f
      BY <2>3 DEF IndInv, ReadyInv
    <3>2. m_connections[i] # cur
      BY <2>3 DEF IndInv, PositionInv
    <3>3. QED
      BY <3>1, <3>2, <1>9
  <2>4. QED
    BY <2>1, <2>2, <2>3 DEF IndInv, ReadyInv
<1>11. QED
  BY <1>4, <1>5, <1>6, <1>7, <1>10 DEF Parts

-----------------------------------------------------------------------------
(* The remaining steps, one lemma for each. *)

LEMMA ClientConnectStep ==
  ASSUME IndInv, NEW c \in Conns, ClientConnect(c)
  PROVE  Parts'
<1>1. Live' = Live
  BY LiveUnchanged DEF ClientConnect, objects, locals, InAccept
<1>2. Ahead' = Ahead
  BY DEF Ahead, ClientConnect, objects, locals
<1>3. /\ Len(queue') = Len(queue) + 1 /\ queue'[Len(queue) + 1] = c
      /\ \A i \in 1..Len(queue) : queue'[i] = queue[i]
      /\ Len(queue) \in Nat
  BY DEF ClientConnect, IndInv, TypeOK
<1>4. \A i \in 1..Len(queue) : queue[i] # c
  <2>1. c \notin ToSet(queue)
    BY DEF ClientConnect, HasServerEnd
  <2>2. QED
    BY <2>1, Indices DEF ToSet, IndInv
<1>5. PositionInv'
  <2>1. \A i, j \in 1..Len(queue') : queue'[i] = queue'[j] => i = j
    BY <1>3, <1>4 DEF IndInv, PositionInv
  <2>2. \A i \in 1..Len(queue') : queue'[i] \notin Live
    BY <1>3 DEF IndInv, PositionInv, ClientConnect
  <2>3. queue # <<>> => queue' # <<>>
    BY <1>3 DEF IndInv, TypeOK
  <2>4. QED
    BY <1>1, <2>1, <2>2, <2>3 DEF IndInv, PositionInv, ClientConnect, objects, locals
<1>6. FdOwnership' /\ SocketInv' /\ HooksBalanced'
  BY <1>1 DEF IndInv, FdOwnership, SocketInv, HooksBalanced, ClientConnect, objects, locals
<1>7. ReadyInv'
  BY <1>2 DEF IndInv, ReadyInv, ClientConnect, objects, locals
<1>8. QED
  BY <1>5, <1>6, <1>7 DEF Parts

LEMMA SelectReadyStep ==
  ASSUME IndInv, SelectReady
  PROVE  Parts'
<1>1. Live' = Live
  BY LiveUnchanged DEF SelectReady, objects, InAccept
<1>2. /\ UNCHANGED <<queue, fdtab, m_connections, m_socket, cur, closed, hooks, served>>
      /\ pc = "select" /\ it = 0
      /\ \/ pc' = "accept" /\ it' = 0 /\ queue # <<>>
         \/ pc' = "loop" /\ it' = 1
  <2>1. ASSUME NEW c \in ToSet(m_connections), m_socket[c] # NoFd
        PROVE  m_socket[c] \in Fds
    BY <2>1 DEF IndInv, TypeOK, ToSet
  <2>2. ListenFd \in ReadyFds => queue # <<>>
    BY <2>1, FdsAssumption DEF ReadyFds
  <2>3. QED
    BY <2>2 DEF SelectReady, kernel, objects, IndInv, PositionInv
<1>3. PositionInv'
  BY <1>1, <1>2 DEF IndInv, PositionInv, IoPcs
<1>4. FdOwnership' /\ SocketInv' /\ HooksBalanced'
  BY <1>1, <1>2 DEF IndInv, FdOwnership, SocketInv, HooksBalanced
<1>5. \A i \in 1..Len(m_connections) :
        /\ m_connections[i] \in Conns
        /\ m_socket[m_connections[i]] \in Fds
        /\ fdtab[m_socket[m_connections[i]]] = m_connections[i]
  <2> TAKE i \in 1..Len(m_connections)
  <2>1. m_connections[i] \in Conns /\ m_connections[i] \in Live
    BY LiveElements DEF IndInv, TypeOK
  <2>2. m_socket[m_connections[i]] # NoFd
    BY <1>2, <2>1 DEF IndInv, SocketInv
  <2>3. QED
    BY <2>1, <2>2 DEF IndInv, FdOwnership, TypeOK
<1>6. \A f \in ready' \cap Fds :
        \E i \in 1..Len(m_connections) : m_socket[m_connections[i]] = f
  <2> TAKE f \in ready' \cap Fds
  <2>1. f \in ReadyFds /\ f # ListenFd
    BY FdsAssumption DEF SelectReady
  <2>2. PICK c \in ToSet(m_connections) : m_socket[c] = f
    BY <2>1 DEF ReadyFds
  <2>3. PICK i \in DOMAIN m_connections : c = m_connections[i]
    BY <2>2 DEF ToSet
  <2>4. QED
    BY <2>2, <2>3 DEF IndInv, TypeOK
<1>7. selected' = {c \in Conns : \E f \in ready' \cap Fds : fdtab[f] = c}
  BY DEF SelectReady
<1>8. \A i \in 1..Len(m_connections) :
        m_socket[m_connections[i]] \in ready' <=> m_connections[i] \in selected'
  <2> TAKE i \in 1..Len(m_connections)
  <2>1. ASSUME m_connections[i] \in selected'
        PROVE  m_socket[m_connections[i]] \in ready'
    <3>1. PICK f \in ready' \cap Fds : fdtab[f] = m_connections[i]
      BY <1>7, <2>1
    <3>2. m_socket[m_connections[i]] = f
      BY <1>5, <3>1 DEF IndInv, FdOwnership
    <3>3. QED
      BY <3>1, <3>2
  <2>2. QED
    BY <2>1, <1>5, <1>7
<1>9. \A c \in selected' : \E i \in 1..Len(m_connections) : c = m_connections[i]
  BY <1>5, <1>6, <1>7
<1>10. served' = {} /\ Ahead' = 1..Len(m_connections)
  BY <1>2 DEF IndInv, ReadyInv, Ahead
<1>11. ReadyInv'
  BY <1>2, <1>6, <1>8, <1>9, <1>10 DEF ReadyInv
<1>12. QED
  BY <1>3, <1>4, <1>11 DEF Parts

LEMMA AcceptOkStep ==
  ASSUME IndInv, AcceptOk
  PROVE  Parts'
<1> DEFINE c == Head(queue)
<1>1. /\ pc = "accept" /\ it = 0 /\ pc' = "recv" /\ it' = 0 /\ cur' = c
      /\ UNCHANGED <<m_connections, ready, closed, selected, served>>
      /\ queue' = Tail(queue) /\ queue # <<>>
      /\ hooks' = [hooks EXCEPT ![c] = @ + 1]
  BY DEF AcceptOk, IndInv, PositionInv
<1>2. PICK f \in Fds : /\ fdtab[f] = NoConn
                       /\ fdtab' = [fdtab EXCEPT ![f] = c]
                       /\ m_socket' = [m_socket EXCEPT ![c] = f]
  BY DEF AcceptOk, LowestFree, FreeFds
<1>3. /\ c = queue[1] /\ c \in Conns /\ Len(queue') = Len(queue) - 1
      /\ Len(queue) \in Nat \ {0}
      /\ \A i \in 1..Len(queue') : queue'[i] = queue[i + 1]
  BY <1>1, HeadTailProperties DEF IndInv, TypeOK
<1>4. c \notin Live
  BY <1>3 DEF IndInv, PositionInv
<1>5. Live' = Live \cup {c}
  BY <1>1 DEF Live, InAccept
<1>6. \A i \in 1..Len(m_connections) : m_connections[i] \in Live /\ m_connections[i] # c
  BY <1>4, LiveElements DEF IndInv
<1>7. m_socket[c] = NoFd
  BY <1>3, <1>4 DEF IndInv, FdOwnership
<1> HIDE DEF c
<1>8. PositionInv'
  <2>1. \A i, j \in 1..Len(queue') : queue'[i] = queue'[j] => i = j
    BY <1>3 DEF IndInv, PositionInv
  <2>2. \A i \in 1..Len(queue') : queue'[i] \notin Live'
    BY <1>3, <1>5 DEF IndInv, PositionInv
  <2>3. QED
    BY <1>1, <1>3, <1>6, <2>1, <2>2 DEF IndInv, PositionInv, IoPcs
<1>9. FdOwnership'
  <2>1. ASSUME NEW g \in Fds, fdtab'[g] \in Conns
        PROVE  fdtab'[g] \in Live' /\ m_socket'[fdtab'[g]] = g
    <3>1. CASE g = f
      BY <3>1, <1>2, <1>3, <1>5 DEF IndInv, TypeOK
    <3>2. CASE g # f
      <4>1. fdtab'[g] = fdtab[g] /\ fdtab[g] \in Live /\ m_socket[fdtab[g]] = g
        BY <2>1, <3>2, <1>2 DEF IndInv, TypeOK, FdOwnership
      <4>2. fdtab[g] # c
        BY <4>1, <1>4
      <4>3. QED
        BY <2>1, <4>1, <4>2, <1>2, <1>5 DEF IndInv, TypeOK
    <3>3. QED
      BY <3>1, <3>2
  <2>2. ASSUME NEW d \in Conns, m_socket'[d] # NoFd
        PROVE  d \in Live' /\ fdtab'[m_socket'[d]] = d
    <3>1. CASE d = c
      BY <3>1, <1>2, <1>3, <1>5 DEF IndInv, TypeOK
    <3>2. CASE d # c
      <4>1. /\ m_socket'[d] = m_socket[d] /\ m_socket[d] \in Fds
            /\ d \in Live /\ fdtab[m_socket[d]] = d
        BY <2>2, <3>2, <1>2 DEF IndInv, TypeOK, FdOwnership
      <4>2. m_socket[d] # f
        BY <4>1, <1>2, ConnsAssumption
      <4>3. QED
        BY <4>1, <4>2, <1>2, <1>5 DEF IndInv, TypeOK
    <3>3. QED
      BY <3>1, <3>2
  <2>3. QED
    BY <2>1, <2>2 DEF FdOwnership
<1>10. SocketInv'
  BY <1>1, <1>2, <1>3, <1>4, <1>5, FdsAssumption DEF IndInv, TypeOK, SocketInv, NoFd
<1>11. HooksBalanced'
  BY <1>1, <1>3, <1>4, <1>5 DEF IndInv, TypeOK, HooksBalanced
<1>12. ReadyInv'
  <2>1. \A i \in 1..Len(m_connections) :
          m_socket'[m_connections[i]] = m_socket[m_connections[i]]
    <3>1. m_socket \in [Conns -> Fds \cup {NoFd}]
      BY DEF IndInv, TypeOK
    <3>2. QED
      BY <1>2, <1>6, <3>1, Indices DEF IndInv
  <2>2. Ahead' = Ahead
    BY <1>1 DEF Ahead
  <2>3. QED
    BY <1>1, <2>1, <2>2 DEF IndInv, ReadyInv, Ahead
<1>13. QED
  BY <1>8, <1>9, <1>10, <1>11, <1>12 DEF Parts

(* A failed accept4, with and without the connection. *)
LEMMA AcceptFailedStep ==
  ASSUME IndInv, AcceptLost \/ AcceptNoFd
  PROVE  Parts'
<1>1. /\ pc = "accept" /\ it = 0 /\ pc' = "loop" /\ it' = 1
      /\ UNCHANGED <<fdtab, m_connections, m_socket, cur, ready, closed, hooks,
                     selected, served>>
      /\ queue # <<>>
      /\ queue' = queue \/ queue' = Tail(queue)
  BY DEF AcceptLost, AcceptNoFd, StartLoop, kernel, objects, IndInv, PositionInv
<1>2. Live' = Live
  BY <1>1, LiveUnchanged DEF InAccept
<1>3. PositionInv'
  <2>1. CASE queue' = queue
    BY <1>1, <1>2, <2>1 DEF IndInv, PositionInv, IoPcs
  <2>2. CASE queue' = Tail(queue)
    <3>1. /\ Len(queue') = Len(queue) - 1 /\ Len(queue) \in Nat
          /\ \A i \in 1..Len(queue') : queue'[i] = queue[i + 1]
      BY <1>1, <2>2, HeadTailProperties DEF IndInv, TypeOK
    <3>2. \A i, j \in 1..Len(queue') : queue'[i] = queue'[j] => i = j
      BY <3>1 DEF IndInv, PositionInv
    <3>3. \A i \in 1..Len(queue') : queue'[i] \notin Live
      BY <3>1 DEF IndInv, PositionInv
    <3>4. QED
      BY <1>1, <1>2, <3>2, <3>3 DEF IndInv, PositionInv, IoPcs
  <2>3. QED
    BY <1>1, <2>1, <2>2
<1>4. FdOwnership' /\ SocketInv' /\ HooksBalanced'
  BY <1>1, <1>2 DEF IndInv, FdOwnership, SocketInv, HooksBalanced
<1>5. Ahead' = Ahead
  BY <1>1 DEF Ahead, IndInv, TypeOK
<1>6. ReadyInv'
  BY <1>1, <1>5 DEF IndInv, ReadyInv
<1>7. QED
  BY <1>3, <1>4, <1>6 DEF Parts

(* The destructor's ::close, when c leaves the live objects. *)
LEMMA DestroyStep ==
  ASSUME IndInv, pc \in IoPcs, Destroy(cur), OnDisconnect(cur), Live' = Live \ {cur}
  PROVE  FdOwnership' /\ HooksBalanced'
<1>1. cur \in Conns /\ cur \in Live
  BY CurIsLive
<1>2. HooksBalanced'
  BY <1>1 DEF IndInv, TypeOK, HooksBalanced, OnDisconnect
<1>3. CASE m_socket[cur] = NoFd
  <2>1. fdtab' = fdtab /\ m_socket' = m_socket
    BY <1>1, <1>3 DEF Destroy, CloseFd, IndInv, TypeOK
  <2>2. QED
    <3>1. \A f \in Fds : fdtab[f] # cur
      BY <1>1, <1>3, FdsAssumption DEF IndInv, FdOwnership, NoFd
    <3>2. QED
      BY <1>1, <1>2, <1>3, <2>1, <3>1 DEF IndInv, FdOwnership
<1>4. CASE m_socket[cur] # NoFd
  <2>1. /\ m_socket[cur] \in Fds /\ fdtab[m_socket[cur]] = cur
        /\ fdtab' = [fdtab EXCEPT ![m_socket[cur]] = NoConn]
        /\ m_socket' = [m_socket EXCEPT ![cur] = NoFd]
    BY <1>4, CurIsLive DEF Destroy, CloseFd, Peer
  <2>2. ASSUME NEW f \in Fds, fdtab'[f] \in Conns
        PROVE  fdtab'[f] \in Live' /\ m_socket'[fdtab'[f]] = f
    <3>1. f # m_socket[cur] /\ fdtab'[f] = fdtab[f]
      BY <2>1, <2>2, ConnsAssumption DEF IndInv, TypeOK
    <3>2. fdtab[f] \in Live /\ m_socket[fdtab[f]] = f
      BY <2>2, <3>1 DEF IndInv, FdOwnership
    <3>3. fdtab[f] # cur
      BY <3>1, <3>2
    <3>4. QED
      BY <2>1, <2>2, <3>1, <3>2, <3>3 DEF IndInv, TypeOK
  <2>3. ASSUME NEW c \in Conns, m_socket'[c] # NoFd
        PROVE  c \in Live' /\ fdtab'[m_socket'[c]] = c
    <3>1. c # cur /\ m_socket'[c] = m_socket[c]
      BY <2>1, <2>3, <1>1 DEF IndInv, TypeOK
    <3>2. c \in Live /\ m_socket[c] \in Fds /\ fdtab[m_socket[c]] = c
      BY <2>3, <3>1 DEF IndInv, FdOwnership, TypeOK
    <3>3. QED
      BY <2>1, <3>1, <3>2 DEF IndInv, TypeOK
  <2>4. QED
    BY <1>2, <2>2, <2>3 DEF FdOwnership
<1>5. QED
  BY <1>3, <1>4

LEMMA NewClosedStep ==
  ASSUME IndInv, NewClosed
  PROVE  Parts'
<1>1. /\ pc = "return" /\ it = 0 /\ pc' = "loop" /\ it' = 1
      /\ UNCHANGED <<queue, m_connections, ready, selected, served>>
      /\ OnDisconnect(cur) /\ Destroy(cur)
  BY DEF NewClosed, StartLoop
<1>2. cur \in Conns /\ cur \in Live
  BY <1>1, CurIsLive DEF IoPcs
<1>3. \A i \in 1..Len(m_connections) :
        m_connections[i] \in Live /\ m_connections[i] \in Conns /\ m_connections[i] # cur
  <2>1. \A i \in 1..Len(m_connections) : m_connections[i] \in Live
    BY LiveElements DEF IndInv
  <2>2. \A i \in 1..Len(m_connections) : m_connections[i] \in Conns
    BY Indices DEF IndInv
  <2>3. \A i \in 1..Len(m_connections) : m_connections[i] # cur
    BY <1>1 DEF IndInv, PositionInv, IoPcs
  <2>4. QED
    BY <2>1, <2>2, <2>3
<1>4. Live' = Live \ {cur}
  <2>1. cur \notin ToSet(m_connections)
    BY <1>3 DEF ToSet, IndInv, TypeOK
  <2>2. QED
    BY <1>1, <2>1 DEF Live, InAccept
<1>5. \A c \in Conns : c # cur => m_socket'[c] = m_socket[c]
  BY <1>1, <1>2 DEF Destroy, IndInv, TypeOK
<1>6. PositionInv'
  BY <1>1, <1>3, <1>4 DEF IndInv, PositionInv, IoPcs
<1>7. FdOwnership' /\ HooksBalanced'
  BY <1>1, <1>4, DestroyStep DEF IoPcs
<1>8. SocketInv'
  <2>1. \A c \in Live' : c \in Conns /\ c # cur /\ c \in Live
    BY <1>1, <1>3, <1>4, LiveElements DEF IndInv
  <2>2. QED
    BY <1>1, <1>5, <2>1 DEF IndInv, SocketInv
<1>9. \A i \in 1..Len(m_connections) :
        m_socket'[m_connections[i]] = m_socket[m_connections[i]]
  BY <1>3, <1>5
<1>10. Ahead' = Ahead
  BY <1>1 DEF Ahead, IndInv, TypeOK
<1>11. ReadyInv'
  BY <1>1, <1>9, <1>10 DEF IndInv, ReadyInv, Ahead
<1>12. QED
  BY <1>6, <1>7, <1>8, <1>11 DEF Parts

LEMMA NewKeptStep ==
  ASSUME IndInv, NewKept
  PROVE  Parts'
<1> DEFINE n == Len(m_connections)
<1>1. /\ pc = "return" /\ it = 0 /\ ~closed /\ pc' = "loop" /\ it' = 1
      /\ UNCHANGED <<queue, fdtab, m_socket, ready, hooks, selected, served>>
      /\ m_connections' = Append(m_connections, cur)
  BY DEF NewKept, StartLoop, kernel, history
<1>2. cur \in Conns /\ cur \in Live
  BY <1>1, CurIsLive DEF IoPcs
<1>3. /\ n \in Nat /\ Len(m_connections') = n + 1 /\ m_connections'[n + 1] = cur
      /\ \A i \in 1..n : m_connections'[i] = m_connections[i]
      /\ m_connections' \in Seq(Conns)
  BY <1>1, <1>2 DEF IndInv, TypeOK
<1>4. \A i \in 1..n : m_connections[i] # cur
  BY <1>1 DEF IndInv, PositionInv, IoPcs
<1>5. Live' = Live
  <2>1. ToSet(m_connections') = ToSet(m_connections) \cup {cur}
    <3>1. DOMAIN m_connections = 1..n /\ DOMAIN m_connections' = 1..(n + 1)
      BY <1>3 DEF IndInv, TypeOK
    <3>2. ToSet(m_connections) = {m_connections[i] : i \in 1..n}
      BY <3>1, Zenon DEF ToSet
    <3>3. ToSet(m_connections') = {m_connections'[i] : i \in 1..(n + 1)}
      BY <3>1, Zenon DEF ToSet
    <3>4. \A i \in 1..(n + 1) : i \in 1..n \/ i = n + 1
      BY <1>3
    <3>5. n + 1 \in 1..(n + 1) /\ 1..n \subseteq 1..(n + 1)
      BY <1>3
    <3>6. QED
      BY <1>3, <3>2, <3>3, <3>4, <3>5
  <2>2. QED
    BY <1>1, <2>1 DEF Live, InAccept
<1> HIDE DEF n
<1>6. PositionInv'
  <2>1. \A i, j \in 1..Len(m_connections') : m_connections'[i] = m_connections'[j] => i = j
    BY <1>3, <1>4 DEF IndInv, PositionInv, n
  <2>2. QED
    BY <1>1, <1>5, <2>1 DEF IndInv, PositionInv, IoPcs
<1>7. m_socket[cur] # NoFd
  BY <1>1 DEF IndInv, SocketInv
<1>8. FdOwnership' /\ SocketInv' /\ HooksBalanced'
  BY <1>1, <1>5, <1>7 DEF IndInv, FdOwnership, SocketInv, HooksBalanced
<1>9. ReadyInv'
  <2>1. m_socket[cur] \in Fds /\ fdtab[m_socket[cur]] = cur
    BY <1>2, <1>7 DEF IndInv, TypeOK, FdOwnership
  <2>2. cur \notin selected
    BY <1>1, <1>4 DEF IndInv, ReadyInv, n
  <2>3. m_socket[cur] \notin ready
    <3>1. SUFFICES ASSUME m_socket[cur] \in ready PROVE FALSE
      OBVIOUS
    <3>2. PICK i \in 1..n : m_socket[m_connections[i]] = m_socket[cur]
      BY <1>1, <2>1, <3>1 DEF IndInv, ReadyInv, n
    <3>3. fdtab[m_socket[m_connections[i]]] = m_connections[i]
      BY <1>7, <3>2 DEF IndInv, FdOwnership, TypeOK, n
    <3>4. QED
      BY <1>4, <2>1, <3>2, <3>3
  <2>4. Ahead = 1..n /\ Ahead' = 1..(n + 1)
    BY <1>1, <1>3 DEF Ahead, n
  <2>5. \A i \in 1..(n + 1) : i \in 1..n \/ i = n + 1
    BY <1>3
  <2>6. \A i \in Ahead' :
          /\ m_socket'[m_connections'[i]] \in ready' <=> m_connections'[i] \in selected'
          /\ m_connections'[i] \in selected' => m_connections'[i] \notin served'
    BY <1>1, <1>3, <2>2, <2>3, <2>4, <2>5 DEF IndInv, ReadyInv
  <2>7. ASSUME NEW c \in selected' \ served'
        PROVE  \E i \in Ahead' : c = m_connections'[i]
    <3>1. PICK i \in Ahead : c = m_connections[i]
      BY <1>1 DEF IndInv, ReadyInv
    <3>2. QED
      BY <3>1, <1>3, <2>4
  <2>8. pc' = "loop" /\ it' # 0
    BY <1>1
  <2>9. QED
    BY <2>6, <2>7, <2>8 DEF ReadyInv
<1>10. QED
  BY <1>6, <1>8, <1>9 DEF Parts

LEMMA OldClosedStep ==
  ASSUME IndInv, OldClosed
  PROVE  Parts'
<1> DEFINE n == Len(m_connections)
<1>1. /\ pc = "return" /\ it > 0 /\ pc' = "loop" /\ it' = it
      /\ UNCHANGED <<queue, ready, selected, served>>
      /\ m_connections' = RemoveAt(m_connections, it)
      /\ OnDisconnect(cur) /\ Destroy(cur)
  BY DEF OldClosed
<1>2. cur \in Conns /\ cur \in Live
  BY <1>1, CurIsLive DEF IoPcs
<1>3. it \in 1..n /\ cur = m_connections[it] /\ n \in Nat
  BY <1>1 DEF IndInv, PositionInv, IoPcs, TypeOK
<1>4. /\ Len(m_connections') = n - 1
      /\ \A j \in 1..(n - 1) :
           m_connections'[j] = IF j < it THEN m_connections[j] ELSE m_connections[j + 1]
      /\ m_connections' \in Seq(Conns)
  BY <1>1, <1>3, RemoveAtProperties DEF IndInv, TypeOK
<1>5. \A i, j \in 1..n : m_connections[i] = m_connections[j] => i = j
  BY DEF IndInv, PositionInv
<1> HIDE DEF n
<1>6. \A j \in 1..(n - 1) : m_connections'[j] # cur
  BY <1>3, <1>4, <1>5
<1>7. Live' = Live \ {cur}
  <2>1. ~InAccept /\ ~InAccept'
    BY <1>1 DEF InAccept
  <2>2. Live = ToSet(m_connections) /\ Live' = ToSet(m_connections')
    BY <2>1 DEF Live
  <2>3. ASSUME NEW c \in Live' PROVE c \in Live \ {cur}
    <3>1. PICK j \in 1..(n - 1) : c = m_connections'[j]
      BY <2>2, <2>3, <1>4 DEF ToSet
    <3>2. c # cur /\ \E i \in 1..n : c = m_connections[i]
      BY <3>1, <1>3, <1>4, <1>6
    <3>3. QED
      BY <3>2, <2>2 DEF ToSet, IndInv, TypeOK, n
  <2>4. ASSUME NEW c \in Live \ {cur} PROVE c \in Live'
    <3>1. PICK i \in 1..n : c = m_connections[i]
      BY <2>2, <2>4 DEF ToSet, IndInv, TypeOK, n
    <3>2. i # it
      BY <3>1, <2>4, <1>3
    <3>3. \E j \in 1..(n - 1) : c = m_connections'[j]
      <4>1. CASE i < it
        BY <4>1, <3>1, <1>3, <1>4
      <4>2. CASE i > it
        <5>1. i - 1 \in 1..(n - 1) /\ ~(i - 1 < it) /\ (i - 1) + 1 = i
          BY <4>2, <1>3
        <5>2. QED
          BY <5>1, <3>1, <1>4
      <4>3. QED
        BY <4>1, <4>2, <3>2, <1>3
    <3>4. QED
      BY <3>3, <2>2, <1>4 DEF ToSet
  <2>5. QED
    BY <2>3, <2>4
<1>8. FdOwnership' /\ HooksBalanced'
  BY <1>1, <1>7, DestroyStep DEF IoPcs
<1>9. \A c \in Conns : c # cur => m_socket'[c] = m_socket[c]
  BY <1>1, <1>2 DEF Destroy, IndInv, TypeOK
<1>10. PositionInv'
  <2>1. \A i, j \in 1..(n - 1) : m_connections'[i] = m_connections'[j] => i = j
    BY <1>3, <1>4, <1>5
  <2>2. QED
    BY <1>1, <1>4, <1>7, <2>1 DEF IndInv, PositionInv, IoPcs
<1>11. \A j \in 1..(n - 1) :
         /\ m_connections'[j] \in Conns
         /\ m_socket'[m_connections'[j]] = m_socket[m_connections'[j]]
  BY <1>4, <1>6, <1>9
<1>12. SocketInv'
  <2>1. ASSUME NEW c \in Live' PROVE m_socket'[c] # NoFd
    <3>1. c \in Live /\ c # cur /\ c \in Conns
      <4>1. c \in Live /\ c # cur
        BY <1>7, <2>1
      <4>2. PICK i \in 1..Len(m_connections) : c = m_connections[i]
        BY <1>1, <4>1, LiveElements DEF IndInv, InAccept
      <4>3. QED
        BY <4>1, <4>2 DEF IndInv, TypeOK
    <3>2. QED
      BY <3>1, <1>9 DEF IndInv, SocketInv
  <2>2. QED
    BY <1>1, <2>1 DEF SocketInv
<1>13. ReadyInv'
  <2>1. Ahead = (it + 1)..n /\ Ahead' = it..(n - 1)
    BY <1>1, <1>3, <1>4 DEF Ahead, n
  <2>2. \A j \in Ahead' : j + 1 \in Ahead /\ m_connections'[j] = m_connections[j + 1]
    BY <2>1, <1>3, <1>4
  <2>3. \A j \in Ahead' :
          /\ m_socket'[m_connections'[j]] \in ready' <=> m_connections'[j] \in selected'
          /\ m_connections'[j] \in selected' => m_connections'[j] \notin served'
    BY <1>1, <1>3, <1>11, <2>1, <2>2 DEF IndInv, ReadyInv
  <2>4. ASSUME NEW c \in selected' \ served'
        PROVE  \E j \in Ahead' : c = m_connections'[j]
    <3>1. PICK i \in Ahead : c = m_connections[i]
      BY <1>1 DEF IndInv, ReadyInv
    <3>2. i - 1 \in Ahead' /\ (i - 1) + 1 = i
      BY <2>1, <1>3
    <3>3. QED
      BY <3>1, <3>2, <2>2
  <2>5. QED
    BY <1>1, <2>3, <2>4 DEF ReadyInv
<1>14. QED
  BY <1>8, <1>10, <1>12, <1>13 DEF Parts

(* The steps of the loop that only move `it': OldKept and LoopSkip leave   *)
(* an element behind, LoopHandle hands it to handle_io.                    *)
LEMMA OldKeptStep ==
  ASSUME IndInv, OldKept
  PROVE  Parts'
<1>1. /\ pc = "return" /\ it > 0 /\ pc' = "loop" /\ it' = it + 1 /\ ~closed
      /\ UNCHANGED <<queue, fdtab, m_connections, m_socket, ready, hooks, selected, served>>
  BY DEF OldKept, kernel, objects, history
<1>2. Live' = Live
  BY <1>1, LiveUnchanged DEF InAccept
<1>3. Ahead' = Ahead
  BY <1>1 DEF Ahead, IndInv, TypeOK
<1>4. PositionInv'
  BY <1>1, <1>2 DEF IndInv, PositionInv, IoPcs, TypeOK
<1>5. FdOwnership' /\ HooksBalanced'
  BY <1>1, <1>2 DEF IndInv, FdOwnership, HooksBalanced
<1>6. SocketInv'
  BY <1>1, <1>2 DEF IndInv, SocketInv
<1>7. ReadyInv'
  BY <1>1, <1>3 DEF IndInv, ReadyInv, TypeOK
<1>8. QED
  BY <1>4, <1>5, <1>6, <1>7 DEF Parts

LEMMA LoopSkipStep ==
  ASSUME IndInv, LoopSkip
  PROVE  Parts'
<1>1. /\ pc = "loop" /\ it <= Len(m_connections) /\ pc' = "loop" /\ it' = it + 1
      /\ UNCHANGED <<queue, fdtab, m_connections, m_socket, cur, ready, closed, hooks,
                     selected, served>>
      /\ m_socket[m_connections[it]] \notin ready
  BY DEF LoopSkip, kernel, objects, history
<1>2. Live' = Live
  BY <1>1, LiveUnchanged DEF InAccept
<1>3. it \in Ahead /\ Ahead' = Ahead \ {it}
  <2>1. it \in 1..Len(m_connections)
    BY <1>1 DEF IndInv, PositionInv, TypeOK
  <2>2. \A i \in 1..Len(m_connections) : i >= it + 1 <=> i >= it /\ i # it
    BY <2>1
  <2>3. Ahead = {i \in 1..Len(m_connections) : i >= it}
    BY <1>1 DEF Ahead
  <2>4. Ahead' = {i \in 1..Len(m_connections) : i >= it + 1}
    BY <1>1 DEF Ahead
  <2>5. QED
    BY <2>1, <2>2, <2>3, <2>4
<1>4. PositionInv'
  BY <1>1, <1>2 DEF IndInv, PositionInv, IoPcs, TypeOK
<1>5. FdOwnership' /\ SocketInv' /\ HooksBalanced'
  BY <1>1, <1>2 DEF IndInv, FdOwnership, SocketInv, HooksBalanced
<1>6. ReadyInv'
  <2>1. m_connections[it] \notin selected
    BY <1>1, <1>3 DEF IndInv, ReadyInv
  <2>2. it' # 0
    BY <1>1 DEF IndInv, TypeOK
  <2>3. QED
    BY <1>1, <1>3, <2>1, <2>2 DEF IndInv, ReadyInv
<1>7. QED
  BY <1>4, <1>5, <1>6 DEF Parts

LEMMA LoopHandleStep ==
  ASSUME IndInv, LoopHandle
  PROVE  Parts'
<1>1. /\ pc = "loop" /\ it <= Len(m_connections) /\ pc' = "recv" /\ it' = it
      /\ cur' = m_connections[it]
      /\ UNCHANGED <<queue, fdtab, m_connections, m_socket, ready, closed, hooks,
                     selected, served>>
      /\ m_socket[m_connections[it]] \in ready
  BY DEF LoopHandle, kernel, objects, history
<1>2. it \in 1..Len(m_connections) /\ it > 0 /\ m_connections[it] \in Conns
  BY <1>1, Indices DEF IndInv, PositionInv
<1>3. Live' = Live
  BY <1>1, <1>2, LiveUnchanged DEF InAccept
<1>4. it \in Ahead /\ Ahead' = Ahead \ {it}
  <2>1. Ahead = {i \in 1..Len(m_connections) : i >= it}
    BY <1>1 DEF Ahead
  <2>2. Ahead' = {i \in 1..Len(m_connections) : i > it}
    BY <1>1 DEF Ahead
  <2>3. \A i \in 1..Len(m_connections) : i > it <=> i >= it /\ i # it
    BY <1>2
  <2>4. it >= it
    BY <1>2
  <2>5. QED
    BY <1>2, <2>1, <2>2, <2>3, <2>4
<1>5. PositionInv'
  BY <1>1, <1>2, <1>3 DEF IndInv, PositionInv, IoPcs
<1>6. FdOwnership' /\ HooksBalanced'
  BY <1>1, <1>3 DEF IndInv, FdOwnership, HooksBalanced
<1>7. SocketInv'
  BY <1>1, <1>3 DEF IndInv, SocketInv
<1>8. ReadyInv'
  <2>1. m_connections[it] \in selected \ served
    BY <1>1, <1>4 DEF IndInv, ReadyInv
  <2>2. QED
    BY <1>1, <1>2, <1>4, <2>1 DEF IndInv, ReadyInv
<1>9. QED
  BY <1>5, <1>6, <1>7, <1>8 DEF Parts

LEMMA LeaveRunStep ==
  ASSUME IndInv, LeaveRun
  PROVE  Parts'
<1>1. /\ pc = "loop" /\ pc' = "idle" /\ it' = 0
      /\ ready' = {} /\ selected' = {} /\ served' = {}
      /\ UNCHANGED <<queue, fdtab, m_connections, m_socket, cur, closed, hooks>>
  BY DEF LeaveRun, kernel, objects
<1>2. Live' = Live
  BY <1>1, LiveUnchanged DEF InAccept
<1>3. PositionInv'
  BY <1>1, <1>2 DEF IndInv, PositionInv, IoPcs
<1>4. FdOwnership' /\ SocketInv' /\ HooksBalanced'
  BY <1>1, <1>2 DEF IndInv, FdOwnership, SocketInv, HooksBalanced
<1>5. ReadyInv'
  BY <1>1 DEF ReadyInv
<1>6. QED
  BY <1>3, <1>4, <1>5 DEF Parts

-----------------------------------------------------------------------------
(* Types.  cur is a connection wherever a step uses it, and Peer is one    *)
(* because no descriptor is used after it was closed.                      *)
LEMMA TypeStep ==
  ASSUME IndInv, Next
  PROVE  TypeOK'
<1> USE DEF IndInv, TypeOK, PcValues, kernel, objects, locals, history
<1>1. CASE \E c \in Conns : Client(c)
  <2>1. PICK c \in Conns : Client(c)
    BY <1>1
  <2>2. CASE ClientConnect(c)
    <3>1. 0 \in 0..OutMax /\ <<>> \in Seq(Segments) /\ Append(queue, c) \in Seq(Conns)
      BY BoundsAssumption
    <3>2. QED
      BY <2>2, <3>1 DEF ClientConnect
  <2>3. CASE ClientSend(c)
    BY <2>3 DEF ClientSend
  <2>4. CASE ClientRead(c)
    <3>1. outbox[c] - 1 \in 0..OutMax
      BY <2>4, BoundsAssumption DEF ClientRead
    <3>2. QED
      BY <2>4, <3>1 DEF ClientRead
  <2>5. CASE ClientClose(c)
    BY <2>5 DEF ClientClose
  <2>6. QED
    BY <2>1, <2>2, <2>3, <2>4, <2>5 DEF Client
<1>2. CASE OtherOpen \/ OtherClose
  BY <1>2 DEF OtherOpen, OtherClose
<1>3. CASE EnterRun \/ SelectTimeout \/ SelectInterrupted
  BY <1>3 DEF EnterRun, SelectTimeout, SelectInterrupted
<1>4. CASE SelectReady
  <2>1. ReadyFds \in SUBSET (Fds \cup {ListenFd})
    BY DEF ReadyFds, ToSet
  <2>2. QED
    BY <1>4, <2>1 DEF SelectReady
<1>5. CASE AcceptOk
  <2>1. queue # <<>> /\ Head(queue) \in Conns /\ Tail(queue) \in Seq(Conns)
    BY <1>5, HeadTailProperties DEF AcceptOk, PositionInv
  <2>2. QED
    BY <1>5, <2>1 DEF AcceptOk, LowestFree, FreeFds
<1>6. CASE AcceptLost \/ AcceptNoFd
  <2>1. queue # <<>> /\ Head(queue) \in Conns /\ Tail(queue) \in Seq(Conns)
    BY <1>6, HeadTailProperties DEF AcceptLost, AcceptNoFd, PositionInv
  <2>2. CASE AcceptLost
    <3>1. [inbox EXCEPT ![Head(queue)] = <<>>] \in [Conns -> Seq(Segments)]
      BY <2>1
    <3>2. QED
      BY <2>1, <2>2, <3>1 DEF AcceptLost, StartLoop
  <2>3. CASE AcceptNoFd
    BY <2>3 DEF AcceptNoFd, StartLoop
  <2>4. QED
    BY <1>6, <2>2, <2>3
<1>7. CASE RecvData
  <2>1. Peer \in Conns
    BY <1>7, CurIsLive DEF RecvData, IoPcs
  <2>2. PICK k \in 1..Len(inbox[Peer]) :
          /\ work' = SubSeq(inbox[Peer], 1, k)
          /\ inbox' = [inbox EXCEPT ![Peer] = SubSeq(@, k + 1, Len(@))]
    BY <1>7 DEF RecvData
  <2>3. inbox[Peer] \in Seq(Segments)
    BY <2>1
  <2>4. /\ SubSeq(inbox[Peer], 1, k) \in Seq(Segments)
        /\ SubSeq(inbox[Peer], k + 1, Len(inbox[Peer])) \in Seq(Segments)
    BY <2>3
  <2>5. cur \in Conns
    BY <1>7, CurIsLive DEF RecvData, IoPcs
  <2>6. QED
    BY <1>7, <2>1, <2>2, <2>4, <2>5 DEF RecvData
<1>8. CASE RecvEof \/ RecvAgain
  <2>1. cur \in Conns
    BY <1>8, CurIsLive DEF RecvEof, RecvAgain, IoPcs
  <2>2. QED
    BY <1>8, <2>1 DEF RecvEof, RecvAgain
<1>9. ASSUME NEW c \in Conns, CloseFd(c), m_socket' = [m_socket EXCEPT ![c] = NoFd]
      PROVE  /\ fdtab' \in [Fds -> Conns \cup {NoConn, Other}]
             /\ inbox' \in [Conns -> Seq(Segments)]
             /\ m_socket' \in [Conns -> Fds \cup {NoFd}]
  <2>1. m_socket' \in [Conns -> Fds \cup {NoFd}]
    BY <1>9
  <2>2. CASE m_socket[c] = NoFd
    BY <1>9, <2>1, <2>2 DEF CloseFd
  <2>3. CASE m_socket[c] # NoFd
    <3>1. /\ fdtab' = [fdtab EXCEPT ![m_socket[c]] = NoConn]
          /\ inbox' = [inbox EXCEPT ![fdtab[m_socket[c]]] = <<>>]
      BY <1>9, <2>3 DEF CloseFd
    <3>2. <<>> \in Seq(Segments)
      OBVIOUS
    <3>3. fdtab' \in [Fds -> Conns \cup {NoConn, Other}]
      BY <3>1
    <3>4. inbox' \in [Conns -> Seq(Segments)]
      BY <3>1, <3>2
    <3>5. QED
      BY <2>1, <3>3, <3>4
  <2>4. QED
    BY <2>2, <2>3
<1>10. CASE RecvError
  <2>1. cur \in Conns
    BY <1>10, CurIsLive DEF RecvError, IoPcs
  <2>2. CloseFd(cur) /\ m_socket' = [m_socket EXCEPT ![cur] = NoFd]
    BY <1>10 DEF RecvError, Close
  <2>3. QED
    BY <1>10, <2>1, <2>2, <1>9 DEF RecvError
<1>11. CASE ReadReject
  <2>1. cur \in Conns
    BY <1>11, CurIsLive DEF ReadReject, IoPcs
  <2>2. CloseFd(cur) /\ m_socket' = [m_socket EXCEPT ![cur] = NoFd]
    BY <1>11 DEF ReadReject, Close
  <2>3. QED
    BY <1>11, <2>1, <2>2, <1>9 DEF ReadReject
<1>12. CASE ReadPart \/ ReadRequest
  <2>1. Tail(work) \in Seq(Segments) /\ RespLen \in 0..RespLen
    BY <1>12, HeadTailProperties, BoundsAssumption DEF ReadPart, ReadRequest
  <2>2. QED
    BY <1>12, <2>1 DEF ReadPart, ReadRequest
<1>13. CASE ReadDone
  BY <1>13 DEF ReadDone
<1>14. CASE SendSome
  <2>1. Peer \in Conns
    BY <1>14, CurIsLive DEF SendSome, IoPcs
  <2>2. PICK n \in 1..remaining :
          /\ outbox[Peer] + n <= OutMax
          /\ outbox' = [outbox EXCEPT ![Peer] = @ + n]
          /\ remaining' = remaining - n
          /\ torn' = IF n < remaining THEN torn \cup {Peer} ELSE torn \ {Peer}
          /\ pc' = IF n < remaining THEN "send" ELSE "read"
    BY <1>14 DEF SendSome
  <2>3. outbox[Peer] + n \in 0..OutMax /\ remaining - n \in 0..RespLen
    BY <2>1, <2>2, BoundsAssumption
  <2>4. QED
    BY <1>14, <2>1, <2>2, <2>3 DEF SendSome
<1>15. CASE SendFailed
  <2>1. Peer \in Conns
    BY <1>15, CurIsLive DEF SendFailed, IoPcs
  <2>2. 0 \in 0..RespLen
    BY BoundsAssumption
  <2>3. QED
    BY <1>15, <2>1, <2>2 DEF SendFailed
<1>16. CASE NewClosed \/ OldClosed
  <2>1. pc = "return" /\ cur \in Conns
    BY <1>16, CurIsLive DEF NewClosed, OldClosed, IoPcs
  <2>2. CloseFd(cur) /\ m_socket' = [m_socket EXCEPT ![cur] = NoFd]
    BY <1>16 DEF NewClosed, OldClosed, Destroy
  <2>3. hooks' \in [Conns -> Int]
    BY <1>16, <2>1 DEF NewClosed, OldClosed, OnDisconnect
  <2>4. m_connections' \in Seq(Conns)
    <3>1. CASE NewClosed
      BY <3>1 DEF NewClosed
    <3>2. CASE OldClosed
      <4>1. it \in 1..Len(m_connections)
        BY <3>2 DEF OldClosed, PositionInv, IoPcs
      <4>2. QED
        BY <3>2, <4>1, RemoveAtProperties DEF OldClosed
    <3>3. QED
      BY <1>16, <3>1, <3>2
  <2>5. <<>> \in Seq(Segments)
    OBVIOUS
  <2>6. /\ fdtab' \in [Fds -> Conns \cup {NoConn, Other}]
        /\ inbox' \in [Conns -> Seq(Segments)]
        /\ m_socket' \in [Conns -> Fds \cup {NoFd}]
    BY <2>1, <2>2, <1>9
  <2>7. /\ pc' = "loop" /\ it' \in Nat /\ cur' = NoConn /\ work' = <<>> /\ closed' = FALSE
        /\ UNCHANGED <<client, queue, outbox, ready, remaining, ret, selected, served,
                       torn, failed>>
    BY <1>16 DEF NewClosed, OldClosed, StartLoop, EndIo
  <2>8. QED
    BY <2>3, <2>4, <2>5, <2>6, <2>7
<1>17. CASE NewKept \/ OldKept
  <2>1. pc = "return" /\ cur \in Conns
    BY <1>17, CurIsLive DEF NewKept, OldKept, IoPcs
  <2>2. Append(m_connections, cur) \in Seq(Conns) /\ <<>> \in Seq(Segments)
    BY <2>1
  <2>3. m_connections' \in Seq(Conns)
    BY <1>17, <2>2 DEF NewKept, OldKept
  <2>4. /\ pc' = "loop" /\ it' \in Nat /\ cur' = NoConn /\ work' = <<>> /\ closed' = FALSE
        /\ UNCHANGED <<client, queue, inbox, outbox, fdtab, m_socket, ready, remaining, ret,
                       hooks, selected, served, torn, failed>>
    BY <1>17 DEF NewKept, OldKept, StartLoop, EndIo
  <2>5. QED
    BY <2>2, <2>3, <2>4
<1>18. CASE LoopHandle \/ LoopSkip
  <2>1. m_connections[it] \in Conns
    <3>1. it \in 1..Len(m_connections)
      BY <1>18 DEF LoopHandle, LoopSkip, PositionInv
    <3>2. QED
      BY <3>1
  <2>2. CASE LoopHandle
    BY <2>1, <2>2 DEF LoopHandle
  <2>3. CASE LoopSkip
    <3>1. it' \in Nat /\ pc' = pc /\ cur' = cur
      BY <2>3 DEF LoopSkip
    <3>2. /\ UNCHANGED <<client, queue, inbox, outbox, fdtab, m_connections, m_socket>>
          /\ UNCHANGED <<ready, work, remaining, closed, ret>>
          /\ UNCHANGED <<hooks, selected, served, torn, failed>>
      BY <2>3 DEF LoopSkip
    <3>3. QED
      BY <3>1, <3>2
  <2>4. QED
    BY <1>18, <2>2, <2>3
<1>19. CASE LeaveRun
  BY <1>19 DEF LeaveRun
<1>20. QED
  BY <1>1, <1>2, <1>3, <1>4, <1>5, <1>6, <1>7, <1>8, <1>10, <1>11, <1>12, <1>13, <1>14,
     <1>15, <1>16, <1>17, <1>18, <1>19 DEF Next, Server

-----------------------------------------------------------------------------
(* IndInv is inductive. *)
LEMMA IndInvStep == IndInv /\ [Next]_vars => IndInv'
<1> SUFFICES ASSUME IndInv, [Next]_vars PROVE IndInv'
  OBVIOUS
<1>1. CASE UNCHANGED vars
  <2>1. TypeOK'
    <3>1. /\ UNCHANGED <<client, queue, inbox, outbox, fdtab, m_connections, m_socket>>
          /\ UNCHANGED <<pc, it, cur, ready, work, remaining, closed, ret>>
          /\ UNCHANGED <<hooks, selected, served, torn, failed>>
      BY <1>1 DEF vars, kernel, objects, locals, history
    <3>2. QED
      BY <3>1 DEF IndInv, TypeOK
  <2>2. Parts'
    BY <1>1, EnvironmentStep DEF vars, kernel, objects, locals, history
  <2>3. QED
    BY <2>1, <2>2 DEF IndInv, Parts
<1>2. CASE Next
  <2>1. TypeOK'
    BY <1>2, TypeStep
  <2>2. Parts'
    <3> USE DEF kernel, objects, locals, history
    <3>1. CASE \E c \in Conns : Client(c)
      <4>1. PICK c \in Conns : Client(c)
        BY <3>1
      <4>2. CASE ClientConnect(c)
        BY <4>2, ClientConnectStep
      <4>3. CASE ClientSend(c) \/ ClientRead(c) \/ ClientClose(c)
        BY <4>3, EnvironmentStep DEF ClientSend, ClientRead, ClientClose
      <4>4. QED
        BY <4>1, <4>2, <4>3 DEF Client
    <3>2. CASE OtherOpen
      <4>1. PICK f \in Fds : LowestFree(f) /\ fdtab' = [fdtab EXCEPT ![f] = Other]
        BY <3>2 DEF OtherOpen
      <4>2. \A g \in Fds : fdtab'[g] # fdtab[g] => {fdtab[g], fdtab'[g]} \cap Conns = {}
        BY <4>1, ConnsAssumption DEF LowestFree, FreeFds, IndInv, TypeOK
      <4>3. QED
        BY <3>2, <4>2, EnvironmentStep DEF OtherOpen
    <3>3. CASE OtherClose
      <4>1. PICK f \in OtherFds : fdtab' = [fdtab EXCEPT ![f] = NoConn]
        BY <3>3 DEF OtherClose
      <4>2. \A g \in Fds : fdtab'[g] # fdtab[g] => {fdtab[g], fdtab'[g]} \cap Conns = {}
        BY <4>1, ConnsAssumption DEF OtherFds, IndInv, TypeOK
      <4>3. QED
        BY <3>3, <4>2, EnvironmentStep DEF OtherClose
    <3>4. CASE EnterRun \/ SelectTimeout \/ SelectInterrupted
      BY <3>4, EnvironmentStep DEF EnterRun, SelectTimeout, SelectInterrupted
    <3>5. CASE SelectReady
      BY <3>5, SelectReadyStep
    <3>6. CASE AcceptOk
      BY <3>6, AcceptOkStep
    <3>7. CASE AcceptLost \/ AcceptNoFd
      BY <3>7, AcceptFailedStep
    <3>8. CASE RecvData \/ RecvEof \/ RecvAgain
      <4>1. m_socket[cur] # NoFd
        BY <3>8, CurIsLive DEF RecvData, RecvEof, RecvAgain, IoPcs
      <4>2. QED
        BY <3>8, <4>1, IoStep DEF RecvData, RecvEof, RecvAgain, IoPcs
    <3>9. CASE RecvError
      <4>1. m_socket[cur] # NoFd
        BY <3>9, CurIsLive DEF RecvError, IoPcs
      <4>2. QED
        BY <3>9, <4>1, CloseStep DEF RecvError, IoPcs
    <3>10. CASE ReadReject
      BY <3>10, CloseStep DEF ReadReject, IoPcs
    <3>11. CASE ReadPart \/ ReadRequest \/ ReadDone
      BY <3>11, IoStep DEF ReadPart, ReadRequest, ReadDone, IoPcs
    <3>12. CASE SendSome \/ SendFailed
      <4>1. m_socket[cur] # NoFd
        BY <3>12, CurIsLive DEF SendSome, SendFailed, IoPcs
      <4>2. QED
        BY <3>12, <4>1, IoStep DEF SendSome, SendFailed, IoPcs
    <3>13. CASE NewClosed
      BY <3>13, NewClosedStep
    <3>14. CASE NewKept
      BY <3>14, NewKeptStep
    <3>15. CASE OldClosed
      BY <3>15, OldClosedStep
    <3>16. CASE OldKept
      BY <3>16, OldKeptStep
    <3>17. CASE LoopHandle
      BY <3>17, LoopHandleStep
    <3>18. CASE LoopSkip
      BY <3>18, LoopSkipStep
    <3>19. CASE LeaveRun
      BY <3>19, LeaveRunStep
    <3>20. QED
      BY <1>2, <3>1, <3>2, <3>3, <3>4, <3>5, <3>6, <3>7, <3>8, <3>9, <3>10, <3>11, <3>12,
         <3>13, <3>14, <3>15, <3>16, <3>17, <3>18, <3>19 DEF Next, Server
  <2>3. QED
    BY <2>1, <2>2 DEF IndInv, Parts
<1>3. QED
  BY <1>1, <1>2

(* The loop never leaves the states that IndInv describes, whatever the    *)
(* clients, the kernel and the rest of the process do.                     *)
THEOREM Invariance == Spec => []IndInv
<1>1. IndInv /\ [Next]_vars => IndInv'
  BY IndInvStep
<1>2. QED
  BY InitIndInv, <1>1, PTL DEF Spec

(* Every variable keeps its type: in particular recv, send and close only  *)
(* ever meet a connection behind a descriptor.                             *)
THEOREM TypeCorrect == Spec => []TypeOK
<1>1. IndInv => TypeOK
  BY DEF IndInv
<1>2. QED
  BY Invariance, <1>1, PTL

(* No descriptor leaks, none is closed twice, none is used after the       *)
(* kernel gave its number to somebody else.                                *)
THEOREM DescriptorsOwned == Spec => []FdOwnership
<1>1. IndInv => FdOwnership
  BY DEF IndInv
<1>2. QED
  BY Invariance, <1>1, PTL

(* Whenever run is about to build the fd_set, every element of             *)
(* m_connections has a descriptor of its own that is open.                 *)
THEOREM PollSetSound == Spec => []PolledDescriptorsOpen
<1>1. IndInv => PolledDescriptorsOpen
  <2> SUFFICES ASSUME IndInv, pc \in {"idle", "select", "accept"}
               PROVE  /\ \A i \in DOMAIN m_connections : HasServerEnd(m_connections[i])
                      /\ \A i \in DOMAIN m_connections : m_socket[m_connections[i]] # NoFd
                      /\ \A i, j \in DOMAIN m_connections :
                           m_socket[m_connections[i]] = m_socket[m_connections[j]] => i = j
    BY DEF PolledDescriptorsOpen
  <2>1. ASSUME NEW i \in DOMAIN m_connections
        PROVE  /\ m_connections[i] \in Conns
               /\ m_socket[m_connections[i]] # NoFd
               /\ m_socket[m_connections[i]] \in Fds
               /\ fdtab[m_socket[m_connections[i]]] = m_connections[i]
    <3>1. i \in 1..Len(m_connections) /\ m_connections[i] \in Conns
      BY Indices DEF IndInv
    <3>2. m_connections[i] \in Conns /\ m_connections[i] \in Live
      BY <3>1, LiveElements DEF IndInv
    <3>3. m_socket[m_connections[i]] # NoFd
      BY <3>2 DEF IndInv, SocketInv
    <3>4. QED
      BY <3>2, <3>3 DEF IndInv, FdOwnership, TypeOK
  <2>2. ASSUME NEW i \in DOMAIN m_connections PROVE HasServerEnd(m_connections[i])
    BY <2>1 DEF HasServerEnd
  <2>3. ASSUME NEW i \in DOMAIN m_connections, NEW j \in DOMAIN m_connections,
               m_socket[m_connections[i]] = m_socket[m_connections[j]]
        PROVE  i = j
    <3>1. m_connections[i] = m_connections[j]
      BY <2>1, <2>3
    <3>2. DOMAIN m_connections = 1..Len(m_connections)
      BY Indices DEF IndInv
    <3>3. QED
      BY <3>1, <3>2 DEF IndInv, PositionInv
  <2>4. QED
    BY <2>1, <2>2, <2>3
<1>2. QED
  BY Invariance, <1>1, PTL

(* on_connect and on_disconnect are called in pairs, on every path.        *)
THEOREM HooksPaired == Spec => []HooksBalanced
<1>1. IndInv => HooksBalanced
  BY DEF IndInv
<1>2. QED
  BY Invariance, <1>1, PTL

(* No number in the fd_set is taken for a connection that got it after     *)
(* select returned, and none is served twice in one call of run.           *)
THEOREM ReadySetFresh == Spec => []ReadySetNotStale
<1>1. IndInv => ReadySetNotStale
  BY DEF IndInv, ReadyInv, ReadySetNotStale
<1>2. QED
  BY Invariance, <1>1, PTL

(* The iteration that erases from the vector it walks over serves every    *)
(* connection that select reported.                                        *)
THEOREM NoneSkipped == Spec => []NoReadyConnectionSkipped
<1>1. IndInv => NoReadyConnectionSkipped
  <2> SUFFICES ASSUME IndInv, pc = "loop", it > Len(m_connections)
               PROVE  selected \subseteq served
    BY DEF NoReadyConnectionSkipped
  <2>1. Ahead = {}
    BY DEF Ahead, IndInv, TypeOK
  <2>2. QED
    BY <2>1 DEF IndInv, ReadyInv
<1>2. QED
  BY Invariance, <1>1, PTL

-----------------------------------------------------------------------------
(* A step that tears no response, opens no connection and leaves write     *)
(* alone.                                                                  *)
LEMMA TornUnchanged ==
  ASSUME WholeResponses, torn' = torn,
         \A c \in torn : client'[c] = "open" => client[c] = "open",
         pc = "send" => pc' = pc /\ cur' = cur
  PROVE  WholeResponses'
BY DEF WholeResponses

(* Only the response that write is at can be in parts, and a client that   *)
(* connects again starts with none.                                        *)
LEMMA WholeStep ==
  ASSUME SendErrors = FALSE, IndInv, WholeResponses, [Next]_vars
  PROVE  WholeResponses'
<1> USE DEF kernel, objects, locals, history
<1>1. torn \subseteq Conns /\ client \in [Conns -> {"open", "closed", "reset"}]
  BY DEF IndInv, TypeOK
<1>2. pc = "send" => cur \in Conns /\ Peer = cur
  BY CurIsLive DEF IoPcs
<1>3. CASE SendSome
  <2>1. PICK n \in 1..remaining :
          /\ torn' = IF n < remaining THEN torn \cup {Peer} ELSE torn \ {Peer}
          /\ pc' = IF n < remaining THEN "send" ELSE "read"
    BY <1>3 DEF SendSome
  <2>2. pc = "send" /\ cur' = cur /\ client' = client
    BY <1>3 DEF SendSome
  <2>3. CASE n < remaining
    BY <1>2, <2>1, <2>2, <2>3 DEF WholeResponses
  <2>4. CASE ~(n < remaining)
    BY <1>2, <2>1, <2>2, <2>4 DEF WholeResponses
  <2>5. QED
    BY <2>3, <2>4
<1>4. CASE SendFailed
  <2>1. /\ pc = "send" /\ torn' = torn \cup {Peer} /\ client' = client
        /\ client[Peer] # "open"
    BY <1>4 DEF SendFailed
  <2>2. QED
    BY <1>2, <2>1 DEF WholeResponses
<1>5. CASE \E c \in Conns : ClientConnect(c)
  <2>1. PICK c \in Conns : ClientConnect(c)
    BY <1>5
  <2>2. /\ torn' = torn \ {c} /\ client' = [client EXCEPT ![c] = "open"]
        /\ UNCHANGED <<pc, cur>>
    BY <2>1 DEF ClientConnect
  <2>3. QED
    BY <1>1, <2>2 DEF WholeResponses
<1>6. CASE \E c \in Conns : ClientSend(c) \/ ClientRead(c) \/ ClientClose(c)
  <2>1. /\ torn' = torn /\ UNCHANGED <<pc, cur>>
        /\ \A c \in Conns : client'[c] = "open" => client[c] = "open"
    BY <1>1, <1>6 DEF ClientSend, ClientRead, ClientClose
  <2>2. QED
    BY <1>1, <2>1, TornUnchanged
<1>7. CASE OtherOpen \/ OtherClose \/ UNCHANGED vars
  BY <1>7, TornUnchanged DEF OtherOpen, OtherClose, vars
<1>8. CASE \/ EnterRun \/ SelectReady \/ SelectTimeout \/ SelectInterrupted
           \/ AcceptOk \/ AcceptLost \/ AcceptNoFd \/ LoopHandle \/ LoopSkip \/ LeaveRun
  <2>1. pc # "send" /\ torn' = torn /\ client' = client
    BY <1>8 DEF EnterRun, SelectReady, SelectTimeout, SelectInterrupted, AcceptOk, AcceptLost,
                AcceptNoFd, LoopHandle, LoopSkip, LeaveRun
  <2>2. QED
    BY <2>1, TornUnchanged
<1>9. CASE RecvData \/ RecvEof \/ RecvError \/ RecvAgain \/ ReadPart \/ ReadRequest \/ ReadReject \/ ReadDone
  <2>1. pc # "send" /\ torn' = torn /\ client' = client
    BY <1>9 DEF RecvData, RecvEof, RecvError, RecvAgain, ReadPart, ReadRequest, ReadReject, ReadDone
  <2>2. QED
    BY <2>1, TornUnchanged
<1>10. CASE NewClosed \/ NewKept \/ OldClosed \/ OldKept
  <2>1. pc # "send" /\ torn' = torn /\ client' = client
    BY <1>10 DEF NewClosed, NewKept, OldClosed, OldKept
  <2>2. QED
    BY <2>1, TornUnchanged
<1>11. QED
  BY <1>3, <1>4, <1>5, <1>6, <1>7, <1>8, <1>9, <1>10 DEF Next, Server, Client

(* Nobody who is connected is left with a part of a response, if send      *)
(* fails only because a client has left: write goes on until all is sent.  *)
THEOREM ResponsesWhole ==
  ASSUME SendErrors = FALSE
  PROVE  Spec => []WholeResponses
<1>1. Init => WholeResponses
  BY DEF Init, WholeResponses
<1>2. IndInv /\ WholeResponses /\ [Next]_vars => WholeResponses'
  BY WholeStep
<1>3. QED
  BY <1>1, <1>2, Invariance, PTL DEF Spec
=============================================================================
