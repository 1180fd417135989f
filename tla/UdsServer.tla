----------------------------- MODULE UdsServer -----------------------------
(***************************************************************************)
(* The single-threaded event loop of lib/src/uds_server.cpp.               *)
(*                                                                         *)
(* One call of uds_server::run is a walk over pc:                          *)
(*                                                                         *)
(*   "idle"    the caller is between two calls of run                      *)
(*   "select"  the descriptors are in the fd_set, run is in select         *)
(*   "accept"  the listening socket was ready, accept4 is next             *)
(*   "recv"    handle_io(cur) is about to call recv                        *)
(*   "read"    cur.on_read is working through the received segments        *)
(*   "send"    cur.write is inside its send loop                           *)
(*   "return"  handle_io has returned `closed' to run                      *)
(*   "loop"    the iteration over m_connections is at position it          *)
(*                                                                         *)
(* A step of the server holds at most one system call, so clients and the  *)
(* kernel act between any two of them.  it = 0 while run is still in the   *)
(* accept block; there cur is not in m_connections yet.                    *)
(*                                                                         *)
(* The kernel is modelled as far as the server uses it: a descriptor is a  *)
(* number that the table fdtab resolves to a connection, accept4 returns   *)
(* the lowest free one, and every system call goes through the table.      *)
(***************************************************************************)
EXTENDS Integers, Sequences, SequencesExt, FiniteSets

CONSTANTS
  Conns,       \* client ends of connections; an end is used again once it is gone
  NoConn,      \* no connection
  Other,       \* whatever the rest of the process opens
  Fds,         \* descriptors that accept4 can return (RLIMIT_NOFILE)
  OtherMax,    \* bound: descriptors the rest of the process holds
  ListenFd,    \* the listening socket, uds_server::m_socket
  Backlog,     \* the backlog given to listen
  StreamMax,   \* bound: segments of a client that wait in the kernel
  OutMax,      \* capacity of a connection towards the client, in units
  RespLen,     \* units of one response
  SendErrors   \* whether send may also fail while the client is still there

ASSUME ConnsAssumption == NoConn \notin Conns /\ Other \notin Conns /\ Other # NoConn
(* FD_SET is defined for descriptors below FD_SETSIZE only, which the code *)
(* does not check: the model is of a process whose limit is not above it.  *)
ASSUME FdsAssumption == Fds \subseteq Nat /\ ListenFd \in Nat \ Fds
ASSUME BoundsAssumption ==
  /\ Backlog \in Nat /\ OtherMax \in Nat /\ StreamMax \in Nat \ {0}
  /\ OutMax \in Nat \ {0} /\ RespLen \in Nat \ {0}
  /\ SendErrors \in BOOLEAN

NoFd == -1

(* What on_read, a virtual function, does with a piece of the stream: keep *)
(* it, write a response, or close the connection.                          *)
Segments == {"part", "request", "reject"}

VARIABLES
  \* the clients and the kernel
  client,         \* "open", "closed", or "reset" when closed with data unread
  queue,          \* connections that accept4 has not returned yet
  inbox,          \* sent by the client, not yet received by the server
  outbox,         \* units the client has not read yet
  fdtab,          \* descriptor table of the process
  \* uds_server and uds_connection
  m_connections,
  m_socket,       \* m_socket of each connection object, NoFd also if there is none
  \* local variables of run, handle_io, on_read and write
  pc, it, cur, ready, work, remaining, closed, ret,
  \* history
  hooks,          \* calls of on_connect minus calls of on_disconnect
  selected,       \* connections that select reported in this call of run
  served,         \* connections whose recv was called in this call of run
  torn,           \* connections whose last response is not written in full
  failed          \* a call on the listening socket failed in this call of run

kernel  == <<client, queue, inbox, outbox, fdtab>>
objects == <<m_connections, m_socket>>
locals  == <<pc, it, cur, ready, work, remaining, closed, ret>>
history == <<hooks, selected, served, torn, failed>>
vars    == <<kernel, objects, locals, history>>

-----------------------------------------------------------------------------
(* Derived state. *)

FreeFds == {f \in Fds : fdtab[f] = NoConn}

(* The kernel hands out the lowest free descriptor. *)
LowestFree(f) == f \in FreeFds /\ \A g \in FreeFds : f <= g

(* uds_connection objects: those in m_connections, and the one that the    *)
(* accept block of run holds in `con'.                                     *)
InAccept == it = 0 /\ pc \in {"recv", "read", "send", "return"}
Live == ToSet(m_connections) \cup (IF InAccept THEN {cur} ELSE {})

(* The server's end of a connection exists in the kernel. *)
HasServerEnd(c) == c \in ToSet(queue) \/ \E f \in Fds : fdtab[f] = c

(* A descriptor polls readable: there is data, or an end of file, to read. *)
Readable(c) == inbox[c] # <<>> \/ client[c] # "open"

ReadyFds ==
  {f \in {m_socket[c] : c \in ToSet(m_connections)} \ {NoFd} : Readable(fdtab[f])}
    \cup (IF queue # <<>> THEN {ListenFd} ELSE {})

-----------------------------------------------------------------------------
Init ==
  /\ client = [c \in Conns |-> "closed"]
  /\ queue = <<>>
  /\ inbox = [c \in Conns |-> <<>>]
  /\ outbox = [c \in Conns |-> 0]
  /\ fdtab = [f \in Fds |-> NoConn]
  /\ m_connections = <<>>
  /\ m_socket = [c \in Conns |-> NoFd]
  /\ pc = "idle" /\ it = 0 /\ cur = NoConn
  /\ ready = {} /\ work = <<>> /\ remaining = 0
  /\ closed = FALSE /\ ret = "zero"
  /\ hooks = [c \in Conns |-> 0]
  /\ selected = {} /\ served = {} /\ torn = {} /\ failed = FALSE

-----------------------------------------------------------------------------
(* The clients. *)

(* A client connects; the kernel admits Backlog + 1 connections.           *)
ClientConnect(c) ==
  /\ client[c] # "open" /\ ~HasServerEnd(c) /\ c \notin Live
  /\ Len(queue) <= Backlog
  /\ client' = [client EXCEPT ![c] = "open"]
  /\ queue' = Append(queue, c)
  /\ inbox' = [inbox EXCEPT ![c] = <<>>]
  /\ outbox' = [outbox EXCEPT ![c] = 0]
  /\ torn' = torn \ {c}
  /\ UNCHANGED <<fdtab, objects, locals, hooks, selected, served, failed>>

ClientSend(c) ==
  /\ client[c] = "open" /\ HasServerEnd(c)
  /\ Len(inbox[c]) < StreamMax
  /\ \E s \in Segments : inbox' = [inbox EXCEPT ![c] = Append(@, s)]
  /\ UNCHANGED <<client, queue, outbox, fdtab, objects, locals, history>>

ClientRead(c) ==
  /\ client[c] = "open" /\ outbox[c] > 0
  /\ outbox' = [outbox EXCEPT ![c] = @ - 1]
  /\ UNCHANGED <<client, queue, inbox, fdtab, objects, locals, history>>

ClientClose(c) ==
  /\ client[c] = "open"
  /\ client' = [client EXCEPT ![c] = IF outbox[c] = 0 THEN "closed" ELSE "reset"]
  /\ UNCHANGED <<queue, inbox, outbox, fdtab, objects, locals, history>>

Client(c) == ClientConnect(c) \/ ClientSend(c) \/ ClientRead(c) \/ ClientClose(c)

(* The drivers and the threads of the application open and close           *)
(* descriptors of their own while the server runs.                         *)
OtherFds == {f \in Fds : fdtab[f] = Other}

OtherOpen ==
  /\ Cardinality(OtherFds) < OtherMax
  /\ \E f \in Fds : LowestFree(f) /\ fdtab' = [fdtab EXCEPT ![f] = Other]
  /\ UNCHANGED <<client, queue, inbox, outbox, objects, locals, history>>

OtherClose ==
  /\ \E f \in OtherFds : fdtab' = [fdtab EXCEPT ![f] = NoConn]
  /\ UNCHANGED <<client, queue, inbox, outbox, objects, locals, history>>

-----------------------------------------------------------------------------
(* uds_server::run up to the return of select. *)

EnterRun ==
  /\ pc = "idle"
  /\ pc' = "select"
  /\ ret' = "zero" /\ failed' = FALSE
  /\ UNCHANGED <<kernel, objects, it, cur, ready, work, remaining, closed,
                 hooks, selected, served, torn>>

(* Mutant of SelectReady: run looks at the listening socket only when no   *)
(* connection needs it.                                                    *)
SelectReadyAcceptLast ==
  /\ pc = "select" /\ ReadyFds # {}
  /\ ready' = ReadyFds
  /\ selected' = {c \in Conns : \E f \in ReadyFds \cap Fds : fdtab[f] = c}
  /\ IF ReadyFds = {ListenFd}
     THEN pc' = "accept" /\ it' = 0
     ELSE pc' = "loop" /\ it' = 1
  /\ UNCHANGED <<kernel, objects, cur, work, remaining, closed, ret,
                 hooks, served, torn, failed>>

SelectReady ==
  /\ pc = "select" /\ ReadyFds # {}
  /\ ready' = ReadyFds
  /\ selected' = {c \in Conns : \E f \in ReadyFds \cap Fds : fdtab[f] = c}
  /\ IF ListenFd \in ReadyFds
     THEN pc' = "accept" /\ it' = 0
     ELSE pc' = "loop" /\ it' = 1
  /\ UNCHANGED <<kernel, objects, cur, work, remaining, closed, ret,
                 hooks, served, torn, failed>>

(* select waits for at most timeout_ms and then returns 0. *)
SelectTimeout ==
  /\ pc = "select" /\ ReadyFds = {}
  /\ pc' = "idle" /\ ret' = "zero"
  /\ UNCHANGED <<kernel, objects, it, cur, ready, work, remaining, closed, history>>

(* A signal ends select with EINTR, unless a descriptor is ready already. *)
SelectInterrupted ==
  /\ pc = "select" /\ ReadyFds = {}
  /\ pc' = "idle" /\ ret' = "errno" /\ failed' = TRUE
  /\ UNCHANGED <<kernel, objects, it, cur, ready, work, remaining, closed,
                 hooks, selected, served, torn>>

-----------------------------------------------------------------------------
(* The accept block of run. *)

StartLoop == pc' = "loop" /\ it' = 1

(* accept4 returned the lowest free descriptor, the connection object was  *)
(* created and on_connect called; handle_io follows at once.               *)
AcceptOk ==
  /\ pc = "accept"
  /\ \E f \in Fds :
       /\ LowestFree(f)
       /\ fdtab' = [fdtab EXCEPT ![f] = Head(queue)]
       /\ m_socket' = [m_socket EXCEPT ![Head(queue)] = f]
  /\ queue' = Tail(queue)
  /\ cur' = Head(queue)
  /\ hooks' = [hooks EXCEPT ![Head(queue)] = @ + 1]
  /\ pc' = "recv"
  /\ UNCHANGED <<client, inbox, outbox, m_connections, it, ready, work, remaining,
                 closed, ret, selected, served, torn, failed>>

(* addrlen is not initialised: when its garbage is negative, accept4 takes *)
(* the connection from the queue, closes it and fails with EINVAL.  The    *)
(* other way to lose a connection here is create_connection returning null,*)
(* on which run closes the new socket.                                     *)
AcceptLost ==
  /\ pc = "accept" /\ FreeFds # {}
  /\ queue' = Tail(queue)
  /\ inbox' = [inbox EXCEPT ![Head(queue)] = <<>>]
  /\ failed' \in BOOLEAN
  /\ StartLoop
  /\ UNCHANGED <<client, outbox, fdtab, objects, cur, ready, work, remaining,
                 closed, ret, hooks, selected, served, torn>>

(* EMFILE: the connection stays in the queue. *)
AcceptNoFd ==
  /\ pc = "accept" /\ FreeFds = {}
  /\ failed' = TRUE
  /\ StartLoop
  /\ UNCHANGED <<kernel, objects, cur, ready, work, remaining, closed, ret,
                 hooks, selected, served, torn>>

-----------------------------------------------------------------------------
(* uds_server::handle_io and what it calls, on connection cur. *)

(* The connection that the descriptor of cur stands for in the kernel. *)
Peer == fdtab[m_socket[cur]]

(* ::close(m_socket) if there is one.  The kernel drops what the client    *)
(* had sent and nobody received.                                           *)
CloseFd(c) ==
  IF m_socket[c] # NoFd
  THEN /\ fdtab' = [fdtab EXCEPT ![m_socket[c]] = NoConn]
       /\ inbox' = [inbox EXCEPT ![fdtab[m_socket[c]]] = <<>>]
  ELSE UNCHANGED <<fdtab, inbox>>

(* uds_connection::close *)
Close(c) == CloseFd(c) /\ m_socket' = [m_socket EXCEPT ![c] = NoFd]

(* Mutant of Destroy: the destructor forgets the descriptor. *)
DestroyLeaking(c) ==
  m_socket' = [m_socket EXCEPT ![c] = NoFd] /\ UNCHANGED <<fdtab, inbox>>

(* uds_connection::~uds_connection, run when the last shared_ptr goes *)
Destroy(c) == CloseFd(c) /\ m_socket' = [m_socket EXCEPT ![c] = NoFd]

RecvData ==
  /\ pc = "recv" /\ inbox[Peer] # <<>>
  /\ \E k \in 1..Len(inbox[Peer]) :
       /\ work' = SubSeq(inbox[Peer], 1, k)
       /\ inbox' = [inbox EXCEPT ![Peer] = SubSeq(@, k + 1, Len(@))]
  /\ pc' = "read"
  /\ served' = served \cup {cur}
  /\ UNCHANGED <<client, queue, outbox, fdtab, objects, it, cur, ready, remaining,
                 closed, ret, hooks, selected, torn, failed>>

(* Mutant of RecvEof: recv = 0 is taken for "nothing to read". *)
RecvEofKept ==
  /\ pc = "recv" /\ inbox[Peer] = <<>> /\ client[Peer] = "closed"
  /\ closed' = FALSE
  /\ pc' = "return"
  /\ served' = served \cup {cur}
  /\ UNCHANGED <<kernel, objects, it, cur, ready, work, remaining, ret,
                 hooks, selected, torn, failed>>

RecvEof ==
  /\ pc = "recv" /\ inbox[Peer] = <<>> /\ client[Peer] = "closed"
  /\ closed' = TRUE
  /\ pc' = "return"
  /\ served' = served \cup {cur}
  /\ UNCHANGED <<kernel, objects, it, cur, ready, work, remaining, ret,
                 hooks, selected, torn, failed>>

RecvError ==
  /\ pc = "recv" /\ inbox[Peer] = <<>> /\ client[Peer] = "reset"
  /\ Close(cur)
  /\ closed' = TRUE
  /\ pc' = "return"
  /\ served' = served \cup {cur}
  /\ UNCHANGED <<client, queue, outbox, m_connections, it, cur, ready, work,
                 remaining, ret, hooks, selected, torn, failed>>

(* Mutants of RecvAgain: recv without MSG_DONTWAIT, which waits for the     *)
(* client, and EAGAIN taken for an error.                                  *)
RecvAgainWaits == FALSE

RecvAgainCloses ==
  /\ pc = "recv" /\ inbox[Peer] = <<>> /\ client[Peer] = "open"
  /\ closed' = TRUE
  /\ pc' = "return"
  /\ served' = served \cup {cur}
  /\ UNCHANGED <<kernel, objects, it, cur, ready, work, remaining, ret,
                 hooks, selected, torn, failed>>

(* EAGAIN: recv is called with MSG_DONTWAIT. *)
RecvAgain ==
  /\ pc = "recv" /\ inbox[Peer] = <<>> /\ client[Peer] = "open"
  /\ closed' = FALSE
  /\ pc' = "return"
  /\ served' = served \cup {cur}
  /\ UNCHANGED <<kernel, objects, it, cur, ready, work, remaining, ret,
                 hooks, selected, torn, failed>>

ReadPart ==
  /\ pc = "read" /\ work # <<>> /\ m_socket[cur] # NoFd
  /\ Head(work) = "part"
  /\ work' = Tail(work)
  /\ UNCHANGED <<kernel, objects, pc, it, cur, ready, remaining, closed, ret, history>>

(* The handler answers a request: on_read calls write. *)
ReadRequest ==
  /\ pc = "read" /\ work # <<>> /\ m_socket[cur] # NoFd
  /\ Head(work) = "request"
  /\ work' = Tail(work)
  /\ remaining' = RespLen
  /\ pc' = "send"
  /\ UNCHANGED <<kernel, objects, it, cur, ready, closed, ret, history>>

ReadReject ==
  /\ pc = "read" /\ work # <<>> /\ m_socket[cur] # NoFd
  /\ Head(work) = "reject"
  /\ Close(cur)
  /\ UNCHANGED <<client, queue, outbox, m_connections, locals, history>>

(* return con.get_fd() < 0 *)
ReadDone ==
  /\ pc = "read"
  /\ work = <<>> \/ m_socket[cur] = NoFd
  /\ closed' = (m_socket[cur] = NoFd)
  /\ pc' = "return"
  /\ UNCHANGED <<kernel, objects, it, cur, ready, work, remaining, ret, history>>

(* Mutant of SendSome: write calls send once and takes it for all. *)
SendSomeOnce ==
  /\ pc = "send" /\ client[Peer] = "open"
  /\ \E n \in 1..remaining :
       /\ outbox[Peer] + n <= OutMax
       /\ outbox' = [outbox EXCEPT ![Peer] = @ + n]
       /\ remaining' = 0
       /\ torn' = IF n < remaining THEN torn \cup {Peer} ELSE torn \ {Peer}
       /\ pc' = "read"
  /\ UNCHANGED <<client, queue, inbox, fdtab, objects, it, cur, ready, work,
                 closed, ret, hooks, selected, served, failed>>

(* One round of the loop in uds_connection::write.  The sockets accept4    *)
(* returns are blocking: while the client leaves no room, send waits.      *)
SendSome ==
  /\ pc = "send" /\ client[Peer] = "open"
  /\ \E n \in 1..remaining :
       /\ outbox[Peer] + n <= OutMax
       /\ outbox' = [outbox EXCEPT ![Peer] = @ + n]
       /\ remaining' = remaining - n
       /\ torn' = IF n < remaining THEN torn \cup {Peer} ELSE torn \ {Peer}
       /\ pc' = IF n < remaining THEN "send" ELSE "read"
  /\ UNCHANGED <<client, queue, inbox, fdtab, objects, it, cur, ready, work,
                 closed, ret, hooks, selected, served, failed>>

(* Mutant of SendFailed: -1 is added to the units written. *)
SendFailedCounted ==
  /\ pc = "send"
  /\ client[Peer] # "open" \/ SendErrors
  /\ remaining' = remaining + 1
  /\ torn' = torn \cup {Peer}
  /\ UNCHANGED <<kernel, objects, pc, it, cur, ready, work, closed, ret,
                 hooks, selected, served, failed>>

(* send < 0: EPIPE, or, if SendErrors, an error while the client is there, *)
(* as EINTR of a send that waits for room, ENOBUFS or ENOMEM.  write       *)
(* returns SIZE_MAX and every caller goes on as if all were written.       *)
SendFailed ==
  /\ pc = "send"
  /\ client[Peer] # "open" \/ SendErrors
  /\ remaining' = 0
  /\ pc' = "read"
  /\ torn' = torn \cup {Peer}
  /\ UNCHANGED <<kernel, objects, it, cur, ready, work, closed, ret,
                 hooks, selected, served, failed>>

-----------------------------------------------------------------------------
(* handle_io has returned to run. *)

EndIo == cur' = NoConn /\ work' = <<>> /\ closed' = FALSE

OnDisconnect(c) == hooks' = [hooks EXCEPT ![c] = @ - 1]

(* Mutants of the accept block: no on_disconnect when the first handle_io  *)
(* already closed the connection; a connection kept whatever it returned.  *)
NewClosedSilently ==
  /\ pc = "return" /\ it = 0 /\ closed
  /\ Destroy(cur)
  /\ StartLoop /\ EndIo
  /\ UNCHANGED <<client, queue, outbox, m_connections, ready, remaining, ret, history>>

NewKeptAlways ==
  /\ pc = "return" /\ it = 0
  /\ m_connections' = Append(m_connections, cur)
  /\ StartLoop /\ EndIo
  /\ UNCHANGED <<kernel, m_socket, ready, remaining, ret, history>>

(* In the accept block: con is dropped, or kept in m_connections. *)
NewClosed ==
  /\ pc = "return" /\ it = 0 /\ closed
  /\ OnDisconnect(cur)
  /\ Destroy(cur)
  /\ StartLoop /\ EndIo
  /\ UNCHANGED <<client, queue, outbox, m_connections, ready, remaining, ret,
                 selected, served, torn, failed>>

NewKept ==
  /\ pc = "return" /\ it = 0 /\ ~closed
  /\ m_connections' = Append(m_connections, cur)
  /\ StartLoop /\ EndIo
  /\ UNCHANGED <<kernel, m_socket, ready, remaining, ret, history>>

(* Mutants of the loop: ++it after an erase, starting over after an erase,  *)
(* and a break after the first connection that was served.                 *)
OldClosedAt(next) ==
  /\ pc = "return" /\ it > 0 /\ closed
  /\ OnDisconnect(cur)
  /\ m_connections' = RemoveAt(m_connections, it)
  /\ Destroy(cur)
  /\ pc' = "loop" /\ it' = next
  /\ EndIo
  /\ UNCHANGED <<client, queue, outbox, ready, remaining, ret,
                 selected, served, torn, failed>>

OldClosedSkipping == OldClosedAt(it + 1)
OldClosedRestarting == OldClosedAt(1)

OldKeptBreaks ==
  /\ pc = "return" /\ it > 0 /\ ~closed
  /\ pc' = "loop" /\ it' = Len(m_connections) + 1
  /\ EndIo
  /\ UNCHANGED <<kernel, objects, ready, remaining, ret, history>>

(* In the loop: it stays where it is after an erase. *)
OldClosed ==
  /\ pc = "return" /\ it > 0 /\ closed
  /\ OnDisconnect(cur)
  /\ m_connections' = RemoveAt(m_connections, it)
  /\ Destroy(cur)
  /\ pc' = "loop" /\ it' = it
  /\ EndIo
  /\ UNCHANGED <<client, queue, outbox, ready, remaining, ret,
                 selected, served, torn, failed>>

OldKept ==
  /\ pc = "return" /\ it > 0 /\ ~closed
  /\ pc' = "loop" /\ it' = it + 1
  /\ EndIo
  /\ UNCHANGED <<kernel, objects, ready, remaining, ret, history>>

(* The loop of run over m_connections. *)
LoopHandle ==
  /\ pc = "loop" /\ it <= Len(m_connections)
  /\ m_socket[m_connections[it]] \in ready
  /\ cur' = m_connections[it]
  /\ pc' = "recv"
  /\ UNCHANGED <<kernel, objects, it, ready, work, remaining, closed, ret, history>>

LoopSkip ==
  /\ pc = "loop" /\ it <= Len(m_connections)
  /\ m_socket[m_connections[it]] \notin ready
  /\ it' = it + 1
  /\ UNCHANGED <<kernel, objects, pc, cur, ready, work, remaining, closed, ret, history>>

LeaveRun ==
  /\ pc = "loop" /\ it > Len(m_connections)
  /\ pc' = "idle" /\ ret' = "zero"
  /\ it' = 0 /\ ready' = {} /\ selected' = {} /\ served' = {}
  /\ UNCHANGED <<kernel, objects, cur, work, remaining, closed, hooks, torn, failed>>

-----------------------------------------------------------------------------
Server ==
  \/ EnterRun \/ SelectReady \/ SelectTimeout \/ SelectInterrupted
  \/ AcceptOk \/ AcceptLost \/ AcceptNoFd
  \/ RecvData \/ RecvEof \/ RecvError \/ RecvAgain
  \/ ReadPart \/ ReadRequest \/ ReadReject \/ ReadDone
  \/ SendSome \/ SendFailed
  \/ NewClosed \/ NewKept \/ OldClosed \/ OldKept
  \/ LoopHandle \/ LoopSkip \/ LeaveRun

Next == Server \/ OtherOpen \/ OtherClose \/ \E c \in Conns : Client(c)

Spec == Init /\ [][Next]_vars

(* main calls run again and again and the server is the only thread: it    *)
(* never rests while it can take a step.                                   *)
ServerFairness == WF_vars(Server)

(* A client reads the responses that wait for it. *)
ClientFairness == \A c \in Conns : WF_vars(ClientRead(c))

ServerFairSpec == Spec /\ ServerFairness
FairSpec == Spec /\ ServerFairness /\ ClientFairness

-----------------------------------------------------------------------------
(* Properties. *)

PcValues == {"idle", "select", "accept", "recv", "read", "send", "return", "loop"}

(* The values each variable ranges over. *)
TypeOK ==
  /\ client \in [Conns -> {"open", "closed", "reset"}]
  /\ queue \in Seq(Conns)
  /\ inbox \in [Conns -> Seq(Segments)]
  /\ outbox \in [Conns -> 0..OutMax]
  /\ fdtab \in [Fds -> Conns \cup {NoConn, Other}]
  /\ m_connections \in Seq(Conns)
  /\ m_socket \in [Conns -> Fds \cup {NoFd}]
  /\ pc \in PcValues /\ it \in Nat /\ cur \in Conns \cup {NoConn}
  /\ ready \in SUBSET (Fds \cup {ListenFd})
  /\ work \in Seq(Segments) /\ remaining \in 0..RespLen
  /\ closed \in BOOLEAN /\ ret \in {"zero", "errno"}
  /\ hooks \in [Conns -> Int]
  /\ selected \in SUBSET Conns /\ served \in SUBSET Conns
  /\ torn \in SUBSET Conns /\ failed \in BOOLEAN

(* Descriptors and connection objects belong together one to one: an open  *)
(* descriptor is the m_socket of a live object whose connection it stands  *)
(* for, so none leaks, and a live object that has a descriptor has an open *)
(* one, its own, so none is closed twice or used after it was reused.      *)
FdOwnership ==
  /\ \A f \in Fds :
       fdtab[f] \in Conns => fdtab[f] \in Live /\ m_socket[fdtab[f]] = f
  /\ \A c \in Conns : m_socket[c] # NoFd => c \in Live /\ fdtab[m_socket[c]] = c

(* run puts the descriptor of every element of m_connections in the fd_set *)
(* (FD_SET of -1 is undefined, a closed one makes select fail with EBADF   *)
(* on every call): each element has an open descriptor and none is there   *)
(* twice whenever run gets to do so.                                       *)
PolledDescriptorsOpen ==
  pc \in {"idle", "select", "accept"} =>
    /\ \A i \in DOMAIN m_connections : HasServerEnd(m_connections[i])
    /\ \A i \in DOMAIN m_connections : m_socket[m_connections[i]] # NoFd
    /\ \A i, j \in DOMAIN m_connections :
         m_socket[m_connections[i]] = m_socket[m_connections[j]] => i = j

(* on_disconnect is called once for every on_connect, when the connection  *)
(* stops being one the server keeps, on whichever of the two paths.        *)
HooksBalanced == \A c \in Conns : hooks[c] = IF c \in Live THEN 1 ELSE 0

(* The fd_set is read after accept4 and the handlers of other connections  *)
(* may have changed what a number stands for: the loop calls recv for a    *)
(* connection only if select reported that connection, and once per run.   *)
ReadySetNotStale == pc = "recv" /\ it > 0 => cur \in selected \ served

(* Erasing from m_connections while iterating over it makes run skip       *)
(* nothing: at the end of the loop every connection select reported was    *)
(* read.                                                                   *)
NoReadyConnectionSkipped ==
  pc = "loop" /\ it > Len(m_connections) => selected \subseteq served

(* A client that is there has been sent all responses, and each of them    *)
(* whole, except for the one that is under way.                            *)
WholeResponses ==
  \A c \in torn : client[c] = "open" => pc = "send" /\ cur = c

(* Whoever connected, sent and left is served as ConnectionService says.   *)
Service == INSTANCE ConnectionService WITH
  open      <- {c \in Conns : client[c] = "open"},
  waiting   <- queue,
  connected <- Live,
  stream    <- inbox,
  rejected  <- IF "reject" \in ToSet(work) THEN {cur} ELSE {}

ImplementsService == Service!ServiceSpec

(* Every call of run returns: neither an idle server nor a client keeps    *)
(* the caller waiting for ever.                                            *)
RunReturns == pc # "idle" ~> pc = "idle"

(* No kept connection starves: one that has data or an end of file gets a  *)
(* recv of its own, however busy the others are.                           *)
NoStarvation ==
  \A c \in Conns :
    c \in ToSet(m_connections) /\ Readable(c)
      ~> (pc = "recv" /\ cur = c) \/ c \notin ToSet(m_connections)

(* A connection that its client closed is given back: the object is        *)
(* destroyed and the descriptor is free again.                             *)
ClosedIsReleased ==
  \A c \in Conns : client[c] # "open" /\ c \in Live ~> c \notin Live

(* EMFILE is survived: a waiting connection is taken from the queue, if    *)
(* from some point on there is a descriptor for it.                        *)
WaitingIsTaken ==
  <>[](FreeFds # {}) =>
    \A c \in Conns : c \in ToSet(queue) ~> c \notin ToSet(queue)

(* plugin.h says of run: returns 0 on success or the errno if an error     *)
(* occurred.  A failed accept4 is an error that run meets.                 *)
ErrorsAreReturned == pc = "idle" /\ failed => ret = "errno"

-----------------------------------------------------------------------------
(* The inductive invariant behind the theorems of UdsServerProofs.         *)

IoPcs == {"recv", "read", "send", "return"}

(* m_connections and queue hold no connection twice and none in common,    *)
(* and cur is the element that it points at, or an object of its own while *)
(* run is in the accept block.                                             *)
PositionInv ==
  /\ \A i, j \in 1..Len(m_connections) : m_connections[i] = m_connections[j] => i = j
  /\ \A i, j \in 1..Len(queue) : queue[i] = queue[j] => i = j
  /\ \A i \in 1..Len(queue) : queue[i] \notin Live
  /\ pc \in {"idle", "select", "accept"} => it = 0
  /\ pc = "accept" => queue # <<>>
  /\ pc = "loop" => it > 0
  /\ pc \in IoPcs =>
       /\ cur \in Conns
       /\ it > 0 => it <= Len(m_connections) /\ cur = m_connections[it]
       /\ it = 0 => \A i \in 1..Len(m_connections) : m_connections[i] # cur

(* Only the connection whose handle_io is not finished can be without a    *)
(* descriptor, and then handle_io is about to report it as closed.         *)
SocketInv ==
  /\ \A c \in Live : m_socket[c] = NoFd => c = cur /\ pc \in {"read", "return"}
  /\ pc = "return" /\ ~closed => m_socket[cur] # NoFd

(* Positions of m_connections the loop has not looked at.                  *)
Ahead == {i \in 1..Len(m_connections) : IF pc = "loop" THEN i >= it ELSE i > it}

(* For the connections ahead the fd_set says what select said, they are    *)
(* still to be served, and they are all that is still to be served.        *)
ReadyInv ==
  /\ pc \in {"idle", "select"} => ready = {} /\ selected = {} /\ served = {}
  /\ \A i \in Ahead :
       /\ m_socket[m_connections[i]] \in ready <=> m_connections[i] \in selected
       /\ m_connections[i] \in selected => m_connections[i] \notin served
  /\ \A c \in selected \ served :
       (pc = "recv" /\ c = cur) \/ \E i \in Ahead : c = m_connections[i]
  /\ pc = "recv" /\ it > 0 => cur \in selected \ served
  /\ it = 0 =>
       /\ \A f \in ready \cap Fds :
            \E i \in 1..Len(m_connections) : m_socket[m_connections[i]] = f
       /\ \A c \in selected : \E i \in 1..Len(m_connections) : c = m_connections[i]

IndInv ==
  /\ TypeOK /\ PositionInv /\ FdOwnership /\ SocketInv
  /\ HooksBalanced /\ ReadyInv
=============================================================================
