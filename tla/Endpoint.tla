------------------------------ MODULE Endpoint ------------------------------
(***************************************************************************)
(* The address of a plugin: the socket file that uds_server::bind makes    *)
(* for the constructor of plugin, the processes that come and go behind    *)
(* it, and dockerd, which looks for one of them there.  More than one      *)
(* process may be started, by mistake or to replace one that runs, and     *)
(* each may be killed between any two calls of the system.                 *)
(*                                                                         *)
(* A process is "down", in bind at "socket", "unlink", "bind" or "listen", *)
(* or "serving": its constructor has returned and main calls run.          *)
(***************************************************************************)
EXTENDS Integers, FiniteSets

CONSTANTS
  Servers,  \* processes
  Clients,  \* requests that dockerd has under way at the same time
  Backlog,  \* connections that the system keeps for a socket until accept
  NoFile,   \* nothing is at the path
  Stale     \* the socket file of a process that is gone

ASSUME BacklogAssumption == Backlog \in Nat \ {0}
ASSUME FilesAssumption == NoFile \notin Servers /\ Stale \notin Servers /\ NoFile # Stale

VARIABLES
  pc,         \* where a process is
  file,       \* what is at the path: the socket of a process, Stale or NoFile
  listening,  \* processes whose socket listens
  \* dockerd
  request,    \* of a client: "idle", "asking", "queued" (in a backlog) or "accepted"
  peer,       \* of a client that is queued or accepted: the process
  \* history
  replaced    \* processes whose socket file was unlinked by another one

vars == <<pc, file, listening, request, peer, replaced>>
dockerd == <<request, peer>>

Queue(s) == {c \in Clients : request[c] = "queued" /\ peer[c] = s}
Bound == {s \in Servers : pc[s] \in {"listen", "serving"}}

Init ==
  /\ pc = [s \in Servers |-> "down"]
  /\ file \in {NoFile, Stale} /\ listening = {} /\ replaced = {}
  /\ request = [c \in Clients |-> "idle"] /\ peer \in [Clients -> Servers]

-----------------------------------------------------------------------------
(* The constructor of plugin and uds_server::bind. *)

GoTo(s, where) == pc' = [pc EXCEPT ![s] = where]

(* The process ends, or closes its socket because a call has failed: the   *)
(* constructor throws and nobody catches it.  The socket file stays, and   *)
(* whoever was connected asks again.                                       *)
End(s) ==
  /\ GoTo(s, "down")
  /\ file' = IF file = s THEN Stale ELSE file
  /\ listening' = listening \ {s} /\ replaced' = replaced \ {s}
  /\ request' = [c \in Clients |->
       IF request[c] \in {"queued", "accepted"} /\ peer[c] = s THEN "asking" ELSE request[c]]
  /\ UNCHANGED peer

Start(s) ==
  /\ pc[s] = "down"
  /\ GoTo(s, "socket")
  /\ UNCHANGED <<file, listening, dockerd, replaced>>

Socket(s) ==
  /\ pc[s] = "socket"
  /\ GoTo(s, "unlink")
  /\ UNCHANGED <<file, listening, dockerd, replaced>>

(* Mutant of Unlink: bind does not unlink. *)
UnlinkNothing(s) ==
  /\ pc[s] = "unlink"
  /\ GoTo(s, "bind")
  /\ UNCHANGED <<file, listening, dockerd, replaced>>

(* Whatever is at the path goes, the socket of a running process too. *)
Unlink(s) ==
  /\ pc[s] = "unlink"
  /\ GoTo(s, "bind")
  /\ file' = NoFile
  /\ replaced' = IF file \in Servers THEN replaced \cup {file} ELSE replaced
  /\ UNCHANGED <<listening, dockerd>>

(* The result of unlink is not looked at. *)
UnlinkFails(s) ==
  /\ pc[s] = "unlink"
  /\ GoTo(s, "bind")
  /\ UNCHANGED <<file, listening, dockerd, replaced>>

Bind(s) ==
  /\ pc[s] = "bind" /\ file = NoFile
  /\ file' = s
  /\ GoTo(s, "listen")
  /\ UNCHANGED <<listening, dockerd, replaced>>

(* Another process has bound its socket since unlink, or unlink failed. *)
AddressInUse(s) ==
  /\ pc[s] = "bind" /\ file # NoFile
  /\ End(s)

Listen(s) ==
  /\ pc[s] = "listen"
  /\ listening' = listening \cup {s}
  /\ GoTo(s, "serving")
  /\ UNCHANGED <<file, dockerd, replaced>>

(* Mutant of CallFails: the result of listen is not looked at. *)
CallFailsUnseen(s) ==
  \/ pc[s] \in {"socket", "bind"} /\ End(s)
  \/ /\ pc[s] = "listen"
     /\ GoTo(s, "serving")
     /\ UNCHANGED <<file, listening, dockerd, replaced>>

(* socket, bind or listen fails, or the path is too long for an address. *)
CallFails(s) ==
  /\ pc[s] \in {"socket", "bind", "listen"}
  /\ End(s)

(* Mutant of Exit: the destructor unlinks the path. *)
ExitUnlinks(s) ==
  /\ pc[s] = "serving"
  /\ GoTo(s, "down")
  /\ file' = NoFile
  /\ listening' = listening \ {s} /\ replaced' = replaced \ {s}
  /\ request' = [c \in Clients |->
       IF request[c] \in {"queued", "accepted"} /\ peer[c] = s THEN "asking" ELSE request[c]]
  /\ UNCHANGED peer

(* main returns: the destructors close the sockets. *)
Exit(s) ==
  /\ pc[s] = "serving"
  /\ End(s)

Kill(s) ==
  /\ pc[s] # "down"
  /\ End(s)

-----------------------------------------------------------------------------
(* dockerd, and the process that serves it. *)

Become(c, what) == request' = [request EXCEPT ![c] = what]

Ask(c) ==
  /\ request[c] = "idle"
  /\ Become(c, "asking")
  /\ UNCHANGED <<pc, file, listening, peer, replaced>>

(* Until this succeeds dockerd is refused, or finds no file, and tries     *)
(* again.                                                                  *)
Connect(c) ==
  /\ request[c] = "asking" /\ file \in listening
  /\ Cardinality(Queue(file)) < Backlog
  /\ Become(c, "queued") /\ peer' = [peer EXCEPT ![c] = file]
  /\ UNCHANGED <<pc, file, listening, replaced>>

(* run: a process whose file is gone still serves whoever had connected. *)
Accept(c) ==
  /\ request[c] = "queued" /\ pc[peer[c]] = "serving"
  /\ Become(c, "accepted")
  /\ UNCHANGED <<pc, file, listening, peer, replaced>>

Answer(c) ==
  /\ request[c] = "accepted"
  /\ Become(c, "idle")
  /\ UNCHANGED <<pc, file, listening, peer, replaced>>

-----------------------------------------------------------------------------
Starting(s) == Start(s) \/ Socket(s) \/ Unlink(s) \/ Bind(s) \/ AddressInUse(s) \/ Listen(s)

Trouble(s) == UnlinkFails(s) \/ CallFails(s) \/ Exit(s) \/ Kill(s)

(* What happens while nothing fails and nobody stops a process. *)
Untroubled ==
  \/ \E s \in Servers : Starting(s)
  \/ \E c \in Clients : Ask(c) \/ Connect(c) \/ Accept(c) \/ Answer(c)

Next == Untroubled \/ \E s \in Servers : Trouble(s)

Spec == Init /\ [][Next]_vars

(* A process that ended is started again.  dockerd tries again until it is *)
(* connected, and who waits for a place in a backlog gets one.             *)
FairSpec ==
  /\ Spec
  /\ \A s \in Servers : WF_vars(Starting(s))
  /\ \A c \in Clients : SF_vars(Connect(c)) /\ WF_vars(Accept(c)) /\ WF_vars(Answer(c))

-----------------------------------------------------------------------------
(* Properties. *)

Places == {"down", "socket", "unlink", "bind", "listen", "serving"}

(* A process serves if and only if its socket listens, the file at the     *)
(* path is one that its process has bound, and connections are with those  *)
(* who listen.                                                             *)
TypeOK ==
  /\ pc \in [Servers -> Places]
  /\ file \in Bound \cup {NoFile, Stale}
  /\ listening = {s \in Servers : pc[s] = "serving"} /\ replaced \subseteq Bound
  /\ request \in [Clients -> {"idle", "asking", "queued", "accepted"}]
  /\ peer \in [Clients -> Servers]
  /\ \A c \in Clients : request[c] \in {"queued", "accepted"} => peer[c] \in listening

(* A process whose socket file no later start has unlinked is the one that *)
(* dockerd finds at the path, whoever else starts, fails to start, exits   *)
(* or is killed; so no two processes believe so.                           *)
FoundUnlessReplaced == \A s \in listening \ replaced : file = s

(* Once the system's calls succeed and nobody stops a process, every       *)
(* request of dockerd is answered: a socket file that was left behind does *)
(* not keep a new process from its address, and several that start at the  *)
(* same time do not take it from each other for ever.                      *)
AnsweredInTheEnd ==
  <>[][Untroubled]_vars =>
    \A c \in Clients : request[c] = "asking" ~> request[c] = "idle"
=============================================================================
