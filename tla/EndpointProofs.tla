--------------------------- MODULE EndpointProofs ---------------------------
(* Theorems about Endpoint: for every set of processes and of requests,    *)
(* and for every backlog.                                                  *)
EXTENDS Endpoint, TLAPS

-----------------------------------------------------------------------------
(* FoundUnlessReplaced is not inductive: a process gets its address in     *)
(* bind, before it serves.                                                 *)
Owned == \A s \in Bound \ replaced : file = s

IInv == TypeOK /\ Owned

(* The end of a process leaves everybody else's socket file alone. *)
LEMMA EndKeeps ==
  ASSUME IInv, NEW s \in Servers, End(s)
  PROVE  IInv'
<1> USE FilesAssumption DEF IInv, TypeOK, Owned, Bound, Places
<1>1. /\ pc' = [pc EXCEPT ![s] = "down"]
      /\ file' = IF file = s THEN Stale ELSE file
      /\ listening' = listening \ {s} /\ replaced' = replaced \ {s}
      /\ peer' = peer
  BY DEF End, GoTo
<1>2. request' = [c \in Clients |->
        IF request[c] \in {"queued", "accepted"} /\ peer[c] = s THEN "asking" ELSE request[c]]
  BY DEF End
<1>3. pc' \in [Servers -> Places] /\ Bound' = Bound \ {s}
  BY <1>1
<1>4. file' \in Bound' \cup {NoFile, Stale} /\ replaced' \subseteq Bound'
  BY <1>1, <1>3
<1>5. listening' = {t \in Servers : pc'[t] = "serving"}
  BY <1>1
<1>6. request' \in [Clients -> {"idle", "asking", "queued", "accepted"}]
  BY <1>2
<1>7. \A c \in Clients : request'[c] \in {"queued", "accepted"} => peer'[c] \in listening'
  BY <1>1, <1>2
<1>8. \A t \in Bound' \ replaced' : file' = t
  BY <1>1, <1>3
<1> QED BY <1>1, <1>3, <1>4, <1>5, <1>6, <1>7, <1>8

(* bind gives the address to its process, and takes it from whoever had it. *)
LEMMA StartingKeeps ==
  ASSUME IInv, NEW s \in Servers, Starting(s)
  PROVE  IInv'
<1> USE FilesAssumption DEF IInv, TypeOK, Owned, Bound, Places
<1>1. CASE Start(s)
  BY <1>1 DEF Start, GoTo, dockerd
<1>2. CASE Socket(s)
  BY <1>2 DEF Socket, GoTo, dockerd
<1>3. CASE Unlink(s)
  <2>1. /\ pc' = [pc EXCEPT ![s] = "bind"] /\ pc[s] = "unlink"
        /\ file' = NoFile /\ UNCHANGED <<listening, request, peer>>
        /\ replaced' = IF file \in Servers THEN replaced \cup {file} ELSE replaced
    BY <1>3 DEF Unlink, GoTo, dockerd
  <2>2. Bound' = Bound /\ listening' = {t \in Servers : pc'[t] = "serving"}
    BY <2>1
  <2>3. replaced' \subseteq Bound'
    BY <2>1, <2>2
  <2>4. Bound' \ replaced' = {}
    BY <2>1, <2>2
  <2> QED BY <2>1, <2>2, <2>3, <2>4
<1>4. CASE Bind(s)
  <2>1. /\ pc' = [pc EXCEPT ![s] = "listen"] /\ pc[s] = "bind"
        /\ file = NoFile /\ file' = s /\ UNCHANGED <<listening, request, peer, replaced>>
    BY <1>4 DEF Bind, GoTo, dockerd
  <2>2. Bound' = Bound \cup {s} /\ listening' = {t \in Servers : pc'[t] = "serving"}
    BY <2>1
  <2>3. Bound \ replaced = {}
    BY <2>1
  <2> QED BY <2>1, <2>2, <2>3
<1>5. CASE AddressInUse(s)
  BY <1>5, EndKeeps DEF AddressInUse
<1>6. CASE Listen(s)
  BY <1>6 DEF Listen, GoTo, dockerd
<1> QED BY <1>1, <1>2, <1>3, <1>4, <1>5, <1>6 DEF Starting

(* A failed call, an exit or a kill is an end, or a start that goes on.    *)
LEMMA TroubleKeeps ==
  ASSUME IInv, NEW s \in Servers, Trouble(s)
  PROVE  IInv'
<1>1. CASE UnlinkFails(s)
  BY <1>1, FilesAssumption DEF UnlinkFails, GoTo, dockerd, IInv, TypeOK, Owned, Bound, Places
<1>2. CASE CallFails(s) \/ Exit(s) \/ Kill(s)
  BY <1>2, EndKeeps DEF CallFails, Exit, Kill
<1> QED BY <1>1, <1>2 DEF Trouble

(* dockerd connects to a process that listens.                             *)
LEMMA DockerdKeeps ==
  ASSUME IInv, NEW c \in Clients, Ask(c) \/ Connect(c) \/ Accept(c) \/ Answer(c)
  PROVE  IInv'
<1> USE DEF IInv, TypeOK, Owned, Bound, Become
<1>1. CASE Ask(c)
  BY <1>1 DEF Ask
<1>2. CASE Connect(c)
  <2>1. file \in Servers
    BY <1>2 DEF Connect
  <2> QED BY <1>2, <2>1 DEF Connect
<1>3. CASE Accept(c)
  BY <1>3 DEF Accept
<1>4. CASE Answer(c)
  BY <1>4 DEF Answer
<1> QED BY <1>1, <1>2, <1>3, <1>4

LEMMA InitOwned == Init => IInv
BY FilesAssumption DEF Init, IInv, TypeOK, Owned, Bound, Places

LEMMA NextOwned == IInv /\ [Next]_vars => IInv'
<1> SUFFICES ASSUME IInv, [Next]_vars PROVE IInv'
  OBVIOUS
<1>1. CASE Untroubled
  BY <1>1, StartingKeeps, DockerdKeeps DEF Untroubled
<1>2. CASE \E s \in Servers : Trouble(s)
  BY <1>2, TroubleKeeps
<1>3. CASE UNCHANGED vars
  BY <1>3 DEF vars, IInv, TypeOK, Owned, Bound
<1> QED BY <1>1, <1>2, <1>3 DEF Next

LEMMA Invariance == Spec => []IInv
BY InitOwned, NextOwned, PTL DEF Spec

-----------------------------------------------------------------------------
(* A process serves exactly as long as its socket listens, the socket file *)
(* belongs to a process that has bound it, and whoever is connected is     *)
(* with a process that listens.                                            *)
THEOREM EndpointTypeCorrect == Spec => []TypeOK
<1>1. IInv => TypeOK
  BY DEF IInv
<1> QED BY <1>1, Invariance, PTL

(* However many processes start, fail, exit or are killed at whatever      *)
(* time: the one whose file nobody has unlinked is found at the path.      *)
THEOREM Found == Spec => []FoundUnlessReplaced
<1>1. IInv => FoundUnlessReplaced
  BY DEF IInv, TypeOK, Owned, FoundUnlessReplaced, Bound
<1> QED BY <1>1, Invariance, PTL
=============================================================================
