---------------------------- MODULE VolumeStore ----------------------------
(***************************************************************************)
(* What a volume driver promises to those who call it: every request takes *)
(* effect at most once, in one instant between its begin and its answer,   *)
(* the answer says what happened, and nothing but a remove takes anything  *)
(* from a volume.  A request whose process stops has no answer; whether it *)
(* took effect before is open.                                             *)
(***************************************************************************)
CONSTANTS
  Names,  \* names of volumes
  Paths   \* paths of files below a volume

VARIABLES
  store,   \* the content of every volume there is
  request  \* the request under way or answered last, and its effect and answer

vars == <<store, request>>

Contents == SUBSET Paths
Volumes == DOMAIN store

NoRequest == [op |-> "none", name |-> <<>>, effect |-> "none", answer |-> "stopped"]

Init == store = [n \in {} |-> {}] /\ request = NoRequest

UnderWay == request.answer = "none"

Begin(op, n) ==
  /\ ~UnderWay
  /\ request' = [op |-> op, name |-> n, effect |-> "none", answer |-> "none"]
  /\ UNCHANGED store

(* A new volume is empty. *)
Appear ==
  /\ UnderWay /\ request.op = "create" /\ request.effect = "none" /\ request.name \notin Volumes
  /\ store' = [n \in Volumes \cup {request.name} |-> IF n \in Volumes THEN store[n] ELSE {}]
  /\ request' = [request EXCEPT !.effect = "done"]

(* A remove may lose content before it succeeds, or instead. *)
Lose ==
  /\ UnderWay /\ request.op = "remove" /\ request.effect = "none" /\ request.name \in Volumes
  /\ \E p \in store[request.name] : store' = [store EXCEPT ![request.name] = @ \ {p}]
  /\ UNCHANGED request

Vanish ==
  /\ UnderWay /\ request.op = "remove" /\ request.effect = "none" /\ request.name \in Volumes
  /\ store[request.name] = {}
  /\ store' = [n \in Volumes \ {request.name} |-> store[n]]
  /\ request' = [request EXCEPT !.effect = "done"]

Answer(what) ==
  /\ UnderWay
  /\ \/ what = "ok" /\ request.effect = "done"
     \/ what = "failed" /\ request.effect = "none"
     \/ what = "exists" /\ request.effect = "none" /\ request.op = "create" /\ request.name \in Volumes
     \/ what = "missing" /\ request.effect = "none" /\ request.op = "remove" /\ request.name \notin Volumes
  /\ request' = [request EXCEPT !.answer = what]
  /\ UNCHANGED store

(* The process stops, after an answer or before it. *)
Stop == request' = NoRequest /\ UNCHANGED store

(* Those who use a volume add to it. *)
Write(n, p) ==
  /\ n \in Volumes
  /\ store' = [store EXCEPT ![n] = @ \cup {p}]
  /\ UNCHANGED request

Next ==
  \/ \E op \in {"create", "remove"}, n \in Names : Begin(op, n)
  \/ Appear \/ Lose \/ Vanish \/ Stop
  \/ \E what \in {"ok", "failed", "exists", "missing"} : Answer(what)
  \/ \E n \in Names, p \in Paths : Write(n, p)

Spec == Init /\ [][Next]_vars
=============================================================================
