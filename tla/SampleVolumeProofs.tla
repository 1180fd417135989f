------------------------- MODULE SampleVolumeProofs -------------------------
(* Theorems about SampleVolume: for every set of names, clashing or not,   *)
(* for all paths below them and for every bound on the time.               *)
EXTENDS SampleVolume, TLAPS

-----------------------------------------------------------------------------
(* The inductive invariant. *)

HandlerSteps == {"check", "mkdir", "open", "write", "empty", "rmdir", "unlink"}
Entry == [kind : {"none", "dir", "file"}, files : SUBSET Paths, stamp : Times]

Sent == [op : {"create", "remove"}, name : Names, live : BOOLEAN]
Relied == [kept : BOOLEAN, files : SUBSET Paths, stamp : Times]

Typed ==
  /\ entry \in [Entries -> Entry]
  /\ pc \in HandlerSteps \cup {"down", "test", "select", "round"}
  /\ should_exit \in BOOLEAN
  /\ cur \in [op : {"none", "create", "remove"}, name : Names \cup {<<>>},
              live : BOOLEAN, answer : Answers]
  /\ waiting \subseteq Sent
  /\ mounted \subseteq Names /\ now \in Times
  /\ promise \in [Names -> Relied]

Shaped == \A n \in Entries : Whole(entry[n].files) /\ (entry[n].kind # "dir" => entry[n].files = {})

(* What a handler has found or made stays so until its next step. *)
Placed ==
  /\ Handling <=> pc \in HandlerSteps
  /\ Handling => cur.name \in Names /\ cur.op # "none"
  /\ pc \in {"mkdir", "open", "write"} => cur.op = "create" /\ ~promise[cur.name].kept
  /\ pc \in {"empty", "rmdir", "unlink"} => cur.op = "remove"
  /\ pc \in {"open", "write"} => entry[cur.name] = Dir({}) /\ cur.name \notin mounted
  /\ pc = "write" => entry[TsFile(cur.name)] = File(0)
  /\ pc \in {"empty", "rmdir"} => IsDir(cur.name)

(* Somebody waits for at most one request for a volume, and no removal is  *)
(* on its way for one that dockerd relies on.                              *)
Asked ==
  /\ \A q, r \in waiting : q.name = r.name /\ q.live /\ r.live => q = r
  /\ Handling /\ cur.live => \A r \in waiting : r.name = cur.name => ~r.live
  /\ \A n \in Names : promise[n].kept =>
       /\ ~(Handling /\ cur.op = "remove" /\ cur.name = n)
       /\ \A r \in waiting : r.name = n => r.op # "remove"

Used == \A n \in mounted : IsDir(n)

Stamped ==
  \A n \in Names : promise[n].kept /\ promise[n].stamp # 0 =>
    entry[TsFile(n)] = File(promise[n].stamp)

IInv == Typed /\ Shaped /\ Placed /\ Asked /\ Used /\ KeptUntilRemoved /\ Stamped

(* The time stamp of a volume is not the volume, nor that of another one.  *)
LEMMA TsFiles ==
  /\ \A n \in Names : TsFile(n) \in Entries /\ n \in Entries /\ TsFile(n) # n
  /\ \A m, n \in Names : TsFile(m) = TsFile(n) => m = n
<1>1. \A n \in Names : n \in Seq(STRING)
  BY NamesAssumption
<1>2. \A n \in Names : TsFile(n) # n
  BY <1>1 DEF TsFile
<1>3. \A m, n \in Names : TsFile(m) = TsFile(n) => m = n
  <2> SUFFICES ASSUME NEW m \in Names, NEW n \in Names, TsFile(m) = TsFile(n)
               PROVE  m = n
    OBVIOUS
  <2>1. m \in Seq(STRING) /\ n \in Seq(STRING)
    BY <1>1
  <2>2. Len(Append(m, "create_ts")) = Len(Append(n, "create_ts"))
    BY DEF TsFile
  <2>3. Len(m) = Len(n)
    BY <2>1, <2>2
  <2>4. ASSUME NEW i \in 1..Len(m) PROVE m[i] = n[i]
    <3>1. Append(m, "create_ts")[i] = Append(n, "create_ts")[i]
      BY DEF TsFile
    <3> QED BY <2>1, <2>3, <3>1
  <2> QED BY <2>1, <2>3, <2>4
<1> QED BY <1>2, <1>3 DEF Entries

LEMMA Requests ==
  ASSUME NEW op, NEW n, NEW live
  PROVE  /\ Request(op, n, live).op = op /\ Request(op, n, live).name = n
         /\ Request(op, n, live).live = live
         /\ op \in {"create", "remove"} /\ n \in Names /\ live \in BOOLEAN => Request(op, n, live) \in Sent
BY DEF Request, Sent

-----------------------------------------------------------------------------
(* The handlers. *)

(* The end of a successful create adds at most one promise, that of its    *)
(* volume, and only if no removal is on its way.                           *)
LEMMA Promising ==
  ASSUME IInv, pc \in {"open", "write"}, NEW t \in Times, Answer("ok"), promise' = Promised(t),
         waiting' = waiting
  PROVE  /\ promise' \in [Names -> Relied]
         /\ \A n \in Names : promise'[n] = promise[n] \/ (n = cur.name /\ promise'[n] = Promise(t))
         /\ Asked'
<1> USE DEF IInv, Typed, Placed, Handling, HandlerSteps, Sent, Relied
<1>1. cur.name \in Names
  OBVIOUS
<1>2. Promise(t) \in Relied
  BY DEF Promise
<1>3. promise' = promise \/ promise' = [promise EXCEPT ![cur.name] = Promise(t)]
  BY DEF Promised
<1>4. promise' \in [Names -> Relied]
  BY <1>1, <1>2, <1>3
<1>5. \A n \in Names : promise'[n] = promise[n] \/ (n = cur.name /\ promise'[n] = Promise(t))
  BY <1>1, <1>3
<1>6. ~Handling'
  BY DEF Answer
<1>7. ASSUME promise'[cur.name] # promise[cur.name], NEW r \in waiting, r.name = cur.name
      PROVE  r.op # "remove"
  <2>1. cur.live /\ Request("remove", cur.name, FALSE) \notin waiting
    BY <1>7 DEF Promised
  <2>2. ~r.live
    BY <1>7, <2>1 DEF Asked
  <2>3. r.op = "remove" => r = Request("remove", cur.name, FALSE)
    BY <1>7, <2>2 DEF Request
  <2> QED BY <2>1, <2>3
<1>8. Asked'
  BY <1>5, <1>6, <1>7 DEF Asked
<1> QED BY <1>4, <1>5, <1>8

LEMMA HandlerKeeps ==
  ASSUME IInv, Handler
  PROVE  IInv'
<1> USE TsFiles, MaxTimeAssumption DEF IInv, Typed, Shaped, Placed, Used, KeptUntilRemoved,
      Stamped, Entry, Sent, Relied, HandlerSteps, Times, Answers, IsDir, Handling, world, At, Answer, Dir, File
<1>kept. \A n \in Names : promise[n].kept => entry[n].kind = "dir"
  <2> SUFFICES ASSUME NEW n \in Names, promise[n].kept PROVE entry[n].kind = "dir"
    OBVIOUS
  <2>1. entry[n] = Dir(promise[n].files)
    BY DEF KeptUntilRemoved
  <2> QED BY <2>1 DEF Dir
<1>other. \A n \in Names :
            promise[n].kept /\ pc \in {"mkdir", "open", "write", "empty", "rmdir", "unlink"} => n # cur.name
  <2>1. pc \in {"mkdir", "open", "write"} => ~promise[cur.name].kept
    OBVIOUS
  <2>2. pc \in {"empty", "rmdir", "unlink"} => Handling /\ cur.op = "remove"
    OBVIOUS
  <2> QED BY <2>1, <2>2 DEF Asked
<1>1. CASE Check
  <2>1. Typed'
    BY <1>1 DEF Check
  <2>2. Shaped'
    BY <1>1 DEF Check
  <2>3. Placed'
    BY <1>kept, <1>1 DEF Check
  <2>4. Asked'
    BY <1>1 DEF Check, Asked
  <2>5. Used'
    BY <1>1 DEF Check
  <2>6. KeptUntilRemoved'
    BY <1>1 DEF Check
  <2>7. Stamped'
    BY <1>1 DEF Check
  <2> QED BY <2>1, <2>2, <2>3, <2>4, <2>5, <2>6, <2>7
<1>2. CASE MkdirFails
  BY <1>2 DEF MkdirFails, Asked
<1>3. CASE Mkdir
  <2>1. Typed'
    BY <1>3 DEF Mkdir, Nothing
  <2>2. Shaped'
    BY <1>3 DEF Mkdir, Nothing, Whole
  <2>3. Placed'
    BY <1>3 DEF Mkdir, Nothing
  <2>4. Asked'
    BY <1>3 DEF Mkdir, Nothing, Asked
  <2>5. Used'
    BY <1>3 DEF Mkdir, Nothing
  <2>6. KeptUntilRemoved'
    BY <1>3 DEF Mkdir, Nothing
  <2>7. Stamped'
    BY <1>3 DEF Mkdir, Nothing
  <2> QED BY <2>1, <2>2, <2>3, <2>4, <2>5, <2>6, <2>7
<1>4. CASE OpenFails
  <2>1. /\ pc \in {"open", "write"} /\ Answer("ok") /\ promise' = Promised(0)
        /\ UNCHANGED <<should_exit, waiting, mounted, now>>
        /\ entry' = entry
    BY <1>4 DEF OpenFails
  <2>2. /\ promise' \in [Names -> Relied]
        /\ \A n \in Names : promise'[n] = promise[n] \/ (n = cur.name /\ promise'[n] = Promise(0))
        /\ Asked'
    BY <2>1, Promising
  <2>3. (Typed /\ Shaped /\ Placed /\ Used)'
    BY <2>1, <2>2
  <2>4. KeptUntilRemoved'
    <3> SUFFICES ASSUME NEW n \in Names, promise'[n].kept
                 PROVE  entry'[n] = Dir(promise'[n].files)
      OBVIOUS
    <3>1. entry'[n] = entry[n]
      BY <2>1, <2>2
    <3>2. CASE promise'[n] = promise[n]
      BY <3>1, <3>2
    <3>3. CASE n = cur.name /\ promise'[n] = Promise(0)
      <4>1. entry[n] = Dir({})
        BY <2>1, <3>3
      <4> QED BY <3>1, <3>3, <4>1 DEF Promise
    <3> QED BY <2>2, <3>2, <3>3
  <2>5. Stamped'
    <3> SUFFICES ASSUME NEW n \in Names, promise'[n].kept, promise'[n].stamp # 0
                 PROVE  entry'[TsFile(n)] = File(promise'[n].stamp)
      OBVIOUS
    <3>1. CASE promise'[n] = promise[n]
      <4>1. promise[n].kept /\ promise[n].stamp # 0 /\ n # cur.name
        BY <2>1, <3>1
      <4>2. entry[TsFile(n)] = File(promise[n].stamp)
        BY <4>1
      <4>3. entry'[TsFile(n)] = entry[TsFile(n)]
        BY <2>1, <4>1
      <4> QED BY <3>1, <4>2, <4>3
    <3>2. CASE n = cur.name /\ promise'[n] = Promise(0)
      BY <2>1, <3>2 DEF Promise
    <3> QED BY <2>2, <3>1, <3>2
  <2> QED BY <2>2, <2>3, <2>4, <2>5
<1>5. CASE Open
  <2>1. Typed'
    BY <1>5 DEF Open, Opened
  <2>2. Shaped'
    BY <1>5 DEF Open, Opened
  <2>3. Placed'
    BY <1>5 DEF Open, Opened
  <2>4. Asked'
    BY <1>5 DEF Open, Opened, Asked
  <2>5. Used'
    BY <1>5 DEF Open, Opened
  <2>6. KeptUntilRemoved'
    BY <1>5 DEF Open, Opened
  <2>7. Stamped'
    BY <1>5 DEF Open, Opened
  <2> QED BY <2>1, <2>2, <2>3, <2>4, <2>5, <2>6, <2>7
<1>6. CASE WriteFails
  <2>1. /\ pc \in {"open", "write"} /\ Answer("ok") /\ promise' = Promised(0)
        /\ UNCHANGED <<should_exit, waiting, mounted, now>>
        /\ entry' = entry
    BY <1>6 DEF WriteFails
  <2>2. /\ promise' \in [Names -> Relied]
        /\ \A n \in Names : promise'[n] = promise[n] \/ (n = cur.name /\ promise'[n] = Promise(0))
        /\ Asked'
    BY <2>1, Promising
  <2>3. (Typed /\ Shaped /\ Placed /\ Used)'
    BY <2>1, <2>2
  <2>4. KeptUntilRemoved'
    <3> SUFFICES ASSUME NEW n \in Names, promise'[n].kept
                 PROVE  entry'[n] = Dir(promise'[n].files)
      OBVIOUS
    <3>1. entry'[n] = entry[n]
      BY <2>1, <2>2
    <3>2. CASE promise'[n] = promise[n]
      BY <3>1, <3>2
    <3>3. CASE n = cur.name /\ promise'[n] = Promise(0)
      <4>1. entry[n] = Dir({})
        BY <2>1, <3>3
      <4> QED BY <3>1, <3>3, <4>1 DEF Promise
    <3> QED BY <2>2, <3>2, <3>3
  <2>5. Stamped'
    <3> SUFFICES ASSUME NEW n \in Names, promise'[n].kept, promise'[n].stamp # 0
                 PROVE  entry'[TsFile(n)] = File(promise'[n].stamp)
      OBVIOUS
    <3>1. CASE promise'[n] = promise[n]
      <4>1. promise[n].kept /\ promise[n].stamp # 0 /\ n # cur.name
        BY <2>1, <3>1
      <4>2. entry[TsFile(n)] = File(promise[n].stamp)
        BY <4>1
      <4>3. entry'[TsFile(n)] = entry[TsFile(n)]
        BY <2>1, <4>1
      <4> QED BY <3>1, <4>2, <4>3
    <3>2. CASE n = cur.name /\ promise'[n] = Promise(0)
      BY <2>1, <3>2 DEF Promise
    <3> QED BY <2>2, <3>1, <3>2
  <2> QED BY <2>2, <2>3, <2>4, <2>5
<1>7. CASE WriteStamp
  <2>1. /\ pc \in {"open", "write"} /\ Answer("ok") /\ promise' = Promised(now)
        /\ UNCHANGED <<should_exit, waiting, mounted, now>>
        /\ entry' = [entry EXCEPT ![TsFile(cur.name)] = File(now)]
    <3>1. entry[TsFile(cur.name)] = File(0)
      BY <1>7 DEF WriteStamp
    <3>2. Written(File(0)) = File(now)
      BY DEF Written
    <3> QED BY <1>7, <3>1, <3>2 DEF WriteStamp
  <2>2. /\ promise' \in [Names -> Relied]
        /\ \A n \in Names : promise'[n] = promise[n] \/ (n = cur.name /\ promise'[n] = Promise(now))
        /\ Asked'
    BY <2>1, Promising
  <2>3. pc = "write"
    BY <1>7 DEF WriteStamp
  <2>4. Typed'
    BY <2>1, <2>2, <2>3 DEF Promise
  <2>5. Shaped'
    BY <2>1, <2>2, <2>3 DEF Promise, Whole
  <2>6. Placed'
    BY <2>1, <2>2, <2>3 DEF Promise
  <2>7. Used'
    BY <2>1, <2>2, <2>3 DEF Promise
  <2>8. KeptUntilRemoved'
    <3> SUFFICES ASSUME NEW n \in Names, promise'[n].kept
                 PROVE  entry'[n] = Dir(promise'[n].files)
      OBVIOUS
    <3>1. entry'[n] = entry[n]
      BY <1>kept, <2>1, <2>2, <2>3
    <3>2. CASE promise'[n] = promise[n]
      BY <3>1, <3>2
    <3>3. CASE n = cur.name /\ promise'[n] = Promise(now)
      <4>1. entry[n] = Dir({})
        BY <2>1, <3>3
      <4> QED BY <3>1, <3>3, <4>1 DEF Promise
    <3> QED BY <2>2, <3>2, <3>3
  <2>9. Stamped'
    <3> SUFFICES ASSUME NEW n \in Names, promise'[n].kept, promise'[n].stamp # 0
                 PROVE  entry'[TsFile(n)] = File(promise'[n].stamp)
      OBVIOUS
    <3>1. CASE promise'[n] = promise[n]
      <4>1. promise[n].kept /\ promise[n].stamp # 0 /\ n # cur.name
        BY <2>1, <3>1
      <4>2. entry[TsFile(n)] = File(promise[n].stamp)
        BY <4>1
      <4>3. entry'[TsFile(n)] = entry[TsFile(n)]
        BY <2>1, <4>1
      <4> QED BY <3>1, <4>2, <4>3
    <3>2. CASE n = cur.name /\ promise'[n] = Promise(now)
      BY <2>1, <3>2 DEF Promise
    <3> QED BY <2>2, <3>1, <3>2
  <2> QED BY <2>2, <2>4, <2>5, <2>6, <2>7, <2>8, <2>9
<1>8. CASE Empty
  <2>1. Typed'
    BY <1>8 DEF Empty, Deletable
  <2>2. Shaped'
    BY <1>8 DEF Empty, Deletable, Whole
  <2>3. Placed'
    BY <1>8 DEF Empty, Deletable
  <2>4. Asked'
    BY <1>8 DEF Empty, Deletable, Asked
  <2>5. Used'
    BY <1>8 DEF Empty, Deletable
  <2>6. KeptUntilRemoved'
    BY <1>other, <1>8 DEF Empty, Deletable
  <2>7. Stamped'
    BY <1>8 DEF Empty, Deletable
  <2> QED BY <2>1, <2>2, <2>3, <2>4, <2>5, <2>6, <2>7
<1>9. CASE Emptied
  BY <1>9 DEF Emptied, Asked
<1>10. CASE RemoveFails
  BY <1>10 DEF RemoveFails, Asked
<1>11. CASE Rmdir
  <2>1. Typed'
    BY <1>11 DEF Rmdir, Nothing
  <2>2. Shaped'
    BY <1>11 DEF Rmdir, Nothing, Whole
  <2>3. Placed'
    BY <1>11 DEF Rmdir, Nothing
  <2>4. Asked'
    BY <1>11 DEF Rmdir, Nothing, Asked
  <2>5. Used'
    BY <1>11 DEF Rmdir, Nothing
  <2>6. KeptUntilRemoved'
    BY <1>other, <1>11 DEF Rmdir, Nothing
  <2>7. Stamped'
    BY <1>11 DEF Rmdir, Nothing
  <2> QED BY <2>1, <2>2, <2>3, <2>4, <2>5, <2>6, <2>7
<1>12. CASE Unlink
  <2>1. CASE UNCHANGED entry
    BY <1>12, <2>1 DEF Unlink, Asked
  <2>2. CASE /\ entry[TsFile(cur.name)].kind # "dir"
             /\ entry' = [entry EXCEPT ![TsFile(cur.name)] = Nothing]
    <3>1. Typed'
      <4>1. Nothing \in Entry /\ TsFile(cur.name) \in Entries
        BY <1>12 DEF Unlink, Nothing
      <4>2. entry' \in [Entries -> Entry]
        BY <2>2, <4>1
      <4> QED BY <1>12, <4>2 DEF Unlink
    <3>2. Shaped'
      BY <1>12, <2>2 DEF Unlink, Nothing, Whole
    <3>3. Placed'
      BY <1>12, <2>2 DEF Unlink, Nothing
    <3>4. Asked'
      BY <1>12, <2>2 DEF Unlink, Nothing, Asked
    <3>5. Used'
      BY <1>12, <2>2 DEF Unlink, Nothing
    <3>6. KeptUntilRemoved'
      BY <1>12, <2>2 DEF Unlink, Nothing
    <3>7. Stamped'
      BY <1>other, <1>12, <2>2 DEF Unlink, Nothing
    <3> QED BY <3>1, <3>2, <3>3, <3>4, <3>5, <3>6, <3>7
  <2> QED BY <1>12, <2>1, <2>2 DEF Unlink
<1> QED
  BY <1>1, <1>2, <1>3, <1>4, <1>5, <1>6, <1>7, <1>8, <1>9, <1>10, <1>11, <1>12 DEF Handler

-----------------------------------------------------------------------------
(* main. *)

(* A process that stops leaves everything where it is, and the request     *)
(* that it handled waits again, if somebody waits for it.                  *)
LEMMA StopKeeps ==
  ASSUME IInv, Stop, should_exit' \in BOOLEAN
  PROVE  IInv'
<1> USE DEF IInv, Typed, Answers, HandlerSteps, Handling, IsDir
<1>1. /\ pc' = "down" /\ cur' = NoRequest /\ UNCHANGED <<entry, mounted, now, promise>>
      /\ waiting' = {r \in waiting : r.live} \cup
           (IF Handling /\ cur.live THEN {Request(cur.op, cur.name, TRUE)} ELSE {})
  BY DEF Stop
<1>2. ~Handling'
  BY <1>1 DEF NoRequest, Handled
<1>3. Handling => cur.op \in {"create", "remove"} /\ cur.name \in Names
  BY DEF Placed
<1>4. Handling => Request(cur.op, cur.name, TRUE) \in Sent
  BY <1>3, Requests
<1>5. Typed'
  <2>1. waiting' \subseteq Sent
    BY <1>1, <1>4
  <2>2. NoRequest \in [op : {"none", "create", "remove"}, name : Names \cup {<<>>},
                       live : BOOLEAN, answer : Answers]
    BY DEF NoRequest, Handled, Request
  <2> QED BY <1>1, <2>1, <2>2
<1>6. Shaped' /\ Placed' /\ Used' /\ KeptUntilRemoved' /\ Stamped'
  BY <1>1, <1>2 DEF Shaped, Placed, Used, KeptUntilRemoved, Stamped
<1>7. Asked'
  <2>1. \A q \in waiting' : q \in waiting \/ (Handling /\ cur.live /\ q = Request(cur.op, cur.name, TRUE))
    BY <1>1
  <2>2. Request(cur.op, cur.name, TRUE).name = cur.name /\ Request(cur.op, cur.name, TRUE).op = cur.op
    BY DEF Request
  <2> HIDE DEF Typed, Handling
  <2>3. \A q, r \in waiting' : q.name = r.name /\ q.live /\ r.live => q = r
    BY <2>1, <2>2 DEF Asked
  <2>4. \A n \in Names, q \in waiting' : promise[n].kept /\ q.name = n => q.op # "remove"
    BY <2>1, <2>2 DEF Asked
  <2> QED BY <1>1, <1>2, <2>3, <2>4 DEF Asked
<1> QED BY <1>5, <1>6, <1>7

LEMMA MainKeeps ==
  ASSUME IInv, Main \/ Start \/ Signal \/ Kill
  PROVE  IInv'
<1> USE DEF IInv, Typed, Shaped, Placed, Asked, Used, KeptUntilRemoved, Stamped, HandlerSteps,
      Handling, IsDir, world
<1>1. CASE Test
  BY <1>1 DEF Test
<1>2. CASE Exit
  BY <1>2, StopKeeps DEF Exit
<1>3. CASE RunReturns
  BY <1>3 DEF RunReturns
<1>4. CASE RoundEnds
  BY <1>4 DEF RoundEnds
<1>5. CASE Start
  BY <1>5 DEF Start
<1>6. CASE Signal
  BY <1>6 DEF Signal
<1>7. CASE Kill
  BY <1>7, StopKeeps DEF Kill
<1> QED BY <1>1, <1>2, <1>3, <1>4, <1>5, <1>6, <1>7 DEF Main

-----------------------------------------------------------------------------
(* dockerd and containers. *)

(* A request that dockerd sends is the only one for its volume that it     *)
(* waits for, and one that it gives up is one of those it sent.            *)
LEMMA DockerdKeeps ==
  ASSUME IInv,
         \/ \E r \in waiting : Take(r) \/ GiveUp(r)
         \/ GiveUpHandled
         \/ \E n \in Names, op \in {"create", "remove"} : Ask(op, n)
  PROVE  IInv'
<1> USE MaxTimeAssumption DEF IInv, Typed, Shaped, Placed, Used, KeptUntilRemoved, Stamped,
      HandlerSteps, Handling, IsDir, world, driver, Times
<1>1. CASE \E r \in waiting : Take(r)
  <2>1. PICK r \in waiting : Take(r)
    BY <1>1
  <2>2. /\ waiting' = waiting \ {r} /\ cur' = Handled(r, "none") /\ pc' = "check"
        /\ UNCHANGED <<entry, should_exit, mounted, now, promise>>
    BY <2>1 DEF Take
  <2>3. /\ cur'.op = r.op /\ cur'.name = r.name /\ cur'.live = r.live /\ cur'.answer = "none"
        /\ cur' \in [op : {"none", "create", "remove"}, name : Names \cup {<<>>},
                     live : BOOLEAN, answer : Answers]
        /\ r.name \in Names /\ r.op # "none"
    <3>1. r.op \in {"create", "remove"} /\ r.name \in Names /\ r.live \in BOOLEAN
      BY DEF Sent
    <3>2. cur' = [op |-> r.op, name |-> r.name, live |-> r.live, answer |-> "none"]
      BY <2>2 DEF Handled
    <3> QED BY <3>1, <3>2 DEF Answers
  <2>4. Asked'
    <3>1. \A q \in waiting' : q.name = r.name /\ r.live => ~q.live
      BY <2>2 DEF Asked
    <3>2. \A n \in Names : promise[n].kept => ~(r.op = "remove" /\ r.name = n)
      BY DEF Asked
    <3> QED BY <2>2, <2>3, <3>1, <3>2 DEF Asked
  <2>5. (Typed /\ Shaped /\ Used /\ KeptUntilRemoved /\ Stamped)'
    BY <2>2, <2>3
  <2>6. Placed'
    BY <2>2, <2>3
  <2> QED BY <2>4, <2>5, <2>6
<1>2. CASE \E r \in waiting : GiveUp(r)
  <2>1. PICK r \in waiting : GiveUp(r)
    BY <1>2
  <2>2. /\ UNCHANGED <<entry, pc, should_exit, cur, mounted, now, promise>>
        /\ \A q \in waiting' : q \in waiting \/ q = Request(r.op, r.name, FALSE)
    BY <2>1 DEF GiveUp
  <2>3. Asked'
    <3>1. \A q \in waiting' : q \in waiting \/ (q.op = r.op /\ q.name = r.name /\ ~q.live)
      BY <2>2 DEF Request
    <3> QED BY <2>2, <3>1 DEF Asked
  <2>4. Typed'
    <3>1. Request(r.op, r.name, FALSE) \in Sent
      <4>1. r.op \in {"create", "remove"} /\ r.name \in Names
        BY DEF Sent
      <4> QED BY <4>1, Requests
    <3> QED BY <2>2, <3>1
  <2>5. (Shaped /\ Used /\ KeptUntilRemoved /\ Stamped /\ Placed)'
    BY <2>2
  <2> QED BY <2>3, <2>4, <2>5
<1>3. CASE GiveUpHandled
  BY <1>3 DEF GiveUpHandled, Asked
<1>4. CASE \E n \in Names, op \in {"create", "remove"} : Ask(op, n)
  <2>1. PICK n \in Names, op \in {"create", "remove"} : Ask(op, n)
    BY <1>4
  <2>2. /\ waiting' = waiting \cup {Request(op, n, TRUE)} /\ ~Busy(n)
        /\ UNCHANGED <<entry, pc, should_exit, cur, mounted>>
        /\ now' = now \/ (now < MaxTime /\ now' = now + 1)
        /\ promise' = IF op = "remove" THEN [promise EXCEPT ![n] = NoPromise] ELSE promise
    BY <2>1 DEF Ask
  <2>3. /\ promise' \in [Names -> Relied]
        /\ \A m \in Names : promise'[m].kept => promise'[m] = promise[m]
        /\ op = "remove" => ~promise'[n].kept
    BY <2>2 DEF NoPromise, Relied
  <2>4. Asked'
    <3>1. \A q \in waiting : q.name = n => ~q.live
      BY <2>2 DEF Busy
    <3>2. Handling /\ cur.live => cur.name # n
      BY <2>2 DEF Busy
    <3>3. \A q \in waiting' : q \in waiting \/ (q = Request(op, n, TRUE) /\ q.op = op /\ q.name = n)
      BY <2>2 DEF Request
    <3>4. \A q, r \in waiting' : q.name = r.name /\ q.live /\ r.live => q = r
      BY <3>1, <3>3 DEF Asked
    <3>5. Handling /\ cur.live => \A r \in waiting' : r.name = cur.name => ~r.live
      BY <3>2, <3>3 DEF Asked
    <3>6. \A m \in Names : promise'[m].kept => \A r \in waiting' : r.name = m => r.op # "remove"
      BY <2>3, <3>3 DEF Asked
    <3> QED BY <2>2, <2>3, <3>4, <3>5, <3>6 DEF Asked
  <2>5. Typed'
    <3>1. Request(op, n, TRUE) \in Sent
      BY Requests
    <3>2. now' \in Times
      BY <2>2
    <3> QED BY <2>2, <2>3, <3>1, <3>2
  <2>6. (Shaped /\ Used)'
    BY <2>2
  <2>7. Placed'
    BY <2>2, <2>3
  <2>8. (KeptUntilRemoved /\ Stamped)'
    BY <2>2, <2>3
  <2> QED BY <2>4, <2>5, <2>6, <2>7, <2>8
<1> QED BY <1>1, <1>2, <1>3, <1>4

LEMMA ContainersKeep ==
  ASSUME IInv, (\E n \in Names : Mount(n) \/ Unmount(n)) \/ ContainersWrite
  PROVE  IInv'
<1> USE TsFiles DEF IInv, Typed, Shaped, Placed, Asked, Used, KeptUntilRemoved, Stamped,
      HandlerSteps, Handling, IsDir, world, driver
<1>1. CASE \E n \in Names : Mount(n) \/ Unmount(n)
  BY <1>1 DEF Mount, Unmount
<1>2. CASE ContainersWrite
  <2>1. PICK n \in mounted, p \in Paths : Write(n, p)
    BY <1>2 DEF ContainersWrite
  <2>2. /\ n \in Names /\ n \in Entries /\ entry[n] \in Entry /\ IsDir(n)
        /\ entry' = [entry EXCEPT ![n] = Dir(entry[n].files \cup {p})]
        /\ promise' = IF promise[n].kept THEN [promise EXCEPT ![n].files = @ \cup {p}] ELSE promise
        /\ UNCHANGED <<pc, should_exit, cur, waiting, mounted, now>>
    BY <2>1 DEF Write, Entries
  <2>3. /\ promise' \in [Names -> Relied]
        /\ \A m \in Names : promise'[m].kept = promise[m].kept /\ promise'[m].stamp = promise[m].stamp
        /\ \A m \in Names \ {n} : promise'[m] = promise[m]
        /\ promise[n].kept => promise'[n].files = promise[n].files \cup {p}
    BY <2>2 DEF Relied
  <2>4. Typed'
    <3>1. Dir(entry[n].files \cup {p}) \in Entry
      BY <2>2, MaxTimeAssumption DEF Dir, Entry, Times
    <3> QED BY <2>2, <2>3, <3>1
  <2>5. Shaped'
    BY <2>1, <2>2 DEF Write, Dir
  <2>6. Placed'
    BY <2>2, <2>3 DEF Dir, File
  <2>7. (Asked /\ Used)'
    BY <2>2, <2>3 DEF Dir
  <2>8. KeptUntilRemoved'
    <3>1. promise[n].kept => entry[n].files = promise[n].files
      <4> HIDE DEF IsDir
      <4>1. promise[n].kept => entry[n] = Dir(promise[n].files)
        BY <2>2
      <4> QED BY <4>1 DEF Dir
    <3> QED BY <2>2, <2>3, <3>1
  <2>9. Stamped'
    BY <2>2, <2>3 DEF Dir, File
  <2> QED BY <2>4, <2>5, <2>6, <2>7, <2>8, <2>9
<1> QED BY <1>1, <1>2

-----------------------------------------------------------------------------
LEMMA InitKept == Init => IInv
<1> SUFFICES ASSUME Init PROVE IInv
  OBVIOUS
<1> USE MaxTimeAssumption DEF Init, NoRequest, Handled, Request, Nothing, NoPromise, Answers,
      HandlerSteps, Handling, Times
<1>1. Typed
  <2>1. Nothing \in Entry /\ NoPromise \in Relied
    BY DEF Entry, Relied
  <2>2. NoRequest \in [op : {"none", "create", "remove"}, name : Names \cup {<<>>},
                       live : BOOLEAN, answer : Answers]
    OBVIOUS
  <2>3. 0 \in Times
    OBVIOUS
  <2> HIDE DEF Nothing, NoPromise, NoRequest, Times
  <2> QED BY <2>1, <2>2, <2>3 DEF Typed
<1>2. Shaped /\ Placed /\ Asked /\ Used
  BY DEF Shaped, Whole, Placed, Asked, Used
<1>3. KeptUntilRemoved /\ Stamped
  BY DEF KeptUntilRemoved, Stamped
<1> QED BY <1>1, <1>2, <1>3 DEF IInv

LEMMA NextKept == IInv /\ [Next]_vars => IInv'
<1> SUFFICES ASSUME IInv, [Next]_vars PROVE IInv'
  OBVIOUS
<1>1. CASE UNCHANGED vars
  BY <1>1 DEF vars, driver, world, IInv, Typed, Shaped, Placed, Asked, Used, KeptUntilRemoved,
              Stamped, Handling, IsDir
<1>2. CASE Next
  BY <1>2, HandlerKeeps, MainKeeps, DockerdKeeps, ContainersKeep DEF Next
<1> QED BY <1>1, <1>2

LEMMA Invariance == Spec => []IInv
BY InitKept, NextKept, PTL DEF Spec

-----------------------------------------------------------------------------
(* What is in m_root is whole, and a handler is at its steps exactly as    *)
(* long as it has not answered.                                            *)
THEOREM SampleTypeCorrect == Spec => []TypeOK
<1>1. IInv => TypeOK
  BY DEF IInv, Typed, Shaped, Placed, TypeOK, Entry, HandlerSteps, Answers
<1> QED BY <1>1, Invariance, PTL

(* A volume that dockerd relies on keeps what was written into it, through *)
(* crashes, repeated requests, answers given up and clashing names.        *)
THEOREM VolumesKept == Spec => []KeptUntilRemoved
<1>1. IInv => KeptUntilRemoved
  BY DEF IInv
<1> QED BY <1>1, Invariance, PTL

(* get and list report the time of the volume's own creation, whatever     *)
(* stamps removed volumes have left behind.                                *)
THEOREM StampsKept == Spec => []TimesKept
<1>1. IInv => TimesKept
  <2> SUFFICES ASSUME IInv, NEW n \in Names, promise[n].kept, promise[n].stamp # 0
               PROVE  /\ Get(n) = [name |-> n, created_at |-> {promise[n].stamp}]
                      /\ Get(n) \in List
    BY DEF TimesKept
  <2>1. entry[n] = Dir(promise[n].files) /\ entry[TsFile(n)] = File(promise[n].stamp)
    BY DEF IInv, KeptUntilRemoved, Stamped
  <2>2. IsDir(n) /\ CreateTimes(n) = {promise[n].stamp}
    BY <2>1 DEF Dir, File, IsDir, CreateTimes
  <2> QED BY <2>2 DEF Get, Info, List
<1> QED BY <1>1, Invariance, PTL

-----------------------------------------------------------------------------
(* The refinement. *)

Volumes == {x \in Names : IsDir(x)}
store == [n \in Volumes |-> entry[n].files]
request == [op |-> cur.op, name |-> cur.name, effect |-> Effect, answer |-> cur.answer]

(* The instance is one of these two expressions. *)
LEMMA Mapping ==
  /\ Store!vars = <<store, request>> /\ Store!Volumes = Volumes
  /\ Store!UnderWay <=> Handling
BY DEF Store!vars, Store!Volumes, Store!UnderWay, store, request, Volumes, Handling

(* A step that changes neither a directory nor the request stutters. *)
LEMMA Stutters ==
  ASSUME UNCHANGED entry, UNCHANGED <<cur.op, cur.name, cur.answer>>, Effect' = Effect
  PROVE  UNCHANGED Store!vars
BY DEF Store!vars, Volumes, IsDir

(* What is no directory, before or after, is not in the store. *)
LEMMA SameStore ==
  ASSUME IInv, NEW x \in Entries, ~IsDir(x), NEW f, f.kind # "dir",
         entry' = [entry EXCEPT ![x] = f]
  PROVE  store' = store
<1>1. \A n \in Names : n \in Entries
  BY DEF Entries
<1>2. \A n \in Names : IsDir(n)' = IsDir(n) /\ (IsDir(n) => entry'[n] = entry[n])
  BY <1>1 DEF IInv, Typed, IsDir
<1>3. Volumes' = Volumes
  BY <1>2 DEF Volumes
<1> QED BY <1>2, <1>3 DEF store, Volumes

(* The end of a handler is the answer of the abstract request. *)
LEMMA AnswersMap ==
  ASSUME Handling, NEW what \in {"ok", "failed", "exists", "missing"}, Answer(what), store' = store,
         what = "ok" => Effect = "done",
         what # "ok" => Effect = "none",
         what = "exists" => cur.op = "create" /\ cur.name \in Volumes,
         what = "missing" => cur.op = "remove" /\ cur.name \notin Volumes,
         cur \in [op : {"none", "create", "remove"}, name : Names \cup {<<>>},
                  live : BOOLEAN, answer : Answers]
  PROVE  Store!Next
<1>1. cur' = [cur EXCEPT !.answer = what] /\ pc' = "round"
  BY DEF Answer
<1>2. Effect' = Effect
  BY <1>1 DEF Effect
<1>3. request' = [request EXCEPT !.answer = what]
  BY <1>1, <1>2 DEF request
<1>4. /\ request.op = cur.op /\ request.name = cur.name /\ request.effect = Effect
      /\ Store!UnderWay
  BY Mapping DEF request
<1>5. Store!Answer(what)
  BY <1>3, <1>4, Mapping DEF Store!Answer, request, store, Volumes
<1> QED BY <1>5 DEF Store!Next

(* create: mkdir is where a volume appears. *)
LEMMA CreateMaps ==
  ASSUME IInv, MkdirFails \/ Mkdir \/ OpenFails \/ Open \/ WriteFails \/ WriteStamp
  PROVE  Store!Next \/ UNCHANGED Store!vars
<1>1. /\ Handling /\ cur.op = "create" /\ cur.name \in Names /\ pc \in {"mkdir", "open", "write"}
      /\ cur.answer = "none"
      /\ cur \in [op : {"none", "create", "remove"}, name : Names \cup {<<>>},
                  live : BOOLEAN, answer : Answers]
      /\ TsFile(cur.name) \in Entries /\ cur.name \in Entries
      /\ entry \in [Entries -> Entry]
  BY TsFiles DEF IInv, Typed, Placed, HandlerSteps, Handling, MkdirFails, Mkdir, OpenFails, Open,
                 WriteFails, WriteStamp, At
<1>2. Effect = IF pc \in {"open", "write"} THEN "done" ELSE "none"
  BY <1>1 DEF Effect
<1>3. CASE MkdirFails
  <2>1. Answer("failed") /\ store' = store /\ Effect = "none"
    BY <1>2, <1>3 DEF MkdirFails, At, store, Volumes, IsDir
  <2> QED BY <1>1, <2>1, AnswersMap
<1>4. CASE Mkdir
  <2>1. /\ pc = "mkdir" /\ pc' = "open" /\ cur' = cur /\ entry[cur.name] = Nothing
        /\ entry' = [entry EXCEPT ![cur.name] = Dir({})]
    BY <1>4 DEF Mkdir, At
  <2>2. ~IsDir(cur.name) /\ cur.name \notin Volumes /\ Volumes' = Volumes \cup {cur.name}
    BY <1>1, <2>1 DEF IsDir, Volumes, Nothing, Dir, Entries
  <2>3. store' = [n \in Volumes \cup {cur.name} |-> IF n \in Volumes THEN store[n] ELSE {}]
    <3>1. \A n \in Volumes : n \in Entries /\ n # cur.name
      BY <2>2 DEF Volumes, Entries
    <3>2. \A n \in Volumes' : entry'[n].files = IF n \in Volumes THEN store[n] ELSE {}
      BY <1>1, <2>1, <2>2, <3>1 DEF store, Dir
    <3> QED BY <2>2, <3>2 DEF store
  <2>4. Effect = "none" /\ Effect' = "done"
    BY <1>1, <1>2, <2>1 DEF Effect
  <2>5. request' = [request EXCEPT !.effect = "done"]
    <3>1. request' = [op |-> cur.op, name |-> cur.name, effect |-> "done", answer |-> cur.answer]
      BY <2>1, <2>4 DEF request
    <3>2. [request EXCEPT !.effect = "done"]
            = [op |-> cur.op, name |-> cur.name, effect |-> "done", answer |-> cur.answer]
      BY DEF request
    <3> QED BY <3>1, <3>2
  <2>6. Store!Appear
    BY <1>1, <2>2, <2>3, <2>4, <2>5, Mapping DEF Store!Appear, request, store, Volumes
  <2> QED BY <2>6 DEF Store!Next
<1>5. CASE OpenFails \/ WriteFails
  <2>1. Answer("ok") /\ store' = store /\ Effect = "done"
    BY <1>2, <1>5 DEF OpenFails, WriteFails, At, store, Volumes, IsDir
  <2> QED BY <1>1, <2>1, AnswersMap
<1>6. CASE Open
  <2>1. /\ ~IsDir(TsFile(cur.name)) /\ pc \in {"open", "write"} /\ pc' = "write" /\ cur' = cur
        /\ entry' = [entry EXCEPT ![TsFile(cur.name)] = File(0)]
    BY <1>6 DEF Open, At, IsDir, Opened
  <2>2. File(0).kind # "dir"
    BY DEF File
  <2>3. store' = store
    BY <1>1, <2>1, <2>2, SameStore
  <2>4. Effect' = Effect
    BY <1>1, <2>1 DEF Effect
  <2>5. request' = request
    BY <2>1, <2>4 DEF request
  <2> QED BY <2>3, <2>5, Mapping DEF Store!vars, store, request, Volumes
<1>7. CASE WriteStamp
  <2>1. /\ Answer("ok") /\ pc = "write"
        /\ entry' = [entry EXCEPT ![TsFile(cur.name)] = Written(entry[TsFile(cur.name)])]
    BY <1>7 DEF WriteStamp, At
  <2>2. Written(entry[TsFile(cur.name)]).kind # "dir" /\ ~IsDir(TsFile(cur.name))
    BY <2>1 DEF Written, File, IInv, Placed, IsDir
  <2>3. store' = store
    BY <1>1, <2>1, <2>2, SameStore
  <2> QED BY <1>1, <1>2, <2>1, <2>3, AnswersMap
<1> QED BY <1>3, <1>4, <1>5, <1>6, <1>7

(* remove: rmdir is where a volume vanishes. *)
LEMMA RemoveMaps ==
  ASSUME IInv, Empty \/ Emptied \/ RemoveFails \/ Rmdir \/ Unlink
  PROVE  Store!Next \/ UNCHANGED Store!vars
<1>1. /\ Handling /\ cur.op = "remove" /\ cur.name \in Names /\ pc \in {"empty", "rmdir", "unlink"}
      /\ cur.answer = "none"
      /\ cur \in [op : {"none", "create", "remove"}, name : Names \cup {<<>>},
                  live : BOOLEAN, answer : Answers]
      /\ TsFile(cur.name) \in Entries /\ cur.name \in Entries
      /\ entry \in [Entries -> Entry]
  BY TsFiles DEF IInv, Typed, Placed, HandlerSteps, Handling, Empty, Emptied, RemoveFails, Rmdir,
                 Unlink, At
<1>2. Effect = IF pc = "unlink" THEN "done" ELSE "none"
  BY <1>1 DEF Effect
<1>3. pc \in {"empty", "rmdir"} => IsDir(cur.name) /\ cur.name \in Volumes
  BY <1>1 DEF IInv, Placed, Volumes
<1>4. CASE Empty
  <2>1. PICK p \in Deletable(entry[cur.name].files) :
          entry' = [entry EXCEPT ![cur.name] = Dir(@.files \ {p})]
    BY <1>4 DEF Empty
  <2>2. pc = "empty" /\ UNCHANGED <<pc, cur>> /\ p \in entry[cur.name].files
    BY <1>4, <2>1 DEF Empty, At, Deletable
  <2>3. Volumes' = Volumes
    BY <1>1, <1>3, <2>1, <2>2 DEF Volumes, IsDir, Dir, Entries
  <2>4. store' = [store EXCEPT ![cur.name] = @ \ {p}] /\ p \in store[cur.name]
    <3>1. \A n \in Volumes : n \in Entries
      BY DEF Volumes, Entries
    <3> QED BY <1>1, <1>3, <2>1, <2>2, <2>3, <3>1 DEF store, Dir
  <2>5. Effect = "none" /\ request' = request
    BY <1>2, <2>2 DEF request, Effect
  <2>6. Store!Lose
    BY <1>1, <1>3, <2>2, <2>4, <2>5, Mapping DEF Store!Lose, request, store, Volumes
  <2> QED BY <2>6 DEF Store!Next
<1>5. CASE Emptied
  <2>1. UNCHANGED <<entry, cur>> /\ pc = "empty" /\ pc' = "rmdir"
    BY <1>5 DEF Emptied, At
  <2>2. Effect' = Effect
    BY <1>1, <2>1 DEF Effect
  <2> QED BY <2>1, <2>2, Stutters
<1>6. CASE RemoveFails
  <2>1. Answer("failed") /\ store' = store /\ Effect = "none"
    BY <1>2, <1>6 DEF RemoveFails, store, Volumes, IsDir
  <2> QED BY <1>1, <2>1, AnswersMap
<1>7. CASE Rmdir
  <2>1. /\ pc = "rmdir" /\ pc' = "unlink" /\ cur' = cur /\ entry[cur.name].files = {}
        /\ entry' = [entry EXCEPT ![cur.name] = Nothing]
    BY <1>7 DEF Rmdir, At
  <2>2. Volumes' = Volumes \ {cur.name}
    BY <1>1, <2>1 DEF Volumes, IsDir, Nothing, Entries
  <2>3. store' = [n \in Volumes \ {cur.name} |-> store[n]] /\ store[cur.name] = {}
    <3>1. \A n \in Volumes : n \in Entries
      BY DEF Volumes, Entries
    <3> QED BY <1>1, <1>3, <2>1, <2>2, <3>1 DEF store
  <2>4. Effect = "none" /\ Effect' = "done"
    BY <1>1, <1>2, <2>1 DEF Effect
  <2>5. request' = [request EXCEPT !.effect = "done"]
    <3>1. request' = [op |-> cur.op, name |-> cur.name, effect |-> "done", answer |-> cur.answer]
      BY <2>1, <2>4 DEF request
    <3>2. [request EXCEPT !.effect = "done"]
            = [op |-> cur.op, name |-> cur.name, effect |-> "done", answer |-> cur.answer]
      BY DEF request
    <3> QED BY <3>1, <3>2
  <2>6. Store!Vanish
    BY <1>1, <1>3, <2>1, <2>3, <2>4, <2>5, Mapping DEF Store!Vanish, request, store, Volumes
  <2> QED BY <2>6 DEF Store!Next
<1>8. CASE Unlink
  <2>1. Answer("ok") /\ pc = "unlink"
    BY <1>8 DEF Unlink, At
  <2>2. CASE UNCHANGED entry
    <3>1. store' = store
      BY <2>2 DEF store, Volumes, IsDir
    <3> QED BY <1>1, <1>2, <2>1, <3>1, AnswersMap
  <2>3. CASE ~IsDir(TsFile(cur.name)) /\ entry' = [entry EXCEPT ![TsFile(cur.name)] = Nothing]
    <3>1. Nothing.kind # "dir"
      BY DEF Nothing
    <3>2. store' = store
      BY <1>1, <2>3, <3>1, SameStore
    <3> QED BY <1>1, <1>2, <2>1, <3>2, AnswersMap
  <2> QED BY <1>8, <2>2, <2>3 DEF Unlink, IsDir
<1> QED BY <1>4, <1>5, <1>6, <1>7, <1>8

(* The rest of the process, dockerd and containers: requests begin, and    *)
(* the process stops; what containers write is written.                    *)
LEMMA OthersMap ==
  ASSUME IInv,
         \/ Check \/ Main \/ Start \/ Signal \/ Kill \/ GiveUpHandled \/ ContainersWrite
         \/ \E r \in waiting : Take(r) \/ GiveUp(r)
         \/ \E n \in Names : Mount(n) \/ Unmount(n) \/ \E op \in {"create", "remove"} : Ask(op, n)
  PROVE  Store!Next \/ UNCHANGED Store!vars
<1>1. /\ Handling => cur.op \in {"create", "remove"} /\ cur.name \in Names
      /\ Handling <=> pc \in HandlerSteps
      /\ cur \in [op : {"none", "create", "remove"}, name : Names \cup {<<>>},
                  live : BOOLEAN, answer : Answers]
      /\ entry \in [Entries -> Entry] /\ mounted \subseteq Names
  BY DEF IInv, Typed, Placed
<1>2. ASSUME UNCHANGED <<entry, cur>>, pc' = pc \/ {pc, pc'} \cap HandlerSteps = {}
      PROVE  UNCHANGED Store!vars
  <2>1. Effect' = Effect
    BY <1>2 DEF Effect, HandlerSteps
  <2> QED BY <1>2, <2>1, Stutters
<1>3. CASE Check
  <2>1. Handling /\ cur.name \in Names /\ pc = "check" /\ UNCHANGED entry /\ cur.answer = "none"
    BY <1>1, <1>3 DEF Check, HandlerSteps, Handling
  <2>2. store' = store /\ Effect = "none"
    BY <2>1 DEF store, Volumes, IsDir, Effect
  <2>3. CASE cur.op = "create" /\ IsDir(cur.name) /\ Answer("exists")
    BY <1>1, <2>1, <2>2, <2>3, AnswersMap DEF Volumes
  <2>4. CASE cur.op = "remove" /\ ~IsDir(cur.name) /\ Answer("missing")
    BY <1>1, <2>1, <2>2, <2>4, AnswersMap DEF Volumes
  <2>5. CASE \/ cur.op = "create" /\ pc' = "mkdir" /\ UNCHANGED cur
             \/ cur.op = "remove" /\ pc' = "empty" /\ UNCHANGED cur
    <3>1. Effect' = Effect
      BY <2>1, <2>5 DEF Effect
    <3> QED BY <2>1, <2>5, <3>1, Stutters
  <2> QED BY <1>3, <2>3, <2>4, <2>5 DEF Check
<1>4. CASE Test \/ RunReturns \/ RoundEnds \/ Start \/ Signal
  BY <1>2, <1>4 DEF Test, RunReturns, RoundEnds, Start, Signal, HandlerSteps
<1>5. CASE \/ \E r \in waiting : GiveUp(r)
           \/ \E n \in Names : Mount(n) \/ Unmount(n) \/ \E op \in {"create", "remove"} : Ask(op, n)
  BY <1>2, <1>5 DEF GiveUp, Mount, Unmount, Ask, driver
<1>6. CASE GiveUpHandled
  <2>1. UNCHANGED <<entry, pc, cur.op, cur.name, cur.answer>>
    BY <1>1, <1>6 DEF GiveUpHandled
  <2>2. Effect' = Effect
    BY <2>1 DEF Effect
  <2> QED BY <2>1, <2>2, Stutters
<1>7. CASE Exit \/ Kill
  <2>1. UNCHANGED entry /\ cur' = NoRequest /\ pc' = "down"
    BY <1>7 DEF Exit, Kill, Stop
  <2>2. /\ cur'.op = "none" /\ cur'.name = <<>> /\ cur'.answer = "stopped"
        /\ Effect' = "none"
    BY <2>1 DEF NoRequest, Handled, Request, Effect
  <2>3. Store!Stop
    BY <2>1, <2>2 DEF Store!Stop, Store!NoRequest, IsDir
  <2> QED BY <2>3 DEF Store!Next
<1>8. CASE \E r \in waiting : Take(r)
  <2>1. PICK r \in waiting : Take(r)
    BY <1>8
  <2>2. r.op \in {"create", "remove"} /\ r.name \in Names /\ ~Handling
    BY <1>1, <2>1 DEF IInv, Typed, Sent, Take, HandlerSteps
  <2>3. UNCHANGED entry /\ cur' = Handled(r, "none") /\ pc' = "check"
    BY <2>1 DEF Take
  <2>4. cur'.op = r.op /\ cur'.name = r.name /\ cur'.answer = "none" /\ Effect' = "none"
    BY <2>3 DEF Handled, Effect
  <2>5. Store!Begin(r.op, r.name)
    BY <2>2, <2>3, <2>4, Mapping DEF Store!Begin, IsDir
  <2> QED BY <2>2, <2>5 DEF Store!Next
<1>9. CASE ContainersWrite
  <2>1. PICK n \in mounted, p \in Paths : Write(n, p)
    BY <1>9 DEF ContainersWrite
  <2>2. /\ n \in Volumes /\ n \in Entries /\ n \in Names /\ UNCHANGED <<pc, cur>>
        /\ entry' = [entry EXCEPT ![n] = Dir(@.files \cup {p})]
    BY <1>1, <2>1 DEF Write, Volumes, Entries
  <2>3. Volumes' = Volumes
    BY <1>1, <2>2 DEF Volumes, IsDir, Dir, Entries
  <2>4. store' = [store EXCEPT ![n] = @ \cup {p}]
    <3>1. \A m \in Volumes : m \in Entries
      BY DEF Volumes, Entries
    <3> QED BY <1>1, <2>2, <2>3, <3>1 DEF store, Dir
  <2>5. request' = request
    BY <2>2 DEF request, Effect
  <2>6. Store!Write(n, p)
    BY <2>2, <2>4, <2>5, Mapping DEF Store!Write, request, store, Volumes
  <2> QED BY <2>2, <2>6 DEF Store!Next
<1> QED BY <1>3, <1>4, <1>5, <1>6, <1>7, <1>8, <1>9 DEF Main

(* The driver implements VolumeStore, with mkdir and rmdir as the instants *)
(* at which a create and a remove take effect.                             *)
THEOREM StoreImplemented == Spec => ImplementsStore
<1>1. Init => Store!Init
  <2> SUFFICES ASSUME Init PROVE Store!Init
    OBVIOUS
  <2>1. Volumes = {}
    BY DEF Init, Volumes, IsDir, Nothing, Entries
  <2>2. cur.op = "none" /\ cur.name = <<>> /\ cur.answer = "stopped" /\ Effect = "none"
    BY DEF Init, NoRequest, Handled, Request, Effect
  <2> QED BY <2>1, <2>2 DEF Store!Init, Store!NoRequest, Volumes
<1>2. IInv /\ [Next]_vars => [Store!Next]_(Store!vars)
  <2> SUFFICES ASSUME IInv, [Next]_vars PROVE Store!Next \/ UNCHANGED Store!vars
    OBVIOUS
  <2>1. CASE UNCHANGED vars
    <3>1. UNCHANGED <<entry, cur>> /\ Effect' = Effect
      BY <2>1 DEF vars, driver, Effect
    <3> QED BY <3>1, Stutters
  <2>2. CASE Handler
    BY <2>2, CreateMaps, RemoveMaps, OthersMap DEF Handler
  <2>3. CASE Next /\ ~Handler
    BY <2>3, OthersMap DEF Next
  <2> QED BY <2>1, <2>2, <2>3
<1> QED BY <1>1, <1>2, Invariance, PTL DEF Spec, ImplementsStore, Store!Spec
=============================================================================
