---------------------------- MODULE SampleVolume ----------------------------
(***************************************************************************)
(* sample_volume: the driver that keeps volumes as directories, its helper *)
(* util, and main with its loop and its signals.  A step of a handler is   *)
(* one call of the file system, which may fail; between any two of them    *)
(* the process may be killed, and containers write into their volumes.     *)
(*                                                                         *)
(* A handler is at pc = "check" (is_dir), "mkdir", "open" and "write" (the *)
(* time stamp) of create, or "empty", "rmdir" and "unlink" of remove.  The *)
(* loop of main is at "test" (should_exit), "select" (run waits) or        *)
(* "round" (run has handled something), and there is no process at "down". *)
(***************************************************************************)
EXTENDS Integers, Sequences, FiniteSets

CONSTANTS
  Names,    \* names of volumes: sequences of the parts between the dots
  Paths,    \* paths of files and directories below a volume: sequences too
  MaxTime   \* bound: creates are asked for at the times 1 to MaxTime

ASSUME NamesAssumption == Names \cup Paths \subseteq Seq(STRING) /\ <<>> \notin Names
ASSUME MaxTimeAssumption == MaxTime \in Nat

VARIABLES
  entry,        \* what is at a name in m_root
  pc,           \* where the process is
  should_exit,  \* of main
  cur,          \* the request that is handled, or was last
  \* dockerd, containers and the clock
  waiting,      \* requests that were sent and not taken
  mounted,      \* volumes that containers use
  now,          \* seconds
  \* history
  promise       \* of a volume that dockerd may rely on: its content and its time

driver == <<entry, pc, should_exit, cur>>
world  == <<waiting, mounted, now>>
vars   == <<driver, world, promise>>

-----------------------------------------------------------------------------
(* The file system below m_root. *)

(* m_root + name + ".create_ts" *)
TsFile(n) == Append(n, "create_ts")
Entries == Names \cup {TsFile(n) : n \in Names}

(* stamp is the number that a file holds; an empty file has none, that is, 0. *)
Nothing == [kind |-> "none", files |-> {}, stamp |-> 0]
Dir(files) == [kind |-> "dir", files |-> files, stamp |-> 0]
File(stamp) == [kind |-> "file", files |-> {}, stamp |-> stamp]

IsDir(n) == entry[n].kind = "dir"

Above(p, q) == Len(p) < Len(q) /\ \A i \in 1..Len(p) : p[i] = q[i]
(* Contents of a directory: whatever is in it, all above it is, too. *)
Whole(files) == \A q \in files, p \in Paths : Above(p, q) => p \in files

(* remove_dir goes down before it deletes a directory, in any order on one *)
(* level.                                                                  *)
Deletable(files) == {p \in files : \A q \in files : ~Above(p, q)}

(* Mutant of Opened: the file is opened at its end. *)
OpenedAppending(old) == IF old.kind = "file" THEN old ELSE File(0)

(* std::ofstream empties a file that is there. *)
Opened(old) == File(0)

(* What is written follows what is there. *)
Written(old) == IF old.stamp = 0 THEN File(now) ELSE File(-1)

-----------------------------------------------------------------------------
(* util::create_time: without a file the time of the last change of the    *)
(* directory, which is any time since; with an empty one, or a directory   *)
(* in its place, nothing is read and the number is not initialised: it may *)
(* be Garbage, which is no time that anything here has.                    *)
Times == 0..MaxTime
Garbage == MaxTime + 1
CreateTimes(n) ==
  LET ts == entry[TsFile(n)]
  IN  CASE ts = Nothing -> Times
        [] ts.kind = "file" /\ ts.stamp # 0 -> {ts.stamp}
        [] ts.kind = "dir" \/ ts = File(0) -> Times \cup {Garbage}

(* The answer of get and the volumes in the answer of list. *)
NotFound == [name |-> <<>>, created_at |-> {}]
Info(n) == [name |-> n, created_at |-> CreateTimes(n)]
Get(n) == IF IsDir(n) THEN Info(n) ELSE NotFound
List == {Info(n) : n \in {x \in Names : IsDir(x)}}

-----------------------------------------------------------------------------
Request(op, n, live) == [op |-> op, name |-> n, live |-> live]

(* live: somebody waits for the answer.  answer is what the handler gave.  *)
Handled(r, answer) == [op |-> r.op, name |-> r.name, live |-> r.live, answer |-> answer]
NoRequest == Handled(Request("none", <<>>, FALSE), "stopped")

Handling == cur.answer = "none"
Busy(n) == \/ Handling /\ cur.name = n /\ cur.live
           \/ \E r \in waiting : r.name = n /\ r.live

NoPromise == [kept |-> FALSE, files |-> {}, stamp |-> 0]
Promise(stamp) == [kept |-> TRUE, files |-> {}, stamp |-> stamp]

Init ==
  /\ entry = [n \in Entries |-> Nothing]
  /\ pc = "down" /\ should_exit = FALSE /\ cur = NoRequest
  /\ waiting = {} /\ mounted = {} /\ now = 0
  /\ promise = [n \in Names |-> NoPromise]

-----------------------------------------------------------------------------
(* Handlers. *)

(* The end of a handler, with a result or an exception. *)
Answer(what) ==
  /\ cur' = [cur EXCEPT !.answer = what]
  /\ pc' = "round"

At(op, where) == pc = where /\ cur.op = op

Take(r) ==
  /\ pc \in {"select", "round"}
  /\ waiting' = waiting \ {r}
  /\ cur' = Handled(r, "none") /\ pc' = "check"
  /\ UNCHANGED <<entry, should_exit, mounted, now, promise>>

(* is_dir, the first thing that create and remove do. *)
Check ==
  /\ pc = "check"
  /\ \/ cur.op = "create" /\ IsDir(cur.name) /\ Answer("exists")
     \/ cur.op = "remove" /\ ~IsDir(cur.name) /\ Answer("missing")
     \/ cur.op = "create" /\ ~IsDir(cur.name) /\ pc' = "mkdir" /\ UNCHANGED cur
     \/ cur.op = "remove" /\ IsDir(cur.name) /\ pc' = "empty" /\ UNCHANGED cur
  /\ UNCHANGED <<entry, should_exit, world, promise>>

(* Mutant of MkdirFails: the result of make_dirs is not looked at. *)
MkdirFailsUnseen ==
  /\ At("create", "mkdir")
  /\ pc' = "open"
  /\ UNCHANGED <<entry, should_exit, cur, world, promise>>

(* make_dirs: m_root is there. *)
MkdirFails ==
  /\ At("create", "mkdir")
  /\ Answer("failed")
  /\ UNCHANGED <<entry, should_exit, world, promise>>

Mkdir ==
  /\ At("create", "mkdir") /\ entry[cur.name] = Nothing
  /\ entry' = [entry EXCEPT ![cur.name] = Dir({})]
  /\ pc' = "open"
  /\ UNCHANGED <<should_exit, cur, world, promise>>

(* dockerd may rely on what a create that it waited for made, unless a     *)
(* remove that it no longer waits for is on its way.                       *)
Promised(stamp) ==
  IF cur.live /\ Request("remove", cur.name, FALSE) \notin waiting
  THEN [promise EXCEPT ![cur.name] = Promise(stamp)]
  ELSE promise

(* Nobody looks at whether the file could be opened, or written: create    *)
(* has succeeded.                                                          *)
OpenFails ==
  /\ At("create", "open")
  /\ Answer("ok") /\ promise' = Promised(0)
  /\ UNCHANGED <<entry, should_exit, world>>

Open ==
  /\ At("create", "open") /\ entry[TsFile(cur.name)].kind # "dir"
  /\ entry' = [entry EXCEPT ![TsFile(cur.name)] = Opened(@)]
  /\ pc' = "write"
  /\ UNCHANGED <<should_exit, cur, world, promise>>

WriteFails ==
  /\ At("create", "write")
  /\ Answer("ok") /\ promise' = Promised(0)
  /\ UNCHANGED <<entry, should_exit, world>>

(* The destructor of the stream writes what << has put there. *)
WriteStamp ==
  /\ At("create", "write")
  /\ entry' = [entry EXCEPT ![TsFile(cur.name)] = Written(@)]
  /\ Answer("ok") /\ promise' = Promised(now)
  /\ UNCHANGED <<should_exit, world>>

(* Mutant of RemoveFails: the result of remove_dir is not looked at. *)
RemoveFailsUnseen ==
  /\ pc \in {"empty", "rmdir"}
  /\ pc' = "unlink"
  /\ UNCHANGED <<entry, should_exit, cur, world, promise>>

(* remove_dir: an entry that cannot be deleted ends it.  An entry that     *)
(* appears while the directory is read and is not found ends it, too.      *)
Empty ==
  /\ At("remove", "empty")
  /\ \E p \in Deletable(entry[cur.name].files) :
       entry' = [entry EXCEPT ![cur.name] = Dir(@.files \ {p})]
  /\ UNCHANGED <<pc, should_exit, cur, world, promise>>

Emptied ==
  /\ At("remove", "empty") /\ entry[cur.name].files = {}
  /\ pc' = "rmdir"
  /\ UNCHANGED <<entry, should_exit, cur, world, promise>>

RemoveFails ==
  /\ pc \in {"empty", "rmdir"}
  /\ Answer("failed")
  /\ UNCHANGED <<entry, should_exit, world, promise>>

(* Containers that still use the directory no longer use what is at its    *)
(* name.                                                                   *)
Rmdir ==
  /\ At("remove", "rmdir") /\ entry[cur.name].files = {}
  /\ entry' = [entry EXCEPT ![cur.name] = Nothing]
  /\ mounted' = mounted \ {cur.name}
  /\ pc' = "unlink"
  /\ UNCHANGED <<should_exit, cur, waiting, now, promise>>

(* Mutant of Unlink: util::remove instead of remove_file. *)
UnlinkAnything ==
  /\ At("remove", "unlink")
  /\ \/ UNCHANGED entry
     \/ entry' = [entry EXCEPT ![TsFile(cur.name)] = Nothing]
  /\ Answer("ok")
  /\ UNCHANGED <<should_exit, world, promise>>

(* remove_file, whose result nobody looks at, leaves a directory alone. *)
Unlink ==
  /\ At("remove", "unlink")
  /\ \/ UNCHANGED entry
     \/ /\ entry[TsFile(cur.name)].kind # "dir"
        /\ entry' = [entry EXCEPT ![TsFile(cur.name)] = Nothing]
  /\ Answer("ok")
  /\ UNCHANGED <<should_exit, world, promise>>

-----------------------------------------------------------------------------
(* main. *)

(* A connection that breaks makes dockerd send its request again. *)
Stop ==
  /\ pc' = "down" /\ cur' = NoRequest
  /\ waiting' = {r \in waiting : r.live} \cup
                (IF Handling /\ cur.live THEN {Request(cur.op, cur.name, TRUE)} ELSE {})
  /\ UNCHANGED <<entry, mounted, now, promise>>

Start ==
  /\ pc = "down"
  /\ pc' = "test" /\ should_exit' = FALSE
  /\ UNCHANGED <<entry, cur, world, promise>>

Test ==
  /\ pc = "test" /\ ~should_exit
  /\ pc' = "select"
  /\ UNCHANGED <<entry, should_exit, cur, world, promise>>

Exit ==
  /\ pc = "test" /\ should_exit
  /\ Stop /\ UNCHANGED should_exit

(* Mutant of RunReturns: select waits without a timeout. *)
RunReturnsNever ==
  /\ pc = "select" /\ FALSE
  /\ UNCHANGED vars

(* The timeout, or a signal while select waits. *)
RunReturns ==
  /\ pc = "select"
  /\ pc' = "test"
  /\ UNCHANGED <<entry, should_exit, cur, world, promise>>

(* All connections that were ready have been served. *)
RoundEnds ==
  /\ pc = "round"
  /\ pc' = "test"
  /\ UNCHANGED <<entry, should_exit, cur, world, promise>>

(* SIGINT or SIGTERM *)
Signal ==
  /\ pc # "down"
  /\ should_exit' = TRUE
  /\ UNCHANGED <<entry, pc, cur, world, promise>>

(* The process is killed. *)
Kill ==
  /\ pc # "down"
  /\ Stop /\ should_exit' = FALSE

-----------------------------------------------------------------------------
(* dockerd and containers.  dockerd has one request for a volume under way *)
(* at a time, and does not remove one that is used.                        *)
Ask(op, n) ==
  /\ ~Busy(n)
  /\ \/ op = "create" /\ now < MaxTime /\ now' = now + 1 /\ UNCHANGED promise
     \/ /\ op = "remove" /\ n \notin mounted /\ UNCHANGED now
        /\ promise' = [promise EXCEPT ![n] = NoPromise]
  /\ waiting' = waiting \cup {Request(op, n, TRUE)}
  /\ UNCHANGED <<driver, mounted>>

(* dockerd stops waiting.  The driver may have the request already, or     *)
(* will read it nevertheless; one that was given up before and is like it  *)
(* stands for both.                                                        *)
GiveUp(r) ==
  /\ r.live
  /\ waiting' = (waiting \ {r}) \cup
                (IF pc = "down" THEN {} ELSE {Request(r.op, r.name, FALSE)})
  /\ UNCHANGED <<driver, mounted, now, promise>>

GiveUpHandled ==
  /\ Handling /\ cur.live
  /\ cur' = [cur EXCEPT !.live = FALSE]
  /\ UNCHANGED <<entry, pc, should_exit, world, promise>>

(* mount and path answer where a volume is, if it is there; unmount does   *)
(* nothing.                                                                *)
Mount(n) ==
  /\ pc \in {"select", "round"} /\ ~Busy(n) /\ IsDir(n)
  /\ n \notin mounted /\ mounted' = mounted \cup {n}
  /\ UNCHANGED <<driver, waiting, now, promise>>

Unmount(n) ==
  /\ pc \in {"select", "round"} /\ ~Busy(n)
  /\ mounted' = mounted \ {n}
  /\ UNCHANGED <<driver, waiting, now, promise>>

Write(n, p) ==
  /\ IsDir(n) /\ p \notin entry[n].files /\ Whole(entry[n].files \cup {p})
  /\ entry' = [entry EXCEPT ![n] = Dir(@.files \cup {p})]
  /\ promise' = IF promise[n].kept THEN [promise EXCEPT ![n].files = @ \cup {p}] ELSE promise
  /\ UNCHANGED <<pc, should_exit, cur, world>>

-----------------------------------------------------------------------------
Handler ==
  \/ Check \/ MkdirFails \/ Mkdir \/ OpenFails \/ Open \/ WriteFails \/ WriteStamp
  \/ Empty \/ Emptied \/ RemoveFails \/ Rmdir \/ Unlink

Main == Test \/ Exit \/ RunReturns \/ RoundEnds

ContainersWrite == \E n \in mounted, p \in Paths : Write(n, p)

Next ==
  \/ Handler \/ Main
  \/ \E r \in waiting : Take(r) \/ GiveUp(r)
  \/ Start \/ Signal \/ Kill \/ GiveUpHandled
  \/ \E n \in Names : Mount(n) \/ Unmount(n) \/ \E op \in {"create", "remove"} : Ask(op, n)
  \/ ContainersWrite

Spec == Init /\ [][Next]_vars

(* The process runs, calls of the file system return, and a round of run   *)
(* serves what was ready and ends, however much comes in meanwhile.        *)
FairSpec == Spec /\ WF_vars(Handler \/ Main) /\ SF_vars(RoundEnds)

-----------------------------------------------------------------------------
(* Properties. *)

Answers == {"none", "ok", "failed", "exists", "missing", "stopped"}

(* m_root holds whole directory trees and stamps: each is one number that  *)
(* was the time of a create, or nothing, however often its volume was made *)
(* anew.  A handler is at its steps exactly as long as it has not          *)
(* answered.                                                               *)
TypeOK ==
  /\ entry \in [Entries -> [kind : {"none", "dir", "file"}, files : SUBSET Paths, stamp : Times]]
  /\ \A n \in Entries : Whole(entry[n].files) /\ (entry[n].kind # "dir" => entry[n].files = {})
  /\ should_exit \in BOOLEAN /\ cur.answer \in Answers
  /\ Handling <=> pc \in {"check", "mkdir", "open", "write", "empty", "rmdir", "unlink"}
  /\ mounted \subseteq Names /\ now \in Times

(* A volume whose create was answered with success is there, with all that *)
(* containers wrote into it since, until dockerd asks for its removal:     *)
(* whatever is killed and started again, asked for again after an answer   *)
(* was lost, given up, or done to other volumes, be it one whose name      *)
(* clashes with a time stamp.                                              *)
KeptUntilRemoved ==
  \A n \in Names : promise[n].kept => entry[n] = Dir(promise[n].files)

(* If its time stamp could be written, get and list report the time of its *)
(* own creation and no other, though stamps of removed volumes stay behind *)
(* when the process is killed or unlink fails.                             *)
TimesKept ==
  \A n \in Names :
    promise[n].kept /\ promise[n].stamp # 0 =>
      /\ Get(n) = [name |-> n, created_at |-> {promise[n].stamp}]
      /\ Get(n) \in List

(* A signal ends the process, also one that comes after should_exit was    *)
(* tested and before run waits, and whatever main is asked for meanwhile,  *)
(* unless containers write into a volume as fast as a remove empties it.   *)
ExitsWhenTold == <>[][~ContainersWrite]_vars => (should_exit ~> pc = "down")

(* create takes effect with mkdir, remove with rmdir. *)
Effect ==
  IF \/ cur.op = "create" /\ pc \in {"open", "write"}
     \/ cur.op = "remove" /\ pc = "unlink"
     \/ cur.answer = "ok"
  THEN "done" ELSE "none"

Store ==
  INSTANCE VolumeStore WITH
    store <- [n \in {x \in Names : IsDir(x)} |-> entry[n].files],
    request <- [op |-> cur.op, name |-> cur.name, effect |-> Effect, answer |-> cur.answer]

(* The driver implements VolumeStore: a request takes effect at most once, *)
(* at mkdir or rmdir, and its answer says so; a file system that fails, a  *)
(* process that is killed and a name that clashes change nothing of that.  *)
ImplementsStore == Store!Spec
=============================================================================
