---------------------------- MODULE WorkerHandles ----------------------------
(***************************************************************************)
(* Array handles that travel between processes (ZarrsArrayHandle and       *)
(* _reopen_array_handle of src/src/array.rs, ReopenSpec of                 *)
(* src/src/store.rs), as dask.distributed sends them.                      *)
(*                                                                         *)
(* A handle opened from an icechunk session carries the bytes of that      *)
(* session, and pickles to these bytes and its array's path.  A process    *)
(* that gets the pickle builds the store from the bytes and opens the      *)
(* array anew; nothing else is shared.  Pickles may be lost, repeated,     *)
(* delayed or damaged, processes die and start again, and the repository   *)
(* goes on committing and expiring snapshots.                              *)
(*                                                                         *)
(* Processes are spawned, or forked from a running one.  A forked process  *)
(* inherits the OnceLock that holds the runtime, but none of its threads.  *)
(* A process makes one call at a time: GilBoundary has what several        *)
(* threads of one process do.                                              *)
(***************************************************************************)
EXTENDS Naturals, Sequences, FiniteSets

CONSTANTS
  Procs,      \* the processes
  Client,     \* the one that runs from the start
  Arrays,     \* the arrays of the repository
  NoArray,    \* stands for no array
  Skewed,     \* processes with an icechunk that cannot read the bytes
  Flaky,      \* processes whose requests may fail
  MaxCommits  \* bound: commits

ASSUME WorkerHandlesAssumption ==
  /\ Client \in Procs
  /\ NoArray \notin Arrays
  /\ Skewed \subseteq Procs /\ Flaky \subseteq Procs
  /\ MaxCommits \in Nat

VARIABLES
  repo,     \* the snapshots: who wrote each array last; 0 if it is not there
  expired,  \* the snapshots whose objects have been deleted
  up,       \* the processes that run
  runtime,  \* the OnceLock of each process, see RuntimeStates
  handles,  \* the handles each process holds
  pickles,  \* every pickle ever sent
  op,       \* what each process calls, or "none"
  at,       \* where the call is: "runtime" or "io"
  subject,  \* the handle it is about
  used,     \* the processes that have made a call
  late,     \* the processes forked, at any remove, from one that had
  answer    \* the outcome of the call that has just ended, if one has

process == <<up, runtime, handles, used, late>>
calls == <<op, at, subject>>
vars == <<repo, expired, process, pickles, calls, answer>>

(* "orphaned": inherited from a process that had built it or was at it. *)
RuntimeStates == {"absent", "building", "up", "orphaned"}

(* Snapshot and spec 0 stand for none.  What was asked for, `source' and   *)
(* `origin', is read by the properties only.                               *)
Sources == {"session", "path", "directory"}

Handle ==
  [source : Sources, origin : Nat, array : Arrays \cup {NoArray},
   store : Nat,   \* the snapshot its store reads; 0 for a vanilla directory
   spec : Nat]    \* the snapshot of the session bytes it carries; 0 for None

Pickle ==
  [source : Sources, origin : Nat, array : Arrays, spec : Nat]

Nothing ==
  [source |-> "directory", origin |-> 0, array |-> NoArray, store |-> 0, spec |-> 0]

Answer(p, what, kind, h, value) ==
  [proc |-> p, op |-> what, kind |-> kind, source |-> h.source,
   origin |-> h.origin, array |-> h.array, value |-> value]

NoAnswer == Answer(Client, "none", "ok", Nothing, 0)

Tip == Len(repo)

-----------------------------------------------------------------------------
BuiltOnImport == "up"

(* Importing the package leaves the OnceLock empty. *)
OnImport == "absent"

Init ==
  /\ repo = <<[a \in Arrays |-> 1]>>
  /\ expired = {}
  /\ up = {Client}
  /\ runtime = [p \in Procs |-> IF p = Client THEN OnImport ELSE "absent"]
  /\ handles = [p \in Procs |-> {}]
  /\ pickles = {}
  /\ op = [p \in Procs |-> "none"]
  /\ at = [p \in Procs |-> "runtime"]
  /\ subject = [p \in Procs |-> Nothing]
  /\ used = {} /\ late = {}
  /\ answer = NoAnswer

(* Another user commits a new version of an array, or deletes it. *)
Commit(a) ==
  /\ Tip <= MaxCommits
  /\ \E value \in {0, Tip + 1} :
       repo' = Append(repo, [repo[Tip] EXCEPT ![a] = value])
  /\ answer' = NoAnswer
  /\ UNCHANGED <<expired, process, pickles, calls>>

Expire(s) ==
  /\ s \in 1 .. Tip - 1
  /\ expired' = expired \cup {s}
  /\ answer' = NoAnswer
  /\ UNCHANGED <<repo, process, pickles, calls>>

-----------------------------------------------------------------------------
(* Processes. *)

Spawn(p) ==
  /\ p \notin up
  /\ up' = up \cup {p}
  /\ runtime' = [runtime EXCEPT ![p] = OnImport]
  /\ answer' = NoAnswer
  /\ UNCHANGED <<repo, expired, handles, used, late, pickles, calls>>

(* What q finds in its copy of p's OnceLock. *)
InheritedEmpty(p) == "absent"

Inherited(p) == IF runtime[p] = "absent" THEN "absent" ELSE "orphaned"

Fork(p, q) ==
  /\ p \in up /\ q \notin up
  /\ up' = up \cup {q}
  /\ runtime' = [runtime EXCEPT ![q] = Inherited(p)]
  /\ handles' = [handles EXCEPT ![q] = handles[p]]
  /\ late' = IF p \in used \cup late THEN late \cup {q} ELSE late
  /\ answer' = NoAnswer
  /\ UNCHANGED <<repo, expired, used, pickles, calls>>

(* A process dies; another may be started in its place. *)
Crash(p) ==
  /\ p \in up \ {Client}
  /\ up' = up \ {p}
  /\ runtime' = [runtime EXCEPT ![p] = "absent"]
  /\ handles' = [handles EXCEPT ![p] = {}]
  /\ used' = used \ {p} /\ late' = late \ {p}
  /\ op' = [op EXCEPT ![p] = "none"]
  /\ at' = [at EXCEPT ![p] = "runtime"]
  /\ subject' = [subject EXCEPT ![p] = Nothing]
  /\ answer' = NoAnswer
  /\ UNCHANGED <<repo, expired, pickles>>

-----------------------------------------------------------------------------
(* The beginning of a call. *)

Enter(p, what, where, h) ==
  /\ op' = [op EXCEPT ![p] = what]
  /\ at' = [at EXCEPT ![p] = where]
  /\ subject' = [subject EXCEPT ![p] = h]
  /\ used' = used \cup {p}
  /\ answer' = NoAnswer
  /\ UNCHANGED <<repo, expired, up, runtime, handles, late, pickles>>

Idle(p) == p \in up /\ op[p] = "none"

(* open_datatree.  A session is serialised by _to_rust_source before the   *)
(* call, at whatever snapshot it is; the handles will carry its bytes.     *)
(* Bound: a process opens no second tree.                                  *)
SpecAtTip(s) == Tip

SpecOf(s) == s

OpenSession(p) ==
  /\ Idle(p) /\ handles[p] = {}
  /\ \E s \in 1 .. Tip :
       Enter(p, "open", "runtime",
             [source |-> "session", origin |-> s, array |-> NoArray,
              store |-> s, spec |-> SpecOf(s)])

(* A local path, of an icechunk repository or a vanilla store: no spec. *)
OpenPath(p) ==
  /\ Idle(p) /\ handles[p] = {}
  /\ \E source \in {"path", "directory"} :
       Enter(p, "open", "runtime", [Nothing EXCEPT !.source = source])

(* read_subset uses the runtime handle the array handle was made with. *)
Read(p) ==
  /\ Idle(p)
  /\ \E h \in handles[p] : Enter(p, "read", "io", h)

(* _reopen_array_handle, after the state has been decoded. *)
RevivedBare(m) ==
  [source |-> m.source, origin |-> m.origin, array |-> m.array,
   store |-> m.spec, spec |-> 0]

Revived(m) ==
  [source |-> m.source, origin |-> m.origin, array |-> m.array,
   store |-> m.spec, spec |-> m.spec]

Revive(p) ==
  /\ Idle(p)
  /\ \E m \in pickles :
       /\ Revived(m) \notin handles[p]
       /\ Enter(p, "revive", "runtime", Revived(m))

(* A pickle arrives damaged and does not decode: nothing has been touched. *)
ReviveCorrupt(p) ==
  /\ Idle(p)
  /\ \E m \in pickles : answer' = Answer(p, "decode", "ValueError", m, 0)
  /\ UNCHANGED <<repo, expired, process, pickles, calls>>

(* __reduce__. *)
Reduce(p) ==
  /\ Idle(p)
  /\ \E h \in handles[p] :
       \/ /\ h.spec # 0
          /\ pickles' = pickles \cup
               {[source |-> h.source, origin |-> h.origin, array |-> h.array,
                 spec |-> h.spec]}
          /\ answer' = NoAnswer
       \/ /\ h.spec = 0
          /\ answer' = Answer(p, "pickle", "ValueError", h, 0)
          /\ UNCHANGED pickles
  /\ UNCHANGED <<repo, expired, process, calls>>

-----------------------------------------------------------------------------
(* runtime::handle(): get_or_init.  Without its threads a runtime does not *)
(* get a call any further, and an initialisation that was under way in the *)
(* parent never ends in the child.                                         *)

Build(p) ==
  /\ op[p] # "none" /\ at[p] = "runtime"
  /\ \/ runtime[p] = "absent" /\ runtime' = [runtime EXCEPT ![p] = "building"]
     \/ runtime[p] = "building" /\ runtime' = [runtime EXCEPT ![p] = "up"]
  /\ answer' = NoAnswer
  /\ UNCHANGED <<repo, expired, up, handles, used, late, pickles, calls>>

BlockOn(p) ==
  /\ op[p] # "none" /\ at[p] = "runtime" /\ runtime[p] = "up"
  /\ at' = [at EXCEPT ![p] = "io"]
  /\ answer' = NoAnswer
  /\ UNCHANGED <<repo, expired, process, pickles, op, subject>>

(* block_on returns and the call ends. *)
Running(p, what) == op[p] = what /\ at[p] = "io" /\ runtime[p] = "up"

Leave(p, kind, value) ==
  /\ answer' = Answer(p, op[p], kind, subject[p], value)
  /\ op' = [op EXCEPT ![p] = "none"]
  /\ at' = [at EXCEPT ![p] = "runtime"]
  /\ subject' = [subject EXCEPT ![p] = Nothing]
  /\ UNCHANGED <<repo, expired, up, runtime, used, late, pickles>>

(* Session::from_bytes, for an open and for a revival alike. *)
Decodes(p) == op[p] = "read" \/ subject[p].spec = 0 \/ p \notin Skewed

BadBytes(p) ==
  /\ \E what \in {"open", "revive"} : Running(p, what)
  /\ ~Decodes(p)
  /\ Leave(p, "ValueError", 0)
  /\ UNCHANGED handles

(* What is read is gone, or a request fails.  The objects of an expired    *)
(* snapshot may be there for a while yet.                                  *)
MayFail(p) ==
  \/ p \in Flaky
  \/ subject[p].store \in expired
  \/ op[p] = "revive" /\ repo[subject[p].store][subject[p].array] = 0

(* read_subset has one exception for all it may raise; only a vanilla      *)
(* directory is opened by code that calls its failure one of I/O.          *)
Raised(what, h) ==
  CASE what = "read" -> {"ValueError"}
    [] what = "open" /\ h.source = "directory" -> {"RuntimeError", "OSError"}
    [] OTHER -> {"RuntimeError"}

RequestFails(p) ==
  /\ \E what \in {"open", "revive", "read"} : Running(p, what)
  /\ Decodes(p) /\ MayFail(p)
  /\ \E exception \in Raised(op[p], subject[p]) : Leave(p, exception, 0)
  /\ UNCHANGED handles

(* The snapshot whose arrays an open returns: a session's own, the tip of  *)
(* the branch for a repository's path, none for a vanilla directory.       *)
SnapshotOf(h) ==
  IF h.source = "path" THEN Tip ELSE h.store

OpenEnds(p) ==
  /\ Running(p, "open") /\ Decodes(p)
  /\ LET h == subject[p]
         s == SnapshotOf(h)
         there == IF s = 0 THEN Arrays ELSE {a \in Arrays : repo[s][a] # 0}
     IN  handles' = [handles EXCEPT ![p] =
                       {[h EXCEPT !.array = a, !.origin = s, !.store = s] : a \in there}]
  /\ Leave(p, "ok", 0)

(* The array's metadata is read from the snapshot of the bytes. *)
ReviveEnds(p) ==
  /\ Running(p, "revive") /\ Decodes(p)
  /\ repo[subject[p].store][subject[p].array] # 0
  /\ handles' = [handles EXCEPT ![p] = @ \cup {subject[p]}]
  /\ Leave(p, "ok", 0)

(* A vanilla directory's values are not told apart. *)
ReadEnds(p) ==
  /\ Running(p, "read")
  /\ Leave(p, "ok", IF subject[p].store = 0 THEN 0
                    ELSE repo[subject[p].store][subject[p].array])
  /\ UNCHANGED handles

-----------------------------------------------------------------------------
CallStep(p) ==
  \/ Build(p) \/ BlockOn(p)
  \/ BadBytes(p) \/ RequestFails(p)
  \/ OpenEnds(p) \/ ReviveEnds(p) \/ ReadEnds(p)

Next ==
  \/ \E a \in Arrays : Commit(a)
  \/ \E s \in 1 .. Tip : Expire(s)
  \/ \E p, q \in Procs : Fork(p, q)
  \/ \E p \in Procs :
       \/ Spawn(p) \/ Crash(p)
       \/ OpenSession(p) \/ OpenPath(p) \/ Read(p)
       \/ Revive(p) \/ ReviveCorrupt(p) \/ Reduce(p)
       \/ CallStep(p)

(* A call goes on as long as its runtime has threads; every request is     *)
(* answered.                                                               *)
Spec == Init /\ [][Next]_vars /\ \A p \in Procs : WF_vars(CallStep(p))

-----------------------------------------------------------------------------
(* The state is well formed: a process that does not run has nothing, and  *)
(* who holds a handle or waits for a request has a runtime, if only an     *)
(* orphaned one.  (array.rs:475-509, runtime.rs:33-41)                     *)
TypeOK ==
  /\ Tip > 0 /\ repo \in Seq([Arrays -> Nat])
  /\ expired \subseteq 1 .. Tip
  /\ up \subseteq Procs /\ used \subseteq up /\ late \subseteq up
  /\ runtime \in [Procs -> RuntimeStates]
  /\ handles \in [Procs -> SUBSET Handle]
  /\ pickles \subseteq Pickle
  /\ op \in [Procs -> {"none", "open", "revive", "read"}]
  /\ at \in [Procs -> {"runtime", "io"}]
  /\ subject \in [Procs -> Handle]
  /\ \A p \in Procs :
       /\ p \notin up => handles[p] = {} /\ op[p] = "none" /\ at[p] = "runtime"
       /\ handles[p] # {} \/ at[p] = "io" => runtime[p] \in {"up", "orphaned"}

(* Whoever reads through a handle, in whatever process and after however   *)
(* many pickles, gets what the snapshot held that the tree was opened at,  *)
(* or an error: never what a later commit wrote.                           *)
(* (array.rs:489-508, store.rs:63-74, icechunk_store.rs:126-137)           *)
ReadsPinned ==
  answer.op = "read" /\ answer.kind = "ok" /\ answer.origin # 0 =>
    answer.value # 0 /\ answer.value = repo[answer.origin][answer.array]

(* A handle that came from a session can be pickled, again and again, and  *)
(* no other can: none goes out that the receiver could not open.           *)
(* (array.rs:178-202, 504-508, lib.rs:137, 177-179)                        *)
StaysPicklable ==
  /\ \A p \in Procs : \A h \in handles[p] : h.spec # 0 <=> h.source = "session"
  /\ \A m \in pickles : m.source = "session" /\ m.spec # 0

(* An error is about damaged bytes, a handle that may not travel, another  *)
(* icechunk, or else a request that failed or a snapshot that was expired, *)
(* and never about an array that a later commit removed.                   *)
(* (array.rs:178-190, 334-337, 483-501, icechunk_store.rs:127-136)         *)
RaisesForAReason ==
  /\ answer.kind = "ValueError" =>
       \/ answer.op = "decode"
       \/ answer.op = "pickle" /\ answer.source # "session"
       \/ answer.op \in {"open", "revive"} /\ answer.proc \in Skewed
       \/ answer.op = "read"
  /\ answer.kind = "OSError" => answer.source = "directory"
  /\ \/ answer.kind \in {"RuntimeError", "OSError"}
     \/ answer.kind = "ValueError" /\ answer.op = "read"
     => answer.proc \in Flaky \/ answer.origin \in expired

(* Every call ends, except in a process forked from one that had made a    *)
(* call: a spawned one, and one forked before the first call, never hang.  *)
(* (runtime.rs:11-19, 33-41; docs/usage.md:120-121)                        *)
OnlyLateForksHang == \A p \in Procs : op[p] # "none" ~> op[p] = "none" \/ p \in late

=============================================================================
