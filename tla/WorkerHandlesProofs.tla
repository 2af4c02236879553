------------------------- MODULE WorkerHandlesProofs -------------------------
(***************************************************************************)
(* A handle reads one snapshot wherever it goes, for any number of         *)
(* processes, arrays and commits: proofs about WorkerHandles.              *)
(*                                                                         *)
(* The inductive invariant says of each place a handle can be (held, in    *)
(* flight as a pickle, the subject of a call) that the session bytes and   *)
(* the store name the snapshot the tree was opened at, and that the array  *)
(* is in it.  Snapshots are only ever added, so that this stays true.      *)
(***************************************************************************)
EXTENDS WorkerHandles, TLAPS

GoodHandle(h) ==
  /\ h \in Handle /\ h.array \in Arrays
  /\ h.store = h.origin /\ h.store <= Tip
  /\ h.store # 0 => repo[h.store][h.array] # 0
  /\ h.source = "session" => h.spec = h.origin /\ h.spec # 0
  /\ h.source # "session" => h.spec = 0

GoodPickle(m) ==
  /\ m \in Pickle /\ m.source = "session"
  /\ m.spec = m.origin /\ m.spec # 0 /\ m.spec <= Tip
  /\ repo[m.spec][m.array] # 0

(* What an open is about: the snapshot of a session, nothing yet of a path. *)
GoodOpening(h) ==
  /\ h \in Handle
  /\ h.source = "session" =>
       h.spec = h.origin /\ h.store = h.origin /\ h.spec # 0 /\ h.spec <= Tip
  /\ h.source # "session" => h.spec = 0 /\ h.store = 0

GoodSubject(p) ==
  /\ op[p] = "open" => GoodOpening(subject[p])
  /\ op[p] = "revive" => GoodHandle(subject[p]) /\ subject[p].source = "session"
  /\ op[p] = "read" => GoodHandle(subject[p])

Traced ==
  /\ \A p \in Procs : \A h \in handles[p] : GoodHandle(h)
  /\ \A m \in pickles : GoodPickle(m)
  /\ \A p \in Procs : GoodSubject(p)

IInv == TypeOK /\ Traced /\ ReadsPinned /\ RaisesForAReason

(* Later commits change nothing of what is known about a handle. *)
Grown ==
  /\ Tip' \in Nat /\ Tip <= Tip'
  /\ \A s \in 1 .. Tip : repo'[s] = repo[s]

LEMMA KeptWhenGrown ==
  ASSUME TypeOK, Grown
  PROVE  /\ \A h : GoodHandle(h) => GoodHandle(h)'
         /\ \A m : GoodPickle(m) => GoodPickle(m)'
         /\ \A h : GoodOpening(h) => GoodOpening(h)'
<1>1. Tip \in Nat
  BY DEF TypeOK, Tip
<1>2. ASSUME NEW h, GoodHandle(h) PROVE GoodHandle(h)'
  <2>1. h.store \in Nat
    BY <1>2 DEF GoodHandle, Handle
  <2> QED BY <1>1, <1>2, <2>1 DEF GoodHandle, Grown
<1>3. ASSUME NEW m, GoodPickle(m) PROVE GoodPickle(m)'
  <2>1. m.spec \in Nat
    BY <1>3 DEF GoodPickle, Pickle
  <2> QED BY <1>1, <1>3, <2>1 DEF GoodPickle, Grown
<1>4. ASSUME NEW h, GoodOpening(h) PROVE GoodOpening(h)'
  <2>1. h.origin \in Nat /\ h.spec \in Nat
    BY <1>4 DEF GoodOpening, Handle
  <2> QED BY <1>1, <1>4, <2>1 DEF GoodOpening, Grown
<1> QED BY <1>2, <1>3, <1>4

(* A step that ends no call and touches no handle, pickle or call.         *)
LEMMA TracedWhenKept ==
  ASSUME TypeOK, Traced, Grown,
         \A p \in Procs : handles'[p] \subseteq handles[p],
         pickles' = pickles, op' = op, subject' = subject
  PROVE  Traced'
<1>1. \A p \in Procs : GoodSubject(p) => GoodSubject(p)'
  BY KeptWhenGrown DEF GoodSubject
<1>2. \A p \in Procs : \A h \in handles'[p] : GoodHandle(h)'
  BY KeptWhenGrown DEF Traced
<1> QED BY <1>1, <1>2, KeptWhenGrown DEF Traced

LEMMA SameRepo ==
  ASSUME TypeOK, repo' = repo
  PROVE  Grown
<1>1. Tip \in Nat
  BY DEF TypeOK, Tip
<1> QED BY <1>1 DEF Grown, Tip

LEMMA Silent ==
  ASSUME answer' = NoAnswer
  PROVE  ReadsPinned' /\ RaisesForAReason'
BY DEF ReadsPinned, RaisesForAReason, NoAnswer, Answer, Nothing

LEMMA NothingIsHandle == Nothing \in Handle
BY DEF Nothing, Handle, Sources

(* A handle keeps what Traced says of it when a call begins with it. *)
LEMMA EnterStep ==
  ASSUME TypeOK, Traced, NEW p \in Procs, p \in up,
         NEW what \in {"open", "revive", "read"}, NEW where \in {"runtime", "io"},
         NEW h \in Handle, Enter(p, what, where, h),
         where = "io" => runtime[p] \in {"up", "orphaned"},
         what = "open" => GoodOpening(h),
         what = "revive" => GoodHandle(h) /\ h.source = "session",
         what = "read" => GoodHandle(h)
  PROVE  TypeOK' /\ Traced'
<1>1. Grown
  BY SameRepo DEF Enter
<1>2. TypeOK'
  BY DEF TypeOK, Enter, Tip
<1>3. \A q \in Procs : GoodSubject(q)'
  <2> SUFFICES ASSUME NEW q \in Procs PROVE GoodSubject(q)'
    OBVIOUS
  <2>1. CASE q = p
    <3>1. op'[p] = what /\ subject'[p] = h
      BY DEF Enter, TypeOK
    <3> QED BY <2>1, <3>1, <1>1, KeptWhenGrown DEF GoodSubject
  <2>2. CASE q # p
    <3>1. op'[q] = op[q] /\ subject'[q] = subject[q]
      BY <2>2 DEF Enter, TypeOK
    <3>2. GoodSubject(q)
      BY DEF Traced
    <3> QED BY <3>1, <3>2, <1>1, KeptWhenGrown DEF GoodSubject
  <2> QED BY <2>1, <2>2
<1>4. handles' = handles /\ pickles' = pickles
  BY DEF Enter
<1> QED BY <1>1, <1>2, <1>3, <1>4, KeptWhenGrown DEF Traced

(* When a call ends, its process has at most one handle more. *)
LEMMA LeaveStep ==
  ASSUME TypeOK, Traced, NEW p \in Procs, op[p] # "none", runtime[p] = "up",
         NEW kind \in {"ok", "ValueError", "RuntimeError", "OSError"}, NEW value \in Nat,
         Leave(p, kind, value),
         NEW S \in SUBSET Handle, \A h \in S : GoodHandle(h),
         handles' = [handles EXCEPT ![p] = S]
  PROVE  TypeOK' /\ Traced'
<1>1. Grown
  BY SameRepo DEF Leave
<1>2. p \in up
  BY DEF TypeOK
<1>3. TypeOK'
  <2>1. handles' \in [Procs -> SUBSET Handle]
    BY DEF TypeOK
  <2>2. subject' \in [Procs -> Handle]
    BY NothingIsHandle DEF TypeOK, Leave
  <2>3. /\ op' \in [Procs -> {"none", "open", "revive", "read"}]
        /\ at' \in [Procs -> {"runtime", "io"}]
    BY DEF TypeOK, Leave
  <2>4. \A q \in Procs :
          /\ q \notin up' => handles'[q] = {} /\ op'[q] = "none" /\ at'[q] = "runtime"
          /\ handles'[q] # {} \/ at'[q] = "io" => runtime'[q] \in {"up", "orphaned"}
    BY <1>2 DEF TypeOK, Leave
  <2> QED BY <2>1, <2>2, <2>3, <2>4 DEF TypeOK, Leave, Tip
<1>4. \A q \in Procs : GoodSubject(q)'
  <2> SUFFICES ASSUME NEW q \in Procs PROVE GoodSubject(q)'
    OBVIOUS
  <2>1. CASE q = p
    <3>1. op'[p] = "none"
      BY DEF Leave, TypeOK
    <3> QED BY <2>1, <3>1 DEF GoodSubject
  <2>2. CASE q # p
    <3>1. op'[q] = op[q] /\ subject'[q] = subject[q]
      BY <2>2 DEF Leave, TypeOK
    <3>2. GoodSubject(q)
      BY DEF Traced
    <3> QED BY <3>1, <3>2, <1>1, KeptWhenGrown DEF GoodSubject
  <2> QED BY <2>1, <2>2
<1>5. \A q \in Procs : \A h \in handles'[q] : GoodHandle(h)'
  <2> SUFFICES ASSUME NEW q \in Procs, NEW h \in handles'[q] PROVE GoodHandle(h)'
    OBVIOUS
  <2>1. h \in handles[q] \/ h \in S
    BY DEF TypeOK
  <2>2. GoodHandle(h)
    BY <2>1 DEF Traced
  <2> QED BY <2>2, <1>1, KeptWhenGrown
<1>6. pickles' = pickles
  BY DEF Leave
<1> QED BY <1>1, <1>3, <1>4, <1>5, <1>6, KeptWhenGrown DEF Traced

-----------------------------------------------------------------------------
LEMMA InitIInv == Init => IInv
<1> SUFFICES ASSUME Init PROVE IInv
  OBVIOUS
<1>1. TypeOK
  BY NothingIsHandle, WorkerHandlesAssumption
  DEF Init, TypeOK, Tip, RuntimeStates, OnImport
<1>2. Traced
  BY DEF Init, Traced, GoodSubject
<1>3. ReadsPinned /\ RaisesForAReason
  BY DEF Init, ReadsPinned, RaisesForAReason, NoAnswer, Answer
<1> QED BY <1>1, <1>2, <1>3 DEF IInv

LEMMA CommitStep == ASSUME IInv, NEW a \in Arrays, Commit(a) PROVE IInv'
<1>0. TypeOK /\ Traced
  BY DEF IInv
<1>1. Tip \in Nat /\ Tip > 0 /\ repo[Tip] \in [Arrays -> Nat]
  BY <1>0 DEF TypeOK, Tip
<1>2. PICK value \in {0, Tip + 1} : repo' = Append(repo, [repo[Tip] EXCEPT ![a] = value])
  BY DEF Commit
<1>3. [repo[Tip] EXCEPT ![a] = value] \in [Arrays -> Nat]
  BY <1>1
<1>4. /\ repo' \in Seq([Arrays -> Nat]) /\ Len(repo') = Len(repo) + 1
      /\ \A s \in 1 .. Len(repo) : repo'[s] = repo[s]
  BY <1>0, <1>2, <1>3 DEF TypeOK, Tip
<1>5. Grown
  BY <1>1, <1>4 DEF Grown, Tip
<1>6. expired' \subseteq 1 .. Tip' /\ Tip' > 0
  BY <1>0, <1>1, <1>4 DEF TypeOK, Tip, Commit
<1>7. TypeOK'
  BY <1>0, <1>4, <1>6 DEF TypeOK, Commit, process, calls
<1>8. Traced'
  BY <1>0, <1>5, TracedWhenKept DEF Commit, process, calls
<1> QED BY <1>7, <1>8, Silent DEF IInv, Commit

LEMMA ExpireStep == ASSUME IInv, NEW s \in 1 .. Tip, Expire(s) PROVE IInv'
<1>0. TypeOK /\ Traced
  BY DEF IInv
<1>1. TypeOK'
  BY <1>0 DEF TypeOK, Expire, process, calls, Tip
<1>2. Traced'
  BY <1>0, SameRepo, TracedWhenKept DEF Expire, process, calls
<1> QED BY <1>1, <1>2, Silent DEF IInv, Expire

LEMMA SpawnStep == ASSUME IInv, NEW p \in Procs, Spawn(p) PROVE IInv'
<1>0. TypeOK /\ Traced
  BY DEF IInv
<1>2. TypeOK'
  BY <1>0 DEF TypeOK, Spawn, OnImport, RuntimeStates, calls, Tip
<1>3. Traced'
  BY <1>0, SameRepo, TracedWhenKept DEF Spawn, calls
<1> QED BY <1>2, <1>3, Silent DEF IInv, Spawn

LEMMA ForkStep ==
  ASSUME IInv, NEW p \in Procs, NEW q \in Procs, Fork(p, q) PROVE IInv'
<1>0. TypeOK /\ Traced
  BY DEF IInv
<1>1. Inherited(p) \in {"absent", "orphaned"} /\
      (runtime[p] \in {"up", "orphaned"} => Inherited(p) = "orphaned")
  BY DEF Inherited
<1>2. /\ up' = up \cup {q} /\ late' \subseteq up'
      /\ op[q] = "none" /\ at[q] = "runtime"
      /\ handles' = [handles EXCEPT ![q] = handles[p]]
      /\ runtime' = [runtime EXCEPT ![q] = Inherited(p)]
  BY <1>0 DEF TypeOK, Fork
<1>3. \A r \in Procs :
        /\ r \notin up' => handles'[r] = {} /\ op[r] = "none" /\ at[r] = "runtime"
        /\ handles'[r] # {} \/ at[r] = "io" => runtime'[r] \in {"up", "orphaned"}
  <2> SUFFICES ASSUME NEW r \in Procs
               PROVE  /\ r \notin up' => handles'[r] = {} /\ op[r] = "none" /\ at[r] = "runtime"
                      /\ handles'[r] # {} \/ at[r] = "io" => runtime'[r] \in {"up", "orphaned"}
    OBVIOUS
  <2>1. CASE r = q
    BY <1>0, <1>1, <1>2, <2>1 DEF TypeOK
  <2>2. CASE r # q
    BY <1>0, <1>2, <2>2 DEF TypeOK
  <2> QED BY <2>1, <2>2
<1>4. /\ runtime' \in [Procs -> RuntimeStates]
      /\ handles' \in [Procs -> SUBSET Handle]
  BY <1>0, <1>1, <1>2 DEF TypeOK, RuntimeStates
<1>5. TypeOK'
  BY <1>0, <1>2, <1>3, <1>4 DEF TypeOK, Fork, calls, Tip
<1>6. Traced'
  <2>1. Grown
    BY <1>0, SameRepo DEF Fork
  <2>2. \A r \in Procs : \A h \in handles'[r] : GoodHandle(h)
    BY <1>0, <1>2 DEF TypeOK, Traced
  <2>3. \A r \in Procs : GoodSubject(r)'
    BY <1>0, <2>1, KeptWhenGrown DEF GoodSubject, Traced, Fork, calls
  <2>4. pickles' = pickles
    BY DEF Fork
  <2> QED BY <1>0, <2>1, <2>2, <2>3, <2>4, KeptWhenGrown DEF Traced
<1> QED BY <1>5, <1>6, Silent DEF IInv, Fork

LEMMA CrashStep == ASSUME IInv, NEW p \in Procs, Crash(p) PROVE IInv'
<1>0. TypeOK /\ Traced
  BY DEF IInv
<1>1. Grown
  BY <1>0, SameRepo DEF Crash
<1>2. TypeOK'
  <2>1. subject' \in [Procs -> Handle] /\ handles' \in [Procs -> SUBSET Handle]
    BY <1>0, NothingIsHandle DEF TypeOK, Crash
  <2> QED BY <1>0, <2>1 DEF TypeOK, Crash, Tip, RuntimeStates
<1>3. \A q \in Procs : GoodSubject(q)'
  <2> SUFFICES ASSUME NEW q \in Procs PROVE GoodSubject(q)'
    OBVIOUS
  <2>1. CASE q = p
    BY <1>0, <2>1 DEF GoodSubject, Crash, TypeOK
  <2>2. CASE q # p
    <3>1. op'[q] = op[q] /\ subject'[q] = subject[q]
      BY <1>0, <2>2 DEF Crash, TypeOK
    <3> QED BY <1>0, <1>1, <3>1, KeptWhenGrown DEF GoodSubject, Traced
  <2> QED BY <2>1, <2>2
<1>4. \A q \in Procs : handles'[q] \subseteq handles[q]
  BY <1>0 DEF Crash, TypeOK
<1>5. pickles' = pickles
  BY DEF Crash
<1>6. Traced'
  BY <1>0, <1>1, <1>3, <1>4, <1>5, KeptWhenGrown DEF Traced
<1> QED BY <1>2, <1>6, Silent DEF IInv, Crash

-----------------------------------------------------------------------------
(* Calls begin.                                                            *)

LEMMA OpenStep ==
  ASSUME IInv, NEW p \in Procs, OpenSession(p) \/ OpenPath(p) PROVE IInv'
<1>0. TypeOK /\ Traced
  BY DEF IInv
<1>1. Tip \in Nat /\ p \in up
  BY <1>0 DEF TypeOK, Tip, OpenSession, OpenPath, Idle
<1>2. PICK h : Enter(p, "open", "runtime", h) /\ h \in Handle /\ GoodOpening(h)
  <2>1. CASE OpenSession(p)
    <3>1. PICK s \in 1 .. Tip :
            Enter(p, "open", "runtime",
                  [source |-> "session", origin |-> s, array |-> NoArray,
                   store |-> s, spec |-> SpecOf(s)])
      BY <2>1 DEF OpenSession
    <3> QED BY <1>1, <3>1 DEF Handle, Sources, GoodOpening, SpecOf
  <2>2. CASE OpenPath(p)
    BY <2>2 DEF OpenPath, Handle, Sources, GoodOpening, Nothing
  <2> QED BY <2>1, <2>2
<1>3. TypeOK' /\ Traced'
  BY <1>0, <1>1, <1>2, EnterStep
<1> QED BY <1>2, <1>3, Silent DEF IInv, Enter

LEMMA ReadStep == ASSUME IInv, NEW p \in Procs, Read(p) PROVE IInv'
<1>0. TypeOK /\ Traced
  BY DEF IInv
<1>1. PICK h \in handles[p] : Enter(p, "read", "io", h)
  BY DEF Read
<1>2. p \in up /\ h \in Handle /\ GoodHandle(h) /\ runtime[p] \in {"up", "orphaned"}
  BY <1>0 DEF TypeOK, Traced, Read, Idle
<1>3. TypeOK' /\ Traced'
  BY <1>0, <1>1, <1>2, EnterStep
<1> QED BY <1>1, <1>3, Silent DEF IInv, Enter

LEMMA ReviveStep == ASSUME IInv, NEW p \in Procs, Revive(p) PROVE IInv'
<1>0. TypeOK /\ Traced
  BY DEF IInv
<1>1. PICK m \in pickles : Enter(p, "revive", "runtime", Revived(m))
  BY DEF Revive
<1>2. p \in up /\ GoodPickle(m)
  BY <1>0 DEF Traced, Revive, Idle
<1>3. GoodHandle(Revived(m)) /\ Revived(m) \in Handle /\ Revived(m).source = "session"
  BY <1>2 DEF GoodHandle, GoodPickle, Revived, Handle, Pickle
<1>4. TypeOK' /\ Traced'
  BY <1>0, <1>1, <1>2, <1>3, EnterStep
<1> QED BY <1>1, <1>4, Silent DEF IInv, Enter

LEMMA ReviveCorruptStep == ASSUME IInv, NEW p \in Procs, ReviveCorrupt(p) PROVE IInv'
<1>0. TypeOK /\ Traced
  BY DEF IInv
<1>1. TypeOK'
  BY <1>0 DEF TypeOK, ReviveCorrupt, process, calls, Tip
<1>2. Traced'
  BY <1>0, SameRepo, TracedWhenKept DEF ReviveCorrupt, process, calls
<1>3. ReadsPinned' /\ RaisesForAReason'
  BY DEF ReviveCorrupt, ReadsPinned, RaisesForAReason, Answer
<1> QED BY <1>1, <1>2, <1>3 DEF IInv

LEMMA ReduceStep == ASSUME IInv, NEW p \in Procs, Reduce(p) PROVE IInv'
<1>0. TypeOK /\ Traced
  BY DEF IInv
<1>1. PICK h \in handles[p] :
        \/ /\ h.spec # 0
           /\ pickles' = pickles \cup
                {[source |-> h.source, origin |-> h.origin, array |-> h.array,
                  spec |-> h.spec]}
           /\ answer' = NoAnswer
        \/ /\ h.spec = 0
           /\ answer' = Answer(p, "pickle", "ValueError", h, 0)
           /\ UNCHANGED pickles
  BY DEF Reduce
<1>2. GoodHandle(h)
  BY <1>0 DEF Traced
<1>3. Grown
  BY <1>0, SameRepo DEF Reduce
<1>4. \A m \in pickles' : GoodPickle(m)
  BY <1>0, <1>1, <1>2 DEF Traced, GoodHandle, GoodPickle, Handle, Pickle
<1>5. TypeOK'
  BY <1>0, <1>4 DEF TypeOK, Reduce, process, calls, Tip, GoodPickle
<1>6. Traced'
  <2>1. \A q \in Procs : GoodSubject(q)'
    BY <1>0, <1>3, KeptWhenGrown DEF GoodSubject, Traced, Reduce, calls
  <2>2. handles' = handles
    BY DEF Reduce, process
  <2> QED BY <1>0, <1>3, <1>4, <2>1, <2>2, KeptWhenGrown DEF Traced
<1>7. ReadsPinned' /\ RaisesForAReason'
  <2>1. CASE h.spec # 0
    BY <1>1, <2>1, Silent
  <2>2. CASE h.spec = 0
    <3>1. answer' = Answer(p, "pickle", "ValueError", h, 0)
      BY <1>1, <2>2
    <3>2. h.source # "session"
      BY <1>2, <2>2 DEF GoodHandle
    <3> QED BY <3>1, <3>2 DEF ReadsPinned, RaisesForAReason, Answer
  <2> QED BY <2>1, <2>2
<1> QED BY <1>5, <1>6, <1>7 DEF IInv

-----------------------------------------------------------------------------
(* Calls go on and end.                                                    *)

LEMMA RuntimeStep ==
  ASSUME IInv, NEW p \in Procs, Build(p) \/ BlockOn(p) PROVE IInv'
<1>0. TypeOK /\ Traced
  BY DEF IInv
<1>1. p \in up
  BY <1>0 DEF TypeOK, Build, BlockOn
<1>2. TypeOK'
  <2>1. CASE Build(p)
    BY <1>0, <1>1, <2>1 DEF TypeOK, Build, RuntimeStates, calls, Tip
  <2>2. CASE BlockOn(p)
    BY <1>0, <1>1, <2>2 DEF TypeOK, BlockOn, process, Tip
  <2> QED BY <2>1, <2>2
<1>3. Traced'
  BY <1>0, SameRepo, TracedWhenKept DEF Build, BlockOn, process, calls
<1>4. answer' = NoAnswer
  BY DEF Build, BlockOn
<1> QED BY <1>2, <1>3, <1>4, Silent DEF IInv

(* A call that raises leaves the handles as they are. *)
LEMMA RaiseStep ==
  ASSUME IInv, NEW p \in Procs, BadBytes(p) \/ RequestFails(p) PROVE IInv'
<1>0. TypeOK /\ Traced
  BY DEF IInv
<1>1. PICK kind \in {"ValueError", "RuntimeError", "OSError"} : Leave(p, kind, 0)
  BY DEF BadBytes, RequestFails, Raised
<1>2. /\ op[p] \in {"open", "revive", "read"} /\ runtime[p] = "up"
      /\ handles' = [handles EXCEPT ![p] = handles[p]]
  BY <1>0 DEF BadBytes, RequestFails, Running, TypeOK
<1>3. TypeOK' /\ Traced'
  <2>1. handles[p] \in SUBSET Handle /\ \A h \in handles[p] : GoodHandle(h)
    BY <1>0 DEF TypeOK, Traced
  <2> QED BY <1>0, <1>1, <1>2, <2>1, LeaveStep
<1>4. GoodSubject(p) /\ subject[p] \in Handle /\ Tip \in Nat
  BY <1>0 DEF Traced, TypeOK, Tip
<1>5. ReadsPinned' /\ RaisesForAReason'
  <2>1. CASE BadBytes(p)
    <3>1. p \in Skewed /\ op[p] \in {"open", "revive"}
      BY <1>2, <2>1 DEF BadBytes, Decodes, Running
    <3>2. answer' = Answer(p, op[p], "ValueError", subject[p], 0)
      BY <2>1 DEF BadBytes, Leave
    <3> QED BY <3>1, <3>2 DEF ReadsPinned, RaisesForAReason, Answer
  <2>2. CASE RequestFails(p)
    <3>1. PICK exception \in Raised(op[p], subject[p]) :
            answer' = Answer(p, op[p], exception, subject[p], 0) /\ expired' = expired
      BY <2>2 DEF RequestFails, Leave
    <3>4. /\ exception \in {"ValueError", "RuntimeError", "OSError"}
          /\ exception = "ValueError" => op[p] = "read"
          /\ exception = "OSError" => subject[p].source = "directory"
      BY <1>2, <3>1 DEF Raised
    <3>2. p \in Flaky \/ subject[p].store \in expired
      BY <1>4, <2>2 DEF RequestFails, MayFail, GoodSubject, GoodHandle, Handle
    <3>3. subject[p].store \in expired => subject[p].origin \in expired
      BY <1>0, <1>2, <1>4 DEF GoodSubject, GoodHandle, GoodOpening, Handle, Sources, TypeOK
    <3> QED BY <1>2, <3>1, <3>2, <3>3, <3>4 DEF ReadsPinned, RaisesForAReason, Answer
  <2> QED BY <2>1, <2>2
<1> QED BY <1>3, <1>5 DEF IInv

LEMMA OpenEndsStep == ASSUME IInv, NEW p \in Procs, OpenEnds(p) PROVE IInv'
<1> DEFINE h == subject[p]
           s == SnapshotOf(h)
           there == IF s = 0 THEN Arrays ELSE {a \in Arrays : repo[s][a] # 0}
           S == {[h EXCEPT !.array = a, !.origin = s, !.store = s] : a \in there}
<1>0. TypeOK /\ Traced
  BY DEF IInv
<1>1. Tip \in Nat /\ Tip > 0
  BY <1>0 DEF TypeOK, Tip
<1>2. h \in Handle /\ GoodOpening(h)
  BY <1>0 DEF TypeOK, Traced, GoodSubject, OpenEnds, Running
<1>3. s \in Nat /\ s <= Tip /\ (h.source = "session" => s = h.spec)
  BY <1>1, <1>2 DEF SnapshotOf, GoodOpening, Handle
<1>4. \A a \in there : LET g == [h EXCEPT !.array = a, !.origin = s, !.store = s]
                       IN  g \in Handle /\ GoodHandle(g)
  BY <1>1, <1>2, <1>3 DEF Handle, GoodHandle, GoodOpening
<1>5. S \in SUBSET Handle /\ \A g \in S : GoodHandle(g)
  BY <1>4
<1>6. handles' = [handles EXCEPT ![p] = S] /\ Leave(p, "ok", 0)
  BY DEF OpenEnds
<1>7. op[p] # "none" /\ runtime[p] = "up"
  BY DEF OpenEnds, Running
<1>8. TypeOK' /\ Traced'
  <2> HIDE DEF S
  <2> QED BY <1>0, <1>5, <1>6, <1>7, LeaveStep
<1>9. ReadsPinned' /\ RaisesForAReason'
  <2>1. answer' = Answer(p, "open", "ok", subject[p], 0)
    BY DEF OpenEnds, Leave, Running
  <2> QED BY <2>1 DEF ReadsPinned, RaisesForAReason, Answer
<1> QED BY <1>8, <1>9 DEF IInv

LEMMA ReviveEndsStep == ASSUME IInv, NEW p \in Procs, ReviveEnds(p) PROVE IInv'
<1> DEFINE S == handles[p] \cup {subject[p]}
<1>0. TypeOK /\ Traced
  BY DEF IInv
<1>1. S \in SUBSET Handle /\ \A h \in S : GoodHandle(h)
  BY <1>0 DEF TypeOK, Traced, GoodSubject, ReviveEnds, Running
<1>2. handles' = [handles EXCEPT ![p] = S] /\ Leave(p, "ok", 0)
  BY <1>0 DEF ReviveEnds, TypeOK
<1>3. op[p] # "none" /\ runtime[p] = "up"
  BY DEF ReviveEnds, Running
<1>4. TypeOK' /\ Traced'
  <2> HIDE DEF S
  <2> QED BY <1>0, <1>1, <1>2, <1>3, LeaveStep
<1>5. ReadsPinned' /\ RaisesForAReason'
  <2>1. answer' = Answer(p, "revive", "ok", subject[p], 0)
    BY DEF ReviveEnds, Leave, Running
  <2> QED BY <2>1 DEF ReadsPinned, RaisesForAReason, Answer
<1> QED BY <1>4, <1>5 DEF IInv

LEMMA ReadEndsStep == ASSUME IInv, NEW p \in Procs, ReadEnds(p) PROVE IInv'
<1> DEFINE h == subject[p]
           value == IF h.store = 0 THEN 0 ELSE repo[h.store][h.array]
<1>0. TypeOK /\ Traced
  BY DEF IInv
<1>1. GoodHandle(h) /\ h.store \in Nat /\ Tip \in Nat
  BY <1>0 DEF TypeOK, Tip, Traced, GoodSubject, GoodHandle, Handle, ReadEnds, Running
<1>2. value \in Nat
  BY <1>0, <1>1 DEF GoodHandle, TypeOK, Tip
<1>3. Leave(p, "ok", value) /\ op[p] = "read" /\ runtime[p] = "up"
  BY DEF ReadEnds, Running
<1>4. TypeOK' /\ Traced'
  <2>1. handles[p] \in SUBSET Handle /\ \A g \in handles[p] : GoodHandle(g)
    BY <1>0 DEF TypeOK, Traced
  <2>2. handles' = [handles EXCEPT ![p] = handles[p]]
    BY <1>0 DEF ReadEnds, TypeOK
  <2> HIDE DEF value
  <2> QED BY <1>0, <1>2, <1>3, <2>1, <2>2, LeaveStep
<1>5. ReadsPinned' /\ RaisesForAReason'
  <2>1. answer' = Answer(p, "read", "ok", h, value) /\ repo' = repo
    BY <1>3 DEF Leave
  <2>2. h.origin # 0 => value # 0 /\ value = repo[h.origin][h.array]
    BY <1>1 DEF GoodHandle
  <2> HIDE DEF value, h
  <2> QED BY <2>1, <2>2 DEF ReadsPinned, RaisesForAReason, Answer
<1> QED BY <1>4, <1>5 DEF IInv

-----------------------------------------------------------------------------
LEMMA NextStep == IInv /\ [Next]_vars => IInv'
<1> SUFFICES ASSUME IInv, [Next]_vars PROVE IInv'
  OBVIOUS
<1>1. CASE UNCHANGED vars
  <2>1. TypeOK' /\ ReadsPinned' /\ RaisesForAReason'
    BY <1>1 DEF IInv, TypeOK, ReadsPinned, RaisesForAReason, vars, process, calls, Tip
  <2>2. Traced'
    BY <1>1, SameRepo, TracedWhenKept DEF IInv, vars, process, calls
  <2> QED BY <2>1, <2>2 DEF IInv
<1>2. CASE \E a \in Arrays : Commit(a)
  BY <1>2, CommitStep
<1>3. CASE \E s \in 1 .. Tip : Expire(s)
  BY <1>3, ExpireStep
<1>4. CASE \E p, q \in Procs : Fork(p, q)
  BY <1>4, ForkStep
<1>5. ASSUME NEW p \in Procs,
             \/ Spawn(p) \/ Crash(p)
             \/ OpenSession(p) \/ OpenPath(p) \/ Read(p)
             \/ Revive(p) \/ ReviveCorrupt(p) \/ Reduce(p)
      PROVE  IInv'
  BY <1>5, SpawnStep, CrashStep, OpenStep, ReadStep, ReviveStep,
     ReviveCorruptStep, ReduceStep
<1>6. ASSUME NEW p \in Procs, CallStep(p) PROVE IInv'
  BY <1>6, RuntimeStep, RaiseStep, OpenEndsStep, ReviveEndsStep, ReadEndsStep
  DEF CallStep
<1> QED BY <1>1, <1>2, <1>3, <1>4, <1>5, <1>6 DEF Next

LEMMA Invariance == Spec => []IInv
BY InitIInv, NextStep, PTL DEF Spec

(* The state of any number of processes is well formed: WorkerHandles of   *)
(* runtime.rs and _reopen_array_handle of array.rs.                        *)
THEOREM TypeCorrect == Spec => []TypeOK
<1>1. IInv => TypeOK
  BY DEF IInv
<1> QED BY <1>1, Invariance, PTL

(* A read through a handle gives what the snapshot held that the tree was  *)
(* opened at, for every number of processes, pickles, forks and commits    *)
(* (array.rs:475-509, store.rs:63-97).                                     *)
THEOREM PinnedEverywhere == Spec => []ReadsPinned
<1>1. IInv => ReadsPinned
  BY DEF IInv
<1> QED BY <1>1, Invariance, PTL

(* Handles of a session stay picklable over any number of hops, and no     *)
(* other handle is ever sent (array.rs:178-202, 504-508).                  *)
THEOREM PicklableForever == Spec => []StaysPicklable
<1>1. IInv => StaysPicklable
  BY DEF IInv, Traced, GoodHandle, GoodPickle, StaysPicklable
<1> QED BY <1>1, Invariance, PTL

(* An error has its reason, and an array's absence from later snapshots is *)
(* none (array.rs:178-190, 483-501).                                       *)
THEOREM ErrorsHaveReasons == Spec => []RaisesForAReason
<1>1. IInv => RaisesForAReason
  BY DEF IInv
<1> QED BY <1>1, Invariance, PTL

=============================================================================
