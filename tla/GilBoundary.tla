------------------------------ MODULE GilBoundary ------------------------------
(***************************************************************************)
(* The calls from Python into the Rust core, and the one call back:        *)
(*   open    open_datatree of src/src/lib.rs                               *)
(*   read    ZarrsArrayHandle.read_subset of src/src/array.rs              *)
(*   revive  _reopen_array_handle of src/src/array.rs                      *)
(* Each holds the GIL on entry, detaches from the interpreter, blocks on   *)
(* a future of the process-wide runtime (src/src/runtime.rs), and attaches *)
(* again to marshal its result.  A request of that future may find the     *)
(* session's credentials stale, and then attaches on a runtime thread to   *)
(* run the Python callback (src/src/py_credentials.rs).                    *)
(***************************************************************************)
EXTENDS Integers, FiniteSets

CONSTANTS
  Threads,    \* Python threads
  Workers,    \* number of runtime threads
  Buffer,     \* REFRESH_BUFFER_SECS
  Lifetimes,  \* how long credentials the callback returns may last yet
  Initial,    \* expiry of the credentials that came with the session, or Never
  Never,      \* the expiry of what does not expire
  MaxTime,    \* bound: of the clock
  MaxCalls    \* bound: calls of a thread

(* What the OnceLock may hold, other than the thread that builds. *)
Absent == "absent"
Up == "up"

ASSUME GilBoundaryAssumption ==
  /\ {Workers, Buffer, Initial, Never, MaxTime, MaxCalls} \subseteq Nat
  /\ Lifetimes \subseteq Nat
  /\ Threads \cap {Absent, Up} = {}
  /\ Workers > 0
  /\ Never > MaxTime + Buffer

Kinds == {"open", "read", "revive"}
Free == <<"nobody">>

(* The GIL is held by a Python thread, or by a runtime thread on behalf of *)
(* the request of a thread's call.                                         *)
ByCall(t) == <<"call", t>>
ByRequest(t) == <<"request", t>>

VARIABLES
  gil,      \* who holds the GIL
  runtime,  \* the OnceLock: Absent, the thread building the runtime, or Up
  pc,       \* of each thread, see TypeOK
  kind,     \* what each thread calls
  request,  \* the request the future of each call makes
  taken,    \* when it took its credentials
  expiry,   \* when these expire
  origin,   \* whether they came with the session or from the callback
  calls,    \* calls made by each thread
  now       \* the clock

vars == <<gil, runtime, pc, kind, request, taken, expiry, origin, calls, now>>

-----------------------------------------------------------------------------
Init ==
  /\ gil = Free
  /\ runtime = Absent
  /\ pc = [t \in Threads |-> "python"]
  /\ kind = [t \in Threads |-> "open"]
  /\ request = [t \in Threads |-> "none"]
  /\ taken = [t \in Threads |-> 0]
  /\ expiry = [t \in Threads |-> Never]
  /\ origin = [t \in Threads |-> "session"]
  /\ calls = [t \in Threads |-> 0]
  /\ now = 0

Goto(t, label) == pc' = [pc EXCEPT ![t] = label]

(* A Python thread gets the GIL and calls.  A handle to read from comes    *)
(* from an open or a revival, which has built the runtime.                 *)
Call(t) ==
  /\ pc[t] = "python" /\ gil = Free /\ calls[t] < MaxCalls
  /\ \E k \in Kinds :
       /\ k = "read" => runtime = Up
       /\ kind' = [kind EXCEPT ![t] = k]
       /\ Goto(t, IF k = "revive" THEN "runtime" ELSE "detach")
  /\ gil' = ByCall(t)
  /\ calls' = [calls EXCEPT ![t] = @ + 1]
  /\ UNCHANGED <<runtime, request, taken, expiry, origin, now>>

(* py.detach gives the GIL up for the time of its closure. *)
HeldByDetach(g) == g

FreedByDetach(g) == Free

Detach(t) ==
  /\ pc[t] = "detach"
  /\ gil' = FreedByDetach(gil)
  /\ Goto(t, IF kind[t] = "open" THEN "runtime" ELSE "block_on")
  /\ UNCHANGED <<runtime, kind, request, taken, expiry, origin, calls, now>>

(* runtime::handle(): the first to come builds, others wait.  A revival    *)
(* does this before it detaches, an open after.                            *)
Build(t) ==
  /\ pc[t] = "runtime" /\ runtime = Absent
  /\ runtime' = t
  /\ UNCHANGED <<gil, pc, kind, request, taken, expiry, origin, calls, now>>

Built(t) ==
  /\ pc[t] = "runtime" /\ runtime = t
  /\ runtime' = Up
  /\ UNCHANGED <<gil, pc, kind, request, taken, expiry, origin, calls, now>>

Handle(t) ==
  /\ pc[t] = "runtime" /\ runtime = Up
  /\ Goto(t, IF kind[t] = "open" THEN "block_on" ELSE "detach")
  /\ UNCHANGED <<gil, runtime, kind, request, taken, expiry, origin, calls, now>>

BlockOn(t) ==
  /\ pc[t] = "block_on"
  /\ Goto(t, "blocked")
  /\ request' = [request EXCEPT ![t] = "new"]
  /\ UNCHANGED <<gil, runtime, kind, taken, expiry, origin, calls, now>>

-----------------------------------------------------------------------------
(* The credentials fetcher's get(), on a runtime thread that waits for the *)
(* GIL without yielding.                                                   *)
FreshUntilExpiry(at) == at = Never \/ at > now

IsFresh(at) == at = Never \/ at > now + Buffer

(* Python::attach gives the GIL back when its closure ends, raised or not. *)
HeldAfterAttach(g) == g

ReleasedByAttach(g) == Free

Occupied == {t \in Threads : request[t] \in {"attach", "callback"}}

Sent(t, at, from) ==
  /\ request' = [request EXCEPT ![t] = "sent"]
  /\ taken' = [taken EXCEPT ![t] = now]
  /\ expiry' = [expiry EXCEPT ![t] = at]
  /\ origin' = [origin EXCEPT ![t] = from]

GetInitial(t) ==
  /\ request[t] = "new" /\ Cardinality(Occupied) < Workers
  /\ IsFresh(Initial)
  /\ Sent(t, Initial, "session")
  /\ UNCHANGED <<gil, runtime, pc, kind, calls, now>>

GetStale(t) ==
  /\ request[t] = "new" /\ Cardinality(Occupied) < Workers
  /\ ~IsFresh(Initial)
  /\ request' = [request EXCEPT ![t] = "attach"]
  /\ UNCHANGED <<gil, runtime, pc, kind, taken, expiry, origin, calls, now>>

Attach(t) ==
  /\ request[t] = "attach" /\ gil = Free
  /\ gil' = ByRequest(t)
  /\ request' = [request EXCEPT ![t] = "callback"]
  /\ UNCHANGED <<runtime, pc, kind, taken, expiry, origin, calls, now>>

(* How fresh the callback's credentials are is not looked at, and they are *)
(* not kept.                                                               *)
CallbackReturns(t) ==
  /\ request[t] = "callback"
  /\ gil' = ReleasedByAttach(gil)
  /\ \E at \in {now + l : l \in Lifetimes} \cup {Never} : Sent(t, at, "callback")
  /\ UNCHANGED <<runtime, pc, kind, calls, now>>

CallbackRaises(t) ==
  /\ request[t] = "callback"
  /\ gil' = ReleasedByAttach(gil)
  /\ request' = [request EXCEPT ![t] = "ended"]
  /\ UNCHANGED <<runtime, pc, kind, taken, expiry, origin, calls, now>>

(* The store answers or fails, and the future may make another request. *)
Answered(t) ==
  /\ request[t] = "sent"
  /\ \E next \in {"new", "ended"} : request' = [request EXCEPT ![t] = next]
  /\ UNCHANGED <<gil, runtime, pc, kind, taken, expiry, origin, calls, now>>

LastAnswered(t) ==
  /\ request[t] = "sent"
  /\ request' = [request EXCEPT ![t] = "ended"]
  /\ UNCHANGED <<gil, runtime, pc, kind, taken, expiry, origin, calls, now>>

-----------------------------------------------------------------------------
(* block_on returns, and the call attaches again: to marshal the result    *)
(* or to raise.                                                            *)
Resume(t) ==
  /\ pc[t] = "blocked" /\ request[t] = "ended" /\ gil \in {Free, ByCall(t)}
  /\ gil' = ByCall(t)
  /\ request' = [request EXCEPT ![t] = "none"]
  /\ taken' = [taken EXCEPT ![t] = 0]
  /\ expiry' = [expiry EXCEPT ![t] = Never]
  /\ origin' = [origin EXCEPT ![t] = "session"]
  /\ Goto(t, "marshal")
  /\ UNCHANGED <<runtime, kind, calls, now>>

Return(t) ==
  /\ pc[t] = "marshal"
  /\ gil' = Free
  /\ Goto(t, "python")
  /\ UNCHANGED <<runtime, kind, request, taken, expiry, origin, calls, now>>

(* A request takes any time. *)
Tick ==
  /\ now < MaxTime
  /\ now' = now + 1
  /\ UNCHANGED <<gil, runtime, pc, kind, request, taken, expiry, origin, calls>>

CallStep(t) ==
  \/ Detach(t) \/ Build(t) \/ Built(t) \/ Handle(t) \/ BlockOn(t)
  \/ Resume(t) \/ Return(t)

RequestStep(t) ==
  \/ GetInitial(t) \/ GetStale(t) \/ Attach(t)
  \/ CallbackReturns(t) \/ CallbackRaises(t)

Next ==
  \/ \E t \in Threads : Call(t) \/ CallStep(t) \/ RequestStep(t) \/ Answered(t)
  \/ Tick

Fairness ==
  \A t \in Threads : /\ WF_vars(CallStep(t))
                     /\ WF_vars(RequestStep(t))
                     /\ SF_vars(LastAnswered(t))

Spec == Init /\ [][Next]_vars /\ Fairness

-----------------------------------------------------------------------------
(* The types of the variables; the GIL's holder is where it can hold it,   *)
(* and a request is pending exactly while its call is blocked on it.       *)
TypeOK ==
  /\ gil \in {Free} \cup {ByCall(t) : t \in Threads} \cup {ByRequest(t) : t \in Threads}
  /\ runtime \in {Absent, Up} \cup Threads
  /\ pc \in [Threads -> {"python", "detach", "runtime", "block_on", "blocked", "marshal"}]
  /\ kind \in [Threads -> Kinds]
  /\ request \in [Threads -> {"none", "new", "attach", "callback", "sent", "ended"}]
  /\ taken \in [Threads -> 0 .. MaxTime]
  /\ expiry \in [Threads -> Nat]
  /\ origin \in [Threads -> {"session", "callback"}]
  /\ calls \in [Threads -> 0 .. MaxCalls]
  /\ now \in 0 .. MaxTime
  /\ \A t \in Threads :
       /\ request[t] # "none" <=> pc[t] = "blocked"
       /\ gil = ByRequest(t) <=> request[t] = "callback"

(* A call is attached to the interpreter. *)
Attached(t) ==
  \/ pc[t] \in {"detach", "marshal"}
  \/ pc[t] = "runtime" /\ kind[t] = "revive"

(* Whoever others wait for can go on: a call that is attached holds the    *)
(* GIL and only that one does, so that none keeps it while it is blocked   *)
(* on its future, whose callback wants it; and who builds the runtime,     *)
(* with the GIL or without, is still inside handle() and waits for nobody. *)
(* (lib.rs:124-125, array.rs:331-332, 489-493, runtime.rs:33-41)           *)
NoWaitCycle ==
  \A t \in Threads :
    /\ gil = ByCall(t) <=> Attached(t)
    /\ runtime = t => pc[t] = "runtime"

(* Every call returns: no cycle of a call that holds the GIL, a future it  *)
(* blocks on, and a callback that wants the GIL; nor of the OnceLock and   *)
(* the GIL, which a revival waits for in the opposite order from an open.  *)
(* (lib.rs:124-136, 154-175, array.rs:331-338, 489-502, runtime.rs:33-41,  *)
(* py_credentials.rs:180-188)                                              *)
EveryCallReturns == \A t \in Threads : pc[t] # "python" ~> pc[t] = "python"

(* Credentials that expire while their request is on its way have lasted   *)
(* for the refresh buffer and longer, or the callback has handed them out: *)
(* those that came with the session are not used when they might not last, *)
(* however many requests and threads share them, and those of the callback *)
(* are not taken for the session's.  (py_credentials.rs:68-100, 177-217)   *)
ValidInFlight ==
  \A t \in Threads :
    request[t] = "sent" /\ now >= expiry[t] =>
      \/ now - taken[t] > Buffer
      \/ origin[t] = "callback"

=============================================================================
