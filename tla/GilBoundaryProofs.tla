--------------------------- MODULE GilBoundaryProofs ---------------------------
(***************************************************************************)
(* Theorems about GilBoundary, for any number of Python threads, runtime   *)
(* threads and calls, and any clock: the GIL has one holder, which never   *)
(* waits for anyone who waits for the GIL, and the session's credentials   *)
(* are sent only when they last for the refresh buffer.                    *)
(***************************************************************************)
EXTENDS GilBoundary, TLAPS

(* Credentials that came with the session last, from the moment a request  *)
(* took them, for the refresh buffer.                                      *)
Outlasts ==
  \A t \in Threads :
    request[t] = "sent" =>
      /\ taken[t] <= now
      /\ origin[t] = "session" => taken[t] + Buffer < expiry[t]

(* A read needs no runtime of its own: its handle has one. *)
ReadsHaveHandles ==
  \A t \in Threads : pc[t] = "runtime" => kind[t] # "read"

(* The inductive invariant. *)
IInv == TypeOK /\ NoWaitCycle /\ ReadsHaveHandles /\ Outlasts

(* The holders of the GIL are told apart. *)
LEMMA HoldersDiffer ==
  ASSUME NEW t \in Threads
  PROVE  /\ Free # ByCall(t) /\ Free # ByRequest(t)
         /\ \A u \in Threads :
              /\ ByCall(t) # ByRequest(u)
              /\ ByCall(t) = ByCall(u) => t = u
              /\ ByRequest(t) = ByRequest(u) => t = u
BY DEF Free, ByCall, ByRequest

-----------------------------------------------------------------------------
(* The initial states satisfy the inductive invariant. *)
LEMMA InitInv == Init => IInv
<1> SUFFICES ASSUME Init PROVE IInv
  OBVIOUS
<1>1. TypeOK
  BY HoldersDiffer, GilBoundaryAssumption
     DEF Init, TypeOK, Kinds, GilBoundaryAssumption
<1>2. NoWaitCycle
  BY HoldersDiffer, GilBoundaryAssumption
     DEF Init, NoWaitCycle, Attached, GilBoundaryAssumption
<1>3. Outlasts /\ ReadsHaveHandles
  BY DEF Init, Outlasts, ReadsHaveHandles
<1> QED
  BY <1>1, <1>2, <1>3 DEF IInv

(* A step of a call that sends no request and lets no time pass. *)
LEMMA OutlastsUnsent ==
  ASSUME IInv,
         \A t \in Threads : request'[t] = "sent" =>
           /\ request[t] = "sent" /\ taken'[t] = taken[t] /\ expiry'[t] = expiry[t]
           /\ origin'[t] = origin[t],
         now' = now
  PROVE  Outlasts'
BY DEF IInv, Outlasts

LEMMA CallInv ==
  ASSUME IInv, NEW t \in Threads, Call(t)
  PROVE  IInv'
<1> USE DEF IInv
<1>1. TypeOK'
  BY HoldersDiffer, GilBoundaryAssumption
     DEF TypeOK, Call, Goto, Kinds, GilBoundaryAssumption
<1>2. NoWaitCycle'
  BY HoldersDiffer, GilBoundaryAssumption
     DEF TypeOK, NoWaitCycle, Attached, Call, Goto, Kinds, GilBoundaryAssumption
<1>3. Outlasts'
  BY OutlastsUnsent DEF Call
<1>4. ReadsHaveHandles'
  BY DEF ReadsHaveHandles, TypeOK, Call, Goto
<1> QED
  BY <1>1, <1>2, <1>3, <1>4

(* Each step of a call under way. *)
LEMMA CallStepInv ==
  ASSUME IInv, NEW t \in Threads, CallStep(t)
  PROVE  IInv'
<1> USE DEF IInv
<1>1. CASE Detach(t)
  <2>1. TypeOK'
    BY <1>1, HoldersDiffer
       DEF TypeOK, NoWaitCycle, Attached, Detach, FreedByDetach, Goto
  <2>2. NoWaitCycle'
    BY <1>1, HoldersDiffer
       DEF TypeOK, NoWaitCycle, Attached, Detach, FreedByDetach, Goto, Kinds
  <2> QED
    BY <1>1, <2>1, <2>2, OutlastsUnsent DEF Detach, TypeOK, ReadsHaveHandles, Goto
<1>2. CASE Build(t)
  <2>1. TypeOK'
    BY <1>2 DEF TypeOK, Build
  <2>2. NoWaitCycle'
    BY <1>2 DEF NoWaitCycle, Attached, Build
  <2> QED
    BY <1>2, <2>1, <2>2, OutlastsUnsent DEF Build, TypeOK, ReadsHaveHandles
<1>3. CASE Built(t)
  <2>1. TypeOK'
    BY <1>3 DEF TypeOK, Built
  <2>2. NoWaitCycle'
    BY <1>3, GilBoundaryAssumption
       DEF NoWaitCycle, Attached, Built, GilBoundaryAssumption
  <2> QED
    BY <1>3, <2>1, <2>2, OutlastsUnsent DEF Built, TypeOK, ReadsHaveHandles
<1>4. CASE Handle(t)
  <2>1. TypeOK'
    BY <1>4 DEF TypeOK, Handle, Goto
  <2>2. kind[t] # "open" => kind[t] = "revive"
    BY <1>4 DEF TypeOK, Kinds, Handle, ReadsHaveHandles
  <2>3. NoWaitCycle'
    BY <1>4, <2>2, GilBoundaryAssumption
       DEF TypeOK, NoWaitCycle, Attached, Handle, Goto, GilBoundaryAssumption
  <2> QED
    BY <1>4, <2>1, <2>3, OutlastsUnsent DEF Handle, TypeOK, ReadsHaveHandles, Goto
<1>5. CASE BlockOn(t)
  <2>1. TypeOK'
    BY <1>5 DEF TypeOK, BlockOn, Goto
  <2>2. NoWaitCycle'
    BY <1>5 DEF TypeOK, NoWaitCycle, Attached, BlockOn, Goto
  <2> QED
    BY <1>5, <2>1, <2>2, OutlastsUnsent DEF BlockOn, TypeOK, ReadsHaveHandles, Goto
<1>6. CASE Resume(t)
  <2>1. TypeOK'
    BY <1>6, HoldersDiffer, GilBoundaryAssumption
       DEF TypeOK, Resume, Goto, GilBoundaryAssumption
  <2>2. NoWaitCycle'
    BY <1>6, HoldersDiffer DEF TypeOK, NoWaitCycle, Attached, Resume, Goto
  <2> QED
    BY <1>6, <2>1, <2>2, OutlastsUnsent DEF Resume, TypeOK, ReadsHaveHandles, Goto
<1>7. CASE Return(t)
  <2>1. TypeOK'
    BY <1>7, HoldersDiffer DEF TypeOK, NoWaitCycle, Attached, Return, Goto
  <2>2. NoWaitCycle'
    BY <1>7, HoldersDiffer DEF TypeOK, NoWaitCycle, Attached, Return, Goto
  <2> QED
    BY <1>7, <2>1, <2>2, OutlastsUnsent DEF Return, TypeOK, ReadsHaveHandles, Goto
<1> QED
  BY <1>1, <1>2, <1>3, <1>4, <1>5, <1>6, <1>7 DEF CallStep

(* A request is sent: if with the session's credentials, they last. *)
LEMMA SentOutlasts ==
  ASSUME IInv, NEW t \in Threads, NEW at \in Nat, NEW from, Sent(t, at, from),
         from = "session" => now + Buffer < at, now' = now
  PROVE  Outlasts'
<1>1. now \in Nat /\ Buffer \in Nat
  BY GilBoundaryAssumption DEF IInv, TypeOK, GilBoundaryAssumption
<1> SUFFICES ASSUME NEW u \in Threads, request'[u] = "sent"
             PROVE  /\ taken'[u] <= now
                    /\ origin'[u] = "session" => taken'[u] + Buffer < expiry'[u]
  BY DEF Outlasts
<1>2. CASE u = t
  BY <1>1, <1>2 DEF Sent, IInv, TypeOK
<1>3. CASE u # t
  BY <1>3 DEF Sent, IInv, TypeOK, Outlasts
<1> QED
  BY <1>2, <1>3

(* The session's credentials are sent while they are fresh. *)
LEMMA FreshLasts ==
  ASSUME IInv, NEW at \in Nat, IsFresh(at)
  PROVE  now + Buffer < at
BY GilBoundaryAssumption DEF IInv, TypeOK, IsFresh, GilBoundaryAssumption

(* Each step of a request before it is sent. *)
LEMMA RequestStepInv ==
  ASSUME IInv, NEW t \in Threads, RequestStep(t)
  PROVE  IInv'
<1> USE DEF IInv
<1>1. CASE GetInitial(t)
  <2>1. TypeOK'
    BY <1>1, GilBoundaryAssumption
       DEF TypeOK, GetInitial, Sent, GilBoundaryAssumption
  <2>2. NoWaitCycle'
    BY <1>1 DEF NoWaitCycle, Attached, GetInitial
  <2>3. Outlasts'
    BY <1>1, FreshLasts, SentOutlasts, GilBoundaryAssumption
       DEF GetInitial, GilBoundaryAssumption
  <2> QED
    BY <1>1, <2>1, <2>2, <2>3 DEF GetInitial, ReadsHaveHandles
<1>2. CASE GetStale(t)
  <2>1. TypeOK'
    BY <1>2 DEF TypeOK, GetStale
  <2>2. NoWaitCycle'
    BY <1>2 DEF NoWaitCycle, Attached, GetStale
  <2> QED
    BY <1>2, <2>1, <2>2, OutlastsUnsent
       DEF GetStale, TypeOK, ReadsHaveHandles
<1>3. CASE Attach(t)
  <2>1. TypeOK'
    BY <1>3, HoldersDiffer DEF TypeOK, Attach
  <2>2. NoWaitCycle'
    BY <1>3, HoldersDiffer DEF NoWaitCycle, Attached, Attach
  <2> QED
    BY <1>3, <2>1, <2>2, OutlastsUnsent
       DEF Attach, TypeOK, ReadsHaveHandles
<1>4. CASE CallbackReturns(t)
  <2>1. gil = ByRequest(t) /\ gil' = Free
    BY <1>4 DEF CallbackReturns, ReleasedByAttach, TypeOK
  <2>0. PICK at \in {now + l : l \in Lifetimes} \cup {Never} : Sent(t, at, "callback")
    BY <1>4 DEF CallbackReturns
  <2>4. at \in Nat
    BY GilBoundaryAssumption DEF TypeOK, GilBoundaryAssumption
  <2>2. TypeOK'
    BY <1>4, <2>0, <2>1, <2>4, HoldersDiffer DEF TypeOK, CallbackReturns, Sent
  <2>3. NoWaitCycle'
    BY <1>4, <2>1, HoldersDiffer DEF NoWaitCycle, Attached, CallbackReturns
  <2>5. Outlasts'
    BY <1>4, <2>0, <2>4, SentOutlasts DEF CallbackReturns
  <2> QED
    BY <1>4, <2>2, <2>3, <2>5 DEF CallbackReturns, ReadsHaveHandles
<1>5. CASE CallbackRaises(t)
  <2>1. gil = ByRequest(t) /\ gil' = Free
    BY <1>5 DEF CallbackRaises, ReleasedByAttach, TypeOK
  <2>2. TypeOK'
    BY <1>5, <2>1, HoldersDiffer DEF TypeOK, CallbackRaises
  <2>3. NoWaitCycle'
    BY <1>5, <2>1, HoldersDiffer DEF NoWaitCycle, Attached, CallbackRaises
  <2> QED
    BY <1>5, <2>2, <2>3, OutlastsUnsent
       DEF CallbackRaises, TypeOK, ReadsHaveHandles
<1> QED
  BY <1>1, <1>2, <1>3, <1>4, <1>5 DEF RequestStep

(* The store answers. *)
LEMMA AnsweredInv ==
  ASSUME IInv, NEW t \in Threads, Answered(t)
  PROVE  IInv'
<1> USE DEF IInv
<1>1. TypeOK'
  BY DEF TypeOK, Answered
<1>2. NoWaitCycle'
  BY DEF NoWaitCycle, Attached, Answered
<1> QED
  BY <1>1, <1>2, OutlastsUnsent
       DEF Answered, TypeOK, ReadsHaveHandles

(* The clock only moves on. *)
LEMMA TickInv ==
  ASSUME IInv, Tick
  PROVE  IInv'
<1> USE DEF IInv
<1>1. TypeOK'
  BY GilBoundaryAssumption DEF TypeOK, Tick, GilBoundaryAssumption
<1>2. NoWaitCycle'
  BY DEF NoWaitCycle, Attached, Tick
<1>3. Outlasts'
  BY GilBoundaryAssumption DEF TypeOK, Outlasts, Tick, GilBoundaryAssumption
<1> QED
  BY <1>1, <1>2, <1>3 DEF Tick, ReadsHaveHandles

-----------------------------------------------------------------------------
(* Every step keeps the inductive invariant. *)
LEMMA StepInv == IInv /\ [Next]_vars => IInv'
<1> SUFFICES ASSUME IInv, [Next]_vars PROVE IInv'
  OBVIOUS
<1>1. CASE UNCHANGED vars
  BY <1>1 DEF IInv, TypeOK, NoWaitCycle, Attached, ReadsHaveHandles, Outlasts,
         vars
<1> QED
  BY <1>1, CallInv, CallStepInv, RequestStepInv, AnsweredInv, TickInv DEF Next

LEMMA Invariance == Spec => []IInv
BY InitInv, StepInv, PTL DEF Spec

(* The state is well formed, and a callback runs exactly while its request *)
(* holds the GIL: py_credentials.rs:180-188.                               *)
THEOREM TypeCorrect == Spec => []TypeOK
<1>1. IInv => TypeOK
  BY DEF IInv
<1> QED
  BY <1>1, Invariance, PTL

(* Whoever holds the GIL or builds the runtime waits for nobody:           *)
(* lib.rs:124-125, array.rs:489-493, runtime.rs:33-41.                     *)
THEOREM NobodyWaitsInACycle == Spec => []NoWaitCycle
<1>1. IInv => NoWaitCycle
  BY DEF IInv
<1> QED
  BY <1>1, Invariance, PTL

(* Credentials that expire on the way outlasted the refresh buffer, or     *)
(* were the callback's, however long requests take and whatever the        *)
(* callback hands out: py_credentials.rs:68-100, 177-217.                  *)
THEOREM CredentialsOutlast == Spec => []ValidInFlight
<1>1. IInv => ValidInFlight
  BY GilBoundaryAssumption
     DEF IInv, TypeOK, Outlasts, ValidInFlight, GilBoundaryAssumption
<1> QED
  BY <1>1, Invariance, PTL

=============================================================================
