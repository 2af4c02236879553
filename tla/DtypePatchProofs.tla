-------------------------- MODULE DtypePatchProofs --------------------------
(***************************************************************************)
(* Theorems about DtypePatch, for any number of threads and of opens: the  *)
(* state is well formed, closures never fall back in a circle, and opens   *)
(* that do not overlap leave xarray as it was and read no chunk.           *)
(***************************************************************************)
EXTENDS DtypePatch, FiniteSetTheorems, TLAPS

(* The inductive invariant. *)
Typed ==
  /\ captured \in Seq(Nat)
  /\ helper \in Helpers
  /\ pc \in [Threads -> {"out", "read", "inside"}]
  /\ original \in [Threads -> Helpers]

IInv == Typed /\ FallsBackToOlder

(* The initial state. *)
LEMMA InitInv == Init => IInv
<1> SUFFICES ASSUME Init PROVE IInv
  OBVIOUS
<1>1. captured = <<>> /\ Len(captured) = 0
  BY DEF Init
<1>2. 0 \in Helpers
  BY <1>1 DEF Helpers
<1>3. Typed
  BY <1>1, <1>2 DEF Init, Typed, Xarray
<1>4. FallsBackToOlder
  BY <1>1 DEF FallsBackToOlder
<1> QED
  BY <1>3, <1>4 DEF IInv

(* Entering remembers a helper that exists. *)
LEMMA ReadInv ==
  ASSUME IInv, NEW t \in Threads, Read(t)
  PROVE  IInv'
BY DEF IInv, Typed, FallsBackToOlder, Helpers, Read

(* The new closure is younger than every helper there is, the one it falls *)
(* back to among them.                                                     *)
LEMMA InstallInv ==
  ASSUME IInv, NEW t \in Threads, Install(t)
  PROVE  IInv'
<1> DEFINE n == Len(captured)
<1>1. n \in Nat /\ original[t] \in 0 .. n
  BY DEF IInv, Typed, Helpers
<1>2. /\ captured' = Append(captured, original[t]) /\ helper' = n + 1
      /\ pc' = [pc EXCEPT ![t] = "inside"] /\ original' = original
  BY DEF Install, MakeClosure, Capture, Installed
<1>3. /\ captured' \in Seq(Nat) /\ Len(captured') = n + 1
      /\ \A i \in 1 .. n : captured'[i] = captured[i]
      /\ captured'[n + 1] = original[t]
  BY <1>1, <1>2 DEF IInv, Typed
<1>4. 0 .. n \subseteq Helpers' /\ n + 1 \in Helpers'
  BY <1>1, <1>3 DEF Helpers
<1>5. Typed'
  BY <1>2, <1>3, <1>4 DEF IInv, Typed, Helpers
<1>6. ASSUME NEW i \in DOMAIN captured'
      PROVE  captured'[i] < i
  <2>1. i \in 1 .. n + 1
    BY <1>3, <1>6
  <2>2. CASE i \in 1 .. n
    BY <1>3, <2>2 DEF IInv, Typed, FallsBackToOlder
  <2>3. CASE i = n + 1
    BY <1>1, <1>3, <2>3
  <2> QED
    BY <1>1, <2>1, <2>2, <2>3
<1> QED
  BY <1>5, <1>6 DEF IInv, FallsBackToOlder

(* Leaving puts back a helper that exists. *)
LEMMA ExitInv ==
  ASSUME IInv, NEW t \in Threads, Exit(t)
  PROVE  IInv'
BY DEF IInv, Typed, FallsBackToOlder, Helpers, Exit, Restored

(* Every step keeps the inductive invariant. *)
LEMMA StepInv == IInv /\ [Next]_vars => IInv'
<1> SUFFICES ASSUME IInv, [Next]_vars PROVE IInv'
  OBVIOUS
<1>1. ASSUME NEW t \in Threads, NEW m \in BOOLEAN, Decode(t, m)
      PROVE  IInv'
  BY <1>1 DEF IInv, Typed, FallsBackToOlder, Helpers, Decode
<1>2. CASE UNCHANGED vars
  BY <1>2 DEF IInv, Typed, FallsBackToOlder, Helpers, vars
<1> QED
  BY <1>1, <1>2, ReadInv, InstallInv, ExitInv DEF Next, AllDone

(* No interleaving of opens makes the fallbacks circular, so a malformed   *)
(* variable reaches xarray's own helper: backend.py:66-68, 103-110.        *)
THEOREM NoCircularFallback == Spec => []FallsBackToOlder
<1>1. IInv => FallsBackToOlder
  BY DEF IInv
<1> QED
  BY <1>1, InitInv, StepInv, PTL DEF Spec

-----------------------------------------------------------------------------
(***************************************************************************)
(* Opens that do not overlap: while one is under way nobody else is, it    *)
(* has found xarray's own helper, and inside the context manager a closure *)
(* stands in for it.                                                       *)
(***************************************************************************)
Alone ==
  ~overlapped =>
    /\ (\A t \in Threads : pc[t] = "out") => helper = Xarray
    /\ \A t \in Threads :
         /\ called[t] # "peek"
         /\ pc[t] # "out" =>
              /\ original[t] = Xarray
              /\ \A u \in Threads \ {t} : pc[u] = "out"
         /\ pc[t] = "inside" => helper # Xarray

CalledTyped ==
  called \in [Threads -> {"nothing", "metadata", "fallback", "peek"}]

AloneInv == IInv /\ CalledTyped /\ Alone

LEMMA InitAlone == Init => AloneInv
BY InitInv DEF Init, AloneInv, CalledTyped, Alone

LEMMA StepAlone == AloneInv /\ [Next]_vars => AloneInv'
<1> SUFFICES ASSUME AloneInv, [Next]_vars PROVE AloneInv'
  OBVIOUS
<1>1. IInv'
  BY StepInv DEF AloneInv
<1>2. ASSUME NEW t \in Threads, Read(t)
      PROVE  CalledTyped' /\ Alone'
  BY <1>2 DEF AloneInv, IInv, Typed, CalledTyped, Alone, Read, Busy
<1>3. ASSUME NEW t \in Threads, Install(t)
      PROVE  CalledTyped' /\ Alone'
  <2>1. helper' # Xarray
    BY <1>3 DEF AloneInv, IInv, Typed, Install, Installed, Xarray
  <2> QED
    BY <1>3, <2>1 DEF AloneInv, IInv, Typed, CalledTyped, Alone, Install
<1>4. ASSUME NEW t \in Threads, Exit(t)
      PROVE  CalledTyped' /\ Alone'
  BY <1>4 DEF AloneInv, IInv, Typed, CalledTyped, Alone, Exit, Restored
<1>5. ASSUME NEW t \in Threads, NEW m \in BOOLEAN, Decode(t, m)
      PROVE  CalledTyped' /\ Alone'
  BY <1>5 DEF AloneInv, IInv, Typed, CalledTyped, Alone, Decode
<1>6. CASE UNCHANGED vars
  BY <1>1, <1>6 DEF AloneInv, CalledTyped, Alone, vars
<1> QED
  BY <1>1, <1>2, <1>3, <1>4, <1>5, <1>6 DEF AloneInv, Next, AllDone

LEMMA AloneAlways == Spec => []AloneInv
BY InitAlone, StepAlone, PTL DEF Spec

(* Opens that do not overlap leave xarray as they found it:                *)
(* backend.py:106-110.                                                     *)
THEOREM LeftAsFound == Spec => []RestoredIfAlone
<1>1. AloneInv => RestoredIfAlone
  BY DEF AloneInv, Alone, RestoredIfAlone
<1> QED
  BY <1>1, AloneAlways, PTL

(* They read no chunk for a well-formed time variable:                     *)
(* backend.py:54-65, 82-104.                                               *)
THEOREM MetadataOnly == Spec => []NoPeekIfAlone
<1>1. AloneInv => NoPeekIfAlone
  BY DEF AloneInv, Alone, NoPeekIfAlone
<1> QED
  BY <1>1, AloneAlways, PTL

-----------------------------------------------------------------------------
(***************************************************************************)
(* The bound on the opens counts those that have read the helper and are   *)
(* still to make their closure.                                            *)
(***************************************************************************)
Reading == {u \in Threads : pc[u] = "read"}

Bounded == Len(captured) + Cardinality(Reading) <= MaxEntries

(* A finite set of threads is counted. *)
LEMMA Counted ==
  ASSUME NEW S \in SUBSET Threads
  PROVE  IsFiniteSet(S) /\ Cardinality(S) \in Nat
BY DtypePatchAssumption, FS_Subset, FS_CardinalityType

LEMMA StepBounded == AloneInv /\ Bounded /\ [Next]_vars => Bounded'
<1> SUFFICES ASSUME AloneInv, Bounded, [Next]_vars PROVE Bounded'
  OBVIOUS
<1>1. /\ pc \in [Threads -> {"out", "read", "inside"}]
      /\ captured \in Seq(Nat) /\ Len(captured) \in Nat
      /\ IsFiniteSet(Reading) /\ Cardinality(Reading) \in Nat
      /\ MaxEntries \in Nat
  BY Counted, DtypePatchAssumption DEF AloneInv, IInv, Typed, Reading
<1>2. ASSUME NEW t \in Threads, Read(t)
      PROVE  Bounded'
  <2>1. Reading' = Reading \cup {t} /\ t \notin Reading /\ captured' = captured
    BY <1>1, <1>2 DEF Read, Reading
  <2>2. Cardinality(Reading') = Cardinality(Reading) + 1
    BY <1>1, <2>1, FS_AddElement
  <2> QED
    BY <1>1, <1>2, <2>1, <2>2 DEF Read, Reading, Bounded
<1>3. ASSUME NEW t \in Threads, Install(t)
      PROVE  Bounded'
  <2>1. Reading' = Reading \ {t} /\ t \in Reading
    BY <1>1, <1>3 DEF Install, Reading
  <2>2. Cardinality(Reading') = Cardinality(Reading) - 1
    BY <1>1, <2>1, FS_RemoveElement
  <2>3. Len(captured') = Len(captured) + 1
    BY <1>1, <1>3 DEF Install, MakeClosure
  <2> QED
    BY <1>1, <2>2, <2>3 DEF Bounded
<1>4. ASSUME NEW t \in Threads, Exit(t)
      PROVE  Bounded'
  BY <1>1, <1>4 DEF Exit, Bounded, Reading
<1>5. ASSUME NEW t \in Threads, NEW m \in BOOLEAN, Decode(t, m)
      PROVE  Bounded'
  BY <1>5 DEF Decode, Bounded, Reading
<1>6. CASE UNCHANGED vars
  BY <1>6 DEF vars, Bounded, Reading
<1> QED
  BY <1>2, <1>3, <1>4, <1>5, <1>6 DEF Next, AllDone

LEMMA InitBounded == Init => Bounded
<1> SUFFICES ASSUME Init PROVE Bounded
  OBVIOUS
<1>1. Reading = {} /\ Len(captured) = 0
  BY DEF Init, Reading
<1> QED
  BY <1>1, FS_EmptySet, DtypePatchAssumption DEF Bounded

Witnessed == overlapped \in BOOLEAN

LEMMA StepWitnessed == Witnessed /\ [Next]_vars => Witnessed'
BY DEF Witnessed, Next, Read, Install, Exit, Decode, AllDone, vars

(* The state is well formed, and the closures made are within the bound:   *)
(* backend.py:82-110.                                                      *)
THEOREM TypeCorrect == Spec => []TypeOK
<1>1. AloneInv /\ Bounded /\ Witnessed => TypeOK
  <2> SUFFICES ASSUME AloneInv, Bounded, Witnessed PROVE TypeOK
    OBVIOUS
  <2>1. Cardinality(Reading) \in Nat /\ Len(captured) \in Nat
    BY Counted DEF AloneInv, IInv, Typed, Reading
  <2>2. Len(captured) <= MaxEntries
    BY <2>1, DtypePatchAssumption DEF Bounded
  <2> QED
    BY <2>2 DEF AloneInv, IInv, Typed, CalledTyped, Witnessed, TypeOK
<1>2. Init => Witnessed
  BY DEF Init, Witnessed
<1> QED
  BY <1>1, <1>2, InitBounded, StepBounded, StepWitnessed, AloneAlways, PTL DEF Spec

=============================================================================
