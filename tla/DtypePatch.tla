------------------------------ MODULE DtypePatch ------------------------------
(***************************************************************************)
(* _metadata_only_datetime_dtype of src/python/rustytree/backend.py: the   *)
(* context manager that, while a node is decoded, replaces xarray's        *)
(* module-level helper _decode_cf_datetime_dtype by a closure that infers  *)
(* the dtype without reading data and falls back to the helper it found.   *)
(*                                                                         *)
(* The helper is a global of the process and nothing guards it, so the     *)
(* opens of several Python threads interleave between any two bytecodes:   *)
(* between reading the helper and installing the closure, and during the   *)
(* body.                                                                   *)
(***************************************************************************)
EXTENDS Naturals, Sequences, FiniteSets

CONSTANTS
  Threads,    \* the threads that open trees
  MaxEntries  \* bound on the nodes decoded in all

ASSUME DtypePatchAssumption == IsFiniteSet(Threads) /\ MaxEntries \in Nat

VARIABLES
  captured,   \* the closures made so far: what each found as the helper
  helper,     \* what xarray's module attribute holds now
  pc,         \* where each thread is
  original,   \* the helper each thread read on entering
  called,     \* what the thread's last time variable met
  overlapped  \* whether two threads were ever inside at once

vars == <<captured, helper, pc, original, called, overlapped>>

(* The i-th closure is i, and xarray's own helper is 0. *)
Xarray == 0
Helpers == 0 .. Len(captured)

-----------------------------------------------------------------------------
Init ==
  /\ captured = <<>>
  /\ helper = Xarray
  /\ pc = [t \in Threads |-> "out"]
  /\ original = [t \in Threads |-> Xarray]
  /\ called = [t \in Threads |-> "nothing"]
  /\ overlapped = FALSE

Busy(t) == \E u \in Threads \ {t} : pc[u] # "out"

(* original = getattr(_xtimes, "_decode_cf_datetime_dtype", None) *)
Read(t) ==
  /\ pc[t] = "out"
  /\ Len(captured) + Cardinality({u \in Threads : pc[u] = "read"}) < MaxEntries
  /\ original' = [original EXCEPT ![t] = helper]
  /\ pc' = [pc EXCEPT ![t] = "read"]
  /\ overlapped' = (overlapped \/ Busy(t))
  /\ UNCHANGED <<captured, helper, called>>

(* def patched: the closure remembers the helper it found. *)
CaptureByName(t) == Len(captured) + 1

Capture(t) == original[t]

ClosureDropped(t) == captured

MakeClosure(t) == Append(captured, Capture(t))

(* _xtimes._decode_cf_datetime_dtype = patched, and the body begins. *)
NotInstalled(t) == helper

Installed(t) == Len(captured) + 1

Install(t) ==
  /\ pc[t] = "read"
  /\ captured' = MakeClosure(t)
  /\ helper' = Installed(t)
  /\ pc' = [pc EXCEPT ![t] = "inside"]
  /\ called' = [called EXCEPT ![t] = "nothing"]
  /\ UNCHANGED <<original, overlapped>>

(* The body decodes a time variable: xarray calls whatever is the helper.  *)
(* A closure answers from metadata unless the units are malformed, and     *)
(* then falls back, in the end to xarray's own, which reads the chunks.    *)
Decode(t, malformed) ==
  /\ pc[t] = "inside"
  /\ called' = [called EXCEPT ![t] =
                  IF malformed THEN "fallback"
                  ELSE IF helper = Xarray THEN "peek" ELSE "metadata"]
  /\ UNCHANGED <<captured, helper, pc, original, overlapped>>

(* finally: the helper found on entering is put back, error or not. *)
LeftInstalled(t) == helper

Restored(t) == original[t]

Exit(t) ==
  /\ pc[t] = "inside"
  /\ helper' = Restored(t)
  /\ pc' = [pc EXCEPT ![t] = "out"]
  /\ UNCHANGED <<captured, original, called, overlapped>>

(* Every open has been made and has returned. *)
AllDone ==
  /\ Len(captured) = MaxEntries
  /\ \A t \in Threads : pc[t] = "out"
  /\ UNCHANGED vars

Next ==
  \/ \E t \in Threads :
       \/ Read(t) \/ Install(t) \/ Exit(t)
       \/ \E malformed \in BOOLEAN : Decode(t, malformed)
  \/ AllDone

Spec == Init /\ [][Next]_vars

-----------------------------------------------------------------------------
(* The state is well formed: backend.py:82-110. *)
TypeOK ==
  /\ captured \in Seq(Nat) /\ Len(captured) <= MaxEntries
  /\ helper \in Helpers
  /\ pc \in [Threads -> {"out", "read", "inside"}]
  /\ original \in [Threads -> Helpers]
  /\ called \in [Threads -> {"nothing", "metadata", "fallback", "peek"}]
  /\ overlapped \in BOOLEAN

(* However the opens interleave, a closure falls back to an older helper,  *)
(* so that a chain of them ends at xarray's own: a malformed variable gets *)
(* xarray's error and never an endless recursion.  (backend.py:66-68,      *)
(* 103-104)                                                                *)
FallsBackToOlder == \A i \in DOMAIN captured : captured[i] < i

(* Opens that do not overlap leave xarray as they found it.                *)
(* (backend.py:106-110)                                                    *)
RestoredIfAlone ==
  ~overlapped /\ (\A t \in Threads : pc[t] = "out") => helper = Xarray

(* Opens that do not overlap read no chunk for a well-formed time          *)
(* variable.  (backend.py:54-65, 82-104)                                   *)
NoPeekIfAlone == ~overlapped => \A t \in Threads : called[t] # "peek"

(* xarray is patched only while some open is inside the context manager,   *)
(* which docs/architecture.md:232-235 takes for granted.                   *)
(* (backend.py:106-110)                                                    *)
RestoredWhenOut == (\A t \in Threads : pc[t] = "out") => helper = Xarray

=============================================================================
