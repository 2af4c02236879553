# A TLA+ model of rustytree

rustytree opens a Zarr v3 hierarchy, from a vanilla store or an icechunk
session, as an `xarray.DataTree`.  Rust walks the hierarchy and reads chunks;
Python is the xarray backend.  This directory holds TLA+ modules for the parts
with behaviour worth checking, TLC configurations, and TLAPS proofs.

Paths below are relative to the repository (`src/walk.rs` is the Rust source,
`backend.py` is `python/rustytree/backend.py`).  `PROJECT.json` maps each
definition to the lines it models, lists the hazards and what covers them.

## The system

| Component | State | Operations | Interacts with |
|---|---|---|---|
| dispatch, `walk.rs` | the semaphore of one call | `walk_recursive` | either walk, then the eager phase |
| vanilla walk, `walk.rs` | a tree of futures, the list of paths | `walk_via_zarrs`, `discover_paths`, `open_single`, `open_array_meta` | the object store and its other users |
| icechunk walk, `walk.rs` | a map of groups, one blocking task per parent | `walk_icechunk_session_snapshot` | the session's in-memory snapshot, the blocking pool |
| eager phase, `walk.rs` | the nodes, one read per small coordinate | `should_eager_fetch`, `fetch_all_elements`, `eager_phase` | runs after either walk, in the same call |
| glob, `glob.rs`, `backend.py` | none | `GlobPredicate`, `star_match`, `_filter_by_glob` | prunes both walks, then filters their result |
| dtype patch, `backend.py` | a module attribute of xarray | `_metadata_only_datetime_dtype` | every node decoded by any thread |
| lazy read, `_array.py`, `array.rs` | none between calls | `_raw_indexing_method`, `read_subset`, `slice_nd` | zarrs reads |
| orchestration, `backend.py` | the datasets of one call | `open_datatree`, `open_dataset` | the walk, once per open; xarray's `merge` |
| FFI boundary, `lib.rs`, `array.rs`, `runtime.rs`, `py_credentials.rs` | the GIL, a `OnceLock` runtime | `open_datatree`, `read_subset`, `_reopen_array_handle`, `get` | Python threads, runtime threads |
| pickling, `array.rs`, `store.rs`, `icechunk_store.rs`, `runtime.rs` | the handles of each process, pickles under way | `__reduce__`, `_reopen_array_handle`, `build_store_from_spec` | other processes, the repository's writers |
| source parsing and store construction, marshalling, dtype names, errors, node decoding | none | | not modelled, see the end |

What is hard in it: futures that share a permit count and wait for each other;
first-error semantics that drop siblings; a store that others write to during a
walk; tasks whose end order must not show, and that may panic; best-effort
reads; a global of another library replaced under other threads; several opens
that should look like one; a GIL, a `OnceLock` and a blocking call in one cycle;
handles that outlive the process, and maybe the snapshot, they came from; and
the arithmetic of chunks, slices and u64 products.

## Modules

| Module | Models | Uses |
|---|---|---|
| `Hierarchy` | paths, children, what a walk can reach | |
| `GroupWalk` | **abstract**: what any walk promises its caller | `Hierarchy` |
| `VanillaWalk` | the vanilla walk | `Hierarchy` |
| `IcechunkWalk` | the snapshot walk; implements `GroupWalk` | `Hierarchy` |
| `EagerPhase` | the actions of the eager phase | |
| `WalkRecursive` | **composition**: a whole call; implements `GroupWalk` | `VanillaWalk`, `EagerPhase`, `GroupWalk` |
| `GlobPrune` | predicate, filter, and Python's `match` as reference | |
| `DtypePatch` | the monkey-patch under threads | |
| `Alignment`, `ReadSubset` | one lazy read, element by element | |
| `OpenDatatree` | one `open_datatree(group=...)` over a repository with commits | |
| `GilBoundary` | calls from Python and the credentials callback | |
| `WorkerHandles` | handles pickled between processes that fork and die | |
| `*Proofs` | theorems about the module of that name; `WalkRecursiveProofs` has those about `VanillaWalk` too, `ReadSubsetProofs` those about `Alignment` | the module |
| `MC*` | the small instances TLC checks | |

### GroupWalk

The caller gets one answer.  The store may change while it is computed, so the
promise is stated with two history variables: `stable`, the nodes there all
along, and `ever`, those there at some moment.  A list has every stable walkable
group, nothing that was never there, parents before children, and each group
with its stable arrays; an error needs a reason of its kind.

What is walkable depends on the `source`.  A vanilla store is descended: what is
below a missing group is out of reach, and without the group asked for the call
answers `NotFound` (`walk.rs:60-85`).  A snapshot is listed whole: the call
answers the groups it holds, which may be none and need not include the one asked
for (`walk.rs:157-170`, `360-363`), never `NotFound`; but arrays whose group is
missing are an error (`Orphaning`, `walk.rs:350-358`), and a session may refuse
the path or fail to list its nodes (`AnswerRefused`, `walk.rs:235-250`).  What
Python makes of a list without the group asked for is `OpenDatatree`'s matter.

`WalkRecursive` and `IcechunkWalk` are checked against this specification by
refinement (`Promise == INSTANCE GroupWalk`), the latter with `stable` and `ever`
mapped to its fixed snapshot, whichever nodes that has.

### VanillaWalk

A group's future is `queued` (for a permit), `opening`, `listing`, `joining` or
`done`; the permit is held in `opening` and `listing` (`walk.rs:497-510`).
`ListKids` takes the listing, drops the permit, applies the glob and creates the
children's futures, which the code does with nothing awaited in between.  `Join`
is the end of `try_join_all`.  `JoinRoot` ends discovery and starts one
`open_single` per path, whose states are `opening`, `listing`, `arrays`; the
arrays it waits for are `AwaitedArrays`.  `Fail` is the first error: the call
returns and every future is dropped.  `Write` is another user of the store.
Listings are atomic and in any order; zarrs and the store decide them.

### IcechunkWalk

`Refuse` is a path `IcePath::new` does not take or a listing that fails
(`walk.rs:235-250`), which `refusal` decides for the session beforehand.  `Gather`
is the partition of `list_nodes` with both filters, `GatherFails` its early
return; one task per parent of a kept array is started and finished in any
order, with a batch, an error or a panic.  `try_join_all` sees an error of a task
as a value and a panic as a failure: `Joined` waits for every task, then errors
are looked for in path order (`BuildFails`), then parents that are not there
(`AttachFails`), then the arrays are attached; `JoinFails` ends the call at the
first panic, with the other tasks still running (`NoneLeftBehind` says that only
a panic can do that).  Paths are compared byte by byte, as the `BTreeMap` does,
so `"/a-b"` comes between `"/a"` and `"/a/c"`: parents come first, but the order
is not the pre-order traversal `walk.rs:360` calls it.  `PathBytes` joins the
spellings of a path's names with `"/"`, `Before` is the order of byte strings,
and `ByPath` puts each path at its rank.

### EagerPhase and WalkRecursive

`EagerPhase` has the actions of one phase over given nodes: `Begin` makes the
list of reads, `Acquire`, then `Fetched` or `Skipped` for each, and one `Assign`
at the end.  Element counts are computed modulo `Word`, which stands for 2^64,
with the caps scaled down.

`WalkRecursive` is a whole call.  For a vanilla store it takes the steps of
`VanillaWalk`, with others writing (`Overwrite`) until the call has returned; for
a session, whose walk takes no permits and sees no writes, it takes one step,
`Promised!Answer` of `GroupWalk`, which is what `IcechunkWalk` is shown to
implement, for sessions without a root group too.  (`SnapshotAnswers` enumerates
the candidates for TLC, `Promised!Answer` decides.)  An error is returned (`WalkFails`); a list goes through the eager
phase (`BeginEager`) under the same variable `permits`.  `Given` is what the
caller gets in the end: the refinement is about that, not about the walk alone,
so the eager phase may not fail a call or drop a node.

### GlobPrune

No state moves: a state is a pattern with a store.  `StarMatch`, `Segments`,
`CouldMatchSegments` translate the predicate; `Cursor` is the loop of
`star_match` that looks for the first occurrence of each middle piece
(`FindFrom` is `find`).  `FnMatch` and `PosixMatch` define what `fnmatch` and
`PurePosixPath.match` accept.  `Without` drops the segments that the predicate
(empty ones) and `PurePosixPath` (empty ones and `"."`) ignore.  A pattern with
`"["` is left out: like one with `"?"` it makes a predicate that keeps all.

### DtypePatch

Closures are numbered as they are made, 0 being xarray's own helper; `captured`
holds what each falls back to.  Reading the helper, installing the closure and
restoring are separate steps, because the GIL may change hands between them.
`overlapped` is a history variable.

### Alignment and ReadSubset

An element is its coordinates, so the result can be compared with what the key
selects.  `Translate` is `_raw_indexing_method`; `Reject`, `LookUpFails`, `Fetch`,
`FetchFails` are `read_subset`; `Copy` is one turn of the loop of `slice_nd`.
`LookUpFails` is the lookup of the chunk shape (`array.rs:279-284`), which comes
before the request is known to be empty; `gridded` of a request says whether the
array's grid has a first chunk.

### OpenDatatree

The groups on the way to the requested one form a chain, named by depth.  A
variable has a role, the dimension it lies along, the labels of that dimension it
has values for (positions, if the dimension has no index) and a stamp that stands
for the values; one along the dimension of its own name is the index.  `Call`,
`OpenTree`, one `OpenAncestor` per ancestor and the merge follow `open_datatree`;
`Commit` is another writer.  `View` says which snapshot an open reads: that of
the session for `"bytes"`, the branch tip of that moment for `"branch"`.

`Promoted` is `merge([...], compat="override")` (`backend.py:571`), whose join is
`"outer"`: the labels of a dimension's indexes are united (`Joint`), what lies
along the dimension without an index must have as many positions
(`Misaligned`), a name that is a coordinate here and data there is an error
(`Ambiguous`), and then an index wins over a variable without one and the first
dataset over the others (`Override`).  `Assembled` is `DataTree.from_dict`, which
wants a group aligned exactly with its ancestors.  `CoordsOfSlice` compares the
result with a slice of the full tree, and asks two things: that the full tree can
be opened at all, and that no name on the way is an index in one group and not in
another.  TLC finds the comparison false without either (see "Noticed").

What the data leaves out: labels are unique and their order does not matter; a
variable has one dimension at most; the NaN that fill a variable up to the joint
labels are not written into it, but read off from an `on` smaller than its
index's; the coordinates that `DataTree` does not repeat in a child are repeated;
and the root group always exists.  A path with two leading slashes, the root's
included, is not found or refused (`OpenTreeMisspelt`, `backend.py:214-221`,
`516-521`).

### GilBoundary

The GIL is held by a call, by a callback on a runtime thread, or by nobody.  An
open gets the runtime after it has detached (`lib.rs:124-125`), a revival before
(`array.rs:489-492`), a read has a handle already.  A request first gets
credentials; if those of the session are stale, it waits for the GIL and runs the
callback, which returns or raises.  `origin` tells the two apart: how fresh the
callback's are is not checked (`py_credentials.rs:186-187`), so they may have
expired already (`Lifetimes` has 0).  A request takes any time: the clock stops
for nobody.  What a client of the store does with credentials it has been given,
one request or several, is the one request here.

### WorkerHandles

A handle is the snapshot its store reads and, if it came from a session, the
snapshot its `ReopenSpec` bytes name (`store.rs:52-61`); a pickle is the latter
with the array's path.  Pickles stay in a set, so they may be lost, repeated and
delayed; `ReviveCorrupt` is one that arrives damaged.  Processes are spawned with
an empty `OnceLock`, or forked with a copy of the parent's, which is
`"orphaned"` when the parent had built it or was at it: the threads did not
come along (`runtime.rs:11-19`).  `Crash` ends a process at any step.  Commits
and expiry go on meanwhile.  An open or a revival first decodes the bytes
(`BadBytes` in a process with another icechunk), then makes requests that may
fail, then has its answer.  `Raised` has the exceptions of a request: a read turns
all into `ValueError`, a directory that cannot be opened is an `OSError`
(`store.rs:114-120`), the rest are `RuntimeError`s.  `origin` and `late` are history variables that the
properties read.

## Runs

| Run | Checks | Bounds, and why they are enough |
|---|---|---|
| `walk_recursive` | `TypeOK`, `PreOrder`, `WholeSemaphore`, `Structured`, `NeverStuck`, `OneSemaphore`, `ResidentWithinCaps`, `OwnValues`, `KeepsPromise`, `Terminates` | A vanilla store of five groups to depth two and two arrays, any part of them there at first; cap 2, less than the three levels, so a permit kept while joining gets stuck; one pruned branch, a faulty group and a faulty array, one write at any time of the call, reads that fail. Six sessions, with variables at and past every cap and counts that wrap, among them one without any node, one with `/a` and no root, and two with an array whose group is missing; either refusal. 66,519 states. |
| `vanilla_in_flight` | finds `TotalInFlightBounded` violated | the same store, without writes |
| `icechunk_walk` | `TypeOK`, `SameAnswerInAnyOrder`, `NoneLeftBehind`, `NoArrayLost`, `Terminates`, `KeepsPromise` | all 512 sets of nine nodes, those without the root or with missing parents too, each refused in either way or not; a corrupt group, a corrupt group that is pruned, corrupt arrays under two parents, so that two tasks fail, and an array whose build panics, alone or beside a corrupt one. 6,336 states. |
| `glob_filter` | `StarMatchIsFnMatch`, `NoFalseNegative`, `FilterAgrees` | all patterns of one segment of up to 4 characters over two letters and `*`, against all names of up to 4; all of up to 3 segments out of six kinds, with empty ones and `?`, absolute or not, against four trees of depth 3 |
| `glob_dot` | finds `NoFalseNegative` violated | the pattern `/a/./b` |
| `dtype_patch` | `TypeOK`, `FallsBackToOlder`, `RestoredIfAlone`, `NoPeekIfAlone` | three interchangeable threads, four nodes in all |
| `dtype_leak` | finds `RestoredWhenOut` violated | same |
| `read_subset` | `InBounds`, `ReadsWhatIsSelected`, `RaisesForAReason`, `WholeTouchedChunks` | on one axis of size 0, 1 or 5 every chunk size of note and every key from -6 to 6; two and three axes with chunks that do not divide them; a scalar; arrays that end exactly one chunk below the word, the last that do not wrap; an array without a first chunk, read in part and not at all. 8,513 states. |
| `open_tree` | `TypeOK`, `SnapshotPinned`, `CoordsOfSlice`, `MissingMeansMissing` | depth 2; seven contents of a group: none, an index, another with a coordinate along it, a coordinate along a dimension without an index, a scalar in either role, a scalar of the index's name; all initial trees of these, one commit of any groups at any moment, both sources, a relative and a doubled spelling. Alignment errors of the merge and of the tree, merge errors and joint indexes occur. 2,590,579 states. |
| `open_mixed` | finds `OneSnapshot` violated | same, paths only |
| `gil_boundary` | `TypeOK`, `NoWaitCycle`, `ValidInFlight`, `EveryCallReturns` | two threads, two calls each, one runtime thread, the least that could deadlock; the clock passes the moment the session's credentials go stale and the one they expire, and the callback may hand out expired ones. 111,144 states. |
| `worker_handles` | `TypeOK`, `ReadsPinned`, `StaysPicklable`, `RaisesForAReason`, `OnlyLateForksHang` | a client and a worker, one array, one commit or deletion, each process startable by spawn or fork; the client cannot read bytes and has failing requests, the worker has not, so an error there has an expired snapshot behind it. Two processes make any number of hops, because a revived handle can be sent back. 96,951 states. |

Bounds that are part of a module: `MaxWrites`, `MaxEntries`, `MaxCommits`,
`MaxCalls`, `MaxTime`.  `gil_boundary` turns deadlock checking off because its
threads stop after `MaxCalls`; every other module stutters explicitly once its
call has returned, or always has a next step, so that a deadlock is an error.

### Fairness

`WalkRecursive`, `VanillaWalk` and `IcechunkWalk` have weak fairness of the call
as a whole: requests are answered, by an error if need be, and `block_on` keeps
polling; a writer owes nothing.  `WorkerHandles` has weak fairness of each
process's call: none of a spawn, a crash, a commit or a pickle.  `GilBoundary`
has weak fairness of each call and each request (the interpreter hands the GIL
on, a finished closure releases it) and strong fairness of `LastAnswered`: a
future does not make requests forever.  Nothing is assumed of how often Python
calls; `MaxCalls` bounds it, and with it how long others can keep the GIL from a
thread.

### What the violations show

* **Requests in flight.**  `walk.rs:734-736` and `docs/architecture.md:118-119`
  say the semaphore caps all requests of the walk; the second phase takes no
  permits (`walk.rs:210`).  `lib.rs:70-72` has it right.
* **`"."` in a glob.**  `PurePosixPath` drops `"."` segments, `GlobPredicate`
  does not (`glob.rs:50-58`), so `/a/./b` loses `/a/b`: the false negative the
  module's comment rules out.
* **Patch left behind.**  Thread 1 enters, thread 2 enters, 1 leaves, 2 leaves
  and restores 1's closure (`backend.py:110`): xarray stays patched.  The closure
  works, so what is lost is the isolation of the patch, not a result.
* **Mixed snapshots.**  For a path source a commit between the opens gives a
  subtree of one snapshot under the ancestors of another.

Noticed while modelling, without a run:

* A session without a root group answers an empty tree, where a vanilla store
  raises `KeyError`: `walk.rs:63-66` says that the two agree because of Python's
  presence check, but `backend.py:516` makes an exception of the root.
* The merge does more than `backend.py:546-548` says ("new root wins over
  ancestors").  Its outer join unites indexes that differ and pads with NaN; an
  ancestor's index wins over a closer variable without one; and so
  `group=` opens parts of trees that cannot be opened in full, with coordinates
  no slice has.  It promotes the ancestors' data variables too, where
  `inherit="all_coords"` takes coordinates only (`backend.py:544-571`).
* `_normalize_literal_group` keeps exactly two leading slashes, as
  `PurePosixPath` does, although its docstring says it collapses runs
  (`backend.py:209-221`).  `"//a"` is refused or not found, and so is `"//"`,
  although the root is there: the exception `MissingMeansMissing` and
  `SnapshotPinned` make.
* Credentials a callback returns are used whatever their expiry
  (`py_credentials.rs:186-187`), and nothing bounds a request by the 180 seconds
  the session's are checked for.
* While opens overlap, a thread may meet xarray's own helper inside the context
  manager, and peek (`backend.py:54-65`).
* `stop.div_ceil(cs) * cs` (`array.rs:294`) wraps for an array that ends less than
  a chunk below 2^64, and the range read is then shorter than the one asked for.
  `ReadSubset` assumes this away, so nothing here would catch it.
* When a URL's options give `anon` and `skip_signature` different values, the one
  met later in a `HashMap`, whose order varies, decides (`store.rs:148`).

## Proofs

All theorems hold for every value of the constants, given the `ASSUME` of the
module, which TLC evaluates in each run.  Where an inductive invariant is named,
the proof has one step per action.

* `WalkRecursiveProofs`, the walk: permits.  The inductive invariant is `TypeOK
  /\ Balanced /\ Structured`, where `Balanced` is `PermitsConserved` in every
  phase (and what `OneSemaphore`, which the runs check, says before the eager
  phase).  None is inductive alone: the permit count needs the types to know that
  the future which takes or returns a permit is a group outside or inside the
  permit's window, and a join needs `Structured` to know which children it waits
  for.  `TypeCorrect`, `NoPermitLeaks` and `FuturesStructured` follow at once.
  `DiscoveryNeverStuck` adds one argument: when no request is in flight every
  permit is free, so a queued future could go on; when none is queued either,
  every future is joining or done.  The groups are finite, so there is a deepest
  joining one; its children are done (`Structured`), and it can join.
  `SemaphoreWhole`: the root joins last, because of all futures not done the
  shallowest has a parent that waits for it; so when discovery ends no future
  holds a permit.
* `WalkRecursiveProofs`, the walk: what it finds.  `WalkInv` follows the answer
  through the futures.  `Discovered`: a future runs for the root or for a group
  that was reachable at some moment; once it has listed, its children include
  every stable one; once done, what it hands up is in pre-order and lies between
  the stable part and the part ever seen of its subtree.  `Gathered` says the same
  of the futures of the second phase and the arrays they have listed, `Answered`
  that an answer is justified.  Others' writes can only shrink `stable` and grow
  `ever`, which makes each of these claims weaker, so they hold through writes; a
  join concatenates the lists of disjoint subtrees, which keeps pre-order
  (`FoundParentsFirst`, `CallFoundParentsFirst`).  `CallKeepsPromise` maps each
  step of a call, over either source, to a step of `GroupWalk`, whatever the
  source holds, the root group or not: the step that
  returns answers, a write is a write, all else stutters.  It takes in the eager
  phase: that neither drops a node nor turns an answer into an error.
* `WalkRecursiveProofs`, the call.  `CallInv` adds to the walk's invariant that
  no read is in flight while the call walks, and that the walk has returned once
  it reads.  Then `OneSemaphore` is the walk's balance before the eager phase, to
  which the walk's lemmas apply unchanged, and a balance of reads after it
  (`OneSemaphoreForBoth`, `CallNeverStuck`, `CallTypeCorrect`).  `ValuesLand`:
  reads that have ended hold the values of the variable they are for, and
  `Assign` puts each on that variable, no two reads being for the same.
  `CapsHold`: a variable chosen for an eager read is within the cap by a product
  taken modulo `Word`; it has at most one dimension, so that product is a single
  extent below `Word` and has not wrapped.  (Over more dimensions it may wrap, to
  a number below the cap; `MCWalkRecursive` has such shapes, and the limit on
  dimensions is what keeps them out.)
* `IcechunkWalkProofs`.  How a task ended tells what is in its batch, so once all
  have ended without a panic the error is a function of the session
  (`Deterministic`), and none is left running (`TasksJoined`).  `TypeCorrect` and
  `EveryArrayAttached` need that `ByPath` is a permutation of the kept groups,
  which it is because `Before` orders them totally: `"/"`-joined spellings tell
  paths apart and put an ancestor before its descendants, as no name is empty or
  contains a `"/"`.  `SnapshotKeepsPromise` asks nothing of
  the snapshot: the kept groups are by definition those that are walkable in it,
  the batch of a group is its child arrays, a batch with no group is what
  `Orphaning` is about, and each outcome of the walk, its refusals included, is
  one `GroupWalk` allows.
* `GilBoundaryProofs`.  The inductive invariant is the types, `NoWaitCycle`, that
  a read never asks for the runtime, and that the session's credentials
  in use were good for more than the buffer when they were taken (`Outlasts`).
  `NobodyWaitsInACycle` is the safety half of `EveryCallReturns`: the GIL is held by exactly the calls that are attached, none
  of which is blocked on a future, and the builder of the runtime is inside
  `handle()`, where it needs nothing.  `CredentialsOutlast` is `ValidInFlight`,
  of any buffer, any lifetimes of the callback's credentials and requests of any
  length: only a request longer than the buffer can see the session's expire.
* `WorkerHandlesProofs`.  The invariant traces each handle, wherever it is, to the
  snapshot of its open, which commits only ever leave alone (`PinnedEverywhere`,
  `PicklableForever`, `ErrorsHaveReasons`, `TypeCorrect`).
* `DtypePatchProofs`.  `NoCircularFallback`: the invariant adds the types of what
  each thread has read, as a helper a thread has read is already numbered, hence
  older than any closure still to be made.  `LeftAsFound` and `MetadataOnly` add
  that, as long as no two opens have overlapped, only the one inside can have
  replaced xarray's helper, and it remembers that very helper.
  `TypeCorrect` counts, against the bound on closures, the opens that have read
  the helper and not yet made theirs.
* `ReadSubsetProofs`.  `AlignedCovers`, from division lemmas; it assumes the
  array ends at least a chunk below 2^64, where `array.rs:294` would wrap.
  `ReadInv` (the ranges are the key's, none starts below zero) gives
  `OnlyTouchedChunks` and `ExceptionsHaveReasons`.  `CopyInv` says in addition
  that what is copied is the beginning of the answer, and that `slice_nd`'s index
  is the count of copied elements written in mixed radix with the extents as
  radices: the carry loop adds one to such a number, the strides are the weights
  of the digits, so the place an element is copied from lies inside the buffer
  (`NeverPastTheBuffer`) and holds the element row-major order has at that count
  (`ReadsTheSelection`).
* `GlobPruneProofs`.  `StarMatchCorrect`: of the sets `FnMatch` computes, the ends
  of a match up to a star are all places from the least one on; the greedy cursor
  stands on that least one, since the first occurrence of a piece is as good as
  any.  If the cursor is lost, all ends lie past the place where the last piece
  would have to start, and `fnmatch` rejects the name as well.  From this
  `PruningLosesNothing` and `FilterGivesTheSame`: a match lets all its prefixes
  through, so the walk reaches it through the ancestors.  Both are stated for
  patterns without a `"."` segment; `glob_dot` shows that they need it.
* `OpenDatatreeProofs`.  `PinnedAnswer`: what has been opened so far is what the
  pinned snapshot holds; commits append to the history and change no snapshot.
  `MissingIsTrue`: each open looks at a snapshot between the start of the call and
  the tip, so a group it did not find is missing from one of these; groups have
  their ancestors in every snapshot, so an ancestor that is gone takes the
  requested group along.  The root is in every snapshot, so it is missing only as
  `"//"`, which the theorem exempts.  `TypeCorrect` and `SliceInherits`: where the
  full tree can be opened its groups agree on every index, so the outer join of the
  merge has no labels to add and nothing to pad (`NothingPadded`), and, no index
  being shadowed, each name gets the variable of its closest holder, which is what
  a slice of the full tree inherits.

The provers cannot instantiate an induction principle over a predicate.  Where a
proof is by induction (on a depth, a length, a count), it is an induction on a
set, `SetInduction`: a set of numbers that has 0 and with each its successor has
them all.  Recursive functions are unfolded once, by a lemma that says that the
function exists (`Multiplied`, `Flattening` and the like).  The modules of the two
walks prove some lemmas about paths twice, because neither walk's module extends
the other.

What the assumptions ask of the constants, and why the code gives it:

* `Root` is in `Keep` (`IcechunkWalk`), because a glob and `group=` exclude each
  other (`backend.py:498-499`), so that a walk with a glob starts at `/`, which
  every glob keeps.  `VanillaWalk` does not need it.
* `Refusals` are the two errors of `walk.rs:235-250`.
* `Spelling` gives each name its own bytes, at least one and no `"/"`: path
  segments.
* `MetaOf` has extents below `Word` and as many dimension names as extents: `u64`
  shapes and what zarrs checks of `dimension_names`.
* `Contents` are well formed: the variables of a group agree on the labels of a
  dimension, as those of any `xarray.Dataset`, and an index is a coordinate.
* `Never` lies beyond the clock and the buffer, as it stands for no expiry at all.
* `Stores` of `GlobPrune` have a path's ancestors, and no name that is empty or
  `"."`: the walks list groups below groups, and Zarr excludes such names.
* `Requests` have positive chunk sizes and one key entry for each axis, as zarrs
  and xarray give them, and an array ends a chunk below the word: beyond that the
  code wraps (see above).

Every safety property of a passing run, and both refinements of `GroupWalk`, are
theorems.  Only model-checked is liveness (`Terminates` of both walks,
`EveryCallReturns`, `OnlyLateForksHang`): its proofs need fairness and ENABLED,
which are out of the prover's reach.

## Not modelled

* Store, zarrs, icechunk and xarray internals, which the modules use through what
  they promise.
* URL parsing and store construction (`url.rs`, most of `store.rs`).  They are a
  match from a string and a dict of options to an object of `object_store`,
  without state, order or failure of their own but a `ValueError`; a model would
  repeat the table.  Whether a local path holds a repository is decided anew at
  each open and is an input here (`source` of `WalkRecursive` and
  `WorkerHandles`).
* Session construction beyond which snapshot it reads and which error it raises
  (`icechunk_store.rs`): calls into icechunk.
* Marshalling of nodes, attributes and results (`lib.rs:200-349`), dtype names
  and the dispatch over element types (`dtype_dispatch.rs`): conversions and
  macros without control.  What is read, and in which order, is in `ReadSubset`.
* `error.rs`, a table from variants to Python exceptions, used by name.
* `_node_to_dataset` and `_RustyDataStore`: xarray's conventions decide the
  result.
* `group=` without `recursive` in the walks' runs (`Recursive = FALSE` is a
  parameter of both modules, and the proofs cover it).
* The session's read lock in `IcechunkWalk`: nothing takes it for writing.
* Several threads inside one process of `WorkerHandles`, and several processes in
  `GilBoundary`: each module has one of the two.

## What is left

`open_datatree` as a whole, `OpenDatatree` over `WalkRecursive`, whose promise is
the atomic `View` there; and more of the parts listed as partly modelled.
