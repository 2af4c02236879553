------------------------------ MODULE GlobPrune ------------------------------
(***************************************************************************)
(* The glob of open_datatree(group_filter=): the prefix predicate the Rust *)
(* walkers prune with (src/src/glob.rs) and the filter Python applies to   *)
(* what they found (src/python/rustytree/backend.py).                      *)
(*                                                                         *)
(* A pattern is kept as its "/"-separated segments, empty ones included,   *)
(* after the leading "/" of an absolute one; a path as its names.  Both    *)
(* are sequences of characters, of which "*" and "?" are wildcards in a    *)
(* pattern; "[" is treated by the code as "?" is, and left out.            *)
(***************************************************************************)
EXTENDS Integers, FiniteSets, SequencesExt

CONSTANTS
  Patterns,  \* records [absolute, segments]
  Stores     \* the group trees a store may hold: sets of paths, each with
             \* all of its ancestors

ASSUME GlobPruneAssumption ==
  /\ \A p \in Patterns :
       /\ p.absolute \in BOOLEAN /\ p.segments \in Seq(Seq(STRING))
       /\ \A i \in DOMAIN p.segments : ~Contains(p.segments[i], "[")
  /\ \A S \in Stores : \A path \in S :
       /\ path \in Seq(Seq(STRING) \ {<<>>, <<".">>})
       /\ \A k \in 0 .. Len(path) : SubSeq(path, 1, k) \in S

VARIABLES pattern, tree

vars == <<pattern, tree>>

-----------------------------------------------------------------------------
(* The pieces of pattern.split('*') lie between the stars. *)
Stars(pat) == {i \in DOMAIN pat : pat[i] = "*"}
FirstPiece(pat) == SubSeq(pat, 1, Min(Stars(pat)) - 1)
LastPiece(pat) == SubSeq(pat, Max(Stars(pat)) + 1, Len(pat))
PieceBefore(pat, star) ==
  SubSeq(pat, Max({i \in Stars(pat) : i < star}) + 1, star - 1)

(* name[cursor..stop].find(piece), as the cursor just after it; -1 for none. *)
FindFrom(name, stop, cursor, piece) ==
  LET at == {i \in cursor .. stop - Len(piece) :
               SubSeq(name, i + 1, i + Len(piece)) = piece}
  IN  IF cursor = -1 \/ at = {} THEN -1 ELSE Min(at) + Len(piece)

(* The cursor after the middle pieces, each of which ends at a star. *)
Cursor(pat, name) ==
  LET stop == Len(name) - Len(LastPiece(pat))
      cursor[i \in 0 .. Len(pat)] ==
        IF i <= Min(Stars(pat)) THEN Len(FirstPiece(pat))
        ELSE IF pat[i] # "*" THEN cursor[i - 1]
        ELSE FindFrom(name, stop, cursor[i - 1], PieceBefore(pat, i))
  IN  cursor[Len(pat)]

(* star_match without the check that prefix and suffix do not overlap. *)
StarMatchOverlapping(pat, name) ==
  IF Stars(pat) = {} THEN pat = name
  ELSE /\ IsPrefix(FirstPiece(pat), name) /\ IsSuffix(LastPiece(pat), name)
       /\ Cursor(pat, name) # -1

(* star_match *)
StarMatch(pat, name) ==
  IF Stars(pat) = {} THEN pat = name
  ELSE /\ IsPrefix(FirstPiece(pat), name) /\ IsSuffix(LastPiece(pat), name)
       /\ Len(FirstPiece(pat)) + Len(LastPiece(pat)) <= Len(name)
       /\ Cursor(pat, name) # -1

(* GlobPredicate::parse: what can be pruned with, and the segments of it.  *)
Prunes(p) ==
  p.absolute /\ \A i \in DOMAIN p.segments : ~Contains(p.segments[i], "?")

SegmentsVerbatim(p) == p.segments

(* The segments but for those gone. *)
Without(segments, gone) ==
  LET kept[i \in 0 .. Len(segments)] ==
        IF i = 0 THEN <<>>
        ELSE IF segments[i] \in gone THEN kept[i - 1]
        ELSE Append(kept[i - 1], segments[i])
  IN  kept[Len(segments)]

Segments(p) == Without(p.segments, {<<>>})

(* could_descendant_match *)
CouldMatchSegments(segs, path) ==
  /\ Len(path) <= Len(segs)
  /\ \A i \in DOMAIN path : StarMatch(segs[i], path[i])

CouldDescendantMatch(p, path) ==
  Prunes(p) => CouldMatchSegments(Segments(p), path)

-----------------------------------------------------------------------------
(* The groups a walk from the root returns: those none of whose ancestors, *)
(* itself included, is pruned.  The root is never tested.                  *)
Walked ==
  {path \in tree :
     \A k \in 1 .. Len(path) : CouldDescendantMatch(pattern, SubSeq(path, 1, k))}

(* fnmatchcase(name, pat), by what the wildcards mean: ends[i] has the     *)
(* lengths of the beginnings of the name that the first i characters of    *)
(* the pattern can stand for.                                              *)
FnMatch(pat, name) ==
  LET ends[i \in 0 .. Len(pat)] ==
        IF i = 0 THEN {0}
        ELSE IF pat[i] = "*"
        THEN {j \in 0 .. Len(name) : \E k \in ends[i - 1] : k <= j}
        ELSE {j \in 1 .. Len(name) : j - 1 \in ends[i - 1] /\ pat[i] \in {"?", name[j]}}
  IN  Len(name) \in ends[Len(pat)]

(* PurePosixPath(path).match(pattern).  Empty and "." segments go, and a   *)
(* pattern that starts with exactly two slashes has a root of its own,     *)
(* which no path has.  An absolute pattern matches the whole path; a       *)
(* relative one its last parts, of which the root "/" is the first.        *)
PosixParts(p) == Without(p.segments, {<<>>, <<".">>})

DoubleSlash(p) ==
  /\ p.absolute /\ Len(p.segments) > 1 /\ p.segments[1] = <<>>
  /\ Len(p.segments) = 2 \/ p.segments[2] # <<>>

PosixMatch(p, path) ==
  LET parts == PosixParts(p)
      whole == IF p.absolute THEN path ELSE <<<<"/">>>> \o path
      skip == Len(whole) - Len(parts)
  IN  /\ ~DoubleSlash(p)
      /\ IF p.absolute THEN skip = 0 ELSE skip >= 0 /\ parts # <<>>
      /\ \A i \in DOMAIN parts : FnMatch(parts[i], whole[skip + i])

(* _filter_by_glob: what matches, with every ancestor that was walked. *)
MatchesOnly(S, matched) == matched

WithAncestors(S, matched) ==
  {path \in S : \E q \in matched : IsPrefix(path, q)}

Filtered(S) == WithAncestors(S, {path \in S : PosixMatch(pattern, path)})

-----------------------------------------------------------------------------
(* One state per pattern and store: nothing moves. *)
Init == pattern \in Patterns /\ tree \in Stores

Next == UNCHANGED vars

Spec == Init /\ [][Next]_vars

-----------------------------------------------------------------------------
(* star_match agrees with fnmatch on every "*" pattern and name.           *)
(* (glob.rs:97-131)                                                        *)
StarMatchIsFnMatch ==
  \A i \in DOMAIN pattern.segments : \A path \in tree : \A j \in DOMAIN path :
    Prunes(pattern) =>
      (StarMatch(pattern.segments[i], path[j]) <=>
         FnMatch(pattern.segments[i], path[j]))

(* Pruning loses nothing: no group Python's filter accepts, nor one on the *)
(* way to it, is skipped by the walk.  (glob.rs:9-16)                      *)
NoFalseNegative ==
  \A path \in tree : PosixMatch(pattern, path) => path \in Walked

(* What the user gets is the same as if the walk had not pruned at all,    *)
(* with all the ancestors of what matched, so that from_dict sees a tree.  *)
(* (glob.rs:9-16, backend.py:319-330)                                      *)
FilterAgrees ==
  /\ Filtered(Walked) = Filtered(tree)
  /\ \A path \in Filtered(Walked) : \A k \in 0 .. Len(path) :
       SubSeq(path, 1, k) \in Filtered(Walked)

=============================================================================
