----------------------------- MODULE ReviewDiff -----------------------------
(***************************************************************************)
(* The structural difference that a review of a manifest shows             *)
(* (internal/resourcecatalog/dryrundiff.go).                               *)
(*                                                                         *)
(* The object as it is and the object as it would be lose what the server  *)
(* owns and what must not be shown, and are then compared value by value.  *)
(* Of the changes only the first few, by path, are kept; they are sorted   *)
(* in while the walk goes on, so what is kept at any time is bounded.      *)
(*                                                                         *)
(* A value is a leaf, a map or a list.  A path is the sequence of its      *)
(* segments, numbered in the order of their names: the rendering of a path *)
(* is meant to be injective.  Left out: the length of a path and of a      *)
(* rendered value.                                                         *)
(***************************************************************************)
EXTENDS SequencesExt, Functions, FiniteSetsExt, TLC

CONSTANTS
    ObjectsBefore, ObjectsAfter,     \* the objects compared: maps
    NameKey,           \* the key "name"
    AnnotationsKey,
    VolatileKeys,      \* what the server owns: status, resourceVersion...
    SecretKeys,        \* fields of the object that are never shown
    SensitiveNotes,    \* annotations that are never shown
    MaxChanges,        \* MaxDryRunChanges
    MaxDiffDepth,
    MaxDiffNodes

VARIABLES
    current, patched,  \* the two objects
    review             \* what is shown, or "asked" or "refused"

diffVars == <<current, patched, review>>

Leaf(n) == [kind |-> "leaf", leaf |-> n]
Map(f) == [kind |-> "map", at |-> f]
List(s) == [kind |-> "list", items |-> s]
NothingThere == Leaf(0)   \* no rendered value

-----------------------------------------------------------------------------
\* What is taken out before the comparison.
Keys(v) == IF v.kind = "map" THEN DOMAIN v.at ELSE {}
WithoutKeys(v, keys) == Map(Restrict(v.at, Keys(v) \ keys))

\* collectSensitive: the values that will be taken out, by path.
Notes(v) == IF AnnotationsKey \in Keys(v) THEN v.at[AnnotationsKey] ELSE Map(<<>>)
CollectSensitive(v) ==
    [p \in {<<k>> : k \in Keys(v) \cap SecretKeys} |-> v.at[p[1]]]
        @@ [p \in {<<AnnotationsKey, k>> : k \in Keys(Notes(v)) \cap SensitiveNotes}
              |-> Notes(v).at[p[2]]]

\* sanitize: the last annotation takes the map of annotations with it.
SanitizeNotes(v) ==
    LET kept == WithoutKeys(Notes(v), SensitiveNotes)
    IN CASE Keys(kept) = Keys(Notes(v)) -> v
         [] Keys(kept) = {} -> WithoutKeys(v, {AnnotationsKey})
         [] OTHER -> Map([v.at EXCEPT ![AnnotationsKey] = kept])
Sanitized(v) == SanitizeNotes(WithoutKeys(v, VolatileKeys \cup SecretKeys))

-----------------------------------------------------------------------------
\* The collector: the first changes by path, and how many there are.
PathBefore(p, q) ==
    \/ IsStrictPrefix(p, q)
    \/ \E i \in DOMAIN p \cap DOMAIN q : p[i] < q[i] /\ SubSeq(p, 1, i - 1) = SubSeq(q, 1, i - 1)

ChangeAt(path, op, before, after) == [path |-> path, op |-> op, before |-> before, after |-> after]

EmitWhileRoom(c, ch) ==
    IF c.failed THEN c
    ELSE [c EXCEPT !.total = @ + 1,
                   !.changes = IF Len(@) >= MaxChanges THEN @
                               ELSE SelectSeq(@, LAMBDA x : PathBefore(x.path, ch.path))
                                        \o <<ch>> \o SelectSeq(@, LAMBDA x : ~PathBefore(x.path, ch.path))]
Emit(c, ch) ==
    LET full == Len(c.changes) >= MaxChanges
        kept == IF full THEN Front(c.changes) ELSE c.changes
        below == SelectSeq(kept, LAMBDA x : PathBefore(x.path, ch.path))
    IN CASE c.failed -> c
         [] ~c.failed /\ full /\ ~PathBefore(ch.path, Last(c.changes).path) ->
              [c EXCEPT !.total = @ + 1]
         [] OTHER -> [c EXCEPT !.total = @ + 1,
                               !.changes = below \o <<ch>>
                                               \o SubSeq(kept, Len(below) + 1, Len(kept))]

-----------------------------------------------------------------------------
\* indexByName: the items of a list by their names, if all have one of their own.
IsNamed(items) == /\ items # <<>>
                  /\ \A i \in DOMAIN items : /\ NameKey \in Keys(items[i])
                                             /\ items[i].at[NameKey].kind = "leaf"
                  /\ \A i, j \in DOMAIN items :
                        items[i].at[NameKey] = items[j].at[NameKey] => i = j
NamesOf(items) == {items[i].at[NameKey].leaf : i \in DOMAIN items}
ByName(items) ==
    [n \in NamesOf(items) |->
        items[CHOOSE i \in DOMAIN items : items[i].at[NameKey].leaf = n]]

\* The parts of two values, by segment, if they are compared part by part.
PartsOfBoth(b, a) ==
    CASE b.kind = "map" -> <<b.at, a.at>>
      [] b.kind = "list" /\ IsNamed(b.items) /\ IsNamed(a.items) ->
           <<ByName(b.items), ByName(a.items)>>
      [] OTHER -> <<b.items, a.items>>

\* walk, walkList
RECURSIVE Walk(_, _, _, _, _)
WalkPart(c, path, b, a, s, depth) ==
    LET child == Append(path, s)
    IN CASE s \notin DOMAIN a -> Emit(c, ChangeAt(child, "removed", b[s], NothingThere))
         [] s \notin DOMAIN b -> Emit(c, ChangeAt(child, "added", NothingThere, a[s]))
         [] OTHER -> Walk(c, child, b[s], a[s], depth + 1)
Walk(c, path, b, a, depth) ==
    LET counted == [c EXCEPT !.nodes = @ + 1]
        whole == IF b = a THEN counted ELSE Emit(counted, ChangeAt(path, "changed", b, a))
        parts == PartsOfBoth(b, a)
    IN CASE c.failed -> c
         [] ~c.failed /\ c.nodes >= MaxDiffNodes -> [counted EXCEPT !.failed = TRUE]
         [] ~c.failed /\ c.nodes < MaxDiffNodes
              /\ (depth > MaxDiffDepth \/ b.kind # a.kind \/ b.kind = "leaf") -> whole
         [] OTHER ->
              FoldLeft(LAMBDA acc, s : WalkPart(acc, path, parts[1], parts[2], s, depth), counted,
                       SetToSortSeq(DOMAIN parts[1] \cup DOMAIN parts[2], <))

\* The changes of what is not shown: that they are, not what they are.
EmitSensitive(c, b, a, p) ==
    LET op == CASE p \notin DOMAIN a -> "removed"
                [] p \notin DOMAIN b -> "added"
                [] OTHER -> "changed"
    IN IF p \in DOMAIN a \cap DOMAIN b /\ a[p] = b[p] THEN c
       ELSE Emit(c, ChangeAt(p, op, NothingThere, NothingThere))

CompareForReview(before, after) ==
    LET b == CollectSensitive(before)
        a == CollectSensitive(after)
        empty == [changes |-> <<>>, total |-> 0, nodes |-> 0, failed |-> FALSE]
        secret == FoldLeft(LAMBDA c, p : EmitSensitive(c, b, a, p), empty,
                           SetToSortSeq(DOMAIN b \cup DOMAIN a, PathBefore))
    IN Walk(secret, <<>>, Sanitized(before), Sanitized(after), 0)

-----------------------------------------------------------------------------
ReviewDiffInit == /\ current \in ObjectsBefore /\ patched \in ObjectsAfter
                  /\ review = [at |-> "asked"]

\* DryRun, step 13: a comparison that cannot be finished is not shown.
Compare ==
    LET c == CompareForReview(current, patched)
    IN /\ review.at = "asked"
       /\ review' = IF c.failed THEN [at |-> "refused"]
                    ELSE [at |-> "shown", changes |-> c.changes, total |-> c.total]
       /\ UNCHANGED <<current, patched>>

ReviewDiffNext == Compare
ReviewDiffSpec == ReviewDiffInit /\ [][ReviewDiffNext]_diffVars

-----------------------------------------------------------------------------
\* The reference: the value that the changes shown make of a value.
ShownChanges == {review.changes[i] : i \in DOMAIN review.changes}
PathsShown == {ch.path : ch \in ShownChanges}
ShownAt(p) == CHOOSE ch \in ShownChanges : ch.path = p

\* Two values are the same if they differ in the order of named items at most.
RECURSIVE SameValue(_, _)
SameValue(v, w) ==
    IF v.kind # w.kind THEN FALSE
    ELSE CASE v.kind = "leaf" -> v = w
           [] v.kind = "map" -> /\ DOMAIN v.at = DOMAIN w.at
                                /\ \A k \in DOMAIN v.at : SameValue(v.at[k], w.at[k])
           [] v.kind = "list" ->
                LET p == PartsOfBoth(v, w)
                IN /\ DOMAIN p[1] = DOMAIN p[2]
                   /\ \A s \in DOMAIN p[1] : SameValue(p[1][s], p[2][s])

\* A change below a path, or at it.
Touches(path) == \E p \in PathsShown : IsPrefix(path, p)

IsCut == review.total > Len(review.changes)
BeyondCut(path) == /\ IsCut
               /\ path # Last(review.changes).path
               /\ ~PathBefore(path, Last(review.changes).path)

\* What stands at a path of two values agrees with what is shown: where a change
\* is shown both sides are as it says, elsewhere they are the same.
AgreesAt(path, op, before, after) ==
    BeyondCut(path) \/ (path \in PathsShown /\ ShownAt(path) = ChangeAt(path, op, before, after))
RECURSIVE Agrees(_, _, _)
Agrees(path, b, a) ==
    CASE BeyondCut(path) -> TRUE
      [] ~BeyondCut(path) /\ path \in PathsShown -> b # a /\ AgreesAt(path, "changed", b, a)
      [] ~BeyondCut(path) /\ ~Touches(path) -> SameValue(b, a)
      [] OTHER ->
           /\ b.kind = a.kind
           /\ LET parts == PartsOfBoth(b, a)
              IN \A s \in DOMAIN parts[1] \cup DOMAIN parts[2] :
                   LET child == Append(path, s)
                   IN CASE s \notin DOMAIN parts[2] ->
                             AgreesAt(child, "removed", parts[1][s], NothingThere)
                        [] s \notin DOMAIN parts[1] ->
                             AgreesAt(child, "added", NothingThere, parts[2][s])
                        [] OTHER -> Agrees(child, parts[1][s], parts[2][s])

\* What must not be shown and differs, and what is shown without its values.
Hidden ==
    LET b == CollectSensitive(current)
        a == CollectSensitive(patched)
    IN {p \in DOMAIN b \cup DOMAIN a : ~(p \in DOMAIN b \cap DOMAIN a /\ b[p] = a[p])}
Redacted ==
    {p \in PathsShown : ShownAt(p).before = NothingThere /\ ShownAt(p).after = NothingThere}

\* What a review shows is exact.  The changes tell the one object from the
\* other up to the order of named items: no difference is missing, invented or
\* shown twice, and of a value that must not be shown only that it differs.
\* When there are too many, the first by path are the ones shown.
ReviewIsExact ==
    review.at = "shown" =>
        /\ Redacted = {p \in Hidden : ~BeyondCut(p)}
        /\ Agrees(<<>>, Sanitized(current), Sanitized(patched))
        /\ \A i \in 1..(Len(review.changes) - 1) :
              PathBefore(review.changes[i].path, review.changes[i + 1].path)
        /\ IsCut => Len(review.changes) = MaxChanges
=============================================================================
