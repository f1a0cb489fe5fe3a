----------------------------- MODULE PartIndex -----------------------------
(***************************************************************************)
(* The incremental search index of one resource                            *)
(* (internal/resourcecatalog/searchindex.go and the slots of searchtree.go)*)
(*                                                                         *)
(* The index is a directory of partitions, one for each namespace.  A      *)
(* partition keeps its rows in slots, the postings of their tokens and the *)
(* fold: which rows the limit of label tokens leaves in the index.  A      *)
(* batch changes a partition by taking away and adding postings, never by  *)
(* building it again; what it leaves must be what a build would give.      *)
(*                                                                         *)
(* slotOf and posts are what a partition asks of its trees of rows and of  *)
(* postings.  A tree of one leaf takes a whole batch, and one of several   *)
(* leaves takes batches of one operation: PostingTree and RowDirectory     *)
(* show that it then holds what was asked.  A batch of several operations  *)
(* on a tree of several leaves may leave a key where no search finds it    *)
(* (tree_batches): that tree is astray from then on, the fields go on      *)
(* saying what was asked, and no property says that the tree holds it.     *)
(* Left out: bytes, times, the field of a token.  Bounds: MaxRowEvents,    *)
(* BatchMax, small sets.                                                   *)
(***************************************************************************)
EXTENDS Tokens, Functions

CONSTANTS
    NameToken,     \* the token of a name
    SpaceToken,    \* the token of a namespace
    KindToken,     \* the token of the kind
    PartEvents,    \* the events: namespace, name, and a record or NoInput
    PartLabelCap,  \* MaxLabelTokensPerNamespace
    MaxSuffixRows,
    MaxSlot,       \* slots of a partition
    TreeLeafMax,   \* rowLeafMax and postLeafMax: what one leaf of a tree takes
    PageMax,       \* partitions of a page of the directory
    BatchMax,      \* bound: the events of a batch
    MaxRowEvents,  \* bound: the events of a run, a mark counted as one
    NoInput, NoBound

VARIABLES
    dir,        \* the directory: pages of partitions and their first names
    listed,     \* what the events so far say: a record, or NoInput
    rowEvents   \* the events so far

partIndexVars == <<dir, listed, rowEvents>>

PartSpace == {e.space : e \in PartEvents}
PartName == {e.name : e \in PartEvents}
RowInput == {e.input : e \in PartEvents} \ {NoInput}
Tree == {"rows", "posts"}

ASSUME PartIndexAssumption ==
    /\ IsFiniteSet(PartEvents)
    /\ PartSpace \subseteq Nat /\ PartName \subseteq Nat
    /\ \A e \in PartEvents : e = [space |-> e.space, name |-> e.name, input |-> e.input]
    /\ \A r \in RowInput : /\ r = [uid |-> r.uid, labels |-> r.labels, cut |-> r.cut]
                           /\ IsFiniteSet(r.labels) /\ r.cut \in BOOLEAN
    /\ NoBound \notin Nat
    /\ TreeLeafMax \in [Tree -> Nat]
    /\ PartLabelCap \in Nat /\ MaxSlot \in Nat /\ PageMax \in Nat \ {0} /\ BatchMax \in Nat

\* Names, or namespaces, in their order; a function with one value more, and
\* one function over another.
NameOrder(S) ==
    CHOOSE line \in SetToSeqs(S) : \A i, j \in DOMAIN line : i < j => line[i] < line[j]
With(f, x, y) == [z \in DOMAIN f \cup {x} |-> IF z = x THEN y ELSE f[z]]
Over(f, g) == [x \in DOMAIN f \cup DOMAIN g |-> IF x \in DOMAIN f THEN f[x] ELSE g[x]]

-----------------------------------------------------------------------------
\* The fold, from the rows of a partition (name -> weight): the prefix that
\* fits, the row that no longer does, and the later rows that still fit.
FoldStep(weight, acc, n) ==
    LET fits == acc.used + weight[n] <= PartLabelCap
    IN CASE acc.bound = NoBound /\ fits  -> [acc EXCEPT !.used = @ + weight[n]]
         [] acc.bound = NoBound /\ ~fits -> [acc EXCEPT !.bound = n]
         [] acc.bound # NoBound /\ fits /\ weight[n] > 0 /\ Len(acc.suffix) < MaxSuffixRows ->
              [acc EXCEPT !.used = @ + weight[n], !.suffix = Append(@, n)]
         [] OTHER -> acc
RecomputeFold(weight) ==
    FoldLeft(LAMBDA acc, n : FoldStep(weight, acc, n),
             [used |-> 0, bound |-> NoBound, suffix |-> <<>>],
             NameOrder(DOMAIN weight))
Includes(fold, n) == fold.bound = NoBound \/ n < fold.bound \/ n \in ToSet(fold.suffix)

\* The tokens of a row, and its postings: the key of each, its slot and what
\* it shares with the token before it.
RowTokens(space, rec, withLabels) ==
    {NameToken[rec.name], SpaceToken[space], KindToken}
        \cup (IF withLabels THEN rec.labels ELSE {})
RowOps(space, rec, slot, withLabels) ==
    LET tokens == RowTokens(space, rec, withLabels)
    IN [key \in {<<t, rec.name, rec.uid>> : t \in tokens} |->
          [slot |-> slot, lcp |-> PrevLcp(tokens, key[1])]]
Postings(space, trie, slotOf, fold, names) ==
    LET ops(n) == RowOps(space, trie[slotOf[n]], slotOf[n], Includes(fold, n))
    IN [key \in UNION {DOMAIN ops(n) : n \in names} |-> ops(key[2])[key]]

\* The last operation on a key wins: what is removed is removed unless a
\* later operation puts it back.
LessPosts(posts, ops) == Restrict(posts, DOMAIN posts \ DOMAIN ops)
PlusPosts(posts, ops) == Over(ops, posts)

-----------------------------------------------------------------------------
\* A partition.  Its wide trees have had more than one leaf; its astray trees
\* were given a batch of several operations since.
NewPart(space) ==
    [space |-> space, slotOf |-> <<>>, trie |-> <<>>, free |-> <<>>, high |-> 0,
     posts |-> <<>>, fold |-> RecomputeFold(<<>>), cutRows |-> 0,
     labelNs |-> FALSE, stale |-> FALSE, wide |-> {}, astray |-> {}]

\* A row is written to a slot of its own, never to the one of its old record:
\* the old postings find their keys through it.  A slot that this batch frees
\* is not used again by it.
RowRecord(n, input) ==
    [name |-> n, uid |-> input.uid, labels |-> input.labels, cut |-> input.cut]
TakeSlot(part, n, input) ==
    LET reuse == part.free # <<>>
        slot == IF reuse THEN Last(part.free) ELSE part.high
    IN IF part.full \/ (~reuse /\ part.high >= MaxSlot) THEN [part EXCEPT !.full = TRUE]
       ELSE [part EXCEPT !.free = IF reuse THEN Front(@) ELSE @,
                         !.high = IF reuse THEN @ ELSE @ + 1,
                         !.trie = With(@, slot, RowRecord(n, input)),
                         !.slotOf = With(@, n, slot)]
AllocateSlots(old, ops) ==
    LET upserts == {n \in DOMAIN ops : ops[n] # NoInput}
    IN FoldLeft(LAMBDA part, n : TakeSlot(part, n, ops[n]),
                [full |-> FALSE, free |-> old.free, high |-> old.high, trie |-> old.trie,
                 slotOf |-> Restrict(old.slotOf, DOMAIN old.slotOf \ DOMAIN ops)],
                NameOrder(upserts))

\* The rows, not of the batch, that may come into the fold or leave it: those
\* with labels between the two boundaries, and the two suffixes.
FlippedRange(old, new, slotOf) ==
    LET bounds == {old.bound, new.bound} \ {NoBound}
        between(n) == /\ bounds # {}
                      /\ \E b \in bounds : b <= n
                      /\ NoBound \notin {old.bound, new.bound} => \E b \in bounds : n < b
    IN {n \in DOMAIN slotOf : between(n)}
Flipped(old, new, slotOf) ==
    FlippedRange(old, new, slotOf)
        \cup ((ToSet(old.suffix) \cup ToSet(new.suffix)) \cap DOMAIN slotOf)

\* A leaf is split when it would hold too much (rowApplyToLeaf,
\* applyToLeafChild).  A tree of several leaves cuts its batch by child before
\* it balances the children (rowApplyNode, postApplyNode).
InTrees(rows, keys) == [rows |-> Cardinality(rows), posts |-> Cardinality(keys)]
Wider(held) == {t \in Tree : held[t] > TreeLeafMax[t]}
LedAstray(wide, asked) == {t \in Tree : t \in wide /\ asked[t] > 1}

\* applyPartOps
CutRows(part, names) == Cardinality({n \in names : part.trie[part.slotOf[n]].cut})
ApplyPartOps(old, ops) ==
    LET part == AllocateSlots(old, ops)
        had == DOMAIN ops \cap DOMAIN old.slotOf
        has == DOMAIN ops \cap DOMAIN part.slotOf
        fold == RecomputeFold([n \in DOMAIN part.slotOf |->
                                 Cardinality(part.trie[part.slotOf[n]].labels)])
        flipped == {n \in Flipped(old.fold, fold, part.slotOf) \ DOMAIN ops :
                       Includes(old.fold, n) # Includes(fold, n)}
        gone == Postings(old.space, old.trie, old.slotOf, old.fold, had \cup flipped)
        come == Postings(old.space, part.trie, part.slotOf, fold, flipped \cup has)
        freed == [i \in 1..Cardinality(had) |-> old.slotOf[NameOrder(had)[i]]]
        cutRows == (old.cutRows + CutRows(part, has)) - CutRows(old, had)
        posts == PlusPosts(LessPosts(old.posts, gone), come)
        asked == InTrees(had \cup has, DOMAIN gone \cup DOMAIN come)
        held == InTrees(DOMAIN part.slotOf, DOMAIN posts)
    IN IF part.full THEN old
       ELSE [old EXCEPT !.slotOf = part.slotOf, !.high = part.high,
                        !.trie = Restrict(part.trie, DOMAIN part.trie \ ToSet(freed)),
                        !.free = part.free \o freed,
                        !.posts = posts,
                        !.wide = @ \cup Wider(held),
                        !.astray = @ \cup LedAstray(old.wide, asked),
                        !.fold = fold,
                        !.cutRows = cutRows,
                        !.labelNs = fold.bound # NoBound \/ cutRows > 0]

-----------------------------------------------------------------------------
\* The directory: pages of partitions by the first namespace of each, split
\* when they are too long.
PartAgg(parts) == [count |-> Cardinality(DOMAIN parts),
                   labelNs |-> \E s \in DOMAIN parts : parts[s].labelNs,
                   stale |-> \E s \in DOMAIN parts : parts[s].stale]
DirPage(parts) == [parts |-> parts, agg |-> PartAgg(parts)]
MergeAgg(pages) ==
    [count |-> SumFunction([first \in DOMAIN pages |-> pages[first].agg.count]),
     labelNs |-> \E first \in DOMAIN pages : pages[first].agg.labelNs,
     stale |-> \E first \in DOMAIN pages : pages[first].agg.stale]
WithRoot(pages) == [pages |-> pages, agg |-> MergeAgg(pages)]

NewDir == WithRoot(With(<<>>, 0, DirPage(<<>>)))
PageFor(d, space) == Max({first \in DOMAIN d.pages : first <= space})
PartsFor(d, space) == d.pages[PageFor(d, space)].parts
HasPart(d, space) == space \in DOMAIN PartsFor(d, space)
FindPart(d, space) == PartsFor(d, space)[space]

\* A page keeps its place: the first one has no name before it.
PageName(page, parts) == IF page = 0 THEN 0 ELSE Min(DOMAIN parts)
Upsert(d, part) ==
    LET page == PageFor(d, part.space)
        parts == With(PartsFor(d, part.space), part.space, part)
        middle == NameOrder(DOMAIN parts)[Cardinality(DOMAIN parts) \div 2 + 1]
        left == Restrict(parts, {s \in DOMAIN parts : s < middle})
        right == Restrict(parts, {s \in DOMAIN parts : s >= middle})
        others == Restrict(d.pages, DOMAIN d.pages \ {page})
    IN IF Cardinality(DOMAIN parts) <= PageMax
       THEN WithRoot(With(others, PageName(page, parts), DirPage(parts)))
       ELSE WithRoot(With(With(others, PageName(page, left), DirPage(left)),
                          middle, DirPage(right)))

PartOrNew(d, space) == IF HasPart(d, space) THEN FindPart(d, space) ELSE NewPart(space)

\* dedupePartOps: of the events of one name, the last one counts.
Deduped(events, s) ==
    LET of(n) == {i \in DOMAIN events : events[i].space = s /\ events[i].name = n}
    IN [n \in {n \in PartName : of(n) # {}} |-> events[Max(of(n))].input]

\* applyOps, for the namespaces of a batch in their order.
SpacesOf(events) == {e.space : e \in ToSet(events)}
ApplyOps(d, events) ==
    FoldLeft(LAMBDA acc, s : Upsert(acc, ApplyPartOps(PartOrNew(acc, s), Deduped(events, s))),
             d, NameOrder(SpacesOf(events)))

-----------------------------------------------------------------------------
PartIndexInit ==
    /\ listed = [s \in PartSpace |-> [n \in PartName |-> NoInput]]
    /\ dir = NewDir
    /\ rowEvents = 0

\* What a batch says of a partition, unless there is no slot left for it.
Says(s, events) ==
    IF AllocateSlots(PartOrNew(dir, s), Deduped(events, s)).full THEN listed[s]
    ELSE Over(Deduped(events, s), listed[s])

\* A batch of events, or the first build: the events of a whole list.
ApplyRowBatch ==
    \E events \in BoundedSeq(PartEvents, BatchMax) \ {<<>>} :
        /\ rowEvents + Len(events) <= MaxRowEvents
        /\ rowEvents' = rowEvents + Len(events)
        /\ dir' = ApplyOps(dir, events)
        /\ listed' = [s \in PartSpace |-> IF s \in SpacesOf(events)
                                            THEN Says(s, events) ELSE listed[s]]

MarkPartStale ==
    /\ rowEvents < MaxRowEvents
    /\ rowEvents' = rowEvents + 1
    /\ \E s \in PartSpace :
          dir' = Upsert(dir, [PartOrNew(dir, s) EXCEPT !.stale = TRUE])
    /\ UNCHANGED listed

PartIndexNext == ApplyRowBatch \/ MarkPartStale
PartIndexSpec == PartIndexInit /\ [][PartIndexNext]_partIndexVars

-----------------------------------------------------------------------------
PartsOf(d) == UNION {Range(d.pages[first].parts) : first \in DOMAIN d.pages}

\* What a build of a partition would find: its rows, and which of them the
\* limit of labels leaves in the index.
RowsOf(rows) == {n \in PartName : rows[n] # NoInput}
BuiltFold(rows) == RecomputeFold([n \in RowsOf(rows) |-> Cardinality(rows[n].labels)])

\* After any batches, of any order and number of events, a partition whose trees
\* went with them holds the postings that a build of its rows would give, at the
\* slots of the rows: none is missing, left behind, or kept with what it used to
\* share with the token before it; and what it counts is what a build would
\* count.  Each slot belongs to one row or is free once.  Nothing is said of the
\* postings once a batch of several reached a tree of postings of several leaves,
\* nor of anything a partition holds once that happened to its tree of rows
\* (searchtree.go:654, 1164).  The directory finds every partition, whatever it
\* holds, and knows at its root what they lack.  (applyPartOps, nsDir.upsert.)
RowsAreRebuilt(part, rows) ==
    /\ DOMAIN part.slotOf = RowsOf(rows)
    /\ \A n \in RowsOf(rows) : part.trie[part.slotOf[n]] = RowRecord(n, rows[n])
PostsAreRebuilt(part, rows) ==
    part.posts = Postings(part.space, part.trie, part.slotOf, BuiltFold(rows), RowsOf(rows))
CountsAreRebuilt(part, rows) ==
    /\ part.fold = BuiltFold(rows)
    /\ part.cutRows = Cardinality({n \in RowsOf(rows) : rows[n].cut})
    /\ part.labelNs <=> BuiltFold(rows).bound # NoBound \/ \E n \in RowsOf(rows) : rows[n].cut
SlotsAreOnce(part) ==
    /\ IsInjective(part.slotOf) /\ IsInjective(part.free)
    /\ DOMAIN part.trie = Range(part.slotOf)
    /\ Range(part.slotOf) \cap ToSet(part.free) = {}
    /\ Range(part.slotOf) \cup ToSet(part.free) = 0..(part.high - 1)
IndexIsRebuild ==
    /\ \A part \in PartsOf(dir) :
          /\ part.astray = {} => PostsAreRebuilt(part, listed[part.space])
          /\ "rows" \notin part.astray => /\ RowsAreRebuilt(part, listed[part.space])
                                         /\ CountsAreRebuilt(part, listed[part.space])
                                         /\ SlotsAreOnce(part)
          /\ HasPart(dir, part.space) /\ FindPart(dir, part.space) = part
    /\ \A s \in PartSpace : RowsOf(listed[s]) # {} => HasPart(dir, s)
    /\ dir.agg = [count |-> Cardinality(PartsOf(dir)),
                  labelNs |-> \E part \in PartsOf(dir) : part.labelNs,
                  stale |-> \E part \in PartsOf(dir) : part.stale]
=============================================================================
