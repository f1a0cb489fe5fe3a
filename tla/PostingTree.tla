----------------------------- MODULE PostingTree -----------------------------
(***************************************************************************)
(* The B+tree of the postings of a namespace                               *)
(* (internal/resourcecatalog/searchtree.go): immutable leaves and nodes,   *)
(* changed by a sorted batch of operations that copies the paths it        *)
(* touches, splits what is too full and joins what is too empty.  A        *)
(* posting is its key; the fence seps[i] of a node separates the children  *)
(* i and i + 1.                                                            *)
(***************************************************************************)
EXTENDS Naturals, SequencesExt, FiniteSetsExt

CONSTANTS
    PostingKey,                    \* keys, numbers for their order
    PostBatch,                     \* bound: operations of one batch
    LeafBatch,                     \* bound: the same, while the tree is one leaf
    LeafMax, LeafSplit, LeafMin,   \* postLeafMax, postLeafSplit, postLeafMin
    TreeFanout, TreeNodeMin        \* treeFanout, treeNodeMin

ASSUME PostingTreeAssumption ==
    /\ PostingKey \subseteq Nat /\ PostBatch \in Nat \ {0} /\ LeafBatch \in Nat \ {0}
    /\ 0 < LeafMin /\ LeafMin <= LeafSplit /\ LeafSplit < LeafMax
    /\ 1 < TreeNodeMin /\ 2 * TreeNodeMin <= TreeFanout

VARIABLES
    postRoot,   \* the tree
    postings    \* the keys that its batches have left in it

postTreeVars == <<postRoot, postings>>

\* postNode: children are leaves (sequences of keys) or nodes.
Node(low, seps, kids) == [low |-> low, seps |-> seps, kids |-> kids]
NewPostTree == Node(TRUE, << >>, << << >> >>)

PostingTreeInit == postRoot = NewPostTree /\ postings = {}

-----------------------------------------------------------------------------
\* childIndexFor, postLowerBound: numbered from 1.
ChildIndex(n, key) == 1 + Cardinality({i \in DOMAIN n.seps : n.seps[i] <= key})
LowerBound(leaf, key) == 1 + Cardinality({i \in DOMAIN leaf : leaf[i] < key})

\* The keys of a set in their order.
InOrder(keys) ==
    [i \in 1 .. Cardinality(keys) |->
       CHOOSE k \in keys : Cardinality({l \in keys : l < k}) = i - 1]

\* Replace the children lo .. hi, and the fences between them, in a node.
Splice(n, lo, hi, kids, seps) ==
    Node(n.low,
         SubSeq(n.seps, 1, lo - 1) \o seps \o SubSeq(n.seps, hi, Len(n.seps)),
         SubSeq(n.kids, 1, lo - 1) \o kids \o SubSeq(n.kids, hi + 1, Len(n.kids)))

\* The sibling that a child is joined with is the right one, if there is one.
Left(n, at) == IF at < Len(n.kids) THEN at ELSE at - 1

Half(s) == Len(s) \div 2

\* rebalanceLeafChild.
\* Variant: an empty leaf is taken away without its neighbour being asked.
RebalanceLeafDropping(n, at) ==
    IF Len(n.kids) <= 1 \/ Len(n.kids[at]) >= LeafMin THEN n
    ELSE LET left == Left(n, at)
         IN  Splice(n, left, left + 1, <<n.kids[left]>>, << >>)

RebalanceLeaf(n, at) ==
    IF Len(n.kids) <= 1 \/ Len(n.kids[at]) >= LeafMin THEN n
    ELSE LET left == Left(n, at)
             both == n.kids[left] \o n.kids[left + 1]
             rest == SubSeq(both, Half(both) + 1, Len(both))
         IN  IF Len(both) <= LeafMax
               THEN Splice(n, left, left + 1, <<both>>, << >>)
               ELSE Splice(n, left, left + 1,
                           <<SubSeq(both, 1, Half(both)), rest>>, <<Head(rest)>>)

\* applyToLeafChild: merge the operations into a leaf, and split what is too
\* long into leaves of LeafSplit.
MergedLeaf(leaf, ops) ==
    LET removed == {op.key : op \in {o \in ops : o.remove}}
        added == {op.key : op \in {o \in ops : ~o.remove}}
    IN  InOrder((ToSet(leaf) \ removed) \cup added)
Pieces(s) ==
    [i \in 1 .. ((Len(s) + LeafSplit - 1) \div LeafSplit) |->
       SubSeq(s, (i - 1) * LeafSplit + 1, Min({i * LeafSplit, Len(s)}))]
ApplyToLeaf(n, at, ops) ==
    LET merged == MergedLeaf(n.kids[at], ops)
        parts == Pieces(merged)
    IN  IF Len(merged) <= LeafMax
          THEN RebalanceLeaf([n EXCEPT !.kids[at] = merged], at)
          ELSE Splice(n, at, at, parts,
                      [i \in 1 .. Len(parts) - 1 |-> Head(parts[i + 1])])

\* splitNodeChild and rebalanceNodeChild.
SplitNode(n, at) ==
    LET child == n.kids[at]
        half == Len(child.kids) \div 2
        l == Node(child.low, SubSeq(child.seps, 1, half - 1),
                  SubSeq(child.kids, 1, half))
        r == Node(child.low, SubSeq(child.seps, half + 1, Len(child.seps)),
                  SubSeq(child.kids, half + 1, Len(child.kids)))
    IN  IF Len(child.kids) <= TreeFanout THEN n
        ELSE Splice(n, at, at, <<l, r>>, <<child.seps[half]>>)

RebalanceNode(n, at) ==
    IF Len(n.kids) <= 1 THEN n
    ELSE IF Len(n.kids[at].kids) >= TreeNodeMin THEN SplitNode(n, at)
    ELSE LET left == Left(n, at)
             a == n.kids[left]
             b == n.kids[left + 1]
             joined == Node(a.low, a.seps \o <<n.seps[left]>> \o b.seps,
                            a.kids \o b.kids)
         IN  SplitNode(Splice(n, left, left + 1, <<joined>>, << >>), left)

\* postApplyNode: the operations are dealt out to the children by the fences,
\* and the children are visited from the last to the first.
RECURSIVE ApplyNode(_, _)
ApplyNode(n, ops) ==
    LET chunk(c) == {op \in ops : ChildIndex(n, op.key) = c}
        visit(out, c) ==
            IF chunk(c) = {} THEN out
            ELSE IF n.low THEN ApplyToLeaf(out, c, chunk(c))
            ELSE RebalanceNode([out EXCEPT !.kids[c] =
                                  ApplyNode(out.kids[c], chunk(c))], c)
        after[c \in 1 .. Len(n.kids) + 1] ==
            IF c > Len(n.kids) THEN n ELSE visit(after[c + 1], c)
    IN  after[1]

\* postApply: a root with a single child gives way to it.
RECURSIVE Collapsed(_)
Collapsed(n) ==
    IF ~n.low /\ Len(n.kids) = 1 THEN Collapsed(n.kids[1]) ELSE n
PostApply(root, ops) == Collapsed(ApplyNode(root, ops))

\* balancePostRoot: levels are added above a root that is too wide.
RECURSIVE Balanced(_)
Balanced(root) ==
    LET count == Len(root.kids)
        group == TreeFanout \div 2
        levels == (count + group - 1) \div group
        lo(g) == (g - 1) * group + 1
        hi(g) == Min({g * group, count})
    IN  IF count <= TreeFanout THEN root
        ELSE Balanced(Node(FALSE,
               [g \in 1 .. levels - 1 |-> root.seps[hi(g)]],
               [g \in 1 .. levels |->
                  Node(root.low, SubSeq(root.seps, lo(g), hi(g) - 1),
                       SubSeq(root.kids, lo(g), hi(g)))]))

-----------------------------------------------------------------------------
\* The cursor: seekPost goes down to the leaf of a key, next and skipEmpty
\* from there through the leaves to its right (advanceLeaf).
RECURSIVE Entries(_)
Entries(n) == FlattenSeq([i \in DOMAIN n.kids |->
                            IF n.low THEN n.kids[i] ELSE Entries(n.kids[i])])
RECURSIVE SeekPost(_, _)
SeekPost(n, key) ==
    LET i == ChildIndex(n, key)
        first == IF n.low
                   THEN SubSeq(n.kids[i], LowerBound(n.kids[i], key), Len(n.kids[i]))
                   ELSE SeekPost(n.kids[i], key)
    IN  first \o Entries(Node(n.low, << >>, SubSeq(n.kids, i + 1, Len(n.kids))))

\* What an update of a row makes of the tree: postings are removed that are
\* there, and inserted that are not.
OneLeaf == postRoot.low /\ Len(postRoot.kids) = 1
ChangePostings ==
    \E b \in UNION {kSubset(i, PostingKey) :
                    i \in 1 .. IF OneLeaf THEN LeafBatch ELSE PostBatch} :
      LET ops == {[key |-> k, remove |-> k \in postings] : k \in b}
      IN  /\ postRoot' = Balanced(PostApply(postRoot, ops))
          /\ postings' = (postings \ b) \cup (b \ postings)

PostingTreeNext == ChangePostings
PostingTreeSpec == PostingTreeInit /\ [][PostingTreeNext]_postTreeVars

-----------------------------------------------------------------------------
\* "max(left) < sep <= min(right)" at every fence.
RECURSIVE Fenced(_)
Fenced(n) ==
    /\ Len(n.kids) = Len(n.seps) + 1
    /\ \A i \in DOMAIN n.seps :
         LET keys(j) == ToSet(IF n.low THEN n.kids[j] ELSE Entries(n.kids[j]))
         IN  /\ \A k \in keys(i) : k < n.seps[i]
             /\ \A k \in keys(i + 1) : n.seps[i] <= k
    /\ n.low \/ \A i \in DOMAIN n.kids : Fenced(n.kids[i])

\* However leaves and nodes are split and joined, the cursor gives every
\* posting from any key on, in order, and no other: nothing that was removed
\* can be found again and nothing is lost.  (postApply, seekPost.)
CursorIsExact ==
    /\ Fenced(postRoot)
    /\ \A k \in PostingKey \cup {0} :
         SeekPost(postRoot, k) = InOrder({p \in postings : p >= k})
=============================================================================
