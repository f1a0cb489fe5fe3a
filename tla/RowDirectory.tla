---------------------------- MODULE RowDirectory ----------------------------
(***************************************************************************)
(* The rows of a namespace by name, a B+tree with aggregates               *)
(* (internal/resourcecatalog/searchtree.go), and the limit on the labels   *)
(* of a namespace that is computed from the aggregates (recomputeFold of   *)
(* searchindex.go): rows are taken by name while their label tokens fit;   *)
(* the labels of a row that does not fit are left out, and later rows      *)
(* that are small enough are still taken.                                  *)
(***************************************************************************)
EXTENDS Naturals, SequencesExt, FiniteSetsExt

CONSTANTS
    RowName,                  \* names, numbers for their order
    RowWeight,                \* numbers of label tokens a row may have
    RowLeafMax, RowLeafSplit, RowLeafMin,  \* rowLeafMax, ...
    RowFanout, RowNodeMin,    \* treeFanout, treeNodeMin
    RowGroup,                 \* rowGroupSize
    RowBatch,                 \* bound: operations of a batch on a tree of one leaf
    LabelCap,                 \* MaxLabelTokensPerNamespace
    MaxSuffix                 \* maxSuffixRows

ASSUME RowDirectoryAssumption ==
    /\ RowName \subseteq Nat /\ RowWeight \subseteq Nat
    /\ 0 < RowLeafMin /\ RowLeafMin <= RowLeafSplit /\ RowLeafSplit < RowLeafMax
    /\ 1 < RowNodeMin /\ 2 * RowNodeMin <= RowFanout /\ RowGroup \in Nat \ {0}
    /\ RowBatch \in Nat \ {0}
    /\ LabelCap \in Nat /\ \A w \in RowWeight : w <= MaxSuffix + 1

VARIABLES
    rowRoot,   \* the directory
    weights    \* the rows that its operations have left: name -> weight

rowTreeVars == <<rowRoot, weights>>

-----------------------------------------------------------------------------
\* rowLeaf.agg and rowNode.agg: the weight of a subtree, its rows with labels
\* and the least weight among them; NoWeight stands for noMinWeight.
NoWeight == Max(RowWeight) + 1
Agg(total, pos, min) == [total |-> total, pos |-> pos, min |-> min]
Both(a, b) == Agg(a.total + b.total, a.pos + b.pos, Min({a.min, b.min}))
LeafAgg(leaf) ==
    FoldSeq(LAMBDA r, a : Both(a, Agg(r.weight, IF r.weight > 0 THEN 1 ELSE 0,
                                      IF r.weight > 0 THEN r.weight ELSE NoWeight)),
            Agg(0, 0, NoWeight), leaf)
NodeAgg(n) == FoldSeq(Both, Agg(0, 0, NoWeight), n.aggs)

RowNode(low, seps, aggs, kids) ==
    [low |-> low, seps |-> seps, aggs |-> aggs, kids |-> kids]
KidAgg(low, kid) == IF low THEN LeafAgg(kid) ELSE NodeAgg(kid)

\* Replace the children lo .. hi with their aggregates and fences.
\* Variant: the aggregates of the old children are kept where they can be.
RowSpliceStale(n, lo, hi, kids, seps) ==
    RowNode(n.low,
            SubSeq(n.seps, 1, lo - 1) \o seps \o SubSeq(n.seps, hi, Len(n.seps)),
            SubSeq(n.aggs, 1, lo - 1)
              \o [i \in DOMAIN kids |-> IF lo + i - 1 <= hi THEN n.aggs[lo + i - 1]
                                        ELSE KidAgg(n.low, kids[i])]
              \o SubSeq(n.aggs, hi + 1, Len(n.aggs)),
            SubSeq(n.kids, 1, lo - 1) \o kids \o SubSeq(n.kids, hi + 1, Len(n.kids)))

RowSplice(n, lo, hi, kids, seps) ==
    RowNode(n.low,
            SubSeq(n.seps, 1, lo - 1) \o seps \o SubSeq(n.seps, hi, Len(n.seps)),
            SubSeq(n.aggs, 1, lo - 1) \o [i \in DOMAIN kids |-> KidAgg(n.low, kids[i])]
              \o SubSeq(n.aggs, hi + 1, Len(n.aggs)),
            SubSeq(n.kids, 1, lo - 1) \o kids \o SubSeq(n.kids, hi + 1, Len(n.kids)))

NewRowTree == RowNode(TRUE, << >>, <<Agg(0, 0, NoWeight)>>, << << >> >>)
RowDirectoryInit == rowRoot = NewRowTree /\ weights = << >>

RowChildIndex(n, name) == 1 + Cardinality({i \in DOMAIN n.seps : n.seps[i] <= name})
RowLeft(n, at) == IF at < Len(n.kids) THEN at ELSE at - 1

\* rowRebalanceLeaf.
RowRebalanceLeaf(n, at) ==
    IF Len(n.kids) <= 1 \/ Len(n.kids[at]) >= RowLeafMin THEN n
    ELSE LET left == RowLeft(n, at)
             both == n.kids[left] \o n.kids[left + 1]
             half == Len(both) \div 2
             rest == SubSeq(both, half + 1, Len(both))
         IN  IF Len(both) <= RowLeafMax
               THEN RowSplice(n, left, left + 1, <<both>>, << >>)
               ELSE RowSplice(n, left, left + 1,
                              <<SubSeq(both, 1, half), rest>>, <<rest[1].name>>)

\* rowApplyToLeaf: the rows that no operation names, and those it puts.
MergedRows(leaf, ops) ==
    LET kept == {row \in ToSet(leaf) : \A op \in ops : op.name # row.name}
        put == {[name |-> op.name, weight |-> op.weight] : op \in {o \in ops : ~o.remove}}
    IN  SetToSortSeq(kept \cup put, LAMBDA r, s : r.name < s.name)
RowPieces(s) ==
    [i \in 1 .. ((Len(s) + RowLeafSplit - 1) \div RowLeafSplit) |->
       SubSeq(s, (i - 1) * RowLeafSplit + 1, Min({i * RowLeafSplit, Len(s)}))]
RowApplyToLeaf(n, at, ops) ==
    LET merged == MergedRows(n.kids[at], ops)
        parts == RowPieces(merged)
    IN  IF Len(merged) <= RowLeafMax
          THEN RowRebalanceLeaf(RowSplice(n, at, at, <<merged>>, << >>), at)
          ELSE RowSplice(n, at, at, parts,
                         [i \in 1 .. Len(parts) - 1 |-> parts[i + 1][1].name])

\* rowSplitNode and rowRebalanceNode.
RowSplitNode(n, at) ==
    LET child == n.kids[at]
        count == Len(child.kids)
        half == count \div 2
        part(lo, hi) == RowNode(child.low, SubSeq(child.seps, lo, hi - 1),
                                SubSeq(child.aggs, lo, hi), SubSeq(child.kids, lo, hi))
    IN  IF count <= RowFanout THEN n
        ELSE RowSplice(n, at, at, <<part(1, half), part(half + 1, count)>>,
                       <<child.seps[half]>>)
RowRebalanceNode(n, at) ==
    IF Len(n.kids) <= 1 THEN n
    ELSE IF Len(n.kids[at].kids) >= RowNodeMin THEN RowSplitNode(n, at)
    ELSE LET left == RowLeft(n, at)
             a == n.kids[left]
             b == n.kids[left + 1]
             joined == RowNode(a.low, a.seps \o <<n.seps[left]>> \o b.seps,
                               a.aggs \o b.aggs, a.kids \o b.kids)
         IN  RowSplitNode(RowSplice(n, left, left + 1, <<joined>>, << >>), left)

\* rowApplyNode and rowApply: the operations are dealt out to the children by
\* the fences, and the children are visited from the last to the first.
RECURSIVE RowApplyNode(_, _)
RowApplyNode(n, ops) ==
    LET chunk(c) == {op \in ops : RowChildIndex(n, op.name) = c}
        visit(out, c) ==
            IF n.low THEN RowApplyToLeaf(out, c, chunk(c))
            ELSE RowRebalanceNode(
                   RowSplice(out, c, c, <<RowApplyNode(out.kids[c], chunk(c))>>, << >>), c)
        after[c \in 1 .. Len(n.kids) + 1] ==
            IF c > Len(n.kids) THEN n
            ELSE IF chunk(c) = {} THEN after[c + 1]
            ELSE visit(after[c + 1], c)
    IN  after[1]
RECURSIVE RowCollapsed(_)
RowCollapsed(n) ==
    IF ~n.low /\ Len(n.kids) = 1 THEN RowCollapsed(n.kids[1]) ELSE n
RowApply(root, ops) == RowCollapsed(RowApplyNode(root, ops))

\* balanceRowRoot.
RECURSIVE RowBalanced(_)
RowBalanced(root) ==
    LET count == Len(root.kids)
        group == RowFanout \div 2
        levels == (count + group - 1) \div group
        lo(g) == (g - 1) * group + 1
        hi(g) == Min({g * group, count})
        part(g) == RowNode(root.low, SubSeq(root.seps, lo(g), hi(g) - 1),
                           SubSeq(root.aggs, lo(g), hi(g)),
                           SubSeq(root.kids, lo(g), hi(g)))
    IN  IF count <= RowFanout THEN root
        ELSE RowBalanced(RowNode(FALSE,
               [g \in 1 .. levels - 1 |-> root.seps[hi(g)]],
               [g \in 1 .. levels |-> NodeAgg(part(g))],
               [g \in 1 .. levels |-> part(g)]))

-----------------------------------------------------------------------------
\* rowFind.
RECURSIVE RowFind(_, _)
RowFind(n, name) ==
    LET c == RowChildIndex(n, name)
    IN  IF n.low THEN {n.kids[c][i] : i \in {j \in DOMAIN n.kids[c] :
                                               n.kids[c][j].name = name}}
        ELSE RowFind(n.kids[c], name)

\* finalize: a leaf is summed up in groups of RowGroup rows.
Group(leaf, g) == SubSeq(leaf, g * RowGroup + 1, Min({(g + 1) * RowGroup, Len(leaf)}))
LastGroup == (RowLeafMax - 1) \div RowGroup

\* rowPrefixBoundary: the children that fit as a whole are skipped, down to
\* the first row that does not fit.  Inside the leaf, whole groups are
\* skipped first.
TakenUpTo(acc, found) == [acc |-> acc, row |-> found]
ScanRows(leaf, from, acc) ==
    LET step(s, i) == IF s.row # {} \/ leaf[i].weight = 0 THEN s
                      ELSE IF s.acc + leaf[i].weight > LabelCap
                        THEN TakenUpTo(s.acc, {leaf[i]})
                        ELSE TakenUpTo(s.acc + leaf[i].weight, {})
    IN  FoldLeft(step, TakenUpTo(acc, {}), [i \in 1 .. Len(leaf) - from + 1 |-> from + i - 1])
ScanLeaf(leaf, acc) ==
    LET step(s, g) ==
            LET w == LeafAgg(Group(leaf, g)).total
            IN  IF s.stop \/ w = 0 THEN s
                ELSE IF s.acc + w <= LabelCap
                  THEN [acc |-> s.acc + w, from |-> (g + 1) * RowGroup + 1,
                        stop |-> FALSE]
                  ELSE [s EXCEPT !.from = g * RowGroup + 1, !.stop = TRUE]
        at == FoldLeft(step, [acc |-> acc, from |-> 1, stop |-> FALSE],
                       [g \in 1 .. LastGroup + 1 |-> g - 1])
    IN  ScanRows(leaf, at.from, at.acc)

RECURSIVE PrefixBoundary(_, _)
PrefixBoundary(n, acc) ==
    LET sums[c \in 0 .. Len(n.kids)] ==
            IF c = 0 THEN acc ELSE sums[c - 1] + n.aggs[c].total
        over == {c \in DOMAIN n.kids : sums[c] > LabelCap}
        first == Min(over)
    IN  IF over = {} THEN TakenUpTo(sums[Len(n.kids)], {})
        ELSE IF n.low THEN ScanLeaf(n.kids[first], sums[first - 1])
        ELSE PrefixBoundary(n.kids[first], sums[first - 1])

\* rowNextFitting: the first row after a name whose labels fit the budget;
\* subtrees without one are not entered.
RECURSIVE NextFitting(_, _, _)
NextFitting(n, after, budget) ==
    LET fits(row) == row.name > after /\ 0 < row.weight /\ row.weight <= budget
        inKid(c) == IF n.aggs[c].pos = 0 \/ n.aggs[c].min > budget THEN << >>
                    ELSE IF n.low THEN SelectSeq(n.kids[c], fits)
                    ELSE NextFitting(n.kids[c], after, budget)
        hits == FlattenSeq([c \in DOMAIN n.kids |-> inKid(c)])
    IN  IF hits = << >> THEN << >> ELSE <<hits[1]>>

\* recomputeFold: the boundary, then the later rows that still fit.
RECURSIVE Suffix(_, _, _, _)
Suffix(root, after, budget, room) ==
    LET hit == NextFitting(root, after, budget)
    IN  IF room = 0 \/ budget = 0 \/ hit = << >> THEN {}
        ELSE {hit[1].name} \cup
             Suffix(root, hit[1].name, budget - hit[1].weight, room - 1)
FoldIncludes(root) ==
    LET b == PrefixBoundary(root, 0)
        bound == CHOOSE r \in b.row : TRUE
    IN  IF b.row = {} THEN RowName
        ELSE {n \in RowName : n < bound.name}
             \cup Suffix(root, bound.name, LabelCap - b.acc, MaxSuffix)

-----------------------------------------------------------------------------
\* Rows are put, and rows are removed that are there: several at once only
\* while the tree is one leaf.
ChangeRows ==
    \E put \in SUBSET RowName, gone \in SUBSET DOMAIN weights :
      /\ put \cap gone = {}
      /\ Cardinality(put \cup gone) \in 1 .. IF rowRoot.low /\ Len(rowRoot.kids) = 1
                                               THEN RowBatch ELSE 1
      /\ \E w \in [put -> RowWeight] :
           /\ rowRoot' = RowBalanced(RowApply(rowRoot,
                {[name |-> n, weight |-> w[n], remove |-> FALSE] : n \in put}
                  \cup {[name |-> n, weight |-> 0, remove |-> TRUE] : n \in gone}))
           /\ weights' = [n \in (DOMAIN weights \ gone) \cup put |->
                            IF n \in put THEN w[n] ELSE weights[n]]

RowDirectoryNext == ChangeRows

RowDirectorySpec == RowDirectoryInit /\ [][RowDirectoryNext]_rowTreeVars

-----------------------------------------------------------------------------
\* The rule as buildSearchSnapshot states it, a walk over all rows by name.
GreedyIncludes ==
    LET acc[n \in 0 .. Max(RowName)] ==
            IF n = 0 THEN [sum |-> 0, out |-> {}]
            ELSE IF n \notin DOMAIN weights THEN acc[n - 1]
            ELSE IF acc[n - 1].sum + weights[n] <= LabelCap
              THEN [acc[n - 1] EXCEPT !.sum = @ + weights[n]]
              ELSE [acc[n - 1] EXCEPT !.out = @ \cup {n}]
    IN  DOMAIN weights \ acc[Max(RowName)].out

\* The incremental limit leaves out the labels of exactly the rows that the
\* walk over the whole namespace leaves out, and every row is found with its
\* weight, whatever splits and joins the tree has been through: a stale
\* aggregate would show only as labels that cannot be searched.  (rowApply,
\* rowPrefixBoundary, rowNextFitting, recomputeFold.)
FoldIsGreedy ==
    /\ \A n \in {m \in DOMAIN weights : weights[m] > 0} :
         n \in FoldIncludes(rowRoot) <=> n \in GreedyIncludes
    /\ \A n \in RowName :
         RowFind(rowRoot, n) = IF n \in DOMAIN weights
                                 THEN {[name |-> n, weight |-> weights[n]]} ELSE {}
=============================================================================
