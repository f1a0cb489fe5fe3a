--------------------------- MODULE ResourceSearch ---------------------------
(***************************************************************************)
(* The paged search of resources (internal/resourcecatalog/search.go,      *)
(* searchcursor.go and the query half of searchindex.go).                  *)
(*                                                                         *)
(* A user walks through the answer page by page with a cursor: the last    *)
(* posting examined, or the last row scanned.  Between two pages objects   *)
(* come, change and go, resources become ready or not, and the role of the *)
(* user may change.  Who sees the whole cluster is answered from the index *)
(* - the array index or the persistent one, which must agree - and who     *)
(* sees some namespaces by a scan of their rows.                           *)
(*                                                                         *)
(* The tokens of the name, the namespace and the kind of an object never   *)
(* change.  Left out: the limit of streams, which refuses a request; the   *)
(* limit of label keys of a row; the field of a match; and the bytes of a  *)
(* page, which 50 items (at most 889 bytes each) never reach.              *)
(***************************************************************************)
EXTENDS Tokens

CONSTANTS
    ObjectCount,    \* objects are numbered in the order (gvr, namespace, name)
    GvrOf, NsOf, NameOf,
    BaseTokens,     \* the tokens of an object's name, namespace and kind
    LabelTokens,    \* the label tokens that an object may have, counted
    QueryText,      \* the prefix asked for
    Unlimited,      \* the scope of who sees the whole cluster
    UserScopes,     \* the scopes that the role of the user may give
    SearchLimit,    \* items of a page
    ScanFactor,     \* searchScanFactor: postings examined for an item of a page
    ScanRowsMax,    \* maxScopedScanRows
    LabelTokensMax, \* MaxLabelTokensPerNamespace
    NoRow, NoCursor,
    MaxSearchMoves  \* bound: the changes during a walk

Objects == 1..ObjectCount
Gvrs == {GvrOf[o] : o \in Objects}
Uids == 1..2

VARIABLES
    searchRows,   \* an object, its identity and its labels, or NoRow
    readyGvrs,    \* the resources whose informer is ready
    userScope,    \* what the role of the user lets it see
    walk,         \* the walk of the user
    searchMoves   \* the changes since it began

searchVars == <<searchRows, readyGvrs, userScope, walk, searchMoves>>

-----------------------------------------------------------------------------
\* The tokens of a row, the prefix, and the order of the answers.
InPrefix(t) == IsPrefix(QueryText, TokenText[t])

InPartition(g, n) == {o \in Objects : /\ GvrOf[o] = g /\ NsOf[o] = n
                                      /\ searchRows[o] # NoRow}

\* The labels of a namespace are folded in the order of the names, up to the
\* limit; a row that does not fit is left without its labels.
FoldLabels(acc, o) ==
    LET more == acc.used + Cardinality(searchRows[o].labels)
    IN IF more > LabelTokensMax THEN acc
       ELSE [used |-> more, labelled |-> acc.labelled \cup {o}]
Labelled(g, n) == FoldLeft(FoldLabels, [used |-> 0, labelled |-> {}],
                           SetToSortSeq(InPartition(g, n), <)).labelled
LabelsCut(g, n) == Labelled(g, n) # InPartition(g, n)

Canonical(o, withLabels) ==
    BaseTokens[o] \cup (IF withLabels THEN searchRows[o].labels ELSE {})

PostingsOf(g, n) ==
    UNION {LET tokens == Canonical(o, o \in Labelled(g, n))
           IN {[tok |-> t, obj |-> o, uid |-> searchRows[o].uid,
                lcp |-> PrevLcp(tokens, t),
                least |-> \A u \in tokens : InPrefix(u) => u >= t] : t \in tokens}
           : o \in InPartition(g, n)}

Namespaces(g) == {NsOf[o] : o \in {p \in Objects : GvrOf[p] = g /\ searchRows[p] # NoRow}}
Partitions == UNION {{<<g, n>> : n \in Namespaces(g)} : g \in readyGvrs}

SearchKey(p) == <<p.tok, NsOf[p.obj], NameOf[p.obj], GvrOf[p.obj], p.uid>>

-----------------------------------------------------------------------------
\* The array index: a stream begins after the cursor in the order of the
\* answers, and a row is shown at the least of its tokens with the prefix.
ArrayStream(g, n, cursor) ==
    {p \in PostingsOf(g, n) : /\ InPrefix(p.tok)
                              /\ cursor = NoCursor \/ LexBefore(cursor.key, SearchKey(p))}

\* The persistent index: a stream begins at a bound of its own partition, and
\* a row is shown where its token shares less than the prefix with the last.
After == 99   \* sentinelAfterName
LocalBoundByName(g, n, key) ==
    IF n < key[2] THEN <<key[1], After, 0>> ELSE <<key[1], key[3], key[5]>>
LocalBound(g, n, key) ==
    CASE n < key[2] -> <<key[1], After, 0>>
      [] n > key[2] -> <<key[1], 0, 0>>
      [] n = key[2] /\ g < key[4] -> <<key[1], key[3], After>>
      [] n = key[2] /\ g > key[4] -> <<key[1], key[3], 0>>
      [] OTHER -> <<key[1], key[3], key[5]>>

LocalKey(p) == <<p.tok, NameOf[p.obj], p.uid>>
PartStream(g, n, cursor) ==
    {p \in PostingsOf(g, n) :
        /\ InPrefix(p.tok)
        /\ cursor = NoCursor \/
             /\ ~LexBefore(LocalKey(p), LocalBound(g, n, cursor.key))
             /\ n = cursor.key[2] /\ g = cursor.key[4] => LexBefore(cursor.key, SearchKey(p))}
SharesLess(p) == Len(QueryText) > p.lcp

-----------------------------------------------------------------------------
\* A page from the index: the streams are merged in the order of the answers
\* until the page is full or enough postings have been examined.
ScanBudget == ScanFactor * SearchLimit
First(left) == CHOOSE p \in left : \A q \in left \ {p} : LexBefore(SearchKey(p), SearchKey(q))

Examine(shown, page) ==
    LET p == First(page.left)
    IN IF page.left = {} \/ Len(page.items) >= SearchLimit THEN page
       ELSE [page EXCEPT !.left = @ \ {p}, !.last = SearchKey(p),
                         !.items = IF p \in shown THEN Append(@, p.obj) ELSE @]

\* The reasons why an answer may lack something, of the whole index.
IndexLacks == readyGvrs # Gvrs \/ \E part \in Partitions : LabelsCut(part[1], part[2])

IndexPage(postings, shown) ==
    LET page == FoldLeft(LAMBDA acc, i : Examine(shown, acc),
                         [left |-> postings, items |-> <<>>, last |-> <<>>],
                         [i \in 1..ScanBudget |-> i])
    IN [items |-> page.items, lacks |-> IndexLacks,
        next |-> IF page.left = {} THEN NoCursor
                 ELSE [key |-> page.last, labels |-> 0, lacks |-> FALSE, of |-> Unlimited]]

SearchIndexed(cursor) ==
    LET postings == UNION {ArrayStream(part[1], part[2], cursor) : part \in Partitions}
    IN  IndexPage(postings, {p \in postings : p.least})
SearchPersistent(cursor) ==
    LET postings == UNION {PartStream(part[1], part[2], cursor) : part \in Partitions}
    IN  IndexPage(postings, {p \in postings : SharesLess(p)})

-----------------------------------------------------------------------------
\* A page from a scan: the rows of the allowed namespaces in their order.  The
\* cursor also carries the labels counted so far and what has been left out.
ToScan(cursor) ==
    LET rowKey(o) == <<GvrOf[o], NsOf[o], NameOf[o], searchRows[o].uid>>
        rows == {o \in Objects : /\ searchRows[o] # NoRow
                                 /\ GvrOf[o] \in readyGvrs /\ NsOf[o] \in userScope
                                 /\ cursor = NoCursor \/ LexBefore(cursor.key, rowKey(o))}
        skipped == {g \in Gvrs \ readyGvrs : cursor = NoCursor \/ g >= cursor.key[1]}
    IN SetToSortSeq({<<GvrOf[o], o>> : o \in rows} \cup {<<g, 0>> : g \in skipped}, LexBefore)

ScanRow(page, o) ==
    LET row == searchRows[o]
        here == <<GvrOf[o], NsOf[o]>>
        used == IF page.part = here THEN page.used ELSE 0
        more == used + Cardinality(row.labels)
        cut == more > LabelTokensMax
        found == \E t \in Canonical(o, ~cut) : InPrefix(t)
    IN IF Len(page.items) >= SearchLimit \/ page.rows = 0 THEN [page EXCEPT !.stopped = TRUE]
       ELSE [page EXCEPT !.items = IF found THEN Append(@, o) ELSE @,
                         !.rows = @ - 1, !.part = here, !.lacks = @ \/ cut,
                         !.used = IF cut THEN used ELSE more,
                         !.last = <<GvrOf[o], NsOf[o], NameOf[o], row.uid>>]

ScanStep(page, step) ==
    CASE page.stopped -> page
      [] step[2] = 0 -> [page EXCEPT !.lacks = TRUE]
      [] OTHER -> ScanRow(page, step[2])

RestoredNever(cursor) == FALSE
Restored(cursor) == cursor # NoCursor /\ cursor.lacks

SearchScoped(cursor) ==
    LET resumed == cursor # NoCursor
        first == [items |-> <<>>, rows |-> ScanRowsMax, stopped |-> FALSE,
                  part |-> IF resumed THEN SubSeq(cursor.key, 1, 2) ELSE <<>>,
                  used |-> IF resumed THEN cursor.labels ELSE 0,
                  lacks |-> Restored(cursor), last |-> <<>>]
        page == FoldLeft(ScanStep, first, ToScan(cursor))
    IN [items |-> page.items, lacks |-> page.lacks,
        next |-> IF ~page.stopped THEN NoCursor
                 ELSE [key |-> page.last, labels |-> page.used, lacks |-> page.lacks,
                       of |-> userScope]]

-----------------------------------------------------------------------------
\* The walk: what it has shown, the objects that changed meanwhile, whether
\* the last page, or any page, said that something may be missing.
NoWalk == [at |-> "idle"]

ResourceSearchInit ==
    /\ searchRows \in [Objects -> {NoRow} \cup [uid : {1}, labels : LabelTokens]]
    /\ readyGvrs = Gvrs
    /\ userScope \in UserScopes
    /\ walk = NoWalk
    /\ searchMoves = 0

\* Search: the first page, or the page after a cursor; a cursor of another
\* scope is refused.
PageAfter(cursor) == IF userScope = Unlimited THEN SearchPersistent(cursor)
                     ELSE SearchScoped(cursor)

TurnPage(page, shown, changed, everLacked) ==
    walk' = [at |-> IF page.next = NoCursor THEN "done" ELSE "more",
             cursor |-> page.next, of |-> userScope, shown |-> shown \o page.items,
             changed |-> changed, lacks |-> page.lacks,
             everLacked |-> everLacked \/ page.lacks]

FirstPage ==
    /\ walk.at = "idle"
    /\ TurnPage(PageAfter(NoCursor), <<>>, {}, FALSE)
    /\ UNCHANGED <<searchRows, readyGvrs, userScope, searchMoves>>

NextPage ==
    /\ walk.at = "more"
    /\ IF walk.cursor.of # userScope THEN walk' = [at |-> "refused"]
       ELSE TurnPage(PageAfter(walk.cursor), walk.shown, walk.changed, walk.everLacked)
    /\ UNCHANGED <<searchRows, readyGvrs, userScope, searchMoves>>

\* While the user reads a page: an object, a resource or the role changes.
Reading == walk.at = "more" /\ searchMoves < MaxSearchMoves

MoveRow ==
    /\ Reading
    /\ \E o \in Objects : \E row \in {NoRow} \cup [uid : Uids, labels : LabelTokens] :
         /\ row # searchRows[o]
         /\ searchRows' = [searchRows EXCEPT ![o] = row]
         /\ walk' = [walk EXCEPT !.changed = @ \cup {o}]
    /\ searchMoves' = searchMoves + 1
    /\ UNCHANGED <<readyGvrs, userScope>>

MoveGvr ==
    /\ Reading
    /\ \E g \in Gvrs :
         readyGvrs' = IF g \in readyGvrs THEN readyGvrs \ {g} ELSE readyGvrs \cup {g}
    /\ searchMoves' = searchMoves + 1
    /\ UNCHANGED <<searchRows, userScope, walk>>

MoveScope ==
    /\ Reading
    /\ userScope' \in UserScopes \ {userScope}
    /\ searchMoves' = searchMoves + 1
    /\ UNCHANGED <<searchRows, readyGvrs, walk>>

ResourceSearchNext == FirstPage \/ NextPage \/ MoveRow \/ MoveGvr \/ MoveScope
ResourceSearchSpec == ResourceSearchInit /\ [][ResourceSearchNext]_searchVars

-----------------------------------------------------------------------------
\* A walk that ends without saying that something may be missing has shown
\* every object that matches, is in scope and did not change, exactly once:
\* whatever came, went or changed around it.  A scan carries what it left out
\* to its last page; the index says it on the page where it holds.
Wanted(o) == /\ searchRows[o] # NoRow
             /\ walk.of = Unlimited \/ NsOf[o] \in walk.of
             /\ \E t \in Canonical(o, TRUE) : InPrefix(t)
Silent == ~(IF walk.of = Unlimited THEN walk.everLacked ELSE walk.lacks)
WalkIsComplete ==
    walk.at = "done" /\ Silent =>
        \A o \in Objects \ walk.changed :
            Cardinality({i \in DOMAIN walk.shown : walk.shown[i] = o})
                = IF Wanted(o) THEN 1 ELSE 0

\* The two indexes give the same page for the same cursor, also when the row
\* the cursor stands on has changed or gone.
PathsAgree ==
    walk.at = "more" /\ walk.of = Unlimited =>
        SearchIndexed(walk.cursor) = SearchPersistent(walk.cursor)
=============================================================================
