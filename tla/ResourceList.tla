---------------------------- MODULE ResourceList ----------------------------
(***************************************************************************)
(* The list of one kind of resource, page by page, and the recent items    *)
(* (internal/resourcecatalog/index.go, cursor.go, recent.go, the List of   *)
(* catalog.go, internal/httpapi/resources.go).                             *)
(*                                                                         *)
(* A page is made from one immutable index, sorted by namespace and name,  *)
(* that is replaced between any two pages.  The cursor is the last row     *)
(* looked at, whether it was shown or not, with a print of the query: what *)
(* is asked and the namespaces that the user sees.  A page ends when it is *)
(* full, or when it has looked at as many rows as it may.                  *)
(*                                                                         *)
(* A namespace and a name are numbers in the order of the index; a         *)
(* resource of the cluster has namespace 0.  Left out: the byte budget,    *)
(* which the longest page stays far below, and the length checks.          *)
(***************************************************************************)
EXTENDS Naturals, SequencesExt, FiniteSetsExt

CONSTANTS
    TableKey,         \* <<namespace, name>>
    TableLabel,
    NamePrefixes,     \* the sets of names that a prefix may select
    LabelSelectors,   \* the sets of labels that a selector may select
    PageLimits,
    ListScanFactor,   \* scanFactor
    MaxListMoves,     \* bound: the changes of rows, of the scope and of the state
    NoTableRow, NoList

Spaces == {k[1] : k \in TableKey}

\* What is asked of a list; "asked" is 0 when no namespace is.
Query == [descending : BOOLEAN, names : NamePrefixes, labels : LabelSelectors,
          asked : {0} \cup Spaces]
ListPrint == [query : Query, all : BOOLEAN, spaces : SUBSET Spaces]

\* A row, an item of a page, a cursor, and what is read of a list.
TableRow == [uid : Nat, label : TableLabel]
TableItem == [key : TableKey, uid : Nat]
TableCursor == [key : TableKey, print : ListPrint]
ListPaging == [query : Query, items : Seq(TableItem), next : TableCursor \cup {NoList},
               print : ListPrint, lasting : SUBSET TableKey, gone : SUBSET TableItem]

ASSUME ResourceListAssumption ==
    /\ TableKey \subseteq Nat \X Nat /\ IsFiniteSet(TableKey)
    /\ NoTableRow \notin TableRow
    /\ NoList \notin TableCursor \cup ListPaging

VARIABLES
    namespaced,  \* whether the resource lives in namespaces
    tableRows,   \* the published index: the row of a key, or NoTableRow
    tableState,  \* the state of the entry
    viewer,      \* what the user may see of the cluster
    paging,        \* the list that the user pages through; ghosts beside the items:
                 \* the rows listed and the same all the time, the items gone since
    recalled,    \* what the last recent items were resolved to, while it is so
    listMoves

tableVars == <<namespaced, tableRows, tableState, viewer, paging, recalled, listMoves>>

ListedKeys == {k \in TableKey : tableRows[k] # NoTableRow /\ (namespaced <=> k[1] # 0)}
KeyBefore(k, l) == k[1] < l[1] \/ (k[1] = l[1] /\ k[2] < l[2])
Before2(descending, k, l) == IF descending THEN KeyBefore(l, k) ELSE KeyBefore(k, l)
ListOrder(descending, keys) ==
    CHOOSE line \in SetToSeqs(keys) :
        \A i, j \in DOMAIN line : i < j => Before2(descending, line[i], line[j])

ResourceListInit ==
    /\ namespaced \in BOOLEAN
    /\ tableRows \in [TableKey -> {NoTableRow} \cup [uid : {1}, label : TableLabel]]
    /\ \A k \in TableKey : (namespaced <=> k[1] = 0) => tableRows[k] = NoTableRow
    /\ tableState = "ready"
    /\ viewer \in [all : BOOLEAN, spaces : SUBSET (Spaces \ {0})]
    /\ viewer.all => viewer.spaces = {}
    /\ paging = NoList /\ recalled = {} /\ listMoves = 0

-----------------------------------------------------------------------------
\* AllowsNamespace, Accessible
AllowsNamespace(ns) == viewer.all \/ ns \in viewer.spaces
Accessible == viewer.all \/ viewer.spaces # {}

\* handleResourceList, resolve: the namespaces that a query reads.  "all" stands
\* for all there are, and an empty set for none.
Permitted(q) ==
    /\ Accessible
    /\ IF namespaced THEN q.asked # 0 => AllowsNamespace(q.asked)
       ELSE q.asked = 0 /\ viewer.all
SpanAll(q) == ~namespaced \/ (q.asked = 0 /\ viewer.all)
Filter(q) == CASE ~namespaced -> {}
               [] namespaced /\ q.asked # 0 -> {q.asked}
               [] OTHER -> viewer.spaces
Fingerprint(q) == [query |-> [q EXCEPT !.asked = 0], all |-> SpanAll(q), spaces |-> Filter(q)]

\* newWalker, clipSpans: the rows left to look at, in order.
ClipAt(q, cursor, k) == cursor = NoList \/ k = cursor.key \/ Before2(q.descending, cursor.key, k)
Clip(q, cursor, k) == cursor = NoList \/ Before2(q.descending, cursor.key, k)
Remaining(q, cursor) ==
    ListOrder(q.descending,
            {k \in ListedKeys : (SpanAll(q) \/ k[1] \in Filter(q)) /\ Clip(q, cursor, k)})

MatchesQuery(q, k) == k[2] \in q.names /\ tableRows[k].label \in q.labels

\* page: how many rows it looks at, which of them it shows, and where it stops.
TablePage(q, cursor, limit) ==
    LET line == Remaining(q, cursor)
        found(n) == {k \in {line[i] : i \in 1..n} : MatchesQuery(q, k)}
        full == {n \in 1..Len(line) : Cardinality(found(n)) >= limit \/ n >= limit * ListScanFactor}
        examined == IF full = {} THEN Len(line) ELSE Min(full)
        shown == ListOrder(q.descending, found(examined))
    IN [items |-> [i \in DOMAIN shown |-> [key |-> shown[i], uid |-> tableRows[shown[i]].uid]],
        next |-> IF examined = Len(line) THEN NoList
                 ELSE [key |-> line[examined], print |-> Fingerprint(q)]]

FirstList(q, limit) ==
    /\ tableState = "ready" /\ Permitted(q)
    /\ LET page == TablePage(q, NoList, limit)
       IN paging' = [query |-> q, items |-> page.items, next |-> page.next,
                   print |-> Fingerprint(q), lasting |-> ListedKeys, gone |-> {}]
    /\ UNCHANGED <<namespaced, tableRows, tableState, viewer, recalled, listMoves>>

\* The next page, of this query or of another: a cursor is good for its own.
NextList(q, limit) ==
    /\ paging # NoList /\ paging.next # NoList
    /\ tableState = "ready" /\ Permitted(q)
    /\ paging.next.print = Fingerprint(q)
    /\ LET page == TablePage(q, paging.next, limit)
       IN paging' = [paging EXCEPT !.items = @ \o page.items, !.next = page.next]
    /\ UNCHANGED <<namespaced, tableRows, tableState, viewer, recalled, listMoves>>

\* Recent: of the references that the browser keeps, those that still stand for
\* the same object.
IsLive(item) == item.key \in ListedKeys /\ tableRows[item.key].uid = item.uid
ScopeAllows(item) == IF namespaced THEN AllowsNamespace(item.key[1]) ELSE viewer.all
Recall ==
    /\ paging # NoList /\ Accessible
    /\ recalled' = IF tableState # "ready" THEN {}
                   ELSE {item \in ToSet(paging.items) : ScopeAllows(item) /\ IsLive(item)}
    /\ UNCHANGED <<namespaced, tableRows, tableState, viewer, paging, listMoves>>

-----------------------------------------------------------------------------
\* The index is replaced: a row comes, goes or changes.
ListMoved == listMoves < MaxListMoves /\ listMoves' = listMoves + 1 /\ recalled' = {}
PublishTable(k) ==
    /\ ListMoved /\ (namespaced <=> k[1] # 0)
    /\ \E row \in {NoTableRow} \cup [uid : {listMoves + 2}, label : TableLabel]
                                \cup (IF k \in ListedKeys THEN [uid : {tableRows[k].uid}, label : TableLabel]
                                      ELSE {}) :
          /\ row # tableRows[k]
          /\ tableRows' = [tableRows EXCEPT ![k] = row]
          /\ paging' = IF paging = NoList THEN NoList
                     ELSE [paging EXCEPT !.lasting = @ \ {k},
                               !.gone = @ \cup {i \in ToSet(paging.items) :
                                                  i.key = k /\ (row = NoTableRow \/ row.uid # i.uid)}]
    /\ UNCHANGED <<namespaced, tableState, viewer>>
ChangeViewer ==
    /\ ListMoved
    /\ viewer' \in [all : {FALSE}, spaces : SUBSET (Spaces \ {0})] \cup {[all |-> TRUE, spaces |-> {}]}
    /\ viewer' # viewer
    /\ UNCHANGED <<namespaced, tableRows, tableState, paging>>
ChangeState ==
    /\ ListMoved
    /\ tableState' = IF tableState = "ready" THEN "syncing" ELSE "ready"
    /\ UNCHANGED <<namespaced, tableRows, viewer, paging>>

ResourceListNext ==
    \/ \E q \in Query, limit \in PageLimits : FirstList(q, limit) \/ NextList(q, limit)
    \/ Recall \/ ChangeViewer \/ ChangeState
    \/ \E k \in TableKey : PublishTable(k)

ResourceListSpec == ResourceListInit /\ [][ResourceListNext]_tableVars

-----------------------------------------------------------------------------
\* Whatever happens to the index and to the user's scope between the pages, a
\* row is shown once and in order and only if the query that began the list
\* covers it; and when there is no next page, no row is missing that was there
\* and the same all the time.  A recent item is resolved exactly if its object
\* is still there: one that has taken its name is not it.
Covered(k) == paging.print.all \/ k[1] \in paging.print.spaces
PagesAreExact ==
    /\ paging # NoList =>
         LET shown == [i \in DOMAIN paging.items |-> paging.items[i].key]
         IN /\ \A i, j \in DOMAIN shown :
                  i < j => Before2(paging.query.descending, shown[i], shown[j])
            /\ \A i \in DOMAIN shown : Covered(shown[i])
            /\ paging.next = NoList =>
                 \A k \in paging.lasting :
                    (k \in ToSet(shown)) <=> (Covered(k) /\ MatchesQuery(paging.query, k))
    /\ \A item \in recalled : item \notin paging.gone /\ ScopeAllows(item)
=============================================================================
