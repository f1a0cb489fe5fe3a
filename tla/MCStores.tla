------------------------------ MODULE MCStores ------------------------------
(***************************************************************************)
(* The parts of the system whose safety is checked, side by side.  They    *)
(* share no state and no step, so one of them runs and the others stay     *)
(* where they began: the behaviours are those of each part on its own.     *)
(***************************************************************************)
EXTENDS Stores, StreamHub, AlertPoller, PostingTree, RowDirectory,
        ResourceSearch, PartIndex, ReviewDiff,
        ObjectReview, MCScreens

CONSTANTS
    admin, tab1, root, user,            \* the signals
    i1, i2, ask1, ask2,                 \* the query cache
    draft1, draft2, author,             \* the drafts
    a1, a2, uid, n2,                    \* the alerts
    gvr1, gvr2                          \* the search index

VARIABLE which

Parts == {"signals", "cache", "local", "refresh", "sessions", "roles", "guard",
          "edit", "list", "alerts", "upstream", "postings", "rows",
          "search", "parts", "leases",
          "pages", "diff", "reviews", "screens", "grouping", "usage"}

MCSubjectOf == [c \in Client |-> IF c = admin THEN root ELSE user]
MCScope == [c \in Client |-> {shop}]
MCHomeOf == [a \in Asker |-> IF a = ask2 THEN i2 ELSE i1]
MCAccountOf == [p \in Page |-> author]
MCLabelOf == [a \in Alert |-> IF a = a1 THEN n2 ELSE ClusterWide]
MCNamespaceOf == [u \in Uid |-> n2]
MCGvrOf == <<1, 1, 1, 2>>
MCNsOf == <<1, 1, 2, 1>>
MCNameOf == <<1, 2, 1, 1>>
MCTokenText == <<<<1>>, <<1, 1>>, <<1, 1, 2>>, <<2>>, <<2, 1>>>>
MCBaseTokens == <<{2}, {4}, {2}, {2}>>
MCQueryText == <<1>>
MCNameToken == <<2, 4, 2>>
MCSpaceToken == <<4, 4, 4>>
MCRecord(u, ls, c) == [uid |-> u, labels |-> ls, cut |-> c]
MCPartEvents ==
    [space : {1}, name : 1..3,
     input : {NoInput, MCRecord(1, {}, FALSE), MCRecord(1, {1}, FALSE), MCRecord(2, {1, 3}, FALSE)}]
    \cup [space : {2, 3}, name : {1}, input : {NoInput, MCRecord(1, {2}, TRUE)}]
MCTreeLeafMax == [rows |-> 2, posts |-> 8]
MCGvrOrder == <<gvr1, gvr2>>
MCTableKey == {<<0, 1>>, <<1, 1>>, <<1, 2>>, <<2, 1>>}
MCLeafs(f) == Map([k \in DOMAIN f |-> Leaf(f[k])])
MCItem(n, v) == MCLeafs((1 :> n) @@ (2 :> v))
MCSpecs ==
    {Leaf(1), Leaf(2), MCLeafs(<<1>>), MCLeafs(<<2, 1>>), MCLeafs(2 :> 1),
     List(<<>>), List(<<Leaf(1)>>), List(<<Leaf(2), Leaf(1)>>),
     List(<<MCItem(1, 1)>>), List(<<MCItem(1, 1), MCItem(2, 1)>>),
     List(<<MCItem(2, 1), MCItem(1, 1)>>), List(<<MCItem(1, 2), MCItem(3, 1)>>),
     List(<<MCItem(1, 1), MCItem(1, 2)>>),
     Map(1 :> Map(1 :> MCLeafs(<<1>>))), Map(1 :> Map(1 :> MCLeafs(<<2, 1>>)))}
MCSides == {<<>>, (1 :> Leaf(1)) @@ (2 :> MCLeafs(2 :> 1)),
            (1 :> Leaf(2)) @@ (2 :> MCLeafs(<<1, 2>>)),
            (2 :> MCLeafs(1 :> 2)) @@ (4 :> Leaf(1))}
MCObjects == {Map(side) : side \in MCSides}
                 \cup {Map(side @@ (3 :> spec)) : side \in MCSides, spec \in MCSpecs}

MCRawAlert ==
    LET raw(f, sp, name, start, podUid, ownerUid, pod) ==
            [fingerprint |-> f, mine |-> TRUE, sound |-> TRUE, space |-> sp,
             name |-> name, start |-> start, end |-> 31, podUid |-> podUid,
             ownerUid |-> ownerUid, pod |-> pod, owner |-> 0]
    IN  {raw(1, 1, 1, 10, 1, 0, 0), raw(1, 1, 1, 11, 1, 0, 0),
         raw(2, 1, 1, 12, 0, 1, 0), raw(2, 1, 1, 20, 0, 1, 2),
         raw(3, 1, 1, 12, 3, 0, 0), raw(3, 0, 1, 12, 0, 1, 1),
         raw(4, 2, 1, 20, 3, 2, 0), raw(5, 1, 2, 36, 1, 1, 0),
         raw(5, 1, 1, 10, 3, 1, 0),
         [raw(5, 1, 1, 10, 3, 1, 0) EXCEPT !.end = 29],
         [raw(5, 1, 1, 10, 3, 1, 0) EXCEPT !.owner = 2]}
MCPod(space, name, u, owner, ownerUid) ==
    [space |-> space, name |-> name, uid |-> u, owner |-> owner, ownerUid |-> ownerUid]
MCPodCatalog ==
    {<<>>,
     <<MCPod(1, 1, 1, 1, 1), MCPod(1, 2, 2, 1, 1), MCPod(1, 3, 3, 0, 0)>>,
     <<MCPod(1, 1, 1, 1, 1), MCPod(1, 2, 2, 2, 1), MCPod(2, 1, 3, 1, 2)>>,
     <<MCPod(1, 1, 1, 1, 1), MCPod(1, 2, 3, 1, 1), MCPod(2, 1, 1, 1, 2)>>}
MCAlertTarget ==
    {[namespace |-> 1, namespaces |-> {}], [namespace |-> 0, namespaces |-> {}],
     [namespace |-> 0, namespaces |-> {1, 2}], [namespace |-> 0, namespaces |-> {1}]}
MCUidBytes == <<1, 2, 2>>
MCUsageLimits ==
    [clusterEntries |-> 2, totalEntries |-> 3, peakEntries |-> 4,
     clusterBytes |-> 4, totalBytes |-> 5, peakBytes |-> 7]

partVars == <<signalVars, cacheVars, lruVars, refreshVars, sessionVars,
              userinfoVars, guardVars, draftVars, pollVars, upstreamVars,
              postTreeVars, rowTreeVars, searchVars,
              partIndexVars, leaseVars, tableVars, diffVars, reviewVars,
              screenVars, groupingVars, usageVars, which>>

StoresInit ==
    /\ which \in Parts
    /\ StreamInit /\ CacheInit /\ LocalCacheInit /\ RefreshInit
    /\ SessionIndexInit /\ UserinfoInit /\ QueryGuardInit
    /\ DashboardDraftsInit /\ AlertPollerInit /\ UpstreamInit
    /\ PostingTreeInit /\ RowDirectoryInit
    /\ ResourceSearchInit
    /\ which = "search" \/ (userScope = Unlimited /\ \A o \in Objects : searchRows[o] = NoRow)
    /\ PartIndexInit /\ SearchLeasesInit
    /\ ResourceListInit
    /\ which = "pages" \/ (/\ namespaced /\ ~viewer.all /\ viewer.spaces = {}
                           /\ \A k \in TableKey : tableRows[k] = NoTableRow)
    /\ ReviewDiffInit
    /\ which = "diff" \/ (current = Map(<<>>) /\ patched = Map(<<>>))
    /\ ObjectReviewInit
    /\ IF which = "screens" THEN CentralScreensInit
       ELSE /\ mode = "direct" /\ clock = 0 /\ opened = 0
            /\ world = Nothing /\ mirror = Nothing /\ asked = Nothing /\ reply = Nothing /\ kept = Nothing
    /\ IF which = "grouping" THEN AlertGroupsInit
       ELSE /\ alertList = << >> /\ alertCatalog = << >>
            /\ alertTarget = [namespace |-> 1, namespaces |-> {}]
            /\ alertGroups = << >>
    /\ UsageStoreInit

\* A part moves when it is the one that runs.
Runs(part, moves, stays) == IF which = part THEN moves ELSE stays

StoresNext ==
    /\ UNCHANGED which
    /\ Runs("signals", StreamNext, UNCHANGED signalVars)
    /\ Runs("cache", CacheNext, UNCHANGED cacheVars)
    /\ Runs("local", LocalCacheNext, UNCHANGED lruVars)
    /\ Runs("refresh", RefreshNext, UNCHANGED refreshVars)
    /\ Runs("sessions", SessionIndexNext, UNCHANGED sessionVars)
    /\ Runs("roles", UserinfoNext, UNCHANGED userinfoVars)
    /\ Runs("guard", QueryGuardNext, UNCHANGED guardVars)
    /\ CASE which = "edit" -> \E p \in Page : PageNext(p)
         [] which = "list" -> PageNext(draft1) \/ ListNext
         [] OTHER -> UNCHANGED draftVars
    /\ Runs("alerts", AlertPollerNext, UNCHANGED pollVars)
    /\ Runs("upstream", UpstreamNext, UNCHANGED upstreamVars)
    /\ Runs("postings", PostingTreeNext, UNCHANGED postTreeVars)
    /\ Runs("rows", RowDirectoryNext, UNCHANGED rowTreeVars)
    /\ Runs("search", ResourceSearchNext, UNCHANGED searchVars)
    /\ Runs("parts", PartIndexNext, UNCHANGED partIndexVars)
    /\ Runs("leases", SearchLeasesNext, UNCHANGED leaseVars)
    /\ Runs("pages", ResourceListNext, UNCHANGED tableVars)
    /\ Runs("diff", ReviewDiffNext, UNCHANGED diffVars)
    /\ Runs("reviews", ObjectReviewNext, UNCHANGED reviewVars)
    /\ Runs("screens", CentralScreensNext, UNCHANGED screenVars)
    /\ Runs("grouping", AlertGroupsNext, UNCHANGED groupingVars)
    /\ Runs("usage", UsageStoreNext, UNCHANGED usageVars)

StoresSpec == StoresInit /\ [][StoresNext]_partVars

-----------------------------------------------------------------------------
(* Correctness, of parts that promise the same: with those of Stores.  A   *)
(* conjunct that costs time is looked at where its part runs: elsewhere    *)
(* the part is where it began.                                             *)

(* The trees of the search index give back what was put in: every cursor   *)
(* of the postings sees the same rest (searchtree.go), and the fold of the *)
(* rows includes what a walk of the rows would (searchindex.go).           *)
TreesAreExact ==
    /\ which = "postings" => CursorIsExact
    /\ which = "rows" => FoldIsGreedy

(* A search walked to its end shows every wanted object once, whatever     *)
(* moves, and the two ways of answering a page agree (search.go).          *)
SearchIsExact == WalkIsComplete /\ PathsAgree
=============================================================================
