---------------------------- MODULE SearchLeases ----------------------------
(***************************************************************************)
(* Who pays for the generations of the search index                        *)
(* (internal/resourcecatalog/catalog.go: searchLease, searchView; the      *)
(* retained term of searchBudget in searchdelta.go).                       *)
(*                                                                         *)
(* A published index is a generation with a count of references: one of    *)
(* the publication and one of each request that walks it.  The ledgers -   *)
(* of the service and of the resource - count a generation until the last  *)
(* of them lets go.  Publications exclude each other and the moment at     *)
(* which a request borrows; requests let go without any lock.              *)
(*                                                                         *)
(* Left out: a publication of the list alone, which keeps the generation,  *)
(* and the bound on everything that is alive (SearchDelta).                *)
(***************************************************************************)
EXTENDS Naturals, FiniteSetsExt, SequencesExt, Functions

CONSTANTS
    GvrOrder,      \* the resources, in the order in which a request borrows
    Walker,        \* the requests that see the whole cluster
    IndexBytes,    \* the sizes that an index may have
    RetainedMax,   \* limit of the service
    OwnerMax,      \* limit of one resource
    MaxLeases,     \* bound: the generations ever published
    NoLease

\* A resource has one place in the order.
ASSUME SearchLeasesAssumption ==
    /\ IndexBytes \subseteq Nat \ {0}
    /\ RetainedMax \in Nat /\ OwnerMax \in Nat
    /\ GvrOrder \in Seq(ToSet(GvrOrder))
    /\ \A i, j \in DOMAIN GvrOrder : GvrOrder[i] = GvrOrder[j] => i = j
    /\ IsFiniteSet(Walker)
    /\ NoLease \notin Nat

VARIABLES
    leases,         \* the generations, in the order of their publication
    published,      \* the generation that a resource shows, or NoLease
    views,          \* what a request has borrowed, and what it is at
    retained,       \* searchBudget.retained
    ownerRetained   \* resourceEntry.ownerRetained

leaseVars == <<leases, published, views, retained, ownerRetained>>

Owners == ToSet(GvrOrder)
View(at, held, next, last) == [at |-> at, held |-> held, next |-> next, last |-> last]
NoView == View("idle", <<>>, 1, NoLease)
Generation(g, n, refs, retired, released) ==
    [owner |-> g, bytes |-> n, refs |-> refs, retired |-> retired, released |-> released]

SearchLeasesInit ==
    /\ leases = <<>>
    /\ published = [g \in Owners |-> NoLease]
    /\ views = [w \in Walker |-> NoView]
    /\ retained = 0
    /\ ownerRetained = [g \in Owners |-> 0]

-----------------------------------------------------------------------------
\* The generation l loses a reference; the one that takes the last of a
\* retired generation takes it out of the ledgers, once.
Dereferenced(all, l) == [all EXCEPT ![l].refs = @ - 1]
LastReference(l) == leases[l].refs = 1

\* installLeaseLocked: the old generation of g retires.
Retired(g) ==
    IF published[g] = NoLease THEN [all |-> leases, bytes |-> 0]
    ELSE LET l == published[g]
             gone == LastReference(l)
         IN [all |-> [leases EXCEPT ![l] =
                         Generation(@.owner, @.bytes, @.refs - 1, TRUE, gone)],
             bytes |-> IF gone THEN leases[l].bytes ELSE 0]

NewLeaseUnreferenced(g, n) == Generation(g, n, 0, FALSE, FALSE)
NewLease(g, n) == Generation(g, n, 1, FALSE, FALSE)

\* admitRetained, admitLeaseLocked: a new generation fits beside all that are
\* still paid for.
AdmitsLease(g, n) == retained + n <= RetainedMax /\ ownerRetained[g] + n <= OwnerMax

\* publishLeaseLocked.  A generation that does not fit is not published.
PublishLease(g) ==
    \E n \in IndexBytes :
        /\ Len(leases) < MaxLeases /\ AdmitsLease(g, n)
        /\ leases' = Append(Retired(g).all, NewLease(g, n))
        /\ published' = [published EXCEPT ![g] = Len(leases) + 1]
        /\ retained' = retained + n - Retired(g).bytes
        /\ ownerRetained' = [ownerRetained EXCEPT ![g] = @ + n - Retired(g).bytes]
        /\ UNCHANGED views

\* stopEntry: the index is discarded.
DiscardLease(g) ==
    /\ published[g] # NoLease
    /\ leases' = Retired(g).all
    /\ published' = [published EXCEPT ![g] = NoLease]
    /\ retained' = retained - Retired(g).bytes
    /\ ownerRetained' = [ownerRetained EXCEPT ![g] = @ - Retired(g).bytes]
    /\ UNCHANGED views

-----------------------------------------------------------------------------
\* acquireView: a request borrows what each resource shows, one after another.
Borrow(w) ==
    LET v == views[w]
        l == published[GvrOrder[v.next]]
    IN /\ v.at = "idle" /\ v.next <= Len(GvrOrder)
       /\ IF l = NoLease
          THEN /\ views' = [views EXCEPT ![w].next = @ + 1]
               /\ UNCHANGED leases
          ELSE /\ views' = [views EXCEPT ![w] = View("idle", Append(v.held, l), v.next + 1, v.last)]
               /\ leases' = [leases EXCEPT ![l].refs = @ + 1]
       /\ UNCHANGED <<published, retained, ownerRetained>>

\* releaseView, releaseSearch: it gives them back one after another.
GiveBackLease(w) ==
    LET v == views[w]
        l == Head(v.held)
    IN /\ v.at = "idle" /\ v.next > Len(GvrOrder)
       /\ IF v.held = <<>> THEN views' = [views EXCEPT ![w] = NoView] /\ UNCHANGED leases
          ELSE /\ leases' = Dereferenced(leases, l)
               /\ views' = [views EXCEPT ![w] =
                     View(IF LastReference(l) THEN "zero" ELSE "idle", Tail(v.held), v.next, l)]
       /\ UNCHANGED <<published, retained, ownerRetained>>

\* retireLeaseBytes: the last one marks the generation as released, then takes
\* its bytes out of one ledger and out of the other.
MarkReleased(w) ==
    LET l == views[w].last
    IN /\ views[w].at = "zero"
       /\ IF leases[l].retired /\ ~leases[l].released
          THEN /\ leases' = [leases EXCEPT ![l].released = TRUE]
               /\ views' = [views EXCEPT ![w].at = "owner"]
          ELSE /\ views' = [views EXCEPT ![w].at = "idle"]
               /\ UNCHANGED leases
       /\ UNCHANGED <<published, retained, ownerRetained>>

ReleaseOwner(w) ==
    LET l == views[w].last
    IN /\ views[w].at = "owner"
       /\ ownerRetained' = [ownerRetained EXCEPT ![leases[l].owner] = @ - leases[l].bytes]
       /\ views' = [views EXCEPT ![w].at = "service"]
       /\ UNCHANGED <<leases, published, retained>>

ReleaseService(w) ==
    /\ views[w].at = "service"
    /\ retained' = retained - leases[views[w].last].bytes
    /\ views' = [views EXCEPT ![w].at = "idle"]
    /\ UNCHANGED <<leases, published, ownerRetained>>

SearchLeasesNext ==
    \/ \E g \in Owners : PublishLease(g) \/ DiscardLease(g)
    \/ \E w \in Walker : \/ Borrow(w) \/ GiveBackLease(w) \/ MarkReleased(w)
                         \/ ReleaseOwner(w) \/ ReleaseService(w)

SearchLeasesSpec == SearchLeasesInit /\ [][SearchLeasesNext]_leaseVars

-----------------------------------------------------------------------------
\* A generation is alive while its resource shows it or a request holds it.
Alive(l) == \/ \E g \in Owners : published[g] = l
            \/ \E w \in Walker : l \in ToSet(views[w].held)
LeavingAt(places) == {views[w].last : w \in {x \in Walker : views[x].at \in places}}
BytesOfLeases(set) == SumFunctionOnSet([l \in DOMAIN leases |-> leases[l].bytes], set)
Of(g) == {l \in DOMAIN leases : leases[l].owner = g}
AliveLeases == {l \in DOMAIN leases : Alive(l)}

\* Both ledgers count every generation that someone may still read, and beside
\* those only the ones that a request is taking out at this moment: no reader
\* is without cover, none of the bytes stays behind, none is given back twice.
\* The limits hold with everything that slow readers keep alive.
GenerationsAreCounted ==
    /\ retained = BytesOfLeases(AliveLeases \cup LeavingAt({"zero", "owner", "service"}))
    /\ \A g \in Owners :
         ownerRetained[g] = BytesOfLeases(Of(g) \cap (AliveLeases \cup LeavingAt({"zero", "owner"})))
    /\ retained <= RetainedMax
    /\ \A g \in Owners : ownerRetained[g] <= OwnerMax
=============================================================================
