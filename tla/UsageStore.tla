----------------------------- MODULE UsageStore ------------------------------
(***************************************************************************)
(* The store of CPU and memory readings of the pods of each cluster        *)
(* (internal/clusterstate/usage_store.go) and the pollers that fill it     *)
(* (usage_poller.go), one per cluster.  What a poller brings is checked    *)
(* against the limits that all clusters share, copied outside the lock and *)
(* then put in place of the last good reading.  When a poller polls, and   *)
(* how long it waits after a failure, is left open: it may poll at any     *)
(* time, and a poll that fails changes nothing here.                       *)
(***************************************************************************)
EXTENDS Integers, Functions, FiniteSetsExt

CONSTANTS
    UsageCluster,
    PodUid, UidBytes,   \* what uids there are; the bytes each is charged
    UsageReading,       \* what may be measured of a pod: 0 is nothing used
    UsageLimits         \* the six limits of NewUsageStoreWithLimits

ASSUME UsageAssumption ==
    /\ IsFiniteSet(UsageCluster) /\ IsFiniteSet(PodUid)
    /\ UidBytes \in [PodUid -> Nat]
    /\ UsageLimits \in [clusterEntries : Nat, clusterBytes : Nat,
                       totalEntries : Nat, totalBytes : Nat,
                       peakEntries : Nat, peakBytes : Nat]

VARIABLES
    usageKept,           \* usageCluster.value: a map of uids to readings
    usageArriving,       \* the map that Update copies, for each cluster; or none
    usageTotal,     \* totalEntries, totalBytes
    usageReserved,  \* reservedEntries, reservedBytes
    usageBuilding   \* buildEntries, buildBytes

usageVars == <<usageKept, usageArriving, usageTotal, usageReserved, usageBuilding>>

UsageCharge(values) ==
    [entries |-> Cardinality(DOMAIN values),
     bytes |-> SumFunction([u \in DOMAIN values |-> UidBytes[u]])]
SumOf(a, b) == [entries |-> a.entries + b.entries, bytes |-> a.bytes + b.bytes]
LessOf(a, b) == [entries |-> a.entries - b.entries, bytes |-> a.bytes - b.bytes]
UsageWithin(a, entries, bytes) == a.entries <= entries /\ a.bytes <= bytes
NoUsage == [entries |-> 0, bytes |-> 0]

\* What a poller may bring: what Metrics.Usage gives, less the uids that the
\* catalog does not know, or nothing while the catalog is not available.
Snapshots == UNION {[s -> UsageReading] : s \in SUBSET PodUid}

UsageStoreInit ==
    /\ usageKept = [c \in UsageCluster |-> << >>]
    /\ usageArriving = [c \in UsageCluster |-> {}]
    /\ usageTotal = NoUsage /\ usageReserved = NoUsage /\ usageBuilding = NoUsage

\* Update reserves what the new map has more than the old: a map that is
\* smaller gives its room back only when it is in place.
\* Variant: the difference counts, also when it is less than nothing.
UsageGrowthSigned(old, new) == LessOf(UsageCharge(new), UsageCharge(old))
UsageGrowth(old, new) ==
    LET delta == LessOf(UsageCharge(new), UsageCharge(old))
    IN  [entries |-> Max({0, delta.entries}), bytes |-> Max({0, delta.bytes})]

UsageHasRoom(c, values) ==
    /\ UsageWithin(UsageCharge(values), UsageLimits.clusterEntries, UsageLimits.clusterBytes)
    /\ UsageWithin(SumOf(usageTotal, SumOf(usageReserved, UsageGrowth(usageKept[c], values))),
              UsageLimits.totalEntries, UsageLimits.totalBytes)
    /\ UsageWithin(SumOf(usageTotal, SumOf(usageBuilding, UsageCharge(values))),
              UsageLimits.peakEntries, UsageLimits.peakBytes)

\* sameUsageSnapshot: a uid that the old map does not know reads as nothing
\* used there.
SameSnapshot(old, values) ==
    /\ UsageCharge(old) = UsageCharge(values)
    /\ \A u \in DOMAIN values :
         values[u] = IF u \in DOMAIN old THEN old[u] ELSE 0

\* Update up to the copy.  A map that says what is known, or that there is
\* no room for, changes nothing.
UsageAdmitted(c, values) ==
    /\ usageArriving[c] = {} /\ ~SameSnapshot(usageKept[c], values) /\ UsageHasRoom(c, values)
    /\ usageArriving' = [usageArriving EXCEPT ![c] = {values}]
    /\ usageReserved' = SumOf(usageReserved, UsageGrowth(usageKept[c], values))
    /\ usageBuilding' = SumOf(usageBuilding, UsageCharge(values))
    /\ UNCHANGED <<usageKept, usageTotal>>

\* Update after the copy.
UsageStored(c) ==
    /\ \E values \in usageArriving[c] :
         /\ usageKept' = [usageKept EXCEPT ![c] = values]
         /\ usageTotal' = SumOf(usageTotal, LessOf(UsageCharge(values), UsageCharge(usageKept[c])))
         /\ usageReserved' = LessOf(usageReserved, UsageGrowth(usageKept[c], values))
         /\ usageBuilding' = LessOf(usageBuilding, UsageCharge(values))
    /\ usageArriving' = [usageArriving EXCEPT ![c] = {}]

UsageStoreNext ==
    \E c \in UsageCluster :
        \/ \E values \in Snapshots : UsageAdmitted(c, values)
        \/ UsageStored(c)

UsageStoreSpec == UsageStoreInit /\ [][UsageStoreNext]_usageVars

-----------------------------------------------------------------------------
UsageOf(c) == UsageCharge(usageKept[c])
UsageCopied(c) == IF usageArriving[c] = {} THEN NoUsage
                  ELSE UsageCharge(CHOOSE v \in usageArriving[c] : TRUE)
UsageInUse ==
    [entries |-> SumFunction([c \in UsageCluster |-> UsageOf(c).entries]),
     bytes |-> SumFunction([c \in UsageCluster |-> UsageOf(c).bytes])]
UsageInCopy ==
    [entries |-> SumFunction([c \in UsageCluster |-> UsageCopied(c).entries]),
     bytes |-> SumFunction([c \in UsageCluster |-> UsageCopied(c).bytes])]

\* However the pollers of the clusters interleave: the totals are what is
\* kept, what is kept never passes the total limits, and what is kept and being
\* copied never passes the peak limits.  (UsageStore.Update.)
UsageIsAccounted ==
    /\ usageTotal = UsageInUse
    /\ UsageWithin(usageTotal, UsageLimits.totalEntries, UsageLimits.totalBytes)
    /\ UsageWithin(SumOf(usageTotal, UsageInCopy),
                   UsageLimits.peakEntries, UsageLimits.peakBytes)
=============================================================================
