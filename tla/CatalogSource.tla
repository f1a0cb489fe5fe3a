--------------------------- MODULE CatalogSource ---------------------------
(***************************************************************************)
(* What the central registry promises to the readers of one cluster: a     *)
(* versioned catalog that changes one step at a time, and for every change *)
(* exactly one notification, in the order of the changes.                  *)
(*                                                                         *)
(* A version is named by the epoch of the agent session that sent the      *)
(* snapshot and by the sequence number of the last delta applied to it.    *)
(* ClusterRegistry implements this module for each of its clusters;        *)
(* WatchFeed extends it with the readers.                                  *)
(***************************************************************************)
EXTENDS Integers

CONSTANTS
  Key,       \* resource identities: kind and uid
  Value,     \* resource payloads
  None,      \* the absent snapshot, value or notification
  MaxEpoch,  \* bound of the model on epochs
  MaxSeq     \* bound of the model on sequence numbers

ASSUME SourceAssumption ==
  /\ MaxEpoch \in Nat
  /\ MaxSeq \in Nat

VARIABLES
  live,      \* the committed version, None when there is no state to serve
  change     \* the last notification published

sourceVars == <<live, change>>

Epoch == 1 .. MaxEpoch
Seqno == 0 .. MaxSeq

\* A catalog maps some of the keys to their payloads.
Resources == UNION {[K -> Value] : K \in SUBSET Key}

NoResources == [k \in {} |-> None]

Version == [epoch : Epoch, seq : Seqno, res : Resources]

\* Registry.apply on the resource map: upsert or delete one key.
Put(res, k, v)  == [x \in DOMAIN res \cup {k} |-> IF x = k THEN v ELSE res[x]]
Drop(res, k)    == [x \in DOMAIN res \ {k} |-> res[x]]
Applied(res, k, v, deleted) == IF deleted THEN Drop(res, k) ELSE Put(res, k, v)

\* The notifications of WatchChange.  A delta carries the changed resource
\* and what the registry says happened to it.
Action == {"created", "updated", "deleted"}

ActionOf(res, k, deleted) ==
  IF deleted THEN "deleted" ELSE IF k \in DOMAIN res THEN "updated" ELSE "created"

Reset(e, s)     == [type |-> "reset", epoch |-> e, seq |-> s]
Heartbeat(e, s) == [type |-> "heartbeat", epoch |-> e, seq |-> s]
Expired         == [type |-> "expired"]
Delta(e, s, k, v, a) ==
  [type |-> "delta", epoch |-> e, seq |-> s, key |-> k, value |-> v, action |-> a]

Change ==
  [type : {"reset", "heartbeat"}, epoch : Epoch, seq : Seqno]
    \cup [type : {"expired"}]
    \cup [type : {"delta"}, epoch : Epoch, seq : Seqno,
          key : Key, value : Value, action : Action]

SourceTypeOK ==
  /\ live \in Version \cup {None}
  /\ change \in Change \cup {None}

SourceInit ==
  /\ live = None
  /\ change = None

-----------------------------------------------------------------------------

\* A snapshot is committed: as a whole, and never with an epoch that is not
\* newer than the epoch it replaces.
Install(e, s, res) ==
  /\ live # None => e > live.epoch
  /\ live' = [epoch |-> e, seq |-> s, res |-> res]
  /\ change' = Reset(e, s)

\* One delta is applied: the next sequence number of the same epoch.
Mutate(k, v, deleted) ==
  /\ live # None
  /\ live.seq < MaxSeq
  /\ live' = [epoch |-> live.epoch, seq |-> live.seq + 1,
              res |-> Applied(live.res, k, v, deleted)]
  /\ change' = Delta(live.epoch, live.seq + 1, k, v, ActionOf(live.res, k, deleted))

\* The agent confirms the version the registry holds.
Beat ==
  /\ live # None
  /\ change' = Heartbeat(live.epoch, live.seq)
  /\ UNCHANGED live

\* The state is released after its stale serving window.
Expire ==
  /\ live # None
  /\ live' = None
  /\ change' = Expired

\* The registry keeps its state in memory only: a restart forgets it.
Forget ==
  /\ live' = None
  /\ change' = None

\* What the repository's agent makes of it, which sends less than the
\* registry would take: an epoch is the number of its session, never used
\* twice in one life of the registry process (last is the newest so far, next
\* the newest after the step), a session starts at sequence number 0, and
\* only what was sent before is deleted.
Fed(last, next) ==
  \/ \E e \in Epoch, res \in Resources : e > last /\ Install(e, 0, res) /\ next = e
  \/ \E k \in Key, v \in Value, deleted \in BOOLEAN :
       /\ live # None
       /\ deleted => k \in DOMAIN live.res
       /\ Mutate(k, v, deleted)
       /\ next = last
  \/ Beat /\ next = last
  \/ Expire /\ next = last

SourceNext ==
  \/ \E e \in Epoch, s \in Seqno, res \in Resources : Install(e, s, res)
  \/ \E k \in Key, v \in Value, deleted \in BOOLEAN : Mutate(k, v, deleted)
  \/ Beat
  \/ Expire
  \/ Forget

SourceSpec == SourceInit /\ [][SourceNext]_sourceVars
=============================================================================
