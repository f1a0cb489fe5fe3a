-------------------------- MODULE ClusterRegistry --------------------------
(***************************************************************************)
(* The central cluster-state registry and the Sync handlers that feed it.  *)
(*                                                                         *)
(* Every remote agent keeps one Sync stream.  Its Hello opens a session    *)
(* (a generation number), which preempts the cluster's earlier session     *)
(* even while the handler of the old stream is still running.  A session   *)
(* transfers a snapshot (Begin, chunks, Commit) into a staging area that   *)
(* replaces the live state as a whole, then deltas and heartbeats.         *)
(*                                                                         *)
(* Simplifications, all on the data: a resource is a key and a payload of  *)
(* known weight; the wall clock is the age of the last sign of life of     *)
(* each cluster, saturating once every window has passed; a chunk of       *)
(* n resources is n StageResource steps (the handler stages them one after *)
(* the other and keeps those before a refused one); a delta is charged     *)
(* only if it is applied (the handler charges it, applies it, and takes    *)
(* the charge back when that fails, all under the cluster's lock).         *)
(***************************************************************************)
EXTENDS Integers, Sequences, FiniteSets, Functions

CONSTANTS
  Cluster, Key, Value, None,
  Weight,            \* Weight[v]: encoded bytes of a resource with payload v
  Overhead,          \* bytes a delta frame adds to its resource
  MaxClusters, MaxResources, MaxPending, MaxStateBytes, MaxTotalStateBytes,
  HeartbeatTimeout, StaleTTL,
  MaxGeneration, MaxEpoch, MaxSeq   \* bounds of the model

ASSUME RegistryAssumption ==
  /\ IsFiniteSet(Cluster)
  /\ Weight \in [Value -> Nat \ {0}]
  /\ Overhead \in Nat \ {0}
  /\ {MaxClusters, MaxResources, MaxPending} \subseteq Nat \ {0}
  /\ {MaxStateBytes, MaxTotalStateBytes} \subseteq Nat
  /\ MaxTotalStateBytes >= MaxStateBytes
  /\ HeartbeatTimeout \in Nat \ {0}
  /\ StaleTTL \in Nat \ {0}
  /\ HeartbeatTimeout <= StaleTTL
  /\ {MaxGeneration, MaxEpoch, MaxSeq} \subseteq Nat

VARIABLES
  live,         \* live[c]: the committed snapshot, or None
  staging,      \* staging[c]: the snapshot being received, or None
  pending,      \* pending[c]: deltas that arrived while a snapshot is staged
  pendingBytes, \* pendingBytes[c]: their encoded size
  connected,    \* connected[c]: a session is open
  generation,   \* generation[c]: number of the latest session
  silence,      \* silence[c]: time since the last Hello or heartbeat of an open
                \* session, else since the session closed
  committing,   \* committing[c]: the Commit that holds the cluster's lock
  totalBytes,   \* bytes charged to all clusters (an atomic counter)
  stream,       \* stream[c][g]: the Sync handler that opened session g
  change        \* change[c]: the last notification published for c

clusterVars == <<live, staging, pending, pendingBytes, connected, generation,
                 silence, committing>>
vars == <<clusterVars, totalBytes, stream, change>>

Source(c) == INSTANCE CatalogSource WITH
  live   <- IF live[c] = None THEN None
            ELSE [epoch |-> live[c].epoch, seq |-> live[c].seq, res |-> live[c].res],
  change <- change[c]

S == INSTANCE CatalogSource

Generation == 1 .. MaxGeneration
Epoch      == 1 .. MaxEpoch
Seqno      == 0 .. MaxSeq
MaxAge     == HeartbeatTimeout + StaleTTL + 1
Age        == 0 .. MaxAge

\* A snapshot, live or staged.  owner is history: the session that staged it.
Snapshot == [epoch : Epoch, seq : Seqno, res : S!Resources, bytes : Int,
             owner : Generation]

DeltaFrame == [epoch : Epoch, seq : Seqno, key : Key, value : Value,
               deleted : BOOLEAN]

\* Where a Sync handler is: waiting for a frame, past the ingress check with a
\* frame in hand, returning with an error, or over.
StreamState == {"none", "recv", "admitted", "ending", "closed"}

Commit == [stream : Generation, retained : Int]

ASSUME NoneAssumption == None \notin Snapshot \cup S!Version \cup Commit

TypeOK ==
  /\ live \in [Cluster -> Snapshot \cup {None}]
  /\ staging \in [Cluster -> Snapshot \cup {None}]
  /\ pending \in [Cluster -> Seq(DeltaFrame)]
  /\ pendingBytes \in [Cluster -> Nat]
  /\ connected \in [Cluster -> BOOLEAN]
  /\ generation \in [Cluster -> 0 .. MaxGeneration]
  /\ silence \in [Cluster -> Age]
  /\ committing \in [Cluster -> Commit \cup {None}]
  /\ totalBytes \in Int
  /\ stream \in [Cluster -> [Generation -> StreamState]]
  /\ change \in [Cluster -> S!Change \cup {None}]

Init ==
  /\ live = [c \in Cluster |-> None]
  /\ staging = [c \in Cluster |-> None]
  /\ pending = [c \in Cluster |-> <<>>]
  /\ pendingBytes = [c \in Cluster |-> 0]
  /\ connected = [c \in Cluster |-> FALSE]
  /\ generation = [c \in Cluster |-> 0]
  /\ silence = [c \in Cluster |-> 0]
  /\ committing = [c \in Cluster |-> None]
  /\ totalBytes = 0
  /\ stream = [c \in Cluster |-> [g \in Generation |-> "none"]]
  /\ change = [c \in Cluster |-> None]

-----------------------------------------------------------------------------
(* Helpers *)

Size(d) == Weight[d.value] + Overhead

BytesOf(snapshot) == IF snapshot = None THEN 0 ELSE snapshot.bytes

\* retainedBytes
Retained(c) == BytesOf(live[c]) + BytesOf(staging[c]) + pendingBytes[c]

\* Mistake: the budget is tested before the charge is added.
FitsBeforeCharge(n) == n <= 0 \/ totalBytes <= MaxTotalStateBytes

\* reserveBytes: a release always succeeds, a charge only within the budget.
Fits(n) == n <= 0 \/ totalBytes + n <= MaxTotalStateBytes
Charged(n) == IF Fits(n) THEN totalBytes + n ELSE totalBytes

\* The cluster's mutex is free (only Commit keeps it over several steps).
Unlocked(c) == committing[c] = None

\* Mistake: a handler only asks whether some session is open.
SessionOpen(c, g) == connected[c]

SessionValid(c, g) == connected[c] /\ generation[c] = g

\* Registry.apply: the snapshot after upserting or deleting one resource, and
\* whether the per-cluster byte limit allows it.
OldWeight(snapshot, k) == IF k \in DOMAIN snapshot.res THEN Weight[snapshot.res[k]] ELSE 0
NewWeight(v, deleted) == IF deleted THEN 0 ELSE Weight[v]
Growth(snapshot, k, v, deleted) == NewWeight(v, deleted) - OldWeight(snapshot, k)

ApplyFits(snapshot, k, v, deleted) ==
  deleted \/ snapshot.bytes + Growth(snapshot, k, v, deleted) <= MaxStateBytes

\* Mistake: the version records the delta expected next.
ApplyAhead(snapshot, d) ==
  [snapshot EXCEPT !.res = S!Applied(@, d.key, d.value, d.deleted),
                   !.bytes = @ + Growth(snapshot, d.key, d.value, d.deleted),
                   !.seq = d.seq + 1]

\* Mistake: a delta changes the resources and not the version.
ApplyUnversioned(snapshot, d) ==
  [snapshot EXCEPT !.res = S!Applied(@, d.key, d.value, d.deleted),
                   !.bytes = @ + Growth(snapshot, d.key, d.value, d.deleted)]

Apply(snapshot, d) ==
  [epoch |-> d.epoch,
   seq   |-> d.seq,
   res   |-> S!Applied(snapshot.res, d.key, d.value, d.deleted),
   bytes |-> snapshot.bytes + Growth(snapshot, d.key, d.value, d.deleted),
   owner |-> snapshot.owner]

\* The handler of session g goes on to the next frame, or gives up.
Answer(c, g) == stream' = [stream EXCEPT ![c][g] = "recv"]
GiveUp(c, g) == stream' = [stream EXCEPT ![c][g] = "ending"]

\* Mistake: the size of the dropped deltas is kept.
DropStagingKeepsBytes(c) ==
  /\ staging' = [staging EXCEPT ![c] = None]
  /\ pending' = [pending EXCEPT ![c] = <<>>]
  /\ UNCHANGED pendingBytes

DropStaging(c) ==
  /\ staging' = [staging EXCEPT ![c] = None]
  /\ pending' = [pending EXCEPT ![c] = <<>>]
  /\ pendingBytes' = [pendingBytes EXCEPT ![c] = 0]

-----------------------------------------------------------------------------
(* Sessions *)

\* OpenSession: the Hello of a new stream.
OpenSession(c) ==
  LET g == generation[c] + 1 IN
  /\ Unlocked(c)
  /\ g \in Generation
  /\ generation[c] > 0
       \/ Cardinality({d \in Cluster : generation[d] > 0}) < MaxClusters
  /\ totalBytes' = Charged(BytesOf(live[c]) - Retained(c))
  /\ DropStaging(c)
  /\ generation' = [generation EXCEPT ![c] = g]
  /\ connected' = [connected EXCEPT ![c] = TRUE]
  /\ silence' = [silence EXCEPT ![c] = 0]
  /\ stream' = [stream EXCEPT ![c][g] = "recv"]
  /\ UNCHANGED <<live, committing, change>>

\* ConsumeIngressSession lets a frame of a valid session through; the lock is
\* released before the frame's handler takes it again.
Admit(c, g) ==
  /\ Unlocked(c)
  /\ stream[c][g] = "recv"
  /\ SessionValid(c, g)
  /\ stream' = [stream EXCEPT ![c][g] = "admitted"]
  /\ UNCHANGED <<clusterVars, totalBytes, change>>

\* The ingress check refuses the frame: rate exceeded or session preempted.
RefuseIngress(c, g) ==
  /\ Unlocked(c)
  /\ stream[c][g] = "recv"
  /\ GiveUp(c, g)
  /\ UNCHANGED <<clusterVars, totalBytes, change>>

\* The frame is refused with an error, which ends the stream: a malformed
\* frame, epoch 0, a chunk without Begin or over a limit, a preempted Begin.
RefuseFrame(c, g) ==
  /\ Unlocked(c)
  /\ stream[c][g] = "admitted"
  /\ GiveUp(c, g)
  /\ UNCHANGED <<clusterVars, totalBytes, change>>

\* The frame is nacked and changes nothing: preempted session, gap, epoch or
\* state mismatch, a limit.  An agent can send such a frame at any time.
Nack(c, g) ==
  /\ Unlocked(c)
  /\ stream[c][g] = "admitted"
  /\ Answer(c, g)
  /\ UNCHANGED <<clusterVars, totalBytes, change>>

\* Sync returns (end of stream or error) and its deferred DisconnectSession
\* closes the session unless a newer one has taken the cluster over.
EndStream(c, g) ==
  /\ Unlocked(c)
  /\ stream[c][g] \in {"recv", "ending"}
  /\ stream' = [stream EXCEPT ![c][g] = "closed"]
  /\ IF generation[c] = g
     THEN /\ totalBytes' = Charged(BytesOf(live[c]) - Retained(c))
          /\ DropStaging(c)
          /\ connected' = [connected EXCEPT ![c] = FALSE]
          /\ silence' = [silence EXCEPT ![c] = 0]
          /\ UNCHANGED <<live, generation, committing>>
     ELSE UNCHANGED <<clusterVars, totalBytes>>
  /\ UNCHANGED change

-----------------------------------------------------------------------------
(* Frames of an admitted stream *)

\* BeginSession
BeginSnapshot(c, g, e, s) ==
  /\ Unlocked(c)
  /\ stream[c][g] = "admitted"
  /\ SessionValid(c, g)
  /\ totalBytes' = Charged(BytesOf(live[c]) - Retained(c))
  /\ staging' = [staging EXCEPT ![c] =
       [epoch |-> e, seq |-> s, res |-> S!NoResources, bytes |-> 0, owner |-> g]]
  /\ pending' = [pending EXCEPT ![c] = <<>>]
  /\ pendingBytes' = [pendingBytes EXCEPT ![c] = 0]
  /\ Answer(c, g)
  /\ UNCHANGED <<live, connected, generation, silence, committing, change>>

\* ChunkSession, one resource of a chunk.
StageResource(c, g, k, v) ==
  LET growth == Growth(staging[c], k, v, FALSE)
      upsert == [epoch |-> staging[c].epoch, seq |-> staging[c].seq, key |-> k,
                 value |-> v, deleted |-> FALSE]
  IN
  /\ Unlocked(c)
  /\ stream[c][g] = "admitted"
  /\ SessionValid(c, g)
  /\ staging[c] # None
  /\ k \in DOMAIN staging[c].res \/ Cardinality(DOMAIN staging[c].res) < MaxResources
  /\ staging[c].bytes + growth <= MaxStateBytes
  /\ Fits(growth)
  /\ totalBytes' = Charged(growth)
  /\ staging' = [staging EXCEPT ![c] = Apply(staging[c], upsert)]
  /\ Answer(c, g)
  /\ UNCHANGED <<live, pending, pendingBytes, connected, generation, silence,
                 committing, change>>

\* DeltaSession on the live state.
ApplyDelta(c, g, k, v, deleted) ==
  LET d == [epoch |-> live[c].epoch, seq |-> live[c].seq + 1, key |-> k,
            value |-> v, deleted |-> deleted]
      growth == Growth(live[c], k, v, deleted)
  IN
  /\ Unlocked(c)
  /\ stream[c][g] = "admitted"
  /\ SessionValid(c, g)
  /\ live[c] # None
  /\ live[c].seq < MaxSeq
  /\ staging[c] = None
  /\ Fits(growth)
  /\ ApplyFits(live[c], k, v, deleted)
  /\ totalBytes' = Charged(growth)
  /\ live' = [live EXCEPT ![c] = Apply(live[c], d)]
  /\ change' = [change EXCEPT ![c] =
       S!Delta(d.epoch, d.seq, k, v, S!ActionOf(live[c].res, k, deleted))]
  /\ Answer(c, g)
  /\ UNCHANGED <<staging, pending, pendingBytes, connected, generation, silence,
                 committing>>

\* The sequence number a delta is measured against.
AppliedSeq(c) == IF live[c] = None THEN 0 ELSE live[c].seq

\* DeltaSession acks a delta it has seen before, and ignores it.  While a
\* snapshot is staged the epoch is not compared.
AckDuplicate(c, g, e, s) ==
  /\ Unlocked(c)
  /\ stream[c][g] = "admitted"
  /\ SessionValid(c, g)
  /\ \/ staging[c] # None
     \/ live[c] # None /\ live[c].epoch = e
  /\ s <= AppliedSeq(c)
  /\ Answer(c, g)
  /\ UNCHANGED <<clusterVars, totalBytes, change>>

\* DeltaSession while a snapshot is staged: the delta waits for the Commit.
QueueDelta(c, g, d) ==
  /\ Unlocked(c)
  /\ stream[c][g] = "admitted"
  /\ SessionValid(c, g)
  /\ staging[c] # None
  /\ d.seq > AppliedSeq(c)
  /\ Len(pending[c]) < MaxPending
  /\ staging[c].bytes + pendingBytes[c] + Size(d) <= MaxStateBytes
  /\ Fits(Size(d))
  /\ totalBytes' = Charged(Size(d))
  /\ pending' = [pending EXCEPT ![c] = Append(@, d)]
  /\ pendingBytes' = [pendingBytes EXCEPT ![c] = @ + Size(d)]
  /\ Answer(c, g)
  /\ UNCHANGED <<live, staging, connected, generation, silence, committing, change>>

\* Heartbeat: only for the exact version the registry holds.
BeatSession(c, g) ==
  /\ Unlocked(c)
  /\ stream[c][g] = "admitted"
  /\ SessionValid(c, g)
  /\ live[c] # None
  /\ silence' = [silence EXCEPT ![c] = 0]
  /\ change' = [change EXCEPT ![c] = S!Heartbeat(live[c].epoch, live[c].seq)]
  /\ Answer(c, g)
  /\ UNCHANGED <<live, staging, pending, pendingBytes, connected, generation,
                 committing, totalBytes>>

-----------------------------------------------------------------------------
(* CommitSession: takes the lock, replays the pending deltas one by one onto  *)
(* the staged snapshot, then swaps it in.                                     *)

BeginCommit(c, g) ==
  /\ Unlocked(c)
  /\ stream[c][g] = "admitted"
  /\ SessionValid(c, g)
  /\ staging[c] # None
  /\ committing' = [committing EXCEPT ![c] = [stream |-> g, retained |-> Retained(c)]]
  /\ UNCHANGED <<live, staging, pending, pendingBytes, connected, generation,
                 silence, totalBytes, stream, change>>

\* The Commit is nacked: the staged snapshot goes, the live one stays.
FailCommit(c) ==
  /\ totalBytes' = Charged(BytesOf(live[c]) - committing[c].retained)
  /\ DropStaging(c)
  /\ Answer(c, committing[c].stream)
  /\ committing' = [committing EXCEPT ![c] = None]
  /\ UNCHANGED <<live, connected, generation, silence, change>>

\* Mistake: the first delta after the snapshot counts as covered by it.
RelevantAfterNext(c, d) == d.epoch = staging[c].epoch /\ d.seq > staging[c].seq + 1

Relevant(c, d) == d.epoch = staging[c].epoch /\ d.seq > staging[c].seq

ReplayDelta(c) ==
  LET d == Head(pending[c])
      next == pending' = [pending EXCEPT ![c] = Tail(@)]
      same == UNCHANGED <<live, pendingBytes, connected, generation, silence,
                          committing, totalBytes, stream, change>>
  IN
  /\ ~Unlocked(c)
  /\ pending[c] # <<>>
  /\ \/ /\ ~Relevant(c, d)
        /\ next /\ same /\ UNCHANGED staging
     \/ /\ Relevant(c, d)
        /\ d.seq = staging[c].seq + 1
        /\ ApplyFits(staging[c], d.key, d.value, d.deleted)
        /\ staging' = [staging EXCEPT ![c] = Apply(staging[c], d)]
        /\ next /\ same
     \/ /\ Relevant(c, d)
        /\ \/ d.seq # staging[c].seq + 1
           \/ ~ApplyFits(staging[c], d.key, d.value, d.deleted)
        /\ FailCommit(c)

\* Mistake: a second snapshot of the live epoch is let through.
RollbackOlderOnly(c) == live[c] # None /\ staging[c].epoch < live[c].epoch

Rollback(c) == live[c] # None /\ staging[c].epoch <= live[c].epoch

EndCommit(c) ==
  /\ ~Unlocked(c)
  /\ pending[c] = <<>>
  /\ \/ Rollback(c) /\ FailCommit(c)
     \/ /\ ~Rollback(c)
        /\ live' = [live EXCEPT ![c] = staging[c]]
        /\ totalBytes' = Charged(staging[c].bytes - committing[c].retained)
        /\ DropStaging(c)
        /\ change' = [change EXCEPT ![c] = S!Reset(staging[c].epoch, staging[c].seq)]
        /\ Answer(c, committing[c].stream)
        /\ committing' = [committing EXCEPT ![c] = None]
        /\ UNCHANGED <<connected, generation, silence>>

-----------------------------------------------------------------------------
(* Time, expiry, restart *)

\* Mistake: only the heartbeat deadline counts, never the disconnection.
StaleForConnected(c) == IF connected[c] THEN silence[c] - HeartbeatTimeout ELSE 0

\* How long the cluster has been stale: since its session closed, or since its
\* heartbeat fell due; negative or zero while it is fresh.
StaleFor(c) == IF connected[c] THEN silence[c] - HeartbeatTimeout ELSE silence[c]

\* What Snapshot and View report of the state they serve.
Stale(c) == ~connected[c] \/ StaleFor(c) > 0

\* PruneExpired, for one cluster of its loop.  A cluster that never had a
\* session has no live state.
Prune(c) ==
  /\ Unlocked(c)
  /\ live[c] # None
  /\ StaleFor(c) > StaleTTL
  /\ totalBytes' = Charged(-live[c].bytes)
  /\ live' = [live EXCEPT ![c] = None]
  /\ change' = [change EXCEPT ![c] = S!Expired]
  /\ UNCHANGED <<staging, pending, pendingBytes, connected, generation, silence,
                 committing, stream>>

\* Time passes.
Tick ==
  /\ silence' = [c \in Cluster |-> IF silence[c] < MaxAge THEN silence[c] + 1 ELSE MaxAge]
  /\ UNCHANGED <<live, staging, pending, pendingBytes, connected, generation,
                 committing, totalBytes, stream, change>>

\* The registry process restarts: everything it knew was in memory.
Restart ==
  /\ live' = [c \in Cluster |-> None]
  /\ staging' = [c \in Cluster |-> None]
  /\ pending' = [c \in Cluster |-> <<>>]
  /\ pendingBytes' = [c \in Cluster |-> 0]
  /\ connected' = [c \in Cluster |-> FALSE]
  /\ generation' = [c \in Cluster |-> 0]
  /\ silence' = [c \in Cluster |-> 0]
  /\ committing' = [c \in Cluster |-> None]
  /\ totalBytes' = 0
  /\ stream' = [c \in Cluster |-> [g \in Generation |-> "none"]]
  /\ change' = [c \in Cluster |-> None]

\* The frames that decide which deltas a snapshot transfer acknowledges.
TransferFrame(c, g) ==
  \/ \E e \in Epoch, s \in Seqno : BeginSnapshot(c, g, e, s)
  \/ \E e \in Epoch, s \in Seqno : AckDuplicate(c, g, e, s)
  \/ \E d \in DeltaFrame : QueueDelta(c, g, d)

OtherStep(c, g) ==
  \/ Admit(c, g)
  \/ RefuseIngress(c, g)
  \/ RefuseFrame(c, g)
  \/ Nack(c, g)
  \/ EndStream(c, g)
  \/ BeatSession(c, g)
  \/ BeginCommit(c, g)
  \/ \E k \in Key, v \in Value : StageResource(c, g, k, v)
  \/ \E k \in Key, v \in Value, deleted \in BOOLEAN : ApplyDelta(c, g, k, v, deleted)

Background ==
  \/ \E c \in Cluster : \/ OpenSession(c)
                        \/ ReplayDelta(c)
                        \/ EndCommit(c)
                        \/ Prune(c)
  \/ Tick
  \/ Restart

Next ==
  \/ \E c \in Cluster, g \in Generation : TransferFrame(c, g) \/ OtherStep(c, g)
  \/ Background

Spec == Init /\ [][Next]_vars

\* A Commit that holds the lock runs to its end, the pruner runs on its ticker
\* and gets the mutex however often agents take it (Go's mutex does not starve
\* a waiter), and time passes.  Nothing obliges an agent to send anything.
Fairness ==
  /\ WF_vars(Tick)
  /\ \A c \in Cluster :
       /\ SF_vars(Prune(c))
       /\ WF_vars(ReplayDelta(c))
       /\ WF_vars(EndCommit(c))

FairSpec == Spec /\ Fairness

-----------------------------------------------------------------------------
(* Properties *)

Charge(c) == IF Unlocked(c) THEN Retained(c) ELSE committing[c].retained

SumWeights(res) == SumFunction([k \in DOMAIN res |-> Weight[res[k]]])
SumSizes(deltas) == SumFunction([i \in DOMAIN deltas |-> Size(deltas[i])])

\* The global byte counter, the per-snapshot counters and the resources they
\* measure never drift apart, whatever mix of chunks, deltas, failed commits,
\* preemptions and expiries led here.  (Commit ignores the result of its final
\* reserveBytes, so a shortage there would be lost silently.)
BytesAccounted ==
  /\ totalBytes = SumFunction([c \in Cluster |-> Charge(c)])
  /\ \A c \in Cluster :
       /\ live[c] # None => live[c].bytes = SumWeights(live[c].res)
       /\ staging[c] # None => staging[c].bytes = SumWeights(staging[c].res)
       /\ Unlocked(c) => pendingBytes[c] = SumSizes(pending[c])

\* What all clusters retain together stays within the global budget, and each
\* snapshot within the budget of one cluster.
WithinBudget ==
  /\ totalBytes <= MaxTotalStateBytes
  /\ \A c \in Cluster : /\ BytesOf(live[c]) <= MaxStateBytes
                         /\ BytesOf(staging[c]) <= MaxStateBytes

\* A snapshot under construction belongs to the session that owns the cluster:
\* preemption, disconnection and a late frame never leave parts of an older
\* transfer to be committed.
StagingOwned ==
  \A c \in Cluster :
    /\ staging[c] # None => connected[c] /\ staging[c].owner = generation[c]
    /\ pending[c] # <<>> => staging[c] # None

\* A handler whose session was preempted between the ingress check and the
\* frame's own critical section changes nothing.
PreemptedIsInert ==
  [][\A c \in Cluster : \A g \in Generation :
       /\ stream[c][g] = "admitted"
       /\ g # generation[c]
       /\ stream'[c][g] # "admitted"
       /\ stream'[c][g] # "none"
       => UNCHANGED <<live[c], staging[c], pending[c], silence[c], connected[c]>>]_vars

\* While a cluster has live state its version only grows: a new epoch, or the
\* next sequence number of the same epoch.
NeverRollsBack ==
  [][\A c \in Cluster : live[c] # None /\ live'[c] # None /\ live'[c] # live[c] =>
       \/ live'[c].epoch > live[c].epoch
       \/ live'[c].epoch = live[c].epoch /\ live'[c].seq = live[c].seq + 1]_vars

\* Every cluster of the registry implements the abstract source: what it
\* publishes is exactly what happened to its state, in that order.
ImplementsSource ==
  /\ \A c \in Cluster : Source(c)!SourceInit
  /\ [][\A c \in Cluster : [Source(c)!SourceNext]_(Source(c)!sourceVars)]_vars

\* State nobody confirms any more is released: a cluster keeps its state only
\* if sessions or heartbeats keep arriving.
AbandonedIsReleased ==
  \A c \in Cluster :
    \/ []<>(live[c] = None)
    \/ []<><<OpenSession(c) \/ \E g \in Generation : BeatSession(c, g)>>_vars
=============================================================================
