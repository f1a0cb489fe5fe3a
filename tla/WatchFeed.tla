----------------------------- MODULE WatchFeed -----------------------------
(***************************************************************************)
(* From the registry to the API replicas: how the changes of one cluster   *)
(* (CatalogSource) reach the catalogs that the replicas answer from.       *)
(*                                                                         *)
(* A replica keeps one Watch stream per cluster.  The registry's handler   *)
(* subscribes first, then sends a snapshot of the catalog, then forwards   *)
(* the queued notifications, skipping those the snapshot covers and        *)
(* sending a new snapshot over a gap.  A replica that refuses a frame      *)
(* drops the stream, marks its catalog for resynchronisation, and dials    *)
(* again.                                                                  *)
(*                                                                         *)
(* Simplifications: a snapshot travels in one chunk, and its frames are    *)
(* sent together (the replica still takes them one by one, and the stream  *)
(* can break between any two); the handler of a broken stream is gone when *)
(* the replica dials again; the replica's capacity limits are out of       *)
(* reach.  The source is fed as the repository's agent feeds it (Fed,      *)
(* which AgentSync shows of the agent).                                    *)
(***************************************************************************)
EXTENDS CatalogSource, Sequences, FiniteSets

CONSTANTS
  Replica,
  Persistent,   \* the keys whose kind the catalog keeps
  MaxWatchers,  \* Limits.WatchMaxPerCluster
  MaxQueue,     \* Limits.WatchQueueFrames
  MaxWire,      \* frames in flight before a send blocks
  MaxLife       \* bound of the model on restarts of the registry

ASSUME FeedAssumption ==
  /\ Persistent \subseteq Key
  /\ {MaxWatchers, MaxQueue, MaxWire, MaxLife} \subseteq Nat \ {0}

VARIABLES
  life,       \* how many times the registry has started
  lastEpoch,  \* the newest epoch of this life
  history,    \* history variable: every version that ever was live
  settled,    \* from now on nothing changes and no connection breaks
  feed,       \* feed[r]: the subscription of r's stream
  queue,      \* queue[r]: its notifications
  handler,    \* handler[r]: where the Watch handler of r's stream is
  sent,       \* sent[r]: the version up to which the handler has sent
  wire,       \* wire[r]: frames on their way to the replica
  catalog     \* catalog[r]: the replica's RemoteCatalog entry

streamVars == <<feed, queue, handler, sent, wire>>
feedVars == <<sourceVars, life, lastEpoch, history, settled, streamVars, catalog>>

Life == 1 .. MaxLife

\* What the catalog shows of a version: the persistent kinds.
Projection(res) == [k \in DOMAIN res \cap Persistent |-> res[k]]

\* A version the catalog can hold; life is history.
CatalogVersion == [life : Life, epoch : Epoch, seq : Seqno, res : Resources]

\* nil is no version.
ASSUME NoneAssumption == None \notin Version \cup CatalogVersion

VersionOf(snapshot) == [life |-> life, epoch |-> snapshot.epoch, seq |-> snapshot.seq,
                        res |-> Projection(snapshot.res)]

Nowhere == [epoch |-> 0, seq |-> 0]

Frame ==
  [type : {"RESET", "EXPIRED"}]
    \cup [type : {"HEARTBEAT", "COMMIT"}, epoch : Epoch, seq : Seqno]
    \cup [type : {"BEGIN"}, life : Life, epoch : Epoch, seq : Seqno]
    \cup [type : {"CHUNK"}, epoch : Epoch, seq : Seqno, res : Resources]
    \cup [type : {"DELTA"}, epoch : Epoch, seq : Seqno, key : Key, value : Value,
          action : Action]

Catalog == [available : BOOLEAN, resync : BOOLEAN,
            held : CatalogVersion \cup {None}, staging : CatalogVersion \cup {None}]

FeedTypeOK ==
  /\ SourceTypeOK
  /\ life \in Life
  /\ lastEpoch \in Nat
  /\ history \subseteq CatalogVersion
  /\ settled \in BOOLEAN
  /\ feed \in [Replica -> {"none", "open", "removed"}]
  /\ queue \in [Replica -> Seq(Change)]
  /\ handler \in [Replica -> {"none", "subscribed", "forwarding", "returned"}]
  /\ sent \in [Replica -> [epoch : Nat, seq : Nat]]
  /\ wire \in [Replica -> Seq(Frame)]
  /\ catalog \in [Replica -> Catalog]

FeedInit ==
  /\ SourceInit
  /\ life = 1
  /\ lastEpoch = 0
  /\ history = {}
  /\ settled = FALSE
  /\ feed = [r \in Replica |-> "none"]
  /\ queue = [r \in Replica |-> <<>>]
  /\ handler = [r \in Replica |-> "none"]
  /\ sent = [r \in Replica |-> Nowhere]
  /\ wire = [r \in Replica |-> <<>>]
  /\ catalog = [r \in Replica |->
       [available |-> FALSE, resync |-> FALSE, held |-> None, staging |-> None]]

-----------------------------------------------------------------------------
(* The replica: RemoteCatalog.Apply *)

Same(version, f) == version # None /\ version.epoch = f.epoch /\ version.seq = f.seq

\* A delta that is next in line fits the resources the catalog holds.
ActionFits(res, f) ==
  f.key \in Persistent => (f.action = "created" <=> f.key \notin DOMAIN res)

AcceptsDelta(c, f) ==
  /\ c.available /\ ~c.resync
  /\ c.held.epoch = f.epoch
  /\ f.seq <= c.held.seq + 1
  /\ f.seq = c.held.seq + 1 => ActionFits(c.held.res, f)

Accepts(c, f) ==
  CASE f.type \in {"RESET", "EXPIRED", "BEGIN"} -> TRUE
    [] f.type = "HEARTBEAT" -> c.available /\ Same(c.held, f)
    [] f.type = "CHUNK" -> Same(c.staging, f) /\ DOMAIN c.staging.res \cap DOMAIN f.res = {}
    [] f.type = "COMMIT" -> Same(c.staging, f)
    [] f.type = "DELTA" -> AcceptsDelta(c, f)

ResetCatalog(c) ==
  [available |-> c.available, resync |-> TRUE, held |-> c.held, staging |-> None]

Staged(f) == [life |-> f.life, epoch |-> f.epoch, seq |-> f.seq, res |-> NoResources]

Joined(a, b) == [k \in DOMAIN a \cup DOMAIN b |-> IF k \in DOMAIN b THEN b[k] ELSE a[k]]

\* Mistake: the catalog keeps the version of its snapshot.
AfterDeltaUnversioned(held, f) ==
  [held EXCEPT !.res = IF f.key \in Persistent
             THEN Applied(@, f.key, f.value, f.action = "deleted") ELSE @]

\* Mistake: a delete is stored like an update.
AfterDeltaKeepsDeleted(held, f) ==
  [held EXCEPT !.seq = f.seq,
     !.res = IF f.key \in Persistent THEN Put(@, f.key, f.value) ELSE @]

AfterDelta(held, f) ==
  [life |-> held.life, epoch |-> held.epoch, seq |-> f.seq,
   res |-> IF f.key \in Persistent
           THEN Applied(held.res, f.key, f.value, f.action = "deleted") ELSE held.res]

\* A chunk joins the snapshot that is being staged.
Chunked(v, f) ==
  [life |-> v.life, epoch |-> v.epoch, seq |-> v.seq, res |-> Joined(v.res, f.res)]

After(c, f) ==
  CASE f.type = "RESET" -> ResetCatalog(c)
    [] f.type = "HEARTBEAT" -> c
    [] f.type = "EXPIRED" -> [available |-> FALSE, resync |-> TRUE,
                              held |-> None, staging |-> None]
    [] f.type = "BEGIN" -> [c EXCEPT !.staging = Staged(f)]
    [] f.type = "CHUNK" -> [c EXCEPT !.staging = Chunked(@, f)]
    [] f.type = "COMMIT" -> [available |-> TRUE, resync |-> FALSE,
                             held |-> c.staging, staging |-> None]
    [] f.type = "DELTA" ->
         IF f.seq <= c.held.seq THEN c ELSE [c EXCEPT !.held = AfterDelta(@, f)]

-----------------------------------------------------------------------------
(* The registry publishes *)

Room(r) == Len(queue[r]) < MaxQueue

\* Mistake: a full subscription loses the notification and stays open.
PublishLossy(n) ==
  /\ queue' = [r \in Replica |->
       IF feed[r] = "open" /\ Room(r) THEN Append(queue[r], n) ELSE queue[r]]
  /\ UNCHANGED <<feed, handler, sent, wire>>

\* publish: every open subscription gets the notification; a full one is
\* removed and its channel closed, what it holds can still be read.
Publish(n) ==
  /\ queue' = [r \in Replica |->
       IF feed[r] = "open" /\ Room(r) THEN Append(queue[r], n) ELSE queue[r]]
  /\ feed' = [r \in Replica |->
       IF feed[r] = "open" /\ ~Room(r) THEN "removed" ELSE feed[r]]
  /\ UNCHANGED <<handler, sent, wire>>

\* Commit, delta, heartbeat and expiry at the source.
SourceChange == Fed(lastEpoch, lastEpoch')

PublishChange ==
  /\ ~settled
  /\ SourceChange
  /\ Publish(change')
  /\ history' = IF live' = None THEN history ELSE history \cup {VersionOf(live')}
  /\ UNCHANGED <<life, settled, catalog>>

\* The registry restarts: its subscriptions and streams are gone, and every
\* replica with a stream sees it break.
RestartRegistry ==
  /\ ~settled
  /\ life < MaxLife
  /\ Forget
  /\ life' = life + 1
  /\ lastEpoch' = 0
  /\ feed' = [r \in Replica |-> "none"]
  /\ queue' = [r \in Replica |-> <<>>]
  /\ handler' = [r \in Replica |-> "none"]
  /\ sent' = [r \in Replica |-> Nowhere]
  /\ wire' = [r \in Replica |-> <<>>]
  /\ catalog' = [r \in Replica |->
       IF handler[r] = "none" THEN catalog[r] ELSE ResetCatalog(catalog[r])]
  /\ UNCHANGED <<history, settled>>

\* Nothing in the code: the point from which the liveness properties look on.
Settle ==
  /\ ~settled
  /\ settled' = TRUE
  /\ UNCHANGED <<sourceVars, life, lastEpoch, history, streamVars, catalog>>

-----------------------------------------------------------------------------
(* Service.Watch *)

\* The stream opens and Subscribe registers its feed.
Subscribe(r) ==
  /\ handler[r] = "none"
  /\ Cardinality({x \in Replica : feed[x] = "open"}) < MaxWatchers
  /\ handler' = [handler EXCEPT ![r] = "subscribed"]
  /\ feed' = [feed EXCEPT ![r] = "open"]
  /\ UNCHANGED <<sourceVars, life, lastEpoch, history, settled, queue, sent, wire, catalog>>

\* sendSnapshot: a RESET alone when the cluster has no state.
ResetFrame == [type |-> "RESET"]

SnapshotFrames ==
  IF live = None THEN <<ResetFrame>>
  ELSE LET v == VersionOf(live)
           chunk == [type |-> "CHUNK", epoch |-> v.epoch, seq |-> v.seq, res |-> v.res]
       IN  <<[type |-> "BEGIN", life |-> life, epoch |-> v.epoch, seq |-> v.seq]>>
           \o (IF v.res = NoResources THEN <<>> ELSE <<chunk>>)
           \o <<[type |-> "COMMIT", epoch |-> v.epoch, seq |-> v.seq]>>

SentBySnapshot(r) ==
  IF live = None THEN sent[r] ELSE [epoch |-> live.epoch, seq |-> live.seq]

CanSend(r) == Len(wire[r]) < MaxWire

SendFrames(r, frames) == wire' = [wire EXCEPT ![r] = @ \o frames]

FirstSnapshot(r) ==
  /\ handler[r] = "subscribed"
  /\ CanSend(r)
  /\ handler' = [handler EXCEPT ![r] = "forwarding"]
  /\ SendFrames(r, SnapshotFrames)
  /\ sent' = [sent EXCEPT ![r] = SentBySnapshot(r)]
  /\ UNCHANGED <<sourceVars, life, lastEpoch, history, settled, feed, queue, catalog>>

\* The handler takes the next notification.
Covered(n, s) == n.epoch = s.epoch /\ n.seq <= s.seq
Successor(n, s) == n.epoch = s.epoch /\ n.seq = s.seq + 1

DeltaFrame(n) == [type |-> "DELTA", epoch |-> n.epoch, seq |-> n.seq,
                  key |-> n.key, value |-> n.value, action |-> n.action]

Forward(r) ==
  LET n == Head(queue[r]) IN
  /\ handler[r] = "forwarding"
  /\ queue[r] # <<>>
  /\ CanSend(r)
  /\ queue' = [queue EXCEPT ![r] = Tail(@)]
  /\ \/ /\ n.type = "expired"
        /\ SendFrames(r, <<[type |-> "EXPIRED"]>>)
        /\ sent' = [sent EXCEPT ![r] = Nowhere]
     \/ /\ n.type = "heartbeat"
        /\ SendFrames(r, <<[type |-> "HEARTBEAT", epoch |-> n.epoch, seq |-> n.seq]>>)
        /\ UNCHANGED sent
     \/ /\ n.type \in {"reset", "delta"}
        /\ Covered(n, sent[r])
        /\ UNCHANGED <<wire, sent>>
     \/ /\ n.type = "delta"
        /\ Successor(n, sent[r])
        /\ SendFrames(r, <<DeltaFrame(n)>>)
        /\ sent' = [sent EXCEPT ![r] = [epoch |-> n.epoch, seq |-> n.seq]]
     \/ /\ n.type \in {"reset", "delta"}
        /\ ~Covered(n, sent[r])
        /\ n.type = "delta" => ~Successor(n, sent[r])
        /\ SendFrames(r, <<ResetFrame>> \o SnapshotFrames)
        /\ sent' = [sent EXCEPT ![r] = SentBySnapshot(r)]
  /\ UNCHANGED <<sourceVars, life, lastEpoch, history, settled, feed, handler, catalog>>

\* The removed subscription is drained: the handler returns an error.
Overflow(r) ==
  /\ handler[r] = "forwarding"
  /\ queue[r] = <<>>
  /\ feed[r] = "removed"
  /\ handler' = [handler EXCEPT ![r] = "returned"]
  /\ UNCHANGED <<sourceVars, life, lastEpoch, history, settled, feed, queue, sent,
                 wire, catalog>>

-----------------------------------------------------------------------------
(* GRPCRegistry.StartWatch *)

\* The stream is over: the replica resets its catalog, the handler closes its
\* subscription.
HangUp(r) ==
  /\ catalog' = [catalog EXCEPT ![r] = ResetCatalog(@)]
  /\ handler' = [handler EXCEPT ![r] = "none"]
  /\ feed' = [feed EXCEPT ![r] = "none"]
  /\ queue' = [queue EXCEPT ![r] = <<>>]
  /\ sent' = [sent EXCEPT ![r] = Nowhere]
  /\ wire' = [wire EXCEPT ![r] = <<>>]
  /\ UNCHANGED <<sourceVars, life, lastEpoch, history, settled>>

Receive(r) ==
  /\ wire[r] # <<>>
  /\ Accepts(catalog[r], Head(wire[r]))
  /\ catalog' = [catalog EXCEPT ![r] = After(@, Head(wire[r]))]
  /\ wire' = [wire EXCEPT ![r] = Tail(@)]
  /\ UNCHANGED <<sourceVars, life, lastEpoch, history, settled, feed, queue, handler, sent>>

Refuse(r) ==
  /\ wire[r] # <<>>
  /\ ~Accepts(catalog[r], Head(wire[r]))
  /\ HangUp(r)

EndOfStream(r) ==
  /\ handler[r] = "returned"
  /\ wire[r] = <<>>
  /\ HangUp(r)

Break(r) ==
  /\ ~settled
  /\ handler[r] # "none"
  /\ HangUp(r)

Advance(r) == \/ Subscribe(r)
              \/ FirstSnapshot(r)
              \/ Forward(r)
              \/ Overflow(r)
              \/ Receive(r)
              \/ Refuse(r)
              \/ EndOfStream(r)

FeedNext ==
  \/ PublishChange
  \/ RestartRegistry
  \/ \E r \in Replica : Advance(r) \/ Break(r)

FeedSpec == FeedInit /\ [][FeedNext]_feedVars

\* Handlers and replicas run; a refused subscription is retried.
FairFeedSpec ==
  /\ FeedInit /\ [][FeedNext \/ Settle]_feedVars
  /\ \A r \in Replica : WF_feedVars(Advance(r))

-----------------------------------------------------------------------------
(* Properties *)

\* A catalog that is available holds the exact resources of one version the
\* registry had live: no mix of two snapshots, no missed or repeated delta.
ReplicaHoldsRealVersion ==
  \A r \in Replica : catalog[r].available => catalog[r].held \in history

Newer(v, w) ==
  \/ v.life > w.life
  \/ v.life = w.life /\ v.epoch > w.epoch
  \/ v.life = w.life /\ v.epoch = w.epoch /\ v.seq > w.seq

\* What a replica shows never goes back to an earlier version, across resets,
\* overflows, reconnects and restarts of the registry.
ReplicaNeverGoesBack ==
  [][\A r \in Replica :
       catalog[r].available /\ catalog'[r].available /\ catalog'[r].held # catalog[r].held
       => Newer(catalog'[r].held, catalog[r].held)]_feedVars

\* A catalog that is up to date is never handed a delta that does not fit it:
\* the handler's bookkeeping of what it sent keeps every gap and every
\* mismatch away from it.  What a replica refuses, and hangs up over, is a
\* heartbeat, or a delta that comes while it waits for a snapshot: one from
\* before an expiry that the handler has already seen.
OnlyLateFramesAreRefused ==
  \A r \in Replica :
    LET f == Head(wire[r]) IN
    wire[r] # <<>> /\ ~Accepts(catalog[r], f) =>
      \/ f.type = "HEARTBEAT"
      \/ f.type = "DELTA" /\ catalog[r].resync

\* What a replica holds was once the state of the registry, and a delta never
\* tears down the stream of one that is up to date (Watch, grpc.go; Apply,
\* remote_catalog.go).
FeedIsCoherent == ReplicaHoldsRealVersion /\ OnlyLateFramesAreRefused

Synced(r) ==
  /\ catalog[r].available /\ ~catalog[r].resync
  /\ live # None => catalog[r].held = VersionOf(live)

\* Once the source and the network settle, every replica that can subscribe
\* ends with the live version, whatever was queued, dropped or refused.
ReplicasConverge ==
  \A r \in Replica : settled /\ live # None ~> Synced(r)

\* docs/adr/0010: after its stale window a cluster is unavailable.
ExpiryReachesReplicas ==
  \A r \in Replica : settled /\ live = None ~> ~catalog[r].available
=============================================================================
