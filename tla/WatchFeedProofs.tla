-------------------------- MODULE WatchFeedProofs --------------------------
(***************************************************************************)
(* Proofs about WatchFeed, for every set of replicas, keys and payloads,   *)
(* every capacity of the queues and of the wire, and every number of       *)
(* epochs, deltas and restarts.                                            *)
(***************************************************************************)
EXTENDS WatchFeed, SequenceTheorems, TLAPS

-----------------------------------------------------------------------------
(* The inductive invariant                                                 *)
(*                                                                         *)
(* What a replica will make of the frames in flight is settled when they   *)
(* are sent: the wire of a stream is a chain of catalogs from the one the  *)
(* replica has to the one it will have, and the handler's bookkeeping is   *)
(* about the last.                                                         *)

\* History names a version once, and the live one is the newest of this life.
HistoryInv ==
  /\ \A v, w \in history :
       v.life = w.life /\ v.epoch = w.epoch /\ v.seq = w.seq => v = w
  /\ \A v \in history : v.life <= life /\ (v.life = life => v.epoch <= lastEpoch)
  /\ live # None =>
       /\ VersionOf(live) \in history
       /\ live.epoch = lastEpoch
       /\ \A v \in history : v.life = life /\ v.epoch = live.epoch => v.seq <= live.seq

\* A delta leads from one version of this life to the next.
DeltaIsReal(hist, l, n) ==
  \E p \in hist : /\ p.life = l /\ p.epoch = n.epoch /\ n.seq = p.seq + 1
                  /\ ActionFits(p.res, n)
                  /\ AfterDelta(p, n) \in hist

QueueInv ==
  \A r \in Replica : \A i \in DOMAIN queue[r] :
    queue[r][i].type = "delta" => DeltaIsReal(history, life, queue[r][i])

\* A catalog as a replica may have it in life l.
Good(hist, l, c) ==
  /\ c \in Catalog
  /\ c.available => c.held \in hist
  /\ c.available /\ ~c.resync => c.held.life = l

Late(c, f) ==
  \/ f.type = "HEARTBEAT"
  \/ f.type = "DELTA" /\ c.resync

Onward(a, b) == a.available /\ b.available /\ b.held # a.held => Newer(b.held, a.held)

\* What one frame makes of a catalog; one that is refused changes nothing, as
\* the replica hangs up.
Link(a, f, b) ==
  IF Accepts(a, f) THEN b = After(a, f) /\ Onward(a, b) ELSE Late(a, f) /\ b = a

Chain(cs, w, hist, l) ==
  /\ \A i \in 0 .. Len(w) : Good(hist, l, cs[i])
  /\ \A i \in 1 .. Len(w) : Link(cs[i - 1], w[i], cs[i])

Reaches(hist, l, c, w, e) ==
  \E cs : cs[0] = c /\ cs[Len(w)] = e /\ Chain(cs, w, hist, l)

\* The catalog at the end of the wire waits for a snapshot, or is at the
\* version the handler thinks it has sent.
Ready(e, s) ==
  /\ e.available \/ e.resync
  /\ e.available /\ ~e.resync => e.held.epoch = s.epoch /\ e.held.seq = s.seq

StreamInv(r) ==
  /\ handler[r] \in {"none", "subscribed"} => wire[r] = <<>>
  /\ handler[r] = "none" /\ catalog[r].available => catalog[r].resync
  /\ \E e : /\ Reaches(history, life, catalog[r], wire[r], e)
            /\ handler[r] \in {"forwarding", "returned"} => Ready(e, sent[r])

FeedInv ==
  /\ FeedTypeOK
  /\ HistoryInv
  /\ QueueInv
  /\ \A r \in Replica : StreamInv(r)

-----------------------------------------------------------------------------
(* The operators of the model *)

LEMMA BoundsAreNumbers ==
  /\ MaxEpoch \in Nat /\ MaxSeq \in Nat /\ MaxLife \in Nat \ {0}
  /\ MaxQueue \in Nat \ {0} /\ MaxWire \in Nat \ {0}
BY SourceAssumption, FeedAssumption DEF SourceAssumption, FeedAssumption

LEMMA VersionNumbers ==
  ASSUME NEW v \in CatalogVersion
  PROVE  /\ v.life \in Nat /\ v.epoch \in Nat /\ v.seq \in Nat
         /\ v.life \in Life /\ v.epoch \in Epoch /\ v.seq \in Seqno /\ v.res \in Resources
         /\ v = [life |-> v.life, epoch |-> v.epoch, seq |-> v.seq, res |-> v.res]
         /\ v # None
<1>1. /\ v.life \in Life /\ v.epoch \in Epoch /\ v.seq \in Seqno /\ v.res \in Resources
      /\ v = [life |-> v.life, epoch |-> v.epoch, seq |-> v.seq, res |-> v.res]
  BY DEF CatalogVersion
<1>2. v.life \in Nat /\ v.epoch \in Nat /\ v.seq \in Nat
  BY <1>1, BoundsAreNumbers DEF Life, Epoch, Seqno
<1> QED
  BY <1>1, <1>2, NoneAssumption DEF NoneAssumption

\* A resource map is a function from some of the keys.
LEMMA ResourcesDef ==
  ASSUME NEW f
  PROVE  f \in Resources <=> \E K \in SUBSET Key : f \in [K -> Value]
BY DEF Resources

LEMMA ResourceMap ==
  ASSUME NEW res \in Resources
  PROVE  /\ DOMAIN res \subseteq Key
         /\ \A k \in DOMAIN res : res[k] \in Value
         /\ res = [k \in DOMAIN res |-> res[k]]
BY ResourcesDef

LEMMA MapDef ==
  ASSUME NEW K \in SUBSET Key, NEW f \in [K -> Value]
  PROVE  f \in Resources
BY ResourcesDef

LEMMA AppliedType ==
  ASSUME NEW res \in Resources, NEW k \in Key, NEW v \in Value, NEW deleted \in BOOLEAN
  PROVE  Applied(res, k, v, deleted) \in Resources
<1>1. Put(res, k, v) \in [DOMAIN res \cup {k} -> Value] /\ DOMAIN res \cup {k} \in SUBSET Key
  BY ResourceMap DEF Put
<1>2. Drop(res, k) \in [DOMAIN res \ {k} -> Value] /\ DOMAIN res \ {k} \in SUBSET Key
  BY ResourceMap DEF Drop
<1>3. Put(res, k, v) \in Resources /\ Drop(res, k) \in Resources
  BY <1>1, <1>2, MapDef
<1> QED
  BY <1>3 DEF Applied

LEMMA NoResourcesType == NoResources \in Resources /\ DOMAIN NoResources = {}
<1>1. NoResources \in [{} -> Value] /\ DOMAIN NoResources = {} /\ {} \in SUBSET Key
  BY DEF NoResources
<1> QED
  BY <1>1, MapDef

LEMMA ProjectionType ==
  ASSUME NEW res \in Resources
  PROVE  Projection(res) \in Resources
<1>1. /\ Projection(res) \in [DOMAIN res \cap Persistent -> Value]
      /\ DOMAIN res \cap Persistent \in SUBSET Key
  BY ResourceMap DEF Projection
<1> QED
  BY <1>1, MapDef

\* Applying a change and showing the persistent kinds commute: the replica's
\* catalog follows the registry's.
LEMMA ProjectionFollows ==
  ASSUME NEW res \in Resources, NEW k \in Key, NEW v \in Value, NEW deleted \in BOOLEAN
  PROVE  Projection(Applied(res, k, v, deleted))
           = IF k \in Persistent THEN Applied(Projection(res), k, v, deleted)
             ELSE Projection(res)
<1>1. CASE deleted
  <2>1. CASE k \in Persistent
    BY <1>1, <2>1 DEF Projection, Applied, Drop
  <2>2. CASE k \notin Persistent
    BY <1>1, <2>2 DEF Projection, Applied, Drop
  <2> QED
    BY <2>1, <2>2
<1>2. CASE ~deleted
  <2>1. CASE k \in Persistent
    <3>1. DOMAIN Projection(Put(res, k, v)) = DOMAIN Put(Projection(res), k, v)
      BY <2>1 DEF Projection, Put
    <3>2. \A x \in DOMAIN Projection(Put(res, k, v)) :
            Projection(Put(res, k, v))[x] = Put(Projection(res), k, v)[x]
      BY <2>1 DEF Projection, Put
    <3>3. Projection(Put(res, k, v)) = Put(Projection(res), k, v)
      BY <3>1, <3>2 DEF Projection, Put
    <3> QED
      BY <1>2, <2>1, <3>3 DEF Applied
  <2>2. CASE k \notin Persistent
    BY <1>2, <2>2 DEF Projection, Applied, Put
  <2> QED
    BY <2>1, <2>2
<1> QED
  BY <1>1, <1>2

\* What the one chunk of a snapshot makes of the empty staging.
LEMMA JoinedToNothing ==
  ASSUME NEW res \in Resources
  PROVE  Joined(NoResources, res) = res
<1>1. res = [k \in DOMAIN res |-> res[k]]
  BY ResourceMap
<1>2. DOMAIN NoResources \cup DOMAIN res = DOMAIN res
  BY NoResourcesType
<1> QED
  BY <1>1, <1>2 DEF Joined

-----------------------------------------------------------------------------
(* Chains of catalogs *)

LEMMA ReachesItself ==
  ASSUME NEW hist, NEW l, NEW c, Good(hist, l, c)
  PROVE  Reaches(hist, l, c, <<>>, c)
<1> DEFINE cs == [i \in {0} |-> c]
<1>1. Len(<<>>) = 0 /\ 0 .. 0 = {0} /\ 1 .. 0 = {}
  OBVIOUS
<1>2. cs[0] = c /\ Chain(cs, <<>>, hist, l)
  BY <1>1 DEF Chain
<1> HIDE DEF cs
<1> QED
  BY <1>1, <1>2 DEF Reaches

\* A frame is sent.
LEMMA ReachesFurther ==
  ASSUME NEW hist, NEW l, NEW c, NEW w \in Seq(Frame), NEW e, NEW f \in Frame, NEW b,
         Reaches(hist, l, c, w, e), Link(e, f, b), Good(hist, l, b)
  PROVE  Reaches(hist, l, c, Append(w, f), b)
<1> DEFINE n == Len(w)
           longer == Append(w, f)
<1>1. PICK cs : cs[0] = c /\ cs[n] = e /\ Chain(cs, w, hist, l)
  BY DEF Reaches
<1> DEFINE ds == [i \in 0 .. (n + 1) |-> IF i = n + 1 THEN b ELSE cs[i]]
<1>2. /\ n \in Nat /\ Len(longer) = n + 1 /\ longer[n + 1] = f
      /\ \A i \in 1 .. n : longer[i] = w[i]
  BY AppendProperties, LenProperties
<1>3. /\ \A i \in 0 .. n : Good(hist, l, cs[i])
      /\ \A i \in 1 .. n : Link(cs[i - 1], w[i], cs[i])
  BY <1>1 DEF Chain
<1> HIDE DEF n, longer
<1>4. ds[n + 1] = b /\ \A i \in 0 .. n : ds[i] = cs[i]
  BY <1>2
<1> HIDE DEF ds
<1>5. \A i \in 0 .. (n + 1) : Good(hist, l, ds[i])
  BY <1>2, <1>3, <1>4
<1>6. ASSUME NEW i \in 1 .. (n + 1)
      PROVE  Link(ds[i - 1], longer[i], ds[i])
  <2>1. CASE i = n + 1
    <3>1. i - 1 = n /\ n \in 0 .. n
      BY <2>1, <1>2
    <3>2. ds[i - 1] = e /\ longer[i] = f /\ ds[i] = b
      BY <3>1, <2>1, <1>1, <1>2, <1>4
    <3> QED
      BY <3>2
  <2>2. CASE i # n + 1
    <3>1. i \in 1 .. n /\ i \in 0 .. n /\ i - 1 \in 0 .. n
      BY <2>2, <1>2
    <3>2. ds[i - 1] = cs[i - 1] /\ longer[i] = w[i] /\ ds[i] = cs[i]
      BY <3>1, <1>2, <1>4
    <3>3. Link(cs[i - 1], w[i], cs[i])
      BY <3>1, <1>3
    <3> QED
      BY <3>2, <3>3
  <2> QED
    BY <2>1, <2>2
<1>7. ds[0] = c /\ ds[Len(longer)] = b /\ Chain(ds, longer, hist, l)
  BY <1>1, <1>2, <1>4, <1>5, <1>6 DEF Chain
<1>8. Reaches(hist, l, c, longer, b)
  BY <1>7 DEF Reaches
<1> QED
  BY <1>8 DEF longer

\* The first frame is read.
LEMMA ReachesOn ==
  ASSUME NEW hist, NEW l, NEW c, NEW w \in Seq(Frame), NEW e, w # <<>>,
         Reaches(hist, l, c, w, e)
  PROVE  \E b : /\ Link(c, Head(w), b) /\ Good(hist, l, c) /\ Good(hist, l, b)
                /\ Reaches(hist, l, b, Tail(w), e)
<1> DEFINE n == Len(w)
           rest == Tail(w)
<1>1. PICK cs : cs[0] = c /\ cs[n] = e /\ Chain(cs, w, hist, l)
  BY DEF Reaches
<1>2. /\ n \in Nat /\ n > 0 /\ Head(w) = w[1] /\ Len(rest) = n - 1
      /\ \A i \in 1 .. (n - 1) : rest[i] = w[i + 1]
  BY HeadTailProperties, LenProperties, EmptySeq
<1>3. /\ \A i \in 0 .. n : Good(hist, l, cs[i])
      /\ \A i \in 1 .. n : Link(cs[i - 1], w[i], cs[i])
  BY <1>1 DEF Chain
<1> DEFINE ds == [i \in 0 .. (n - 1) |-> cs[i + 1]]
<1> HIDE DEF n, rest
<1>4. \A i \in 0 .. (n - 1) : ds[i] = cs[i + 1]
  OBVIOUS
<1> HIDE DEF ds
<1>5. \A i \in 0 .. (n - 1) : Good(hist, l, ds[i])
  BY <1>2, <1>3, <1>4
<1>6. ASSUME NEW i \in 1 .. (n - 1)
      PROVE  Link(ds[i - 1], rest[i], ds[i])
  <2>1. /\ i \in 0 .. (n - 1) /\ i - 1 \in 0 .. (n - 1) /\ i + 1 \in 1 .. n
        /\ (i - 1) + 1 = i /\ (i + 1) - 1 = i
    BY <1>2
  <2>2. ds[i - 1] = cs[i] /\ ds[i] = cs[i + 1] /\ rest[i] = w[i + 1]
    BY <2>1, <1>2, <1>4
  <2>3. Link(cs[(i + 1) - 1], w[i + 1], cs[i + 1])
    BY <2>1, <1>3
  <2> QED
    BY <2>1, <2>2, <2>3
<1>7. ds[0] = cs[1] /\ ds[n - 1] = e
  <2>1. 0 \in 0 .. (n - 1) /\ n - 1 \in 0 .. (n - 1) /\ (n - 1) + 1 = n /\ 0 + 1 = 1
    BY <1>2
  <2> QED
    BY <2>1, <1>1, <1>4 DEF n
<1>8. Reaches(hist, l, cs[1], rest, e)
  <2>1. Chain(ds, rest, hist, l)
    BY <1>2, <1>5, <1>6 DEF Chain
  <2> QED
    BY <2>1, <1>2, <1>7 DEF Reaches
<1>9. Link(c, w[1], cs[1]) /\ Good(hist, l, c) /\ Good(hist, l, cs[1])
  <2>1. 1 \in 1 .. n /\ 1 - 1 = 0 /\ 0 \in 0 .. n /\ 1 \in 0 .. n
    BY <1>2
  <2>2. Link(cs[1 - 1], w[1], cs[1]) /\ Good(hist, l, cs[0]) /\ Good(hist, l, cs[1])
    BY <2>1, <1>3
  <2> QED
    BY <2>1, <2>2, <1>1 DEF n
<1> QED
  BY <1>2, <1>8, <1>9 DEF rest

\* The ends of a chain; and history may grow.
LEMMA ReachesGood ==
  ASSUME NEW hist, NEW l, NEW c, NEW w \in Seq(Frame), NEW e, Reaches(hist, l, c, w, e)
  PROVE  Good(hist, l, c) /\ Good(hist, l, e) /\ (w = <<>> => e = c)
<1>1. PICK cs : cs[0] = c /\ cs[Len(w)] = e /\ Chain(cs, w, hist, l)
  BY DEF Reaches
<1>2. Len(w) \in Nat /\ 0 \in 0 .. Len(w) /\ Len(w) \in 0 .. Len(w)
  BY LenProperties
<1>3. w = <<>> => Len(w) = 0
  OBVIOUS
<1> QED
  BY <1>1, <1>2, <1>3 DEF Chain

LEMMA ReachesInMore ==
  ASSUME NEW hist, NEW more, hist \subseteq more, NEW l, NEW c, NEW w, NEW e,
         Reaches(hist, l, c, w, e)
  PROVE  Reaches(more, l, c, w, e)
<1>1. PICK cs : cs[0] = c /\ cs[Len(w)] = e /\ Chain(cs, w, hist, l)
  BY DEF Reaches
<1>2. \A x : Good(hist, l, x) => Good(more, l, x)
  BY DEF Good
<1>3. Chain(cs, w, more, l)
  BY <1>1, <1>2 DEF Chain
<1> QED
  BY <1>1, <1>3 DEF Reaches

-----------------------------------------------------------------------------
(* Frames and catalogs *)

CatalogFields(c) == c = [available |-> c.available, resync |-> c.resync,
                         held |-> c.held, staging |-> c.staging]

LEMMA CatalogType ==
  ASSUME NEW c \in Catalog
  PROVE  /\ c.available \in BOOLEAN /\ c.resync \in BOOLEAN
         /\ c.held \in CatalogVersion \cup {None} /\ c.staging \in CatalogVersion \cup {None}
         /\ CatalogFields(c)
BY DEF Catalog, CatalogFields

LEMMA FrameTypes ==
  /\ [type |-> "RESET"] \in Frame /\ [type |-> "EXPIRED"] \in Frame
  /\ \A e \in Epoch, s \in Seqno :
       /\ [type |-> "HEARTBEAT", epoch |-> e, seq |-> s] \in Frame
       /\ [type |-> "COMMIT", epoch |-> e, seq |-> s] \in Frame
       /\ \A l \in Life : [type |-> "BEGIN", life |-> l, epoch |-> e, seq |-> s] \in Frame
       /\ \A res \in Resources :
            [type |-> "CHUNK", epoch |-> e, seq |-> s, res |-> res] \in Frame
BY DEF Frame

\* RESET: the catalog keeps what it shows and waits for a snapshot.
LEMMA AfterReset ==
  ASSUME NEW hist, NEW l, NEW c, NEW w \in Seq(Frame), NEW e, Reaches(hist, l, c, w, e)
  PROVE  LET b == ResetCatalog(e) IN
         /\ Reaches(hist, l, c, Append(w, ResetFrame), b)
         /\ \A s : Ready(b, s)
<1> DEFINE b == ResetCatalog(e)
<1>1. Good(hist, l, e) /\ e \in Catalog
  BY ReachesGood DEF Good
<1>2. /\ b.available = e.available /\ b.resync = TRUE /\ b.held = e.held /\ b.staging = None
      /\ b \in Catalog
  BY <1>1, CatalogType DEF ResetCatalog, Catalog
<1>3. Good(hist, l, b)
  BY <1>1, <1>2 DEF Good
<1>4. Accepts(e, ResetFrame) /\ After(e, ResetFrame) = b
  BY DEF ResetFrame, Accepts, After
<1> HIDE DEF b
<1>5. Link(e, ResetFrame, b)
  BY <1>2, <1>4 DEF Link, Onward
<1>6. Reaches(hist, l, c, Append(w, ResetFrame), b)
  BY <1>3, <1>5, FrameTypes, ReachesFurther DEF ResetFrame
<1>7. \A s : Ready(b, s)
  BY <1>2 DEF Ready
<1> QED
  BY <1>6, <1>7 DEF b

\* EXPIRED: the catalog shows nothing.
LEMMA AfterExpiry ==
  ASSUME NEW hist, NEW l, NEW c, NEW w \in Seq(Frame), NEW e, Reaches(hist, l, c, w, e)
  PROVE  \E b : /\ Reaches(hist, l, c, Append(w, [type |-> "EXPIRED"]), b)
                /\ \A s : Ready(b, s)
<1> DEFINE f == [type |-> "EXPIRED"]
           b == [available |-> FALSE, resync |-> TRUE, held |-> None, staging |-> None]
<1>1. b \in Catalog /\ Good(hist, l, b)
  BY DEF Catalog, Good
<1>2. Accepts(e, f) /\ After(e, f) = b
  BY DEF Accepts, After
<1>3. Link(e, f, b)
  BY <1>2 DEF Link, Onward
<1>4. f \in Frame
  BY FrameTypes
<1>5. \A s : Ready(b, s)
  BY DEF Ready
<1> HIDE DEF f, b
<1>6. Reaches(hist, l, c, Append(w, f), b)
  BY <1>1, <1>3, <1>4, ReachesFurther
<1> QED
  BY <1>5, <1>6 DEF f

\* HEARTBEAT: nothing changes, whether it is accepted or not.
LEMMA AfterBeat ==
  ASSUME NEW hist, NEW l, NEW c, NEW w \in Seq(Frame), NEW e, Reaches(hist, l, c, w, e),
         NEW f \in Frame, f.type = "HEARTBEAT"
  PROVE  Reaches(hist, l, c, Append(w, f), e)
<1>1. Good(hist, l, e)
  BY ReachesGood
<1>2. Accepts(e, f) => After(e, f) = e
  BY DEF After
<1>3. Onward(e, e)
  BY DEF Onward
<1>5. Late(e, f)
  BY DEF Late
<1>4. Link(e, f, e)
  BY <1>2, <1>3, <1>5 DEF Link
<1> QED
  BY <1>1, <1>4, ReachesFurther

\* DELTA, when it follows what was sent: a catalog that is up to date is at
\* the version before it, and so the delta fits; another one waits.
LEMMA AfterDeltaFrame ==
  ASSUME NEW hist, hist \subseteq CatalogVersion,
         \A v, x \in hist : v.life = x.life /\ v.epoch = x.epoch /\ v.seq = x.seq => v = x,
         NEW l, NEW c, NEW w \in Seq(Frame), NEW e, Reaches(hist, l, c, w, e),
         NEW f \in Frame, f.type = "DELTA", DeltaIsReal(hist, l, f),
         NEW s, Ready(e, s), f.epoch = s.epoch, f.seq = s.seq + 1
  PROVE  \E b : /\ Reaches(hist, l, c, Append(w, f), b)
                /\ Ready(b, [epoch |-> f.epoch, seq |-> f.seq])
<1>1. Good(hist, l, e) /\ e \in Catalog
  BY ReachesGood DEF Good
<1>2. CASE e.available /\ ~e.resync
  <2>1. PICK p \in hist : /\ p.life = l /\ p.epoch = f.epoch /\ f.seq = p.seq + 1
                          /\ ActionFits(p.res, f)
                          /\ AfterDelta(p, f) \in hist
    BY DEF DeltaIsReal
  <2>2. /\ e.held \in hist /\ e.held.life = l /\ e.held.epoch = s.epoch /\ e.held.seq = s.seq
    BY <1>1, <1>2 DEF Good, Ready
  <2>3. p.seq \in Nat /\ e.held.seq \in Nat /\ f.seq \in Nat
    BY <2>1, <2>2, VersionNumbers
  <2>4. p = e.held
    BY <2>1, <2>2, <2>3
  <2>5. Accepts(e, f)
    <3>1. AcceptsDelta(e, f)
      BY <1>2, <2>1, <2>2, <2>3, <2>4 DEF AcceptsDelta
    <3> QED
      BY <3>1 DEF Accepts
  <2> DEFINE b == [e EXCEPT !.held = AfterDelta(e.held, f)]
  <2>6. After(e, f) = b
    BY <2>1, <2>3, <2>4 DEF After
  <2>7. /\ b.available = e.available /\ b.resync = e.resync /\ b.held = AfterDelta(p, f)
        /\ b.staging = e.staging /\ CatalogFields(b)
    BY <1>1, <2>4, CatalogType DEF CatalogFields, Catalog
  <2> HIDE DEF b
  <2>8. b.held \in hist /\ b.held \in CatalogVersion
    BY <2>1, <2>7
  <2>9. b \in Catalog
    BY <1>1, <2>7, <2>8, CatalogType DEF Catalog, CatalogFields
  <2>10. /\ b.held.life = l /\ b.held.epoch = f.epoch /\ b.held.seq = f.seq
    BY <2>1, <2>7 DEF AfterDelta
  <2>11. Good(hist, l, b)
    BY <2>8, <2>9, <2>10 DEF Good
  <2>12. Newer(b.held, e.held)
    BY <2>1, <2>2, <2>3, <2>4, <2>10 DEF Newer
  <2>13. Link(e, f, b)
    BY <2>5, <2>6, <2>12 DEF Link, Onward
  <2>14. Ready(b, [epoch |-> f.epoch, seq |-> f.seq])
    BY <1>2, <2>7, <2>10 DEF Ready
  <2> QED
    BY <2>11, <2>13, <2>14, ReachesFurther
<1>3. CASE ~(e.available /\ ~e.resync)
  <2>1. e.resync
    BY <1>3, <1>1, CatalogType DEF Ready
  <2>2. ~Accepts(e, f)
    BY <1>3 DEF Accepts, AcceptsDelta
  <2>3. Link(e, f, e)
    BY <2>1, <2>2 DEF Link, Late
  <2>4. Ready(e, [epoch |-> f.epoch, seq |-> f.seq])
    BY <2>1 DEF Ready
  <2> QED
    BY <1>1, <2>3, <2>4, ReachesFurther
<1> QED
  BY <1>2, <1>3

\* The frames of a snapshot leave the catalog at the version they carry; a
\* RESET alone leaves it waiting.
LEMMA AfterSnapshot ==
  ASSUME FeedTypeOK, HistoryInv,
         NEW c, NEW w \in Seq(Frame), NEW e, Reaches(history, life, c, w, e), NEW s
  PROVE  \E b : /\ Reaches(history, life, c, w \o SnapshotFrames, b)
                /\ Ready(b, IF live = None THEN s
                            ELSE [epoch |-> live.epoch, seq |-> live.seq])
<1>1. CASE live = None
  <2>1. w \o SnapshotFrames = Append(w, ResetFrame)
    BY <1>1, AppendIsConcat, FrameTypes DEF SnapshotFrames, ResetFrame
  <2> QED
    BY <1>1, <2>1, AfterReset
<1>2. CASE live # None
  <2> DEFINE v == VersionOf(live)
             begin == [type |-> "BEGIN", life |-> life, epoch |-> v.epoch, seq |-> v.seq]
             chunk == [type |-> "CHUNK", epoch |-> v.epoch, seq |-> v.seq, res |-> v.res]
             commit == [type |-> "COMMIT", epoch |-> v.epoch, seq |-> v.seq]
             empty == Staged(begin)
             b1 == [e EXCEPT !.staging = empty]
             b2 == [e EXCEPT !.staging = v]
             b3 == [available |-> TRUE, resync |-> FALSE, held |-> v, staging |-> None]
  <2>1. /\ v \in history /\ v \in CatalogVersion /\ v.life = life
        /\ v.epoch = live.epoch /\ v.seq = live.seq
    BY <1>2 DEF HistoryInv, FeedTypeOK, VersionOf
  <2>2. /\ v.epoch \in Epoch /\ v.seq \in Seqno /\ v.life \in Life /\ v.res \in Resources
        /\ v = [life |-> life, epoch |-> v.epoch, seq |-> v.seq, res |-> v.res]
        /\ v.life \in Nat /\ v.epoch \in Nat /\ v.seq \in Nat
    BY <2>1, VersionNumbers
  <2>3. \A x \in history : x = v \/ Newer(v, x)
    <3> SUFFICES ASSUME NEW x \in history, x # v
                 PROVE  Newer(v, x)
      OBVIOUS
    <3>1. x.life \in Nat /\ x.epoch \in Nat /\ x.seq \in Nat
      BY VersionNumbers DEF FeedTypeOK
    <3>2. /\ x.life <= v.life
          /\ x.life = v.life => x.epoch <= v.epoch
          /\ x.life = v.life /\ x.epoch = v.epoch => x.seq <= v.seq
      BY <1>2, <2>1 DEF HistoryInv
    <3>3. ~(x.life = v.life /\ x.epoch = v.epoch /\ x.seq = v.seq)
      BY <2>1 DEF HistoryInv
    <3> HIDE DEF v
    <3> QED
      BY <3>1, <3>2, <3>3, <2>2 DEF Newer
  <2>4. /\ begin \in Frame /\ chunk \in Frame /\ commit \in Frame
        /\ begin.type = "BEGIN" /\ chunk.type = "CHUNK" /\ commit.type = "COMMIT"
        /\ begin.life = life /\ begin.epoch = v.epoch /\ begin.seq = v.seq
        /\ chunk.epoch = v.epoch /\ chunk.seq = v.seq /\ chunk.res = v.res
        /\ commit.epoch = v.epoch /\ commit.seq = v.seq
    BY <2>1, <2>2, FrameTypes
  <2>5. SnapshotFrames = <<begin>> \o (IF v.res = NoResources THEN <<>> ELSE <<chunk>>)
                         \o <<commit>>
    BY <1>2 DEF SnapshotFrames
  <2>6. Good(history, life, e) /\ e \in Catalog
    BY ReachesGood DEF Good
  <2> HIDE DEF v
  <2>7. /\ empty = [life |-> life, epoch |-> v.epoch, seq |-> v.seq, res |-> NoResources]
        /\ empty \in CatalogVersion
    BY <2>1, <2>2, NoResourcesType DEF Staged, CatalogVersion
  <2> HIDE DEF begin, chunk, commit, empty
  <2>8. /\ b1.available = e.available /\ b1.resync = e.resync /\ b1.held = e.held
        /\ b1.staging = empty /\ b1 \in Catalog
        /\ b2.available = e.available /\ b2.resync = e.resync /\ b2.held = e.held
        /\ b2.staging = v /\ b2 \in Catalog
        /\ [b1 EXCEPT !.staging = v] = b2
    BY <2>1, <2>6, <2>7 DEF Catalog
  <2>9. Good(history, life, b1) /\ Good(history, life, b2)
    BY <2>6, <2>8 DEF Good
  <2>10. b3 \in Catalog /\ Good(history, life, b3)
    BY <2>1, <2>2 DEF Catalog, Good
  <2>11. Accepts(e, begin) /\ After(e, begin) = b1
    BY <2>4 DEF Accepts, After, empty
  <2> HIDE DEF b1, b2
  <2>12. Link(e, begin, b1)
    BY <2>8, <2>11 DEF Link, Onward
  <2>13. Reaches(history, life, c, Append(w, begin), b1)
    BY <2>4, <2>9, <2>12, ReachesFurther
  <2>14. Append(w, begin) \in Seq(Frame)
    BY <2>4
  <2>15. /\ empty.epoch = v.epoch /\ empty.seq = v.seq /\ empty.res = NoResources
         /\ empty.life = life /\ empty # None
    BY <2>7, NoneAssumption DEF NoneAssumption
  <2>16. Accepts(b1, chunk) /\ After(b1, chunk) = b2
    <3>1. Same(b1.staging, chunk) /\ DOMAIN b1.staging.res \cap DOMAIN chunk.res = {}
      BY <2>4, <2>8, <2>15, NoResourcesType DEF Same
    <3>2. Chunked(b1.staging, chunk) = v
      BY <2>2, <2>4, <2>8, <2>15, JoinedToNothing DEF Chunked
    <3>3. After(b1, chunk) = [b1 EXCEPT !.staging = Chunked(b1.staging, chunk)]
      BY <2>4 DEF After
    <3> QED
      BY <2>4, <2>8, <3>1, <3>2, <3>3 DEF Accepts
  <2>17. Link(b1, chunk, b2)
    BY <2>8, <2>16 DEF Link, Onward
  <2>18. /\ v.res = NoResources => empty = v /\ b1 = b2
    <3>1. v.res = NoResources => empty = v
      BY <2>2, <2>7
    <3> QED
      BY <3>1 DEF b1, b2
  <2>19. ASSUME NEW x, x \in Catalog, x.staging = v, x.available => x.held \in history
         PROVE  Link(x, commit, b3)
    <3>1. Accepts(x, commit) /\ After(x, commit) = b3
      BY <2>1, <2>4, <2>19, VersionNumbers DEF Accepts, After, Same
    <3>2. Onward(x, b3)
      BY <2>3, <2>19 DEF Onward
    <3> HIDE DEF b3
    <3> QED
      BY <3>1, <3>2 DEF Link
  <2>20. Link(b2, commit, b3)
    BY <2>8, <2>9, <2>19 DEF Good
  <2>21. Ready(b3, [epoch |-> live.epoch, seq |-> live.seq])
    BY <2>1 DEF Ready
  <2> HIDE DEF b3
  <2>22. CASE v.res = NoResources
    <3>1. Reaches(history, life, c, Append(Append(w, begin), commit), b3)
      BY <2>4, <2>10, <2>13, <2>14, <2>18, <2>20, <2>22, ReachesFurther
    <3>2. w \o SnapshotFrames = Append(Append(w, begin), commit)
      <4>1. <<begin>> \in Seq(Frame) /\ <<commit>> \in Seq(Frame)
        BY <2>4
      <4>2. SnapshotFrames = <<begin>> \o <<commit>>
        BY <2>5, <2>22, <4>1, ConcatEmptySeq
      <4>3. w \o SnapshotFrames = (w \o <<begin>>) \o <<commit>>
        BY <4>1, <4>2, ConcatAssociative
      <4> QED
        BY <4>3, <2>4, <2>14, AppendIsConcat
    <3> QED
      BY <1>2, <2>21, <3>1, <3>2
  <2>23. CASE v.res # NoResources
    <3>1. Reaches(history, life, c, Append(Append(w, begin), chunk), b2)
      BY <2>4, <2>9, <2>13, <2>14, <2>17, ReachesFurther
    <3>2. Append(Append(w, begin), chunk) \in Seq(Frame)
      BY <2>4, <2>14
    <3>3. Reaches(history, life, c, Append(Append(Append(w, begin), chunk), commit), b3)
      BY <2>4, <2>10, <2>20, <3>1, <3>2, ReachesFurther
    <3>4. w \o SnapshotFrames = Append(Append(Append(w, begin), chunk), commit)
      <4>1. /\ <<begin>> \in Seq(Frame) /\ <<chunk>> \in Seq(Frame)
            /\ <<commit>> \in Seq(Frame) /\ <<begin>> \o <<chunk>> \in Seq(Frame)
        BY <2>4, ConcatProperties
      <4>2. SnapshotFrames = (<<begin>> \o <<chunk>>) \o <<commit>>
        BY <2>5, <2>23
      <4>3. w \o SnapshotFrames = ((w \o <<begin>>) \o <<chunk>>) \o <<commit>>
        BY <4>1, <4>2, ConcatAssociative
      <4> QED
        BY <4>3, <2>4, <2>14, <3>2, AppendIsConcat
    <3> QED
      BY <1>2, <2>21, <3>3, <3>4
  <2> QED
    BY <2>22, <2>23
<1> QED
  BY <1>1, <1>2

-----------------------------------------------------------------------------
(* The registry publishes *)

LEMMA DeltaIsRealInMore ==
  ASSUME NEW hist, NEW more, hist \subseteq more, NEW l, NEW n, DeltaIsReal(hist, l, n)
  PROVE  DeltaIsReal(more, l, n)
BY DEF DeltaIsReal

\* A new version joins the history of the registry.
LEMMA HistoryGrows ==
  ASSUME FeedTypeOK, HistoryInv, live' # None, life' = life,
         VersionOf(live)' \in CatalogVersion,
         history' = history \cup {VersionOf(live)'},
         live'.epoch = lastEpoch', lastEpoch' \in Nat, lastEpoch' >= lastEpoch,
         live'.seq \in Nat,
         \A v \in history :
           v.life = life /\ v.epoch = live'.epoch => v.seq < live'.seq
  PROVE  HistoryInv'
<1> DEFINE n == VersionOf(live)'
<1>1. n.life = life /\ n.epoch = live'.epoch /\ n.seq = live'.seq
  BY DEF VersionOf
<1>2. n.epoch \in Nat /\ n.seq \in Nat /\ life \in Nat /\ lastEpoch \in Nat
  BY <1>1, VersionNumbers DEF FeedTypeOK, Life
<1> HIDE DEF n
<1>3. \A v \in history : v.life \in Nat /\ v.epoch \in Nat /\ v.seq \in Nat
  BY VersionNumbers DEF FeedTypeOK
<1>4. history' = history \cup {n}
  BY DEF n
<1>5. \A v \in history : ~(v.life = n.life /\ v.epoch = n.epoch /\ v.seq = n.seq)
  BY <1>1, <1>2, <1>3
<1>6. \A v, w \in history' :
        v.life = w.life /\ v.epoch = w.epoch /\ v.seq = w.seq => v = w
  BY <1>4, <1>5 DEF HistoryInv
<1>7. \A v \in history' : v.life <= life' /\ (v.life = life' => v.epoch <= lastEpoch')
  BY <1>1, <1>2, <1>3, <1>4 DEF HistoryInv
<1>8. /\ VersionOf(live)' \in history'
      /\ \A v \in history' : v.life = life' /\ v.epoch = live'.epoch => v.seq <= live'.seq
  BY <1>1, <1>2, <1>3, <1>4 DEF n
<1> QED
  BY <1>6, <1>7, <1>8 DEF HistoryInv

LEMMA SourceMoves ==
  ASSUME FeedTypeOK, HistoryInv, SourceChange, life' = life,
         history' = IF live' = None THEN history ELSE history \cup {VersionOf(live')}
  PROVE  /\ HistoryInv'
         /\ history \subseteq history' /\ history' \subseteq CatalogVersion
         /\ live' \in Version \cup {None} /\ change' \in Change /\ lastEpoch' \in Nat
         /\ change'.type = "delta" => DeltaIsReal(history', life', change')
<1>1. /\ live \in Version \cup {None} /\ life \in Life /\ lastEpoch \in Nat
      /\ history \subseteq CatalogVersion
  BY DEF FeedTypeOK, SourceTypeOK
<1>2. live' # None => VersionOf(live') = VersionOf(live)'
  BY DEF VersionOf
<1>3. ASSUME NEW x \in Version, live' = x, x # None
      PROVE  VersionOf(live)' \in CatalogVersion
  BY <1>1, <1>3, ProjectionType DEF VersionOf, Version, CatalogVersion
<1>4. ASSUME NEW e \in Epoch, NEW res \in Resources, e > lastEpoch,
             Install(e, 0, res), lastEpoch' = e
      PROVE  /\ HistoryInv'
             /\ history \subseteq history' /\ history' \subseteq CatalogVersion
             /\ live' \in Version \cup {None} /\ change' \in Change /\ lastEpoch' \in Nat
             /\ change'.type = "delta" => DeltaIsReal(history', life', change')
  <2> DEFINE x == [epoch |-> e, seq |-> 0, res |-> res]
  <2>1. live' = x /\ change' = Reset(e, 0)
    BY <1>4 DEF Install
  <2>2. 0 \in Seqno /\ e \in Nat
    BY BoundsAreNumbers DEF Seqno, Epoch
  <2>3. x \in Version /\ change' \in Change /\ change'.type # "delta"
    BY <2>1, <2>2 DEF Version, Change, Reset
  <2>4. x.epoch = e /\ x.seq = 0
    OBVIOUS
  <2> HIDE DEF x
  <2>5. live' # None
    BY <2>1, <2>3, NoneAssumption DEF NoneAssumption
  <2>6. VersionOf(live)' \in CatalogVersion
    BY <1>3, <2>1, <2>3, <2>5
  <2>7. history' = history \cup {VersionOf(live)'}
    BY <1>2, <2>5
  <2>8. \A v \in history : ~(v.life = life /\ v.epoch = e)
    <3>1. \A v \in history : v.life \in Nat /\ v.epoch \in Nat
      BY <1>1, VersionNumbers
    <3> QED
      BY <3>1, <1>1, <1>4, <2>2 DEF HistoryInv
  <2>9. HistoryInv'
    <3>1. /\ live'.epoch = lastEpoch' /\ lastEpoch' \in Nat /\ live'.seq \in Nat
          /\ lastEpoch' >= lastEpoch
      BY <1>1, <1>4, <2>1, <2>2, <2>4
    <3> QED
      BY <1>4, <2>1, <2>4, <2>5, <2>6, <2>7, <2>8, <3>1, HistoryGrows
  <2> QED
    BY <1>1, <1>4, <2>1, <2>2, <2>3, <2>6, <2>7, <2>9
<1>5. ASSUME NEW k \in Key, NEW v \in Value, NEW deleted \in BOOLEAN,
             live # None, deleted => k \in DOMAIN live.res, Mutate(k, v, deleted),
             lastEpoch' = lastEpoch
      PROVE  /\ HistoryInv'
             /\ history \subseteq history' /\ history' \subseteq CatalogVersion
             /\ live' \in Version \cup {None} /\ change' \in Change /\ lastEpoch' \in Nat
             /\ change'.type = "delta" => DeltaIsReal(history', life', change')
  <2> DEFINE p == VersionOf(live)
             res == Applied(live.res, k, v, deleted)
             a == ActionOf(live.res, k, deleted)
             x == [epoch |-> live.epoch, seq |-> live.seq + 1, res |-> res]
             n == Delta(live.epoch, live.seq + 1, k, v, a)
  <2>1. live' = x /\ change' = n /\ live.seq < MaxSeq
    BY <1>5 DEF Mutate
  <2>2. live.epoch \in Epoch /\ live.seq \in Seqno /\ live.res \in Resources
    BY <1>1, <1>5 DEF Version
  <2>3. live.seq + 1 \in Seqno /\ live.seq \in Nat /\ live.epoch \in Nat
    BY <2>1, <2>2, BoundsAreNumbers DEF Seqno, Epoch
  <2>4. res \in Resources /\ a \in Action
    BY <2>2, AppliedType DEF Action, ActionOf
  <2>5. x \in Version /\ n \in Change
    BY <2>2, <2>3, <2>4 DEF Version, Change, Delta
  <2>6. /\ x.epoch = live.epoch /\ x.seq = live.seq + 1 /\ x.res = res
        /\ n.epoch = live.epoch /\ n.seq = live.seq + 1 /\ n.key = k /\ n.value = v
        /\ n.action = a
    BY DEF Delta
  <2>7. /\ p \in history /\ p.life = life /\ p.epoch = live.epoch /\ p.seq = live.seq
        /\ p.res = Projection(live.res) /\ live.epoch = lastEpoch
    BY <1>5 DEF HistoryInv, VersionOf
  <2>8. a = "deleted" <=> deleted
    BY DEF ActionOf
  <2>9. ActionFits(p.res, n)
    <3>1. a = "created" <=> k \notin DOMAIN live.res
      BY <1>5 DEF ActionOf
    <3>2. k \in Persistent => (k \in DOMAIN Projection(live.res) <=> k \in DOMAIN live.res)
      BY DEF Projection
    <3> QED
      BY <2>6, <2>7, <3>1, <3>2 DEF ActionFits
  <2>10. AfterDelta(p, n) = [life |-> life, epoch |-> live.epoch, seq |-> live.seq + 1,
                             res |-> Projection(res)]
    <3>1. Projection(res) = IF k \in Persistent
                            THEN Applied(Projection(live.res), k, v, deleted)
                            ELSE Projection(live.res)
      BY <2>2, ProjectionFollows
    <3>2. (n.action = "deleted") = deleted
      BY <2>6, <2>8
    <3> HIDE DEF n, p, res, a
    <3> QED
      BY <2>6, <2>7, <3>1, <3>2 DEF AfterDelta
  <2> HIDE DEF x, n, a, p, res
  <2>11. live' # None
    BY <2>1, <2>5, NoneAssumption DEF NoneAssumption
  <2>12. VersionOf(live)' \in CatalogVersion
    BY <1>3, <2>1, <2>5, <2>11
  <2>13. history' = history \cup {VersionOf(live)'}
    BY <1>2, <2>11
  <2>14. \A y \in history : y.life = life /\ y.epoch = live'.epoch => y.seq < live'.seq
    <3>1. \A y \in history : y.seq \in Nat
      BY <1>1, VersionNumbers
    <3>2. live'.epoch = live.epoch /\ live'.seq = live.seq + 1
      BY <2>1, <2>6
    <3>3. \A y \in history : y.life = life /\ y.epoch = live.epoch => y.seq <= live.seq
      BY <1>5 DEF HistoryInv
    <3> QED
      BY <3>1, <3>2, <3>3, <2>3
  <2>15. HistoryInv'
    <3>1. /\ live'.epoch = lastEpoch' /\ lastEpoch' \in Nat /\ live'.seq \in Nat
          /\ lastEpoch' >= lastEpoch
      BY <1>1, <1>5, <2>1, <2>3, <2>6, <2>7
    <3> QED
      BY <2>11, <2>12, <2>13, <2>14, <3>1, HistoryGrows
  <2>16. VersionOf(live)' = AfterDelta(p, n)
    BY <2>1, <2>6, <2>10 DEF VersionOf
  <2>17. DeltaIsReal(history', life', n)
    BY <2>6, <2>7, <2>9, <2>13, <2>16 DEF DeltaIsReal
  <2> QED
    BY <1>1, <1>5, <2>1, <2>5, <2>12, <2>13, <2>15, <2>17
<1>6. CASE Beat /\ lastEpoch' = lastEpoch
  <2>1. /\ live # None /\ live' = live /\ change' = Heartbeat(live.epoch, live.seq)
        /\ live.epoch \in Epoch /\ live.seq \in Seqno
    BY <1>1, <1>6 DEF Beat, Version
  <2>2. change' \in Change /\ change'.type # "delta"
    BY <2>1 DEF Heartbeat, Change
  <2>3. VersionOf(live') = VersionOf(live) /\ VersionOf(live) \in history
    BY <2>1 DEF HistoryInv, VersionOf
  <2>4. history' = history
    BY <2>1, <2>3
  <2>5. HistoryInv'
    BY <1>2, <1>6, <2>1, <2>3, <2>4 DEF HistoryInv
  <2> QED
    BY <1>1, <1>6, <2>1, <2>2, <2>4, <2>5
<1>7. CASE Expire /\ lastEpoch' = lastEpoch
  <2>1. live' = None /\ change' \in Change /\ change'.type # "delta" /\ history' = history
    BY <1>7 DEF Expire, Expired, Change
  <2>2. HistoryInv'
    BY <1>7, <2>1 DEF HistoryInv
  <2> QED
    BY <1>1, <1>7, <2>1, <2>2
<1> QED
  BY <1>4, <1>5, <1>6, <1>7 DEF SourceChange, Fed

-----------------------------------------------------------------------------
(* Every step keeps the invariant *)

LEMMA RegistryKept ==
  ASSUME HistoryInv, UNCHANGED <<sourceVars, life, lastEpoch, history>>
  PROVE  HistoryInv'
BY DEF HistoryInv, VersionOf, sourceVars

LEMMA StreamKept ==
  ASSUME NEW r \in Replica, StreamInv(r), history \subseteq history', life' = life,
         handler'[r] = handler[r], sent'[r] = sent[r], wire'[r] = wire[r],
         catalog'[r] = catalog[r]
  PROVE  StreamInv(r)'
<1>1. PICK e : /\ Reaches(history, life, catalog[r], wire[r], e)
               /\ handler[r] \in {"forwarding", "returned"} => Ready(e, sent[r])
  BY DEF StreamInv
<1>2. Reaches(history', life', catalog'[r], wire'[r], e)
  BY <1>1, ReachesInMore
<1> QED
  BY <1>1, <1>2 DEF StreamInv

\* A step of one stream: the registry and the other streams are as before.
LEMMA OneStream ==
  ASSUME FeedInv, UNCHANGED <<sourceVars, life, lastEpoch, history>>, NEW r \in Replica,
         \A x \in Replica \ {r} :
           /\ handler'[x] = handler[x] /\ sent'[x] = sent[x] /\ wire'[x] = wire[x]
           /\ catalog'[x] = catalog[x] /\ queue'[x] = queue[x],
         \A i \in DOMAIN queue'[r] :
           queue'[r][i].type = "delta" => DeltaIsReal(history, life, queue'[r][i]),
         FeedTypeOK', StreamInv(r)'
  PROVE  FeedInv'
<1>1. HistoryInv'
  BY RegistryKept DEF FeedInv
<1>2. \A x \in Replica \ {r} : StreamInv(x)'
  BY StreamKept DEF FeedInv
<1>3. QueueInv'
  <2>1. history' = history /\ life' = life
    OBVIOUS
  <2>2. \A x \in Replica \ {r} : \A i \in DOMAIN queue'[x] :
          queue'[x][i].type = "delta" => DeltaIsReal(history, life, queue'[x][i])
    BY DEF FeedInv, QueueInv
  <2> QED
    BY <2>1, <2>2 DEF QueueInv
<1> QED
  BY <1>1, <1>2, <1>3 DEF FeedInv

LEMMA PublishKeeps ==
  ASSUME FeedInv, PublishChange
  PROVE  FeedInv'
<1>1. FeedTypeOK /\ HistoryInv /\ QueueInv /\ life' = life /\ settled' = settled
      /\ catalog' = catalog /\ handler' = handler /\ sent' = sent /\ wire' = wire
  BY DEF FeedInv, PublishChange, Publish
<1>2. /\ HistoryInv'
      /\ history \subseteq history' /\ history' \subseteq CatalogVersion
      /\ live' \in Version \cup {None} /\ change' \in Change /\ lastEpoch' \in Nat
      /\ change'.type = "delta" => DeltaIsReal(history', life', change')
  BY <1>1, SourceMoves DEF PublishChange
<1>3. queue' = [r \in Replica |->
        IF feed[r] = "open" /\ Room(r) THEN Append(queue[r], change') ELSE queue[r]]
  BY DEF PublishChange, Publish
<1>4. feed' \in [Replica -> {"none", "open", "removed"}]
  BY <1>1 DEF PublishChange, Publish, FeedTypeOK
<1>5. ASSUME NEW r \in Replica
      PROVE  /\ queue'[r] \in Seq(Change)
             /\ \A i \in DOMAIN queue'[r] :
                  queue'[r][i].type = "delta" => DeltaIsReal(history', life', queue'[r][i])
  <2> DEFINE q == queue[r]
             n == change'
  <2>1. q \in Seq(Change)
    BY <1>1 DEF FeedTypeOK
  <2>2. \A i \in DOMAIN q : q[i].type = "delta" => DeltaIsReal(history', life', q[i])
    BY <1>1, <1>2, DeltaIsRealInMore DEF QueueInv
  <2>3. queue'[r] = Append(q, n) \/ queue'[r] = q
    BY <1>3
  <2>4. n \in Change /\ (n.type = "delta" => DeltaIsReal(history', life', n))
    BY <1>2
  <2> HIDE DEF q, n
  <2>5. CASE queue'[r] = q
    BY <2>1, <2>2, <2>5
  <2>6. CASE queue'[r] = Append(q, n)
    <3>1. /\ Append(q, n) \in Seq(Change) /\ Len(Append(q, n)) = Len(q) + 1
          /\ Append(q, n)[Len(q) + 1] = n
          /\ \A i \in 1 .. Len(q) : Append(q, n)[i] = q[i]
      BY <2>1, <2>4, AppendProperties
    <3>2. DOMAIN Append(q, n) = 1 .. (Len(q) + 1) /\ DOMAIN q = 1 .. Len(q) /\ Len(q) \in Nat
      BY <2>1, <3>1, LenProperties
    <3>3. \A i \in DOMAIN Append(q, n) : i \in DOMAIN q \/ i = Len(q) + 1
      BY <3>2
    <3> QED
      BY <2>2, <2>4, <2>6, <3>1, <3>2, <3>3
  <2> QED
    BY <2>3, <2>5, <2>6
<1>6. QueueInv'
  BY <1>5 DEF QueueInv
<1>7. queue' \in [Replica -> Seq(Change)]
  BY <1>3, <1>5
<1>8. FeedTypeOK'
  BY <1>1, <1>2, <1>4, <1>7 DEF FeedTypeOK, SourceTypeOK
<1>9. \A r \in Replica : StreamInv(r)'
  BY <1>1, <1>2, StreamKept DEF FeedInv
<1> QED
  BY <1>2, <1>6, <1>8, <1>9 DEF FeedInv

LEMMA ResetIsGood ==
  ASSUME NEW hist, NEW l, NEW m, NEW c, Good(hist, l, c)
  PROVE  Good(hist, m, ResetCatalog(c)) /\ ResetCatalog(c) \in Catalog
<1>1. c \in Catalog
  BY DEF Good
<1> DEFINE b == ResetCatalog(c)
<1>2. /\ b.available = c.available /\ b.resync = TRUE /\ b.held = c.held
      /\ b \in Catalog
  BY <1>1, CatalogType DEF ResetCatalog, Catalog
<1> HIDE DEF b
<1>3. Good(hist, m, b)
  BY <1>2 DEF Good
<1> QED
  BY <1>2, <1>3 DEF b

\* What a replica has is good.
LEMMA CatalogIsGood ==
  ASSUME FeedInv, NEW r \in Replica
  PROVE  Good(history, life, catalog[r]) /\ catalog[r] \in Catalog
<1>1. wire[r] \in Seq(Frame)
  BY DEF FeedInv, FeedTypeOK
<1> QED
  BY <1>1, ReachesGood DEF FeedInv, StreamInv, Good

LEMMA RestartKeeps ==
  ASSUME FeedInv, RestartRegistry
  PROVE  FeedInv'
<1>1. FeedTypeOK /\ HistoryInv /\ life \in Nat /\ life' = life + 1 /\ life' \in Life
      /\ history' = history /\ lastEpoch' = 0
  BY BoundsAreNumbers DEF FeedInv, RestartRegistry, FeedTypeOK, Life
<1>2. \A r \in Replica :
        /\ handler'[r] = "none" /\ wire'[r] = <<>> /\ queue'[r] = <<>>
        /\ catalog'[r] = IF handler[r] = "none" THEN catalog[r] ELSE ResetCatalog(catalog[r])
  BY DEF RestartRegistry
<1>3. ASSUME NEW r \in Replica
      PROVE  /\ Good(history, life', catalog'[r])
             /\ catalog'[r].available => catalog'[r].resync
             /\ catalog'[r] \in Catalog
  <2>1. Good(history, life, catalog[r]) /\ catalog[r] \in Catalog
    BY CatalogIsGood
  <2>2. CASE handler[r] = "none"
    BY <1>2, <2>1, <2>2 DEF FeedInv, StreamInv, Good
  <2>3. CASE handler[r] # "none"
    <3>1. ResetCatalog(catalog[r]).resync = TRUE
      BY DEF ResetCatalog
    <3> QED
      BY <1>2, <2>1, <2>3, <3>1, ResetIsGood
  <2> QED
    BY <2>2, <2>3
<1>4. HistoryInv'
  <2>1. \A v \in history : v.life \in Nat /\ v.life <= life
    BY <1>1, VersionNumbers DEF FeedTypeOK, HistoryInv
  <2>2. \A v \in history : v.life <= life + 1 /\ v.life # life + 1
    BY <1>1, <2>1
  <2>3. live' = None
    BY DEF RestartRegistry, Forget
  <2> QED
    BY <1>1, <2>2, <2>3 DEF HistoryInv
<1>5. QueueInv'
  <2>1. DOMAIN <<>> = {}
    OBVIOUS
  <2> QED
    BY <1>2, <2>1 DEF QueueInv
<1>6. \A r \in Replica : StreamInv(r)'
  <2> SUFFICES ASSUME NEW r \in Replica
               PROVE  StreamInv(r)'
    OBVIOUS
  <2>1. Reaches(history', life', catalog'[r], wire'[r], catalog'[r])
    BY <1>1, <1>2, <1>3, ReachesItself
  <2> QED
    BY <1>2, <1>3, <2>1 DEF StreamInv
<1>7. FeedTypeOK'
  <2>1. catalog' \in [Replica -> Catalog]
    <3>1. catalog' = [r \in Replica |->
            IF handler[r] = "none" THEN catalog[r] ELSE ResetCatalog(catalog[r])]
      BY DEF RestartRegistry
    <3> QED
      BY <1>3, <3>1
  <2>2. /\ queue' \in [Replica -> Seq(Change)] /\ wire' \in [Replica -> Seq(Frame)]
        /\ handler' \in [Replica -> {"none", "subscribed", "forwarding", "returned"}]
        /\ feed' \in [Replica -> {"none", "open", "removed"}]
    BY DEF RestartRegistry
  <2>3. sent' \in [Replica -> [epoch : Nat, seq : Nat]]
    BY DEF RestartRegistry, Nowhere
  <2>4. live' \in Version \cup {None} /\ change' \in Change \cup {None} /\ settled' = settled
    BY DEF RestartRegistry, Forget
  <2> QED
    BY <1>1, <2>1, <2>2, <2>3, <2>4 DEF FeedTypeOK, SourceTypeOK
<1> QED
  BY <1>4, <1>5, <1>6, <1>7 DEF FeedInv

LEMMA SubscribeKeeps ==
  ASSUME FeedInv, NEW r \in Replica, Subscribe(r)
  PROVE  FeedInv'
<1>1. FeedTypeOK /\ StreamInv(r) /\ QueueInv
  BY DEF FeedInv
<1>2. /\ UNCHANGED <<sourceVars, life, lastEpoch, history, settled, queue, sent, wire, catalog>>
      /\ handler[r] = "none" /\ handler' = [handler EXCEPT ![r] = "subscribed"]
      /\ feed' = [feed EXCEPT ![r] = "open"]
  BY DEF Subscribe
<1>3. FeedTypeOK'
  BY <1>1, <1>2 DEF FeedTypeOK, SourceTypeOK, sourceVars
<1>4. handler'[r] = "subscribed" /\ \A x \in Replica \ {r} : handler'[x] = handler[x]
  BY <1>1, <1>2 DEF FeedTypeOK
<1>5. StreamInv(r)'
  BY <1>1, <1>2, <1>4 DEF StreamInv
<1> QED
  BY <1>1, <1>2, <1>3, <1>4, <1>5, OneStream DEF QueueInv

LEMMA OverflowKeeps ==
  ASSUME FeedInv, NEW r \in Replica, Overflow(r)
  PROVE  FeedInv'
<1>1. FeedTypeOK /\ StreamInv(r) /\ QueueInv
  BY DEF FeedInv
<1>2. /\ UNCHANGED <<sourceVars, life, lastEpoch, history, settled, feed, queue, sent, wire,
                     catalog>>
      /\ handler[r] = "forwarding" /\ handler' = [handler EXCEPT ![r] = "returned"]
  BY DEF Overflow
<1>3. FeedTypeOK'
  BY <1>1, <1>2 DEF FeedTypeOK, SourceTypeOK, sourceVars
<1>4. handler'[r] = "returned" /\ \A x \in Replica \ {r} : handler'[x] = handler[x]
  BY <1>1, <1>2 DEF FeedTypeOK
<1>5. StreamInv(r)'
  BY <1>1, <1>2, <1>4 DEF StreamInv
<1> QED
  BY <1>1, <1>2, <1>3, <1>4, <1>5, OneStream DEF QueueInv

LEMMA SnapshotTypes ==
  ASSUME FeedTypeOK, NEW r \in Replica
  PROVE  SnapshotFrames \in Seq(Frame) /\ SentBySnapshot(r) \in [epoch : Nat, seq : Nat]
<1>1. CASE live = None
  BY <1>1, FrameTypes DEF SnapshotFrames, ResetFrame, SentBySnapshot, FeedTypeOK
<1>2. CASE live # None
  <2> DEFINE v == VersionOf(live)
             begin == [type |-> "BEGIN", life |-> life, epoch |-> v.epoch, seq |-> v.seq]
             chunk == [type |-> "CHUNK", epoch |-> v.epoch, seq |-> v.seq, res |-> v.res]
             commit == [type |-> "COMMIT", epoch |-> v.epoch, seq |-> v.seq]
  <2>1. live.epoch \in Epoch /\ live.seq \in Seqno /\ live.res \in Resources
    BY <1>2 DEF FeedTypeOK, SourceTypeOK, Version
  <2>2. v.epoch = live.epoch /\ v.seq = live.seq /\ v.res = Projection(live.res)
    BY DEF VersionOf
  <2>3. begin \in Frame /\ chunk \in Frame /\ commit \in Frame
    BY <2>1, <2>2, ProjectionType, FrameTypes DEF FeedTypeOK
  <2>4. SnapshotFrames = <<begin>> \o (IF v.res = NoResources THEN <<>> ELSE <<chunk>>)
                         \o <<commit>>
    BY <1>2 DEF SnapshotFrames
  <2> HIDE DEF begin, chunk, commit, v
  <2>5. /\ <<begin>> \in Seq(Frame) /\ <<chunk>> \in Seq(Frame) /\ <<commit>> \in Seq(Frame)
        /\ <<>> \in Seq(Frame)
    BY <2>3
  <2>6. SnapshotFrames \in Seq(Frame)
    <3>1. CASE v.res = NoResources
      BY <3>1, <2>4, <2>5, ConcatProperties
    <3>2. CASE v.res # NoResources
      BY <3>2, <2>4, <2>5, ConcatProperties
    <3> QED
      BY <3>1, <3>2
  <2>7. SentBySnapshot(r) \in [epoch : Nat, seq : Nat]
    BY <1>2, <2>1, BoundsAreNumbers DEF SentBySnapshot, Epoch, Seqno
  <2> QED
    BY <2>6, <2>7
<1> QED
  BY <1>1, <1>2

LEMMA FirstSnapshotKeeps ==
  ASSUME FeedInv, NEW r \in Replica, FirstSnapshot(r)
  PROVE  FeedInv'
<1>1. FeedTypeOK /\ StreamInv(r) /\ QueueInv /\ HistoryInv
  BY DEF FeedInv
<1>2. /\ UNCHANGED <<sourceVars, life, lastEpoch, history, settled, feed, queue, catalog>>
      /\ handler' = [handler EXCEPT ![r] = "forwarding"]
      /\ wire' = [wire EXCEPT ![r] = @ \o SnapshotFrames]
      /\ sent' = [sent EXCEPT ![r] = SentBySnapshot(r)]
  BY DEF FirstSnapshot, SendFrames
<1>3. SnapshotFrames \in Seq(Frame) /\ SentBySnapshot(r) \in [epoch : Nat, seq : Nat]
  BY <1>1, SnapshotTypes
<1>4. wire[r] \in Seq(Frame) /\ wire[r] \o SnapshotFrames \in Seq(Frame)
  BY <1>1, <1>3, ConcatProperties DEF FeedTypeOK
<1>5. FeedTypeOK'
  BY <1>1, <1>2, <1>3, <1>4 DEF FeedTypeOK, SourceTypeOK, sourceVars
<1>6. /\ handler'[r] = "forwarding" /\ wire'[r] = wire[r] \o SnapshotFrames
      /\ sent'[r] = SentBySnapshot(r)
      /\ \A x \in Replica \ {r} :
           handler'[x] = handler[x] /\ wire'[x] = wire[x] /\ sent'[x] = sent[x]
  BY <1>1, <1>2 DEF FeedTypeOK
<1>7. StreamInv(r)'
  <2>1. PICK e : Reaches(history, life, catalog[r], wire[r], e)
    BY <1>1 DEF StreamInv
  <2>2. PICK b : /\ Reaches(history, life, catalog[r], wire[r] \o SnapshotFrames, b)
                 /\ Ready(b, SentBySnapshot(r))
    BY <1>1, <1>4, <2>1, AfterSnapshot DEF SentBySnapshot
  <2> QED
    BY <1>2, <1>6, <2>2 DEF StreamInv
<1> QED
  BY <1>1, <1>2, <1>5, <1>6, <1>7, OneStream DEF QueueInv

LEMMA HangUpKeeps ==
  ASSUME FeedInv, NEW r \in Replica, HangUp(r)
  PROVE  FeedInv'
<1>1. FeedTypeOK /\ QueueInv /\ Good(history, life, catalog[r]) /\ catalog[r] \in Catalog
  BY CatalogIsGood DEF FeedInv
<1> DEFINE b == ResetCatalog(catalog[r])
<1>2. /\ UNCHANGED <<sourceVars, life, lastEpoch, history, settled>>
      /\ catalog' = [catalog EXCEPT ![r] = b]
      /\ handler' = [handler EXCEPT ![r] = "none"]
      /\ feed' = [feed EXCEPT ![r] = "none"]
      /\ queue' = [queue EXCEPT ![r] = <<>>]
      /\ sent' = [sent EXCEPT ![r] = Nowhere]
      /\ wire' = [wire EXCEPT ![r] = <<>>]
  BY DEF HangUp
<1>3. Good(history, life, b) /\ b \in Catalog /\ b.resync = TRUE
  BY <1>1, ResetIsGood DEF ResetCatalog
<1> HIDE DEF b
<1>4. Nowhere \in [epoch : Nat, seq : Nat] /\ <<>> \in Seq(Frame) /\ <<>> \in Seq(Change)
  BY DEF Nowhere
<1>5. FeedTypeOK'
  BY <1>1, <1>2, <1>3, <1>4 DEF FeedTypeOK, SourceTypeOK, sourceVars
<1>6. /\ handler'[r] = "none" /\ wire'[r] = <<>> /\ queue'[r] = <<>> /\ catalog'[r] = b
      /\ \A x \in Replica \ {r} :
           /\ handler'[x] = handler[x] /\ sent'[x] = sent[x] /\ wire'[x] = wire[x]
           /\ catalog'[x] = catalog[x] /\ queue'[x] = queue[x]
  BY <1>1, <1>2 DEF FeedTypeOK
<1>7. StreamInv(r)'
  <2>1. Reaches(history, life, b, <<>>, b)
    BY <1>3, ReachesItself
  <2> QED
    BY <1>2, <1>3, <1>6, <2>1 DEF StreamInv
<1>8. DOMAIN queue'[r] = {}
  BY <1>6
<1> QED
  BY <1>2, <1>5, <1>6, <1>7, <1>8, OneStream

\* What a replica makes of the next frame.
LEMMA ReceiveLinks ==
  ASSUME FeedInv, NEW r \in Replica, wire[r] # <<>>
  PROVE  \E b, e : /\ Link(catalog[r], Head(wire[r]), b) /\ Good(history, life, b)
                   /\ Reaches(history, life, b, Tail(wire[r]), e)
                   /\ handler[r] \in {"forwarding", "returned"} /\ Ready(e, sent[r])
<1>1. wire[r] \in Seq(Frame) /\ StreamInv(r)
      /\ handler[r] \in {"none", "subscribed", "forwarding", "returned"}
  BY DEF FeedInv, FeedTypeOK
<1>2. PICK e : Reaches(history, life, catalog[r], wire[r], e) /\ Ready(e, sent[r])
  BY <1>1 DEF StreamInv
<1>3. PICK b : /\ Link(catalog[r], Head(wire[r]), b) /\ Good(history, life, b)
               /\ Reaches(history, life, b, Tail(wire[r]), e)
  BY <1>1, <1>2, ReachesOn
<1> QED
  BY <1>1, <1>2, <1>3 DEF StreamInv

LEMMA ReceiveKeeps ==
  ASSUME FeedInv, NEW r \in Replica, Receive(r)
  PROVE  FeedInv' /\ Onward(catalog[r], catalog'[r])
<1>1. FeedTypeOK /\ QueueInv
  BY DEF FeedInv
<1>2. /\ UNCHANGED <<sourceVars, life, lastEpoch, history, settled, feed, queue, handler, sent>>
      /\ wire[r] # <<>> /\ Accepts(catalog[r], Head(wire[r]))
      /\ catalog' = [catalog EXCEPT ![r] = After(catalog[r], Head(wire[r]))]
      /\ wire' = [wire EXCEPT ![r] = Tail(wire[r])]
  BY DEF Receive
<1>3. PICK b, e : /\ Link(catalog[r], Head(wire[r]), b) /\ Good(history, life, b)
                  /\ Reaches(history, life, b, Tail(wire[r]), e)
                  /\ handler[r] \in {"forwarding", "returned"} /\ Ready(e, sent[r])
  BY <1>2, ReceiveLinks
<1>4. b = After(catalog[r], Head(wire[r])) /\ Onward(catalog[r], b) /\ b \in Catalog
  BY <1>2, <1>3 DEF Link, Good
<1>5. Tail(wire[r]) \in Seq(Frame)
  BY <1>1, <1>2, HeadTailProperties DEF FeedTypeOK
<1>6. FeedTypeOK'
  BY <1>1, <1>2, <1>4, <1>5 DEF FeedTypeOK, SourceTypeOK, sourceVars
<1>7. /\ catalog'[r] = b /\ wire'[r] = Tail(wire[r])
      /\ \A x \in Replica \ {r} : wire'[x] = wire[x] /\ catalog'[x] = catalog[x]
  BY <1>1, <1>2, <1>4 DEF FeedTypeOK
<1>8. StreamInv(r)'
  BY <1>2, <1>3, <1>7 DEF StreamInv
<1>9. FeedInv'
  BY <1>1, <1>2, <1>6, <1>7, <1>8, OneStream DEF QueueInv
<1> QED
  BY <1>4, <1>7, <1>9

\* A delta of the queue, as it is sent.
LEMMA DeltaIsSent ==
  ASSUME NEW hist, NEW l, NEW n \in Change, n.type = "delta", DeltaIsReal(hist, l, n)
  PROVE  LET f == DeltaFrame(n) IN
         /\ f \in Frame /\ f.type = "DELTA" /\ f.epoch = n.epoch /\ f.seq = n.seq
         /\ DeltaIsReal(hist, l, f) /\ n.epoch \in Epoch /\ n.seq \in Seqno
<1>1. /\ n.epoch \in Epoch /\ n.seq \in Seqno /\ n.key \in Key /\ n.value \in Value
      /\ n.action \in Action
  BY DEF Change
<1> DEFINE f == DeltaFrame(n)
<1>2. /\ f.type = "DELTA" /\ f.epoch = n.epoch /\ f.seq = n.seq /\ f.key = n.key
      /\ f.value = n.value /\ f.action = n.action /\ f \in Frame
  BY <1>1 DEF DeltaFrame, Frame
<1> HIDE DEF f
<1>3. \A res : ActionFits(res, n) <=> ActionFits(res, f)
  BY <1>2 DEF ActionFits
<1>4. \A p : AfterDelta(p, n) = AfterDelta(p, f)
  BY <1>2 DEF AfterDelta
<1>5. DeltaIsReal(hist, l, f)
  BY <1>2, <1>3, <1>4 DEF DeltaIsReal
<1> QED
  BY <1>1, <1>2, <1>5 DEF f

\* The handler takes a notification off its queue and sends what it has to:
\* where the frames lead is what the handler then counts as sent.
LEMMA ForwardKeeps ==
  ASSUME FeedInv, NEW r \in Replica, Forward(r)
  PROVE  FeedInv'
<1> DEFINE n == Head(queue[r])
           w == wire[r]
<1>1. FeedTypeOK /\ QueueInv /\ HistoryInv /\ StreamInv(r)
  BY DEF FeedInv
<1>2. /\ UNCHANGED <<sourceVars, life, lastEpoch, history, settled, feed, handler, catalog>>
      /\ handler[r] = "forwarding" /\ queue[r] # <<>>
      /\ queue' = [queue EXCEPT ![r] = Tail(queue[r])]
  BY DEF Forward
<1>3. /\ queue[r] \in Seq(Change) /\ w \in Seq(Frame)
      /\ sent[r] \in [epoch : Nat, seq : Nat]
  BY <1>1 DEF FeedTypeOK
<1>4. /\ n \in Change /\ Tail(queue[r]) \in Seq(Change)
      /\ n = queue[r][1] /\ 1 \in DOMAIN queue[r]
      /\ Len(Tail(queue[r])) = Len(queue[r]) - 1
      /\ \A i \in 1 .. Len(Tail(queue[r])) : Tail(queue[r])[i] = queue[r][i + 1]
  <2>1. Len(queue[r]) \in Nat \ {0} /\ DOMAIN queue[r] = 1 .. Len(queue[r])
    BY <1>2, <1>3, EmptySeq, LenProperties
  <2>2. n = queue[r][1]
    BY <1>2, <1>3
  <2> QED
    BY <1>2, <1>3, <2>1, <2>2, HeadTailProperties
<1>5. n.type = "delta" => DeltaIsReal(history, life, n)
  BY <1>1, <1>4 DEF QueueInv
<1>6. PICK e : Reaches(history, life, catalog[r], w, e) /\ Ready(e, sent[r])
  BY <1>1, <1>2 DEF StreamInv
<1>7. /\ queue'[r] = Tail(queue[r])
      /\ \A x \in Replica \ {r} : queue'[x] = queue[x]
  BY <1>1, <1>2 DEF FeedTypeOK
<1>8. \A i \in DOMAIN queue'[r] :
        queue'[r][i].type = "delta" => DeltaIsReal(history, life, queue'[r][i])
  <2>1. DOMAIN Tail(queue[r]) = 1 .. Len(Tail(queue[r])) /\ Len(queue[r]) \in Nat
        /\ DOMAIN queue[r] = 1 .. Len(queue[r])
    BY <1>3, <1>4, LenProperties
  <2>2. \A i \in DOMAIN Tail(queue[r]) :
          i + 1 \in DOMAIN queue[r] /\ Tail(queue[r])[i] = queue[r][i + 1]
    BY <1>4, <2>1
  <2> QED
    BY <1>1, <1>7, <2>2 DEF QueueInv
<1> DEFINE Sends(frames, s) ==
      /\ wire' = [wire EXCEPT ![r] = w \o frames] /\ frames \in Seq(Frame)
      /\ sent' = [sent EXCEPT ![r] = s] /\ s \in [epoch : Nat, seq : Nat]
      /\ \E b : Reaches(history, life, catalog[r], w \o frames, b) /\ Ready(b, s)
<1>9. ASSUME NEW frames, NEW s, Sends(frames, s)
      PROVE  FeedInv'
  <2>1. w \o frames \in Seq(Frame)
    BY <1>3, <1>9, ConcatProperties
  <2>2. FeedTypeOK'
    BY <1>1, <1>2, <1>4, <1>9, <2>1 DEF FeedTypeOK, SourceTypeOK, sourceVars
  <2>3. /\ wire'[r] = w \o frames /\ sent'[r] = s /\ handler'[r] = "forwarding"
        /\ \A x \in Replica \ {r} : wire'[x] = wire[x] /\ sent'[x] = sent[x]
    BY <1>1, <1>2, <1>9 DEF FeedTypeOK
  <2>4. StreamInv(r)'
    BY <1>2, <1>9, <2>3 DEF StreamInv
  <2> QED
    BY <1>2, <1>7, <1>8, <2>2, <2>3, <2>4, OneStream
<1> HIDE DEF n, w
<1>10. ASSUME NEW f \in Frame, NEW s \in [epoch : Nat, seq : Nat], NEW b,
              wire' = [wire EXCEPT ![r] = w \o <<f>>], sent' = [sent EXCEPT ![r] = s],
              Reaches(history, life, catalog[r], Append(w, f), b), Ready(b, s)
       PROVE  FeedInv'
  <2>1. Append(w, f) = w \o <<f>> /\ <<f>> \in Seq(Frame)
    BY <1>3, AppendIsConcat
  <2>2. Sends(<<f>>, s)
    BY <1>10, <2>1
  <2> QED
    BY <1>9, <2>2
<1>11. CASE n.type = "expired" /\ SendFrames(r, <<[type |-> "EXPIRED"]>>)
            /\ sent' = [sent EXCEPT ![r] = Nowhere]
  <2>1. PICK b : /\ Reaches(history, life, catalog[r], Append(w, [type |-> "EXPIRED"]), b)
                 /\ \A s : Ready(b, s)
    BY <1>3, <1>6, AfterExpiry
  <2>2. Nowhere \in [epoch : Nat, seq : Nat]
    BY DEF Nowhere
  <2> QED
    BY <1>10, <1>11, <2>1, <2>2, FrameTypes DEF SendFrames, w
<1>12. CASE /\ n.type = "heartbeat"
            /\ SendFrames(r, <<[type |-> "HEARTBEAT", epoch |-> n.epoch, seq |-> n.seq]>>)
            /\ UNCHANGED sent
  <2> DEFINE f == [type |-> "HEARTBEAT", epoch |-> n.epoch, seq |-> n.seq]
  <2>1. n.epoch \in Epoch /\ n.seq \in Seqno
    BY <1>4, <1>12 DEF Change
  <2>2. f \in Frame /\ f.type = "HEARTBEAT"
    BY <2>1, FrameTypes
  <2>3. sent' = [sent EXCEPT ![r] = sent[r]]
    BY <1>1, <1>12 DEF FeedTypeOK
  <2>4. wire' = [wire EXCEPT ![r] = w \o <<f>>]
    BY <1>12 DEF SendFrames, w
  <2> HIDE DEF f
  <2>5. Reaches(history, life, catalog[r], Append(w, f), e)
    BY <1>3, <1>6, <2>2, AfterBeat
  <2> QED
    BY <1>3, <1>6, <1>10, <2>2, <2>3, <2>4, <2>5
<1>13. CASE UNCHANGED <<wire, sent>>
  <2>1. /\ wire' = [wire EXCEPT ![r] = w \o <<>>] /\ w \o <<>> = w
        /\ sent' = [sent EXCEPT ![r] = sent[r]] /\ <<>> \in Seq(Frame)
    BY <1>1, <1>3, <1>13, ConcatEmptySeq DEF FeedTypeOK, w
  <2>2. Sends(<<>>, sent[r])
    BY <1>3, <1>6, <2>1
  <2> QED
    BY <1>9, <2>2
<1>14. CASE /\ n.type = "delta" /\ Successor(n, sent[r])
            /\ SendFrames(r, <<DeltaFrame(n)>>)
            /\ sent' = [sent EXCEPT ![r] = [epoch |-> n.epoch, seq |-> n.seq]]
  <2> DEFINE f == DeltaFrame(n)
  <2>1. /\ f \in Frame /\ f.type = "DELTA" /\ f.epoch = n.epoch /\ f.seq = n.seq
        /\ DeltaIsReal(history, life, f) /\ n.epoch \in Epoch /\ n.seq \in Seqno
    BY <1>4, <1>5, <1>14, DeltaIsSent
  <2>2. f.epoch = sent[r].epoch /\ f.seq = sent[r].seq + 1
    BY <1>14, <2>1 DEF Successor
  <2>3. wire' = [wire EXCEPT ![r] = w \o <<f>>]
    BY <1>14 DEF SendFrames, w
  <2>4. [epoch |-> n.epoch, seq |-> n.seq] \in [epoch : Nat, seq : Nat]
    BY <2>1, BoundsAreNumbers DEF Epoch, Seqno
  <2>5. /\ history \subseteq CatalogVersion
        /\ \A v, x \in history :
             v.life = x.life /\ v.epoch = x.epoch /\ v.seq = x.seq => v = x
    BY <1>1 DEF FeedTypeOK, HistoryInv
  <2> HIDE DEF f
  <2>6. PICK b : /\ Reaches(history, life, catalog[r], Append(w, f), b)
                 /\ Ready(b, [epoch |-> f.epoch, seq |-> f.seq])
    BY <1>3, <1>6, <2>1, <2>2, <2>5, AfterDeltaFrame
  <2> QED
    BY <1>10, <1>14, <2>1, <2>3, <2>4, <2>6
<1>15. CASE /\ SendFrames(r, <<ResetFrame>> \o SnapshotFrames)
            /\ sent' = [sent EXCEPT ![r] = SentBySnapshot(r)]
  <2>1. /\ SnapshotFrames \in Seq(Frame) /\ SentBySnapshot(r) \in [epoch : Nat, seq : Nat]
        /\ ResetFrame \in Frame /\ <<ResetFrame>> \in Seq(Frame)
    BY <1>1, SnapshotTypes, FrameTypes DEF ResetFrame
  <2>2. /\ <<ResetFrame>> \o SnapshotFrames \in Seq(Frame)
        /\ w \o (<<ResetFrame>> \o SnapshotFrames) = Append(w, ResetFrame) \o SnapshotFrames
    BY <1>3, <2>1, ConcatProperties, ConcatAssociative, AppendIsConcat, SMTT(20)
  <2>3. Append(w, ResetFrame) \in Seq(Frame)
    BY <1>3, <2>1, AppendProperties
  <2>4. Reaches(history, life, catalog[r], Append(w, ResetFrame), ResetCatalog(e))
    BY <1>3, <1>6, AfterReset
  <2>5. \E b : /\ Reaches(history, life, catalog[r], Append(w, ResetFrame) \o SnapshotFrames, b)
               /\ Ready(b, SentBySnapshot(r))
    BY <1>1, <2>3, <2>4, AfterSnapshot DEF SentBySnapshot
  <2>6. Sends(<<ResetFrame>> \o SnapshotFrames, SentBySnapshot(r))
    BY <1>15, <2>1, <2>2, <2>5 DEF SendFrames, w
  <2> QED
    BY <1>9, <2>6
<1> QED
  BY <1>11, <1>12, <1>13, <1>14, <1>15 DEF Forward, n

-----------------------------------------------------------------------------
(* The theorems *)

LEMMA FeedInvInit == FeedInit => FeedInv
<1> SUFFICES ASSUME FeedInit
             PROVE  FeedInv
  OBVIOUS
<1>1. FeedTypeOK
  <2>1. 1 \in Life
    BY BoundsAreNumbers DEF Life
  <2>2. [available |-> FALSE, resync |-> FALSE, held |-> None, staging |-> None] \in Catalog
    BY DEF Catalog
  <2>3. Nowhere \in [epoch : Nat, seq : Nat]
    BY DEF Nowhere
  <2>4. catalog \in [Replica -> Catalog]
    BY <2>2 DEF FeedInit
  <2>5. sent \in [Replica -> [epoch : Nat, seq : Nat]]
    BY <2>3 DEF FeedInit
  <2>6. live \in Version \cup {None} /\ change \in Change \cup {None}
    BY DEF FeedInit, SourceInit
  <2>7. /\ feed \in [Replica -> {"none", "open", "removed"}]
        /\ handler \in [Replica -> {"none", "subscribed", "forwarding", "returned"}]
    BY DEF FeedInit
  <2>8. <<>> \in Seq(Change) /\ <<>> \in Seq(Frame)
    OBVIOUS
  <2>9. queue \in [Replica -> Seq(Change)] /\ wire \in [Replica -> Seq(Frame)]
    BY <2>8 DEF FeedInit
  <2>10. /\ life \in Life /\ lastEpoch \in Nat /\ history \subseteq CatalogVersion
         /\ settled \in BOOLEAN
    BY <2>1 DEF FeedInit
  <2> QED
    BY <2>4, <2>5, <2>6, <2>7, <2>9, <2>10 DEF FeedTypeOK, SourceTypeOK
<1>2. HistoryInv
  BY DEF FeedInit, SourceInit, HistoryInv
<1>3. QueueInv
  <2>1. DOMAIN <<>> = {}
    OBVIOUS
  <2> QED
    BY <2>1 DEF FeedInit, QueueInv
<1>4. ASSUME NEW r \in Replica
      PROVE  StreamInv(r)
  <2>1. /\ handler[r] = "none" /\ wire[r] = <<>> /\ catalog[r].available = FALSE
        /\ catalog[r] \in Catalog
    BY <1>1 DEF FeedInit, FeedTypeOK
  <2>2. Good(history, life, catalog[r])
    BY <2>1 DEF Good
  <2>3. Reaches(history, life, catalog[r], wire[r], catalog[r])
    BY <2>1, <2>2, ReachesItself
  <2> QED
    BY <2>1, <2>3 DEF StreamInv
<1> QED
  BY <1>1, <1>2, <1>3, <1>4 DEF FeedInv

LEMMA FeedInvStep == FeedInv /\ [FeedNext]_feedVars => FeedInv'
<1> SUFFICES ASSUME FeedInv, [FeedNext]_feedVars
             PROVE  FeedInv'
  OBVIOUS
<1>1. CASE PublishChange
  BY <1>1, PublishKeeps
<1>2. CASE RestartRegistry
  BY <1>2, RestartKeeps
<1>3. ASSUME NEW r \in Replica, Advance(r) \/ Break(r)
      PROVE  FeedInv'
  <2>1. CASE Subscribe(r)
    BY <2>1, SubscribeKeeps
  <2>2. CASE FirstSnapshot(r)
    BY <2>2, FirstSnapshotKeeps
  <2>3. CASE Forward(r)
    BY <2>3, ForwardKeeps
  <2>4. CASE Overflow(r)
    BY <2>4, OverflowKeeps
  <2>5. CASE Receive(r)
    BY <2>5, ReceiveKeeps
  <2>6. CASE HangUp(r)
    BY <2>6, HangUpKeeps
  <2> QED
    BY <1>3, <2>1, <2>2, <2>3, <2>4, <2>5, <2>6 DEF Advance, Refuse, EndOfStream, Break
<1>4. CASE UNCHANGED feedVars
  <2>1. UNCHANGED <<sourceVars, life, lastEpoch, history, settled, feed, queue, handler, sent,
                    wire, catalog>>
    BY <1>4 DEF feedVars, streamVars
  <2>2. FeedTypeOK'
    BY <2>1 DEF FeedInv, FeedTypeOK, SourceTypeOK, sourceVars
  <2>3. HistoryInv'
    BY <2>1, RegistryKept DEF FeedInv
  <2>4. QueueInv'
    BY <2>1 DEF FeedInv, QueueInv
  <2>5. \A r \in Replica : StreamInv(r)'
    BY <2>1, StreamKept DEF FeedInv
  <2> QED
    BY <2>2, <2>3, <2>4, <2>5 DEF FeedInv
<1> QED
  BY <1>1, <1>2, <1>3, <1>4 DEF FeedNext

\* The inductive invariant: the frames in flight of every stream are a chain
\* of catalogs, each of a version that was live, that ends where the handler
\* thinks the replica is (Watch, grpc.go; Apply, remote_catalog.go).
THEOREM FeedInvHolds == FeedSpec => []FeedInv
<1> QED
  BY FeedInvInit, FeedInvStep, PTL DEF FeedSpec

\* Every variable of the feed has its type: every frame in flight is one the
\* protocol knows, and a sequence number never leaves its range (Watch,
\* grpc.go).
THEOREM FeedTypes == FeedSpec => []FeedTypeOK
<1>1. FeedInv => FeedTypeOK
  BY DEF FeedInv
<1> QED
  BY <1>1, FeedInvHolds, PTL

\* Whatever is queued, dropped, refused or cut off, a catalog that is available
\* holds one version the registry had live, whole, and a replica that is up to
\* date is never sent a delta that does not fit (Apply, remote_catalog.go).
THEOREM CoherentFeed == FeedSpec => []FeedIsCoherent
<1>1. FeedInv => ReplicaHoldsRealVersion
  BY CatalogIsGood DEF ReplicaHoldsRealVersion, Good
<1>2. FeedInv => OnlyLateFramesAreRefused
  BY ReceiveLinks DEF OnlyLateFramesAreRefused, Link, Late
<1>3. FeedInv => FeedIsCoherent
  BY <1>1, <1>2 DEF FeedIsCoherent
<1> QED
  BY <1>3, FeedInvHolds, PTL

\* No sequence of resets, overflows, reconnects, expiries and restarts of the
\* registry takes a replica back to an earlier version (Apply,
\* remote_catalog.go).
THEOREM NeverGoesBack == FeedSpec => ReplicaNeverGoesBack
<1> DEFINE Step == \A r \in Replica :
              catalog[r].available /\ catalog'[r].available /\ catalog'[r].held # catalog[r].held
              => Newer(catalog'[r].held, catalog[r].held)
<1>1. FeedInv /\ [FeedNext]_feedVars => [Step]_feedVars
  <2> SUFFICES ASSUME FeedInv, FeedNext
               PROVE  \A r \in Replica : Onward(catalog[r], catalog'[r])
    BY DEF Onward
  <2>1. catalog \in [Replica -> Catalog]
    BY DEF FeedInv, FeedTypeOK
  <2>2. \A c : Onward(c, c) /\ Onward(c, ResetCatalog(c))
    BY DEF Onward, ResetCatalog
  <2>3. CASE catalog' = catalog
    BY <2>2, <2>3
  <2>4. CASE RestartRegistry
    <3>1. \A r \in Replica : catalog'[r] = catalog[r] \/ catalog'[r] = ResetCatalog(catalog[r])
      BY <2>4 DEF RestartRegistry
    <3> QED
      BY <2>2, <3>1
  <2>5. ASSUME NEW r \in Replica, HangUp(r)
        PROVE  \A x \in Replica : Onward(catalog[x], catalog'[x])
    <3>1. \A x \in Replica : catalog'[x] = catalog[x] \/ catalog'[x] = ResetCatalog(catalog[x])
      BY <2>1, <2>5 DEF HangUp
    <3> QED
      BY <2>2, <3>1
  <2>6. ASSUME NEW r \in Replica, Receive(r)
        PROVE  \A x \in Replica : Onward(catalog[x], catalog'[x])
    <3>1. \A x \in Replica \ {r} : catalog'[x] = catalog[x]
      BY <2>1, <2>6 DEF Receive
    <3>2. Onward(catalog[r], catalog'[r])
      BY <2>6, ReceiveKeeps
    <3> QED
      BY <2>2, <3>1, <3>2
  <2> QED
    BY <2>3, <2>4, <2>5, <2>6 DEF FeedNext, Advance, PublishChange, Subscribe, FirstSnapshot,
         Forward, Overflow, Refuse, EndOfStream, Break
<1> QED
  BY <1>1, FeedInvHolds, PTL DEF FeedSpec, ReplicaNeverGoesBack
=============================================================================
