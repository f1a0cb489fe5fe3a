----------------------- MODULE ClusterRegistryProofs -----------------------
(***************************************************************************)
(* Proofs about ClusterRegistry, for every set of clusters, keys and       *)
(* payloads, every budget and every bound.                                 *)
(***************************************************************************)
EXTENDS SnapshotDeltas, SumLemmas, TLAPS

-----------------------------------------------------------------------------
(* The operators of the model *)

\* A resource map is a function from some of the keys.
LEMMA ResourcesDef ==
  ASSUME NEW f
  PROVE  f \in S!Resources <=> \E K \in SUBSET Key : f \in [K -> Value]
BY DEF S!Resources

\* An upsert keeps a resource map a resource map.
LEMMA PutType ==
  ASSUME NEW res \in S!Resources, NEW k \in Key, NEW v \in Value
  PROVE  S!Put(res, k, v) \in S!Resources
<1>1. PICK K \in SUBSET Key : res \in [K -> Value]
  BY ResourcesDef
<1>2. S!Put(res, k, v) \in [K \cup {k} -> Value]
  BY <1>1 DEF S!Put
<1> QED
  BY <1>2, ResourcesDef

\* So does a delete.
LEMMA DropType ==
  ASSUME NEW res \in S!Resources, NEW k \in Key
  PROVE  S!Drop(res, k) \in S!Resources
<1>1. PICK K \in SUBSET Key : res \in [K -> Value]
  BY ResourcesDef
<1>2. S!Drop(res, k) \in [K \ {k} -> Value]
  BY <1>1 DEF S!Drop
<1> QED
  BY <1>2, ResourcesDef

\* The empty map is a resource map.
LEMMA NoResourcesType == S!NoResources \in S!Resources
<1>1. S!NoResources \in [{} -> Value]
  BY DEF S!NoResources
<1> QED
  BY <1>1, ResourcesDef

\* Registry.apply on the resources alone.
LEMMA AppliedType ==
  ASSUME NEW res \in S!Resources, NEW k \in Key, NEW v \in Value, NEW deleted \in BOOLEAN
  PROVE  S!Applied(res, k, v, deleted) \in S!Resources
BY PutType, DropType DEF S!Applied

\* The bytes a delta adds, or frees, are an integer, and a delete adds none.
LEMMA GrowthType ==
  ASSUME NEW snapshot \in Snapshot, NEW k \in Key, NEW v \in Value, NEW deleted \in BOOLEAN
  PROVE  /\ Growth(snapshot, k, v, deleted) \in Int
         /\ deleted => Growth(snapshot, k, v, deleted) <= 0
<1>1. PICK K \in SUBSET Key : snapshot.res \in [K -> Value]
  BY ResourcesDef DEF Snapshot
<1>2. OldWeight(snapshot, k) \in Nat
  BY <1>1, RegistryAssumption DEF OldWeight
<1>3. /\ NewWeight(v, deleted) \in Nat
      /\ deleted => NewWeight(v, deleted) = 0
  BY RegistryAssumption DEF NewWeight
<1> QED
  BY <1>2, <1>3 DEF Growth

\* Registry.apply yields a snapshot of the same session, at the delta's
\* version, and within the budget when the limit allows it.
LEMMA ApplyType ==
  ASSUME NEW snapshot \in Snapshot, NEW d \in DeltaFrame
  PROVE  /\ Apply(snapshot, d) \in Snapshot
         /\ Apply(snapshot, d).owner = snapshot.owner
         /\ Apply(snapshot, d).epoch = d.epoch
         /\ Apply(snapshot, d).seq = d.seq
         /\ Apply(snapshot, d).bytes
              = snapshot.bytes + Growth(snapshot, d.key, d.value, d.deleted)
<1>1. S!Applied(snapshot.res, d.key, d.value, d.deleted) \in S!Resources
  BY AppliedType DEF Snapshot, DeltaFrame
<1>2. Growth(snapshot, d.key, d.value, d.deleted) \in Int
  BY GrowthType DEF DeltaFrame
<1> QED
  BY <1>1, <1>2 DEF Apply, Snapshot, DeltaFrame

\* A charge never takes the counter over the budget, and keeps it a number.
LEMMA ChargedType ==
  ASSUME TypeOK, NEW n \in Int
  PROVE  /\ Charged(n) \in Int
         /\ totalBytes <= MaxTotalStateBytes => Charged(n) <= MaxTotalStateBytes
BY RegistryAssumption DEF TypeOK, Charged, Fits

\* What a cluster retains is a number.
LEMMA RetainedType ==
  ASSUME TypeOK, NEW c \in Cluster
  PROVE  /\ BytesOf(live[c]) \in Int
         /\ BytesOf(staging[c]) \in Int
         /\ Retained(c) \in Int
<1>1. /\ live[c] # None => live[c].bytes \in Int
      /\ staging[c] # None => staging[c].bytes \in Int
      /\ pendingBytes[c] \in Nat
  BY DEF TypeOK, Snapshot
<1> QED
  BY <1>1 DEF BytesOf, Retained

-----------------------------------------------------------------------------
(* Type correctness *)

\* While a Commit holds the lock its snapshot stays staged.
CommitHasStaging == \A c \in Cluster : committing[c] # None => staging[c] # None

TypeInv == TypeOK /\ CommitHasStaging

\* A handler moves between its states.
LEMMA StreamType ==
  ASSUME TypeOK, NEW c \in Cluster, NEW g \in Generation, NEW st \in StreamState
  PROVE  [stream EXCEPT ![c][g] = st] \in [Cluster -> [Generation -> StreamState]]
BY DEF TypeOK

\* The notifications that the handlers publish.
LEMMA ChangeType ==
  /\ S!Expired \in S!Change
  /\ \A e \in Epoch, q \in Seqno :
       /\ S!Reset(e, q) \in S!Change
       /\ S!Heartbeat(e, q) \in S!Change
       /\ \A k \in Key, v \in Value, deleted \in BOOLEAN, res \in S!Resources :
            S!Delta(e, q, k, v, S!ActionOf(res, k, deleted)) \in S!Change
<1>1. \A res, k, deleted : S!ActionOf(res, k, deleted) \in S!Action
  BY DEF S!ActionOf, S!Action
<1>2. S!Expired \in S!Change
  BY DEF S!Expired, S!Change
<1>3. ASSUME NEW e \in Epoch, NEW q \in Seqno
      PROVE  S!Reset(e, q) \in S!Change /\ S!Heartbeat(e, q) \in S!Change
  BY DEF S!Reset, S!Heartbeat, S!Change, S!Epoch, S!Seqno, Epoch, Seqno
<1>4. ASSUME NEW e \in Epoch, NEW q \in Seqno, NEW k \in Key, NEW v \in Value,
             NEW a \in S!Action
      PROVE  S!Delta(e, q, k, v, a) \in S!Change
  BY DEF S!Delta, S!Change, S!Epoch, S!Seqno, Epoch, Seqno
<1> QED
  BY <1>1, <1>2, <1>3, <1>4

\* Both windows are positive, so an age starts at 0.
LEMMA ZeroAge == 0 \in Age
BY RegistryAssumption DEF Age, MaxAge

\* Dropping what is staged keeps the types.
LEMMA DropStagingType ==
  ASSUME TypeOK, NEW c \in Cluster, DropStaging(c)
  PROVE  /\ staging' \in [Cluster -> Snapshot \cup {None}]
         /\ pending' \in [Cluster -> Seq(DeltaFrame)]
         /\ pendingBytes' \in [Cluster -> Nat]
BY DEF TypeOK, DropStaging

\* Releasing everything but the live state is a change by an integer.
LEMMA ReleaseType ==
  ASSUME TypeOK, NEW c \in Cluster
  PROVE  Charged(BytesOf(live[c]) - Retained(c)) \in Int
BY RetainedType, ChargedType

\* A nacked Commit.
LEMMA FailCommitType ==
  ASSUME TypeInv, NEW c \in Cluster, committing[c] # None, FailCommit(c)
  PROVE  TypeInv'
<1> USE DEF TypeInv
<1>1. committing[c] \in Commit
  BY DEF TypeOK
<1>2. totalBytes' \in Int
  BY <1>1, RetainedType, ChargedType DEF FailCommit, Commit
<1>3. stream' \in [Cluster -> [Generation -> StreamState]]
  BY <1>1, StreamType DEF FailCommit, Answer, Commit, StreamState
<1>4. TypeOK'
  BY <1>2, <1>3, DropStagingType DEF TypeOK, FailCommit
<1>5. CommitHasStaging'
  BY DEF CommitHasStaging, FailCommit, DropStaging, TypeOK
<1> QED
  BY <1>4, <1>5

\* Every step keeps the types.
LEMMA TypeStep == TypeInv /\ [Next]_vars => TypeInv'
<1> SUFFICES ASSUME TypeInv, [Next]_vars PROVE TypeInv'
  OBVIOUS
<1> USE DEF TypeInv
<1>s. {"none", "recv", "admitted", "ending", "closed"} = StreamState
  BY DEF StreamState
<1>1. ASSUME NEW c \in Cluster, OpenSession(c) PROVE TypeInv'
  <2>1. generation[c] + 1 \in Generation
    BY <1>1 DEF OpenSession
  <2>2. stream' \in [Cluster -> [Generation -> StreamState]]
    BY <1>1, <2>1, <1>s, StreamType DEF OpenSession
  <2>3. generation' \in [Cluster -> 0 .. MaxGeneration]
    BY <1>1, <2>1 DEF OpenSession, TypeOK, Generation
  <2>4. silence' \in [Cluster -> Age]
    BY <1>1, ZeroAge DEF OpenSession, TypeOK
  <2>5. TypeOK'
    BY <1>1, <2>2, <2>3, <2>4, DropStagingType, ReleaseType DEF OpenSession, TypeOK
  <2>6. CommitHasStaging'
    BY <1>1 DEF OpenSession, DropStaging, CommitHasStaging, Unlocked, TypeOK
  <2> QED
    BY <2>5, <2>6
<1>2. ASSUME NEW c \in Cluster, NEW g \in Generation,
             Admit(c, g) \/ RefuseIngress(c, g) \/ RefuseFrame(c, g) \/ Nack(c, g)
               \/ (\E e \in Epoch, s \in Seqno : AckDuplicate(c, g, e, s))
      PROVE  TypeInv'
  <2>1. stream' \in [Cluster -> [Generation -> StreamState]]
    BY <1>2, <1>s, StreamType
    DEF Admit, RefuseIngress, RefuseFrame, Nack, AckDuplicate, Answer, GiveUp
  <2>2. UNCHANGED <<clusterVars, totalBytes, change>>
    BY <1>2 DEF Admit, RefuseIngress, RefuseFrame, Nack, AckDuplicate
  <2> QED
    BY <2>1, <2>2 DEF TypeOK, CommitHasStaging, clusterVars
<1>3. ASSUME NEW c \in Cluster, NEW g \in Generation, EndStream(c, g) PROVE TypeInv'
  <2>1. stream' \in [Cluster -> [Generation -> StreamState]]
    BY <1>3, <1>s, StreamType DEF EndStream
  <2>2. CASE generation[c] = g
    <3>1. silence' \in [Cluster -> Age]
      BY <1>3, <2>2, ZeroAge DEF EndStream, TypeOK
    <3>2. DropStaging(c) /\ totalBytes' = Charged(BytesOf(live[c]) - Retained(c))
      BY <1>3, <2>2 DEF EndStream
    <3>3. /\ UNCHANGED <<live, generation, committing, change>>
          /\ connected' = [connected EXCEPT ![c] = FALSE]
      BY <1>3, <2>2 DEF EndStream
    <3>4. totalBytes' \in Int
      BY <3>2, ReleaseType
    <3>5. connected' \in [Cluster -> BOOLEAN]
      BY <3>3 DEF TypeOK
    <3>6. /\ staging' \in [Cluster -> Snapshot \cup {None}]
          /\ pending' \in [Cluster -> Seq(DeltaFrame)]
          /\ pendingBytes' \in [Cluster -> Nat]
      BY <3>2, DropStagingType
    <3>7. TypeOK'
      BY <2>1, <3>1, <3>3, <3>4, <3>5, <3>6 DEF TypeOK
    <3>8. CommitHasStaging'
      BY <1>3, <3>2, <3>3 DEF EndStream, DropStaging, CommitHasStaging, Unlocked, TypeOK
    <3> QED
      BY <3>7, <3>8
  <2>3. CASE generation[c] # g
    BY <1>3, <2>1, <2>3 DEF EndStream, TypeOK, CommitHasStaging, clusterVars
  <2> QED
    BY <2>2, <2>3
<1>4. ASSUME NEW c \in Cluster, NEW g \in Generation, NEW e \in Epoch, NEW s \in Seqno,
             BeginSnapshot(c, g, e, s)
      PROVE  TypeInv'
  <2> DEFINE new == [epoch |-> e, seq |-> s, res |-> S!NoResources, bytes |-> 0, owner |-> g]
  <2>1. new \in Snapshot
    BY NoResourcesType DEF Snapshot
  <2>2. stream' \in [Cluster -> [Generation -> StreamState]]
    BY <1>4, <1>s, StreamType DEF BeginSnapshot, Answer
  <2>a. totalBytes' \in Int
    BY <1>4, ReleaseType DEF BeginSnapshot
  <2>b. /\ staging' \in [Cluster -> Snapshot \cup {None}]
        /\ pending' \in [Cluster -> Seq(DeltaFrame)]
        /\ pendingBytes' \in [Cluster -> Nat]
    BY <1>4, <2>1 DEF BeginSnapshot, TypeOK
  <2>3. TypeOK'
    BY <1>4, <2>a, <2>b, <2>2 DEF BeginSnapshot, TypeOK
  <2>4. CommitHasStaging'
    BY <1>4 DEF BeginSnapshot, CommitHasStaging, Unlocked, TypeOK
  <2> QED
    BY <2>3, <2>4
<1>5. ASSUME NEW c \in Cluster, NEW g \in Generation, NEW k \in Key, NEW v \in Value,
             StageResource(c, g, k, v)
      PROVE  TypeInv'
  <2> DEFINE upsert == [epoch |-> staging[c].epoch, seq |-> staging[c].seq, key |-> k,
                        value |-> v, deleted |-> FALSE]
  <2>1. staging[c] \in Snapshot
    BY <1>5 DEF StageResource, TypeOK
  <2>2. upsert \in DeltaFrame
    BY <2>1 DEF Snapshot, DeltaFrame
  <2>3. Apply(staging[c], upsert) \in Snapshot
    BY <2>1, <2>2, ApplyType
  <2>4. totalBytes' \in Int
    BY <1>5, <2>1, GrowthType, ChargedType DEF StageResource
  <2>5. stream' \in [Cluster -> [Generation -> StreamState]]
    BY <1>5, <1>s, StreamType DEF StageResource, Answer
  <2>6. TypeOK'
    BY <1>5, <2>3, <2>4, <2>5 DEF StageResource, TypeOK
  <2>7. CommitHasStaging'
    BY <1>5 DEF StageResource, CommitHasStaging, Unlocked, TypeOK
  <2> QED
    BY <2>6, <2>7
<1>6. ASSUME NEW c \in Cluster, NEW g \in Generation, NEW k \in Key, NEW v \in Value,
             NEW deleted \in BOOLEAN, ApplyDelta(c, g, k, v, deleted)
      PROVE  TypeInv'
  <2> DEFINE d == [epoch |-> live[c].epoch, seq |-> live[c].seq + 1, key |-> k,
                   value |-> v, deleted |-> deleted]
  <2>1. live[c] \in Snapshot
    BY <1>6 DEF ApplyDelta, TypeOK
  <2>2. live[c].epoch \in Epoch /\ live[c].seq + 1 \in Seqno /\ live[c].res \in S!Resources
    <3>1. live[c].epoch \in Epoch /\ live[c].seq \in Seqno /\ live[c].res \in S!Resources
      BY <2>1 DEF Snapshot
    <3>2. live[c].seq < MaxSeq
      BY <1>6 DEF ApplyDelta
    <3> QED
      BY <3>1, <3>2, RegistryAssumption DEF Seqno
  <2>3. d \in DeltaFrame
    BY <2>2 DEF DeltaFrame
  <2>4. live' \in [Cluster -> Snapshot \cup {None}]
    BY <1>6, <2>1, <2>3, ApplyType DEF ApplyDelta, TypeOK
  <2>5. totalBytes' \in Int
    BY <1>6, <2>1, GrowthType, ChargedType DEF ApplyDelta
  <2>6. change' \in [Cluster -> S!Change \cup {None}]
    BY <1>6, <2>2, ChangeType DEF ApplyDelta, TypeOK
  <2>7. stream' \in [Cluster -> [Generation -> StreamState]]
    BY <1>6, <1>s, StreamType DEF ApplyDelta, Answer
  <2>8. TypeOK'
    BY <1>6, <2>4, <2>5, <2>6, <2>7 DEF ApplyDelta, TypeOK
  <2> QED
    BY <1>6, <2>8 DEF ApplyDelta, CommitHasStaging
<1>7. ASSUME NEW c \in Cluster, NEW g \in Generation, NEW d \in DeltaFrame,
             QueueDelta(c, g, d)
      PROVE  TypeInv'
  <2>1. Size(d) \in Nat
    BY RegistryAssumption DEF Size, DeltaFrame
  <2>2. pendingBytes' \in [Cluster -> Nat]
    BY <1>7, <2>1 DEF QueueDelta, TypeOK
  <2>3. pending' \in [Cluster -> Seq(DeltaFrame)]
    BY <1>7 DEF QueueDelta, TypeOK
  <2>4. totalBytes' \in Int
    BY <1>7, <2>1, ChargedType DEF QueueDelta
  <2>5. stream' \in [Cluster -> [Generation -> StreamState]]
    BY <1>7, <1>s, StreamType DEF QueueDelta, Answer
  <2>6. TypeOK'
    BY <1>7, <2>2, <2>3, <2>4, <2>5 DEF QueueDelta, TypeOK
  <2> QED
    BY <1>7, <2>6 DEF QueueDelta, CommitHasStaging
<1>8. ASSUME NEW c \in Cluster, NEW g \in Generation, BeatSession(c, g) PROVE TypeInv'
  <2>1. S!Heartbeat(live[c].epoch, live[c].seq) \in S!Change
    BY <1>8, ChangeType DEF BeatSession, TypeOK, Snapshot
  <2>2. change' \in [Cluster -> S!Change \cup {None}]
    BY <1>8, <2>1 DEF BeatSession, TypeOK
  <2>3. stream' \in [Cluster -> [Generation -> StreamState]]
    BY <1>8, <1>s, StreamType DEF BeatSession, Answer
  <2>4. silence' \in [Cluster -> Age]
    BY <1>8, ZeroAge DEF BeatSession, TypeOK
  <2>5. TypeOK'
    BY <1>8, <2>2, <2>3, <2>4 DEF BeatSession, TypeOK
  <2> QED
    BY <1>8, <2>5 DEF BeatSession, CommitHasStaging
<1>9. ASSUME NEW c \in Cluster, NEW g \in Generation, BeginCommit(c, g) PROVE TypeInv'
  <2>1. [stream |-> g, retained |-> Retained(c)] \in Commit
    BY RetainedType DEF Commit
  <2>2. TypeOK'
    BY <1>9, <2>1 DEF BeginCommit, TypeOK
  <2> QED
    BY <1>9, <2>2 DEF BeginCommit, CommitHasStaging, TypeOK
<1>10. ASSUME NEW c \in Cluster, ReplayDelta(c) PROVE TypeInv'
  <2> DEFINE d == Head(pending[c])
             same == UNCHANGED <<live, pendingBytes, connected, generation, silence,
                                 committing, totalBytes, stream, change>>
  <2>1. committing[c] # None /\ staging[c] \in Snapshot /\ pending[c] # <<>>
    BY <1>10 DEF ReplayDelta, Unlocked, CommitHasStaging, TypeOK
  <2>2. d \in DeltaFrame /\ Tail(pending[c]) \in Seq(DeltaFrame)
    BY <2>1 DEF TypeOK
  <2>3. CASE /\ same
             /\ pending' = [pending EXCEPT ![c] = Tail(@)]
             /\ \/ UNCHANGED staging
                \/ staging' = [staging EXCEPT ![c] = Apply(staging[c], d)]
    <3>0. Apply(staging[c], d) \in Snapshot
      BY <2>1, <2>2, ApplyType
    <3>1. staging' \in [Cluster -> Snapshot \cup {None}]
      BY <2>3, <3>0 DEF TypeOK
    <3>2. pending' \in [Cluster -> Seq(DeltaFrame)]
      BY <2>2, <2>3 DEF TypeOK
    <3>3. TypeOK'
      BY <2>3, <3>1, <3>2 DEF TypeOK
    <3>4. CommitHasStaging'
      BY <2>1, <2>3, <3>0, NoneAssumption DEF CommitHasStaging, TypeOK
    <3> QED
      BY <3>3, <3>4
  <2>4. CASE FailCommit(c)
    BY <2>1, <2>4, FailCommitType
  <2> QED
    BY <1>10, <2>3, <2>4 DEF ReplayDelta
<1>11. ASSUME NEW c \in Cluster, EndCommit(c) PROVE TypeInv'
  <2>1. committing[c] \in Commit /\ committing[c] # None /\ staging[c] \in Snapshot
    BY <1>11 DEF EndCommit, Unlocked, CommitHasStaging, TypeOK
  <2>2. CASE FailCommit(c)
    BY <2>1, <2>2, FailCommitType
  <2>3. CASE ~Rollback(c)
    <3>1. ~FailCommit(c) => DropStaging(c)
      BY <1>11 DEF EndCommit
    <3>2. CASE ~FailCommit(c)
      <4>1. live' \in [Cluster -> Snapshot \cup {None}]
        BY <1>11, <2>1, <3>2 DEF EndCommit, TypeOK
      <4>2. staging[c].bytes - committing[c].retained \in Int
        BY <2>1 DEF Commit, Snapshot
      <4>3. totalBytes' \in Int
        BY <1>11, <3>2, <4>2, ChargedType DEF EndCommit
      <4>4. change' \in [Cluster -> S!Change \cup {None}]
        <5>1. staging[c].epoch \in Epoch /\ staging[c].seq \in Seqno
          BY <2>1 DEF Snapshot
        <5>2. S!Reset(staging[c].epoch, staging[c].seq) \in S!Change
          BY <5>1, ChangeType
        <5>3. change' = [change EXCEPT ![c] = S!Reset(staging[c].epoch, staging[c].seq)]
          BY <1>11, <3>2 DEF EndCommit
        <5> QED
          BY <5>2, <5>3 DEF TypeOK
      <4>5. stream' \in [Cluster -> [Generation -> StreamState]]
        <5>1. committing[c].stream \in Generation
          BY <2>1 DEF Commit
        <5>2. stream' = [stream EXCEPT ![c][committing[c].stream] = "recv"]
          BY <1>11, <3>2 DEF EndCommit, Answer
        <5>3. "recv" \in StreamState
          BY DEF StreamState
        <5> QED
          BY <5>1, <5>2, <5>3, StreamType
      <4>6. committing' \in [Cluster -> Commit \cup {None}]
        <5>1. committing' = [committing EXCEPT ![c] = None]
          BY <1>11, <3>2 DEF EndCommit
        <5> QED
          BY <5>1 DEF TypeOK
      <4>9. UNCHANGED <<connected, generation, silence>>
        BY <1>11, <3>2 DEF EndCommit
      <4>10. /\ staging' \in [Cluster -> Snapshot \cup {None}]
             /\ pending' \in [Cluster -> Seq(DeltaFrame)]
             /\ pendingBytes' \in [Cluster -> Nat]
        BY <3>1, <3>2, DropStagingType
      <4>11. /\ connected' \in [Cluster -> BOOLEAN]
             /\ generation' \in [Cluster -> 0 .. MaxGeneration]
             /\ silence' \in [Cluster -> Age]
        BY <4>9 DEF TypeOK
      <4>7. TypeOK'
        BY <4>1, <4>3, <4>4, <4>5, <4>6, <4>10, <4>11 DEF TypeOK
      <4>8. CommitHasStaging'
        BY <1>11, <3>2 DEF EndCommit, DropStaging, CommitHasStaging, TypeOK
      <4> QED
        BY <4>7, <4>8
    <3> QED
      BY <2>2, <3>2
  <2> QED
    BY <1>11, <2>2, <2>3 DEF EndCommit
<1>12. ASSUME NEW c \in Cluster, Prune(c) PROVE TypeInv'
  <2>1. -live[c].bytes \in Int
    BY <1>12 DEF Prune, TypeOK, Snapshot
  <2>2. totalBytes' \in Int
    BY <1>12, <2>1, ChargedType DEF Prune
  <2>3. TypeOK'
    BY <1>12, <2>2, ChangeType DEF Prune, TypeOK
  <2> QED
    BY <1>12, <2>3 DEF Prune, CommitHasStaging
<1>13. CASE Tick
  <2>1. \A a \in Age : (IF a < MaxAge THEN a + 1 ELSE MaxAge) \in Age
    BY RegistryAssumption DEF Age, MaxAge
  <2>2. silence' \in [Cluster -> Age]
    BY <1>13, <2>1 DEF Tick, TypeOK
  <2> QED
    BY <1>13, <2>2 DEF Tick, TypeOK, CommitHasStaging
<1>14. CASE Restart
  <2>1. 0 \in 0 .. MaxGeneration
    BY RegistryAssumption
  <2> QED
    BY <1>14, <1>s, <2>1, ZeroAge DEF Restart, TypeOK, CommitHasStaging
<1>15. CASE UNCHANGED vars
  BY <1>15 DEF vars, clusterVars, TypeOK, CommitHasStaging
<1>16. ASSUME NEW c \in Cluster, NEW g \in Generation, TransferFrame(c, g) \/ OtherStep(c, g)
       PROVE  TypeInv'
  BY <1>2, <1>3, <1>4, <1>5, <1>6, <1>7, <1>8, <1>9, <1>16 DEF TransferFrame, OtherStep
<1>17. CASE Background
  BY <1>1, <1>10, <1>11, <1>12, <1>13, <1>14, <1>17 DEF Background
<1> QED
  BY <1>15, <1>16, <1>17 DEF Next

\* The initial state has the types.
LEMMA TypeStart == Init => TypeInv
<1>1. 0 \in 0 .. MaxGeneration
  BY RegistryAssumption
<1> QED
  BY <1>1, ZeroAge DEF Init, TypeInv, TypeOK, CommitHasStaging, StreamState

\* Type correctness of every reachable state.
THEOREM TypeCorrect == Spec => []TypeOK
<1>1. TypeInv => TypeOK
  BY DEF TypeInv
<1> QED
  BY <1>1, TypeStart, TypeStep, PTL DEF Spec

-----------------------------------------------------------------------------
(* The staging area belongs to the session that owns the cluster *)

\* Every step leaves a staging area only to the session that owns the cluster.
LEMMA OwnedStep == TypeInv /\ StagingOwned /\ [Next]_vars => StagingOwned'
<1> SUFFICES ASSUME TypeInv, StagingOwned, [Next]_vars PROVE StagingOwned'
  OBVIOUS
<1> USE DEF TypeInv
<1>d. ASSUME NEW c \in Cluster, DropStaging(c),
             \A x \in Cluster \ {c} : connected'[x] = connected[x] /\ generation'[x] = generation[x]
      PROVE  StagingOwned'
  BY <1>d DEF StagingOwned, DropStaging, TypeOK
<1>1. ASSUME NEW c \in Cluster, OpenSession(c) PROVE StagingOwned'
  BY <1>1, <1>d DEF OpenSession, TypeOK
<1>2. ASSUME NEW c \in Cluster, NEW g \in Generation, EndStream(c, g) PROVE StagingOwned'
  <2>1. CASE generation[c] = g
    BY <1>2, <2>1, <1>d DEF EndStream, TypeOK
  <2>2. CASE generation[c] # g
    BY <1>2, <2>2 DEF EndStream, clusterVars, StagingOwned
  <2> QED
    BY <2>1, <2>2
<1>3. ASSUME NEW c \in Cluster, NEW g \in Generation, NEW e \in Epoch, NEW s \in Seqno,
             BeginSnapshot(c, g, e, s)
      PROVE  StagingOwned'
  BY <1>3 DEF BeginSnapshot, SessionValid, StagingOwned, TypeOK
<1>4. ASSUME NEW c \in Cluster, NEW g \in Generation, NEW k \in Key, NEW v \in Value,
             StageResource(c, g, k, v)
      PROVE  StagingOwned'
  <2> DEFINE upsert == [epoch |-> staging[c].epoch, seq |-> staging[c].seq, key |-> k,
                        value |-> v, deleted |-> FALSE]
  <2>1. staging' = [staging EXCEPT ![c] = Apply(staging[c], upsert)]
    BY <1>4 DEF StageResource
  <2>2. Apply(staging[c], upsert).owner = staging[c].owner
    BY DEF Apply
  <2>3. staging[c] # None /\ UNCHANGED <<pending, connected, generation>>
    BY <1>4 DEF StageResource
  <2>4. upsert \in DeltaFrame
    BY <2>3 DEF TypeOK, Snapshot, DeltaFrame
  <2>5. staging'[c] # None
    BY <2>1, <2>3, <2>4, ApplyType, NoneAssumption DEF TypeOK
  <2> QED
    BY <2>1, <2>2, <2>3, <2>5 DEF StagingOwned, TypeOK
<1>5. ASSUME NEW c \in Cluster, NEW g \in Generation, NEW d \in DeltaFrame, QueueDelta(c, g, d)
      PROVE  StagingOwned'
  BY <1>5 DEF QueueDelta, StagingOwned, TypeOK
<1>6. ASSUME NEW c \in Cluster, FailCommit(c) PROVE StagingOwned'
  BY <1>6, <1>d DEF FailCommit
<1>7. ASSUME NEW c \in Cluster, ReplayDelta(c) PROVE StagingOwned'
  <2> DEFINE d == Head(pending[c])
  <2>1. staging[c] \in Snapshot /\ staging[c] # None /\ d \in DeltaFrame
    BY <1>7 DEF ReplayDelta, Unlocked, CommitHasStaging, TypeOK
  <2>2. Apply(staging[c], d) # None /\ Apply(staging[c], d).owner = staging[c].owner
    BY <2>1, ApplyType, NoneAssumption
  <2>3. CASE /\ UNCHANGED <<connected, generation>>
             /\ pending' = [pending EXCEPT ![c] = Tail(@)]
             /\ staging' = staging \/ staging' = [staging EXCEPT ![c] = Apply(staging[c], d)]
    BY <2>1, <2>2, <2>3 DEF StagingOwned, TypeOK
  <2> QED
    BY <1>6, <1>7, <2>3 DEF ReplayDelta
<1>8. ASSUME NEW c \in Cluster, EndCommit(c) PROVE StagingOwned'
  BY <1>6, <1>8, <1>d DEF EndCommit
<1>9. CASE Restart
  BY <1>9 DEF Restart, StagingOwned
<1>10. CASE UNCHANGED <<staging, pending, connected, generation>>
  BY <1>10 DEF StagingOwned
<1>11. ASSUME NEW c \in Cluster, NEW g \in Generation, TransferFrame(c, g) \/ OtherStep(c, g)
       PROVE  StagingOwned'
  <2>1. ASSUME \/ Admit(c, g) \/ RefuseIngress(c, g) \/ RefuseFrame(c, g) \/ Nack(c, g)
               \/ BeatSession(c, g) \/ BeginCommit(c, g)
               \/ \E e \in Epoch, s \in Seqno : AckDuplicate(c, g, e, s)
               \/ \E k \in Key, v \in Value, deleted \in BOOLEAN : ApplyDelta(c, g, k, v, deleted)
        PROVE  UNCHANGED <<staging, pending, connected, generation>>
    BY <2>1 DEF Admit, RefuseIngress, RefuseFrame, Nack, BeatSession, BeginCommit,
                AckDuplicate, ApplyDelta, clusterVars
  <2> QED
    BY <1>2, <1>3, <1>4, <1>5, <1>10, <1>11, <2>1 DEF TransferFrame, OtherStep
<1>12. CASE Background
  <2>1. ASSUME Tick \/ \E c \in Cluster : Prune(c)
        PROVE  UNCHANGED <<staging, pending, connected, generation>>
    BY <2>1 DEF Tick, Prune
  <2> QED
    BY <1>1, <1>7, <1>8, <1>9, <1>10, <1>12, <2>1 DEF Background
<1>13. CASE UNCHANGED vars
  BY <1>10, <1>13 DEF vars, clusterVars
<1> QED
  BY <1>11, <1>12, <1>13 DEF Next

\* A snapshot under construction belongs to the session that owns the cluster.
THEOREM StagingIsOwned == Spec => []StagingOwned
<1>1. Init => StagingOwned
  BY DEF Init, StagingOwned
<1> QED
  BY <1>1, TypeStart, TypeStep, OwnedStep, PTL DEF Spec

-----------------------------------------------------------------------------
(* The live version, and the refinement of the abstract source *)

\* The four steps that change a cluster's live state or notify its watchers.
Applies(c) == \E g \in Generation, k \in Key, v \in Value, deleted \in BOOLEAN :
                ApplyDelta(c, g, k, v, deleted)
Beats(c)   == \E g \in Generation : BeatSession(c, g)
Swaps(c)   ==
  /\ staging[c] # None
  /\ ~Rollback(c)
  /\ live' = [live EXCEPT ![c] = staging[c]]
  /\ change' = [change EXCEPT ![c] = S!Reset(staging[c].epoch, staging[c].seq)]

\* The four kinds of steps that move the live state or publish: a delta, a
\* heartbeat, a swap and an expiry (and a restart).
LEMMA LiveSteps ==
  ASSUME TypeInv, [Next]_vars
  PROVE  \/ UNCHANGED <<live, change>>
         \/ Restart
         \/ \E c \in Cluster : Applies(c) \/ Beats(c) \/ Swaps(c) \/ Prune(c)
<1> DEFINE Goal == \/ UNCHANGED <<live, change>>
                   \/ Restart
                   \/ \E c \in Cluster : Applies(c) \/ Beats(c) \/ Swaps(c) \/ Prune(c)
<1>1. ASSUME NEW c \in Cluster, NEW g \in Generation, TransferFrame(c, g) PROVE Goal
  BY <1>1 DEF TransferFrame, BeginSnapshot, AckDuplicate, QueueDelta, clusterVars
<1>2. ASSUME NEW c \in Cluster, NEW g \in Generation, OtherStep(c, g) PROVE Goal
  <2>1. ASSUME \/ Admit(c, g) \/ RefuseIngress(c, g) \/ RefuseFrame(c, g) \/ Nack(c, g)
               \/ EndStream(c, g) \/ BeginCommit(c, g)
               \/ \E k \in Key, v \in Value : StageResource(c, g, k, v)
        PROVE  UNCHANGED <<live, change>>
    BY <2>1 DEF Admit, RefuseIngress, RefuseFrame, Nack, EndStream, BeginCommit,
                StageResource, clusterVars
  <2> QED
    BY <1>2, <2>1 DEF OtherStep, Applies, Beats
<1>3. ASSUME NEW c \in Cluster, FailCommit(c) PROVE UNCHANGED <<live, change>>
  BY <1>3 DEF FailCommit
<1>4. ASSUME NEW c \in Cluster, EndCommit(c) PROVE Goal
  <2>1. staging[c] # None
    BY <1>4 DEF EndCommit, Unlocked, TypeInv, CommitHasStaging
  <2> QED
    BY <1>3, <1>4, <2>1 DEF EndCommit, Swaps
<1>5. ASSUME NEW c \in Cluster, OpenSession(c) \/ ReplayDelta(c) PROVE UNCHANGED <<live, change>>
  BY <1>3, <1>5 DEF OpenSession, ReplayDelta
<1>6. CASE Background
  BY <1>4, <1>5, <1>6 DEF Background, Tick
<1>7. CASE UNCHANGED vars
  BY <1>7 DEF vars, clusterVars
<1> QED
  BY <1>1, <1>2, <1>6, <1>7 DEF Next

\* None of them takes a version back.
LEMMA RollbackStep ==
  ASSUME TypeInv, [Next]_vars, NEW c \in Cluster,
         live[c] # None, live'[c] # None, live'[c] # live[c]
  PROVE  \/ live'[c].epoch > live[c].epoch
         \/ live'[c].epoch = live[c].epoch /\ live'[c].seq = live[c].seq + 1
<1> DEFINE Goal == \/ live'[c].epoch > live[c].epoch
                   \/ live'[c].epoch = live[c].epoch /\ live'[c].seq = live[c].seq + 1
<1> USE DEF TypeInv
<1>1. ASSUME NEW x \in Cluster, Applies(x) PROVE Goal
  <2>1. PICK g \in Generation, k \in Key, v \in Value, deleted \in BOOLEAN :
          ApplyDelta(x, g, k, v, deleted)
    BY <1>1 DEF Applies
  <2> DEFINE d == [epoch |-> live[x].epoch, seq |-> live[x].seq + 1, key |-> k,
                   value |-> v, deleted |-> deleted]
  <2>2. live' = [live EXCEPT ![x] = Apply(live[x], d)]
    BY <2>1 DEF ApplyDelta
  <2>3. x = c /\ live'[c] = Apply(live[c], d)
    BY <2>2 DEF TypeOK
  <2> QED
    BY <2>3 DEF Apply
<1>2. ASSUME NEW x \in Cluster, Swaps(x) PROVE Goal
  <2>1. x = c /\ live'[c] = staging[c] /\ ~(staging[c].epoch <= live[c].epoch)
    BY <1>2 DEF Swaps, Rollback, TypeOK
  <2>2. staging[c].epoch \in Int /\ live[c].epoch \in Int
    BY <1>2, <2>1 DEF Swaps, TypeOK, Snapshot, Epoch
  <2> QED
    BY <2>1, <2>2
<1>3. ASSUME NEW x \in Cluster, Beats(x) PROVE FALSE
  BY <1>3 DEF Beats, BeatSession
<1>4. ASSUME NEW x \in Cluster, Prune(x) PROVE FALSE
  BY <1>4 DEF Prune, TypeOK
<1>5. ~Restart
  BY DEF Restart
<1> QED
  BY <1>1, <1>2, <1>3, <1>4, <1>5, LiveSteps

\* The live version of a cluster only grows while there is one.
THEOREM VersionGrows == Spec => NeverRollsBack
<1>1. TypeInv /\ [Next]_vars =>
        [\A c \in Cluster : live[c] # None /\ live'[c] # None /\ live'[c] # live[c] =>
          \/ live'[c].epoch > live[c].epoch
          \/ live'[c].epoch = live[c].epoch /\ live'[c].seq = live[c].seq + 1]_vars
  BY RollbackStep
<1> QED
  BY <1>1, TypeStart, TypeStep, PTL DEF Spec, NeverRollsBack

\* The initial state is one of the abstract source.
LEMMA SourceStart == Init => \A c \in Cluster : Source(c)!SourceInit
BY DEF Init, Source!SourceInit

\* Every step is, for every cluster, a step of the abstract source or a stutter.
LEMMA SourceStep ==
  ASSUME TypeInv, [Next]_vars, NEW c \in Cluster
  PROVE  [Source(c)!SourceNext]_(Source(c)!sourceVars)
<1> DEFINE Goal == [Source(c)!SourceNext]_(Source(c)!sourceVars)
<1> USE DEF TypeInv
<1>1. ASSUME UNCHANGED <<live[c], change[c]>> PROVE Goal
  BY <1>1 DEF Source!sourceVars
<1>2. ASSUME NEW x \in Cluster, x # c, Applies(x) \/ Beats(x) \/ Swaps(x) \/ Prune(x)
      PROVE  UNCHANGED <<live[c], change[c]>>
  <2>1. CASE Applies(x)
    BY <1>2, <2>1 DEF Applies, ApplyDelta, TypeOK
  <2>2. CASE Beats(x)
    BY <1>2, <2>2 DEF Beats, BeatSession, TypeOK
  <2>3. CASE Swaps(x)
    BY <1>2, <2>3 DEF Swaps, TypeOK
  <2>4. CASE Prune(x)
    BY <1>2, <2>4 DEF Prune, TypeOK
  <2> QED
    BY <1>2, <2>1, <2>2, <2>3, <2>4
<1>3. CASE Restart
  BY <1>3 DEF Restart, Source!SourceNext, Source!Forget
<1> DEFINE Shown == [epoch |-> live[c].epoch, seq |-> live[c].seq, res |-> live[c].res]
<1>4. ASSUME live[c] # None
      PROVE  /\ live[c] \in Snapshot
             /\ live[c].epoch \in Epoch /\ live[c].seq \in Seqno
             /\ live[c].res \in S!Resources
             /\ Shown # None
  <2>1. live[c] \in Snapshot
    BY <1>4 DEF TypeOK
  <2>2. Shown \in S!Version
    BY <2>1 DEF Snapshot, S!Version, S!Epoch, S!Seqno, Epoch, Seqno
  <2> QED
    BY <2>1, <2>2, NoneAssumption DEF Snapshot
<1>5. CASE Prune(c)
  <2>1. live[c] # None /\ live'[c] = None /\ change'[c] = S!Expired
    BY <1>5 DEF Prune, TypeOK
  <2>2. Source(c)!Expire
    BY <1>4, <2>1 DEF Source!Expire, Source!Expired, S!Expired
  <2> QED
    BY <2>2 DEF Source!SourceNext
<1>6. CASE Beats(c)
  <2>1. /\ live[c] # None /\ UNCHANGED live
        /\ change'[c] = S!Heartbeat(live[c].epoch, live[c].seq)
    BY <1>6 DEF Beats, BeatSession, TypeOK
  <2>2. Source(c)!Beat
    BY <1>4, <2>1 DEF Source!Beat, Source!Heartbeat, S!Heartbeat
  <2> QED
    BY <2>2 DEF Source!SourceNext
<1>7. CASE Applies(c)
  <2>1. PICK g \in Generation, k \in Key, v \in Value, deleted \in BOOLEAN :
          ApplyDelta(c, g, k, v, deleted)
    BY <1>7 DEF Applies
  <2> DEFINE d == [epoch |-> live[c].epoch, seq |-> live[c].seq + 1, key |-> k,
                   value |-> v, deleted |-> deleted]
  <2>2. /\ live[c] # None /\ live[c].seq < MaxSeq
        /\ live'[c] = Apply(live[c], d)
        /\ change'[c] = S!Delta(d.epoch, d.seq, k, v, S!ActionOf(live[c].res, k, deleted))
    BY <2>1 DEF ApplyDelta, TypeOK
  <2>3. d \in DeltaFrame
    BY <1>4, <2>2, RegistryAssumption DEF DeltaFrame, Seqno
  <2>4. live'[c] \in Snapshot /\ live'[c] # None
    BY <1>4, <2>2, <2>3, ApplyType, NoneAssumption
  <2>5. /\ live'[c].epoch = live[c].epoch
        /\ live'[c].seq = live[c].seq + 1
        /\ live'[c].res = S!Applied(live[c].res, k, v, deleted)
    BY <2>2 DEF Apply
  <2>6. Source(c)!Mutate(k, v, deleted)
    BY <1>4, <2>2, <2>4, <2>5
    DEF Source!Mutate, Source!Applied, Source!Put, Source!Drop, Source!Delta, Source!ActionOf,
        S!Applied, S!Put, S!Drop, S!Delta, S!ActionOf
  <2> QED
    BY <2>6 DEF Source!SourceNext
<1>8. CASE Swaps(c)
  <2>1. staging[c] \in Snapshot /\ staging[c] # None
    BY <1>8 DEF Swaps, TypeOK
  <2> DEFINE e == staging[c].epoch
             q == staging[c].seq
             res == staging[c].res
  <2>2. e \in Epoch /\ q \in Seqno /\ res \in S!Resources
    BY <2>1 DEF Snapshot
  <2>3. live'[c] = staging[c] /\ change'[c] = S!Reset(e, q)
    BY <1>8 DEF Swaps, TypeOK
  <2>4. live[c] # None => e > live[c].epoch
    BY <1>4, <1>8, <2>2 DEF Swaps, Rollback, Epoch
  <2>5. Source(c)!Install(e, q, res)
    BY <1>4, <2>1, <2>3, <2>4 DEF Source!Install, Source!Reset, S!Reset
  <2>6. e \in Source(c)!Epoch /\ q \in Source(c)!Seqno /\ res \in Source(c)!Resources
    BY <2>2 DEF Epoch, Seqno, S!Resources, Source!Epoch, Source!Seqno, Source!Resources
  <2> QED
    BY <2>5, <2>6 DEF Source!SourceNext
<1> QED
  BY <1>1, <1>2, <1>3, <1>5, <1>6, <1>7, <1>8, LiveSteps

\* Every cluster of the registry implements the abstract source.
THEOREM RegistryImplementsSource == Spec => ImplementsSource
<1>1. TypeInv /\ [Next]_vars =>
        [\A c \in Cluster : [Source(c)!SourceNext]_(Source(c)!sourceVars)]_vars
  BY SourceStep
<1> QED
  BY <1>1, SourceStart, TypeStart, TypeStep, PTL DEF Spec, ImplementsSource

-----------------------------------------------------------------------------
(* Byte budgets *)

\* The counter only moves by reserveBytes, or back to 0.
CounterMoves ==
  \/ UNCHANGED totalBytes
  \/ totalBytes' = 0
  \/ \E n \in Int : totalBytes' = Charged(n)

SmallSnapshots ==
  \A c \in Cluster : BytesOf(live[c]) <= MaxStateBytes /\ BytesOf(staging[c]) <= MaxStateBytes

\* Every step moves the byte counter by a charge, or resets it.
LEMMA CounterStep ==
  ASSUME TypeInv, [Next]_vars PROVE CounterMoves
<1> USE DEF TypeInv
<1>0. ASSUME NEW c \in Cluster
      PROVE  /\ BytesOf(live[c]) \in Int
             /\ BytesOf(live[c]) - Retained(c) \in Int
             /\ live[c] # None => -live[c].bytes \in Int
             /\ committing[c] # None =>
                  /\ BytesOf(live[c]) - committing[c].retained \in Int
                  /\ staging[c].bytes - committing[c].retained \in Int
  BY RetainedType DEF TypeOK, CommitHasStaging, Commit, Snapshot
<1>1. ASSUME NEW c \in Cluster, NEW g \in Generation, TransferFrame(c, g) PROVE CounterMoves
  <2>1. \A d \in DeltaFrame : Size(d) \in Int
    BY RegistryAssumption DEF Size, DeltaFrame
  <2> QED
    BY <1>0, <1>1, <2>1
    DEF TransferFrame, BeginSnapshot, AckDuplicate, QueueDelta, CounterMoves
<1>2. ASSUME NEW c \in Cluster, NEW g \in Generation, OtherStep(c, g) PROVE CounterMoves
  <2>1. ASSUME NEW k \in Key, NEW v \in Value, StageResource(c, g, k, v) PROVE CounterMoves
    <3>1. Growth(staging[c], k, v, FALSE) \in Int
      BY <2>1, GrowthType DEF StageResource, TypeOK
    <3> QED
      BY <2>1, <3>1 DEF StageResource, CounterMoves
  <2>2. ASSUME NEW k \in Key, NEW v \in Value, NEW deleted \in BOOLEAN,
               ApplyDelta(c, g, k, v, deleted)
        PROVE  CounterMoves
    <3>1. Growth(live[c], k, v, deleted) \in Int
      BY <2>2, GrowthType DEF ApplyDelta, TypeOK
    <3> QED
      BY <2>2, <3>1 DEF ApplyDelta, CounterMoves
  <2>3. ASSUME \/ Admit(c, g) \/ RefuseIngress(c, g) \/ RefuseFrame(c, g) \/ Nack(c, g)
               \/ BeatSession(c, g) \/ BeginCommit(c, g)
        PROVE  UNCHANGED totalBytes
    BY <2>3 DEF Admit, RefuseIngress, RefuseFrame, Nack, BeatSession, BeginCommit
  <2>4. CASE EndStream(c, g)
    BY <1>0, <2>4 DEF EndStream, CounterMoves
  <2> QED
    BY <1>2, <2>1, <2>2, <2>3, <2>4 DEF OtherStep, CounterMoves
<1>3. ASSUME NEW c \in Cluster, committing[c] # None, FailCommit(c) PROVE CounterMoves
  BY <1>0, <1>3 DEF FailCommit, CounterMoves
<1>4. ASSUME NEW c \in Cluster, ReplayDelta(c) \/ EndCommit(c) PROVE CounterMoves
  <2>1. committing[c] # None
    BY <1>4 DEF ReplayDelta, EndCommit, Unlocked
  <2> QED
    BY <1>0, <1>3, <1>4, <2>1 DEF ReplayDelta, EndCommit, CounterMoves
<1>5. ASSUME NEW c \in Cluster, OpenSession(c) \/ Prune(c) PROVE CounterMoves
  BY <1>0, <1>5 DEF OpenSession, Prune, CounterMoves
<1>6. CASE Background
  BY <1>4, <1>5, <1>6 DEF Background, Tick, Restart, CounterMoves
<1>7. CASE UNCHANGED vars
  BY <1>7 DEF vars, CounterMoves
<1> QED
  BY <1>1, <1>2, <1>6, <1>7 DEF Next

\* A snapshot that apply lets through is within the budget of its cluster.
LEMMA ApplyBudget ==
  ASSUME NEW snapshot \in Snapshot, NEW d \in DeltaFrame,
         snapshot.bytes <= MaxStateBytes,
         ApplyFits(snapshot, d.key, d.value, d.deleted)
  PROVE  /\ Apply(snapshot, d) # None
         /\ BytesOf(Apply(snapshot, d)) <= MaxStateBytes
<1>1. /\ Growth(snapshot, d.key, d.value, d.deleted) \in Int
      /\ d.deleted => Growth(snapshot, d.key, d.value, d.deleted) <= 0
  BY GrowthType DEF DeltaFrame
<1>2. snapshot.bytes \in Int /\ MaxStateBytes \in Int
  BY RegistryAssumption DEF Snapshot
<1>3. Apply(snapshot, d) # None
  BY ApplyType, NoneAssumption
<1>4. Apply(snapshot, d).bytes = snapshot.bytes + Growth(snapshot, d.key, d.value, d.deleted)
  BY ApplyType
<1> QED
  BY <1>1, <1>2, <1>3, <1>4 DEF ApplyFits, BytesOf

\* No step makes a snapshot larger than the budget of one cluster.
LEMMA SmallStep == TypeInv /\ SmallSnapshots /\ [Next]_vars => SmallSnapshots'
<1> SUFFICES ASSUME TypeInv, SmallSnapshots, [Next]_vars PROVE SmallSnapshots'
  OBVIOUS
<1> USE DEF TypeInv
<1>0. BytesOf(None) = 0 /\ 0 <= MaxStateBytes
  BY RegistryAssumption DEF BytesOf
<1>d. ASSUME NEW c \in Cluster, DropStaging(c), UNCHANGED live PROVE SmallSnapshots'
  BY <1>0, <1>d DEF DropStaging, SmallSnapshots, TypeOK, BytesOf
<1>u. CASE UNCHANGED <<live, staging>>
  BY <1>u DEF SmallSnapshots, BytesOf
<1>a. ASSUME NEW c \in Cluster, NEW new, BytesOf(new) <= MaxStateBytes,
             \/ UNCHANGED live /\ staging' = [staging EXCEPT ![c] = new]
             \/ UNCHANGED staging /\ live' = [live EXCEPT ![c] = new]
      PROVE  SmallSnapshots'
  BY <1>a DEF SmallSnapshots, TypeOK, BytesOf
<1>1. ASSUME NEW c \in Cluster, NEW g \in Generation, TransferFrame(c, g) PROVE SmallSnapshots'
  <2>1. ASSUME NEW e \in Epoch, NEW s \in Seqno, BeginSnapshot(c, g, e, s) PROVE SmallSnapshots'
    <3> DEFINE new == [epoch |-> e, seq |-> s, res |-> S!NoResources, bytes |-> 0, owner |-> g]
    <3>1. BytesOf(new) <= MaxStateBytes
      BY <1>0 DEF BytesOf
    <3>2. UNCHANGED live /\ staging' = [staging EXCEPT ![c] = new]
      BY <2>1 DEF BeginSnapshot
    <3> HIDE DEF new
    <3> QED
      BY <1>a, <3>1, <3>2
  <2> QED
    BY <1>1, <1>u, <2>1 DEF TransferFrame, AckDuplicate, QueueDelta, clusterVars
<1>2. ASSUME NEW c \in Cluster, NEW g \in Generation, OtherStep(c, g) PROVE SmallSnapshots'
  <2>1. ASSUME NEW k \in Key, NEW v \in Value, StageResource(c, g, k, v) PROVE SmallSnapshots'
    <3> DEFINE upsert == [epoch |-> staging[c].epoch, seq |-> staging[c].seq, key |-> k,
                          value |-> v, deleted |-> FALSE]
    <3>1. staging[c] \in Snapshot /\ staging[c] # None
      BY <2>1 DEF StageResource, TypeOK
    <3>2. upsert \in DeltaFrame
      BY <3>1 DEF Snapshot, DeltaFrame
    <3>3. staging[c].bytes <= MaxStateBytes
      BY <3>1 DEF SmallSnapshots, BytesOf
    <3>4. ApplyFits(staging[c], upsert.key, upsert.value, upsert.deleted)
      BY <2>1 DEF StageResource, ApplyFits
    <3>5. BytesOf(Apply(staging[c], upsert)) <= MaxStateBytes
      BY <3>1, <3>2, <3>3, <3>4, ApplyBudget
    <3>6. UNCHANGED live /\ staging' = [staging EXCEPT ![c] = Apply(staging[c], upsert)]
      BY <2>1 DEF StageResource
    <3> QED
      BY <1>a, <3>5, <3>6
  <2>2. ASSUME NEW k \in Key, NEW v \in Value, NEW deleted \in BOOLEAN,
               ApplyDelta(c, g, k, v, deleted)
        PROVE  SmallSnapshots'
    <3> DEFINE d == [epoch |-> live[c].epoch, seq |-> live[c].seq + 1, key |-> k,
                     value |-> v, deleted |-> deleted]
    <3>1. live[c] \in Snapshot /\ live[c] # None /\ live[c].seq < MaxSeq
      BY <2>2 DEF ApplyDelta, TypeOK
    <3>2. d \in DeltaFrame
      BY <3>1, RegistryAssumption DEF Snapshot, DeltaFrame, Seqno
    <3>3. live[c].bytes <= MaxStateBytes
      BY <3>1 DEF SmallSnapshots, BytesOf
    <3>4. ApplyFits(live[c], d.key, d.value, d.deleted)
      BY <2>2 DEF ApplyDelta
    <3>5. BytesOf(Apply(live[c], d)) <= MaxStateBytes
      BY <3>1, <3>2, <3>3, <3>4, ApplyBudget
    <3>6. UNCHANGED staging /\ live' = [live EXCEPT ![c] = Apply(live[c], d)]
      BY <2>2 DEF ApplyDelta
    <3> QED
      BY <1>a, <3>5, <3>6
  <2>3. ASSUME \/ Admit(c, g) \/ RefuseIngress(c, g) \/ RefuseFrame(c, g) \/ Nack(c, g)
               \/ BeatSession(c, g) \/ BeginCommit(c, g)
        PROVE  UNCHANGED <<live, staging>>
    BY <2>3 DEF Admit, RefuseIngress, RefuseFrame, Nack, BeatSession, BeginCommit, clusterVars
  <2>4. CASE EndStream(c, g)
    BY <1>d, <1>u, <2>4 DEF EndStream, clusterVars
  <2> QED
    BY <1>2, <1>u, <2>1, <2>2, <2>3, <2>4 DEF OtherStep
<1>3. ASSUME NEW c \in Cluster, FailCommit(c) PROVE SmallSnapshots'
  BY <1>3, <1>d DEF FailCommit
<1>4. ASSUME NEW c \in Cluster, ReplayDelta(c) PROVE SmallSnapshots'
  <2> DEFINE d == Head(pending[c])
  <2>1. staging[c] \in Snapshot /\ staging[c] # None /\ d \in DeltaFrame
    BY <1>4 DEF ReplayDelta, Unlocked, CommitHasStaging, TypeOK
  <2>2. staging[c].bytes <= MaxStateBytes
    BY <2>1 DEF SmallSnapshots, BytesOf
  <2>3. CASE /\ ApplyFits(staging[c], d.key, d.value, d.deleted)
             /\ UNCHANGED live
             /\ staging' = [staging EXCEPT ![c] = Apply(staging[c], d)]
    BY <1>a, <2>1, <2>2, <2>3, ApplyBudget
  <2> QED
    BY <1>3, <1>4, <1>u, <2>3 DEF ReplayDelta
<1>5. ASSUME NEW c \in Cluster, EndCommit(c) PROVE SmallSnapshots'
  <2>1. CASE DropStaging(c) /\ live' = [live EXCEPT ![c] = staging[c]]
    BY <1>0, <2>1 DEF DropStaging, SmallSnapshots, TypeOK, BytesOf
  <2> QED
    BY <1>3, <1>5, <2>1 DEF EndCommit
<1>6. ASSUME NEW c \in Cluster, Prune(c) PROVE SmallSnapshots'
  BY <1>0, <1>6, <1>a DEF Prune
<1>7. ASSUME NEW c \in Cluster, OpenSession(c) PROVE SmallSnapshots'
  BY <1>7, <1>d DEF OpenSession
<1>8. CASE Restart
  BY <1>0, <1>8 DEF Restart, SmallSnapshots, BytesOf
<1>9. CASE Background
  BY <1>4, <1>5, <1>6, <1>7, <1>8, <1>9, <1>u DEF Background, Tick
<1>10. CASE UNCHANGED vars
  BY <1>10, <1>u DEF vars, clusterVars
<1> QED
  BY <1>1, <1>2, <1>9, <1>10 DEF Next

\* The byte budgets hold, however the commits, chunks, deltas and expiries of
\* all clusters interleave.
THEOREM BudgetKept == Spec => []WithinBudget
<1>1. Init => SmallSnapshots /\ totalBytes <= MaxTotalStateBytes
  BY RegistryAssumption DEF Init, SmallSnapshots, BytesOf
<1>2. TypeInv /\ totalBytes <= MaxTotalStateBytes /\ [Next]_vars
        => (totalBytes <= MaxTotalStateBytes)'
  <2> SUFFICES ASSUME TypeInv, totalBytes <= MaxTotalStateBytes, [Next]_vars
               PROVE  totalBytes' <= MaxTotalStateBytes
    OBVIOUS
  <2>1. 0 <= MaxTotalStateBytes
    BY RegistryAssumption
  <2> QED
    BY <2>1, CounterStep, ChargedType DEF CounterMoves, TypeInv
<1>3. SmallSnapshots /\ totalBytes <= MaxTotalStateBytes => WithinBudget
  BY DEF SmallSnapshots, WithinBudget
<1> QED
  BY <1>1, <1>2, <1>3, TypeStart, TypeStep, SmallStep, PTL DEF Spec

-----------------------------------------------------------------------------
(* Preempted handlers *)

\* A Commit that holds the lock belongs to the latest session, since no other
\* can open meanwhile, and no handler is ahead of the latest session.
HandlerInv ==
  \A c \in Cluster :
    /\ committing[c] # None => committing[c].stream = generation[c]
    /\ \A g \in Generation : stream[c][g] = "admitted" => g <= generation[c]

\* The steps that move one handler and leave the sessions as they are.
Moves(c, g) ==
  /\ \E st \in StreamState :
       /\ stream' = [stream EXCEPT ![c][g] = st]
       /\ st = "admitted" => g = generation[c]
  /\ UNCHANGED generation
  /\ \/ UNCHANGED committing
     \/ committing' = [committing EXCEPT ![c] = None]

\* A failed Commit moves the handler that holds the lock.
LEMMA FailMoves ==
  ASSUME TypeInv, HandlerInv, NEW c \in Cluster, ~Unlocked(c), FailCommit(c)
  PROVE  committing[c].stream \in Generation /\ Moves(c, committing[c].stream)
<1>1. committing[c] \in Commit
  BY DEF TypeInv, TypeOK, Unlocked
<1>2. "recv" \in StreamState
  BY DEF StreamState
<1> QED
  BY <1>1, <1>2 DEF FailCommit, Answer, Moves, Commit

\* So does a Commit that succeeds.
LEMMA EndMoves ==
  ASSUME TypeInv, HandlerInv, NEW c \in Cluster, EndCommit(c)
  PROVE  committing[c].stream \in Generation /\ Moves(c, committing[c].stream)
<1>1. ~Unlocked(c) /\ committing[c] \in Commit
  BY DEF EndCommit, TypeInv, TypeOK, Unlocked
<1>2. "recv" \in StreamState
  BY DEF StreamState
<1>3. CASE FailCommit(c)
  BY <1>1, <1>3, FailMoves
<1>4. CASE ~FailCommit(c)
  BY <1>1, <1>2, <1>4 DEF EndCommit, Answer, Moves, Commit
<1> QED
  BY <1>3, <1>4

\* A step that moves a handler keeps HandlerInv.
LEMMA MovesKeep ==
  ASSUME TypeInv, HandlerInv, NEW c \in Cluster, NEW g \in Generation, Moves(c, g)
  PROVE  HandlerInv'
<1>1. PICK st \in StreamState : /\ stream' = [stream EXCEPT ![c][g] = st]
                                /\ st = "admitted" => g = generation[c]
  BY DEF Moves
<1>2. \A x \in Cluster, h \in Generation :
        stream'[x][h] = IF x = c /\ h = g THEN st ELSE stream[x][h]
  BY <1>1 DEF TypeInv, TypeOK
<1>3. \A x \in Cluster : committing'[x] # None => committing'[x] = committing[x]
  BY DEF Moves, TypeInv, TypeOK
<1>4. generation' = generation /\ \A x \in Cluster : generation[x] \in Nat
  BY DEF Moves, TypeInv, TypeOK
<1>5. \A x \in Cluster : committing'[x] # None => committing'[x].stream = generation'[x]
  BY <1>3, <1>4 DEF HandlerInv
<1>6. ASSUME NEW x \in Cluster, NEW h \in Generation, stream'[x][h] = "admitted"
      PROVE  h <= generation'[x]
  <2>1. CASE x = c /\ h = g
    BY <1>1, <1>2, <1>4, <1>6, <2>1
  <2>2. CASE ~(x = c /\ h = g)
    BY <1>2, <1>4, <1>6, <2>2 DEF HandlerInv
  <2> QED
    BY <2>1, <2>2
<1> QED
  BY <1>5, <1>6 DEF HandlerInv

\* Every frame of a handler but BeginCommit moves it.
LEMMA FrameMoves ==
  ASSUME TypeInv, NEW c \in Cluster, NEW g \in Generation,
         TransferFrame(c, g) \/ OtherStep(c, g), ~BeginCommit(c, g)
  PROVE  Moves(c, g)
<1>0. {"recv", "admitted", "ending", "closed"} \subseteq StreamState
  BY DEF StreamState
<1>1. CASE TransferFrame(c, g)
  BY <1>0, <1>1 DEF TransferFrame, BeginSnapshot, AckDuplicate, QueueDelta, Answer, Moves,
                    clusterVars
<1>2. CASE Admit(c, g) \/ RefuseIngress(c, g) \/ RefuseFrame(c, g) \/ Nack(c, g)
  BY <1>0, <1>2 DEF Admit, RefuseIngress, RefuseFrame, Nack, Answer, GiveUp, Moves,
                    SessionValid, clusterVars
<1>3. CASE EndStream(c, g)
  <2>1. stream' = [stream EXCEPT ![c][g] = "closed"] /\ UNCHANGED <<generation, committing>>
    BY <1>3 DEF EndStream, clusterVars
  <2> QED
    BY <1>0, <2>1 DEF Moves
<1>4. CASE BeatSession(c, g)
  BY <1>0, <1>4 DEF BeatSession, Answer, Moves
<1>5. CASE \E k \in Key, v \in Value : StageResource(c, g, k, v)
  BY <1>0, <1>5 DEF StageResource, Answer, Moves
<1>6. CASE \E k \in Key, v \in Value, deleted \in BOOLEAN : ApplyDelta(c, g, k, v, deleted)
  BY <1>0, <1>6 DEF ApplyDelta, Answer, Moves
<1> QED
  BY <1>1, <1>2, <1>3, <1>4, <1>5, <1>6 DEF OtherStep

\* Every step keeps HandlerInv.
LEMMA HandlerStep == TypeInv /\ HandlerInv /\ [Next]_vars => HandlerInv'
<1> SUFFICES ASSUME TypeInv, HandlerInv, [Next]_vars PROVE HandlerInv'
  OBVIOUS
<1>u. UNCHANGED <<committing, generation, stream>> => HandlerInv'
  BY DEF HandlerInv
<1>1. ASSUME NEW c \in Cluster, NEW g \in Generation, TransferFrame(c, g) \/ OtherStep(c, g)
      PROVE  HandlerInv'
  <2>1. CASE BeginCommit(c, g)
    <3>1. /\ generation[c] = g
          /\ committing' = [committing EXCEPT ![c] = [stream |-> g, retained |-> Retained(c)]]
          /\ UNCHANGED <<generation, stream>>
      BY <2>1 DEF BeginCommit, SessionValid
    <3>2. /\ committing'[c].stream = generation[c]
          /\ \A x \in Cluster \ {c} : committing'[x] = committing[x]
      BY <3>1 DEF TypeInv, TypeOK
    <3> QED
      BY <3>1, <3>2 DEF HandlerInv
  <2> QED
    BY <1>1, <2>1, FrameMoves, MovesKeep
<1>2. ASSUME NEW c \in Cluster, OpenSession(c) PROVE HandlerInv'
  <2> DEFINE g == generation[c] + 1
  <2>1. /\ committing[c] = None /\ UNCHANGED committing
        /\ g \in Generation
        /\ generation' = [generation EXCEPT ![c] = g]
        /\ stream' = [stream EXCEPT ![c][g] = "recv"]
    BY <1>2 DEF OpenSession, Unlocked
  <2>2. /\ generation'[c] = generation[c] + 1 /\ generation[c] \in Nat
        /\ \A x \in Cluster \ {c} : generation'[x] = generation[x]
    BY <2>1 DEF TypeInv, TypeOK
  <2>3. \A x \in Cluster, h \in Generation :
          stream'[x][h] = "admitted" => stream[x][h] = "admitted"
    BY <2>1 DEF TypeInv, TypeOK
  <2> QED
    BY <2>1, <2>2, <2>3 DEF HandlerInv, Generation
<1>3. ASSUME NEW c \in Cluster, EndCommit(c) PROVE HandlerInv'
  BY <1>3, EndMoves, MovesKeep
<1>4. ASSUME NEW c \in Cluster, ReplayDelta(c) PROVE HandlerInv'
  <2>1. ~Unlocked(c)
    BY <1>4 DEF ReplayDelta
  <2>2. CASE FailCommit(c)
    BY <2>1, <2>2, FailMoves, MovesKeep
  <2> QED
    BY <1>4, <1>u, <2>2 DEF ReplayDelta
<1>5. CASE Restart
  BY <1>5 DEF Restart, HandlerInv
<1>6. CASE Background
  BY <1>2, <1>3, <1>4, <1>5, <1>6, <1>u DEF Background, Prune, Tick
<1>7. CASE UNCHANGED vars
  BY <1>7, <1>u DEF vars, clusterVars
<1> QED
  BY <1>1, <1>6, <1>7 DEF Next

\* A handler that moves another handler leaves this one where it is.
LEMMA MovesOne ==
  ASSUME TypeInv, NEW x \in Cluster, NEW h \in Generation, Moves(x, h),
         NEW c \in Cluster, NEW g \in Generation, ~(x = c /\ h = g)
  PROVE  stream'[c][g] = stream[c][g]
BY DEF Moves, TypeInv, TypeOK

\* What an admitted handler of a preempted session can do: answer or give up.
LEMMA PreemptedFrame ==
  ASSUME NEW c \in Cluster, NEW g \in Generation,
         stream[c][g] = "admitted", g # generation[c],
         TransferFrame(c, g) \/ OtherStep(c, g)
  PROVE  UNCHANGED clusterVars
<1>1. ~SessionValid(c, g)
  BY DEF SessionValid
<1>2. ~TransferFrame(c, g)
  BY <1>1 DEF TransferFrame, BeginSnapshot, AckDuplicate, QueueDelta
<1>3. RefuseFrame(c, g) \/ Nack(c, g)
  BY <1>1, <1>2 DEF OtherStep, Admit, RefuseIngress, EndStream, BeatSession, BeginCommit,
                    StageResource, ApplyDelta
<1> QED
  BY <1>3 DEF RefuseFrame, Nack

\* A preempted handler that acts on its frame leaves no trace.
LEMMA PreemptedStep ==
  ASSUME TypeInv, HandlerInv, [Next]_vars, NEW c \in Cluster, NEW g \in Generation,
         stream[c][g] = "admitted", g # generation[c],
         stream'[c][g] # "admitted", stream'[c][g] # "none"
  PROVE  UNCHANGED <<live[c], staging[c], pending[c], silence[c], connected[c]>>
<1> DEFINE Goal == UNCHANGED <<live[c], staging[c], pending[c], silence[c], connected[c]>>
<1>1. ASSUME NEW x \in Cluster, NEW h \in Generation, TransferFrame(x, h) \/ OtherStep(x, h)
      PROVE  Goal
  <2>1. ~BeginCommit(x, h)
    BY DEF BeginCommit
  <2>2. x = c /\ h = g
    BY <1>1, <2>1, FrameMoves, MovesOne
  <2> QED
    BY <1>1, <2>2, PreemptedFrame DEF clusterVars
<1>2. ASSUME NEW x \in Cluster, OpenSession(x) PROVE FALSE
  <2>1. /\ stream' = [stream EXCEPT ![x][generation[x] + 1] = "recv"]
        /\ generation[x] + 1 \in Generation
    BY <1>2 DEF OpenSession
  <2>2. g <= generation[c] /\ generation[c] \in Nat
    BY DEF HandlerInv, TypeInv, TypeOK
  <2>3. ~(x = c /\ generation[x] + 1 = g)
    BY <2>2 DEF Generation
  <2> QED
    BY <2>1, <2>3 DEF TypeInv, TypeOK
<1>3. ASSUME NEW x \in Cluster, committing[x] # None,
             committing[x].stream \in Generation, Moves(x, committing[x].stream)
      PROVE  FALSE
  <2>1. ~(x = c /\ committing[x].stream = g)
    BY <1>3 DEF HandlerInv
  <2> QED
    BY <1>3, <2>1, MovesOne
<1>4. ASSUME NEW x \in Cluster, EndCommit(x) PROVE FALSE
  BY <1>3, <1>4, EndMoves DEF EndCommit, Unlocked
<1>5. ASSUME NEW x \in Cluster, ReplayDelta(x) PROVE FALSE
  <2>1. ~Unlocked(x)
    BY <1>5 DEF ReplayDelta
  <2>2. ~FailCommit(x)
    BY <1>3, <2>1, FailMoves DEF Unlocked
  <2> QED
    BY <1>5, <2>2 DEF ReplayDelta
<1>6. ~Restart
  BY DEF Restart
<1>7. ~Background
  BY <1>2, <1>4, <1>5, <1>6 DEF Background, Prune, Tick
<1>8. ~UNCHANGED vars
  BY DEF vars
<1> QED
  BY <1>1, <1>7, <1>8 DEF Next

\* A handler whose session was preempted between the ingress check and its
\* frame's own critical section changes nothing of its cluster.
THEOREM PreemptedHandlersAreInert == Spec => PreemptedIsInert
<1>1. Init => HandlerInv
  BY DEF Init, HandlerInv
<1>2. TypeInv /\ HandlerInv /\ [Next]_vars =>
        [\A c \in Cluster : \A g \in Generation :
           /\ stream[c][g] = "admitted"
           /\ g # generation[c]
           /\ stream'[c][g] # "admitted"
           /\ stream'[c][g] # "none"
           => UNCHANGED <<live[c], staging[c], pending[c], silence[c], connected[c]>>]_vars
  BY PreemptedStep
<1> QED
  BY <1>1, <1>2, TypeStart, TypeStep, HandlerStep, PTL DEF Spec, PreemptedIsInert

-----------------------------------------------------------------------------
(* Deltas that arrive during a snapshot transfer *)

\* A delta of version a waits for the Commit of c.
Waits(c, a) == \E i \in DOMAIN pending[c] :
                 pending[c][i].epoch = a.epoch /\ pending[c][i].seq = a.seq

\* A delta that was queued since the Begin is covered by the snapshot as it is
\* staged now, or still waits: also between two deltas of a Commit.
QueueInv ==
  /\ queued \in [Cluster -> SUBSET Acknowledged]
  /\ \A c \in Cluster : staging[c] # None =>
       \A a \in queued[c] : a.epoch = staging[c].epoch =>
         a.seq <= staging[c].seq \/ Waits(c, a)

\* What a step of the transfer leaves of what is staged for x: nothing, the same
\* version with the same deltas waiting, or one delta less, which the snapshot
\* covers if it is of its epoch.
Replayed(x) ==
  LET d == Head(pending[x]) IN
  /\ pending[x] # <<>>
  /\ pending'[x] = Tail(pending[x])
  /\ staging'[x] # None
  /\ staging'[x].epoch = staging[x].epoch
  /\ staging'[x].seq >= staging[x].seq
  /\ d.epoch = staging[x].epoch => d.seq <= staging'[x].seq

Undisturbed(x) ==
  /\ pending'[x] = pending[x]
  /\ staging'[x] # None
  /\ staging'[x].epoch = staging[x].epoch
  /\ staging'[x].seq = staging[x].seq

StaysCovered(x) ==
  staging'[x] # None => staging[x] # None /\ (Replayed(x) \/ Undisturbed(x))

\* A step of another cluster, or one that stages nothing.
LEMMA SameTransfer ==
  ASSUME NEW x \in Cluster, staging'[x] = staging[x], pending'[x] = pending[x]
  PROVE  StaysCovered(x)
BY DEF StaysCovered, Undisturbed

\* Replaying one delta.
LEMMA ReplayCovers ==
  ASSUME TypeInv, NEW c \in Cluster, ReplayDelta(c), ~FailCommit(c)
  PROVE  StaysCovered(c) /\ \A x \in Cluster \ {c} : StaysCovered(x)
<1> DEFINE d == Head(pending[c])
<1>1. staging[c] \in Snapshot /\ staging[c] # None /\ pending[c] # <<>> /\ d \in DeltaFrame
  BY DEF ReplayDelta, Unlocked, TypeInv, CommitHasStaging, TypeOK
<1>2. /\ staging[c].epoch \in Nat /\ staging[c].seq \in Nat
      /\ d.epoch \in Nat /\ d.seq \in Nat
  <2>1. MaxEpoch \in Nat /\ MaxSeq \in Nat
    BY RegistryAssumption
  <2>2. staging[c].epoch \in Epoch /\ staging[c].seq \in Seqno
    BY <1>1 DEF Snapshot
  <2>3. d.epoch \in Epoch /\ d.seq \in Seqno
    BY <1>1 DEF DeltaFrame
  <2> QED
    BY <2>1, <2>2, <2>3 DEF Epoch, Seqno
<1>3. pending' = [pending EXCEPT ![c] = Tail(@)]
  BY DEF ReplayDelta
<1>4. pending'[c] = Tail(pending[c]) /\ \A x \in Cluster \ {c} : pending'[x] = pending[x]
  BY <1>3 DEF TypeInv, TypeOK
<1>5. CASE ~Relevant(c, d) /\ UNCHANGED staging
  <2>1. d.epoch = staging[c].epoch => d.seq <= staging[c].seq
    BY <1>2, <1>5 DEF Relevant
  <2>2. Replayed(c)
    BY <1>1, <1>2, <1>4, <1>5, <2>1 DEF Replayed
  <2> QED
    BY <1>1, <1>4, <1>5, <2>2, SameTransfer DEF StaysCovered
<1>6. CASE /\ Relevant(c, d)
           /\ d.seq = staging[c].seq + 1
           /\ staging' = [staging EXCEPT ![c] = Apply(staging[c], d)]
  <2>1. /\ staging'[c] = Apply(staging[c], d)
        /\ \A x \in Cluster \ {c} : staging'[x] = staging[x]
    BY <1>6 DEF TypeInv, TypeOK
  <2>2. /\ staging'[c] # None /\ staging'[c].epoch = d.epoch /\ staging'[c].seq = d.seq
    BY <1>1, <2>1, ApplyType, NoneAssumption
  <2>3. Replayed(c)
    BY <1>1, <1>2, <1>4, <1>6, <2>2 DEF Replayed, Relevant
  <2> QED
    BY <1>1, <1>4, <2>1, <2>3, SameTransfer DEF StaysCovered
<1> QED
  BY <1>5, <1>6 DEF ReplayDelta

\* Every step of the registry but the frames of a transfer.
LEMMA OthersCover ==
  ASSUME TypeInv, NEW x \in Cluster,
         Background \/ \E c \in Cluster, g \in Generation : OtherStep(c, g)
  PROVE  StaysCovered(x)
<1>d. ASSUME NEW c \in Cluster, DropStaging(c) PROVE StaysCovered(x)
  <2>1. CASE x = c
    BY <1>d, <2>1 DEF DropStaging, StaysCovered, TypeInv, TypeOK
  <2>2. CASE x # c
    BY <1>d, <2>2, SameTransfer DEF DropStaging, TypeInv, TypeOK
  <2> QED
    BY <2>1, <2>2
<1>1. ASSUME NEW c \in Cluster, NEW g \in Generation, NEW k \in Key, NEW v \in Value,
             StageResource(c, g, k, v)
      PROVE  StaysCovered(x)
  <2> DEFINE upsert == [epoch |-> staging[c].epoch, seq |-> staging[c].seq, key |-> k,
                        value |-> v, deleted |-> FALSE]
  <2>1. staging[c] \in Snapshot /\ staging[c] # None
    BY <1>1 DEF StageResource, TypeInv, TypeOK
  <2>2. upsert \in DeltaFrame
    BY <2>1 DEF Snapshot, DeltaFrame
  <2>3. /\ Apply(staging[c], upsert) # None
        /\ Apply(staging[c], upsert).epoch = staging[c].epoch
        /\ Apply(staging[c], upsert).seq = staging[c].seq
    BY <2>1, <2>2, ApplyType, NoneAssumption
  <2>4. UNCHANGED pending /\ staging' = [staging EXCEPT ![c] = Apply(staging[c], upsert)]
    BY <1>1 DEF StageResource
  <2>5. CASE x = c
    BY <2>1, <2>3, <2>4, <2>5 DEF StaysCovered, Undisturbed, TypeInv, TypeOK
  <2>6. CASE x # c
    BY <2>4, <2>6, SameTransfer DEF TypeInv, TypeOK
  <2> QED
    BY <2>5, <2>6
<1>2. ASSUME NEW c \in Cluster, NEW g \in Generation, OtherStep(c, g) PROVE StaysCovered(x)
  <2>1. CASE EndStream(c, g)
    BY <1>d, <2>1, SameTransfer DEF EndStream, clusterVars
  <2>2. ASSUME \/ Admit(c, g) \/ RefuseIngress(c, g) \/ RefuseFrame(c, g) \/ Nack(c, g)
               \/ BeatSession(c, g) \/ BeginCommit(c, g)
               \/ \E k \in Key, v \in Value, deleted \in BOOLEAN : ApplyDelta(c, g, k, v, deleted)
        PROVE  UNCHANGED <<staging, pending>>
    BY <2>2 DEF Admit, RefuseIngress, RefuseFrame, Nack, BeatSession, BeginCommit,
                ApplyDelta, clusterVars
  <2> QED
    BY <1>1, <1>2, <2>1, <2>2, SameTransfer DEF OtherStep
<1>3. ASSUME NEW c \in Cluster, FailCommit(c) PROVE StaysCovered(x)
  BY <1>3, <1>d DEF FailCommit
<1>4. ASSUME NEW c \in Cluster, EndCommit(c) PROVE StaysCovered(x)
  BY <1>3, <1>4, <1>d DEF EndCommit
<1>5. ASSUME NEW c \in Cluster, ReplayDelta(c) PROVE StaysCovered(x)
  BY <1>3, <1>5, ReplayCovers
<1>6. ASSUME NEW c \in Cluster, OpenSession(c) PROVE StaysCovered(x)
  BY <1>6, <1>d DEF OpenSession
<1>7. CASE Restart
  BY <1>7 DEF Restart, StaysCovered
<1>8. ASSUME (\E c \in Cluster : Prune(c)) \/ Tick PROVE StaysCovered(x)
  BY <1>8, SameTransfer DEF Prune, Tick
<1> QED
  BY <1>2, <1>4, <1>5, <1>6, <1>7, <1>8 DEF Background

\* A delta that waited and was not replayed still waits.
LEMMA TailWaits ==
  ASSUME TypeInv, NEW c \in Cluster, Replayed(c), NEW a, Waits(c, a)
  PROVE  \/ Head(pending[c]).epoch = a.epoch /\ Head(pending[c]).seq = a.seq
         \/ Waits(c, a)'
<1>1. PICK i \in DOMAIN pending[c] : pending[c][i].epoch = a.epoch /\ pending[c][i].seq = a.seq
  BY DEF Waits
<1> DEFINE line == pending[c]
<1>2. line \in Seq(DeltaFrame) /\ line # <<>> /\ pending'[c] = Tail(line)
  BY DEF TypeInv, TypeOK, Replayed
<1>3. CASE i = 1
  BY <1>1, <1>2, <1>3
<1>4. CASE i # 1
  <2> HIDE DEF line
  <2>1. i \in 1 .. Len(line)
    BY <1>1, <1>2 DEF line
  <2>2. i - 1 \in DOMAIN Tail(line) /\ Tail(line)[i - 1] = line[i]
    BY <1>2, <1>4, <2>1
  <2>3. pending'[c][i - 1] = pending[c][i] /\ i - 1 \in DOMAIN pending'[c]
    BY <1>2, <2>2 DEF line
  <2> QED
    BY <1>1, <2>3 DEF Waits
<1> QED
  BY <1>3, <1>4

\* What was covered or waited stays so.
LEMMA CoverStep ==
  ASSUME TypeInv, QueueInv, NEW c \in Cluster, StaysCovered(c),
         queued'[c] \subseteq queued[c], staging'[c] # None, TypeInv',
         NEW a \in queued'[c], a.epoch = staging'[c].epoch
  PROVE  a.seq <= staging'[c].seq \/ Waits(c, a)'
<1>1. staging[c] # None /\ a \in queued[c] /\ a.epoch = staging[c].epoch
  BY DEF StaysCovered, Replayed, Undisturbed
<1>2. a \in Acknowledged /\ staging[c] \in Snapshot /\ staging'[c] \in Snapshot
  BY <1>1 DEF QueueInv, TypeInv, TypeOK
<1>3. a.seq \in Nat /\ staging[c].seq \in Nat /\ staging'[c].seq \in Nat
  BY <1>2, RegistryAssumption DEF Acknowledged, Snapshot, Seqno
<1>4. CASE a.seq <= staging[c].seq
  BY <1>3, <1>4 DEF StaysCovered, Replayed, Undisturbed
<1>5. CASE Waits(c, a) /\ Undisturbed(c)
  BY <1>5 DEF Undisturbed, Waits
<1>6. CASE Waits(c, a) /\ Replayed(c)
  BY <1>1, <1>6, TailWaits DEF Replayed
<1> QED
  BY <1>1, <1>4, <1>5, <1>6 DEF QueueInv, StaysCovered

\* A history step is a step of the registry.
LEMMA HistorySteps == [NextHistory]_<<vars, historyVars>> => [Next]_vars
BY DEF NextHistory, BeginTransfer, IgnoreDelta, AcceptDelta, Next, TransferFrame, vars

\* A delta that is put in the queue waits.
LEMMA QueuedWaits ==
  ASSUME TypeInv, NEW c \in Cluster, NEW d \in DeltaFrame, pending'[c] = Append(pending[c], d)
  PROVE  /\ \A a : Waits(c, a) => Waits(c, a)'
         /\ Waits(c, [epoch |-> d.epoch, seq |-> d.seq])'
<1> DEFINE line == pending[c]
<1>1. line \in Seq(DeltaFrame)
  BY DEF TypeInv, TypeOK
<1> HIDE DEF line
<1>2. /\ \A i \in DOMAIN line : i \in DOMAIN Append(line, d) /\ Append(line, d)[i] = line[i]
      /\ Len(line) + 1 \in DOMAIN Append(line, d)
      /\ Append(line, d)[Len(line) + 1] = d
  BY <1>1
<1>3. pending'[c] = Append(line, d)
  BY DEF line
<1>4. \A i \in DOMAIN pending[c] : i \in DOMAIN pending'[c] /\ pending'[c][i] = pending[c][i]
  BY <1>2, <1>3 DEF line
<1>5. \E i \in DOMAIN pending'[c] : pending'[c][i] = d
  BY <1>2, <1>3
<1> QED
  BY <1>4, <1>5 DEF Waits

\* Every step keeps QueueInv: also the three frames of a transfer.
LEMMA QueueStep ==
  TypeInv /\ QueueInv /\ [NextHistory]_<<vars, historyVars>> => QueueInv'
<1> SUFFICES ASSUME TypeInv, QueueInv, [NextHistory]_<<vars, historyVars>> PROVE QueueInv'
  OBVIOUS
<1>t. TypeInv'
  BY HistorySteps, TypeStep
<1>k. ASSUME queued' \in [Cluster -> SUBSET Acknowledged],
             \A x \in Cluster : StaysCovered(x) /\ queued'[x] \subseteq queued[x]
      PROVE  QueueInv'
  BY <1>t, <1>k, CoverStep DEF QueueInv
<1>1. ASSUME NEW c \in Cluster, NEW g \in Generation, NEW e \in Epoch, NEW s \in Seqno,
             BeginTransfer(c, g, e, s)
      PROVE  QueueInv'
  <2>1. queued' = [queued EXCEPT ![c] = {}]
    BY <1>1 DEF BeginTransfer
  <2>2. queued' \in [Cluster -> SUBSET Acknowledged] /\ queued'[c] = {}
    BY <2>1 DEF QueueInv
  <2>3. ASSUME NEW x \in Cluster \ {c}
        PROVE  queued'[x] = queued[x] /\ staging'[x] = staging[x] /\ pending'[x] = pending[x]
    BY <1>1, <2>1 DEF BeginTransfer, BeginSnapshot, QueueInv, TypeInv, TypeOK
  <2>4. ASSUME NEW x \in Cluster \ {c}, NEW a \in queued'[x], staging'[x] # None,
               a.epoch = staging'[x].epoch
        PROVE  a.seq <= staging'[x].seq \/ Waits(x, a)'
    BY <2>3, <2>4 DEF QueueInv, Waits
  <2> QED
    BY <2>2, <2>4 DEF QueueInv
<1>2. ASSUME NEW c \in Cluster, NEW g \in Generation, NEW e \in Epoch, NEW s \in Seqno,
             IgnoreDelta(c, g, e, s)
      PROVE  QueueInv'
  BY <1>2 DEF IgnoreDelta, AckDuplicate, clusterVars, QueueInv, Waits
<1>3. ASSUME NEW c \in Cluster, NEW g \in Generation, NEW d \in DeltaFrame,
             AcceptDelta(c, g, d)
      PROVE  QueueInv'
  <2> DEFINE new == [epoch |-> d.epoch, seq |-> d.seq]
  <2>1. queued' = [queued EXCEPT ![c] = @ \cup {new}]
    BY <1>3 DEF AcceptDelta, Remember
  <2>2. new \in Acknowledged
    BY DEF Acknowledged, DeltaFrame
  <2>3. /\ queued' \in [Cluster -> SUBSET Acknowledged]
        /\ queued'[c] = queued[c] \cup {new}
        /\ \A x \in Cluster \ {c} : queued'[x] = queued[x]
    BY <2>1, <2>2 DEF QueueInv
  <2>4. /\ UNCHANGED staging
        /\ pending'[c] = Append(pending[c], d)
        /\ \A x \in Cluster \ {c} : pending'[x] = pending[x]
    BY <1>3 DEF AcceptDelta, QueueDelta, TypeInv, TypeOK
  <2>5. ASSUME NEW a \in queued'[c], staging'[c] # None, a.epoch = staging'[c].epoch
        PROVE  a.seq <= staging'[c].seq \/ Waits(c, a)'
    BY <2>3, <2>4, <2>5, QueuedWaits DEF QueueInv
  <2>6. ASSUME NEW x \in Cluster \ {c}, NEW a \in queued'[x], staging'[x] # None,
               a.epoch = staging'[x].epoch
        PROVE  a.seq <= staging'[x].seq \/ Waits(x, a)'
    BY <2>3, <2>4, <2>6 DEF QueueInv, Waits
  <2> QED
    BY <2>3, <2>5, <2>6 DEF QueueInv
<1>4. ASSUME Background \/ \E c \in Cluster, g \in Generation : OtherStep(c, g),
             queued' = InTransfer(queued)
      PROVE  QueueInv'
  <2>1. /\ queued' \in [Cluster -> SUBSET Acknowledged]
        /\ \A x \in Cluster : queued'[x] \subseteq queued[x]
    BY <1>4 DEF InTransfer, QueueInv
  <2> QED
    BY <1>4, <1>k, <2>1, OthersCover
<1>5. CASE UNCHANGED <<vars, historyVars>>
  BY <1>5 DEF vars, clusterVars, historyVars, QueueInv, Waits
<1> QED
  BY <1>1, <1>2, <1>3, <1>4, <1>5 DEF NextHistory

\* A snapshot replaces the live state only by a Commit that has replayed all.
LEMMA SwapIsCommit ==
  ASSUME TypeInv, [Next]_vars, NEW c \in Cluster, Swapped(c)
  PROVE  pending[c] = <<>> /\ live'[c] = staging[c]
<1> DEFINE Goal == pending[c] = <<>> /\ live'[c] = staging[c]
<1> USE DEF Swapped
<1>1. ASSUME NEW x \in Cluster, NEW g \in Generation, TransferFrame(x, g) PROVE FALSE
  BY <1>1 DEF TransferFrame, BeginSnapshot, AckDuplicate, QueueDelta, clusterVars
<1>2. ASSUME NEW x \in Cluster, NEW g \in Generation, OtherStep(x, g) PROVE FALSE
  <2>1. ASSUME NEW k \in Key, NEW v \in Value, NEW deleted \in BOOLEAN,
               ApplyDelta(x, g, k, v, deleted)
        PROVE  FALSE
    BY <2>1 DEF ApplyDelta
  <2>2. UNCHANGED live
    BY <1>2, <2>1 DEF OtherStep, Admit, RefuseIngress, RefuseFrame, Nack, EndStream,
                      BeatSession, BeginCommit, StageResource, clusterVars
  <2> QED
    BY <2>2
<1>3. ASSUME NEW x \in Cluster, EndCommit(x) PROVE Goal
  <2>1. ~FailCommit(x)
    BY DEF FailCommit
  <2>2. live' = [live EXCEPT ![x] = staging[x]] /\ pending[x] = <<>>
    BY <1>3, <2>1 DEF EndCommit
  <2> QED
    BY <2>2 DEF TypeInv, TypeOK
<1>4. ASSUME NEW x \in Cluster, OpenSession(x) \/ ReplayDelta(x) PROVE FALSE
  BY <1>4 DEF OpenSession, ReplayDelta, FailCommit
<1>5. ASSUME NEW x \in Cluster, Prune(x) PROVE FALSE
  BY <1>5 DEF Prune, TypeInv, TypeOK
<1>6. ~Restart /\ ~Tick /\ ~UNCHANGED vars
  BY DEF Restart, Tick, vars, clusterVars
<1> QED
  BY <1>1, <1>2, <1>3, <1>4, <1>5, <1>6 DEF Next, Background

\* A Commit that succeeds has replayed every delta that was queued for its epoch
\* since the Begin, in whatever order and of whichever epochs the deltas came
\* (DeltaSession and CommitSession of the registry).
THEOREM QueuedDeltasSurvive == HistorySpec => QueuedSurvivesCommit
<1>1. InitHistory => TypeInv /\ QueueInv
  BY TypeStart DEF InitHistory, Init, QueueInv, Nothing
<1>2. ASSUME TypeInv, QueueInv, [NextHistory]_<<vars, historyVars>>
      PROVE  [\A c \in Cluster : Swapped(c) => Covers(live'[c], queued[c])]_vars
  <2>1. ASSUME NEW c \in Cluster, Swapped(c), NEW a \in queued[c], a.epoch = staging[c].epoch
        PROVE  a.seq <= staging[c].seq
    <3>1. pending[c] = <<>> /\ staging[c] # None
      BY <1>2, <2>1, HistorySteps, SwapIsCommit DEF Swapped
    <3>2. ~Waits(c, a)
      BY <3>1 DEF Waits
    <3> QED
      BY <1>2, <2>1, <3>1, <3>2 DEF QueueInv
  <2> QED
    BY <1>2, <2>1, HistorySteps, SwapIsCommit DEF Covers
<1> QED
  BY <1>1, <1>2, HistorySteps, TypeStep, QueueStep, PTL DEF HistorySpec, QueuedSurvivesCommit

-----------------------------------------------------------------------------
(* The byte counters are what they count *)

\* The weights of a resource map, and the sizes of the deltas that wait.
Weights(res) == [k \in DOMAIN res |-> Weight[res[k]]]
Sizes(deltas) == [i \in DOMAIN deltas |-> Size(deltas[i])]

\* A snapshot is charged what its resources weigh.
Measured(s) == s # None => IsFiniteSet(DOMAIN s.res) /\ s.bytes = SumWeights(s.res)

\* While a Commit replays the deltas, what it took the lock with covers the live
\* snapshot, the staged one and the deltas to come: that is why the release at
\* its end can only lower the counter, and cannot be refused.
Covered(c) ==
  ~Unlocked(c) => BytesOf(live[c]) + BytesOf(staging[c]) + SumSizes(pending[c])
                    <= committing[c].retained

Books(c) ==
  /\ Measured(live[c])
  /\ Measured(staging[c])
  /\ Unlocked(c) => pendingBytes[c] = SumSizes(pending[c])
  /\ Covered(c)

Charges == [c \in Cluster |-> Charge(c)]

AccountInv ==
  /\ totalBytes = SumFunction(Charges)
  /\ \A c \in Cluster : Books(c)

LEMMA WeighsType ==
  ASSUME NEW res \in S!Resources
  PROVE  \A k \in DOMAIN res : Weight[res[k]] \in Nat /\ k \in Key
<1>1. PICK K \in SUBSET Key : res \in [K -> Value]
  BY ResourcesDef
<1> QED
  BY <1>1, RegistryAssumption

\* What a resource map weighs.
LEMMA WeightsType ==
  ASSUME NEW res \in S!Resources, IsFiniteSet(DOMAIN res)
  PROVE  SumWeights(res) \in Nat
<1>1. \A k \in DOMAIN Weights(res) : Weights(res)[k] \in Nat
  BY WeighsType DEF Weights
<1>2. DOMAIN Weights(res) = DOMAIN res
  BY DEF Weights
<1>3. SumFunction(Weights(res)) \in Nat
  BY <1>1, <1>2, TotalNat
<1> QED
  BY <1>3 DEF SumWeights, Weights

\* An upsert or a delete changes the weight of a map by the growth it is
\* charged with.
LEMMA AppliedWeighs ==
  ASSUME NEW res \in S!Resources, IsFiniteSet(DOMAIN res),
         NEW k \in Key, NEW v \in Value, NEW deleted \in BOOLEAN
  PROVE  /\ IsFiniteSet(DOMAIN S!Applied(res, k, v, deleted))
         /\ SumWeights(S!Applied(res, k, v, deleted))
              = SumWeights(res) + NewWeight(v, deleted)
                  - (IF k \in DOMAIN res THEN Weight[res[k]] ELSE 0)
<1> DEFINE new == S!Applied(res, k, v, deleted)
           f == Weights(res)
           g == Weights(new)
<1>1. new \in S!Resources
  BY AppliedType
<1>2. DOMAIN f = DOMAIN res /\ DOMAIN g = DOMAIN new
  BY DEF Weights
<1>3. \A y \in DOMAIN f : f[y] \in Int
  BY WeighsType DEF Weights
<1>4. \A y \in DOMAIN g : g[y] \in Int
  BY <1>1, WeighsType DEF Weights
<1>5. Weight[v] \in Int
  BY RegistryAssumption
<1>6. SumWeights(res) = SumFunction(f) /\ SumWeights(new) = SumFunction(g)
  BY DEF SumWeights, Weights
<1>7. SumFunction(f) \in Int
  BY <1>2, <1>3, TotalType
<1>8. CASE ~deleted
  <2>1. new = S!Put(res, k, v)
    BY <1>8 DEF S!Applied
  <2>2. DOMAIN new = DOMAIN res \cup {k}
    BY <2>1 DEF S!Put
  <2>3. new[k] = v /\ \A y \in DOMAIN res \ {k} : new[y] = res[y]
    BY <2>1 DEF S!Put
  <2>4. g[k] = Weight[v] /\ \A y \in DOMAIN res \ {k} : g[y] = f[y]
    BY <2>2, <2>3 DEF Weights
  <2>5. IsFiniteSet(DOMAIN new)
    BY <2>2, FS_AddElement
  <2>6. NewWeight(v, deleted) = Weight[v]
    BY <1>8 DEF NewWeight
  <2> HIDE DEF new, f, g
  <2>7. CASE k \in DOMAIN res
    <3>1. DOMAIN g = DOMAIN f
      BY <1>2, <2>2, <2>7
    <3>2. SumFunction(g) = SumFunction(f) - f[k] + g[k]
      BY <1>2, <1>3, <1>4, <2>4, <2>7, <3>1, TotalChange
    <3>3. f[k] = Weight[res[k]] /\ f[k] \in Int
      BY <1>2, <1>3, <2>7 DEF f, Weights
    <3> QED
      BY <1>5, <1>6, <1>7, <2>4, <2>5, <2>6, <2>7, <3>2, <3>3 DEF new
  <2>8. CASE k \notin DOMAIN res
    <3>1. SumFunction(g) = SumFunction(f) + g[k]
      BY <1>2, <1>3, <1>4, <2>2, <2>4, <2>8, TotalMore
    <3> QED
      BY <1>5, <1>6, <1>7, <2>4, <2>5, <2>6, <2>8, <3>1 DEF new
  <2> QED
    BY <2>7, <2>8
<1>9. CASE deleted
  <2>1. new = S!Drop(res, k)
    BY <1>9 DEF S!Applied
  <2>2. DOMAIN new = DOMAIN res \ {k} /\ \A y \in DOMAIN new : new[y] = res[y]
    BY <2>1 DEF S!Drop
  <2>3. \A y \in DOMAIN g : g[y] = f[y]
    BY <2>2 DEF Weights
  <2>4. IsFiniteSet(DOMAIN new)
    BY <2>2, FS_Subset
  <2>5. NewWeight(v, deleted) = 0
    BY <1>9 DEF NewWeight
  <2> HIDE DEF new, f, g
  <2>6. CASE k \in DOMAIN res
    <3>1. DOMAIN f = DOMAIN g \cup {k} /\ k \notin DOMAIN g
      BY <1>2, <2>2, <2>6
    <3>2. SumFunction(f) = SumFunction(g) + f[k]
      BY <1>2, <1>3, <1>4, <2>3, <2>4, <3>1, TotalMore
    <3>3. f[k] = Weight[res[k]] /\ f[k] \in Int
      BY <1>2, <1>3, <2>6 DEF f, Weights
    <3>4. SumFunction(g) \in Int
      BY <1>2, <1>4, <2>4, TotalType
    <3> QED
      BY <1>6, <2>4, <2>5, <2>6, <3>2, <3>3, <3>4 DEF new
  <2>7. CASE k \notin DOMAIN res
    <3>1. DOMAIN f = DOMAIN g
      BY <1>2, <2>2, <2>7
    <3>2. SumFunction(f) = SumFunction(g)
      BY <1>2, <2>3, <3>1, SumSame DEF SumFunction
    <3> QED
      BY <1>6, <1>7, <2>4, <2>5, <2>7, <3>2 DEF new
  <2> QED
    BY <2>6, <2>7
<1> QED
  BY <1>8, <1>9

\* Registry.apply keeps a snapshot measured.
LEMMA ApplyMeasured ==
  ASSUME NEW snapshot \in Snapshot, NEW d \in DeltaFrame, Measured(snapshot)
  PROVE  Measured(Apply(snapshot, d))
<1>1. snapshot # None /\ snapshot.res \in S!Resources
  BY NoneAssumption DEF Snapshot
<1>2. IsFiniteSet(DOMAIN snapshot.res) /\ snapshot.bytes = SumWeights(snapshot.res)
  BY <1>1 DEF Measured
<1>3. SumWeights(snapshot.res) \in Int
  BY <1>1, <1>2, WeightsType
<1>4. d.key \in Key /\ d.value \in Value /\ d.deleted \in BOOLEAN
  BY DEF DeltaFrame
<1>5. PICK old : old = OldWeight(snapshot, d.key)
  OBVIOUS
<1>6. PICK new : new = NewWeight(d.value, d.deleted)
  OBVIOUS
<1>7. old \in Int /\ new \in Int
  BY <1>1, <1>4, <1>5, <1>6, WeighsType, RegistryAssumption DEF OldWeight, NewWeight
<1>8. PICK r : r = S!Applied(snapshot.res, d.key, d.value, d.deleted)
  OBVIOUS
<1>9. IsFiniteSet(DOMAIN r) /\ SumWeights(r) = SumWeights(snapshot.res) + new - old
  BY <1>1, <1>2, <1>4, <1>5, <1>6, <1>8, AppliedWeighs DEF OldWeight
<1>10. Apply(snapshot, d).bytes = snapshot.bytes + (new - old)
  BY <1>5, <1>6 DEF Apply, Growth
<1>11. Apply(snapshot, d).res = r
  BY <1>8 DEF Apply
<1>12. Apply(snapshot, d).bytes = SumWeights(r)
  BY <1>2, <1>3, <1>7, <1>9, <1>10
<1> QED
  BY <1>9, <1>11, <1>12 DEF Measured

\* What the deltas that wait are charged.
LEMMA SizeType ==
  ASSUME NEW d \in DeltaFrame
  PROVE  /\ Size(d) \in Nat
         /\ \A snapshot \in Snapshot : Growth(snapshot, d.key, d.value, d.deleted) <= Size(d)
<1>1. Weight[d.value] \in Nat /\ Overhead \in Nat
  BY RegistryAssumption DEF DeltaFrame
<1>2. ASSUME NEW snapshot \in Snapshot
      PROVE  OldWeight(snapshot, d.key) \in Nat
  BY WeighsType DEF OldWeight, Snapshot
<1>3. NewWeight(d.value, d.deleted) \in Nat /\ NewWeight(d.value, d.deleted) <= Weight[d.value]
  BY <1>1 DEF NewWeight
<1>4. Size(d) = Weight[d.value] + Overhead
  BY DEF Size
<1> QED
  BY <1>1, <1>2, <1>3, <1>4 DEF Growth

LEMMA SizesType ==
  ASSUME NEW p \in Seq(DeltaFrame)
  PROVE  SumSizes(p) \in Nat
<1>1. DOMAIN Sizes(p) = 1 .. Len(p) /\ Len(p) \in Nat
  BY DEF Sizes
<1>2. \A i \in DOMAIN Sizes(p) : Sizes(p)[i] \in Nat
  BY <1>1, SizeType DEF Sizes
<1>3. IsFiniteSet(DOMAIN Sizes(p))
  BY <1>1, FS_Interval
<1>4. SumFunction(Sizes(p)) \in Nat
  BY <1>2, <1>3, TotalNat
<1> QED
  BY <1>4 DEF SumSizes, Sizes

LEMMA NoSizes == SumSizes(<<>>) = 0
<1>1. DOMAIN Sizes(<<>>) = {}
  BY DEF Sizes
<1> QED
  BY <1>1, TotalEmpty DEF SumSizes, Sizes

LEMMA AppendSizes ==
  ASSUME NEW p \in Seq(DeltaFrame), NEW d \in DeltaFrame
  PROVE  SumSizes(Append(p, d)) = SumSizes(p) + Size(d)
<1> DEFINE f == Sizes(p)
           g == Sizes(Append(p, d))
           x == Len(p) + 1
<1>1. DOMAIN f = 1 .. Len(p) /\ DOMAIN g = 1 .. (Len(p) + 1) /\ Len(p) \in Nat
  BY DEF Sizes
<1>2. x \notin DOMAIN f /\ DOMAIN g = DOMAIN f \cup {x}
  BY <1>1
<1>3. g[x] = Size(d)
  BY <1>1 DEF Sizes
<1>4. \A y \in DOMAIN f : g[y] = f[y]
  BY <1>1 DEF Sizes
<1>5. \A y \in DOMAIN f : f[y] \in Int
  BY <1>1, SizeType DEF Sizes
<1>6. IsFiniteSet(DOMAIN f)
  BY <1>1, FS_Interval
<1>7. Size(d) \in Int
  BY SizeType
<1> HIDE DEF f, g, x
<1>8. SumFunction(g) = SumFunction(f) + g[x]
  BY <1>2, <1>3, <1>4, <1>5, <1>6, <1>7, TotalMore
<1> QED
  BY <1>3, <1>8 DEF SumSizes, Sizes, f, g

LEMMA TailSizes ==
  ASSUME NEW p \in Seq(DeltaFrame), p # <<>>
  PROVE  SumSizes(p) = Size(Head(p)) + SumSizes(Tail(p))
<1> DEFINE f == Sizes(p)
           g == Sizes(Tail(p))
<1>1. PICK m \in Nat : Len(p) = m + 1
  <2>1. Len(p) \in Nat /\ Len(p) # 0
    OBVIOUS
  <2>2. Len(p) - 1 \in Nat /\ Len(p) = (Len(p) - 1) + 1
    BY <2>1
  <2> QED
    BY <2>2
<1>2. DOMAIN f = 1 .. (m + 1) /\ DOMAIN g = 1 .. m
  BY <1>1 DEF Sizes
<1>3. \A i \in 1 .. m : g[i] = f[i + 1]
  BY <1>1 DEF Sizes
<1>4. \A i \in 1 .. (m + 1) : f[i] \in Int
  BY <1>1, SizeType DEF Sizes
<1>5. f[1] = Size(Head(p))
  BY <1>1 DEF Sizes
<1> HIDE DEF f, g
<1>6. SumFunctionOnSet(f, 1 .. (m + 1)) = f[1] + SumFunctionOnSet(g, 1 .. m)
  BY <1>3, <1>4, SumShift
<1>7. SumFunction(f) = f[1] + SumFunction(g)
  BY <1>2, <1>6 DEF SumFunction
<1> QED
  BY <1>5, <1>7 DEF SumSizes, Sizes, f, g

-----------------------------------------------------------------------------

\* What a cluster is charged is a natural number.
LEMMA ChargeType ==
  ASSUME TypeInv, NEW c \in Cluster, Books(c)
  PROVE  /\ BytesOf(live[c]) \in Nat
         /\ BytesOf(staging[c]) \in Nat
         /\ pendingBytes[c] \in Nat
         /\ Charge(c) \in Int
         /\ committing[c] # None => committing[c].retained \in Int
<1>1. /\ live[c] # None => live[c].res \in S!Resources
      /\ staging[c] # None => staging[c].res \in S!Resources
      /\ committing[c] # None => committing[c].retained \in Int
      /\ pendingBytes[c] \in Nat
  BY DEF TypeInv, TypeOK, Snapshot, Commit
<1>2. BytesOf(live[c]) \in Nat /\ BytesOf(staging[c]) \in Nat
  BY <1>1, WeightsType DEF Books, Measured, BytesOf
<1>3. Charge(c) \in Int
  BY <1>1, <1>2 DEF Charge, Unlocked, Retained
<1> QED
  BY <1>1, <1>2, <1>3

\* A release is never refused.
LEMMA Released == ASSUME TypeInv, NEW n \in Int, n <= 0 PROVE Charged(n) = totalBytes + n
BY DEF Charged, Fits

\* A step of one cluster that moves the counter by what its charge changes.
LEMMA OneCluster ==
  ASSUME TypeInv, AccountInv, NEW c \in Cluster,
         \A d \in Cluster \ {c} :
            UNCHANGED <<live[d], staging[d], pending[d], pendingBytes[d], committing[d]>>,
         Books(c)', Charge(c)' \in Int,
         totalBytes' = totalBytes + (Charge(c)' - Charge(c))
  PROVE  AccountInv'
<1>1. \A d \in Cluster \ {c} : Charge(d)' = Charge(d) /\ Books(d)' = Books(d)
  BY DEF Charge, Books, Covered, Measured, Unlocked, Retained
<1>2. \A d \in Cluster : Books(d)
  BY DEF AccountInv
<1>3. \A d \in Cluster : Books(d)'
  BY <1>1, <1>2
<1> DEFINE f == Charges
<1>4. PICK g : g = Charges'
  OBVIOUS
<1>5. DOMAIN f = Cluster /\ DOMAIN g = Cluster
  BY <1>4 DEF Charges
<1>6. \A d \in Cluster : f[d] = Charge(d) /\ f[d] \in Int
  BY <1>2, ChargeType DEF Charges
<1>7. g[c] = Charge(c)' /\ \A d \in Cluster \ {c} : g[d] = f[d]
  BY <1>1, <1>4 DEF Charges
<1>8. IsFiniteSet(Cluster)
  BY RegistryAssumption
<1>9. totalBytes = SumFunction(f)
  BY DEF AccountInv
<1> HIDE DEF f
<1>10. SumFunction(g) = SumFunction(f) - f[c] + g[c]
  BY <1>5, <1>6, <1>7, <1>8, TotalChange
<1>11. SumFunction(f) \in Int
  BY <1>5, <1>6, <1>8, TotalType
<1>12. totalBytes' = SumFunction(g)
  <2>1. f[c] = Charge(c) /\ f[c] \in Int
    BY <1>6
  <2>2. PICK a : a = Charge(c)'
    OBVIOUS
  <2> QED
    BY <1>7, <1>9, <1>10, <1>11, <2>1, <2>2
<1> QED
  BY <1>3, <1>4, <1>12 DEF AccountInv

\* What is staged for c is dropped, and what it was charged released.
LEMMA DroppedAccount ==
  ASSUME TypeInv, AccountInv, NEW c \in Cluster, committing[c] = None,
         DropStaging(c), UNCHANGED <<live, committing>>,
         totalBytes' = Charged(BytesOf(live[c]) - Retained(c))
  PROVE  AccountInv'
<1>1. Books(c)
  BY DEF AccountInv
<1>2. /\ staging'[c] = None /\ pending'[c] = <<>> /\ pendingBytes'[c] = 0
      /\ live'[c] = live[c] /\ committing'[c] = None
      /\ \A d \in Cluster \ {c} :
           UNCHANGED <<live[d], staging[d], pending[d], pendingBytes[d], committing[d]>>
  BY DEF DropStaging, TypeInv, TypeOK
<1>3. PICK l : l = BytesOf(live[c])
  OBVIOUS
<1>4. PICK s : s = BytesOf(staging[c])
  OBVIOUS
<1>5. l \in Nat /\ s \in Nat /\ pendingBytes[c] \in Nat
  BY <1>1, <1>3, <1>4, ChargeType
<1>6. Charge(c) = l + s + pendingBytes[c] /\ Retained(c) = Charge(c)
  BY <1>3, <1>4 DEF Charge, Unlocked, Retained
<1>7. Charge(c)' = l
  BY <1>2, <1>3, <1>5 DEF Charge, Unlocked, Retained, BytesOf
<1>8. totalBytes' = totalBytes + (l - Charge(c))
  BY <1>3, <1>5, <1>6, Released
<1>9. Books(c)'
  BY <1>1, <1>2, NoSizes DEF Books, Measured, Covered, Unlocked
<1> QED
  BY <1>2, <1>5, <1>7, <1>8, <1>9, OneCluster

\* A nacked Commit releases what it took the lock with.
LEMMA FailedAccount ==
  ASSUME TypeInv, AccountInv, NEW c \in Cluster, committing[c] # None, FailCommit(c)
  PROVE  AccountInv'
<1>1. Books(c)
  BY DEF AccountInv
<1>2. /\ staging'[c] = None /\ pending'[c] = <<>> /\ pendingBytes'[c] = 0
      /\ live'[c] = live[c] /\ committing'[c] = None
      /\ \A d \in Cluster \ {c} :
           UNCHANGED <<live[d], staging[d], pending[d], pendingBytes[d], committing[d]>>
  BY DEF FailCommit, DropStaging, TypeInv, TypeOK
<1>3. PICK l : l = BytesOf(live[c])
  OBVIOUS
<1>4. PICK r : r = committing[c].retained
  OBVIOUS
<1>5. PICK s : s = BytesOf(staging[c]) + SumSizes(pending[c])
  OBVIOUS
<1>6. l \in Nat /\ r \in Int /\ s \in Nat
  <2>1. pending[c] \in Seq(DeltaFrame)
    BY DEF TypeInv, TypeOK
  <2> QED
    BY <1>1, <1>3, <1>4, <1>5, <2>1, ChargeType, SizesType
<1>7. l + s <= r
  <2>1. BytesOf(staging[c]) \in Nat /\ SumSizes(pending[c]) \in Nat
    <3>1. pending[c] \in Seq(DeltaFrame)
      BY DEF TypeInv, TypeOK
    <3> QED
      BY <1>1, <3>1, ChargeType, SizesType
  <2>2. BytesOf(live[c]) + BytesOf(staging[c]) + SumSizes(pending[c]) <= committing[c].retained
    BY <1>1 DEF Books, Covered, Unlocked
  <2> QED
    BY <1>3, <1>4, <1>5, <1>6, <2>1, <2>2
<1>8. Charge(c) = r
  BY <1>4 DEF Charge, Unlocked
<1>9. Charge(c)' = l
  BY <1>2, <1>3, <1>6 DEF Charge, Unlocked, Retained, BytesOf
<1>10. totalBytes' = totalBytes + (l - r)
  BY <1>3, <1>4, <1>6, <1>7, Released DEF FailCommit
<1>11. Books(c)'
  BY <1>1, <1>2, NoSizes DEF Books, Measured, Covered, Unlocked
<1> QED
  BY <1>2, <1>6, <1>8, <1>9, <1>10, <1>11, OneCluster

\* Steps that touch neither snapshots, nor deltas, nor the counter.
LEMMA SameAccount ==
  ASSUME AccountInv, UNCHANGED <<live, staging, pending, pendingBytes, committing, totalBytes>>
  PROVE  AccountInv'
BY DEF AccountInv, Charges, Charge, Books, Covered, Measured, Unlocked, Retained, BytesOf

\* A new snapshot in place of the live or the staged one, for the growth.
LEMMA GrownAccount ==
  ASSUME TypeInv, AccountInv, NEW c \in Cluster, committing[c] = None,
         NEW old \in Snapshot, NEW d \in DeltaFrame,
         \/ /\ old = live[c] /\ live' = [live EXCEPT ![c] = Apply(old, d)] /\ UNCHANGED staging
         \/ /\ old = staging[c] /\ staging' = [staging EXCEPT ![c] = Apply(old, d)] /\ UNCHANGED live,
         UNCHANGED <<pending, pendingBytes, committing>>,
         totalBytes' = totalBytes + Growth(old, d.key, d.value, d.deleted)
  PROVE  AccountInv'
<1>1. Books(c)
  BY DEF AccountInv
<1>2. PICK new : new = Apply(old, d)
  OBVIOUS
<1>3. PICK growth : growth = Growth(old, d.key, d.value, d.deleted)
  OBVIOUS
<1>4. growth \in Int
  BY <1>3, GrowthType DEF DeltaFrame
<1>5. new \in Snapshot /\ new # None /\ old # None /\ new.bytes = old.bytes + growth
  BY <1>2, <1>3, ApplyType, NoneAssumption
<1>6. Measured(old)
  BY <1>1 DEF Books
<1>7. Measured(new)
  BY <1>2, <1>6, ApplyMeasured
<1>8. PICK l : l = BytesOf(live[c])
  OBVIOUS
<1>9. PICK s : s = BytesOf(staging[c])
  OBVIOUS
<1>10. l \in Int /\ s \in Int /\ pendingBytes[c] \in Int
  BY <1>1, <1>8, <1>9, ChargeType
<1>11. Charge(c) = l + s + pendingBytes[c]
  BY <1>8, <1>9 DEF Charge, Unlocked, Retained
<1>12. Charge(c)' = (l + s + pendingBytes[c]) + growth
  <2>1. CASE old = live[c] /\ live' = [live EXCEPT ![c] = new] /\ UNCHANGED staging
    <3>1. live'[c] = new /\ staging'[c] = staging[c]
      BY <2>1 DEF TypeInv, TypeOK
    <3>2. Charge(c)' = new.bytes + s + pendingBytes[c] /\ l = old.bytes
      BY <1>5, <1>8, <1>9, <2>1, <3>1 DEF Charge, Unlocked, Retained, BytesOf
    <3> QED
      BY <1>4, <1>5, <1>10, <3>2
  <2>2. CASE old = staging[c] /\ staging' = [staging EXCEPT ![c] = new] /\ UNCHANGED live
    <3>1. staging'[c] = new /\ live'[c] = live[c]
      BY <2>2 DEF TypeInv, TypeOK
    <3>2. Charge(c)' = l + new.bytes + pendingBytes[c] /\ s = old.bytes
      BY <1>5, <1>8, <1>9, <2>2, <3>1 DEF Charge, Unlocked, Retained, BytesOf
    <3> QED
      BY <1>4, <1>5, <1>10, <3>2
  <2> QED
    BY <1>2, <2>1, <2>2
<1>13. Books(c)'
  <2>1. \/ live'[c] = new /\ staging'[c] = staging[c]
        \/ staging'[c] = new /\ live'[c] = live[c]
    BY <1>2 DEF TypeInv, TypeOK
  <2> QED
    BY <1>1, <1>7, <2>1 DEF Books, Measured, Covered, Unlocked
<1>14. \A x \in Cluster \ {c} :
         UNCHANGED <<live[x], staging[x], pending[x], pendingBytes[x], committing[x]>>
  BY DEF TypeInv, TypeOK
<1>15. totalBytes \in Int
  BY DEF TypeInv, TypeOK
<1>16. totalBytes' = totalBytes + (Charge(c)' - Charge(c))
  <2>1. PICK a : a = Charge(c)'
    OBVIOUS
  <2>2. PICK b : b = Charge(c)
    OBVIOUS
  <2>3. a \in Int /\ b \in Int /\ a - b = growth
    BY <1>4, <1>10, <1>11, <1>12, <2>1, <2>2
  <2> QED
    BY <1>3, <2>1, <2>2, <2>3
<1>17. Charge(c)' \in Int
  BY <1>4, <1>10, <1>12
<1> QED
  BY <1>13, <1>14, <1>16, <1>17, OneCluster

\* The frames of a session keep the account.
LEMMA FrameAccount ==
  ASSUME TypeInv, AccountInv, NEW c \in Cluster, NEW g \in Generation,
         TransferFrame(c, g) \/ OtherStep(c, g)
  PROVE  AccountInv'
<1>0. Books(c) /\ totalBytes \in Int
  BY DEF AccountInv, TypeInv, TypeOK
<1>1. ASSUME NEW e \in Epoch, NEW s \in Seqno, BeginSnapshot(c, g, e, s) PROVE AccountInv'
  <2> DEFINE new == [epoch |-> e, seq |-> s, res |-> S!NoResources, bytes |-> 0, owner |-> g]
  <2>1. /\ staging'[c] = new /\ pending'[c] = <<>> /\ pendingBytes'[c] = 0
        /\ live'[c] = live[c] /\ committing[c] = None /\ committing'[c] = None
        /\ \A d \in Cluster \ {c} :
             UNCHANGED <<live[d], staging[d], pending[d], pendingBytes[d], committing[d]>>
    BY <1>1 DEF BeginSnapshot, Unlocked, TypeInv, TypeOK
  <2>2. new \in Snapshot
    BY NoResourcesType DEF Snapshot
  <2>3. new # None /\ BytesOf(new) = 0
    BY <2>2, NoneAssumption DEF BytesOf
  <2>4. DOMAIN S!NoResources = {}
    BY DEF S!NoResources
  <2>5. IsFiniteSet(DOMAIN new.res) /\ SumWeights(new.res) = 0
    <3>1. DOMAIN Weights(S!NoResources) = {}
      BY <2>4 DEF Weights
    <3>2. SumWeights(S!NoResources) = 0
      BY <3>1, TotalEmpty DEF SumWeights, Weights
    <3> QED
      BY <2>4, <3>2, FS_EmptySet
  <2>6. Measured(new)
    BY <2>5 DEF Measured
  <2> HIDE DEF new
  <2>7. PICK l : l = BytesOf(live[c])
    OBVIOUS
  <2>8. PICK s0 : s0 = BytesOf(staging[c])
    OBVIOUS
  <2>9. l \in Nat /\ s0 \in Nat /\ pendingBytes[c] \in Nat
    BY <1>0, <2>7, <2>8, ChargeType
  <2>10. Charge(c) = l + s0 + pendingBytes[c] /\ Retained(c) = Charge(c)
    BY <2>1, <2>7, <2>8 DEF Charge, Unlocked, Retained
  <2>11. Charge(c)' = l
    <3>1. BytesOf(live[c])' = l /\ BytesOf(staging[c])' = 0
      BY <2>1, <2>3, <2>7 DEF BytesOf
    <3>2. Charge(c)' = l + 0 + 0
      BY <2>1, <3>1 DEF Charge, Unlocked, Retained
    <3> QED
      BY <2>9, <3>2
  <2>12. totalBytes' = totalBytes + (l - Charge(c))
    BY <1>1, <2>7, <2>9, <2>10, Released DEF BeginSnapshot
  <2>13. Books(c)'
    BY <1>0, <2>1, <2>6, NoSizes DEF Books, Measured, Covered, Unlocked
  <2> QED
    BY <2>1, <2>9, <2>11, <2>12, <2>13, OneCluster
<1>2. ASSUME NEW d \in DeltaFrame, QueueDelta(c, g, d) PROVE AccountInv'
  <2>1. /\ pending'[c] = Append(pending[c], d)
        /\ pendingBytes'[c] = pendingBytes[c] + Size(d)
        /\ live'[c] = live[c] /\ staging'[c] = staging[c]
        /\ committing[c] = None /\ committing'[c] = None
        /\ \A x \in Cluster \ {c} :
             UNCHANGED <<live[x], staging[x], pending[x], pendingBytes[x], committing[x]>>
    BY <1>2 DEF QueueDelta, Unlocked, TypeInv, TypeOK
  <2>2. Size(d) \in Int /\ pending[c] \in Seq(DeltaFrame)
    BY SizeType DEF TypeInv, TypeOK
  <2>3. PICK r : r = BytesOf(live[c]) + BytesOf(staging[c])
    OBVIOUS
  <2>4. r \in Int /\ pendingBytes[c] \in Int
    BY <1>0, <2>3, ChargeType
  <2>5. Charge(c) = r + pendingBytes[c]
    BY <2>1, <2>3 DEF Charge, Unlocked, Retained
  <2>6. Charge(c)' = r + (pendingBytes[c] + Size(d))
    BY <2>1, <2>3 DEF Charge, Unlocked, Retained, BytesOf
  <2>7. totalBytes' = totalBytes + Size(d)
    BY <1>2 DEF QueueDelta, Charged
  <2>8. totalBytes' = totalBytes + (Charge(c)' - Charge(c)) /\ Charge(c)' \in Int
    <3>1. (r + (pendingBytes[c] + Size(d))) - (r + pendingBytes[c]) = Size(d)
      BY <2>2, <2>4
    <3> QED
      BY <2>2, <2>4, <2>5, <2>6, <2>7, <3>1
  <2>9. Books(c)'
    <3>1. SumSizes(pending'[c]) = SumSizes(pending[c]) + Size(d)
      BY <2>1, <2>2, AppendSizes
    <3> QED
      BY <1>0, <2>1, <3>1 DEF Books, Measured, Covered, Unlocked
  <2> QED
    BY <2>1, <2>8, <2>9, OneCluster
<1>3. ASSUME NEW k \in Key, NEW v \in Value, StageResource(c, g, k, v) PROVE AccountInv'
  <2> DEFINE upsert == [epoch |-> staging[c].epoch, seq |-> staging[c].seq, key |-> k,
                        value |-> v, deleted |-> FALSE]
  <2>1. staging[c] \in Snapshot /\ committing[c] = None
    BY <1>3 DEF StageResource, Unlocked, TypeInv, TypeOK
  <2>2. upsert \in DeltaFrame
    BY <2>1 DEF Snapshot, DeltaFrame
  <2>3. /\ staging' = [staging EXCEPT ![c] = Apply(staging[c], upsert)]
        /\ UNCHANGED <<live, pending, pendingBytes, committing>>
        /\ totalBytes' = totalBytes + Growth(staging[c], upsert.key, upsert.value, upsert.deleted)
    BY <1>3 DEF StageResource, Charged
  <2> HIDE DEF upsert
  <2> QED
    BY <2>1, <2>2, <2>3, GrownAccount
<1>4. ASSUME NEW k \in Key, NEW v \in Value, NEW deleted \in BOOLEAN, ApplyDelta(c, g, k, v, deleted)
      PROVE  AccountInv'
  <2> DEFINE d == [epoch |-> live[c].epoch, seq |-> live[c].seq + 1, key |-> k,
                   value |-> v, deleted |-> deleted]
  <2>1. live[c] \in Snapshot /\ live[c].seq < MaxSeq /\ committing[c] = None
    BY <1>4 DEF ApplyDelta, Unlocked, TypeInv, TypeOK
  <2>2. d \in DeltaFrame
    BY <2>1, RegistryAssumption DEF Snapshot, DeltaFrame, Seqno
  <2>3. /\ live' = [live EXCEPT ![c] = Apply(live[c], d)]
        /\ UNCHANGED <<staging, pending, pendingBytes, committing>>
        /\ totalBytes' = totalBytes + Growth(live[c], d.key, d.value, d.deleted)
    BY <1>4 DEF ApplyDelta, Charged
  <2> HIDE DEF d
  <2> QED
    BY <2>1, <2>2, <2>3, GrownAccount
<1>5. CASE EndStream(c, g)
  <2>1. CASE generation[c] = g
    BY <1>5, <2>1, DroppedAccount DEF EndStream, Unlocked
  <2>2. CASE generation[c] # g
    BY <1>5, <2>2, SameAccount DEF EndStream, clusterVars
  <2> QED
    BY <2>1, <2>2
<1>6. CASE BeginCommit(c, g)
  <2>1. /\ committing[c] = None
        /\ committing'[c] = [stream |-> g, retained |-> Retained(c)]
        /\ live'[c] = live[c] /\ staging'[c] = staging[c] /\ staging[c] # None
        /\ pending'[c] = pending[c] /\ pendingBytes'[c] = pendingBytes[c]
        /\ totalBytes' = totalBytes
        /\ \A x \in Cluster \ {c} :
             UNCHANGED <<live[x], staging[x], pending[x], pendingBytes[x], committing[x]>>
    BY <1>6 DEF BeginCommit, Unlocked, TypeInv, TypeOK
  <2>2. Charge(c) = Retained(c) /\ Charge(c) \in Int
    BY <1>0, <2>1, ChargeType DEF Charge, Unlocked
  <2>3. Retained(c) = BytesOf(live[c]) + BytesOf(staging[c]) + SumSizes(pending[c])
    BY <1>0, <2>1 DEF Books, Unlocked, Retained
  <2>4. committing'[c] # None
    <3>1. Retained(c) \in Int
      BY <2>2
    <3>2. committing'[c] \in Commit
      BY <2>1, <3>1 DEF Commit
    <3> QED
      BY <3>2, NoneAssumption
  <2>5. Charge(c)' = Charge(c)
    BY <2>1, <2>2, <2>4 DEF Charge, Unlocked
  <2>6. Books(c)'
    BY <1>0, <2>1, <2>2, <2>3, <2>4 DEF Books, Measured, Covered, Unlocked, BytesOf
  <2>7. totalBytes' = totalBytes + (Charge(c)' - Charge(c))
    BY <1>0, <2>1, <2>2, <2>5
  <2> QED
    BY <2>1, <2>2, <2>5, <2>6, <2>7, OneCluster
<1>7. ASSUME \/ Admit(c, g) \/ RefuseIngress(c, g) \/ RefuseFrame(c, g) \/ Nack(c, g)
             \/ BeatSession(c, g) \/ \E e \in Epoch, s \in Seqno : AckDuplicate(c, g, e, s)
      PROVE  AccountInv'
  BY <1>7, SameAccount
  DEF Admit, RefuseIngress, RefuseFrame, Nack, BeatSession, AckDuplicate, clusterVars
<1> QED
  BY <1>1, <1>2, <1>3, <1>4, <1>5, <1>6, <1>7 DEF TransferFrame, OtherStep

\* A Commit that takes in one more delta: the snapshot grows by no more than the
\* delta was charged while it waited.
LEMMA ReplayAccount ==
  ASSUME TypeInv, AccountInv, NEW c \in Cluster, ReplayDelta(c)
  PROVE  AccountInv'
<1> DEFINE d == Head(pending[c])
<1>0. Books(c) /\ totalBytes \in Int
  BY DEF AccountInv, TypeInv, TypeOK
<1>1. /\ committing[c] # None /\ pending[c] # <<>> /\ pending[c] \in Seq(DeltaFrame)
      /\ staging[c] \in Snapshot /\ staging[c] # None /\ d \in DeltaFrame
  BY DEF ReplayDelta, Unlocked, TypeInv, TypeOK, CommitHasStaging
<1>2. SumSizes(pending[c]) = Size(d) + SumSizes(Tail(pending[c]))
  BY <1>1, TailSizes
<1>3. Tail(pending[c]) \in Seq(DeltaFrame) /\ Size(d) \in Nat
  BY <1>1, SizeType
<1>4. PICK rest : rest = SumSizes(Tail(pending[c]))
  OBVIOUS
<1>5. rest \in Nat
  BY <1>3, <1>4, SizesType
<1>6. PICK l : l = BytesOf(live[c])
  OBVIOUS
<1>7. PICK r : r = committing[c].retained
  OBVIOUS
<1>8. l \in Nat /\ r \in Int /\ staging[c].bytes \in Int
  BY <1>0, <1>1, <1>6, <1>7, ChargeType DEF Snapshot
<1>9. l + staging[c].bytes + (Size(d) + rest) <= r
  BY <1>0, <1>1, <1>2, <1>4, <1>6, <1>7 DEF Books, Covered, Unlocked, BytesOf
<1>10. ASSUME NEW new \in Snapshot, Measured(new), new.bytes <= staging[c].bytes + Size(d),
              staging' = [staging EXCEPT ![c] = new],
              pending' = [pending EXCEPT ![c] = Tail(@)],
              UNCHANGED <<live, pendingBytes, committing, totalBytes>>
       PROVE  AccountInv'
  <2>1. /\ staging'[c] = new /\ pending'[c] = Tail(pending[c])
        /\ live'[c] = live[c] /\ committing'[c] = committing[c]
        /\ \A x \in Cluster \ {c} :
             UNCHANGED <<live[x], staging[x], pending[x], pendingBytes[x], committing[x]>>
    BY <1>10 DEF TypeInv, TypeOK
  <2>2. new # None /\ new.bytes \in Int
    BY NoneAssumption DEF Snapshot
  <2>3. Charge(c) = r /\ Charge(c)' = r
    BY <1>1, <1>7, <2>1 DEF Charge, Unlocked
  <2>4. l + new.bytes + rest <= r
    BY <1>3, <1>5, <1>8, <1>9, <1>10, <2>2
  <2>5. Covered(c)'
    BY <1>4, <1>6, <1>7, <2>1, <2>2, <2>4 DEF Covered, BytesOf
  <2>6. Books(c)'
    BY <1>0, <1>1, <1>10, <2>1, <2>5 DEF Books, Measured, Unlocked
  <2>7. totalBytes' = totalBytes + (Charge(c)' - Charge(c)) /\ Charge(c)' \in Int
    BY <1>0, <1>8, <1>10, <2>3
  <2> QED
    BY <2>1, <2>6, <2>7, OneCluster
<1> DEFINE same == UNCHANGED <<live, pendingBytes, connected, generation, silence,
                               committing, totalBytes, stream, change>>
           next == pending' = [pending EXCEPT ![c] = Tail(@)]
<1>11. CASE next /\ same /\ UNCHANGED staging
  <2>1. staging' = [staging EXCEPT ![c] = staging[c]]
    BY <1>11 DEF TypeInv, TypeOK
  <2>2. staging[c].bytes <= staging[c].bytes + Size(d)
    BY <1>3, <1>8
  <2>3. Measured(staging[c])
    BY <1>0 DEF Books
  <2> QED
    BY <1>1, <1>10, <1>11, <2>1, <2>2, <2>3
<1>12. CASE staging' = [staging EXCEPT ![c] = Apply(staging[c], d)] /\ next /\ same
  <2>1. PICK new : new = Apply(staging[c], d)
    OBVIOUS
  <2>2. PICK growth : growth = Growth(staging[c], d.key, d.value, d.deleted)
    OBVIOUS
  <2>3. growth \in Int /\ growth <= Size(d)
    BY <1>1, <2>2, GrowthType, SizeType DEF DeltaFrame
  <2>4. new \in Snapshot /\ new.bytes = staging[c].bytes + growth
    BY <1>1, <2>1, <2>2, ApplyType
  <2>5. Measured(new)
    BY <1>0, <1>1, <2>1, ApplyMeasured DEF Books
  <2>6. new.bytes <= staging[c].bytes + Size(d)
    BY <1>3, <1>8, <2>3, <2>4
  <2> QED
    BY <1>10, <1>12, <2>1, <2>4, <2>5, <2>6
<1>13. CASE FailCommit(c)
  BY <1>1, <1>13, FailedAccount
<1> QED
  BY <1>11, <1>12, <1>13 DEF ReplayDelta

\* The swap at the end of a Commit charges no more than the Commit took the lock
\* with, so the reservation whose result it ignores always succeeds.
LEMMA EndAccount ==
  ASSUME TypeInv, AccountInv, NEW c \in Cluster, EndCommit(c)
  PROVE  AccountInv'
<1>0. Books(c) /\ totalBytes \in Int
  BY DEF AccountInv, TypeInv, TypeOK
<1>1. /\ committing[c] # None /\ pending[c] = <<>>
      /\ staging[c] \in Snapshot /\ staging[c] # None
  BY DEF EndCommit, Unlocked, TypeInv, TypeOK, CommitHasStaging
<1>2. CASE FailCommit(c)
  BY <1>1, <1>2, FailedAccount
<1>3. CASE /\ live' = [live EXCEPT ![c] = staging[c]]
           /\ totalBytes' = Charged(staging[c].bytes - committing[c].retained)
           /\ DropStaging(c)
           /\ committing' = [committing EXCEPT ![c] = None]
  <2>1. /\ staging'[c] = None /\ pending'[c] = <<>> /\ pendingBytes'[c] = 0
        /\ live'[c] = staging[c] /\ committing'[c] = None
        /\ \A d \in Cluster \ {c} :
             UNCHANGED <<live[d], staging[d], pending[d], pendingBytes[d], committing[d]>>
    BY <1>3 DEF DropStaging, TypeInv, TypeOK
  <2>2. PICK s : s = staging[c].bytes
    OBVIOUS
  <2>3. PICK r : r = committing[c].retained
    OBVIOUS
  <2>4. PICK l : l = BytesOf(live[c])
    OBVIOUS
  <2>5. s \in Nat /\ r \in Int /\ l \in Nat
    BY <1>0, <1>1, <2>2, <2>3, <2>4, ChargeType DEF BytesOf
  <2>6. l + s + 0 <= r
    BY <1>0, <1>1, <2>2, <2>3, <2>4, NoSizes DEF Books, Covered, Unlocked, BytesOf
  <2>7. Charge(c) = r
    BY <1>1, <2>3 DEF Charge, Unlocked
  <2>8. Charge(c)' = s
    BY <1>1, <2>1, <2>2, <2>5 DEF Charge, Unlocked, Retained, BytesOf
  <2>9. totalBytes' = totalBytes + (s - r)
    BY <1>3, <2>2, <2>3, <2>5, <2>6, Released
  <2>10. Books(c)'
    BY <1>0, <1>1, <2>1, NoSizes DEF Books, Measured, Covered, Unlocked
  <2> QED
    BY <2>1, <2>5, <2>7, <2>8, <2>9, <2>10, OneCluster
<1> QED
  BY <1>2, <1>3 DEF EndCommit

\* So does the expiry of a cluster nobody confirms.
LEMMA PruneAccount ==
  ASSUME TypeInv, AccountInv, NEW c \in Cluster, Prune(c)
  PROVE  AccountInv'
<1>0. Books(c) /\ totalBytes \in Int
  BY DEF AccountInv, TypeInv, TypeOK
<1>1. /\ live'[c] = None /\ staging'[c] = staging[c] /\ live[c] # None
      /\ pending'[c] = pending[c] /\ pendingBytes'[c] = pendingBytes[c]
      /\ committing[c] = None /\ committing'[c] = None
      /\ \A d \in Cluster \ {c} :
           UNCHANGED <<live[d], staging[d], pending[d], pendingBytes[d], committing[d]>>
  BY DEF Prune, Unlocked, TypeInv, TypeOK
<1>2. PICK l : l = live[c].bytes
  OBVIOUS
<1>3. PICK s : s = BytesOf(staging[c])
  OBVIOUS
<1>4. l \in Nat /\ s \in Nat /\ pendingBytes[c] \in Nat
  BY <1>0, <1>1, <1>2, <1>3, ChargeType DEF BytesOf
<1>5. Charge(c) = l + s + pendingBytes[c]
  BY <1>1, <1>2, <1>3 DEF Charge, Unlocked, Retained, BytesOf
<1>6. Charge(c)' = s + pendingBytes[c]
  BY <1>1, <1>3, <1>4 DEF Charge, Unlocked, Retained, BytesOf
<1>7. totalBytes' = totalBytes + (-l)
  BY <1>2, <1>4, Released DEF Prune
<1>8. totalBytes' = totalBytes + (Charge(c)' - Charge(c))
  BY <1>0, <1>4, <1>5, <1>6, <1>7
<1>9. Books(c)'
  BY <1>0, <1>1 DEF Books, Measured, Covered, Unlocked
<1> QED
  BY <1>1, <1>4, <1>6, <1>8, <1>9, OneCluster

\* An empty registry is charged nothing.
Blank ==
  /\ live = [c \in Cluster |-> None] /\ staging = [c \in Cluster |-> None]
  /\ pending = [c \in Cluster |-> <<>>] /\ pendingBytes = [c \in Cluster |-> 0]
  /\ committing = [c \in Cluster |-> None] /\ totalBytes = 0

LEMMA BlankAccount == Blank => AccountInv
<1> SUFFICES ASSUME Blank PROVE AccountInv
  OBVIOUS
<1> USE DEF Blank
<1>1. \A c \in Cluster : Charge(c) = 0
  BY DEF Charge, Unlocked, Retained, BytesOf
<1>2. DOMAIN Charges = Cluster /\ \A c \in Cluster : Charges[c] = 0
  BY <1>1 DEF Charges
<1>3. SumFunction(Charges) = 0
  BY <1>2, RegistryAssumption, TotalZero
<1>4. \A c \in Cluster : Books(c)
  BY NoSizes DEF Books, Measured, Covered, Unlocked
<1> QED
  BY <1>3, <1>4 DEF AccountInv

LEMMA AccountStep == TypeInv /\ AccountInv /\ [Next]_vars => AccountInv'
<1> SUFFICES ASSUME TypeInv, AccountInv, [Next]_vars PROVE AccountInv'
  OBVIOUS
<1>1. ASSUME NEW c \in Cluster, OpenSession(c) PROVE AccountInv'
  BY <1>1, DroppedAccount DEF OpenSession, Unlocked
<1>2. CASE Tick
  BY <1>2, SameAccount DEF Tick
<1>3. CASE Restart
  <2>1. Blank'
    BY <1>3 DEF Restart, Blank
  <2>2. Blank' => AccountInv'
    BY BlankAccount, PTL
  <2> QED
    BY <2>1, <2>2
<1>4. CASE UNCHANGED vars
  BY <1>4, SameAccount DEF vars, clusterVars
<1> QED
  BY <1>1, <1>2, <1>3, <1>4, FrameAccount, ReplayAccount, EndAccount, PruneAccount
  DEF Next, Background

\* The byte counters of the registry are what they count: the global counter is
\* what all clusters retain together, and the size of a snapshot and of the
\* deltas that wait is that of their resources, although a Commit ignores the
\* result of its last reserveBytes (reserveBytes, commit, registry.go).
THEOREM BytesAreAccounted == Spec => []BytesAccounted
<1>1. Init => AccountInv
  BY BlankAccount DEF Init, Blank
<1>2. AccountInv => BytesAccounted
  BY DEF AccountInv, Charges, Books, Measured, BytesAccounted
<1> QED
  BY <1>1, <1>2, TypeStart, TypeStep, AccountStep, PTL DEF Spec
=============================================================================
