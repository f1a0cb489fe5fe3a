-------------------------- MODULE AgentSyncProofs --------------------------
(***************************************************************************)
(* Proofs about AgentSync, for every set of objects and payloads, every    *)
(* order of reading and every bound on changes and failures; and about     *)
(* CentralScreens: what the roles of a user open to the user's screens,    *)
(* for all worlds, questions and roles.                                    *)
(***************************************************************************)
EXTENDS AgentSync, CentralScreens, FiniteSetTheorems, TLAPS

-----------------------------------------------------------------------------
(* The inductive invariant *)

\* What the informers may say of an object.
Copy == AgentValue \cup {"unborn", "gone"}
Reading == UNION {[K -> Copy] : K \in SUBSET AgentKey}

AgentTypeOK ==
  /\ objects \in [AgentKey -> Copy]
  /\ at \in {"off", "down", "reading", "sending", "idle"}
  /\ read \in Reading
  /\ delivered \in Reg!Resources \cup {NoSnapshot}
  /\ lastSeq \in Nat
  /\ session \in Nat
  /\ serving \in BOOLEAN
  /\ staged \in Reg!Resources \cup {NoSnapshot}
  /\ held \in Reg!Version \cup {NoSnapshot}
  /\ installed \in Nat
  /\ moves \in 0 .. MaxMoves

\* Where the agent is says what it has sent.
Progress ==
  /\ at \in {"off", "down", "sending"} => delivered = NoSnapshot
  /\ at = "idle" => delivered # NoSnapshot
  /\ delivered = NoSnapshot => lastSeq = 0

\* The session of the agent is the registry's latest, and has not committed
\* before its commit.
Numbered ==
  /\ installed <= session
  /\ serving => session >= 1
  /\ serving /\ at \in {"reading", "sending"} /\ delivered = NoSnapshot => installed < session

\* The registry stages what the agent has read ...
StagesWhatIsRead ==
  serving /\ at = "sending" =>
    /\ staged # NoSnapshot
    /\ \A k \in DOMAIN staged : k \in DOMAIN Indexed /\ staged[k] = Indexed[k]

\* ... and when the versions agree it holds what the agent has sent.
HoldsWhatIsSent == serving /\ delivered # NoSnapshot /\ Matches => held.res = delivered

\* A session is opened at first, and again only after a change or a failure
\* that has ended, or is about to end, the one before.
Away ==
  \/ at \in {"off", "down"}
  \/ ~serving
  \/ delivered # NoSnapshot /\ ~Matches
SessionsPaidFor ==
  /\ session <= moves + 1
  /\ Away => session <= moves

AgentInv ==
  /\ AgentTypeOK
  /\ Progress
  /\ Numbered
  /\ StagesWhatIsRead
  /\ HoldsWhatIsSent
  /\ SessionsPaidFor

-----------------------------------------------------------------------------
(* Resource maps *)

\* A resource map is a function from some of the objects.
LEMMA MapDef ==
  ASSUME NEW f
  PROVE  f \in Reg!Resources <=> \E K \in SUBSET AgentKey : f \in [K -> AgentValue]
BY DEF Reg!Resources

\* An upsert keeps a resource map a resource map.
LEMMA PutKeeps ==
  ASSUME NEW res \in Reg!Resources, NEW k \in AgentKey, NEW v \in AgentValue
  PROVE  Reg!Put(res, k, v) \in Reg!Resources
<1>1. PICK K \in SUBSET AgentKey : res \in [K -> AgentValue]
  BY MapDef
<1>2. Reg!Put(res, k, v) \in [K \cup {k} -> AgentValue]
  BY <1>1 DEF Reg!Put
<1> QED
  BY <1>2, MapDef

\* So does a delete.
LEMMA DropKeeps ==
  ASSUME NEW res \in Reg!Resources, NEW k \in AgentKey
  PROVE  Reg!Drop(res, k) \in Reg!Resources
<1>1. PICK K \in SUBSET AgentKey : res \in [K -> AgentValue]
  BY MapDef
<1>2. Reg!Drop(res, k) \in [K \ {k} -> AgentValue]
  BY <1>1 DEF Reg!Drop
<1> QED
  BY <1>2, MapDef

\* The empty map is a resource map.
LEMMA EmptyMap == Reg!NoResources \in Reg!Resources /\ DOMAIN Reg!NoResources = {}
<1>1. Reg!NoResources \in [{} -> AgentValue]
  BY DEF Reg!NoResources
<1> QED
  BY <1>1, MapDef

\* What is indexed of a reading is a resource map.
LEMMA IndexedType ==
  ASSUME AgentTypeOK
  PROVE  /\ Indexed \in Reg!Resources
         /\ DOMAIN Indexed \subseteq AgentKey
         /\ \A k \in DOMAIN Indexed : Indexed[k] \in AgentValue
<1>1. PICK K \in SUBSET AgentKey : read \in [K -> Copy]
  BY DEF AgentTypeOK, Reading
<1>2. Indexed \in [{x \in K : read[x] \in AgentValue} -> AgentValue]
  BY <1>1 DEF Indexed
<1>3. {x \in K : read[x] \in AgentValue} \in SUBSET AgentKey
  BY <1>1
<1> QED
  BY <1>2, <1>3, MapDef

\* Two resource maps with the same objects and the same payloads are one.
LEMMA MapsEqual ==
  ASSUME NEW f \in Reg!Resources, NEW g \in Reg!Resources, DOMAIN f = DOMAIN g,
         \A k \in DOMAIN f : f[k] = g[k]
  PROVE  f = g
<1>1. PICK K \in SUBSET AgentKey : f \in [K -> AgentValue]
  BY MapDef
<1>2. PICK L \in SUBSET AgentKey : g \in [L -> AgentValue]
  BY MapDef
<1>3. f = [k \in DOMAIN f |-> f[k]] /\ g = [k \in DOMAIN g |-> g[k]]
  BY <1>1, <1>2
<1> QED
  BY <1>3

\* An object to delete was sent, an object to upsert has been read.
LEMMA UnsentType ==
  ASSUME AgentTypeOK, delivered # NoSnapshot, NEW k \in Unsent
  PROVE  /\ k \in AgentKey
         /\ k \in Removed => k \in DOMAIN delivered /\ delivered[k] \in AgentValue
         /\ k \notin Removed => k \in DOMAIN Indexed /\ Indexed[k] \in AgentValue
<1>1. PICK K \in SUBSET AgentKey : delivered \in [K -> AgentValue]
  BY MapDef DEF AgentTypeOK
<1> QED
  BY <1>1, IndexedType DEF Unsent, Removed, Altered

-----------------------------------------------------------------------------
(* What a frame does in the registry, whether its answer arrives or not *)

\* The registry's side of the invariant that every frame keeps.
Central ==
  /\ session \in Nat
  /\ serving \in BOOLEAN
  /\ staged \in Reg!Resources \cup {NoSnapshot}
  /\ held \in Reg!Version \cup {NoSnapshot}
  /\ installed \in Nat
  /\ installed <= session
  /\ serving => session >= 1

LEMMA CentralNow == AgentInv => Central /\ session <= moves + 1
BY DEF AgentInv, AgentTypeOK, Numbered, SessionsPaidFor, Central

\* A commit installs the whole snapshot under the number of its session.
LEMMA CommitInstalls ==
  ASSUME AgentInv, CommitFrame
  PROVE  /\ Indexed \in Reg!Resources
         /\ staged = Indexed
         /\ session \in Reg!Epoch
         /\ installed < session
         /\ held' = [epoch |-> session, seq |-> 0, res |-> Indexed]
         /\ held' \in Reg!Version
<1>1. AgentTypeOK /\ staged # NoSnapshot
  BY DEF AgentInv, StagesWhatIsRead, CommitFrame
<1>2. Indexed \in Reg!Resources /\ staged \in Reg!Resources
  BY <1>1, IndexedType DEF AgentTypeOK
<1>3. staged = Indexed
  BY <1>2, MapsEqual DEF AgentInv, StagesWhatIsRead, CommitFrame
<1>4. session >= 1 /\ session <= moves + 1 /\ session \in Nat /\ moves \in 0 .. MaxMoves
  BY CentralNow DEF AgentInv, AgentTypeOK, Numbered, CommitFrame, Central
<1>5. session \in Reg!Epoch
  BY <1>4, AgentAssumption DEF Reg!Epoch
<1>6. installed < session
  BY DEF AgentInv, Numbered, Progress, CommitFrame
<1>7. held' = [epoch |-> session, seq |-> 0, res |-> Indexed]
  BY <1>3 DEF CommitFrame, Reg!Install
<1>8. held' \in Reg!Version
  BY <1>2, <1>5, <1>7, AgentAssumption DEF Reg!Version, Reg!Seqno
<1> QED
  BY <1>2, <1>3, <1>5, <1>6, <1>7, <1>8

\* A delta changes one object of what the agent has sent.
LEMMA ChangeMutates ==
  ASSUME AgentInv, NEW k \in AgentKey, ChangeFrame(k)
  PROVE  /\ held \in Reg!Version
         /\ held.res = delivered
         /\ held' = [epoch |-> session, seq |-> lastSeq + 1,
                     res |-> IF k \in Removed THEN Reg!Drop(delivered, k)
                             ELSE Reg!Put(delivered, k, Indexed[k])]
         /\ held' \in Reg!Version
         /\ held'.res \in Reg!Resources
<1>1. AgentTypeOK /\ delivered # NoSnapshot /\ held # NoSnapshot
  BY DEF AgentInv, ChangeFrame, Updating, Matches
<1>2. held \in Reg!Version /\ delivered \in Reg!Resources
  BY <1>1 DEF AgentTypeOK
<1>3. held.res = delivered /\ held.epoch = session /\ held.seq = lastSeq
  BY <1>1 DEF AgentInv, HoldsWhatIsSent, ChangeFrame, Matches
<1> DEFINE v == IF k \in Removed THEN delivered[k] ELSE Indexed[k]
           res == Reg!Applied(held.res, k, v, k \in Removed)
<1>4. Reg!Mutate(k, v, k \in Removed)
  BY DEF ChangeFrame
<1>5. held' = [epoch |-> held.epoch, seq |-> held.seq + 1, res |-> res]
      /\ held.seq < MaxMoves
  BY <1>4 DEF Reg!Mutate
<1>6. res = IF k \in Removed THEN Reg!Drop(delivered, k) ELSE Reg!Put(delivered, k, Indexed[k])
  BY <1>3 DEF Reg!Applied
<1>7. res \in Reg!Resources
  BY <1>1, <1>2, <1>6, UnsentType, PutKeeps, DropKeeps DEF ChangeFrame
<1>8. held' \in Reg!Version /\ held'.res = res
  <2>1. held.epoch \in Reg!Epoch /\ held.seq \in Nat
    BY <1>2 DEF Reg!Version, Reg!Seqno
  <2>2. held.seq + 1 \in Reg!Seqno
    BY <1>5, <2>1, AgentAssumption DEF Reg!Seqno
  <2> HIDE DEF res
  <2> QED
    BY <1>5, <1>7, <2>1, <2>2 DEF Reg!Version
<1> QED
  BY <1>2, <1>3, <1>5, <1>6, <1>7, <1>8

\* Whatever frame arrives, the registry's side stays as it should.
LEMMA FrameKeeps ==
  ASSUME AgentInv, AnyFrame \/ UNCHANGED centralVars
  PROVE  Central' /\ session' <= moves + 1
<1>1. Central /\ session <= moves + 1 /\ moves \in Nat
  BY CentralNow DEF AgentInv, AgentTypeOK
<1>2. CASE HelloFrame
  <2>1. session + 1 <= moves + 1
    BY <1>1, <1>2 DEF AgentInv, SessionsPaidFor, Away, HelloFrame, Central
  <2> QED
    BY <1>1, <1>2, <2>1 DEF HelloFrame, NextSession, Central
<1>3. CASE BeginFrame
  BY <1>1, <1>3, EmptyMap DEF BeginFrame, Central
<1>4. ASSUME NEW k \in AgentKey, ChunkFrame(k) PROVE Central' /\ session' <= moves + 1
  <2>1. staged \in Reg!Resources /\ Indexed[k] \in AgentValue
    BY <1>4, IndexedType DEF ChunkFrame, AgentInv, AgentTypeOK, StagesWhatIsRead
  <2>2. staged' \in Reg!Resources
    BY <1>4, <2>1, PutKeeps DEF ChunkFrame
  <2> QED
    BY <1>1, <1>4, <2>2 DEF ChunkFrame, Central
<1>5. CASE CommitFrame
  <2>1. session \in Reg!Epoch /\ held' \in Reg!Version
    BY <1>5, CommitInstalls
  <2> QED
    BY <1>1, <1>5, <2>1 DEF CommitFrame, Central
<1>6. ASSUME NEW k \in AgentKey, ChangeFrame(k) PROVE Central' /\ session' <= moves + 1
  <2>1. held' \in Reg!Version
    BY <1>6, ChangeMutates
  <2> QED
    BY <1>1, <1>6, <2>1 DEF ChangeFrame, Central
<1>7. CASE BeatFrame
  BY <1>1, <1>7 DEF BeatFrame, Reg!Beat, Central
<1>8. CASE UNCHANGED centralVars
  BY <1>1, <1>8 DEF centralVars, Central
<1> QED
  BY <1>2, <1>3, <1>4, <1>5, <1>6, <1>7, <1>8 DEF AnyFrame

\* A reading may be empty.
LEMMA EmptyReading == NothingRead \in Reading
<1>1. NothingRead \in [{} -> Copy]
  BY DEF NothingRead
<1> QED
  BY <1>1 DEF Reading

\* (Stated for the numbers, so that it can be used of primed variables.)
LEMMA AtMostNext ==
  ASSUME NEW x \in Int, NEW y \in Int, x <= y
  PROVE  x <= y + 1
OBVIOUS

\* A session that is over leaves nothing that the next one builds on.
LEMMA HangUpKeeps ==
  ASSUME AgentInv, NEW where \in {"off", "down"}, HangUpTo(where),
         objects' = objects, moves' \in 0 .. MaxMoves, Central', session' <= moves'
  PROVE  AgentInv'
<1>1. at' = where /\ read' = NothingRead /\ delivered' = NoSnapshot /\ lastSeq' = 0
  BY DEF HangUpTo
<1>3. AgentTypeOK'
  BY <1>1, EmptyReading DEF AgentInv, AgentTypeOK, Central
<1>4. Progress' /\ StagesWhatIsRead' /\ HoldsWhatIsSent'
  BY <1>1 DEF Progress, StagesWhatIsRead, HoldsWhatIsSent
<1>5. Numbered'
  BY <1>1 DEF Central, Numbered
<1>6. SessionsPaidFor'
  <2>1. session' \in Int /\ moves' \in Int
    BY AgentAssumption DEF Central
  <2>2. session' <= moves' + 1
    BY <2>1, AtMostNext
  <2> QED
    BY <2>2 DEF SessionsPaidFor
<1> QED
  BY <1>3, <1>4, <1>5, <1>6 DEF AgentInv

-----------------------------------------------------------------------------
(* Every step keeps the invariant *)

\* What the agent itself does without the registry.
LEMMA LocalStep ==
  ASSUME AgentInv, UNCHANGED <<centralVars, lastSeq, delivered>>,
         objects' \in [AgentKey -> Copy], read' \in Reading, moves' \in 0 .. MaxMoves,
         moves <= moves',
         at' \in {"off", "down", "reading", "sending", "idle"},
         at' \in {"off", "down"} <=> at \in {"off", "down"},
         Progress',
         at' = "sending" => at = "sending" /\ read' = read,
         at' = "reading" /\ delivered = NoSnapshot => at = "reading"
  PROVE  AgentInv'
<1>1. AgentTypeOK'
  BY DEF AgentInv, AgentTypeOK, centralVars
<1>2. Numbered'
  BY DEF AgentInv, Numbered, Progress, centralVars
<1>3. StagesWhatIsRead'
  BY DEF AgentInv, StagesWhatIsRead, Indexed, centralVars
<1>4. HoldsWhatIsSent'
  BY DEF AgentInv, HoldsWhatIsSent, Matches, centralVars
<1>5. SessionsPaidFor'
  <2>1. Away' <=> Away
    BY DEF Away, Matches, centralVars
  <2>2. session' = session /\ session \in Nat /\ moves \in Int /\ moves' \in Int
    BY AgentAssumption DEF AgentInv, AgentTypeOK, centralVars
  <2>3. session <= moves + 1 /\ (Away => session <= moves)
    BY DEF AgentInv, SessionsPaidFor
  <2>4. /\ session <= moves => session <= moves'
        /\ session <= moves + 1 => session <= moves' + 1
    <3> DEFINE later == moves'
    <3>1. session \in Int /\ moves \in Int /\ later \in Int /\ moves <= later
      BY <2>2
    <3> HIDE DEF later
    <3>2. /\ session <= moves => session <= later
          /\ session <= moves + 1 => session <= later + 1
      BY <3>1
    <3> QED
      BY <3>2 DEF later
  <2> QED
    BY <2>1, <2>2, <2>3, <2>4 DEF SessionsPaidFor
<1> QED
  BY <1>1, <1>2, <1>3, <1>4, <1>5 DEF AgentInv

\* The steps that change only what the agent knows.
LEMMA AgentAlone ==
  ASSUME AgentInv,
         \/ StartAgent \/ ReadKind \/ Settled \/ TakeToken \/ Notify
         \/ \E k \in AgentKey, v \in AgentValue \cup {"gone"} : ObjectChange(k, v)
         \/ UNCHANGED agentVars
  PROVE  AgentInv'
<1>0. /\ AgentTypeOK /\ Progress
      /\ moves \in 0 .. MaxMoves /\ moves \in Int /\ MaxMoves \in Nat
  BY AgentAssumption DEF AgentInv, AgentTypeOK
<1>1. CASE StartAgent
  <2>1. Progress'
    BY <1>0, <1>1 DEF StartAgent, Progress
  <2> QED
    BY <1>0, <1>1, <2>1, LocalStep DEF StartAgent, localVars, AgentTypeOK
<1>2. CASE ReadKind
  <2> DEFINE k == ReadOrder[Cardinality(DOMAIN read) + 1]
  <2>1. PICK K \in SUBSET AgentKey : read \in [K -> Copy]
    BY <1>0 DEF AgentTypeOK, Reading
  <2>2. DOMAIN read = K /\ K # AgentKey
    BY <1>2, <2>1 DEF ReadKind, Projected
  <2>3. Cardinality(K) \in Nat /\ Cardinality(AgentKey) \in Nat
        /\ Cardinality(K) < Cardinality(AgentKey)
    <3>1. IsFiniteSet(AgentKey) /\ K \subseteq AgentKey
      BY AgentAssumption
    <3>2. /\ IsFiniteSet(K) /\ Cardinality(K) <= Cardinality(AgentKey)
          /\ Cardinality(K) = Cardinality(AgentKey) => K = AgentKey
      BY <3>1, FS_Subset
    <3>3. Cardinality(K) \in Nat /\ Cardinality(AgentKey) \in Nat
      BY <3>1, <3>2, FS_CardinalityType
    <3> QED
      BY <2>2, <3>2, <3>3
  <2>4. k \in AgentKey
    BY <2>2, <2>3, AgentAssumption
  <2>5. read' = [x \in K \cup {k} |-> IF x = k THEN objects[k] ELSE read[x]]
    BY <1>2, <2>2 DEF ReadKind
  <2>6. read' \in [K \cup {k} -> Copy]
    <3> HIDE DEF k
    <3> QED
      BY <1>0, <2>1, <2>4, <2>5 DEF AgentTypeOK
  <2>7. read' \in Reading
    BY <2>4, <2>6 DEF Reading
  <2>8. Progress'
    BY <1>0, <1>2 DEF ReadKind, Progress
  <2> QED
    BY <1>0, <1>2, <2>7, <2>8, LocalStep DEF ReadKind, localVars, AgentTypeOK
<1>3. CASE Settled
  <2>1. Progress'
    BY <1>0, <1>3 DEF Settled, Updating, Progress
  <2>2. at = "reading" /\ at' = "idle" /\ read' = NothingRead
    BY <1>3 DEF Settled, Updating, Projected
  <2> QED
    BY <1>0, <1>3, <2>1, <2>2, LocalStep, EmptyReading DEF Settled, localVars, AgentTypeOK
<1>4. CASE TakeToken
  <2>1. Progress'
    BY <1>0, <1>4 DEF TakeToken, Progress
  <2>2. at = "idle" /\ at' = "reading" /\ delivered # NoSnapshot
    BY <1>0, <1>4 DEF TakeToken, Progress
  <2> QED
    BY <1>0, <1>4, <2>1, <2>2, LocalStep DEF TakeToken, AgentTypeOK
<1>5. CASE Notify
  <2>1. Progress'
    BY <1>0, <1>5 DEF Notify, sessionVars, Progress
  <2> QED
    BY <1>0, <1>5, <2>1, LocalStep DEF Notify, sessionVars, AgentTypeOK
<1>6. ASSUME NEW k \in AgentKey, NEW v \in AgentValue \cup {"gone"}, ObjectChange(k, v)
      PROVE  AgentInv'
  <2>1. Progress'
    BY <1>0, <1>6 DEF ObjectChange, sessionVars, Progress
  <2>2. objects' \in [AgentKey -> Copy]
    BY <1>0, <1>6 DEF ObjectChange, AgentTypeOK, Copy
  <2>3. moves' \in 0 .. MaxMoves /\ moves <= moves'
    BY <1>0, <1>6 DEF ObjectChange, Happens
  <2> QED
    BY <1>0, <1>6, <2>1, <2>2, <2>3, LocalStep DEF ObjectChange, sessionVars, AgentTypeOK
<1>7. CASE UNCHANGED agentVars
  <2>1. Progress'
    BY <1>0, <1>7 DEF agentVars, sessionVars, Progress
  <2> QED
    BY <1>0, <1>7, <2>1, LocalStep DEF agentVars, localVars, sessionVars, AgentTypeOK
<1> QED
  BY <1>1, <1>2, <1>3, <1>4, <1>5, <1>6, <1>7

\* A new session: its number was paid for by what ended the last.
LEMMA HelloStep == AgentInv /\ Hello => AgentInv'
<1> SUFFICES ASSUME AgentInv, Hello PROVE AgentInv'
  OBVIOUS
<1>0. /\ AgentTypeOK /\ Progress /\ Numbered /\ HelloFrame
      /\ at' = "reading"
      /\ UNCHANGED <<localVars, read, delivered, lastSeq, moves>>
      /\ moves \in Int /\ session \in Int
  BY AgentAssumption DEF AgentInv, AgentTypeOK, Hello
<1>1. Central' /\ session' <= moves + 1
  BY <1>0, FrameKeeps DEF AnyFrame
<1>2. AgentTypeOK'
  BY <1>0, <1>1 DEF AgentTypeOK, Central, localVars
<1>3. Progress' /\ HoldsWhatIsSent' /\ delivered' = NoSnapshot
  BY <1>0 DEF Progress, HoldsWhatIsSent, HelloFrame
<1>4. Numbered'
  <2>1. session' = session + 1 /\ installed' = installed /\ installed \in Nat
        /\ installed <= session
    BY <1>0 DEF HelloFrame, NextSession, AgentTypeOK, Numbered
  <2>2. installed < session + 1
    BY <1>0, <2>1
  <2>3. installed' < session' /\ installed' <= session'
    BY <1>1, <2>1, <2>2 DEF Central
  <2> QED
    BY <1>1, <2>3 DEF Central, Numbered
<1>5. StagesWhatIsRead'
  BY <1>0 DEF StagesWhatIsRead
<1>6. SessionsPaidFor'
  <2>1. ~Away'
    BY <1>0, <1>3 DEF Away, HelloFrame
  <2> QED
    BY <1>0, <1>1, <2>1 DEF SessionsPaidFor
<1> QED
  BY <1>2, <1>3, <1>4, <1>5, <1>6 DEF AgentInv

\* The snapshot begins empty and receives what was read.
LEMMA StagingStep ==
  ASSUME AgentInv, Begin \/ \E k \in AgentKey : Chunk(k)
  PROVE  AgentInv'
<1>0. /\ AgentTypeOK /\ Progress /\ Numbered /\ serving /\ delivered = NoSnapshot
      /\ at' = "sending"
      /\ UNCHANGED <<objects, read, delivered, lastSeq, moves>>
      /\ UNCHANGED <<session, serving, held, installed>>
      /\ at \in {"reading", "sending"}
  BY DEF AgentInv, Begin, BeginFrame, Projected, Chunk, ChunkFrame, localVars, sessionVars,
         Progress
<1>1. Central'
  BY FrameKeeps DEF AnyFrame, Begin, Chunk
<1>2. AgentTypeOK'
  BY <1>0, <1>1 DEF AgentTypeOK, Central
<1>3. Progress' /\ HoldsWhatIsSent' /\ Numbered'
  BY <1>0 DEF Progress, HoldsWhatIsSent, Numbered
<1>4. StagesWhatIsRead'
  <2>1. Indexed' = Indexed
    BY <1>0 DEF Indexed
  <2>2. CASE Begin
    <3>1. staged' = Reg!NoResources
      BY <2>2 DEF Begin, BeginFrame
    <3>2. staged' # NoSnapshot /\ DOMAIN staged' = {}
      BY <3>1, EmptyMap, SnapshotAssumption
    <3> QED
      BY <3>2 DEF StagesWhatIsRead
  <2>3. ASSUME NEW k \in AgentKey, Chunk(k) PROVE StagesWhatIsRead'
    <3>1. at = "sending" /\ k \in DOMAIN Indexed /\ staged' = Reg!Put(staged, k, Indexed[k])
      BY <2>3 DEF Chunk, ChunkFrame
    <3>2. /\ staged \in Reg!Resources
          /\ \A x \in DOMAIN staged : x \in DOMAIN Indexed /\ staged[x] = Indexed[x]
      BY <1>0, <3>1 DEF AgentInv, StagesWhatIsRead, AgentTypeOK
    <3>3. Indexed[k] \in AgentValue
      BY <1>0, <3>1, IndexedType
    <3>4. staged' # NoSnapshot
      BY <3>1, <3>2, <3>3, PutKeeps, SnapshotAssumption
    <3>5. /\ DOMAIN staged' = DOMAIN staged \cup {k}
          /\ \A x \in DOMAIN staged' :
               staged'[x] = IF x = k THEN Indexed[k] ELSE staged[x]
      BY <3>1 DEF Reg!Put
    <3> QED
      BY <2>1, <3>1, <3>2, <3>4, <3>5 DEF StagesWhatIsRead
  <2> QED
    BY <2>2, <2>3
<1>5. SessionsPaidFor'
  <2>1. ~Away'
    BY <1>0 DEF Away
  <2> QED
    BY <1>0, <2>1 DEF AgentInv, SessionsPaidFor
<1> QED
  BY <1>2, <1>3, <1>4, <1>5 DEF AgentInv

\* With the commit the registry holds what the agent has sent.
LEMMA CommitStep == AgentInv /\ CommitSnapshot => AgentInv'
<1> SUFFICES ASSUME AgentInv, CommitSnapshot PROVE AgentInv'
  OBVIOUS
<1>0. /\ AgentTypeOK /\ Progress /\ Numbered /\ CommitFrame
      /\ at' = "idle" /\ delivered' = Indexed /\ read' = NothingRead
      /\ UNCHANGED <<objects, lastSeq, moves, session, serving>>
      /\ installed' = session
      /\ lastSeq = 0 /\ serving
  BY DEF AgentInv, CommitSnapshot, CommitFrame, localVars, Progress
<1>1. Central' /\ session' <= moves + 1
  BY <1>0, FrameKeeps DEF AnyFrame
<1>2. /\ Indexed \in Reg!Resources
      /\ held' = [epoch |-> session, seq |-> 0, res |-> Indexed]
      /\ held' \in Reg!Version
  BY <1>0, CommitInstalls
<1>3. AgentTypeOK'
  BY <1>0, <1>1, <1>2, EmptyReading DEF AgentTypeOK, Central
<1>4. delivered' # NoSnapshot /\ held' # NoSnapshot
  BY <1>0, <1>2, SnapshotAssumption
<1>5. Progress' /\ StagesWhatIsRead'
  BY <1>0, <1>4 DEF Progress, StagesWhatIsRead
<1>6. Matches' /\ held'.res = delivered'
  BY <1>0, <1>2, <1>4 DEF Matches
<1>7. HoldsWhatIsSent'
  BY <1>6 DEF HoldsWhatIsSent
<1>8. Numbered'
  BY <1>0, <1>1 DEF Numbered, Central
<1>9. SessionsPaidFor'
  <2>1. ~Away'
    BY <1>0, <1>6 DEF Away
  <2> QED
    BY <1>0, <1>1, <2>1 DEF SessionsPaidFor
<1> QED
  BY <1>3, <1>5, <1>7, <1>8, <1>9 DEF AgentInv

\* A delta changes both alike.
LEMMA DeltaStep ==
  ASSUME AgentInv, NEW k \in AgentKey, SendDelta(k)
  PROVE  AgentInv'
<1> DEFINE next == IF k \in Removed THEN Reg!Drop(delivered, k)
                   ELSE Reg!Put(delivered, k, Indexed[k])
<1>0. /\ AgentTypeOK /\ Progress /\ Numbered /\ ChangeFrame(k)
      /\ delivered # NoSnapshot /\ at = "reading"
      /\ lastSeq' = lastSeq + 1 /\ delivered' = next
      /\ UNCHANGED <<objects, at, read, moves, session, serving, staged, installed>>
      /\ serving
  BY DEF AgentInv, SendDelta, ChangeFrame, Updating, Projected, localVars
<1>1. Central' /\ session' <= moves + 1
  BY <1>0, FrameKeeps DEF AnyFrame
<1>2. /\ held' = [epoch |-> session, seq |-> lastSeq + 1, res |-> next]
      /\ held' \in Reg!Version
      /\ held'.res \in Reg!Resources
  BY <1>0, ChangeMutates
<1> HIDE DEF next
<1>3. held'.res = next /\ next \in Reg!Resources
  BY <1>2
<1>4. delivered' # NoSnapshot /\ held' # NoSnapshot
  BY <1>0, <1>2, <1>3, SnapshotAssumption
<1>5. AgentTypeOK'
  BY <1>0, <1>1, <1>3 DEF AgentTypeOK, Central
<1>6. Progress' /\ StagesWhatIsRead' /\ Numbered'
  BY <1>0, <1>4 DEF Progress, StagesWhatIsRead, Numbered
<1>7. Matches'
  BY <1>0, <1>2, <1>4 DEF Matches
<1>8. HoldsWhatIsSent'
  BY <1>0, <1>3 DEF HoldsWhatIsSent
<1>9. SessionsPaidFor'
  <2>1. ~Away'
    BY <1>0, <1>7 DEF Away
  <2> QED
    BY <1>0, <1>1, <2>1 DEF SessionsPaidFor
<1> QED
  BY <1>5, <1>6, <1>8, <1>9 DEF AgentInv

\* A heartbeat and the end of an abandoned stream change no version.
LEMMA QuietStep ==
  ASSUME AgentInv, SendHeartbeat \/ Disconnect
  PROVE  AgentInv'
<1>0. /\ AgentTypeOK /\ Progress /\ Numbered
      /\ UNCHANGED <<objects, sessionVars, session, held, installed, moves>>
  BY DEF AgentInv, SendHeartbeat, BeatFrame, Reg!Beat, Disconnect, localVars
<1>1. /\ staged' \in {staged, NoSnapshot}
      /\ serving' \in {serving, FALSE}
      /\ at \in {"off", "down"} \/ UNCHANGED <<serving, staged>>
  BY DEF SendHeartbeat, BeatFrame, Disconnect
<1>2. AgentTypeOK'
  BY <1>0, <1>1 DEF AgentTypeOK, sessionVars
<1>3. Progress'
  BY <1>0 DEF Progress, sessionVars
<1>4. Numbered'
  <2>1. CASE UNCHANGED serving
    BY <1>0, <2>1 DEF Numbered, sessionVars
  <2>2. CASE ~serving'
    BY <1>0, <2>2 DEF Numbered
  <2> QED
    BY <1>1, <2>1, <2>2
<1>5. StagesWhatIsRead'
  BY <1>0, <1>1 DEF AgentInv, StagesWhatIsRead, Indexed, sessionVars
<1>6. HoldsWhatIsSent'
  BY <1>0, <1>1 DEF AgentInv, HoldsWhatIsSent, Matches, sessionVars, Progress
<1>7. SessionsPaidFor'
  BY <1>0, <1>1 DEF AgentInv, SessionsPaidFor, Away, Matches, sessionVars
<1> QED
  BY <1>2, <1>3, <1>5, <1>6, <1>7, <1>4 DEF AgentInv

\* The agent gives up its session, or is restarted: no more sessions than
\* changes and failures.
LEMMA LeaveStep ==
  ASSUME AgentInv, Nacked \/ LoseRegistry \/ LoseAnswer \/ RestartAgent
  PROVE  AgentInv'
<1>0. /\ Central /\ session <= moves + 1 /\ moves \in 0 .. MaxMoves /\ MaxMoves \in Nat
      /\ objects' = objects
  BY CentralNow, AgentAssumption
     DEF AgentInv, AgentTypeOK, Nacked, LoseRegistry, LoseAnswer, RestartAgent, localVars
<1>1. CASE Nacked \/ LoseRegistry
  <2>1. Away
    BY <1>1 DEF Nacked, LoseRegistry, Away, AgentInv, Progress, Updating
  <2>2. session <= moves /\ UNCHANGED <<centralVars, moves>> /\ HangUpTo("down")
    BY <1>1, <2>1 DEF AgentInv, SessionsPaidFor, Nacked, LoseRegistry
  <2>3. Central' /\ session' <= moves' /\ moves' \in 0 .. MaxMoves
    BY <1>0, <2>2 DEF Central, centralVars
  <2> QED
    BY <1>0, <2>2, <2>3, HangUpKeeps
<1>2. CASE LoseAnswer \/ RestartAgent
  <2>1. /\ AnyFrame \/ UNCHANGED centralVars
        /\ HangUpTo("down") \/ HangUpTo("off")
        /\ moves < MaxMoves /\ moves' = moves + 1
    BY <1>2 DEF LoseAnswer, RestartAgent, Happens
  <2>2. Central' /\ session' <= moves'
    BY <2>1, FrameKeeps
  <2>3. moves' \in 0 .. MaxMoves
    BY <1>0, <2>1
  <2> QED
    BY <1>0, <2>1, <2>2, <2>3, HangUpKeeps
<1> QED
  BY <1>1, <1>2

\* The registry loses its state.
LEMMA RegistryLossStep ==
  ASSUME AgentInv, ExpireHeld \/ RestartCentral
  PROVE  AgentInv'
<1>0. /\ AgentTypeOK /\ Progress /\ Numbered
      /\ moves < MaxMoves /\ moves' = moves + 1
      /\ moves \in 0 .. MaxMoves /\ MaxMoves \in Nat
      /\ held' = NoSnapshot
      /\ UNCHANGED <<localVars, sessionVars>>
  BY AgentAssumption
     DEF AgentInv, AgentTypeOK, ExpireHeld, RestartCentral, Happens, Reg!Expire, Reg!Forget
<1>1. moves' \in 0 .. MaxMoves
  BY <1>0
<1>2. \/ UNCHANGED <<session, serving, staged, installed>>
      \/ session' = 0 /\ serving' = FALSE /\ staged' = NoSnapshot /\ installed' = 0
  BY DEF ExpireHeld, RestartCentral
<1>3. AgentTypeOK'
  <2>1. CASE UNCHANGED <<session, serving, staged, installed>>
    BY <1>0, <1>1, <2>1 DEF AgentTypeOK, localVars, sessionVars
  <2>2. CASE session' = 0 /\ serving' = FALSE /\ staged' = NoSnapshot /\ installed' = 0
    BY <1>0, <1>1, <2>2 DEF AgentTypeOK, localVars, sessionVars
  <2> QED
    BY <1>2, <2>1, <2>2
<1>4. Progress'
  BY <1>0 DEF Progress, sessionVars
<1>5. Numbered'
  BY <1>0, <1>2 DEF Numbered, sessionVars
<1>6. StagesWhatIsRead'
  BY <1>0, <1>2 DEF AgentInv, StagesWhatIsRead, Indexed, sessionVars
<1>7. HoldsWhatIsSent'
  BY <1>0 DEF HoldsWhatIsSent, Matches
<1>8. SessionsPaidFor'
  <2>1. session \in Nat /\ moves \in Nat /\ session <= moves + 1
    BY <1>0 DEF AgentInv, SessionsPaidFor, AgentTypeOK
  <2>2. 0 <= moves + 1
    BY <2>1
  <2>3. session' <= moves'
    BY <1>0, <1>2, <2>1, <2>2
  <2>4. session' \in Int /\ moves' \in Int
    BY <1>0, <1>2, <2>1
  <2>5. session' <= moves' + 1
    BY <2>3, <2>4, AtMostNext
  <2> QED
    BY <2>3, <2>5 DEF SessionsPaidFor
<1> QED
  BY <1>3, <1>4, <1>5, <1>6, <1>7, <1>8 DEF AgentInv

LEMMA AgentInvStep == AgentInv /\ [AgentNext]_agentVars => AgentInv'
BY AgentAlone, HelloStep, StagingStep, CommitStep, DeltaStep, QuietStep, LeaveStep,
   RegistryLossStep
   DEF AgentNext, Work, Disturb

LEMMA AgentInvStart == AgentInit => AgentInv
<1> SUFFICES ASSUME AgentInit PROVE AgentInv
  OBVIOUS
<1>1. objects \in [AgentKey -> Copy]
  BY DEF AgentInit, Copy
<1>2. 0 \in 0 .. MaxMoves
  BY AgentAssumption
<1>3. moves \in 0 .. MaxMoves
  BY <1>2 DEF AgentInit
<1>4. AgentTypeOK
  BY <1>1, <1>3, EmptyReading DEF AgentInit, AgentTypeOK
<1>5. /\ Progress /\ Numbered /\ StagesWhatIsRead /\ HoldsWhatIsSent
      /\ SessionsPaidFor
  BY DEF AgentInit, Progress, Numbered, StagesWhatIsRead, HoldsWhatIsSent,
         SessionsPaidFor
<1> QED
  BY <1>4, <1>5 DEF AgentInv

-----------------------------------------------------------------------------
(* Theorems *)

\* Between the agent and the registry the invariant holds: in particular, when
\* the versions agree the registry holds exactly what the agent has sent, and
\* no session is opened that no change or failure accounts for.
THEOREM AgentAndRegistryAgree == AgentSpec => []AgentInv
BY AgentInvStart, AgentInvStep, PTL DEF AgentSpec

\* What a step that changes the registry's version of the cluster may do.
LEMMA FeedStep ==
  ASSUME AgentInv, AgentNext
  PROVE  \/ Reg!Fed(installed, installed')
         \/ Reg!Forget /\ installed' = 0
         \/ UNCHANGED <<held, told, installed>>
<1> DEFINE Goal == \/ Reg!Fed(installed, installed')
                   \/ Reg!Forget /\ installed' = 0
                   \/ UNCHANGED <<held, told, installed>>
<1>1. CASE CommitFrame
  <2>1. /\ Reg!Install(session, 0, staged) /\ installed' = session
        /\ staged = Indexed /\ Indexed \in Reg!Resources
        /\ session \in Reg!Epoch /\ session > installed
    BY <1>1, CommitInstalls DEF CommitFrame, AgentInv, AgentTypeOK
  <2> QED
    BY <2>1 DEF Reg!Fed
<1>2. ASSUME NEW k \in AgentKey, ChangeFrame(k) PROVE Goal
  <2> DEFINE v == IF k \in Removed THEN delivered[k] ELSE Indexed[k]
  <2>1. /\ Reg!Mutate(k, v, k \in Removed) /\ installed' = installed
        /\ held # NoSnapshot /\ k \in Unsent /\ delivered # NoSnapshot
    BY <1>2 DEF ChangeFrame, Matches, Updating
  <2>2. AgentTypeOK /\ held.res = delivered
    BY <1>2, ChangeMutates DEF AgentInv
  <2>3. v \in AgentValue /\ (k \in Removed => k \in DOMAIN held.res)
    BY <2>1, <2>2, UnsentType
  <2>4. (k \in Removed) \in BOOLEAN
    OBVIOUS
  <2> HIDE DEF v
  <2>5. Reg!Fed(installed, installed')
    BY <2>1, <2>3, <2>4 DEF Reg!Fed
  <2> QED
    BY <2>5
<1>3. CASE BeatFrame
  BY <1>3 DEF BeatFrame, Reg!Fed
<1>4. CASE HelloFrame \/ BeginFrame \/ \E k \in AgentKey : ChunkFrame(k)
  BY <1>4 DEF HelloFrame, BeginFrame, ChunkFrame
<1>5. CASE LoseAnswer
  BY <1>1, <1>2, <1>3, <1>4, <1>5 DEF LoseAnswer, AnyFrame, centralVars
<1>6. CASE Work
  BY <1>1, <1>2, <1>4, <1>6 DEF Work, StartAgent, Hello, ReadKind, Begin, Chunk, SendDelta,
     CommitSnapshot, Settled, Nacked, LoseRegistry, centralVars
<1>7. CASE Notify \/ TakeToken \/ SendHeartbeat \/ Disconnect
  BY <1>3, <1>7 DEF Notify, TakeToken, SendHeartbeat, Disconnect, centralVars
<1>8. CASE Disturb
  BY <1>5, <1>8 DEF Disturb, ObjectChange, ExpireHeld, RestartCentral, RestartAgent,
     Reg!Fed, centralVars
<1> QED
  BY <1>6, <1>7, <1>8 DEF AgentNext

\* What the feed takes for granted of its source is so, for every agent and
\* registry: no epoch is committed twice in one life of the registry, a session
\* starts at sequence number 0, and only what was sent is deleted.
THEOREM AgentFeedsAsAssumed == AgentSpec => FeedsAsAssumed
<1>1. AgentInv /\ [AgentNext]_agentVars =>
        [Reg!Fed(installed, installed') \/ (Reg!Forget /\ installed' = 0)]_<<held, told, installed>>
  BY FeedStep DEF agentVars, centralVars
<1> QED
  BY <1>1, AgentAndRegistryAgree, PTL DEF AgentSpec, FeedsAsAssumed
-----------------------------------------------------------------------------
(* The screens: nothing is shown beyond the roles *)

\* A section of the cluster w tells of the namespaces that f opens, and counts
\* no pod of another.
OpenSpaces(w, f) == {ns \in w.namespaces : SpaceAllowed(f, ns)}
OpenPods(w, f) == {p \in w.pods : SpaceAllowed(f, p.ns)}
Within(w, f, name, value) ==
  /\ Rows(name, value) \subseteq OpenSpaces(w, f)
  /\ name = "pods" => /\ value.counts.total \in Nat
                      /\ value.counts.total <= Cardinality(OpenPods(w, f))

LEMMA OneOfIs ==
  ASSUME NEW found, found # {} \/ OneOf(found) # NotFound
  PROVE  OneOf(found) \in found
BY DEF OneOf

\* Which rows have a namespace.
LEMMA RowsAre ==
  ASSUME NEW v
  PROVE  /\ \A name \in {"unhealthy", "events", "list", "own"} : Rows(name, v) = {r.ns : r \in v}
         /\ Rows("topology", v) = {r.ns : r \in v.list}
         /\ Rows("namespaces", v) = {r.name : r \in v}
         /\ Rows("summary", v) = {v.name}
         /\ \A name \in {"workload", "pod"} : Rows(name, v) = {v.ns}
         /\ \A name \in {"nodes", "pods", "workloads", "owners"} : Rows(name, v) = {}
BY DEF Rows

\* The objects of a cluster are of its namespaces.
LEMMA ObjectSpaces ==
  ASSUME NEW w \in World
  PROVE  /\ \A x \in w.pods \cup w.workloads \cup w.events : x.ns \in w.namespaces
         /\ Nothing \notin w.namespaces /\ IsFiniteSet(w.pods)
BY WorldAssumption

\* The rows of the worst pods and workloads are of the namespaces of these.
LEMMA UnhealthySpaces ==
  ASSUME NEW Spaces, NEW state, NEW summaries,
         \A p \in DOMAIN state : p.ns \in Spaces, \A x \in summaries : x.ns \in Spaces,
         NEW r \in PodRows(state) \cup WorkloadRows(summaries)
  PROVE  r.ns \in Spaces
<1>1. CASE r \in PodRows(state)
  <2>1. PICK p \in DOMAIN state :
          r = UnhealthyRow("Pod", p.uid, p.ns, state[p].severity, state[p].restarts, p.created)
    BY <1>1 DEF PodRows
  <2>2. r.ns = p.ns
    BY <2>1 DEF UnhealthyRow
  <2> QED
    BY <2>2
<1>2. CASE r \in WorkloadRows(summaries)
  <2>1. PICK x \in summaries :
          r = UnhealthyRow("Workload", x.uid, x.ns, x.severity, x.restarts, x.created)
    BY <1>2 DEF WorkloadRows
  <2>2. r.ns = x.ns
    BY <2>1 DEF UnhealthyRow
  <2> QED
    BY <2>2
<1> QED
  BY <1>1, <1>2

-----------------------------------------------------------------------------
(* What is read of the cache *)

\* The workloads of a scope, with their own uids.
LEMMA WorkloadsAre ==
  ASSUME NEW w \in World, NEW f, NEW now, NEW x \in Workloads(w, f, now)
  PROVE  /\ x.ns \in OpenSpaces(w, f)
         /\ \E y \in w.workloads : x.uid = y.uid /\ x.ns = y.ns
<1>1. PICK y \in w.workloads : SpaceAllowed(f, y.ns) /\ x = WorkloadSummary(w, y, now)
  BY DEF Workloads
<1>2. x.uid = y.uid /\ x.ns = y.ns
  BY <1>1 DEF WorkloadSummary, WorkloadRow
<1> QED
  BY <1>1, <1>2, ObjectSpaces DEF OpenSpaces

\* The rows of the namespaces of a scope.
LEMMA NamespaceRowsAre ==
  ASSUME NEW w \in World, NEW f, NEW now, NEW r \in NamespaceSummaries(w, f, now)
  PROVE  r.name \in OpenSpaces(w, f)
<1> DEFINE spaces == w.namespaces \cup {p.ns : p \in w.pods} \cup {x.ns : x \in w.workloads}
<1>1. PICK ns \in spaces :
        /\ SpaceAllowed(f, ns)
        /\ r = NamespaceRow(ns, PodStates({p \in w.pods : p.ns = ns}, now),
                            Workloads(w, Only({ns}), now))
  BY DEF NamespaceSummaries
<1>2. r.name = ns
  BY <1>1 DEF NamespaceRow
<1>3. ns \in w.namespaces
  BY ObjectSpaces
<1> QED
  BY <1>1, <1>2, <1>3 DEF OpenSpaces

\* The pods of a scope, with their states.
LEMMA ScopedPodsAre ==
  ASSUME NEW w \in World, NEW f, NEW now
  PROVE  /\ DOMAIN PodStates(ScopedPods(w, f), now) = OpenPods(w, f)
         /\ \A p \in OpenPods(w, f) : p.ns \in OpenSpaces(w, f)
BY ObjectSpaces DEF PodStates, ScopedPods, OpenPods, OpenSpaces

\* The pods of a workload are of its namespace.
LEMMA OwnPodsAreNear ==
  ASSUME NEW w \in World, NEW y \in w.workloads, NEW kind,
         NEW p \in PodsOfWorkload(w, kind, y.uid)
  PROVE  p.ns = y.ns
<1>1. OwnersAreNear(w)
  BY WorldAssumption
<1>2. ASSUME NEW x \in w.pods \cup w.sets, NEW z \in w.workloads \cup w.sets, Owns(z.uid, x)
      PROVE  x.ns = z.ns
  BY <1>1, <1>2 DEF OwnersAreNear, Owns
<1>3. CASE kind # "Deployment"
  BY <1>2, <1>3 DEF PodsOfWorkload, PodsByOwner
<1>4. CASE kind = "Deployment"
  <2>1. PICK r \in w.sets : Owns(y.uid, r) /\ p \in PodsByOwner(w, r.uid)
    BY <1>4 DEF PodsOfWorkload
  <2> QED
    BY <1>2, <2>1 DEF PodsByOwner
<1> QED
  BY <1>3, <1>4

\* The sections of a screen.
LEMMA SectionsAre ==
  ASSUME NEW screen \in CentralScreen \cup {"nodes"}, NEW name \in SectionNames(screen)
  PROVE  /\ name \in {"nodes", "pods", "workloads", "unhealthy", "events", "namespaces", "summary",
                      "list", "topology", "workload", "own", "pod", "owners"}
         /\ name \in {"own", "workload"} => screen = "workload"
         /\ name = "pod" => screen = "pod"
         /\ name = "owners" => screen \in {"workload", "pod"}
BY DEF SectionNames, FieldsOf, CentralScreen

\* What a screen of one workload or of one pod is about.
LEMMA SubjectIs ==
  ASSUME NEW w \in World, NEW q, NEW now, q.screen \in {"workload", "pod"},
         AskedFor(q, w, now) # NotFound
  PROVE  /\ AskedFor(q, w, now).ns = q.ns /\ q.ns \in w.namespaces /\ q.ns # Nothing
         /\ \E y \in w.workloads \cup w.pods :
              /\ y.uid = AskedFor(q, w, now).uid /\ y.ns = q.ns
              /\ q.screen = "workload" => y \in w.workloads
<1> DEFINE subject == AskedFor(q, w, now)
<1>1. CASE q.screen = "workload"
  <2>1. subject = Workload(w, q.ns, q.kind, q.name, now)
    BY <1>1 DEF AskedFor
  <2>2. subject \in Workloads(w, Only({q.ns}), now)
    BY <2>1, OneOfIs DEF Workload
  <2>3. PICK y \in w.workloads : subject.uid = y.uid /\ subject.ns = y.ns
    BY <2>2, WorkloadsAre
  <2>4. subject.ns \in OpenSpaces(w, Only({q.ns}))
    BY <2>2, WorkloadsAre
  <2>5. subject.ns = q.ns /\ q.ns \in w.namespaces
    BY <2>4 DEF OpenSpaces, SpaceAllowed, Only
  <2> QED
    BY <2>3, <2>5, ObjectSpaces
<1>2. CASE q.screen = "pod"
  <2>1. subject = Pod(w, q.ns, q.name, q.uid)
    BY <1>2 DEF AskedFor
  <2>2. subject \in w.pods /\ subject.ns = q.ns
    BY <2>1, OneOfIs DEF Pod
  <2> QED
    BY <1>2, <2>2, ObjectSpaces
<1> QED
  BY <1>1, <1>2

\* What a handler reads of the cache itself is within the filter it reads with.
LEMMA DirectWithin ==
  ASSUME NEW w \in World, NEW q, NEW f, NEW from, NEW now,
         q.screen \in CentralScreen \cup {"nodes"},
         q.ns = Nothing \/ SpaceAllowed(f, q.ns),
         NEW name \in SectionNames(q.screen), NEW v \in DirectValues(q, w, f, from, now, name)
  PROVE  Within(w, f, name, v)
<1> DEFINE subject == AskedFor(q, w, now)
           state == PodStates(ScopedPods(w, f), now)
           rows == PodRows(state) \cup WorkloadRows(Workloads(w, f, now))
<1>n. /\ name \in {"nodes", "pods", "workloads", "unhealthy", "events", "namespaces", "summary",
                   "list", "topology", "workload", "own", "pod", "owners"}
      /\ name \in {"own", "workload"} => q.screen = "workload"
      /\ name = "pod" => q.screen = "pod"
  BY SectionsAre
<1>v. v \in DirectValuesOf(subject, q, w, f, from, now, name)
  BY DEF DirectValues
<1>s. \A r \in rows : r.ns \in OpenSpaces(w, f)
  <2>1. \A p \in DOMAIN state : p.ns \in OpenSpaces(w, f)
    BY ScopedPodsAre
  <2>2. \A x \in Workloads(w, f, now) : x.ns \in OpenSpaces(w, f)
    BY WorkloadsAre
  <2> HIDE DEF state
  <2> QED
    BY <2>1, <2>2, UnhealthySpaces
<1>u. \A worst \in Unhealthy(w, f, UnhealthyLimit, now) : \A r \in worst : r.ns \in OpenSpaces(w, f)
  <2>1. \A worst \in Unhealthy(w, f, UnhealthyLimit, now) : worst \subseteq rows
    BY DEF Unhealthy, WorstRows, FirstRows, kSubset
  <2> HIDE DEF rows
  <2> QED
    BY <1>s, <2>1
<1> HIDE DEF subject, state, rows
<1>1. CASE name \in {"nodes", "workloads", "owners"}
  BY <1>1, RowsAre DEF Within
<1>2. CASE name = "pods"
  <2>1. v = PodsInHealth(state)
    BY <1>2, <1>v DEF DirectValuesOf, PodHealth, state
  <2>2. v.counts.total = Cardinality(DOMAIN state)
    BY <2>1 DEF PodsInHealth, PodCounts
  <2>3. DOMAIN state = OpenPods(w, f)
    BY ScopedPodsAre DEF state
  <2>4. IsFiniteSet(OpenPods(w, f))
    BY ObjectSpaces, FS_Subset DEF OpenPods
  <2>5. Cardinality(OpenPods(w, f)) \in Nat
    BY <2>4, FS_CardinalityType
  <2>6. v.counts.total \in Nat /\ v.counts.total <= Cardinality(OpenPods(w, f))
    BY <2>2, <2>3, <2>5
  <2> QED
    BY <1>2, <2>6, RowsAre DEF Within
<1>3. CASE name = "unhealthy"
  <2>1. v \in Unhealthy(w, f, UnhealthyLimit, now)
    BY <1>3, <1>v DEF DirectValuesOf
  <2> QED
    BY <1>3, <1>u, <2>1, RowsAre DEF Within
<1>4. CASE name = "topology"
  <2>1. PICK worst \in Unhealthy(w, f, UnhealthyLimit, now) : v = TopologyPods(w, f, worst, now)
    BY <1>4, <1>v DEF DirectValuesOf
  <2>2. v.list \subseteq worst
    BY <2>1 DEF TopologyPods
  <2> QED
    BY <1>4, <1>u, <2>1, <2>2, RowsAre DEF Within
<1>5. CASE name = "namespaces"
  <2>1. v = NamespaceSummaries(w, f, now)
    BY <1>5, <1>v DEF DirectValuesOf
  <2>2. \A r \in v : r.name \in OpenSpaces(w, f)
    BY <2>1, NamespaceRowsAre
  <2> QED
    BY <1>5, <2>2, RowsAre DEF Within
<1>6. CASE name = "summary"
  <2>1. v = NamespaceSummary(w, q.ns, now) /\ v # NotFound
    BY <1>6, <1>v DEF DirectValuesOf
  <2>2. v \in NamespaceSummaries(w, Only({q.ns}), now)
    BY <2>1, OneOfIs DEF NamespaceSummary
  <2>3. v.name \in w.namespaces /\ v.name = q.ns
    BY <2>2, NamespaceRowsAre DEF OpenSpaces, SpaceAllowed, Only
  <2>4. v.name \in OpenSpaces(w, f)
    BY <2>3, ObjectSpaces DEF OpenSpaces
  <2> QED
    BY <1>6, <2>4, RowsAre DEF Within
<1>7. CASE name = "list"
  <2>1. v = Workloads(w, f, now)
    BY <1>7, <1>v DEF DirectValuesOf
  <2> QED
    BY <1>7, <2>1, WorkloadsAre, RowsAre DEF Within
<1>8. CASE name = "events"
  <2>0. subject # NotFound /\ v \in ValuesOf(subject, q, w, f, from, now, name)
    BY <1>8, <1>v DEF DirectValuesOf
  <2>1. CASE subject # Nothing
    <3>1. v = EventsForUID(w, subject.uid, from, EventLimit)
      BY <1>8, <2>0, <2>1 DEF ValuesOf
    <3>2. q.screen \in {"workload", "pod"}
      BY <2>1 DEF subject, AskedFor
    <3>3. PICK y \in w.workloads \cup w.pods : y.uid = subject.uid /\ y.ns = q.ns
      BY <2>0, <3>2, SubjectIs DEF subject
    <3>4. q.ns \in OpenSpaces(w, f)
      BY <2>0, <3>2, SubjectIs DEF subject, OpenSpaces
    <3>5. \A e \in v : e \in w.events /\ e.involved = subject.uid
      BY <3>1 DEF EventsForUID, LatestOf, LatestRows
    <3>6. \A e \in v : e.ns = q.ns
      BY <3>3, <3>5, WorldAssumption DEF OwnersAreNear
    <3> QED
      BY <1>8, <3>4, <3>6, RowsAre DEF Within
  <2>2. CASE subject = Nothing
    <3>1. v = Events(w, f, from, EventLimit)
      BY <1>8, <2>0, <2>2 DEF ValuesOf
    <3>2. \A e \in v : e \in w.events /\ SpaceAllowed(f, e.ns)
      BY <3>1 DEF Events, LatestOf, LatestRows
    <3>3. \A e \in v : e.ns \in OpenSpaces(w, f)
      BY <3>2, ObjectSpaces DEF OpenSpaces
    <3> QED
      BY <1>8, <3>3, RowsAre DEF Within
  <2> QED
    BY <2>1, <2>2
<1>9. CASE name \in {"workload", "own", "pod"}
  <2>0. subject # NotFound /\ v \in ValuesOf(subject, q, w, f, from, now, name)
    BY <1>9, <1>v DEF DirectValuesOf
  <2>1. subject # NotFound /\ q.screen \in {"workload", "pod"}
    BY <1>9, <1>n, <2>0
  <2>2. subject.ns = q.ns /\ q.ns \in OpenSpaces(w, f)
    BY <2>1, SubjectIs DEF subject, OpenSpaces
  <2>3. CASE name = "workload"
    <3>1. v = subject
      BY <2>0, <2>3 DEF ValuesOf
    <3> QED
      BY <2>2, <2>3, <3>1, RowsAre DEF Within
  <2>4. CASE name = "pod"
    <3>1. v = PodSummary(w, subject, now)
      BY <2>0, <2>4 DEF ValuesOf
    <3>2. v.ns = subject.ns
      BY <3>1 DEF PodSummary, PodSummaryOf
    <3> QED
      BY <2>2, <2>4, <3>2, RowsAre DEF Within
  <2>5. CASE name = "own"
    <3>1. v = PodsForWorkload(w, q.kind, subject.uid, now)
      BY <2>0, <2>5 DEF ValuesOf
    <3>2. PICK y \in w.workloads : y.uid = subject.uid /\ y.ns = q.ns
      BY <1>n, <2>1, <2>5, SubjectIs DEF subject
    <3>3. \A r \in v : r.ns = q.ns
      <4>1. ASSUME NEW r \in v PROVE r.ns = q.ns
        <5>1. PICK p \in PodsOfWorkload(w, q.kind, y.uid) :
                r = PodSummaryOf(p, subject.uid, NormalizePod(p, now))
          BY <3>1, <3>2 DEF PodsForWorkload
        <5>2. r.ns = p.ns
          BY <5>1 DEF PodSummaryOf
        <5> QED
          BY <3>2, <5>1, <5>2, OwnPodsAreNear
      <4> QED
        BY <4>1
    <3> QED
      BY <2>2, <2>5, <3>3, RowsAre DEF Within
  <2> QED
    BY <1>9, <2>3, <2>4, <2>5
<1> QED
  BY <1>n, <1>1, <1>2, <1>3, <1>4, <1>5, <1>6, <1>7, <1>8, <1>9
-----------------------------------------------------------------------------
(* What the registry answers *)

\* What the agent tells has the namespaces of the cluster, and no more pods.
LEMMA ProjectionAre ==
  ASSUME NEW w \in World, NEW f
  PROVE  /\ \A x \in SafeProjection(w).pods \cup SafeProjection(w).workloads
                        \cup SafeProjection(w).events : x.ns \in w.namespaces
         /\ IsFiniteSet(OpenPods(w, f)) /\ Cardinality(OpenPods(w, f)) \in Nat
         /\ \A pods \in SUBSET {p \in SafeProjection(w).pods : SpaceAllowed(f, p.ns)} :
              Cardinality(pods) \in Nat /\ Cardinality(pods) <= Cardinality(OpenPods(w, f))
<1> DEFINE all == OpenPods(w, f)
           copies == {p \in SafeProjection(w).pods : SpaceAllowed(f, p.ns)}
           safe == [p \in all |-> SafePod(p)]
<1>1. /\ SafeProjection(w).pods = {SafePod(p) : p \in w.pods}
      /\ SafeProjection(w).workloads = {SafeWorkload(x) : x \in w.workloads}
      /\ SafeProjection(w).events = w.events
  BY DEF SafeProjection
<1>2. \A p : SafePod(p).ns = p.ns
  BY DEF SafePod
<1>3. \A x : SafeWorkload(x).ns = x.ns
  BY DEF SafeWorkload
<1>4. \A x \in SafeProjection(w).pods \cup SafeProjection(w).workloads
                  \cup SafeProjection(w).events : x.ns \in w.namespaces
  BY <1>1, <1>2, <1>3, ObjectSpaces
<1>5. IsFiniteSet(all) /\ Cardinality(all) \in Nat
  BY ObjectSpaces, FS_Subset, FS_CardinalityType DEF OpenPods
<1>6. copies = {SafePod(p) : p \in all}
  BY <1>1, <1>2 DEF OpenPods
<1>7. safe \in Surjection(all, copies)
  BY <1>6 DEF Surjection
<1>8. IsFiniteSet(copies) /\ Cardinality(copies) <= Cardinality(all)
  <2> HIDE DEF all, copies, safe
  <2> QED
    BY <1>5, <1>7, FS_Surjection
<1>9. Cardinality(copies) \in Nat
  BY <1>8, FS_CardinalityType
<1>10. ASSUME NEW pods \in SUBSET copies
       PROVE  Cardinality(pods) \in Nat /\ Cardinality(pods) <= Cardinality(all)
  <2> HIDE DEF all, copies
  <2>1. IsFiniteSet(pods) /\ Cardinality(pods) <= Cardinality(copies)
    BY <1>8, FS_Subset
  <2>2. Cardinality(pods) \in Nat
    BY <2>1, FS_CardinalityType
  <2> QED
    BY <1>5, <1>8, <1>9, <2>1, <2>2
<1> QED
  BY <1>4, <1>5, <1>10

\* What the registry shows of its resources is within the filter of the request.
LEMMA CentralWithin ==
  ASSUME NEW w \in World, NEW req, NEW now, req.screen \in CentralScreen,
         NEW name \in FieldsOf(req.screen), NEW v,
         v = ProjectScreen(req, SafeProjection(w), now)[name],
         name \in {"summary", "workload", "pod"} => v # NotFound
  PROVE  Within(w, req.filter, name, v)
<1> DEFINE m == SafeProjection(w)
           f == req.filter
           Spaces == OpenSpaces(w, f)
           state == ProjectedStates(ProjectedPods(req, m), now)
           summaries == ProjectedWorkloads(req, m, DOMAIN state, now)
           rows == PodRows(state) \cup WorkloadRows(summaries)
           workload == OneOf({x \in m.workloads : /\ SpaceAllowed(req.filter, x.ns) /\ x.ns = req.ns
                                                  /\ x.kind = req.kind /\ x.name = req.name})
           pod == OneOf({p \in DOMAIN state : /\ p.ns = req.ns /\ p.name = req.name
                                              /\ req.uid \in {0, p.uid}})
<1>n. name \in {"nodes", "pods", "workloads", "unhealthy", "events", "namespaces", "summary",
                "list", "topology", "workload", "own", "pod", "owners"}
  BY DEF FieldsOf, CentralScreen
<1>v. v = ProjectedField(req, m, state, summaries, workload, pod, now, name)
  BY DEF ProjectScreen, ScreenData
<1>p. /\ DOMAIN state \subseteq {p \in m.pods : SpaceAllowed(f, p.ns)}
      /\ \A p \in DOMAIN state : p.ns \in Spaces
  <2>1. DOMAIN state = ProjectedPods(req, m)
    BY DEF ProjectedStates
  <2>2. ProjectedPods(req, m) \subseteq {p \in m.pods : SpaceAllowed(f, p.ns)}
    BY DEF ProjectedPods
  <2> QED
    BY <2>1, <2>2, ProjectionAre DEF OpenSpaces
<1>w. \A x \in summaries : x.ns \in Spaces
  <2>1. ASSUME NEW x \in summaries PROVE x.ns \in Spaces
    <3>1. PICK y \in m.workloads :
            /\ SpaceAllowed(f, y.ns)
            /\ x = ProjectedRow(y, ProjectedStates(PodsOf(m, DOMAIN state, y.uid), now))
      BY DEF ProjectedWorkloads
    <3>2. x.ns = y.ns
      BY <3>1 DEF ProjectedRow
    <3> QED
      BY <3>1, <3>2, ProjectionAre DEF OpenSpaces
  <2> QED
    BY <2>1
<1>q. pod # NotFound => pod \in DOMAIN state
  BY OneOfIs
<1> HIDE DEF state, summaries, workload, pod
<1>r. \A r \in rows : r.ns \in Spaces
  BY <1>p, <1>w, UnhealthySpaces
<1>u. \A r \in ProjectedUnhealthy(state, summaries) : r.ns \in Spaces
  BY <1>r DEF ProjectedUnhealthy, WorstFew
<1>s. \A r \in ProjectedNamespaces(state, summaries) : r.name \in Spaces
  <2>1. ASSUME NEW r \in ProjectedNamespaces(state, summaries) PROVE r.name \in Spaces
    <3>1. PICK x \in summaries \cup DOMAIN state :
            r = NamespaceRow(x.ns, [p \in {q \in DOMAIN state : q.ns = x.ns} |-> state[p]],
                             {y \in summaries : y.ns = x.ns})
      BY DEF ProjectedNamespaces
    <3>2. r.name = x.ns
      BY <3>1 DEF NamespaceRow
    <3> QED
      BY <1>p, <1>w, <3>1, <3>2
  <2> QED
    BY <2>1
<1>t. \A p : ProjectedPodSummary(m, p, now).ns = p.ns
  BY DEF ProjectedPodSummary, PodSummaryOf
<1> HIDE DEF m, Spaces, rows
<1>1. CASE name \in {"nodes", "workloads", "owners"}
  BY <1>1, RowsAre DEF Within
<1>2. CASE name = "pods"
  <2>1. v = PodsInHealth(state)
    BY <1>2, <1>v DEF ProjectedField
  <2>2. v.counts.total = Cardinality(DOMAIN state)
    BY <2>1 DEF PodsInHealth, PodCounts
  <2>3. /\ Cardinality(DOMAIN state) \in Nat
        /\ Cardinality(DOMAIN state) <= Cardinality(OpenPods(w, f))
    BY <1>p, ProjectionAre DEF m
  <2> QED
    BY <1>2, <2>2, <2>3, RowsAre DEF Within
<1>3. CASE name = "unhealthy"
  <2>1. v = ProjectedUnhealthy(state, summaries)
    BY <1>3, <1>v DEF ProjectedField
  <2> QED
    BY <1>3, <1>u, <2>1, RowsAre DEF Within, Spaces
<1>4. CASE name = "topology"
  <2>1. v = ProjectedTopology(state, summaries)
    BY <1>4, <1>v DEF ProjectedField
  <2>2. v.list \subseteq ProjectedUnhealthy(state, summaries)
    BY <2>1 DEF ProjectedTopology
  <2> QED
    BY <1>4, <1>u, <2>2, RowsAre DEF Within, Spaces
<1>5. CASE name = "namespaces"
  <2>1. v = ProjectedNamespaces(state, summaries)
    BY <1>5, <1>v DEF ProjectedField
  <2> QED
    BY <1>5, <1>s, <2>1, RowsAre DEF Within, Spaces
<1>6. CASE name = "summary"
  <2>1. v = OneOf({r \in ProjectedNamespaces(state, summaries) : r.name = req.ns})
    BY <1>6, <1>v DEF ProjectedField
  <2>2. v \in ProjectedNamespaces(state, summaries)
    BY <1>6, <2>1, OneOfIs
  <2> QED
    BY <1>6, <1>s, <2>2, RowsAre DEF Within, Spaces
<1>7. CASE name = "list"
  <2>1. v = summaries
    BY <1>7, <1>v DEF ProjectedField
  <2> QED
    BY <1>7, <1>w, <2>1, RowsAre DEF Within, Spaces
<1>8. CASE name = "events"
  <2>1. v = ProjectedEvents(req, m)
    BY <1>8, <1>v DEF ProjectedField
  <2>2. \A e \in v : e \in m.events /\ SpaceAllowed(f, e.ns)
    BY <2>1 DEF ProjectedEvents, LatestOf, LatestRows
  <2>3. \A e \in v : e.ns \in Spaces
    BY <2>2, ProjectionAre DEF m, Spaces, OpenSpaces
  <2> QED
    BY <1>8, <2>3, RowsAre DEF Within, Spaces
<1>9. CASE name = "workload"
  <2>1. v \in summaries
    BY <1>9, <1>v, OneOfIs DEF ProjectedField
  <2> QED
    BY <1>9, <1>w, <2>1, RowsAre DEF Within, Spaces
<1>10. CASE name = "own"
  <2>1. v = IF workload = NotFound THEN {}
            ELSE {ProjectedPodSummary(m, p, now) : p \in PodsOf(m, DOMAIN state, workload.uid)}
    BY <1>10, <1>v DEF ProjectedField
  <2>2. \A r \in v : r.ns \in Spaces
    BY <1>p, <1>t, <2>1 DEF PodsOf
  <2> QED
    BY <1>10, <2>2, RowsAre DEF Within, Spaces
<1>11. CASE name = "pod"
  <2>1. pod # NotFound /\ v = ProjectedPodSummary(m, pod, now)
    BY <1>11, <1>v DEF ProjectedField
  <2>2. v.ns \in Spaces
    BY <1>p, <1>q, <1>t, <2>1
  <2> QED
    BY <1>11, <2>2, RowsAre DEF Within, Spaces
<1> QED
  BY <1>n, <1>1, <1>2, <1>3, <1>4, <1>5, <1>6, <1>7, <1>8, <1>9, <1>10, <1>11

\* A section that the handler shows is the field that the registry answered.
LEMMA CentralShown ==
  ASSUME NEW a, NEW c, NEW f, NEW from, a.request.screen \in CentralScreen,
         NEW name \in FieldsOf(a.request.screen),
         SectionShown(CentralSection(a, c, f, from, name))
  PROVE  /\ CentralSection(a, c, f, from, name).value = a.provider.data[name]
         /\ name \in {"summary", "workload", "pod"} => a.provider.data[name] # NotFound
<1> DEFINE data == a.provider.data
           subject == IF a.request.screen \in {"workload", "pod"} THEN data[a.request.screen] ELSE Nothing
           section == CentralSection(a, c, f, from, name)
<1>n. /\ name \in {"nodes", "pods", "workloads", "unhealthy", "events", "namespaces", "summary",
                   "list", "topology", "workload", "own", "pod", "owners"}
      /\ name = "workload" => a.request.screen = "workload"
      /\ name = "pod" => a.request.screen = "pod"
  BY DEF FieldsOf, CentralScreen
<1>b. \A status \in {"empty", "degraded", "forbidden"} : ~SectionShown(Bare(status))
  BY DEF SectionShown, Bare
<1>k. \A p, x : KubeSection(p, x).value = x
  BY DEF KubeSection
<1>e. \A about, uid : SectionShown(RemoteEvents(a, about, uid, from)) =>
                        RemoteEvents(a, about, uid, from).value = data["events"]
  BY <1>b, <1>k DEF RemoteEvents
<1>1. CASE name \in {"nodes", "pods", "workloads", "unhealthy", "namespaces", "list", "topology"}
  <2>1. section \in {KubeSection(a.provider, data[name]), Bare("degraded")}
    BY <1>1 DEF CentralSection, Remote
  <2> QED
    BY <1>1, <1>b, <1>k, <2>1
<1>2. CASE name = "summary"
  <2>1. section = IF data["summary"] = NotFound THEN Bare("empty")
                  ELSE KubeSection(a.provider, data["summary"])
    BY <1>2 DEF CentralSection
  <2> QED
    BY <1>2, <1>b, <1>k, <2>1
<1>3. CASE name \in {"workload", "pod", "owners", "own"}
  <2>1. section = IF subject = NotFound THEN Bare("empty") ELSE KubeSection(a.provider, data[name])
    BY <1>3 DEF CentralSection
  <2> HIDE DEF section
  <2> QED
    BY <1>3, <1>n, <1>b, <1>k, <2>1 DEF section
<1>4. CASE name = "events"
  <2>1. section \in {Bare("empty"), Bare("degraded"), RemoteEvents(a, 0, 0, from),
                     RemoteEvents(a, IF a.request.uid = 0 THEN subject.uid ELSE a.request.uid,
                                  subject.uid, from)}
    BY <1>4 DEF CentralSection
  <2> QED
    BY <1>4, <1>b, <1>e, <2>1
<1> QED
  BY <1>n, <1>1, <1>2, <1>3, <1>4
-----------------------------------------------------------------------------
(* The invariant: what is held between two steps *)

\* Sections that a user of the scope c may see of the namespace, or of all.
Rightful(c, ns, w, sections) ==
  /\ w \in World /\ NamespaceFilter(c, ns) # NotFound
  /\ \A name \in DOMAIN sections : SectionShown(sections[name]) =>
       /\ Within(w, NamespaceFilter(c, ns), name, sections[name].value)
       /\ name = "nodes" => c.all

\* An answer that may be kept, and one that was given.
ScreenAnswer(q, s, w, t) == [code |-> 200, question |-> q, sections |-> s, of |-> w, at |-> t]
ReplyIsRightful ==
  ScreenAnswered => \E q \in Question : \E s, w, t :
    reply = ScreenAnswer(q, s, w, t) /\ Rightful(ScopeOf(q.roles), q.ns, w, s)
KeptIsRightful ==
  kept # Nothing => \E q \in Question : \E s, w, t :
    /\ kept = [key |-> ScreenKey(q), answer |-> ScreenAnswer(q, s, w, t)]
    /\ Rightful(ScopeOf(q.roles), q.ns, w, s)

MirrorIsSafe ==
  mirror # Nothing => \E w \in World : \E s :
    mirror = [resources |-> SafeProjection(w), stale |-> s, of |-> w]

\* A request between withProvider and its handler, with its answer.
ProjectedFor(req, provider) ==
  /\ req.screen \in CentralScreen
  /\ \E w \in World : \E s, t :
       provider = [data |-> ProjectScreen(req, SafeProjection(w), t), of |-> w, stale |-> s, at |-> t]
AskedIsOpen ==
  asked # Nothing => \E q \in Question : \E t :
    LET req == ScreenRequest(q, ScopeOf(q.roles), t)
    IN /\ asked.question = q /\ asked.request = req
       /\ req.filter # NotFound
       /\ mode = "central" => ProjectedFor(req, asked.provider)

ScreensInv ==
  /\ mode \in {"direct", "central"} /\ world \in World
  /\ MirrorIsSafe /\ AskedIsOpen /\ ReplyIsRightful /\ KeptIsRightful

\* What a filter opens, the scope that it was made of opens.
LEMMA FilterNarrows ==
  ASSUME NEW c, NEW ns, NamespaceFilter(c, ns) # NotFound
  PROVE  /\ ns = Nothing \/ SpaceAllowed(NamespaceFilter(c, ns), ns)
         /\ \A n : SpaceAllowed(NamespaceFilter(c, ns), n) => SpaceAllowed(c, n)
<1>1. CASE ns = Nothing
  BY <1>1 DEF NamespaceFilter
<1>2. CASE ns # Nothing
  <2>1. SpaceAllowed(c, ns) /\ NamespaceFilter(c, ns) = Only({ns})
    BY <1>2 DEF NamespaceFilter
  <2>2. \A n : SpaceAllowed(Only({ns}), n) <=> n = ns
    BY DEF SpaceAllowed, Only
  <2> QED
    BY <2>1, <2>2
<1> QED
  BY <1>1, <1>2

\* What the handler answers is rightful.
LEMMA HandledIsRightful ==
  ASSUME ScreensInv, asked # Nothing
  PROVE  LET q == asked.question
             w == IF mode = "direct" THEN world ELSE asked.provider.of
         IN q \in Question /\ Rightful(ScopeOf(q.roles), q.ns, w, Handled(asked))
<1> DEFINE c(q) == ScopeOf(q.roles)
<1>1. PICK q, t :
        LET req == ScreenRequest(q, c(q), t)
        IN /\ q \in Question /\ asked.question = q /\ asked.request = req
           /\ req.filter # NotFound
           /\ mode = "central" => ProjectedFor(req, asked.provider)
  BY DEF ScreensInv, AskedIsOpen
<1> DEFINE req == ScreenRequest(q, c(q), t)
           f == NamespaceFilter(c(q), q.ns)
           from == Since(q.range, clock)
           sections == Handled(asked)
<1>2. req.screen = q.screen /\ req.ns = q.ns /\ req.filter = f
  BY DEF ScreenRequest
<1>3. f # NotFound
  BY <1>1, <1>2
<1>4. q.screen \in CentralScreen \cup {"nodes"}
  BY <1>1, QuestionAssumption
<1>5. DOMAIN sections = SectionNames(q.screen)
  BY <1>1 DEF Handled
<1>6. \A name \in SectionNames(q.screen) :
        /\ name = "nodes" /\ ~c(q).all => sections[name] = Bare("forbidden")
        /\ (name # "nodes" \/ c(q).all) /\ mode = "direct" =>
             sections[name] = ReadSection(DirectValues(q, world, f, from, clock, name))
        /\ (name # "nodes" \/ c(q).all) /\ mode # "direct" =>
             sections[name] = CentralSection(asked, c(q), f, from, name)
  BY <1>1 DEF Handled
<1>7. ~SectionShown(Bare("forbidden")) /\ ~SectionShown(Bare("empty"))
  BY DEF SectionShown, Bare
<1> HIDE DEF sections, c, f, from
<1>8. CASE mode = "direct"
  <2>1. ASSUME NEW name \in SectionNames(q.screen), SectionShown(sections[name])
        PROVE  Within(world, f, name, sections[name].value) /\ (name = "nodes" => c(q).all)
    <3> DEFINE values == DirectValues(q, world, f, from, clock, name)
    <3>1. (name # "nodes" \/ c(q).all) /\ sections[name] = ReadSection(values)
      BY <1>6, <1>7, <1>8, <2>1
    <3> HIDE DEF values
    <3>2. values # {} /\ sections[name].value = OneOf(values)
      BY <1>7, <2>1, <3>1 DEF ReadSection
    <3>3. sections[name].value \in values
      BY <3>2, OneOfIs
    <3>4. Within(world, f, name, sections[name].value)
      BY <1>3, <1>4, <3>3, FilterNarrows, DirectWithin DEF values, ScreensInv, f
    <3> QED
      BY <3>1, <3>4
  <2> QED
    BY <1>1, <1>3, <1>5, <1>8, <2>1 DEF Rightful, ScreensInv, sections, c, f
<1>9. CASE mode = "central"
  <2>1. ProjectedFor(req, asked.provider) /\ asked.request = req
    BY <1>1, <1>9
  <2>2. PICK w, s, when :
          /\ w \in World
          /\ asked.provider = [data |-> ProjectScreen(req, SafeProjection(w), when), of |-> w,
                               stale |-> s, at |-> when]
    BY <2>1 DEF ProjectedFor
  <2>3. q.screen \in CentralScreen /\ SectionNames(q.screen) = FieldsOf(q.screen)
    BY <1>2, <2>1 DEF ProjectedFor, SectionNames, CentralScreen
  <2>4. ASSUME NEW name \in SectionNames(q.screen), SectionShown(sections[name])
        PROVE  Within(w, f, name, sections[name].value) /\ (name = "nodes" => c(q).all)
    <3>1. (name # "nodes" \/ c(q).all) /\ sections[name] = CentralSection(asked, c(q), f, from, name)
      BY <1>6, <1>7, <1>9, <2>4
    <3>2. /\ sections[name].value = asked.provider.data[name]
          /\ name \in {"summary", "workload", "pod"} => asked.provider.data[name] # NotFound
      BY <1>2, <2>1, <2>3, <2>4, <3>1, CentralShown
    <3>3. asked.provider.data[name] = ProjectScreen(req, SafeProjection(w), when)[name]
      BY <2>2
    <3>4. Within(w, req.filter, name, sections[name].value)
      BY <1>2, <2>2, <2>3, <3>2, <3>3, CentralWithin
    <3> QED
      BY <1>2, <3>1, <3>4
  <2>5. asked.provider.of = w /\ mode # "direct"
    BY <1>9, <2>2
  <2> QED
    BY <1>1, <1>3, <1>5, <2>2, <2>4, <2>5 DEF Rightful, sections, c, f
<1> QED
  BY <1>8, <1>9 DEF ScreensInv
\* Under the roles of the mode, only the roles that a user has open a namespace.
LEMMA RightfulIsGranted ==
  ASSUME NEW roles, NEW ns, NEW w, NEW sections, mode \in {"direct", "central"},
         Rightful(ScopeOf(roles), ns, w, sections),
         NEW name \in DOMAIN sections, SectionShown(sections[name])
  PROVE  /\ Rows(name, sections[name].value) \subseteq GrantedSpaces(roles)
         /\ name = "nodes" => \E r \in roles : r.name \in {"platform.admin", "cluster.viewer"}
         /\ name = "pods" => sections[name].value.counts.total
                               <= Cardinality({p \in w.pods : p.ns \in GrantedSpaces(roles)})
<1> DEFINE c == ScopeOf(roles)
           f == NamespaceFilter(c, ns)
           value == sections[name].value
           granted == GrantedSpaces(roles)
           open == OpenPods(w, f)
           counted == {p \in w.pods : p.ns \in granted}
<1>1. w \in World /\ f # NotFound /\ Within(w, f, name, value) /\ (name = "nodes" => c.all)
  BY DEF Rightful
<1>2. c.all => \E r \in roles : r.name \in {"platform.admin", "cluster.viewer"}
  BY DEF ScopeOf, ScopeFor, ScopeForCentral
<1>3. \A n \in w.namespaces : SpaceAllowed(c, n) => n \in granted
  <2>1. CASE mode = "direct"
    BY <1>1, <2>1 DEF ScopeOf, ScopeFor, SpaceAllowed, GrantedSpaces
  <2>2. CASE mode = "central"
    BY <1>1, <2>2 DEF ScopeOf, ScopeForCentral, SpaceAllowed, GrantedSpaces
  <2> QED
    BY <2>1, <2>2
<1> HIDE DEF c, granted
<1>4. \A n \in w.namespaces : SpaceAllowed(f, n) => n \in granted
  BY <1>1, <1>3, FilterNarrows
<1>5. OpenSpaces(w, f) \subseteq granted
  BY <1>4 DEF OpenSpaces
<1>6. open \subseteq counted
  BY <1>1, <1>4, ObjectSpaces DEF OpenPods
<1>7. /\ IsFiniteSet(counted) /\ Cardinality(counted) \in Nat
  <2>1. counted \subseteq w.pods
    OBVIOUS
  <2> QED
    BY <1>1, <2>1, ObjectSpaces, FS_Subset, FS_CardinalityType
<1>8. Cardinality(open) \in Nat /\ Cardinality(open) <= Cardinality(counted)
  <2> HIDE DEF open, counted
  <2> QED
    BY <1>6, <1>7, FS_Subset, FS_CardinalityType
<1>9. name = "pods" => value.counts.total <= Cardinality(counted)
  <2>1. HAVE name = "pods"
  <2>2. value.counts.total \in Nat /\ value.counts.total <= Cardinality(open)
    BY <1>1, <2>1 DEF Within
  <2> QED
    BY <1>7, <1>8, <2>2
<1> QED
  BY <1>1, <1>2, <1>5, <1>9 DEF Within, granted, c
-----------------------------------------------------------------------------
(* Every step keeps the invariant *)

\* A step that leaves the mode, and what was asked and kept, as they are.
LEMMA ScreensQuiet ==
  ASSUME ScreensInv, UNCHANGED <<mode, asked, reply>>, world' \in World, MirrorIsSafe',
         kept' \in {Nothing, kept}
  PROVE  ScreensInv'
<1>1. AskedIsOpen'
  BY DEF ScreensInv, AskedIsOpen, ScopeOf
<1>2. ReplyIsRightful'
  BY DEF ScreensInv, ReplyIsRightful, ScreenAnswered, ScopeOf
<1>3. KeptIsRightful'
  BY DEF ScreensInv, KeptIsRightful, ScreenKey, ScopeOf
<1> QED
  BY <1>1, <1>2, <1>3 DEF ScreensInv

LEMMA OpenStep ==
  ASSUME ScreensInv, NEW q \in Question, OpenScreen(q)
  PROVE  ScreensInv'
<1> DEFINE c == ScopeOf(q.roles)
           req == ScreenRequest(q, c, clock)
<1>1. UNCHANGED <<mode, world, mirror, clock, kept>> /\ asked = Nothing
  BY DEF OpenScreen
<1>2. \/ asked' = asked /\ reply'.code \in {403, 400, 503}
      \/ /\ req.filter # NotFound
         /\ mode = "central" => mirror # Nothing /\ ~RequestRefused(req)
         /\ asked' = [question |-> q, request |-> req, provider |-> ForScreen(req)]
         /\ reply' = Nothing
  BY DEF OpenScreen, Refuse
<1>3. ~ScreenAnswered'
  BY <1>2 DEF ScreenAnswered
<1>4. MirrorIsSafe'
  BY <1>1 DEF ScreensInv, MirrorIsSafe
<1>5. KeptIsRightful'
  BY <1>1 DEF ScreensInv, KeptIsRightful, ScreenKey, ScopeOf
<1>6. AskedIsOpen'
  <2> SUFFICES ASSUME asked' # Nothing PROVE AskedIsOpen'
    BY DEF AskedIsOpen
  <2>1. /\ req.filter # NotFound
        /\ mode = "central" => mirror # Nothing /\ ~RequestRefused(req)
        /\ asked'.question = q /\ asked'.request = req /\ asked'.provider = ForScreen(req)
    BY <1>1, <1>2
  <2>2. mode = "central" => ProjectedFor(req, asked'.provider)
    <3>1. HAVE mode = "central"
    <3>2. req.screen \in CentralScreen
      BY <2>1, <3>1 DEF RequestRefused
    <3>3. PICK w, s :
            w \in World /\ mirror = [resources |-> SafeProjection(w), stale |-> s, of |-> w]
      BY <2>1, <3>1 DEF ScreensInv, MirrorIsSafe
    <3>4. ForScreen(req) = [data |-> ProjectScreen(req, SafeProjection(w), clock), of |-> w,
                            stale |-> s, at |-> clock]
      BY <3>1, <3>3 DEF ForScreen
    <3> QED
      BY <2>1, <3>2, <3>3, <3>4 DEF ProjectedFor
  <2>3. req = ScreenRequest(q, ScopeOf(q.roles)', clock)
    BY <1>1 DEF ScopeOf
  <2> HIDE DEF req
  <2> QED
    BY <1>1, <2>1, <2>2, <2>3 DEF AskedIsOpen
<1> QED
  BY <1>1, <1>3, <1>4, <1>5, <1>6 DEF ScreensInv, ReplyIsRightful

LEMMA AnswerStep ==
  ASSUME ScreensInv, AnswerScreen
  PROVE  ScreensInv'
<1> DEFINE q == asked.question
           w == IF mode = "direct" THEN world ELSE asked.provider.of
           when == IF mode = "direct" THEN clock ELSE asked.provider.at
           s == Handled(asked)
<1>1. UNCHANGED <<mode, world, mirror, clock>> /\ asked # Nothing /\ asked' = Nothing
  BY DEF AnswerScreen
<1>2. q \in Question /\ Rightful(ScopeOf(q.roles), q.ns, w, s)
  BY <1>1, HandledIsRightful
<1>3. \/ /\ kept # Nothing /\ kept.key = ScreenKey(q)
         /\ reply' = [kept.answer EXCEPT !.question = q] /\ kept' = kept
      \/ /\ reply' = ScreenAnswer(q, s, w, when)
         /\ kept' = [key |-> ScreenKey(q), answer |-> ScreenAnswer(q, s, w, when)]
  BY DEF AnswerScreen, ScreenAnswer
<1> HIDE DEF q, w, when, s
<1>4. ReplyIsRightful' /\ KeptIsRightful'
  <2>1. CASE /\ kept # Nothing /\ kept.key = ScreenKey(q)
             /\ reply' = [kept.answer EXCEPT !.question = q] /\ kept' = kept
    <3>1. PICK p, s1, w1, t1 :
            /\ p \in Question
            /\ kept = [key |-> ScreenKey(p), answer |-> ScreenAnswer(p, s1, w1, t1)]
            /\ Rightful(ScopeOf(p.roles), p.ns, w1, s1)
      BY <2>1 DEF ScreensInv, KeptIsRightful
    <3>2. ScopeOf(p.roles) = ScopeOf(q.roles) /\ p.ns = q.ns
      BY <2>1, <3>1 DEF ScreenKey
    <3>3. reply' = ScreenAnswer(q, s1, w1, t1)
      BY <2>1, <3>1 DEF ScreenAnswer
    <3>4. ReplyIsRightful'
      BY <1>1, <1>2, <3>1, <3>2, <3>3 DEF ReplyIsRightful, ScopeOf
    <3>5. KeptIsRightful'
      BY <1>1, <2>1 DEF ScreensInv, KeptIsRightful, ScreenKey, ScopeOf
    <3> QED
      BY <3>4, <3>5
  <2>2. CASE /\ reply' = ScreenAnswer(q, s, w, when)
             /\ kept' = [key |-> ScreenKey(q), answer |-> ScreenAnswer(q, s, w, when)]
    <3>1. ReplyIsRightful'
      BY <1>1, <1>2, <2>2 DEF ReplyIsRightful, ScopeOf
    <3>2. KeptIsRightful'
      BY <1>1, <1>2, <2>2 DEF KeptIsRightful, ScreenKey, ScopeOf
    <3> QED
      BY <3>1, <3>2
  <2> QED
    BY <1>3, <2>1, <2>2
<1>5. MirrorIsSafe' /\ AskedIsOpen'
  BY <1>1 DEF ScreensInv, MirrorIsSafe, AskedIsOpen
<1> QED
  BY <1>1, <1>4, <1>5 DEF ScreensInv

LEMMA ScreensStep == ScreensInv /\ [CentralScreensNext]_screenVars => ScreensInv'
<1> SUFFICES ASSUME ScreensInv, [CentralScreensNext]_screenVars PROVE ScreensInv'
  OBVIOUS
<1>1. CASE \E q \in Question : OpenScreen(q)
  BY <1>1, OpenStep
<1>2. CASE AnswerScreen
  BY <1>2, AnswerStep
<1>3. CASE CacheExpires
  BY <1>3, ScreensQuiet DEF CacheExpires, ScreensInv, MirrorIsSafe
<1>4. CASE WorldChanges
  BY <1>4, ScreensQuiet DEF WorldChanges, ScreensInv, MirrorIsSafe
<1>5. CASE Mirrored
  <2>1. MirrorIsSafe'
    BY <1>5 DEF Mirrored, ScreensInv, MirrorIsSafe
  <2> QED
    BY <1>5, <2>1, ScreensQuiet DEF Mirrored, ScreensInv
<1>6. CASE AgentLost
  <2>1. PICK w, s :
          w \in World /\ mirror = [resources |-> SafeProjection(w), stale |-> s, of |-> w]
    BY <1>6 DEF AgentLost, ScreensInv, MirrorIsSafe
  <2>2. mirror' \in {Nothing, [resources |-> SafeProjection(w), stale |-> TRUE, of |-> w]}
    BY <1>6, <2>1 DEF AgentLost
  <2>3. MirrorIsSafe'
    BY <2>1, <2>2 DEF MirrorIsSafe
  <2> QED
    BY <1>6, <2>3, ScreensQuiet DEF AgentLost, ScreensInv
<1>7. CASE ScreenTick
  BY <1>7, ScreensQuiet DEF ScreenTick, ScreensInv, MirrorIsSafe
<1>8. CASE UNCHANGED screenVars
  BY <1>8, ScreensQuiet DEF screenVars, ScreensInv, MirrorIsSafe
<1> QED
  BY <1>1, <1>2, <1>3, <1>4, <1>5, <1>6, <1>7, <1>8 DEF CentralScreensNext

-----------------------------------------------------------------------------
(* No answer, made for the user or kept from another one, names an object  *)
(* of a namespace that the roles of the user do not open, counts one of    *)
(* its pods, or shows the nodes to a user of some namespaces: the handlers *)
(* read with the filter of the roles, the registry answers for the filter  *)
(* that was asked, and the key of the cache holds the scope                *)
(* (auth/roles.go, namespaceFilter, ProjectScreen, cacheKey).              *)
THEOREM AnswersStayWithinRoles == CentralScreensSpec => []NothingBeyondRoles
<1>1. CentralScreensInit => ScreensInv
  BY DEF CentralScreensInit, ScreensInv, MirrorIsSafe, AskedIsOpen, ReplyIsRightful,
         KeptIsRightful, ScreenAnswered
<1>2. ScreensInv => NothingBeyondRoles
  <2> SUFFICES ASSUME ScreensInv, ScreenAnswered PROVE NothingBeyondRoles
    BY DEF NothingBeyondRoles
  <2>1. PICK q, s, w, t :
          q \in Question /\ reply = ScreenAnswer(q, s, w, t) /\ Rightful(ScopeOf(q.roles), q.ns, w, s)
    BY DEF ScreensInv, ReplyIsRightful
  <2>2. reply.question = q /\ reply.sections = s /\ reply.of = w
    BY <2>1 DEF ScreenAnswer
  <2>3. mode \in {"direct", "central"}
    BY DEF ScreensInv
  <2> QED
    BY <2>1, <2>2, <2>3, RightfulIsGranted DEF NothingBeyondRoles
<1> QED
  BY <1>1, <1>2, ScreensStep, PTL DEF CentralScreensSpec
=============================================================================
