----------------------------- MODULE AgentSync -----------------------------
(***************************************************************************)
(* The agent of one cluster and the session it keeps with the registry.    *)
(*                                                                         *)
(* The agent's informers keep a copy of the cluster.  A change of an       *)
(* announced kind leaves a token in a channel of capacity one; the agent   *)
(* takes it, reads its informers kind by kind, and sends as deltas what    *)
(* differs from what it sent before.  A session begins with a snapshot;    *)
(* whatever goes wrong ends the session, and the next one sends a new      *)
(* snapshot.  Each frame waits for its answer.                             *)
(*                                                                         *)
(* Of the registry only what one cluster's frames can see: the session,    *)
(* the staged and the held snapshot (ClusterRegistry has the rest).  Time  *)
(* is left out: the heartbeat is always due, state may expire at any time. *)
(* Limits of sizes are out of reach, and a chunk has one resource.  There  *)
(* is one agent per cluster (the chart has one replica, strategy Recreate).*)
(***************************************************************************)
EXTENDS Naturals, Sequences, FiniteSets

CONSTANTS
  AgentKey,    \* objects, each of a kind of its own
  AgentValue,  \* what the projection shows of an object
  Announced,   \* the objects whose kind has a change handler (changeSources)
  ReadOrder,   \* the order in which SafeProjection lists the kinds
  NoSnapshot,  \* nothing committed, staged or sent
  MaxMoves     \* bound of the model on changes and failures

ASSUME AgentAssumption ==
  /\ IsFiniteSet(AgentKey)
  /\ Announced \subseteq AgentKey
  /\ ReadOrder \in [1 .. Cardinality(AgentKey) -> AgentKey]
  /\ MaxMoves \in Nat

VARIABLES
  objects,     \* the informers' copy of each object
  unheard,     \* changes whose handler has not run yet
  token,       \* the channel "changes" holds a token
  at,          \* where the agent is: off, down, reading, sending, idle
  read,        \* what SafeProjection has read so far
  delivered,   \* what this session has sent, NoSnapshot before its commit
  lastSeq,     \* the sequence number of its last delta
  session,     \* the registry's number of the latest session
  serving,     \* a Sync handler of that session is there
  staged,      \* the snapshot it receives
  held,        \* the committed version
  told,        \* the last notification about it
  installed,   \* history: the newest epoch committed since the registry began
  moves        \* changes and failures so far

localVars == <<objects, unheard, token>>
sessionVars == <<at, read, delivered, lastSeq>>
centralVars == <<session, serving, staged, held, told, installed>>
agentVars == <<localVars, sessionVars, centralVars, moves>>

Reg == INSTANCE CatalogSource WITH
  Key <- AgentKey, Value <- AgentValue, None <- NoSnapshot,
  MaxEpoch <- MaxMoves + 1, MaxSeq <- MaxMoves,
  live <- held, change <- told

ASSUME SnapshotAssumption == NoSnapshot \notin Reg!Resources /\ NoSnapshot \notin Reg!Version

Present(k) == objects[k] \in AgentValue

NothingRead == [k \in {} |-> NoSnapshot]

AgentInit ==
  /\ objects \in [AgentKey -> AgentValue \cup {"unborn"}]
  /\ unheard = 0
  /\ token = FALSE
  /\ at = "off"
  /\ read = NothingRead
  /\ delivered = NoSnapshot
  /\ lastSeq = 0
  /\ session = 0
  /\ serving = FALSE
  /\ staged = NoSnapshot
  /\ held = NoSnapshot
  /\ told = NoSnapshot
  /\ installed = 0
  /\ moves = 0

Happens == moves < MaxMoves /\ moves' = moves + 1

-----------------------------------------------------------------------------
(* The informers *)

\* An object appears, changes or is deleted for good (its uid never returns).
\* The copy changes first; the handler of an announced kind runs later, and
\* not at all for what the informers list when the process starts.
ObjectChange(k, v) ==
  /\ Happens
  /\ objects[k] \notin {v, "gone"}
  /\ v = "gone" => Present(k)
  /\ objects' = [objects EXCEPT ![k] = v]
  /\ unheard' = IF at # "off" /\ k \in Announced THEN unheard + 1 ELSE unheard
  /\ UNCHANGED <<token, sessionVars, centralVars>>

\* Variant: the channel has no buffer, so a token finds no taker unless the
\* agent is waiting for one.
NotifyUnbuffered ==
  /\ unheard > 0
  /\ unheard' = unheard - 1
  /\ token' = (token \/ at = "idle")
  /\ UNCHANGED <<objects, sessionVars, centralVars, moves>>

\* The handler leaves a token, unless there is one.
Notify ==
  /\ unheard > 0
  /\ unheard' = unheard - 1
  /\ token' = TRUE
  /\ UNCHANGED <<objects, sessionVars, centralVars, moves>>

-----------------------------------------------------------------------------
(* What the registry does with the frames of the session *)

\* Variant: an agent that comes back gets its old number.
NextSessionReused == IF session = 0 THEN 1 ELSE session

NextSession == session + 1

HelloFrame ==
  /\ at = "down"
  /\ session' = NextSession
  /\ serving' = TRUE
  /\ staged' = NoSnapshot
  /\ UNCHANGED <<held, told, installed>>

\* SafeProjection has read every kind; index keys the result.
Projected == at = "reading" /\ DOMAIN read = AgentKey
Indexed == [k \in {x \in DOMAIN read : read[x] \in AgentValue} |-> read[k]]

BeginFrame ==
  /\ Projected
  /\ delivered = NoSnapshot
  /\ serving
  /\ staged' = Reg!NoResources
  /\ UNCHANGED <<session, serving, held, told, installed>>

ChunkFrame(k) ==
  /\ at = "sending"
  /\ serving
  /\ k \in DOMAIN Indexed \ DOMAIN staged
  /\ staged' = Reg!Put(staged, k, Indexed[k])
  /\ UNCHANGED <<session, serving, held, told, installed>>

CommitFrame ==
  /\ at = "sending"
  /\ serving
  /\ DOMAIN staged = DOMAIN Indexed
  /\ Reg!Install(session, 0, staged)
  /\ staged' = NoSnapshot
  /\ installed' = session
  /\ UNCHANGED <<session, serving>>

\* What the agent has to delete and to upsert, in this order.
Removed == DOMAIN delivered \ DOMAIN Indexed
Altered == {k \in DOMAIN Indexed : k \in DOMAIN delivered => delivered[k] # Indexed[k]}
Unsent == IF Removed # {} THEN Removed ELSE Altered

Updating == Projected /\ delivered # NoSnapshot

\* The registry holds the version the agent believes it holds.
Matches == held # NoSnapshot /\ held.epoch = session /\ held.seq = lastSeq

ChangeFrame(k) ==
  /\ Updating
  /\ serving
  /\ Matches
  /\ k \in Unsent
  /\ Reg!Mutate(k, IF k \in Removed THEN delivered[k] ELSE Indexed[k], k \in Removed)
  /\ UNCHANGED <<session, serving, staged, installed>>

BeatFrame ==
  /\ at = "idle"
  /\ serving
  /\ Matches
  /\ Reg!Beat
  /\ UNCHANGED <<session, serving, staged, installed>>

-----------------------------------------------------------------------------
(* syncOnce *)

\* The session is over; the next one starts from nothing.
HangUpTo(where) ==
  /\ at' = where
  /\ read' = NothingRead
  /\ delivered' = NoSnapshot
  /\ lastSeq' = 0

\* The informers are in step and run begins its loop.
StartAgent ==
  /\ at = "off"
  /\ at' = "down"
  /\ UNCHANGED <<localVars, read, delivered, lastSeq, centralVars, moves>>

Hello ==
  /\ HelloFrame
  /\ at' = "reading"
  /\ UNCHANGED <<localVars, read, delivered, lastSeq, moves>>

\* SafeProjection lists the next kind.
ReadKind ==
  /\ at = "reading"
  /\ ~Projected
  /\ LET k == ReadOrder[Cardinality(DOMAIN read) + 1]
     IN  read' = [x \in DOMAIN read \cup {k} |-> IF x = k THEN objects[k] ELSE read[x]]
  /\ UNCHANGED <<localVars, at, delivered, lastSeq, centralVars, moves>>

Begin ==
  /\ BeginFrame
  /\ at' = "sending"
  /\ UNCHANGED <<localVars, read, delivered, lastSeq, moves>>

Chunk(k) ==
  /\ ChunkFrame(k)
  /\ UNCHANGED <<localVars, sessionVars, moves>>

CommitSnapshot ==
  /\ CommitFrame
  /\ at' = "idle"
  /\ delivered' = Indexed
  /\ read' = NothingRead
  /\ UNCHANGED <<localVars, lastSeq, moves>>

TakeToken ==
  /\ at = "idle"
  /\ token
  /\ token' = FALSE
  /\ at' = "reading"
  /\ UNCHANGED <<objects, unheard, read, delivered, lastSeq, centralVars, moves>>

SendDelta(k) ==
  /\ ChangeFrame(k)
  /\ lastSeq' = lastSeq + 1
  /\ delivered' = IF k \in Removed THEN Reg!Drop(delivered, k)
                ELSE Reg!Put(delivered, k, Indexed[k])
  /\ UNCHANGED <<localVars, at, read, moves>>

\* Everything is sent.
Settled ==
  /\ Updating
  /\ Removed \cup Altered = {}
  /\ at' = "idle"
  /\ read' = NothingRead
  /\ UNCHANGED <<localVars, delivered, lastSeq, centralVars, moves>>

SendHeartbeat ==
  /\ BeatFrame
  /\ UNCHANGED <<localVars, sessionVars, moves>>

\* A delta or a heartbeat is nacked: the registry's state has expired.
Nacked ==
  /\ serving
  /\ ~Matches
  /\ at = "idle" \/ (Updating /\ Unsent # {})
  /\ HangUpTo("down")
  /\ UNCHANGED <<localVars, centralVars, moves>>

\* The registry is gone: the next exchange fails.
LoseRegistry ==
  /\ ~serving
  /\ at \notin {"off", "down"}
  /\ HangUpTo("down")
  /\ UNCHANGED <<localVars, centralVars, moves>>

-----------------------------------------------------------------------------
(* Failures *)

AnyFrame ==
  \/ HelloFrame
  \/ BeginFrame
  \/ \E k \in AgentKey : ChunkFrame(k)
  \/ CommitFrame
  \/ \E k \in AgentKey : ChangeFrame(k)
  \/ BeatFrame

\* The answer to a frame is lost; the registry may have acted on the frame.
\* Without it, also the end of a stream whose certificate is to be renewed.
LoseAnswer ==
  /\ Happens
  /\ at # "off"
  /\ AnyFrame \/ UNCHANGED centralVars
  /\ HangUpTo("down")
  /\ UNCHANGED localVars

\* The handler of a stream that the agent has left ends.
Disconnect ==
  /\ serving
  /\ at \in {"off", "down"}
  /\ serving' = FALSE
  /\ staged' = NoSnapshot
  /\ UNCHANGED <<localVars, sessionVars, session, held, told, installed, moves>>

\* PruneExpired
ExpireHeld ==
  /\ Happens
  /\ Reg!Expire
  /\ UNCHANGED <<localVars, sessionVars, session, serving, staged, installed>>

RestartCentral ==
  /\ Happens
  /\ session > 0
  /\ Reg!Forget
  /\ session' = 0
  /\ serving' = FALSE
  /\ staged' = NoSnapshot
  /\ installed' = 0
  /\ UNCHANGED <<localVars, sessionVars>>

RestartAgent ==
  /\ Happens
  /\ at # "off"
  /\ HangUpTo("off")
  /\ unheard' = 0
  /\ token' = FALSE
  /\ UNCHANGED <<objects, centralVars>>

-----------------------------------------------------------------------------

Work ==
  \/ StartAgent
  \/ Hello
  \/ ReadKind
  \/ Begin
  \/ \E k \in AgentKey : Chunk(k) \/ SendDelta(k)
  \/ CommitSnapshot
  \/ Settled
  \/ Nacked
  \/ LoseRegistry

Disturb ==
  \/ \E k \in AgentKey, v \in AgentValue \cup {"gone"} : ObjectChange(k, v)
  \/ LoseAnswer
  \/ ExpireHeld
  \/ RestartCentral
  \/ RestartAgent

AgentNext == Work \/ Notify \/ TakeToken \/ SendHeartbeat \/ Disconnect \/ Disturb

\* The agent's loop and its informers run.
AgentSpec ==
  /\ AgentInit /\ [][AgentNext]_agentVars
  /\ WF_agentVars(Work) /\ WF_agentVars(TakeToken) /\ WF_agentVars(Notify)

-----------------------------------------------------------------------------
(* Properties *)

\* What WatchFeed takes for granted of its source: within one life of the
\* registry no epoch is committed twice, a session starts at sequence number
\* 0, and only what was sent before is deleted, whatever answers were lost
\* and whoever was restarted.
FeedsAsAssumed ==
  [][Reg!Fed(installed, installed') \/ (Reg!Forget /\ installed' = 0)]_<<held, told, installed>>

InStep ==
  /\ held # NoSnapshot
  /\ held.res = delivered
  /\ \A k \in Announced :
       /\ k \in DOMAIN delivered <=> Present(k)
       /\ Present(k) => delivered[k] = objects[k]

\* Once changes and failures end, the registry holds what the agent sent and
\* what it sent is the present state of every announced object: no change is
\* lost between the copy, the handler, the token and the reading of the
\* kinds.  Of the kinds without a handler nothing of the sort holds: their
\* changes wait for the next token or session (changeSources, store.go:152).
RegistryFollows == <>[](at # "off" => InStep)
=============================================================================
