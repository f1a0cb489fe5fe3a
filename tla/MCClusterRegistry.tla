------------------------- MODULE MCClusterRegistry -------------------------
(***************************************************************************)
(* Instances of ClusterRegistry for TLC: two sessions that compete for one *)
(* cluster, the deltas of one cluster, or two clusters that share a budget *)
(* too small for both.  Beside them the deltas of the search index: they   *)
(* share nothing with the registry, and meet the same question, what       *)
(* becomes of a change that comes while the whole is being built.          *)
(***************************************************************************)
EXTENDS SnapshotDeltas, SearchDelta, TLC

CONSTANTS c1, c2, k1, light, middle, heavy

VARIABLE which    \* "sessions", "deltas", "budget" or "index"

MCWeight == [v \in Value |-> CASE v = light -> 1 [] v = middle -> 4 [] v = heavy -> 8]

\* A budget at a time is under pressure; more events when none is.
MCPressures == {{}} \cup {{b} : b \in Budgets}

registryVars == <<vars, historyVars, deltaVars, which>>

-----------------------------------------------------------------------------

SessionsInit == which = "sessions" /\ InitHistory /\ DeltaInit /\ tight = {}
SessionsNext == Next /\ UNCHANGED <<historyVars, deltaVars, which>>

SessionsSpec == SessionsInit /\ [][SessionsNext]_registryVars /\ Fairness

-----------------------------------------------------------------------------
(* Deltas and the budget *)

\* What a cluster holds is of these payloads, and of the first epochs and
\* numbers.
HoldsOnly(c, payloads, epoch, seq) ==
    /\ \A s \in {staging[c], live[c]} \ {None} :
          s.epoch <= epoch /\ s.seq <= seq /\ Range(s.res) \subseteq payloads
    /\ \A i \in DOMAIN pending[c] :
          LET d == pending[c][i] IN d.epoch <= epoch /\ d.seq <= seq /\ d.value \in payloads

\* One cluster with small deltas, two of them waiting when they are of one epoch
\* or of one number; or two clusters, of which one is nearly full when it holds
\* anything, and the other may be.
Within ==
    CASE which = "deltas" ->
           /\ generation[c2] = 0 /\ HoldsOnly(c1, {light}, MaxEpoch, MaxSeq)
           /\ \/ Len(pending[c1]) <= 1
              \/ HoldsOnly(c1, {light}, 1, MaxSeq) \/ HoldsOnly(c1, {light}, MaxEpoch, 1)
      [] which = "budget" ->
           /\ HoldsOnly(c1, {middle, heavy}, 1, 1) /\ HoldsOnly(c2, {heavy}, 1, 1)
           /\ \A c \in Cluster : Len(pending[c]) <= 1
      [] OTHER -> TRUE

RegistriesInit ==
    /\ which \in {"deltas", "budget", "index"}
    /\ InitHistory /\ DeltaInit
    /\ which = "index" \/ tight = {}

RegistriesNext ==
    /\ UNCHANGED which
    /\ IF which = "index" THEN DeltaNext ELSE UNCHANGED deltaVars
    /\ \/ which = "deltas" /\ NextHistory
       \/ which = "budget" /\ Next /\ UNCHANGED historyVars
       \/ which = "index" /\ UNCHANGED <<vars, historyVars>>
    /\ Within'

RegistriesSpec == RegistriesInit /\ [][RegistriesNext]_registryVars

\* No step reads the last notification, nor how long a cluster has been silent
\* that never had a session.
Unread == <<live, staging, pending, pendingBytes, connected, generation,
            [c \in Cluster |-> IF generation[c] = 0 THEN 0 ELSE silence[c]],
            committing, totalBytes, stream, historyVars, deltaVars, which>>
=============================================================================
