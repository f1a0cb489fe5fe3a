--------------------------- MODULE SnapshotDeltas ---------------------------
(***************************************************************************)
(* ClusterRegistry with the history of the deltas that DeltaSession        *)
(* acknowledged since the Begin of the snapshot transfer in progress.  The *)
(* agent that has an Ack forgets the delta: nobody sends it again.         *)
(***************************************************************************)
EXTENDS ClusterRegistry

VARIABLES
  queued,  \* queued[c]: deltas acknowledged after they were put in pending
  ignored  \* ignored[c]: deltas acknowledged as duplicates

historyVars == <<queued, ignored>>

Acknowledged == [epoch : Epoch, seq : Seqno]

Nothing == [c \in Cluster |-> {}]

InitHistory == Init /\ queued = Nothing /\ ignored = Nothing

Remember(history, c, e, s) ==
  history' = [history EXCEPT ![c] = @ \cup {[epoch |-> e, seq |-> s]}]

BeginTransfer(c, g, e, s) ==
  /\ BeginSnapshot(c, g, e, s)
  /\ queued' = [queued EXCEPT ![c] = {}]
  /\ ignored' = [ignored EXCEPT ![c] = {}]

IgnoreDelta(c, g, e, s) ==
  /\ AckDuplicate(c, g, e, s)
  /\ IF staging[c] = None THEN UNCHANGED ignored ELSE Remember(ignored, c, e, s)
  /\ UNCHANGED queued

AcceptDelta(c, g, d) ==
  /\ QueueDelta(c, g, d)
  /\ Remember(queued, c, d.epoch, d.seq)
  /\ UNCHANGED ignored

\* Every other step keeps the history for as long as the transfer goes on.
InTransfer(history) ==
  [c \in Cluster |-> IF staging'[c] = None THEN {} ELSE history[c]]

NextHistory ==
  \/ \E c \in Cluster, g \in Generation :
       \/ \E e \in Epoch, s \in Seqno :
            BeginTransfer(c, g, e, s) \/ IgnoreDelta(c, g, e, s)
       \/ \E d \in DeltaFrame : AcceptDelta(c, g, d)
  \/ /\ \/ \E c \in Cluster, g \in Generation : OtherStep(c, g)
        \/ Background
     /\ queued' = InTransfer(queued)
     /\ ignored' = InTransfer(ignored)

HistorySpec == InitHistory /\ [][NextHistory]_<<vars, historyVars>>

-----------------------------------------------------------------------------

\* A snapshot replaces the live state of c.
Swapped(c) == staging[c] # None /\ staging'[c] = None /\ live'[c] # live[c] /\ live'[c] # None

Covers(snapshot, acknowledged) ==
  \A a \in acknowledged : a.epoch = snapshot.epoch => a.seq <= snapshot.seq

\* A commit that succeeds has replayed every delta that was queued for its
\* epoch: an acknowledged delta is never missing from the committed state,
\* whatever the order and the epochs of the deltas queued with it.
QueuedSurvivesCommit ==
  [][\A c \in Cluster : Swapped(c) => Covers(live'[c], queued[c])]_vars

\* The same of every delta acknowledged during the transfer, duplicates
\* included: registry_test.go (TestSnapshotReplaysDuringSnapshotDeltaExactlyOnce)
\* fails with "loss or duplicate" when an acknowledged delta is not in the
\* committed snapshot.
AckedSurvivesCommit ==
  [][\A c \in Cluster :
       Swapped(c) => Covers(live'[c], queued[c] \cup ignored[c])]_vars
=============================================================================
