-------------------------- MODULE ClusterReadModel --------------------------
(***************************************************************************)
(* What the informer cache of a cluster answers to the screens             *)
(* (internal/clusterstate/store.go, query.go, normalize.go).               *)
(*                                                                         *)
(* The cache is a record w of sets of objects; every answer is a function  *)
(* of w, of the namespaces f that the request may see, and of the clock.   *)
(* A severity is its rank in internal/contract, so the worse of two is the *)
(* greater; a uid is a number, and an object is named by its uid unless it *)
(* has a field "name".  Wording, images, and the fields of a summary that  *)
(* are copied as they are, are left out; a list is the set of its rows,    *)
(* but for the cut of a list to its first rows, which keeps the order.     *)
(***************************************************************************)
EXTENDS Integers, Sequences, FiniteSets, FiniteSetsExt

CONSTANTS
    PendingGrace,       \* a pod may be pending for that long
    NoOwner, NotFound   \* no owner, and the answer about what is not there

Healthy == 0
Unknown == 1
Progressing == 2
Warning == 3
Degraded == 4
Critical == 5

WorseOf(severities) == Max({Healthy} \cup severities)
Total(field) == MapThenSumSet(LAMBDA r : field[r], DOMAIN field)
OneOf(found) == IF found = {} THEN NotFound ELSE CHOOSE x \in found : TRUE

-----------------------------------------------------------------------------
\* waitingCritical
WaitingIssue(reason) ==
    CASE reason = "CrashLoopBackOff" -> {"CrashLoopBackOff"}
      [] reason \in {"ImagePullBackOff", "ErrImagePull"} -> {"ImagePullBackOff"}
      [] reason = "CreateContainerConfigError" -> {"ProbeFailed"}
      [] OTHER -> {}

IssueSeverity(issue) ==
    CASE issue \in {"CrashLoopBackOff", "OOMKilled"} -> Critical
      [] issue = "ImagePullBackOff" -> Degraded
      [] issue = "Restarting" -> Warning
      [] OTHER -> Healthy

\* The state of a pod whose spec has that many containers.
PodState(p, containers, now) ==
    LET statuses == {p.statuses[i] : i \in DOMAIN p.statuses}
        ready == Cardinality({i \in DOMAIN p.statuses : p.statuses[i].ready})
        restarts == Total([i \in DOMAIN p.statuses |-> p.statuses[i].restarts])
        told == UNION {WaitingIssue(c.waiting) : c \in statuses}
                    \cup {"OOMKilled" : c \in {d \in statuses : d.oomKilled}}
        unready == p.phase = "Running" /\ ready < containers
        issues == told
                      \cup (IF restarts > 0 THEN {"Restarting"} ELSE {})
                      \cup (IF p.phase = "Pending" THEN {"Pending"} ELSE {})
                      \cup (IF unready /\ told = {} THEN {"ProbeFailed"} ELSE {})
        phase == CASE p.phase = "Failed" -> Critical
                   [] p.phase = "Pending" /\ now - p.created > PendingGrace -> Warning
                   [] p.phase = "Pending" -> Progressing
                   [] unready -> Warning
                   [] p.phase = "Unknown" -> Unknown
                   [] OTHER -> Healthy
    IN [severity |-> WorseOf({phase} \cup {IssueSeverity(i) : i \in issues}),
        issues |-> issues, restarts |-> restarts, ready |-> <<ready, containers>>]

NormalizePod(p, now) == PodState(p, p.containers, now)

\* Normalize of the four kinds of workload: how the rollout stands.
Rollout(x) ==
    CASE x.kind = "Deployment" -> IF x.stalled THEN "Stalled"
                                  ELSE IF x.paused THEN "Paused"
                                  ELSE IF x.moving THEN "Progressing" ELSE "Complete"
      [] x.kind = "StatefulSet" -> IF x.moving THEN "Progressing" ELSE "Complete"
      [] x.kind = "DaemonSet" -> IF x.updated < x.desired THEN "Progressing" ELSE "Complete"
      [] x.kind = "CronJob" -> IF x.paused THEN "Paused" ELSE "Complete"

\* applyReplicaMismatch
Short(desired, ready) == desired # 0 /\ ready < desired
ReplicaSeverity(desired, ready) ==
    IF ~Short(desired, ready) THEN Healthy ELSE IF ready = 0 THEN Critical ELSE Degraded

WorkloadState(x) ==
    LET stalled == Rollout(x) = "Stalled"
    IN [rollout |-> Rollout(x),
        severity |-> WorseOf({ReplicaSeverity(x.desired, x.ready)}
                                 \cup (IF stalled THEN {Critical} ELSE {})),
        issues |-> (IF stalled THEN {"RolloutStalled"} ELSE {})
                       \cup (IF Short(x.desired, x.ready) THEN {"ReplicaMismatch"} ELSE {})]

-----------------------------------------------------------------------------
(* NamespaceFilter *)
Only(spaces) == [all |-> FALSE, list |-> spaces]
SpaceAllowed(f, ns) == f.all \/ ns \in f.list

ScopedPods(w, f) == {p \in w.pods : SpaceAllowed(f, p.ns)}

\* directOwner: the controller, or else the first owner.
DirectOwner(owners) ==
    LET controllers == {i \in DOMAIN owners : owners[i].controller}
    IN CASE controllers # {} -> owners[Min(controllers)]
         [] owners # <<>> -> owners[1]
         [] OTHER -> NoOwner

\* The index of owners holds an object under every owner that it names.
Owns(uid, x) == \E i \in DOMAIN x.owners : x.owners[i].uid = uid
PodsByOwner(w, uid) == {p \in w.pods : Owns(uid, p)}

PodsOfWorkload(w, kind, uid) ==
    IF kind # "Deployment" THEN PodsByOwner(w, uid)
    ELSE UNION {PodsByOwner(w, r.uid) : r \in {s \in w.sets : Owns(uid, s)}}

\* replicaSetMeta finds a set by its namespace and name.
ReplicaSetOf(w, ns, owner) == {r \in w.sets : r.ns = ns /\ r.name = owner.name}

WorkloadOfPod(w, p) ==
    LET owner == DirectOwner(p.owners)
        tops == {DirectOwner(r.owners) : r \in ReplicaSetOf(w, p.ns, owner)} \ {NoOwner}
    IN CASE owner = NoOwner -> NotFound
         [] owner.kind = "ReplicaSet" /\ tops # {} ->
                (CHOOSE top \in tops : TRUE).uid
         [] OTHER -> owner.uid

\* The first n rows of a list in an order, the pairs of rows of which one comes
\* before the other, that may leave some rows equal: the sets of rows that may
\* remain.
FirstRows(rows, n, order) ==
    {first \in kSubset(Min({n, Cardinality(rows)}), rows) :
        \A r \in first, s \in rows \ first : <<s, r>> \notin order}

-----------------------------------------------------------------------------
NodeHealth(w) ==
    [total |-> Cardinality(w.nodes),
     ready |-> Cardinality({n \in w.nodes : n.ready}),
     pressure |-> Cardinality({n \in w.nodes : n.pressure}),
     unschedulable |-> Cardinality({n \in w.nodes : n.unschedulable})]

\* NodeSummaries: the pods of a node that have not ended.
NodeSummaries(w, now) ==
    {[uid |-> n.uid,
      severity |-> CASE ~n.ready -> Critical [] n.pressure -> Degraded
                     [] n.unschedulable -> Warning [] OTHER -> Healthy,
      pods |-> {[uid |-> p.uid, severity |-> NormalizePod(p, now).severity] :
                    p \in {q \in w.pods : q.node = n.uid /\ q.phase \notin {"Succeeded", "Failed"}}}] :
        n \in w.nodes}

\* The counts of a set of pods, of which each has its state.
PodStates(pods, now) == [p \in pods |-> NormalizePod(p, now)]
PodCounts(state) ==
    [total |-> Cardinality(DOMAIN state),
     phases |-> [phase \in {"Running", "Pending", "Failed"} |->
                    Cardinality({p \in DOMAIN state : p.phase = phase})],
     restarts |-> Total([p \in DOMAIN state |-> state[p].restarts])]
Having(rows, issue) == Cardinality({r \in rows : issue \in r.issues})

PodsInHealth(state) ==
    [counts |-> PodCounts(state),
     issues |-> [i \in {"CrashLoopBackOff", "ImagePullBackOff"} |->
                    Cardinality({p \in DOMAIN state : i \in state[p].issues})]]
PodHealth(w, f, now) == PodsInHealth(PodStates(ScopedPods(w, f), now))

\* baseWorkload, applyState: a workload with what its pods say.
WorkloadRow(x, state) ==
    LET states == {state[p] : p \in DOMAIN state}
    IN [uid |-> x.uid, ns |-> x.ns, kind |-> x.kind, name |-> x.name,
        replicas |-> <<x.desired, x.ready>>, rollout |-> Rollout(x), created |-> x.created,
        severity |-> WorseOf({WorkloadState(x).severity} \cup {s.severity : s \in states}),
        issues |-> UNION ({WorkloadState(x).issues} \cup {s.issues : s \in states}),
        restarts |-> Total([p \in DOMAIN state |-> state[p].restarts]),
        requested |-> Total([p \in DOMAIN state |-> p.requested])]
WorkloadSummary(w, x, now) ==
    WorkloadRow(x, PodStates(PodsOfWorkload(w, x.kind, x.uid), now))

Workloads(w, f, now) ==
    {WorkloadSummary(w, x, now) : x \in {y \in w.workloads : SpaceAllowed(f, y.ns)}}

Workload(w, ns, kind, name, now) ==
    OneOf({x \in Workloads(w, Only({ns}), now) : x.kind = kind /\ x.name = name})

WorkloadCounts(summaries) ==
    [total |-> Cardinality(summaries),
     available |-> Cardinality({x \in summaries : x.severity = Healthy}),
     mismatch |-> Having(summaries, "ReplicaMismatch"),
     stalled |-> Having(summaries, "RolloutStalled")]
WorkloadHealth(w, f, now) == WorkloadCounts(Workloads(w, f, now))

\* The rows of Unhealthy: the worst first, and of those the oldest.
UnhealthyRow(kind, x, ns, severity, restarts, created) ==
    [kind |-> kind, uid |-> x, ns |-> ns, severity |-> severity,
     restarts |-> restarts, created |-> created]
WorseOrOlder(a, b) ==
    a.severity > b.severity \/ (a.severity = b.severity /\ a.created < b.created)
WorkloadRows(summaries) ==
    {UnhealthyRow("Workload", x.uid, x.ns, x.severity, x.restarts, x.created) :
        x \in {y \in summaries : /\ y.severity # Healthy
                                 /\ y.issues \cap {"ReplicaMismatch", "RolloutStalled"} # {}}}

PodRows(state) ==
    {UnhealthyRow("Pod", p.uid, p.ns, state[p].severity, state[p].restarts, p.created) :
        p \in {q \in DOMAIN state : state[q].severity # Healthy}}
WorstRows(rows, limit) ==
    FirstRows(rows, limit, {pair \in rows \X rows : WorseOrOlder(pair[1], pair[2])})

Unhealthy(w, f, limit, now) ==
    WorstRows(PodRows(PodStates(ScopedPods(w, f), now)) \cup WorkloadRows(Workloads(w, f, now)), limit)

\* TopologyPods, for one of the lists that Unhealthy may give.
TopologyPods(w, f, worst, now) ==
    LET pods == ScopedPods(w, f)
        bad == Cardinality({p \in pods : NormalizePod(p, now).severity # Healthy})
    IN [total |-> Cardinality(pods), unhealthy |-> bad,
        list |-> {r \in worst : r.kind = "Pod"}]

\* Events, EventsForUID: the latest first, then by uid.
LaterEvent(a, b) == a.last > b.last \/ (a.last = b.last /\ a.uid < b.uid)
LatestRows(recent, limit) ==
    {e \in recent : Cardinality({d \in recent : LaterEvent(d, e)}) < limit}
LatestOf(events, since, limit) == LatestRows({e \in events : e.last >= since}, limit)
Events(w, f, since, limit) == LatestOf({e \in w.events : SpaceAllowed(f, e.ns)}, since, limit)
EventsForUID(w, uid, since, limit) ==
    LatestOf({e \in w.events : e.involved = uid}, since, limit)

\* A row of NamespaceSummaries, of the pods and the workloads of the namespace.
NamespaceRow(ns, state, summaries) ==
    [name |-> ns, pods |-> PodCounts(state),
     workloads |-> <<Cardinality(summaries),
                     Cardinality({x \in summaries : x.severity # Healthy})>>,
     severity |-> WorseOf({state[p].severity : p \in DOMAIN state} \cup {x.severity : x \in summaries}),
     issues |-> UNION ({state[p].issues : p \in DOMAIN state} \cup {x.issues : x \in summaries}),
     requested |-> Total([p \in DOMAIN state |-> p.requested])]

NamespaceSummaries(w, f, now) ==
    LET spaces == w.namespaces \cup {p.ns : p \in w.pods} \cup {x.ns : x \in w.workloads}
    IN {NamespaceRow(ns, PodStates({p \in w.pods : p.ns = ns}, now),
                     Workloads(w, Only({ns}), now)) :
            ns \in {s \in spaces : SpaceAllowed(f, s)}}

NamespaceSummary(w, ns, now) ==
    OneOf(NamespaceSummaries(w, Only({ns}), now))

-----------------------------------------------------------------------------
\* Pod: the uid of a pod goes before its name.
Pod(w, ns, name, uid) ==
    OneOf({p \in w.pods : p.ns = ns /\ IF uid # 0 THEN p.uid = uid ELSE p.name = name})

PodSummaryOf(p, workload, state) ==
    [uid |-> p.uid, ns |-> p.ns, name |-> p.name, workload |-> workload, phase |-> p.phase,
     severity |-> state.severity, issues |-> state.issues, restarts |-> state.restarts,
     ready |-> state.ready, requested |-> p.requested]
PodSummary(w, p, now) == PodSummaryOf(p, WorkloadOfPod(w, p), NormalizePod(p, now))
PodsForWorkload(w, kind, uid, now) ==
    {PodSummaryOf(p, uid, NormalizePod(p, now)) : p \in PodsOfWorkload(w, kind, uid)}

OwnerRow(uid, current, pods, revision) ==
    [uid |-> uid, current |-> current, pods |-> pods, revision |-> revision]

PodOwnerChain(w, p) ==
    LET owner == DirectOwner(p.owners)
        sets == IF owner = NoOwner \/ owner.kind # "ReplicaSet" THEN {}
                ELSE ReplicaSetOf(w, p.ns, owner)
        revision == IF sets = {} THEN 0 ELSE (CHOOSE r \in sets : TRUE).revision
        tops == {DirectOwner(r.owners) : r \in sets} \ {NoOwner}
    IN IF owner = NoOwner THEN {}
       ELSE {OwnerRow(owner.uid, TRUE, Cardinality(PodsByOwner(w, owner.uid)), revision)}
                \cup {OwnerRow(top.uid, TRUE, 0, 0) : top \in tops}

\* WorkloadOwnerChain: the newest generation, and the older ones that have pods.
WorkloadOwnerChain(w, kind, uid) ==
    LET sets == {r \in w.sets : Owns(uid, r)}
        newest(r) == \A s \in sets : s.revision <= r.revision
        pods(r) == Cardinality(PodsByOwner(w, r.uid))
    IN IF kind # "Deployment" THEN {}
       ELSE {OwnerRow(r.uid, newest(r), pods(r), r.revision) :
                r \in {s \in sets : newest(s) \/ pods(s) > 0}}
=============================================================================
