--------------------------- MODULE CentralScreens ---------------------------
(***************************************************************************)
(* The screens of a cluster, read directly from the informer cache or      *)
(* through the cluster-state registry (internal/httpapi/provider.go,       *)
(* handlers.go, server.go; internal/clusterstate/projection.go,            *)
(* remote_provider.go, grpc_registry.go; screenRequest of                  *)
(* transport/grpc.go; internal/auth/roles.go; internal/timerange).         *)
(*                                                                         *)
(* Directly, a handler reads the cache of this process.  Centrally, an     *)
(* agent projects its cache onto the resources that the registry holds;    *)
(* withProvider asks the registry for everything that one screen shows,    *)
(* and the handler, which works the range and the scope out again, reads   *)
(* that answer through methods that refuse any other question.  The answer *)
(* of a handler is kept for the users with the same scope.                 *)
(*                                                                         *)
(* The clock counts parts of a millisecond, and Truncated is what a        *)
(* millisecond keeps.  Left out: the sections that other sources fill, the *)
(* checks of the lengths of names, and the transport, of WatchFeed.        *)
(***************************************************************************)
EXTENDS ClusterReadModel

CONSTANTS
    World,               \* the contents that the cluster may have
    RoleSet,             \* the sets of roles that a user may have
    Question, Again,     \* what may be asked of the screens, and with another question
    Here,                \* the cluster; a role may name another
    EventLimit, UnhealthyLimit,
    Span,                \* how far back a preset range goes
    Millisecond,         \* ticks of the clock in one
    MaxClock, MaxScreens,  \* bounds: the clock, and the screens opened
    Nothing              \* no mirror, no request, no answer, no field

\* What Kubernetes promises of its objects: the namespace of an object is one
\* of the cluster, an owner is of the namespace of what it owns, and an event
\* of that of its object.
OwnersAreNear(w) ==
    /\ \A x \in w.pods \cup w.sets, y \in w.workloads \cup w.sets :
           (\E i \in DOMAIN x.owners : x.owners[i].uid = y.uid) => x.ns = y.ns
    /\ \A e \in w.events, y \in w.workloads \cup w.pods : e.involved = y.uid => e.ns = y.ns
ASSUME WorldAssumption ==
    \A w \in World : /\ Nothing \notin w.namespaces /\ IsFiniteSet(w.pods)
                     /\ \A x \in w.pods \cup w.workloads \cup w.events : x.ns \in w.namespaces
                     /\ OwnersAreNear(w)

CentralScreen == {"overview", "namespace-list", "namespace", "workload", "pod", "topology", "logs"}
ASSUME QuestionAssumption == \A q \in Question : q.screen \in CentralScreen \cup {"nodes"}

VARIABLES
    mode,     \* "direct" or "central"
    world,    \* the informer cache
    mirror,   \* what the registry holds: resources, whether stale, and as a ghost
              \* the world they were made of
    clock,
    asked,    \* the request between withProvider and its handler
    reply,    \* the last answer
    kept,     \* the answer in the cache, with its key
    opened

screenVars == <<mode, world, mirror, clock, asked, reply, kept, opened>>

CentralScreensInit ==
    /\ mode \in {"direct", "central"}
    /\ world \in World
    /\ mirror = Nothing /\ clock = 0 /\ opened = 0
    /\ asked = Nothing /\ reply = Nothing /\ kept = Nothing

-----------------------------------------------------------------------------
(* Roles.  A role has a name, the cluster and the namespace it names, or   *)
(* Nothing.                                                                *)

\* ScopeFor: the roles of a process that serves one cluster.
ScopeFor(roles) ==
    LET all == \E r \in roles : \/ r.name = "platform.admin" /\ r.cluster = Nothing
                                \/ r.name = "cluster.viewer" /\ r.cluster \in {Nothing, Here}
        spaces == {r.ns : r \in {s \in roles : /\ s.name = "namespace.viewer" /\ s.ns # Nothing
                                               /\ s.cluster \in {Nothing, Here}}}
    IN [all |-> all, list |-> IF all THEN {} ELSE spaces]

\* ScopeForCentral: only the roles that name their cluster count.
ScopeForCentral(roles) ==
    [all |-> \E r \in roles : \/ r.name = "platform.admin" /\ r.cluster = Nothing
                              \/ r.name = "cluster.viewer" /\ r.cluster = Here,
     list |-> {r.ns : r \in {s \in roles : /\ s.name = "namespace.viewer" /\ s.ns # Nothing
                                           /\ s.cluster = Here}}]

ScopeOf(roles) == IF mode = "direct" THEN ScopeFor(roles) ELSE ScopeForCentral(roles)

\* Accessible, and what namespaceFilter makes of the namespace that is asked for.
SeesSomething(c) == c.all \/ c.list # {}
NamespaceFilter(c, ns) ==
    CASE ns = Nothing -> c
      [] ns # Nothing /\ SpaceAllowed(c, ns) -> Only({ns})
      [] OTHER -> NotFound

\* timerange.Parse: a preset range ends now, a custom one is of milliseconds.
Since(range, now) == IF range.custom THEN range.from ELSE now - Span
ValidRange(range) == range.custom => range.from < range.to
Truncated(t) == t - (t % Millisecond)

-----------------------------------------------------------------------------
(* SafeProjection: what the agent tells the registry of its cache. *)

SafeOwners(owners) == [i \in DOMAIN owners |-> [uid |-> owners[i].uid, kind |-> owners[i].kind]]
SafePod(p) ==
    [uid |-> p.uid, ns |-> p.ns, name |-> p.name, phase |-> p.phase,
     created |-> p.created, statuses |-> p.statuses, requested |-> p.requested,
     owners |-> SafeOwners(p.owners)]
SafeWorkload(x) ==
    [uid |-> x.uid, ns |-> x.ns, name |-> x.name, kind |-> x.kind, desired |-> x.desired,
     ready |-> x.ready, created |-> x.created, rollout |-> WorkloadState(x).rollout]
SafeProjection(w) ==
    [nodes |-> w.nodes,
     pods |-> {SafePod(p) : p \in w.pods},
     workloads |-> {SafeWorkload(x) : x \in w.workloads},
     events |-> w.events,
     sets |-> {[uid |-> r.uid, ns |-> r.ns, owners |-> SafeOwners(r.owners),
                revision |-> IF r.owners = <<>> THEN 0 ELSE r.revision] : r \in w.sets}]

(* ProjectScreen: one screen of the resources m of the registry. *)

\* projectedPodState: of the containers that have a status.
ProjectedState(p, now) == PodState(p, Len(p.statuses), now)
ProjectedStates(pods, now) == [p \in pods |-> ProjectedState(p, now)]

FirstOwner(x) == IF x.owners = <<>> THEN NoOwner ELSE x.owners[1]
ProjectedSet(m, owner) == {r \in m.sets : r.uid = owner.uid /\ r.owners # <<>>}

\* Variant: a pod is of its direct owner, as if no set stood between them.
ProjectedDirectly(m, p) == IF FirstOwner(p) = NoOwner THEN NotFound ELSE FirstOwner(p).uid

\* projectedWorkloadOfOwners
ProjectedWorkloadOf(m, p) ==
    LET owner == FirstOwner(p)
        sets == IF owner = NoOwner \/ owner.kind # "ReplicaSet" THEN {} ELSE ProjectedSet(m, owner)
    IN CASE owner = NoOwner -> NotFound
         [] sets # {} -> FirstOwner(CHOOSE r \in sets : TRUE).uid
         [] OTHER -> owner.uid

\* The workload, or the pod, that the request is about: 0 when there is none.
TargetUid(req, m) ==
    LET found == CASE req.screen = "workload" ->
                        {x \in m.workloads : x.ns = req.ns /\ x.kind = req.kind /\ x.name = req.name}
                   [] req.screen = "pod" ->
                        {p \in m.pods : p.ns = req.ns /\ p.name = req.name
                                            /\ req.uid \in {0, p.uid}}
                   [] OTHER -> {}
    IN IF found = {} THEN req.uid ELSE (CHOOSE x \in found : TRUE).uid

\* includeScreenPod: the pods of the workload, the siblings of the pod, or all.
IncludeScreenPod(req, m, p) ==
    LET target == TargetUid(req, m)
        siblings == {FirstOwner(q) : q \in {r \in m.pods : r.uid = target /\ r.ns = req.ns}}
                        \ {NoOwner}
    IN CASE req.screen = "logs" -> FALSE
         [] req.screen = "workload" -> ProjectedWorkloadOf(m, p) = IF target = 0 THEN NotFound ELSE target
         [] req.screen = "pod" /\ siblings # {} ->
                FirstOwner(p) # NoOwner /\ FirstOwner(p).uid \in {o.uid : o \in siblings}
         [] req.screen = "pod" -> p.uid = target
         [] OTHER -> TRUE

ProjectedPods(req, m) ==
    {p \in m.pods : SpaceAllowed(req.filter, p.ns) /\ IncludeScreenPod(req, m, p)}

\* projectedWorkload, of the pods that the screen includes.
ProjectedRow(x, state) ==
    LET states == {state[p] : p \in DOMAIN state}
        stalled == x.rollout = "Stalled"
        severity == WorseOf({ReplicaSeverity(x.desired, x.ready)}
                                \cup (IF stalled THEN {Critical} ELSE {}))
    IN [uid |-> x.uid, ns |-> x.ns, kind |-> x.kind, name |-> x.name,
        replicas |-> <<x.desired, x.ready>>, rollout |-> x.rollout, created |-> x.created,
        severity |-> WorseOf({severity} \cup {s.severity : s \in states}),
        issues |-> UNION {s.issues : s \in states}
                       \cup (IF stalled THEN {"RolloutStalled"} ELSE {})
                       \cup (IF Short(x.desired, x.ready) THEN {"ReplicaMismatch"} ELSE {}),
        restarts |-> Total([p \in DOMAIN state |-> state[p].restarts]),
        requested |-> Total([p \in DOMAIN state |-> p.requested])]
PodsOf(m, pods, uid) == {p \in pods : ProjectedWorkloadOf(m, p) = uid}

ProjectedWorkloads(req, m, pods, now) ==
    {ProjectedRow(x, ProjectedStates(PodsOf(m, pods, x.uid), now)) :
        x \in {y \in m.workloads : SpaceAllowed(req.filter, y.ns)}}

\* The order of the projected list leaves no two rows equal.
WorseOlderFirst(a, b) ==
    WorseOrOlder(a, b) \/ (a.severity = b.severity /\ a.created = b.created /\ a.uid < b.uid)
WorstFew(rows) ==
    {r \in rows : Cardinality({s \in rows : WorseOlderFirst(s, r)}) < UnhealthyLimit}
ProjectedUnhealthy(state, summaries) == WorstFew(PodRows(state) \cup WorkloadRows(summaries))

ProjectedTopology(state, summaries) ==
    [total |-> Cardinality(DOMAIN state),
     unhealthy |-> Cardinality({p \in DOMAIN state : state[p].severity # Healthy}),
     list |-> {r \in ProjectedUnhealthy(state, summaries) : r.kind = "Pod"}]

ProjectedEvents(req, m) ==
    LatestOf({e \in m.events : /\ SpaceAllowed(req.filter, e.ns)
                               /\ TargetUid(req, m) \in {0, e.involved}}, req.from, EventLimit)

\* A namespace is known by its pods and its workloads.
ProjectedNamespaces(state, summaries) ==
    {NamespaceRow(ns, [p \in {q \in DOMAIN state : q.ns = ns} |-> state[p]],
                  {x \in summaries : x.ns = ns}) :
        ns \in {x.ns : x \in summaries \cup DOMAIN state}}

ProjectedPodSummary(m, p, now) ==
    PodSummaryOf(p, ProjectedWorkloadOf(m, p), ProjectedState(p, now))

\* projectedPodOwners, projectedWorkloadOwners
OwnedBy(pods, uid) ==
    Cardinality({p \in pods : FirstOwner(p) # NoOwner /\ FirstOwner(p).uid = uid})
ProjectedPodOwners(m, pods, p) ==
    LET owner == FirstOwner(p)
        sets == IF owner = NoOwner THEN {} ELSE ProjectedSet(m, owner)
        revision == IF sets = {} THEN 0 ELSE (CHOOSE r \in sets : TRUE).revision
    IN IF owner = NoOwner THEN {}
       ELSE {OwnerRow(owner.uid, TRUE, OwnedBy(pods, owner.uid), revision)}
                \cup {OwnerRow(FirstOwner(r).uid, TRUE, 0, 0) : r \in sets}

\* The revisions are compared as text: the model keeps to those of one digit.
ProjectedWorkloadOwners(m, pods, x) ==
    LET sets == {r \in m.sets : FirstOwner(r) # NoOwner /\ FirstOwner(r).uid = x.uid}
        newest(r) == \A s \in sets : s.revision <= r.revision
    IN IF x.kind # "Deployment" THEN {}
       ELSE {OwnerRow(r.uid, newest(r), OwnedBy(pods, r.uid), r.revision) : r \in sets}

\* pruneScreenProjection: the fields that a screen keeps.
FieldsOf(screen) ==
    CASE screen = "overview" -> {"nodes", "pods", "workloads", "unhealthy", "events"}
      [] screen = "namespace-list" -> {"namespaces"}
      [] screen = "namespace" -> {"summary", "list", "events"}
      [] screen = "workload" -> {"workload", "owners", "own", "events"}
      [] screen = "pod" -> {"pod", "owners", "events"}
      [] screen = "topology" -> {"topology"}
      [] screen = "logs" -> {"events"}

\* The fields, of the state of the included pods, the summaries, and the
\* workload and the pod that the request names.
ProjectedField(req, m, state, summaries, workload, pod, now, name) ==
    CASE name = "nodes" -> NodeHealth(m)
      [] name = "pods" -> PodsInHealth(state)
      [] name = "workloads" -> WorkloadCounts(summaries)
      [] name = "unhealthy" -> ProjectedUnhealthy(state, summaries)
      [] name = "events" -> ProjectedEvents(req, m)
      [] name = "namespaces" -> ProjectedNamespaces(state, summaries)
      [] name = "summary" -> OneOf({r \in ProjectedNamespaces(state, summaries) : r.name = req.ns})
      [] name = "list" -> summaries
      [] name = "topology" -> ProjectedTopology(state, summaries)
      [] name = "workload" -> IF workload = NotFound THEN NotFound
                              ELSE OneOf({x \in summaries : x.uid = workload.uid})
      [] name = "own" -> IF workload = NotFound THEN {}
                         ELSE {ProjectedPodSummary(m, p, now) : p \in PodsOf(m, DOMAIN state, workload.uid)}
      [] name = "pod" -> IF pod = NotFound THEN NotFound ELSE ProjectedPodSummary(m, pod, now)
      [] name = "owners" ->
             IF req.screen = "pod"
               THEN IF pod = NotFound THEN {} ELSE ProjectedPodOwners(m, DOMAIN state, pod)
             ELSE IF workload = NotFound THEN {} ELSE ProjectedWorkloadOwners(m, DOMAIN state, workload)

ScreenData(req, m, state, now) ==
    LET summaries == ProjectedWorkloads(req, m, DOMAIN state, now)
        workload == OneOf({x \in m.workloads : /\ SpaceAllowed(req.filter, x.ns) /\ x.ns = req.ns
                                               /\ x.kind = req.kind /\ x.name = req.name})
        pod == OneOf({p \in DOMAIN state : /\ p.ns = req.ns /\ p.name = req.name
                                           /\ req.uid \in {0, p.uid}})
    IN [name \in FieldsOf(req.screen) |->
            ProjectedField(req, m, state, summaries, workload, pod, now, name)]

ProjectScreen(req, m, now) == ScreenData(req, m, ProjectedStates(ProjectedPods(req, m), now), now)

-----------------------------------------------------------------------------
(* withProvider.  A question q has a screen, a namespace, an entity, a     *)
(* range and the roles of the user.                                        *)

\* screenRequest, after the truncation that ForScreen makes; the screen of the
\* nodes is never asked of the registry.
RequestRefused(req) ==
    \/ req.screen \notin CentralScreen
    \/ req.filter.all /\ req.filter.list # {}
    \/ ~req.filter.all /\ req.filter.list = {}
    \/ req.ns # Nothing /\ ~SpaceAllowed(req.filter, req.ns)
    \/ req.screen \in {"namespace", "workload", "pod"} /\ req.ns = Nothing

ScreenRequest(q, c, now) ==
    [screen |-> q.screen, ns |-> q.ns, uid |-> q.uid, kind |-> q.kind, name |-> q.name,
     filter |-> NamespaceFilter(c, q.ns), from |-> Truncated(Since(q.range, now))]

\* ForScreen, Query: the data of the screen; a direct provider is the cache itself.
ForScreen(req) ==
    IF mode = "direct" THEN [data |-> Nothing, of |-> Nothing, stale |-> FALSE, at |-> clock]
    ELSE [data |-> ProjectScreen(req, mirror.resources, clock), of |-> mirror.of,
          stale |-> mirror.stale, at |-> clock]

Refuse(q, code) == reply' = [code |-> code, question |-> q] /\ UNCHANGED asked

OpenScreen(q) ==
    LET c == ScopeOf(q.roles)
        req == ScreenRequest(q, c, clock)
    IN /\ asked = Nothing /\ opened < MaxScreens /\ (opened = 0 \/ q \in Again)
       /\ opened' = IF q \in Again THEN opened + 1 ELSE MaxScreens
       /\ CASE ~SeesSomething(c) \/ req.filter = NotFound -> Refuse(q, 403)
            [] ~ValidRange(q.range) -> Refuse(q, 400)
            [] mode = "central" /\ (mirror = Nothing \/ RequestRefused(req)) -> Refuse(q, 503)
            [] OTHER -> /\ asked' = [question |-> q, request |-> req, provider |-> ForScreen(req)]
                        /\ reply' = Nothing
       /\ UNCHANGED <<mode, world, mirror, clock, kept>>

-----------------------------------------------------------------------------
(* The handlers.  A section has a status and, but for an empty, a          *)
(* forbidden or a failed one, a value.                                     *)

Bare(status) == [status |-> status, value |-> Nothing]

\* kubeSection, of a value that was read without an error.
KubeSection(provider, value) == [status |-> IF provider.stale THEN "stale" ELSE "ok", value |-> value]

\* What a handler reads of a provider: a field of the data, or the cache.  The
\* methods of RemoteProvider refuse an argument that is not that of the request.
Remote(a, f, name) ==
    IF f # a.request.filter \/ name \notin DOMAIN a.provider.data
    THEN Bare("degraded") ELSE KubeSection(a.provider, a.provider.data[name])

RemoteEvents(a, about, uid, from) ==
    IF about # uid \/ from # a.request.from THEN Bare("degraded")
    ELSE KubeSection(a.provider, a.provider.data["events"])

CentralSection(a, c, f, from, name) ==
    LET data == a.provider.data
        subject == IF a.request.screen \in {"workload", "pod"} THEN data[a.request.screen] ELSE Nothing
    IN CASE name = "nodes" -> KubeSection(a.provider, data["nodes"])
         [] name = "summary" ->
                IF data["summary"] = NotFound THEN Bare("empty") ELSE KubeSection(a.provider, data["summary"])
         [] name \in {"workload", "pod", "owners", "own"} ->
                IF subject = NotFound THEN Bare("empty") ELSE KubeSection(a.provider, data[name])
         [] name = "events" ->
                IF subject = NotFound THEN Bare("empty")
                ELSE IF subject # Nothing
                  THEN RemoteEvents(a, IF a.request.uid = 0 THEN subject.uid ELSE a.request.uid, subject.uid, from)
                ELSE IF f # a.request.filter THEN Bare("degraded") ELSE RemoteEvents(a, 0, 0, from)
         [] OTHER -> Remote(a, f, name)

\* The same section of the cache w: the values that it may have, or its status.
ValuesOf(subject, q, w, f, from, now, name) ==
    CASE name = "events" -> {IF subject = Nothing THEN Events(w, f, from, EventLimit)
                             ELSE EventsForUID(w, subject.uid, from, EventLimit)}
      [] name = "workload" -> {subject}
      [] name = "own" -> {PodsForWorkload(w, q.kind, subject.uid, now)}
      [] name = "pod" -> {PodSummary(w, subject, now)}
      [] name = "owners" -> {IF q.screen = "pod" THEN PodOwnerChain(w, subject)
                             ELSE WorkloadOwnerChain(w, q.kind, subject.uid)}
DirectValuesOf(subject, q, w, f, from, now, name) ==
    CASE name = "nodes" -> {IF q.screen = "nodes" THEN NodeSummaries(w, now) ELSE NodeHealth(w)}
      [] name = "pods" -> {PodHealth(w, f, now)}
      [] name = "workloads" -> {WorkloadHealth(w, f, now)}
      [] name = "unhealthy" -> Unhealthy(w, f, UnhealthyLimit, now)
      [] name = "topology" -> {TopologyPods(w, f, worst, now) : worst \in Unhealthy(w, f, UnhealthyLimit, now)}
      [] name = "namespaces" -> {NamespaceSummaries(w, f, now)}
      [] name = "summary" -> {NamespaceSummary(w, q.ns, now)} \ {NotFound}
      [] name = "list" -> {Workloads(w, f, now)}
      [] OTHER -> IF subject = NotFound THEN {} ELSE ValuesOf(subject, q, w, f, from, now, name)

AskedFor(q, w, now) ==
    CASE q.screen = "workload" -> Workload(w, q.ns, q.kind, q.name, now)
      [] q.screen = "pod" -> Pod(w, q.ns, q.name, q.uid)
      [] OTHER -> Nothing
DirectValues(q, w, f, from, now, name) == DirectValuesOf(AskedFor(q, w, now), q, w, f, from, now, name)

ReadSection(values) ==
    IF values = {} THEN Bare("empty") ELSE [status |-> "ok", value |-> OneOf(values)]

\* handleOverview and the other handlers: the sections, after resolve at the
\* time of the handler.  The nodes are for those who see the whole cluster.
SectionNames(screen) == IF screen = "nodes" THEN {"nodes"} ELSE FieldsOf(screen)
Handled(a) ==
    LET q == a.question
        c == ScopeOf(q.roles)
        f == NamespaceFilter(c, q.ns)
        from == Since(q.range, clock)
        names == SectionNames(q.screen) \ (IF c.all THEN {} ELSE {"nodes"})
    IN [name \in SectionNames(q.screen) |->
           CASE name \notin names -> Bare("forbidden")
             [] name \in names /\ mode = "direct" ->
                    ReadSection(DirectValues(q, world, f, from, clock, name))
             [] name \in names /\ mode # "direct" -> CentralSection(a, c, f, from, name)]

\* Variant: the answer of one user is an answer for every user.
SharedKey(q) == [path |-> <<q.screen, q.ns, q.uid, q.kind, q.name>>, range |-> q.range]

\* cacheKey: the path and the parameters, the scope, and the range: a custom one
\* by its ends, a preset one by its name.
ScreenKey(q) == [path |-> <<q.screen, q.ns, q.uid, q.kind, q.name>>,
                scope |-> ScopeOf(q.roles), range |-> q.range]

\* serve: an answer that is kept is given again.
AnswerScreen ==
    /\ asked # Nothing
    /\ LET q == asked.question
           hit == kept # Nothing /\ kept.key = ScreenKey(q)
       IN /\ reply' = IF hit THEN [kept.answer EXCEPT !.question = q]
                      ELSE [code |-> 200, question |-> q, sections |-> Handled(asked),
                            of |-> IF mode = "direct" THEN world ELSE asked.provider.of,
                            at |-> IF mode = "direct" THEN clock ELSE asked.provider.at]
          /\ kept' = IF hit THEN kept ELSE [key |-> ScreenKey(q), answer |-> reply']
    /\ asked' = Nothing
    /\ UNCHANGED <<mode, world, mirror, clock, opened>>

\* Nothing is looked at after the last screen.
Watched == asked # Nothing \/ opened < MaxScreens

CacheExpires == Watched /\ kept # Nothing /\ kept' = Nothing
                    /\ UNCHANGED <<mode, world, mirror, clock, asked, reply, opened>>

\* A step of Kubernetes, and a snapshot of the agent that the registry commits.
WorldChanges ==
    /\ Watched /\ asked = Nothing
    /\ world' \in World \ {world}
    /\ UNCHANGED <<mode, mirror, clock, asked, reply, kept, opened>>
Mirrored ==
    /\ Watched /\ mode = "central"
    /\ mirror' = [resources |-> SafeProjection(world), stale |-> FALSE, of |-> world]
    /\ UNCHANGED <<mode, world, clock, asked, reply, kept, opened>>
AgentLost ==
    /\ Watched /\ mirror # Nothing
    /\ mirror' = IF mirror.stale THEN Nothing ELSE [mirror EXCEPT !.stale = TRUE]
    /\ UNCHANGED <<mode, world, clock, asked, reply, kept, opened>>
ScreenTick ==
    /\ Watched /\ clock < MaxClock /\ clock' = clock + 1
    /\ UNCHANGED <<mode, world, mirror, asked, reply, kept, opened>>

CentralScreensNext ==
    \/ \E q \in Question : OpenScreen(q)
    \/ AnswerScreen \/ CacheExpires \/ WorldChanges \/ Mirrored \/ AgentLost \/ ScreenTick

CentralScreensSpec == CentralScreensInit /\ [][CentralScreensNext]_screenVars

-----------------------------------------------------------------------------
(* Correctness. *)

ScreenAnswered == reply # Nothing /\ reply.code = 200
SectionShown(section) == section.status \in {"ok", "stale"}

(* What a section shows is what the informer cache itself would have       *)
(* answered, at the time and for the contents that the registry answered   *)
(* from: a field that is pruned, or read for another question, is never    *)
(* shown as if nothing were there (remote_provider.go, ProjectScreen, and  *)
(* the checks of the methods of RemoteProvider).                           *)
ScreensAgree ==
    ScreenAnswered =>
        LET q == reply.question
            f == NamespaceFilter(ScopeOf(q.roles), q.ns)
        IN \A name \in DOMAIN reply.sections :
            LET section == reply.sections[name]
                since == Since(q.range, reply.at)
                values == DirectValues(q, reply.of, f, IF mode = "direct" THEN since ELSE Truncated(since),
                                       reply.at, name)
            IN /\ SectionShown(section) => section.value \in values
               /\ section.status = "empty" => values = {}

(* The namespaces that a user was given.                                   *)
GrantedSpaces(roles) ==
    {ns \in UNION {w.namespaces : w \in World} :
        \E r \in roles :
            LET here == r.cluster = Here \/ (r.cluster = Nothing /\ mode = "direct")
            IN \/ r.name = "platform.admin" /\ r.cluster = Nothing
               \/ r.name = "cluster.viewer" /\ here
               \/ r.name = "namespace.viewer" /\ here /\ r.ns = ns}

(* The rows that a section names, with their namespaces.                   *)
Rows(name, value) ==
    CASE name \in {"unhealthy", "events", "list", "own"} -> {r.ns : r \in value}
      [] name = "topology" -> {r.ns : r \in value.list}
      [] name = "namespaces" -> {r.name : r \in value}
      [] name = "summary" -> {value.name}
      [] name \in {"workload", "pod"} -> {value.ns}
      [] OTHER -> {}

(* No answer, made or kept, names an object of a namespace that the roles  *)
(* of the user do not open, counts one, or shows the nodes to a user of    *)
(* some namespaces (auth/roles.go, namespaceFilter, cacheKey).             *)
NothingBeyondRoles ==
    ScreenAnswered =>
        LET roles == reply.question.roles
            granted == GrantedSpaces(roles)
            everything == granted = UNION {w.namespaces : w \in World}
        IN \A name \in DOMAIN reply.sections :
            LET section == reply.sections[name]
            IN SectionShown(section) =>
                 /\ Rows(name, section.value) \subseteq granted
                 /\ name = "nodes" => \E r \in roles : r.name \in {"platform.admin", "cluster.viewer"}
                 /\ name = "pods" => section.value.counts.total
                                        <= Cardinality({p \in reply.of.pods : p.ns \in granted})

(* A screen that the registry has answered shows its events: the question  *)
(* of the handler is the one that withProvider asked.                      *)
EventsAreShown ==
    ScreenAnswered /\ "events" \in DOMAIN reply.sections => reply.sections["events"].status # "degraded"
=============================================================================
