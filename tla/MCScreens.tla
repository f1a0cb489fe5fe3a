------------------------------ MODULE MCScreens ------------------------------
(***************************************************************************)
(* Two contents of a cluster of two namespaces, the roles of five users,   *)
(* and a question for every screen.                                        *)
(***************************************************************************)
EXTENDS CentralScreens

CONSTANTS shop, bank,      \* the namespaces
          elsewhere        \* another cluster

LOCAL Controlled(by, kind, name) == <<[uid |-> by, kind |-> kind, name |-> name, controller |-> TRUE]>>
LOCAL Status(ready, waiting, killed, restarts) ==
    [ready |-> ready, waiting |-> waiting, oomKilled |-> killed, restarts |-> restarts]
LOCAL PodOf(u, ns, name, phase, created, statuses, owners, node) ==
    [uid |-> u, ns |-> ns, name |-> name, phase |-> phase, created |-> created, statuses |-> statuses,
     containers |-> Len(statuses), requested |-> 1, owners |-> owners, node |-> node]
LOCAL WorkloadAs(u, ns, kind, name, desired, ready, moving, stalled) ==
    [uid |-> u, ns |-> ns, kind |-> kind, name |-> name, desired |-> desired, ready |-> ready,
     updated |-> ready, created |-> 0, moving |-> moving, stalled |-> stalled, paused |-> FALSE]
LOCAL SetOf(u, revision) ==
    [uid |-> u, ns |-> shop, name |-> revision, revision |-> revision, owners |-> Controlled(10, "Deployment", 1)]
LOCAL EventOf(u, ns, involved, last) == [uid |-> u, ns |-> ns, involved |-> involved, last |-> last]
LOCAL Node(u, ready, pressure, unschedulable) ==
    [uid |-> u, ready |-> ready, pressure |-> pressure, unschedulable |-> unschedulable]

LOCAL Running == Status(TRUE, "", FALSE, 0)
LOCAL Unready == Status(FALSE, "", FALSE, 0)
LOCAL Crashing == Status(FALSE, "CrashLoopBackOff", FALSE, 2)
LOCAL Killed == Status(TRUE, "", TRUE, 1)

RollingOut ==
    [namespaces |-> {shop, bank},
     nodes |-> {Node(1, TRUE, FALSE, FALSE), Node(2, FALSE, TRUE, FALSE)},
     workloads |-> {WorkloadAs(10, shop, "Deployment", 1, 2, 1, TRUE, FALSE),
                    WorkloadAs(12, bank, "StatefulSet", 1, 1, 0, FALSE, FALSE)},
     sets |-> {SetOf(11, 1)},
     pods |-> {PodOf(21, shop, 1, "Running", 0, <<Running>>, Controlled(11, "ReplicaSet", 1), 1),
               PodOf(22, shop, 2, "Running", 0, <<Running, Crashing>>, Controlled(11, "ReplicaSet", 1), 2),
               PodOf(23, bank, 1, "Pending", 1, <<Unready>>, Controlled(12, "StatefulSet", 1), 1)},
     events |-> {EventOf(31, shop, 22, 0), EventOf(32, shop, 10, 1), EventOf(33, bank, 23, 1)}]

Stuck ==
    [RollingOut EXCEPT
        !.sets = @ \cup {SetOf(13, 2)},
        !.nodes = {Node(1, TRUE, FALSE, TRUE)},
        !.workloads = {WorkloadAs(10, shop, "Deployment", 1, 2, 2, FALSE, TRUE),
                       WorkloadAs(12, bank, "DaemonSet", 2, 2, 1, FALSE, FALSE)},
        !.pods = {PodOf(21, shop, 1, "Running", 0, <<Killed>>, Controlled(11, "ReplicaSet", 1), 1),
                  PodOf(24, shop, 2, "Failed", 1, <<Status(FALSE, "", FALSE, 1)>>,
                        Controlled(13, "ReplicaSet", 2), 1),
                  PodOf(25, bank, 3, "Running", 0, <<Unready>>, <<>>, 1)},
        !.events = {EventOf(34, shop, 24, 2), EventOf(33, bank, 23, 1)}]

MCWorld == {RollingOut, Stuck}

LOCAL RoleOf(name, cluster, ns) == [name |-> name, cluster |-> cluster, ns |-> ns]
MCRoleSet ==
    {{RoleOf("platform.admin", Nothing, Nothing)},
     {RoleOf("cluster.viewer", Here, Nothing), RoleOf("namespace.viewer", Here, shop)},
     {RoleOf("cluster.viewer", Nothing, Nothing), RoleOf("namespace.viewer", Here, bank)},
     {RoleOf("namespace.viewer", Nothing, shop), RoleOf("namespace.viewer", elsewhere, bank)},
     {RoleOf("namespace.viewer", Here, shop), RoleOf("namespace.viewer", Here, bank)}}

LOCAL Preset == [custom |-> FALSE]
LOCAL Custom(from, to) == [custom |-> TRUE, from |-> from, to |-> to]
LOCAL Ask(screen, ns, u, kind, name, range) ==
    {[screen |-> screen, ns |-> ns, uid |-> u, kind |-> kind, name |-> name, range |-> range, roles |-> roles] :
        roles \in MCRoleSet}

MCAgain == Ask("overview", shop, 0, "", 0, Preset)
MCQuestion ==
    UNION {MCAgain, Ask("overview", Nothing, 0, "", 0, Custom(0, 4)), Ask("nodes", Nothing, 0, "", 0, Preset),
           Ask("namespace-list", Nothing, 0, "", 0, Preset), Ask("namespace", bank, 0, "", 0, Custom(0, 4)),
           Ask("topology", Nothing, 0, "", 0, Preset), Ask("topology", shop, 0, "", 0, Preset),
           Ask("workload", shop, 0, "Deployment", 1, Custom(0, 4)),
           Ask("workload", shop, 0, "StatefulSet", 1, Custom(0, 4)),
           Ask("workload", bank, 0, "DaemonSet", 2, Custom(0, 4)),
           Ask("pod", shop, 0, "", 2, Preset), Ask("pod", shop, 22, "", 2, Preset),
           Ask("pod", bank, 0, "", 3, Custom(0, 4)),
           Ask("logs", Nothing, 0, "", 0, Custom(2, 4)), Ask("logs", shop, 0, "", 0, Custom(4, 2))}
=============================================================================
