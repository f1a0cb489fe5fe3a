----------------------------- MODULE AlertGroups -----------------------------
(***************************************************************************)
(* What the Alertmanager source makes of the list it gets (internal/       *)
(* datasource/alertmanager, normalizeAt): an alert counts once, is linked  *)
(* to a pod or a workload of the catalog when its labels leave no doubt,   *)
(* and the alerts of one name, namespace and workload become one group,    *)
(* shown by the member that comes first.  One alert that cannot be right   *)
(* refuses the whole list.  An absent label is 0; texts are numbers.       *)
(***************************************************************************)
EXTENDS Naturals, Sequences, SequencesExt, FiniteSetsExt, Functions

CONSTANTS
    RawAlert,       \* what Alertmanager may list
    MaxListed,      \* the longest list
    PodCatalog,     \* what CatalogPods may give: sequences of pods
    AlertTarget,    \* [namespace, namespaces]: datasource.Target
    AlertNow, Skew  \* the time of the answer; five minutes

\* Fingerprints and times are ordered; a catalog lists its pods.
ASSUME AlertGroupsAssumption ==
    /\ \A a \in RawAlert : a.fingerprint \in Nat /\ a.start \in Nat
    /\ \A c \in PodCatalog : c \in Seq(Range(c))

VARIABLES alertList, alertCatalog, alertTarget, alertGroups

groupingVars == <<alertList, alertCatalog, alertTarget, alertGroups>>

NoLink == [space |-> 0, owner |-> 0, ownerUid |-> 0, pod |-> 0, podUid |-> 0]

TargetAllows(space) ==
    IF alertTarget.namespace # 0 THEN space = alertTarget.namespace
    ELSE alertTarget.namespaces = {} \/ space \in alertTarget.namespaces

\* CatalogPods of the target, and those of them that the target allows: the
\* indices of the catalog at which they are.
PodAt(i) == alertCatalog[i]
ListedPods == {i \in DOMAIN alertCatalog : alertTarget.namespace \in {0, PodAt(i).space}}
AllowedPods == {i \in ListedPods : TargetAllows(PodAt(i).space)}

\* byPodUID and byWorkloadUID keep the last pod with the uid.
LastAt(at) == IF at = {} THEN {} ELSE {PodAt(Max(at))}
LastPod(u) == LastAt({i \in AllowedPods : PodAt(i).uid = u})
LastOfOwner(u) == LastAt({i \in AllowedPods : PodAt(i).ownerUid = u})

\* ambiguousPod looks at every listed pod, ambiguousWorkload at the allowed.
AmbiguousPod(u) ==
    \E i, j \in ListedPods :
        PodAt(i).uid = u /\ PodAt(j).uid = u /\ PodAt(i) # PodAt(j)
AmbiguousOwner(u) ==
    \E p, q \in {PodAt(i) : i \in AllowedPods} :
        /\ p.ownerUid = u /\ q.ownerUid = u
        /\ <<p.space, p.owner>> # <<q.space, q.owner>>

IdentityMatches(a, p) ==
    /\ a.space \in {0, p.space}
    /\ a.pod \in {0, p.name}
    /\ a.owner \in {0, p.owner}

\* The link of normalizeOne, the pod before the workload.
PodLink(a) ==
    {[space |-> p.space, owner |-> p.owner, ownerUid |-> p.ownerUid,
      pod |-> p.name, podUid |-> p.uid] :
        p \in {q \in LastPod(a.podUid) :
                 a.podUid # 0 /\ ~AmbiguousPod(a.podUid) /\ IdentityMatches(a, q)}}
OwnerLink(a) ==
    {[NoLink EXCEPT !.space = p.space, !.owner = p.owner, !.ownerUid = p.ownerUid] :
        p \in {q \in LastOfOwner(a.ownerUid) :
                 a.ownerUid # 0 /\ ~AmbiguousOwner(a.ownerUid) /\ IdentityMatches(a, q)}}

TheLink(links) == CHOOSE l \in links : TRUE
LinkOf(a) ==
    IF PodLink(a) # {} THEN TheLink(PodLink(a))
    ELSE IF OwnerLink(a) # {} THEN TheLink(OwnerLink(a))
    ELSE NoLink

\* What refuses the list: the checks of normalizeAt and of normalizeOne.
\* sound stands for the fields that have to be there, within their bounds.
Acceptable(a) ==
    /\ a.mine
    /\ alertTarget.namespace # 0 \/ alertTarget.namespaces # {}
         => a.space # 0 /\ TargetAllows(a.space)
    /\ a.sound /\ a.name # 0
    /\ a.start <= AlertNow + Skew
    /\ a.end >= a.start /\ a.end >= AlertNow

\* The group of an alert: of its workload, else of its pod, else its own.
GroupOf(a) ==
    LET link == LinkOf(a)
    IN  <<a.name, a.space,
          IF link.ownerUid # 0 THEN <<"owner", link.ownerUid>>
          ELSE IF link.podUid # 0 THEN <<"pod", link.podUid>>
          ELSE <<"alert", a.fingerprint>>>>

\* representativeBefore: the later start first.  StartsAt is compared as a
\* text, in which a whole second (".0" is not written) comes after all of
\* its tenths.
StartText(t) == (t \div 10) * 11 + (IF t % 10 = 0 THEN 10 ELSE t % 10)
RepresentativeBefore(a, b) ==
    \/ StartText(a.start) > StartText(b.start)
    \/ StartText(a.start) = StartText(b.start) /\ a.fingerprint < b.fingerprint

\* One turn of the loop of normalizeAt.  groups maps a group to its
\* representative and size, seen a fingerprint to its alert; the list is
\* refused with errInvalidResponse.
NothingCounted == [refused |-> FALSE, seen |-> << >>, groups |-> << >>]
ListRefused == [refused |-> TRUE, seen |-> << >>, groups |-> << >>]
WithEntry(f, k, v) == [x \in DOMAIN f \cup {k} |-> IF x = k THEN v ELSE f[x]]
CountedIn(acc, a) ==
    LET g == GroupOf(a)
    IN  [refused |-> FALSE,
         seen |-> WithEntry(acc.seen, a.fingerprint, a),
         groups |-> WithEntry(acc.groups, g,
            IF g \notin DOMAIN acc.groups THEN [shown |-> a, size |-> 1]
            ELSE [shown |-> IF RepresentativeBefore(a, acc.groups[g].shown)
                              THEN a ELSE acc.groups[g].shown,
                  size |-> acc.groups[g].size + 1])]

\* Variant: an alert that is listed twice counts twice.
TakeTwice(acc, a) ==
    IF acc.refused \/ ~Acceptable(a) THEN ListRefused ELSE CountedIn(acc, a)

TakeAlert(acc, a) ==
    IF acc.refused \/ ~Acceptable(a) THEN ListRefused
    ELSE IF a.fingerprint \in DOMAIN acc.seen
      THEN IF acc.seen[a.fingerprint] = a THEN acc ELSE ListRefused
    ELSE CountedIn(acc, a)

Normalized(list) == FoldLeft(TakeAlert, NothingCounted, list)

AlertGroupsInit ==
    /\ alertList \in BoundedSeq(RawAlert, MaxListed)
    /\ alertCatalog \in PodCatalog
    /\ alertTarget \in AlertTarget
    /\ alertGroups = << >>

NormalizeAlerts ==
    /\ alertGroups = << >>
    /\ alertGroups' = <<Normalized(alertList)>>
    /\ UNCHANGED <<alertList, alertCatalog, alertTarget>>

AlertGroupsNext == NormalizeAlerts

AlertGroupsSpec == AlertGroupsInit /\ [][AlertGroupsNext]_groupingVars

-----------------------------------------------------------------------------
\* What may be linked, by the catalog alone: every pod that has the uid
\* agrees on what the alert is linked to, one of them agrees with all its
\* labels, and the target may see it.
LinkIsBacked(a) ==
    LET link == LinkOf(a)
        backing == {PodAt(i) : i \in AllowedPods}
    IN  link # NoLink =>
          /\ \E p \in backing : /\ IdentityMatches(a, p)
                                /\ <<p.space, p.owner>> = <<link.space, link.owner>>
          /\ \/ /\ link.podUid = a.podUid
                /\ \A p \in backing : p.uid = a.podUid => p.name = link.pod
             \/ /\ link.ownerUid = a.ownerUid /\ link.pod = 0
                /\ \A p \in backing : p.ownerUid = a.ownerUid =>
                     <<p.space, p.owner>> = <<link.space, link.owner>>

InGroup(all, g) == {a \in all : GroupOf(a) = g}
Contradictory(all) == \/ \E a \in all : ~Acceptable(a)
                      \/ \E a, b \in all : a # b /\ a.fingerprint = b.fingerprint
ExactFor(all, result) ==
    IF Contradictory(all) THEN result = ListRefused
    ELSE /\ ~result.refused /\ DOMAIN result.groups = {GroupOf(a) : a \in all}
         /\ \A a \in all : LinkIsBacked(a)
         /\ \A g \in {GroupOf(a) : a \in all} :
              /\ result.groups[g].size = Cardinality(InGroup(all, g))
              /\ result.groups[g].shown \in InGroup(all, g)
              /\ \A b \in InGroup(all, g) :
                   ~RepresentativeBefore(b, result.groups[g].shown)

\* The groups are those of the set of alerts, whatever their order and
\* however often one is listed: each has the alerts of its name, namespace
\* and workload and is shown by the one that no other comes before; an
\* alert that contradicts another, is malformed or is not the target's
\* refuses the list; a link is one the catalog backs.  (normalizeAt,
\* normalizeOne, identityMatches, representativeBefore.)
GroupsAreExact ==
    alertGroups # << >> =>
      ExactFor({alertList[i] : i \in DOMAIN alertList}, alertGroups[1])
=============================================================================
