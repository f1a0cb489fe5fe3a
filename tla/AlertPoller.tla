----------------------------- MODULE AlertPoller -----------------------------
(***************************************************************************)
(* The source of alert changes (internal/stream/alerts.go): the poller     *)
(* lists the alerts, compares the list with the last complete one and      *)
(* publishes the differences to the hub.                                   *)
(*                                                                         *)
(* Two namespaces meet here.  Where a signal goes is decided by the        *)
(* informer catalog, from the uid of the pod or workload that the alert is *)
(* linked to; a signal without a namespace goes to the whole cluster only. *)
(* What a screen lists is decided by the namespace label of the alert,     *)
(* which the query of its list filters by.  An alert of a label without a  *)
(* known uid is on the screens of its namespace but never told to them.    *)
(*                                                                         *)
(* Alerts, catalog and the health of the source change freely between two  *)
(* polls.  A screen that is told lists at once; what it would see if it    *)
(* listed later, or with a window of its own, is left out.                 *)
(***************************************************************************)
EXTENDS AlertGroups

CONSTANTS
    Alert,          \* ids of alerts
    Uid,            \* uids of pods and workloads
    Unclaimed,      \* the uid of an alert that is linked to nothing
    AlertSpace,     \* namespaces
    ClusterWide,    \* no namespace: "" in the code
    LabelOf,        \* the namespace label of each alert, or ClusterWide
    NamespaceOf,         \* the namespace of each uid
    MaxAlerts,      \* AlertPollerConfig.MaxAlerts
    Interval,       \* AlertPollerConfig.Interval
    MaxBackoff      \* AlertPollerConfig.MaxBackoff

ASSUME AlertPollerAssumption ==
    /\ Unclaimed \notin Uid /\ ClusterWide \notin AlertSpace
    /\ LabelOf \in [Alert -> AlertSpace \cup {ClusterWide}]
    /\ NamespaceOf \in [Uid -> AlertSpace]
    /\ MaxAlerts \in Nat \ {0} /\ Interval \in Nat \ {0} /\ MaxBackoff >= Interval

VARIABLES
    upstream,   \* the alerts that the source would list: id -> [look, claim]
    catalog,    \* the uids that the informers know
    primed,     \* AlertPoller.primed
    snapshot,   \* AlertPoller.snapshot: id -> [look, claim, domain, identity]
    delay,      \* the wait before the next poll
    events,     \* what the last poll published
    screens     \* for each scope, the alerts that it listed when last told

pollVars == <<upstream, catalog, primed, snapshot, delay, events, screens>>

\* What a screen shows of an alert: its status, the text that goes into
\* alertVisibleFingerprint, and the uid that it is linked to.
Look == {"firing", "firing, edited", "resolved"}
Claim == Uid \cup {Unclaimed}
Domain == AlertSpace \cup {ClusterWide}
AlertListed == [look : Look, claim : Claim]
AlertState == [look : Look, claim : Claim, domain : Domain, identity : Claim]
EventRow == [action : {"added", "updated", "deleted"}, id : Alert, domain : Domain]

AlertPollerTypeOK ==
    /\ DOMAIN upstream \subseteq Alert /\ Range(upstream) \subseteq AlertListed
    /\ catalog \subseteq Uid
    /\ primed \in BOOLEAN
    /\ DOMAIN snapshot \subseteq Alert /\ Range(snapshot) \subseteq AlertState
    /\ delay \in Interval .. MaxBackoff
    /\ events \subseteq EventRow

\* A scope is a namespace, or the whole cluster: it is told the signals of its
\* domain, and lists the alerts of its label.
InScope(scope, d) == scope = ClusterWide \/ scope = d
Lists(scope) == {a \in Alert : scope = ClusterWide \/ LabelOf[a] = scope}
Fetched(snap, scope) == Restrict(snap, DOMAIN snap \cap Lists(scope))

AlertPollerInit ==
    /\ upstream = << >> /\ catalog = {}
    /\ primed = FALSE /\ snapshot = << >>
    /\ delay = Interval /\ events = {}
    /\ screens = [s \in Domain |-> << >>]

-----------------------------------------------------------------------------
\* trustedAlertEntity: the uid counts only when the catalog knows it.
Trusted(a) == upstream[a].claim \in catalog
Seen(a) == [look |-> upstream[a].look,
            claim |-> upstream[a].claim,
            domain |-> IF Trusted(a) THEN NamespaceOf[upstream[a].claim] ELSE ClusterWide,
            identity |-> IF Trusted(a) THEN upstream[a].claim ELSE Unclaimed]

\* The lists that PollOnce may compare with: a list over the limit is not
\* complete, and none is.
Complete ==
    IF Cardinality(DOMAIN upstream) > MaxAlerts THEN {}
    ELSE {[a \in DOMAIN upstream |-> Seen(a)]}

\* The events that PollOnce publishes for the difference to current.
Event(action, id, st) == [action |-> action, id |-> id, domain |-> st.domain]
MovedTo(current, id) ==
    \/ snapshot[id].domain # current[id].domain
    \/ snapshot[id].identity # current[id].identity
EditedTo(current, id) ==
    \/ snapshot[id].look # current[id].look
    \/ snapshot[id].claim # current[id].claim

\* Variant: an alert that moved is told to its new namespace only.
DiffOneSided(current) ==
    LET kept == DOMAIN snapshot \cap DOMAIN current
        new == DOMAIN current \ DOMAIN snapshot
        gone == DOMAIN snapshot \ DOMAIN current
        edited == {id \in kept : MovedTo(current, id) \/ EditedTo(current, id)}
    IN  {Event("added", id, current[id]) : id \in new}
        \cup {Event("updated", id, current[id]) : id \in edited}
        \cup {Event("deleted", id, snapshot[id]) : id \in gone}

Diff(current) ==
    LET kept == DOMAIN snapshot \cap DOMAIN current
        new == DOMAIN current \ DOMAIN snapshot
        gone == DOMAIN snapshot \ DOMAIN current
        moved == {id \in kept : MovedTo(current, id)}
        edited == {id \in kept : EditedTo(current, id)}
    IN  {Event("added", id, current[id]) : id \in new}
        \cup {Event("updated", id, current[id]) : id \in moved \cup edited}
        \cup {Event("deleted", id, snapshot[id]) : id \in moved \cup gone}

\* Run: the wait grows with every failure in a row.
PollFails ==
    /\ delay' = Min({2 * delay, MaxBackoff})
    /\ events' = {}
    /\ UNCHANGED <<upstream, catalog, primed, snapshot, screens>>

\* PollOnce with a list over the limit: the last complete one is kept.
PollHeldBack ==
    /\ Complete = {}
    /\ delay' = Interval /\ events' = {}
    /\ UNCHANGED <<upstream, catalog, primed, snapshot, screens>>

\* PollOnce for the first time: what is there is no change; the screens
\* have just been opened.
PollPrimes ==
    /\ ~primed
    /\ \E current \in Complete :
         /\ snapshot' = current
         /\ screens' = [s \in Domain |-> Fetched(current, s)]
    /\ primed' = TRUE /\ delay' = Interval /\ events' = {}
    /\ UNCHANGED <<upstream, catalog>>

\* PollOnce; a screen that is told lists again.
PollDiffs ==
    /\ primed
    /\ \E current \in Complete :
         /\ snapshot' = current
         /\ events' = Diff(current)
         /\ screens' = [s \in Domain |->
              IF \E e \in Diff(current) : InScope(s, e.domain)
                THEN Fetched(current, s) ELSE screens[s]]
    /\ delay' = Interval
    /\ UNCHANGED <<upstream, catalog, primed>>

\* The world between two polls.  The source links an alert only to what is of
\* its label (identityMatches), so the label of an id is the same for ever.
Claimable(a) == {u \in Uid : LabelOf[a] \in {ClusterWide, NamespaceOf[u]}} \cup {Unclaimed}
AlertMoves(a) ==
    /\ \/ \E l \in [look : Look, claim : Claimable(a)] :
             upstream' = [x \in DOMAIN upstream \cup {a} |->
                            IF x = a THEN l ELSE upstream[x]]
       \/ upstream' = Restrict(upstream, DOMAIN upstream \ {a})
    /\ UNCHANGED <<catalog, primed, snapshot, delay, events, screens>>
CatalogMoves(u) ==
    /\ catalog' \in {catalog \cup {u}, catalog \ {u}}
    /\ UNCHANGED <<upstream, primed, snapshot, delay, events, screens>>

AlertPollerNext ==
    \/ PollFails
    \/ PollHeldBack
    \/ PollPrimes
    \/ PollDiffs
    \/ \E a \in Alert : AlertMoves(a)
    \/ \E u \in Uid : CatalogMoves(u)

AlertPollerSpec == AlertPollerInit /\ [][AlertPollerNext]_pollVars

-----------------------------------------------------------------------------
\* A screen is left behind by nothing but what nobody could vouch for: what it
\* listed of an alert when it was last told is what the poller now knows, also
\* when the alert has gained or lost its link since; and a screen of one
\* namespace misses a change only while the catalog backs the alert neither in
\* what the screen has nor in what is known.  (PollOnce, trustedAlertEntity;
\* the filter of List, alertmanager.go.)
AgreeOn(f, g, id) == /\ id \in DOMAIN f <=> id \in DOMAIN g
                     /\ id \in DOMAIN f => f[id] = g[id]
Unbacked(f, id) == id \in DOMAIN f => f[id].domain = ClusterWide
ScreensFollowAlerts ==
    \A s \in Domain : \A id \in Lists(s) :
        \/ AgreeOn(screens[s], snapshot, id)
        \/ s # ClusterWide /\ Unbacked(screens[s], id) /\ Unbacked(snapshot, id)

\* The alerts that a screen has are those of the source: the list becomes the
\* groups of its alerts, and a screen misses no change of them but of an alert
\* that no uid of the catalog backs (alertmanager.go, normalizeAt and List;
\* stream/alerts.go, PollOnce).
AlertsAreRight == GroupsAreExact /\ ScreensFollowAlerts
=============================================================================
