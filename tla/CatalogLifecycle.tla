-------------------------- MODULE CatalogLifecycle --------------------------
(***************************************************************************)
(* The life of one kind of resource in the catalog: discovery, its         *)
(* informer, its published list and its state, up to Close                 *)
(* (internal/resourcecatalog/catalog.go).                                  *)
(*                                                                         *)
(* One goroutine, the loop, asks discovery from time to time, starts and   *)
(* stops the informer, and publishes lists.  Each informer runs in a       *)
(* goroutine of its own, reports what fails from it, and has a watcher     *)
(* that stops it when the service ends.  Close stops what there is and     *)
(* waits for all of them.                                                  *)
(*                                                                         *)
(* An identity stands for the lifecycle and the generation of an entry:    *)
(* both are counted up by every install and every discard, so two          *)
(* informers never share one while somebody holds it.  Here an identity is *)
(* used again when nobody does.  Left out: the search half of what is      *)
(* published (SearchLeases, SearchDelta) and what the rows are.            *)
(***************************************************************************)
EXTENDS Naturals, FiniteSets

CONSTANTS
    Informer,     \* identities of informers
    NoInformer,
    MaxApiMoves,  \* bound: how often the cluster changes its mind
    MaxHiccups    \* bound: the errors of a watch that works otherwise

\* nil is no informer.
ASSUME LifeAssumption == NoInformer \notin Informer

VARIABLES
    api,        \* how the cluster answers for this resource
    apiMoves, hiccups,
    entry,      \* informer, published (the informer a list was made from), state, dirty
    informers,  \* the goroutines of an informer: run, stopped, synced, handler, watcher
    loop,       \* the goroutine of Start and run
    closing,    \* Close
    ctxDone

lifeVars == <<api, apiMoves, hiccups, entry, informers, loop, closing, ctxDone>>

\* "refused": a LIST is answered by 403 or 406; "failing": it fails otherwise;
\* "noverbs" and "absent" are answers of discovery, which says the same as
\* "absent" when it fails as a whole.
Api == {"ok", "refused", "failing", "noverbs", "absent"}
Terminal == {"forbidden", "unsupported", "missing"}

NotStarted == [run |-> "none", stopped |-> FALSE, synced |-> FALSE, handler |-> "none", watcher |-> "none"]
Loop(at) == [at |-> at, informer |-> NoInformer, after |-> "none", forced |-> FALSE]

CatalogLifecycleInit ==
    /\ api = "ok" /\ apiMoves = 0 /\ hiccups = 0
    /\ entry = [informer |-> NoInformer, published |-> NoInformer, state |-> "missing", dirty |-> FALSE]
    /\ informers = [i \in Informer |-> NotStarted]
    /\ loop = [Loop("refresh") EXCEPT !.forced = TRUE]   \* Start
    /\ closing = "open" /\ ctxDone \in BOOLEAN

-----------------------------------------------------------------------------
\* discard: the entry forgets its informer, which is then told to stop.
DiscardKeeping(e) == [e EXCEPT !.informer = NoInformer]
Discard(e) == [e EXCEPT !.informer = NoInformer, !.published = NoInformer]
StopEntry(state) ==
    /\ entry' = [Discard(entry) EXCEPT !.state = state]
    /\ informers' = [i \in Informer |->
                       IF i = entry.informer THEN [informers[i] EXCEPT !.stopped = TRUE]
                       ELSE informers[i]]
\* stopEntry waits for the end of the informer, or five seconds.

Go(at) == loop' = [loop EXCEPT !.at = at, !.informer = NoInformer, !.forced = @ /\ at # "idle"]
UnchangedCluster == UNCHANGED <<api, apiMoves, hiccups>>
UnchangedEnd == UNCHANGED <<closing, ctxDone>>

\* refresh, reconcile: what the loop does next is decided by discovery.
Refresh ==
    /\ loop.at = "refresh"
    /\ CASE ctxDone -> Go("wait") /\ UNCHANGED <<entry, informers>>
         [] ~ctxDone /\ api \in {"absent", "noverbs"} ->
              /\ StopEntry(entry.state)
              /\ loop' = [loop EXCEPT !.at = "stopping", !.informer = entry.informer,
                                      !.after = IF api = "absent" THEN "missing" ELSE "unsupported"]
         [] ~ctxDone /\ api \notin {"absent", "noverbs"} ->
              /\ Go(IF entry.informer = NoInformer THEN "install" ELSE "wait")
              /\ UNCHANGED <<entry, informers>>
    /\ UnchangedCluster /\ UnchangedEnd

\* startEntry: an informer is made and installed.
FreeInformers == {i \in Informer : informers[i].run # "up" /\ informers[i].watcher \in {"none", "done"}}
InstallInformer ==
    /\ loop.at = "install" /\ FreeInformers # {}
    /\ LET i == CHOOSE i \in FreeInformers : TRUE
       IN /\ entry' = [entry EXCEPT !.informer = i]
          /\ informers' = [informers EXCEPT ![i] = NotStarted]
          /\ loop' = [loop EXCEPT !.at = "spawn", !.informer = i]
    /\ UnchangedCluster /\ UnchangedEnd

\* Its state, and its two goroutines.
MarkedSyncing(e) == IF e.state = "ready" THEN e ELSE [e EXCEPT !.state = "syncing"]
Spawn ==
    /\ loop.at = "spawn"
    /\ entry' = MarkedSyncing(entry)
    /\ informers' = [informers EXCEPT ![loop.informer].run = "up",
                                      ![loop.informer].watcher = "waiting"]
    /\ Go("wait")
    /\ UnchangedCluster /\ UnchangedEnd

StopWaits ==
    /\ loop.at = "stopping"   \* ended, or too late
    /\ entry' = IF loop.after = "none" THEN entry ELSE [entry EXCEPT !.state = loop.after]
    /\ loop' = [loop EXCEPT !.at = IF loop.after = "none" THEN "build" ELSE "wait",
                            !.informer = NoInformer, !.after = "none"]
    /\ UNCHANGED informers /\ UnchangedCluster /\ UnchangedEnd

\* waitForSync, markSynced, in Start only; it may also wait in vain.
WaitForSync ==
    /\ loop.at = "wait"
    /\ entry' = IF /\ loop.forced /\ entry.informer # NoInformer
                   /\ informers[entry.informer].synced /\ entry.state = "syncing"
                THEN [entry EXCEPT !.state = "ready"] ELSE entry
    /\ Go(IF loop.forced THEN "reap" ELSE "idle")
    /\ UNCHANGED informers /\ UnchangedCluster /\ UnchangedEnd

\* reapTerminal
Reap ==
    /\ loop.at = "reap"
    /\ IF entry.state \in Terminal /\ entry.informer # NoInformer
         THEN /\ StopEntry(entry.state)
              /\ loop' = [loop EXCEPT !.at = "stopping", !.informer = entry.informer]
         ELSE Go("build") /\ UNCHANGED <<entry, informers>>
    /\ UnchangedCluster /\ UnchangedEnd

\* rebuildIndexes: what is built from is remembered...
BeginBuild ==
    /\ loop.at = "build"
    /\ LET i == entry.informer
           wanted == /\ i # NoInformer
                     /\ entry.dirty \/ loop.forced \/ entry.published = NoInformer
       IN IF wanted /\ informers[i].synced
            THEN /\ entry' = [entry EXCEPT !.dirty = FALSE]
                 /\ loop' = [loop EXCEPT !.at = "publish", !.informer = i]
            ELSE Go("idle") /\ UNCHANGED entry
    /\ UNCHANGED informers /\ UnchangedCluster /\ UnchangedEnd

\* ... and what was built is published only if it is still so.
PublishAllowed(i) == entry.informer = i
PublishEntry ==
    /\ loop.at = "publish"
    /\ IF PublishAllowed(loop.informer)
         THEN entry' = [entry EXCEPT !.published = loop.informer] /\ Go("published")
         ELSE Go("idle") /\ UNCHANGED entry
    /\ UNCHANGED informers /\ UnchangedCluster /\ UnchangedEnd

\* The state is read, and then it is written.
ReadyAtStart == FALSE
NeedsReady == entry.state = "syncing"
ReadState ==
    /\ loop.at = "published"
    /\ Go(IF NeedsReady THEN "makeReady" ELSE "idle")
    /\ UNCHANGED <<entry, informers>> /\ UnchangedCluster /\ UnchangedEnd
MakeReady ==
    /\ loop.at = "makeReady"
    /\ entry' = [entry EXCEPT !.state = "ready"]
    /\ Go("idle")
    /\ UNCHANGED informers /\ UnchangedCluster /\ UnchangedEnd

\* run: a tick of one of its clocks, or the end.
TickLoop(at) ==
    /\ loop.at = "idle"
    /\ loop' = Loop(at)
    /\ UNCHANGED <<entry, informers>> /\ UnchangedCluster /\ UnchangedEnd
EndLoop ==
    /\ loop.at = "idle" /\ ctxDone
    /\ loop' = Loop("ended")
    /\ UNCHANGED <<entry, informers>> /\ UnchangedCluster /\ UnchangedEnd

-----------------------------------------------------------------------------
\* The goroutine of an informer: it lists, it watches, and it ends when it is
\* told to and is not in its handler.
Working(i) == informers[i].run = "up" /\ informers[i].handler = "none"
Sync(i) ==
    /\ Working(i) /\ api = "ok" /\ ~informers[i].stopped /\ ~informers[i].synced
    /\ informers' = [informers EXCEPT ![i].synced = TRUE]
    /\ entry' = [entry EXCEPT !.dirty = TRUE]
    /\ UNCHANGED loop /\ UnchangedCluster /\ UnchangedEnd
\* An event of the store, of which there are some again at every resync.
Event(i) ==
    /\ Working(i) /\ informers[i].synced /\ ~informers[i].stopped
    /\ entry' = [entry EXCEPT !.dirty = TRUE]
    /\ UNCHANGED <<informers, loop>> /\ UnchangedCluster /\ UnchangedEnd

\* recordWatchError: what will never work is a state at once; for the rest the
\* state is read first, and then it is written.
WatchRefused(i) ==
    /\ Working(i) /\ api = "refused"
    /\ entry' = [entry EXCEPT !.state = "forbidden"]
    /\ UNCHANGED <<informers, loop>> /\ UnchangedCluster /\ UnchangedEnd
WatchFails(i) ==
    /\ Working(i)
    /\ \/ api = "failing" /\ UNCHANGED hiccups
       \/ api = "ok" /\ hiccups < MaxHiccups /\ hiccups' = hiccups + 1
    /\ entry.state # "ready"
    /\ informers' = [informers EXCEPT ![i].handler = "writing"]
    /\ UNCHANGED <<api, apiMoves, entry, loop>> /\ UnchangedEnd
HandlerWrites(i) ==
    /\ informers[i].handler = "writing"
    /\ entry' = [entry EXCEPT !.state = "syncing"]
    /\ informers' = [informers EXCEPT ![i].handler = "none"]
    /\ UNCHANGED loop /\ UnchangedCluster /\ UnchangedEnd

InformerEnds(i) ==
    /\ Working(i) /\ informers[i].stopped
    /\ informers' = [informers EXCEPT ![i].run = "down"]
    /\ UNCHANGED <<entry, loop>> /\ UnchangedCluster /\ UnchangedEnd

\* The watcher of an informer: at the end of the service it stops what the
\* entry has; stopEntry waits for that to end, or five seconds.
WatcherStops(i) ==
    /\ informers[i].watcher = "waiting" /\ ctxDone
    /\ entry' = Discard(entry)
    /\ informers' = [j \in Informer |->
                       [informers[j] EXCEPT !.stopped = @ \/ j = entry.informer,
                                            !.watcher = IF j = i THEN "stopping" ELSE @]]
    /\ UNCHANGED loop /\ UnchangedCluster /\ UnchangedEnd
WatcherEnds(i) ==
    /\ \/ informers[i].watcher = "waiting" /\ informers[i].run = "down"
       \/ informers[i].watcher = "stopping"
    /\ informers' = [informers EXCEPT ![i].watcher = "done"]
    /\ UNCHANGED <<entry, loop>> /\ UnchangedCluster /\ UnchangedEnd

-----------------------------------------------------------------------------
\* The process is told to end, and Close is called.
CancelContext ==
    /\ closing = "open" /\ ~ctxDone
    /\ ctxDone' = TRUE
    /\ UNCHANGED <<entry, informers, loop, closing>> /\ UnchangedCluster
Close ==
    /\ closing = "open" /\ ~loop.forced   \* after Start has returned
    /\ ctxDone' = TRUE /\ closing' = "cancelled"
    /\ UNCHANGED <<entry, informers, loop>> /\ UnchangedCluster
CloseStops ==
    /\ closing = "cancelled"
    /\ StopEntry(entry.state)
    /\ closing' = "waiting"
    /\ UNCHANGED <<loop, ctxDone>> /\ UnchangedCluster
AllEnded == /\ loop.at = "ended"
            /\ \A i \in Informer : informers[i].run # "up" /\ informers[i].watcher \in {"none", "done"}
CloseReturns ==
    /\ closing = "waiting" /\ AllEnded
    /\ closing' = "returned"
    /\ UNCHANGED <<entry, informers, loop, ctxDone>> /\ UnchangedCluster

ChangeApi ==
    /\ apiMoves < MaxApiMoves /\ closing = "open"
    /\ api' \in Api \ {api}
    /\ apiMoves' = apiMoves + 1
    /\ UNCHANGED <<hiccups, entry, informers, loop>> /\ UnchangedEnd

LoopStep == \/ Refresh \/ InstallInformer \/ Spawn \/ StopWaits \/ WaitForSync \/ Reap
            \/ BeginBuild \/ PublishEntry \/ ReadState \/ MakeReady
InformerStep == \E i \in Informer : Sync(i) \/ HandlerWrites(i) \/ WatchRefused(i)
AnEvent == \E i \in Informer : Event(i)
Ending == EndLoop \/ \E i \in Informer : InformerEnds(i)
CloseStep == CloseStops \/ CloseReturns \/ \E i \in Informer : WatcherStops(i) \/ WatcherEnds(i)

CatalogLifecycleNext ==
    \/ LoopStep \/ TickLoop("refresh") \/ TickLoop("reap")
    \/ InformerStep \/ AnEvent \/ \E i \in Informer : WatchFails(i)
    \/ Ending \/ CancelContext \/ Close \/ CloseStep \/ ChangeApi

\* The scheduler runs every goroutine; the clocks tick for ever, and select
\* takes each of them, and the end, again and again; a stopped informer ends, a
\* reflector tries again, and an informer delivers its objects again at every
\* resync.
CatalogLifecycleFairness ==
    /\ WF_lifeVars(LoopStep) /\ WF_lifeVars(InformerStep) /\ WF_lifeVars(CloseStep)
    /\ SF_lifeVars(TickLoop("refresh")) /\ SF_lifeVars(TickLoop("reap"))
    /\ SF_lifeVars(AnEvent) /\ SF_lifeVars(Ending)

CatalogLifecycleSpec ==
    CatalogLifecycleInit /\ [][CatalogLifecycleNext]_lifeVars /\ CatalogLifecycleFairness

-----------------------------------------------------------------------------
\* What is published was made from the informer that runs, and once Close has
\* returned nothing runs and nothing is published.
NothingOutlivesItsInformer ==
    /\ entry.published \in {NoInformer, entry.informer}
    /\ closing = "returned" => AllEnded /\ entry.informer = NoInformer

\* A resource that the cluster serves, and keeps serving, is in the end listed
\* and stays so, whatever happened before; and Close returns.
ServedIsListed ==
    /\ <>[](api = "ok" /\ ~ctxDone) => <>[](entry.state = "ready" /\ entry.published # NoInformer)
    /\ (closing # "open") ~> (closing = "returned")
=============================================================================
