--------------------------- MODULE ExplorerProofs ---------------------------
(***************************************************************************)
(* Proofs about the resource explorer: the life of a catalog entry         *)
(* (CatalogLifecycle), for every number of informers and of moves of the   *)
(* cluster; the detail and the review of an object (ObjectReview), for     *)
(* every number of requests, values and edits; the queue of deltas and its *)
(* budgets (SearchDelta), for every number of partitions, sessions and     *)
(* limits; and the incremental index (PartIndex), for every set of events  *)
(* and every limit of slots, labels and pages.                             *)
(***************************************************************************)
EXTENDS CatalogLifecycle, ObjectReview, SearchDelta, PartIndex, SumLemmas, TLAPS

-----------------------------------------------------------------------------
(* The life of a catalog entry *)

Identity == Informer \cup {NoInformer}

Entry == [informer : Identity, published : Identity, state : {"ready", "syncing"} \cup Terminal,
          dirty : BOOLEAN]

Goroutines == [run : {"none", "up", "down"}, stopped : BOOLEAN, synced : BOOLEAN,
               handler : {"none", "writing"},
               watcher : {"none", "waiting", "stopping", "done"}]

LoopState == [at : {"refresh", "install", "spawn", "stopping", "wait", "reap", "build", "publish",
                    "published", "makeReady", "idle", "ended"},
              informer : Identity, after : {"none", "missing", "unsupported"}, forced : BOOLEAN]

LifeTypeOK ==
  /\ entry \in Entry
  /\ informers \in [Informer -> Goroutines]
  /\ loop \in LoopState
  /\ closing \in {"open", "cancelled", "waiting", "returned"}

\* The informer of the entry runs and has not been told to stop, or the loop is
\* about to start it; nobody installs over one; only an informer that runs has
\* an error to record.
EntryInv ==
  /\ \A i \in Informer : informers[i].handler = "writing" => informers[i].run = "up"
  /\ loop.at = "install" => entry.informer = NoInformer
  /\ loop.at = "spawn" => loop.informer \in Informer
  /\ \A i \in Informer : entry.informer = i =>
       /\ ~informers[i].stopped
       /\ informers[i].run = "up" \/ (loop.at = "spawn" /\ loop.informer = i)

LifeInv == LifeTypeOK /\ EntryInv /\ NothingOutlivesItsInformer

\* The steps of the loop that leave the informers alone, and the rest of an
\* entry that keeps its informer.
LEMMA LifeKept ==
  ASSUME LifeInv, LifeTypeOK', closing # "returned", closing' = closing,
         informers' = informers,
         entry'.informer = entry.informer,
         entry'.published \in {NoInformer, entry.informer},
         loop'.at = "install" => entry.informer = NoInformer,
         loop.at # "spawn", loop'.at # "spawn"
  PROVE  LifeInv'
<1>1. EntryInv'
  <2>1. \A i \in Informer : entry'.informer = i =>
          ~informers'[i].stopped /\ informers'[i].run = "up"
    <3>1. \A i \in Informer : entry.informer = i =>
            ~informers[i].stopped /\ informers[i].run = "up"
      BY DEF LifeInv, EntryInv
    <3> QED
      BY <3>1
  <2>2. \A i \in Informer : informers'[i].handler = "writing" => informers'[i].run = "up"
    BY DEF LifeInv, EntryInv
  <2> QED
    BY <2>1, <2>2 DEF EntryInv
<1>2. NothingOutlivesItsInformer'
  BY DEF NothingOutlivesItsInformer
<1> QED
  BY <1>1, <1>2 DEF LifeInv

LEMMA LifeInvInit == CatalogLifecycleInit => LifeInv
<1> SUFFICES ASSUME CatalogLifecycleInit
             PROVE  LifeInv
  OBVIOUS
<1>1. entry \in Entry /\ informers \in [Informer -> Goroutines]
  BY DEF CatalogLifecycleInit, Entry, Goroutines, Identity, Terminal, NotStarted
<1>2. loop = [at |-> "refresh", informer |-> NoInformer, after |-> "none", forced |-> TRUE]
  BY DEF CatalogLifecycleInit, Loop
<1>3. loop \in LoopState
  BY <1>2 DEF LoopState, Identity
<1>4. \A i \in Informer : ~informers[i].stopped /\ informers[i].handler = "none"
  BY DEF CatalogLifecycleInit, NotStarted
<1>5. EntryInv
  BY <1>2, <1>4, LifeAssumption DEF LifeAssumption, CatalogLifecycleInit, EntryInv
<1> QED
  BY <1>1, <1>3, <1>5 DEF CatalogLifecycleInit, LifeInv, LifeTypeOK, NothingOutlivesItsInformer

\* Once Close has returned nothing is left to move.
LEMMA ReturnedIsFinal ==
  ASSUME LifeInv, CatalogLifecycleNext
  PROVE  closing # "returned"
<1> SUFFICES ASSUME closing = "returned"
             PROVE  FALSE
  OBVIOUS
<1>1. /\ loop.at = "ended"
      /\ \A i \in Informer : informers[i].run # "up" /\ informers[i].watcher \in {"none", "done"}
      /\ \A i \in Informer : informers[i].handler # "writing"
  BY DEF LifeInv, NothingOutlivesItsInformer, AllEnded, EntryInv
<1>2. ~LoopStep /\ ~EndLoop /\ ~TickLoop("refresh") /\ ~TickLoop("reap")
  BY <1>1 DEF LoopStep, Refresh, InstallInformer, Spawn, StopWaits, WaitForSync, Reap, BeginBuild,
       PublishEntry, ReadState, MakeReady, EndLoop, TickLoop
<1>3. ASSUME NEW i \in Informer
      PROVE  /\ ~Sync(i) /\ ~HandlerWrites(i) /\ ~WatchRefused(i) /\ ~Event(i) /\ ~WatchFails(i)
             /\ ~InformerEnds(i) /\ ~WatcherStops(i) /\ ~WatcherEnds(i)
  <2>1. informers[i].run # "up" /\ informers[i].watcher \in {"none", "done"}
        /\ informers[i].handler # "writing"
    BY <1>1
  <2> QED
    BY <2>1 DEF Sync, HandlerWrites, WatchRefused, Event, WatchFails, InformerEnds, WatcherStops,
         WatcherEnds, Working
<1>4. ~CancelContext /\ ~Close /\ ~CloseStops /\ ~CloseReturns /\ ~ChangeApi
  BY DEF CancelContext, Close, CloseStops, CloseReturns, ChangeApi
<1> QED
  BY <1>2, <1>3, <1>4 DEF CatalogLifecycleNext, InformerStep, AnEvent, Ending, CloseStep

Ats == {"refresh", "install", "spawn", "stopping", "wait", "reap", "build", "publish",
        "published", "makeReady", "idle", "ended"}

LEMMA GoType ==
  ASSUME loop \in LoopState, NEW at \in Ats, Go(at)
  PROVE  loop' \in LoopState /\ loop'.at = at
<1>1. loop.forced \in BOOLEAN /\ (loop.forced /\ at # "idle") \in BOOLEAN
  BY DEF LoopState
<1> QED
  BY <1>1 DEF Go, LoopState, Ats, Identity

\* An entry that is discarded has no informer; what it had is told to stop.
LEMMA StopEntryKeeps ==
  ASSUME LifeInv, NEW s \in {"ready", "syncing"} \cup Terminal, StopEntry(s),
         loop' \in LoopState, loop'.at = "spawn" => loop'.informer \in Informer,
         closing' \in {"open", "cancelled", "waiting"}
  PROVE  LifeInv'
<1>1. entry \in Entry /\ informers \in [Informer -> Goroutines]
  BY DEF LifeInv, LifeTypeOK
<1>2. /\ entry'.informer = NoInformer /\ entry'.published = NoInformer /\ entry' \in Entry
  BY <1>1 DEF StopEntry, Discard, Entry, Identity
<1>3. \A i \in Informer :
        /\ informers'[i] \in Goroutines
        /\ informers'[i].run = informers[i].run /\ informers'[i].handler = informers[i].handler
  BY <1>1 DEF StopEntry, Goroutines
<1>4. informers' \in [Informer -> Goroutines]
  BY <1>3 DEF StopEntry
<1>5. EntryInv'
  BY <1>2, <1>3, LifeAssumption DEF LifeInv, EntryInv, LifeAssumption
<1>6. LifeTypeOK'
  BY <1>2, <1>4 DEF LifeTypeOK
<1> QED
  BY <1>2, <1>5, <1>6 DEF LifeInv, NothingOutlivesItsInformer

\* The loop goes on, and the entry keeps its informer.
LEMMA GoKeeps ==
  ASSUME LifeInv, closing # "returned", closing' = closing, informers' = informers,
         NEW at \in Ats \ {"spawn"}, Go(at), loop.at # "spawn",
         at = "install" => entry.informer = NoInformer,
         entry' \in Entry, entry'.informer = entry.informer,
         entry'.published \in {NoInformer, entry.informer}
  PROVE  LifeInv'
<1>1. loop' \in LoopState /\ loop'.at = at
  BY GoType DEF LifeInv, LifeTypeOK
<1>2. LifeTypeOK'
  BY <1>1 DEF LifeInv, LifeTypeOK
<1> QED
  BY <1>1, <1>2, LifeKept

LEMMA InstallKeeps ==
  ASSUME LifeInv, InstallInformer
  PROVE  LifeInv'
<1>1. entry \in Entry /\ informers \in [Informer -> Goroutines] /\ loop \in LoopState
      /\ entry.informer = NoInformer /\ entry.published = NoInformer
      /\ closing \in {"open", "cancelled", "waiting", "returned"} /\ loop.at = "install"
  BY DEF LifeInv, LifeTypeOK, NothingOutlivesItsInformer, EntryInv, InstallInformer
<1>2. PICK i \in FreeInformers :
        /\ entry' = [entry EXCEPT !.informer = i]
        /\ informers' = [informers EXCEPT ![i] = NotStarted]
        /\ loop' = [loop EXCEPT !.at = "spawn", !.informer = i]
        /\ closing' = closing
  BY DEF InstallInformer, UnchangedEnd
<1>3. i \in Informer
  BY DEF FreeInformers
<1>4. /\ entry' \in Entry /\ entry'.informer = i /\ entry'.published = NoInformer
      /\ loop' \in LoopState /\ loop'.at = "spawn" /\ loop'.informer = i
  BY <1>1, <1>2, <1>3 DEF Entry, LoopState, Identity
<1>5. NotStarted \in Goroutines /\ ~NotStarted.stopped /\ NotStarted.handler = "none"
  BY DEF NotStarted, Goroutines
<1>6. informers' \in [Informer -> Goroutines] /\ informers'[i] = NotStarted
      /\ \A j \in Informer \ {i} : informers'[j] = informers[j]
  BY <1>1, <1>2, <1>3, <1>5
<1>7. EntryInv'
  <2>1. \A j \in Informer : informers'[j].handler = "writing" => informers'[j].run = "up"
    BY <1>5, <1>6 DEF LifeInv, EntryInv
  <2> QED
    BY <2>1, <1>3, <1>4, <1>5, <1>6 DEF EntryInv
<1>8. closing # "returned"
  BY <1>1 DEF LifeInv, NothingOutlivesItsInformer, AllEnded
<1> QED
  BY <1>1, <1>2, <1>4, <1>6, <1>7, <1>8 DEF LifeInv, LifeTypeOK, NothingOutlivesItsInformer

LEMMA SpawnKeeps ==
  ASSUME LifeInv, Spawn
  PROVE  LifeInv'
<1> DEFINE i == loop.informer
<1>1. entry \in Entry /\ informers \in [Informer -> Goroutines] /\ loop \in LoopState
      /\ i \in Informer /\ loop.at = "spawn"
      /\ closing \in {"open", "cancelled", "waiting", "returned"}
  BY DEF LifeInv, LifeTypeOK, EntryInv, Spawn
<1>2. /\ entry' \in Entry /\ entry'.informer = entry.informer
      /\ entry'.published = entry.published
  BY <1>1 DEF Spawn, MarkedSyncing, Entry
<1>3. loop' \in LoopState /\ loop'.at = "wait" /\ closing' = closing
  BY <1>1, GoType DEF Spawn, Ats, UnchangedEnd
<1>4. informers' = [informers EXCEPT ![i].run = "up", ![i].watcher = "waiting"]
  BY DEF Spawn
<1>5. /\ informers' \in [Informer -> Goroutines] /\ informers'[i].run = "up"
      /\ informers'[i].stopped = informers[i].stopped
      /\ informers'[i].handler = informers[i].handler
      /\ \A j \in Informer \ {i} : informers'[j] = informers[j]
  BY <1>1, <1>4 DEF Goroutines
<1>6. EntryInv'
  <2>1. \A j \in Informer : informers'[j].handler = "writing" => informers'[j].run = "up"
    BY <1>5 DEF LifeInv, EntryInv
  <2>2. \A j \in Informer : entry'.informer = j =>
          ~informers'[j].stopped /\ informers'[j].run = "up"
    <3>1. \A j \in Informer : informers'[j].stopped = informers[j].stopped
      BY <1>5
    <3>2. \A j \in Informer \ {i} : entry.informer = j =>
            ~informers[j].stopped /\ informers[j].run = "up"
      BY DEF LifeInv, EntryInv
    <3>3. entry.informer = i => ~informers[i].stopped
      BY <1>1 DEF LifeInv, EntryInv
    <3> QED
      BY <1>2, <1>5, <3>2, <3>3
  <2> QED
    BY <1>3, <2>1, <2>2 DEF EntryInv
<1>7. closing # "returned"
  BY <1>1 DEF LifeInv, NothingOutlivesItsInformer, AllEnded
<1> QED
  BY <1>2, <1>3, <1>5, <1>6, <1>7 DEF LifeInv, LifeTypeOK, NothingOutlivesItsInformer

LEMMA LoopKeeps ==
  ASSUME LifeInv, LoopStep, closing # "returned"
  PROVE  LifeInv'
<1>1. entry \in Entry /\ informers \in [Informer -> Goroutines] /\ loop \in LoopState
      /\ entry.published \in {NoInformer, entry.informer} /\ entry.informer \in Identity
      /\ entry.state \in {"ready", "syncing"} \cup Terminal
      /\ closing \in {"open", "cancelled", "waiting"}
  BY DEF LifeInv, LifeTypeOK, NothingOutlivesItsInformer, Entry
<1>2. CASE Refresh
  <2>1. closing' = closing /\ loop.at = "refresh"
    BY <1>2 DEF Refresh, UnchangedEnd
  <2>2. CASE ctxDone
    <3>1. Go("wait") /\ UNCHANGED <<entry, informers>>
      BY <1>2, <2>2 DEF Refresh
    <3> QED
      BY <1>1, <2>1, <3>1, GoKeeps DEF Ats
  <2>3. CASE ~ctxDone /\ api \notin {"absent", "noverbs"}
    <3>1. PICK at \in {"wait", "install"} :
            /\ Go(at) /\ UNCHANGED <<entry, informers>>
            /\ at = "install" => entry.informer = NoInformer
      BY <1>2, <2>3 DEF Refresh
    <3> QED
      BY <1>1, <2>1, <3>1, GoKeeps DEF Ats
  <2>4. CASE ~ctxDone /\ api \in {"absent", "noverbs"}
    <3>1. /\ StopEntry(entry.state)
          /\ loop' = [loop EXCEPT !.at = "stopping", !.informer = entry.informer,
                                  !.after = IF api = "absent" THEN "missing" ELSE "unsupported"]
      BY <1>2, <2>4 DEF Refresh
    <3>2. loop' \in LoopState /\ loop'.at = "stopping"
      BY <1>1, <3>1 DEF LoopState
    <3> QED
      BY <1>1, <2>1, <3>1, <3>2, StopEntryKeeps
  <2> QED
    BY <2>2, <2>3, <2>4
<1>3. CASE StopWaits
  <2>1. /\ closing' = closing /\ loop.at = "stopping" /\ informers' = informers
        /\ entry' = IF loop.after = "none" THEN entry ELSE [entry EXCEPT !.state = loop.after]
        /\ loop' = [loop EXCEPT !.at = IF loop.after = "none" THEN "build" ELSE "wait",
                                !.informer = NoInformer, !.after = "none"]
    BY <1>3 DEF StopWaits, UnchangedEnd
  <2>2. loop' \in LoopState /\ loop'.at \in {"build", "wait"}
    BY <1>1, <2>1 DEF LoopState, Identity
  <2>3. /\ entry' \in Entry /\ entry'.informer = entry.informer
        /\ entry'.published = entry.published
    <3>1. CASE loop.after = "none"
      BY <1>1, <2>1, <3>1
    <3>2. CASE loop.after # "none"
      <4>1. loop.after \in Terminal
        BY <1>1, <3>2 DEF LoopState, Terminal
      <4> QED
        BY <1>1, <2>1, <3>2, <4>1 DEF Entry
    <3> QED
      BY <3>1, <3>2
  <2>4. LifeTypeOK'
    BY <1>1, <2>1, <2>2, <2>3 DEF LifeTypeOK
  <2> QED
    BY <1>1, <2>1, <2>2, <2>3, <2>4, LifeKept
<1>4. CASE WaitForSync
  <2>1. PICK at \in {"reap", "idle"} : Go(at)
    BY <1>4 DEF WaitForSync
  <2>2. /\ closing' = closing /\ loop.at = "wait" /\ informers' = informers
        /\ entry' = entry \/ entry' = [entry EXCEPT !.state = "ready"]
    BY <1>4 DEF WaitForSync, UnchangedEnd
  <2>3. /\ entry' \in Entry /\ entry'.informer = entry.informer
        /\ entry'.published = entry.published
    BY <1>1, <2>2 DEF Entry
  <2> QED
    BY <1>1, <2>1, <2>2, <2>3, GoKeeps DEF Ats
<1>5. CASE Reap
  <2>1. closing' = closing /\ loop.at = "reap"
    BY <1>5 DEF Reap, UnchangedEnd
  <2>2. CASE entry.state \in Terminal /\ entry.informer # NoInformer
    <3>1. /\ StopEntry(entry.state)
          /\ loop' = [loop EXCEPT !.at = "stopping", !.informer = entry.informer]
      BY <1>5, <2>2 DEF Reap
    <3>2. loop' \in LoopState /\ loop'.at = "stopping"
      BY <1>1, <3>1 DEF LoopState
    <3> QED
      BY <1>1, <2>1, <3>1, <3>2, StopEntryKeeps
  <2>3. CASE ~(entry.state \in Terminal /\ entry.informer # NoInformer)
    <3>1. Go("build") /\ UNCHANGED <<entry, informers>>
      BY <1>5, <2>3 DEF Reap
    <3> QED
      BY <1>1, <2>1, <3>1, GoKeeps DEF Ats
  <2> QED
    BY <2>2, <2>3
<1>6. CASE BeginBuild
  <2>1. /\ closing' = closing /\ loop.at = "build" /\ informers' = informers
        /\ \/ /\ entry' = [entry EXCEPT !.dirty = FALSE]
              /\ loop' = [loop EXCEPT !.at = "publish", !.informer = entry.informer]
           \/ Go("idle") /\ UNCHANGED entry
    BY <1>6 DEF BeginBuild, UnchangedEnd
  <2>2. CASE /\ entry' = [entry EXCEPT !.dirty = FALSE]
             /\ loop' = [loop EXCEPT !.at = "publish", !.informer = entry.informer]
    <3>1. /\ loop' \in LoopState /\ loop'.at = "publish"
          /\ entry' \in Entry /\ entry'.informer = entry.informer
          /\ entry'.published = entry.published
      BY <1>1, <2>2 DEF LoopState, Entry
    <3>2. LifeTypeOK'
      BY <1>1, <2>1, <3>1 DEF LifeTypeOK
    <3> QED
      BY <1>1, <2>1, <3>1, <3>2, LifeKept
  <2>3. CASE Go("idle") /\ UNCHANGED entry
    BY <1>1, <2>1, <2>3, GoKeeps DEF Ats
  <2> QED
    BY <2>1, <2>2, <2>3
<1>7. CASE PublishEntry
  <2>1. /\ closing' = closing /\ loop.at = "publish" /\ informers' = informers
    BY <1>7 DEF PublishEntry, UnchangedEnd
  <2>2. CASE PublishAllowed(loop.informer)
    <3>1. entry' = [entry EXCEPT !.published = entry.informer] /\ Go("published")
      BY <1>7, <2>2 DEF PublishEntry, PublishAllowed
    <3>2. /\ entry' \in Entry /\ entry'.informer = entry.informer
          /\ entry'.published = entry.informer
      BY <1>1, <3>1 DEF Entry
    <3> QED
      BY <1>1, <2>1, <3>1, <3>2, GoKeeps DEF Ats
  <2>3. CASE ~PublishAllowed(loop.informer)
    <3>1. Go("idle") /\ UNCHANGED entry
      BY <1>7, <2>3 DEF PublishEntry
    <3> QED
      BY <1>1, <2>1, <3>1, GoKeeps DEF Ats
  <2> QED
    BY <2>2, <2>3
<1>8. CASE ReadState
  <2>1. PICK at \in {"makeReady", "idle"} : Go(at)
    BY <1>8 DEF ReadState
  <2>2. closing' = closing /\ loop.at = "published" /\ informers' = informers /\ entry' = entry
    BY <1>8 DEF ReadState, UnchangedEnd
  <2> QED
    BY <1>1, <2>1, <2>2, GoKeeps DEF Ats
<1>9. CASE MakeReady
  <2>1. /\ closing' = closing /\ loop.at = "makeReady" /\ informers' = informers
        /\ entry' = [entry EXCEPT !.state = "ready"] /\ Go("idle")
    BY <1>9 DEF MakeReady, UnchangedEnd
  <2>2. /\ entry' \in Entry /\ entry'.informer = entry.informer
        /\ entry'.published = entry.published
    BY <1>1, <2>1 DEF Entry
  <2> QED
    BY <1>1, <2>1, <2>2, GoKeeps DEF Ats
<1> QED
  BY <1>2, <1>3, <1>4, <1>5, <1>6, <1>7, <1>8, <1>9, InstallKeeps, SpawnKeeps DEF LoopStep

\* A step of a goroutine of an informer, other than its end: the entry keeps its
\* informer.
LEMMA GoroutinesKeep ==
  ASSUME LifeInv, loop' = loop, closing' \in {"open", "cancelled", "waiting"},
         informers' \in [Informer -> Goroutines],
         entry' \in Entry, entry'.informer = entry.informer, entry'.published = entry.published,
         \A j \in Informer : informers'[j].handler = "writing" => informers'[j].run = "up",
         \A j \in Informer : entry.informer = j =>
           informers'[j].stopped = informers[j].stopped /\ informers'[j].run = informers[j].run
  PROVE  LifeInv'
<1>1. EntryInv'
  BY DEF LifeInv, EntryInv
<1>2. LifeTypeOK'
  BY DEF LifeInv, LifeTypeOK
<1> QED
  BY <1>1, <1>2 DEF LifeInv, NothingOutlivesItsInformer

LEMMA InformerKeeps ==
  ASSUME LifeInv, closing # "returned", NEW i \in Informer,
         \/ Sync(i) \/ HandlerWrites(i) \/ WatchRefused(i) \/ Event(i) \/ WatchFails(i)
         \/ InformerEnds(i) \/ WatcherEnds(i)
  PROVE  LifeInv'
<1>1. /\ entry \in Entry /\ informers \in [Informer -> Goroutines]
      /\ closing \in {"open", "cancelled", "waiting"}
      /\ \A j \in Informer : informers[j].handler = "writing" => informers[j].run = "up"
      /\ \A j \in Informer : entry.informer = j => ~informers[j].stopped
  BY DEF LifeInv, LifeTypeOK, EntryInv
<1>2. loop' = loop /\ closing' = closing
  BY DEF Sync, HandlerWrites, WatchRefused, Event, WatchFails, InformerEnds, WatcherEnds,
         UnchangedEnd
<1>3. CASE Sync(i)
  <2>1. /\ informers' = [informers EXCEPT ![i].synced = TRUE]
        /\ entry' = [entry EXCEPT !.dirty = TRUE]
    BY <1>3 DEF Sync
  <2>2. /\ entry' \in Entry /\ entry'.informer = entry.informer
        /\ entry'.published = entry.published
    BY <1>1, <2>1 DEF Entry
  <2>3. /\ informers' \in [Informer -> Goroutines]
        /\ \A j \in Informer :
             /\ informers'[j].stopped = informers[j].stopped /\ informers'[j].run = informers[j].run
             /\ informers'[j].handler = informers[j].handler
    BY <1>1, <2>1 DEF Goroutines
  <2> QED
    BY <1>1, <1>2, <2>2, <2>3, GoroutinesKeep
<1>4. CASE HandlerWrites(i)
  <2>1. /\ informers' = [informers EXCEPT ![i].handler = "none"]
        /\ entry' = [entry EXCEPT !.state = "syncing"]
    BY <1>4 DEF HandlerWrites
  <2>2. /\ entry' \in Entry /\ entry'.informer = entry.informer
        /\ entry'.published = entry.published
    BY <1>1, <2>1 DEF Entry
  <2>3. /\ informers' \in [Informer -> Goroutines]
        /\ \A j \in Informer :
             /\ informers'[j].stopped = informers[j].stopped /\ informers'[j].run = informers[j].run
             /\ informers'[j].handler = "writing" => informers[j].handler = "writing"
    BY <1>1, <2>1 DEF Goroutines
  <2> QED
    BY <1>1, <1>2, <2>2, <2>3, GoroutinesKeep
<1>5. CASE WatchRefused(i) \/ Event(i)
  <2>1. /\ informers' = informers
        /\ entry' = [entry EXCEPT !.dirty = TRUE] \/ entry' = [entry EXCEPT !.state = "forbidden"]
    BY <1>5 DEF WatchRefused, Event
  <2>2. /\ entry' \in Entry /\ entry'.informer = entry.informer
        /\ entry'.published = entry.published
    BY <1>1, <2>1 DEF Entry, Terminal
  <2> QED
    BY <1>1, <1>2, <2>1, <2>2, GoroutinesKeep
<1>6. CASE WatchFails(i)
  <2>1. /\ informers' = [informers EXCEPT ![i].handler = "writing"] /\ entry' = entry
        /\ informers[i].run = "up"
    BY <1>6 DEF WatchFails, Working
  <2>2. /\ informers' \in [Informer -> Goroutines]
        /\ \A j \in Informer :
             /\ informers'[j].stopped = informers[j].stopped /\ informers'[j].run = informers[j].run
             /\ informers'[j].handler = "writing" => informers[j].handler = "writing" \/ j = i
    BY <1>1, <2>1 DEF Goroutines
  <2> QED
    BY <1>1, <1>2, <2>1, <2>2, GoroutinesKeep
<1>7. CASE InformerEnds(i)
  <2>1. /\ informers' = [informers EXCEPT ![i].run = "down"] /\ entry' = entry
        /\ informers[i].stopped /\ informers[i].handler = "none"
    BY <1>7 DEF InformerEnds, Working
  <2>2. /\ informers' \in [Informer -> Goroutines]
        /\ \A j \in Informer :
             /\ informers'[j].stopped = informers[j].stopped
             /\ j # i => informers'[j].run = informers[j].run
             /\ informers'[j].handler = informers[j].handler
    BY <1>1, <2>1 DEF Goroutines
  <2>3. \A j \in Informer : informers'[j].handler = "writing" => informers'[j].run = "up"
    BY <1>1, <2>1, <2>2
  <2>4. \A j \in Informer : entry.informer = j => j # i
    BY <1>1, <2>1
  <2> QED
    BY <1>1, <1>2, <2>1, <2>2, <2>3, <2>4, GoroutinesKeep
<1>8. CASE WatcherEnds(i)
  <2>1. informers' = [informers EXCEPT ![i].watcher = "done"] /\ entry' = entry
    BY <1>8 DEF WatcherEnds
  <2>2. /\ informers' \in [Informer -> Goroutines]
        /\ \A j \in Informer :
             /\ informers'[j].stopped = informers[j].stopped /\ informers'[j].run = informers[j].run
             /\ informers'[j].handler = informers[j].handler
    BY <1>1, <2>1 DEF Goroutines
  <2> QED
    BY <1>1, <1>2, <2>1, <2>2, GoroutinesKeep
<1> QED
  BY <1>3, <1>4, <1>5, <1>6, <1>7, <1>8

LEMMA WatcherStopsKeeps ==
  ASSUME LifeInv, closing # "returned", NEW i \in Informer, WatcherStops(i)
  PROVE  LifeInv'
<1>1. /\ entry \in Entry /\ informers \in [Informer -> Goroutines]
      /\ closing \in {"open", "cancelled", "waiting"} /\ loop' = loop /\ closing' = closing
  BY DEF LifeInv, LifeTypeOK, WatcherStops, UnchangedEnd
<1>2. /\ entry'.informer = NoInformer /\ entry'.published = NoInformer /\ entry' \in Entry
  BY <1>1 DEF WatcherStops, Discard, Entry, Identity
<1>3. informers' = [j \in Informer |->
                     [informers[j] EXCEPT !.stopped = @ \/ j = entry.informer,
                                          !.watcher = IF j = i THEN "stopping" ELSE @]]
  BY DEF WatcherStops
<1>4. ASSUME NEW j \in Informer
      PROVE  /\ informers'[j] \in Goroutines
             /\ informers'[j].run = informers[j].run
             /\ informers'[j].handler = informers[j].handler
  <2> DEFINE s == informers[j].stopped \/ j = entry.informer
             w == IF j = i THEN "stopping" ELSE informers[j].watcher
  <2>1. informers'[j] = [informers[j] EXCEPT !.stopped = s, !.watcher = w]
    BY <1>3
  <2>2. s \in BOOLEAN /\ w \in {"none", "waiting", "stopping", "done"}
    BY <1>1 DEF Goroutines
  <2>3. informers[j] \in Goroutines
    BY <1>1
  <2> HIDE DEF s, w
  <2> QED
    BY <2>1, <2>2, <2>3 DEF Goroutines
<1>5. informers' \in [Informer -> Goroutines]
  BY <1>3, <1>4
<1>6. EntryInv'
  BY <1>1, <1>2, <1>4, LifeAssumption DEF LifeInv, EntryInv, LifeAssumption
<1>7. LifeTypeOK'
  BY <1>1, <1>2, <1>5 DEF LifeInv, LifeTypeOK
<1> QED
  BY <1>1, <1>2, <1>6, <1>7 DEF LifeInv, NothingOutlivesItsInformer

LEMMA CloseKeeps ==
  ASSUME LifeInv, closing # "returned",
         CancelContext \/ Close \/ CloseStops \/ CloseReturns \/ ChangeApi
  PROVE  LifeInv'
<1>1. /\ entry \in Entry /\ informers \in [Informer -> Goroutines] /\ loop \in LoopState
      /\ closing \in {"open", "cancelled", "waiting"}
      /\ \A j \in Informer : informers[j].handler = "writing" => informers[j].run = "up"
      /\ entry.state \in {"ready", "syncing"} \cup Terminal
      /\ loop.at = "spawn" => loop.informer \in Informer
  BY DEF LifeInv, LifeTypeOK, EntryInv, Entry
<1>2. CASE CancelContext \/ Close \/ ChangeApi
  <2>1. /\ UNCHANGED <<entry, informers, loop>> /\ closing' \in {"open", "cancelled", "waiting"}
    BY <1>1, <1>2 DEF CancelContext, Close, ChangeApi, UnchangedEnd
  <2> QED
    BY <1>1, <2>1, GoroutinesKeep
<1>3. CASE CloseStops
  <2>1. StopEntry(entry.state) /\ loop' = loop /\ closing' = "waiting"
    BY <1>3 DEF CloseStops
  <2> QED
    BY <1>1, <2>1, StopEntryKeeps
<1>4. CASE CloseReturns
  <2>1. UNCHANGED <<entry, informers, loop>> /\ closing' = "returned" /\ AllEnded
    BY <1>4 DEF CloseReturns
  <2>2. entry.informer = NoInformer
    BY <2>1, <1>1 DEF LifeInv, EntryInv, AllEnded, Entry, Identity
  <2>3. EntryInv' /\ LifeTypeOK'
    BY <1>1, <2>1 DEF LifeInv, EntryInv, LifeTypeOK
  <2>4. AllEnded'
    BY <2>1 DEF AllEnded
  <2> QED
    BY <2>1, <2>2, <2>3, <2>4 DEF LifeInv, NothingOutlivesItsInformer
<1> QED
  BY <1>2, <1>3, <1>4

LEMMA LifeInvStep == LifeInv /\ [CatalogLifecycleNext]_lifeVars => LifeInv'
<1> SUFFICES ASSUME LifeInv, [CatalogLifecycleNext]_lifeVars
             PROVE  LifeInv'
  OBVIOUS
<1>1. CASE UNCHANGED lifeVars
  BY <1>1 DEF lifeVars, LifeInv, LifeTypeOK, EntryInv, NothingOutlivesItsInformer, AllEnded
<1>2. CASE CatalogLifecycleNext
  <2>1. closing # "returned"
    BY <1>2, ReturnedIsFinal
  <2>2. CASE LoopStep
    BY <2>1, <2>2, LoopKeeps
  <2>3. CASE TickLoop("refresh") \/ TickLoop("reap") \/ EndLoop
    <3>1. PICK at \in {"refresh", "reap", "ended"} : loop' = Loop(at)
      BY <2>3 DEF TickLoop, EndLoop
    <3>2. loop' \in LoopState /\ loop'.at = at
      BY <3>1 DEF Loop, LoopState, Identity
    <3>3. UNCHANGED <<entry, informers, closing>> /\ loop.at = "idle"
      BY <2>3 DEF TickLoop, EndLoop, UnchangedEnd
    <3>4. LifeTypeOK' /\ entry.published \in {NoInformer, entry.informer}
      BY <3>2, <3>3 DEF LifeInv, LifeTypeOK, NothingOutlivesItsInformer
    <3> QED
      BY <2>1, <3>2, <3>3, <3>4, LifeKept
  <2>4. CASE InformerStep \/ AnEvent \/ \E i \in Informer : WatchFails(i) \/ InformerEnds(i)
    BY <2>1, <2>4, InformerKeeps DEF InformerStep, AnEvent
  <2>5. CASE CloseStep \/ CancelContext \/ Close \/ ChangeApi
    BY <2>1, <2>5, InformerKeeps, WatcherStopsKeeps, CloseKeeps DEF CloseStep
  <2> QED
    BY <1>2, <2>2, <2>3, <2>4, <2>5 DEF CatalogLifecycleNext, Ending
<1> QED
  BY <1>1, <1>2

\* The inductive invariant: the informer that the entry has runs, or is about
\* to, and has not been told to stop (startEntry and discard, catalog.go).
THEOREM LifeInvHolds == CatalogLifecycleSpec => []LifeInv
<1> QED
  BY LifeInvInit, LifeInvStep, PTL DEF CatalogLifecycleSpec

\* What is published was made from the informer that runs, and when Close has
\* returned no goroutine runs, nothing is published and nothing can start again
\* (startEntry, stopEntry, rebuildIndexes and Close, catalog.go).
THEOREM NothingOutlives == CatalogLifecycleSpec => []NothingOutlivesItsInformer
<1>1. LifeInv => NothingOutlivesItsInformer
  BY DEF LifeInv
<1> QED
  BY <1>1, LifeInvHolds, PTL

-----------------------------------------------------------------------------
(* The detail and the review of an object *)

ObjectState == [uid : Nat \cup {NoUid}, value : FieldValues \cup {1, NoUid}, owned : BOOLEAN]

Asking == [at : {"get", "patch"}, kind : Kinds, uid : Nat, rv : Nat, value : FieldValues \cup {1},
           live : Nat]

Answer == [at : {"done"}, outcome : {"none"}]
            \cup [at : {"done"}, outcome : {"detail", "changed", "unchanged", "rejected"},
                  uid : Nat, rv : Nat, value : FieldValues \cup {1}, live : Nat, on : Nat]

GuardBudgets == [tokens : Nat, inflight : Nat]

ReviewTypeOK ==
  /\ versions \in Seq(ObjectState) /\ Latest >= 1
  /\ asks \in [Reviewer -> Asking \cup Answer]
  /\ guard \in [Kinds -> GuardBudgets]

\* A request that runs is about a version there was; only reviews patch, and
\* they have read the version that they are about.
Sound(ask, vs) ==
  IF ask.at = "done"
  THEN /\ Reviewed(ask) =>
            /\ ask.rv \in 1 .. Len(vs) /\ ask.live = ask.rv /\ vs[ask.rv].uid = ask.uid
            /\ ask.on >= ask.rv
       /\ ask.outcome \in {"changed", "unchanged"} =>
            /\ ask.on = ask.rv
            /\ ask.outcome = "unchanged" <=> vs[ask.rv].value = ask.value
       /\ ask.outcome = "detail" => ask.on \in 1 .. Len(vs) /\ vs[ask.on].uid = ask.uid
  ELSE /\ ask.rv \in 1 .. Len(vs)
       /\ ask.at = "patch" => /\ ask.kind = "review" /\ ask.live = ask.rv
                              /\ vs[ask.rv].uid = ask.uid

Asked(k) == {x \in Reviewer : asks[x].at # "done" /\ asks[x].kind = k}

ReviewInv ==
  /\ ReviewTypeOK
  /\ \A r \in Reviewer : Sound(asks[r], versions)
  /\ \A k \in Kinds : guard[k].inflight = Cardinality(Asked(k))

LEMMA AskTypes ==
  ASSUME ReviewInv, NEW r \in Reviewer, asks[r].at # "done"
  PROVE  /\ asks[r] \in Asking /\ asks[r].at \in {"get", "patch"} /\ asks[r].kind \in Kinds
         /\ asks[r].uid \in Nat /\ asks[r].rv \in Nat /\ asks[r].rv \in 1 .. Latest
         /\ asks[r].value \in FieldValues \cup {1} /\ asks[r].live \in Nat
         /\ asks[r].at = "patch" => /\ asks[r].kind = "review" /\ asks[r].live = asks[r].rv
                                    /\ versions[asks[r].rv].uid = asks[r].uid
<1>1. asks[r] \in Asking
  BY DEF ReviewInv, ReviewTypeOK, Answer
<1> QED
  BY <1>1 DEF ReviewInv, Sound, Asking, Latest

\* The sets of running requests are finite.
LEMMA AskedFinite ==
  \A k : IsFiniteSet(Asked(k)) /\ Cardinality(Asked(k)) \in Nat
BY ReviewAssumption, FS_Subset, FS_CardinalityType DEF ReviewAssumption, Asked

\* A sound answer stays so while the object changes.
LEMMA SoundInMore ==
  ASSUME NEW vs \in Seq(ObjectState), NEW new \in ObjectState, NEW ask, Sound(ask, vs)
  PROVE  Sound(ask, Append(vs, new))
<1>1. /\ Len(Append(vs, new)) = Len(vs) + 1 /\ Len(vs) \in Nat
      /\ \A i \in 1 .. Len(vs) : Append(vs, new)[i] = vs[i] /\ i \in 1 .. Len(Append(vs, new))
  BY AppendProperties, LenProperties
<1> QED
  BY <1>1 DEF Sound, Reviewed

\* A request ends: its slot is given back.
LEMMA EndAskKeeps ==
  ASSUME ReviewInv, NEW r \in Reviewer, asks[r].at # "done", NEW answer \in Answer,
         Sound(answer, versions), EndAsk(r, answer), versions' = versions
  PROVE  ReviewInv'
<1>0. PICK k \in Kinds : k = asks[r].kind
  BY AskTypes
<1>1. k \in Kinds /\ guard \in [Kinds -> GuardBudgets] /\ asks \in [Reviewer -> Asking \cup Answer]
  BY DEF ReviewInv, ReviewTypeOK
<1>2. asks' = [asks EXCEPT ![r] = answer] /\ guard' = [guard EXCEPT ![k].inflight = @ - 1]
      /\ answer.at = "done"
  BY <1>0 DEF EndAsk, Released, Answer
<1>3. /\ asks' \in [Reviewer -> Asking \cup Answer] /\ asks'[r] = answer
      /\ \A x \in Reviewer \ {r} : asks'[x] = asks[x]
  BY <1>1, <1>2
<1>4. Asked(k)' = Asked(k) \ {r} /\ r \in Asked(k)
  BY <1>0, <1>2, <1>3 DEF Asked
<1>5. \A j \in Kinds \ {k} : Asked(j)' = Asked(j)
  BY <1>0, <1>2, <1>3 DEF Asked
<1>6. Cardinality(Asked(k)') = Cardinality(Asked(k)) - 1 /\ Cardinality(Asked(k)) \in Nat
      /\ Cardinality(Asked(k)') \in Nat
  <2>1. IsFiniteSet(Asked(k)) /\ Cardinality(Asked(k)) \in Nat
    BY AskedFinite
  <2>2. Cardinality(Asked(k) \ {r}) = Cardinality(Asked(k)) - 1
    BY <2>1, <1>4, FS_RemoveElement
  <2>3. Cardinality(Asked(k) \ {r}) \in Nat
    BY <2>1, FS_RemoveElement, FS_CardinalityType
  <2> QED
    BY <1>4, <2>1, <2>2, <2>3
<1>7. guard[k].inflight = Cardinality(Asked(k)) /\ guard[k] \in GuardBudgets
  BY <1>1 DEF ReviewInv
<1>8. /\ guard'[k].inflight = guard[k].inflight - 1 /\ guard'[k].tokens = guard[k].tokens
      /\ guard'[k] = [guard[k] EXCEPT !.inflight = @ - 1]
      /\ \A j \in Kinds \ {k} : guard'[j] = guard[j]
      /\ guard' = [guard EXCEPT ![k] = guard'[k]]
  BY <1>1, <1>2 DEF GuardBudgets
<1>9. guard'[k] \in GuardBudgets
  <2>1. guard[k].inflight - 1 \in Nat
    BY <1>6, <1>7
  <2> QED
    BY <1>7, <1>8, <2>1 DEF GuardBudgets
<1>10. guard' \in [Kinds -> GuardBudgets]
  BY <1>1, <1>8, <1>9
<1>11. \A j \in Kinds : guard'[j].inflight = Cardinality(Asked(j)')
  BY <1>5, <1>6, <1>7, <1>8 DEF ReviewInv
<1>12. \A x \in Reviewer : Sound(asks'[x], versions')
  BY <1>3 DEF ReviewInv
<1>13. ReviewTypeOK'
  BY <1>3, <1>10 DEF ReviewInv, ReviewTypeOK, Latest
<1> QED
  BY <1>11, <1>12, <1>13 DEF ReviewInv

\* What a call ends with.
LEMMA FailAskKeeps ==
  ASSUME ReviewInv, NEW r \in Reviewer, asks[r].at # "done", FailAsk(r), versions' = versions
  PROVE  ReviewInv'
<1>1. NoAnswer \in Answer /\ Sound(NoAnswer, versions)
  BY DEF NoAnswer, Answer, Sound, Reviewed
<1> QED
  BY <1>1, EndAskKeeps DEF FailAsk

\* The answer holds: the object shown is the one asked about, the object
\* reviewed was read as that, and for a difference the version judged and the
\* comparison are right.
LEMMA AnswerAskKeeps ==
  ASSUME ReviewInv, NEW r \in Reviewer, asks[r].at # "done",
         NEW outcome \in {"detail", "changed", "unchanged", "rejected"}, AnswerAsk(r, outcome),
         versions' = versions,
         outcome = "detail" => versions[Latest].uid = asks[r].uid,
         outcome # "detail" => asks[r].at = "patch",
         outcome \in {"changed", "unchanged"} =>
            /\ asks[r].rv = Latest
            /\ outcome = "unchanged" <=> versions[Latest].value = asks[r].value
  PROVE  ReviewInv'
<1> DEFINE a == [at |-> "done", outcome |-> outcome, uid |-> asks[r].uid, rv |-> asks[r].rv,
                 value |-> asks[r].value, live |-> asks[r].live, on |-> Latest]
<1>1. Latest \in Nat /\ Latest \in 1 .. Len(versions)
  BY LenProperties DEF ReviewInv, ReviewTypeOK, Latest
<1>2. a \in Answer
  BY <1>1, AskTypes DEF Answer
<1>3. Sound(a, versions)
  BY <1>1, AskTypes DEF Sound, Reviewed, Latest
<1> QED
  BY <1>2, <1>3, EndAskKeeps DEF AnswerAsk

LEMMA AskOpenKeeps ==
  ASSUME ReviewInv, NEW r \in Reviewer, AskOpen(r)
  PROVE  ReviewInv'
<1>1. PICK k \in Kinds, uid \in SeenUids, rv \in 1 .. Latest, value \in FieldValues :
        /\ asks[r].at = "done"
        /\ k = "detail" => rv = 1 /\ value = 1
        /\ shownUid = uid
        /\ guard[k].tokens >= 1 /\ guard[k].inflight < ReviewSlots
        /\ guard' = [guard EXCEPT ![k].tokens = @ - 1, ![k].inflight = @ + 1]
        /\ asks' = [asks EXCEPT ![r] = [at |-> "get", kind |-> k, uid |-> uid, rv |-> rv,
                                        value |-> value, live |-> 0]]
        /\ UNCHANGED <<versions, shownUid>>
  BY DEF AskOpen
<1> DEFINE a == [at |-> "get", kind |-> k, uid |-> uid, rv |-> rv, value |-> value, live |-> 0]
<1>2. /\ versions \in Seq(ObjectState) /\ Latest \in Nat /\ Latest = Len(versions)
      /\ asks \in [Reviewer -> Asking \cup Answer] /\ guard \in [Kinds -> GuardBudgets]
  BY LenProperties DEF ReviewInv, ReviewTypeOK, Latest
<1>3. uid \in Nat
  <2>1. \A v \in 1 .. Latest : versions[v].uid \in Nat \cup {NoUid}
    <3>1. \A v \in 1 .. Latest : versions[v] \in ObjectState
      BY <1>2, ElementOfSeq
    <3> QED
      BY <3>1 DEF ObjectState
  <2> QED
    BY <2>1 DEF SeenUids
<1>4. a \in Asking /\ Sound(a, versions) /\ a.at # "done" /\ a.kind = k
  BY <1>2, <1>3 DEF Asking, Sound
<1> HIDE DEF a
<1>5. /\ asks' \in [Reviewer -> Asking \cup Answer] /\ asks'[r] = a
      /\ \A x \in Reviewer \ {r} : asks'[x] = asks[x]
  BY <1>1, <1>2, <1>4 DEF a
<1>6. Asked(k)' = Asked(k) \cup {r} /\ r \notin Asked(k)
  BY <1>1, <1>4, <1>5 DEF Asked
<1>7. \A j \in Kinds \ {k} : Asked(j)' = Asked(j)
  BY <1>1, <1>4, <1>5 DEF Asked
<1>8. Cardinality(Asked(k)') = Cardinality(Asked(k)) + 1 /\ Cardinality(Asked(k)) \in Nat
  <2>1. IsFiniteSet(Asked(k)) /\ Cardinality(Asked(k)) \in Nat
    BY AskedFinite
  <2>2. Cardinality(Asked(k) \cup {r}) = Cardinality(Asked(k)) + 1
    BY <2>1, <1>6, FS_AddElement
  <2> QED
    BY <1>6, <2>1, <2>2
<1>9. guard[k].inflight = Cardinality(Asked(k)) /\ guard[k] \in GuardBudgets
  BY <1>2 DEF ReviewInv
<1>10. /\ guard'[k] = [guard[k] EXCEPT !.tokens = @ - 1, !.inflight = @ + 1]
       /\ \A j \in Kinds \ {k} : guard'[j] = guard[j]
       /\ guard' = [guard EXCEPT ![k] = guard'[k]]
  BY <1>1, <1>2
<1>11. guard'[k] \in GuardBudgets /\ guard'[k].inflight = guard[k].inflight + 1
  <2>1. guard[k].tokens - 1 \in Nat /\ guard[k].inflight + 1 \in Nat
    BY <1>1, <1>9 DEF GuardBudgets
  <2> QED
    BY <1>9, <1>10, <2>1 DEF GuardBudgets
<1>12. guard' \in [Kinds -> GuardBudgets]
  BY <1>2, <1>10, <1>11
<1>13. \A j \in Kinds : guard'[j].inflight = Cardinality(Asked(j)')
  BY <1>7, <1>8, <1>9, <1>10, <1>11 DEF ReviewInv
<1>14. \A x \in Reviewer : Sound(asks'[x], versions')
  BY <1>1, <1>4, <1>5 DEF ReviewInv
<1>15. ReviewTypeOK'
  BY <1>1, <1>5, <1>12 DEF ReviewInv, ReviewTypeOK, Latest
<1> QED
  BY <1>13, <1>14, <1>15 DEF ReviewInv

LEMMA LiveGetKeeps ==
  ASSUME ReviewInv, NEW r \in Reviewer, LiveGet(r)
  PROVE  ReviewInv'
<1> DEFINE ask == asks[r]
<1>1. ask.at = "get" /\ versions' = versions
  BY DEF LiveGet
<1>2. ask.kind \in Kinds /\ ask \in Asking
  BY <1>1, AskTypes
<1>3. CASE versions[Latest].uid # ask.uid
  BY <1>1, <1>3, FailAskKeeps DEF LiveGet
<1>4. CASE versions[Latest].uid = ask.uid /\ ask.kind = "detail"
  <2>1. AnswerAsk(r, "detail")
    BY <1>1, <1>4 DEF LiveGet
  <2> QED
    BY <1>1, <1>4, <2>1, AnswerAskKeeps
<1>5. CASE versions[Latest].uid = ask.uid /\ ask.kind = "review" /\ Latest # ask.rv
  BY <1>1, <1>5, FailAskKeeps DEF LiveGet
<1>6. CASE versions[Latest].uid = ask.uid /\ ask.kind = "review" /\ Latest = ask.rv
  <2>1. asks' = [asks EXCEPT ![r].at = "patch", ![r].live = Latest] /\ guard' = guard
    BY <1>1, <1>6 DEF LiveGet
  <2>2. asks \in [Reviewer -> Asking \cup Answer]
    BY DEF ReviewInv, ReviewTypeOK
  <2>3. /\ asks'[r] = [asks[r] EXCEPT !.at = "patch", !.live = Latest]
        /\ \A x \in Reviewer \ {r} : asks'[x] = asks[x]
        /\ asks' = [asks EXCEPT ![r] = asks'[r]]
    BY <2>1, <2>2
  <2>4. /\ asks'[r] \in Asking /\ asks'[r].at = "patch" /\ asks'[r].kind = ask.kind
        /\ asks'[r].rv = ask.rv /\ asks'[r].live = ask.rv /\ asks'[r].uid = ask.uid
    BY <1>2, <1>6, <2>3 DEF Asking
  <2>5. asks' \in [Reviewer -> Asking \cup Answer]
    BY <2>2, <2>3, <2>4
  <2>6. \A k : Asked(k)' = Asked(k)
    <3>1. \A x \in Reviewer : /\ (asks'[x].at # "done") <=> (asks[x].at # "done")
                              /\ asks'[x].kind = asks[x].kind
      BY <1>1, <2>3, <2>4
    <3> QED
      BY <3>1 DEF Asked
  <2>7. Sound(asks'[r], versions)
    BY <1>1, <1>6, <2>4, AskTypes DEF Sound, Latest
  <2>8. \A x \in Reviewer : Sound(asks'[x], versions')
    BY <1>1, <2>3, <2>7 DEF ReviewInv
  <2>9. ReviewTypeOK'
    BY <1>1, <2>1, <2>5 DEF ReviewInv, ReviewTypeOK, Latest
  <2> QED
    BY <2>1, <2>6, <2>8, <2>9 DEF ReviewInv
<1> QED
  BY <1>2, <1>3, <1>4, <1>5, <1>6 DEF Kinds

LEMMA DryRunPatchKeeps ==
  ASSUME ReviewInv, NEW r \in Reviewer, DryRunPatch(r)
  PROVE  ReviewInv'
<1> DEFINE ask == asks[r]
           patch == ApplyObject(ask)
<1>1. ask.at = "patch" /\ versions' = versions
  BY DEF DryRunPatch
<1>2. /\ ask.rv \in Nat /\ ask.live = ask.rv
      /\ patch.uid = ask.uid /\ patch.rv = ask.rv /\ patch.value = ask.value
  BY <1>1, AskTypes DEF ApplyObject
<1>3. Applies(patch) => versions[Latest].uid = ask.uid /\ ask.rv = Latest
  BY <1>2, ReviewAssumption DEF ReviewAssumption, Applies
<1>4. CASE FailAsk(r)
  BY <1>1, <1>4, FailAskKeeps
<1>5. CASE AnswerAsk(r, "rejected")
  BY <1>1, <1>5, AnswerAskKeeps
<1>6. CASE /\ ~OwnedByOther(patch) /\ Applies(patch)
           /\ AnswerAsk(r, IF patch.value = versions[ask.live].value THEN "unchanged" ELSE "changed")
  <2> HIDE DEF patch
  <2> QED
    BY <1>1, <1>2, <1>3, <1>6, AnswerAskKeeps
<1> QED
  BY <1>4, <1>5, <1>6 DEF DryRunPatch

LEMMA ChangeObjectKeeps ==
  ASSUME ReviewInv, ChangeObject
  PROVE  ReviewInv'
<1>1. /\ versions \in Seq(ObjectState) /\ Latest = Len(versions) /\ Latest \in Nat /\ Latest >= 1
      /\ asks' = asks /\ guard' = guard
  BY LenProperties DEF ReviewInv, ReviewTypeOK, Latest, ChangeObject
<1>2. versions[Latest] \in ObjectState
  BY <1>1, ElementOfSeq
<1>3. PICK new \in [uid : {versions[Latest].uid}, value : FieldValues, owned : BOOLEAN]
                     \cup {Gone, [uid |-> Latest + 1, value |-> 1, owned |-> FALSE]} :
        versions' = Append(versions, new)
  BY DEF ChangeObject
<1>4. new \in ObjectState
  <2>1. Gone \in ObjectState
    BY DEF ObjectState, Gone
  <2>2. [uid |-> Latest + 1, value |-> 1, owned |-> FALSE] \in ObjectState
    BY <1>1 DEF ObjectState
  <2>3. [uid : {versions[Latest].uid}, value : FieldValues, owned : BOOLEAN] \subseteq ObjectState
    <3>1. versions[Latest].uid \in Nat \cup {NoUid}
      BY <1>2 DEF ObjectState
    <3> QED
      BY <3>1 DEF ObjectState
  <2> QED
    BY <1>3, <2>1, <2>2, <2>3
<1>5. \A r \in Reviewer : Sound(asks[r], versions')
  BY <1>1, <1>3, <1>4, SoundInMore DEF ReviewInv
<1>6. versions' \in Seq(ObjectState) /\ Len(versions') = Latest + 1
  BY <1>1, <1>3, <1>4, AppendProperties
<1>7. ReviewTypeOK'
  BY <1>1, <1>6 DEF ReviewInv, ReviewTypeOK, Latest
<1>8. \A k : Asked(k)' = Asked(k)
  BY <1>1 DEF Asked
<1> QED
  BY <1>1, <1>5, <1>7, <1>8 DEF ReviewInv

LEMMA RefillKeeps ==
  ASSUME ReviewInv, NEW k \in Kinds, RefillGuard(k)
  PROVE  ReviewInv'
<1>1. /\ guard \in [Kinds -> GuardBudgets] /\ guard' = [guard EXCEPT ![k].tokens = @ + 1]
      /\ asks' = asks /\ versions' = versions
  BY DEF ReviewInv, ReviewTypeOK, RefillGuard
<1>2. guard[k].tokens + 1 \in Nat /\ guard[k] \in GuardBudgets
  BY <1>1 DEF GuardBudgets
<1>3. guard' \in [Kinds -> GuardBudgets] /\ \A j \in Kinds : guard'[j].inflight = guard[j].inflight
  BY <1>1, <1>2 DEF GuardBudgets
<1>4. \A j : Asked(j)' = Asked(j)
  BY <1>1 DEF Asked
<1> QED
  BY <1>1, <1>3, <1>4 DEF ReviewInv, ReviewTypeOK, Latest

LEMMA ReviewInvInit == ObjectReviewInit => ReviewInv
<1> SUFFICES ASSUME ObjectReviewInit
             PROVE  ReviewInv
  OBVIOUS
<1>1. [uid |-> 1, value |-> 1, owned |-> FALSE] \in ObjectState
  BY DEF ObjectState
<1>2. versions \in Seq(ObjectState) /\ Latest >= 1
  BY <1>1 DEF ObjectReviewInit, Latest
<1>3. \A r \in Reviewer : asks[r] = NoAnswer /\ asks[r].at = "done"
  BY DEF ObjectReviewInit, NoAnswer
<1>4. NoAnswer \in Answer /\ Sound(NoAnswer, versions)
  BY DEF NoAnswer, Answer, Sound, Reviewed
<1>5. \A k : Asked(k) = {}
  BY <1>3 DEF Asked
<1>6. \A k \in Kinds : guard[k].inflight = Cardinality(Asked(k))
  BY <1>5, FS_EmptySet DEF ObjectReviewInit
<1>7. asks \in [Reviewer -> Asking \cup Answer] /\ guard \in [Kinds -> GuardBudgets]
  BY <1>4, ReviewAssumption DEF ReviewAssumption, ObjectReviewInit, GuardBudgets
<1> QED
  BY <1>2, <1>3, <1>4, <1>6, <1>7 DEF ReviewInv, ReviewTypeOK

LEMMA ReviewInvStep == ReviewInv /\ [ObjectReviewNext]_reviewVars => ReviewInv'
<1> SUFFICES ASSUME ReviewInv, [ObjectReviewNext]_reviewVars
             PROVE  ReviewInv'
  OBVIOUS
<1>1. CASE UNCHANGED <<versions, asks, guard>>
  <2>1. \A k : Asked(k)' = Asked(k)
    BY <1>1 DEF Asked
  <2> QED
    BY <1>1, <2>1 DEF ReviewInv, ReviewTypeOK, Latest
<1>2. ASSUME NEW r \in Reviewer, AskOpen(r) \/ LiveGet(r) \/ DryRunPatch(r) \/ FailCall(r)
      PROVE  ReviewInv'
  <2>1. CASE FailCall(r)
    BY <2>1, FailAskKeeps DEF FailCall
  <2> QED
    BY <1>2, <2>1, AskOpenKeeps, LiveGetKeeps, DryRunPatchKeeps
<1> QED
  BY <1>1, <1>2, RefillKeeps, ChangeObjectKeeps DEF ObjectReviewNext, IndexFollows, reviewVars

\* The inductive invariant: a request that runs is about a version there was, and
\* one that patches has read that version; the slots taken from each budget are those of the requests that run
\* (Get, detail.go; DryRun, dryrun.go).
THEOREM ReviewInvHolds == ObjectReviewSpec => []ReviewInv
<1> QED
  BY ReviewInvInit, ReviewInvStep, PTL DEF ObjectReviewSpec

\* However the object is edited, deleted and created again between the calls, a
\* difference is one to the version that the user has seen, judged as it was; a
\* rejection is of an object that was read as that version, and may be judged as
\* what it has become; a detail is of the object that was opened; and no slot is
\* lost (Get, detail.go; DryRun and classifyDryRunRejection, dryrun.go).
THEOREM AnswersHold == ObjectReviewSpec => []AnswersAreOfWhatWasSeen
<1>1. ReviewInv => AnswersAreOfWhatWasSeen
  BY DEF ReviewInv, Sound, AnswersAreOfWhatWasSeen, ReadAsSeen, JudgedAsSeen, Asked
<1> QED
  BY <1>1, ReviewInvHolds, PTL
-----------------------------------------------------------------------------
(* The incremental search index (SearchDelta) *)

DeltaEvent == [key : ObjectKey, seq : Nat, life : Nat]

DeltaQueue == [there : BOOLEAN, events : Seq(DeltaEvent), hold : Seq(DeltaEvent),
               stale : [Space -> Nat \cup {Absent}], whole : BOOLEAN,
               marker : Nat, epoch : Nat]

\* Other queues than q in nothing but their marks.
SameEvents(q) == {r \in DeltaQueue : r.there = q.there /\ r.events = q.events
                                        /\ r.hold = q.hold}

LEMMA StakedType ==
  ASSUME NEW q \in DeltaQueue, NEW n \in Space
  PROVE  Staked(q, n) \in SameEvents(q)
<1>1. CASE q.whole \/ n \in StaleSpaces(q)
  BY <1>1 DEF Staked, SameEvents
<1>2. CASE ~(q.whole \/ n \in StaleSpaces(q)) /\ Cardinality(StaleSpaces(q)) >= MaxStale
  BY <1>2 DEF Staked, SameEvents, DeltaQueue, NoMarks
<1>3. CASE ~(q.whole \/ n \in StaleSpaces(q)) /\ ~(Cardinality(StaleSpaces(q)) >= MaxStale)
  BY <1>3 DEF Staked, SameEvents, DeltaQueue
<1> QED
  BY <1>1, <1>2, <1>3

LEMMA MarkedType ==
  ASSUME NEW q \in DeltaQueue, NEW n \in Space, NEW s \in Nat
  PROVE  Marked(q, n, s) \in SameEvents(q)
<1> DEFINE r == Staked(q, n)
<1>1. r \in DeltaQueue /\ r.there = q.there /\ r.events = q.events /\ r.hold = q.hold
  BY StakedType DEF SameEvents
<1>2. CASE r.whole
  BY <1>1, <1>2 DEF Marked, SameEvents
<1>3. CASE ~r.whole
  <2> HIDE DEF r
  <2>1. r.stale \in [Space -> Nat \cup {Absent}]
    BY <1>1 DEF DeltaQueue
  <2>2. Later(r.stale[n], s) \in Nat \cup {Absent}
    BY <2>1 DEF Later
  <2>3. [r EXCEPT !.stale[n] = Later(@, s)] \in SameEvents(q)
    BY <1>1, <2>1, <2>2 DEF SameEvents, DeltaQueue
  <2> QED
    BY <1>3, <2>3 DEF Marked, r
<1> QED
  BY <1>2, <1>3

LEMMA DroppedType ==
  ASSUME NEW q \in DeltaQueue, NEW ev \in DeltaEvent
  PROVE  DroppedEvent(q, ev) \in SameEvents(q)
<1> DEFINE r == [q EXCEPT !.marker = Later(@, ev.seq), !.epoch = @ + 1]
<1>1. ev.seq \in Nat /\ SpaceOf(ev.key) \in Space
  BY DEF DeltaEvent, ObjectKey, SpaceOf
<1>2. q.marker \in Nat /\ q.epoch + 1 \in Nat /\ Later(q.marker, ev.seq) \in Nat
  BY <1>1 DEF DeltaQueue, Later
<1>3. r \in DeltaQueue /\ r.there = q.there /\ r.events = q.events /\ r.hold = q.hold
  <2>1. ASSUME NEW m \in Nat, NEW e \in Nat
        PROVE  LET x == [q EXCEPT !.marker = m, !.epoch = e]
               IN  x \in SameEvents(q)
    BY DEF DeltaQueue, SameEvents
  <2> QED
    BY <1>2, <2>1 DEF SameEvents
<1> HIDE DEF r
<1>4. Marked(r, SpaceOf(ev.key), ev.seq) \in SameEvents(r)
  BY <1>1, <1>3, MarkedType
<1>5. DroppedEvent(q, ev) = Marked(r, SpaceOf(ev.key), ev.seq)
  BY DEF DroppedEvent, r
<1> QED
  BY <1>3, <1>4, <1>5 DEF SameEvents

\* Dropping events one after the other leaves a mark for each.
LEMMA AllDroppedSteps ==
  ASSUME NEW q \in DeltaQueue, NEW evs \in Seq(DeltaEvent)
  PROVE  \E acc \in [0 .. Len(evs) -> SameEvents(q)] :
           /\ acc[0] = q
           /\ \A i \in 1 .. Len(evs) : acc[i] = DroppedEvent(acc[i - 1], evs[i])
           /\ AllDropped(q, evs) = acc[Len(evs)]
<1> DEFINE Acc == SameEvents(q)
           step == [p \in Acc \X DeltaEvent |-> DroppedEvent(p[1], p[2])]
           IsFold(g) == g = [s \in SUBSET DOMAIN evs |->
                               IF s = {} THEN q
                               ELSE DroppedEvent(g[s \ {Max(s)}], evs[Max(s)])]
           fold == CHOOSE g : IsFold(g)
<1>1. AllDropped(q, evs) = fold[DOMAIN evs]
  BY DEF AllDropped, FoldLeft, MapThenFoldSet
<1>2. \A r \in Acc, ev \in DeltaEvent : DroppedEvent(r, ev) \in Acc
  BY DroppedType DEF SameEvents
<1>3. Folding(Acc, DeltaEvent, step, q, evs)
  BY <1>2 DEF Folding, SameEvents
<1> HIDE DEF Acc, step, fold, IsFold
<1>4. PICK iter : FoldOf(Acc, step, q, evs, iter)
  BY <1>3, FoldExists
<1>5. IsFold(iter)
  <2>1. ASSUME NEW s \in SUBSET DOMAIN evs, s # {}
        PROVE  iter[s] = DroppedEvent(iter[s \ {Max(s)}], evs[Max(s)])
    <3>1. evs[Max(s)] \in DeltaEvent /\ iter[s \ {Max(s)}] \in Acc
      BY <1>4, <2>1, TurnOf DEF FoldOf
    <3> QED
      BY <1>4, <2>1, <3>1 DEF FoldOf, FoldTurn, step
  <2>2. iter[{}] = q
    BY <1>4 DEF FoldOf, FoldTurn
  <2> QED
    BY <1>4, <2>1, <2>2 DEF IsFold, FoldOf
<1>6. IsFold(fold)
  BY <1>5 DEF fold
<1>7. fold[{}] = q
  BY <1>6 DEF IsFold
<1>8. ASSUME NEW s \in SUBSET DOMAIN evs, s # {}, fold[s \ {Max(s)}] \in Acc
      PROVE  fold[s] = step[<<fold[s \ {Max(s)}], evs[Max(s)]>>]
  <2>1. evs[Max(s)] \in DeltaEvent
    BY <1>8, TurnOf
  <2>2. fold[s] = DroppedEvent(fold[s \ {Max(s)}], evs[Max(s)])
    BY <1>6, <1>8 DEF IsFold
  <2> QED
    BY <1>8, <2>1, <2>2 DEF step
<1>9. StepwiseFold(Acc, step, q, evs, fold)
  BY <1>7, <1>8 DEF StepwiseFold
<1>10. PICK acc : StepsOf(Acc, step, q, evs, fold, acc)
  BY <1>3, <1>9, FoldSteps
<1>11. \A i \in 1 .. Len(evs) : acc[i] = DroppedEvent(acc[i - 1], evs[i])
  BY <1>10, Indices DEF StepsOf, step
<1> QED
  BY <1>1, <1>10, <1>11 DEF StepsOf, Acc
-----------------------------------------------------------------------------
(* What the folds of the queue keep *)

DeltaTarget == Space \cup {Whole}

DeltaRows == [ObjectKey -> Shape \cup {Absent}]

\* The ticket of a recovery that has pinned the rows it builds from.
Recovery == [at : {"building"}, target : DeltaTarget, marker : Nat, epoch : Nat,
             rows : DeltaRows, parts : [Space -> Nat], base : Nat, life : Nat,
             old : SUBSET ObjectKey]

Picked == [at : {"picked"}, target : DeltaTarget, marker : Nat, epoch : Nat]

DeltaTicket == [at : {"none"}] \cup Picked \cup Recovery

LEMMA AtKey ==
  ASSUME NEW evs, NEW k \in KeysOf(evs)
  PROVE  At(evs, k) \in DOMAIN evs /\ evs[At(evs, k)].key = k
BY DEF KeysOf, At

\* Other queues than q in nothing but their marks and what is queued.
SameHold(q) == {r \in DeltaQueue : r.there = q.there /\ r.hold = q.hold}

LEMMA QueuedType ==
  ASSUME NEW q \in DeltaQueue, NEW evs \in Seq(DeltaEvent)
  PROVE  [q EXCEPT !.events = evs] \in SameHold(q) /\ [q EXCEPT !.events = evs].events = evs
BY DEF DeltaQueue, SameHold

LEMMA MergeType ==
  ASSUME NEW q \in DeltaQueue, NEW ev \in DeltaEvent
  PROVE  MergeEvent(q, ev) \in SameHold(q)
<1>0. q.events \in Seq(DeltaEvent)
  BY DEF DeltaQueue
<1>1. CASE ev.key \in KeysOf(q.events)
  <2> DEFINE i == At(q.events, ev.key)
  <2>1. i \in DOMAIN q.events
    BY <1>1, AtKey
  <2> HIDE DEF i
  <2>2. ASSUME NEW x \in DeltaEvent
        PROVE  [q EXCEPT !.events[i] = x] \in SameHold(q)
    <3>1. [q.events EXCEPT ![i] = x] \in Seq(DeltaEvent)
      BY <1>0, <2>1, ExceptSeq, LenProperties
    <3> QED
      BY <3>1 DEF SameHold, DeltaQueue
  <2>3. q.events[i] \in DeltaEvent
    BY <1>0, <2>1, ElementOfSeq, LenProperties
  <2>4. MergeEvent(q, ev) = [q EXCEPT !.events[i] = IF @.seq >= ev.seq THEN @ ELSE ev]
    BY <1>1 DEF MergeEvent, i
  <2>5. CASE q.events[i].seq >= ev.seq
    BY <2>2, <2>3, <2>4, <2>5
  <2>6. CASE ~(q.events[i].seq >= ev.seq)
    BY <2>2, <2>4, <2>6
  <2> QED
    BY <2>5, <2>6
<1>2. CASE ev.key \notin KeysOf(q.events) /\ Len(q.events) >= MaxQueued
  BY <1>2, DroppedType DEF MergeEvent, SameEvents, SameHold
<1>3. CASE ev.key \notin KeysOf(q.events) /\ ~(Len(q.events) >= MaxQueued)
  <2>1. Append(q.events, ev) \in Seq(DeltaEvent)
    BY <1>0, AppendProperties
  <2> QED
    BY <1>3, <2>1, QueuedType DEF MergeEvent
<1> QED
  BY <1>1, <1>2, <1>3

Backing == [q : SameEvents(queue), back : Seq(DeltaEvent)]

LEMMA BackType ==
  ASSUME queue \in DeltaQueue, NEW acc \in Backing, NEW ev \in DeltaEvent
  PROVE  PutBack(acc, ev) \in Backing
<1>1. CASE ev.key \in KeysOf(queue.events)
  BY <1>1 DEF PutBack
<1>2. CASE ev.key \notin KeysOf(queue.events) /\ Len(acc.back) + Len(queue.events) >= MaxQueued
  <2>1. DroppedEvent(acc.q, ev) \in SameEvents(queue)
    BY DroppedType DEF Backing, SameEvents
  <2> QED
    BY <1>2, <2>1 DEF PutBack, Backing
<1>3. CASE ev.key \notin KeysOf(queue.events) /\ ~(Len(acc.back) + Len(queue.events) >= MaxQueued)
  <2>1. Append(acc.back, ev) \in Seq(DeltaEvent)
    BY AppendProperties DEF Backing
  <2> QED
    BY <1>3, <2>1 DEF PutBack, Backing
<1> QED
  BY <1>1, <1>2, <1>3

Taking == [q : {r \in DeltaQueue : r.there = queue.there}, batch : Seq(DeltaEvent),
           ticket : DeltaTicket, released : Nat]

LEMMA HoldsBuilding ==
  ASSUME NEW t \in DeltaTicket, NEW n, Holds(t, n)
  PROVE  t \in Recovery /\ t.target \in DeltaTarget
BY DEF DeltaTicket, Picked, Recovery, Holds

\* What an abandoned recovery gives up, and what it leaves.
LEMMA AbandonType ==
  ASSUME NEW acc \in Taking, NEW evs, NEW ev \in DeltaEvent, Holds(acc.ticket, SpaceOf(ev.key))
  PROVE  LET a == Abandon(acc, evs, ev)
         IN  /\ a \in Taking
             /\ a.ticket = NoTicket
             /\ a.batch = acc.batch
             /\ a.q.events = acc.q.events
             /\ a.q.hold = <<>>
             /\ a.released \in acc.released .. acc.released + Len(acc.q.hold)
<1> DEFINE waiting == {i \in DOMAIN acc.q.hold : acc.q.hold[i].key \in KeysOf(evs)}
           t == acc.ticket.target
           q == [acc.q EXCEPT !.hold = <<>>, !.marker = Later(@, ev.seq), !.epoch = @ + 1]
           r == IF t = Whole THEN [q EXCEPT !.whole = TRUE] ELSE Marked(q, t, ev.seq)
<1>1. /\ acc.q \in DeltaQueue /\ acc.q.there = queue.there
      /\ acc.batch \in Seq(DeltaEvent) /\ acc.released \in Nat
      /\ acc.q.hold \in Seq(DeltaEvent) /\ acc.q.marker \in Nat /\ acc.q.epoch + 1 \in Nat
  BY DEF Taking, DeltaQueue
<1>2. ev.seq \in Nat /\ t \in DeltaTarget
  BY HoldsBuilding DEF Taking, DeltaEvent
<1>3. Cardinality(waiting) \in 0 .. Len(acc.q.hold)
  <2>1. DOMAIN acc.q.hold = 1 .. Len(acc.q.hold) /\ Len(acc.q.hold) \in Nat
    BY <1>1, LenProperties
  <2>2. /\ IsFiniteSet(1 .. Len(acc.q.hold))
        /\ Cardinality(1 .. Len(acc.q.hold)) = Len(acc.q.hold)
    <3>1. \A n \in Nat : IsFiniteSet(1 .. n) /\ Cardinality(1 .. n) = n
      BY FS_Interval
    <3> QED
      BY <2>1, <3>1
  <2>3. waiting \in SUBSET (1 .. Len(acc.q.hold))
    BY <2>1
  <2>4. Cardinality(waiting) \in Nat /\ Cardinality(waiting) <= Len(acc.q.hold)
    BY <2>2, <2>3, FS_Subset, FS_CardinalityType
  <2> QED
    BY <2>1, <2>4
<1>4. /\ q \in DeltaQueue /\ q.there = queue.there
      /\ q.hold = <<>> /\ q.events = acc.q.events
  <2>1. ASSUME NEW m \in Nat, NEW e \in Nat
        PROVE  LET x == [acc.q EXCEPT !.hold = <<>>, !.marker = m, !.epoch = e]
               IN  /\ x \in DeltaQueue /\ x.there = queue.there
                   /\ x.hold = <<>> /\ x.events = acc.q.events
    BY <1>1, EmptySeq DEF DeltaQueue
  <2>2. Later(acc.q.marker, ev.seq) \in Nat
    BY <1>1, <1>2 DEF Later
  <2> QED
    BY <1>1, <2>1, <2>2
<1>5. /\ r \in DeltaQueue /\ r.there = queue.there
      /\ r.hold = <<>> /\ r.events = acc.q.events
  <2> HIDE DEF q
  <2>1. CASE t = Whole
    BY <1>4, <2>1 DEF DeltaQueue
  <2>2. CASE t # Whole
    <3>1. t \in Space
      BY <1>2, <2>2 DEF DeltaTarget
    <3>2. Marked(q, t, ev.seq) \in SameEvents(q)
      BY <1>2, <1>4, <3>1, MarkedType
    <3> QED
      BY <1>4, <2>2, <3>2 DEF SameEvents
  <2> QED
    BY <2>1, <2>2
<1>6. NoTicket \in DeltaTicket
  BY DEF NoTicket, DeltaTicket
<1>7. Abandon(acc, evs, ev) = [acc EXCEPT !.q = r, !.ticket = NoTicket,
                                          !.released = @ + Cardinality(waiting)]
  BY DEF Abandon
<1> HIDE DEF r, waiting
<1>8. acc.released + Cardinality(waiting) \in acc.released .. acc.released + Len(acc.q.hold)
  BY <1>1, <1>3, LenProperties
<1>9. acc.released + Cardinality(waiting) \in Nat
  BY <1>1, <1>3, LenProperties
<1> QED
  BY <1>1, <1>5, <1>6, <1>7, <1>8, <1>9 DEF Taking

\* Each event that is taken is queued, held, in the batch or released.
LEMMA TakeType ==
  ASSUME NEW want \in Nat, NEW acc \in Taking, NEW ev \in DeltaEvent
  PROVE  LET a == TakeEvent(want, acc, ev)
         IN  /\ a \in Taking
             /\ a.released + Len(a.batch) + QueuedOf(a.q)
                  <= acc.released + Len(acc.batch) + QueuedOf(acc.q) + 1
<1>1. /\ acc.q \in DeltaQueue /\ acc.q.there = queue.there
      /\ acc.batch \in Seq(DeltaEvent) /\ acc.released \in Nat
      /\ acc.q.hold \in Seq(DeltaEvent) /\ acc.q.events \in Seq(DeltaEvent)
      /\ acc.ticket \in DeltaTicket
  BY DEF Taking, DeltaQueue
<1>2. /\ Len(acc.batch) \in Nat /\ Len(acc.q.hold) \in Nat /\ Len(acc.q.events) \in Nat
      /\ Append(acc.batch, ev) \in Seq(DeltaEvent)
      /\ Len(Append(acc.batch, ev)) = Len(acc.batch) + 1
      /\ Append(acc.q.hold, ev) \in Seq(DeltaEvent)
      /\ Len(Append(acc.q.hold, ev)) = Len(acc.q.hold) + 1
      /\ Append(acc.q.events, ev) \in Seq(DeltaEvent)
      /\ Len(Append(acc.q.events, ev)) = Len(acc.q.events) + 1
  BY <1>1, LenProperties, AppendProperties
<1> DEFINE a == TakeEvent(want, acc, ev)
           Total(x) == x.released + Len(x.batch) + Len(x.q.events) + Len(x.q.hold)
<1>n. PICK r \in Nat, b \in Nat, e \in Nat, h \in Nat :
        r = acc.released /\ b = Len(acc.batch) /\ e = Len(acc.q.events) /\ h = Len(acc.q.hold)
  BY <1>1, <1>2
<1>t. Total(acc) = r + b + e + h /\ acc.released + Len(acc.batch) + QueuedOf(acc.q) = r + b + e + h
  <2>1. r + b + (e + h) = r + b + e + h
    OBVIOUS
  <2> QED
    BY <1>n, <2>1 DEF QueuedOf, Total
<1>3. ASSUME Len(acc.batch) >= want
      PROVE  a \in Taking /\ Total(a) <= Total(acc) + 1
  <2> DEFINE f == Append(acc.q.events, ev)
  <2>1. a = [acc EXCEPT !.q.events = f]
    BY <1>3 DEF TakeEvent
  <2> HIDE DEF f, a
  <2>2. /\ a \in Taking /\ a.released = acc.released /\ a.batch = acc.batch
        /\ a.q.events = f /\ a.q.hold = acc.q.hold
    BY <1>1, <1>2, <2>1 DEF Taking, DeltaQueue, f
  <2>8. Total(a) = r + b + (e + 1) + h
    BY <1>2, <1>n, <2>2 DEF Total, f
  <2>9. r + b + (e + 1) + h <= r + b + e + h + 1
    OBVIOUS
  <2> QED
    BY <1>t, <2>2, <2>8, <2>9
<1>4. ASSUME ~(Len(acc.batch) >= want) /\ ev.life # life
      PROVE  a \in Taking /\ Total(a) <= Total(acc) + 1
  <2>1. a = [acc EXCEPT !.released = @ + 1]
    BY <1>4 DEF TakeEvent
  <2> HIDE DEF a
  <2>2. /\ a \in Taking /\ a.released = acc.released + 1 /\ a.batch = acc.batch
        /\ a.q = acc.q
    BY <1>1, <2>1 DEF Taking
  <2>8. Total(a) = (r + 1) + b + e + h
    BY <1>2, <1>n, <2>2 DEF Total
  <2>9. (r + 1) + b + e + h <= r + b + e + h + 1
    OBVIOUS
  <2> QED
    BY <1>t, <2>2, <2>8, <2>9
<1>5. ASSUME ~(Len(acc.batch) >= want) /\ ev.life = life /\ ~Holds(acc.ticket, SpaceOf(ev.key))
      PROVE  a \in Taking /\ Total(a) <= Total(acc) + 1
  <2> DEFINE f == Append(acc.batch, ev)
  <2>1. a = [acc EXCEPT !.batch = f]
    BY <1>5 DEF TakeEvent
  <2> HIDE DEF a, f
  <2>2. a \in Taking /\ a.released = acc.released /\ a.batch = f /\ a.q = acc.q
    BY <1>1, <1>2, <2>1 DEF Taking, f
  <2>8. Total(a) = r + (b + 1) + e + h
    BY <1>2, <1>n, <2>2 DEF Total, f
  <2>9. r + (b + 1) + e + h <= r + b + e + h + 1
    OBVIOUS
  <2> QED
    BY <1>t, <2>2, <2>8, <2>9
<1>6. ASSUME /\ ~(Len(acc.batch) >= want) /\ ev.life = life /\ Holds(acc.ticket, SpaceOf(ev.key))
             /\ Len(acc.q.hold) < MaxHeld
      PROVE  a \in Taking /\ Total(a) <= Total(acc) + 1
  <2> DEFINE f == Append(acc.q.hold, ev)
  <2>1. a = [acc EXCEPT !.q.hold = f]
    BY <1>6 DEF TakeEvent
  <2> HIDE DEF a, f
  <2>2. /\ a \in Taking /\ a.released = acc.released /\ a.batch = acc.batch
        /\ a.q.hold = f /\ a.q.events = acc.q.events
    BY <1>1, <1>2, <2>1 DEF Taking, DeltaQueue, f
  <2>8. Total(a) = r + b + e + (h + 1)
    BY <1>2, <1>n, <2>2 DEF Total, f
  <2>9. r + b + e + (h + 1) <= r + b + e + h + 1
    OBVIOUS
  <2> QED
    BY <1>t, <2>2, <2>8, <2>9
<1>7. ASSUME /\ ~(Len(acc.batch) >= want) /\ ev.life = life /\ Holds(acc.ticket, SpaceOf(ev.key))
             /\ ~(Len(acc.q.hold) < MaxHeld)
      PROVE  a \in Taking /\ Total(a) <= Total(acc) + 1
  <2> DEFINE c == Abandon(acc, queue.events, ev)
             f == Append(acc.batch, ev)
  <2>1. a = [c EXCEPT !.batch = Append(@, ev)]
    BY <1>7 DEF TakeEvent
  <2>2. /\ c \in Taking /\ c.ticket = NoTicket /\ c.batch = acc.batch
        /\ c.q.events = acc.q.events /\ c.q.hold = <<>>
        /\ c.released \in acc.released .. acc.released + Len(acc.q.hold)
    BY <1>7, AbandonType
  <2> HIDE DEF a, c, f
  <2>3. /\ a \in Taking /\ a.released = c.released /\ a.batch = f
        /\ a.q.events = acc.q.events /\ a.q.hold = <<>>
    BY <1>1, <1>2, <2>1, <2>2 DEF Taking, f
  <2>4. Len(<<>>) = 0
    OBVIOUS
  <2>5. PICK x \in r .. r + h : x = c.released
    BY <1>n, <2>2
  <2>8. Total(a) = x + (b + 1) + e + 0
    BY <1>2, <1>n, <2>3, <2>4, <2>5 DEF Total, f
  <2>9. x + (b + 1) + e + 0 <= r + b + e + h + 1
    OBVIOUS
  <2> QED
    BY <1>t, <2>3, <2>8, <2>9
<1>8. a \in Taking /\ Total(a) <= Total(acc) + 1
  <2> HIDE DEF a, Total
  <2>1. ~(Len(acc.batch) >= want) /\ ev.life = life /\ Holds(acc.ticket, SpaceOf(ev.key)) =>
          a \in Taking /\ Total(a) <= Total(acc) + 1
    BY <1>6, <1>7
  <2> QED
    BY <1>3, <1>4, <1>5, <2>1
<1>9. /\ Len(a.batch) \in Nat /\ Len(a.q.events) \in Nat /\ Len(a.q.hold) \in Nat
      /\ a.released \in Nat
  <2> HIDE DEF a
  <2> QED
    BY <1>8, LenProperties DEF Taking, DeltaQueue
<1> HIDE DEF a
<1>10. a.released + Len(a.batch) + QueuedOf(a.q) = Total(a)
  <2>1. PICK r1 \in Nat, b1 \in Nat, e1 \in Nat, h1 \in Nat :
          r1 = a.released /\ b1 = Len(a.batch) /\ e1 = Len(a.q.events) /\ h1 = Len(a.q.hold)
    BY <1>9
  <2>2. r1 + b1 + (e1 + h1) = r1 + b1 + e1 + h1
    OBVIOUS
  <2> QED
    BY <2>1, <2>2 DEF QueuedOf, Total
<1> HIDE DEF Total
<1> QED
  BY <1>8, <1>10, <1>t DEF a

\* Held events go back to the queue one after the other.
LEMMA MergedSteps ==
  ASSUME NEW q \in DeltaQueue, NEW held \in Seq(DeltaEvent)
  PROVE  \E acc \in [0 .. Len(held) -> SameHold(q)] :
           /\ acc[0] = q
           /\ \A i \in 1 .. Len(held) : acc[i] = MergeEvent(acc[i - 1], held[i])
           /\ Merged(q, held) = acc[Len(held)]
<1> DEFINE Acc == SameHold(q)
           base == q
           step == [p \in Acc \X DeltaEvent |-> MergeEvent(p[1], p[2])]
           IsFold(g) == g = [s \in SUBSET DOMAIN held |->
                               IF s = {} THEN base
                               ELSE MergeEvent(g[s \ {Max(s)}], held[Max(s)])]
           fold == CHOOSE g : IsFold(g)
<1>1. Merged(q, held) = fold[DOMAIN held]
  BY DEF Merged, FoldLeft, MapThenFoldSet
<1>2. \A r \in Acc, ev \in DeltaEvent : MergeEvent(r, ev) \in Acc
  BY MergeType DEF SameHold
<1>3. Folding(Acc, DeltaEvent, step, base, held)
  BY <1>2 DEF Folding, SameHold
<1> HIDE DEF Acc, step, fold, IsFold, base
<1>4. PICK iter : FoldOf(Acc, step, base, held, iter)
  BY <1>3, FoldExists
<1>5. IsFold(iter)
  <2>1. ASSUME NEW s \in SUBSET DOMAIN held, s # {}
        PROVE  iter[s] = MergeEvent(iter[s \ {Max(s)}], held[Max(s)])
    <3>1. held[Max(s)] \in DeltaEvent /\ iter[s \ {Max(s)}] \in Acc
      BY <1>3, <1>4, <2>1, TurnOf DEF FoldOf, Folding
    <3> QED
      BY <1>4, <2>1, <3>1 DEF FoldOf, FoldTurn, step
  <2>2. iter[{}] = base
    BY <1>4 DEF FoldOf, FoldTurn
  <2> QED
    BY <1>4, <2>1, <2>2 DEF IsFold, FoldOf
<1>6. IsFold(fold)
  BY <1>5 DEF fold
<1>7. fold[{}] = base
  BY <1>6 DEF IsFold
<1>8. ASSUME NEW s \in SUBSET DOMAIN held, s # {}, fold[s \ {Max(s)}] \in Acc
      PROVE  fold[s] = step[<<fold[s \ {Max(s)}], held[Max(s)]>>]
  <2>1. held[Max(s)] \in DeltaEvent
    BY <1>3, <1>8, TurnOf DEF Folding
  <2>2. fold[s] = MergeEvent(fold[s \ {Max(s)}], held[Max(s)])
    BY <1>6, <1>8 DEF IsFold
  <2> QED
    BY <1>8, <2>1, <2>2 DEF step
<1>9. StepwiseFold(Acc, step, base, held, fold)
  BY <1>7, <1>8 DEF StepwiseFold
<1>10. PICK acc : StepsOf(Acc, step, base, held, fold, acc)
  BY <1>3, <1>9, FoldSteps
<1>11. \A i \in 1 .. Len(held) : acc[i] = MergeEvent(acc[i - 1], held[i])
  BY <1>3, <1>10, Indices DEF StepsOf, step, Folding
<1>12. /\ acc \in [0 .. Len(held) -> Acc]
       /\ acc[0] = base
       /\ acc[Len(held)] = fold[DOMAIN held]
  BY <1>10 DEF StepsOf
<1>13. Merged(q, held) = acc[Len(held)]
  BY <1>1, <1>12
<1> QED
  BY <1>11, <1>12, <1>13 DEF Acc, base

\* A batch goes back to the front of the queue, one event after the other.
LEMMA BackSteps ==
  ASSUME queue \in DeltaQueue, NEW evs \in Seq(DeltaEvent)
  PROVE  \E acc \in [0 .. Len(evs) -> Backing] :
           /\ acc[0] = [q |-> queue, back |-> <<>>]
           /\ \A i \in 1 .. Len(evs) : acc[i] = PutBack(acc[i - 1], evs[i])
           /\ FoldLeft(PutBack, [q |-> queue, back |-> <<>>], evs) = acc[Len(evs)]
<1> DEFINE Acc == Backing
           base == [q |-> queue, back |-> <<>>]
           step == [p \in Acc \X DeltaEvent |-> PutBack(p[1], p[2])]
           IsFold(g) == g = [s \in SUBSET DOMAIN evs |->
                               IF s = {} THEN base
                               ELSE PutBack(g[s \ {Max(s)}], evs[Max(s)])]
           fold == CHOOSE g : IsFold(g)
<1>1. FoldLeft(PutBack, [q |-> queue, back |-> <<>>], evs) = fold[DOMAIN evs]
  BY DEF FoldLeft, MapThenFoldSet
<1>2. \A r \in Acc, ev \in DeltaEvent : PutBack(r, ev) \in Acc
  BY BackType
<1>3. Folding(Acc, DeltaEvent, step, base, evs)
  BY <1>2, EmptySeq DEF Folding, Backing, SameEvents
<1> HIDE DEF Acc, step, fold, IsFold, base
<1>4. PICK iter : FoldOf(Acc, step, base, evs, iter)
  BY <1>3, FoldExists
<1>5. IsFold(iter)
  <2>1. ASSUME NEW s \in SUBSET DOMAIN evs, s # {}
        PROVE  iter[s] = PutBack(iter[s \ {Max(s)}], evs[Max(s)])
    <3>1. evs[Max(s)] \in DeltaEvent /\ iter[s \ {Max(s)}] \in Acc
      BY <1>3, <1>4, <2>1, TurnOf DEF FoldOf, Folding
    <3> QED
      BY <1>4, <2>1, <3>1 DEF FoldOf, FoldTurn, step
  <2>2. iter[{}] = base
    BY <1>4 DEF FoldOf, FoldTurn
  <2> QED
    BY <1>4, <2>1, <2>2 DEF IsFold, FoldOf
<1>6. IsFold(fold)
  BY <1>5 DEF fold
<1>7. fold[{}] = base
  BY <1>6 DEF IsFold
<1>8. ASSUME NEW s \in SUBSET DOMAIN evs, s # {}, fold[s \ {Max(s)}] \in Acc
      PROVE  fold[s] = step[<<fold[s \ {Max(s)}], evs[Max(s)]>>]
  <2>1. evs[Max(s)] \in DeltaEvent
    BY <1>3, <1>8, TurnOf DEF Folding
  <2>2. fold[s] = PutBack(fold[s \ {Max(s)}], evs[Max(s)])
    BY <1>6, <1>8 DEF IsFold
  <2> QED
    BY <1>8, <2>1, <2>2 DEF step
<1>9. StepwiseFold(Acc, step, base, evs, fold)
  BY <1>7, <1>8 DEF StepwiseFold
<1>10. PICK acc : StepsOf(Acc, step, base, evs, fold, acc)
  BY <1>3, <1>9, FoldSteps
<1>11. \A i \in 1 .. Len(evs) : acc[i] = PutBack(acc[i - 1], evs[i])
  BY <1>3, <1>10, Indices DEF StepsOf, step, Folding
<1>12. /\ acc \in [0 .. Len(evs) -> Acc]
       /\ acc[0] = base
       /\ acc[Len(evs)] = fold[DOMAIN evs]
  BY <1>10 DEF StepsOf
<1>13. FoldLeft(PutBack, [q |-> queue, back |-> <<>>], evs) = acc[Len(evs)]
  BY <1>1, <1>12
<1> QED
  BY <1>11, <1>12, <1>13 DEF Acc, base

\* The events are taken from the queue one after the other.
LEMMA DrainedSteps ==
  ASSUME queue \in DeltaQueue, ticket \in DeltaTicket, NEW want \in Nat
  PROVE  \E acc \in [0 .. Len(queue.events) -> Taking] :
           /\ acc[0] = NothingTaken
           /\ \A i \in 1 .. Len(queue.events) :
                  acc[i] = TakeEvent(want, acc[i - 1], queue.events[i])
           /\ Drained(want) = acc[Len(queue.events)]
<1> DEFINE Acc == Taking
           base == NothingTaken
           step == [p \in Acc \X DeltaEvent |-> TakeEvent(want, p[1], p[2])]
           IsFold(g) == g = [s \in SUBSET DOMAIN queue.events |->
                               IF s = {} THEN base
                               ELSE TakeEvent(want, g[s \ {Max(s)}], queue.events[Max(s)])]
           fold == CHOOSE g : IsFold(g)
<1>1. Drained(want) = fold[DOMAIN queue.events]
  BY DEF Drained, FoldLeft, MapThenFoldSet
<1>2. \A r \in Acc, ev \in DeltaEvent : TakeEvent(want, r, ev) \in Acc
  BY TakeType
<1>3. Folding(Acc, DeltaEvent, step, base, queue.events)
  BY <1>2, QueuedType, EmptySeq DEF Folding, Taking, NothingTaken, DeltaQueue, SameHold
<1> HIDE DEF Acc, step, fold, IsFold, base
<1>4. PICK iter : FoldOf(Acc, step, base, queue.events, iter)
  BY <1>3, FoldExists
<1>5. IsFold(iter)
  <2>1. ASSUME NEW s \in SUBSET DOMAIN queue.events, s # {}
        PROVE  iter[s] = TakeEvent(want, iter[s \ {Max(s)}], queue.events[Max(s)])
    <3>1. queue.events[Max(s)] \in DeltaEvent /\ iter[s \ {Max(s)}] \in Acc
      BY <1>3, <1>4, <2>1, TurnOf DEF FoldOf, Folding
    <3> QED
      BY <1>4, <2>1, <3>1 DEF FoldOf, FoldTurn, step
  <2>2. iter[{}] = base
    BY <1>4 DEF FoldOf, FoldTurn
  <2> QED
    BY <1>4, <2>1, <2>2 DEF IsFold, FoldOf
<1>6. IsFold(fold)
  BY <1>5 DEF fold
<1>7. fold[{}] = base
  BY <1>6 DEF IsFold
<1>8. ASSUME NEW s \in SUBSET DOMAIN queue.events, s # {}, fold[s \ {Max(s)}] \in Acc
      PROVE  fold[s] = step[<<fold[s \ {Max(s)}], queue.events[Max(s)]>>]
  <2>1. queue.events[Max(s)] \in DeltaEvent
    BY <1>3, <1>8, TurnOf DEF Folding
  <2>2. fold[s] = TakeEvent(want, fold[s \ {Max(s)}], queue.events[Max(s)])
    BY <1>6, <1>8 DEF IsFold
  <2> QED
    BY <1>8, <2>1, <2>2 DEF step
<1>9. StepwiseFold(Acc, step, base, queue.events, fold)
  BY <1>7, <1>8 DEF StepwiseFold
<1>10. PICK acc : StepsOf(Acc, step, base, queue.events, fold, acc)
  BY <1>3, <1>9, FoldSteps
<1>11. \A i \in 1 .. Len(queue.events) : acc[i] = TakeEvent(want, acc[i - 1], queue.events[i])
  BY <1>3, <1>10, Indices DEF StepsOf, step, Folding
<1>12. /\ acc \in [0 .. Len(queue.events) -> Acc]
       /\ acc[0] = base
       /\ acc[Len(queue.events)] = fold[DOMAIN queue.events]
  BY <1>10 DEF StepsOf
<1>13. Drained(want) = acc[Len(queue.events)]
  BY <1>1, <1>12
<1> QED
  BY <1>11, <1>12, <1>13 DEF Acc, base

\* The events that a list does not cover are kept in their order.
LEMMA KeptSteps ==
  ASSUME NEW covers \in Nat, NEW evs \in Seq(DeltaEvent)
  PROVE  \E acc \in [0 .. Len(evs) -> Seq(DeltaEvent)] :
           /\ acc[0] = <<>>
           /\ \A i \in 1 .. Len(evs) : acc[i] = KeptAfter(covers, acc[i - 1], evs[i])
           /\ FoldLeft(LAMBDA a, ev : KeptAfter(covers, a, ev), <<>>, evs) = acc[Len(evs)]
<1> DEFINE Acc == Seq(DeltaEvent)
           base == <<>>
           step == [p \in Acc \X DeltaEvent |-> KeptAfter(covers, p[1], p[2])]
           IsFold(g) == g = [s \in SUBSET DOMAIN evs |->
                               IF s = {} THEN base
                               ELSE KeptAfter(covers, g[s \ {Max(s)}], evs[Max(s)])]
           fold == CHOOSE g : IsFold(g)
<1>1. FoldLeft(LAMBDA a, ev : KeptAfter(covers, a, ev), <<>>, evs) = fold[DOMAIN evs]
  BY DEF FoldLeft, MapThenFoldSet
<1>2. \A r \in Acc, ev \in DeltaEvent : KeptAfter(covers, r, ev) \in Acc
  BY AppendProperties DEF KeptAfter
<1>3. Folding(Acc, DeltaEvent, step, base, evs)
  BY <1>2, EmptySeq DEF Folding
<1> HIDE DEF Acc, step, fold, IsFold, base
<1>4. PICK iter : FoldOf(Acc, step, base, evs, iter)
  BY <1>3, FoldExists
<1>5. IsFold(iter)
  <2>1. ASSUME NEW s \in SUBSET DOMAIN evs, s # {}
        PROVE  iter[s] = KeptAfter(covers, iter[s \ {Max(s)}], evs[Max(s)])
    <3>1. evs[Max(s)] \in DeltaEvent /\ iter[s \ {Max(s)}] \in Acc
      BY <1>3, <1>4, <2>1, TurnOf DEF FoldOf, Folding
    <3> QED
      BY <1>4, <2>1, <3>1 DEF FoldOf, FoldTurn, step
  <2>2. iter[{}] = base
    BY <1>4 DEF FoldOf, FoldTurn
  <2> QED
    BY <1>4, <2>1, <2>2 DEF IsFold, FoldOf
<1>6. IsFold(fold)
  BY <1>5 DEF fold
<1>7. fold[{}] = base
  BY <1>6 DEF IsFold
<1>8. ASSUME NEW s \in SUBSET DOMAIN evs, s # {}, fold[s \ {Max(s)}] \in Acc
      PROVE  fold[s] = step[<<fold[s \ {Max(s)}], evs[Max(s)]>>]
  <2>1. evs[Max(s)] \in DeltaEvent
    BY <1>3, <1>8, TurnOf DEF Folding
  <2>2. fold[s] = KeptAfter(covers, fold[s \ {Max(s)}], evs[Max(s)])
    BY <1>6, <1>8 DEF IsFold
  <2> QED
    BY <1>8, <2>1, <2>2 DEF step
<1>9. StepwiseFold(Acc, step, base, evs, fold)
  BY <1>7, <1>8 DEF StepwiseFold
<1>10. PICK acc : StepsOf(Acc, step, base, evs, fold, acc)
  BY <1>3, <1>9, FoldSteps
<1>11. \A i \in 1 .. Len(evs) : acc[i] = KeptAfter(covers, acc[i - 1], evs[i])
  BY <1>3, <1>10, Indices DEF StepsOf, step, Folding
<1>12. /\ acc \in [0 .. Len(evs) -> Acc]
       /\ acc[0] = base
       /\ acc[Len(evs)] = fold[DOMAIN evs]
  BY <1>10 DEF StepsOf
<1>13. FoldLeft(LAMBDA a, ev : KeptAfter(covers, a, ev), <<>>, evs) = acc[Len(evs)]
  BY <1>1, <1>12
<1> QED
  BY <1>11, <1>12, <1>13 DEF Acc, base

LEMMA AllDroppedType ==
  ASSUME NEW q \in DeltaQueue, NEW evs \in Seq(DeltaEvent)
  PROVE  AllDropped(q, evs) \in SameEvents(q)
<1>1. PICK acc \in [0 .. Len(evs) -> SameEvents(q)] : AllDropped(q, evs) = acc[Len(evs)]
  BY AllDroppedSteps
<1> QED
  BY <1>1, Indices

LEMMA MergedType ==
  ASSUME NEW q \in DeltaQueue, NEW held \in Seq(DeltaEvent)
  PROVE  Merged(q, held) \in SameHold(q)
<1>1. PICK acc \in [0 .. Len(held) -> SameHold(q)] : Merged(q, held) = acc[Len(held)]
  BY MergedSteps
<1> QED
  BY <1>1, Indices

\* What is given back joins what is queued; what is held stays.
LEMMA RequeuedType ==
  ASSUME queue \in DeltaQueue, NEW evs \in Seq(DeltaEvent), NEW room
  PROVE  Requeued(evs, room) \in SameHold(queue)
<1>1. PICK acc \in [0 .. Len(evs) -> Backing] :
        FoldLeft(PutBack, [q |-> queue, back |-> <<>>], evs) = acc[Len(evs)]
  BY BackSteps
<1> DEFINE r == acc[Len(evs)]
<1>2. r \in Backing
  BY <1>1, Indices
<1> HIDE DEF r
<1>3. /\ r.q \in DeltaQueue /\ r.q.there = queue.there /\ r.q.hold = queue.hold
      /\ r.q.events \in Seq(DeltaEvent) /\ r.back \in Seq(DeltaEvent)
  BY <1>2 DEF Backing, SameEvents, DeltaQueue
<1>4. Requeued(evs, room) = IF room THEN [r.q EXCEPT !.events = r.back \o @]
                            ELSE AllDropped(r.q, r.back)
  BY <1>1 DEF Requeued, r
<1>5. CASE room
  <2> DEFINE f == r.back \o r.q.events
  <2>1. f \in Seq(DeltaEvent)
    BY <1>3, ConcatProperties
  <2>2. Requeued(evs, room) = [r.q EXCEPT !.events = f]
    BY <1>4, <1>5
  <2> HIDE DEF f
  <2> QED
    BY <1>3, <2>1, <2>2, QueuedType DEF SameHold
<1>6. CASE ~room
  <2>1. AllDropped(r.q, r.back) \in SameEvents(r.q)
    BY <1>3, AllDroppedType
  <2> QED
    BY <1>3, <1>4, <1>6, <2>1 DEF SameHold, SameEvents
<1> QED
  BY <1>5, <1>6

\* What a drain takes, leaves and releases is no more than what was queued.
LEMMA DrainedType ==
  ASSUME queue \in DeltaQueue, ticket \in DeltaTicket, NEW want \in Nat
  PROVE  LET d == Drained(want)
         IN  d \in Taking /\ d.released + Len(d.batch) + QueuedOf(d.q) <= QueuedOf(queue)
<1> DEFINE evs == queue.events
           n == Len(evs)
           Taken(a) == a.released + Len(a.batch) + QueuedOf(a.q)
<1>0. evs \in Seq(DeltaEvent) /\ queue.hold \in Seq(DeltaEvent)
      /\ n \in Nat /\ Len(queue.hold) \in Nat
  BY LenProperties DEF DeltaQueue
<1>1. PICK acc \in [0 .. n -> Taking] :
        /\ acc[0] = NothingTaken
        /\ \A i \in 1 .. n : acc[i] = TakeEvent(want, acc[i - 1], evs[i])
        /\ Drained(want) = acc[n]
  BY DrainedSteps
<1> DEFINE P == {i \in Nat : i <= n => Taken(acc[i]) <= Len(queue.hold) + i}
<1>t. ASSUME NEW i \in 0 .. n PROVE acc[i] \in Taking /\ Taken(acc[i]) \in Nat
  <2>1. acc[i] \in Taking
    OBVIOUS
  <2>2. /\ acc[i].released \in Nat /\ acc[i].batch \in Seq(DeltaEvent)
        /\ acc[i].q.events \in Seq(DeltaEvent) /\ acc[i].q.hold \in Seq(DeltaEvent)
    BY <2>1 DEF Taking, DeltaQueue
  <2>3. Len(acc[i].batch) \in Nat /\ Len(acc[i].q.events) \in Nat /\ Len(acc[i].q.hold) \in Nat
    BY <2>2, LenProperties
  <2>4. \A r, b, e, h \in Nat : r + b + (e + h) \in Nat
    OBVIOUS
  <2> QED
    BY <2>1, <2>2, <2>3, <2>4 DEF QueuedOf
<1>2. 0 \in P
  <2>1. /\ NothingTaken.released = 0 /\ NothingTaken.batch = <<>>
        /\ NothingTaken.q.events = <<>> /\ NothingTaken.q.hold = queue.hold
    BY DEF NothingTaken, DeltaQueue
  <2>2. Taken(NothingTaken) = 0 + 0 + (0 + Len(queue.hold))
    BY <2>1 DEF QueuedOf
  <2>3. Taken(acc[0]) = Len(queue.hold) + 0
    BY <1>0, <1>1, <2>2
  <2> HIDE DEF Taken
  <2> QED
    BY <1>0, <2>3
<1>3. ASSUME NEW i \in Nat, i \in P PROVE i + 1 \in P
  <2> HIDE DEF Taken
  <2>1. ASSUME i + 1 <= n PROVE Taken(acc[i + 1]) <= Len(queue.hold) + (i + 1)
    <3>1. i + 1 \in 1 .. n /\ i \in 0 .. n /\ i + 1 \in 0 .. n /\ (i + 1) - 1 = i /\ i <= n
      BY <1>0, <2>1
    <3>2. acc[i + 1] = TakeEvent(want, acc[i], evs[i + 1]) /\ evs[i + 1] \in DeltaEvent
      BY <1>0, <1>1, <3>1, ElementOfSeq
    <3>3. Taken(acc[i + 1]) <= Taken(acc[i]) + 1
      BY <1>t, <3>1, <3>2, TakeType DEF Taken
    <3>4. Taken(acc[i]) <= Len(queue.hold) + i
      BY <1>3, <3>1
    <3>5. Taken(acc[i]) \in Nat /\ Taken(acc[i + 1]) \in Nat
      BY <1>t, <3>1
    <3> QED
      BY <1>0, <3>3, <3>4, <3>5
  <2>2. i + 1 \in Nat
    OBVIOUS
  <2> HIDE DEF n
  <2> QED
    BY <2>1, <2>2
<1>4. n \in P
  <2> HIDE DEF P
  <2> QED
    BY <1>0, <1>2, <1>3, Counting
<1>5. n \in 0 .. n
  BY <1>0
<1>6. Taken(acc[n]) <= Len(queue.hold) + n
  <2> HIDE DEF Taken
  <2> QED
    BY <1>4, <1>5
<1>7. QueuedOf(queue) = Len(queue.hold) + n
  BY <1>0 DEF QueuedOf
<1> HIDE DEF n, P, evs
<1> QED
  BY <1>1, <1>t, <1>5, <1>6, <1>7

LEMMA EnqueuedType ==
  ASSUME NEW q \in DeltaQueue, NEW ev \in DeltaEvent, NEW room
  PROVE  Enqueued(q, ev, room) \in SameHold(q)
<1>0. q.events \in Seq(DeltaEvent)
  BY DEF DeltaQueue
<1>1. CASE Len(q.events) >= MaxQueued \/ ~room
  BY <1>1, DroppedType DEF Enqueued, SameEvents, SameHold
<1>2. CASE ~(Len(q.events) >= MaxQueued \/ ~room) /\ ev.key \in KeysOf(q.events)
  <2> DEFINE i == At(q.events, ev.key)
  <2>1. i \in DOMAIN q.events
    BY <1>2, AtKey
  <2> HIDE DEF i
  <2>2. [q.events EXCEPT ![i] = ev] \in Seq(DeltaEvent)
    BY <1>0, <2>1, ExceptSeq, LenProperties
  <2>3. [q EXCEPT !.events[i] = ev] \in SameHold(q)
    BY <2>2 DEF SameHold, DeltaQueue
  <2> QED
    BY <1>2, <2>3 DEF Enqueued, i
<1>3. CASE ~(Len(q.events) >= MaxQueued \/ ~room) /\ ev.key \notin KeysOf(q.events)
  <2>1. Append(q.events, ev) \in Seq(DeltaEvent)
    BY <1>0, AppendProperties
  <2> QED
    BY <1>3, <2>1, QueuedType DEF Enqueued
<1> QED
  BY <1>1, <1>2, <1>3

LEMMA RestakedType ==
  ASSUME NEW q \in DeltaQueue, NEW target \in DeltaTarget
  PROVE  Restaked(q, target) \in SameEvents(q)
<1>1. CASE target = Whole
  BY <1>1 DEF Restaked, SameEvents, DeltaQueue
<1>2. CASE target # Whole
  BY <1>2, StakedType DEF Restaked, DeltaTarget
<1> QED
  BY <1>1, <1>2

LEMMA AckedType ==
  ASSUME NEW q \in DeltaQueue, NEW t \in Picked \cup Recovery
  PROVE  Acked(q, t) \in SameEvents(q)
<1>0. t.target \in DeltaTarget
  BY DEF Picked, Recovery
<1>1. CASE t.target = Whole
  BY <1>1 DEF Acked, SameEvents, DeltaQueue, NoMarks
<1>2. CASE t.target # Whole
  <2>1. t.target \in Space
    BY <1>0, <1>2 DEF DeltaTarget
  <2> DEFINE r == [q EXCEPT !.stale[t.target] = Absent]
  <2>2. r \in SameEvents(q)
    BY <2>1 DEF SameEvents, DeltaQueue
  <2> HIDE DEF r
  <2>3. [r EXCEPT !.marker = 0] \in SameEvents(q)
    BY <2>2 DEF SameEvents, DeltaQueue
  <2>4. q \in SameEvents(q)
    BY DEF SameEvents
  <2> QED
    BY <1>2, <2>2, <2>3, <2>4 DEF Acked, r
<1> QED
  BY <1>1, <1>2

LEMMA AckCoveredType ==
  ASSUME NEW q \in DeltaQueue, NEW covers \in Nat
  PROVE  AckCovered(q, covers) \in DeltaQueue /\ AckCovered(q, covers).there = q.there
<1> DEFINE Left(evs) == FoldLeft(LAMBDA a, ev : KeptAfter(covers, a, ev), <<>>, evs)
           e == Left(q.events)
           h == IF ticket = NoTicket THEN Left(q.hold) ELSE q.hold
           r == [q EXCEPT !.events = e, !.hold = h]
<1>1. ASSUME NEW evs \in Seq(DeltaEvent) PROVE Left(evs) \in Seq(DeltaEvent)
  <2>1. PICK acc \in [0 .. Len(evs) -> Seq(DeltaEvent)] : Left(evs) = acc[Len(evs)]
    BY KeptSteps
  <2> QED
    BY <2>1, Indices
<1>2. q.events \in Seq(DeltaEvent) /\ q.hold \in Seq(DeltaEvent)
  BY DEF DeltaQueue
<1>3. e \in Seq(DeltaEvent) /\ h \in Seq(DeltaEvent)
  BY <1>1, <1>2
<1>4. AckCovered(q, covers) = IF r.marker # 0 /\ r.marker <= covers
                              THEN [r EXCEPT !.stale = NoMarks, !.whole = FALSE, !.marker = 0,
                                             !.epoch = @ + 1]
                              ELSE r
  BY DEF AckCovered
<1> HIDE DEF e, h
<1>5. r \in DeltaQueue /\ r.there = q.there
  BY <1>3 DEF DeltaQueue
<1> HIDE DEF r
<1>6. LET x == [r EXCEPT !.stale = NoMarks, !.whole = FALSE, !.marker = 0, !.epoch = @ + 1]
      IN  x \in DeltaQueue /\ x.there = q.there
  <2>1. NoMarks \in [Space -> Nat \cup {Absent}]
    BY DEF NoMarks
  <2>2. r.epoch + 1 \in Nat
    BY <1>5 DEF DeltaQueue
  <2> QED
    BY <1>5, <2>1, <2>2 DEF DeltaQueue
<1> QED
  BY <1>4, <1>5, <1>6
-----------------------------------------------------------------------------
(* The types of the search index, and the ledger of its events *)

Hearing == [at : {"heard", "numbered"}, key : ObjectKey, life : Nat, seq : Nat]

Listing == [at : {"listed"}, life : Nat, covers : Nat, rows : DeltaRows, fresh : BOOLEAN]

ListLoop == [at : {"idle", "installed"}] \cup [at : {"begun"}, life : Nat]
              \cup [at : {"covered"}, life : Nat, covers : Nat] \cup Listing

Publication == [there : BOOLEAN, rows : DeltaRows \cup {Absent}, covers : Nat,
                index : DeltaRows \cup {Absent}, version : Nat, parts : [Space -> Nat]]

Captured == [at : {"captured"}, life : Nat, base : Nat, index : DeltaRows,
             parts : [Space -> Nat]]

Carrying == [at : {"drained", "applied", "conflict", "refused", "done"}, life : Nat,
             base : Nat, index : DeltaRows, parts : [Space -> Nat], batch : Seq(DeltaEvent)]

Pinning == [at : {"pinning"}, rows : DeltaRows, parts : [Space -> Nat], base : Nat, life : Nat]

Rebuilding == [at : {"holding", "overlaid"}, held : Seq(DeltaEvent), made : Recovery]

Settling == [at : {"settling"}, held : Seq(DeltaEvent), made : Recovery,
             outcome : {"conflict", "refused", "published"}]

DeltaLoop == [at : {"idle"}] \cup Captured \cup Carrying \cup Pinning
               \cup Rebuilding \cup Settling

InformerTypes ==
  /\ store \in DeltaRows
  /\ informer \in {"none", "syncing", "synced", "closed"}
  /\ life \in Nat
  /\ notices \in Seq(ObjectKey)
  /\ hearing \in [at : {"idle"}] \cup Hearing
  /\ eventSeq \in Nat

CatalogTypes ==
  /\ dirty \in BOOLEAN /\ bootstrapped \in BOOLEAN /\ forced \in BOOLEAN
  /\ builder \in ListLoop
  /\ snap \in Publication
  /\ snap.there => snap.rows \in DeltaRows

LoopTypes ==
  /\ queue \in DeltaQueue
  /\ ticket \in DeltaTicket
  /\ worker \in DeltaLoop
  /\ ledger \in [queued : Int, inflight : Int]
  /\ tight \in SUBSET Budgets
  /\ recoveries \in Nat
  /\ forgotten \in SUBSET ObjectKey

DeltaTypeOK == InformerTypes /\ CatalogTypes /\ LoopTypes

\* A queue that is gone has nothing in it, and no recovery; what is built or
\* published belongs to a recovery that has pinned its rows, or to none.
QueueInv ==
  /\ ~queue.there => queue.events = <<>> /\ queue.hold = <<>> /\ ticket = NoTicket
  /\ worker.at \in {"holding", "overlaid", "settling"} =>
       ticket = NoTicket \/ ticket \in Recovery

LedgerInv == DeltaTypeOK /\ QueueInv /\ ReservationsCovered

LEMMA LoopStates ==
  ASSUME NEW w \in DeltaLoop
  PROVE  /\ w.at \in {"idle", "captured", "drained", "applied", "conflict", "refused", "done",
                      "pinning", "holding", "overlaid", "settling"}
         /\ w.at = "captured" => w \in Captured
         /\ w.at \in {"drained", "applied", "conflict", "refused", "done"} => w \in Carrying
         /\ w.at = "pinning" => w \in Pinning
         /\ w.at \in {"holding", "overlaid"} => w \in Rebuilding
         /\ w.at = "settling" => w \in Settling
         /\ w = Asleep => w.at = "idle"
<1>1. CASE w \in [at : {"idle"}]
  BY <1>1
<1>2. CASE w \in Captured
  BY <1>2 DEF Captured, Asleep
<1>3. CASE w \in Carrying
  BY <1>3 DEF Carrying, Asleep
<1>4. CASE w \in Pinning
  BY <1>4 DEF Pinning, Asleep
<1>5. CASE w \in Rebuilding
  BY <1>5 DEF Rebuilding, Asleep
<1>6. CASE w \in Settling
  BY <1>6 DEF Settling, Asleep
<1> QED
  BY <1>1, <1>2, <1>3, <1>4, <1>5, <1>6 DEF DeltaLoop

LEMMA TicketStates ==
  ASSUME NEW t \in DeltaTicket
  PROVE  /\ t # NoTicket => t \in Picked \cup Recovery
         /\ t.at = "picked" => t \in Picked /\ t # NoTicket
         /\ t.at = "building" => t \in Recovery /\ t # NoTicket
         /\ t \in Picked => t.at = "picked"
         /\ t \in Recovery => t.at = "building"
         /\ t = NoTicket => t.at = "none"
<1>1. CASE t \in [at : {"none"}]
  <2>1. t = NoTicket
    BY <1>1 DEF NoTicket
  <2> QED
    BY <2>1 DEF NoTicket, Picked, Recovery
<1>2. CASE t \in Picked
  BY <1>2 DEF Picked, Recovery, NoTicket
<1>3. CASE t \in Recovery
  BY <1>3 DEF Picked, Recovery, NoTicket
<1> QED
  BY <1>1, <1>2, <1>3 DEF DeltaTicket

LEMMA HearingStates ==
  ASSUME NEW h \in [at : {"idle"}] \cup Hearing
  PROVE  /\ h.at \in {"heard", "numbered"} => h \in Hearing
         /\ h # Asleep => h \in Hearing
         /\ h = Asleep => h.at = "idle"
<1>1. CASE h \in [at : {"idle"}]
  BY <1>1 DEF Asleep
<1>2. CASE h \in Hearing
  BY <1>2 DEF Hearing, Asleep
<1> QED
  BY <1>1, <1>2

LEMMA ListStates ==
  ASSUME NEW b \in ListLoop
  PROVE  /\ b.at = "begun" => b.life \in Nat
         /\ b.at = "covered" => b.life \in Nat /\ b.covers \in Nat
         /\ b.at = "listed" => b \in Listing
<1>1. CASE b \in [at : {"idle", "installed"}]
  BY <1>1
<1>2. CASE b \in [at : {"begun"}, life : Nat]
  BY <1>2
<1>3. CASE b \in [at : {"covered"}, life : Nat, covers : Nat]
  BY <1>3
<1>4. CASE b \in Listing
  BY <1>4 DEF Listing
<1> QED
  BY <1>1, <1>2, <1>3, <1>4 DEF ListLoop

LEMMA OldInType == ASSUME NEW rows, NEW q PROVE OldIn(rows, q) \in SUBSET ObjectKey
BY DEF OldIn

LEMMA OverlaidType ==
  ASSUME store \in DeltaRows, NEW rows \in DeltaRows, NEW keys
  PROVE  Overlaid(rows, keys) \in DeltaRows
BY DEF Overlaid, DeltaRows

LEMMA WithIndexType ==
  ASSUME NEW s \in Publication, NEW rows \in DeltaRows
  PROVE  LET r == WithIndex(s, rows)
         IN  /\ r \in Publication /\ r.there = s.there /\ r.rows = s.rows /\ r.covers = s.covers
             /\ r.index = rows /\ r.version = s.version + 1
<1> DEFINE p == [n \in Space |->
                   IF \E k \in ObjectKey : SpaceOf(k) = n /\ rows[k] # Absent THEN 1 ELSE 0]
<1>1. p \in [Space -> Nat]
  OBVIOUS
<1>2. s.version + 1 \in Nat
  BY DEF Publication
<1>3. WithIndex(s, rows) = [s EXCEPT !.index = rows, !.version = @ + 1, !.parts = p]
  BY DEF WithIndex
<1> HIDE DEF p
<1> QED
  BY <1>1, <1>2, <1>3 DEF Publication

LEMMA WithPartType ==
  ASSUME NEW s \in Publication, s.index # Absent, NEW n \in Space, NEW rows \in DeltaRows
  PROVE  LET r == WithPart(s, n, rows)
         IN  /\ r \in Publication /\ r.there = s.there /\ r.rows = s.rows /\ r.covers = s.covers
             /\ r.index = [k \in ObjectKey |-> IF SpaceOf(k) = n THEN rows[k] ELSE s.index[k]]
             /\ r.version = s.version + 1
<1> DEFINE i == [k \in ObjectKey |-> IF SpaceOf(k) = n THEN rows[k] ELSE s.index[k]]
           p == [s.parts EXCEPT ![n] = 1]
<1>1. i \in DeltaRows
  BY DEF DeltaRows, Publication
<1>2. p \in [Space -> Nat] /\ s.version + 1 \in Nat
  BY DEF Publication
<1>3. WithPart(s, n, rows) = [s EXCEPT !.index = i, !.version = @ + 1, !.parts = p]
  BY DEF WithPart, Publication
<1> HIDE DEF i, p
<1>4. LET r == [s EXCEPT !.index = i, !.version = @ + 1, !.parts = p]
      IN  /\ r \in Publication /\ r.there = s.there /\ r.rows = s.rows /\ r.covers = s.covers
          /\ r.index = i /\ r.version = s.version + 1
  BY <1>1, <1>2 DEF Publication
<1> QED
  BY <1>3, <1>4 DEF i

\* What the ledger is compared with, in numbers.
LEMMA LedgerNumbers ==
  ASSUME LedgerInv
  PROVE  /\ queue.events \in Seq(DeltaEvent) /\ queue.hold \in Seq(DeltaEvent)
         /\ Len(queue.events) \in Nat /\ Len(queue.hold) \in Nat
         /\ QueuedOf(queue) = Len(queue.events) + Len(queue.hold)
         /\ HeldByWorker \in Seq(DeltaEvent) /\ Len(HeldByWorker) \in Nat
         /\ InFlight \in Seq(DeltaEvent) /\ Len(InFlight) \in Nat
         /\ ledger.queued \in Int /\ ledger.inflight \in Int
         /\ ledger = [queued |-> ledger.queued, inflight |-> ledger.inflight]
<1>1. queue \in DeltaQueue /\ worker \in DeltaLoop /\ ledger \in [queued : Int, inflight : Int]
  BY DEF LedgerInv, DeltaTypeOK, LoopTypes
<1>2. queue.events \in Seq(DeltaEvent) /\ queue.hold \in Seq(DeltaEvent)
  BY <1>1 DEF DeltaQueue
<1>3. HeldByWorker \in Seq(DeltaEvent)
  BY <1>1, LoopStates, EmptySeq DEF HeldByWorker, Rebuilding, Settling
<1>4. InFlight \in Seq(DeltaEvent)
  BY <1>1, LoopStates, EmptySeq DEF InFlight, Carrying
<1> QED
  BY <1>1, <1>2, <1>3, <1>4, LenProperties DEF QueuedOf

\* The ledger follows a step that tells it what has changed, and the other way
\* round: only what it counts matters.
LEMMA LedgerFollows ==
  ASSUME LedgerInv, LoopTypes', NEW dq \in Int, NEW df \in Int,
         ledger'.queued = ledger.queued + dq, ledger'.inflight = ledger.inflight + df,
         QueuedOf(queue)' + Len(HeldByWorker)' <= QueuedOf(queue) + Len(HeldByWorker) + dq,
         Len(InFlight)' = Len(InFlight) + df
  PROVE  ReservationsCovered'
<1>1. /\ ledger.queued \in Int /\ ledger.inflight \in Int
      /\ QueuedOf(queue) \in Int /\ Len(HeldByWorker) \in Int /\ Len(InFlight) \in Int
  BY LedgerNumbers
<1>2. ledger.queued >= QueuedOf(queue) + Len(HeldByWorker) /\ ledger.inflight = Len(InFlight)
  BY DEF LedgerInv, ReservationsCovered
<1>3. queue' \in DeltaQueue /\ worker' \in DeltaLoop
  BY DEF LoopTypes
<1>4. QueuedOf(queue)' \in Int
  BY <1>3, LenProperties DEF QueuedOf, DeltaQueue
<1>5. HeldByWorker' \in Seq(DeltaEvent)
  BY <1>3, LoopStates, EmptySeq DEF HeldByWorker, Rebuilding, Settling
<1>6. Len(HeldByWorker)' \in Int
  BY <1>5, LenProperties
<1> QED
  BY <1>1, <1>2, <1>4, <1>6 DEF ReservationsCovered

LEMMA LedgerKept ==
  ASSUME LedgerInv, queue' = queue, worker' = worker, ledger' = ledger
  PROVE  ReservationsCovered'
BY DEF LedgerInv, ReservationsCovered, QueuedOf, HeldByWorker, InFlight

LEMMA InformerLedger ==
  ASSUME LedgerInv,
         \/ \E k \in ObjectKey, v \in Shape \cup {Absent} : Change(k, v)
         \/ Hear \/ NumberEvent \/ StartInformer \/ SyncInformer
  PROVE  LedgerInv'
<1>t. InformerTypes /\ CatalogTypes /\ LoopTypes /\ QueueInv
  BY DEF LedgerInv, DeltaTypeOK
<1>1. ASSUME NEW k \in ObjectKey, NEW v \in Shape \cup {Absent}, Change(k, v)
      PROVE  InformerTypes' /\ UNCHANGED <<catalogVars, queue, ticket, worker, ledger,
                                           recoveries, tight, forgotten>>
  <2>1. [store EXCEPT ![k] = v] \in DeltaRows
    BY <1>t DEF InformerTypes, DeltaRows
  <2>2. Append(notices, k) \in Seq(ObjectKey)
    BY <1>t, AppendProperties DEF InformerTypes
  <2> QED
    BY <1>t, <1>1, <2>1, <2>2 DEF Change, InformerTypes
<1>2. ASSUME Hear
      PROVE  InformerTypes' /\ CatalogTypes' /\ UNCHANGED <<queue, ticket, worker, ledger,
                                                            recoveries, tight, forgotten>>
  <2>1. Head(notices) \in ObjectKey /\ Tail(notices) \in Seq(ObjectKey)
    BY <1>t, <1>2, HeadTailProperties DEF InformerTypes, Hear
  <2>2. [at |-> "heard", key |-> Head(notices), life |-> life, seq |-> 0] \in Hearing
    BY <1>t, <2>1 DEF InformerTypes, Hearing
  <2>3. hearing' \in [at : {"idle"}] \cup Hearing
    BY <1>2, <2>2 DEF Hear, Asleep
  <2>4. InformerTypes'
    BY <1>t, <1>2, <2>1, <2>3 DEF InformerTypes, Hear
  <2>5. CatalogTypes'
    BY <1>t, <1>2 DEF CatalogTypes, Hear
  <2> QED
    BY <1>2, <2>4, <2>5 DEF Hear
<1>3. ASSUME NumberEvent
      PROVE  InformerTypes' /\ UNCHANGED <<catalogVars, queue, ticket, worker, ledger,
                                           recoveries, tight, forgotten>>
  <2>1. hearing \in Hearing /\ eventSeq + 1 \in Nat
    BY <1>t, <1>3, HearingStates DEF InformerTypes, NumberEvent
  <2>2. [hearing EXCEPT !.at = "numbered", !.seq = eventSeq + 1] \in Hearing
    BY <2>1 DEF Hearing
  <2>3. hearing' \in [at : {"idle"}] \cup Hearing /\ eventSeq' \in Nat
    <3>1. CASE hearing.life = life
      <4>1. eventSeq' = eventSeq + 1
        BY <1>3, <3>1 DEF NumberEvent
      <4>2. hearing' = [hearing EXCEPT !.at = "numbered", !.seq = eventSeq']
        BY <1>3, <3>1 DEF NumberEvent
      <4> QED
        BY <2>1, <2>2, <4>1, <4>2
    <3>2. CASE hearing.life # life
      BY <1>t, <1>3, <3>2 DEF InformerTypes, NumberEvent, Asleep
    <3> QED
      BY <3>1, <3>2
  <2>4. UNCHANGED <<store, informer, life, notices, catalogVars, queue, ticket, worker, ledger,
                    recoveries, tight, forgotten>>
    BY <1>3 DEF NumberEvent
  <2> QED
    BY <1>t, <2>3, <2>4 DEF InformerTypes
<1>4. ASSUME StartInformer
      PROVE  InformerTypes' /\ CatalogTypes' /\ UNCHANGED <<queue, ticket, worker, ledger,
                                                            recoveries, tight, forgotten>>
  <2>1. life + 1 \in Nat /\ <<>> \in Seq(ObjectKey)
    BY <1>t, EmptySeq DEF InformerTypes
  <2>2. InformerTypes'
    BY <1>t, <1>4, <2>1 DEF InformerTypes, StartInformer
  <2>3. CatalogTypes'
    BY <1>t, <1>4 DEF CatalogTypes, StartInformer
  <2> QED
    BY <1>4, <2>2, <2>3 DEF StartInformer
<1>5. ASSUME SyncInformer
      PROVE  InformerTypes' /\ UNCHANGED <<catalogVars, queue, ticket, worker, ledger,
                                           recoveries, tight, forgotten>>
  BY <1>t, <1>5 DEF InformerTypes, SyncInformer
<1>6. InformerTypes' /\ CatalogTypes' /\ UNCHANGED <<queue, ticket, worker, ledger,
                                                     recoveries, tight, forgotten>>
  <2>1. UNCHANGED catalogVars => CatalogTypes'
    BY <1>t DEF CatalogTypes, catalogVars
  <2> QED
    BY <1>1, <1>2, <1>3, <1>4, <1>5, <2>1
<1>7. LoopTypes' /\ QueueInv'
  BY <1>t, <1>6 DEF LoopTypes, QueueInv
<1>8. ReservationsCovered'
  BY <1>6, LedgerKept
<1> QED
  BY <1>6, <1>7, <1>8 DEF LedgerInv, DeltaTypeOK

LEMMA EnqueueLedger == ASSUME LedgerInv, EnqueueKey PROVE LedgerInv'
<1>t. InformerTypes /\ CatalogTypes /\ LoopTypes /\ QueueInv
  BY DEF LedgerInv, DeltaTypeOK
<1>1. /\ hearing' = Asleep
      /\ UNCHANGED <<store, informer, life, notices, eventSeq, builder, snap, ticket, worker,
                     recoveries, tight, forgotten>>
  BY DEF EnqueueKey
<1>2. InformerTypes'
  BY <1>t, <1>1 DEF InformerTypes, Asleep
<1>3. CatalogTypes'
  BY <1>t, <1>1 DEF CatalogTypes, EnqueueKey, ForceRebuild
<1>4. CASE queue' = queue /\ ledger' = ledger
  <2>1. LoopTypes' /\ QueueInv'
    BY <1>t, <1>1, <1>4 DEF LoopTypes, QueueInv
  <2> QED
    BY <1>1, <1>2, <1>3, <1>4, <2>1, LedgerKept DEF LedgerInv, DeltaTypeOK
<1>5. ASSUME NEW room,
             queue' = Enqueued(QueueOrNew(queue), EventAt(hearing.key, hearing.seq, life), room),
             ledger' = [ledger EXCEPT !.queued = @ + Len(queue'.events) - Len(queue.events)]
      PROVE  LedgerInv'
  <2> DEFINE q == QueueOrNew(queue)
  <2>1. EventAt(hearing.key, hearing.seq, life) \in DeltaEvent
    BY <1>t, HearingStates DEF EnqueueKey, InformerTypes, EventAt, DeltaEvent, Hearing
  <2>2. NewQueue \in DeltaQueue /\ NewQueue.there /\ NewQueue.hold = <<>>
    BY EmptySeq DEF NewQueue, NoQueue, DeltaQueue, NoMarks
  <2>3. q \in DeltaQueue /\ q.there /\ q.hold = queue.hold
    BY <1>t, <2>2 DEF QueueOrNew, LoopTypes, QueueInv
  <2> HIDE DEF q
  <2>4. queue' \in DeltaQueue /\ queue'.there /\ queue'.hold = queue.hold
    BY <1>5, <2>1, <2>3, EnqueuedType DEF SameHold, q
  <2>5. /\ Len(queue'.events) \in Nat /\ Len(queue.events) \in Nat /\ Len(queue.hold) \in Nat
        /\ ledger.queued \in Int /\ ledger.inflight \in Int
        /\ Len(HeldByWorker) \in Nat
    BY <2>4, LedgerNumbers, LenProperties DEF DeltaQueue
  <2> DEFINE d == Len(queue'.events) - Len(queue.events)
  <2>d. d \in Int /\ ledger.queued + d \in Int
    <3>1. \A x, y \in Int : x - y \in Int /\ x + y \in Int
      OBVIOUS
    <3>2. Len(queue'.events) \in Int /\ Len(queue.events) \in Int
      BY <2>5
    <3>3. d \in Int
      BY <3>1, <3>2
    <3> HIDE DEF d
    <3> QED
      BY <2>5, <3>1, <3>3
  <2>l. ledger' = [ledger EXCEPT !.queued = ledger.queued + d]
    <3> DEFINE a == ledger.queued
               b == Len(queue'.events)
               c == Len(queue.events)
    <3>2. a \in Int /\ b \in Int /\ c \in Int /\ d = b - c
      BY <2>5
    <3> HIDE DEF a, b, c, d
    <3>3. a + b - c = a + d
      BY <3>2
    <3>1. ledger.queued + Len(queue'.events) - Len(queue.events) = ledger.queued + d
      BY <3>3 DEF a, b, c
    <3> QED
      BY <1>5, <3>1
  <2> HIDE DEF d
  <2>m. ledger' \in [queued : Int, inflight : Int] /\ ledger'.queued = ledger.queued + d
        /\ ledger'.inflight = ledger.inflight
    BY <1>t, <2>d, <2>l DEF LoopTypes
  <2>6. LoopTypes' /\ QueueInv'
    BY <1>t, <1>1, <2>4, <2>m DEF LoopTypes, QueueInv
  <2>7. d \in Int /\ ledger'.queued = ledger.queued + d /\ ledger'.inflight = ledger.inflight + 0
    BY <2>d, <2>m, <2>5
  <2>8. Len(HeldByWorker)' = Len(HeldByWorker) /\ Len(InFlight)' = Len(InFlight) + 0
    BY <1>1, LedgerNumbers DEF HeldByWorker, InFlight
  <2>9. QueuedOf(queue)' + Len(HeldByWorker)' <= QueuedOf(queue) + Len(HeldByWorker) + d
    <3>1. QueuedOf(queue)' = Len(queue'.events) + Len(queue.hold)
      BY <2>4 DEF QueuedOf
    <3>2. QueuedOf(queue) = Len(queue.events) + Len(queue.hold)
      BY DEF QueuedOf
    <3> DEFINE a == Len(queue'.events)
               b == Len(queue.events)
               h == Len(queue.hold)
               w == Len(HeldByWorker)
    <3>3. a \in Int /\ b \in Int /\ h \in Int /\ w \in Int /\ d = a - b
      BY <2>5 DEF d
    <3> HIDE DEF a, b, h, w
    <3>4. (a + h) + w <= (b + h) + w + d
      BY <3>3
    <3> QED
      BY <2>8, <3>1, <3>2, <3>4 DEF a, b, h, w
  <2>10. ReservationsCovered'
    BY <2>6, <2>7, <2>8, <2>9, LedgerFollows
  <2> QED
    BY <1>2, <1>3, <2>6, <2>10 DEF LedgerInv, DeltaTypeOK
<1> QED
  BY <1>4, <1>5 DEF EnqueueKey

\* What a queue has in it, in numbers.
LEMMA QueueNumbers ==
  ASSUME NEW q \in DeltaQueue
  PROVE  /\ q.events \in Seq(DeltaEvent) /\ q.hold \in Seq(DeltaEvent)
         /\ Len(q.events) \in Int /\ Len(q.hold) \in Int
         /\ QueuedOf(q) = Len(q.events) + Len(q.hold) /\ QueuedOf(q) \in Int
<1>1. q.events \in Seq(DeltaEvent) /\ q.hold \in Seq(DeltaEvent)
  BY DEF DeltaQueue
<1>2. Len(q.events) \in Nat /\ Len(q.hold) \in Nat
  BY <1>1, LenProperties
<1> QED
  BY <1>1, <1>2 DEF QueuedOf

LEMMA LedgerTypes ==
  ASSUME ledger \in [queued : Int, inflight : Int], NEW x \in Int, NEW y \in Int
  PROVE  /\ LET l == [ledger EXCEPT !.queued = x]
            IN  l \in [queued : Int, inflight : Int] /\ l.queued = x
                /\ l.inflight = ledger.inflight
         /\ LET l == [ledger EXCEPT !.inflight = y]
            IN  l \in [queued : Int, inflight : Int] /\ l.queued = ledger.queued
                /\ l.inflight = y
         /\ LET l == [queued |-> x, inflight |-> y]
            IN  l \in [queued : Int, inflight : Int] /\ l.queued = x /\ l.inflight = y
OBVIOUS

\* A step keeps the invariant when its state keeps its types and the ledger
\* follows what it counts.
LEMMA LedgerStep ==
  ASSUME LedgerInv, InformerTypes', CatalogTypes', QueueInv',
         queue' \in DeltaQueue, ticket' \in DeltaTicket, worker' \in DeltaLoop,
         tight' = tight, recoveries' \in Nat, forgotten' \in SUBSET ObjectKey,
         ledger' \in [queued : Int, inflight : Int], NEW dq \in Int, NEW df \in Int,
         ledger'.queued = ledger.queued + dq, ledger'.inflight = ledger.inflight + df,
         QueuedOf(queue)' + Len(HeldByWorker)' <= QueuedOf(queue) + Len(HeldByWorker) + dq,
         Len(InFlight)' = Len(InFlight) + df
  PROVE  LedgerInv'
<1>1. LoopTypes'
  BY DEF LedgerInv, DeltaTypeOK, LoopTypes
<1>2. ReservationsCovered'
  BY <1>1, LedgerFollows
<1> QED
  BY <1>1, <1>2 DEF LedgerInv, DeltaTypeOK

\* Nor does a step that leaves the queue, what is taken from it and the ledger.
LEMMA LedgerAside ==
  ASSUME LedgerInv, InformerTypes', CatalogTypes', QueueInv',
         queue' = queue, ledger' = ledger, ticket' \in DeltaTicket, worker' \in DeltaLoop,
         tight' = tight, recoveries' \in Nat, forgotten' \in SUBSET ObjectKey,
         HeldByWorker' = HeldByWorker, InFlight' = InFlight
  PROVE  LedgerInv'
<1>1. LoopTypes'
  BY DEF LedgerInv, DeltaTypeOK, LoopTypes
<1>2. ReservationsCovered'
  BY DEF LedgerInv, ReservationsCovered, QueuedOf
<1> QED
  BY <1>1, <1>2 DEF LedgerInv, DeltaTypeOK

LEMMA StopLedger ==
  ASSUME LedgerInv, NEW leaving \in BOOLEAN, StopInformer(leaving) PROVE LedgerInv'
<1>t. InformerTypes /\ CatalogTypes /\ LoopTypes /\ QueueInv
  BY DEF LedgerInv, DeltaTypeOK
<1>1. life + 1 \in Nat /\ <<>> \in Seq(ObjectKey)
  BY <1>t, EmptySeq DEF InformerTypes
<1>2. InformerTypes'
  BY <1>t, <1>1 DEF InformerTypes, StopInformer
<1>3. NoSnap \in Publication /\ ~NoSnap.there
  BY DEF NoSnap, Publication
<1>4. CatalogTypes'
  BY <1>t, <1>3 DEF CatalogTypes, StopInformer
<1>5. NoQueue \in DeltaQueue /\ NoQueue.events = <<>> /\ NoQueue.hold = <<>> /\ ~NoQueue.there
  BY EmptySeq DEF NoQueue, DeltaQueue, NoMarks
<1>6. NoTicket \in DeltaTicket
  BY DEF NoTicket, DeltaTicket
<1>7. QueueInv'
  BY <1>5 DEF QueueInv, StopInformer
<1>8. QueuedOf(queue)' = 0
  BY <1>5 DEF StopInformer, QueuedOf
<1>9. /\ queue' = NoQueue /\ ticket' = NoTicket
      /\ UNCHANGED <<worker, tight, recoveries>> /\ forgotten' = {}
  BY DEF StopInformer
<1>10. HeldByWorker' = HeldByWorker /\ InFlight' = InFlight
  BY <1>9 DEF HeldByWorker, InFlight
<1> DEFINE e == Len(queue.events)
           h == Len(queue.hold)
           a == ledger.queued
           w == Len(HeldByWorker)
           n == Len(InFlight)
<1>11. /\ a \in Int /\ e \in Int /\ h \in Int /\ w \in Int /\ n \in Int
       /\ QueuedOf(queue) = e + h /\ ledger.inflight \in Int
       /\ ledger' = [ledger EXCEPT !.queued = a - e - h]
  BY LedgerNumbers DEF StopInformer
<1> HIDE DEF e, h, a, w, n
<1> DEFINE d == -(e + h)
<1>12. d \in Int /\ a - e - h = a + d /\ a + d \in Int
       /\ 0 + w <= (e + h) + w + d
       /\ ledger.inflight + 0 = ledger.inflight /\ n + 0 = n
  BY <1>11
<1> HIDE DEF d
<1>13. /\ ledger' \in [queued : Int, inflight : Int]
       /\ ledger'.queued = a + d /\ ledger'.inflight = ledger.inflight + 0
  BY <1>t, <1>11, <1>12, LedgerTypes DEF LoopTypes
<1>14. QueuedOf(queue)' + Len(HeldByWorker)' <= QueuedOf(queue) + Len(HeldByWorker) + d
       /\ Len(InFlight)' = Len(InFlight) + 0
  BY <1>8, <1>10, <1>11, <1>12 DEF w, n
<1> QED
  BY <1>t, <1>2, <1>4, <1>5, <1>6, <1>7, <1>9, <1>12, <1>13, <1>14, LedgerStep DEF LoopTypes, a

LEMMA ListLedger ==
  ASSUME LedgerInv, BeginList \/ CoverEvents \/ ReadStore \/ MarkBootstrapped
  PROVE  LedgerInv'
<1>t. InformerTypes /\ CatalogTypes /\ LoopTypes /\ QueueInv
  BY DEF LedgerInv, DeltaTypeOK
<1>1. /\ UNCHANGED <<informerVars, queue, ticket, worker, ledger, recoveries, tight>>
      /\ forgotten' \in SUBSET ObjectKey
  <2>1. CASE MarkBootstrapped
    BY <1>t, <2>1, OldInType DEF MarkBootstrapped, LoopTypes
  <2> QED
    BY <1>t, <2>1 DEF BeginList, CoverEvents, ReadStore, LoopTypes
<1>2. CatalogTypes'
  <2>1. CASE BeginList
    <3>1. [at |-> "begun", life |-> life] \in ListLoop
      BY <1>t DEF ListLoop, InformerTypes
    <3> QED
      BY <1>t, <2>1, <3>1 DEF BeginList, CatalogTypes
  <2>2. CASE CoverEvents
    <3>1. builder.life \in Nat
      BY <1>t, <2>2, ListStates DEF CoverEvents, CatalogTypes
    <3>2. [at |-> "covered", life |-> builder.life, covers |-> eventSeq] \in ListLoop
      BY <1>t, <3>1 DEF ListLoop, InformerTypes
    <3> QED
      BY <1>t, <2>2, <3>2 DEF CoverEvents, CatalogTypes
  <2>3. CASE ReadStore
    <3>1. builder.life \in Nat /\ builder.covers \in Nat
      BY <1>t, <2>3, ListStates DEF ReadStore, CatalogTypes
    <3>2. (~bootstrapped) \in BOOLEAN
      OBVIOUS
    <3>3. [at |-> "listed", life |-> builder.life, covers |-> builder.covers, rows |-> store,
           fresh |-> ~bootstrapped] \in Listing
      BY <1>t, <3>1, <3>2 DEF Listing, InformerTypes
    <3>4. builder' \in ListLoop
      BY <2>3, <3>3 DEF ReadStore, ListLoop
    <3> QED
      BY <1>t, <2>3, <3>4 DEF ReadStore, CatalogTypes
  <2>4. CASE MarkBootstrapped
    <3>1. Asleep \in ListLoop
      BY DEF Asleep, ListLoop
    <3> QED
      BY <1>t, <2>4, <3>1 DEF MarkBootstrapped, CatalogTypes
  <2> QED
    BY <2>1, <2>2, <2>3, <2>4
<1>3. InformerTypes' /\ QueueInv'
  BY <1>t, <1>1 DEF informerVars, InformerTypes, QueueInv
<1>4. HeldByWorker' = HeldByWorker /\ InFlight' = InFlight
  BY <1>1 DEF HeldByWorker, InFlight
<1> QED
  BY <1>t, <1>1, <1>2, <1>3, <1>4, LedgerAside DEF LoopTypes

LEMMA PublishLedger == ASSUME LedgerInv, PublishList PROVE LedgerInv'
<1>t. InformerTypes /\ CatalogTypes /\ LoopTypes /\ QueueInv
  BY DEF LedgerInv, DeltaTypeOK
<1>u. UNCHANGED <<informerVars, bootstrapped, dirty, forced, worker, recoveries, tight>>
  BY DEF PublishList
<1>b. builder \in Listing /\ snap \in Publication
  BY <1>t, ListStates DEF PublishList, CatalogTypes
<1>h. HeldByWorker' = HeldByWorker /\ InFlight' = InFlight
  BY <1>u DEF HeldByWorker, InFlight
<1>i. InformerTypes'
  BY <1>t, <1>u DEF informerVars, InformerTypes
<1>l. Listed \in Publication /\ Listed.there /\ Listed.rows \in DeltaRows
  BY <1>b DEF Listed, Publication, Listing
<1>a. Asleep \in ListLoop /\ [at |-> "installed"] \in ListLoop
  BY DEF Asleep, ListLoop
<1>c. ASSUME builder' \in ListLoop, snap' \in Publication, snap'.there => snap'.rows \in DeltaRows
      PROVE  CatalogTypes'
  BY <1>t, <1>u, <1>c DEF CatalogTypes
<1>1. CASE /\ builder' = Asleep /\ UNCHANGED <<queue, ticket, ledger, forgotten>>
           /\ snap' \in {snap, Listed, [Listed EXCEPT !.index = Absent, !.version = @ + 1]}
  <2>1. Listed.version + 1 \in Nat
    BY <1>l DEF Publication
  <2>2. LET r == [Listed EXCEPT !.index = Absent, !.version = @ + 1]
        IN  r \in Publication /\ r.rows = Listed.rows
    BY <1>l, <2>1 DEF Publication
  <2>3. snap' \in Publication /\ (snap'.there => snap'.rows \in DeltaRows)
    BY <1>1, <1>b, <1>l, <1>t, <2>2 DEF CatalogTypes
  <2>4. CatalogTypes'
    BY <1>1, <1>a, <1>c, <2>3
  <2>5. QueueInv'
    BY <1>t, <1>u, <1>1 DEF QueueInv
  <2> QED
    BY <1>t, <1>u, <1>i, <1>h, <1>1, <2>4, <2>5, LedgerAside DEF LoopTypes
<1>2. CASE /\ builder' = [at |-> "installed"]
           /\ snap' = WithIndex(Listed, builder.rows)
           /\ queue' = IF queue.there THEN AckCovered(queue, builder.covers) ELSE queue
           /\ ledger' = [ledger EXCEPT !.queued = @ - (QueuedOf(queue) - QueuedOf(queue'))]
           /\ forgotten' = IF snap.index = Absent THEN {} ELSE OldIn(builder.rows, queue')
           /\ ticket' = IF ticket.at # "building" THEN ticket
                        ELSE [ticket EXCEPT !.old = @ \cup (OldIn(ticket.rows, queue')
                                                             \cap KeysIn(ticket.target))]
  <2>1. builder.rows \in DeltaRows /\ builder.covers \in Nat
    BY <1>b DEF Listing
  <2>2. snap' \in Publication /\ snap'.rows \in DeltaRows
    BY <1>2, <1>l, <2>1, WithIndexType
  <2>3. CatalogTypes'
    BY <1>2, <1>a, <1>c, <2>2
  <2>4. queue \in DeltaQueue /\ queue' \in DeltaQueue /\ queue'.there = queue.there
        /\ (~queue.there => queue' = queue)
    BY <1>t, <1>2, <2>1, AckCoveredType DEF LoopTypes
  <2>5. forgotten' \in SUBSET ObjectKey
    BY <1>2, OldInType
  <2>6. /\ ticket' \in DeltaTicket /\ (ticket = NoTicket => ticket' = NoTicket)
        /\ (ticket \in Recovery => ticket' \in Recovery)
    <3>1. CASE ticket.at # "building"
      BY <1>t, <1>2, <3>1, TicketStates DEF LoopTypes
    <3>2. CASE ticket.at = "building"
      <4>1. ticket \in Recovery /\ ticket # NoTicket
        BY <1>t, <3>2, TicketStates DEF LoopTypes
      <4> DEFINE o == ticket.old \cup (OldIn(ticket.rows, queue') \cap KeysIn(ticket.target))
      <4>2. o \in SUBSET ObjectKey
        BY <4>1 DEF KeysIn, Recovery
      <4>3. ticket' = [ticket EXCEPT !.old = o]
        BY <1>2, <3>2
      <4> HIDE DEF o
      <4>4. ticket' \in Recovery
        BY <4>1, <4>2, <4>3 DEF Recovery
      <4> QED
        BY <4>1, <4>4 DEF DeltaTicket
    <3> QED
      BY <3>1, <3>2
  <2>7. QueueInv'
    BY <1>t, <1>u, <2>4, <2>6 DEF QueueInv
  <2> DEFINE q == QueuedOf(queue)
             r == QueuedOf(queue)'
             w == Len(HeldByWorker)
             n == Len(InFlight)
             a == ledger.queued
             d == -(q - r)
  <2>8. q \in Int /\ r \in Int /\ w \in Int /\ n \in Int /\ a \in Int /\ ledger.inflight \in Int
    <3>1. QueuedOf(queue)' = QueuedOf(queue')
      BY DEF QueuedOf
    <3>2. QueuedOf(queue') \in Int /\ QueuedOf(queue) \in Int
      BY <2>4, QueueNumbers
    <3> QED
      BY <3>1, <3>2, LedgerNumbers
  <2>9. QueuedOf(queue') = r
    BY DEF QueuedOf
  <2>10. ledger' = [ledger EXCEPT !.queued = a - (q - r)]
    BY <1>2, <2>9
  <2> HIDE DEF q, r, w, n, a
  <2>11. /\ d \in Int /\ a - (q - r) = a + d /\ a + d \in Int /\ r + w <= q + w + d
         /\ ledger.inflight + 0 = ledger.inflight /\ n + 0 = n
    BY <2>8
  <2> HIDE DEF d
  <2>12. /\ ledger' \in [queued : Int, inflight : Int]
         /\ ledger'.queued = a + d /\ ledger'.inflight = ledger.inflight + 0
    BY <1>t, <2>8, <2>10, <2>11, LedgerTypes DEF LoopTypes
  <2>13. QueuedOf(queue)' + Len(HeldByWorker)' <= QueuedOf(queue) + Len(HeldByWorker) + d
         /\ Len(InFlight)' = Len(InFlight) + 0
    BY <1>h, <2>11 DEF q, r, w, n
  <2> QED
    BY <1>t, <1>u, <1>i, <2>3, <2>4, <2>5, <2>6, <2>7, <2>11, <2>12, <2>13, LedgerStep
       DEF LoopTypes, a
<1>3. CASE /\ builder' = Asleep /\ snap' = Listed /\ ticket' = NoTicket
           /\ queue' = IF queue.there THEN Purged(queue) ELSE queue
           /\ ledger' = [ledger EXCEPT !.queued = @ - QueuedOf(queue)]
           /\ UNCHANGED forgotten
  <2>1. CatalogTypes'
    BY <1>3, <1>a, <1>c, <1>l
  <2>2. /\ Purged(queue) \in DeltaQueue /\ Purged(queue).there = queue.there
        /\ Purged(queue).events = <<>> /\ Purged(queue).hold = <<>>
    <3>1. queue \in DeltaQueue /\ NoMarks \in [Space -> Nat \cup {Absent}]
          /\ <<>> \in Seq(DeltaEvent)
      BY <1>t, EmptySeq DEF LoopTypes, NoMarks
    <3>2. queue.epoch + 1 \in Nat
      BY <3>1 DEF DeltaQueue
    <3> QED
      BY <3>1, <3>2 DEF Purged, DeltaQueue
  <2>3. /\ queue' \in DeltaQueue /\ queue'.events = <<>> /\ queue'.hold = <<>>
        /\ NoTicket \in DeltaTicket
    BY <1>t, <1>3, <2>2 DEF LoopTypes, QueueInv, NoTicket, DeltaTicket
  <2>4. QueueInv'
    BY <1>3, <2>3 DEF QueueInv
  <2>5. QueuedOf(queue)' = 0
    BY <2>3 DEF QueuedOf
  <2> DEFINE q == QueuedOf(queue)
             w == Len(HeldByWorker)
             n == Len(InFlight)
             a == ledger.queued
             d == -q
  <2>8. q \in Int /\ w \in Int /\ n \in Int /\ a \in Int /\ ledger.inflight \in Int
    BY <1>t, QueueNumbers, LedgerNumbers DEF LoopTypes
  <2>10. ledger' = [ledger EXCEPT !.queued = a - q]
    BY <1>3
  <2> HIDE DEF q, w, n, a
  <2>11. /\ d \in Int /\ a - q = a + d /\ a + d \in Int /\ 0 + w <= q + w + d
         /\ ledger.inflight + 0 = ledger.inflight /\ n + 0 = n
    BY <2>8
  <2> HIDE DEF d
  <2>12. /\ ledger' \in [queued : Int, inflight : Int]
         /\ ledger'.queued = a + d /\ ledger'.inflight = ledger.inflight + 0
    BY <1>t, <2>8, <2>10, <2>11, LedgerTypes DEF LoopTypes
  <2>13. QueuedOf(queue)' + Len(HeldByWorker)' <= QueuedOf(queue) + Len(HeldByWorker) + d
         /\ Len(InFlight)' = Len(InFlight) + 0
    BY <1>h, <2>5, <2>11 DEF q, w, n
  <2> QED
    BY <1>t, <1>u, <1>i, <1>3, <2>1, <2>3, <2>4, <2>11, <2>12, <2>13, LedgerStep DEF LoopTypes, a
<1> QED
  BY <1>1, <1>2, <1>3 DEF PublishList

\* What the delta loop has in its hands in each of its states.
LEMMA InHand ==
  ASSUME NEW w, w = worker
  PROVE  /\ w.at \notin {"holding", "overlaid", "settling"} => HeldByWorker = <<>>
         /\ w.at \in {"holding", "overlaid", "settling"} => HeldByWorker = w.held
         /\ w.at \notin {"drained", "applied", "conflict", "refused", "done"} => InFlight = <<>>
         /\ w.at \in {"drained", "applied", "conflict", "refused", "done"} => InFlight = w.batch
BY DEF HeldByWorker, InFlight

LEMMA InHandNext ==
  ASSUME NEW w, w = worker'
  PROVE  /\ w.at \notin {"holding", "overlaid", "settling"} => HeldByWorker' = <<>>
         /\ w.at \in {"holding", "overlaid", "settling"} => HeldByWorker' = w.held
         /\ w.at \notin {"drained", "applied", "conflict", "refused", "done"} => InFlight' = <<>>
         /\ w.at \in {"drained", "applied", "conflict", "refused", "done"} => InFlight' = w.batch
BY DEF HeldByWorker, InFlight

LEMMA CaptureLedger == ASSUME LedgerInv, CaptureIndex PROVE LedgerInv'
<1>t. InformerTypes /\ CatalogTypes /\ LoopTypes /\ QueueInv
  BY DEF LedgerInv, DeltaTypeOK
<1>1. UNCHANGED <<informerVars, catalogVars, queue, ticket, ledger, recoveries, tight, forgotten>>
  BY DEF CaptureIndex
<1>2. InformerTypes' /\ CatalogTypes'
  BY <1>t, <1>1 DEF informerVars, catalogVars, InformerTypes, CatalogTypes
<1>3. worker' \in Captured
  BY <1>t DEF CaptureIndex, CatalogTypes, InformerTypes, Publication, Captured
<1>4. worker' \in DeltaLoop /\ worker'.at = "captured"
  BY <1>3 DEF DeltaLoop, Captured
<1>5. HeldByWorker' = HeldByWorker /\ InFlight' = InFlight
  BY <1>4, InHand, InHandNext DEF CaptureIndex, Asleep
<1>6. QueueInv'
  BY <1>t, <1>1, <1>4 DEF QueueInv
<1> QED
  BY <1>t, <1>1, <1>2, <1>4, <1>5, <1>6, LedgerAside DEF LoopTypes

LEMMA DrainLedger == ASSUME LedgerInv, DrainQueue PROVE LedgerInv'
<1>t. InformerTypes /\ CatalogTypes /\ LoopTypes /\ QueueInv
  BY DEF LedgerInv, DeltaTypeOK
<1>1. UNCHANGED <<informerVars, catalogVars, recoveries, tight, forgotten>>
  BY DEF DrainQueue
<1>2. InformerTypes' /\ CatalogTypes'
  BY <1>t, <1>1 DEF informerVars, catalogVars, InformerTypes, CatalogTypes
<1>3. worker \in Captured /\ queue \in DeltaQueue /\ ticket \in DeltaTicket
  BY <1>t, LoopStates DEF DrainQueue, LoopTypes
<1>4. HeldByWorker = <<>> /\ InFlight = <<>>
  BY <1>3, InHand DEF Captured
<1>5. Asleep \in DeltaLoop /\ Asleep.at = "idle"
  BY DEF Asleep, DeltaLoop
<1> DEFINE q == QueuedOf(queue)
           a == ledger.queued
           b == ledger.inflight
<1>6. q \in Int /\ a \in Int /\ b \in Int
  BY <1>3, QueueNumbers, LedgerNumbers
<1>7. CASE queue.events = <<>> /\ worker' = Asleep /\ UNCHANGED <<queue, ticket, ledger>>
  <2>1. HeldByWorker' = HeldByWorker /\ InFlight' = InFlight
    BY <1>4, <1>5, <1>7, InHandNext
  <2>2. QueueInv'
    BY <1>t, <1>5, <1>7 DEF QueueInv
  <2> QED
    BY <1>t, <1>1, <1>2, <1>5, <1>7, <2>1, <2>2, LedgerAside DEF LoopTypes
<1>8. CASE /\ queue.events # <<>> /\ worker' = Asleep /\ ticket' = ticket
           /\ queue' = DroppedEvent([queue EXCEPT !.events = Tail(@)], Head(queue.events))
           /\ ledger' = [ledger EXCEPT !.queued = @ - 1]
  <2> DEFINE h == Len(queue.hold)
             e == Len(queue.events)
             rest == [queue EXCEPT !.events = Tail(queue.events)]
             y == -1
  <2>1. /\ Head(queue.events) \in DeltaEvent /\ Tail(queue.events) \in Seq(DeltaEvent)
        /\ Len(Tail(queue.events)) = e - 1
    BY <1>3, <1>8, HeadTailProperties DEF DeltaQueue
  <2>2. rest \in DeltaQueue /\ rest.hold = queue.hold /\ rest.there = queue.there
        /\ rest.events = Tail(queue.events)
    BY <1>3, <2>1, QueuedType DEF SameHold
  <2> HIDE DEF rest
  <2>3. queue' \in SameEvents(rest)
    BY <1>8, <2>1, <2>2, DroppedType DEF rest
  <2>4. queue' \in DeltaQueue /\ queue'.there = queue.there
        /\ queue'.events = Tail(queue.events) /\ queue'.hold = queue.hold
    BY <2>2, <2>3 DEF SameEvents
  <2>5. queue.there
    BY <1>t, <1>8 DEF QueueInv
  <2>6. QueueInv'
    BY <1>5, <1>8, <2>4, <2>5 DEF QueueInv
  <2>7. QueuedOf(queue)' = (e - 1) + h /\ q = e + h /\ e \in Int /\ h \in Int
    BY <1>3, <2>1, <2>4, QueueNumbers DEF QueuedOf
  <2> HIDE DEF q, a, b, e, h
  <2>8. y \in Int /\ a - 1 = a + y /\ a - 1 \in Int /\ b + 0 = b
        /\ ((e - 1) + h) + 0 <= q + 0 + y /\ 0 = 0 + 0
    BY <1>6, <2>7
  <2> HIDE DEF y
  <2>9. /\ ledger' \in [queued : Int, inflight : Int]
        /\ ledger'.queued = a + y /\ ledger'.inflight = b + 0
    BY <1>t, <1>6, <1>8, <2>8, LedgerTypes DEF LoopTypes, a, b
  <2>10. HeldByWorker' = <<>> /\ InFlight' = <<>> /\ Len(<<>>) = 0
    BY <1>5, <1>8, InHandNext
  <2>11. QueuedOf(queue)' + Len(HeldByWorker)' <= QueuedOf(queue) + Len(HeldByWorker) + y
         /\ Len(InFlight)' = Len(InFlight) + 0
    BY <1>4, <2>7, <2>8, <2>10 DEF q
  <2> QED
    <3>1. /\ worker' \in DeltaLoop /\ ticket' \in DeltaTicket /\ tight' = tight
          /\ recoveries' \in Nat /\ forgotten' \in SUBSET ObjectKey
      BY <1>t, <1>1, <1>5, <1>8 DEF LoopTypes
    <3>2. /\ ledger'.queued = ledger.queued + y /\ ledger'.inflight = ledger.inflight + 0
          /\ y \in Int /\ 0 \in Int
      BY <2>8, <2>9 DEF a, b
    <3> QED
      BY <1>2, <2>4, <2>6, <2>9, <2>11, <3>1, <3>2, LedgerStep
<1>9. ASSUME NEW want \in 1 .. Len(queue.events),
             queue' = Drained(want).q, ticket' = Drained(want).ticket,
             worker' = IF Drained(want).batch = <<>> THEN Asleep
                       ELSE [at |-> "drained", life |-> worker.life,
                             base |-> worker.base, index |-> worker.index,
                             parts |-> worker.parts, batch |-> Drained(want).batch],
             ledger' = [queued |-> ledger.queued - Drained(want).released
                                     - Len(Drained(want).batch),
                        inflight |-> ledger.inflight + Len(Drained(want).batch)]
      PROVE  LedgerInv'
  <2> DEFINE d == Drained(want)
             x == d.released
             n == Len(d.batch)
             r == QueuedOf(d.q)
  <2>1. want \in Nat /\ queue.events # <<>>
    BY <1>3, LenProperties DEF DeltaQueue
  <2>2. d \in Taking /\ x + n + r <= q
    BY <1>3, <2>1, DrainedType
  <2>3. /\ d.q \in DeltaQueue /\ d.q.there = queue.there /\ d.batch \in Seq(DeltaEvent)
        /\ d.ticket \in DeltaTicket /\ x \in Nat
    BY <2>2 DEF Taking
  <2>4. n \in Nat /\ r \in Int
    BY <2>3, LenProperties, QueueNumbers
  <2>5. queue.there
    BY <1>t, <2>1 DEF QueueInv
  <2>6. /\ worker' \in DeltaLoop /\ worker'.at \in {"idle", "drained"}
        /\ (d.batch # <<>> => worker'.at = "drained" /\ worker'.batch = d.batch)
        /\ (d.batch = <<>> => worker'.at = "idle")
    <3>1. CASE d.batch = <<>>
      BY <1>5, <1>9, <3>1
    <3>2. CASE d.batch # <<>>
      <4>1. [at |-> "drained", life |-> worker.life, base |-> worker.base,
             index |-> worker.index, parts |-> worker.parts, batch |-> d.batch] \in Carrying
        BY <1>3, <2>3 DEF Captured, Carrying
      <4> QED
        BY <1>9, <3>2, <4>1 DEF DeltaLoop
    <3> QED
      BY <3>1, <3>2
  <2>7. HeldByWorker' = <<>> /\ InFlight' = d.batch
    BY <2>6, InHandNext
  <2>8. queue' \in DeltaQueue /\ queue'.there /\ ticket' \in DeltaTicket
    BY <1>9, <2>3, <2>5
  <2>9. QueueInv'
    BY <2>6, <2>8 DEF QueueInv
  <2>10. QueuedOf(queue)' = r
    BY <1>9 DEF QueuedOf
  <2>11. ledger' = [queued |-> a - x - n, inflight |-> b + n]
    BY <1>9
  <2> HIDE DEF d, x, n, r, q, a, b
  <2> DEFINE y == -(x + n)
  <2>12. /\ y \in Int /\ n \in Int /\ a - x - n = a + y /\ a + y \in Int /\ b + n \in Int
         /\ r + 0 <= q + 0 + y /\ n = 0 + n
    BY <1>6, <2>2, <2>3, <2>4
  <2> HIDE DEF y
  <2>13. /\ ledger' \in [queued : Int, inflight : Int]
         /\ ledger'.queued = a + y /\ ledger'.inflight = b + n
    BY <1>t, <2>11, <2>12, LedgerTypes DEF LoopTypes
  <2>14. QueuedOf(queue)' + Len(HeldByWorker)' <= QueuedOf(queue) + Len(HeldByWorker) + y
         /\ Len(InFlight)' = Len(InFlight) + n
    BY <1>4, <2>7, <2>10, <2>12 DEF q, n
  <2> QED
    BY <1>t, <1>1, <1>2, <2>6, <2>8, <2>9, <2>12, <2>13, <2>14, LedgerStep DEF LoopTypes, a, b
<1> QED
  BY <1>7, <1>8, <1>9 DEF DrainQueue

LEMMA CarryLedger == ASSUME LedgerInv, ApplyBatch \/ PublishDelta PROVE LedgerInv'
<1>t. InformerTypes /\ CatalogTypes /\ LoopTypes /\ QueueInv
  BY DEF LedgerInv, DeltaTypeOK
<1>1. /\ UNCHANGED <<informerVars, builder, dirty, bootstrapped, forced, queue, ticket, ledger,
                     recoveries, tight>>
      /\ worker \in Carrying
  BY <1>t, LoopStates DEF ApplyBatch, PublishDelta, catalogVars, LoopTypes
<1>2. forgotten' \in SUBSET ObjectKey
  BY <1>t DEF ApplyBatch, PublishDelta, LoopTypes
<1>3. CatalogTypes'
  <2>1. CASE snap' = snap
    BY <1>t, <1>1, <2>1 DEF CatalogTypes
  <2>2. CASE /\ snap.there
             /\ snap' = [snap EXCEPT !.index = worker.index, !.version = @ + 1,
                                     !.parts = worker.parts]
    <3>1. /\ snap \in Publication /\ snap.rows \in DeltaRows
          /\ worker.index \in DeltaRows /\ worker.parts \in [Space -> Nat]
      BY <1>t, <1>1, <2>2 DEF CatalogTypes, Carrying
    <3>2. snap.version + 1 \in Nat
      BY <3>1 DEF Publication
    <3>3. snap' \in Publication /\ snap'.rows = snap.rows
      BY <2>2, <3>1, <3>2 DEF Publication
    <3> QED
      BY <1>t, <1>1, <3>1, <3>3 DEF CatalogTypes
  <2> QED
    BY <2>1, <2>2 DEF ApplyBatch, PublishDelta, catalogVars, Unchanged
<1>4. /\ worker' \in Carrying /\ worker'.batch = worker.batch
  <2>1. CASE ApplyBatch
    <3> DEFINE touched == {SpaceOf(k) : k \in KeysOf(worker.batch)} \cup StaleSpaces(queue)
               i == Overlaid(worker.index, KeysOf(worker.batch))
               p == [n \in Space |-> IF n \in touched THEN worker.parts[n] + 1
                                     ELSE worker.parts[n]]
    <3>1. i \in DeltaRows
      BY <1>t, <1>1, OverlaidType DEF InformerTypes, Carrying
    <3>2. p \in [Space -> Nat]
      BY <1>1 DEF Carrying
    <3>3. worker' = [worker EXCEPT !.at = "applied", !.index = i, !.parts = p]
      BY <2>1 DEF ApplyBatch
    <3> HIDE DEF i, p
    <3> QED
      BY <1>1, <3>1, <3>2, <3>3 DEF Carrying
  <2>2. CASE PublishDelta
    <3>1. \E s \in {"conflict", "refused", "done"} : worker' = [worker EXCEPT !.at = s]
      BY <2>2 DEF PublishDelta
    <3> QED
      BY <1>1, <3>1 DEF Carrying
  <2> QED
    BY <2>1, <2>2
<1>5. /\ worker' \in DeltaLoop /\ HeldByWorker' = HeldByWorker /\ InFlight' = InFlight
  BY <1>1, <1>4, InHand, InHandNext DEF Carrying, DeltaLoop
<1>6. InformerTypes' /\ QueueInv'
  BY <1>t, <1>1, <1>4 DEF informerVars, InformerTypes, QueueInv, Carrying
<1> QED
  BY <1>t, <1>1, <1>2, <1>3, <1>5, <1>6, LedgerAside DEF LoopTypes

\* What ends a batch: the queue may take it back, and it is no longer counted.
LEMMA BatchEnds ==
  ASSUME LedgerInv, worker \in Carrying, worker' = Asleep,
         UNCHANGED <<informerVars, builder, snap, ticket, recoveries, tight, forgotten>>,
         UNCHANGED <<dirty, bootstrapped, forced>> \/ ForceRebuild,
         queue' \in DeltaQueue, queue'.hold = queue.hold, queue.there => queue'.there,
         ~queue'.there => queue' = queue,
         \/ /\ queue'.events = queue.events
            /\ ledger' = [ledger EXCEPT !.inflight = @ - Len(worker.batch)]
         \/ ledger' = [queued |-> ledger.queued + Len(queue'.events) - Len(queue.events),
                       inflight |-> ledger.inflight - Len(worker.batch)]
  PROVE  LedgerInv'
<1>t. InformerTypes /\ CatalogTypes /\ LoopTypes /\ QueueInv
  BY DEF LedgerInv, DeltaTypeOK
<1>1. InformerTypes'
  BY <1>t DEF informerVars, InformerTypes
<1>2. CatalogTypes'
  BY <1>t DEF CatalogTypes, ForceRebuild
<1>3. Asleep \in DeltaLoop /\ Asleep.at = "idle"
  BY DEF Asleep, DeltaLoop
<1>4. QueueInv'
  BY <1>t, <1>3 DEF QueueInv
<1>5. HeldByWorker = <<>> /\ InFlight = worker.batch
  BY InHand DEF Carrying
<1>6. HeldByWorker' = <<>> /\ InFlight' = <<>>
  BY <1>3, InHandNext
<1> DEFINE a == ledger.queued
           b == ledger.inflight
           n == Len(worker.batch)
           e == Len(queue.events)
           f == Len(queue'.events)
           h == Len(queue.hold)
           d == f - e
<1>7. /\ a \in Int /\ b \in Int /\ e \in Int /\ f \in Int /\ h \in Int
      /\ queue \in DeltaQueue
  BY <1>t, QueueNumbers, LedgerNumbers DEF LoopTypes
<1>8. n \in Int
  <2>1. worker.batch \in Seq(DeltaEvent)
    BY DEF Carrying
  <2>2. Len(worker.batch) \in Nat
    BY <2>1, LenProperties
  <2> QED
    BY <2>2
<1>9. QueuedOf(queue) = e + h /\ QueuedOf(queue)' = f + h
  BY DEF QueuedOf
<1>10. \/ f = e /\ ledger' = [ledger EXCEPT !.inflight = b - n]
       \/ ledger' = [queued |-> a + f - e, inflight |-> b - n]
  OBVIOUS
<1> HIDE DEF a, b, n, e, f, h
<1> DEFINE m == -n
<1>11. /\ d \in Int /\ m \in Int /\ a + f - e = a + d /\ a + d \in Int /\ b - n = b + m
       /\ b + m \in Int /\ (f = e => a = a + d)
       /\ (f + h) + 0 <= (e + h) + 0 + d /\ 0 = n + m
  <2>1. d \in Int /\ a + f - e = a + d /\ a + d \in Int /\ (f = e => a = a + d)
    BY <1>7
  <2>2. m \in Int /\ b - n = b + m /\ b + m \in Int /\ 0 = n + m
    BY <1>7, <1>8
  <2>3. (f + h) + 0 <= (e + h) + 0 + d
    BY <1>7
  <2> QED
    BY <2>1, <2>2, <2>3
<1> HIDE DEF d, m
<1>12. /\ ledger' \in [queued : Int, inflight : Int]
       /\ ledger'.queued = a + d /\ ledger'.inflight = b + m
  <2>1. ledger \in [queued : Int, inflight : Int] /\ ledger.queued = a
    BY <1>t DEF LoopTypes, a
  <2>2. CASE f = e /\ ledger' = [ledger EXCEPT !.inflight = b - n]
    BY <1>11, <2>1, <2>2, LedgerTypes
  <2>3. CASE ledger' = [queued |-> a + f - e, inflight |-> b - n]
    BY <1>11, <2>1, <2>3, LedgerTypes
  <2> QED
    BY <1>10, <2>2, <2>3
<1>13. Len(<<>>) = 0
  OBVIOUS
<1>14. QueuedOf(queue)' + Len(HeldByWorker)' <= QueuedOf(queue) + Len(HeldByWorker) + d
       /\ Len(InFlight)' = Len(InFlight) + m
  BY <1>5, <1>6, <1>9, <1>11, <1>13 DEF n
<1> QED
  BY <1>t, <1>1, <1>2, <1>3, <1>4, <1>11, <1>12, <1>14, LedgerStep DEF LoopTypes, a, b

LEMMA BatchLedger == ASSUME LedgerInv, GiveBack \/ MarkRefused \/ FinishBatch PROVE LedgerInv'
<1>t. LoopTypes /\ QueueInv
  BY DEF LedgerInv, DeltaTypeOK
<1>1. worker \in Carrying /\ worker.batch \in Seq(DeltaEvent) /\ queue \in DeltaQueue
  BY <1>t, LoopStates DEF GiveBack, MarkRefused, FinishBatch, LoopTypes, Carrying
<1>2. CASE GiveBack
  <2>1. \A room : Requeued(worker.batch, room) \in SameHold(queue)
    BY <1>1, RequeuedType
  <2>2. /\ queue' \in DeltaQueue /\ queue'.hold = queue.hold /\ (queue.there => queue'.there)
        /\ (~queue'.there => queue' = queue)
    BY <1>1, <1>2, <2>1 DEF GiveBack, SameHold
  <2> QED
    BY <1>1, <1>2, <2>2, BatchEnds DEF GiveBack
<1>3. CASE MarkRefused
  <2>1. AllDropped(queue, worker.batch) \in SameEvents(queue)
    BY <1>1, AllDroppedType
  <2>2. /\ queue' \in DeltaQueue /\ queue'.hold = queue.hold /\ (queue.there => queue'.there)
        /\ (~queue'.there => queue' = queue) /\ queue'.events = queue.events
    BY <1>1, <1>3, <2>1 DEF MarkRefused, SameEvents
  <2> QED
    BY <1>1, <1>3, <2>2, BatchEnds DEF MarkRefused
<1>4. CASE FinishBatch
  <2> DEFINE r == QueueOrNew(queue)
             m == Later(r.marker, eventSeq)
             x == [r EXCEPT !.marker = m, !.epoch = @ + 1, !.whole = TRUE]
  <2>1. /\ NewQueue \in DeltaQueue /\ NewQueue.there
        /\ NewQueue.hold = <<>> /\ NewQueue.events = <<>>
    BY EmptySeq DEF NewQueue, NoQueue, DeltaQueue, NoMarks
  <2>2. r \in DeltaQueue /\ r.there /\ r.hold = queue.hold /\ r.events = queue.events
    BY <1>t, <1>1, <2>1 DEF QueueOrNew, QueueInv
  <2>3. eventSeq \in Nat
    BY DEF LedgerInv, DeltaTypeOK, InformerTypes
  <2> HIDE DEF r
  <2>4. r.epoch + 1 \in Nat /\ m \in Nat
    BY <2>2, <2>3 DEF DeltaQueue, Later
  <2> HIDE DEF m
  <2>5. x \in DeltaQueue /\ x.there /\ x.hold = queue.hold /\ x.events = queue.events
    BY <2>2, <2>4 DEF DeltaQueue
  <2>6. queue' \in {queue, x}
    BY <1>4 DEF FinishBatch, r, m
  <2> HIDE DEF x
  <2>7. /\ queue' \in DeltaQueue /\ queue'.hold = queue.hold /\ (queue.there => queue'.there)
        /\ (~queue'.there => queue' = queue) /\ queue'.events = queue.events
    BY <1>1, <2>5, <2>6
  <2> QED
    BY <1>1, <1>4, <2>7, BatchEnds DEF FinishBatch, catalogVars
<1> QED
  BY <1>2, <1>3, <1>4

LEMMA PickLedger == ASSUME LedgerInv, Pick PROVE LedgerInv'
<1>t. InformerTypes /\ CatalogTypes /\ LoopTypes /\ QueueInv
  BY DEF LedgerInv, DeltaTypeOK
<1>1. UNCHANGED <<informerVars, catalogVars, queue, worker, ledger, tight, forgotten>>
      /\ worker = Asleep /\ queue.there /\ queue \in DeltaQueue
  BY <1>t DEF Pick, LoopTypes
<1>2. InformerTypes' /\ CatalogTypes'
  BY <1>t, <1>1 DEF informerVars, catalogVars, InformerTypes, CatalogTypes
<1>3. PICK target \in StaleSpaces(queue) \cup {Whole} :
        ticket' = [at |-> "picked", target |-> target,
                   marker |-> MarkerFor(queue, target), epoch |-> queue.epoch]
  BY DEF Pick
<1>4. target \in DeltaTarget /\ MarkerFor(queue, target) \in Nat /\ queue.epoch \in Nat
  BY <1>1, <1>3 DEF MarkerFor, StaleSpaces, DeltaTarget, DeltaQueue
<1> DEFINE m == MarkerFor(queue, target)
<1> HIDE DEF m
<1>5. m \in Nat /\ ticket' = [at |-> "picked", target |-> target, marker |-> m,
                              epoch |-> queue.epoch]
  BY <1>3, <1>4 DEF m
<1>6. ticket' \in Picked
  BY <1>4, <1>5 DEF Picked
<1>7. ticket' \in DeltaTicket /\ recoveries' \in Nat
  BY <1>t, <1>6 DEF DeltaTicket, Pick, LoopTypes
<1>8. QueueInv'
  BY <1>1 DEF QueueInv, Asleep
<1>9. HeldByWorker' = HeldByWorker /\ InFlight' = InFlight
  BY <1>1 DEF HeldByWorker, InFlight
<1> QED
  BY <1>t, <1>1, <1>2, <1>7, <1>8, <1>9, LedgerAside DEF LoopTypes

LEMMA AbortLedger == ASSUME LedgerInv, AbortRecovery PROVE LedgerInv'
<1>t. InformerTypes /\ CatalogTypes /\ LoopTypes /\ QueueInv
  BY DEF LedgerInv, DeltaTypeOK
<1>1. /\ UNCHANGED <<informerVars, catalogVars, worker, recoveries, tight, forgotten>>
      /\ worker = Asleep /\ queue \in DeltaQueue /\ ticket' = NoTicket
      /\ queue' = [queue EXCEPT !.hold = <<>>]
  BY <1>t DEF AbortRecovery, LoopTypes
<1>2. InformerTypes' /\ CatalogTypes'
  BY <1>t, <1>1 DEF informerVars, catalogVars, InformerTypes, CatalogTypes
<1>3. /\ queue' \in DeltaQueue /\ queue'.there = queue.there /\ queue'.hold = <<>>
      /\ queue'.events = queue.events
  BY <1>1, EmptySeq DEF DeltaQueue
<1>4. NoTicket \in DeltaTicket
  BY DEF NoTicket, DeltaTicket
<1>5. QueueInv'
  BY <1>t, <1>1, <1>3 DEF QueueInv
<1>6. HeldByWorker' = HeldByWorker /\ InFlight' = InFlight
  BY <1>1 DEF HeldByWorker, InFlight
<1> DEFINE a == ledger.queued
           e == Len(queue.events)
           h == Len(queue.hold)
           w == Len(HeldByWorker)
           n == Len(InFlight)
           d == -h
<1>7. /\ a \in Int /\ e \in Int /\ h \in Int /\ w \in Int /\ n \in Int
      /\ ledger.inflight \in Int
  BY <1>1, QueueNumbers, LedgerNumbers
<1>8. QueuedOf(queue) = e + h /\ QueuedOf(queue)' = e + 0
  BY <1>3 DEF QueuedOf
<1>9. ledger' = [ledger EXCEPT !.queued = a - h]
  BY DEF AbortRecovery
<1> HIDE DEF a, e, h, w, n
<1>10. /\ d \in Int /\ a - h = a + d /\ a + d \in Int /\ (e + 0) + w <= (e + h) + w + d
       /\ ledger.inflight + 0 = ledger.inflight /\ n + 0 = n
  BY <1>7
<1> HIDE DEF d
<1>11. /\ ledger' \in [queued : Int, inflight : Int]
       /\ ledger'.queued = a + d /\ ledger'.inflight = ledger.inflight + 0
  BY <1>t, <1>7, <1>9, <1>10, LedgerTypes DEF LoopTypes
<1>12. QueuedOf(queue)' + Len(HeldByWorker)' <= QueuedOf(queue) + Len(HeldByWorker) + d
       /\ Len(InFlight)' = Len(InFlight) + 0
  BY <1>6, <1>8, <1>10 DEF w, n
<1> QED
  BY <1>t, <1>1, <1>2, <1>3, <1>4, <1>5, <1>10, <1>11, <1>12, LedgerStep DEF LoopTypes, a

LEMMA PinLedger == ASSUME LedgerInv, PinCapture \/ PinCommit PROVE LedgerInv'
<1>t. InformerTypes /\ CatalogTypes /\ LoopTypes /\ QueueInv
  BY DEF LedgerInv, DeltaTypeOK
<1>1. /\ UNCHANGED <<informerVars, catalogVars, ledger, recoveries, tight, forgotten>>
      /\ worker \in [at : {"idle"}] \cup Pinning
  <2>1. CASE PinCapture
    BY <2>1 DEF PinCapture, Asleep
  <2>2. CASE PinCommit
    BY <1>t, <2>2, LoopStates DEF PinCommit, LoopTypes
  <2> QED
    BY <2>1, <2>2
<1>2. InformerTypes' /\ CatalogTypes'
  BY <1>t, <1>1 DEF informerVars, catalogVars, InformerTypes, CatalogTypes
<1>3. worker' \in [at : {"idle"}] \cup Pinning
  <2>1. CASE PinCapture
    <3>1. snap \in Publication /\ snap.rows \in DeltaRows
      BY <1>t, <2>1 DEF PinCapture, CatalogTypes
    <3>2. [at |-> "pinning", rows |-> snap.rows, parts |-> snap.parts,
           base |-> snap.version, life |-> life] \in Pinning
      BY <1>t, <3>1 DEF Publication, Pinning, InformerTypes
    <3> QED
      BY <2>1, <3>2 DEF PinCapture
  <2>2. CASE PinCommit
    BY <2>2 DEF PinCommit, Asleep
  <2> QED
    BY <2>1, <2>2
<1>4. /\ worker' \in DeltaLoop /\ worker'.at \in {"idle", "pinning"}
      /\ worker.at \in {"idle", "pinning"}
  BY <1>1, <1>3 DEF DeltaLoop, Pinning
<1>5. HeldByWorker' = HeldByWorker /\ InFlight' = InFlight
  BY <1>4, InHand, InHandNext
<1>6. CASE UNCHANGED <<queue, ticket>>
  <2>1. QueueInv'
    BY <1>t, <1>4, <1>6 DEF QueueInv
  <2> QED
    BY <1>t, <1>1, <1>2, <1>4, <1>5, <1>6, <2>1, LedgerAside DEF LoopTypes
<1>7. CASE PinCommit /\ ticket # NoTicket
  <2>1. ticket \in Picked \cup Recovery /\ queue \in DeltaQueue /\ queue.there
    BY <1>t, <1>7, TicketStates DEF LoopTypes, QueueInv
  <2>2. ticket.target \in DeltaTarget
    BY <2>1 DEF Picked, Recovery
  <2>3. CASE UNCHANGED queue /\ ticket' \in DeltaTicket
    <3>1. QueueInv'
      BY <2>1, <1>4, <2>3 DEF QueueInv
    <3> QED
      BY <1>t, <1>1, <1>2, <1>4, <1>5, <2>3, <3>1, LedgerAside DEF LoopTypes
  <2>4. CASE RejectTarget
    <3>1. queue' \in SameEvents(queue) /\ ticket' = NoTicket /\ NoTicket \in DeltaTicket
      BY <2>1, <2>2, <2>4, RestakedType DEF RejectTarget, NoTicket, DeltaTicket
    <3>2. queue' \in DeltaQueue /\ QueuedOf(queue)' = QueuedOf(queue) /\ queue'.there
      BY <2>1, <3>1 DEF SameEvents, QueuedOf
    <3>3. QueueInv'
      BY <3>1, <3>2 DEF QueueInv
    <3>4. ReservationsCovered'
      BY <1>1, <1>5, <3>2 DEF LedgerInv, ReservationsCovered
    <3>5. LoopTypes'
      BY <1>t, <1>1, <1>4, <3>1, <3>2 DEF LoopTypes
    <3> QED
      BY <1>2, <3>3, <3>4, <3>5 DEF LedgerInv, DeltaTypeOK
  <2>5. CASE /\ UNCHANGED queue
             /\ ticket' = [at |-> "building", target |-> ticket.target,
                           marker |-> ticket.marker, epoch |-> ticket.epoch,
                           rows |-> worker.rows, parts |-> worker.parts,
                           base |-> worker.base, life |-> worker.life,
                           old |-> OldIn(worker.rows, queue) \cap KeysIn(ticket.target)]
    <3> DEFINE o == OldIn(worker.rows, queue) \cap KeysIn(ticket.target)
    <3>1. o \in SUBSET ObjectKey
      BY DEF KeysIn
    <3> HIDE DEF o
    <3>2. worker \in Pinning
      BY <1>1, <1>7 DEF PinCommit
    <3>3. ticket.marker \in Nat /\ ticket.epoch \in Nat
      BY <2>1 DEF Picked, Recovery
    <3>4. ticket' \in Recovery
      BY <2>2, <2>5, <3>1, <3>2, <3>3 DEF Recovery, Pinning, o
    <3> QED
      BY <2>3, <2>5, <3>4 DEF DeltaTicket
  <2> QED
    BY <1>7, <2>4, <2>5 DEF PinCommit
<1> QED
  BY <1>6, <1>7 DEF PinCommit, PinCapture

LEMMA RecoverBuildLedger == ASSUME LedgerInv, RecoverBuild PROVE LedgerInv'
<1>t. InformerTypes /\ CatalogTypes /\ LoopTypes /\ QueueInv
  BY DEF LedgerInv, DeltaTypeOK
<1>1. /\ UNCHANGED <<informerVars, catalogVars, recoveries, tight, forgotten>>
      /\ worker = Asleep /\ queue \in DeltaQueue /\ ticket \in Recovery /\ ticket # NoTicket
  BY <1>t, TicketStates DEF RecoverBuild, LoopTypes
<1>2. InformerTypes' /\ CatalogTypes'
  BY <1>t, <1>1 DEF informerVars, catalogVars, InformerTypes, CatalogTypes
<1>3. queue.there /\ ticket.target \in DeltaTarget /\ queue.hold \in Seq(DeltaEvent)
  BY <1>t, <1>1 DEF QueueInv, Recovery, DeltaQueue
<1>4. NoTicket \in DeltaTicket /\ ticket \in DeltaTicket /\ Asleep \in DeltaLoop
      /\ Asleep.at = "idle"
  BY <1>1 DEF NoTicket, DeltaTicket, Asleep, DeltaLoop
<1> DEFINE cleared == [queue EXCEPT !.hold = <<>>]
<1>5. /\ cleared \in DeltaQueue /\ cleared.there /\ cleared.events = queue.events
      /\ cleared.hold = <<>>
  BY <1>1, <1>3, EmptySeq DEF DeltaQueue
<1> HIDE DEF cleared
<1>6. HeldByWorker = <<>> /\ InFlight = <<>> /\ Len(<<>>) = 0
  BY <1>1, <1>4, InHand
<1>7. CASE RejectTarget /\ UNCHANGED <<worker, ledger>>
  <2>1. queue' \in SameEvents(queue) /\ ticket' = NoTicket
    BY <1>1, <1>3, <1>7, RestakedType DEF RejectTarget
  <2>2. queue' \in DeltaQueue /\ QueuedOf(queue)' = QueuedOf(queue) /\ queue'.there
    BY <1>3, <2>1 DEF SameEvents, QueuedOf
  <2>3. QueueInv'
    BY <2>1, <2>2 DEF QueueInv
  <2>4. ReservationsCovered'
    BY <1>7, <2>2 DEF LedgerInv, ReservationsCovered, HeldByWorker, InFlight
  <2>5. LoopTypes'
    BY <1>t, <1>1, <1>4, <1>7, <2>1, <2>2 DEF LoopTypes
  <2> QED
    BY <1>2, <2>3, <2>4, <2>5 DEF LedgerInv, DeltaTypeOK
<1>8. CASE /\ queue' = Restaked(Merged(cleared, queue.hold), ticket.target)
           /\ ticket' = NoTicket /\ worker' = worker
           /\ ledger' = [ledger EXCEPT !.queued = @ - (QueuedOf(queue) - QueuedOf(queue'))]
  <2> DEFINE m == Merged(cleared, queue.hold)
  <2>1. m \in DeltaQueue /\ m.there
    BY <1>3, <1>5, MergedType DEF SameHold
  <2> HIDE DEF m
  <2>2. queue' \in DeltaQueue /\ queue'.there
    BY <1>3, <1>8, <2>1, RestakedType DEF SameEvents, m
  <2>3. QueueInv'
    BY <1>8, <2>2 DEF QueueInv
  <2>4. HeldByWorker' = <<>> /\ InFlight' = <<>>
    BY <1>1, <1>4, <1>8, InHandNext
  <2> DEFINE q == QueuedOf(queue)
             r == QueuedOf(queue)'
             a == ledger.queued
             d == -(q - r)
  <2>5. q \in Int /\ r \in Int /\ a \in Int /\ ledger.inflight \in Int
    <3>1. QueuedOf(queue)' = QueuedOf(queue')
      BY DEF QueuedOf
    <3>2. QueuedOf(queue') \in Int /\ QueuedOf(queue) \in Int
      BY <1>1, <2>2, QueueNumbers
    <3> QED
      BY <3>1, <3>2, LedgerNumbers
  <2>6. QueuedOf(queue') = r
    BY DEF QueuedOf
  <2>7. ledger' = [ledger EXCEPT !.queued = a - (q - r)]
    BY <1>8, <2>6
  <2> HIDE DEF q, r, a
  <2>8. /\ d \in Int /\ a - (q - r) = a + d /\ a + d \in Int /\ r + 0 <= q + 0 + d
        /\ ledger.inflight + 0 = ledger.inflight /\ 0 + 0 = 0
    BY <2>5
  <2> HIDE DEF d
  <2>9. /\ ledger' \in [queued : Int, inflight : Int]
        /\ ledger'.queued = a + d /\ ledger'.inflight = ledger.inflight + 0
    BY <1>t, <2>5, <2>7, <2>8, LedgerTypes DEF LoopTypes
  <2>10. QueuedOf(queue)' + Len(HeldByWorker)' <= QueuedOf(queue) + Len(HeldByWorker) + d
         /\ Len(InFlight)' = Len(InFlight) + 0
    BY <1>6, <2>4, <2>8 DEF q, r
  <2>11. /\ worker' \in DeltaLoop /\ ticket' \in DeltaTicket /\ tight' = tight
         /\ recoveries' \in Nat /\ forgotten' \in SUBSET ObjectKey
    BY <1>t, <1>1, <1>4, <1>8 DEF LoopTypes
  <2> QED
    BY <1>2, <2>2, <2>3, <2>8, <2>9, <2>10, <2>11, LedgerStep DEF a
<1>9. CASE /\ queue' = cleared /\ UNCHANGED <<ticket, ledger>>
           /\ worker' = [at |-> "holding", held |-> queue.hold, made |-> ticket]
  <2>1. worker' \in Rebuilding
    BY <1>1, <1>3, <1>9 DEF Rebuilding
  <2>2. worker' \in DeltaLoop /\ HeldByWorker' = queue.hold /\ InFlight' = <<>>
    BY <1>9, <2>1, InHandNext DEF DeltaLoop
  <2>3. QueueInv'
    BY <1>1, <1>5, <1>9 DEF QueueInv
  <2> DEFINE e == Len(queue.events)
             h == Len(queue.hold)
  <2>4. e \in Int /\ h \in Int /\ QueuedOf(queue) = e + h /\ QueuedOf(queue)' = e + 0
    BY <1>1, <1>5, <1>6, <1>9, QueueNumbers DEF QueuedOf
  <2>5. /\ ledger.queued >= QueuedOf(queue) + Len(HeldByWorker)
        /\ ledger.inflight = Len(InFlight)
    BY DEF LedgerInv, ReservationsCovered
  <2>6. QueuedOf(queue)' + Len(HeldByWorker)' = QueuedOf(queue) + Len(HeldByWorker)
    <3> HIDE DEF e
    <3>1. (e + 0) + h = (e + h) + 0
      BY <2>4
    <3> QED
      BY <1>6, <2>2, <2>4, <3>1
  <2>7. ReservationsCovered'
    BY <1>6, <1>9, <2>2, <2>5, <2>6 DEF ReservationsCovered
  <2>8. LoopTypes'
    BY <1>t, <1>1, <1>5, <1>9, <2>2 DEF LoopTypes
  <2> QED
    BY <1>2, <2>3, <2>7, <2>8 DEF LedgerInv, DeltaTypeOK
<1> QED
  BY <1>7, <1>8, <1>9 DEF RecoverBuild, cleared

LEMMA RecoverApplyLedger == ASSUME LedgerInv, RecoverApply PROVE LedgerInv'
<1>t. InformerTypes /\ CatalogTypes /\ LoopTypes /\ QueueInv
  BY DEF LedgerInv, DeltaTypeOK
<1>1. /\ UNCHANGED <<informerVars, catalogVars, recoveries, tight, forgotten>>
      /\ worker.at = "holding" /\ worker \in Rebuilding /\ queue \in DeltaQueue
      /\ ticket \in DeltaTicket
  BY <1>t, LoopStates DEF RecoverApply, LoopTypes
<1>2. InformerTypes' /\ CatalogTypes'
  BY <1>t, <1>1 DEF informerVars, catalogVars, InformerTypes, CatalogTypes
<1>3. HeldByWorker = worker.held /\ InFlight = <<>> /\ worker.held \in Seq(DeltaEvent)
  BY <1>1, InHand DEF Rebuilding
<1>4. CASE /\ worker' = [at |-> "overlaid", held |-> worker.held,
                         made |-> [worker.made EXCEPT
                            !.rows = Overlaid(@, KeysOf(worker.held))]]
           /\ UNCHANGED <<queue, ticket, ledger>>
  <2>1. Overlaid(worker.made.rows, KeysOf(worker.held)) \in DeltaRows
    BY <1>t, <1>1, OverlaidType DEF InformerTypes, Rebuilding, Recovery
  <2>2. [worker.made EXCEPT !.rows = Overlaid(@, KeysOf(worker.held))] \in Recovery
    BY <1>1, <2>1 DEF Rebuilding, Recovery
  <2>3. worker' \in Rebuilding
    BY <1>1, <1>4, <2>2 DEF Rebuilding
  <2>4. worker' \in DeltaLoop /\ HeldByWorker' = HeldByWorker /\ InFlight' = InFlight
    BY <1>3, <1>4, <2>3, InHandNext DEF DeltaLoop
  <2>5. QueueInv'
    BY <1>t, <1>1, <1>4 DEF QueueInv
  <2> QED
    BY <1>t, <1>1, <1>2, <1>4, <2>4, <2>5, LedgerAside DEF LoopTypes
<1>5. CASE /\ ticket # NoTicket /\ RejectTarget /\ worker' = Asleep
           /\ ledger' = [ledger EXCEPT !.queued = @ - Len(worker.held)]
  <2>1. ticket \in Recovery /\ queue.there /\ ticket.target \in DeltaTarget
    BY <1>t, <1>1, <1>5 DEF QueueInv, Recovery
  <2>2. queue' \in SameEvents(queue) /\ ticket' = NoTicket /\ NoTicket \in DeltaTicket
    BY <1>1, <1>5, <2>1, RestakedType DEF RejectTarget, NoTicket, DeltaTicket
  <2>3. queue' \in DeltaQueue /\ QueuedOf(queue)' = QueuedOf(queue) /\ queue'.there
    BY <2>1, <2>2 DEF SameEvents, QueuedOf
  <2>4. QueueInv'
    BY <2>2, <2>3 DEF QueueInv
  <2>5. Asleep \in DeltaLoop /\ Asleep.at = "idle"
    BY DEF Asleep, DeltaLoop
  <2>6. HeldByWorker' = <<>> /\ InFlight' = <<>> /\ Len(<<>>) = 0
    BY <1>5, <2>5, InHandNext
  <2> DEFINE q == QueuedOf(queue)
             w == Len(worker.held)
             a == ledger.queued
             d == -w
  <2>7. q \in Int /\ w \in Int /\ a \in Int /\ ledger.inflight \in Int
    BY <1>1, <1>3, QueueNumbers, LedgerNumbers
  <2>8. ledger' = [ledger EXCEPT !.queued = a - w]
    BY <1>5
  <2> HIDE DEF q, w, a
  <2>9. /\ d \in Int /\ a - w = a + d /\ a + d \in Int /\ q + 0 <= q + w + d
        /\ ledger.inflight + 0 = ledger.inflight /\ 0 + 0 = 0
    BY <2>7
  <2> HIDE DEF d
  <2>10. /\ ledger' \in [queued : Int, inflight : Int]
         /\ ledger'.queued = a + d /\ ledger'.inflight = ledger.inflight + 0
    BY <1>t, <2>7, <2>8, <2>9, LedgerTypes DEF LoopTypes
  <2>11. QueuedOf(queue)' + Len(HeldByWorker)' <= QueuedOf(queue) + Len(HeldByWorker) + d
         /\ Len(InFlight)' = Len(InFlight) + 0
    BY <1>3, <2>3, <2>6, <2>9 DEF q, w
  <2>12. /\ worker' \in DeltaLoop /\ ticket' \in DeltaTicket /\ tight' = tight
         /\ recoveries' \in Nat /\ forgotten' \in SUBSET ObjectKey
    BY <1>t, <1>1, <1>5, <2>2, <2>5 DEF LoopTypes
  <2> QED
    BY <1>2, <2>3, <2>4, <2>9, <2>10, <2>11, <2>12, LedgerStep DEF a
<1> QED
  BY <1>4, <1>5 DEF RecoverApply

LEMMA RecoverPublishLedger == ASSUME LedgerInv, RecoverPublish PROVE LedgerInv'
<1>t. InformerTypes /\ CatalogTypes /\ LoopTypes /\ QueueInv
  BY DEF LedgerInv, DeltaTypeOK
<1>1. /\ UNCHANGED <<informerVars, builder, dirty, bootstrapped, forced, queue, ticket, ledger,
                     recoveries, tight>>
      /\ worker.at = "overlaid" /\ worker \in Rebuilding /\ ticket \in DeltaTicket
  BY <1>t, LoopStates DEF RecoverPublish, LoopTypes
<1> DEFINE r == worker.made
<1>2. r \in Recovery /\ worker.held \in Seq(DeltaEvent)
  BY <1>1 DEF Rebuilding
<1>3. \E outcome \in {"conflict", "refused", "published"} :
        worker' = [at |-> "settling", held |-> worker.held, made |-> r, outcome |-> outcome]
  BY DEF RecoverPublish
<1>4. worker' \in Settling /\ worker'.held = worker.held
  BY <1>2, <1>3 DEF Settling
<1>5. worker' \in DeltaLoop /\ HeldByWorker' = HeldByWorker /\ InFlight' = InFlight
  BY <1>1, <1>4, InHand, InHandNext DEF DeltaLoop, Settling
<1>6. forgotten' \in SUBSET ObjectKey
  <2>1. ticket = NoTicket \/ ticket.old \in SUBSET ObjectKey
    BY <1>t, <1>1 DEF QueueInv, Recovery
  <2>2. OldIn(r.rows, queue) \in SUBSET ObjectKey
    BY OldInType
  <2>3. forgotten \in SUBSET ObjectKey
    BY <1>t DEF LoopTypes
  <2> QED
    BY <2>1, <2>2, <2>3 DEF RecoverPublish
<1>7. CatalogTypes'
  <2>0. snap \in Publication
    BY <1>t DEF CatalogTypes
  <2>1. CASE snap' = snap
    BY <1>t, <1>1, <2>1 DEF CatalogTypes
  <2>2. CASE snap.there /\ r.target = Whole /\ snap' = WithIndex(snap, r.rows)
    <3>1. r.rows \in DeltaRows
      BY <1>2 DEF Recovery
    <3>2. snap' \in Publication /\ snap'.rows = snap.rows
      BY <2>0, <2>2, <3>1, WithIndexType
    <3> QED
      BY <1>t, <1>1, <2>2, <3>2 DEF CatalogTypes
  <2>3. CASE /\ snap.there /\ snap.index # Absent /\ r.target # Whole
             /\ snap' = WithPart(snap, r.target, r.rows)
    <3>1. r.rows \in DeltaRows /\ r.target \in Space
      BY <1>2, <2>3 DEF Recovery, DeltaTarget
    <3>2. snap' \in Publication /\ snap'.rows = snap.rows
      BY <2>0, <2>3, <3>1, WithPartType
    <3> QED
      BY <1>t, <1>1, <2>3, <3>2 DEF CatalogTypes
  <2> QED
    BY <2>1, <2>2, <2>3 DEF RecoverPublish, StillPinned
<1>8. InformerTypes' /\ QueueInv'
  BY <1>t, <1>1 DEF informerVars, InformerTypes, QueueInv
<1> QED
  BY <1>t, <1>1, <1>5, <1>6, <1>7, <1>8, LedgerAside DEF LoopTypes

LEMMA SettleLedger == ASSUME LedgerInv, RecoverSettle PROVE LedgerInv'
<1>t. InformerTypes /\ CatalogTypes /\ LoopTypes /\ QueueInv
  BY DEF LedgerInv, DeltaTypeOK
<1>1. /\ UNCHANGED <<informerVars, catalogVars, recoveries, tight, forgotten>>
      /\ worker.at = "settling" /\ worker \in Settling /\ queue \in DeltaQueue
      /\ worker' = Asleep /\ ticket' = NoTicket
  BY <1>t, LoopStates DEF RecoverSettle, LoopTypes
<1>2. InformerTypes' /\ CatalogTypes'
  BY <1>t, <1>1 DEF informerVars, catalogVars, InformerTypes, CatalogTypes
<1>3. HeldByWorker = worker.held /\ InFlight = <<>> /\ worker.held \in Seq(DeltaEvent)
  BY <1>1, InHand DEF Settling
<1>4. Asleep \in DeltaLoop /\ Asleep.at = "idle" /\ NoTicket \in DeltaTicket
  BY DEF Asleep, DeltaLoop, NoTicket, DeltaTicket
<1>5. HeldByWorker' = <<>> /\ InFlight' = <<>> /\ Len(<<>>) = 0
  BY <1>1, <1>4, InHandNext
<1>6. queue' \in DeltaQueue /\ (queue'.there \/ queue' = queue)
  <2>1. CASE ticket = NoTicket
    BY <1>1, <2>1 DEF RecoverSettle
  <2>2. CASE ticket # NoTicket
    <3>1. ticket \in Recovery /\ queue.there
      BY <1>t, <1>1, <2>2 DEF QueueInv
    <3>2. ticket.target \in DeltaTarget
      BY <3>1 DEF Recovery
    <3> DEFINE m == Merged(queue, worker.held)
    <3>3. m \in DeltaQueue /\ m.there
      BY <1>1, <1>3, <3>1, MergedType DEF SameHold
    <3>4. Acked(queue, ticket) \in DeltaQueue /\ Acked(queue, ticket).there
      BY <1>1, <3>1, AckedType DEF SameEvents
    <3> HIDE DEF m
    <3>5. Restaked(m, ticket.target) \in DeltaQueue /\ Restaked(m, ticket.target).there
      BY <3>2, <3>3, RestakedType DEF SameEvents
    <3>6. worker.outcome \in {"conflict", "refused", "published"}
      BY <1>1 DEF Settling
    <3>7. queue' \in {Acked(queue, ticket), m, Restaked(m, ticket.target)}
      BY <2>2, <3>6 DEF RecoverSettle, m
    <3> QED
      BY <3>3, <3>4, <3>5, <3>7
  <2> QED
    BY <2>1, <2>2
<1>7. QueueInv'
  BY <1>t, <1>1, <1>4, <1>6 DEF QueueInv
<1> DEFINE q == QueuedOf(queue)
           r == QueuedOf(queue)'
           w == Len(worker.held)
           a == ledger.queued
           d == -(w + q - r)
<1>8. q \in Int /\ r \in Int /\ w \in Int /\ a \in Int /\ ledger.inflight \in Int
  <2>1. QueuedOf(queue)' = QueuedOf(queue')
    BY DEF QueuedOf
  <2>2. QueuedOf(queue') \in Int /\ QueuedOf(queue) \in Int
    BY <1>1, <1>6, QueueNumbers
  <2>3. Len(HeldByWorker) \in Int
    BY LedgerNumbers
  <2> QED
    BY <1>3, <2>1, <2>2, <2>3, LedgerNumbers
<1>9. ledger' = [ledger EXCEPT !.queued = a - (w + q - r)]
  <2>1. QueuedOf(queue') = r
    BY DEF QueuedOf
  <2> QED
    BY <2>1 DEF RecoverSettle
<1> HIDE DEF q, r, w, a
<1>10. /\ d \in Int /\ a - (w + q - r) = a + d /\ a + d \in Int /\ r + 0 <= q + w + d
       /\ ledger.inflight + 0 = ledger.inflight /\ 0 + 0 = 0
  BY <1>8
<1> HIDE DEF d
<1>11. /\ ledger' \in [queued : Int, inflight : Int]
       /\ ledger'.queued = a + d /\ ledger'.inflight = ledger.inflight + 0
  BY <1>t, <1>8, <1>9, <1>10, LedgerTypes DEF LoopTypes
<1>12. QueuedOf(queue)' + Len(HeldByWorker)' <= QueuedOf(queue) + Len(HeldByWorker) + d
       /\ Len(InFlight)' = Len(InFlight) + 0
  BY <1>3, <1>5, <1>10 DEF q, r, w
<1>13. /\ worker' \in DeltaLoop /\ ticket' \in DeltaTicket /\ tight' = tight
       /\ recoveries' \in Nat /\ forgotten' \in SUBSET ObjectKey
  BY <1>t, <1>1, <1>4 DEF LoopTypes
<1> QED
  BY <1>2, <1>6, <1>7, <1>10, <1>11, <1>12, <1>13, LedgerStep DEF a

LEMMA LedgerInit == DeltaInit => LedgerInv
<1> SUFFICES ASSUME DeltaInit PROVE LedgerInv
  OBVIOUS
<1>1. InformerTypes
  BY EmptySeq DEF DeltaInit, InformerTypes, DeltaRows, Asleep
<1>2. CatalogTypes
  BY DEF DeltaInit, CatalogTypes, ListLoop, Asleep, NoSnap, Publication
<1>3. queue \in DeltaQueue /\ queue.events = <<>> /\ queue.hold = <<>>
  BY EmptySeq DEF DeltaInit, NoQueue, DeltaQueue, NoMarks
<1>4. Asleep.at = "idle" /\ worker = Asleep /\ Asleep \in DeltaLoop
  BY DEF DeltaInit, Asleep, DeltaLoop
<1>5. LoopTypes
  BY <1>3, <1>4, DeltaAssumption DEF DeltaInit, LoopTypes, DeltaTicket, NoTicket
<1>6. QueueInv
  BY <1>3, <1>4 DEF DeltaInit, QueueInv
<1>7. HeldByWorker = <<>> /\ InFlight = <<>>
  BY <1>4, InHand
<1>8. ReservationsCovered
  BY <1>3, <1>7 DEF DeltaInit, ReservationsCovered, QueuedOf
<1> QED
  BY <1>1, <1>2, <1>5, <1>6, <1>8 DEF LedgerInv, DeltaTypeOK

LEMMA LedgerInvStep == LedgerInv /\ [DeltaNext]_deltaVars => LedgerInv'
<1> SUFFICES ASSUME LedgerInv, [DeltaNext]_deltaVars PROVE LedgerInv'
  OBVIOUS
<1>1. CASE InformerNext
  BY <1>1, InformerLedger, EnqueueLedger, StopLedger DEF InformerNext
<1>2. CASE ListLoopNext
  BY <1>2, ListLedger, PublishLedger DEF ListLoopNext
<1>3. CASE BatchNext
  BY <1>3, CaptureLedger, DrainLedger, CarryLedger, BatchLedger DEF BatchNext
<1>4. CASE RecoveryNext
  BY <1>4, PickLedger, AbortLedger, PinLedger, RecoverBuildLedger, RecoverApplyLedger,
     RecoverPublishLedger, SettleLedger DEF RecoveryNext
<1>5. CASE UNCHANGED deltaVars
  <2>1. UNCHANGED <<informerVars, catalogVars, queue, ticket, worker, ledger, recoveries, tight,
                    forgotten>>
    BY <1>5 DEF deltaVars
  <2> QED
    BY <2>1 DEF LedgerInv, DeltaTypeOK, InformerTypes, CatalogTypes, LoopTypes, QueueInv,
                ReservationsCovered, QueuedOf, HeldByWorker, InFlight, informerVars, catalogVars
<1> QED
  BY <1>1, <1>2, <1>3, <1>4, <1>5 DEF DeltaNext

\* LedgerInv holds of every resource, with any number of namespaces, objects,
\* events and recoveries, and with any budgets under pressure.
THEOREM LedgerInvHolds == DeltaSpec => []LedgerInv
BY LedgerInit, LedgerInvStep, PTL DEF DeltaSpec

\* The queue, the ticket of the recovery and what the delta loop carries have
\* their types in every state: a batch carries the index it was drained for,
\* what is rebuilt or settled belongs to a recovery that has pinned its rows
\* (searchdelta.go).
THEOREM DeltaTyped == DeltaSpec => []DeltaTypeOK
<1>1. LedgerInv => DeltaTypeOK
  BY DEF LedgerInv
<1> QED
  BY <1>1, LedgerInvHolds, PTL

\* The budget of the events never counts less than what is kept: every event
\* that is queued, held or taken is reserved, through conflicts, refused
\* budgets, stops of the informer and recoveries (queuedBytesLocked,
\* releaseQueuedLocked, releaseInFlight).
THEOREM LedgerCovers == DeltaSpec => []ReservationsCovered
<1>1. LedgerInv => ReservationsCovered
  BY DEF LedgerInv
<1> QED
  BY <1>1, LedgerInvHolds, PTL

-----------------------------------------------------------------------------
(* The incremental index: what it is made of *)

PartInput == RowInput \cup {NoInput}
PartRows == [PartName -> PartInput]
PartOps == UNION {[S -> PartInput] : S \in SUBSET PartName}
PartWeights == UNION {[S -> Nat] : S \in SUBSET PartName}
SlotMaps == UNION {[S -> Nat] : S \in SUBSET PartName}
RowRecords == {RowRecord(n, r) : n \in PartName, r \in RowInput}
Tries == UNION {[S -> RowRecords] : S \in SUBSET Nat}
FoldStates == [used : Nat, bound : PartName \cup {NoBound}, suffix : Seq(PartName)]
PostMaps ==
  {Postings(s, trie, slotOf, fold, names) : s \in PartSpace, trie \in Tries, slotOf \in SlotMaps,
                                            fold \in FoldStates, names \in SUBSET PartName}
PartRecords ==
  [space : PartSpace, slotOf : SlotMaps, trie : Tries, free : Seq(Nat), high : Nat,
   posts : PostMaps, fold : FoldStates, cutRows : Nat, labelNs : BOOLEAN, stale : BOOLEAN,
   wide : SUBSET Tree, astray : SUBSET Tree]

\* Names and namespaces are numbers, and there are only so many of them.
LEMMA PartNames ==
  /\ IsFiniteSet(PartName) /\ PartName \subseteq Nat
  /\ IsFiniteSet(PartSpace) /\ PartSpace \subseteq Nat
  /\ \A S \in SUBSET PartName : IsFiniteSet(S)
  /\ \A S \in SUBSET PartSpace : IsFiniteSet(S)
<1>1. [e \in PartEvents |-> e.name] \in Surjection(PartEvents, PartName)
  BY DEF Surjection, PartName
<1>2. [e \in PartEvents |-> e.space] \in Surjection(PartEvents, PartSpace)
  BY DEF Surjection, PartSpace
<1>3. IsFiniteSet(PartName) /\ IsFiniteSet(PartSpace)
  BY <1>1, <1>2, PartIndexAssumption, FS_Surjection
<1> QED
  BY <1>3, PartIndexAssumption, FS_Subset

LEMMA NameOrderIs ==
  ASSUME NEW S \in SUBSET Nat, IsFiniteSet(S)
  PROVE  /\ NameOrder(S) \in SetToSeqs(S)
         /\ \A i, j \in DOMAIN NameOrder(S) : i < j => NameOrder(S)[i] < NameOrder(S)[j]
<1> DEFINE R == {p \in S \X S : p[1] < p[2]}
<1>1. \A x, y \in S : <<x, y>> \in R <=> x < y
  OBVIOUS
<1>2. \A x \in S : x \in Nat
  OBVIOUS
<1> HIDE DEF R
<1>3. Orders(R, S)
  BY <1>1, <1>2 DEF Orders
<1>4. PICK line \in SetToSeqs(S) : Ascending(line, R)
  BY <1>3, SortedExists
<1>5. \A i \in DOMAIN line : line[i] \in S
  BY LineOf, ElementOfSeq DEF SetToSeqs
<1>6. \A i, j \in DOMAIN line : i < j => line[i] < line[j]
  BY <1>1, <1>4, <1>5 DEF Ascending
<1> QED
  BY <1>6 DEF NameOrder

LEMMA NamesInOrder ==
  ASSUME NEW S \in SUBSET Nat, IsFiniteSet(S)
  PROVE  /\ NameOrder(S) \in Seq(S) /\ Len(NameOrder(S)) = Cardinality(S)
         /\ Cardinality(S) \in Nat /\ DOMAIN NameOrder(S) = 1 .. Cardinality(S)
         /\ \A i, j \in 1 .. Cardinality(S) : i # j => NameOrder(S)[i] # NameOrder(S)[j]
         /\ \A i, j \in 1 .. Cardinality(S) : i < j => NameOrder(S)[i] < NameOrder(S)[j]
         /\ \A i \in 1 .. Cardinality(S) : NameOrder(S)[i] \in S
         /\ \A x \in S : \E i \in 1 .. Cardinality(S) : NameOrder(S)[i] = x
<1>1. NameOrder(S) \in SetToSeqs(S)
  BY NameOrderIs
<1>2. /\ NameOrder(S) \in Seq(S) /\ Len(NameOrder(S)) = Cardinality(S)
      /\ Cardinality(S) \in Nat /\ DOMAIN NameOrder(S) = 1 .. Cardinality(S)
      /\ \A i, j \in DOMAIN NameOrder(S) : i # j => NameOrder(S)[i] # NameOrder(S)[j]
      /\ \A x \in S : \E i \in DOMAIN NameOrder(S) : NameOrder(S)[i] = x
  BY <1>1, LineOf
<1>3. \A i \in 1 .. Cardinality(S) : NameOrder(S)[i] \in S
  BY <1>2, ElementOfSeq
<1> QED
  BY <1>2, <1>3, NameOrderIs

LEMMA WithType ==
  ASSUME NEW S, NEW T, NEW f \in UNION {[D -> T] : D \in SUBSET S}, NEW x \in S, NEW y \in T
  PROVE  With(f, x, y) \in UNION {[D -> T] : D \in SUBSET S}
<1>1. PICK D \in SUBSET S : f \in [D -> T]
  OBVIOUS
<1>2. With(f, x, y) \in [D \cup {x} -> T]
  BY <1>1 DEF With
<1>3. D \cup {x} \in SUBSET S
  BY <1>1
<1> QED
  BY <1>2, <1>3

LEMMA RestrictType ==
  ASSUME NEW S, NEW T, NEW f \in UNION {[D -> T] : D \in SUBSET S}, NEW E \in SUBSET DOMAIN f
  PROVE  /\ Restrict(f, E) \in UNION {[D -> T] : D \in SUBSET S}
         /\ DOMAIN Restrict(f, E) = E
         /\ \A x \in E : Restrict(f, E)[x] = f[x]
<1>1. PICK D \in SUBSET S : f \in [D -> T]
  OBVIOUS
<1>2. Restrict(f, E) \in [E -> T] /\ E \in SUBSET S
  BY <1>1 DEF Restrict
<1> QED
  BY <1>2 DEF Restrict

-----------------------------------------------------------------------------
(* The fold *)

EmptyFold == [used |-> 0, bound |-> NoBound, suffix |-> <<>>]

LEMMA FoldStepType ==
  ASSUME NEW weight \in PartWeights, NEW acc \in FoldStates, NEW n \in DOMAIN weight
  PROVE  FoldStep(weight, acc, n) \in FoldStates
<1>1. weight[n] \in Nat /\ n \in PartName /\ PartLabelCap \in Nat
  BY PartIndexAssumption DEF PartWeights
<1>2. acc.used \in Nat /\ acc.suffix \in Seq(PartName) /\ acc.bound \in PartName \cup {NoBound}
  BY DEF FoldStates
<1>3. acc.used + weight[n] \in Nat /\ Append(acc.suffix, n) \in Seq(PartName)
  BY <1>1, <1>2, AppendProperties
<1>4. /\ [acc EXCEPT !.used = @ + weight[n]] \in FoldStates
      /\ [acc EXCEPT !.bound = n] \in FoldStates
      /\ [acc EXCEPT !.used = @ + weight[n], !.suffix = Append(@, n)] \in FoldStates
  BY <1>1, <1>2, <1>3 DEF FoldStates
<1> QED
  BY <1>4 DEF FoldStep

LEMMA EmptyFoldType == EmptyFold \in FoldStates
BY EmptySeq DEF EmptyFold, FoldStates

LEMMA WeighedNames ==
  ASSUME NEW weight \in PartWeights
  PROVE  DOMAIN weight \in SUBSET Nat /\ IsFiniteSet(DOMAIN weight)
BY PartNames DEF PartWeights

\* The walk of the rows, row by row.
LEMMA RecomputeFoldSteps ==
  ASSUME NEW weight \in PartWeights
  PROVE  \E acc \in [0 .. Len(NameOrder(DOMAIN weight)) -> FoldStates] :
           /\ acc[0] = EmptyFold
           /\ \A i \in 1 .. Len(NameOrder(DOMAIN weight)) :
                  acc[i] = FoldStep(weight, acc[i - 1], NameOrder(DOMAIN weight)[i])
           /\ RecomputeFold(weight) = acc[Len(NameOrder(DOMAIN weight))]
<1> DEFINE Acc == FoldStates
           base == EmptyFold
           step == [p \in Acc \X DOMAIN weight |-> FoldStep(weight, p[1], p[2])]
           IsFold(g) == g = [s \in SUBSET DOMAIN NameOrder(DOMAIN weight) |->
                               IF s = {} THEN base
                               ELSE FoldStep(weight, g[s \ {Max(s)}], NameOrder(DOMAIN weight)[Max(s)])]
           fold == CHOOSE g : IsFold(g)
<1>1. RecomputeFold(weight) = fold[DOMAIN NameOrder(DOMAIN weight)]
  BY DEF RecomputeFold, EmptyFold, FoldLeft, MapThenFoldSet
<1>2. \A r \in Acc, ev \in DOMAIN weight : FoldStep(weight, r, ev) \in Acc
  BY FoldStepType
<1>3. Folding(Acc, DOMAIN weight, step, base, NameOrder(DOMAIN weight))
  BY <1>2, EmptyFoldType, NamesInOrder, WeighedNames DEF Folding
<1> HIDE DEF Acc, step, fold, IsFold, base
<1>4. PICK iter : FoldOf(Acc, step, base, NameOrder(DOMAIN weight), iter)
  BY <1>3, FoldExists
<1>5. IsFold(iter)
  <2>1. ASSUME NEW s \in SUBSET DOMAIN NameOrder(DOMAIN weight), s # {}
        PROVE  iter[s] = FoldStep(weight, iter[s \ {Max(s)}], NameOrder(DOMAIN weight)[Max(s)])
    <3>1. NameOrder(DOMAIN weight)[Max(s)] \in DOMAIN weight /\ iter[s \ {Max(s)}] \in Acc
      BY <1>3, <1>4, <2>1, TurnOf DEF FoldOf, Folding
    <3> QED
      BY <1>4, <2>1, <3>1 DEF FoldOf, FoldTurn, step
  <2>2. iter[{}] = base
    BY <1>4 DEF FoldOf, FoldTurn
  <2> QED
    BY <1>4, <2>1, <2>2 DEF IsFold, FoldOf
<1>6. IsFold(fold)
  BY <1>5 DEF fold
<1>7. fold[{}] = base
  BY <1>6 DEF IsFold
<1>8. ASSUME NEW s \in SUBSET DOMAIN NameOrder(DOMAIN weight), s # {}, fold[s \ {Max(s)}] \in Acc
      PROVE  fold[s] = step[<<fold[s \ {Max(s)}], NameOrder(DOMAIN weight)[Max(s)]>>]
  <2>1. NameOrder(DOMAIN weight)[Max(s)] \in DOMAIN weight
    BY <1>3, <1>8, TurnOf DEF Folding
  <2>2. fold[s] = FoldStep(weight, fold[s \ {Max(s)}], NameOrder(DOMAIN weight)[Max(s)])
    BY <1>6, <1>8 DEF IsFold
  <2> QED
    BY <1>8, <2>1, <2>2 DEF step
<1>9. StepwiseFold(Acc, step, base, NameOrder(DOMAIN weight), fold)
  BY <1>7, <1>8 DEF StepwiseFold
<1>10. PICK acc : StepsOf(Acc, step, base, NameOrder(DOMAIN weight), fold, acc)
  BY <1>3, <1>9, FoldSteps
<1>11. \A i \in 1 .. Len(NameOrder(DOMAIN weight)) :
       acc[i] = FoldStep(weight, acc[i - 1], NameOrder(DOMAIN weight)[i])
  BY <1>3, <1>10, Indices DEF StepsOf, step, Folding
<1>12. /\ acc \in [0 .. Len(NameOrder(DOMAIN weight)) -> Acc]
       /\ acc[0] = base
       /\ acc[Len(NameOrder(DOMAIN weight))] = fold[DOMAIN NameOrder(DOMAIN weight)]
  BY <1>10 DEF StepsOf
<1>13. RecomputeFold(weight) = acc[Len(NameOrder(DOMAIN weight))]
  BY <1>1, <1>12
<1> QED
  BY <1>11, <1>12, <1>13 DEF Acc, base

LEMMA RecomputeFoldType ==
  ASSUME NEW weight \in PartWeights
  PROVE  RecomputeFold(weight) \in FoldStates
<1>1. Len(NameOrder(DOMAIN weight)) \in Nat
  BY NamesInOrder, WeighedNames
<1> QED
  BY <1>1, RecomputeFoldSteps

\* Rows that are not between the boundaries nor in a suffix stay where they are.
LEMMA FlippedIsEnough ==
  ASSUME NEW f \in FoldStates, NEW g \in FoldStates, NEW slotOf \in SlotMaps,
         NEW n \in DOMAIN slotOf, n \notin Flipped(f, g, slotOf)
  PROVE  Includes(f, n) <=> Includes(g, n)
<1>1. /\ n \in Nat
      /\ f.bound \in Nat \cup {NoBound} /\ g.bound \in Nat \cup {NoBound} /\ NoBound \notin Nat
  BY PartNames, PartIndexAssumption DEF FoldStates, SlotMaps
<1>2. n \notin ToSet(f.suffix) /\ n \notin ToSet(g.suffix) /\ n \notin FlippedRange(f, g, slotOf)
  BY DEF Flipped
<1>3. (f.bound = NoBound \/ n < f.bound) <=> (g.bound = NoBound \/ n < g.bound)
  <2>1. CASE f.bound = NoBound /\ g.bound = NoBound
    BY <2>1
  <2>2. CASE f.bound = NoBound /\ g.bound # NoBound
    BY <1>1, <1>2, <2>2 DEF FlippedRange
  <2>3. CASE f.bound # NoBound /\ g.bound = NoBound
    BY <1>1, <1>2, <2>3 DEF FlippedRange
  <2>4. CASE f.bound # NoBound /\ g.bound # NoBound
    BY <1>1, <1>2, <2>4 DEF FlippedRange
  <2> QED
    BY <2>1, <2>2, <2>3, <2>4
<1> QED
  BY <1>2, <1>3 DEF Includes

-----------------------------------------------------------------------------
(* The slots *)

\* The top of a stack that repeats nothing.
LEMMA FrontIs ==
  ASSUME NEW S, NEW s \in Seq(S), s # <<>>, IsInjective(s)
  PROVE  /\ Front(s) \in Seq(S) /\ IsInjective(Front(s))
         /\ Last(s) \in ToSet(s) /\ ToSet(Front(s)) = ToSet(s) \ {Last(s)}
<1> DEFINE n == Len(s)
<1>1. n \in Nat \ {0} /\ DOMAIN s = 1 .. n
  BY EmptySeq, LenProperties
<1>2. \A i \in 1 .. n : s[i] \in S
  BY ElementOfSeq
<1> DEFINE t == SubSeq(s, 1, n - 1)
<1>3. \A i \in 1 .. n - 1 : s[i] \in S
  BY <1>1, <1>2
<1>4. t \in Seq(S) /\ Len(t) = (IF 1 <= n - 1 THEN (n - 1) - 1 + 1 ELSE 0)
      /\ \A i \in 1 .. (n - 1) - 1 + 1 : t[i] = s[1 + i - 1]
  BY <1>1, <1>3, SubSeqProperties
<1>5. Len(t) = n - 1 /\ DOMAIN t = 1 .. n - 1 /\ \A i \in 1 .. n - 1 : t[i] = s[i]
  BY <1>1, <1>4, LenProperties
<1> HIDE DEF t
<1>6. IsInjective(t)
  BY <1>1, <1>5 DEF IsInjective
<1>7. s[n] \in ToSet(s)
  BY <1>1 DEF ToSet
<1>8. ToSet(t) = ToSet(s) \ {s[n]}
  <2>0. \A k \in Nat \ {0} : /\ \A i \in 1 .. k : i = k \/ i \in 1 .. k - 1
                            /\ \A i \in 1 .. k - 1 : i \in 1 .. k /\ i # k
                            /\ k \in 1 .. k
    OBVIOUS
  <2>1. \A i \in 1 .. n : i = n \/ i \in 1 .. n - 1
    BY <1>1, <2>0, Zenon
  <2>2. \A i \in 1 .. n - 1 : i \in 1 .. n /\ i # n /\ n \in 1 .. n
    BY <1>1, <2>0, Zenon
  <2>3. \A i \in 1 .. n - 1 : s[i] # s[n]
    BY <1>1, <2>2 DEF IsInjective
  <2> QED
    BY <1>1, <1>5, <2>1, <2>2, <2>3 DEF ToSet
<1> QED
  BY <1>4, <1>6, <1>7, <1>8 DEF t, Front, Last

\* What TakeSlot works on, and where the loop of applyPartOps has come to when
\* it has been through the names in done.
Allocs == [full : BOOLEAN, free : Seq(Nat), high : Nat, trie : Tries, slotOf : SlotMaps]
Upserts(ops) == {n \in DOMAIN ops : ops[n] # NoInput}
AllocBase(old, ops) ==
  [full |-> FALSE, free |-> old.free, high |-> old.high, trie |-> old.trie,
   slotOf |-> Restrict(old.slotOf, DOMAIN old.slotOf \ DOMAIN ops)]
LeftSlots(old, ops) == {old.slotOf[n] : n \in DOMAIN ops \cap DOMAIN old.slotOf}

AllocRows(old, ops, done, part) ==
  /\ DOMAIN part.slotOf = (DOMAIN old.slotOf \ DOMAIN ops) \cup done
  /\ IsInjective(part.slotOf)
  /\ \A n \in DOMAIN old.slotOf \ DOMAIN ops : part.slotOf[n] = old.slotOf[n]
  /\ \A n \in done : part.trie[part.slotOf[n]] = RowRecord(n, ops[n])
  /\ \A n \in DOMAIN old.slotOf : part.trie[old.slotOf[n]] = old.trie[old.slotOf[n]]
  /\ DOMAIN part.trie = Range(part.slotOf) \cup LeftSlots(old, ops)
AllocSlots(old, ops, part) ==
  /\ IsInjective(part.free)
  /\ Range(part.slotOf) \cap LeftSlots(old, ops) = {}
  /\ ToSet(part.free) \cap (Range(part.slotOf) \cup LeftSlots(old, ops)) = {}
  /\ ToSet(part.free) \cup Range(part.slotOf) \cup LeftSlots(old, ops) = 0 .. (part.high - 1)
Midway(old, ops, done, part) == AllocRows(old, ops, done, part) /\ AllocSlots(old, ops, part)

LEMMA AllocBaseIs ==
  ASSUME NEW old \in PartRecords, SlotsAreOnce(old), NEW ops \in PartOps
  PROVE  /\ AllocBase(old, ops) \in Allocs
         /\ Midway(old, ops, {}, AllocBase(old, ops))
<1> DEFINE K == DOMAIN old.slotOf \ DOMAIN ops
           slots == Restrict(old.slotOf, K)
           base == AllocBase(old, ops)
<1>1. /\ old.slotOf \in SlotMaps /\ old.trie \in Tries
      /\ old.free \in Seq(Nat) /\ old.high \in Nat
  BY DEF PartRecords
<1>2. slots \in SlotMaps /\ DOMAIN slots = K /\ \A n \in K : slots[n] = old.slotOf[n]
  <2>1. K \in SUBSET DOMAIN old.slotOf
    OBVIOUS
  <2>2. /\ Restrict(old.slotOf, K) \in SlotMaps
        /\ DOMAIN Restrict(old.slotOf, K) = K
        /\ \A n \in K : Restrict(old.slotOf, K)[n] = old.slotOf[n]
    <3>1. PICK D \in SUBSET PartName : old.slotOf \in [D -> Nat]
      BY <1>1 DEF SlotMaps
    <3>2. K \in SUBSET PartName /\ \A n \in K : old.slotOf[n] \in Nat
      BY <2>1, <3>1
    <3> HIDE DEF K
    <3>3. Restrict(old.slotOf, K) \in [K -> Nat]
      BY <3>2 DEF Restrict
    <3> QED
      BY <3>2, <3>3 DEF Restrict, SlotMaps
  <2> QED
    BY <2>2
<1>3. base.slotOf = slots /\ base.free = old.free /\ base.high = old.high /\ base.trie = old.trie
  BY DEF AllocBase
<1>4. base \in Allocs
  BY <1>1, <1>2 DEF AllocBase, Allocs
<1> HIDE DEF base, slots
<1>5. Range(old.slotOf) = Range(slots) \cup LeftSlots(old, ops)
  BY <1>2 DEF Range, LeftSlots
<1>6. Range(slots) \cap LeftSlots(old, ops) = {}
  BY <1>2 DEF Range, LeftSlots, SlotsAreOnce, IsInjective
<1>7. IsInjective(slots)
  BY <1>2 DEF SlotsAreOnce, IsInjective
<1>8. AllocRows(old, ops, {}, base)
  BY <1>2, <1>3, <1>5, <1>7 DEF AllocRows, SlotsAreOnce
<1>9. AllocSlots(old, ops, base)
  BY <1>3, <1>5, <1>6 DEF AllocSlots, SlotsAreOnce
<1> QED
  BY <1>4, <1>8, <1>9 DEF Midway, base

\* The slot that a row gets.
FreshSlot(part) == IF part.free # <<>> THEN Last(part.free) ELSE part.high
FreeAfter(part) == IF part.free # <<>> THEN Front(part.free) ELSE part.free
HighAfter(part) == IF part.free # <<>> THEN part.high ELSE part.high + 1

LEMMA TakeSlotIs ==
  ASSUME NEW part \in Allocs, NEW n \in PartName, NEW input \in RowInput,
         ~TakeSlot(part, n, input).full
  PROVE  /\ ~part.full
         /\ TakeSlot(part, n, input) =
              [full |-> FALSE, free |-> FreeAfter(part), high |-> HighAfter(part),
               trie |-> With(part.trie, FreshSlot(part), RowRecord(n, input)),
               slotOf |-> With(part.slotOf, n, FreshSlot(part))]
BY DEF TakeSlot, Allocs, FreshSlot, FreeAfter, HighAfter

LEMMA FreshSlotType ==
  ASSUME NEW part \in Allocs
  PROVE  FreshSlot(part) \in Nat /\ FreeAfter(part) \in Seq(Nat) /\ HighAfter(part) \in Nat
<1>1. part.free \in Seq(Nat) /\ part.high \in Nat
  BY DEF Allocs
<1>2. ASSUME part.free # <<>> PROVE Last(part.free) \in Nat /\ Front(part.free) \in Seq(Nat)
  <2> DEFINE s == part.free
             m == Len(s)
  <2>1. m \in Nat \ {0}
    BY <1>1, <1>2, EmptySeq
  <2>2. \A i \in 1 .. m : s[i] \in Nat
    BY <1>1, ElementOfSeq
  <2>3. m \in 1 .. m /\ \A i \in 1 .. m - 1 : s[i] \in Nat
    BY <2>1, <2>2
  <2>4. SubSeq(s, 1, m - 1) \in Seq(Nat)
    BY <2>1, <2>3, SubSeqProperties
  <2> QED
    BY <2>2, <2>3, <2>4 DEF Front, Last
<1> QED
  BY <1>1, <1>2 DEF FreshSlot, FreeAfter, HighAfter

LEMMA TakeSlotType ==
  ASSUME NEW part \in Allocs, NEW n \in PartName, NEW input \in RowInput
  PROVE  TakeSlot(part, n, input) \in Allocs
<1>1. CASE TakeSlot(part, n, input).full
  BY <1>1 DEF TakeSlot, Allocs
<1>2. CASE ~TakeSlot(part, n, input).full
  <2>1. FreshSlot(part) \in Nat /\ FreeAfter(part) \in Seq(Nat) /\ HighAfter(part) \in Nat
    BY FreshSlotType
  <2>2. part.trie \in Tries /\ part.slotOf \in SlotMaps /\ RowRecord(n, input) \in RowRecords
    BY DEF Allocs, RowRecords
  <2>3. With(part.trie, FreshSlot(part), RowRecord(n, input)) \in Tries
    BY <2>1, <2>2, WithType DEF Tries
  <2>4. With(part.slotOf, n, FreshSlot(part)) \in SlotMaps
    BY <2>1, <2>2, WithType DEF SlotMaps
  <2> DEFINE trie == With(part.trie, FreshSlot(part), RowRecord(n, input))
             slots == With(part.slotOf, n, FreshSlot(part))
  <2>5. TakeSlot(part, n, input) =
          [full |-> FALSE, free |-> FreeAfter(part), high |-> HighAfter(part),
           trie |-> trie, slotOf |-> slots]
    BY <1>2, TakeSlotIs
  <2>6. trie \in Tries /\ slots \in SlotMaps
    BY <2>3, <2>4
  <2> HIDE DEF trie, slots
  <2> QED
    BY <2>1, <2>5, <2>6 DEF Allocs
<1> QED
  BY <1>1, <1>2

LEMMA FreshSlotIs ==
  ASSUME NEW part \in Allocs, NEW used, IsInjective(part.free),
         ToSet(part.free) \cap used = {}, ToSet(part.free) \cup used = 0 .. (part.high - 1)
  PROVE  /\ FreshSlot(part) \notin used
         /\ IsInjective(FreeAfter(part))
         /\ ToSet(FreeAfter(part)) \cap (used \cup {FreshSlot(part)}) = {}
         /\ ToSet(FreeAfter(part)) \cup used \cup {FreshSlot(part)} = 0 .. (HighAfter(part) - 1)
<1>1. part.free \in Seq(Nat) /\ part.high \in Nat
  BY DEF Allocs
<1>2. CASE part.free # <<>>
  <2>1. /\ IsInjective(Front(part.free))
        /\ Last(part.free) \in ToSet(part.free)
        /\ ToSet(Front(part.free)) = ToSet(part.free) \ {Last(part.free)}
    BY <1>1, <1>2, FrontIs
  <2>2. /\ FreshSlot(part) = Last(part.free) /\ FreeAfter(part) = Front(part.free)
        /\ HighAfter(part) = part.high
    BY <1>2 DEF FreshSlot, FreeAfter, HighAfter
  <2> QED
    BY <2>1, <2>2
<1>3. CASE part.free = <<>>
  <2>1. /\ FreshSlot(part) = part.high /\ FreeAfter(part) = part.free
        /\ HighAfter(part) = part.high + 1
    BY <1>3 DEF FreshSlot, FreeAfter, HighAfter
  <2>2. part.high \notin 0 .. (part.high - 1)
    BY <1>1
  <2>3. 0 .. ((part.high + 1) - 1) = (0 .. (part.high - 1)) \cup {part.high}
    BY <1>1
  <2> QED
    BY <2>1, <2>2, <2>3
<1> QED
  BY <1>2, <1>3

\* A row more.
LEMMA MidwayStep ==
  ASSUME NEW old \in PartRecords, NEW ops \in PartOps, NEW part \in Allocs,
         NEW done \in SUBSET Upserts(ops), NEW n \in Upserts(ops) \ done,
         Midway(old, ops, done, part), ~TakeSlot(part, n, ops[n]).full
  PROVE  Midway(old, ops, done \cup {n}, TakeSlot(part, n, ops[n]))
<1> DEFINE slot == FreshSlot(part)
           new == TakeSlot(part, n, ops[n])
           left == LeftSlots(old, ops)
<1>1. n \in PartName /\ n \in DOMAIN ops /\ ops[n] \in RowInput
  BY DEF Upserts, PartOps, PartInput
<1>2. /\ new.free = FreeAfter(part) /\ new.high = HighAfter(part)
      /\ new.trie = With(part.trie, slot, RowRecord(n, ops[n]))
      /\ new.slotOf = With(part.slotOf, n, slot)
  BY <1>1, TakeSlotIs
<1> HIDE DEF new, slot, left
<1>3. AllocRows(old, ops, done, part) /\ AllocSlots(old, ops, part)
  BY DEF Midway
<1> DEFINE used == Range(part.slotOf) \cup left
<1>4. /\ slot \notin used
      /\ IsInjective(FreeAfter(part))
      /\ ToSet(FreeAfter(part)) \cap (used \cup {slot}) = {}
      /\ ToSet(FreeAfter(part)) \cup used \cup {slot} = 0 .. (HighAfter(part) - 1)
  <2>1. IsInjective(part.free) /\ ToSet(part.free) \cap used = {}
        /\ ToSet(part.free) \cup used = 0 .. (part.high - 1)
    BY <1>3 DEF AllocSlots, left
  <2> HIDE DEF used
  <2> QED
    BY <2>1, FreshSlotIs DEF slot
<1>5. n \notin DOMAIN part.slotOf
  BY <1>1, <1>3 DEF AllocRows
<1>6. /\ DOMAIN new.slotOf = DOMAIN part.slotOf \cup {n}
      /\ new.slotOf[n] = slot
      /\ \A m \in DOMAIN part.slotOf : new.slotOf[m] = part.slotOf[m]
      /\ DOMAIN new.trie = DOMAIN part.trie \cup {slot}
      /\ new.trie[slot] = RowRecord(n, ops[n])
      /\ \A k \in DOMAIN part.trie : k # slot => new.trie[k] = part.trie[k]
  BY <1>2, <1>5 DEF With
<1>7. Range(new.slotOf) = Range(part.slotOf) \cup {slot}
  BY <1>6 DEF Range
<1>8. /\ \A m \in DOMAIN part.slotOf : part.slotOf[m] # slot /\ part.slotOf[m] \in DOMAIN part.trie
      /\ \A m \in DOMAIN old.slotOf : old.slotOf[m] \in used
  <2>1. \A m \in DOMAIN old.slotOf : m \in DOMAIN ops \/ part.slotOf[m] = old.slotOf[m]
    BY <1>3 DEF AllocRows
  <2>2. \A m \in DOMAIN old.slotOf : m \in DOMAIN ops \/ m \in DOMAIN part.slotOf
    BY <1>3 DEF AllocRows
  <2>3. DOMAIN part.trie = used
    BY <1>3 DEF AllocRows, left
  <2> QED
    BY <1>4, <2>1, <2>2, <2>3 DEF Range, left, LeftSlots
<1>9. DOMAIN part.trie = used
  BY <1>3 DEF AllocRows, left
<1>10. AllocRows(old, ops, done \cup {n}, new)
  <2>1. DOMAIN new.slotOf = (DOMAIN old.slotOf \ DOMAIN ops) \cup (done \cup {n})
    BY <1>3, <1>6 DEF AllocRows
  <2>2. IsInjective(new.slotOf)
    BY <1>3, <1>6, <1>8 DEF AllocRows, IsInjective
  <2>3. \A m \in DOMAIN old.slotOf \ DOMAIN ops : new.slotOf[m] = old.slotOf[m]
    BY <1>3, <1>6 DEF AllocRows
  <2>4. \A m \in done \cup {n} : new.trie[new.slotOf[m]] = RowRecord(m, ops[m])
    BY <1>3, <1>6, <1>8 DEF AllocRows
  <2>5. \A m \in DOMAIN old.slotOf : new.trie[old.slotOf[m]] = old.trie[old.slotOf[m]]
    BY <1>3, <1>4, <1>6, <1>8, <1>9 DEF AllocRows
  <2>6. DOMAIN new.trie = Range(new.slotOf) \cup left
    BY <1>6, <1>7, <1>9
  <2> QED
    BY <2>1, <2>2, <2>3, <2>4, <2>5, <2>6 DEF AllocRows, left
<1>11. AllocSlots(old, ops, new)
  BY <1>2, <1>3, <1>4, <1>7 DEF AllocSlots, left
<1> QED
  BY <1>10, <1>11 DEF Midway, new

LEMMA UpsertsAre ==
  ASSUME NEW ops \in PartOps
  PROVE  /\ Upserts(ops) \in SUBSET Nat /\ IsFiniteSet(Upserts(ops))
         /\ \A n \in Upserts(ops) : n \in PartName /\ ops[n] \in RowInput
BY PartNames DEF Upserts, PartOps, PartInput

\* The loop that gives the rows their slots.
LEMMA AllocateSteps ==
  ASSUME NEW old \in PartRecords, SlotsAreOnce(old), NEW ops \in PartOps
  PROVE  \E acc \in [0 .. Len(NameOrder(Upserts(ops))) -> Allocs] :
           /\ acc[0] = AllocBase(old, ops)
           /\ \A i \in 1 .. Len(NameOrder(Upserts(ops))) :
                  acc[i] = TakeSlot(acc[i - 1], NameOrder(Upserts(ops))[i], ops[NameOrder(Upserts(ops))[i]])
           /\ AllocateSlots(old, ops) = acc[Len(NameOrder(Upserts(ops)))]
<1> DEFINE Acc == Allocs
           base == AllocBase(old, ops)
           step == [p \in Acc \X Upserts(ops) |-> TakeSlot(p[1], p[2], ops[p[2]])]
           IsFold(g) == g = [s \in SUBSET DOMAIN NameOrder(Upserts(ops)) |->
                               IF s = {} THEN base
                               ELSE TakeSlot(g[s \ {Max(s)}],
                                             NameOrder(Upserts(ops))[Max(s)], ops[NameOrder(Upserts(ops))[Max(s)]])]
           fold == CHOOSE g : IsFold(g)
<1>1. AllocateSlots(old, ops) = fold[DOMAIN NameOrder(Upserts(ops))]
  BY DEF AllocateSlots, AllocBase, Upserts, FoldLeft, MapThenFoldSet
<1>2. \A r \in Acc, ev \in Upserts(ops) : TakeSlot(r, ev, ops[ev]) \in Acc
  BY TakeSlotType, UpsertsAre
<1>3. Folding(Acc, Upserts(ops), step, base, NameOrder(Upserts(ops)))
  BY <1>2, AllocBaseIs, NamesInOrder, UpsertsAre DEF Folding
<1> HIDE DEF Acc, step, fold, IsFold, base
<1>4. PICK iter : FoldOf(Acc, step, base, NameOrder(Upserts(ops)), iter)
  BY <1>3, FoldExists
<1>5. IsFold(iter)
  <2>1. ASSUME NEW s \in SUBSET DOMAIN NameOrder(Upserts(ops)), s # {}
        PROVE  iter[s]
                  = TakeSlot(iter[s \ {Max(s)}], NameOrder(Upserts(ops))[Max(s)], ops[NameOrder(Upserts(ops))[Max(s)]])
    <3>1. NameOrder(Upserts(ops))[Max(s)] \in Upserts(ops) /\ iter[s \ {Max(s)}] \in Acc
      BY <1>3, <1>4, <2>1, TurnOf DEF FoldOf, Folding
    <3> QED
      BY <1>4, <2>1, <3>1 DEF FoldOf, FoldTurn, step
  <2>2. iter[{}] = base
    BY <1>4 DEF FoldOf, FoldTurn
  <2> QED
    BY <1>4, <2>1, <2>2 DEF IsFold, FoldOf
<1>6. IsFold(fold)
  BY <1>5 DEF fold
<1>7. fold[{}] = base
  BY <1>6 DEF IsFold
<1>8. ASSUME NEW s \in SUBSET DOMAIN NameOrder(Upserts(ops)), s # {}, fold[s \ {Max(s)}] \in Acc
      PROVE  fold[s] = step[<<fold[s \ {Max(s)}], NameOrder(Upserts(ops))[Max(s)]>>]
  <2>1. NameOrder(Upserts(ops))[Max(s)] \in Upserts(ops)
    BY <1>3, <1>8, TurnOf DEF Folding
  <2>2. fold[s]
            = TakeSlot(fold[s \ {Max(s)}], NameOrder(Upserts(ops))[Max(s)], ops[NameOrder(Upserts(ops))[Max(s)]])
    BY <1>6, <1>8 DEF IsFold
  <2> QED
    BY <1>8, <2>1, <2>2 DEF step
<1>9. StepwiseFold(Acc, step, base, NameOrder(Upserts(ops)), fold)
  BY <1>7, <1>8 DEF StepwiseFold
<1>10. PICK acc : StepsOf(Acc, step, base, NameOrder(Upserts(ops)), fold, acc)
  BY <1>3, <1>9, FoldSteps
<1>11. \A i \in 1 .. Len(NameOrder(Upserts(ops))) :
       acc[i] = TakeSlot(acc[i - 1], NameOrder(Upserts(ops))[i], ops[NameOrder(Upserts(ops))[i]])
  BY <1>3, <1>10, Indices DEF StepsOf, step, Folding
<1>12. /\ acc \in [0 .. Len(NameOrder(Upserts(ops))) -> Acc]
       /\ acc[0] = base
       /\ acc[Len(NameOrder(Upserts(ops)))] = fold[DOMAIN NameOrder(Upserts(ops))]
  BY <1>10 DEF StepsOf
<1>13. AllocateSlots(old, ops) = acc[Len(NameOrder(Upserts(ops)))]
  BY <1>1, <1>12
<1> QED
  BY <1>11, <1>12, <1>13 DEF Acc, base

\* What the loop gives: the rows of the batch have slots of their own, and those
\* of their old records are neither used nor free.
LEMMA AllocatedIs ==
  ASSUME NEW old \in PartRecords, SlotsAreOnce(old), NEW ops \in PartOps
  PROVE  /\ AllocateSlots(old, ops) \in Allocs
         /\ ~AllocateSlots(old, ops).full => Midway(old, ops, Upserts(ops), AllocateSlots(old, ops))
<1> DEFINE line == NameOrder(Upserts(ops))
           len == Len(line)
<1>1. PICK acc \in [0 .. len -> Allocs] :
        /\ acc[0] = AllocBase(old, ops)
        /\ \A i \in 1 .. len : acc[i] = TakeSlot(acc[i - 1], line[i], ops[line[i]])
        /\ AllocateSlots(old, ops) = acc[len]
  BY AllocateSteps
<1>2. /\ len \in Nat /\ len = Cardinality(Upserts(ops))
      /\ \A i, j \in 1 .. len : i # j => line[i] # line[j]
      /\ \A i \in 1 .. len : line[i] \in Upserts(ops)
      /\ \A x \in Upserts(ops) : \E i \in 1 .. len : line[i] = x
  BY NamesInOrder, UpsertsAre
<1> HIDE DEF line, len
<1> DEFINE Done(i) == {line[j] : j \in 1 .. i}
           P == {i \in Nat : i <= len /\ ~acc[i].full => Midway(old, ops, Done(i), acc[i])}
<1>3. 0 \in P
  <2>1. Done(0) = {}
    OBVIOUS
  <2> QED
    BY <1>1, <2>1, AllocBaseIs
<1>4. ASSUME NEW i \in Nat, i \in P PROVE i + 1 \in P
  <2>1. SUFFICES ASSUME i + 1 <= len, ~acc[i + 1].full
                 PROVE  Midway(old, ops, Done(i + 1), acc[i + 1])
    OBVIOUS
  <2> DEFINE n == line[i + 1]
  <2>2. i \in 0 .. len /\ i + 1 \in 1 .. len /\ (i + 1) - 1 = i /\ i <= len
    BY <1>2, <2>1
  <2>3. acc[i] \in Allocs /\ acc[i + 1] = TakeSlot(acc[i], n, ops[n])
    BY <1>1, <2>2
  <2>4. n \in Upserts(ops) /\ n \notin Done(i) /\ Done(i) \in SUBSET Upserts(ops)
    <3>1. \A j \in 1 .. i : j \in 1 .. len /\ j # i + 1
      BY <1>2, <2>2
    <3>2. \A j \in 1 .. i : line[j] \in Upserts(ops) /\ line[j] # line[i + 1]
      BY <1>2, <2>2, <3>1
    <3>3. line[i + 1] \in Upserts(ops)
      BY <1>2, <2>2
    <3> QED
      BY <3>2, <3>3
  <2>5. Done(i + 1) = Done(i) \cup {n}
    <3>1. \A j : j \in 1 .. i + 1 <=> j \in 1 .. i \/ j = i + 1
      OBVIOUS
    <3> QED
      BY <3>1
  <2>6. n \in PartName /\ ops[n] \in RowInput
    BY <2>4, UpsertsAre
  <2>7. ~TakeSlot(acc[i], n, ops[n]).full
    BY <2>1, <2>3
  <2> HIDE DEF n, Done
  <2>8. ~acc[i].full
    BY <2>3, <2>6, <2>7, TakeSlotIs
  <2>9. Midway(old, ops, Done(i), acc[i])
    BY <1>4, <2>2, <2>8
  <2> QED
    BY <2>3, <2>4, <2>5, <2>7, <2>9, MidwayStep
<1> HIDE DEF P
<1>5. len \in P
  BY <1>2, <1>3, <1>4, Counting
<1>6. len \in 0 .. len /\ len <= len /\ Done(len) = Upserts(ops)
  BY <1>2
<1>7. ~acc[len].full => Midway(old, ops, Done(len), acc[len])
  <2> HIDE DEF Done
  <2> QED
    BY <1>5, <1>6 DEF P
<1>8. acc[len] \in Allocs
  BY <1>1, <1>6
<1> QED
  BY <1>1, <1>6, <1>7, <1>8

-----------------------------------------------------------------------------
(* The postings of rows.  The key of a posting carries the name of its row.  *)

OpsAt(space, trie, slotOf, fold, S) ==
  [n \in S |-> RowOps(space, trie[slotOf[n]], slotOf[n], Includes(fold, n))]
CarryNames(ops, S) == \A n \in S : \A key \in DOMAIN ops[n] : key[2] = n
Spread(ops, S) == [key \in UNION {DOMAIN ops[n] : n \in S} |-> ops[key[2]][key]]

LEMMA OpsCarryNames ==
  ASSUME NEW space, NEW rec, NEW slot, NEW labels,
         NEW key \in DOMAIN RowOps(space, rec, slot, labels)
  PROVE  key[2] = rec.name
BY DEF RowOps

LEMMA OpsAtCarry ==
  ASSUME NEW space, NEW trie, NEW slotOf, NEW fold, NEW S,
         \A n \in S : trie[slotOf[n]].name = n
  PROVE  CarryNames(OpsAt(space, trie, slotOf, fold, S), S)
<1>1. ASSUME NEW n \in S, NEW key \in DOMAIN OpsAt(space, trie, slotOf, fold, S)[n]
      PROVE  key[2] = n
  <2>1. key \in DOMAIN RowOps(space, trie[slotOf[n]], slotOf[n], Includes(fold, n))
    BY <1>1 DEF OpsAt
  <2> QED
    BY <2>1, OpsCarryNames
<1> QED
  BY <1>1 DEF CarryNames

LEMMA PostingsIs ==
  ASSUME NEW space, NEW trie, NEW slotOf, NEW fold, NEW S, NEW names \in SUBSET S,
         CarryNames(OpsAt(space, trie, slotOf, fold, S), S)
  PROVE  Postings(space, trie, slotOf, fold, names)
           = Spread(OpsAt(space, trie, slotOf, fold, S), names)
<1> DEFINE a == OpsAt(space, trie, slotOf, fold, S)
           op(n) == RowOps(space, trie[slotOf[n]], slotOf[n], Includes(fold, n))
           keys == UNION {DOMAIN op(n) : n \in names}
<1>1. \A n \in names : a[n] = op(n)
  BY DEF OpsAt
<1>2. Postings(space, trie, slotOf, fold, names) = [key \in keys |-> op(key[2])[key]]
  BY DEF Postings
<1>3. \A n \in names : \A key \in DOMAIN a[n] : key[2] = n
  BY DEF CarryNames
<1> HIDE DEF a, op
<1>4. keys = UNION {DOMAIN a[n] : n \in names}
  BY <1>1
<1>5. \A key \in keys : a[key[2]] = op(key[2])
  BY <1>1, <1>3
<1> HIDE DEF keys
<1>6. [key \in keys |-> op(key[2])[key]] = [key \in keys |-> a[key[2]][key]]
  BY <1>5
<1> QED
  BY <1>2, <1>4, <1>6 DEF Spread, a

\* What takes away the postings of some rows and puts those of others in their
\* place leaves the postings of all rows that there are then.
LEMMA SpreadChange ==
  ASSUME NEW a, NEW b, NEW N, NEW M, NEW U \in SUBSET N, NEW V \in SUBSET M,
         CarryNames(a, N), CarryNames(b, M),
         N \ U = M \ V, \A n \in N \ U : a[n] = b[n]
  PROVE  PlusPosts(LessPosts(Spread(a, N), Spread(a, U)), Spread(b, V)) = Spread(b, M)
<1> DEFINE K(f, S) == UNION {DOMAIN f[n] : n \in S}
           rest == LessPosts(Spread(a, N), Spread(a, U))
           all == PlusPosts(rest, Spread(b, V))
<1>1. DOMAIN Spread(a, N) = K(a, N) /\ DOMAIN Spread(a, U) = K(a, U)
      /\ DOMAIN Spread(b, V) = K(b, V) /\ DOMAIN Spread(b, M) = K(b, M)
  BY DEF Spread
<1>k. ASSUME NEW f, NEW S, NEW T \in SUBSET S, CarryNames(f, S)
      PROVE  \A key : key \in K(f, T) <=> key[2] \in T /\ key \in DOMAIN f[key[2]]
  <2> TAKE key
  <2>1. ASSUME key \in K(f, T) PROVE key[2] \in T /\ key \in DOMAIN f[key[2]]
    <3>1. PICK n \in T : key \in DOMAIN f[n]
      BY <2>1
    <3>2. key[2] = n
      BY <1>k, <3>1 DEF CarryNames
    <3> QED
      BY <3>1, <3>2
  <2> QED
    BY <2>1
<1>4. \A key : key \in K(a, N) /\ key \notin K(a, U) <=> key[2] \in N \ U /\ key \in DOMAIN a[key[2]]
  <2>1. \A key : key \in K(a, N) <=> key[2] \in N /\ key \in DOMAIN a[key[2]]
    BY <1>k
  <2>2. \A key : key \in K(a, U) <=> key[2] \in U /\ key \in DOMAIN a[key[2]]
    BY <1>k
  <2> HIDE DEF K
  <2> QED
    BY <2>1, <2>2
<1>5. \A key : key \in K(b, V) <=> key[2] \in V /\ key \in DOMAIN b[key[2]]
  BY <1>k
<1>6. \A key : key \in K(b, M) <=> key[2] \in M /\ key \in DOMAIN b[key[2]]
  BY <1>k
<1>7. /\ DOMAIN rest = K(a, N) \ K(a, U)
      /\ \A key \in DOMAIN rest : rest[key] = a[key[2]][key]
  <2>1. \A key \in K(a, N) : Spread(a, N)[key] = a[key[2]][key]
    BY DEF Spread
  <2> HIDE DEF K
  <2> QED
    BY <1>1, <2>1 DEF LessPosts, Restrict
<1>8. /\ DOMAIN all = K(b, V) \cup DOMAIN rest
      /\ \A key \in K(b, V) : all[key] = b[key[2]][key]
      /\ \A key \in DOMAIN rest \ K(b, V) : all[key] = rest[key]
      /\ all = [key \in DOMAIN all |-> all[key]]
  <2>1. \A key \in K(b, V) : Spread(b, V)[key] = b[key[2]][key]
    BY DEF Spread
  <2> HIDE DEF K, rest
  <2> QED
    BY <1>1, <2>1 DEF PlusPosts, Over
<1> HIDE DEF K, rest, all
<1>9. DOMAIN all = K(b, M)
  BY <1>4, <1>5, <1>6, <1>7, <1>8
<1>10. \A key \in K(b, M) : all[key] = b[key[2]][key]
  BY <1>4, <1>5, <1>6, <1>7, <1>8, <1>9
<1>11. all = [key \in K(b, M) |-> b[key[2]][key]]
  BY <1>8, <1>9, <1>10
<1> QED
  BY <1>11 DEF all, rest, K, Spread

-----------------------------------------------------------------------------
(* A batch of a partition *)

Built(part, rows) ==
  /\ RowsAreRebuilt(part, rows) /\ PostsAreRebuilt(part, rows)
  /\ CountsAreRebuilt(part, rows) /\ SlotsAreOnce(part)

Updating(old, rows, ops) ==
  /\ old \in PartRecords /\ rows \in PartRows /\ Built(old, rows) /\ ops \in PartOps
  /\ ~AllocateSlots(old, ops).full

\* The rows after the batch, and where they are.
LEMMA RowsAfter ==
  ASSUME NEW old, NEW rows, NEW ops, Updating(old, rows, ops)
  PROVE  LET part == AllocateSlots(old, ops)
             now == Over(ops, rows)
         IN  /\ part \in Allocs /\ now \in PartRows
             /\ DOMAIN part.slotOf = RowsOf(now)
             /\ DOMAIN old.slotOf = RowsOf(rows)
             /\ DOMAIN ops \cap DOMAIN part.slotOf = Upserts(ops)
             /\ RowsOf(now) = (RowsOf(rows) \ DOMAIN ops) \cup Upserts(ops)
             /\ \A n \in RowsOf(now) : /\ now[n] \in RowInput
                                       /\ part.trie[part.slotOf[n]] = RowRecord(n, now[n])
             /\ \A n \in RowsOf(rows) : /\ rows[n] \in RowInput
                                        /\ old.trie[old.slotOf[n]] = RowRecord(n, rows[n])
             /\ \A n \in RowsOf(rows) \ DOMAIN ops :
                  /\ part.slotOf[n] = old.slotOf[n]
                  /\ part.trie[part.slotOf[n]] = old.trie[old.slotOf[n]]
                  /\ now[n] = rows[n]
<1> DEFINE part == AllocateSlots(old, ops)
           now == Over(ops, rows)
<1>1. /\ old \in PartRecords /\ rows \in PartRows /\ ops \in PartOps /\ ~part.full
      /\ SlotsAreOnce(old) /\ DOMAIN old.slotOf = RowsOf(rows)
      /\ \A n \in RowsOf(rows) : old.trie[old.slotOf[n]] = RowRecord(n, rows[n])
  BY DEF Updating, Built, RowsAreRebuilt
<1>2. part \in Allocs /\ AllocRows(old, ops, Upserts(ops), part)
  BY <1>1, AllocatedIs DEF Midway
<1>3. PICK D \in SUBSET PartName : ops \in [D -> PartInput]
  BY <1>1 DEF PartOps
<1>4. /\ DOMAIN now = PartName
      /\ \A n \in DOMAIN ops : now[n] = ops[n] /\ n \in PartName
      /\ \A n \in PartName : n \notin DOMAIN ops => now[n] = rows[n]
      /\ now \in PartRows
  BY <1>1, <1>3 DEF Over, PartRows
<1> HIDE DEF part, now
<1>5. RowsOf(now) = (RowsOf(rows) \ DOMAIN ops) \cup Upserts(ops)
  BY <1>4 DEF RowsOf, Upserts
<1>6. \A n \in RowsOf(now) : now[n] \in RowInput
  BY <1>4 DEF RowsOf, PartRows, PartInput
<1>7. \A n \in RowsOf(rows) : rows[n] \in RowInput /\ n \in PartName
  BY <1>1 DEF RowsOf, PartRows, PartInput
<1>8. DOMAIN part.slotOf = RowsOf(now)
  BY <1>1, <1>2, <1>5 DEF AllocRows
<1>9. DOMAIN ops \cap DOMAIN part.slotOf = Upserts(ops)
  BY <1>5, <1>8 DEF Upserts
<1>10. \A n \in RowsOf(rows) \ DOMAIN ops : /\ part.slotOf[n] = old.slotOf[n]
                                            /\ part.trie[part.slotOf[n]] = old.trie[old.slotOf[n]]
                                            /\ now[n] = rows[n]
  BY <1>1, <1>2, <1>4, <1>7 DEF AllocRows
<1>11. \A n \in RowsOf(now) : part.trie[part.slotOf[n]] = RowRecord(n, now[n])
  <2>1. \A n \in Upserts(ops) : part.trie[part.slotOf[n]] = RowRecord(n, ops[n]) /\ n \in DOMAIN ops
    BY <1>2 DEF AllocRows, Upserts
  <2> QED
    BY <1>1, <1>4, <1>5, <1>10, <2>1
<1> QED
  BY <1>1, <1>2, <1>4, <1>5, <1>6, <1>7, <1>8, <1>9, <1>10, <1>11 DEF part, now

\* What a build would weigh the rows with, and the fold of those weights.
LEMMA FoldAfter ==
  ASSUME NEW part, NEW rows, rows \in PartRows, DOMAIN part.slotOf = RowsOf(rows),
         \A n \in RowsOf(rows) : part.trie[part.slotOf[n]] = RowRecord(n, rows[n])
  PROVE  /\ RecomputeFold([n \in DOMAIN part.slotOf |->
                             Cardinality(part.trie[part.slotOf[n]].labels)]) = BuiltFold(rows)
         /\ BuiltFold(rows) \in FoldStates
<1>0. \A n, r : RowRecord(n, r).labels = r.labels
  BY DEF RowRecord
<1>1. \A n \in RowsOf(rows) : part.trie[part.slotOf[n]].labels = rows[n].labels
  BY <1>0, Zenon
<1>2. [n \in DOMAIN part.slotOf |-> Cardinality(part.trie[part.slotOf[n]].labels)]
        = [n \in RowsOf(rows) |-> Cardinality(rows[n].labels)]
  BY <1>1
<1>3. \A n \in RowsOf(rows) : IsFiniteSet(rows[n].labels)
  BY PartIndexAssumption DEF RowsOf, PartRows, PartInput
<1>4. \A n \in RowsOf(rows) : Cardinality(rows[n].labels) \in Nat
  BY <1>3, FS_CardinalityType
<1>5. [n \in RowsOf(rows) |-> Cardinality(rows[n].labels)] \in [RowsOf(rows) -> Nat]
      /\ RowsOf(rows) \in SUBSET PartName
  BY <1>4 DEF RowsOf
<1>6. [n \in RowsOf(rows) |-> Cardinality(rows[n].labels)] \in PartWeights
  BY <1>5 DEF PartWeights
<1> QED
  BY <1>2, <1>6, RecomputeFoldType DEF BuiltFold

-----------------------------------------------------------------------------

FreedSlots(old, ops) ==
  [i \in 1 .. Cardinality(DOMAIN ops \cap DOMAIN old.slotOf) |->
     old.slotOf[NameOrder(DOMAIN ops \cap DOMAIN old.slotOf)[i]]]

LEMMA FreedSlotsAre ==
  ASSUME NEW old \in PartRecords, SlotsAreOnce(old), NEW ops \in PartOps
  PROVE  /\ FreedSlots(old, ops) \in Seq(Nat) /\ IsInjective(FreedSlots(old, ops))
         /\ ToSet(FreedSlots(old, ops)) = LeftSlots(old, ops)
<1> DEFINE had == DOMAIN ops \cap DOMAIN old.slotOf
           line == NameOrder(had)
           m == Cardinality(had)
           freed == FreedSlots(old, ops)
<1>1. old.slotOf \in SlotMaps
  BY DEF PartRecords
<1>2. had \in SUBSET PartName /\ \A n \in had : old.slotOf[n] \in Nat
  BY <1>1 DEF SlotMaps
<1>3. had \in SUBSET Nat /\ IsFiniteSet(had)
  BY <1>2, PartNames
<1>4. /\ m \in Nat
      /\ \A i, j \in 1 .. m : i # j => line[i] # line[j]
      /\ \A i \in 1 .. m : line[i] \in had
      /\ \A x \in had : \E i \in 1 .. m : line[i] = x
  <2> HIDE DEF had
  <2> QED
    BY <1>3, NamesInOrder
<1>5. freed = [i \in 1 .. m |-> old.slotOf[line[i]]]
  BY DEF FreedSlots
<1>6. LeftSlots(old, ops) = {old.slotOf[n] : n \in had}
  BY DEF LeftSlots
<1>7. \A n, k \in had : old.slotOf[n] = old.slotOf[k] => n = k
  BY DEF SlotsAreOnce, IsInjective
<1> HIDE DEF had, line, m, freed
<1>8. freed \in [1 .. m -> Nat]
  BY <1>2, <1>4, <1>5
<1>9. freed \in Seq(Nat)
  BY <1>4, <1>8, SeqDef
<1>10. IsInjective(freed)
  BY <1>4, <1>5, <1>7, <1>8 DEF IsInjective
<1>11. ToSet(freed) = LeftSlots(old, ops)
  BY <1>4, <1>5, <1>6, <1>8 DEF ToSet
<1> QED
  BY <1>9, <1>10, <1>11 DEF freed

\* Two stacks that repeat nothing and have nothing in common.
LEMMA StackJoined ==
  ASSUME NEW S, NEW a \in Seq(S), NEW b \in Seq(S), IsInjective(a), IsInjective(b),
         ToSet(a) \cap ToSet(b) = {}
  PROVE  /\ a \o b \in Seq(S) /\ IsInjective(a \o b)
         /\ ToSet(a \o b) = ToSet(a) \cup ToSet(b)
<1>1. /\ a \o b \in Seq(S) /\ Len(a \o b) = Len(a) + Len(b)
      /\ Len(a) \in Nat /\ Len(b) \in Nat
      /\ \A i \in 1 .. Len(a) : (a \o b)[i] = a[i]
      /\ \A i \in 1 .. Len(b) : (a \o b)[Len(a) + i] = b[i]
      /\ \A i \in 1 .. Len(a) + Len(b) : i \in 1 .. Len(a)
                                         \/ (i > Len(a) /\ i - Len(a) \in 1 .. Len(b))
      /\ ToSet(a \o b) = ToSet(a) \cup ToSet(b)
  BY Joined
<1>2. DOMAIN a = 1 .. Len(a) /\ DOMAIN b = 1 .. Len(b) /\ DOMAIN (a \o b) = 1 .. Len(a) + Len(b)
  BY <1>1, LenProperties
<1> DEFINE c == a \o b
           m == Len(a)
           k == Len(b)
<1>3. \A i \in 1 .. m + k : \/ i \in 1 .. m /\ c[i] = a[i] /\ a[i] \in ToSet(a)
                            \/ /\ i \notin 1 .. m /\ i - m \in 1 .. k
                               /\ c[i] = b[i - m] /\ b[i - m] \in ToSet(b)
  <2> SUFFICES ASSUME NEW i \in 1 .. m + k, i \notin 1 .. m
               PROVE  i - m \in 1 .. k /\ c[i] = b[i - m]
    BY <1>1, <1>2 DEF ToSet
  <2>1. i - m \in 1 .. k /\ m + (i - m) = i
    BY <1>1
  <2>2. c[m + (i - m)] = b[i - m]
    BY <1>1, <2>1
  <2> QED
    BY <2>1, <2>2
<1>4. m \in Nat /\ k \in Nat /\ DOMAIN c = 1 .. m + k
  BY <1>1, <1>2
<1> HIDE DEF c, m, k
<1>5. ASSUME NEW i \in 1 .. m + k, NEW j \in 1 .. m + k, c[i] = c[j] PROVE i = j
  <2>1. CASE i \in 1 .. m
    <3>1. j \in 1 .. m /\ a[i] = a[j]
      BY <1>3, <1>5, <2>1
    <3> QED
      BY <1>2, <2>1, <3>1 DEF IsInjective, m
  <2>2. CASE i \notin 1 .. m
    <3>1. j \notin 1 .. m
      BY <1>3, <1>5, <2>2
    <3>2. b[i - m] = b[j - m] /\ i - m \in 1 .. k /\ j - m \in 1 .. k
      BY <1>3, <1>5, <2>2, <3>1
    <3>3. i - m = j - m
      BY <1>2, <3>2 DEF IsInjective, k
    <3> QED
      BY <1>4, <3>3
  <2> QED
    BY <2>1, <2>2
<1>6. IsInjective(c)
  BY <1>4, <1>5 DEF IsInjective
<1> QED
  BY <1>1, <1>6 DEF c

\* The rows and the stack after the batch.
SlotsOf(old, ops) ==
  LET part == AllocateSlots(old, ops)
      freed == FreedSlots(old, ops)
  IN  [slotOf |-> part.slotOf, high |-> part.high, free |-> part.free \o freed,
       trie |-> Restrict(part.trie, DOMAIN part.trie \ ToSet(freed))]

LEMMA SlotsAfter ==
  ASSUME NEW old, NEW rows, NEW ops, Updating(old, rows, ops)
  PROVE  LET new == SlotsOf(old, ops)
             part == AllocateSlots(old, ops)
         IN  /\ SlotsAreOnce(new)
             /\ new.trie \in Tries /\ new.free \in Seq(Nat)
             /\ new.high \in Nat /\ new.slotOf \in SlotMaps
             /\ \A n \in DOMAIN new.slotOf : new.trie[new.slotOf[n]] = part.trie[new.slotOf[n]]
<1> DEFINE new == SlotsOf(old, ops)
           part == AllocateSlots(old, ops)
           freed == FreedSlots(old, ops)
           left == LeftSlots(old, ops)
<1>1. old \in PartRecords /\ SlotsAreOnce(old) /\ ops \in PartOps /\ ~part.full
  BY DEF Updating, Built
<1>2. part \in Allocs /\ AllocRows(old, ops, Upserts(ops), part) /\ AllocSlots(old, ops, part)
  BY <1>1, AllocatedIs DEF Midway
<1>3. freed \in Seq(Nat) /\ IsInjective(freed) /\ ToSet(freed) = left
  BY <1>1, FreedSlotsAre
<1> HIDE DEF part, freed, left
<1>4. part.free \in Seq(Nat) /\ part.high \in Nat /\ part.trie \in Tries /\ part.slotOf \in SlotMaps
  BY <1>2 DEF Allocs
<1>5. /\ IsInjective(part.free)
      /\ Range(part.slotOf) \cap left = {}
      /\ ToSet(part.free) \cap (Range(part.slotOf) \cup left) = {}
      /\ ToSet(part.free) \cup Range(part.slotOf) \cup left = 0 .. (part.high - 1)
  BY <1>2 DEF AllocSlots, left
<1>6. IsInjective(part.slotOf) /\ DOMAIN part.trie = Range(part.slotOf) \cup left
  BY <1>2 DEF AllocRows, left
<1>7. /\ part.free \o freed \in Seq(Nat) /\ IsInjective(part.free \o freed)
      /\ ToSet(part.free \o freed) = ToSet(part.free) \cup left
  <2>1. ToSet(part.free) \cap ToSet(freed) = {}
    BY <1>3, <1>5
  <2> QED
    BY <1>3, <1>4, <1>5, <2>1, StackJoined
<1>8. DOMAIN part.trie \ ToSet(freed) = Range(part.slotOf)
  BY <1>3, <1>5, <1>6
<1> DEFINE trie == Restrict(part.trie, Range(part.slotOf))
<1>9. /\ trie \in Tries /\ DOMAIN trie = Range(part.slotOf)
      /\ \A k \in Range(part.slotOf) : trie[k] = part.trie[k]
  <2>1. PICK D \in SUBSET Nat : part.trie \in [D -> RowRecords]
    BY <1>4 DEF Tries
  <2>2. Range(part.slotOf) \in SUBSET D
    BY <1>6, <2>1
  <2>3. trie \in [Range(part.slotOf) -> RowRecords]
    BY <2>1, <2>2 DEF Restrict
  <2> QED
    BY <2>1, <2>2, <2>3 DEF Tries, Restrict
<1>10. new.trie = trie /\ new.slotOf = part.slotOf /\ new.high = part.high
       /\ new.free = part.free \o freed
  BY <1>8 DEF part, freed, SlotsOf
<1> HIDE DEF trie, new
<1>11. SlotsAreOnce(new)
  BY <1>5, <1>6, <1>7, <1>9, <1>10 DEF SlotsAreOnce
<1>12. \A n \in DOMAIN new.slotOf : new.trie[new.slotOf[n]] = part.trie[new.slotOf[n]]
  BY <1>9, <1>10 DEF Range
<1> QED
  BY <1>4, <1>7, <1>9, <1>10, <1>11, <1>12 DEF part, new

\* The rows that a batch does not name and that come into the fold or leave it.
FlippedBy(old, rows, ops) ==
  {n \in Flipped(old.fold, BuiltFold(Over(ops, rows)), AllocateSlots(old, ops).slotOf) \ DOMAIN ops :
     Includes(old.fold, n) # Includes(BuiltFold(Over(ops, rows)), n)}

\* What the batch takes away and puts in their place leaves the postings of a build.
LEMMA PostsAfter ==
  ASSUME NEW old, NEW rows, NEW ops, Updating(old, rows, ops), NEW trie,
         \A n \in DOMAIN AllocateSlots(old, ops).slotOf :
           trie[AllocateSlots(old, ops).slotOf[n]]
             = AllocateSlots(old, ops).trie[AllocateSlots(old, ops).slotOf[n]]
  PROVE  LET part == AllocateSlots(old, ops)
             fold == BuiltFold(Over(ops, rows))
             gone == Postings(old.space, old.trie, old.slotOf, old.fold,
                              (DOMAIN ops \cap DOMAIN old.slotOf) \cup FlippedBy(old, rows, ops))
             come == Postings(old.space, part.trie, part.slotOf, fold,
                              FlippedBy(old, rows, ops) \cup (DOMAIN ops \cap DOMAIN part.slotOf))
         IN  PlusPosts(LessPosts(old.posts, gone), come)
               = Postings(old.space, trie, part.slotOf, fold, RowsOf(Over(ops, rows)))
<1> DEFINE part == AllocateSlots(old, ops)
           now == Over(ops, rows)
           fold == BuiltFold(now)
           N == RowsOf(rows)
           M == RowsOf(now)
           flipped == FlippedBy(old, rows, ops)
           U == (DOMAIN ops \cap DOMAIN old.slotOf) \cup flipped
           V == flipped \cup (DOMAIN ops \cap DOMAIN part.slotOf)
           a == OpsAt(old.space, old.trie, old.slotOf, old.fold, N)
           b == OpsAt(old.space, part.trie, part.slotOf, fold, M)
           c == OpsAt(old.space, trie, part.slotOf, fold, M)
<1>1. /\ part \in Allocs /\ now \in PartRows
      /\ DOMAIN part.slotOf = M
      /\ DOMAIN old.slotOf = N
      /\ DOMAIN ops \cap DOMAIN part.slotOf = Upserts(ops)
      /\ M = (N \ DOMAIN ops) \cup Upserts(ops)
      /\ \A n \in M : part.trie[part.slotOf[n]] = RowRecord(n, now[n])
      /\ \A n \in N : old.trie[old.slotOf[n]] = RowRecord(n, rows[n])
      /\ \A n \in N \ DOMAIN ops : /\ part.slotOf[n] = old.slotOf[n]
                                   /\ part.trie[part.slotOf[n]] = old.trie[old.slotOf[n]]
  BY RowsAfter
<1>2. /\ old.posts = Postings(old.space, old.trie, old.slotOf, old.fold, N)
      /\ old.fold \in FoldStates
  BY DEF Updating, Built, RowsAreRebuilt, PostsAreRebuilt, CountsAreRebuilt, PartRecords
<1>3. fold \in FoldStates /\ part.slotOf \in SlotMaps
  BY <1>1, FoldAfter DEF Allocs
<1>4. \A n \in M : trie[part.slotOf[n]] = part.trie[part.slotOf[n]]
  BY <1>1
<1>5. flipped = {n \in Flipped(old.fold, fold, part.slotOf) \ DOMAIN ops :
                   Includes(old.fold, n) # Includes(fold, n)}
  BY DEF FlippedBy
<1>6. Flipped(old.fold, fold, part.slotOf) \subseteq DOMAIN part.slotOf
  BY DEF Flipped, FlippedRange
<1> HIDE DEF part, now, fold, N, M, flipped
<1>7. flipped \subseteq N \ DOMAIN ops
  BY <1>1, <1>5, <1>6 DEF Upserts
<1>8. U \subseteq N /\ V \subseteq M /\ N \ U = M \ V
  BY <1>1, <1>7 DEF Upserts
<1>9. \A n \in N \ U : Includes(old.fold, n) = Includes(fold, n)
  <2> TAKE n \in N \ U
  <2>1. n \in N \ DOMAIN ops /\ n \in DOMAIN part.slotOf /\ n \notin flipped
    BY <1>1
  <2>2. CASE n \in Flipped(old.fold, fold, part.slotOf)
    BY <1>5, <2>1, <2>2
  <2>3. CASE n \notin Flipped(old.fold, fold, part.slotOf)
    <3>1. Includes(old.fold, n) <=> Includes(fold, n)
      BY <1>2, <1>3, <2>1, <2>3, FlippedIsEnough
    <3>2. Includes(old.fold, n) \in BOOLEAN /\ Includes(fold, n) \in BOOLEAN
      BY DEF Includes
    <3> QED
      BY <3>1, <3>2
  <2> QED
    BY <2>2, <2>3
<1>10. \A n, r : RowRecord(n, r).name = n
  BY DEF RowRecord
<1>11. CarryNames(a, N)
  <2>1. ASSUME NEW n \in N PROVE old.trie[old.slotOf[n]].name = n
    <3>1. old.trie[old.slotOf[n]] = RowRecord(n, rows[n])
      BY <1>1
    <3> QED
      BY <1>10, <3>1, Zenon
  <2> QED
    BY <2>1, OpsAtCarry
<1>12. CarryNames(b, M)
  <2>1. ASSUME NEW n \in M PROVE part.trie[part.slotOf[n]].name = n
    <3>1. part.trie[part.slotOf[n]] = RowRecord(n, now[n])
      BY <1>1
    <3> QED
      BY <1>10, <3>1, Zenon
  <2> QED
    BY <2>1, OpsAtCarry
<1>13. c = b
  BY <1>4 DEF OpsAt
<1>14. \A n \in N \ U : a[n] = b[n]
  <2> TAKE n \in N \ U
  <2>1. n \in N /\ n \in M /\ n \in N \ DOMAIN ops
    BY <1>1, <1>8
  <2>2. a[n] = RowOps(old.space, old.trie[old.slotOf[n]], old.slotOf[n], Includes(old.fold, n))
    BY <2>1 DEF OpsAt
  <2>3. b[n] = RowOps(old.space, part.trie[part.slotOf[n]], part.slotOf[n], Includes(fold, n))
    BY <2>1 DEF OpsAt
  <2>4. /\ part.slotOf[n] = old.slotOf[n]
        /\ part.trie[part.slotOf[n]] = old.trie[old.slotOf[n]]
        /\ Includes(old.fold, n) = Includes(fold, n)
    BY <1>1, <1>9, <2>1
  <2> QED
    BY <2>2, <2>3, <2>4, Zenon
<1>15. Postings(old.space, old.trie, old.slotOf, old.fold, U) = Spread(a, U)
  BY <1>8, <1>11, PostingsIs
<1>16. Postings(old.space, old.trie, old.slotOf, old.fold, N) = Spread(a, N)
  BY <1>11, PostingsIs
<1>17. Postings(old.space, part.trie, part.slotOf, fold, V) = Spread(b, V)
  BY <1>8, <1>12, PostingsIs
<1>18. Postings(old.space, trie, part.slotOf, fold, M) = Spread(b, M)
  BY <1>12, <1>13, PostingsIs
<1> HIDE DEF a, b, c, U, V
<1>19. PlusPosts(LessPosts(Spread(a, N), Spread(a, U)), Spread(b, V)) = Spread(b, M)
  BY <1>8, <1>11, <1>12, <1>14, SpreadChange
<1> QED
  BY <1>2, <1>15, <1>16, <1>17, <1>18, <1>19 DEF part, now, fold, N, M, flipped, U, V

\* The parts of a set that have nothing in common.
LEMMA CountApart ==
  ASSUME NEW A, NEW B, IsFiniteSet(A), IsFiniteSet(B), A \cap B = {}
  PROVE  /\ Cardinality(A \cup B) = Cardinality(A) + Cardinality(B)
         /\ Cardinality(A) \in Nat /\ Cardinality(B) \in Nat
<1>1. Cardinality(A \cup B) = Cardinality(A) + Cardinality(B) - Cardinality(A \cap B)
  BY FS_Union
<1>2. Cardinality(A) \in Nat /\ Cardinality(B) \in Nat /\ Cardinality(A \cap B) = 0
  BY FS_CardinalityType, FS_EmptySet
<1> DEFINE x == Cardinality(A)
           y == Cardinality(B)
           z == Cardinality(A \cup B)
           w == Cardinality(A \cap B)
<1>3. z = x + y - w /\ x \in Nat /\ y \in Nat /\ w = 0
  BY <1>1, <1>2
<1> HIDE DEF x, y, z, w
<1>4. z = x + y /\ x \in Nat /\ y \in Nat
  BY <1>3
<1> QED
  BY <1>4 DEF x, y, z

CutNames(rows, S) == {n \in S : rows[n].cut}

LEMMA CutRowsIs ==
  ASSUME NEW part, NEW rows, NEW S, \A n \in S : part.trie[part.slotOf[n]] = RowRecord(n, rows[n])
  PROVE  CutRows(part, S) = Cardinality(CutNames(rows, S))
<1>0. \A n, r : RowRecord(n, r).cut = r.cut
  BY DEF RowRecord
<1>1. ASSUME NEW n \in S PROVE part.trie[part.slotOf[n]].cut = rows[n].cut
  <2>1. part.trie[part.slotOf[n]] = RowRecord(n, rows[n])
    OBVIOUS
  <2> QED
    BY <1>0, <2>1, Zenon
<1>2. {n \in S : part.trie[part.slotOf[n]].cut} = CutNames(rows, S)
  BY <1>1 DEF CutNames
<1> QED
  BY <1>2 DEF CutRows

\* The counter of the rows whose keys are cut goes with the batch.
LEMMA CutsAfter ==
  ASSUME NEW old, NEW rows, NEW ops, Updating(old, rows, ops)
  PROVE  LET part == AllocateSlots(old, ops)
             now == Over(ops, rows)
         IN  /\ (old.cutRows + CutRows(part, DOMAIN ops \cap DOMAIN part.slotOf))
                  - CutRows(old, DOMAIN ops \cap DOMAIN old.slotOf)
                  = Cardinality(CutNames(now, RowsOf(now)))
             /\ IsFiniteSet(CutNames(now, RowsOf(now)))
<1> DEFINE part == AllocateSlots(old, ops)
           now == Over(ops, rows)
           N == RowsOf(rows)
           M == RowsOf(now)
           had == DOMAIN ops \cap DOMAIN old.slotOf
           has == DOMAIN ops \cap DOMAIN part.slotOf
           rest == N \ DOMAIN ops
<1>1. /\ DOMAIN part.slotOf = M /\ DOMAIN old.slotOf = N
      /\ has = Upserts(ops)
      /\ M = rest \cup Upserts(ops)
      /\ \A n \in M : part.trie[part.slotOf[n]] = RowRecord(n, now[n])
      /\ \A n \in N : old.trie[old.slotOf[n]] = RowRecord(n, rows[n])
      /\ \A n \in rest : now[n] = rows[n]
  BY RowsAfter
<1>2. old.cutRows = Cardinality(CutNames(rows, N))
  BY DEF Updating, Built, CountsAreRebuilt, CutNames
<1>3. N \subseteq PartName /\ M \subseteq PartName
  BY DEF RowsOf
<1> HIDE DEF part, now, N, M
<1>4. /\ has \subseteq M /\ had \subseteq N /\ N = rest \cup had /\ M = rest \cup has
      /\ rest \cap had = {} /\ rest \cap has = {}
  BY <1>1
<1> DEFINE Y == CutNames(rows, rest)
           H == CutNames(rows, had)
           Z == CutNames(now, has)
<1>5. CutRows(part, has) = Cardinality(Z)
  <2>1. \A n \in has : part.trie[part.slotOf[n]] = RowRecord(n, now[n])
    BY <1>1, <1>4
  <2> QED
    BY <2>1, CutRowsIs
<1>6. CutRows(old, had) = Cardinality(H)
  <2>1. \A n \in had : old.trie[old.slotOf[n]] = RowRecord(n, rows[n])
    BY <1>1, <1>4
  <2> QED
    BY <2>1, CutRowsIs
<1>7. CutNames(rows, N) = Y \cup H /\ Y \cap H = {}
  BY <1>4 DEF CutNames
<1>8. CutNames(now, M) = Y \cup Z /\ Y \cap Z = {}
  BY <1>1, <1>4 DEF CutNames
<1>9. Y \subseteq PartName /\ H \subseteq PartName /\ Z \subseteq PartName
  BY <1>3, <1>4 DEF CutNames
<1> HIDE DEF Y, H, Z, has, had, rest
<1>10. IsFiniteSet(Y) /\ IsFiniteSet(H) /\ IsFiniteSet(Z)
  BY <1>9, PartNames
<1>11. /\ Cardinality(Y \cup H) = Cardinality(Y) + Cardinality(H)
       /\ Cardinality(Y \cup Z) = Cardinality(Y) + Cardinality(Z)
       /\ Cardinality(Y) \in Nat /\ Cardinality(H) \in Nat /\ Cardinality(Z) \in Nat
  BY <1>7, <1>8, <1>10, CountApart
<1>12. \A y, h, z \in Nat : ((y + h) + z) - h = y + z
  OBVIOUS
<1>13. (old.cutRows + CutRows(part, has)) - CutRows(old, had) = Cardinality(CutNames(now, M))
  <2>1. ((Cardinality(Y) + Cardinality(H)) + Cardinality(Z)) - Cardinality(H)
          = Cardinality(Y) + Cardinality(Z)
    BY <1>11, <1>12
  <2> QED
    BY <1>2, <1>5, <1>6, <1>7, <1>8, <1>11, <2>1
<1>14. IsFiniteSet(CutNames(now, M))
  BY <1>8, <1>10, FS_Union
<1> QED
  BY <1>13, <1>14 DEF part, now, M, has, had

-----------------------------------------------------------------------------
(* A partition after a batch *)

LEMMA NothingSaid ==
  ASSUME NEW old, NEW ops, AllocateSlots(old, ops).full
  PROVE  ApplyPartOps(old, ops) = old
BY DEF ApplyPartOps

\* What applyPartOps gives when the slots suffice.
UpdatedPart(old, rows, ops) ==
  LET part == AllocateSlots(old, ops)
      now == Over(ops, rows)
      fold == BuiltFold(now)
      freed == FreedSlots(old, ops)
      gone == Postings(old.space, old.trie, old.slotOf, old.fold,
                       (DOMAIN ops \cap DOMAIN old.slotOf) \cup FlippedBy(old, rows, ops))
      come == Postings(old.space, part.trie, part.slotOf, fold,
                       FlippedBy(old, rows, ops) \cup (DOMAIN ops \cap DOMAIN part.slotOf))
      cutRows == Cardinality(CutNames(now, RowsOf(now)))
      posts == PlusPosts(LessPosts(old.posts, gone), come)
      asked == InTrees((DOMAIN ops \cap DOMAIN old.slotOf) \cup (DOMAIN ops \cap DOMAIN part.slotOf),
                       DOMAIN gone \cup DOMAIN come)
      held == InTrees(DOMAIN part.slotOf, DOMAIN posts)
  IN [old EXCEPT !.slotOf = part.slotOf, !.high = part.high,
                 !.trie = Restrict(part.trie, DOMAIN part.trie \ ToSet(freed)),
                 !.free = part.free \o freed,
                 !.posts = posts,
                 !.wide = @ \cup Wider(held),
                 !.astray = @ \cup LedAstray(old.wide, asked),
                 !.fold = fold, !.cutRows = cutRows,
                 !.labelNs = fold.bound # NoBound \/ cutRows > 0]

LEMMA ApplyPartOpsIs ==
  ASSUME NEW old, NEW rows, NEW ops, Updating(old, rows, ops)
  PROVE  ApplyPartOps(old, ops) = UpdatedPart(old, rows, ops)
<1>1. ~AllocateSlots(old, ops).full
  BY DEF Updating
<1>2. /\ Over(ops, rows) \in PartRows
      /\ DOMAIN AllocateSlots(old, ops).slotOf = RowsOf(Over(ops, rows))
      /\ \A n \in RowsOf(Over(ops, rows)) :
           AllocateSlots(old, ops).trie[AllocateSlots(old, ops).slotOf[n]]
             = RowRecord(n, Over(ops, rows)[n])
  BY RowsAfter
<1>3. RecomputeFold([n \in DOMAIN AllocateSlots(old, ops).slotOf |->
                       Cardinality(AllocateSlots(old, ops).trie[AllocateSlots(old, ops).slotOf[n]].labels)])
        = BuiltFold(Over(ops, rows))
  BY <1>2, FoldAfter
<1>4. (old.cutRows + CutRows(AllocateSlots(old, ops),
                             DOMAIN ops \cap DOMAIN AllocateSlots(old, ops).slotOf))
        - CutRows(old, DOMAIN ops \cap DOMAIN old.slotOf)
        = Cardinality(CutNames(Over(ops, rows), RowsOf(Over(ops, rows))))
  BY CutsAfter
<1> QED
  BY <1>1, <1>3, <1>4, Zenon DEF ApplyPartOps, UpdatedPart, FlippedBy, FreedSlots

\* A batch keeps what a partition asks of its trees what a build of its rows
\* would ask.
LEMMA PartUpdated ==
  ASSUME NEW old, NEW rows, NEW ops, Updating(old, rows, ops)
  PROVE  /\ ApplyPartOps(old, ops) \in PartRecords
         /\ ApplyPartOps(old, ops).space = old.space
         /\ Built(ApplyPartOps(old, ops), Over(ops, rows))
<1> DEFINE part == AllocateSlots(old, ops)
           now == Over(ops, rows)
           fold == BuiltFold(now)
           freed == FreedSlots(old, ops)
           gone == Postings(old.space, old.trie, old.slotOf, old.fold,
                            (DOMAIN ops \cap DOMAIN old.slotOf) \cup FlippedBy(old, rows, ops))
           come == Postings(old.space, part.trie, part.slotOf, fold,
                            FlippedBy(old, rows, ops) \cup (DOMAIN ops \cap DOMAIN part.slotOf))
           cutRows == Cardinality(CutNames(now, RowsOf(now)))
           labelNs == fold.bound # NoBound \/ cutRows > 0
           trie == Restrict(part.trie, DOMAIN part.trie \ ToSet(freed))
           free == part.free \o freed
           posts == PlusPosts(LessPosts(old.posts, gone), come)
           asked == InTrees((DOMAIN ops \cap DOMAIN old.slotOf)
                               \cup (DOMAIN ops \cap DOMAIN part.slotOf),
                            DOMAIN gone \cup DOMAIN come)
           wide == old.wide \cup Wider(InTrees(DOMAIN part.slotOf, DOMAIN posts))
           astray == old.astray \cup LedAstray(old.wide, asked)
           new == ApplyPartOps(old, ops)
           updated == [old EXCEPT !.slotOf = part.slotOf, !.high = part.high, !.trie = trie,
                                  !.free = free, !.posts = posts, !.wide = wide,
                                  !.astray = astray, !.fold = fold,
                                  !.cutRows = cutRows, !.labelNs = labelNs]
<1>1. new = updated
  <2>1. new = UpdatedPart(old, rows, ops)
    BY ApplyPartOpsIs
  <2>2. updated = UpdatedPart(old, rows, ops)
    BY DEF UpdatedPart
  <2> HIDE DEF new, updated
  <2> QED
    BY <2>1, <2>2
<1>2. old \in PartRecords
  BY DEF Updating
<1>3. /\ now \in PartRows /\ DOMAIN part.slotOf = RowsOf(now)
      /\ \A n \in RowsOf(now) : part.trie[part.slotOf[n]] = RowRecord(n, now[n])
  BY RowsAfter
<1>4. fold \in FoldStates
  BY <1>3, FoldAfter
<1>5. IsFiniteSet(CutNames(now, RowsOf(now)))
  BY CutsAfter
<1>6. cutRows \in Nat /\ (cutRows > 0 <=> CutNames(now, RowsOf(now)) # {})
  <2>1. cutRows \in Nat
    BY <1>5, FS_CardinalityType
  <2>2. cutRows = 0 <=> CutNames(now, RowsOf(now)) = {}
    BY <1>5, FS_EmptySet
  <2> QED
    BY <2>1, <2>2
<1>7. /\ SlotsAreOnce(SlotsOf(old, ops))
      /\ trie \in Tries /\ free \in Seq(Nat) /\ part.high \in Nat /\ part.slotOf \in SlotMaps
      /\ \A n \in DOMAIN part.slotOf : trie[part.slotOf[n]] = part.trie[part.slotOf[n]]
  <2> DEFINE rec == SlotsOf(old, ops)
  <2>1. /\ rec.slotOf = part.slotOf /\ rec.high = part.high
        /\ rec.free = free /\ rec.trie = trie
    BY DEF SlotsOf
  <2>2. /\ SlotsAreOnce(rec)
        /\ rec.trie \in Tries /\ rec.free \in Seq(Nat) /\ rec.high \in Nat /\ rec.slotOf \in SlotMaps
        /\ \A n \in DOMAIN rec.slotOf : rec.trie[rec.slotOf[n]] = part.trie[rec.slotOf[n]]
    BY SlotsAfter
  <2> HIDE DEF rec, trie, free, part
  <2> QED
    BY <2>1, <2>2 DEF rec
<1>8. posts = Postings(old.space, trie, part.slotOf, fold, RowsOf(now))
  BY <1>7, PostsAfter
<1>9. old.space \in PartSpace /\ old.stale \in BOOLEAN
  BY <1>2 DEF PartRecords
<1>10. posts \in PostMaps
  <2>1. RowsOf(now) \in SUBSET PartName
    BY DEF RowsOf
  <2> HIDE DEF posts, trie, fold, now, part
  <2> QED
    BY <1>4, <1>7, <1>8, <1>9, <2>1 DEF PostMaps
<1>11. labelNs \in BOOLEAN /\ wide \in SUBSET Tree /\ astray \in SUBSET Tree
  <2>1. old.wide \in SUBSET Tree /\ old.astray \in SUBSET Tree
    BY <1>2 DEF PartRecords
  <2>2. \A held, w : Wider(held) \in SUBSET Tree /\ LedAstray(w, held) \in SUBSET Tree
    BY DEF Wider, LedAstray
  <2> QED
    BY <2>1, <2>2
<1> HIDE DEF part, now, fold, cutRows, labelNs, trie, free, posts, new, freed, gone, come,
            updated, asked, wide, astray
<1>12. /\ new.space = old.space /\ new.slotOf = part.slotOf /\ new.trie = trie
       /\ new.free = free /\ new.high = part.high /\ new.posts = posts /\ new.fold = fold
       /\ new.cutRows = cutRows /\ new.labelNs = labelNs /\ new.stale = old.stale
  BY <1>1, <1>2 DEF PartRecords, updated
<1>13. new \in PartRecords
  BY <1>1, <1>2, <1>4, <1>6, <1>7, <1>10, <1>11 DEF PartRecords, updated
<1>14. RowsAreRebuilt(new, now) /\ PostsAreRebuilt(new, now)
  <2>1. \A n \in RowsOf(now) : trie[part.slotOf[n]] = RowRecord(n, now[n])
    BY <1>3, <1>7
  <2> QED
    BY <1>3, <1>8, <1>12, <2>1 DEF RowsAreRebuilt, PostsAreRebuilt, fold
<1>15. CountsAreRebuilt(new, now)
  BY <1>6, <1>12 DEF CountsAreRebuilt, CutNames, fold, cutRows, labelNs
<1>16. SlotsAreOnce(new)
  BY <1>7, <1>12 DEF SlotsAreOnce, SlotsOf, part, trie, free, freed
<1> QED
  BY <1>12, <1>13, <1>14, <1>15, <1>16 DEF Built, new, now

\* A new partition is what a build of no rows gives.
LEMMA NewPartIs ==
  ASSUME NEW s \in PartSpace, NEW rows \in PartRows, RowsOf(rows) = {}
  PROVE  NewPart(s) \in PartRecords /\ NewPart(s).space = s /\ Built(NewPart(s), rows)
<1> DEFINE part == NewPart(s)
<1>1. <<>> \in [{} -> Nat] /\ <<>> \in [{} -> RowRecords] /\ DOMAIN <<>> = {}
  OBVIOUS
<1>2. <<>> \in SlotMaps /\ <<>> \in Tries /\ <<>> \in PartWeights /\ <<>> \in Seq(Nat)
  BY <1>1, EmptySeq DEF SlotMaps, Tries, PartWeights
<1>3. RecomputeFold(<<>>) = BuiltFold(rows)
  <2>1. [n \in RowsOf(rows) |-> Cardinality(rows[n].labels)] = <<>>
    OBVIOUS
  <2> QED
    BY <2>1 DEF BuiltFold
<1>4. BuiltFold(rows) \in FoldStates
  BY <1>2, <1>3, RecomputeFoldType
<1>5. \A f : Postings(s, <<>>, <<>>, f, {}) = <<>>
  BY DEF Postings
<1>6. <<>> \in PostMaps
  BY <1>2, <1>4, <1>5 DEF PostMaps
<1>7. /\ part.space = s /\ part.slotOf = <<>> /\ part.trie = <<>> /\ part.free = <<>>
      /\ part.high = 0 /\ part.posts = <<>> /\ part.fold = BuiltFold(rows)
      /\ part.cutRows = 0 /\ part.labelNs = FALSE
  BY <1>3 DEF NewPart
<1>8. part \in PartRecords
  BY <1>2, <1>3, <1>4, <1>6 DEF NewPart, PartRecords
<1> HIDE DEF part
<1>9. RowsAreRebuilt(part, rows) /\ PostsAreRebuilt(part, rows)
  BY <1>1, <1>5, <1>7 DEF RowsAreRebuilt, PostsAreRebuilt
<1>10. BuiltFold(rows).bound = NoBound
  <2>1. Len(NameOrder({})) = 0
    BY NamesInOrder, FS_EmptySet
  <2>2. RecomputeFold(<<>>) = EmptyFold
    BY <1>1, <1>2, <2>1, RecomputeFoldSteps
  <2> QED
    BY <1>3, <2>2 DEF EmptyFold
<1>11. CountsAreRebuilt(part, rows)
  <2>1. {n \in RowsOf(rows) : rows[n].cut} = {}
    OBVIOUS
  <2> QED
    BY <1>7, <1>10, <2>1, FS_EmptySet DEF CountsAreRebuilt
<1>12. SlotsAreOnce(part)
  <2>1. ToSet(<<>>) = {} /\ Range(<<>>) = {} /\ 0 .. (0 - 1) = {} /\ IsInjective(<<>>)
    BY DEF ToSet, Range, IsInjective
  <2> QED
    BY <1>1, <1>7, <2>1 DEF SlotsAreOnce
<1> QED
  BY <1>7, <1>8, <1>9, <1>11, <1>12 DEF Built, part

-----------------------------------------------------------------------------
(* The directory: the partitions of each page, by its first namespace        *)

PageParts == UNION {[S -> PartRecords] : S \in SUBSET PartSpace}
PageAt(F, t) == Max({f \in F : f <= t})
Pagings == UNION {[F -> PageParts] : F \in SUBSET Nat}

\* Every partition is on the page where its namespace is looked for, and a page
\* but the first one begins with its namespace.
Paged(P) ==
  /\ IsFiniteSet(DOMAIN P) /\ 0 \in DOMAIN P
  /\ \A f \in DOMAIN P : \A t \in DOMAIN P[f] : P[f][t].space = t /\ PageAt(DOMAIN P, t) = f
  /\ \A f \in DOMAIN P : f # 0 => f \in DOMAIN P[f]
DirOf(P) == WithRoot([f \in DOMAIN P |-> DirPage(P[f])])
Books == {P \in Pagings : Paged(P)}
Dirs == {DirOf(P) : P \in Books}

LEMMA MaxBelow ==
  ASSUME NEW n \in Nat, NEW s \in SUBSET (0 .. n), s # {}
  PROVE  Max(s) \in s /\ \A i \in s : i <= Max(s)
<1> DEFINE T == {n - i : i \in s}
<1>4. \A i \in s : i \in Nat /\ i <= n /\ n - i \in Nat /\ n - i \in T
  OBVIOUS
<1>0. \A k \in T : \E i \in s : k = n - i
  OBVIOUS
<1> HIDE DEF T
<1>1. T \in SUBSET Nat /\ T # {}
  BY <1>0, <1>4
<1>2. Min(T) \in T /\ \A k \in T : Min(T) <= k
  BY <1>1, MinOf
<1>3. PICK m \in s : Min(T) = n - m
  BY <1>0, <1>2
<1>5. \A i \in s : m >= i
  <2> SUFFICES ASSUME NEW i \in s PROVE m >= i
    OBVIOUS
  <2>1. n - m <= n - i
    BY <1>2, <1>3, <1>4
  <2>2. i \in Nat /\ m \in Nat
    BY <1>4
  <2> QED
    BY <2>1, <2>2
<1>6. \E x \in s : \A y \in s : x >= y
  BY <1>5
<1>7. Max(s) \in s /\ \A i \in s : Max(s) >= i
  BY <1>6 DEF Max
<1> QED
  BY <1>4, <1>7

LEMMA PageIs ==
  ASSUME NEW F \in SUBSET Nat, 0 \in F, NEW t \in Nat
  PROVE  /\ PageAt(F, t) \in F /\ PageAt(F, t) <= t /\ PageAt(F, t) \in Nat
         /\ \A f \in F : f <= t => f <= PageAt(F, t)
<1> DEFINE S == {f \in F : f <= t}
<1>0. \A f \in F : f \in Nat /\ (f <= t => f \in 0 .. t)
  OBVIOUS
<1>1. S \in SUBSET (0 .. t) /\ S # {}
  <2>1. \A f \in S : f \in 0 .. t
    BY <1>0
  <2>2. 0 <= t
    OBVIOUS
  <2> QED
    BY <2>1, <2>2
<1>2. Max(S) \in S /\ \A f \in S : f <= Max(S)
  BY <1>1, MaxBelow
<1> QED
  BY <1>0, <1>2 DEF PageAt

LEMMA PageOnly ==
  ASSUME NEW F \in SUBSET Nat, 0 \in F, NEW t \in Nat, NEW f \in F, f <= t,
         \A g \in F : g <= t => g <= f
  PROVE  PageAt(F, t) = f
<1>1. PageAt(F, t) \in F /\ PageAt(F, t) \in Nat /\ PageAt(F, t) <= t /\ f <= PageAt(F, t)
  BY PageIs
<1>2. PageAt(F, t) <= f /\ f \in Nat
  BY <1>1
<1> QED
  BY <1>1, <1>2

LEMMA BookIs ==
  ASSUME NEW P \in Books
  PROVE  /\ DOMAIN P \in SUBSET Nat /\ IsFiniteSet(DOMAIN P) /\ 0 \in DOMAIN P
         /\ \A f \in DOMAIN P : P[f] \in PageParts /\ DOMAIN P[f] \in SUBSET PartSpace
         /\ \A f \in DOMAIN P : \A t \in DOMAIN P[f] :
              /\ t \in Nat /\ t \in PartSpace /\ P[f][t] \in PartRecords
              /\ P[f][t].space = t /\ PageAt(DOMAIN P, t) = f /\ f <= t
         /\ \A f \in DOMAIN P : f # 0 => f \in DOMAIN P[f]
<1>1. PICK F \in SUBSET Nat : P \in [F -> PageParts]
  BY DEF Books, Pagings
<1>2. \A f \in F : /\ P[f] \in PageParts /\ DOMAIN P[f] \in SUBSET PartSpace
                   /\ \A t \in DOMAIN P[f] : P[f][t] \in PartRecords /\ t \in PartSpace
  <2> SUFFICES ASSUME NEW f \in F
               PROVE  /\ P[f] \in PageParts /\ DOMAIN P[f] \in SUBSET PartSpace
                      /\ \A t \in DOMAIN P[f] : P[f][t] \in PartRecords /\ t \in PartSpace
    OBVIOUS
  <2>1. P[f] \in PageParts
    BY <1>1
  <2>2. PICK S \in SUBSET PartSpace : P[f] \in [S -> PartRecords]
    BY <2>1 DEF PageParts
  <2> QED
    BY <2>1, <2>2
<1>3. Paged(P)
  BY DEF Books
<1>4. ASSUME NEW f \in DOMAIN P, NEW t \in DOMAIN P[f]
      PROVE  /\ t \in Nat /\ t \in PartSpace /\ P[f][t] \in PartRecords
             /\ P[f][t].space = t /\ PageAt(DOMAIN P, t) = f /\ f <= t
  <2>1. t \in Nat /\ t \in PartSpace /\ P[f][t] \in PartRecords
    BY <1>1, <1>2, <1>4, PartNames
  <2>2. P[f][t].space = t /\ PageAt(DOMAIN P, t) = f
    BY <1>3, <1>4 DEF Paged
  <2>3. DOMAIN P \in SUBSET Nat /\ 0 \in DOMAIN P
    BY <1>1, <1>3 DEF Paged
  <2>4. PageAt(DOMAIN P, t) <= t
    BY <2>1, <2>3, PageIs
  <2> QED
    BY <2>1, <2>2, <2>4
<1> QED
  BY <1>1, <1>2, <1>3, <1>4 DEF Paged

\* What the operators of the directory are in these terms.
LEMMA LookupIs ==
  ASSUME NEW P \in Books, NEW t \in Nat
  PROVE  /\ PageFor(DirOf(P), t) = PageAt(DOMAIN P, t)
         /\ PartsFor(DirOf(P), t) = P[PageAt(DOMAIN P, t)]
<1>1. /\ DOMAIN DirOf(P).pages = DOMAIN P
      /\ \A f \in DOMAIN P : DirOf(P).pages[f].parts = P[f]
  BY DEF DirOf, WithRoot, DirPage
<1>2. PageFor(DirOf(P), t) = PageAt(DOMAIN P, t)
  BY <1>1 DEF PageFor, PageAt
<1>3. PageAt(DOMAIN P, t) \in DOMAIN P
  BY BookIs, PageIs
<1> QED
  BY <1>1, <1>2, <1>3 DEF PartsFor

LEMMA FoundIs ==
  ASSUME NEW P \in Books, NEW t \in Nat
  PROVE  /\ HasPart(DirOf(P), t) <=> \E f \in DOMAIN P : t \in DOMAIN P[f]
         /\ \A f \in DOMAIN P : t \in DOMAIN P[f] => FindPart(DirOf(P), t) = P[f][t]
<1>1. PageAt(DOMAIN P, t) \in DOMAIN P
  BY BookIs, PageIs
<1>2. \A f \in DOMAIN P : t \in DOMAIN P[f] => PageAt(DOMAIN P, t) = f
  BY BookIs
<1> QED
  BY <1>1, <1>2, LookupIs DEF HasPart, FindPart

-----------------------------------------------------------------------------
(* A partition put into the directory *)

\* A book whose pages are those of P but the one of the space, which is L, and
\* a page R that begins at "middle" when the page was split.
Rebound(P, p, L) == With(Restrict(P, DOMAIN P \ {p}), p, L)

\* What Upsert makes of a book: P with the partition on the page of its space.
Puts(P, Q, part) ==
  /\ Q \in Books
  /\ \A t \in Nat : (\E f \in DOMAIN Q : t \in DOMAIN Q[f])
                      <=> (t = part.space \/ \E f \in DOMAIN P : t \in DOMAIN P[f])
  /\ \A f \in DOMAIN Q : \A t \in DOMAIN Q[f] : t = part.space => Q[f][t] = part
  /\ \A f \in DOMAIN Q : \A t \in DOMAIN Q[f] : t # part.space =>
       \E g \in DOMAIN P : t \in DOMAIN P[g] /\ Q[f][t] = P[g][t]

\* The page of a space, with the partition on it.
NewPage(P, part, s, p, parts) ==
  /\ p \in DOMAIN P /\ p <= s /\ p \in Nat
  /\ s \in Nat /\ s \in PartSpace /\ PageAt(DOMAIN P, s) = p
  /\ parts \in PageParts /\ DOMAIN parts = DOMAIN P[p] \cup {s}
  /\ DOMAIN parts \in SUBSET PartSpace /\ DOMAIN parts \in SUBSET Nat
  /\ IsFiniteSet(DOMAIN parts)
  /\ \A t \in DOMAIN parts : /\ t \in Nat /\ p <= t /\ PageAt(DOMAIN P, t) = p
                              /\ parts[t] \in PartRecords /\ parts[t].space = t
  /\ parts[s] = part
  /\ \A t \in DOMAIN parts : t # s => t \in DOMAIN P[p] /\ parts[t] = P[p][t]
  /\ p # 0 => p \in DOMAIN parts

LEMMA NewPageIs ==
  ASSUME NEW P \in Books, NEW part \in PartRecords
  PROVE  NewPage(P, part, part.space, PageAt(DOMAIN P, part.space),
                 With(P[PageAt(DOMAIN P, part.space)], part.space, part))
<1> DEFINE s == part.space
           p == PageAt(DOMAIN P, s)
           parts == With(P[p], s, part)
<1>1. s \in PartSpace /\ s \in Nat
  BY PartNames DEF PartRecords
<1>2. /\ DOMAIN P \in SUBSET Nat /\ IsFiniteSet(DOMAIN P) /\ 0 \in DOMAIN P
      /\ \A f \in DOMAIN P : P[f] \in PageParts /\ DOMAIN P[f] \in SUBSET PartSpace
      /\ \A f \in DOMAIN P : \A t \in DOMAIN P[f] :
           /\ t \in Nat /\ t \in PartSpace /\ P[f][t] \in PartRecords
           /\ P[f][t].space = t /\ PageAt(DOMAIN P, t) = f /\ f <= t
      /\ \A f \in DOMAIN P : f # 0 => f \in DOMAIN P[f]
  BY BookIs
<1> HIDE DEF s
<1>3. p \in DOMAIN P /\ p <= s /\ p \in Nat
  BY <1>1, <1>2, PageIs
<1>4. /\ DOMAIN parts = DOMAIN P[p] \cup {s} /\ parts[s] = part
      /\ \A t \in DOMAIN parts : t # s => t \in DOMAIN P[p] /\ parts[t] = P[p][t]
  BY DEF With
<1>5. part.space = s
  BY DEF s
<1>6. parts \in PageParts
  <2>1. P[p] \in UNION {[D -> PartRecords] : D \in SUBSET PartSpace}
    BY <1>2, <1>3 DEF PageParts
  <2> HIDE DEF parts, p
  <2>2. With(P[p], s, part) \in UNION {[D -> PartRecords] : D \in SUBSET PartSpace}
    BY <1>1, <2>1, WithType
  <2> QED
    BY <2>2 DEF PageParts, parts, p
<1>7. PageAt(DOMAIN P, s) = p
  OBVIOUS
<1> HIDE DEF parts, p
<1>8. \A t \in DOMAIN parts : /\ t \in Nat /\ p <= t /\ PageAt(DOMAIN P, t) = p
                              /\ parts[t] \in PartRecords /\ parts[t].space = t
  <2> SUFFICES ASSUME NEW t \in DOMAIN parts
               PROVE  /\ t \in Nat /\ p <= t /\ PageAt(DOMAIN P, t) = p
                      /\ parts[t] \in PartRecords /\ parts[t].space = t
    OBVIOUS
  <2>1. CASE t = s
    BY <1>1, <1>3, <1>4, <1>5, <1>7, <2>1
  <2>2. CASE t # s
    BY <1>2, <1>3, <1>4, <2>2
  <2> QED
    BY <2>1, <2>2
<1>9. DOMAIN parts \in SUBSET PartSpace /\ DOMAIN parts \in SUBSET Nat
  <2>1. DOMAIN P[p] \in SUBSET PartSpace
    BY <1>2, <1>3
  <2> QED
    BY <1>1, <1>4, <1>8, <2>1
<1>10. IsFiniteSet(DOMAIN parts)
  BY <1>9, PartNames
<1>11. p # 0 => p \in DOMAIN parts
  BY <1>2, <1>3, <1>4
<1> QED
  <2>1. NewPage(P, part, s, p, parts)
    BY <1>1, <1>3, <1>4, <1>6, <1>7, <1>8, <1>9, <1>10, <1>11 DEF NewPage
  <2> QED
    BY <2>1 DEF s, p, parts

\* The name of a page is its own as long as it keeps its first partitions.
LEMMA PageNameIs ==
  ASSUME NEW p \in Nat, NEW L, DOMAIN L \in SUBSET Nat,
         \A t \in DOMAIN L : p <= t, p # 0 => p \in DOMAIN L
  PROVE  PageName(p, L) = p
<1>1. CASE p = 0
  BY <1>1 DEF PageName
<1>2. CASE p # 0
  <2> DEFINE D == DOMAIN L
  <2>1. D \in SUBSET Nat /\ p \in D /\ \A t \in D : p <= t
    BY <1>2
  <2> HIDE DEF D
  <2>2. Min(D) \in D /\ Min(D) <= p
    BY <2>1, MinOf
  <2>3. Min(D) \in Nat /\ p <= Min(D)
    BY <2>1, <2>2
  <2>4. Min(D) = p
    BY <2>2, <2>3
  <2> QED
    BY <1>2, <2>4 DEF PageName, D
<1> QED
  BY <1>1, <1>2

LEMMA BookType ==
  ASSUME NEW Q, DOMAIN Q \in SUBSET Nat, Q = [f \in DOMAIN Q |-> Q[f]],
         \A f \in DOMAIN Q : Q[f] \in PageParts, Paged(Q)
  PROVE  Q \in Books
<1>1. Q \in [DOMAIN Q -> PageParts]
  OBVIOUS
<1> QED
  BY <1>1 DEF Books, Pagings

LEMMA PutOnPage ==
  ASSUME NEW P \in Books, NEW part \in PartRecords
  PROVE  LET p == PageAt(DOMAIN P, part.space)
             parts == With(P[p], part.space, part)
         IN Puts(P, Rebound(P, p, parts), part)
<1> DEFINE s == part.space
           p == PageAt(DOMAIN P, s)
           parts == With(P[p], s, part)
           Q == Rebound(P, p, parts)
<1>1. /\ p \in DOMAIN P /\ s \in Nat /\ s \in DOMAIN parts
      /\ parts \in PageParts /\ DOMAIN parts = DOMAIN P[p] \cup {s}
      /\ \A t \in DOMAIN parts : parts[t].space = t /\ PageAt(DOMAIN P, t) = p
      /\ parts[s] = part
      /\ \A t \in DOMAIN parts : t # s => t \in DOMAIN P[p] /\ parts[t] = P[p][t]
      /\ p # 0 => p \in DOMAIN parts
  <2> HIDE DEF s, p, parts
  <2>1. NewPage(P, part, s, p, parts)
    BY NewPageIs DEF s, p, parts
  <2> QED
    BY <2>1 DEF NewPage
<1>2. /\ DOMAIN P \in SUBSET Nat /\ IsFiniteSet(DOMAIN P) /\ 0 \in DOMAIN P
      /\ \A f \in DOMAIN P : P[f] \in PageParts
      /\ \A f \in DOMAIN P : \A t \in DOMAIN P[f] :
           P[f][t].space = t /\ PageAt(DOMAIN P, t) = f
      /\ \A f \in DOMAIN P : f # 0 => f \in DOMAIN P[f]
  BY BookIs
<1>3. PageAt(DOMAIN P, s) = p /\ part.space = s
  OBVIOUS
<1> HIDE DEF s, p, parts
<1>4. /\ DOMAIN Q = DOMAIN P /\ Q = [f \in DOMAIN Q |-> Q[f]]
      /\ Q[p] = parts /\ \A f \in DOMAIN P : f # p => Q[f] = P[f]
  BY <1>1 DEF Rebound, With, Restrict
<1> HIDE DEF Q
<1>5. Paged(Q)
  <2>1. ASSUME NEW f \in DOMAIN Q, NEW t \in DOMAIN Q[f]
        PROVE  Q[f][t].space = t /\ PageAt(DOMAIN Q, t) = f
    <3>1. CASE f = p
      BY <1>1, <1>4, <2>1, <3>1
    <3>2. CASE f # p
      BY <1>2, <1>4, <2>1, <3>2
    <3> QED
      BY <3>1, <3>2
  <2>2. \A f \in DOMAIN Q : f # 0 => f \in DOMAIN Q[f]
    BY <1>1, <1>2, <1>4
  <2> QED
    BY <1>2, <1>4, <2>1, <2>2 DEF Paged
<1>6. Q \in Books
  <2>1. \A f \in DOMAIN Q : Q[f] \in PageParts
    BY <1>1, <1>2, <1>4
  <2> QED
    BY <1>2, <1>4, <1>5, <2>1, BookType
<1>7. \A t \in Nat : (\E f \in DOMAIN Q : t \in DOMAIN Q[f])
                       <=> (t = s \/ \E f \in DOMAIN P : t \in DOMAIN P[f])
  <2> SUFFICES ASSUME NEW t \in Nat
               PROVE  (\E f \in DOMAIN Q : t \in DOMAIN Q[f])
                         <=> (t = s \/ \E f \in DOMAIN P : t \in DOMAIN P[f])
    OBVIOUS
  <2>1. ASSUME NEW f \in DOMAIN Q, t \in DOMAIN Q[f]
        PROVE  t = s \/ \E g \in DOMAIN P : t \in DOMAIN P[g]
    BY <1>1, <1>4, <2>1
  <2>2. t = s => \E f \in DOMAIN Q : t \in DOMAIN Q[f]
    BY <1>1, <1>4
  <2>3. ASSUME NEW f \in DOMAIN P, t \in DOMAIN P[f]
        PROVE  \E g \in DOMAIN Q : t \in DOMAIN Q[g]
    BY <1>1, <1>4, <2>3
  <2> QED
    BY <2>1, <2>2, <2>3
<1>8. \A f \in DOMAIN Q : \A t \in DOMAIN Q[f] : t = s => Q[f][t] = part
  <2> SUFFICES ASSUME NEW f \in DOMAIN Q, s \in DOMAIN Q[f] PROVE Q[f][s] = part
    OBVIOUS
  <2>1. CASE f = p
    BY <1>1, <1>4, <2>1
  <2>2. f = p
    <3>1. PageAt(DOMAIN Q, s) = f
      BY <1>5 DEF Paged
    <3> QED
      BY <1>3, <1>4, <3>1
  <2> QED
    BY <2>1, <2>2
<1>9. \A f \in DOMAIN Q : \A t \in DOMAIN Q[f] : t # s =>
        \E g \in DOMAIN P : t \in DOMAIN P[g] /\ Q[f][t] = P[g][t]
  <2> SUFFICES ASSUME NEW f \in DOMAIN Q, NEW t \in DOMAIN Q[f], t # s
               PROVE  t \in DOMAIN P[f] /\ Q[f][t] = P[f][t]
    BY <1>4
  <2>1. CASE f = p
    BY <1>1, <1>4, <2>1
  <2>2. CASE f # p
    BY <1>4, <2>2
  <2> QED
    BY <2>1, <2>2
<1>10. Puts(P, Q, part)
  BY <1>3, <1>6, <1>7, <1>8, <1>9 DEF Puts
<1> QED
  BY <1>10 DEF Q, s, p, parts

LEMMA MiddleIs ==
  ASSUME NEW S \in SUBSET Nat, IsFiniteSet(S), Cardinality(S) > 1
  PROVE  /\ NameOrder(S)[Cardinality(S) \div 2 + 1] \in S
         /\ \E y \in S : y < NameOrder(S)[Cardinality(S) \div 2 + 1]
<1> DEFINE n == Cardinality(S)
           k == n \div 2 + 1
<1>1. /\ n \in Nat
      /\ \A i, j \in 1 .. n : i < j => NameOrder(S)[i] < NameOrder(S)[j]
      /\ \A i \in 1 .. n : NameOrder(S)[i] \in S
  BY NamesInOrder
<1>2. n > 1
  OBVIOUS
<1> HIDE DEF n
<1>3. k \in 1 .. n /\ 1 \in 1 .. n /\ 1 < k
  BY <1>1, <1>2
<1> HIDE DEF k
<1>4. NameOrder(S)[k] \in S /\ NameOrder(S)[1] \in S /\ NameOrder(S)[1] < NameOrder(S)[k]
  BY <1>1, <1>3
<1> QED
  BY <1>4 DEF k, n

\* The page is split at the middle: what each namespace is looked for in.
LEMMA SplitPages ==
  ASSUME NEW P \in Books, NEW p \in DOMAIN P, NEW middle \in Nat, p < middle,
         PageAt(DOMAIN P, middle) = p
  PROVE  /\ middle \notin DOMAIN P
         /\ \A t \in Nat : PageAt(DOMAIN P, t) = p /\ t < middle
                             => PageAt(DOMAIN P \cup {middle}, t) = p
         /\ \A t \in Nat : PageAt(DOMAIN P, t) = p /\ t >= middle
                             => PageAt(DOMAIN P \cup {middle}, t) = middle
         /\ \A t \in Nat : PageAt(DOMAIN P, t) # p
                             => PageAt(DOMAIN P \cup {middle}, t) = PageAt(DOMAIN P, t)
<1> DEFINE F == DOMAIN P
           G == F \cup {middle}
<1>1. F \in SUBSET Nat /\ 0 \in F /\ p \in F /\ p \in Nat
  BY BookIs
<1>2. PageAt(F, middle) = p
  OBVIOUS
<1> HIDE DEF F
<1>3. G \in SUBSET Nat /\ 0 \in G
  BY <1>1
<1>4. \A f \in F : f <= middle => f <= p
  BY <1>1, <1>2, PageIs
<1>5. middle \notin F
  <2>1. ~(middle <= p) /\ middle <= middle
    BY <1>1
  <2> QED
    BY <1>4, <2>1
<1>6. ASSUME NEW t \in Nat
      PROVE  /\ PageAt(F, t) \in F /\ PageAt(F, t) \in Nat /\ PageAt(F, t) <= t
             /\ \A f \in F : f <= t => f <= PageAt(F, t)
  BY <1>1, PageIs
<1>7. ASSUME NEW t \in Nat, PageAt(F, t) = p, t < middle PROVE PageAt(G, t) = p
  <2>1. p \in G /\ p <= t
    BY <1>1, <1>6, <1>7
  <2>2. ASSUME NEW g \in G, g <= t PROVE g <= p
    <3>1. ~(middle <= t)
      BY <1>7
    <3>2. g \in F
      BY <2>2, <3>1
    <3> QED
      BY <1>6, <1>7, <2>2, <3>2
  <2> QED
    BY <1>3, <2>1, <2>2, PageOnly
<1>8. ASSUME NEW t \in Nat, PageAt(F, t) = p, t >= middle PROVE PageAt(G, t) = middle
  <2>1. middle \in G /\ middle <= t
    BY <1>8
  <2>2. ASSUME NEW g \in G, g <= t PROVE g <= middle
    <3>1. CASE g = middle
      BY <3>1
    <3>2. CASE g \in F
      <4>1. g <= p /\ g \in Nat
        BY <1>1, <1>6, <1>8, <2>2, <3>2
      <4> QED
        BY <1>1, <4>1
    <3> QED
      BY <3>1, <3>2
  <2> QED
    BY <1>3, <2>1, <2>2, PageOnly
<1>9. ASSUME NEW t \in Nat, PageAt(F, t) # p PROVE PageAt(G, t) = PageAt(F, t)
  <2> DEFINE f == PageAt(F, t)
  <2>1. f \in F /\ f \in G /\ f <= t /\ f \in Nat /\ f # p
    BY <1>6, <1>9
  <2>2. \A g \in F : g <= t => g <= f
    BY <1>6
  <2> HIDE DEF f
  <2>3. ASSUME middle <= t PROVE middle <= f
    <3>1. p <= t
      BY <1>1, <2>3
    <3>2. p <= f
      BY <1>1, <2>2, <3>1
    <3>3. ~(f <= p)
      BY <1>1, <2>1, <3>2
    <3>4. ~(f <= middle)
      BY <1>4, <2>1, <3>3
    <3> QED
      BY <2>1, <3>4
  <2>4. ASSUME NEW g \in G, g <= t PROVE g <= f
    BY <2>2, <2>3, <2>4
  <2>5. PageAt(G, t) = f
    BY <1>3, <2>1, <2>4, PageOnly
  <2> QED
    BY <2>5 DEF f
<1> QED
  BY <1>5, <1>7, <1>8, <1>9 DEF F

LEMMA PutOnTwoPages ==
  ASSUME NEW P \in Books, NEW part \in PartRecords, NEW parts, NEW middle, NEW s, NEW p,
         NewPage(P, part, s, p, parts), part.space = s,
         middle \in DOMAIN parts, \E y \in DOMAIN parts : y < middle
  PROVE  /\ Puts(P, With(Rebound(P, p, Restrict(parts, {t \in DOMAIN parts : t < middle})), middle,
                         Restrict(parts, {t \in DOMAIN parts : t >= middle})), part)
         /\ PageName(p, Restrict(parts, {t \in DOMAIN parts : t < middle})) = p
         /\ middle \notin DOMAIN P
<1> DEFINE left == Restrict(parts, {t \in DOMAIN parts : t < middle})
           right == Restrict(parts, {t \in DOMAIN parts : t >= middle})
           Q == With(Rebound(P, p, left), middle, right)
<1>1. /\ p \in DOMAIN P /\ p \in Nat /\ s \in Nat /\ s \in DOMAIN parts
      /\ parts \in PageParts /\ DOMAIN parts = DOMAIN P[p] \cup {s}
      /\ \A t \in DOMAIN parts : /\ t \in Nat /\ p <= t /\ PageAt(DOMAIN P, t) = p
                                 /\ parts[t].space = t
      /\ parts[s] = part
      /\ \A t \in DOMAIN parts : t # s => t \in DOMAIN P[p] /\ parts[t] = P[p][t]
      /\ p # 0 => p \in DOMAIN parts
      /\ PageAt(DOMAIN P, s) = p
  BY DEF NewPage
<1>2. /\ DOMAIN P \in SUBSET Nat /\ IsFiniteSet(DOMAIN P) /\ 0 \in DOMAIN P
      /\ \A f \in DOMAIN P : P[f] \in PageParts
      /\ \A f \in DOMAIN P : \A t \in DOMAIN P[f] :
           t \in Nat /\ P[f][t].space = t /\ PageAt(DOMAIN P, t) = f
      /\ \A f \in DOMAIN P : f # 0 => f \in DOMAIN P[f]
  BY BookIs
<1>3. middle \in Nat /\ p < middle
  <2>1. PICK y \in DOMAIN parts : y < middle
    OBVIOUS
  <2>2. middle \in Nat /\ y \in Nat /\ p <= y /\ p \in Nat
    BY <1>1
  <2> QED
    BY <2>1, <2>2
<1>4. PageAt(DOMAIN P, middle) = p
  BY <1>1
<1>5. /\ middle \notin DOMAIN P
      /\ \A t \in Nat : PageAt(DOMAIN P, t) = p /\ t < middle
                          => PageAt(DOMAIN P \cup {middle}, t) = p
      /\ \A t \in Nat : PageAt(DOMAIN P, t) = p /\ t >= middle
                          => PageAt(DOMAIN P \cup {middle}, t) = middle
      /\ \A t \in Nat : PageAt(DOMAIN P, t) # p
                          => PageAt(DOMAIN P \cup {middle}, t) = PageAt(DOMAIN P, t)
  BY <1>1, <1>3, <1>4, SplitPages
<1>6. /\ DOMAIN left = {t \in DOMAIN parts : t < middle}
      /\ DOMAIN right = {t \in DOMAIN parts : t >= middle}
      /\ \A t \in DOMAIN left : left[t] = parts[t]
      /\ \A t \in DOMAIN right : right[t] = parts[t]
  BY DEF Restrict
<1>7. left \in PageParts /\ right \in PageParts
  <2> DEFINE L == {t \in DOMAIN parts : t < middle}
             R == {t \in DOMAIN parts : t >= middle}
  <2>1. L \in SUBSET DOMAIN parts /\ R \in SUBSET DOMAIN parts
    OBVIOUS
  <2>2. parts \in UNION {[D -> PartRecords] : D \in SUBSET PartSpace}
    BY <1>1 DEF PageParts
  <2> HIDE DEF L, R
  <2>3. /\ Restrict(parts, L) \in UNION {[D -> PartRecords] : D \in SUBSET PartSpace}
        /\ Restrict(parts, R) \in UNION {[D -> PartRecords] : D \in SUBSET PartSpace}
    BY <2>1, <2>2, RestrictType
  <2> QED
    BY <2>3 DEF PageParts, L, R
<1>8. \A t \in DOMAIN parts : t \in DOMAIN left \/ t \in DOMAIN right
  <2>1. \A t \in DOMAIN parts : t \in Nat
    BY <1>1
  <2>2. \A t \in Nat : t < middle \/ t >= middle
    BY <1>3
  <2> HIDE DEF left, right
  <2> QED
    BY <1>6, <2>1, <2>2
<1>9. middle \in DOMAIN right
  <2>1. middle >= middle
    BY <1>3
  <2> HIDE DEF right
  <2> QED
    BY <1>6, <2>1
<1>10. p # 0 => p \in DOMAIN left
  BY <1>1, <1>3, <1>6
<1>11. PageName(p, left) = p
  <2>1. DOMAIN left \in SUBSET Nat /\ \A t \in DOMAIN left : p <= t
    BY <1>1, <1>6
  <2> HIDE DEF left
  <2> QED
    BY <1>1, <1>10, <2>1, PageNameIs
<1> HIDE DEF left, right
<1>12. /\ DOMAIN Q = DOMAIN P \cup {middle} /\ Q = [f \in DOMAIN Q |-> Q[f]]
       /\ Q[p] = left /\ Q[middle] = right
       /\ \A f \in DOMAIN P : f # p => Q[f] = P[f]
  BY <1>1, <1>3, <1>5 DEF Rebound, With, Restrict
<1> HIDE DEF Q
<1>13. ASSUME NEW f \in DOMAIN Q, NEW t \in DOMAIN Q[f]
       PROVE  /\ Q[f][t].space = t /\ PageAt(DOMAIN Q, t) = f
              /\ \/ t \in DOMAIN parts /\ Q[f][t] = parts[t]
                 \/ f \in DOMAIN P /\ f # p /\ t \in DOMAIN P[f] /\ Q[f][t] = P[f][t]
  <2>0. DOMAIN Q = DOMAIN P \cup {middle}
    BY <1>12
  <2>1. CASE f = p
    <3>1. t \in DOMAIN left /\ Q[f][t] = left[t]
      BY <1>12, <1>13, <2>1
    <3>2. t \in DOMAIN parts /\ t < middle /\ Q[f][t] = parts[t]
      BY <1>6, <3>1
    <3>3. t \in Nat /\ PageAt(DOMAIN P, t) = p /\ parts[t].space = t
      BY <1>1, <3>2
    <3>4. PageAt(DOMAIN P \cup {middle}, t) = p
      BY <1>5, <3>2, <3>3
    <3> QED
      BY <2>0, <2>1, <3>2, <3>3, <3>4
  <2>2. CASE f = middle
    <3>1. t \in DOMAIN right /\ Q[f][t] = right[t]
      BY <1>12, <1>13, <2>2
    <3>2. t \in DOMAIN parts /\ t >= middle /\ Q[f][t] = parts[t]
      BY <1>6, <3>1
    <3>3. t \in Nat /\ PageAt(DOMAIN P, t) = p /\ parts[t].space = t
      BY <1>1, <3>2
    <3>4. PageAt(DOMAIN P \cup {middle}, t) = middle
      BY <1>5, <3>2, <3>3
    <3> QED
      BY <2>0, <2>2, <3>2, <3>3, <3>4
  <2>3. CASE f # p /\ f # middle
    <3>1. f \in DOMAIN P /\ Q[f] = P[f] /\ t \in DOMAIN P[f]
      BY <1>12, <1>13, <2>3
    <3>2. t \in Nat /\ P[f][t].space = t /\ PageAt(DOMAIN P, t) = f
      BY <1>2, <3>1
    <3>3. PageAt(DOMAIN P \cup {middle}, t) = f
      BY <1>5, <2>3, <3>2
    <3> QED
      BY <2>0, <2>3, <3>1, <3>2, <3>3
  <2> QED
    BY <2>1, <2>2, <2>3
<1>14. Paged(Q)
  <2>1. \A f \in DOMAIN Q : f # 0 => f \in DOMAIN Q[f]
    BY <1>2, <1>9, <1>10, <1>12
  <2>2. IsFiniteSet(DOMAIN Q)
    BY <1>2, <1>12, FS_AddElement
  <2> QED
    BY <1>2, <1>12, <1>13, <2>1, <2>2 DEF Paged
<1>15. Q \in Books
  <2>1. \A f \in DOMAIN Q : Q[f] \in PageParts
    BY <1>2, <1>7, <1>12
  <2>2. DOMAIN Q \in SUBSET Nat
    BY <1>2, <1>3, <1>12
  <2> QED
    BY <1>12, <1>14, <2>1, <2>2, BookType
<1>16. \A t \in Nat : (\E f \in DOMAIN Q : t \in DOMAIN Q[f])
                        <=> (t = s \/ \E f \in DOMAIN P : t \in DOMAIN P[f])
  <2> SUFFICES ASSUME NEW t \in Nat
               PROVE  (\E f \in DOMAIN Q : t \in DOMAIN Q[f])
                         <=> (t = s \/ \E f \in DOMAIN P : t \in DOMAIN P[f])
    OBVIOUS
  <2>1. ASSUME NEW f \in DOMAIN Q, t \in DOMAIN Q[f]
        PROVE  t = s \/ \E g \in DOMAIN P : t \in DOMAIN P[g]
    BY <1>1, <1>13, <2>1
  <2>2. \A u \in DOMAIN parts : \E f \in DOMAIN Q : u \in DOMAIN Q[f]
    BY <1>1, <1>8, <1>12
  <2>3. t = s => \E f \in DOMAIN Q : t \in DOMAIN Q[f]
    BY <1>1, <2>2
  <2>4. ASSUME NEW f \in DOMAIN P, t \in DOMAIN P[f]
        PROVE  \E g \in DOMAIN Q : t \in DOMAIN Q[g]
    <3>1. CASE f = p
      BY <1>1, <2>2, <2>4, <3>1
    <3>2. CASE f # p
      BY <1>12, <2>4, <3>2
    <3> QED
      BY <3>1, <3>2
  <2> QED
    BY <2>1, <2>3, <2>4
<1>17. \A f \in DOMAIN Q : \A t \in DOMAIN Q[f] : t = s => Q[f][t] = part
  <2> SUFFICES ASSUME NEW f \in DOMAIN Q, s \in DOMAIN Q[f] PROVE Q[f][s] = part
    OBVIOUS
  <2>1. ~(f \in DOMAIN P /\ f # p /\ s \in DOMAIN P[f])
    BY <1>1, <1>2
  <2> QED
    BY <1>1, <1>13, <2>1
<1>18. \A f \in DOMAIN Q : \A t \in DOMAIN Q[f] : t # s =>
         \E g \in DOMAIN P : t \in DOMAIN P[g] /\ Q[f][t] = P[g][t]
  BY <1>1, <1>13
<1>19. Puts(P, Q, part)
  BY <1>15, <1>16, <1>17, <1>18 DEF Puts
<1> QED
  BY <1>5, <1>11, <1>19 DEF Q, left, right

\* What Upsert returns is the directory of such a book.
LEMMA UpsertIs ==
  ASSUME NEW P \in Books, NEW part \in PartRecords
  PROVE  \E Q \in Books : Puts(P, Q, part) /\ Upsert(DirOf(P), part) = DirOf(Q)
<1> DEFINE s == part.space
           p == PageAt(DOMAIN P, s)
           parts == With(P[p], s, part)
           d == DirOf(P)
           n == Cardinality(DOMAIN parts)
           middle == NameOrder(DOMAIN parts)[n \div 2 + 1]
           left == Restrict(parts, {t \in DOMAIN parts : t < middle})
           right == Restrict(parts, {t \in DOMAIN parts : t >= middle})
           others == Restrict(d.pages, DOMAIN d.pages \ {p})
<1>1. NewPage(P, part, s, p, parts)
  BY NewPageIs
<1>2. PageFor(d, s) = p /\ PartsFor(d, s) = P[p]
  <2>1. s \in Nat
    BY <1>1 DEF NewPage
  <2> QED
    BY <2>1, LookupIs
<1>3. Upsert(d, part) =
        IF n <= PageMax THEN WithRoot(With(others, PageName(p, parts), DirPage(parts)))
        ELSE WithRoot(With(With(others, PageName(p, left), DirPage(left)), middle, DirPage(right)))
  <2> HIDE DEF d
  <2> QED
    BY <1>2 DEF Upsert
<1>4. d.pages = [f \in DOMAIN P |-> DirPage(P[f])]
  BY DEF DirOf, WithRoot
<1>5. p \in DOMAIN P /\ part.space = s
  BY <1>1 DEF NewPage
<1>6. /\ p \in Nat /\ DOMAIN parts \in SUBSET Nat /\ IsFiniteSet(DOMAIN parts)
      /\ \A t \in DOMAIN parts : p <= t
      /\ p # 0 => p \in DOMAIN parts
  BY <1>1 DEF NewPage
<1>7. Puts(P, Rebound(P, p, parts), part)
  BY PutOnPage
<1> HIDE DEF s, p, parts, d
<1>8. CASE n <= PageMax
  <2> DEFINE Q == Rebound(P, p, parts)
  <2>1. PageName(p, parts) = p
    BY <1>6, PageNameIs
  <2>2. With(others, p, DirPage(parts)) = [f \in DOMAIN Q |-> DirPage(Q[f])]
    BY <1>4, <1>5 DEF Rebound, With, Restrict
  <2>3. Upsert(d, part) = DirOf(Q)
    BY <1>3, <1>8, <2>1, <2>2 DEF DirOf
  <2> QED
    BY <1>7, <2>3 DEF Puts, d
<1>9. CASE ~(n <= PageMax)
  <2> DEFINE Q == With(Rebound(P, p, left), middle, right)
  <2>1. n > 1
    <3>1. n \in Nat
      BY <1>6, FS_CardinalityType
    <3> HIDE DEF n
    <3> QED
      BY <1>9, <3>1, PartIndexAssumption
  <2>2. middle \in DOMAIN parts /\ \E y \in DOMAIN parts : y < middle
    BY <1>6, <2>1, MiddleIs
  <2> HIDE DEF middle
  <2>3. Puts(P, Q, part) /\ PageName(p, left) = p /\ middle \notin DOMAIN P
    BY <1>1, <1>5, <2>2, PutOnTwoPages
  <2> HIDE DEF left, right
  <2>4. With(With(others, p, DirPage(left)), middle, DirPage(right))
          = [f \in DOMAIN Q |-> DirPage(Q[f])]
    BY <1>4, <1>5, <2>3 DEF Rebound, With, Restrict
  <2>5. Upsert(d, part) = DirOf(Q)
    BY <1>3, <1>9, <2>3, <2>4 DEF DirOf, left, right, middle
  <2> QED
    BY <2>3, <2>5 DEF Puts, d
<1> QED
  BY <1>8, <1>9

\* A partition put into the directory is found there, and the others still are.
LEMMA Upserted ==
  ASSUME NEW d \in Dirs, NEW part \in PartRecords
  PROVE  /\ Upsert(d, part) \in Dirs
         /\ \A t \in PartSpace : HasPart(Upsert(d, part), t) <=> (t = part.space \/ HasPart(d, t))
         /\ \A t \in PartSpace :
              PartOrNew(Upsert(d, part), t) = IF t = part.space THEN part ELSE PartOrNew(d, t)
<1>1. PICK P \in Books : d = DirOf(P)
  BY DEF Dirs
<1>2. PICK Q \in Books : Puts(P, Q, part) /\ Upsert(d, part) = DirOf(Q)
  BY <1>1, UpsertIs
<1>3. PartSpace \subseteq Nat
  BY PartNames
<1>4. ASSUME NEW t \in PartSpace
      PROVE  /\ HasPart(d, t) <=> \E f \in DOMAIN P : t \in DOMAIN P[f]
             /\ \A f \in DOMAIN P : t \in DOMAIN P[f] => FindPart(d, t) = P[f][t]
             /\ HasPart(DirOf(Q), t) <=> \E f \in DOMAIN Q : t \in DOMAIN Q[f]
             /\ \A f \in DOMAIN Q : t \in DOMAIN Q[f] => FindPart(DirOf(Q), t) = Q[f][t]
  BY <1>1, <1>3, <1>4, FoundIs
<1>5. ASSUME NEW t \in PartSpace
      PROVE  HasPart(DirOf(Q), t) <=> (t = part.space \/ HasPart(d, t))
  <2>1. (\E f \in DOMAIN Q : t \in DOMAIN Q[f])
          <=> (t = part.space \/ \E f \in DOMAIN P : t \in DOMAIN P[f])
    BY <1>2, <1>3, <1>5 DEF Puts
  <2> QED
    BY <1>4, <1>5, <2>1
<1>6. ASSUME NEW t \in PartSpace
      PROVE  PartOrNew(DirOf(Q), t) = IF t = part.space THEN part ELSE PartOrNew(d, t)
  <2>1. CASE t = part.space
    <3>1. PICK f \in DOMAIN Q : t \in DOMAIN Q[f]
      BY <1>4, <1>5, <1>6, <2>1
    <3>2. Q[f][t] = part
      BY <1>2, <2>1, <3>1 DEF Puts
    <3> QED
      BY <1>4, <1>6, <2>1, <3>1, <3>2 DEF PartOrNew
  <2>2. CASE t # part.space /\ HasPart(d, t)
    <3>1. PICK f \in DOMAIN Q : t \in DOMAIN Q[f]
      BY <1>4, <1>5, <1>6, <2>2
    <3>2. \E g \in DOMAIN P : t \in DOMAIN P[g] /\ Q[f][t] = P[g][t]
      BY <1>2, <2>2, <3>1 DEF Puts
    <3>3. FindPart(DirOf(Q), t) = FindPart(d, t)
      BY <1>4, <1>6, <3>1, <3>2
    <3> QED
      BY <1>5, <1>6, <2>2, <3>3 DEF PartOrNew
  <2>3. CASE t # part.space /\ ~HasPart(d, t)
    BY <1>5, <1>6, <2>3 DEF PartOrNew
  <2> QED
    BY <2>1, <2>2, <2>3
<1> QED
  BY <1>2, <1>5, <1>6 DEF Dirs

\* What the directory holds is what it finds.
LEMMA PartsAre ==
  ASSUME NEW d \in Dirs
  PROVE  /\ \A t \in PartSpace : HasPart(d, t) =>
              /\ FindPart(d, t) \in PartRecords /\ FindPart(d, t).space = t
              /\ FindPart(d, t) \in PartsOf(d)
         /\ \A part \in PartsOf(d) :
              /\ part.space \in PartSpace /\ HasPart(d, part.space)
              /\ FindPart(d, part.space) = part
<1>1. PICK P \in Books : d = DirOf(P)
  BY DEF Dirs
<1>2. /\ DOMAIN d.pages = DOMAIN P
      /\ \A f \in DOMAIN P : d.pages[f].parts = P[f]
  BY <1>1 DEF DirOf, WithRoot, DirPage
<1>3. PartSpace \subseteq Nat
  BY PartNames
<1>4. \A f \in DOMAIN P : \A t \in DOMAIN P[f] :
        t \in PartSpace /\ P[f][t] \in PartRecords /\ P[f][t].space = t
  BY BookIs
<1>5. \A f \in DOMAIN P : \A t \in DOMAIN P[f] : P[f][t] \in PartsOf(d)
  BY <1>2 DEF PartsOf, Range
<1>6. \A part \in PartsOf(d) : \E f \in DOMAIN P : \E t \in DOMAIN P[f] : part = P[f][t]
  BY <1>2 DEF PartsOf, Range
<1>7. ASSUME NEW t \in PartSpace
      PROVE  /\ HasPart(d, t) <=> \E f \in DOMAIN P : t \in DOMAIN P[f]
             /\ \A f \in DOMAIN P : t \in DOMAIN P[f] => FindPart(d, t) = P[f][t]
  BY <1>1, <1>3, <1>7, FoundIs
<1>8. ASSUME NEW t \in PartSpace, HasPart(d, t)
      PROVE  /\ FindPart(d, t) \in PartRecords /\ FindPart(d, t).space = t
             /\ FindPart(d, t) \in PartsOf(d)
  <2>1. PICK f \in DOMAIN P : t \in DOMAIN P[f]
    BY <1>7, <1>8
  <2> QED
    BY <1>4, <1>5, <1>7, <1>8, <2>1
<1>9. ASSUME NEW part \in PartsOf(d)
      PROVE  /\ part.space \in PartSpace /\ HasPart(d, part.space)
             /\ FindPart(d, part.space) = part
  <2>1. PICK f \in DOMAIN P : \E t \in DOMAIN P[f] : part = P[f][t]
    BY <1>6, <1>9
  <2> QED
    BY <1>4, <1>7, <2>1
<1> QED
  BY <1>8, <1>9

LEMMA NewDirIs == NewDir \in Dirs /\ \A t \in PartSpace : ~HasPart(NewDir, t)
<1> DEFINE P == [f \in {0} |-> <<>>]
<1>1. <<>> \in PageParts /\ DOMAIN <<>> = {}
  <2>1. <<>> \in [{} -> PartRecords] /\ DOMAIN <<>> = {}
    OBVIOUS
  <2> QED
    BY <2>1 DEF PageParts
<1>2. P \in Books
  <2>1. /\ DOMAIN P = {0} /\ DOMAIN P \in SUBSET Nat /\ P = [f \in DOMAIN P |-> P[f]]
        /\ \A f \in DOMAIN P : P[f] = <<>>
    OBVIOUS
  <2>2. IsFiniteSet({0})
    BY FS_Singleton
  <2> HIDE DEF P
  <2>3. Paged(P)
    BY <1>1, <2>1, <2>2 DEF Paged
  <2> QED
    BY <1>1, <2>1, <2>3, BookType
<1>3. NewDir = DirOf(P)
  <2>1. With(<<>>, 0, DirPage(<<>>)) = [f \in DOMAIN P |-> DirPage(P[f])]
    BY DEF With
  <2> QED
    BY <2>1 DEF NewDir, DirOf
<1>4. \A f \in DOMAIN P : DOMAIN P[f] = {}
  BY <1>1
<1> HIDE DEF P
<1>5. \A t \in PartSpace : ~HasPart(DirOf(P), t)
  BY <1>2, <1>4, FoundIs, PartNames
<1> QED
  BY <1>2, <1>3, <1>5 DEF Dirs

-----------------------------------------------------------------------------
(* What the root of the directory counts *)

\* Sets that share nothing add up.
Together(sets) == UNION {sets[x] : x \in DOMAIN sets}
Sizes(sets) == [x \in DOMAIN sets |-> Cardinality(sets[x])]

LEMMA CountsJoined ==
  ASSUME NEW sets, IsFiniteSet(DOMAIN sets),
         \A x \in DOMAIN sets : IsFiniteSet(sets[x]),
         \A x, y \in DOMAIN sets : x # y => sets[x] \cap sets[y] = {}
  PROVE  /\ IsFiniteSet(Together(sets))
         /\ SumFunction(Sizes(sets)) = Cardinality(Together(sets))
<1> DEFINE f == Sizes(sets)
           U(s) == UNION {sets[x] : x \in s}
           Right(s) == IsFiniteSet(U(s)) /\ SumFunctionOnSet(f, s) = Cardinality(U(s))
           P == {n \in Nat : \A s \in SUBSET DOMAIN sets : Cardinality(s) = n => Right(s)}
<1>f. ASSUME NEW s \in SUBSET DOMAIN sets PROVE IsFiniteSet(s) /\ Cardinality(s) \in Nat
  BY FS_Subset, FS_CardinalityType
<1>0. DOMAIN f = DOMAIN sets /\ \A x \in DOMAIN sets : f[x] = Cardinality(sets[x]) /\ f[x] \in Nat
  BY FS_CardinalityType DEF Sizes
<1> HIDE DEF f
<1>1. 0 \in P
  <2>1. ASSUME NEW s \in SUBSET DOMAIN sets, Cardinality(s) = 0 PROVE Right(s)
    <3>1. s = {}
      BY <1>f, <2>1, FS_EmptySet
    <3>2. U(s) = {}
      BY <3>1
    <3> QED
      BY <3>1, <3>2, FS_EmptySet, SumEmpty
  <2> QED
    BY <2>1
<1>2. ASSUME NEW n \in Nat, n \in P PROVE n + 1 \in P
  <2>1. ASSUME NEW s \in SUBSET DOMAIN sets, Cardinality(s) = n + 1 PROVE Right(s)
    <3>1. PICK x \in s : TRUE
      BY <2>1, FS_EmptySet
    <3>2. SumFunctionOnSet(f, s) = f[x] + SumFunctionOnSet(f, s \ {x})
      <4>1. \A y \in s : f[y] \in Int
        BY <1>0
      <4> QED
        BY <1>f, <4>1, SumRemove
    <3>3. Cardinality(s \ {x}) = n
      <4>1. Cardinality(s) = Cardinality(s \ {x}) + 1 /\ Cardinality(s \ {x}) \in Nat
        BY <1>f, OneLess
      <4> QED
        BY <2>1, <4>1
    <3>4. Right(s \ {x})
      BY <1>2, <3>3
    <3>5. U(s) = U(s \ {x}) \cup sets[x] /\ U(s \ {x}) \cap sets[x] = {}
      OBVIOUS
    <3>6. IsFiniteSet(sets[x]) /\ f[x] = Cardinality(sets[x])
      BY <1>0
    <3> DEFINE A == U(s \ {x})
               B == sets[x]
    <3>7. IsFiniteSet(A) /\ IsFiniteSet(B) /\ A \cap B = {} /\ U(s) = A \cup B
          /\ SumFunctionOnSet(f, s) = Cardinality(B) + Cardinality(A)
      BY <3>2, <3>4, <3>5, <3>6
    <3> HIDE DEF A, B, U
    <3>8. /\ Cardinality(A \cup B) = Cardinality(A) + Cardinality(B)
          /\ Cardinality(A) \in Nat /\ Cardinality(B) \in Nat /\ IsFiniteSet(A \cup B)
      BY <3>7, CountApart, FS_Union
    <3>9. SumFunctionOnSet(f, s) = Cardinality(U(s)) /\ IsFiniteSet(U(s))
      BY <3>7, <3>8
    <3> QED
      BY <3>9
  <2> QED
    BY <2>1
<1> HIDE DEF P
<1>3. \A n \in Nat : n \in P
  BY <1>1, <1>2, Counting
<1>4. Right(DOMAIN sets)
  BY <1>3, <1>f DEF P
<1> QED
  BY <1>0, <1>4 DEF SumFunction, f, Together

\* The root of the directory knows how many partitions there are and what they lack.
LEMMA RootIs ==
  ASSUME NEW d \in Dirs
  PROVE  d.agg = [count |-> Cardinality(PartsOf(d)),
                  labelNs |-> \E part \in PartsOf(d) : part.labelNs,
                  stale |-> \E part \in PartsOf(d) : part.stale]
<1>1. PICK P \in Books : d = DirOf(P)
  BY DEF Dirs
<1> DEFINE pages == [f \in DOMAIN P |-> DirPage(P[f])]
           sets == [f \in DOMAIN P |-> DOMAIN P[f]]
           held == Together(sets)
<1>2. /\ DOMAIN pages = DOMAIN P /\ d.agg = MergeAgg(pages) /\ d.pages = pages
      /\ \A f \in DOMAIN P : /\ pages[f].parts = P[f]
                             /\ pages[f].agg.count = Cardinality(DOMAIN P[f])
                             /\ pages[f].agg.labelNs = \E t \in DOMAIN P[f] : P[f][t].labelNs
                             /\ pages[f].agg.stale = \E t \in DOMAIN P[f] : P[f][t].stale
  BY <1>1 DEF DirOf, WithRoot, DirPage, PartAgg
<1>3. /\ IsFiniteSet(DOMAIN P)
      /\ \A f \in DOMAIN P : DOMAIN P[f] \in SUBSET PartSpace
      /\ \A f \in DOMAIN P : \A t \in DOMAIN P[f] :
           P[f][t].space = t /\ PageAt(DOMAIN P, t) = f
  BY BookIs
<1>4. /\ DOMAIN sets = DOMAIN P /\ \A f \in DOMAIN P : sets[f] = DOMAIN P[f]
      /\ \A f \in DOMAIN sets : IsFiniteSet(sets[f])
      /\ \A f, g \in DOMAIN sets : f # g => sets[f] \cap sets[g] = {}
  BY <1>3, PartNames
<1> HIDE DEF pages, sets
<1>5. DOMAIN d.pages = DOMAIN P /\ \A f \in DOMAIN P : d.pages[f].parts = P[f]
  BY <1>2
<1>6. \A part \in PartsOf(d) : \E f \in DOMAIN P : \E t \in DOMAIN P[f] : part = P[f][t]
  BY <1>5 DEF PartsOf, Range
<1>7. \A f \in DOMAIN P : \A t \in DOMAIN P[f] : P[f][t] \in PartsOf(d)
  BY <1>5 DEF PartsOf, Range
<1>8. /\ IsFiniteSet(held)
      /\ SumFunction(Sizes(sets)) = Cardinality(held)
  BY <1>3, <1>4, CountsJoined
<1>9. [f \in DOMAIN pages |-> pages[f].agg.count] = Sizes(sets)
  BY <1>2, <1>4 DEF Sizes
<1>10. \A t \in held : t \in DOMAIN P[PageAt(DOMAIN P, t)] /\ PageAt(DOMAIN P, t) \in DOMAIN P
  <2>1. \A t \in held : \E f \in DOMAIN P : t \in DOMAIN P[f]
    BY <1>4 DEF Together
  <2> HIDE DEF held
  <2> QED
    BY <1>3, <2>1
<1>11. \A f \in DOMAIN P : \A t \in DOMAIN P[f] : t \in held
  BY <1>4 DEF Together
<1> DEFINE at == [t \in held |-> P[PageAt(DOMAIN P, t)][t]]
<1> HIDE DEF held
<1>12. at \in [held -> PartsOf(d)] /\ \A t \in held : at[t].space = t
  BY <1>3, <1>7, <1>10
<1>13. \A part \in PartsOf(d) : \E t \in held : at[t] = part
  BY <1>3, <1>6, <1>11
<1> HIDE DEF at
<1>14. Cardinality(PartsOf(d)) = Cardinality(held)
  <2>1. at \in Surjection(held, PartsOf(d)) /\ at \in Injection(held, PartsOf(d))
    BY <1>12, <1>13 DEF Surjection, Injection, IsInjective
  <2> QED
    BY <1>8, <2>1, FS_Surjection
<1>15. d.agg.count = Cardinality(PartsOf(d))
  BY <1>2, <1>8, <1>9, <1>14 DEF MergeAgg
<1>16. d.agg.labelNs = \E part \in PartsOf(d) : part.labelNs
  <2>0. d.agg.labelNs = \E f \in DOMAIN pages : pages[f].agg.labelNs
    BY <1>2 DEF MergeAgg
  <2>1. (\E f \in DOMAIN pages : pages[f].agg.labelNs)
          <=> \E f \in DOMAIN P : \E t \in DOMAIN P[f] : P[f][t].labelNs
    BY <1>2, Zenon
  <2>2. (\E f \in DOMAIN P : \E t \in DOMAIN P[f] : P[f][t].labelNs)
          <=> \E part \in PartsOf(d) : part.labelNs
    BY <1>6, <1>7
  <2> QED
    BY <2>0, <2>1, <2>2
<1>17. d.agg.stale = \E part \in PartsOf(d) : part.stale
  <2>0. d.agg.stale = \E f \in DOMAIN pages : pages[f].agg.stale
    BY <1>2 DEF MergeAgg
  <2>1. (\E f \in DOMAIN pages : pages[f].agg.stale)
          <=> \E f \in DOMAIN P : \E t \in DOMAIN P[f] : P[f][t].stale
    BY <1>2, Zenon
  <2>2. (\E f \in DOMAIN P : \E t \in DOMAIN P[f] : P[f][t].stale)
          <=> \E part \in PartsOf(d) : part.stale
    BY <1>6, <1>7
  <2> QED
    BY <2>0, <2>1, <2>2
<1>18. d.agg = [count |-> d.agg.count, labelNs |-> d.agg.labelNs, stale |-> d.agg.stale]
  BY <1>2 DEF MergeAgg
<1> QED
  BY <1>15, <1>16, <1>17, <1>18

-----------------------------------------------------------------------------
(* A batch applied to the directory *)

\* A directory whose partitions are what builds would give.
SafeDirs == {d \in Dirs : \A s \in PartSpace : \E rows \in PartRows : Built(PartOrNew(d, s), rows)}

LEMMA NothingKept ==
  \E rows \in PartRows : RowsOf(rows) = {}
<1> DEFINE rows == [n \in PartName |-> NoInput]
<1>1. rows \in PartRows /\ RowsOf(rows) = {}
  BY DEF PartRows, PartInput, RowsOf
<1> QED
  BY <1>1

LEMMA PartOrNewIs ==
  ASSUME NEW d \in Dirs, NEW s \in PartSpace
  PROVE  PartOrNew(d, s) \in PartRecords /\ PartOrNew(d, s).space = s
<1>1. CASE HasPart(d, s)
  BY <1>1, PartsAre DEF PartOrNew
<1>2. CASE ~HasPart(d, s)
  BY <1>2, NothingKept, NewPartIs DEF PartOrNew
<1> QED
  BY <1>1, <1>2

\* A batch of a partition, and what it leaves when the slots do not suffice.
RowsWith(old, rows, ops) == IF AllocateSlots(old, ops).full THEN rows ELSE Over(ops, rows)

LEMMA BatchOfPart ==
  ASSUME NEW old \in PartRecords, NEW rows \in PartRows, Built(old, rows), NEW ops \in PartOps
  PROVE  /\ ApplyPartOps(old, ops) \in PartRecords
         /\ ApplyPartOps(old, ops).space = old.space
         /\ RowsWith(old, rows, ops) \in PartRows
         /\ Built(ApplyPartOps(old, ops), RowsWith(old, rows, ops))
<1>1. CASE AllocateSlots(old, ops).full
  BY <1>1, NothingSaid DEF RowsWith
<1>2. CASE ~AllocateSlots(old, ops).full
  <2>1. Updating(old, rows, ops)
    BY <1>2 DEF Updating
  <2>2. Over(ops, rows) \in PartRows
    BY <2>1, RowsAfter
  <2> QED
    BY <1>2, <2>1, <2>2, PartUpdated DEF RowsWith
<1> QED
  BY <1>1, <1>2

\* dedupePartOps keeps events of the partition.
LEMMA DedupedIs ==
  ASSUME NEW events \in BoundedSeq(PartEvents, BatchMax), NEW s
  PROVE  /\ Deduped(events, s) \in PartOps
         /\ SpacesOf(events) \in SUBSET PartSpace /\ SpacesOf(events) \in SUBSET Nat
         /\ IsFiniteSet(SpacesOf(events))
<1> DEFINE of(n) == {i \in DOMAIN events : events[i].space = s /\ events[i].name = n}
<1>1. PICK m \in 0 .. BatchMax : events \in [1 .. m -> PartEvents]
  BY DEF BoundedSeq, SeqOf
<1>2. m \in Nat
  BY <1>1, PartIndexAssumption
<1>3. ASSUME NEW n \in PartName, of(n) # {} PROVE events[Max(of(n))].input \in PartInput
  <2> DEFINE I == of(n)
  <2>1. I \in SUBSET (1 .. m) /\ I # {}
    BY <1>1, <1>3
  <2> HIDE DEF I
  <2>2. Max(I) \in I
    BY <1>2, <2>1, MaxOf
  <2>3. events[Max(I)] \in PartEvents
    BY <1>1, <2>1, <2>2
  <2> QED
    BY <2>3 DEF PartInput, RowInput, I
<1>4. Deduped(events, s) \in [{n \in PartName : of(n) # {}} -> PartInput]
  BY <1>3 DEF Deduped
<1>5. {n \in PartName : of(n) # {}} \in SUBSET PartName
  OBVIOUS
<1>6. Deduped(events, s) \in PartOps
  BY <1>4, <1>5 DEF PartOps
<1>7. SpacesOf(events) \in SUBSET PartSpace
  BY <1>1 DEF SpacesOf, ToSet, PartSpace
<1> QED
  BY <1>6, <1>7, PartNames

\* The step of one partition of a batch.
BatchStep(d, events, s) == Upsert(d, ApplyPartOps(PartOrNew(d, s), Deduped(events, s)))

LEMMA BatchStepIs ==
  ASSUME NEW d \in SafeDirs, NEW events \in BoundedSeq(PartEvents, BatchMax), NEW s \in PartSpace
  PROVE  /\ BatchStep(d, events, s) \in SafeDirs
         /\ \A t \in PartSpace :
              PartOrNew(BatchStep(d, events, s), t)
                = IF t = s THEN ApplyPartOps(PartOrNew(d, s), Deduped(events, s)) ELSE PartOrNew(d, t)
<1> DEFINE old == PartOrNew(d, s)
           ops == Deduped(events, s)
           part == ApplyPartOps(old, ops)
           new == BatchStep(d, events, s)
<1>1. d \in Dirs /\ \A t \in PartSpace : \E rows \in PartRows : Built(PartOrNew(d, t), rows)
  BY DEF SafeDirs
<1>2. old \in PartRecords /\ old.space = s /\ ops \in PartOps
  BY <1>1, PartOrNewIs, DedupedIs
<1>3. PICK rows \in PartRows : Built(old, rows)
  BY <1>1
<1> HIDE DEF old, ops
<1>4. /\ part \in PartRecords /\ part.space = s
      /\ RowsWith(old, rows, ops) \in PartRows /\ Built(part, RowsWith(old, rows, ops))
  BY <1>2, <1>3, BatchOfPart
<1>5. new = Upsert(d, part)
  BY DEF BatchStep, old, ops
<1> HIDE DEF part, new
<1>6. /\ new \in Dirs
      /\ \A t \in PartSpace : PartOrNew(new, t) = IF t = s THEN part ELSE PartOrNew(d, t)
  BY <1>1, <1>4, <1>5, Upserted
<1>7. \A t \in PartSpace : \E r \in PartRows : Built(PartOrNew(new, t), r)
  <2> SUFFICES ASSUME NEW t \in PartSpace PROVE \E r \in PartRows : Built(PartOrNew(new, t), r)
    OBVIOUS
  <2>1. CASE t = s
    BY <1>4, <1>6, <2>1
  <2>2. CASE t # s
    BY <1>1, <1>6, <2>2
  <2> QED
    BY <2>1, <2>2
<1> QED
  BY <1>6, <1>7 DEF SafeDirs, new, part, old, ops

\* The partitions of a batch, one after the other.
LEMMA ApplySteps ==
  ASSUME NEW d \in SafeDirs, NEW events \in BoundedSeq(PartEvents, BatchMax)
  PROVE  \E acc \in [0 .. Len(NameOrder(SpacesOf(events))) -> SafeDirs] :
           /\ acc[0] = d
           /\ \A i \in 1 .. Len(NameOrder(SpacesOf(events))) :
                  acc[i] = BatchStep(acc[i - 1], events, NameOrder(SpacesOf(events))[i])
           /\ ApplyOps(d, events) = acc[Len(NameOrder(SpacesOf(events)))]
<1> DEFINE Acc == SafeDirs
           base == d
           step == [p \in Acc \X SpacesOf(events) |-> BatchStep(p[1], events, p[2])]
           IsFold(g) == g = [s \in SUBSET DOMAIN NameOrder(SpacesOf(events)) |->
                               IF s = {} THEN base
                               ELSE BatchStep(g[s \ {Max(s)}], events,
                                              NameOrder(SpacesOf(events))[Max(s)])]
           fold == CHOOSE g : IsFold(g)
<1>1. ApplyOps(d, events) = fold[DOMAIN NameOrder(SpacesOf(events))]
  BY DEF ApplyOps, BatchStep, FoldLeft, MapThenFoldSet
<1>2. \A r \in Acc, ev \in SpacesOf(events) : BatchStep(r, events, ev) \in Acc
  BY BatchStepIs, DedupedIs
<1>3. Folding(Acc, SpacesOf(events), step, base, NameOrder(SpacesOf(events)))
  BY <1>2, NamesInOrder, DedupedIs DEF Folding
<1> HIDE DEF Acc, step, fold, IsFold, base
<1>4. PICK iter : FoldOf(Acc, step, base, NameOrder(SpacesOf(events)), iter)
  BY <1>3, FoldExists
<1>5. IsFold(iter)
  <2>1. ASSUME NEW s \in SUBSET DOMAIN NameOrder(SpacesOf(events)), s # {}
        PROVE  iter[s] = BatchStep(iter[s \ {Max(s)}], events, NameOrder(SpacesOf(events))[Max(s)])
    <3>1. NameOrder(SpacesOf(events))[Max(s)] \in SpacesOf(events) /\ iter[s \ {Max(s)}] \in Acc
      BY <1>3, <1>4, <2>1, TurnOf DEF FoldOf, Folding
    <3> QED
      BY <1>4, <2>1, <3>1 DEF FoldOf, FoldTurn, step
  <2>2. iter[{}] = base
    BY <1>4 DEF FoldOf, FoldTurn
  <2> QED
    BY <1>4, <2>1, <2>2 DEF IsFold, FoldOf
<1>6. IsFold(fold)
  BY <1>5 DEF fold
<1>7. fold[{}] = base
  BY <1>6 DEF IsFold
<1>8. ASSUME NEW s \in SUBSET DOMAIN NameOrder(SpacesOf(events)), s # {}, fold[s \ {Max(s)}] \in Acc
      PROVE  fold[s] = step[<<fold[s \ {Max(s)}], NameOrder(SpacesOf(events))[Max(s)]>>]
  <2>1. NameOrder(SpacesOf(events))[Max(s)] \in SpacesOf(events)
    BY <1>3, <1>8, TurnOf DEF Folding
  <2>2. fold[s] = BatchStep(fold[s \ {Max(s)}], events, NameOrder(SpacesOf(events))[Max(s)])
    BY <1>6, <1>8 DEF IsFold
  <2> QED
    BY <1>8, <2>1, <2>2 DEF step
<1>9. StepwiseFold(Acc, step, base, NameOrder(SpacesOf(events)), fold)
  BY <1>7, <1>8 DEF StepwiseFold
<1>10. PICK acc : StepsOf(Acc, step, base, NameOrder(SpacesOf(events)), fold, acc)
  BY <1>3, <1>9, FoldSteps
<1>11. \A i \in 1 .. Len(NameOrder(SpacesOf(events))) :
       acc[i] = BatchStep(acc[i - 1], events, NameOrder(SpacesOf(events))[i])
  BY <1>3, <1>10, Indices DEF StepsOf, step, Folding
<1>12. /\ acc \in [0 .. Len(NameOrder(SpacesOf(events))) -> Acc]
       /\ acc[0] = base
       /\ acc[Len(NameOrder(SpacesOf(events)))] = fold[DOMAIN NameOrder(SpacesOf(events))]
  BY <1>10 DEF StepsOf
<1>13. ApplyOps(d, events) = acc[Len(NameOrder(SpacesOf(events)))]
  BY <1>1, <1>12
<1> QED
  BY <1>11, <1>12, <1>13 DEF Acc, base

LEMMA AppliedIs ==
  ASSUME NEW d \in SafeDirs, NEW events \in BoundedSeq(PartEvents, BatchMax)
  PROVE  /\ ApplyOps(d, events) \in SafeDirs
         /\ \A t \in PartSpace :
              PartOrNew(ApplyOps(d, events), t)
                = IF t \in SpacesOf(events)
                  THEN ApplyPartOps(PartOrNew(d, t), Deduped(events, t)) ELSE PartOrNew(d, t)
<1> DEFINE line == NameOrder(SpacesOf(events))
           len == Len(line)
           After(t) == ApplyPartOps(PartOrNew(d, t), Deduped(events, t))
<1>1. PICK acc \in [0 .. len -> SafeDirs] :
        /\ acc[0] = d
        /\ \A i \in 1 .. len : acc[i] = BatchStep(acc[i - 1], events, line[i])
        /\ ApplyOps(d, events) = acc[len]
  BY ApplySteps
<1>2. /\ len \in Nat
      /\ \A i, j \in 1 .. len : i # j => line[i] # line[j]
      /\ \A i \in 1 .. len : line[i] \in SpacesOf(events)
      /\ \A x \in SpacesOf(events) : \E i \in 1 .. len : line[i] = x
  BY NamesInOrder, DedupedIs
<1>3. SpacesOf(events) \in SUBSET PartSpace
  BY DedupedIs
<1> HIDE DEF line, len, After
<1> DEFINE Done(i) == {line[j] : j \in 1 .. i}
           Right(i) == \A t \in PartSpace :
                         PartOrNew(acc[i], t) = IF t \in Done(i) THEN After(t) ELSE PartOrNew(d, t)
           P == {i \in Nat : i <= len => Right(i)}
<1>4. 0 \in P
  <2>1. Done(0) = {}
    OBVIOUS
  <2> HIDE DEF Done
  <2>2. Right(0)
    BY <1>1, <2>1
  <2> QED
    BY <2>2
<1>5. ASSUME NEW i \in Nat, i \in P PROVE i + 1 \in P
  <2>1. SUFFICES ASSUME i + 1 <= len PROVE Right(i + 1)
    OBVIOUS
  <2> DEFINE s == line[i + 1]
  <2>2. i \in 0 .. len /\ i + 1 \in 1 .. len /\ (i + 1) - 1 = i /\ i <= len
    BY <1>2, <2>1
  <2>3. acc[i] \in SafeDirs /\ acc[i + 1] = BatchStep(acc[i], events, s)
    BY <1>1, <2>2
  <2>4. s \in PartSpace /\ s \notin Done(i)
    <3>1. \A j \in 1 .. i : j \in 1 .. len /\ j # i + 1
      BY <1>2, <2>2
    <3>2. \A j \in 1 .. i : line[j] # line[i + 1]
      BY <1>2, <2>2, <3>1
    <3>3. line[i + 1] \in PartSpace
      BY <1>2, <1>3, <2>2
    <3> QED
      BY <3>2, <3>3
  <2>5. Done(i + 1) = Done(i) \cup {s}
    <3>1. \A j : j \in 1 .. i + 1 <=> j \in 1 .. i \/ j = i + 1
      OBVIOUS
    <3> QED
      BY <3>1
  <2>6. Right(i)
    BY <1>5, <2>2
  <2> HIDE DEF s, Done
  <2>7. \A t \in PartSpace :
          PartOrNew(acc[i + 1], t)
            = IF t = s THEN ApplyPartOps(PartOrNew(acc[i], s), Deduped(events, s)) ELSE PartOrNew(acc[i], t)
    BY <2>3, <2>4, BatchStepIs
  <2>8. PartOrNew(acc[i], s) = PartOrNew(d, s)
    BY <2>4, <2>6
  <2> QED
    BY <2>4, <2>5, <2>6, <2>7, <2>8 DEF After
<1> HIDE DEF P
<1>6. len \in P
  BY <1>2, <1>4, <1>5, Counting
<1>7. len \in 0 .. len /\ len <= len /\ Done(len) = SpacesOf(events)
  BY <1>2
<1>8. \A t \in PartSpace :
        PartOrNew(acc[len], t) = IF t \in SpacesOf(events) THEN After(t) ELSE PartOrNew(d, t)
  <2> HIDE DEF Done
  <2> QED
    BY <1>6, <1>7 DEF P
<1>9. acc[len] \in SafeDirs
  BY <1>1, <1>7
<1> QED
  BY <1>1, <1>8, <1>9 DEF After

-----------------------------------------------------------------------------
(* The incremental index, after any batches *)

\* The inductive invariant: the directory is well formed, and what it has for a
\* namespace, a new partition if it has none, is what a build of the rows that
\* the batches left would give.
IndexInv ==
  /\ listed \in [PartSpace -> PartRows]
  /\ dir \in Dirs
  /\ \A s \in PartSpace : Built(PartOrNew(dir, s), listed[s])

LEMMA IndexInvInit == PartIndexInit => IndexInv
<1> SUFFICES ASSUME PartIndexInit PROVE IndexInv
  OBVIOUS
<1>1. listed = [s \in PartSpace |-> [n \in PartName |-> NoInput]] /\ dir = NewDir
  BY DEF PartIndexInit
<1>2. [n \in PartName |-> NoInput] \in PartRows /\ RowsOf([n \in PartName |-> NoInput]) = {}
  BY DEF PartRows, PartInput, RowsOf
<1>3. listed \in [PartSpace -> PartRows] /\ \A s \in PartSpace : RowsOf(listed[s]) = {}
  BY <1>1, <1>2
<1>4. dir \in Dirs /\ \A s \in PartSpace : PartOrNew(dir, s) = NewPart(s)
  BY <1>1, NewDirIs DEF PartOrNew
<1>5. \A s \in PartSpace : Built(PartOrNew(dir, s), listed[s])
  <2> SUFFICES ASSUME NEW s \in PartSpace PROVE Built(PartOrNew(dir, s), listed[s])
    OBVIOUS
  <2>1. listed[s] \in PartRows /\ RowsOf(listed[s]) = {}
    BY <1>3
  <2> QED
    BY <1>4, <2>1, NewPartIs
<1> QED
  BY <1>3, <1>4, <1>5 DEF IndexInv

LEMMA BatchKeepsIndex == IndexInv /\ ApplyRowBatch => IndexInv'
<1> SUFFICES ASSUME IndexInv, ApplyRowBatch PROVE IndexInv'
  OBVIOUS
<1>1. PICK events \in BoundedSeq(PartEvents, BatchMax) :
        /\ dir' = ApplyOps(dir, events)
        /\ listed' = [s \in PartSpace |-> IF s \in SpacesOf(events)
                                            THEN Says(s, events) ELSE listed[s]]
  BY DEF ApplyRowBatch
<1>2. /\ listed \in [PartSpace -> PartRows] /\ dir \in Dirs
      /\ \A s \in PartSpace : Built(PartOrNew(dir, s), listed[s])
  BY DEF IndexInv
<1>3. dir \in SafeDirs
  BY <1>2 DEF SafeDirs
<1>4. /\ dir' \in Dirs
      /\ \A t \in PartSpace :
           PartOrNew(dir', t) = IF t \in SpacesOf(events)
                                THEN ApplyPartOps(PartOrNew(dir, t), Deduped(events, t))
                                ELSE PartOrNew(dir, t)
  BY <1>1, <1>3, AppliedIs DEF SafeDirs
<1>5. ASSUME NEW s \in PartSpace
      PROVE  listed'[s] \in PartRows /\ Built(PartOrNew(dir', s), listed'[s])
  <2>1. CASE s \in SpacesOf(events)
    <3> DEFINE old == PartOrNew(dir, s)
               ops == Deduped(events, s)
    <3>1. old \in PartRecords /\ ops \in PartOps /\ Built(old, listed[s]) /\ listed[s] \in PartRows
      BY <1>2, PartOrNewIs, DedupedIs
    <3>2. listed'[s] = RowsWith(old, listed[s], ops)
      BY <1>1, <2>1 DEF Says, RowsWith
    <3>3. PartOrNew(dir', s) = ApplyPartOps(old, ops)
      BY <1>4, <2>1
    <3> HIDE DEF old, ops
    <3> QED
      BY <3>1, <3>2, <3>3, BatchOfPart
  <2>2. CASE s \notin SpacesOf(events)
    BY <1>1, <1>2, <1>4, <2>2
  <2> QED
    BY <2>1, <2>2
<1>6. listed' \in [PartSpace -> PartRows]
  BY <1>1, <1>5
<1> QED
  BY <1>4, <1>5, <1>6 DEF IndexInv

\* A partition with another mark is what a build would give.
LEMMA MarkedPart ==
  ASSUME NEW old \in PartRecords, NEW rows, Built(old, rows)
  PROVE  /\ [old EXCEPT !.stale = TRUE] \in PartRecords
         /\ [old EXCEPT !.stale = TRUE].space = old.space
         /\ Built([old EXCEPT !.stale = TRUE], rows)
<1> DEFINE new == [old EXCEPT !.stale = TRUE]
<1>1. new \in PartRecords
  BY DEF PartRecords
<1>2. /\ new.space = old.space /\ new.slotOf = old.slotOf /\ new.trie = old.trie
      /\ new.free = old.free /\ new.high = old.high /\ new.posts = old.posts
      /\ new.fold = old.fold /\ new.cutRows = old.cutRows /\ new.labelNs = old.labelNs
  BY DEF PartRecords
<1> HIDE DEF new
<1>3. RowsAreRebuilt(new, rows) /\ PostsAreRebuilt(new, rows)
  BY <1>2 DEF Built, RowsAreRebuilt, PostsAreRebuilt
<1>4. CountsAreRebuilt(new, rows)
  BY <1>2 DEF Built, CountsAreRebuilt
<1>5. SlotsAreOnce(new)
  BY <1>2 DEF Built, SlotsAreOnce
<1> QED
  BY <1>1, <1>2, <1>3, <1>4, <1>5 DEF Built, new

LEMMA MarkKeepsIndex == IndexInv /\ MarkPartStale => IndexInv'
<1> SUFFICES ASSUME IndexInv, MarkPartStale PROVE IndexInv'
  OBVIOUS
<1>1. PICK s \in PartSpace : dir' = Upsert(dir, [PartOrNew(dir, s) EXCEPT !.stale = TRUE])
  BY DEF MarkPartStale
<1>2. listed' = listed
  BY DEF MarkPartStale
<1>3. /\ listed \in [PartSpace -> PartRows] /\ dir \in Dirs
      /\ \A t \in PartSpace : Built(PartOrNew(dir, t), listed[t])
  BY DEF IndexInv
<1> DEFINE old == PartOrNew(dir, s)
           new == [old EXCEPT !.stale = TRUE]
<1>4. old \in PartRecords /\ old.space = s /\ Built(old, listed[s])
  BY <1>3, PartOrNewIs
<1>5. dir' = Upsert(dir, new)
  BY <1>1
<1> HIDE DEF old
<1>6. new \in PartRecords /\ new.space = s /\ Built(new, listed[s])
  BY <1>4, MarkedPart
<1> HIDE DEF new
<1>7. /\ dir' \in Dirs
      /\ \A t \in PartSpace : PartOrNew(dir', t) = IF t = s THEN new ELSE PartOrNew(dir, t)
  BY <1>3, <1>5, <1>6, Upserted
<1>8. \A t \in PartSpace : Built(PartOrNew(dir', t), listed[t])
  BY <1>3, <1>6, <1>7
<1> QED
  BY <1>2, <1>3, <1>7, <1>8 DEF IndexInv

LEMMA IndexInvIs == IndexInv => IndexIsRebuild
<1> SUFFICES ASSUME IndexInv PROVE IndexIsRebuild
  OBVIOUS
<1>1. /\ listed \in [PartSpace -> PartRows] /\ dir \in Dirs
      /\ \A s \in PartSpace : Built(PartOrNew(dir, s), listed[s])
  BY DEF IndexInv
<1>2. ASSUME NEW part \in PartsOf(dir)
      PROVE  /\ RowsAreRebuilt(part, listed[part.space])
             /\ PostsAreRebuilt(part, listed[part.space])
             /\ CountsAreRebuilt(part, listed[part.space])
             /\ SlotsAreOnce(part)
             /\ HasPart(dir, part.space) /\ FindPart(dir, part.space) = part
  <2>1. part.space \in PartSpace /\ HasPart(dir, part.space) /\ FindPart(dir, part.space) = part
    BY <1>1, <1>2, PartsAre
  <2>2. Built(PartOrNew(dir, part.space), listed[part.space])
    BY <1>1, <2>1
  <2>3. PartOrNew(dir, part.space) = part
    BY <2>1 DEF PartOrNew
  <2> QED
    BY <2>1, <2>2, <2>3 DEF Built
<1>3. ASSUME NEW s \in PartSpace, RowsOf(listed[s]) # {} PROVE HasPart(dir, s)
  <2>1. SUFFICES ASSUME ~HasPart(dir, s) PROVE FALSE
    OBVIOUS
  <2>2. Built(NewPart(s), listed[s])
    BY <1>1, <2>1 DEF PartOrNew
  <2>3. DOMAIN NewPart(s).slotOf = RowsOf(listed[s])
    BY <2>2 DEF Built, RowsAreRebuilt
  <2>4. DOMAIN NewPart(s).slotOf = {}
    BY DEF NewPart
  <2> QED
    BY <1>3, <2>3, <2>4
<1>4. dir.agg = [count |-> Cardinality(PartsOf(dir)),
                 labelNs |-> \E part \in PartsOf(dir) : part.labelNs,
                 stale |-> \E part \in PartsOf(dir) : part.stale]
  BY <1>1, RootIs
<1> QED
  BY <1>2, <1>3, <1>4 DEF IndexIsRebuild

\* applyOps and applyPartOps: whatever batches came, in whatever order, what a
\* partition asks of its trees is what a build of its rows would ask.  It holds
\* that, at slots of its own, as long as no batch of several operations reached a
\* tree that has had several leaves (postApply and rowApply may lose a key of
\* one); of what such a tree holds nothing is claimed.  The directory finds every
\* partition and knows at its root what they lack, with no such condition.
THEOREM IndexIsRebuildHolds == PartIndexSpec => []IndexIsRebuild
<1>1. PartIndexInit => IndexInv
  BY IndexInvInit
<1>2. IndexInv /\ [PartIndexNext]_partIndexVars => IndexInv'
  <2>1. IndexInv /\ UNCHANGED partIndexVars => IndexInv'
    BY DEF IndexInv, partIndexVars
  <2> QED
    BY <2>1, BatchKeepsIndex, MarkKeepsIndex DEF PartIndexNext
<1>3. IndexInv => IndexIsRebuild
  BY IndexInvIs
<1> QED
  BY <1>1, <1>2, <1>3, PTL DEF PartIndexSpec
=============================================================================
