---------------------------- MODULE SearchDelta ----------------------------
(***************************************************************************)
(* The incremental search index of one resource                            *)
(* (internal/resourcecatalog/searchdelta.go and the publishing half of     *)
(* catalog.go).  Four actors share it:                                     *)
(*   - the informer, whose callbacks only queue the key that changed;      *)
(*   - the list loop, which lists the informer's store, publishes the list *)
(*     and, the first time or when it is asked to, a whole new index;      *)
(*   - the delta loop, which reads the queued keys again from the store,   *)
(*     publishes the next index with a compare-and-swap, and rebuilds what *)
(*     was dropped (a recovery) from a published list;                     *)
(*   - discovery, which stops and restarts the informer.                   *)
(* A change that cannot be queued is dropped and its namespace marked      *)
(* stale, with the number of the event as its mark.                        *)
(*                                                                         *)
(* A budget under pressure may refuse at any time: other resources and     *)
(* slow readers use it too.  Cooldowns and back-offs are abstracted: a     *)
(* recovery may start at any time.                                         *)
(***************************************************************************)
EXTENDS Naturals, FiniteSets, SequencesExt

CONSTANTS
    Space,         \* the namespaces of the resource
    ObjectName,    \* the names of its objects
    Shape,         \* what the index tells apart of an object
    Absent,        \* no object, no index, no mark
    MaxQueued,     \* maxPendingPerResource
    MaxHeld,       \* maxHoldQueue
    MaxStale,      \* maxStaleTracked
    QuietLimit,    \* a recovery goes on while no more keys are queued
    Pressures,     \* sets of budgets that may refuse
    MaxCalmEvents, MaxTightEvents,  \* bounds: the events of a run, without and
                                    \* with a budget under pressure
    MaxLife,       \* bound: the starts and stops of the informer
    MaxRecoveries  \* bound: the recoveries of a run

Budgets == {"structure", "queue", "batch", "publish", "pin", "chunk", "held",
            "slots", "bootstrap"}

ASSUME DeltaAssumption ==
    /\ Absent \notin Shape /\ Absent \notin Nat
    /\ {MaxQueued, MaxHeld, MaxStale} \subseteq Nat \ {0}
    /\ {QuietLimit, MaxLife, MaxRecoveries, MaxCalmEvents, MaxTightEvents} \subseteq Nat
    /\ Pressures \subseteq SUBSET Budgets

VARIABLES
    store,        \* store[k]: the object in the informer's store
    informer,     \* "none", "syncing", "synced"; "closed" for good
    life,         \* the identity of the informer and of its stops
    notices,      \* the keys the informer still has to tell the callback
    hearing,      \* the callback under way
    eventSeq,     \* the number of the last event
    dirty,        \* the list has to be built again
    bootstrapped, \* the index has been built from a list
    builder,      \* the list loop
    snap,         \* what is published
    queue,        \* the queue of the resource and its stale marks
    ticket,       \* the recovery under way
    worker,       \* the delta loop
    ledger,       \* how many events the budget counts as queued and in flight
    tight,        \* the budgets under pressure, for good
    recoveries,   \* recoveries started so far
    forced,       \* history: a rebuild was asked for since the list was read
    forgotten       \* history: objects forgotten for a reason known

catalogVars == <<snap, builder, dirty, bootstrapped, forced>>
informerVars == <<store, informer, life, notices, hearing, eventSeq>>
deltaVars == <<informerVars, catalogVars, queue, ticket, worker, ledger,
               recoveries, tight, forgotten>>

\* deltaEvent.key: an object is known by its namespace and its name.
ObjectKey == Space \X ObjectName
SpaceOf(k) == k[1]

MaxEvents == IF tight = {} THEN MaxCalmEvents ELSE MaxTightEvents

EventAt(k, s, l) == [key |-> k, seq |-> s, life |-> l]
NoMarks == [n \in Space |-> Absent]
NoQueue == [there |-> FALSE, events |-> <<>>, hold |-> <<>>, stale |-> NoMarks,
            whole |-> FALSE, marker |-> 0, epoch |-> 0]
NewQueue == [NoQueue EXCEPT !.there = TRUE]
NoSnap == [there |-> FALSE, rows |-> Absent, covers |-> 0, index |-> Absent,
           version |-> 0, parts |-> [n \in Space |-> 0]]
Asleep == [at |-> "idle"]
NoTicket == [at |-> "none"]
Whole == "whole"

DeltaInit ==
    /\ store = [k \in ObjectKey |-> Absent]
    /\ informer = "none" /\ life = 0
    /\ notices = <<>> /\ hearing = Asleep
    /\ eventSeq = 0
    /\ dirty = FALSE /\ bootstrapped = FALSE
    /\ builder = Asleep
    /\ snap = NoSnap
    /\ queue = NoQueue
    /\ ticket = NoTicket
    /\ worker = Asleep
    /\ ledger = [queued |-> 0, inflight |-> 0]
    /\ tight \in Pressures
    /\ recoveries = 0
    /\ forced = FALSE /\ forgotten = {}

Granted(b) == IF b \in tight THEN BOOLEAN ELSE {TRUE}
Later(a, b) == IF b > a THEN b ELSE a
KeysOf(evs) == {evs[i].key : i \in DOMAIN evs}
At(evs, k) == CHOOSE i \in DOMAIN evs : evs[i].key = k

\* The queue may have gone, or never have been admitted: the index will be
\* built again from the next list.
ForceRebuild ==
    /\ bootstrapped' = FALSE
    /\ dirty' = TRUE
    /\ forced' = TRUE

-----------------------------------------------------------------------------
(* The stale marks of the queue *)

StaleSpaces(q) == {n \in Space : q.stale[n] # Absent}

\* n joins the stale set; a set that is full turns into the mark of the whole
\* resource.
Staked(q, n) ==
    IF q.whole \/ n \in StaleSpaces(q) THEN q
    ELSE IF Cardinality(StaleSpaces(q)) >= MaxStale
    THEN [q EXCEPT !.stale = NoMarks, !.whole = TRUE]
    ELSE [q EXCEPT !.stale[n] = 0]

Marked(q, n, s) ==
    LET r == Staked(q, n)
    IN  IF r.whole THEN r ELSE [r EXCEPT !.stale[n] = Later(@, s)]

\* An event that cannot be kept leaves a mark of its number.
DroppedEvent(q, ev) ==
    Marked([q EXCEPT !.marker = Later(@, ev.seq), !.epoch = @ + 1],
           SpaceOf(ev.key), ev.seq)

AllDropped(q, evs) == FoldLeft(DroppedEvent, q, evs)

KeysIn(target) == {k \in ObjectKey : target \in {Whole, SpaceOf(k)}}

MarkerFor(q, target) == IF target = Whole THEN q.marker
                        ELSE IF q.stale[target] = Absent THEN 0
                        ELSE q.stale[target]

-----------------------------------------------------------------------------
(* The informer and its callbacks *)

\* Watch events change the store before the callback hears of them.
Change(k, v) ==
    /\ informer \in {"syncing", "synced"}
    /\ store[k] # v
    /\ eventSeq + Len(notices) + (IF hearing = Asleep THEN 0 ELSE 1) < MaxEvents
    /\ store' = [store EXCEPT ![k] = v]
    /\ notices' = Append(notices, k)
    /\ UNCHANGED <<informer, life, hearing, eventSeq, catalogVars, queue,
                   ticket, worker, ledger, recoveries, tight, forgotten>>

\* What is heard before the first list has arrived is only marked dirty.
Hear ==
    /\ hearing = Asleep
    /\ notices # <<>>
    /\ notices' = Tail(notices)
    /\ dirty' = TRUE
    /\ hearing' = IF informer = "synced"
                   THEN [at |-> "heard", key |-> Head(notices), life |-> life,
                         seq |-> 0]
                   ELSE Asleep
    /\ UNCHANGED <<store, informer, life, eventSeq, bootstrapped, builder, snap,
                   forced, queue, ticket, worker, ledger, recoveries, tight, forgotten>>

NumberEvent ==
    /\ hearing.at = "heard"
    /\ IF hearing.life = life
       THEN /\ eventSeq' = eventSeq + 1
            /\ hearing' = [hearing EXCEPT !.at = "numbered", !.seq = eventSeq']
       ELSE hearing' = Asleep /\ UNCHANGED eventSeq
    /\ UNCHANGED <<store, informer, life, notices, catalogVars, queue, ticket,
                   worker, ledger, recoveries, tight, forgotten>>

\* The last event of a key is the one that stays.
Enqueued(q, ev, room) ==
    IF Len(q.events) >= MaxQueued \/ ~room THEN DroppedEvent(q, ev)
    ELSE IF ev.key \in KeysOf(q.events)
    THEN [q EXCEPT !.events[At(q.events, ev.key)] = ev]
    ELSE [q EXCEPT !.events = Append(@, ev)]

QueueOrNew(q) == IF q.there THEN q ELSE NewQueue

EnqueueKey ==
    /\ hearing.at = "numbered"
    /\ hearing' = Asleep
    /\ \/ /\ hearing.life # life
          /\ UNCHANGED <<queue, ledger, dirty, bootstrapped, forced>>
       \/ /\ hearing.life = life
          /\ ~queue.there /\ "structure" \in tight
          /\ ForceRebuild
          /\ UNCHANGED <<queue, ledger>>
       \/ /\ hearing.life = life
          /\ \E room \in Granted("queue") :
               queue' = Enqueued(QueueOrNew(queue),
                                 EventAt(hearing.key, hearing.seq, life), room)
          /\ ledger' = [ledger EXCEPT !.queued =
                           @ + Len(queue'.events) - Len(queue.events)]
          /\ UNCHANGED <<dirty, bootstrapped, forced>>
    /\ UNCHANGED <<store, informer, life, notices, eventSeq, builder, snap,
                   ticket, worker, recoveries, tight, forgotten>>

-----------------------------------------------------------------------------
(* Start and stop *)

StartInformer ==
    /\ informer = "none"
    /\ builder = Asleep
    /\ life < MaxLife
    /\ informer' = "syncing"
    /\ life' = life + 1
    /\ notices' = <<>>
    /\ bootstrapped' = FALSE
    /\ UNCHANGED <<store, hearing, eventSeq, dirty, builder, snap, forced,
                   queue, ticket, worker, ledger, recoveries, tight, forgotten>>

SyncInformer ==
    /\ informer = "syncing"
    /\ informer' = "synced"
    /\ UNCHANGED <<store, life, notices, hearing, eventSeq, catalogVars, queue,
                   ticket, worker, ledger, recoveries, tight, forgotten>>

\* Stopping discards all that was made from the informer, in one lock; what
\* the delta loop has taken stays counted until it gives it back.  Discovery
\* runs in the goroutine of the list loop: only the end of the process stops
\* an informer while a list is built.
StopInformer(closing) ==
    /\ informer \in {"syncing", "synced"}
    /\ closing \/ builder = Asleep
    /\ life < MaxLife
    /\ informer' = IF closing THEN "closed" ELSE "none"
    /\ life' = life + 1
    /\ notices' = <<>>
    /\ bootstrapped' = FALSE
    /\ snap' = NoSnap
    /\ queue' = NoQueue
    /\ ticket' = NoTicket
    /\ ledger' = [ledger EXCEPT !.queued =
                     @ - Len(queue.events) - Len(queue.hold)]
    /\ forgotten' = {}
    /\ UNCHANGED <<store, hearing, eventSeq, dirty, builder, forced, worker,
                   recoveries, tight>>

-----------------------------------------------------------------------------
(* What is known of a change that the index does not show *)

Batch == IF worker.at \in {"drained", "applied", "conflict", "refused"}
         THEN worker.batch ELSE <<>>
InFlight == IF worker.at \in {"drained", "applied", "conflict", "refused", "done"}
            THEN worker.batch ELSE <<>>
HeldByWorker == IF worker.at \in {"holding", "overlaid", "settling"}
                THEN worker.held ELSE <<>>

\* The keys of events that will not be thrown away as those of a dead informer.
LiveKeys(evs) == {ev.key : ev \in {e \in Range(evs) : e.life = life}}

UnderwayWith(q, k) ==
    \/ k \in Range(notices)
    \/ hearing # Asleep /\ hearing.key = k /\ hearing.life = life
    \/ k \in LiveKeys(q.events) \cup LiveKeys(q.hold) \cup LiveKeys(Batch)
    \/ /\ k \in LiveKeys(HeldByWorker)
       /\ worker.at # "settling" \/ worker.outcome # "published"

Underway(k) == UnderwayWith(queue, k)

\* Objects that rows shows as they no longer are.
OldIn(rows, q) == {k \in ObjectKey : rows[k] # store[k] /\ ~UnderwayWith(q, k)}

KnownStale(k) == queue.whole \/ queue.stale[SpaceOf(k)] # Absent

-----------------------------------------------------------------------------
(* The list loop *)

BeginList ==
    /\ builder = Asleep
    /\ informer = "synced"
    /\ dirty \/ ~snap.there
    /\ dirty' = FALSE
    /\ builder' = [at |-> "begun", life |-> life]
    /\ UNCHANGED <<informerVars, bootstrapped, snap, forced, queue, ticket,
                   worker, ledger, recoveries, tight, forgotten>>

\* The list covers the events numbered before the store is read.
CoverEvents ==
    /\ builder.at = "begun"
    /\ builder' = [at |-> "covered", life |-> builder.life, covers |-> eventSeq]
    /\ UNCHANGED <<informerVars, bootstrapped, dirty, snap, forced, queue,
                   ticket, worker, ledger, recoveries, tight, forgotten>>

ReadStore ==
    /\ builder.at = "covered"
    /\ builder' = [at |-> "listed", life |-> builder.life,
                   covers |-> builder.covers, rows |-> store,
                   fresh |-> ~bootstrapped]
    /\ forced' = FALSE
    /\ UNCHANGED <<informerVars, bootstrapped, dirty, snap, queue, ticket,
                   worker, ledger, recoveries, tight, forgotten>>

\* Events and marks the list covers; what a recovery holds belongs to it.
KeptAfter(covers, evs, ev) == IF ev.seq > covers THEN Append(evs, ev) ELSE evs

AckCovered(q, covers) ==
    LET Left(evs) == FoldLeft(LAMBDA a, ev : KeptAfter(covers, a, ev), <<>>, evs)
        r == [q EXCEPT !.events = Left(@),
                       !.hold = IF ticket = NoTicket THEN Left(@) ELSE @]
    IN  IF r.marker # 0 /\ r.marker <= covers
        THEN [r EXCEPT !.stale = NoMarks, !.whole = FALSE, !.marker = 0,
                       !.epoch = @ + 1]
        ELSE r

Purged(q) == [q EXCEPT !.events = <<>>, !.hold = <<>>, !.stale = NoMarks,
                       !.whole = FALSE, !.marker = 0, !.epoch = @ + 1]

QueuedOf(q) == Len(q.events) + Len(q.hold)

Listed == [snap EXCEPT !.there = TRUE, !.rows = builder.rows,
                       !.covers = builder.covers]

WithIndex(s, rows) ==
    [s EXCEPT !.index = rows, !.version = @ + 1,
              !.parts = [n \in Space |->
                 IF \E k \in ObjectKey : SpaceOf(k) = n /\ rows[k] # Absent
                 THEN 1 ELSE 0]]

\* publishList: the search half is replaced only by a fresh build, and the
\* events are acknowledged only when its index is installed.
PublishList ==
    /\ builder.at = "listed"
    /\ \/ /\ builder.life # life
          /\ builder' = Asleep
          /\ UNCHANGED <<snap, queue, ticket, ledger, forgotten>>
       \/ /\ builder.life = life /\ ~builder.fresh
          /\ builder' = Asleep
          /\ snap' = Listed
          /\ UNCHANGED <<queue, ticket, ledger, forgotten>>
       \/ \* installed
          /\ builder.life = life /\ builder.fresh
          /\ builder' = [at |-> "installed"]
          /\ snap' = WithIndex(Listed, builder.rows)
          /\ queue' = IF queue.there THEN AckCovered(queue, builder.covers)
                      ELSE queue
          /\ ledger' = [ledger EXCEPT !.queued =
                           @ - (QueuedOf(queue) - QueuedOf(queue'))]
          /\ forgotten' = IF snap.index = Absent THEN {}
                        ELSE OldIn(builder.rows, queue')
          /\ ticket' = IF ticket.at # "building" THEN ticket
                       ELSE [ticket EXCEPT !.old =
                               @ \cup (OldIn(ticket.rows, queue')
                                          \cap KeysIn(ticket.target))]
       \/ \* refused before the index was built
          /\ builder.life = life /\ builder.fresh /\ "bootstrap" \in tight
          /\ builder' = Asleep
          /\ snap' = [Listed EXCEPT !.index = Absent, !.version = @ + 1]
          /\ UNCHANGED <<queue, ticket, ledger, forgotten>>
       \/ \* refused when it was to be installed
          /\ builder.life = life /\ builder.fresh /\ "publish" \in tight
          /\ builder' = Asleep
          /\ snap' = Listed
          /\ queue' = IF queue.there THEN Purged(queue) ELSE queue
          /\ ticket' = NoTicket
          /\ ledger' = [ledger EXCEPT !.queued = @ - QueuedOf(queue)]
          /\ UNCHANGED forgotten
    /\ UNCHANGED <<informerVars, bootstrapped, dirty, forced, worker, recoveries,
                   tight>>

\* e.bootstrapped.Store(true) after the lock of the publication.
MarkBootstrapped ==
    /\ builder.at = "installed"
    /\ builder' = Asleep
    /\ bootstrapped' = TRUE
    /\ forgotten' = IF forced /\ snap.there /\ snap.index # Absent
                  THEN forgotten \cup OldIn(snap.index, queue)
                  ELSE forgotten
    /\ UNCHANGED <<informerVars, dirty, snap, forced, queue, ticket, worker,
                   ledger, recoveries, tight>>

-----------------------------------------------------------------------------
(* The delta loop: queued keys *)

CaptureIndex ==
    /\ worker = Asleep
    /\ informer \in {"syncing", "synced"} /\ snap.there /\ snap.index # Absent
    /\ queue.events # <<>>
    /\ worker' = [at |-> "captured", life |-> life, base |-> snap.version,
                  index |-> snap.index, parts |-> snap.parts]
    /\ UNCHANGED <<informerVars, catalogVars, queue, ticket, ledger, recoveries,
                   tight, forgotten>>

Holds(t, n) == t.at = "building" /\ t.target \in {Whole, n}

\* abandonRecoveryLocked, while the events of q are being taken from evs: a
\* held event whose key is queued gives way to it, and the others are put
\* into an array that the caller replaces when it has taken its batch.
Abandon(acc, evs, ev) ==
    LET waiting == {i \in DOMAIN acc.q.hold : acc.q.hold[i].key \in KeysOf(evs)}
        t == acc.ticket.target
        q == [acc.q EXCEPT !.hold = <<>>, !.marker = Later(@, ev.seq),
                           !.epoch = @ + 1]
    IN  [acc EXCEPT !.q = IF t = Whole THEN [q EXCEPT !.whole = TRUE]
                          ELSE Marked(q, t, ev.seq),
                    !.ticket = NoTicket,
                    !.released = @ + Cardinality(waiting)]

\* The first want events: those of a dead informer are thrown away, those of
\* the target of a recovery are held for it.
TakeEvent(want, acc, ev) ==
    LET taken(a) == [a EXCEPT !.batch = Append(@, ev)]
    IN  IF Len(acc.batch) >= want
        THEN [acc EXCEPT !.q.events = Append(@, ev)]
        ELSE IF ev.life # life
        THEN [acc EXCEPT !.released = @ + 1]
        ELSE IF ~Holds(acc.ticket, SpaceOf(ev.key))
        THEN taken(acc)
        ELSE IF Len(acc.q.hold) < MaxHeld
        THEN [acc EXCEPT !.q.hold = Append(@, ev)]
        ELSE taken(Abandon(acc, queue.events, ev))

NothingTaken == [q |-> [queue EXCEPT !.events = <<>>], batch |-> <<>>,
                 ticket |-> ticket, released |-> 0]

Drained(want) == FoldLeft(LAMBDA acc, ev : TakeEvent(want, acc, ev),
                          NothingTaken, queue.events)

DrainQueue ==
    /\ worker.at = "captured"
    /\ \/ /\ queue.events = <<>>
          /\ worker' = Asleep
          /\ UNCHANGED <<queue, ticket, ledger>>
       \/ \* no room for a batch of one
          /\ queue.events # <<>> /\ "batch" \in tight
          /\ worker' = Asleep
          /\ queue' = DroppedEvent([queue EXCEPT !.events = Tail(@)],
                              Head(queue.events))
          /\ ledger' = [ledger EXCEPT !.queued = @ - 1]
          /\ UNCHANGED ticket
       \/ \E want \in 1 .. Len(queue.events) :
            LET d == Drained(want) IN
            /\ want = Len(queue.events) \/ "batch" \in tight
            /\ queue' = d.q
            /\ ticket' = d.ticket
            /\ worker' = IF d.batch = <<>> THEN Asleep
                         ELSE [at |-> "drained", life |-> worker.life,
                               base |-> worker.base, index |-> worker.index,
                               parts |-> worker.parts, batch |-> d.batch]
            /\ ledger' = [queued |-> ledger.queued - d.released - Len(d.batch),
                          inflight |-> ledger.inflight + Len(d.batch)]
    /\ UNCHANGED <<informerVars, catalogVars, recoveries, tight, forgotten>>

\* Every key is read from the store again; a namespace that is marked stale
\* is marked in the index too, which makes it a new version of that part.
Overlaid(index, keys) ==
    [k \in ObjectKey |-> IF k \in keys THEN store[k] ELSE index[k]]

ApplyBatch ==
    /\ worker.at = "drained"
    /\ LET touched == {SpaceOf(k) : k \in KeysOf(worker.batch)}
                        \cup StaleSpaces(queue)
       IN  worker' = [worker EXCEPT
             !.at = "applied",
             !.index = Overlaid(@, KeysOf(worker.batch)),
             !.parts = [n \in Space |-> IF n \in touched THEN @[n] + 1 ELSE @[n]]]
    /\ UNCHANGED <<informerVars, catalogVars, queue, ticket, ledger, recoveries,
                   tight, forgotten>>

Unchanged(base) == snap.there /\ snap.version = base

\* publishSearchIndex
PublishDelta ==
    /\ worker.at = "applied"
    /\ \/ /\ worker.life # life \/ ~Unchanged(worker.base)
          /\ worker' = [worker EXCEPT !.at = "conflict"]
          /\ UNCHANGED <<snap, forgotten>>
       \/ /\ worker.life = life /\ Unchanged(worker.base)
          /\ "publish" \in tight
          /\ worker' = [worker EXCEPT !.at = "refused"]
          /\ UNCHANGED <<snap, forgotten>>
       \/ /\ worker.life = life /\ Unchanged(worker.base)
          /\ snap' = [snap EXCEPT !.index = worker.index, !.version = @ + 1,
                                  !.parts = worker.parts]
          /\ worker' = [worker EXCEPT !.at = "done"]
          /\ forgotten' = forgotten \ KeysOf(worker.batch)
    /\ UNCHANGED <<informerVars, builder, dirty, bootstrapped, forced, queue,
                   ticket, ledger, recoveries, tight>>

\* requeueDrained: a key that was queued again in the meantime wins.
PutBack(acc, ev) ==
    IF ev.key \in KeysOf(queue.events) THEN acc
    ELSE IF Len(acc.back) + Len(queue.events) >= MaxQueued
    THEN [acc EXCEPT !.q = DroppedEvent(@, ev)]
    ELSE [acc EXCEPT !.back = Append(@, ev)]

Requeued(evs, room) ==
    LET r == FoldLeft(PutBack, [q |-> queue, back |-> <<>>], evs)
    IN  IF room THEN [r.q EXCEPT !.events = r.back \o @]
        ELSE AllDropped(r.q, r.back)

\* As GiveBack below, where a queue that is gone takes the batch with it.
GiveBackUnlessGone ==
    /\ worker.at = "conflict"
    /\ worker' = Asleep
    /\ \/ /\ ~queue.there
          /\ ForceRebuild
          /\ UNCHANGED <<queue, ledger>>
       \/ /\ queue.there
          /\ \E room \in Granted("queue") : queue' = Requeued(worker.batch, room)
          /\ ledger' = [queued |-> ledger.queued + Len(queue'.events)
                                     - Len(queue.events),
                        inflight |-> ledger.inflight - Len(worker.batch)]
          /\ UNCHANGED <<dirty, bootstrapped, forced>>
    /\ UNCHANGED <<informerVars, builder, snap, ticket, recoveries, tight, forgotten>>

GiveBack ==
    /\ worker.at = "conflict"
    /\ worker' = Asleep
    /\ \/ /\ ~queue.there
          /\ ForceRebuild
          /\ ledger' = [ledger EXCEPT !.inflight = @ - Len(worker.batch)]
          /\ UNCHANGED queue
       \/ /\ queue.there
          /\ \E room \in Granted("queue") : queue' = Requeued(worker.batch, room)
          /\ ledger' = [queued |-> ledger.queued + Len(queue'.events)
                                     - Len(queue.events),
                        inflight |-> ledger.inflight - Len(worker.batch)]
          /\ UNCHANGED <<dirty, bootstrapped, forced>>
    /\ UNCHANGED <<informerVars, builder, snap, ticket, recoveries, tight, forgotten>>

\* A batch that the budget refuses is not tried again: its namespaces are
\* marked.
MarkRefused ==
    /\ worker.at = "refused"
    /\ worker' = Asleep
    /\ ledger' = [ledger EXCEPT !.inflight = @ - Len(worker.batch)]
    /\ IF queue.there
       THEN queue' = AllDropped(queue, worker.batch)
            /\ UNCHANGED <<dirty, bootstrapped, forced>>
       ELSE ForceRebuild /\ UNCHANGED queue
    /\ UNCHANGED <<informerVars, builder, snap, ticket, recoveries, tight, forgotten>>

\* When the row slots run out the whole resource has to be rebuilt.
FinishBatch ==
    /\ worker.at = "done"
    /\ worker' = Asleep
    /\ ledger' = [ledger EXCEPT !.inflight = @ - Len(worker.batch)]
    /\ \E fits \in Granted("slots") :
         queue' = IF fits THEN queue
                  ELSE [QueueOrNew(queue) EXCEPT !.marker = Later(@, eventSeq),
                                              !.epoch = @ + 1, !.whole = TRUE]
    /\ UNCHANGED <<informerVars, catalogVars, ticket, recoveries, tight, forgotten>>

-----------------------------------------------------------------------------
(* The delta loop: recoveries.  Only one is under way, and each of its steps *)
(* waits until few keys of its resource are queued.                          *)

Quiet == Len(queue.events) <= QuietLimit

\* pickRecoveryLocked; a circuit may take a namespace up to the whole
\* resource.
Pick ==
    /\ worker = Asleep /\ ticket = NoTicket
    /\ queue.there
    /\ recoveries < MaxRecoveries
    /\ \E target \in (IF queue.whole THEN {} ELSE StaleSpaces(queue))
                      \cup (IF queue.whole \/ StaleSpaces(queue) # {}
                            THEN {Whole} ELSE {}) :
         ticket' = [at |-> "picked", target |-> target,
                    marker |-> MarkerFor(queue, target), epoch |-> queue.epoch]
    /\ recoveries' = recoveries + 1
    /\ UNCHANGED <<informerVars, catalogVars, queue, worker, ledger,
                   tight, forgotten>>

AbortRecovery ==
    /\ worker = Asleep /\ ticket.at = "picked" /\ Quiet
    /\ ~snap.there \/ snap.index = Absent \/ informer \notin {"syncing", "synced"}
    /\ queue' = [queue EXCEPT !.hold = <<>>]
    /\ ledger' = [ledger EXCEPT !.queued = @ - Len(queue.hold)]
    /\ ticket' = NoTicket
    /\ UNCHANGED <<informerVars, catalogVars, worker, recoveries, tight, forgotten>>

\* The list that is published is read without the lock of the queue; it has
\* to cover the mark of the target.
PinCapture ==
    /\ worker = Asleep /\ ticket.at = "picked" /\ Quiet
    /\ informer \in {"syncing", "synced"} /\ snap.there /\ snap.index # Absent
    /\ snap.covers >= ticket.marker
    /\ worker' = [at |-> "pinning", rows |-> snap.rows, parts |-> snap.parts,
                  base |-> snap.version, life |-> life]
    /\ UNCHANGED <<informerVars, catalogVars, queue, ticket, ledger, recoveries,
                   tight, forgotten>>

Restaked(q, target) == IF target = Whole THEN [q EXCEPT !.whole = TRUE]
                       ELSE Staked(q, target)

\* markBudgetRejectedLocked: the target stays stale and the ticket goes; what
\* the queue holds stays there.
RejectTarget == /\ queue' = Restaked(queue, ticket.target)
                /\ ticket' = NoTicket

PinCommit ==
    /\ worker.at = "pinning"
    /\ worker' = Asleep
    /\ \/ ticket = NoTicket /\ UNCHANGED <<queue, ticket>>
       \/ ticket # NoTicket /\ "pin" \in tight /\ RejectTarget
       \/ /\ ticket # NoTicket
          /\ ticket' = [at |-> "building", target |-> ticket.target,
                        marker |-> ticket.marker, epoch |-> ticket.epoch,
                        rows |-> worker.rows, parts |-> worker.parts,
                        base |-> worker.base, life |-> worker.life,
                        old |-> OldIn(worker.rows, queue)
                                  \cap KeysIn(ticket.target)]
          /\ UNCHANGED queue
    /\ UNCHANGED <<informerVars, catalogVars, ledger, recoveries, tight, forgotten>>

\* mergeHeldLocked: of two events of a key the later one stays.
MergeEvent(q, ev) ==
    IF ev.key \in KeysOf(q.events)
    THEN [q EXCEPT !.events[At(q.events, ev.key)] =
                      IF @.seq >= ev.seq THEN @ ELSE ev]
    ELSE IF Len(q.events) >= MaxQueued THEN DroppedEvent(q, ev)
    ELSE [q EXCEPT !.events = Append(@, ev)]

Merged(q, held) == FoldLeft(MergeEvent, q, held)

\* The last chunk takes what is held with it.  A chunk that is refused leaves
\* it in the queue; one that runs out of row slots gives it back.
RecoverBuild ==
    /\ worker = Asleep /\ ticket.at = "building" /\ Quiet
    /\ \/ /\ "chunk" \in tight
          /\ RejectTarget
          /\ UNCHANGED <<worker, ledger>>
       \/ /\ "slots" \in tight
          /\ queue' = Restaked(Merged([queue EXCEPT !.hold = <<>>], queue.hold),
                               ticket.target)
          /\ ticket' = NoTicket
          /\ ledger' = [ledger EXCEPT !.queued =
                           @ - (QueuedOf(queue) - QueuedOf(queue'))]
          /\ UNCHANGED worker
       \/ /\ queue' = [queue EXCEPT !.hold = <<>>]
          /\ worker' = [at |-> "holding", held |-> queue.hold, made |-> ticket]
          /\ UNCHANGED <<ticket, ledger>>
    /\ UNCHANGED <<informerVars, catalogVars, recoveries, tight, forgotten>>

\* The held keys are read again, on top of the rows that were pinned.  When
\* the budget has no room for that, the target is rejected first, and the
\* dead ticket takes its held events with it.
RecoverApply ==
    /\ worker.at = "holding"
    /\ \/ /\ worker' = [at |-> "overlaid", held |-> worker.held,
                         made |-> [worker.made EXCEPT
                            !.rows = Overlaid(@, KeysOf(worker.held))]]
          /\ UNCHANGED <<queue, ticket, ledger>>
       \/ /\ worker.held # <<>> /\ ticket # NoTicket /\ "held" \in tight
          /\ RejectTarget
          /\ worker' = Asleep
          /\ ledger' = [ledger EXCEPT !.queued = @ - Len(worker.held)]
    /\ UNCHANGED <<informerVars, catalogVars, recoveries, tight, forgotten>>

WithPart(s, n, rows) ==
    [s EXCEPT !.index = [k \in ObjectKey |->
                           IF SpaceOf(k) = n THEN rows[k] ELSE @[k]],
              !.version = @ + 1, !.parts[n] = 1]

\* publishRecovery: the whole index takes the place of the version that was
\* pinned, a part that of the version of the part.
StillPinned(r) ==
    /\ r.life = life
    /\ snap.there /\ snap.index # Absent
    /\ IF r.target = Whole THEN snap.version = r.base
       ELSE snap.parts[r.target] = r.parts[r.target]

RecoverPublish ==
    /\ worker.at = "overlaid"
    /\ LET r == worker.made
           Settle(outcome) == worker' = [at |-> "settling", held |-> worker.held,
                                         made |-> r, outcome |-> outcome]
       IN  \/ /\ ~StillPinned(r)
              /\ Settle("conflict")
              /\ UNCHANGED <<snap, forgotten>>
           \/ /\ StillPinned(r) /\ "publish" \in tight
              /\ Settle("refused")
              /\ UNCHANGED <<snap, forgotten>>
           \/ /\ StillPinned(r)
              /\ snap' = IF r.target = Whole THEN WithIndex(snap, r.rows)
                         ELSE WithPart(snap, r.target, r.rows)
              /\ Settle("published")
              /\ forgotten' = (forgotten \ KeysIn(r.target))
                           \cup (IF ticket = NoTicket
                                 THEN OldIn(r.rows, queue) \cap KeysIn(r.target)
                                 ELSE ticket.old \ KeysOf(worker.held))
    /\ UNCHANGED <<informerVars, builder, dirty, bootstrapped, forced, queue,
                   ticket, ledger, recoveries, tight>>

\* As Acked below, without a look at what was marked since.
AckedAlways(q, t) ==
    IF t.target = Whole
    THEN [q EXCEPT !.stale = NoMarks, !.whole = FALSE, !.marker = 0]
    ELSE [q EXCEPT !.stale[t.target] = Absent]

\* The marks that the published target answers: all of them only when none
\* was added since the ticket was made, one only when it is still the same.
Acked(q, t) ==
    IF t.target = Whole
    THEN IF q.epoch = t.epoch
         THEN [q EXCEPT !.stale = NoMarks, !.whole = FALSE, !.marker = 0]
         ELSE q
    ELSE IF MarkerFor(q, t.target) # t.marker THEN q
    ELSE LET r == [q EXCEPT !.stale[t.target] = Absent]
         IN  IF StaleSpaces(r) = {} /\ ~r.whole THEN [r EXCEPT !.marker = 0]
             ELSE r

RecoverSettle ==
    /\ worker.at = "settling"
    /\ worker' = Asleep
    /\ ticket' = NoTicket
    /\ queue' = IF ticket = NoTicket THEN queue
                ELSE CASE worker.outcome = "published" -> Acked(queue, ticket)
                       [] worker.outcome = "conflict" -> Merged(queue, worker.held)
                       [] OTHER -> Restaked(Merged(queue, worker.held),
                                            ticket.target)
    /\ ledger' = [ledger EXCEPT !.queued =
                     @ - (Len(worker.held) + QueuedOf(queue) - QueuedOf(queue'))]
    /\ UNCHANGED <<informerVars, catalogVars, recoveries, tight, forgotten>>

-----------------------------------------------------------------------------

InformerNext ==
    \/ \E k \in ObjectKey, v \in Shape \cup {Absent} : Change(k, v)
    \/ Hear \/ NumberEvent \/ EnqueueKey
    \/ StartInformer \/ SyncInformer
    \/ \E closing \in BOOLEAN : StopInformer(closing)

ListLoopNext == BeginList \/ CoverEvents \/ ReadStore \/ PublishList \/ MarkBootstrapped

BatchNext == \/ CaptureIndex \/ DrainQueue \/ ApplyBatch \/ PublishDelta
             \/ GiveBack \/ MarkRefused \/ FinishBatch

RecoveryNext == \/ Pick \/ AbortRecovery \/ PinCapture \/ PinCommit
                \/ RecoverBuild \/ RecoverApply \/ RecoverPublish \/ RecoverSettle

DeltaNext == InformerNext \/ ListLoopNext \/ BatchNext \/ RecoveryNext

DeltaSpec == DeltaInit /\ [][DeltaNext]_deltaVars

-----------------------------------------------------------------------------
(* Properties *)

Serving == /\ informer = "synced" /\ bootstrapped
           /\ snap.there /\ snap.index # Absent

Shown(k) == snap.index[k] = store[k] \/ Underway(k) \/ KnownStale(k)

\* "Nothing is left stale in silence" (searchdelta.go:1730): whenever the
\* index is in use and does not show an object as the store has it, the
\* change is still on its way or its namespace is marked stale.  A recovery
\* from a list older than an event that was already applied breaks it.
ChangesAreTracked == Serving => \A k \in ObjectKey : Shown(k)

\* Apart from such a recovery, and from a rebuild of the index from a list
\* that is put over a live index or that is asked for during another one,
\* nothing is forgotten: not by a conflict, a refused budget, a restart or a
\* queue that is full.
OnlyRebuildsForget == Serving => \A k \in ObjectKey : Shown(k) \/ k \in forgotten

\* The ledger counts each event once: queued while it waits or is held,
\* in flight while the delta loop applies it (queuedBytesLocked).
LedgerExact ==
    /\ ledger.queued = QueuedOf(queue) + Len(HeldByWorker)
    /\ ledger.inflight = Len(InFlight)

\* The ledger never counts less than what is kept, so the limit holds.
ReservationsCovered ==
    /\ ledger.queued >= QueuedOf(queue) + Len(HeldByWorker)
    /\ ledger.inflight = Len(InFlight)
=============================================================================
