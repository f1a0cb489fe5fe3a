----------------------------- MODULE StreamHub -----------------------------
(***************************************************************************)
(* Change signals to browsers: the replay ring and the subscriptions of    *)
(* stream.Hub, the SSE handler, and the reconnecting client of the web     *)
(* application, for one cluster.                                           *)
(*                                                                         *)
(* A signal carries no data; a browser that gets one fetches its screen    *)
(* again.  What matters is that no signal is lost unnoticed: after a       *)
(* reconnect the hub replays what the browser missed, or tells it to start *)
(* over (reset).                                                           *)
(*                                                                         *)
(* Simplifications: a signal is written by the handler and read by the     *)
(* browser in one step; a handler notices at once that its connection      *)
(* broke; the scope of a client does not change (a cursor of another scope *)
(* is refused).                                                            *)
(***************************************************************************)
EXTENDS Integers, Sequences, FiniteSets

CONSTANTS
  Client,
  Subject,
  SubjectOf,       \* SubjectOf[c]: the user of c
  Namespace,
  Scope,           \* Scope[c]: the namespaces of c
  Unrestricted,    \* the clients that see all of the cluster (Filter.All)
  NoStream,            \* no Last-Event-ID
  RingSize, SubscriberBuffer, MaxConnections, MaxPerSubject,
  MaxSignals,          \* bound of the model on the signals of one process
  MaxHubLife          \* bound of the model on processes

ASSUME HubAssumption ==
  /\ SubjectOf \in [Client -> Subject]
  /\ Scope \in [Client -> SUBSET Namespace]
  /\ Unrestricted \subseteq Client
  /\ {"cluster", "reset"} \cap Namespace = {}
  /\ {RingSize, SubscriberBuffer, MaxConnections, MaxPerSubject} \subseteq Nat \ {0}
  /\ {MaxSignals, MaxHubLife} \subseteq Nat \ {0}

VARIABLES
  hubLife,       \* the instance of the hub: a new one in every process
  closed,        \* the hub was shut down
  seq,           \* clusterRing.seq
  ring,          \* the retained signals, oldest first
  sub,           \* sub[c]: c's subscription
  subjectConns,  \* subjectConns[s]: connections of user s
  replay,        \* replay[c]: what the handler sends first
  chan,          \* chan[c]: the live channel of the subscription
  cursor,        \* cursor[c]: the Last-Event-ID that c would send
  known,         \* history: the clients that have had a stream
  owed,          \* history: signals for a known client that it was not told of
  hubSettled     \* from now on nothing is published and nothing breaks

hubVars == <<hubLife, closed, seq, ring>>
clientVars == <<sub, subjectConns, replay, chan, cursor, known, owed>>
signalVars == <<hubVars, clientVars, hubSettled>>

HubLife == 1 .. MaxHubLife

\* A signal is about a namespace, the cluster as a whole, or everything (reset).
Signal == [life : HubLife, seq : 0 .. MaxSignals, about : Namespace \cup {"cluster", "reset"}]

\* "dropped": removed from the hub, its handler still drains the channel.
SubState == {"none", "open", "dropped"}

StreamTypeOK ==
  /\ hubLife \in HubLife
  /\ closed \in BOOLEAN
  /\ seq \in 0 .. MaxSignals
  /\ ring \in Seq(Signal) /\ Len(ring) <= RingSize
  /\ sub \in [Client -> SubState]
  /\ subjectConns \in [Subject -> 0 .. MaxPerSubject]
  /\ replay \in [Client -> Seq(Signal)]
  /\ chan \in [Client -> Seq(Signal)]
  /\ \A c \in Client : Len(chan[c]) <= SubscriberBuffer
  /\ cursor \in [Client -> [life : HubLife, seq : 0 .. MaxSignals] \cup {NoStream}]
  /\ known \subseteq Client
  /\ owed \in [Client -> SUBSET Signal]
  /\ hubSettled \in BOOLEAN

StreamInit ==
  /\ hubLife = 1
  /\ closed = FALSE
  /\ seq = 0
  /\ ring = <<>>
  /\ sub = [c \in Client |-> "none"]
  /\ subjectConns = [s \in Subject |-> 0]
  /\ replay = [c \in Client |-> <<>>]
  /\ chan = [c \in Client |-> <<>>]
  /\ cursor = [c \in Client |-> NoStream]
  /\ known = {}
  /\ owed = [c \in Client |-> {}]
  /\ hubSettled = FALSE

-----------------------------------------------------------------------------

\* Filter.allows
Allows(c, e) ==
  \/ e.about = "reset"
  \/ c \in Unrestricted
  \/ e.about \in Scope[c]

Open == {c \in Client : sub[c] = "open"}

OpenOf(s) == {c \in Open : SubjectOf[c] = s}

\* Mistake: a full subscription stays open and loses the signal.
RemoveNone(gone) == UNCHANGED <<sub, subjectConns>>

\* removeLocked, of a set of subscriptions; only members count.
RemoveAll(gone) ==
  /\ sub' = [c \in Client |-> IF c \in gone \cap Open THEN "dropped" ELSE sub[c]]
  /\ subjectConns' = [s \in Subject |-> subjectConns[s] - Cardinality(OpenOf(s) \cap gone)]

Full(c) == Len(chan[c]) >= SubscriberBuffer

\* PublishSignal: into the ring, then to every subscription whose scope allows it; a
\* full one is removed.
PublishSignal(about) ==
  LET e == [life |-> hubLife, seq |-> seq + 1, about |-> about]
      addressed == {c \in Open : Allows(c, e)}
      slow == {c \in addressed : Full(c)}
      grown == Append(ring, e)
  IN
  /\ ~hubSettled /\ ~closed /\ seq < MaxSignals
  /\ seq' = seq + 1
  /\ ring' = IF Len(grown) > RingSize THEN Tail(grown) ELSE grown
  /\ chan' = [c \in Client |-> IF c \in addressed \ slow THEN Append(chan[c], e) ELSE chan[c]]
  /\ RemoveAll(slow)
  /\ owed' = [c \in Client |->
       IF c \in known /\ Allows(c, e) THEN owed[c] \cup {e} ELSE owed[c]]
  /\ UNCHANGED <<hubLife, closed, replay, cursor, known, hubSettled>>

FirstSeq == seq - Len(ring) + 1

\* Mistake: an ID of an earlier process is taken for one of this process.
OutOfReachOfAny(id) ==
  \/ id.seq > seq
  \/ ring # <<>> /\ id.seq + 1 < FirstSeq

OutOfReach(id) ==
  \/ id.life # hubLife
  \/ id.seq > seq
  \/ ring # <<>> /\ id.seq + 1 < FirstSeq

ResetSignal == [life |-> hubLife, seq |-> seq, about |-> "reset"]

\* The retained signal with number s.
SignalAt(s) == ring[s - FirstSeq + 1]

\* Mistake: the loop over the ring starts one signal too late.
MissedLate(c, id) ==
  LET taken[s \in id.seq .. seq] ==
        IF s <= id.seq + 1 THEN <<>>
        ELSE IF Allows(c, SignalAt(s)) THEN Append(taken[s - 1], SignalAt(s)) ELSE taken[s - 1]
  IN taken[seq]

\* From the signal after the cursor to the last: those that the scope allows.
Missed(c, id) ==
  LET taken[s \in id.seq .. seq] ==
        IF s = id.seq THEN <<>>
        ELSE IF Allows(c, SignalAt(s)) THEN Append(taken[s - 1], SignalAt(s)) ELSE taken[s - 1]
  IN taken[seq]

\* What Connect prepares for a client with this Last-Event-ID.
ReplayFor(c, id) ==
  CASE id = NoStream -> <<>>
    [] id # NoStream /\ OutOfReach(id) -> <<ResetSignal>>
    [] OTHER -> Missed(c, id)

\* Connect: limits, replay and registration under one lock.  A client that
\* comes without a Last-Event-ID starts anew.
Connect(c) ==
  /\ sub[c] = "none"
  /\ ~closed
  /\ Cardinality(Open) < MaxConnections
  /\ subjectConns[SubjectOf[c]] < MaxPerSubject
  /\ sub' = [sub EXCEPT ![c] = "open"]
  /\ subjectConns' = [subjectConns EXCEPT ![SubjectOf[c]] = @ + 1]
  /\ replay' = [replay EXCEPT ![c] = ReplayFor(c, cursor[c])]
  /\ known' = known \cup {c}
  /\ owed' = IF cursor[c] = NoStream THEN [owed EXCEPT ![c] = {}] ELSE owed
  /\ UNCHANGED <<hubVars, chan, cursor, hubSettled>>

\* The browser reads a signal: streamEvents keeps its ID, or forgets every ID
\* when it is a reset, and the screens are fetched again.
NotAfter(e, reset) == \/ e.life < reset.life
                      \/ e.life = reset.life /\ e.seq <= reset.seq

Told(c, e) ==
  /\ cursor' = [cursor EXCEPT ![c] =
       IF e.about = "reset" THEN NoStream ELSE [life |-> e.life, seq |-> e.seq]]
  /\ owed' = [owed EXCEPT ![c] =
       IF e.about = "reset" THEN {x \in @ : ~NotAfter(x, e)} ELSE @ \ {e}]

\* The handler sends the replay first, then the live channel.
Deliver(c) ==
  /\ sub[c] # "none"
  /\ \/ /\ replay[c] # <<>>
        /\ Told(c, Head(replay[c]))
        /\ replay' = [replay EXCEPT ![c] = Tail(@)]
        /\ UNCHANGED chan
     \/ /\ replay[c] = <<>>
        /\ chan[c] # <<>>
        /\ Told(c, Head(chan[c]))
        /\ chan' = [chan EXCEPT ![c] = Tail(@)]
        /\ UNCHANGED replay
  /\ UNCHANGED <<hubVars, sub, subjectConns, known, hubSettled>>

\* The handler returns; Subscription.Close counts only if it is still a member.
CloseSub(c) ==
  /\ sub' = [sub EXCEPT ![c] = "none"]
  /\ subjectConns' = IF sub[c] = "open"
                     THEN [subjectConns EXCEPT ![SubjectOf[c]] = @ - 1]
                     ELSE subjectConns
  /\ replay' = [replay EXCEPT ![c] = <<>>]
  /\ chan' = [chan EXCEPT ![c] = <<>>]

\* The channel of a removed subscription is drained: the handler returns.
EndOfEvents(c) ==
  /\ sub[c] = "dropped"
  /\ replay[c] = <<>> /\ chan[c] = <<>>
  /\ CloseSub(c)
  /\ UNCHANGED <<hubVars, cursor, known, owed, hubSettled>>

\* The connection breaks, or the browser leaves; what it had not read is gone.
CutOff(c) ==
  /\ ~hubSettled
  /\ sub[c] # "none"
  /\ CloseSub(c)
  /\ UNCHANGED <<hubVars, cursor, known, owed, hubSettled>>

\* Hub.Close
Shutdown ==
  /\ ~hubSettled /\ ~closed
  /\ closed' = TRUE
  /\ RemoveAll(Open)
  /\ UNCHANGED <<hubLife, seq, ring, replay, chan, cursor, known, owed, hubSettled>>

\* The process ends, in any state, and another one starts.
Restart ==
  /\ ~hubSettled /\ hubLife < MaxHubLife
  /\ hubLife' = hubLife + 1
  /\ closed' = FALSE
  /\ seq' = 0
  /\ ring' = <<>>
  /\ sub' = [c \in Client |-> "none"]
  /\ subjectConns' = [s \in Subject |-> 0]
  /\ replay' = [c \in Client |-> <<>>]
  /\ chan' = [c \in Client |-> <<>>]
  /\ UNCHANGED <<cursor, known, owed, hubSettled>>

\* Nothing in the code: the point from which the liveness property looks on.
SettleHub ==
  /\ ~hubSettled /\ ~closed
  /\ hubSettled' = TRUE
  /\ UNCHANGED <<hubVars, clientVars>>

Serve(c) == Connect(c) \/ Deliver(c) \/ EndOfEvents(c)

StreamNext ==
  \/ \E about \in Namespace \cup {"cluster", "reset"} : PublishSignal(about)
  \/ \E c \in Client : Serve(c) \/ CutOff(c)
  \/ Shutdown
  \/ Restart

StreamSpec == StreamInit /\ [][StreamNext]_signalVars

\* Handlers run, and a browser without a stream dials again.
FairStreamSpec ==
  /\ StreamInit /\ [][StreamNext \/ SettleHub]_signalVars
  /\ \A c \in Client : WF_signalVars(Serve(c))

-----------------------------------------------------------------------------
(* Properties *)

Line(c) == replay[c] \o chan[c]

LaterSignal(e, f) == ~NotAfter(e, f)

\* What an open stream still has to send is exactly what its client is owed,
\* in order: no gap and no repetition between replay and live signals, nothing
\* outside its scope, and nothing left out except before a reset.
NothingSkipped ==
  \A c \in Open :
    LET line == Line(c) IN
    /\ \A i, j \in DOMAIN line : i < j => LaterSignal(line[j], line[i])
    /\ \A i \in DOMAIN line : line[i] \in owed[c] \/ line[i].about = "reset"
    /\ \A e \in owed[c] : \E i \in DOMAIN line :
         \/ line[i] = e
         \/ line[i].about = "reset" /\ NotAfter(e, line[i])

CompleteOrReset(c) ==
  \/ \E i \in DOMAIN replay'[c] : replay'[c][i].about = "reset"
  \/ {replay'[c][i] : i \in DOMAIN replay'[c]} = owed[c]

Resumes(c) == sub[c] = "none" /\ sub'[c] = "open"

\* A client that resumes with a Last-Event-ID gets everything it missed, or a
\* reset: the ring never silently covers less than the client lost.
ResumeIsCompleteOrReset ==
  [][\A c \in Client : Resumes(c) /\ cursor[c] # NoStream => CompleteOrReset(c)]_signalVars

\* docs/adr/0007 rejects any other outcome for a client that lost signals: a
\* complete replay or an explicit reset, never a silent continuation.  Stated of
\* the web client as it is.
EveryResumeIsCompleteOrReset ==
  [][\A c \in Client : Resumes(c) => CompleteOrReset(c)]_signalVars

\* Once publishing and breaking stop, every client ends connected and told.
EveryoneIsTold ==
  \A c \in Client : hubSettled ~> sub[c] = "open" /\ owed[c] = {}
=============================================================================
