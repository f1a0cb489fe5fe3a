---------------------------- MODULE AlertCircuit ----------------------------
(***************************************************************************)
(* The circuit breaker of the Alertmanager source, with the requests that  *)
(* wait for one of its connection slots.  Every permit carries the         *)
(* generation of the circuit; an answer that arrives in a later generation *)
(* does not count.                                                         *)
(*                                                                         *)
(* The clock is the rest of the cooldown.  Transport and decoding are the  *)
(* outcome of a request.                                                   *)
(***************************************************************************)
EXTENDS Integers, FiniteSets

CONSTANTS
  Caller,
  NoNotice,
  FailureLimit,   \* consecutive failures that open the circuit (3)
  Cooldown,       \* how long it stays open (5 s)
  MaxConcurrent,
  MaxGeneration   \* bound of the model, before the upstream recovers

ASSUME AlertAssumption ==
  {FailureLimit, Cooldown, MaxConcurrent, MaxGeneration} \subseteq Nat \ {0}

VARIABLES
  fails,       \* fails, counted up to FailureLimit
  open,        \* openTil is set
  cooling,     \* the time until openTil
  halfOpen,
  generation,  \* circuitGeneration
  call,        \* call[c]: the List call of c
  notice,      \* notice[c]: the SetCircuit call that c is about to make
  gauge,       \* the circuit gauge of the metrics
  healthy      \* from now on every answer is good and nobody cancels

breakerVars == <<fails, open, cooling, halfOpen, generation>>
alertVars == <<breakerVars, call, notice, gauge, healthy>>

\* A recovery takes at most two more generations: a probe and its answer.
Generation == 0 .. MaxGeneration + 2

\* A call waits for a slot, has one, or talks to the upstream.
Call == [at : {"idle", "waiting", "slot", "running"}, probe : BOOLEAN, gen : Generation]

Idle == [at |-> "idle", probe |-> FALSE, gen |-> 0]

Notice == [state : {"closed", "open", "half_open"}, gen : Generation]

ASSUME NoticeAssumption == NoNotice \notin Notice

\* The calls that hold a slot.
Busy == {c \in Caller : call[c].at \in {"slot", "running"}}

AlertTypeOK ==
  /\ fails \in 0 .. FailureLimit
  /\ open \in BOOLEAN
  /\ cooling \in 0 .. Cooldown
  /\ halfOpen \in BOOLEAN
  /\ generation \in Generation
  /\ call \in [Caller -> Call]
  /\ notice \in [Caller -> Notice \cup {NoNotice}]
  /\ gauge \in Notice
  /\ healthy \in BOOLEAN
  /\ IsFiniteSet(Busy) /\ Cardinality(Busy) <= MaxConcurrent

AlertInit ==
  /\ fails = 0
  /\ open = FALSE
  /\ cooling = 0
  /\ halfOpen = FALSE
  /\ generation = 0
  /\ call = [c \in Caller |-> Idle]
  /\ notice = [c \in Caller |-> NoNotice]
  /\ gauge = [state |-> "closed", gen |-> 0]
  /\ healthy = FALSE

-----------------------------------------------------------------------------

NotLast == generation < IF healthy THEN MaxGeneration + 2 ELSE MaxGeneration

\* c is not between the unlock and its SetCircuit call.
Free(c) == notice[c] = NoNotice

Move(c, at, probe, gen) ==
  call' = [call EXCEPT ![c] = [at |-> at, probe |-> probe, gen |-> gen]]

Announce(c, state) ==
  notice' = [notice EXCEPT ![c] = [state |-> state, gen |-> generation']]

\* breakerAllow in its three outcomes; c goes on to `at`.
AllowPlain(c, at) ==
  /\ ~open
  /\ Move(c, at, FALSE, generation)
  /\ UNCHANGED <<breakerVars, notice>>

AllowProbe(c, at) ==
  /\ open /\ cooling = 0 /\ ~halfOpen
  /\ NotLast
  /\ halfOpen' = TRUE
  /\ generation' = generation + 1
  /\ Move(c, at, TRUE, generation')
  /\ Announce(c, "half_open")
  /\ UNCHANGED <<fails, open, cooling>>

Refused(c) ==
  /\ open /\ (cooling > 0 \/ halfOpen)
  /\ call' = [call EXCEPT ![c] = Idle]
  /\ UNCHANGED <<breakerVars, notice>>

\* List: the first breakerAllow.
Enter(c) ==
  /\ call[c].at = "idle" /\ Free(c)
  /\ AllowPlain(c, "waiting") \/ AllowProbe(c, "waiting")
  /\ UNCHANGED <<gauge, healthy>>

SlotFree == Cardinality(Busy) < MaxConcurrent

\* A slot becomes free.
Acquire(c) ==
  /\ call[c].at = "waiting" /\ Free(c)
  /\ SlotFree
  /\ Move(c, IF call[c].probe THEN "running" ELSE "slot", call[c].probe, call[c].gen)
  /\ UNCHANGED <<breakerVars, notice, gauge, healthy>>

\* The permit of a call that waited may be out of date: breakerAllow again.
Recheck(c) ==
  /\ call[c].at = "slot"
  /\ AllowPlain(c, "running") \/ AllowProbe(c, "running") \/ Refused(c)
  /\ UNCHANGED <<gauge, healthy>>

\* Mistake: answers of earlier generations count.
AnyGeneration(c) == TRUE

\* The permit belongs to the current generation.
Current(c) == call[c].gen = generation

\* Mistake: a cancelled probe keeps its claim.
AbortKeepsClaim(c) == UNCHANGED <<breakerVars, notice>>

\* breakerAbort: a probe ends without an answer.
Abort(c) ==
  IF call[c].probe /\ Current(c)
  THEN /\ NotLast
       /\ halfOpen' = FALSE
       /\ generation' = generation + 1
       /\ Announce(c, "open")
       /\ UNCHANGED <<fails, open, cooling>>
  ELSE UNCHANGED <<breakerVars, notice>>

\* The caller left, or waited too long for a slot.
Cancel(c) ==
  /\ ~healthy
  /\ call[c].at \in {"waiting", "running"} /\ Free(c)
  /\ Abort(c)
  /\ call' = [call EXCEPT ![c] = Idle]
  /\ UNCHANGED <<gauge, healthy>>

\* breakerFinish after a good answer.
Succeed(c) ==
  /\ call[c].at = "running" /\ Free(c)
  /\ call' = [call EXCEPT ![c] = Idle]
  /\ \/ /\ ~Current(c)
        /\ UNCHANGED <<breakerVars, notice>>
     \/ /\ Current(c)
        /\ fails' = 0
        /\ open' = FALSE
        /\ cooling' = 0
        /\ halfOpen' = FALSE
        /\ IF call[c].probe
           THEN /\ NotLast
                /\ generation' = generation + 1
                /\ Announce(c, "closed")
           ELSE UNCHANGED <<generation, notice>>
  /\ UNCHANGED <<gauge, healthy>>

\* breakerFinish after a failure.
Fail(c) ==
  LET counted == IF fails < FailureLimit THEN fails + 1 ELSE FailureLimit
      trips == call[c].probe \/ counted = FailureLimit
  IN
  /\ ~healthy
  /\ call[c].at = "running" /\ Free(c)
  /\ call' = [call EXCEPT ![c] = Idle]
  /\ \/ /\ ~Current(c)
        /\ UNCHANGED <<breakerVars, notice>>
     \/ /\ Current(c)
        /\ fails' = counted
        /\ halfOpen' = (halfOpen /\ ~call[c].probe)
        /\ IF trips
           THEN /\ NotLast
                /\ open' = TRUE
                /\ cooling' = Cooldown
                /\ generation' = generation + 1
                /\ Announce(c, "open")
           ELSE UNCHANGED <<open, cooling, generation, notice>>
  /\ UNCHANGED <<gauge, healthy>>

\* Mistake: the gauge takes whatever comes last.
TakesAny(n) == TRUE

\* Metrics.SetCircuit, outside the lock: notices may arrive out of order.
Takes(n) == gauge.gen <= n.gen

SetCircuit(c) ==
  /\ ~Free(c)
  /\ gauge' = IF Takes(notice[c]) THEN notice[c] ELSE gauge
  /\ notice' = [notice EXCEPT ![c] = NoNotice]
  /\ UNCHANGED <<breakerVars, call, healthy>>

Tick ==
  /\ cooling > 0
  /\ cooling' = cooling - 1
  /\ UNCHANGED <<fails, open, halfOpen, generation, call, notice, gauge, healthy>>

\* Nothing in the code: the upstream recovers.
Heal ==
  /\ ~healthy
  /\ healthy' = TRUE
  /\ UNCHANGED <<breakerVars, call, notice, gauge>>

Step(c) == \/ Enter(c)
           \/ Acquire(c)
           \/ Recheck(c)
           \/ Succeed(c)
           \/ SetCircuit(c)

AlertNext ==
  \/ \E c \in Caller : Step(c) \/ Cancel(c) \/ Fail(c)
  \/ Tick

AlertSpec == AlertInit /\ [][AlertNext]_alertVars

\* Calls end (each has a deadline), the cooldown passes, callers come again.
FairAlertSpec ==
  /\ AlertInit /\ [][AlertNext \/ Heal]_alertVars
  /\ WF_alertVars(Tick)
  /\ \A c \in Caller : /\ WF_alertVars(Step(c))
                       /\ SF_alertVars(Acquire(c))

-----------------------------------------------------------------------------
(* Properties *)

Phase == IF halfOpen THEN "probing" ELSE IF open THEN "open" ELSE "closed"

Breaker == INSTANCE Circuit WITH phase <- Phase, probes <- {c \in Caller : call[c].probe}

\* The breaker implements the abstract circuit: one probe at a time, and no
\* late answer of an ordinary request opens or closes what the probe decides.
ImplementsCircuit == Breaker!CircuitSpec

\* When no notification is under way the gauge shows the circuit, whatever
\* order the notifications of concurrent calls arrived in.
GaugeAgrees ==
  (\A c \in Caller : Free(c)) =>
    gauge.state = CASE Phase = "probing" -> "half_open"
                    [] Phase = "open" -> "open"
                    [] Phase = "closed" -> "closed"

\* A recovered upstream is used again: no order of probes, cancellations and
\* late answers leaves the circuit open for ever.
RecoveredIsUsed == healthy ~> ~open
=============================================================================
