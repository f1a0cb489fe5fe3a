--------------------------- MODULE UpstreamCircuit ---------------------------
(***************************************************************************)
(* The circuit breaker of the HTTP client that the Greptime and Quickwit   *)
(* sources share (upstream.Client).  Unlike the one of the Alertmanager    *)
(* source its permits carry no generation: an answer counts whenever it    *)
(* arrives.                                                                *)
(*                                                                         *)
(* A call is one doJSON with its retry inside; only its outcome matters to *)
(* the breaker.  Time is discrete: `wait` is what remains of the cooldown, *)
(* and every call ends within the timeout of the client.                   *)
(***************************************************************************)
EXTENDS Integers, FiniteSets

CONSTANTS
  Caller,
  None,
  Threshold,      \* breakerThreshold
  Cooldown,       \* breakerCooldown
  Timeout,        \* the timeout of a logical call
  MaxGeneration   \* bound of the model

ASSUME UpstreamAssumption ==
  /\ {Threshold, Cooldown, Timeout, MaxGeneration} \subseteq Nat \ {0}
  /\ None \notin [probe : BOOLEAN, age : Nat]

VARIABLES
  failures,   \* breakerFailures, counted up to Threshold
  open,       \* breakerOpenUntil is set
  wait,       \* the time until breakerOpenUntil
  halfOpen,
  state,      \* circuitState
  gen,        \* circuitGen
  call,       \* call[c]: None, or the call of c
  notice,     \* notice[c]: the SetCircuit call that c is about to make
  gauge       \* the circuit gauge of the metrics

circuit == <<failures, open, wait, halfOpen, state, gen>>
upstreamVars == <<circuit, call, notice, gauge>>

CircuitState == {"closed", "open", "half_open"}
Notice == [state : CircuitState, gen : 0 .. MaxGeneration]

UpstreamTypeOK ==
  /\ failures \in 0 .. Threshold
  /\ open \in BOOLEAN
  /\ wait \in 0 .. Cooldown
  /\ halfOpen \in BOOLEAN
  /\ state \in CircuitState
  /\ gen \in 0 .. MaxGeneration
  /\ call \in [Caller -> [probe : BOOLEAN, age : 0 .. Timeout] \cup {None}]
  /\ notice \in [Caller -> Notice \cup {None}]
  /\ gauge \in Notice

UpstreamInit ==
  /\ failures = 0
  /\ open = FALSE
  /\ wait = 0
  /\ halfOpen = FALSE
  /\ state = "closed"
  /\ gen = 0
  /\ call = [c \in Caller |-> None]
  /\ notice = [c \in Caller |-> None]
  /\ gauge = [state |-> "closed", gen |-> 0]

-----------------------------------------------------------------------------

\* c is not between the unlock and its SetCircuit call.
Free(c) == notice[c] = None

\* The circuit enters a state and c is going to report it.
Enters(c, s) ==
  /\ gen < MaxGeneration
  /\ gen' = gen + 1
  /\ state' = s
  /\ notice' = [notice EXCEPT ![c] = [state |-> s, gen |-> gen + 1]]

Begin(c, probe) == call' = [call EXCEPT ![c] = [probe |-> probe, age |-> 0]]

\* breakerAllow; a refused call leaves no trace.
Allow(c) ==
  /\ call[c] = None /\ Free(c)
  /\ \/ /\ ~open
        /\ Begin(c, FALSE)
        /\ UNCHANGED <<circuit, notice>>
     \/ /\ open /\ wait = 0 /\ ~halfOpen
        /\ halfOpen' = TRUE
        /\ Enters(c, "half_open")
        /\ Begin(c, TRUE)
        /\ UNCHANGED <<failures, open, wait>>
  /\ UNCHANGED gauge

End(c) == /\ call[c] # None /\ Free(c)
          /\ call' = [call EXCEPT ![c] = None]
          /\ UNCHANGED gauge

\* breakerFinish after an answer: the circuit closes, whoever got it.
Succeed(c) ==
  /\ End(c)
  /\ failures' = 0
  /\ open' = FALSE
  /\ wait' = 0
  /\ halfOpen' = FALSE
  /\ IF state = "closed" THEN UNCHANGED <<state, gen, notice>> ELSE Enters(c, "closed")

\* Mistake: only a counted failure gives the claim back.
ClaimAfterKept(c) == halfOpen

\* The probe is over, also when nothing is counted.
ClaimAfter(c) == halfOpen /\ ~call[c].probe

\* breakerFinish without a count: the caller left, or the query was bad.
Uncounted(c) ==
  /\ End(c)
  /\ halfOpen' = ClaimAfter(c)
  /\ UNCHANGED <<failures, open, wait, state, gen, notice>>

OpenFor == Cooldown

\* breakerFinish after a counted failure.
Fail(c) ==
  LET counted == IF failures < Threshold THEN failures + 1 ELSE Threshold
  IN
  /\ End(c)
  /\ failures' = counted
  /\ IF call[c].probe \/ counted = Threshold
     THEN /\ open' = TRUE
          /\ wait' = OpenFor
          /\ halfOpen' = FALSE
          /\ Enters(c, "open")
     ELSE UNCHANGED <<open, wait, halfOpen, state, gen, notice>>

\* Metrics.SetCircuit: notices may arrive out of order.
Takes(n) == gauge.gen <= n.gen

SetCircuit(c) ==
  /\ ~Free(c)
  /\ gauge' = IF Takes(notice[c]) THEN notice[c] ELSE gauge
  /\ notice' = [notice EXCEPT ![c] = None]
  /\ UNCHANGED <<circuit, call>>

\* Time passes; no call outlives its deadline.
Tick ==
  /\ \A c \in Caller : call[c] # None => call[c].age < Timeout
  /\ wait' = IF wait > 0 THEN wait - 1 ELSE 0
  /\ call' = [c \in Caller |-> IF call[c] = None THEN None
                                ELSE [call[c] EXCEPT !.age = @ + 1]]
  /\ UNCHANGED <<failures, open, halfOpen, state, gen, notice, gauge>>

UpstreamNext ==
  \/ \E c \in Caller : Allow(c) \/ Succeed(c) \/ Uncounted(c) \/ Fail(c) \/ SetCircuit(c)
  \/ Tick

UpstreamSpec == UpstreamInit /\ [][UpstreamNext]_upstreamVars

-----------------------------------------------------------------------------
(* Properties *)

Probes == {c \in Caller : call[c] # None /\ call[c].probe}

\* While the half-open claim is held some probe is under way that will give it
\* back: a cancelled, rejected or overtaken probe never blocks the circuit.
ClaimIsHeld == halfOpen => open /\ Probes # {}

\* upstream_test.go:142, "network hits=%d, want initial failure + one probe":
\* at most one probe talks to a failing upstream.  Violated: a late failure of
\* an ordinary call clears the claim of the probe under way.
AtMostOneProbe == Cardinality(Probes) <= 1
=============================================================================
