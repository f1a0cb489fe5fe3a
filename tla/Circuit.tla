------------------------------ MODULE Circuit ------------------------------
(***************************************************************************)
(* What a circuit breaker promises: a failing upstream is left alone       *)
(* except for one probe at a time, and only the outcome of that probe      *)
(* decides whether the circuit closes.                                     *)
(***************************************************************************)
CONSTANT Caller

VARIABLES
  phase,   \* "closed", "open" or "probing"
  probes   \* the callers whose request is a probe

circuitVars == <<phase, probes>>

CircuitInit == phase = "closed" /\ probes = {}

Trip == phase = "closed" /\ phase' = "open" /\ UNCHANGED probes

Probe(c) == phase = "open" /\ phase' = "probing" /\ probes = {} /\ probes' = {c}

Recover == phase = "probing" /\ phase' = "closed" /\ probes' = {}

Relapse == phase = "probing" /\ phase' = "open" /\ probes' = {}

CircuitNext ==
  \/ Trip
  \/ \E c \in Caller : Probe(c)
  \/ Recover
  \/ Relapse

CircuitSpec == CircuitInit /\ [][CircuitNext]_circuitVars
=============================================================================
