------------------------- MODULE AlertCircuitProofs -------------------------
(***************************************************************************)
(* Theorems about AlertCircuit, for any set of callers and any limits, and *)
(* about what becomes of the lists it lets through: AlertGroups, for any   *)
(* alerts, catalogs and targets, and AlertPoller, for any scopes.          *)
(***************************************************************************)
EXTENDS AlertCircuit, AlertPoller, SumLemmas, FiniteSetTheorems, TLAPS

\* Every step of the fair specification.
AlertStep == AlertNext \/ Heal

-----------------------------------------------------------------------------
(* Types *)

\* A call that is moved gets the type of a call, and it takes a slot only when
\* it is put at "slot" or "running".
LEMMA MoveType ==
  ASSUME AlertTypeOK, NEW c \in Caller, NEW probe \in BOOLEAN, NEW gen \in Generation,
         NEW at \in {"idle", "waiting", "slot", "running"}, Move(c, at, probe, gen)
  PROVE  /\ call' \in [Caller -> Call]
         /\ at \notin {"slot", "running"} => Busy' = Busy \ {c}
         /\ at \in {"slot", "running"} => Busy' = Busy \cup {c}
<1>1. call' = [call EXCEPT ![c] = [at |-> at, probe |-> probe, gen |-> gen]]
  BY DEF Move
<1>2. call \in [Caller -> Call] /\ [at |-> at, probe |-> probe, gen |-> gen] \in Call
  BY DEF AlertTypeOK, Call
<1>3. call' \in [Caller -> Call]
  BY <1>1, <1>2
<1>4. \A d \in Caller : call'[d].at = IF d = c THEN at ELSE call[d].at
  BY <1>1, <1>2
<1> QED
  BY <1>3, <1>4 DEF Busy

\* The number of busy slots stays within the limit when a call leaves its slot,
\* when it keeps the slot, and when it takes a free one.
LEMMA SlotsKept ==
  ASSUME AlertTypeOK, NEW c \in Caller,
         \/ Busy' = Busy \ {c}
         \/ Busy' = Busy \cup {c} /\ (c \in Busy \/ SlotFree)
  PROVE  IsFiniteSet(Busy') /\ Cardinality(Busy') <= MaxConcurrent
<1>1. IsFiniteSet(Busy) /\ Cardinality(Busy) <= MaxConcurrent /\ MaxConcurrent \in Nat
  BY AlertAssumption DEF AlertTypeOK
<1>2. Cardinality(Busy) \in Nat
  BY <1>1, FS_CardinalityType
<1>3. CASE Busy' = Busy \ {c}
  <2>1. IsFiniteSet(Busy') /\ Cardinality(Busy') <= Cardinality(Busy)
    BY <1>1, <1>3, FS_Subset
  <2>2. Cardinality(Busy') \in Nat
    BY <2>1, FS_CardinalityType
  <2> QED
    BY <1>1, <1>2, <2>1, <2>2
<1>4. CASE Busy' = Busy \cup {c} /\ c \in Busy
  <2>1. Busy' = Busy
    BY <1>4
  <2> QED
    BY <1>1, <2>1
<1>5. CASE Busy' = Busy \cup {c} /\ c \notin Busy /\ SlotFree
  <2>1. IsFiniteSet(Busy \cup {c}) /\ Cardinality(Busy \cup {c}) = Cardinality(Busy) + 1
    BY <1>1, <1>5, FS_AddElement
  <2>2. Cardinality(Busy) < MaxConcurrent
    BY <1>5 DEF SlotFree
  <2>3. Cardinality(Busy) + 1 <= MaxConcurrent
    BY <1>1, <1>2, <2>2
  <2>4. Busy' = Busy \cup {c}
    BY <1>5
  <2> QED
    BY <2>1, <2>3, <2>4
<1> QED
  BY <1>3, <1>4, <1>5

\* A call that goes on in its slot, or does not need one, keeps the limit.
LEMMA MoveSlots ==
  ASSUME AlertTypeOK, NEW c \in Caller, NEW probe \in BOOLEAN, NEW gen \in Generation,
         NEW at \in {"waiting", "running"}, Move(c, at, probe, gen),
         at = "waiting" \/ c \in Busy
  PROVE  /\ call' \in [Caller -> Call]
         /\ IsFiniteSet(Busy') /\ Cardinality(Busy') <= MaxConcurrent
<1>1. call' \in [Caller -> Call] /\ (at = "waiting" => Busy' = Busy \ {c})
      /\ (at = "running" => Busy' = Busy \cup {c})
  BY MoveType
<1>2. CASE at = "waiting"
  BY <1>1, <1>2, SlotsKept
<1>3. CASE at = "running"
  BY <1>1, <1>3, SlotsKept
<1> QED
  BY <1>2, <1>3, <1>1

\* A notice about the new generation.
LEMMA AnnounceType ==
  ASSUME AlertTypeOK, NEW c \in Caller, NEW state \in {"closed", "open", "half_open"},
         generation' \in Generation, Announce(c, state)
  PROVE  notice' \in [Caller -> Notice \cup {NoNotice}]
BY DEF AlertTypeOK, Announce, Notice

\* The generation may grow while it is not the last.
LEMMA NextGeneration ==
  ASSUME AlertTypeOK, NotLast
  PROVE  generation + 1 \in Generation
BY AlertAssumption DEF AlertTypeOK, NotLast, Generation

\* breakerAllow, wherever it sends the call, keeps the types of the breaker.
LEMMA AllowType ==
  ASSUME AlertTypeOK, NEW c \in Caller, NEW at \in {"waiting", "running"},
         AllowPlain(c, at) \/ AllowProbe(c, at),
         at = "waiting" \/ c \in Busy,
         UNCHANGED <<gauge, healthy>>
  PROVE  AlertTypeOK'
<1>1. CASE AllowPlain(c, at)
  <2>0. Move(c, at, FALSE, generation) /\ generation \in Generation
    BY <1>1 DEF AllowPlain, AlertTypeOK
  <2>1. /\ call' \in [Caller -> Call]
        /\ IsFiniteSet(Busy') /\ Cardinality(Busy') <= MaxConcurrent
    BY <2>0, MoveSlots
  <2> QED
    BY <1>1, <2>1 DEF AllowPlain, AlertTypeOK, breakerVars
<1>2. CASE AllowProbe(c, at)
  <2>1. generation' \in Generation
    BY <1>2, NextGeneration DEF AllowProbe
  <2>2. /\ call' \in [Caller -> Call]
        /\ IsFiniteSet(Busy') /\ Cardinality(Busy') <= MaxConcurrent
    <3>1. Move(c, at, TRUE, generation')
      BY <1>2 DEF AllowProbe
    <3> QED
      BY <2>1, <3>1, MoveSlots
  <2>3. notice' \in [Caller -> Notice \cup {NoNotice}]
    BY <1>2, <2>1, AnnounceType DEF AllowProbe
  <2> QED
    BY <1>2, <2>1, <2>2, <2>3 DEF AllowProbe, AlertTypeOK
<1> QED
  BY <1>1, <1>2

\* A call that ends frees its slot.
LEMMA EndType ==
  ASSUME AlertTypeOK, NEW c \in Caller, call' = [call EXCEPT ![c] = Idle]
  PROVE  /\ call' \in [Caller -> Call]
         /\ IsFiniteSet(Busy') /\ Cardinality(Busy') <= MaxConcurrent
<1>1. 0 \in Generation
  BY AlertAssumption DEF Generation
<1>2. Move(c, "idle", FALSE, 0)
  BY DEF Move, Idle
<1> QED
  BY <1>1, <1>2, MoveType, SlotsKept

\* Every step keeps the types and the number of slots.
LEMMA AlertTypeStep == AlertTypeOK /\ [AlertStep]_alertVars => AlertTypeOK'
<1> SUFFICES ASSUME AlertTypeOK, [AlertStep]_alertVars PROVE AlertTypeOK'
  OBVIOUS
<1>0. FailureLimit \in Nat \ {0} /\ Cooldown \in Nat \ {0}
  BY AlertAssumption
<1>1. ASSUME NEW c \in Caller, Enter(c) PROVE AlertTypeOK'
  BY <1>1, AllowType DEF Enter
<1>2. ASSUME NEW c \in Caller, Acquire(c) PROVE AlertTypeOK'
  <2>1. /\ call' \in [Caller -> Call]
        /\ IsFiniteSet(Busy') /\ Cardinality(Busy') <= MaxConcurrent
    <3>1. call[c] \in Call
      BY DEF AlertTypeOK
    <3> QED
      BY <1>2, <3>1, MoveType, SlotsKept DEF Acquire, Call
  <2> QED
    BY <1>2, <2>1 DEF Acquire, AlertTypeOK, breakerVars
<1>3. ASSUME NEW c \in Caller, Recheck(c) PROVE AlertTypeOK'
  <2>1. c \in Busy
    BY <1>3 DEF Recheck, Busy
  <2>2. CASE Refused(c)
    BY <1>3, <2>2, EndType DEF Refused, Recheck, AlertTypeOK, breakerVars
  <2> QED
    BY <1>3, <2>1, <2>2, AllowType DEF Recheck
<1>4. ASSUME NEW c \in Caller, Cancel(c) PROVE AlertTypeOK'
  <2>1. /\ call' \in [Caller -> Call]
        /\ IsFiniteSet(Busy') /\ Cardinality(Busy') <= MaxConcurrent
    BY <1>4, EndType DEF Cancel
  <2>2. CASE call[c].probe /\ Current(c)
    BY <1>4, <2>1, <2>2, NextGeneration, AnnounceType DEF Cancel, Abort, AlertTypeOK
  <2>3. CASE ~(call[c].probe /\ Current(c))
    BY <1>4, <2>1, <2>3 DEF Cancel, Abort, AlertTypeOK, breakerVars
  <2> QED
    BY <2>2, <2>3
<1>5. ASSUME NEW c \in Caller, Succeed(c) PROVE AlertTypeOK'
  <2>1. /\ call' \in [Caller -> Call]
        /\ IsFiniteSet(Busy') /\ Cardinality(Busy') <= MaxConcurrent
    BY <1>5, EndType DEF Succeed
  <2>2. CASE ~Current(c)
    BY <1>5, <2>1, <2>2 DEF Succeed, AlertTypeOK, breakerVars
  <2>n. 0 \in 0 .. FailureLimit /\ 0 \in 0 .. Cooldown
    BY <1>0
  <2>t. Current(c) => /\ fails' \in 0 .. FailureLimit /\ cooling' \in 0 .. Cooldown
                      /\ open' \in BOOLEAN /\ halfOpen' \in BOOLEAN
    BY <1>5, <2>n, Zenon DEF Succeed
  <2>u. gauge' \in Notice /\ healthy' \in BOOLEAN
    BY <1>5 DEF Succeed, AlertTypeOK
  <2>3. CASE Current(c) /\ call[c].probe
    <3>1. generation' \in Generation /\ Announce(c, "closed")
      BY <1>5, <2>3, NextGeneration DEF Succeed
    <3>2. notice' \in [Caller -> Notice \cup {NoNotice}]
      BY <3>1, AnnounceType
    <3> QED
      BY <2>1, <2>t, <2>u, <2>3, <3>1, <3>2 DEF AlertTypeOK
  <2>4. CASE Current(c) /\ ~call[c].probe
    <3>1. UNCHANGED <<generation, notice>>
      BY <1>5, <2>4 DEF Succeed
    <3> QED
      BY <2>1, <2>t, <2>u, <2>4, <3>1 DEF AlertTypeOK
  <2> QED
    BY <2>2, <2>3, <2>4
<1>6. ASSUME NEW c \in Caller, Fail(c) PROVE AlertTypeOK'
  <2> DEFINE counted == IF fails < FailureLimit THEN fails + 1 ELSE FailureLimit
  <2>1. /\ call' \in [Caller -> Call]
        /\ IsFiniteSet(Busy') /\ Cardinality(Busy') <= MaxConcurrent
    BY <1>6, EndType DEF Fail
  <2>2. counted \in 0 .. FailureLimit
    BY <1>0 DEF AlertTypeOK
  <2>b. Current(c) => fails' \in 0 .. FailureLimit /\ halfOpen' \in BOOLEAN
    BY <1>6, <2>2, Zenon DEF Fail
  <2>u. gauge' \in Notice /\ healthy' \in BOOLEAN
    BY <1>6 DEF Fail, AlertTypeOK
  <2>3. CASE ~Current(c)
    BY <1>6, <2>1, <2>3 DEF Fail, AlertTypeOK, breakerVars
  <2>4. CASE Current(c) /\ (call[c].probe \/ counted = FailureLimit)
    <3>1. generation' \in Generation /\ Announce(c, "open")
      BY <1>6, <2>4, NextGeneration DEF Fail
    <3>2. notice' \in [Caller -> Notice \cup {NoNotice}]
      BY <3>1, AnnounceType
    <3> QED
      <4>1. open' = TRUE /\ cooling' = Cooldown
        BY <1>6, <2>4 DEF Fail
      <4>2. Cooldown \in 0 .. Cooldown /\ TRUE \in BOOLEAN
        BY <1>0
      <4>3. open' \in BOOLEAN /\ cooling' \in 0 .. Cooldown
        BY <4>1, <4>2, Zenon
      <4> QED
        BY <2>1, <2>b, <2>u, <2>4, <3>1, <3>2, <4>3 DEF AlertTypeOK
  <2>5. CASE Current(c) /\ ~(call[c].probe \/ counted = FailureLimit)
    <3>1. UNCHANGED <<open, cooling, generation, notice>>
      BY <1>6, <2>5 DEF Fail
    <3> QED
      BY <2>1, <2>b, <2>u, <2>5, <3>1 DEF AlertTypeOK
  <2> QED
    BY <2>3, <2>4, <2>5
<1>7. ASSUME NEW c \in Caller, SetCircuit(c) PROVE AlertTypeOK'
  <2>1. notice[c] \in Notice
    BY <1>7 DEF SetCircuit, Free, AlertTypeOK
  <2>2. gauge' \in Notice /\ notice' \in [Caller -> Notice \cup {NoNotice}]
    BY <1>7, <2>1 DEF SetCircuit, AlertTypeOK
  <2> QED
    BY <1>7, <2>2 DEF SetCircuit, AlertTypeOK, breakerVars, Busy
<1>8. CASE Tick
  BY <1>0, <1>8 DEF Tick, AlertTypeOK, Busy
<1>9. CASE Heal
  BY <1>9 DEF Heal, AlertTypeOK, breakerVars, Busy
<1>10. CASE UNCHANGED alertVars
  BY <1>10 DEF alertVars, AlertTypeOK, breakerVars, Busy
<1> QED
  BY <1>1, <1>2, <1>3, <1>4, <1>5, <1>6, <1>7, <1>8, <1>9, <1>10
     DEF AlertStep, AlertNext, Step

\* The start.
LEMMA AlertTypeStart == AlertInit => AlertTypeOK
<1> SUFFICES ASSUME AlertInit PROVE AlertTypeOK
  OBVIOUS
<1>1. Busy = {}
  BY DEF AlertInit, Idle, Busy
<1>2. IsFiniteSet(Busy) /\ Cardinality(Busy) <= MaxConcurrent
  BY <1>1, FS_EmptySet, AlertAssumption
<1>3. 0 \in Generation /\ Idle \in Call /\ [state |-> "closed", gen |-> 0] \in Notice
  BY AlertAssumption DEF Generation, Idle, Call, Notice
<1>4. 0 \in 0 .. FailureLimit /\ 0 \in 0 .. Cooldown
  BY AlertAssumption
<1>5. call \in [Caller -> Call] /\ notice \in [Caller -> Notice \cup {NoNotice}]
  BY <1>3 DEF AlertInit
<1> QED
  BY <1>2, <1>3, <1>4, <1>5, Zenon DEF AlertInit, AlertTypeOK

\* Every reachable state has its types, and never are more slots taken than
\* there are, however calls wait, are cancelled and answered.
THEOREM AlertTypeCorrect == FairAlertSpec => []AlertTypeOK
BY AlertTypeStart, AlertTypeStep, PTL DEF FairAlertSpec, AlertStep

-----------------------------------------------------------------------------
(* The probe *)

\* Why a late answer cannot decide anything.  A probe belongs to the current
\* generation and to the half-open circuit, and is alone; while the circuit is
\* open, every other call under way has a permit of an earlier generation.
CircuitInv ==
  /\ halfOpen => open
  /\ \A c \in Caller : call[c].gen <= generation
  /\ \A c \in Caller : call[c].probe =>
       halfOpen /\ call[c].gen = generation /\ call[c].at \in {"waiting", "running"}
  /\ \A c, d \in Caller : call[c].probe /\ call[d].probe => c = d
  /\ open => \A c \in Caller :
       call[c].at # "idle" /\ ~call[c].probe => call[c].gen < generation

ProbeSet == {c \in Caller : call[c].probe}

\* What a call looks like after a step of c that moves it.
LEMMA Moved ==
  ASSUME AlertTypeOK, NEW c \in Caller, NEW at, NEW probe, NEW gen, Move(c, at, probe, gen)
  PROVE  /\ call'[c].at = at /\ call'[c].probe = probe /\ call'[c].gen = gen
         /\ \A d \in Caller \ {c} : call'[d] = call[d]
BY DEF AlertTypeOK, Move

\* What it looks like after c's call has ended.
LEMMA Ended ==
  ASSUME AlertTypeOK, NEW c \in Caller, call' = [call EXCEPT ![c] = Idle]
  PROVE  /\ call'[c].at = "idle" /\ call'[c].probe = FALSE /\ call'[c].gen = 0
         /\ \A d \in Caller \ {c} : call'[d] = call[d]
BY DEF AlertTypeOK, Idle

\* The types that arithmetic on generations needs.
LEMMA GenerationType ==
  ASSUME AlertTypeOK
  PROVE  /\ generation \in Nat
         /\ \A c \in Caller : call[c].gen \in Nat /\ call[c] \in Call
BY AlertAssumption DEF AlertTypeOK, Generation, Call

\* A call that breakerAllow lets pass as an ordinary one.
LEMMA PlainAllowed ==
  ASSUME AlertTypeOK, CircuitInv, NEW c \in Caller, NEW at, ~call[c].probe, AllowPlain(c, at)
  PROVE  CircuitInv' /\ UNCHANGED <<Phase, ProbeSet>>
<1>1. /\ call'[c].probe = FALSE /\ call'[c].gen = generation
      /\ \A d \in Caller \ {c} : call'[d] = call[d]
  BY Moved DEF AllowPlain
<1>2. ~open /\ UNCHANGED <<open, halfOpen, generation>>
  BY DEF AllowPlain, breakerVars
<1>3. CircuitInv'
  BY <1>1, <1>2, GenerationType DEF CircuitInv
<1>4. ProbeSet' = ProbeSet
  BY <1>1 DEF ProbeSet
<1> QED
  BY <1>2, <1>3, <1>4 DEF Phase

\* A call that breakerAllow makes the probe.
LEMMA ProbeAllowed ==
  ASSUME AlertTypeOK, CircuitInv, NEW c \in Caller, NEW at \in {"waiting", "running"},
         AllowProbe(c, at)
  PROVE  CircuitInv' /\ Breaker!Probe(c)
<1>1. /\ call'[c].at = at /\ call'[c].probe = TRUE /\ call'[c].gen = generation'
      /\ \A d \in Caller \ {c} : call'[d] = call[d]
  BY Moved DEF AllowProbe
<1>2. /\ open /\ ~halfOpen /\ open' = open /\ halfOpen' = TRUE
      /\ generation' = generation + 1
  BY DEF AllowProbe
<1>3. \A d \in Caller : ~call[d].probe
  BY <1>2 DEF CircuitInv
<1>4. CircuitInv'
  BY <1>1, <1>2, <1>3, GenerationType DEF CircuitInv
<1>5. ProbeSet = {} /\ ProbeSet' = {c}
  BY <1>1, <1>3 DEF ProbeSet
<1>6. Phase = "open" /\ Phase' = "probing"
  BY <1>2 DEF Phase
<1> QED
  BY <1>4, <1>5, <1>6 DEF Breaker!Probe, ProbeSet

\* A call that ends while the breaker stays as it is was no probe, or else the
\* circuit changes with it.
LEMMA PlainEnded ==
  ASSUME AlertTypeOK, CircuitInv, NEW c \in Caller, ~call[c].probe,
         call' = [call EXCEPT ![c] = Idle], UNCHANGED <<open, halfOpen, generation>>
  PROVE  CircuitInv' /\ UNCHANGED <<Phase, ProbeSet>>
<1>0. /\ call'[c].at = "idle" /\ call'[c].probe = FALSE /\ call'[c].gen = 0
      /\ \A d \in Caller \ {c} : call'[d] = call[d]
  BY Ended
<1>1. CircuitInv'
  BY <1>0, GenerationType DEF CircuitInv
<1>2. ProbeSet' = ProbeSet
  BY <1>0 DEF ProbeSet
<1> QED
  BY <1>1, <1>2 DEF Phase

\* The probe ends: the circuit closes, or opens again.
LEMMA ProbeEnded ==
  ASSUME AlertTypeOK, CircuitInv, NEW c \in Caller, call[c].probe,
         call' = [call EXCEPT ![c] = Idle],
         halfOpen' = FALSE, generation' = generation + 1
  PROVE  /\ CircuitInv'
         /\ open' = FALSE => Breaker!Recover
         /\ open' = TRUE => Breaker!Relapse
<1>1. /\ call'[c].at = "idle" /\ call'[c].probe = FALSE /\ call'[c].gen = 0
      /\ \A d \in Caller \ {c} : call'[d] = call[d]
  BY Ended
<1>2. \A d \in Caller : ~call'[d].probe
  BY <1>1 DEF CircuitInv
<1>3. CircuitInv'
  BY <1>1, <1>2, GenerationType DEF CircuitInv
<1>4. halfOpen
  BY DEF CircuitInv
<1>5. {d \in Caller : call'[d].probe} = {}
  BY <1>2
<1> QED
  BY <1>3, <1>4, <1>5 DEF Breaker!Recover, Breaker!Relapse, Phase

\* Every step keeps CircuitInv and is a step, or a stutter, of Circuit.
LEMMA CircuitStep ==
  AlertTypeOK /\ CircuitInv /\ [AlertStep]_alertVars
    => CircuitInv' /\ [Breaker!CircuitNext]_(Breaker!circuitVars)
<1> DEFINE Goal == CircuitInv' /\ [Breaker!CircuitNext]_(Breaker!circuitVars)
<1> SUFFICES ASSUME AlertTypeOK, CircuitInv, [AlertStep]_alertVars PROVE Goal
  OBVIOUS
<1>a. UNCHANGED <<Phase, ProbeSet>> => [Breaker!CircuitNext]_(Breaker!circuitVars)
  BY DEF Breaker!circuitVars, ProbeSet
<1>b. CircuitInv /\ UNCHANGED <<open, halfOpen, generation, call>> => Goal
  BY <1>a DEF CircuitInv, Phase, ProbeSet
<1>1. ASSUME NEW c \in Caller, Enter(c) PROVE Goal
  <2>1. ~call[c].probe
    BY <1>1 DEF Enter, CircuitInv
  <2> QED
    BY <1>1, <1>a, <2>1, PlainAllowed, ProbeAllowed DEF Enter, Breaker!CircuitNext
<1>2. ASSUME NEW c \in Caller, Acquire(c) PROVE Goal
  <2> DEFINE at == IF call[c].probe THEN "running" ELSE "slot"
  <2>1. /\ call'[c].at = at /\ call'[c].probe = call[c].probe /\ call'[c].gen = call[c].gen
        /\ \A d \in Caller \ {c} : call'[d] = call[d]
    BY <1>2, Moved DEF Acquire
  <2>2. call[c].at = "waiting" /\ UNCHANGED <<open, halfOpen, generation>>
    BY <1>2 DEF Acquire, breakerVars
  <2>3. CircuitInv'
    BY <2>1, <2>2, GenerationType DEF CircuitInv
  <2>4. UNCHANGED <<Phase, ProbeSet>>
    BY <2>1, <2>2 DEF Phase, ProbeSet
  <2> QED
    BY <1>a, <2>3, <2>4
<1>3. ASSUME NEW c \in Caller, Recheck(c) PROVE Goal
  <2>1. ~call[c].probe
    BY <1>3 DEF Recheck, CircuitInv
  <2>2. CASE Refused(c)
    BY <1>a, <2>1, <2>2, PlainEnded DEF Refused, breakerVars
  <2> QED
    BY <1>3, <1>a, <2>1, <2>2, PlainAllowed, ProbeAllowed DEF Recheck, Breaker!CircuitNext
<1>4. ASSUME NEW c \in Caller, Cancel(c) PROVE Goal
  <2>1. call' = [call EXCEPT ![c] = Idle] /\ Abort(c)
    BY <1>4 DEF Cancel
  <2>2. CASE call[c].probe
    <3>1. Current(c)
      BY <2>2 DEF CircuitInv, Current
    <3>2. halfOpen' = FALSE /\ generation' = generation + 1 /\ open' = open /\ open
      BY <2>1, <2>2, <3>1 DEF Abort, CircuitInv
    <3> QED
      BY <2>1, <2>2, <3>2, ProbeEnded DEF Breaker!CircuitNext, AlertTypeOK
  <2>3. CASE ~call[c].probe
    BY <1>a, <2>1, <2>3, PlainEnded DEF Abort, breakerVars
  <2> QED
    BY <2>2, <2>3
<1>5. ASSUME NEW c \in Caller, Succeed(c) PROVE Goal
  <2>1. call' = [call EXCEPT ![c] = Idle] /\ call[c].at = "running"
    BY <1>5 DEF Succeed
  <2>2. CASE call[c].probe
    <3>1. Current(c)
      BY <2>2 DEF CircuitInv, Current
    <3>2. halfOpen' = FALSE /\ generation' = generation + 1 /\ open' = FALSE
      BY <1>5, <2>2, <3>1 DEF Succeed
    <3> QED
      BY <2>1, <2>2, <3>2, ProbeEnded DEF Breaker!CircuitNext
  <2>3. CASE ~call[c].probe
    <3>1. CASE ~Current(c)
      BY <1>5, <1>a, <2>1, <2>3, <3>1, PlainEnded DEF Succeed, breakerVars
    <3>2. CASE Current(c)
      <4>1. ~open /\ ~halfOpen
        BY <2>1, <2>3, <3>2, GenerationType DEF CircuitInv, Current
      <4>2. open' = FALSE /\ halfOpen' = FALSE /\ generation' = generation
        BY <1>5, <2>3, <3>2 DEF Succeed
      <4>3. UNCHANGED <<open, halfOpen, generation>>
        BY <4>1, <4>2 DEF AlertTypeOK
      <4> QED
        BY <1>a, <2>1, <2>3, <4>3, PlainEnded
    <3> QED
      BY <3>1, <3>2
  <2> QED
    BY <2>2, <2>3
<1>6. ASSUME NEW c \in Caller, Fail(c) PROVE Goal
  <2>1. call' = [call EXCEPT ![c] = Idle] /\ call[c].at = "running"
    BY <1>6 DEF Fail
  <2>2. CASE call[c].probe
    <3>1. Current(c)
      BY <2>2 DEF CircuitInv, Current
    <3>2. halfOpen' = FALSE /\ generation' = generation + 1 /\ open' = TRUE
      BY <1>6, <2>2, <3>1 DEF Fail
    <3> QED
      BY <2>1, <2>2, <3>2, ProbeEnded DEF Breaker!CircuitNext
  <2>3. CASE ~call[c].probe /\ ~Current(c)
    BY <1>6, <1>a, <2>1, <2>3, PlainEnded DEF Fail, breakerVars
  <2>4. CASE ~call[c].probe /\ Current(c)
    <3>1. ~open /\ ~halfOpen
      BY <2>1, <2>4, GenerationType DEF CircuitInv, Current
    <3>2. halfOpen' = FALSE
      BY <1>6, <2>4, <3>1 DEF Fail
    <3>3. CASE UNCHANGED <<open, generation>>
      <4>1. UNCHANGED halfOpen
        BY <3>1, <3>2 DEF AlertTypeOK
      <4> QED
        BY <1>a, <2>1, <2>4, <3>3, <4>1, PlainEnded
    <3>4. CASE open' = TRUE /\ generation' = generation + 1
      <4>0. /\ call'[c].at = "idle" /\ call'[c].probe = FALSE /\ call'[c].gen = 0
            /\ \A d \in Caller \ {c} : call'[d] = call[d]
        BY <2>1, Ended
      <4>1. CircuitInv'
        BY <4>0, <3>1, <3>2, <3>4, GenerationType DEF CircuitInv
      <4>2. ProbeSet' = ProbeSet
        BY <4>0, <2>4 DEF ProbeSet
      <4>3. Phase = "closed" /\ Phase' = "open"
        BY <3>1, <3>2, <3>4 DEF Phase
      <4> QED
        BY <4>1, <4>2, <4>3 DEF Breaker!CircuitNext, Breaker!Trip, ProbeSet
    <3> QED
      BY <1>6, <2>4, <3>3, <3>4 DEF Fail
  <2> QED
    BY <2>2, <2>3, <2>4
<1>7. ASSUME NEW c \in Caller, SetCircuit(c) PROVE Goal
  BY <1>7, <1>b DEF SetCircuit, breakerVars
<1>8. CASE Tick
  BY <1>8, <1>b DEF Tick
<1>9. CASE Heal
  BY <1>9, <1>b DEF Heal, breakerVars
<1>10. CASE UNCHANGED alertVars
  BY <1>10, <1>b DEF alertVars, breakerVars
<1> QED
  BY <1>1, <1>2, <1>3, <1>4, <1>5, <1>6, <1>7, <1>8, <1>9, <1>10
     DEF AlertStep, AlertNext, Step

\* The start.
LEMMA CircuitStart == AlertInit => CircuitInv /\ Breaker!CircuitInit
BY DEF AlertInit, Idle, CircuitInv, Phase, Breaker!CircuitInit

\* The breaker of the Alertmanager source is a Circuit: one probe at a time,
\* and only its outcome closes the circuit or opens it again, whatever order
\* the answers of other calls arrive in.
THEOREM AlertImplementsCircuit == FairAlertSpec => ImplementsCircuit
<1>1. AlertInit => AlertTypeOK /\ CircuitInv
  BY AlertTypeStart, CircuitStart
<1>2. AlertTypeOK /\ CircuitInv /\ [AlertStep]_alertVars => (AlertTypeOK /\ CircuitInv)'
  BY AlertTypeStep, CircuitStep
<1> QED
  BY <1>1, <1>2, CircuitStart, CircuitStep, PTL
     DEF FairAlertSpec, AlertStep, ImplementsCircuit, Breaker!CircuitSpec

-----------------------------------------------------------------------------
(* The gauge *)

\* The state that the gauge ought to show.
Shown == IF halfOpen THEN "half_open" ELSE IF open THEN "open" ELSE "closed"

\* The current generation is either on the gauge already or in a notice under
\* way, and whoever carries it carries the current state.
GaugeInv ==
  /\ gauge.gen <= generation
  /\ gauge.gen = generation => gauge.state = Shown
  /\ \A c \in Caller : ~Free(c) =>
       /\ notice[c].gen <= generation
       /\ notice[c].gen = generation => notice[c].state = Shown
  /\ \/ gauge.gen = generation
     \/ \E c \in Caller : ~Free(c) /\ notice[c].gen = generation

\* A step that enters a new state of the circuit, and will report it.
Reports(c, state) ==
  /\ generation' = generation + 1
  /\ Announce(c, state)
  /\ Shown' = state
  /\ UNCHANGED gauge

Silent == UNCHANGED <<Shown, generation, notice, gauge>>

\* The types that GaugeInv speaks of.
LEMMA NoticeType ==
  ASSUME AlertTypeOK
  PROVE  /\ gauge.gen \in Nat
         /\ \A c \in Caller : ~Free(c) => notice[c] \in Notice /\ notice[c].gen \in Nat
BY AlertAssumption DEF AlertTypeOK, Notice, Generation, Free

\* A report keeps GaugeInv.
LEMMA ReportKeeps ==
  ASSUME AlertTypeOK, GaugeInv, NEW c \in Caller,
         NEW state \in {"closed", "open", "half_open"}, Reports(c, state), AlertTypeOK'
  PROVE  GaugeInv'
<1>1. /\ notice'[c] = [state |-> state, gen |-> generation']
      /\ \A d \in Caller \ {c} : notice'[d] = notice[d]
  BY DEF Reports, Announce, AlertTypeOK
<1>2. generation' \in Generation
  BY DEF AlertTypeOK
<1>3. notice'[c] \in Notice
  BY <1>1, <1>2 DEF Notice
<1>4. notice'[c] # NoNotice /\ notice'[c].gen = generation' /\ notice'[c].state = Shown'
  BY <1>1, <1>3, NoticeAssumption DEF Reports
<1>5. generation \in Nat /\ generation' = generation + 1 /\ gauge' = gauge
  BY GenerationType DEF Reports
<1>6. \A d \in Caller \ {c} : notice'[d] # NoNotice => notice'[d].gen < generation'
  BY <1>1, <1>5, NoticeType DEF GaugeInv, Free
<1>7. gauge'.gen < generation'
  BY <1>5, NoticeType DEF GaugeInv
<1>8. \A d \in Caller : notice'[d] # NoNotice =>
        /\ notice'[d].gen <= generation'
        /\ notice'[d].gen = generation' => notice'[d].state = Shown'
  <2> SUFFICES ASSUME NEW d \in Caller, notice'[d] # NoNotice
               PROVE  /\ notice'[d].gen <= generation'
                      /\ notice'[d].gen = generation' => notice'[d].state = Shown'
    OBVIOUS
  <2>1. CASE d = c
    BY <1>4, <1>5, <2>1
  <2>2. CASE d # c
    <3>1. notice'[d] = notice[d] /\ notice[d].gen \in Nat
      BY <1>1, <2>2, NoticeType DEF Free
    <3>2. notice'[d].gen < generation'
      BY <1>6, <2>2
    <3> QED
      BY <1>5, <3>1, <3>2
  <2> QED
    BY <2>1, <2>2
<1>9. gauge'.gen <= generation' /\ gauge'.gen # generation'
  BY <1>5, <1>7, NoticeType
<1> QED
  BY <1>4, <1>8, <1>9 DEF GaugeInv, Free

\* So does a step that changes nothing the gauge should show.
LEMMA SilentKeeps == GaugeInv /\ Silent => GaugeInv'
BY DEF GaugeInv, Silent, Free

\* SetCircuit keeps it: a notice of the current generation is never refused,
\* and never replaced by an older one.
LEMMA SetKeeps ==
  ASSUME AlertTypeOK, GaugeInv, NEW c \in Caller, SetCircuit(c)
  PROVE  GaugeInv'
<1>1. /\ notice'[c] = NoNotice
      /\ \A d \in Caller \ {c} : notice'[d] = notice[d]
      /\ UNCHANGED <<generation, Shown>>
  BY DEF SetCircuit, AlertTypeOK, breakerVars, Shown
<1>2. ~Free(c) /\ gauge' = IF gauge.gen <= notice[c].gen THEN notice[c] ELSE gauge
  BY DEF SetCircuit, Takes
<1>3. /\ gauge.gen \in Nat /\ notice[c].gen \in Nat /\ generation \in Nat
      /\ notice[c].gen <= generation
  BY <1>2, NoticeType, GenerationType DEF GaugeInv
<1>4. CASE gauge.gen <= notice[c].gen
  BY <1>1, <1>2, <1>3, <1>4 DEF GaugeInv, Free
<1>5. CASE ~(gauge.gen <= notice[c].gen)
  BY <1>1, <1>2, <1>3, <1>5 DEF GaugeInv, Free
<1> QED
  BY <1>4, <1>5

\* Every step is silent, a report, or a notice that arrives.
LEMMA StepKinds ==
  ASSUME AlertTypeOK, CircuitInv, [AlertStep]_alertVars
  PROVE  \/ Silent
         \/ \E c \in Caller : SetCircuit(c)
         \/ \E c \in Caller : \E state \in {"closed", "open", "half_open"} : Reports(c, state)
<1> DEFINE Goal == \/ Silent
                   \/ \E c \in Caller : SetCircuit(c)
                   \/ \E c \in Caller : \E state \in {"closed", "open", "half_open"} :
                        Reports(c, state)
<1>a. UNCHANGED <<breakerVars, notice, gauge>> => Goal
  BY DEF Silent, breakerVars, Shown
<1>b. ASSUME NEW c \in Caller, NEW at, AllowPlain(c, at) \/ AllowProbe(c, at),
             UNCHANGED gauge
      PROVE  Goal
  <2>1. CASE AllowPlain(c, at)
    BY <1>a, <1>b, <2>1 DEF AllowPlain
  <2>2. CASE AllowProbe(c, at)
    <3>1. Reports(c, "half_open")
      BY <1>b, <2>2 DEF AllowProbe, Reports, Shown
    <3> QED
      BY <3>1
  <2> QED
    BY <1>b, <2>1, <2>2
<1>1. ASSUME NEW c \in Caller, Enter(c) PROVE Goal
  BY <1>1, <1>b DEF Enter
<1>2. ASSUME NEW c \in Caller, Acquire(c) PROVE Goal
  BY <1>2, <1>a DEF Acquire
<1>3. ASSUME NEW c \in Caller, Recheck(c) PROVE Goal
  <2>1. CASE Refused(c)
    BY <1>a, <1>3, <2>1 DEF Recheck, Refused
  <2> QED
    BY <1>3, <1>b, <2>1 DEF Recheck
<1>4. ASSUME NEW c \in Caller, Cancel(c) PROVE Goal
  <2>1. CASE call[c].probe /\ Current(c)
    <3>1. Reports(c, "open")
      BY <1>4, <2>1 DEF Cancel, Abort, Reports, Shown, CircuitInv
    <3> QED
      BY <3>1
  <2>2. CASE ~(call[c].probe /\ Current(c))
    BY <1>a, <1>4, <2>2 DEF Cancel, Abort
  <2> QED
    BY <2>1, <2>2
<1>5. ASSUME NEW c \in Caller, Succeed(c) PROVE Goal
  <2>1. CASE ~Current(c)
    BY <1>a, <1>5, <2>1 DEF Succeed
  <2>2. CASE Current(c) /\ call[c].probe
    <3>1. Reports(c, "closed")
      BY <1>5, <2>2 DEF Succeed, Reports, Shown
    <3> QED
      BY <3>1
  <2>3. CASE Current(c) /\ ~call[c].probe
    <3>1. ~open /\ ~halfOpen
      BY <1>5, <2>3, GenerationType DEF Succeed, CircuitInv, Current
    <3>2. Shown' = Shown /\ UNCHANGED <<generation, notice, gauge>>
      BY <1>5, <2>3, <3>1 DEF Succeed, Shown
    <3> QED
      BY <3>2 DEF Silent
  <2> QED
    BY <2>1, <2>2, <2>3
<1>6. ASSUME NEW c \in Caller, Fail(c) PROVE Goal
  <2>1. CASE ~Current(c)
    BY <1>a, <1>6, <2>1 DEF Fail
  <2>2. CASE Current(c)
    <3>0. ~call[c].probe => ~halfOpen
      BY <1>6, <2>2, GenerationType DEF Fail, CircuitInv, Current
    <3>1. ~halfOpen'
      BY <1>6, <2>2, <3>0, Zenon DEF Fail
    <3>2. CASE open' = TRUE /\ generation' = generation + 1 /\ Announce(c, "open")
      <4>1. Reports(c, "open")
        BY <1>6, <3>1, <3>2 DEF Fail, Reports, Shown
      <4> QED
        BY <4>1
    <3>3. CASE ~call[c].probe /\ UNCHANGED <<open, generation, notice>>
      <4>1. ~halfOpen
        BY <1>6, <2>2, <3>3, GenerationType DEF Fail, CircuitInv, Current
      <4>2. Shown' = Shown /\ UNCHANGED gauge
        BY <1>6, <3>1, <3>3, <4>1 DEF Fail, Shown
      <4> QED
        BY <3>3, <4>2 DEF Silent
    <3> QED
      BY <1>6, <2>2, <3>2, <3>3 DEF Fail
  <2> QED
    BY <2>1, <2>2
<1>8. CASE Tick
  BY <1>8 DEF Tick, Silent, Shown
<1>9. CASE Heal
  BY <1>a, <1>9 DEF Heal
<1>10. CASE UNCHANGED alertVars
  BY <1>a, <1>10 DEF alertVars
<1> QED
  BY <1>1, <1>2, <1>3, <1>4, <1>5, <1>6, <1>8, <1>9, <1>10
     DEF AlertStep, AlertNext, Step

\* Every step keeps GaugeInv.
LEMMA GaugeStep ==
  AlertTypeOK /\ CircuitInv /\ GaugeInv /\ [AlertStep]_alertVars => GaugeInv'
BY StepKinds, SilentKeeps, SetKeeps, ReportKeeps, AlertTypeStep

\* When nothing is under way the gauge shows the circuit, in whatever order the
\* notices of concurrent calls arrived.
THEOREM GaugeIsRight == FairAlertSpec => []GaugeAgrees
<1>1. AlertInit => AlertTypeOK /\ CircuitInv /\ GaugeInv
  <2>1. AlertInit => GaugeInv
    BY DEF AlertInit, GaugeInv, Shown, Free
  <2> QED
    BY <2>1, AlertTypeStart, CircuitStart
<1>2. AlertTypeOK /\ CircuitInv /\ GaugeInv /\ [AlertStep]_alertVars
        => (AlertTypeOK /\ CircuitInv /\ GaugeInv)'
  BY AlertTypeStep, CircuitStep, GaugeStep
<1>3. CircuitInv /\ GaugeInv => GaugeAgrees
  BY DEF GaugeInv, GaugeAgrees, Phase, Shown, CircuitInv
<1> QED
  BY <1>1, <1>2, <1>3, PTL DEF FairAlertSpec, AlertStep
-----------------------------------------------------------------------------
(* The poller: a screen misses nothing but what the catalog does not back *)

\* The source links an alert only to what is of its label, and the catalog
\* knows uids.
ClaimsFit ==
  /\ DOMAIN upstream \subseteq Alert /\ catalog \subseteq Uid
  /\ \A a \in DOMAIN upstream : upstream[a].claim \in Claimable(a)

\* What a snapshot keeps of an alert.
StateOf(st) ==
  [look |-> st.look, claim |-> st.claim, domain |-> st.domain, identity |-> st.identity]

\* A signal goes to the whole cluster or to the label of its alert.
FitsLabel(snap) ==
  \A id \in DOMAIN snap :
     LabelOf[id] # ClusterWide => snap[id].domain \in {ClusterWide, LabelOf[id]}
PollInv ==
  /\ ClaimsFit
  /\ \A id \in DOMAIN snapshot : id \in Alert /\ snapshot[id] = StateOf(snapshot[id])
  /\ FitsLabel(snapshot)
  /\ ScreensFollowAlerts

\* What PollOnce compares with is of the alerts and fits their labels.
LEMMA CompleteFits ==
  ASSUME ClaimsFit, NEW current \in Complete
  PROVE  /\ \A id \in DOMAIN current : id \in Alert /\ current[id] = StateOf(current[id])
         /\ FitsLabel(current)
<1>1. current = [a \in DOMAIN upstream |-> Seen(a)]
  BY DEF Complete
<1>2. ASSUME NEW id \in DOMAIN upstream, LabelOf[id] # ClusterWide
      PROVE  Seen(id).domain \in {ClusterWide, LabelOf[id]}
  <2>1. CASE Trusted(id)
    <3>1. Seen(id).domain = NamespaceOf[upstream[id].claim]
      BY <2>1 DEF Seen
    <3>2. upstream[id].claim \in Claimable(id) /\ upstream[id].claim # Unclaimed
      BY <1>2, <2>1, AlertPollerAssumption DEF ClaimsFit, Trusted, AlertPollerAssumption
    <3> QED
      BY <1>2, <3>1, <3>2 DEF Claimable
  <2>2. CASE ~Trusted(id)
    BY <2>2 DEF Seen
  <2> QED
    BY <2>1, <2>2
<1>3. \A id \in DOMAIN current : id \in Alert /\ current[id] = StateOf(current[id])
  BY <1>1 DEF ClaimsFit, Seen, StateOf
<1> QED
  BY <1>1, <1>2, <1>3 DEF FitsLabel

\* What a scope lists of an alert.
LEMMA FetchedAgrees ==
  ASSUME NEW snap, NEW s, NEW id \in Lists(s)
  PROVE  AgreeOn(Fetched(snap, s), snap, id)
BY DEF Fetched, Restrict, AgreeOn

\* An alert that a scope lists, and of which no event of a difference is told
\* to it, is as it was, or is backed neither before nor after.
LEMMA UntoldSeesSame ==
  ASSUME NEW current, NEW s, NEW id \in Lists(s),
         FitsLabel(snapshot), FitsLabel(current),
         \A x \in DOMAIN snapshot : snapshot[x] = StateOf(snapshot[x]),
         \A x \in DOMAIN current : current[x] = StateOf(current[x]),
         \A e \in Diff(current) : ~InScope(s, e.domain)
  PROVE  \/ AgreeOn(snapshot, current, id)
         \/ s # ClusterWide /\ Unbacked(snapshot, id) /\ Unbacked(current, id)
<1> USE DEF Event
\* What is told to nobody of the scope is told to the whole cluster.
<1>1. ASSUME NEW snap, FitsLabel(snap), id \in DOMAIN snap, ~InScope(s, snap[id].domain)
      PROVE  s # ClusterWide /\ Unbacked(snap, id)
  <2>1. s # ClusterWide /\ s # snap[id].domain
    BY <1>1 DEF InScope
  <2>2. LabelOf[id] = s
    BY <2>1 DEF Lists
  <2> QED
    BY <1>1, <2>1, <2>2 DEF FitsLabel, Unbacked
<1>2. CASE id \in DOMAIN current \ DOMAIN snapshot
  <2>1. Event("added", id, current[id]) \in Diff(current)
    BY <1>2 DEF Diff
  <2>2. ~InScope(s, current[id].domain)
    BY <2>1
  <2> QED
    BY <1>1, <1>2, <2>2 DEF Unbacked
<1>3. CASE id \in DOMAIN snapshot \ DOMAIN current
  <2>1. Event("deleted", id, snapshot[id]) \in Diff(current)
    BY <1>3 DEF Diff
  <2>2. ~InScope(s, snapshot[id].domain)
    BY <2>1
  <2> QED
    BY <1>1, <1>3, <2>2 DEF Unbacked
<1>4. CASE id \in DOMAIN snapshot \cap DOMAIN current /\ MovedTo(current, id)
  <2>1. /\ Event("updated", id, current[id]) \in Diff(current)
        /\ Event("deleted", id, snapshot[id]) \in Diff(current)
    BY <1>4 DEF Diff
  <2>2. ~InScope(s, current[id].domain) /\ ~InScope(s, snapshot[id].domain)
    BY <2>1
  <2> QED
    BY <1>1, <1>4, <2>2
<1>5. CASE id \in DOMAIN snapshot \cap DOMAIN current /\ ~MovedTo(current, id) /\ EditedTo(current, id)
  <2>1. Event("updated", id, current[id]) \in Diff(current)
    BY <1>5 DEF Diff
  <2>2. ~InScope(s, current[id].domain)
    BY <2>1
  <2>3. snapshot[id].domain = current[id].domain
    BY <1>5 DEF MovedTo
  <2> QED
    BY <1>1, <1>5, <2>2, <2>3
<1>6. CASE id \in DOMAIN snapshot \cap DOMAIN current /\ ~MovedTo(current, id) /\ ~EditedTo(current, id)
  <2>1. snapshot[id] = current[id]
    BY <1>6 DEF MovedTo, EditedTo, StateOf
  <2> QED
    BY <1>6, <2>1 DEF AgreeOn
<1>7. CASE id \notin DOMAIN snapshot /\ id \notin DOMAIN current
  BY <1>7 DEF AgreeOn
<1> QED
  BY <1>2, <1>3, <1>4, <1>5, <1>6, <1>7

\* The inductive invariant: a signal goes to the whole cluster or to the label
\* of its alert, and what a screen lists follows.
LEMMA PollInvInit == AlertPollerInit => PollInv
BY DEF AlertPollerInit, PollInv, ClaimsFit, FitsLabel, ScreensFollowAlerts, AgreeOn

LEMMA PollInvStep == PollInv /\ [AlertPollerNext]_pollVars => PollInv'
<1> SUFFICES ASSUME PollInv, [AlertPollerNext]_pollVars
             PROVE  PollInv'
  OBVIOUS
<1>1. ASSUME UNCHANGED <<snapshot, screens>>, ClaimsFit'
      PROVE  PollInv'
  BY <1>1 DEF PollInv, FitsLabel, ScreensFollowAlerts, AgreeOn, Unbacked
<1>2. ASSUME UNCHANGED <<upstream, catalog>> PROVE ClaimsFit'
  BY <1>2 DEF PollInv, ClaimsFit
<1>3. CASE UNCHANGED <<upstream, catalog, snapshot, screens>>
  BY <1>1, <1>2, <1>3
<1>4. CASE PollPrimes
  <2>1. PICK current \in Complete :
          snapshot' = current /\ screens' = [s \in Domain |-> Fetched(current, s)]
    BY <1>4 DEF PollPrimes
  <2>2. ScreensFollowAlerts'
    BY <2>1, FetchedAgrees DEF ScreensFollowAlerts, Unbacked, AgreeOn
  <2> QED
    BY <1>2, <1>4, <2>1, <2>2, CompleteFits DEF PollInv, PollPrimes, FitsLabel
<1>5. CASE PollDiffs
  <2>1. PICK current \in Complete :
          /\ snapshot' = current
          /\ screens' = [s \in Domain |->
               IF \E e \in Diff(current) : InScope(s, e.domain)
                 THEN Fetched(current, s) ELSE screens[s]]
    BY <1>5 DEF PollDiffs
  <2>2. /\ \A id \in DOMAIN current : id \in Alert /\ current[id] = StateOf(current[id])
        /\ FitsLabel(current)
    BY CompleteFits DEF PollInv
  <2>3. ASSUME NEW s \in Domain, NEW id \in Lists(s)
        PROVE  \/ AgreeOn(screens'[s], current, id)
               \/ s # ClusterWide /\ Unbacked(screens'[s], id) /\ Unbacked(current, id)
    <3>1. CASE \E e \in Diff(current) : InScope(s, e.domain)
      BY <2>1, <3>1, FetchedAgrees
    <3>2. CASE \A e \in Diff(current) : ~InScope(s, e.domain)
      <4>1. screens'[s] = screens[s]
        BY <2>1, <3>2
      <4>2. \/ AgreeOn(screens[s], snapshot, id)
            \/ s # ClusterWide /\ Unbacked(screens[s], id) /\ Unbacked(snapshot, id)
        BY DEF PollInv, ScreensFollowAlerts
      <4>3. \/ AgreeOn(snapshot, current, id)
            \/ s # ClusterWide /\ Unbacked(snapshot, id) /\ Unbacked(current, id)
        BY <2>2, <3>2, UntoldSeesSame DEF PollInv
      <4> QED
        BY <4>1, <4>2, <4>3 DEF AgreeOn, Unbacked
    <3> QED
      BY <3>1, <3>2
  <2>4. ScreensFollowAlerts'
    BY <2>1, <2>3 DEF ScreensFollowAlerts, AgreeOn, Unbacked
  <2> QED
    BY <1>2, <1>5, <2>1, <2>2, <2>4 DEF PollInv, PollDiffs, FitsLabel
<1>6. ASSUME NEW a \in Alert, AlertMoves(a) PROVE PollInv'
  <2>1. ClaimsFit'
    <3>1. ASSUME NEW l \in [look : Look, claim : Claimable(a)],
                 upstream' = [x \in DOMAIN upstream \cup {a} |->
                                IF x = a THEN l ELSE upstream[x]]
          PROVE  ClaimsFit'
      BY <1>6, <3>1 DEF AlertMoves, PollInv, ClaimsFit, Claimable
    <3>2. ASSUME upstream' = Restrict(upstream, DOMAIN upstream \ {a}) PROVE ClaimsFit'
      BY <1>6, <3>2 DEF AlertMoves, PollInv, ClaimsFit, Claimable, Restrict
    <3> QED
      BY <1>6, <3>1, <3>2 DEF AlertMoves
  <2> QED
    BY <1>1, <1>6, <2>1 DEF AlertMoves
<1>7. ASSUME NEW u \in Uid, CatalogMoves(u) PROVE PollInv'
  <2>1. ClaimsFit'
    BY <1>7 DEF CatalogMoves, PollInv, ClaimsFit, Claimable
  <2> QED
    BY <1>1, <1>7, <2>1 DEF CatalogMoves
<1> QED
  BY <1>3, <1>4, <1>5, <1>6, <1>7
     DEF AlertPollerNext, PollFails, PollHeldBack, pollVars

\* Whatever becomes of the alerts, of their links and of the catalog between two
\* polls, a screen of the whole cluster misses no change, and one of a namespace
\* none but of an alert that the catalog backs neither in what the screen has
\* nor in what is known; an alert that gains or loses its link is told to the
\* screens it was told to before.  (PollOnce, trustedAlertEntity; the filter of
\* List, alertmanager.go.)
THEOREM ScreensFollow == AlertPollerSpec => []ScreensFollowAlerts
<1>1. PollInv => ScreensFollowAlerts
  BY DEF PollInv
<1> QED
  BY <1>1, PollInvInit, PollInvStep, PTL DEF AlertPollerSpec
-----------------------------------------------------------------------------
(* The groups of a list *)

\* What the loop of normalizeAt keeps: two maps of Go.
GoMap(S, T) == UNION {[D -> T] : D \in SUBSET S}
Tally ==
  [refused : BOOLEAN,
   seen : GoMap({a.fingerprint : a \in RawAlert}, RawAlert),
   groups : GoMap({GroupOf(a) : a \in RawAlert}, [shown : RawAlert, size : Nat])]

LEMMA GoMapAt ==
  ASSUME NEW S, NEW T, NEW f, f \in GoMap(S, T)
  PROVE  DOMAIN f \subseteq S /\ \A x \in DOMAIN f : f[x] \in T
BY DEF GoMap

LEMMA WithEntryType ==
  ASSUME NEW S, NEW T, NEW f, NEW k, NEW v, f \in GoMap(S, T), k \in S, v \in T
  PROVE  WithEntry(f, k, v) \in GoMap(S, T)
<1>1. PICK D \in SUBSET S : f \in [D -> T]
  BY DEF GoMap
<1>2. WithEntry(f, k, v) \in [D \cup {k} -> T]
  BY <1>1 DEF WithEntry
<1>3. D \cup {k} \in SUBSET S
  BY <1>1
<1> QED
  BY <1>2, <1>3 DEF GoMap

LEMMA NothingCountedType == NothingCounted \in Tally /\ ListRefused \in Tally
<1>1. \A S, T : << >> \in GoMap(S, T)
  <2> TAKE S, T
  <2>1. << >> \in [{} -> T] /\ {} \in SUBSET S
    OBVIOUS
  <2> QED
    BY <2>1 DEF GoMap
<1> QED
  BY <1>1 DEF NothingCounted, ListRefused, Tally

\* An alert counts in its group, alone or with those that are there.
CountsAs(t, a, n) ==
  /\ n.refused = FALSE
  /\ DOMAIN n.seen = DOMAIN t.seen \cup {a.fingerprint}
  /\ n.seen[a.fingerprint] = a
  /\ \A x \in DOMAIN t.seen : x # a.fingerprint => n.seen[x] = t.seen[x]
  /\ DOMAIN n.groups = DOMAIN t.groups \cup {GroupOf(a)}
  /\ n.groups[GroupOf(a)] =
       IF GroupOf(a) \notin DOMAIN t.groups THEN [shown |-> a, size |-> 1]
       ELSE [shown |-> IF RepresentativeBefore(a, t.groups[GroupOf(a)].shown)
                         THEN a ELSE t.groups[GroupOf(a)].shown,
             size |-> t.groups[GroupOf(a)].size + 1]
  /\ \A x \in DOMAIN t.groups :
       x # GroupOf(a) => n.groups[x] = t.groups[x]

LEMMA CountedInIs ==
  ASSUME NEW t \in Tally, NEW a \in RawAlert
  PROVE  CountedIn(t, a) \in Tally /\ CountsAs(t, a, CountedIn(t, a))
<1> DEFINE F == {b.fingerprint : b \in RawAlert}
           K == {GroupOf(b) : b \in RawAlert}
           R == [shown : RawAlert, size : Nat]
           g == GroupOf(a)
           v == IF g \notin DOMAIN t.groups THEN [shown |-> a, size |-> 1]
                ELSE [shown |-> IF RepresentativeBefore(a, t.groups[g].shown)
                                  THEN a ELSE t.groups[g].shown,
                      size |-> t.groups[g].size + 1]
<1>1. /\ t.seen \in GoMap(F, RawAlert)
      /\ t.groups \in GoMap(K, R)
      /\ a.fingerprint \in F /\ g \in K
  BY DEF Tally
<1>2. v \in R
  <2>1. CASE g \in DOMAIN t.groups
    <3>1. t.groups[g] \in R
      <4> HIDE DEF g, v, R, K
      <4> QED
        BY <1>1, <2>1, GoMapAt
    <3>2. t.groups[g].shown \in RawAlert /\ t.groups[g].size + 1 \in Nat
      BY <3>1
    <3> QED
      BY <2>1, <3>2
  <2>2. CASE g \notin DOMAIN t.groups
    BY <2>2
  <2> QED
    BY <2>1, <2>2
<1>3. CountedIn(t, a) = [refused |-> FALSE, seen |-> WithEntry(t.seen, a.fingerprint, a),
                         groups |-> WithEntry(t.groups, g, v)]
  BY DEF CountedIn
<1>t. Tally = [refused : BOOLEAN, seen : GoMap(F, RawAlert),
               groups : GoMap(K, R)]
  BY DEF Tally
<1>v. v = IF GroupOf(a) \notin DOMAIN t.groups THEN [shown |-> a, size |-> 1]
          ELSE [shown |-> IF RepresentativeBefore(a, t.groups[GroupOf(a)].shown)
                            THEN a ELSE t.groups[GroupOf(a)].shown,
                size |-> t.groups[GroupOf(a)].size + 1]
  OBVIOUS
<1>g. g = GroupOf(a)
  OBVIOUS
<1> HIDE DEF F, K, R, g, v
<1>4. /\ WithEntry(t.seen, a.fingerprint, a) \in GoMap(F, RawAlert)
      /\ DOMAIN WithEntry(t.seen, a.fingerprint, a) = DOMAIN t.seen \cup {a.fingerprint}
      /\ WithEntry(t.seen, a.fingerprint, a)[a.fingerprint] = a
      /\ \A x \in DOMAIN t.seen :
           x # a.fingerprint => WithEntry(t.seen, a.fingerprint, a)[x] = t.seen[x]
  <2> DEFINE f == t.seen
             k == a.fingerprint
  <2>1. f \in GoMap(F, RawAlert) /\ k \in F
    BY <1>1
  <2> HIDE DEF f, k
  <2>2. WithEntry(f, k, a) \in GoMap(F, RawAlert)
    BY <2>1, WithEntryType
  <2>3. /\ DOMAIN WithEntry(f, k, a) = DOMAIN f \cup {k}
        /\ WithEntry(f, k, a)[k] = a
        /\ \A x \in DOMAIN f : x # k => WithEntry(f, k, a)[x] = f[x]
    BY DEF WithEntry
  <2> QED
    BY <2>2, <2>3 DEF f, k
<1>5. /\ WithEntry(t.groups, g, v) \in GoMap(K, R)
      /\ DOMAIN WithEntry(t.groups, g, v) = DOMAIN t.groups \cup {g}
      /\ WithEntry(t.groups, g, v)[g] = v
      /\ \A x \in DOMAIN t.groups : x # g => WithEntry(t.groups, g, v)[x] = t.groups[x]
  <2> DEFINE f == t.groups
  <2>1. f \in GoMap(K, R)
    BY <1>1
  <2> HIDE DEF f
  <2>2. WithEntry(f, g, v) \in GoMap(K, R)
    BY <1>1, <1>2, <2>1, WithEntryType
  <2>3. /\ DOMAIN WithEntry(f, g, v) = DOMAIN f \cup {g}
        /\ WithEntry(f, g, v)[g] = v
        /\ \A x \in DOMAIN f : x # g => WithEntry(f, g, v)[x] = f[x]
    BY DEF WithEntry
  <2> QED
    BY <2>2, <2>3 DEF f
<1>6. /\ CountedIn(t, a).refused = FALSE
      /\ CountedIn(t, a).seen = WithEntry(t.seen, a.fingerprint, a)
      /\ CountedIn(t, a).groups = WithEntry(t.groups, g, v)
  BY <1>3
<1>7. CountedIn(t, a) \in Tally
  BY <1>3, <1>4, <1>5, <1>t
<1>8. CountedIn(t, a).groups[GroupOf(a)] = v
  BY <1>5, <1>6, <1>g
<1>9. /\ DOMAIN CountedIn(t, a).groups = DOMAIN t.groups \cup {GroupOf(a)}
      /\ \A x \in DOMAIN t.groups :
           x # GroupOf(a) => CountedIn(t, a).groups[x] = t.groups[x]
  BY <1>5, <1>6, <1>g
<1>10. /\ DOMAIN CountedIn(t, a).seen = DOMAIN t.seen \cup {a.fingerprint}
       /\ CountedIn(t, a).seen[a.fingerprint] = a
       /\ \A x \in DOMAIN t.seen : x # a.fingerprint => CountedIn(t, a).seen[x] = t.seen[x]
  BY <1>4, <1>6
<1> QED
  BY <1>6, <1>7, <1>8, <1>9, <1>10, <1>v, Zenon DEF CountsAs

LEMMA TakeAlertType ==
  ASSUME NEW t \in Tally, NEW a \in RawAlert
  PROVE  TakeAlert(t, a) \in Tally
BY NothingCountedType, CountedInIs DEF TakeAlert

\* The loop of normalizeAt, turn by turn.
LEMMA NormalizedSteps ==
  ASSUME alertList \in Seq(RawAlert)
  PROVE  \E acc \in [0 .. Len(alertList) -> Tally] :
           /\ acc[0] = NothingCounted
           /\ \A i \in 1 .. Len(alertList) : acc[i] = TakeAlert(acc[i - 1], alertList[i])
           /\ Normalized(alertList) = acc[Len(alertList)]
<1> DEFINE Acc == Tally
           base == NothingCounted
           step == [p \in Acc \X RawAlert |-> TakeAlert(p[1], p[2])]
           IsFold(g) == g = [s \in SUBSET DOMAIN alertList |->
                               IF s = {} THEN base
                               ELSE TakeAlert(g[s \ {Max(s)}], alertList[Max(s)])]
           fold == CHOOSE g : IsFold(g)
<1>1. Normalized(alertList) = fold[DOMAIN alertList]
  BY DEF Normalized, FoldLeft, MapThenFoldSet
<1>2. \A r \in Acc, ev \in RawAlert : TakeAlert(r, ev) \in Acc
  BY TakeAlertType
<1>3. Folding(Acc, RawAlert, step, base, alertList)
  BY <1>2, NothingCountedType DEF Folding
<1> HIDE DEF Acc, step, fold, IsFold, base
<1>4. PICK iter : FoldOf(Acc, step, base, alertList, iter)
  BY <1>3, FoldExists
<1>5. IsFold(iter)
  <2>1. ASSUME NEW s \in SUBSET DOMAIN alertList, s # {}
        PROVE  iter[s] = TakeAlert(iter[s \ {Max(s)}], alertList[Max(s)])
    <3>1. alertList[Max(s)] \in RawAlert /\ iter[s \ {Max(s)}] \in Acc
      BY <1>3, <1>4, <2>1, TurnOf DEF FoldOf, Folding
    <3> QED
      BY <1>4, <2>1, <3>1 DEF FoldOf, FoldTurn, step
  <2>2. iter[{}] = base
    BY <1>4 DEF FoldOf, FoldTurn
  <2> QED
    BY <1>4, <2>1, <2>2 DEF IsFold, FoldOf
<1>6. IsFold(fold)
  BY <1>5 DEF fold
<1>7. fold[{}] = base
  BY <1>6 DEF IsFold
<1>8. ASSUME NEW s \in SUBSET DOMAIN alertList, s # {}, fold[s \ {Max(s)}] \in Acc
      PROVE  fold[s] = step[<<fold[s \ {Max(s)}], alertList[Max(s)]>>]
  <2>1. alertList[Max(s)] \in RawAlert
    BY <1>3, <1>8, TurnOf DEF Folding
  <2>2. fold[s] = TakeAlert(fold[s \ {Max(s)}], alertList[Max(s)])
    BY <1>6, <1>8 DEF IsFold
  <2> QED
    BY <1>8, <2>1, <2>2 DEF step
<1>9. StepwiseFold(Acc, step, base, alertList, fold)
  BY <1>7, <1>8 DEF StepwiseFold
<1>10. PICK acc : StepsOf(Acc, step, base, alertList, fold, acc)
  BY <1>3, <1>9, FoldSteps
<1>11. \A i \in 1 .. Len(alertList) : acc[i] = TakeAlert(acc[i - 1], alertList[i])
  BY <1>3, <1>10, Indices DEF StepsOf, step, Folding
<1>12. /\ acc \in [0 .. Len(alertList) -> Acc]
       /\ acc[0] = base
       /\ acc[Len(alertList)] = fold[DOMAIN alertList]
  BY <1>10 DEF StepsOf
<1>13. Normalized(alertList) = acc[Len(alertList)]
  BY <1>1, <1>12
<1> QED
  BY <1>11, <1>12, <1>13 DEF Acc, base

\* The order of representatives.
LEMMA BeforeOrder ==
  ASSUME NEW a \in RawAlert, NEW b \in RawAlert, NEW c \in RawAlert
  PROVE  /\ ~RepresentativeBefore(a, a)
         /\ RepresentativeBefore(a, b) /\ RepresentativeBefore(b, c) => RepresentativeBefore(a, c)
<1>1. ASSUME NEW r \in RawAlert PROVE r.fingerprint \in Nat /\ StartText(r.start) \in Int
  <2> DEFINE s == r.start
  <2>1. r.fingerprint \in Nat /\ s \in Nat
    BY AlertGroupsAssumption
  <2> HIDE DEF s
  <2>2. s \div 10 \in Int /\ s % 10 \in Int
    BY <2>1
  <2>3. StartText(s) \in Int
    BY <2>2 DEF StartText
  <2> QED
    BY <2>1, <2>3 DEF s
<1> QED
  BY <1>1 DEF RepresentativeBefore
\* What a list of these alerts has become, in whatever order they came.
Tallied(t, all) ==
  IF Contradictory(all) THEN t = ListRefused
  ELSE /\ t.refused = FALSE
       /\ DOMAIN t.seen = {a.fingerprint : a \in all}
       /\ \A a \in all : t.seen[a.fingerprint] = a
       /\ DOMAIN t.groups = {GroupOf(a) : a \in all}
       /\ \A g \in {GroupOf(a) : a \in all} :
            /\ t.groups[g].size = Cardinality(InGroup(all, g))
            /\ t.groups[g].shown \in InGroup(all, g)
            /\ \A b \in InGroup(all, g) : ~RepresentativeBefore(b, t.groups[g].shown)

\* A new alert that contradicts nothing adds to its group only.
LEMMA CountedTallied ==
  ASSUME NEW t \in Tally, NEW all \in SUBSET RawAlert, IsFiniteSet(all), NEW a \in RawAlert,
         Tallied(t, all), ~Contradictory(all), ~Contradictory(all \cup {a}), a \notin all
  PROVE  Tallied(CountedIn(t, a), all \cup {a})
<1> DEFINE n == CountedIn(t, a)
           now == all \cup {a}
           ga == GroupOf(a)
           was == InGroup(all, ga)
<1>1. /\ t.refused = FALSE
      /\ DOMAIN t.seen = {b.fingerprint : b \in all}
      /\ \A b \in all : t.seen[b.fingerprint] = b
      /\ DOMAIN t.groups = {GroupOf(b) : b \in all}
      /\ \A g \in {GroupOf(b) : b \in all} :
           /\ t.groups[g].size = Cardinality(InGroup(all, g))
           /\ t.groups[g].shown \in InGroup(all, g)
           /\ \A b \in InGroup(all, g) : ~RepresentativeBefore(b, t.groups[g].shown)
  BY DEF Tallied
<1>c. CountsAs(t, a, n)
  BY CountedInIs
<1>2. /\ n.refused = FALSE
      /\ DOMAIN n.seen = DOMAIN t.seen \cup {a.fingerprint}
      /\ n.seen[a.fingerprint] = a
      /\ \A x \in DOMAIN t.seen : x # a.fingerprint => n.seen[x] = t.seen[x]
  BY <1>c DEF CountsAs
<1>g. /\ DOMAIN n.groups = DOMAIN t.groups \cup {ga}
      /\ \A x \in DOMAIN t.groups : x # ga => n.groups[x] = t.groups[x]
  BY <1>c DEF CountsAs
<1>a. n.groups[ga] =
        IF ga \notin DOMAIN t.groups THEN [shown |-> a, size |-> 1]
        ELSE [shown |-> IF RepresentativeBefore(a, t.groups[ga].shown)
                          THEN a ELSE t.groups[ga].shown,
              size |-> t.groups[ga].size + 1]
  BY <1>c DEF CountsAs
<1>3. \A b \in all : b.fingerprint # a.fingerprint
  BY DEF Contradictory
<1>4. /\ InGroup(now, ga) = was \cup {a} /\ a \notin was /\ was \subseteq RawAlert
      /\ \A g : g # ga => InGroup(now, g) = InGroup(all, g)
  BY DEF InGroup
<1>5. IsFiniteSet(was) /\ was \subseteq all
  BY FS_Subset DEF InGroup
<1>6. Cardinality(InGroup(now, ga)) = Cardinality(was) + 1
  BY <1>4, <1>5, FS_AddElement
<1> HIDE DEF n, now, ga, was
<1>7. DOMAIN n.seen = {b.fingerprint : b \in now} /\ DOMAIN n.groups = {GroupOf(b) : b \in now}
  BY <1>1, <1>2, <1>g DEF now, ga
<1>8. \A b \in now : n.seen[b.fingerprint] = b
  BY <1>1, <1>2, <1>3 DEF now
<1>9. /\ n.groups[ga].size = Cardinality(InGroup(now, ga))
      /\ n.groups[ga].shown \in InGroup(now, ga)
      /\ \A b \in InGroup(now, ga) : ~RepresentativeBefore(b, n.groups[ga].shown)
  <2>1. CASE ga \notin DOMAIN t.groups
    <3>1. was = {}
      BY <1>1, <2>1 DEF was, InGroup
    <3>2. n.groups[ga] = [shown |-> a, size |-> 1]
      BY <1>a, <2>1
    <3>3. n.groups[ga].shown = a /\ n.groups[ga].size = 1
      BY <3>2
    <3>4. Cardinality(was) + 1 = 1
      BY <3>1, FS_EmptySet
    <3>5. InGroup(now, ga) = {a} /\ ~RepresentativeBefore(a, a)
      BY <1>4, <3>1, BeforeOrder
    <3> QED
      BY <1>6, <3>3, <3>4, <3>5
  <2>2. CASE ga \in DOMAIN t.groups
    <3> DEFINE s == t.groups[ga].shown
    <3>1. /\ t.groups[ga].size = Cardinality(was) /\ s \in was
          /\ \A b \in was : ~RepresentativeBefore(b, s)
      BY <1>1, <2>2 DEF was
    <3>2. n.groups[ga] = [shown |-> IF RepresentativeBefore(a, s) THEN a ELSE s,
                          size |-> t.groups[ga].size + 1]
      BY <1>a, <2>2
    <3> HIDE DEF s
    <3>3. /\ n.groups[ga].shown = IF RepresentativeBefore(a, s) THEN a ELSE s
          /\ n.groups[ga].size = Cardinality(was) + 1
      BY <3>1, <3>2
    <3>4. n.groups[ga].shown \in was \cup {a}
      BY <3>1, <3>3
    <3>5. ASSUME NEW b \in was \cup {a} PROVE ~RepresentativeBefore(b, n.groups[ga].shown)
      <4>1. b \in RawAlert /\ s \in RawAlert
        BY <1>4, <3>1, <3>5
      <4>2. ~RepresentativeBefore(a, a)
        BY BeforeOrder
      <4>3. RepresentativeBefore(b, a) /\ RepresentativeBefore(a, s) => RepresentativeBefore(b, s)
        BY <4>1, BeforeOrder
      <4> QED
        BY <3>1, <3>3, <3>5, <4>2, <4>3
    <3> QED
      BY <1>4, <1>6, <3>3, <3>4, <3>5
  <2> QED
    BY <2>1, <2>2
<1>10. ASSUME NEW g \in {GroupOf(b) : b \in now}
       PROVE  /\ n.groups[g].size = Cardinality(InGroup(now, g))
              /\ n.groups[g].shown \in InGroup(now, g)
              /\ \A b \in InGroup(now, g) : ~RepresentativeBefore(b, n.groups[g].shown)
  <2>1. CASE g = ga
    BY <1>9, <2>1
  <2>2. CASE g # ga
    <3>1. g \in {GroupOf(b) : b \in all}
      BY <1>10, <2>2 DEF now, ga
    <3>2. n.groups[g] = t.groups[g] /\ InGroup(now, g) = InGroup(all, g)
      BY <1>1, <1>4, <1>g, <2>2, <3>1
    <3> QED
      BY <1>1, <3>1, <3>2
  <2> QED
    BY <2>1, <2>2
<1>11. ~Contradictory(now)
  BY DEF now
<1>12. Tallied(n, now)
  BY <1>2, <1>7, <1>8, <1>10, <1>11 DEF Tallied
<1> QED
  BY <1>12 DEF n, now

\* A turn of the loop, whatever the alert is.
LEMMA TakeAlertTallied ==
  ASSUME NEW t \in Tally, NEW all \in SUBSET RawAlert, IsFiniteSet(all), NEW a \in RawAlert,
         Tallied(t, all)
  PROVE  Tallied(TakeAlert(t, a), all \cup {a})
<1>1. CASE Contradictory(all)
  <2>1. Contradictory(all \cup {a})
    BY <1>1 DEF Contradictory
  <2>2. t = ListRefused
    BY <1>1 DEF Tallied
  <2>3. TakeAlert(t, a) = ListRefused
    BY <2>2 DEF TakeAlert, ListRefused
  <2> QED
    BY <2>1, <2>3 DEF Tallied
<1>2. CASE ~Contradictory(all) /\ ~Acceptable(a)
  <2>1. Contradictory(all \cup {a})
    BY <1>2 DEF Contradictory
  <2> QED
    BY <1>2, <2>1 DEF Tallied, TakeAlert
<1>3. CASE ~Contradictory(all) /\ Acceptable(a)
  <2>1. /\ t.refused = FALSE
        /\ DOMAIN t.seen = {b.fingerprint : b \in all}
        /\ \A b \in all : t.seen[b.fingerprint] = b
    BY <1>3 DEF Tallied
  <2>2. CASE a.fingerprint \in DOMAIN t.seen
    <3>1. PICK b \in all : b.fingerprint = a.fingerprint
      BY <2>1, <2>2
    <3>2. t.seen[a.fingerprint] = b
      BY <2>1, <3>1
    <3>3. CASE b = a
      <4>1. all \cup {a} = all /\ TakeAlert(t, a) = t
        BY <1>3, <2>1, <2>2, <3>1, <3>2, <3>3 DEF TakeAlert
      <4> QED
        BY <4>1
    <3>4. CASE b # a
      <4>1. Contradictory(all \cup {a})
        BY <3>1, <3>4 DEF Contradictory
      <4>2. TakeAlert(t, a) = ListRefused
        BY <1>3, <2>1, <2>2, <3>2, <3>4 DEF TakeAlert
      <4> QED
        BY <4>1, <4>2 DEF Tallied
    <3> QED
      BY <3>3, <3>4
  <2>3. CASE a.fingerprint \notin DOMAIN t.seen
    <3>1. \A b \in all : b.fingerprint # a.fingerprint
      BY <2>1, <2>3
    <3>2. a \notin all /\ ~Contradictory(all \cup {a})
      BY <1>3, <3>1 DEF Contradictory
    <3>3. TakeAlert(t, a) = CountedIn(t, a)
      BY <1>3, <2>1, <2>3 DEF TakeAlert
    <3> QED
      BY <1>3, <3>2, <3>3, CountedTallied
  <2> QED
    BY <2>2, <2>3
<1> QED
  BY <1>1, <1>2, <1>3

\* The whole list.
LEMMA ListTallied ==
  ASSUME alertList \in Seq(RawAlert)
  PROVE  Tallied(Normalized(alertList), {alertList[i] : i \in DOMAIN alertList})
<1> DEFINE n == Len(alertList)
           upTo(m) == {alertList[i] : i \in 1 .. m}
<1>1. PICK acc \in [0 .. n -> Tally] :
        /\ acc[0] = NothingCounted
        /\ \A i \in 1 .. n : acc[i] = TakeAlert(acc[i - 1], alertList[i])
        /\ Normalized(alertList) = acc[n]
  BY NormalizedSteps
<1>2. /\ n \in Nat /\ DOMAIN alertList = 1 .. n
      /\ \A i \in 1 .. n : i \in 0 .. n /\ i - 1 \in 0 .. n /\ alertList[i] \in RawAlert
  BY Indices, LenProperties
<1> HIDE DEF n
<1> DEFINE P == {m \in Nat : m <= n => IsFiniteSet(upTo(m)) /\ Tallied(acc[m], upTo(m))}
<1>3. 0 \in P
  <2>1. upTo(0) = {}
    OBVIOUS
  <2>2. Tallied(NothingCounted, {})
    BY DEF Tallied, Contradictory, NothingCounted
  <2> QED
    BY <1>1, <2>1, <2>2, FS_EmptySet
<1>4. ASSUME NEW m \in Nat, m \in P PROVE m + 1 \in P
  <2>1. SUFFICES ASSUME m + 1 <= n
                 PROVE  IsFiniteSet(upTo(m + 1)) /\ Tallied(acc[m + 1], upTo(m + 1))
    OBVIOUS
  <2>2. m + 1 \in 1 .. n /\ (m + 1) - 1 = m /\ m <= n /\ m \in 0 .. n
    BY <1>2, <2>1
  <2>3. acc[m + 1] = TakeAlert(acc[m], alertList[m + 1]) /\ acc[m] \in Tally
    BY <1>1, <2>2
  <2>4. upTo(m + 1) = upTo(m) \cup {alertList[m + 1]}
    <3>1. \A i : i \in 1 .. m + 1 <=> i \in 1 .. m \/ i = m + 1
      OBVIOUS
    <3> QED
      BY <3>1
  <2>5. upTo(m) \in SUBSET RawAlert /\ alertList[m + 1] \in RawAlert
    <3>1. \A i \in 1 .. m : i \in 1 .. n
      BY <1>2, <2>2
    <3> QED
      BY <1>2, <2>2, <3>1
  <2>6. IsFiniteSet(upTo(m)) /\ Tallied(acc[m], upTo(m))
    BY <1>4, <2>2
  <2> HIDE DEF upTo
  <2>7. IsFiniteSet(upTo(m + 1))
    <3>1. IsFiniteSet(upTo(m) \cup {alertList[m + 1]})
      BY <2>6, FS_AddElement
    <3> QED
      BY <2>4, <3>1
  <2>8. Tallied(acc[m + 1], upTo(m + 1))
    BY <2>3, <2>4, <2>5, <2>6, TakeAlertTallied
  <2> QED
    BY <2>7, <2>8
<1>5. n \in P
  <2> HIDE DEF P
  <2> QED
    BY <1>2, <1>3, <1>4, Counting
<1>6. Tallied(acc[n], upTo(n))
  <2>1. n <= n
    BY <1>2
  <2> HIDE DEF upTo
  <2> QED
    BY <1>5, <2>1
<1> QED
  BY <1>1, <1>2, <1>6
\* The last pod at some indices is the pod at one of them.
LEMMA LastAtIs ==
  ASSUME alertCatalog \in PodCatalog, NEW at \in SUBSET AllowedPods, NEW p \in LastAt(at)
  PROVE  \E i \in at : p = PodAt(i)
<1> DEFINE n == Len(alertCatalog)
<1>1. alertCatalog \in Seq(Range(alertCatalog))
  BY AlertGroupsAssumption
<1>2. n \in Nat /\ DOMAIN alertCatalog = 1 .. n
  BY <1>1, LenProperties
<1>3. at \in SUBSET (1 .. n) /\ at # {} /\ p = PodAt(Max(at))
  BY <1>2 DEF AllowedPods, ListedPods, LastAt
<1> HIDE DEF n
<1>4. Max(at) \in at
  BY <1>2, <1>3, MaxOf
<1> QED
  BY <1>3, <1>4

\* A link is one that the catalog backs, whatever the alert claims.
LEMMA LinksAreBacked ==
  ASSUME alertCatalog \in PodCatalog, NEW a
  PROVE  LinkIsBacked(a)
<1> DEFINE backing == {PodAt(i) : i \in AllowedPods}
           link == LinkOf(a)
<1>1. CASE PodLink(a) # {}
  <2>1. link \in PodLink(a)
    BY <1>1 DEF LinkOf, TheLink
  <2>2. PICK p \in LastPod(a.podUid) :
          /\ ~AmbiguousPod(a.podUid) /\ IdentityMatches(a, p)
          /\ link = [space |-> p.space, owner |-> p.owner, ownerUid |-> p.ownerUid,
                     pod |-> p.name, podUid |-> p.uid]
    BY <2>1 DEF PodLink
  <2>3. PICK i \in AllowedPods : PodAt(i).uid = a.podUid /\ p = PodAt(i)
    BY LastAtIs DEF LastPod
  <2>4. ASSUME NEW j \in AllowedPods, PodAt(j).uid = a.podUid PROVE PodAt(j) = p
    BY <2>2, <2>3, <2>4 DEF AmbiguousPod, AllowedPods
  <2>5. /\ link.space = p.space /\ link.owner = p.owner
        /\ link.podUid = p.uid /\ link.pod = p.name
    BY <2>2
  <2>6. p \in backing /\ \A q \in backing : q.uid = a.podUid => q.name = link.pod
    BY <2>3, <2>4, <2>5
  <2> QED
    BY <2>2, <2>3, <2>5, <2>6 DEF LinkIsBacked
<1>2. CASE PodLink(a) = {} /\ OwnerLink(a) # {}
  <2>1. link \in OwnerLink(a)
    BY <1>2 DEF LinkOf, TheLink
  <2>2. PICK p \in LastOfOwner(a.ownerUid) :
          /\ ~AmbiguousOwner(a.ownerUid) /\ IdentityMatches(a, p)
          /\ link = [NoLink EXCEPT !.space = p.space, !.owner = p.owner, !.ownerUid = p.ownerUid]
    BY <2>1 DEF OwnerLink
  <2>3. PICK i \in AllowedPods : PodAt(i).ownerUid = a.ownerUid /\ p = PodAt(i)
    BY LastAtIs DEF LastOfOwner
  <2>4. p \in backing /\ p.ownerUid = a.ownerUid
    BY <2>3
  <2>5. link.space = p.space /\ link.owner = p.owner /\ link.ownerUid = p.ownerUid /\ link.pod = 0
    BY <2>2 DEF NoLink
  <2>6. ASSUME NEW q \in backing, q.ownerUid = a.ownerUid
        PROVE  <<q.space, q.owner>> = <<p.space, p.owner>>
    BY <2>2, <2>4, <2>6 DEF AmbiguousOwner
  <2> QED
    BY <2>2, <2>4, <2>5, <2>6 DEF LinkIsBacked
<1>3. CASE PodLink(a) = {} /\ OwnerLink(a) = {}
  BY <1>3 DEF LinkOf, LinkIsBacked
<1> QED
  BY <1>1, <1>2, <1>3

\* The result of a list is exact.
LEMMA NormalizedIsExact ==
  ASSUME alertList \in Seq(RawAlert), alertCatalog \in PodCatalog
  PROVE  ExactFor({alertList[i] : i \in DOMAIN alertList}, Normalized(alertList))
BY ListTallied, LinksAreBacked DEF Tallied, ExactFor

\* What the operators say of the same catalog and target.
LEMMA SameCatalog ==
  ASSUME UNCHANGED <<alertCatalog, alertTarget>>
  PROVE  /\ \A a : Acceptable(a)' <=> Acceptable(a)
         /\ \A a : GroupOf(a)' = GroupOf(a)
         /\ \A a : LinkIsBacked(a)' <=> LinkIsBacked(a)
         /\ \A all, r : ExactFor(all, r)' <=> ExactFor(all, r)
<1>1. \A s : TargetAllows(s)' <=> TargetAllows(s)
  BY DEF TargetAllows
<1>2. \A i : PodAt(i)' = PodAt(i)
  BY DEF PodAt
<1>3. ListedPods' = ListedPods
  BY <1>2 DEF ListedPods, PodAt
<1>4. AllowedPods' = AllowedPods
  BY <1>1, <1>2, <1>3 DEF AllowedPods
<1>5. \A at : LastAt(at)' = LastAt(at)
  BY <1>2 DEF LastAt
<1>6. \A u : LastPod(u)' = LastPod(u) /\ LastOfOwner(u)' = LastOfOwner(u)
  <2> TAKE u
  <2>1. {i \in AllowedPods : PodAt(i).uid = u}' = {i \in AllowedPods : PodAt(i).uid = u}
    BY <1>2, <1>4
  <2>2. {i \in AllowedPods : PodAt(i).ownerUid = u}' = {i \in AllowedPods : PodAt(i).ownerUid = u}
    BY <1>2, <1>4
  <2> QED
    BY <1>2, <2>1, <2>2 DEF LastPod, LastOfOwner, LastAt
<1>7. \A u : AmbiguousPod(u)' <=> AmbiguousPod(u)
  BY <1>2, <1>3 DEF AmbiguousPod
<1>8. \A u : AmbiguousOwner(u)' <=> AmbiguousOwner(u)
  BY <1>2, <1>4 DEF AmbiguousOwner
<1>9. \A a : PodLink(a)' = PodLink(a)
  BY <1>6, <1>7 DEF PodLink, IdentityMatches
<1>10. \A a : OwnerLink(a)' = OwnerLink(a)
  BY <1>6, <1>8 DEF OwnerLink, IdentityMatches, NoLink
<1>11. \A a : LinkOf(a)' = LinkOf(a)
  <2> TAKE a
  <2>1. TheLink(PodLink(a))' = TheLink(PodLink(a)') /\ TheLink(OwnerLink(a))' = TheLink(OwnerLink(a)')
    BY DEF TheLink
  <2> QED
    BY <1>9, <1>10, <2>1 DEF LinkOf, NoLink
<1>12. \A a : GroupOf(a)' = GroupOf(a)
  BY <1>11 DEF GroupOf
<1>13. \A a : Acceptable(a)' <=> Acceptable(a)
  BY <1>1 DEF Acceptable
<1>14. \A a : LinkIsBacked(a)' <=> LinkIsBacked(a)
  BY <1>2, <1>4, <1>11 DEF LinkIsBacked, IdentityMatches, NoLink
<1>15. \A all : Contradictory(all)' <=> Contradictory(all)
  BY <1>13 DEF Contradictory
<1>16. \A all, g : InGroup(all, g)' = InGroup(all, g)
  BY <1>12 DEF InGroup
<1>17. ASSUME NEW all, NEW r PROVE ExactFor(all, r)' <=> ExactFor(all, r)
  <2>1. {GroupOf(a) : a \in all}' = {GroupOf(a) : a \in all}
    BY <1>12
  <2>2. Contradictory(all)' <=> Contradictory(all)
    BY <1>15
  <2>3. \A g : InGroup(all, g)' = InGroup(all, g)
    BY <1>16
  <2>4. (\A a \in all : LinkIsBacked(a))' <=> (\A a \in all : LinkIsBacked(a))
    BY <1>14
  <2> DEFINE G == {GroupOf(a) : a \in all}
             Fits(g) == /\ r.groups[g].size = Cardinality(InGroup(all, g))
                        /\ r.groups[g].shown \in InGroup(all, g)
                        /\ \A b \in InGroup(all, g) :
                             ~RepresentativeBefore(b, r.groups[g].shown)
  <2>5. \A g : Fits(g)' <=> Fits(g)
    BY <2>3 DEF RepresentativeBefore, StartText
  <2>6. (\A g \in G : Fits(g))' <=> (\A g \in G : Fits(g))
    BY <2>1, <2>5
  <2>7. ExactFor(all, r) <=>
          IF Contradictory(all) THEN r = ListRefused
          ELSE ~r.refused /\ DOMAIN r.groups = G /\ (\A a \in all : LinkIsBacked(a))
               /\ (\A g \in G : Fits(g))
    BY DEF ExactFor
  <2>8. ExactFor(all, r)' <=>
          IF Contradictory(all)' THEN r = ListRefused
          ELSE ~r.refused /\ DOMAIN r.groups = G' /\ (\A a \in all : LinkIsBacked(a))'
               /\ (\A g \in G : Fits(g))'
    BY DEF ExactFor, RepresentativeBefore, StartText, ListRefused
  <2> HIDE DEF G, Fits
  <2> QED
    BY <2>1, <2>2, <2>4, <2>6, <2>7, <2>8 DEF G
<1> QED
  BY <1>12, <1>13, <1>14, <1>17

\* What a grouping starts from.
GroupingTyped == alertList \in Seq(RawAlert) /\ alertCatalog \in PodCatalog

\* The groups are those of the set of alerts, whatever their order and however
\* often one is listed, and every link is one the catalog backs.  (normalizeAt,
\* normalizeOne, identityMatches, representativeBefore.)
THEOREM GroupsExact == AlertGroupsSpec => []GroupsAreExact
<1>1. AlertGroupsInit => GroupingTyped /\ GroupsAreExact
  <2> SUFFICES ASSUME AlertGroupsInit PROVE GroupingTyped /\ GroupsAreExact
    OBVIOUS
  <2>1. PICK m \in 0 .. MaxListed : alertList \in [1 .. m -> RawAlert]
    BY DEF AlertGroupsInit, BoundedSeq, SeqOf
  <2>2. m \in Nat
    OBVIOUS
  <2>3. alertList \in Seq(RawAlert)
    BY <2>1, <2>2
  <2> QED
    BY <2>3 DEF AlertGroupsInit, GroupingTyped, GroupsAreExact
<1>2. GroupingTyped /\ GroupsAreExact /\ [AlertGroupsNext]_groupingVars
        => GroupingTyped' /\ GroupsAreExact'
  <2> SUFFICES ASSUME GroupingTyped, GroupsAreExact, [AlertGroupsNext]_groupingVars
               PROVE  GroupingTyped' /\ GroupsAreExact'
    OBVIOUS
  <2>1. UNCHANGED <<alertList, alertCatalog, alertTarget>>
    BY DEF AlertGroupsNext, NormalizeAlerts, groupingVars
  <2>2. GroupingTyped'
    BY <2>1 DEF GroupingTyped
  <2>3. \A all, r : ExactFor(all, r)' <=> ExactFor(all, r)
    BY <2>1, SameCatalog
  <2> DEFINE all == {alertList[i] : i \in DOMAIN alertList}
  <2>4. GroupsAreExact' <=> (alertGroups' # << >> => ExactFor(all, alertGroups'[1]))
    <3>1. all' = all
      BY <2>1
    <3> QED
      BY <2>3, <3>1 DEF GroupsAreExact
  <2>5. CASE UNCHANGED groupingVars
    <3>1. alertGroups # << >> => ExactFor(all, alertGroups[1])
      BY DEF GroupsAreExact
    <3>2. alertGroups' = alertGroups
      BY <2>5 DEF groupingVars
    <3> HIDE DEF all
    <3> QED
      BY <2>2, <2>4, <3>1, <3>2
  <2>6. CASE NormalizeAlerts
    <3>1. alertGroups' = <<Normalized(alertList)>>
      BY <2>6 DEF NormalizeAlerts
    <3>2. ExactFor(all, Normalized(alertList))
      BY NormalizedIsExact DEF GroupingTyped
    <3>3. alertGroups'[1] = Normalized(alertList)
      BY <3>1
    <3> HIDE DEF all
    <3> QED
      BY <2>2, <2>4, <3>2, <3>3
  <2> QED
    BY <2>5, <2>6 DEF AlertGroupsNext
<1> QED
  BY <1>1, <1>2, PTL DEF AlertGroupsSpec

\* The alerts that a screen has are those of the source: the list becomes the
\* groups of its alerts, and a screen misses no change of them but of an alert
\* that no uid of the catalog backs (alertmanager.go, normalizeAt and List;
\* stream/alerts.go, PollOnce).
THEOREM AlertsAreRightHolds == AlertGroupsSpec /\ AlertPollerSpec => []AlertsAreRight
BY GroupsExact, ScreensFollow, PTL DEF AlertsAreRight
=============================================================================
