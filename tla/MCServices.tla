----------------------------- MODULE MCServices -----------------------------
(***************************************************************************)
(* The parts of the system that promise progress, checked side by side:    *)
(* the watch feed, the change signals, the circuit of the Alertmanager     *)
(* source, the query cache, the provider's keys, the life of a catalog     *)
(* entry and the agent.  They share no state and no step, so one of them runs and the    *)
(* others stay where they began: the behaviours are those of each part on  *)
(* its own.                                                                *)
(***************************************************************************)
EXTENDS WatchFeed, StreamHub, AlertCircuit, QueryCache, ProviderKeys,
        CatalogLifecycle, AgentSync

CONSTANTS
    r1, pod, x,                     \* the feed
    tab1, tab2, user, shop,         \* the signals
    screen, poller, export,         \* the circuit
    i1, ask1, ask2,                 \* the cache
    v1, v2,                         \* the keys
    apod, anode, starting, running  \* the agent

VARIABLE which

Parts == {"feed", "signals", "circuit", "cache", "keys", "catalog", "agent"}

MCSubjectOf == [c \in Client |-> user]
MCScope == [c \in Client |-> {shop}]
MCHomeOf == [a \in Asker |-> i1]
MCReadOrder == <<apod, anode>>

partVars == <<feedVars, signalVars, alertVars, cacheVars, keyVars,
              lifeVars, agentVars, which>>

ServicesInit ==
    /\ which \in Parts
    /\ FeedInit /\ StreamInit /\ AlertInit /\ CacheInit /\ ProviderKeysInit
    /\ CatalogLifecycleInit /\ (which = "catalog" \/ ctxDone)
    /\ AgentInit /\ (which = "agent" \/ \A k \in AgentKey : ~Present(k))

FeedPart == /\ which = "feed"
            /\ FeedNext \/ Settle
            /\ UNCHANGED <<signalVars, alertVars, cacheVars, keyVars, lifeVars,
                            agentVars, which>>

SignalPart == /\ which = "signals"
              /\ StreamNext \/ SettleHub
              /\ UNCHANGED <<feedVars, alertVars, cacheVars, keyVars, lifeVars,
                            agentVars, which>>

CircuitPart == /\ which = "circuit"
               /\ AlertNext \/ Heal
               /\ UNCHANGED <<feedVars, signalVars, cacheVars, keyVars, lifeVars,
                            agentVars, which>>

CachePart == /\ which = "cache"
             /\ CacheNext
             /\ UNCHANGED <<feedVars, signalVars, alertVars, keyVars, lifeVars,
                            agentVars, which>>

KeyPart == /\ which = "keys"
           /\ ProviderKeysNext
           /\ UNCHANGED <<feedVars, signalVars, alertVars, cacheVars, lifeVars,
                            agentVars, which>>

CatalogPart == /\ which = "catalog"
               /\ CatalogLifecycleNext
               /\ UNCHANGED <<feedVars, signalVars, alertVars, cacheVars, keyVars,
                            agentVars, which>>

AgentPart == /\ which = "agent"
             /\ AgentNext
             /\ UNCHANGED <<feedVars, signalVars, alertVars, cacheVars, keyVars,
                            lifeVars, which>>

ServicesNext == FeedPart \/ SignalPart \/ CircuitPart \/ CachePart \/ KeyPart
                \/ CatalogPart \/ AgentPart

\* The fairness of each part (FairFeedSpec, FairStreamSpec, FairAlertSpec,
\* CacheFairness,
\* ProviderKeysFairness, CatalogLifecycleFairness and that of AgentSpec), asked of
\* the part that runs.  As
\* which never changes, weak fairness of a disjunction of actions of several
\* parts is weak fairness of the one action whose part runs, and so is strong
\* fairness; each turn below takes one action of each part.
Turn1 == \/ which = "feed" /\ Advance(r1)
         \/ which = "signals" /\ Serve(tab1)
         \/ which = "circuit" /\ Step(screen)
         \/ which = "cache" /\ Join(ask1)
         \/ which = "keys" /\ TickRefresh
         \/ which = "catalog" /\ LoopStep
         \/ which = "agent" /\ Work

Turn2 == \/ which = "signals" /\ Serve(tab2)
         \/ which = "circuit" /\ Step(poller)
         \/ which = "cache" /\ Join(ask2)
         \/ which = "keys" /\ StoreKeys(v1)
         \/ which = "catalog" /\ InformerStep
         \/ which = "agent" /\ TakeToken

Turn3 == \/ which = "circuit" /\ Step(export)
         \/ which = "keys" /\ StoreKeys(v2)
         \/ which = "catalog" /\ CloseStep
         \/ which = "agent" /\ Notify

Turn4 == \/ which = "circuit" /\ Tick
         \/ which = "cache" /\ (Proceed(i1) \/ Poll(i1) \/ GiveUp(i1))

Chance1 == \/ which = "circuit" /\ Acquire(screen)
           \/ which = "keys" /\ GetUnknown(v1, current)
           \/ which = "catalog" /\ TickLoop("refresh")

Chance2 == \/ which = "circuit" /\ Acquire(poller)
           \/ which = "keys" /\ GetUnknown(v2, current)
           \/ which = "catalog" /\ TickLoop("reap")

Chance3 == \/ which = "circuit" /\ Acquire(export)
           \/ which = "keys" /\ AnswerFetch(v1)
           \/ which = "catalog" /\ AnEvent

Chance4 == \/ which = "keys" /\ AnswerFetch(v2)
           \/ which = "catalog" /\ Ending

Moving == CASE which = "feed" -> feedVars
            [] which = "signals" -> signalVars
            [] which = "circuit" -> alertVars
            [] which = "cache" -> cacheVars
            [] which = "keys" -> keyVars
            [] which = "catalog" -> lifeVars
            [] which = "agent" -> agentVars

Alone(A) == A /\ UNCHANGED which

ServicesFairness ==
    /\ WF_Moving(Alone(Turn1)) /\ WF_Moving(Alone(Turn2))
    /\ WF_Moving(Alone(Turn3)) /\ WF_Moving(Alone(Turn4))
    /\ SF_Moving(Alone(Chance1)) /\ SF_Moving(Alone(Chance2))
    /\ SF_Moving(Alone(Chance3)) /\ SF_Moving(Alone(Chance4))

ServicesSpec ==
    ServicesInit /\ [][ServicesNext]_partVars /\ ServicesFairness
=============================================================================
