---------------------------- MODULE ProviderKeys ----------------------------
(***************************************************************************)
(* The signing keys of the identity provider as the verification of tokens *)
(* keeps them (internal/auth/jwks.go).  The provider replaces its key when *)
(* it likes; its answers take time, may fail, and arrive in any order.  A  *)
(* key is named by its generation.                                         *)
(***************************************************************************)
EXTENDS Naturals

CONSTANTS
    Verifier,    \* requests whose tokens are verified at one time
    MaxRotation, \* bound: how often the provider replaces its key
    MinRefresh   \* ticks between two fetches of the key set

ASSUME ProviderKeysAssumption ==
    MaxRotation \in Nat /\ MinRefresh \in Nat \ {0}

VARIABLES
    current,     \* the provider's key
    keys,        \* the keys in the store
    lastRefresh, \* ticks since a fetch of the keys began, up to MinRefresh
    fetch        \* fetch[v]: the fetch request v makes, and what it got

keyVars == <<current, keys, lastRefresh, fetch>>

Kid == 0 .. MaxRotation
NoFetch == [pc |-> "idle", got |-> {}]

ProviderKeysTypeOK ==
    /\ current \in Kid
    /\ keys \subseteq Kid
    /\ lastRefresh \in 0 .. MinRefresh
    /\ fetch \in [Verifier -> [pc : {"idle", "sent", "answered"},
                               got : SUBSET Kid]]

\* NewResolver has fetched the keys; that does not count as a refresh.
ProviderKeysInit ==
    /\ current = 0
    /\ keys = {0}
    /\ lastRefresh = MinRefresh
    /\ fetch = [v \in Verifier |-> NoFetch]

-----------------------------------------------------------------------------
\* External: the provider publishes its key and the one before.
RotateKey ==
    /\ current < MaxRotation
    /\ current' = current + 1
    /\ UNCHANGED <<keys, lastRefresh, fetch>>

Published == {k \in Kid : k <= current /\ current <= k + 1}

\* get: a name not in the store, whether of a new key or of none at all, is
\* looked up at the provider once per interval; the interval begins before
\* the mutex is released for the fetch.
GetUnknown(v, kid) ==
    /\ fetch[v].pc = "idle"
    /\ kid \notin keys
    /\ lastRefresh = MinRefresh
    /\ lastRefresh' = 0
    /\ fetch' = [fetch EXCEPT ![v].pc = "sent"]
    /\ UNCHANGED <<current, keys>>

AnswerFetch(v) ==
    /\ fetch[v].pc = "sent"
    /\ fetch' = [fetch EXCEPT ![v] = [pc |-> "answered", got |-> Published]]
    /\ UNCHANGED <<current, keys, lastRefresh>>

FailFetch(v) ==
    /\ fetch[v].pc = "sent"
    /\ fetch' = [fetch EXCEPT ![v] = NoFetch]
    /\ UNCHANGED <<current, keys, lastRefresh>>

\* Variant: an answer that lacks a key of the store is not believed.
RefreshedGrowing(got) == IF keys \subseteq got THEN got ELSE keys

\* refresh replaces the whole set by the answer it holds, the latest or not.
Refreshed(got) == got

StoreKeys(v) ==
    /\ fetch[v].pc = "answered"
    /\ keys' = Refreshed(fetch[v].got)
    /\ fetch' = [fetch EXCEPT ![v] = NoFetch]
    /\ UNCHANGED <<current, lastRefresh>>

TickRefresh ==
    /\ lastRefresh < MinRefresh
    /\ lastRefresh' = lastRefresh + 1
    /\ UNCHANGED <<current, keys, fetch>>

ProviderKeysNext ==
    \/ RotateKey \/ TickRefresh
    \/ \E v \in Verifier :
         \/ \E kid \in Kid : GetUnknown(v, kid)
         \/ AnswerFetch(v) \/ FailFetch(v) \/ StoreKeys(v)

\* Time passes, requests signed with the current key keep coming and get
\* their turn beside forged ones, a fetch that is made again and again is
\* answered, and an answer is stored.
ProviderKeysFairness ==
    /\ WF_keyVars(TickRefresh)
    /\ \A v \in Verifier : /\ SF_keyVars(GetUnknown(v, current))
                           /\ SF_keyVars(AnswerFetch(v))
                           /\ WF_keyVars(StoreKeys(v))

ProviderKeysSpec ==
    ProviderKeysInit /\ [][ProviderKeysNext]_keyVars /\ ProviderKeysFairness

-----------------------------------------------------------------------------
\* Tokens signed with the provider's key are accepted again and again, although
\* an older answer may be stored over a newer one and forged key names use up
\* the interval.
CurrentKeyIsAccepted == []<>(current \in keys)
=============================================================================
