----------------------------- MODULE QueryCache -----------------------------
(***************************************************************************)
(* The two-level cache of query answers (internal/cache/cache.go), for one *)
(* key and several API instances.  Each instance keeps the value in its    *)
(* own memory (L1) and shares it through Redis (L2); concurrent calls of   *)
(* one instance join one production (a flight), and instances collapse     *)
(* their misses with a lock in Redis.                                      *)
(*                                                                         *)
(* A Redis call may fail, and may have been applied although it failed;    *)
(* it does fail when the caller whose context it uses has gone.  Time      *)
(* passes in ticks while flights wait or produce: Redis calls (75 ms at    *)
(* most) and local steps take less than one.                               *)
(***************************************************************************)
EXTENDS Naturals, FiniteSets

CONSTANTS
    Instance,    \* the API processes that share one Redis
    Asker,      \* requests for the key
    HomeOf,      \* HomeOf[r]: the instance that serves request r
    Nobody, Lost,\* who holds the lock: no one, or an owner that forgot it
    TTL,         \* life of a value, in ticks
    LockTTL,     \* life of the lock, in ticks
    LockWait,    \* turns of the waiting loop before its deadline
    RedisCooldown     \* how long an instance leaves a failing Redis alone

ASSUME CacheAssumption ==
    /\ HomeOf \in [Asker -> Instance]
    /\ Nobody \notin Instance /\ Lost \notin Instance /\ Nobody # Lost
    /\ {TTL, LockTTL, LockWait, RedisCooldown} \subseteq Nat \ {0}

VARIABLES
    local,    \* local[i]: the L1 entry, [left, age]; left = 0 is no entry
    remote,   \* the value in Redis, in the same form
    redisLock,     \* [owner, left]: the lock in Redis
    redisCooling,  \* redisCooling[i]: ticks until instance i uses Redis again
    flight,   \* flight[i]: the production under way in instance i
    calls     \* calls[r]: "idle", "missed" (looked in L1) or "waiting"

cacheVars == <<local, remote, redisLock, redisCooling, flight, calls>>

NoValue == [left |-> 0, age |-> 0]
NoLock  == [owner |-> Nobody, left |-> 0]
NoFlight == [pc |-> "none", waited |-> FALSE, locked |-> FALSE, wait |-> 0,
             lead |-> Nobody, gone |-> FALSE]
Values == [left : 0 .. TTL, age : 0 .. TTL]
FlightPC == {"none", "get", "lock", "wait", "relock", "recheck", "produce",
             "publish", "release"}

CacheTypeOK ==
    /\ local \in [Instance -> Values]
    /\ remote \in Values
    /\ redisLock \in [owner : Instance \cup {Nobody, Lost}, left : 0 .. LockTTL]
    /\ redisCooling \in [Instance -> 0 .. RedisCooldown]
    /\ flight \in [Instance -> [pc : FlightPC, waited : BOOLEAN,
                     locked : BOOLEAN, wait : 0 .. LockWait,
                     lead : Asker \cup {Nobody}, gone : BOOLEAN]]
    /\ calls \in [Asker -> {"idle", "missed", "waiting"}]

CacheInit ==
    /\ local = [i \in Instance |-> NoValue]
    /\ remote = NoValue
    /\ redisLock = NoLock
    /\ redisCooling = [i \in Instance |-> 0]
    /\ flight = [i \in Instance |-> NoFlight]
    /\ calls = [r \in Asker |-> "idle"]

-----------------------------------------------------------------------------
(* What the steps share. *)

\* A Redis call of instance i: usable unless it is cooling; it can succeed
\* only while the caller whose context it runs under is still there.
Usable(i)    == redisCooling[i] = 0
Reachable(i) == Usable(i) /\ ~flight[i].gone
AvoidRedis(i)  == redisCooling' = [redisCooling EXCEPT ![i] = RedisCooldown]

Goto(i, pc) == flight' = [flight EXCEPT ![i].pc = pc]

\* Variant: the end of a flight reaches only the caller that started it.
AnsweredLead(i) == [r \in Asker |-> IF HomeOf[r] = i /\ flight[i].lead = r
                                     THEN "idle" ELSE calls[r]]
\* The flight of i ends, with a value or an error: all that wait get it.
Answered(i) == [r \in Asker |-> IF HomeOf[r] = i /\ calls[r] = "waiting"
                                 THEN "idle" ELSE calls[r]]
Land(i) == /\ flight' = [flight EXCEPT ![i] = NoFlight]
           /\ calls' = Answered(i)

\* Variant: a hit in Redis is kept for a whole life.
KeepAfresh(i) == local' = [local EXCEPT ![i] = [remote EXCEPT !.left = TTL]]
\* The value of Redis is kept locally for what remains of its life.
Keep(i) == local' = [local EXCEPT ![i] = remote]

-----------------------------------------------------------------------------
(* The callers. *)

\* TTL.Bytes: L1 is looked at before joining the flight of the key.
Ask(r) ==
    /\ calls[r] = "idle"
    /\ local[HomeOf[r]].left = 0
    /\ calls' = [calls EXCEPT ![r] = "missed"]
    /\ UNCHANGED <<local, remote, redisLock, redisCooling, flight>>

\* The first to join starts the flight, which runs under its context.
Join(r) == LET i == HomeOf[r] IN
    /\ calls[r] = "missed"
    /\ calls' = [calls EXCEPT ![r] = "waiting"]
    /\ flight' = IF flight[i].pc = "none"
                   THEN [flight EXCEPT ![i] =
                           [NoFlight EXCEPT !.pc = "get", !.lead = r]]
                   ELSE flight
    /\ UNCHANGED <<local, remote, redisLock, redisCooling>>

\* A caller that leaves is answered at once; the flight goes on without it,
\* but with a dead context when it was the first.
Leave(r) == LET i == HomeOf[r] IN
    /\ calls[r] = "waiting"
    /\ calls' = [calls EXCEPT ![r] = "idle"]
    /\ flight' = IF flight[i].lead = r
                   THEN [flight EXCEPT ![i].gone = TRUE] ELSE flight
    /\ UNCHANGED <<local, remote, redisLock, redisCooling>>

-----------------------------------------------------------------------------
(* The flight. *)

\* The flight looks in L1 again, then in Redis.
LookUp(i) ==
    /\ flight[i].pc = "get"
    /\ \/ /\ local[i].left > 0
          /\ Land(i)
          /\ UNCHANGED <<local, redisCooling>>
       \/ /\ local[i].left = 0 /\ Reachable(i) /\ remote.left > 0
          /\ Keep(i) /\ Land(i)
          /\ UNCHANGED redisCooling
       \/ /\ local[i].left = 0 /\ Reachable(i) /\ remote.left = 0
          /\ Goto(i, "lock")
          /\ UNCHANGED <<local, redisCooling, calls>>
       \/ /\ local[i].left = 0 /\ Usable(i)
          /\ AvoidRedis(i) /\ Goto(i, "lock")
          /\ UNCHANGED <<local, calls>>
       \/ /\ local[i].left = 0 /\ ~Usable(i)
          /\ Goto(i, "lock")
          /\ UNCHANGED <<local, redisCooling, calls>>
    /\ UNCHANGED <<remote, redisLock>>

\* SETNX of the lock.  A flight that had to wait looks in Redis again once it
\* holds the lock.
Grab(i) ==
    /\ Reachable(i) /\ redisLock.left = 0
    /\ redisLock' = [owner |-> i, left |-> LockTTL]
    /\ flight' = [flight EXCEPT ![i].locked = TRUE, ![i].pc =
                    IF flight[i].waited THEN "recheck" ELSE "produce"]
    /\ UNCHANGED redisCooling

\* The call fails: the lock may be taken all the same, and then no one knows.
LostGrab == \/ redisLock' = redisLock
            \/ redisLock.left = 0 /\ redisLock' = [owner |-> Lost, left |-> LockTTL]

\* The first attempt: another holds the lock, so wait; without Redis, produce.
TryLock(i) ==
    /\ flight[i].pc = "lock"
    /\ \/ Grab(i)
       \/ /\ Reachable(i) /\ redisLock.left > 0
          /\ flight' = [flight EXCEPT ![i].pc = "wait", ![i].waited = TRUE]
          /\ UNCHANGED <<redisLock, redisCooling>>
       \/ /\ Usable(i)
          /\ LostGrab
          /\ AvoidRedis(i)
          /\ Goto(i, "produce")
       \/ ~Usable(i) /\ Goto(i, "produce") /\ UNCHANGED <<redisLock, redisCooling>>
    /\ UNCHANGED <<local, remote, calls>>

\* The timers of the loop are at least 10 ms apart, so that its deadline comes
\* after a bounded number of turns, and may come after any.
WaitOn(i) == flight' = [flight EXCEPT ![i].pc = "wait", ![i].wait = @ + 1]

\* A turn of the waiting loop: look in Redis, then try the lock again.
Poll(i) ==
    /\ flight[i].pc = "wait" /\ flight[i].wait < LockWait
    /\ \/ /\ Reachable(i) /\ remote.left > 0
          /\ Keep(i) /\ Land(i)
          /\ UNCHANGED redisCooling
       \/ /\ Reachable(i) /\ remote.left = 0
          /\ Goto(i, "relock")
          /\ UNCHANGED <<local, redisCooling, calls>>
       \/ /\ Usable(i)
          /\ AvoidRedis(i) /\ Goto(i, "produce")
          /\ UNCHANGED <<local, calls>>
       \/ /\ ~Usable(i)
          /\ Goto(i, "produce")
          /\ UNCHANGED <<local, redisCooling, calls>>
    /\ UNCHANGED <<remote, redisLock>>

Relock(i) ==
    /\ flight[i].pc = "relock"
    /\ \/ Grab(i)
       \/ /\ Reachable(i) /\ redisLock.left > 0
          /\ WaitOn(i) /\ UNCHANGED <<redisLock, redisCooling>>
       \/ /\ Usable(i)
          /\ LostGrab
          /\ AvoidRedis(i)
          /\ WaitOn(i)
    /\ UNCHANGED <<local, remote, calls>>

\* The deadline of the loop has come, or the caller has gone: an error for all.
GiveUp(i) ==
    /\ flight[i].pc = "wait"
    /\ Land(i)
    /\ UNCHANGED <<local, remote, redisLock, redisCooling>>

\* The previous owner may have published between the last look and the lock.
LookAgain(i) ==
    /\ flight[i].pc = "recheck"
    /\ \/ /\ Reachable(i) /\ remote.left > 0
          /\ Keep(i) /\ Goto(i, "release")
          /\ UNCHANGED redisCooling
       \/ /\ Reachable(i) /\ remote.left = 0
          /\ Goto(i, "produce")
          /\ UNCHANGED <<local, redisCooling>>
       \/ /\ Usable(i)
          /\ AvoidRedis(i) /\ Goto(i, "produce")
          /\ UNCHANGED local
       \/ /\ ~Usable(i)
          /\ Goto(i, "produce")
          /\ UNCHANGED <<local, redisCooling>>
    /\ UNCHANGED <<remote, redisLock, calls>>

\* The query is answered: the value starts its life here.  A caller that has
\* gone, an error, or a value above the size limit leaves nothing behind.
Produce(i) ==
    /\ flight[i].pc = "produce"
    /\ \/ /\ ~flight[i].gone
          /\ local' = [local EXCEPT ![i] = [left |-> TTL, age |-> 0]]
          /\ Goto(i, "publish")
       \/ Goto(i, "release") /\ UNCHANGED local
    /\ UNCHANGED <<remote, redisLock, redisCooling, calls>>

StoreAnswer(i) ==
    /\ flight[i].pc = "publish"
    /\ \/ /\ Reachable(i)
          /\ remote' = [left |-> TTL, age |-> 0]
          /\ UNCHANGED redisCooling
       \/ /\ Usable(i)
          /\ remote' \in {remote, [left |-> TTL, age |-> 0]}
          /\ AvoidRedis(i)
       \/ ~Usable(i) /\ UNCHANGED <<remote, redisCooling>>
    /\ Goto(i, "release")
    /\ UNCHANGED <<local, redisLock, calls>>

\* Variant: the unlock without the comparison of the token.
UnlockedBlindly(i) == NoLock

\* The script deletes the lock only when it still holds this owner's token.
\* It runs under its own context, and also while the instance is cooling.
Unlocked(i) == IF redisLock.owner = i THEN NoLock ELSE redisLock
DroppedLocally(i) == IF redisLock.owner = i THEN [redisLock EXCEPT !.owner = Lost] ELSE redisLock

Unlock(i) ==
    /\ flight[i].pc = "release"
    /\ \/ ~flight[i].locked /\ UNCHANGED <<redisLock, redisCooling>>
       \/ flight[i].locked /\ redisLock' = Unlocked(i) /\ UNCHANGED redisCooling
       \/ /\ flight[i].locked
          /\ redisLock' \in {Unlocked(i), DroppedLocally(i)}
          /\ AvoidRedis(i)
    /\ Land(i)
    /\ UNCHANGED <<local, remote>>

-----------------------------------------------------------------------------
\* A tick: lives and locks run out.
OneTickOlder(v) == IF v.left <= 1 THEN NoValue
                           ELSE [left |-> v.left - 1, age |-> v.age + 1]
Outlived(l) == IF l.left <= 1 THEN NoLock ELSE [l EXCEPT !.left = @ - 1]

CacheTick ==
    /\ \A i \in Instance : flight[i].pc \in {"none", "produce", "wait"}
    /\ local' = [i \in Instance |-> OneTickOlder(local[i])]
    /\ remote' = OneTickOlder(remote)
    /\ redisLock' = Outlived(redisLock)
    /\ redisCooling' = [i \in Instance |->
                     IF redisCooling[i] = 0 THEN 0 ELSE redisCooling[i] - 1]
    /\ UNCHANGED <<flight, calls>>

Proceed(i) == \/ LookUp(i) \/ TryLock(i) \/ Relock(i) \/ LookAgain(i)
              \/ Produce(i) \/ StoreAnswer(i) \/ Unlock(i)

CacheNext ==
    \/ \E r \in Asker : Ask(r) \/ Join(r) \/ Leave(r)
    \/ \E i \in Instance : Proceed(i) \/ Poll(i) \/ GiveUp(i)
    \/ CacheTick

\* The goroutine of a flight runs; nothing is asked of the callers, of Redis
\* or of the clock but that a waiting loop's timer fires.
CacheFairness ==
    /\ \A r \in Asker : WF_cacheVars(Join(r))
    /\ \A i \in Instance : WF_cacheVars(Proceed(i) \/ Poll(i) \/ GiveUp(i))

CacheSpec == CacheInit /\ [][CacheNext]_cacheVars /\ CacheFairness

-----------------------------------------------------------------------------
(* Properties. *)

\* The lock of an instance ends by its own release or by its expiry, whatever
\* others do: an owner that comes back after its lock expired must not delete
\* the lock of the next (unlockScript compares the token).
LockIsKept ==
    [][\A i \in Instance :
         redisLock.owner = i /\ redisLock.left > 1 /\ flight[i].pc # "release"
           => redisLock'.owner = i]_cacheVars

\* L1 and L2 together never keep an answer beyond its life: whatever copy a
\* caller is served from, it is at most TTL old.
NeverServedBeyondTTL ==
    \A v \in {local[i] : i \in Instance} \cup {remote} :
        v.left > 0 => v.left + v.age <= TTL

\* Every call is answered, with a value or an error, although locks are lost
\* and productions fail.
EveryCallReturns ==
    \A r \in Asker : calls[r] = "waiting" ~> calls[r] = "idle"
=============================================================================
