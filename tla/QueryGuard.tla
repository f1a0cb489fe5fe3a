----------------------------- MODULE QueryGuard -----------------------------
(***************************************************************************)
(* The guard of the query routes (internal/queryprotect/protect.go): a     *)
(* token bucket and a number of running requests for each user and for     *)
(* each dashboard, both in maps of a bounded size.  Acquire and the        *)
(* release it hands out run under one mutex, so each is a step.  A tick of *)
(* the model is the time in which a bucket gains Rate tokens.              *)
(***************************************************************************)
EXTENDS Naturals, FiniteSetsExt, Functions

CONSTANTS
    User, Board,             \* the users and the dashboards
    UserRate, BoardRate,     \* Config.UserRate, Config.DashboardRate
    UserBurst, BoardBurst,   \* Config.UserBurst, Config.DashboardBurst
    UserLimit, BoardLimit,   \* Config.UserConcurrent, DashboardConcurrent
    MaxIdentities,           \* Config.MaxIdentities
    IdleTicks                \* Config.IdleTTL

ASSUME QueryGuardAssumption ==
    /\ {UserRate, BoardRate, UserBurst, BoardBurst, UserLimit, BoardLimit,
        MaxIdentities, IdleTicks} \subseteq Nat \ {0}
    /\ IsFiniteSet(User) /\ IsFiniteSet(Board)

VARIABLES
    users,    \* the users known: [tokens, since, quiet, running]
    boards,   \* the dashboards known, likewise
    permits   \* the requests that hold a permit, by user and dashboard

guardVars == <<users, boards, permits>>

\* since and quiet are the ticks since state.last and state.touched; beyond
\* MaxAge they no longer matter.
MaxAge == Max({IdleTicks, UserBurst, BoardBurst})

Counter == [tokens : 0 .. Max({UserBurst, BoardBurst}), since : 0 .. MaxAge,
            quiet : 0 .. MaxAge, running : 0 .. Max({UserLimit, BoardLimit})]

QueryGuardTypeOK ==
    /\ DOMAIN users \subseteq User /\ Range(users) \subseteq Counter
    /\ DOMAIN boards \subseteq Board /\ Range(boards) \subseteq Counter
    /\ permits \in [User \X Board -> 0 .. Max({UserLimit, BoardLimit})]

QueryGuardInit ==
    /\ users = << >> /\ boards = << >>
    /\ permits = [ub \in User \X Board |-> 0]

-----------------------------------------------------------------------------
Entity(tokens, since, quiet, running) ==
    [tokens |-> tokens, since |-> since, quiet |-> quiet, running |-> running]
Fresh(burst) == Entity(burst, 0, 0, 0)
Put(known, k, s) == [x \in DOMAIN known \cup {k} |-> IF x = k THEN s ELSE known[x]]
Less(known, gone) == Restrict(known, DOMAIN known \ gone)

\* evictOldest: the outcomes it can have.
\* Variant: a request that runs does not protect its entry.
OldestEvictedAny(known) ==
    {Less(known, {k}) : k \in {x \in DOMAIN known :
        \A y \in DOMAIN known : known[y].quiet <= known[x].quiet}}

OldestEvicted(known) ==
    LET idle == {k \in DOMAIN known : known[k].running = 0}
        oldest == {k \in idle : \A y \in idle : known[y].quiet <= known[k].quiet}
    IN  IF idle = {} THEN {known} ELSE {Less(known, {k}) : k \in oldest}

\* evict, every 64th call: the outcome for one map.
Swept(known) ==
    Less(known, {k \in DOMAIN known :
                   known[k].running = 0 /\ known[k].quiet >= IdleTicks})

\* get: the maps in which k may be known afterwards; without k there was no
\* room for it.
Known(known, k, burst) ==
    IF k \in DOMAIN known THEN {known}
    ELSE IF Cardinality(DOMAIN known) < MaxIdentities
      THEN {Put(known, k, Fresh(burst))}
    ELSE {IF Cardinality(DOMAIN m) < MaxIdentities
            THEN Put(m, k, Fresh(burst)) ELSE m : m \in OldestEvicted(known)}

\* take: the bucket is refilled up to burst, and gives a token if it has one.
Refilled(s, rate, burst) ==
    Entity(Min({burst, s.tokens + s.since * rate}), 0, 0, s.running)
Plus(s, n) == [s EXCEPT !.tokens = @ + n]
Spend(s) == [s EXCEPT !.tokens = @ - 1]
Start(s) == [s EXCEPT !.running = @ + 1]

\* What a call of Acquire leaves of the two entries, once both are there.
Decided(u, b) ==
    LET fu == Refilled(u, UserRate, UserBurst)
        fb == Refilled(b, BoardRate, BoardBurst)
        su == Spend(fu)
        sb == Spend(fb)
    IN  IF fu.tokens = 0 THEN <<"user_rate", fu, b>>
        ELSE IF fb.tokens = 0 THEN <<"dashboard_rate", Plus(su, 1), fb>>
        ELSE IF u.running >= UserLimit
          THEN <<"user_concurrency", Plus(su, 1), Plus(sb, 1)>>
        ELSE IF b.running >= BoardLimit
          THEN <<"dashboard_concurrency", Plus(su, 1), Plus(sb, 1)>>
        ELSE <<"admitted", Start(su), Start(sb)>>

-----------------------------------------------------------------------------
\* Guard.Acquire; every 64th call sweeps both maps first.
AcquireFrom(knownUsers, knownBoards, u, b) ==
    \E us \in Known(knownUsers, u, UserBurst) :
      IF u \notin DOMAIN us
        THEN /\ users' = us
             /\ boards' = knownBoards
             /\ UNCHANGED permits
        ELSE \E bs \in Known(knownBoards, b, BoardBurst) :
               IF b \notin DOMAIN bs
                 THEN users' = us /\ boards' = bs /\ UNCHANGED permits
                 ELSE LET d == Decided(us[u], bs[b])
                      IN  /\ users' = [us EXCEPT ![u] = d[2]]
                          /\ boards' = [bs EXCEPT ![b] = d[3]]
                          /\ permits' = IF d[1] = "admitted"
                               THEN [permits EXCEPT ![<<u, b>>] = @ + 1]
                               ELSE permits
Acquire(u, b) ==
    \/ AcquireFrom(users, boards, u, b)
    \/ AcquireFrom(Swept(users), Swept(boards), u, b)

\* The release of a permit.
Stop(s) == Entity(s.tokens, s.since, 0, s.running - 1)
Release(u, b) ==
    /\ permits[u, b] > 0
    /\ permits' = [permits EXCEPT ![<<u, b>>] = @ - 1]
    /\ users' = [users EXCEPT ![u] = Stop(@)]
    /\ boards' = [boards EXCEPT ![b] = Stop(@)]

\* Config.Now: a tick for everybody.
Older(known) ==
    LET Aged(n) == Min({MaxAge, n + 1})
    IN  [k \in DOMAIN known |->
           Entity(known[k].tokens, Aged(known[k].since), Aged(known[k].quiet),
                  known[k].running)]
GuardTick ==
    /\ users' = Older(users) /\ boards' = Older(boards)
    /\ UNCHANGED permits

QueryGuardNext ==
    \/ \E u \in User, b \in Board : Acquire(u, b)
    \/ \E u \in User, b \in Board : Release(u, b)
    \/ GuardTick

QueryGuardSpec == QueryGuardInit /\ [][QueryGuardNext]_guardVars

-----------------------------------------------------------------------------
Held(ps) == SumFunctionOnSet(permits, ps)

\* Every request that runs is counted in the entries of its user and of its
\* dashboard, and nothing else is: an entry that was thrown out and made
\* again would forget its running requests, and the limit with them.  (get,
\* evictOldest, evict, Acquire, release.)
RunningIsCounted ==
    /\ \A u \in User :
         Held({u} \X Board) = IF u \in DOMAIN users THEN users[u].running ELSE 0
    /\ \A b \in Board :
         Held(User \X {b}) = IF b \in DOMAIN boards THEN boards[b].running ELSE 0
    /\ \A u \in DOMAIN users : users[u].running <= UserLimit
    /\ \A b \in DOMAIN boards : boards[b].running <= BoardLimit
=============================================================================
