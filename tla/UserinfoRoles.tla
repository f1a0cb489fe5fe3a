--------------------------- MODULE UserinfoRoles ---------------------------
(***************************************************************************)
(* The roles of one bearer token that carries none, as the provider's      *)
(* userinfo endpoint names them, and their cache (internal/auth/userinfo.go*)
(* and the part of Resolver.Resolve that uses them).  Calls for the same   *)
(* token are not collapsed: each asks, and each stores what it got.        *)
(***************************************************************************)
EXTENDS Naturals

CONSTANTS
    Request,    \* requests with the token at one time
    MaxChange,  \* bound: how often the provider changes the roles
    RolesTTL,   \* userinfoCacheTTL, in ticks
    TokenLife   \* ticks until the token expires

ASSUME UserinfoAssumption ==
    {MaxChange, TokenLife} \subseteq Nat /\ RolesTTL \in Nat \ {0}

VARIABLES
    provided,   \* the roles the provider names now, by their generation
    cached,     \* [roles, left, stale]: left is the life in the cache
    roleCall,   \* roleCall[r]: the request to the provider, if any
    tokenLeft   \* ticks until the token expires

userinfoVars == <<provided, cached, roleCall, tokenLeft>>

\* stale counts the ticks since the provider stopped naming these roles.
Beyond   == RolesTTL + 1
NotCached == [roles |-> 0, left |-> 0, stale |-> 0]
NoCall   == [pc |-> "idle", roles |-> 0, elapsed |-> 0, stale |-> 0]
Upto(n, bound) == IF n > bound THEN bound ELSE n

UserinfoTypeOK ==
    /\ provided \in 0 .. MaxChange
    /\ cached \in [roles : 0 .. MaxChange, left : 0 .. RolesTTL, stale : 0 .. Beyond]
    /\ roleCall \in [Request -> [pc : {"idle", "sent", "answered"},
                       roles : 0 .. MaxChange, elapsed : 0 .. Beyond,
                       stale : 0 .. Beyond]]
    /\ tokenLeft \in 0 .. TokenLife

UserinfoInit ==
    /\ provided = 0
    /\ cached = NotCached
    /\ roleCall = [r \in Request |-> NoCall]
    /\ tokenLeft = TokenLife

-----------------------------------------------------------------------------
\* External: an administrator changes the roles of the user.
ChangeRoles ==
    /\ provided < MaxChange
    /\ provided' = provided + 1
    /\ UNCHANGED <<cached, roleCall, tokenLeft>>

\* Cached roles are used while they last; otherwise the provider is asked.
\* The clock is read before the request is sent.
AskRoles(r) ==
    /\ roleCall[r].pc = "idle"
    /\ cached.left = 0 /\ tokenLeft > 0
    /\ roleCall' = [roleCall EXCEPT ![r].pc = "sent"]
    /\ UNCHANGED <<provided, cached, tokenLeft>>

AnswerRoles(r) ==
    /\ roleCall[r].pc = "sent"
    /\ roleCall' = [roleCall EXCEPT ![r].pc = "answered", ![r].roles = provided]
    /\ UNCHANGED <<provided, cached, tokenLeft>>

\* A failure is a refusal of the request, never an empty set of roles.
FailRoles(r) ==
    /\ roleCall[r].pc = "sent"
    /\ roleCall' = [roleCall EXCEPT ![r] = NoCall]
    /\ UNCHANGED <<provided, cached, tokenLeft>>

\* Variant: the life begins when the answer is stored.
LifeFromStore(r) == Upto(tokenLeft, RolesTTL)

\* The life of what r got: counted from before it asked, and not beyond the
\* token's own end.
LifeLeft(r) ==
    Upto(tokenLeft, IF roleCall[r].elapsed >= RolesTTL THEN 0
                    ELSE RolesTTL - roleCall[r].elapsed)

StoreRoles(r) ==
    /\ roleCall[r].pc = "answered"
    /\ cached' = IF LifeLeft(r) = 0 THEN NotCached
                 ELSE [roles |-> roleCall[r].roles, left |-> LifeLeft(r),
                       stale |-> roleCall[r].stale]
    /\ roleCall' = [roleCall EXCEPT ![r] = NoCall]
    /\ UNCHANGED <<provided, tokenLeft>>

\* A full cache loses expired entries or, if there are none, all.
EvictRoles ==
    /\ cached.left > 0
    /\ cached' = NotCached
    /\ UNCHANGED <<provided, roleCall, tokenLeft>>

Staler(roles, n) == IF roles = provided THEN 0 ELSE Upto(n + 1, Beyond)
TickRoles ==
    /\ tokenLeft' = IF tokenLeft = 0 THEN 0 ELSE tokenLeft - 1
    /\ cached' = IF cached.left <= 1 THEN NotCached
                 ELSE [roles |-> cached.roles, left |-> cached.left - 1,
                       stale |-> Staler(cached.roles, cached.stale)]
    /\ roleCall' = [r \in Request |->
         IF roleCall[r].pc = "idle" THEN NoCall
         ELSE [pc |-> roleCall[r].pc, roles |-> roleCall[r].roles,
               elapsed |-> Upto(roleCall[r].elapsed + 1, Beyond),
               stale |-> IF roleCall[r].pc = "sent" THEN 0
                         ELSE Staler(roleCall[r].roles, roleCall[r].stale)]]
    /\ UNCHANGED provided

UserinfoNext ==
    \/ ChangeRoles \/ EvictRoles \/ TickRoles
    \/ \E r \in Request :
         AskRoles(r) \/ AnswerRoles(r) \/ FailRoles(r) \/ StoreRoles(r)

UserinfoSpec == UserinfoInit /\ [][UserinfoNext]_userinfoVars

-----------------------------------------------------------------------------
\* Roles that the provider took back are used no longer than the life of a
\* cache entry, and not with an expired token, however slow the provider
\* answers and in whichever order the answers are stored.
RolesAreFresh ==
    cached.left > 0 => /\ cached.stale + cached.left <= RolesTTL
                       /\ cached.left <= tokenLeft
=============================================================================
