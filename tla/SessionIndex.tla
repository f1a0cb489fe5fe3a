---------------------------- MODULE SessionIndex ----------------------------
(***************************************************************************)
(* The records of browser logins in Redis (internal/auth/session.go): one  *)
(* key per login transaction and per session with a life of its own, and   *)
(* for each kind an index that orders the keys by their end, by which the  *)
(* caps on their number are kept.  Every script is atomic; between them    *)
(* time passes and keys end.                                               *)
(*                                                                         *)
(* Time is counted in halves of a second, because the scripts that store a *)
(* key reckon in milliseconds and the one that touches it in seconds.  A   *)
(* life is kept as what remains of it.                                     *)
(***************************************************************************)
EXTENDS Naturals, FiniteSets

CONSTANTS
    Sid,           \* values of the session cookie
    Txn,           \* values of the login cookie
    MaxSessions,   \* SessionConfig.MaxSessions
    MaxLogins,     \* maxLoginTransactions
    IdleTTL,       \* seconds a session lives without a request
    AbsoluteTTL,   \* seconds a session lives at most
    TransactionTTL \* seconds a login may take

ASSUME SessionIndexAssumption ==
    /\ {MaxSessions, MaxLogins, IdleTTL, AbsoluteTTL, TransactionTTL}
         \subseteq Nat \ {0}
    /\ IdleTTL <= AbsoluteTTL

VARIABLES
    half,      \* 0 or 1: the half of the second the clock is in
    key,       \* key[s]: halves the session's key has left; 0 is no key
    absolute,  \* absolute[s]: seconds until the end written in the record
    index,     \* index[s]: halves until the end the index gives s; 0 is absent
    login,     \* login[x]: halves the transaction's key has left
    loginIndex,\* the index of the transactions
    callback,  \* callback[s]: the transaction whose callback will store s
    used       \* history: used[x], how many sessions transaction x has made

sessionVars == <<half, key, absolute, index, login, loginIndex, callback, used>>

NoTxn == "none"
Halves(seconds) == 2 * seconds
Present(life) == {x \in DOMAIN life : life[x] > 0}

SessionIndexTypeOK ==
    /\ half \in {0, 1}
    /\ key \in [Sid -> 0 .. Halves(IdleTTL)]
    /\ absolute \in [Sid -> 0 .. AbsoluteTTL + 1]
    /\ index \in [Sid -> 0 .. Halves(IdleTTL)]
    /\ login \in [Txn -> 0 .. Halves(TransactionTTL)]
    /\ loginIndex \in [Txn -> 0 .. Halves(TransactionTTL)]
    /\ callback \in [Sid -> Txn \cup {NoTxn}]
    /\ used \in [Txn -> Nat]

SessionIndexInit ==
    /\ half = 0
    /\ key = [s \in Sid |-> 0] /\ absolute = [s \in Sid |-> 0]
    /\ index = [s \in Sid |-> 0]
    /\ login = [x \in Txn |-> 0] /\ loginIndex = [x \in Txn |-> 0]
    /\ callback = [s \in Sid |-> NoTxn]
    /\ used = [x \in Txn |-> 0]

-----------------------------------------------------------------------------
Smaller(a, b) == IF a < b THEN a ELSE b

\* The admission of the store scripts.  Entries that have ended were removed
\* (they are absent here); when the index is full those whose key is gone are
\* removed too; the entry of a session that is replaced does not count.
Pruned(idx, life, cap, replaced) ==
    IF Cardinality(Present(idx) \ replaced) >= cap
      THEN [x \in DOMAIN idx |-> IF life[x] = 0 THEN 0 ELSE idx[x]]
      ELSE idx
Admits(idx, cap, replaced) == Cardinality(Present(idx) \ replaced) < cap

\* GET /auth/login: the transaction is stored, or refused with 503.
Login(x) ==
    /\ login[x] = 0 /\ used[x] = 0
    /\ \A s \in Sid : callback[s] # x
    /\ LET idx == Pruned(loginIndex, login, MaxLogins, {}) IN
       IF Admits(idx, MaxLogins, {})
         THEN /\ login' = [login EXCEPT ![x] = Halves(TransactionTTL)]
              /\ loginIndex' = [idx EXCEPT ![x] = Halves(TransactionTTL)]
         ELSE loginIndex' = idx /\ UNCHANGED login
    /\ UNCHANGED <<half, key, absolute, index, callback, used>>

\* The transaction is read and removed in one script.
Taken(x) == /\ login' = [login EXCEPT ![x] = 0]
            /\ loginIndex' = [loginIndex EXCEPT ![x] = 0]

\* GET /auth/callback, first script: whoever gets the transaction goes on to
\* exchange the code; a second one with the same cookie is refused.
BeginCallback(x, s) ==
    /\ login[x] > 0
    /\ key[s] = 0 /\ callback[s] = NoTxn
    /\ Taken(x)
    /\ callback' = [callback EXCEPT ![s] = x]
    /\ UNCHANGED <<half, key, absolute, index, used>>

\* Its second script stores the session, with the whole absolute life or what
\* the provider says of its refresh token, in place of the one of the cookie
\* the browser had (prior).
FinishCallback(s, prior, seconds) ==
    LET replaced == prior \ {s}
        idx  == Pruned(index, key, MaxSessions, replaced)
        life == Smaller(Halves(IdleTTL), Halves(seconds))
    IN  /\ callback[s] # NoTxn
        /\ callback' = [callback EXCEPT ![s] = NoTxn]
        /\ IF Admits(idx, MaxSessions, replaced)
             THEN /\ key' = [q \in Sid |-> IF q = s THEN life
                                           ELSE IF q \in replaced THEN 0
                                           ELSE key[q]]
                  /\ index' = [q \in Sid |-> IF q = s THEN life
                                             ELSE IF q \in replaced THEN 0
                                             ELSE idx[q]]
                  /\ absolute' = [absolute EXCEPT ![s] = seconds]
                  /\ used' = [used EXCEPT ![callback[s]] = @ + 1]
             ELSE index' = idx /\ UNCHANGED <<key, absolute, used>>
        /\ UNCHANGED <<half, login, loginIndex>>

\* The exchange failed, or Redis did: no session.
FailCallback(s) ==
    /\ callback[s] # NoTxn
    /\ callback' = [callback EXCEPT ![s] = NoTxn]
    /\ UNCHANGED <<half, key, absolute, index, login, loginIndex, used>>

\* Variant: the key gets its life again and the index does not.
TouchedKeyOnly(s, life) == /\ key' = [key EXCEPT ![s] = life]
                           /\ UNCHANGED index

\* The end in the index is reckoned from the second the clock is in.
Touched(s, life) == /\ key' = [key EXCEPT ![s] = life]
                    /\ index' = [index EXCEPT ![s] = life - half]

Forgotten(s) == /\ key' = [key EXCEPT ![s] = 0]
                /\ index' = [index EXCEPT ![s] = 0]

\* loadSession for a request: a record past its absolute end is removed; one
\* whose claims still hold lives on for the idle time, within that end.
Resolve(s) ==
    /\ key[s] > 0
    /\ IF absolute[s] = 0
         THEN Forgotten(s)
         ELSE Touched(s, Smaller(Halves(IdleTTL), Halves(absolute[s])))
    /\ UNCHANGED <<half, absolute, login, loginIndex, callback, used>>

\* A request with the cookie of a key that is gone tidies the index.
ResolveMissing(s) ==
    /\ key[s] = 0 /\ index[s] > 0
    /\ index' = [index EXCEPT ![s] = 0]
    /\ UNCHANGED <<half, key, absolute, login, loginIndex, callback, used>>

\* casSession: a refreshed record, whose end may have come closer but never
\* goes further away (refreshExpiry).
RefreshExpiry(left, seconds) == Smaller(left, seconds)
RefreshSession(s, seconds) ==
    LET left == RefreshExpiry(absolute[s], seconds)
        life == Smaller(Halves(IdleTTL), Halves(left))
    IN  /\ key[s] > 0 /\ left > 0
        /\ key' = [key EXCEPT ![s] = life]
        /\ index' = [index EXCEPT ![s] = life]
        /\ absolute' = [absolute EXCEPT ![s] = left]
        /\ UNCHANGED <<half, login, loginIndex, callback, used>>

\* deleteSession, of a logout or a refused refresh.
RemoveSession(s) ==
    /\ key[s] > 0
    /\ Forgotten(s)
    /\ UNCHANGED <<half, absolute, login, loginIndex, callback, used>>

\* Half a second passes: Redis removes the keys that ended.  An entry that
\* ended counts in no index, as every store begins by removing such entries.
Sooner(life) == [x \in DOMAIN life |-> IF life[x] = 0 THEN 0 ELSE life[x] - 1]
PassTime ==
    /\ half' = 1 - half
    /\ key' = Sooner(key) /\ index' = Sooner(index)
    /\ login' = Sooner(login) /\ loginIndex' = Sooner(loginIndex)
    /\ absolute' = IF half = 1 THEN Sooner(absolute) ELSE absolute
    /\ UNCHANGED <<callback, used>>

SessionIndexNext ==
    \/ \E x \in Txn : Login(x) \/ \E s \in Sid : BeginCallback(x, s)
    \/ \E s \in Sid :
         \/ \E prior \in {{}} \cup {{q} : q \in Sid}, n \in {1, AbsoluteTTL} :
               FinishCallback(s, prior, n)
         \/ FailCallback(s) \/ Resolve(s) \/ ResolveMissing(s)
         \/ \E n \in {1, AbsoluteTTL} : RefreshSession(s, n)
         \/ RemoveSession(s)
    \/ PassTime

SessionIndexSpec == SessionIndexInit /\ [][SessionIndexNext]_sessionVars

-----------------------------------------------------------------------------
\* Every session with more than half a second to live is in the index that
\* the cap is counted by, through every touch, removal and clean-up, although
\* the index only follows the keys.  (The converse of the cap does not hold:
\* an index entry ends up to a second before its key, and a login in that
\* second is let in beyond MaxSessions.)
LiveSessionsIndexed == {s \in Sid : key[s] > 1} \subseteq Present(index)
=============================================================================
