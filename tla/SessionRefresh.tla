--------------------------- MODULE SessionRefresh ---------------------------
(***************************************************************************)
(* One browser session (internal/auth/session.go): its record in Redis,    *)
(* the refresh token of the identity provider it holds, and the tabs of    *)
(* one browser that refresh it or log it out through any API instance.     *)
(*                                                                         *)
(* A refresh reads the record, takes a lock, exchanges the token, stores   *)
(* the next record if the version is still the one it read, and removes    *)
(* the lock: every step may interleave with those of other tabs, fail, or  *)
(* be the last one before its process dies.                                *)
(***************************************************************************)
EXTENDS Naturals

CONSTANTS
    Tab,         \* the tabs of the browser
    NoHolder,        \* no one holds the refresh lock
    Orphan,      \* the lock is held by a call that does not know it
    MaxToken,    \* bound: how often the provider rotates the token
    MaxVersion   \* bound: the last version of the record

ASSUME RefreshAssumption ==
    /\ NoHolder \notin Tab /\ Orphan \notin Tab /\ NoHolder # Orphan
    /\ MaxToken \in Nat /\ MaxVersion \in Nat \ {0}

VARIABLES
    record,    \* the record in Redis: [version, token]; version 0 is none
    idpToken,  \* the refresh token the provider accepts
    lock,      \* who holds the refresh lock
    tab,       \* tab[t]: the request of tab t under way
    csrf,      \* csrf[t]: the version whose CSRF value tab t holds
    cookie,    \* does the browser still send the session's cookie
    loggedOut, \* history: a logout was answered with success
    excused    \* history: an answer was lost, or a call to Redis or a process
               \* failed, between the exchange and the storing of its result

refreshVars == <<record, idpToken, lock, tab, csrf, cookie, loggedOut, excused>>

NoRecord == [version |-> 0, token |-> 0]
IdleTab == [pc |-> "idle", version |-> 0, token |-> 0]
TabPC == {"idle", "lock", "exchange", "granted", "refused", "unavailable",
          "delete", "unlock", "logout"}

\* A version is stored with a CSRF value of its own, which it stands for.
RefreshTypeOK ==
    /\ record \in [version : 0 .. MaxVersion, token : 0 .. MaxToken]
    /\ idpToken \in 0 .. MaxToken
    /\ lock \in Tab \cup {NoHolder, Orphan}
    /\ tab \in [Tab -> [pc : TabPC, version : 0 .. MaxVersion,
                        token : 0 .. MaxToken]]
    /\ csrf \in [Tab -> 0 .. MaxVersion]
    /\ {cookie, loggedOut, excused} \subseteq BOOLEAN

\* After the callback stored version 1.
RefreshInit ==
    /\ record = [version |-> 1, token |-> 0]
    /\ idpToken = 0
    /\ lock = NoHolder
    /\ tab = [t \in Tab |-> IdleTab]
    /\ csrf = [t \in Tab |-> 1]
    /\ cookie = TRUE
    /\ loggedOut = FALSE
    /\ excused = FALSE

-----------------------------------------------------------------------------
Step(t, pc) == tab' = [tab EXCEPT ![t].pc = pc]
Answer(t)   == tab' = [tab EXCEPT ![t] = IdleTab]
Exists      == record.version > 0

\* A call to Redis that reports an error may have been applied: the change is
\* one of the two, and the caller takes the path of an error.
Perhaps(new, old) == {new, old}

\* GET /auth/session: the tab gets the CSRF value of the record.
ReadSession(t) ==
    /\ tab[t].pc = "idle" /\ cookie /\ Exists
    /\ csrf' = [csrf EXCEPT ![t] = record.version]
    /\ UNCHANGED <<record, idpToken, lock, tab, cookie, loggedOut, excused>>

\* authorizeRefresh: the record is read without the lock.  A CSRF value of
\* another version gets a conflict and a missing record a refusal, which
\* change nothing.
AuthorizeRefresh(t) ==
    /\ tab[t].pc = "idle" /\ cookie /\ Exists
    /\ csrf[t] = record.version /\ record.version < MaxVersion
    /\ tab' = [tab EXCEPT ![t] = [pc |-> "lock", version |-> record.version,
                                  token |-> record.token]]
    /\ UNCHANGED <<record, idpToken, lock, csrf, cookie, loggedOut, excused>>

\* SETNX of the lock: taken, refused with a conflict, or failed.
TakeRefreshLock(t) ==
    /\ tab[t].pc = "lock"
    /\ \/ /\ lock = NoHolder
          /\ lock' = t
          /\ Step(t, "exchange")
       \/ /\ lock # NoHolder
          /\ UNCHANGED lock
          /\ Answer(t)
       \/ /\ lock' \in Perhaps(IF lock = NoHolder THEN Orphan ELSE lock, lock)
          /\ Answer(t)
    /\ UNCHANGED <<record, idpToken, csrf, cookie, loggedOut, excused>>

\* The provider: it accepts only its current token, and may replace it.
Granted(t, new) ==
    /\ tab[t].token = idpToken
    /\ new \in {idpToken, idpToken + 1} /\ new <= MaxToken
    /\ idpToken' = new

\* Variant: an answer whose claims do not verify counts as a passing failure.
UnverifiedPasses == "unavailable"

\* An answer whose claims do not verify is a permanent failure: the token may
\* have been rotated.
Unverified == "refused"

\* exchange: new claims; a refusal; new claims that do not verify or are of
\* another user, handled as a refusal; no answer, or one of a provider that is
\* temporarily unavailable, which keeps the session.
Exchange(t) ==
    /\ tab[t].pc = "exchange"
    /\ \/ \E new \in 0 .. MaxToken :
             /\ Granted(t, new)
             /\ \/ /\ tab' = [tab EXCEPT ![t] = [pc |-> "granted",
                                version |-> tab[t].version, token |-> new]]
                   /\ UNCHANGED excused
                \/ /\ Step(t, Unverified)
                   /\ UNCHANGED excused
                \/ /\ Step(t, "unavailable")
                   /\ excused' = TRUE
       \/ /\ tab[t].token # idpToken
          /\ Step(t, "refused")
          /\ UNCHANGED <<idpToken, excused>>
       \/ /\ Step(t, "unavailable")
          /\ UNCHANGED <<idpToken, excused>>
    /\ UNCHANGED <<record, lock, csrf, cookie, loggedOut>>

\* Variant: the record is stored whatever Redis holds.
CasSessionBlindly(t, r) == r

\* casSession: the record is replaced when it still has the version read.
CasSession(t, r) ==
    IF Exists /\ record.version = tab[t].version THEN r ELSE record

\* The next record of tab t, with the token the provider answered.
NextRecord(t) == [version |-> tab[t].version + 1, token |-> tab[t].token]

\* The result of the exchange is stored: with success the tab gets the next
\* CSRF value; otherwise the session is removed.
StoreSession(t) ==
    /\ tab[t].pc = "granted"
    /\ \/ /\ record' = CasSession(t, NextRecord(t))
          /\ IF record' # record
               THEN /\ csrf' = [csrf EXCEPT ![t] = record'.version]
                    /\ cookie' = TRUE
                    /\ Step(t, "unlock")
               ELSE Step(t, "delete") /\ UNCHANGED <<csrf, cookie>>
          /\ UNCHANGED excused
       \/ /\ record' \in Perhaps(CasSession(t, NextRecord(t)), record)
          /\ Step(t, "delete")
          /\ excused' = TRUE
          /\ UNCHANGED <<csrf, cookie>>
    /\ UNCHANGED <<idpToken, lock, loggedOut>>

\* What follows a permanent failure of the exchange, and
\* invalidateRotatedSession after one of the store.
\* The record is removed, best effort, and the cookie with it.
DeleteSession(t) ==
    /\ tab[t].pc \in {"refused", "delete"}
    /\ \/ record' = NoRecord /\ UNCHANGED excused
       \/ record' \in Perhaps(NoRecord, record) /\ excused' = TRUE
    /\ cookie' = FALSE
    /\ Step(t, "unlock")
    /\ UNCHANGED <<idpToken, lock, csrf, loggedOut>>

\* The deferred script removes the lock only if this call still owns it.
ReleaseRefreshLock(t) ==
    /\ tab[t].pc \in {"unlock", "unavailable"}
    /\ LET mine == lock = t
           free == IF mine THEN NoHolder ELSE lock
           kept == IF mine THEN Orphan ELSE lock
       IN  lock' \in Perhaps(free, kept)
    /\ Answer(t)
    /\ UNCHANGED <<record, idpToken, csrf, cookie, loggedOut, excused>>

\* POST /auth/logout: the record is read, then removed.
AuthorizeLogout(t) ==
    /\ tab[t].pc = "idle" /\ cookie /\ Exists
    /\ csrf[t] = record.version
    /\ Step(t, "logout")
    /\ UNCHANGED <<record, idpToken, lock, csrf, cookie, loggedOut, excused>>

Logout(t) ==
    /\ tab[t].pc = "logout"
    /\ \/ /\ record' = NoRecord
          /\ cookie' = FALSE
          /\ loggedOut' = TRUE
       \/ /\ record' \in Perhaps(NoRecord, record)
          /\ UNCHANGED <<cookie, loggedOut>>
    /\ Answer(t)
    /\ UNCHANGED <<idpToken, lock, csrf, excused>>

\* The process that serves the tab dies: its lock stays until it expires.
Die(t) ==
    /\ tab[t].pc # "idle"
    /\ Answer(t)
    /\ lock' = IF lock = t THEN Orphan ELSE lock
    /\ excused' = (excused \/ tab[t].pc \in {"granted", "refused", "delete"})
    /\ UNCHANGED <<record, idpToken, csrf, cookie, loggedOut>>

\* Lives in Redis: the lock lasts 15 to 30 s, which the exchange and the
\* key set it may have to fetch can exceed; the record its idle time.
ExpireLock ==
    /\ lock # NoHolder
    /\ lock' = NoHolder
    /\ UNCHANGED <<record, idpToken, tab, csrf, cookie, loggedOut, excused>>

ExpireSession ==
    /\ Exists
    /\ record' = NoRecord
    /\ UNCHANGED <<idpToken, lock, tab, csrf, cookie, loggedOut, excused>>

RefreshNext ==
    \/ \E t \in Tab :
         \/ ReadSession(t) \/ AuthorizeRefresh(t) \/ TakeRefreshLock(t)
         \/ Exchange(t) \/ StoreSession(t) \/ DeleteSession(t)
         \/ ReleaseRefreshLock(t)
         \/ AuthorizeLogout(t) \/ Logout(t) \/ Die(t)
    \/ ExpireLock \/ ExpireSession

RefreshSpec == RefreshInit /\ [][RefreshNext]_refreshVars

-----------------------------------------------------------------------------
\* A session that was logged out stays gone: a refresh that was exchanging
\* its token meanwhile does not bring it back.
LogoutIsFinal == loggedOut => ~Exists

\* When no request is under way, the record holds the token the provider
\* accepts: whichever tabs raced, none leaves a record behind with a token
\* that was already used, unless an answer or a call was lost on the way.
NoSpentTokenKept ==
    (\A t \in Tab : tab[t].pc = "idle") /\ Exists /\ ~excused
        => record.token = idpToken
=============================================================================
