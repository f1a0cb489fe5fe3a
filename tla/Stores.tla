------------------------------- MODULE Stores -------------------------------
(***************************************************************************)
(* The parts of the API process that keep something for a while, count     *)
(* what they keep or list it page by page, with what they promise in the   *)
(* same words.  They share no state and no step: whatever each does, it    *)
(* does beside the others.                                                 *)
(***************************************************************************)
EXTENDS QueryCache, LocalCache, SessionRefresh, SessionIndex, UserinfoRoles,
        QueryGuard, DashboardDrafts, UpstreamCircuit, UsageStore, SearchLeases, ResourceList

\* The record of a session is gone after the logout, and else holds the
\* token that the identity provider gave last (session.go, refresh); and
\* while it lives the index that the cap is counted by has it.
SessionsAreRight == LogoutIsFinal /\ NoSpentTokenKept /\ LiveSessionsIndexed

\* Nothing kept is used beyond the life it was given where it was made: an
\* answer in the memory of an instance or in Redis (cache.go), the roles
\* of a token (auth/userinfo.go).
NothingIsUsedTooLong == NeverServedBeyondTTL /\ RolesAreFresh

\* Every counter is what it counts, and no cap is passed: the bytes of the
\* in-process cache (cache.go, LRU), the bytes of the generations that
\* walkers keep alive (searchcursor.go), the queries that run per user and
\* per dashboard (queryprotect/protect.go), the drafts of an author
\* (dashboard/store.go), the probe of a half-open upstream (upstream.go), the
\* readings of pods (usage_store.go).
CountersAgree == /\ MemoryAccounted
                 /\ GenerationsAreCounted
                 /\ RunningIsCounted
                 /\ DraftCapKept
                 /\ ClaimIsHeld
                 /\ UsageIsAccounted

\* A list read page by page to its end shows what was there all the time,
\* once each and in order, although rows come, change and go between the
\* pages: the objects of a kind (resourcecatalog/index.go) and the drafts of
\* dashboards (dashboard/store.go).
ListsAreExact == PagesAreExact /\ ListIsComplete
=============================================================================
