---------------------------- MODULE ObjectReview ----------------------------
(***************************************************************************)
(* The two requests that leave the read-only catalog                       *)
(* (internal/resourcecatalog/detail.go, dryrun.go): the detail of an       *)
(* object, and the review of a manifest by a dry run.                      *)
(*                                                                         *)
(* A user asks about an object of a version it has seen.  What it asks is  *)
(* checked against the index of the catalog, which lags, then a budget of  *)
(* its own is charged and the API server is asked: once for a detail, twice*)
(* for a review.  All the while the object is edited, deleted and created  *)
(* again.                                                                  *)
(*                                                                         *)
(* Versions are numbers that no two states of the object share.  A version *)
(* has an identity, a value and an owner of the field that a manifest      *)
(* sets.  Left out: how a manifest is parsed beyond that it may be invalid *)
(* or name another object, admission that edits what is applied, and the   *)
(* difference shown (ReviewDiff).                                          *)
(***************************************************************************)
EXTENDS Naturals, Sequences, FiniteSets

CONSTANTS
    Reviewer,       \* the requests in flight at most, each asked again and again
    FieldValues,    \* the values of the field
    ReviewBurst, ReviewSlots,   \* tokens and running requests of a budget
    MaxObjectMoves, \* bound: the states of the object after the first
    NoUid            \* no identity: an object that is gone, an index not built

ASSUME ReviewAssumption ==
    /\ IsFiniteSet(Reviewer)
    /\ ReviewBurst \in Nat
    /\ NoUid \notin Nat

VARIABLES
    versions,  \* what the object was and is, by resource version
    shownUid,  \* the identity that the index shows, or NoUid
    asks,      \* the requests
    guard      \* detailGuard: the budget of details and that of reviews

reviewVars == <<versions, shownUid, asks, guard>>

Kinds == {"detail", "review"}
Gone == [uid |-> NoUid, value |-> NoUid, owned |-> FALSE]
Latest == Len(versions)
SeenUids == {versions[v].uid : v \in 1..Latest} \ {NoUid}

NoAnswer == [at |-> "done", outcome |-> "none"]

ObjectReviewInit ==
    /\ versions = <<[uid |-> 1, value |-> 1, owned |-> FALSE]>>
    /\ shownUid = 1
    /\ asks = [r \in Reviewer |-> NoAnswer]
    /\ guard = [k \in Kinds |-> [tokens |-> ReviewBurst, inflight |-> 0]]

-----------------------------------------------------------------------------
\* An answer of any kind gives the slot back; the token is spent.
Released(k) == [guard EXCEPT ![k].inflight = @ - 1]
EndAsk(r, answer) ==
    /\ asks' = [asks EXCEPT ![r] = answer]
    /\ guard' = Released(asks[r].kind)
FailAsk(r) == EndAsk(r, NoAnswer)
AnswerAsk(r, outcome) ==
    EndAsk(r, [at |-> "done", outcome |-> outcome, uid |-> asks[r].uid, rv |-> asks[r].rv,
            value |-> asks[r].value, live |-> asks[r].live, on |-> Latest])

\* Service.Get, Service.DryRun: what is asked is compared with the index, then
\* the guard is asked; only then is the API server.  A user may combine an
\* identity and a version that it has seen in any way.
AskOpen(r) ==
    \E k \in Kinds, uid \in SeenUids, rv \in 1..Latest, value \in FieldValues :
        /\ asks[r].at = "done"
        /\ k = "detail" => rv = 1 /\ value = 1   \* a detail has neither
        /\ shownUid = uid
        /\ guard[k].tokens >= 1 /\ guard[k].inflight < ReviewSlots
        /\ guard' = [guard EXCEPT ![k].tokens = @ - 1, ![k].inflight = @ + 1]
        /\ asks' = [asks EXCEPT ![r] = [at |-> "get", kind |-> k, uid |-> uid, rv |-> rv,
                                        value |-> value, live |-> 0]]
        /\ UNCHANGED <<versions, shownUid>>

\* The live object must be the one asked about, and for a review the version.
LiveGet(r) ==
    LET ask == asks[r]
    IN /\ ask.at = "get"
       /\ CASE versions[Latest].uid # ask.uid -> FailAsk(r)
            [] versions[Latest].uid = ask.uid /\ ask.kind = "detail" -> AnswerAsk(r, "detail")
            [] versions[Latest].uid = ask.uid /\ ask.kind = "review" /\ Latest # ask.rv ->
                 FailAsk(r)
            [] OTHER -> /\ asks' = [asks EXCEPT ![r].at = "patch", ![r].live = Latest]
                        /\ UNCHANGED guard
       /\ UNCHANGED <<versions, shownUid>>

\* buildApplyObject: whatever the manifest says, the patch carries the identity
\* and the version asked about.
ApplyObjectFree(ask) == [uid |-> ask.uid, rv |-> NoUid, value |-> ask.value]
ApplyObject(ask) == [uid |-> ask.uid, rv |-> ask.rv, value |-> ask.value]

\* The API server merges the patch into what the object is now, and only then
\* compares the identity and the version; nothing is stored.
OwnedByOther(patch) == versions[Latest].owned /\ versions[Latest].value # patch.value
Applies(patch) == versions[Latest].uid = patch.uid /\ patch.rv \in {NoUid, Latest}

\* The result of the patch is compared with what was read before it.  A conflict
\* of versions is no answer.  classifyDryRunRejection: a field of another
\* manager, a manifest that is not valid and an admission that says no are one,
\* and all of them may be found before the version is compared.
DryRunPatch(r) ==
    LET ask == asks[r]
        patch == ApplyObject(ask)
    IN /\ ask.at = "patch"
       /\ \/ AnswerAsk(r, "rejected")
          \/ ~OwnedByOther(patch) /\ ~Applies(patch) /\ FailAsk(r)
          \/ /\ ~OwnedByOther(patch) /\ Applies(patch)
             /\ AnswerAsk(r, IF patch.value = versions[ask.live].value
                              THEN "unchanged" ELSE "changed")
       /\ UNCHANGED <<versions, shownUid>>

\* classifyDryRunError: a call fails, takes too long or is cancelled.
FailCall(r) ==
    /\ asks[r].at \in {"get", "patch"}
    /\ FailAsk(r)
    /\ UNCHANGED <<versions, shownUid>>

RefillGuard(k) ==
    /\ guard[k].tokens < ReviewBurst
    /\ guard' = [guard EXCEPT ![k].tokens = @ + 1]
    /\ UNCHANGED <<versions, shownUid, asks>>

-----------------------------------------------------------------------------
\* The object, and the index that follows it.
ChangeObject ==
    /\ Latest <= MaxObjectMoves
    /\ \E new \in [uid : {versions[Latest].uid}, value : FieldValues, owned : BOOLEAN]
                    \cup {Gone, [uid |-> Latest + 1, value |-> 1, owned |-> FALSE]} :
          /\ new # versions[Latest]
          /\ (new.uid = Latest + 1) => versions[Latest] = Gone
          /\ versions' = Append(versions, new)
    /\ UNCHANGED <<shownUid, asks, guard>>

IndexFollows ==
    /\ shownUid' \in {versions[Latest].uid, NoUid} \ {shownUid}
    /\ UNCHANGED <<versions, asks, guard>>

ObjectReviewNext ==
    \/ \E r \in Reviewer : AskOpen(r) \/ LiveGet(r) \/ DryRunPatch(r) \/ FailCall(r)
    \/ \E k \in Kinds : RefillGuard(k)
    \/ ChangeObject \/ IndexFollows

ObjectReviewSpec == ObjectReviewInit /\ [][ObjectReviewNext]_reviewVars

-----------------------------------------------------------------------------
\* A difference speaks of the version that the user has seen, whatever happened
\* to the object before, between and after the two calls: the API server judged
\* that version, and the difference is one to it.  A rejection is promised less:
\* the object was of the version seen when it was read, and was judged then or
\* later, as what it had become.  A detail shows the object that was opened,
\* never one that has taken its name.  Every slot of a budget belongs to a
\* request that runs.  (Service.Get, detail.go; Service.DryRun, dryrun.go.)
Reviewed(ask) == ask.outcome \in {"changed", "unchanged", "rejected"}
ReadAsSeen(ask) ==
    /\ ask.live = ask.rv /\ versions[ask.rv].uid = ask.uid
    /\ ask.on >= ask.rv
JudgedAsSeen(ask) ==
    /\ ask.on = ask.rv
    /\ ask.outcome = "unchanged" <=> versions[ask.rv].value = ask.value
AnswersAreOfWhatWasSeen ==
    /\ \A r \in Reviewer :
         LET ask == asks[r]
         IN ask.at = "done" =>
              /\ Reviewed(ask) => ReadAsSeen(ask)
              /\ ask.outcome \in {"changed", "unchanged"} => JudgedAsSeen(ask)
              /\ ask.outcome = "detail" => versions[ask.on].uid = ask.uid
    /\ \A k \in Kinds :
         guard[k].inflight = Cardinality({r \in Reviewer : asks[r].at # "done" /\ asks[r].kind = k})
=============================================================================
