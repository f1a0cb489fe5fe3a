--------------------------- MODULE DashboardDrafts ---------------------------
(***************************************************************************)
(* Dashboard drafts (internal/httpapi/dashboard.go over                    *)
(* internal/dashboard/sqlite.go and postgres.go): a user edits a draft and *)
(* submits it, a publisher approves it, and an approved dashboard stays as *)
(* it is.  Every change names the revision that its author has read.       *)
(* Several tabs, of one user or of several, work at the same time; a       *)
(* statement of the database is a step, and so is each of the two reads    *)
(* and writes that a handler makes.  One tab lists the drafts page by page *)
(* while the others work.                                                  *)
(***************************************************************************)
EXTENDS Naturals, SequencesExt, FiniteSetsExt, Functions

CONSTANTS
    Page,          \* the tabs in which dashboards are edited
    Account,       \* the users
    AccountOf,     \* the user of each tab
    Publisher,     \* the users that may publish
    Lister,        \* the user who lists
    DraftId,       \* ids for new drafts, numbers: uuids are compared
    Content,       \* definitions of dashboards
    MaxDrafts,     \* MaxDraftsPerOwner
    PageLimit,     \* the limit of a list request
    MaxRevision,   \* bound: revisions of a draft
    MaxInstant,    \* bound: the clock that stamps created_at
    Postgres       \* whether the store is PostgreSQL; else SQLite

ASSUME DashboardDraftsAssumption ==
    /\ AccountOf \in [Page -> Account] /\ Publisher \subseteq Account
    /\ Lister \in Account
    /\ DraftId \subseteq Nat /\ MaxDrafts \in Nat \ {0}
    /\ PageLimit \in Nat \ {0} /\ Postgres \in BOOLEAN

VARIABLES
    drafts,    \* the table: id -> [owner, rev, state, content, at]
    spent,     \* the ids handed out; a uuid does not come again
    instant,   \* the clock
    read,      \* what each tab has on screen: {} or {[id, rev, content]}
    work,      \* the request each tab has under way
    listing    \* the list that is read: the page asked for next, what it
               \* has shown, and the drafts that have been listable all along

draftVars == <<drafts, spent, instant, read, work, listing>>

Row == [owner : Account, rev : 1 .. MaxRevision, content : Content,
        state : {"draft", "submitted", "approved"}, at : 0 .. MaxInstant]
Idle == [step |-> "idle"]
Begun(c) == [step |-> "begun", content |-> c]
Counted(c) == [step |-> "counted", content |-> c]
Checked(op, id, rev) == [step |-> op, id |-> id, rev |-> rev]
Screen == [id : DraftId, rev : 1 .. MaxRevision, content : Content]

DashboardDraftsTypeOK ==
    /\ DOMAIN drafts \subseteq spent /\ spent \subseteq DraftId
    /\ Range(drafts) \subseteq Row
    /\ instant \in 0 .. MaxInstant
    /\ read \in [Page -> {{}} \cup {{s} : s \in Screen}]
    /\ \A p \in Page : work[p].step \in
         {"idle", "begun", "counted", "submit", "approve"}
    /\ ToSet(listing.shown) \subseteq DraftId

NotListing == [next |-> "none", shown |-> << >>, steady |-> {}]

DashboardDraftsInit ==
    /\ drafts = << >> /\ spent = {} /\ instant = 0
    /\ read = [p \in Page |-> {}]
    /\ work = [p \in Page |-> Idle]
    /\ listing = NotListing

-----------------------------------------------------------------------------
\* The store.

\* Get: one's own drafts, and for a publisher what others have submitted.
Sees(o, admin, d) ==
    d.owner = o \/ (admin /\ d.state \in {"submitted", "approved"})
Visible(o, admin) == {id \in DOMAIN drafts : Sees(o, admin, drafts[id])}

\* The condition of the UPDATE and DELETE statements.
\* Variant: the revision is not compared.
MatchesAnyRevision(id, o, rev, states) ==
    /\ id \in DOMAIN drafts
    /\ drafts[id].owner = o
    /\ drafts[id].state \in states
Matches(id, o, rev, states) ==
    /\ id \in DOMAIN drafts
    /\ drafts[id].owner = o
    /\ drafts[id].rev = rev
    /\ drafts[id].state \in states

Listable(table) ==
    {id \in DOMAIN table : Sees(Lister, Lister \in Publisher, table[id])}

\* Replace the table; the drafts that stay listable stay steady.
SetDrafts(table) ==
    /\ drafts' = table
    /\ listing' = [listing EXCEPT !.steady = @ \cap DOMAIN table]

\* The UPDATE statements write the next revision; owner and age stay.
Revised(d, state, content) ==
    [owner |-> d.owner, rev |-> d.rev + 1, content |-> content,
     state |-> state, at |-> d.at]

\* What a tab shows of a draft; the revision goes into its If-Match.
OnScreen(id, d) == [id |-> id, rev |-> d.rev, content |-> d.content]

Changed(id, d) == SetDrafts([drafts EXCEPT ![id] = d])
Owned(o) == {id \in DOMAIN drafts : drafts[id].owner = o}

\* Create begins a transaction.  In PostgreSQL it waits for the lock of its
\* owner; in SQLite for the only connection.  (There other statements wait for
\* it as well, which leaves fewer orders than are modelled.)
\* Variant: the lock is not taken.
TurnIsFreeAlways(p) == TRUE
TurnIsFree(p) ==
    \A q \in Page : work[q].step \in {"begun", "counted"} =>
        Postgres /\ AccountOf[q] # AccountOf[p]

-----------------------------------------------------------------------------
\* The handlers.

\* handleDashboardGet puts a draft on the screen.
HandleGet(p, id) ==
    /\ work[p] = Idle
    /\ id \in Visible(AccountOf[p], AccountOf[p] \in Publisher)
    /\ read' = [read EXCEPT ![p] = {OnScreen(id, drafts[id])}]
    /\ read' # read
    /\ UNCHANGED <<drafts, spent, instant, work, listing>>

\* handleDashboardCreate, and handleDashboardImport for an exported file.
HandleCreate(p, c) ==
    /\ work[p] = Idle
    /\ TurnIsFree(p)
    /\ work' = [work EXCEPT ![p] = Begun(c)]
    /\ UNCHANGED <<drafts, spent, instant, read, listing>>

\* handleDashboardClone: a draft of one's own, or any approved dashboard.
HandleClone(p, id) ==
    /\ work[p] = Idle
    /\ id \in Visible(AccountOf[p], TRUE)
    /\ drafts[id].owner = AccountOf[p] \/ drafts[id].state = "approved"
    /\ TurnIsFree(p)
    /\ work' = [work EXCEPT ![p] = Begun(drafts[id].content)]
    /\ UNCHANGED <<drafts, spent, instant, read, listing>>

\* Create: the transaction counts the drafts of the owner ...
CreateCount(p) ==
    /\ work[p].step = "begun"
    /\ work' = [work EXCEPT ![p] =
                   IF Cardinality(Owned(AccountOf[p])) >= MaxDrafts THEN Idle
                   ELSE Counted(work[p].content)]
    /\ UNCHANGED <<drafts, spent, instant, read, listing>>

\* ... and inserts the row, which the tab shows.
CreateInsert(p) ==
    /\ work[p].step = "counted"
    /\ \E id \in DraftId \ spent :
         LET d == [owner |-> AccountOf[p], rev |-> 1, state |-> "draft",
                   content |-> work[p].content, at |-> instant]
         IN  /\ spent' = spent \cup {id}
             /\ SetDrafts([x \in DOMAIN drafts \cup {id} |->
                             IF x = id THEN d ELSE drafts[x]])
             /\ read' = [read EXCEPT ![p] = {OnScreen(id, d)}]
    /\ work' = [work EXCEPT ![p] = Idle]
    /\ UNCHANGED instant

\* handleDashboardUpdate, under the revision on the screen.
HandleUpdate(p, c) ==
    /\ work[p] = Idle
    /\ \E s \in read[p] :
         /\ Matches(s.id, AccountOf[p], s.rev, {"draft"})
         /\ LET d == drafts[s.id]
            IN  /\ d.rev < MaxRevision /\ c # d.content
                /\ Changed(s.id, Revised(d, "draft", c))
                /\ read' = [read EXCEPT ![p] = {OnScreen(s.id, Revised(d, "draft", c))}]
    /\ UNCHANGED <<spent, instant, work>>

\* handleDashboardDelete.
HandleDelete(p) ==
    /\ work[p] = Idle
    /\ \E s \in read[p] :
         /\ Matches(s.id, AccountOf[p], s.rev, {"draft", "submitted"})
         /\ SetDrafts(Restrict(drafts, DOMAIN drafts \ {s.id}))
    /\ read' = [read EXCEPT ![p] = {}]
    /\ UNCHANGED <<spent, instant, work>>

\* handleDashboardSubmit and handleDashboardApprove read the draft to
\* validate it ...
HandleSubmit(p) ==
    /\ work[p] = Idle
    /\ \E s \in read[p] :
         /\ s.id \in Visible(AccountOf[p], FALSE)
         /\ work' = [work EXCEPT ![p] = Checked("submit", s.id, s.rev)]
    /\ UNCHANGED <<drafts, spent, instant, read, listing>>

HandleApprove(p) ==
    /\ work[p] = Idle
    /\ AccountOf[p] \in Publisher
    /\ \E s \in read[p] :
         /\ s.id \in Visible(AccountOf[p], TRUE)
         /\ work' = [work EXCEPT ![p] = Checked("approve", s.id, s.rev)]
    /\ UNCHANGED <<drafts, spent, instant, read, listing>>

\* ... and then write, if the revision still is the one on the screen.
Moved(p, state) ==
    LET id == work[p].id
        d == drafts[id]
    IN  /\ d.rev < MaxRevision
        /\ Changed(id, Revised(d, state, d.content))
        /\ read' = [read EXCEPT ![p] = {OnScreen(id, Revised(d, state, d.content))}]

Submit(p) ==
    /\ work[p].step = "submit"
    /\ Matches(work[p].id, AccountOf[p], work[p].rev, {"draft"})
    /\ Moved(p, "submitted")
    /\ work' = [work EXCEPT ![p] = Idle]
    /\ UNCHANGED <<spent, instant>>

Approve(p) ==
    /\ work[p].step = "approve"
    /\ \E o \in Account :
         Matches(work[p].id, o, work[p].rev, {"submitted"})
    /\ Moved(p, "approved")
    /\ work' = [work EXCEPT ![p] = Idle]
    /\ UNCHANGED <<spent, instant>>

\* casError: a write that met no row is answered with an error; the editor
\* keeps what is on the screen until the user reads the draft again.
Refused(p) ==
    /\ work[p].step \in {"submit", "approve"}
    /\ ~ \E o \in Account : LET owner == IF work[p].step = "submit"
                                           THEN AccountOf[p] ELSE o
         IN  Matches(work[p].id, owner, work[p].rev,
                     IF work[p].step = "submit" THEN {"draft"}
                     ELSE {"submitted"})
    /\ work' = [work EXCEPT ![p] = Idle]
    /\ UNCHANGED <<drafts, spent, instant, read, listing>>

-----------------------------------------------------------------------------
\* handleDashboardList over List: rows after the cursor, the newest first and
\* the larger id first among equals.
\* Variant: the cursor holds the time only.
BeforeCursorByTime(id, cursor) == drafts[id].at < cursor.at
BeforeCursor(id, cursor) ==
    \/ drafts[id].at < cursor.at
    \/ drafts[id].at = cursor.at /\ id < cursor.id

Newer(a, b) ==
    \/ drafts[a].at > drafts[b].at
    \/ drafts[a].at = drafts[b].at /\ a > b

\* The rows of a page of at most n.
NewestFirst(rows) ==
    CHOOSE line \in SetToSeqs(rows) : \A i, j \in DOMAIN line : i < j => Newer(line[i], line[j])
PageOf(rows, n) == SubSeq(NewestFirst(rows), 1, IF Cardinality(rows) > n THEN n ELSE Cardinality(rows))

ListStart ==
    /\ listing.next = "none"
    /\ listing' = [next |-> "first", shown |-> << >>,
                   steady |-> Listable(drafts)]
    /\ UNCHANGED <<drafts, spent, instant, read, work>>

ListPage ==
    /\ listing.next \notin {"none", "end"}
    /\ LET rows == {id \in Listable(drafts) :
                      listing.next = "first" \/ BeforeCursor(id, listing.cursor)}
           page == PageOf(rows, PageLimit)
       IN  listing' =
             IF Cardinality(rows) > PageLimit
               THEN [next |-> "more", shown |-> listing.shown \o page,
                     steady |-> listing.steady,
                     cursor |-> [id |-> Last(page), at |-> drafts[Last(page)].at]]
               ELSE [next |-> "end", shown |-> listing.shown \o page,
                     steady |-> listing.steady]
    /\ UNCHANGED <<drafts, spent, instant, read, work>>

DraftClock ==
    /\ instant < MaxInstant
    /\ instant' = instant + 1
    /\ UNCHANGED <<drafts, spent, read, work, listing>>

PageNext(p) ==
    \/ \E id \in DraftId : HandleGet(p, id) \/ HandleClone(p, id)
    \/ \E c \in Content : HandleCreate(p, c) \/ HandleUpdate(p, c)
    \/ CreateCount(p) \/ CreateInsert(p)
    \/ HandleDelete(p)
    \/ HandleSubmit(p) \/ Submit(p)
    \/ HandleApprove(p) \/ Approve(p)
    \/ Refused(p)

ListNext == ListStart \/ ListPage \/ DraftClock

DashboardDraftsNext == (\E p \in Page : PageNext(p)) \/ ListNext

DashboardDraftsSpec == DashboardDraftsInit /\ [][DashboardDraftsNext]_draftVars

-----------------------------------------------------------------------------
\* The limit of drafts of a user holds while several of the user's tabs
\* create and clone at once: the count and the insert are two statements.
\* (Create.)
DraftCapKept == \A o \in Account : Cardinality(Owned(o)) <= MaxDrafts

\* Nobody overwrites what he has not seen: a step that changes a draft, takes
\* it to the next state or deletes it is made by a tab that had its current
\* content and revision on the screen, and an approved one changes no more.
\* (The If-Match revision through every handler, and the state machine.)
NoLostUpdate ==
    [][\A id \in DOMAIN drafts :
         id \notin DOMAIN drafts' \/ drafts'[id] # drafts[id] =>
           /\ drafts[id].state # "approved"
           /\ \E p \in Page : OnScreen(id, drafts[id]) \in read[p]]_draftVars

\* A list that has been read to its end has shown every draft that could be
\* listed all the time, and none twice, whatever was created, changed or
\* deleted between its pages and however many share an instant.  (List,
\* encodeCursor, decodeCursor.)
ListIsComplete ==
    /\ Cardinality(ToSet(listing.shown)) = Len(listing.shown)
    /\ listing.next = "end" => listing.steady \subseteq ToSet(listing.shown)
=============================================================================
