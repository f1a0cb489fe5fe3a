---------------------------- MODULE StoresProofs ----------------------------
(***************************************************************************)
(* Proofs about the parts that keep something and count it: the query      *)
(* cache, the sessions of browsers, the roles of a token, the drafts, the  *)
(* counters of Stores, and the lists of drafts and of objects that are     *)
(* read page by page.  All are for any number of instances, callers, tabs, *)
(* users and objects, and for every life and limit.                        *)
(***************************************************************************)
EXTENDS Stores, SumLemmas, TLAPS

-----------------------------------------------------------------------------
(* The lock *)

Lock == [owner : Instance \cup {Nobody, Lost}, left : Nat]
LockTyped == redisLock \in Lock

\* What a step does to the lock.
LEMMA LockMoves ==
    ASSUME LockTyped, [CacheNext]_cacheVars
    PROVE  \/ redisLock' = redisLock
           \/ /\ redisLock.left = 0
              /\ \E o \in Instance \cup {Lost} : redisLock' = [owner |-> o, left |-> LockTTL]
           \/ \E i \in Instance :
                /\ flight[i].pc = "release"
                /\ redisLock' \in {Unlocked(i), DroppedLocally(i)}
           \/ redisLock' = Outlived(redisLock)
<1> DEFINE Grabbed == \E o \in Instance \cup {Lost} : redisLock' = [owner |-> o, left |-> LockTTL]
           Goal == \/ redisLock' = redisLock
                   \/ redisLock.left = 0 /\ Grabbed
                   \/ \E i \in Instance :
                        /\ flight[i].pc = "release"
                        /\ redisLock' \in {Unlocked(i), DroppedLocally(i)}
                   \/ redisLock' = Outlived(redisLock)
<1>1. ASSUME NEW i \in Instance, Grab(i) \/ LostGrab
      PROVE  redisLock' = redisLock \/ (redisLock.left = 0 /\ Grabbed)
  BY <1>1 DEF Grab, LostGrab
<1>2. ASSUME NEW i \in Instance, TryLock(i) \/ Relock(i) PROVE Goal
  BY <1>1, <1>2 DEF TryLock, Relock
<1>3. ASSUME NEW i \in Instance, Unlock(i) PROVE Goal
  BY <1>3 DEF Unlock
<1>4. ASSUME NEW i \in Instance,
             LookUp(i) \/ LookAgain(i) \/ Produce(i) \/ StoreAnswer(i) \/ Poll(i) \/ GiveUp(i)
      PROVE  redisLock' = redisLock
  BY <1>4 DEF LookUp, LookAgain, Produce, StoreAnswer, Poll, GiveUp
<1>5. ASSUME NEW r \in Asker, Ask(r) \/ Join(r) \/ Leave(r)
      PROVE  redisLock' = redisLock
  BY <1>5 DEF Ask, Join, Leave
<1>6. CASE CacheTick
  BY <1>6 DEF CacheTick
<1>7. CASE UNCHANGED cacheVars
  BY <1>7 DEF cacheVars
<1> QED
  BY <1>2, <1>3, <1>4, <1>5, <1>6, <1>7 DEF CacheNext, Proceed

LEMMA LockTypeStep == LockTyped /\ [CacheNext]_cacheVars => LockTyped'
<1> SUFFICES ASSUME LockTyped, [CacheNext]_cacheVars PROVE LockTyped'
  OBVIOUS
<1>1. LockTTL \in Nat /\ NoLock \in Lock
  BY CacheAssumption DEF NoLock, Lock
<1>2. ASSUME NEW o \in Instance \cup {Lost} PROVE [owner |-> o, left |-> LockTTL] \in Lock
  BY <1>1 DEF Lock
<1>3. ASSUME NEW i \in Instance PROVE Unlocked(i) \in Lock /\ DroppedLocally(i) \in Lock
  BY <1>1 DEF LockTyped, Unlocked, DroppedLocally, Lock
<1>4. Outlived(redisLock) \in Lock
  BY <1>1 DEF LockTyped, Outlived, Lock
<1> QED
  BY <1>2, <1>3, <1>4, LockMoves DEF LockTyped

\* A lock that has time left, of an owner that is not releasing it.
LEMMA LockStep ==
    ASSUME LockTyped, [CacheNext]_cacheVars, NEW i \in Instance,
           redisLock.owner = i, redisLock.left > 1, flight[i].pc # "release"
    PROVE  redisLock'.owner = i
<1>1. ASSUME NEW j \in Instance, flight[j].pc = "release",
             redisLock' \in {Unlocked(j), DroppedLocally(j)}
      PROVE  redisLock' = redisLock
  BY <1>1 DEF Unlocked, DroppedLocally
<1>2. redisLock.left # 0 /\ ~(redisLock.left <= 1)
  BY DEF LockTyped, Lock
<1>3. Outlived(redisLock).owner = i
  BY <1>2 DEF Outlived, LockTyped, Lock
<1> QED
  BY <1>1, <1>2, <1>3, LockMoves

\* The lock of an instance ends by its own release or by its expiry, whatever
\* others do: in particular an owner that comes back after its lock expired
\* leaves the lock of the next alone (unlockScript).
THEOREM LockIsNotTaken == CacheSpec => LockIsKept
<1>1. CacheInit => LockTyped
  BY DEF CacheInit, LockTyped, Lock, NoLock
<1>2. LockTyped /\ [CacheNext]_cacheVars =>
        [\A i \in Instance :
           redisLock.owner = i /\ redisLock.left > 1 /\ flight[i].pc # "release"
             => redisLock'.owner = i]_cacheVars
  BY LockStep
<1> QED
  BY <1>1, <1>2, LockTypeStep, PTL DEF CacheSpec, LockIsKept

-----------------------------------------------------------------------------
(* The life of a value *)

\* A copy of the answer is never older than TTL, whatever remains of its life.
Kept == {v \in [left : Nat, age : Nat] : v.left > 0 => v.left + v.age <= TTL}
CopiesKept == local \in [Instance -> Kept] /\ remote \in Kept

FreshCopy == [left |-> TTL, age |-> 0]

LEMMA CopiesStep == CopiesKept /\ [CacheNext]_cacheVars => CopiesKept'
<1> SUFFICES ASSUME CopiesKept, [CacheNext]_cacheVars PROVE CopiesKept'
  OBVIOUS
<1>0. FreshCopy \in Kept /\ NoValue \in Kept
  BY CacheAssumption DEF FreshCopy, NoValue, Kept
<1>1. ASSUME NEW v \in Kept PROVE OneTickOlder(v) \in Kept
  <2>1. CASE v.left <= 1
    BY <1>0, <2>1 DEF OneTickOlder
  <2>2. CASE ~(v.left <= 1)
    <3>1. v.left \in Nat /\ v.age \in Nat /\ v.left + v.age <= TTL /\ TTL \in Nat
      BY <2>2, CacheAssumption DEF Kept
    <3>2. v.left - 1 \in Nat /\ v.age + 1 \in Nat /\ (v.left - 1) + (v.age + 1) <= TTL
      BY <2>2, <3>1
    <3>3. OneTickOlder(v) = [left |-> v.left - 1, age |-> v.age + 1]
      BY <2>2 DEF OneTickOlder
    <3> QED
      BY <3>2, <3>3 DEF Kept
  <2> QED
    BY <2>1, <2>2
<1>2. ASSUME NEW i \in Instance, Keep(i), remote' = remote PROVE CopiesKept'
  BY <1>2 DEF Keep, CopiesKept
<1>3. ASSUME UNCHANGED <<local, remote>> PROVE CopiesKept'
  BY <1>3 DEF CopiesKept
<1>4. ASSUME NEW i \in Instance, LookUp(i) \/ Poll(i) \/ LookAgain(i) PROVE CopiesKept'
  BY <1>2, <1>3, <1>4 DEF LookUp, Poll, LookAgain
<1>5. ASSUME NEW i \in Instance, TryLock(i) \/ Relock(i) \/ GiveUp(i) \/ Unlock(i)
      PROVE  CopiesKept'
  BY <1>3, <1>5 DEF TryLock, Relock, GiveUp, Unlock
<1>6. ASSUME NEW i \in Instance, Produce(i) PROVE CopiesKept'
  BY <1>0, <1>6 DEF Produce, CopiesKept, FreshCopy
<1>7. ASSUME NEW i \in Instance, StoreAnswer(i) PROVE CopiesKept'
  BY <1>0, <1>7 DEF StoreAnswer, CopiesKept, FreshCopy
<1>8. ASSUME NEW r \in Asker, Ask(r) \/ Join(r) \/ Leave(r) PROVE CopiesKept'
  BY <1>3, <1>8 DEF Ask, Join, Leave
<1>9. CASE CacheTick
  BY <1>1, <1>9 DEF CacheTick, CopiesKept
<1>10. CASE UNCHANGED cacheVars
  BY <1>3, <1>10 DEF cacheVars
<1> QED
  BY <1>4, <1>5, <1>6, <1>7, <1>8, <1>9, <1>10 DEF CacheNext, Proceed

\* L1 and L2 together never keep an answer beyond TTL, however often an answer
\* goes from Redis into a memory, with any number of instances.
THEOREM NothingOutlivesTTL == CacheSpec => []NeverServedBeyondTTL
<1>1. CacheInit => CopiesKept
  BY DEF CacheInit, CopiesKept, Kept, NoValue
<1>2. CopiesKept => NeverServedBeyondTTL
  BY DEF CopiesKept, Kept, NeverServedBeyondTTL
<1> QED
  BY <1>1, <1>2, CopiesStep, PTL DEF CacheSpec

-----------------------------------------------------------------------------
(* The inductive invariant *)

DraftState == {"draft", "submitted", "approved"}
TypedRow == [owner : Account, rev : Nat, content : Content, state : DraftState, at : Nat]
Shown == [id : DraftId, rev : Nat, content : Content]
PageRequest ==
    {Idle} \cup {Begun(c) : c \in Content}
    \cup {Counted(c) : c \in Content}
    \cup {Checked(op, id, rev) : op \in {"submit", "approve"}, id \in DraftId, rev \in Nat}

DraftsTyped ==
    /\ drafts \in [DOMAIN drafts -> TypedRow]
    /\ DOMAIN drafts \subseteq spent /\ spent \subseteq DraftId
    /\ instant \in Nat
    /\ read \in [Page -> SUBSET Shown]
    /\ work \in [Page -> PageRequest]

\* A screen shows a draft as it was at its revision, and none that is to come.
Faithful(s) ==
    /\ s.id \in spent
    /\ s.id \in DOMAIN drafts =>
         /\ s.rev <= drafts[s.id].rev
         /\ s.rev = drafts[s.id].rev => s.content = drafts[s.id].content
ScreensAreFaithful == \A p \in Page : \A s \in read[p] : Faithful(s)

\* A submit or approve that is under way is for what is still on the screen.
UnderItsScreen ==
    \A p \in Page : work[p].step \in {"submit", "approve"} =>
        \E s \in read[p] : s.id = work[p].id /\ s.rev = work[p].rev

\* At most one tab of a user is inside Create ...
Creating(p) == work[p].step \in {"begun", "counted"}
OneCreates ==
    \A p \in Page, q \in Page :
        p # q /\ Creating(p) /\ Creating(q) => AccountOf[p] # AccountOf[q]

\* ... so that there still is room for the draft when it is inserted.
RoomLeft ==
    /\ IsFiniteSet(DOMAIN drafts)
    /\ \A p \in Page : work[p].step = "counted" =>
           Cardinality(Owned(AccountOf[p])) < MaxDrafts

ScreenInv == DraftsTyped /\ ScreensAreFaithful /\ UnderItsScreen
CapInv == OneCreates /\ RoomLeft /\ DraftCapKept

-----------------------------------------------------------------------------
(* Requests *)

\* What is known of a request by its step.
LEMMA RequestStep ==
    ASSUME NEW w \in PageRequest
    PROVE  /\ w.step = "idle" <=> w = Idle
           /\ w.step \in {"begun", "counted"} => w.content \in Content
           /\ w.step \in {"submit", "approve"} => w.id \in DraftId /\ w.rev \in Nat
           /\ w.step \in {"idle", "begun", "counted", "submit", "approve"}
<1>1. CASE w = Idle
  BY <1>1 DEF Idle
<1>2. ASSUME NEW c \in Content, w = Begun(c)
      PROVE  w.step = "begun" /\ w.content = c /\ w # Idle
  BY <1>2 DEF Begun, Idle
<1>3. ASSUME NEW c \in Content, w = Counted(c)
      PROVE  w.step = "counted" /\ w.content = c /\ w # Idle
  BY <1>3 DEF Counted, Idle
<1>4. ASSUME NEW op \in {"submit", "approve"}, NEW id \in DraftId, NEW rev \in Nat,
             w = Checked(op, id, rev)
      PROVE  w.step = op /\ w.id = id /\ w.rev = rev /\ w # Idle
  BY <1>4 DEF Checked, Idle
<1> QED
  BY <1>1, <1>2, <1>3, <1>4 DEF PageRequest

\* The requests that the handlers make.
LEMMA RequestMade ==
    /\ Idle \in PageRequest /\ Idle.step = "idle"
    /\ \A c \in Content : Begun(c) \in PageRequest /\ Begun(c).step = "begun"
    /\ \A c \in Content : Counted(c) \in PageRequest /\ Counted(c).step = "counted"
    /\ \A op \in {"submit", "approve"}, id \in DraftId, rev \in Nat :
         /\ Checked(op, id, rev) \in PageRequest
         /\ Checked(op, id, rev).step = op
         /\ Checked(op, id, rev).id = id /\ Checked(op, id, rev).rev = rev
<1>1. Idle.step = "idle"
  BY DEF Idle
<1>2. \A c \in Content : Begun(c).step = "begun"
  BY DEF Begun
<1>3. \A c \in Content : Counted(c).step = "counted"
  BY DEF Counted
<1>4. \A op \in {"submit", "approve"}, id \in DraftId, rev \in Nat :
         /\ Checked(op, id, rev).step = op
         /\ Checked(op, id, rev).id = id /\ Checked(op, id, rev).rev = rev
  BY DEF Checked
<1> QED
  BY <1>1, <1>2, <1>3, <1>4 DEF PageRequest

\* The next revision of a row is a row, of the same owner.
LEMMA RevisedType ==
    ASSUME NEW d \in TypedRow, NEW st \in DraftState, NEW c \in Content
    PROVE  /\ Revised(d, st, c) \in TypedRow
           /\ Revised(d, st, c).rev = d.rev + 1 /\ d.rev \in Nat
           /\ Revised(d, st, c).owner = d.owner
BY DEF Revised, TypedRow

LEMMA OnScreenType ==
    ASSUME NEW d \in TypedRow, NEW id \in DraftId
    PROVE  /\ OnScreen(id, d) \in Shown
           /\ OnScreen(id, d).id = id /\ OnScreen(id, d).rev = d.rev
           /\ OnScreen(id, d).content = d.content
BY DEF OnScreen, TypedRow, Shown

\* A screen that agrees with a draft in id, revision and content shows it.
LEMMA ShownIsOnScreen ==
    ASSUME NEW s \in Shown, NEW d, s.rev = d.rev, s.content = d.content
    PROVE  s = OnScreen(s.id, d)
BY DEF Shown, OnScreen

-----------------------------------------------------------------------------
(* The screens *)

\* A step that leaves drafts and screens alone may only begin what is on a
\* screen.
LEMMA WorkStep ==
    ASSUME ScreenInv, NEW p \in Page, NEW w \in PageRequest,
           UNCHANGED <<drafts, spent, instant, read>>,
           work' = [work EXCEPT ![p] = w],
           w.step \in {"submit", "approve"} =>
               \E s \in read[p] : s.id = w.id /\ s.rev = w.rev
    PROVE  ScreenInv'
<1>1. DraftsTyped'
  BY DEF ScreenInv, DraftsTyped
<1>2. ScreensAreFaithful'
  BY DEF ScreenInv, ScreensAreFaithful, Faithful
<1>3. UnderItsScreen'
  BY DEF ScreenInv, UnderItsScreen, DraftsTyped
<1> QED
  BY <1>1, <1>2, <1>3 DEF ScreenInv

\* A draft takes its next revision, and the tab that asked shows it.
LEMMA ReviseStep ==
    ASSUME ScreenInv, NEW p \in Page, NEW id \in DOMAIN drafts,
           NEW st \in DraftState, NEW c \in Content,
           drafts' = [drafts EXCEPT ![id] = Revised(drafts[id], st, c)],
           read' = [read EXCEPT ![p] = {OnScreen(id, Revised(drafts[id], st, c))}],
           work' = [work EXCEPT ![p] = Idle],
           UNCHANGED <<spent, instant>>
    PROVE  ScreenInv'
<1> DEFINE new == Revised(drafts[id], st, c)
<1>1. DraftsTyped /\ drafts[id] \in TypedRow /\ id \in DraftId /\ id \in spent
  BY DEF ScreenInv, DraftsTyped
<1>2. /\ new \in TypedRow /\ new.rev = drafts[id].rev + 1 /\ drafts[id].rev \in Nat
  BY <1>1, RevisedType
<1>3. /\ OnScreen(id, new) \in Shown /\ OnScreen(id, new).id = id
      /\ OnScreen(id, new).rev = new.rev /\ OnScreen(id, new).content = new.content
  BY <1>1, <1>2, OnScreenType
<1> HIDE DEF new
<1>4. /\ drafts' \in [DOMAIN drafts -> TypedRow] /\ DOMAIN drafts' = DOMAIN drafts
      /\ \A x \in DOMAIN drafts : drafts'[x] = IF x = id THEN new ELSE drafts[x]
  BY <1>1, <1>2 DEF DraftsTyped, new
<1>5. /\ read' \in [Page -> SUBSET Shown]
      /\ \A q \in Page : read'[q] = IF q = p THEN {OnScreen(id, new)} ELSE read[q]
  BY <1>1, <1>3 DEF DraftsTyped, new
<1>6. /\ work' \in [Page -> PageRequest]
      /\ \A q \in Page : work'[q] = IF q = p THEN Idle ELSE work[q]
  BY <1>1, RequestMade DEF DraftsTyped
<1>7. DraftsTyped'
  BY <1>1, <1>4, <1>5, <1>6 DEF DraftsTyped
<1>8. ASSUME NEW q \in Page, NEW s \in read'[q] PROVE Faithful(s)'
  <2>1. CASE s = OnScreen(id, new)
    <3>1. s.rev = new.rev /\ new.rev \in Nat /\ s.id = id /\ s.content = new.content
      BY <1>2, <1>3, <2>1
    <3>2. drafts'[s.id] = new
      BY <1>4, <3>1
    <3>3. s.rev <= new.rev
      BY <3>1
    <3> QED
      BY <1>1, <3>1, <3>2, <3>3 DEF Faithful
  <2>2. CASE s \in read[q]
    <3>1. Faithful(s) /\ s \in Shown
      BY <1>1, <2>2 DEF ScreenInv, ScreensAreFaithful, DraftsTyped
    <3>2. CASE s.id = id
      <4>1. s.rev <= drafts[id].rev /\ s.rev \in Nat
        BY <3>1, <3>2 DEF Faithful, Shown
      <4>2. s.rev <= new.rev /\ s.rev # new.rev
        BY <1>2, <4>1
      <4>3. drafts'[s.id] = new
        BY <1>4, <3>2
      <4> QED
        BY <3>1, <4>2, <4>3 DEF Faithful
    <3>3. CASE s.id # id
      BY <1>4, <3>1, <3>3 DEF Faithful
    <3> QED
      BY <3>2, <3>3
  <2> QED
    BY <1>5, <2>1, <2>2
<1>9. UnderItsScreen'
  BY <1>5, <1>6, RequestMade DEF ScreenInv, UnderItsScreen
<1> QED
  BY <1>7, <1>8, <1>9 DEF ScreenInv, ScreensAreFaithful

\* A new draft gets an id that no screen has shown.
LEMMA InsertStep ==
    ASSUME ScreenInv, NEW p \in Page, CreateInsert(p)
    PROVE  ScreenInv'
<1>1. DraftsTyped /\ work[p] \in PageRequest /\ work[p].step = "counted"
  BY DEF ScreenInv, DraftsTyped, CreateInsert
<1>2. PICK id \in DraftId \ spent :
        LET d == [owner |-> AccountOf[p], rev |-> 1, state |-> "draft",
                  content |-> work[p].content, at |-> instant]
        IN  /\ spent' = spent \cup {id}
            /\ drafts' = [x \in DOMAIN drafts \cup {id} |-> IF x = id THEN d ELSE drafts[x]]
            /\ read' = [read EXCEPT ![p] = {OnScreen(id, d)}]
  BY DEF CreateInsert, SetDrafts
<1> DEFINE new == [owner |-> AccountOf[p], rev |-> 1, state |-> "draft",
                   content |-> work[p].content, at |-> instant]
<1>3. work[p].content \in Content /\ AccountOf[p] \in Account
  BY <1>1, RequestStep, DashboardDraftsAssumption
<1>4. new \in TypedRow
  BY <1>1, <1>3 DEF TypedRow, DraftState, DraftsTyped
<1>5. /\ spent' = spent \cup {id}
      /\ drafts' = [x \in DOMAIN drafts \cup {id} |-> IF x = id THEN new ELSE drafts[x]]
      /\ read' = [read EXCEPT ![p] = {OnScreen(id, new)}]
      /\ work' = [work EXCEPT ![p] = Idle] /\ instant' = instant
  BY <1>2 DEF CreateInsert
<1>6. /\ OnScreen(id, new) \in Shown /\ OnScreen(id, new).id = id
      /\ OnScreen(id, new).rev = new.rev /\ OnScreen(id, new).content = new.content
  BY <1>4, OnScreenType
<1> HIDE DEF new
<1>7. /\ drafts' \in [DOMAIN drafts' -> TypedRow] /\ DOMAIN drafts' = DOMAIN drafts \cup {id}
      /\ \A x \in DOMAIN drafts' : drafts'[x] = IF x = id THEN new ELSE drafts[x]
  BY <1>1, <1>4, <1>5 DEF DraftsTyped
<1>8. /\ read' \in [Page -> SUBSET Shown]
      /\ \A q \in Page : read'[q] = IF q = p THEN {OnScreen(id, new)} ELSE read[q]
  BY <1>1, <1>5, <1>6 DEF DraftsTyped
<1>9. /\ work' \in [Page -> PageRequest]
      /\ \A q \in Page : work'[q] = IF q = p THEN Idle ELSE work[q]
  BY <1>1, <1>5, RequestMade DEF DraftsTyped
<1>10. DraftsTyped'
  BY <1>1, <1>5, <1>7, <1>8, <1>9 DEF DraftsTyped
<1>11. ASSUME NEW q \in Page, NEW s \in read'[q] PROVE Faithful(s)'
  <2>1. CASE s = OnScreen(id, new)
    <3>1. s.rev = new.rev /\ new.rev \in Nat /\ s.id = id /\ s.content = new.content
      BY <1>4, <1>6, <2>1 DEF TypedRow
    <3>2. drafts'[s.id] = new /\ s.id \in spent'
      BY <1>5, <1>7, <3>1
    <3>3. s.rev <= new.rev
      BY <3>1
    <3> QED
      BY <3>1, <3>2, <3>3 DEF Faithful
  <2>2. CASE s \in read[q]
    <3>1. Faithful(s) /\ s.id # id /\ s.id \in spent'
      BY <1>1, <1>5, <2>2 DEF ScreenInv, ScreensAreFaithful, Faithful
    <3> QED
      BY <1>7, <3>1 DEF Faithful
  <2> QED
    BY <1>8, <2>1, <2>2
<1>12. UnderItsScreen'
  BY <1>8, <1>9, RequestMade DEF ScreenInv, UnderItsScreen
<1> QED
  BY <1>10, <1>11, <1>12 DEF ScreenInv, ScreensAreFaithful

\* A deleted draft is on the screens of others still, and never comes back.
LEMMA DeleteStep ==
    ASSUME ScreenInv, NEW p \in Page, HandleDelete(p)
    PROVE  ScreenInv'
<1>1. /\ DraftsTyped
      /\ work[p] = Idle /\ read' = [read EXCEPT ![p] = {}]
      /\ UNCHANGED <<spent, instant, work>>
  BY DEF ScreenInv, HandleDelete
<1>2. PICK s \in read[p] : drafts' = Restrict(drafts, DOMAIN drafts \ {s.id})
  BY DEF HandleDelete, SetDrafts
<1>3. /\ drafts' \in [DOMAIN drafts' -> TypedRow] /\ DOMAIN drafts' \subseteq DOMAIN drafts
      /\ \A x \in DOMAIN drafts' : drafts'[x] = drafts[x]
  BY <1>1, <1>2 DEF Restrict, DraftsTyped
<1>4. /\ read' \in [Page -> SUBSET Shown]
      /\ \A q \in Page : read'[q] = IF q = p THEN {} ELSE read[q]
  BY <1>1 DEF DraftsTyped
<1>5. DraftsTyped'
  BY <1>1, <1>3, <1>4 DEF DraftsTyped
<1>6. ASSUME NEW q \in Page, NEW t \in read'[q] PROVE Faithful(t)'
  <2>1. Faithful(t)
    BY <1>4 DEF ScreenInv, ScreensAreFaithful
  <2> QED
    BY <1>1, <1>3, <2>1 DEF Faithful
<1>7. UnderItsScreen'
  BY <1>1, <1>4, RequestMade DEF ScreenInv, UnderItsScreen
<1> QED
  BY <1>5, <1>6, <1>7 DEF ScreenInv, ScreensAreFaithful

\* A draft that is read is shown as it is.
LEMMA GetStep ==
    ASSUME ScreenInv, NEW p \in Page, NEW id \in DraftId, HandleGet(p, id)
    PROVE  ScreenInv'
<1>1. /\ DraftsTyped /\ id \in DOMAIN drafts /\ work[p] = Idle
      /\ read' = [read EXCEPT ![p] = {OnScreen(id, drafts[id])}]
      /\ UNCHANGED <<drafts, spent, instant, work>>
  BY DEF ScreenInv, HandleGet, Visible
<1>2. drafts[id] \in TypedRow /\ drafts[id].rev \in Nat /\ id \in spent
  BY <1>1 DEF DraftsTyped, TypedRow
<1> DEFINE seen == OnScreen(id, drafts[id])
<1>3. /\ seen \in Shown /\ seen.id = id
      /\ seen.rev = drafts[id].rev /\ seen.content = drafts[id].content
  BY <1>2, OnScreenType
<1> HIDE DEF seen
<1>4. /\ read' \in [Page -> SUBSET Shown]
      /\ \A q \in Page : read'[q] = IF q = p THEN {seen} ELSE read[q]
  BY <1>1, <1>3 DEF DraftsTyped, seen
<1>5. DraftsTyped'
  BY <1>1, <1>4 DEF DraftsTyped
<1>6. Faithful(seen)
  <2>1. seen.rev <= drafts[id].rev
    BY <1>2, <1>3
  <2> QED
    BY <1>2, <1>3, <2>1 DEF Faithful
<1>7. ASSUME NEW q \in Page, NEW t \in read'[q] PROVE Faithful(t)'
  <2>1. Faithful(t)
    BY <1>4, <1>6 DEF ScreenInv, ScreensAreFaithful
  <2> QED
    BY <1>1, <2>1 DEF Faithful
<1>8. UnderItsScreen'
  BY <1>1, <1>4, RequestMade DEF ScreenInv, UnderItsScreen
<1> QED
  BY <1>5, <1>7, <1>8 DEF ScreenInv, ScreensAreFaithful

\* What a write of the tab p may do: change the draft that p shows, in the
\* state and revision in which p shows it.
Revises(p) ==
    \E s \in read[p], st \in DraftState, c \in Content :
        /\ s.id \in DOMAIN drafts
        /\ drafts[s.id].rev = s.rev /\ drafts[s.id].state # "approved"
        /\ drafts' = [drafts EXCEPT ![s.id] = Revised(drafts[s.id], st, c)]
        /\ read' = [read EXCEPT ![p] = {OnScreen(s.id, Revised(drafts[s.id], st, c))}]
        /\ work' = [work EXCEPT ![p] = Idle]
        /\ UNCHANGED <<spent, instant>>

LEMMA WritesRevise ==
    ASSUME ScreenInv, NEW p \in Page,
           (\E c \in Content : HandleUpdate(p, c)) \/ Submit(p) \/ Approve(p)
    PROVE  Revises(p)
<1>0. DraftsTyped /\ work[p] \in PageRequest
  BY DEF ScreenInv, DraftsTyped
<1>1. ASSUME NEW c \in Content, HandleUpdate(p, c) PROVE Revises(p)
  <2>1. PICK s \in read[p] :
          /\ Matches(s.id, AccountOf[p], s.rev, {"draft"})
          /\ drafts' = [drafts EXCEPT ![s.id] = Revised(drafts[s.id], "draft", c)]
          /\ read' = [read EXCEPT ![p] = {OnScreen(s.id, Revised(drafts[s.id], "draft", c))}]
    BY <1>1 DEF HandleUpdate, Changed, SetDrafts
  <2>2. work[p] = Idle /\ UNCHANGED <<spent, instant, work>>
    BY <1>1 DEF HandleUpdate
  <2>3. work' = [work EXCEPT ![p] = Idle]
    BY <1>0, <2>2 DEF DraftsTyped
  <2>4. /\ s.id \in DOMAIN drafts /\ drafts[s.id].rev = s.rev
        /\ drafts[s.id].state # "approved"
    BY <2>1 DEF Matches
  <2>5. "draft" \in DraftState
    BY DEF DraftState
  <2> QED
    BY <2>1, <2>2, <2>3, <2>4, <2>5 DEF Revises
<1>2. CASE Submit(p) \/ Approve(p)
  <2>1. PICK st \in DraftState :
          /\ work[p].step \in {"submit", "approve"} /\ Moved(p, st)
          /\ \E o \in Account : Matches(work[p].id, o, work[p].rev, {"draft"})
                                \/ Matches(work[p].id, o, work[p].rev, {"submitted"})
    BY <1>2, DashboardDraftsAssumption DEF Submit, Approve, DraftState
  <2>2. work' = [work EXCEPT ![p] = Idle] /\ UNCHANGED <<spent, instant>>
    BY <1>2 DEF Submit, Approve
  <2>3. PICK s \in read[p] : s.id = work[p].id /\ s.rev = work[p].rev
    BY <2>1 DEF ScreenInv, UnderItsScreen
  <2>4. /\ s.id \in DOMAIN drafts /\ drafts[s.id].rev = s.rev
        /\ drafts[s.id].state # "approved"
    BY <2>1, <2>3 DEF Matches
  <2>5. drafts[s.id].content \in Content
    BY <1>0, <2>4 DEF DraftsTyped, TypedRow
  <2>6. /\ drafts' = [drafts EXCEPT ![s.id] =
                        Revised(drafts[s.id], st, drafts[s.id].content)]
        /\ read' = [read EXCEPT ![p] =
                      {OnScreen(s.id, Revised(drafts[s.id], st, drafts[s.id].content))}]
    BY <2>1, <2>3 DEF Moved, Changed, SetDrafts
  <2> QED
    BY <2>2, <2>4, <2>5, <2>6 DEF Revises
<1> QED
  BY <1>1, <1>2

LEMMA ScreenStep == ScreenInv /\ [DashboardDraftsNext]_draftVars => ScreenInv'
<1> SUFFICES ASSUME ScreenInv, [DashboardDraftsNext]_draftVars PROVE ScreenInv'
  OBVIOUS
<1>0. DraftsTyped
  BY DEF ScreenInv
<1>1. ASSUME NEW p \in Page, NEW id \in DraftId, HandleGet(p, id) PROVE ScreenInv'
  BY <1>1, GetStep
<1>2. ASSUME NEW p \in Page, CreateInsert(p) PROVE ScreenInv'
  BY <1>2, InsertStep
<1>3. ASSUME NEW p \in Page, HandleDelete(p) PROVE ScreenInv'
  BY <1>3, DeleteStep
<1>4. ASSUME NEW p \in Page,
             (\E c \in Content : HandleUpdate(p, c)) \/ Submit(p) \/ Approve(p)
      PROVE  ScreenInv'
  BY <1>4, WritesRevise, ReviseStep DEF Revises
<1>5. ASSUME NEW p \in Page,
             \/ \E id \in DraftId : HandleClone(p, id)
             \/ \E c \in Content : HandleCreate(p, c)
             \/ CreateCount(p) \/ Refused(p)
      PROVE  ScreenInv'
  <2>1. UNCHANGED <<drafts, spent, instant, read>>
    BY <1>5 DEF HandleClone, HandleCreate, CreateCount, Refused
  <2>2. \E w \in PageRequest : /\ work' = [work EXCEPT ![p] = w]
                           /\ w.step \notin {"submit", "approve"}
    <3> DEFINE Goal == \E w \in PageRequest : /\ work' = [work EXCEPT ![p] = w]
                                          /\ w.step \notin {"submit", "approve"}
    <3>1. ASSUME NEW id \in DraftId, HandleClone(p, id) PROVE Goal
      <4>1. drafts[id].content \in Content
        BY <1>0, <3>1 DEF HandleClone, Visible, DraftsTyped, TypedRow
      <4>2. work' = [work EXCEPT ![p] = Begun(drafts[id].content)]
        BY <3>1 DEF HandleClone
      <4> QED
        BY <4>1, <4>2, RequestMade
    <3>2. CASE \E c \in Content : HandleCreate(p, c)
      BY <3>2, RequestMade DEF HandleCreate
    <3>3. CASE CreateCount(p)
      <4>1. work[p].content \in Content /\ work[p].step = "begun"
        BY <1>0, <3>3, RequestStep DEF CreateCount, DraftsTyped
      <4>2. work' = [work EXCEPT ![p] = Idle]
            \/ work' = [work EXCEPT ![p] = Counted(work[p].content)]
        BY <3>3 DEF CreateCount
      <4> QED
        BY <4>1, <4>2, RequestMade
    <3>4. CASE Refused(p)
      BY <3>4, RequestMade DEF Refused
    <3> QED
      BY <1>5, <3>1, <3>2, <3>3, <3>4
  <2> QED
    BY <2>1, <2>2, WorkStep
<1>6. ASSUME NEW p \in Page, HandleSubmit(p) \/ HandleApprove(p) PROVE ScreenInv'
  <2>1. PICK s \in read[p], op \in {"submit", "approve"} :
          work' = [work EXCEPT ![p] = Checked(op, s.id, s.rev)]
    BY <1>6 DEF HandleSubmit, HandleApprove
  <2>2. s.id \in DraftId /\ s.rev \in Nat
    BY <1>0 DEF DraftsTyped, Shown
  <2>3. UNCHANGED <<drafts, spent, instant, read>>
    BY <1>6 DEF HandleSubmit, HandleApprove
  <2>4. /\ Checked(op, s.id, s.rev) \in PageRequest
        /\ Checked(op, s.id, s.rev).id = s.id /\ Checked(op, s.id, s.rev).rev = s.rev
    BY <2>2, RequestMade
  <2> QED
    BY <2>1, <2>3, <2>4, WorkStep
<1>7. CASE ListNext \/ UNCHANGED draftVars
  <2>1. UNCHANGED <<drafts, spent, read, work>> /\ instant' \in Nat
    BY <1>0, <1>7 DEF ListNext, ListStart, ListPage, DraftClock, draftVars, DraftsTyped
  <2>2. DraftsTyped'
    BY <1>0, <2>1 DEF DraftsTyped
  <2> QED
    BY <2>1, <2>2 DEF ScreenInv, ScreensAreFaithful, Faithful, UnderItsScreen
<1> QED
  BY <1>1, <1>2, <1>3, <1>4, <1>5, <1>6, <1>7 DEF DashboardDraftsNext, PageNext

LEMMA ScreenStart == DashboardDraftsInit => ScreenInv
<1> SUFFICES ASSUME DashboardDraftsInit PROVE ScreenInv
  OBVIOUS
<1>1. DOMAIN drafts = {} /\ drafts \in [{} -> TypedRow]
  BY DEF DashboardDraftsInit
<1>2. work \in [Page -> PageRequest] /\ \A p \in Page : work[p] = Idle
  BY RequestMade DEF DashboardDraftsInit
<1>3. DraftsTyped
  BY <1>1, <1>2 DEF DashboardDraftsInit, DraftsTyped
<1> QED
  BY <1>2, <1>3, RequestMade
     DEF DashboardDraftsInit, ScreenInv, ScreensAreFaithful, UnderItsScreen

\* The condition of the UPDATE and DELETE statements, on a screen that is
\* faithful, means that the tab shows the draft as it is.
LEMMA MatchedIsShown ==
    ASSUME ScreenInv, NEW p \in Page, NEW s \in read[p], s.id \in DOMAIN drafts,
           drafts[s.id].rev = s.rev
    PROVE  OnScreen(s.id, drafts[s.id]) \in read[p]
<1>1. s \in Shown /\ Faithful(s)
  BY DEF ScreenInv, DraftsTyped, ScreensAreFaithful
<1>2. s.content = drafts[s.id].content
  BY <1>1 DEF Faithful
<1>3. s = OnScreen(s.id, drafts[s.id])
  BY <1>1, <1>2, ShownIsOnScreen
<1> QED
  BY <1>3

LEMMA UpdateStep ==
    ASSUME ScreenInv, DashboardDraftsNext,
           NEW id \in DOMAIN drafts, id \notin DOMAIN drafts' \/ drafts'[id] # drafts[id]
    PROVE  /\ drafts[id].state # "approved"
           /\ \E p \in Page : OnScreen(id, drafts[id]) \in read[p]
<1> DEFINE Goal == /\ drafts[id].state # "approved"
                   /\ \E p \in Page : OnScreen(id, drafts[id]) \in read[p]
<1>0. DraftsTyped
  BY DEF ScreenInv
<1>1. ASSUME NEW p \in Page,
             (\E c \in Content : HandleUpdate(p, c)) \/ Submit(p) \/ Approve(p)
      PROVE  Goal
  <2>1. PICK s \in read[p] :
          /\ s.id \in DOMAIN drafts
          /\ drafts[s.id].rev = s.rev /\ drafts[s.id].state # "approved"
          /\ \A x \in DOMAIN drafts \ {s.id} : x \in DOMAIN drafts' /\ drafts'[x] = drafts[x]
    BY <1>0, <1>1, WritesRevise DEF Revises, DraftsTyped
  <2>2. id = s.id
    BY <2>1
  <2>3. OnScreen(s.id, drafts[s.id]) \in read[p]
    BY <2>1, MatchedIsShown
  <2> QED
    BY <2>1, <2>2, <2>3
<1>2. ASSUME NEW p \in Page, HandleDelete(p) PROVE Goal
  <2>1. PICK s \in read[p] :
          /\ Matches(s.id, AccountOf[p], s.rev, {"draft", "submitted"})
          /\ drafts' = Restrict(drafts, DOMAIN drafts \ {s.id})
    BY <1>2 DEF HandleDelete, SetDrafts
  <2>2. /\ s.id \in DOMAIN drafts
        /\ drafts[s.id].rev = s.rev /\ drafts[s.id].state # "approved"
    BY <2>1 DEF Matches
  <2>3. id = s.id
    BY <2>1 DEF Restrict
  <2>4. OnScreen(s.id, drafts[s.id]) \in read[p]
    BY <2>2, MatchedIsShown
  <2> QED
    BY <2>2, <2>3, <2>4
<1>3. ASSUME NEW p \in Page, CreateInsert(p) PROVE Goal
  <2>1. \E new \in DraftId \ spent :
          \A x \in DOMAIN drafts \ {new} : x \in DOMAIN drafts' /\ drafts'[x] = drafts[x]
    BY <1>3 DEF CreateInsert, SetDrafts
  <2> QED
    BY <1>0, <2>1 DEF DraftsTyped
<1>4. ASSUME NEW p \in Page,
             \/ \E x \in DraftId : HandleGet(p, x) \/ HandleClone(p, x)
             \/ \E c \in Content : HandleCreate(p, c)
             \/ CreateCount(p) \/ HandleSubmit(p) \/ HandleApprove(p) \/ Refused(p)
      PROVE  drafts' = drafts
  BY <1>4 DEF HandleGet, HandleClone, HandleCreate, CreateCount, HandleSubmit,
     HandleApprove, Refused
<1>5. ListNext => drafts' = drafts
  BY DEF ListNext, ListStart, ListPage, DraftClock
<1> QED
  BY <1>1, <1>2, <1>3, <1>4, <1>5 DEF DashboardDraftsNext, PageNext

\* Nobody overwrites, deletes or approves a draft in a state that he has not
\* seen, for any number of tabs and users: Update, Delete, Submit and Approve
\* compare revisions, and a revision never shows two contents.
THEOREM NoUpdateIsLost == DashboardDraftsSpec => NoLostUpdate
<1>1. ScreenInv /\ [DashboardDraftsNext]_draftVars =>
        [\A id \in DOMAIN drafts :
           id \notin DOMAIN drafts' \/ drafts'[id] # drafts[id] =>
             /\ drafts[id].state # "approved"
             /\ \E p \in Page : OnScreen(id, drafts[id]) \in read[p]]_draftVars
  BY UpdateStep
<1> QED
  BY <1>1, ScreenStart, ScreenStep, PTL DEF DashboardDraftsSpec, NoLostUpdate

-----------------------------------------------------------------------------
(* The limit of drafts *)

\* Turns: a tab enters Create only when no tab of its user is inside.
LEMMA TurnStep ==
    ASSUME DraftsTyped, OneCreates, NEW p \in Page, NEW w,
           work' = [work EXCEPT ![p] = w],
           w.step \in {"begun", "counted"} => Creating(p) \/ TurnIsFree(p)
    PROVE  OneCreates'
<1>1. \A q \in Page : work'[q] = IF q = p THEN w ELSE work[q]
  BY DEF DraftsTyped
<1>2. ASSUME NEW q \in Page, q # p, Creating(q), w.step \in {"begun", "counted"}
      PROVE  AccountOf[p] # AccountOf[q]
  <2>1. CASE Creating(p)
    BY <1>2, <2>1 DEF OneCreates
  <2>2. CASE TurnIsFree(p)
    BY <1>2, <2>2 DEF TurnIsFree, Creating
  <2> QED
    BY <1>2, <2>1, <2>2
<1>3. \A q \in Page : Creating(q)' <=> work'[q].step \in {"begun", "counted"}
  BY DEF Creating
<1> QED
  BY <1>1, <1>2, <1>3 DEF OneCreates, Creating

\* When no user has more drafts than before, the limit and the room stay; a
\* tab counts as "counted" only when there was room.
LEMMA RoomStep ==
    ASSUME DraftsTyped, RoomLeft, DraftCapKept, NEW p \in Page, NEW w,
           work' = [work EXCEPT ![p] = w],
           w.step = "counted" => Cardinality(Owned(AccountOf[p])) < MaxDrafts,
           DOMAIN drafts' \subseteq DOMAIN drafts,
           \A x \in DOMAIN drafts' : drafts'[x].owner = drafts[x].owner
    PROVE  RoomLeft' /\ DraftCapKept'
<1>1. \A q \in Page : work'[q] = IF q = p THEN w ELSE work[q]
  BY DEF DraftsTyped
<1>2. IsFiniteSet(DOMAIN drafts')
  BY FS_Subset DEF RoomLeft
<1>3. ASSUME NEW o \in Account
      PROVE  /\ Cardinality(Owned(o)') \in Nat /\ Cardinality(Owned(o)) \in Nat
             /\ Cardinality(Owned(o)') <= Cardinality(Owned(o))
  <2>1. Owned(o) \subseteq DOMAIN drafts /\ Owned(o)' \subseteq Owned(o)
    BY DEF Owned
  <2>2. IsFiniteSet(Owned(o))
    BY <2>1, FS_Subset DEF RoomLeft
  <2>3. IsFiniteSet(Owned(o)') /\ Cardinality(Owned(o)') <= Cardinality(Owned(o))
    BY <2>1, <2>2, FS_Subset
  <2> QED
    BY <2>2, <2>3, FS_CardinalityType
<1>4. ASSUME NEW o \in Account, Cardinality(Owned(o)) < MaxDrafts
      PROVE  Cardinality(Owned(o)') < MaxDrafts
  <2> DEFINE a == Cardinality(Owned(o)')
             b == Cardinality(Owned(o))
  <2>1. a \in Nat /\ b \in Nat /\ a <= b /\ b < MaxDrafts /\ MaxDrafts \in Nat
    BY <1>3, <1>4, DashboardDraftsAssumption
  <2> HIDE DEF a, b
  <2>2. a < MaxDrafts
    BY <2>1
  <2> QED
    BY <2>2 DEF a
<1>5. ASSUME NEW o \in Account PROVE Cardinality(Owned(o)') <= MaxDrafts
  <2> DEFINE a == Cardinality(Owned(o)')
             b == Cardinality(Owned(o))
  <2>1. a \in Nat /\ b \in Nat /\ a <= b /\ b <= MaxDrafts /\ MaxDrafts \in Nat
    BY <1>3, DashboardDraftsAssumption DEF DraftCapKept
  <2> HIDE DEF a, b
  <2>2. a <= MaxDrafts
    BY <2>1
  <2> QED
    BY <2>2 DEF a
<1>6. \A q \in Page : AccountOf[q] \in Account
  BY DashboardDraftsAssumption
<1>7. DraftCapKept'
  BY <1>5 DEF DraftCapKept
<1>8. ASSUME NEW q \in Page, work'[q].step = "counted"
      PROVE  Cardinality(Owned(AccountOf[q])') < MaxDrafts
  <2>1. Cardinality(Owned(AccountOf[q])) < MaxDrafts
    BY <1>1, <1>8 DEF RoomLeft
  <2> QED
    BY <1>4, <1>6, <2>1
<1> QED
  BY <1>2, <1>7, <1>8 DEF RoomLeft

\* The insert uses up the room of the count: no other tab of the user was
\* inside Create in between.
LEMMA InsertRoom ==
    ASSUME DraftsTyped, CapInv, NEW p \in Page, CreateInsert(p)
    PROVE  RoomLeft' /\ DraftCapKept'
<1>1. PICK id \in DraftId \ spent :
        /\ DOMAIN drafts' = DOMAIN drafts \cup {id}
        /\ drafts'[id].owner = AccountOf[p]
        /\ \A x \in DOMAIN drafts : drafts'[x] = drafts[x]
  <2>1. PICK id \in DraftId \ spent :
          LET d == [owner |-> AccountOf[p], rev |-> 1, state |-> "draft",
                    content |-> work[p].content, at |-> instant]
          IN  drafts' = [x \in DOMAIN drafts \cup {id} |-> IF x = id THEN d ELSE drafts[x]]
    BY DEF CreateInsert, SetDrafts
  <2>2. id \notin DOMAIN drafts
    BY DEF DraftsTyped
  <2> DEFINE new == [owner |-> AccountOf[p], rev |-> 1, state |-> "draft",
                     content |-> work[p].content, at |-> instant]
  <2>3. new.owner = AccountOf[p]
    OBVIOUS
  <2>4. drafts' = [x \in DOMAIN drafts \cup {id} |-> IF x = id THEN new ELSE drafts[x]]
    BY <2>1
  <2> HIDE DEF new
  <2> QED
    BY <2>2, <2>3, <2>4
<1>2. id \notin DOMAIN drafts /\ AccountOf[p] \in Account
  BY DashboardDraftsAssumption DEF DraftsTyped
<1>3. /\ work[p].step = "counted"
      /\ \A q \in Page : work'[q] = IF q = p THEN Idle ELSE work[q]
  BY DEF CreateInsert, DraftsTyped
<1>4. IsFiniteSet(DOMAIN drafts) /\ IsFiniteSet(DOMAIN drafts')
  BY <1>1, FS_AddElement DEF CapInv, RoomLeft
<1>5. /\ Owned(AccountOf[p])' = Owned(AccountOf[p]) \cup {id}
      /\ id \notin Owned(AccountOf[p])
      /\ \A o \in Account : o # AccountOf[p] => Owned(o)' = Owned(o)
  BY <1>1, <1>2 DEF Owned
<1>6. Cardinality(Owned(AccountOf[p])') <= MaxDrafts
  <2> DEFINE mine == Owned(AccountOf[p])
             n == Cardinality(mine)
  <2>1. mine \subseteq DOMAIN drafts
    BY DEF Owned
  <2>2. IsFiniteSet(mine)
    BY <1>4, <2>1, FS_Subset
  <2>3. Cardinality(mine \cup {id}) = n + 1 /\ n \in Nat
    BY <1>5, <2>2, FS_AddElement, FS_CardinalityType
  <2>4. n < MaxDrafts /\ MaxDrafts \in Nat
    BY <1>3, DashboardDraftsAssumption DEF CapInv, RoomLeft
  <2> HIDE DEF n
  <2>5. n + 1 <= MaxDrafts
    BY <2>3, <2>4
  <2> QED
    BY <1>5, <2>3, <2>5
<1>7. DraftCapKept'
  BY <1>5, <1>6 DEF CapInv, DraftCapKept
<1>8. ASSUME NEW q \in Page, work'[q].step = "counted"
      PROVE  Cardinality(Owned(AccountOf[q])') < MaxDrafts
  <2>1. q # p /\ work[q].step = "counted"
    BY <1>3, <1>8, RequestMade
  <2>2. AccountOf[q] # AccountOf[p] /\ AccountOf[q] \in Account
    BY <1>3, <2>1, DashboardDraftsAssumption DEF CapInv, OneCreates, Creating
  <2> QED
    BY <1>5, <2>1, <2>2 DEF CapInv, RoomLeft
<1> QED
  BY <1>4, <1>7, <1>8 DEF RoomLeft

LEMMA CapStep ==
    ScreenInv /\ CapInv /\ [DashboardDraftsNext]_draftVars => CapInv'
<1> SUFFICES ASSUME ScreenInv, CapInv, [DashboardDraftsNext]_draftVars PROVE CapInv'
  OBVIOUS
<1>0. DraftsTyped /\ OneCreates /\ RoomLeft /\ DraftCapKept
  BY DEF ScreenInv, CapInv
<1>1. ASSUME NEW p \in Page, NEW w, work' = [work EXCEPT ![p] = w],
             w.step \in {"begun", "counted"} => Creating(p) \/ TurnIsFree(p),
             w.step = "counted" => Cardinality(Owned(AccountOf[p])) < MaxDrafts,
             DOMAIN drafts' \subseteq DOMAIN drafts,
             \A x \in DOMAIN drafts' : drafts'[x].owner = drafts[x].owner
      PROVE  CapInv'
  BY <1>0, <1>1, TurnStep, RoomStep DEF CapInv
<1>2. ASSUME NEW p \in Page, CreateInsert(p) PROVE CapInv'
  <2>1. work' = [work EXCEPT ![p] = Idle]
    BY <1>2 DEF CreateInsert
  <2> QED
    BY <1>0, <1>2, <2>1, RequestMade, TurnStep, InsertRoom DEF CapInv
<1>3. ASSUME NEW p \in Page, Revises(p) PROVE CapInv'
  <2>0. PICK s \in read[p], st \in DraftState, c \in Content :
          /\ s.id \in DOMAIN drafts
          /\ drafts' = [drafts EXCEPT ![s.id] = Revised(drafts[s.id], st, c)]
          /\ work' = [work EXCEPT ![p] = Idle]
    BY <1>3 DEF Revises
  <2> DEFINE id == s.id
  <2>1. /\ id \in DOMAIN drafts
        /\ drafts' = [drafts EXCEPT ![id] = Revised(drafts[id], st, c)]
        /\ work' = [work EXCEPT ![p] = Idle]
    BY <2>0
  <2> HIDE DEF id
  <2>2. Revised(drafts[id], st, c).owner = drafts[id].owner
    BY DEF Revised
  <2>3. /\ DOMAIN drafts' = DOMAIN drafts
        /\ \A x \in DOMAIN drafts' : drafts'[x].owner = drafts[x].owner
    BY <1>0, <2>1, <2>2 DEF DraftsTyped
  <2> QED
    BY <1>1, <2>1, <2>3, RequestMade
<1>4. ASSUME NEW p \in Page, HandleDelete(p) PROVE CapInv'
  <2>1. /\ DOMAIN drafts' \subseteq DOMAIN drafts
        /\ \A x \in DOMAIN drafts' : drafts'[x].owner = drafts[x].owner
    BY <1>4 DEF HandleDelete, SetDrafts, Restrict
  <2>2. work' = [work EXCEPT ![p] = Idle]
    BY <1>0, <1>4 DEF HandleDelete, DraftsTyped
  <2> QED
    BY <1>1, <2>1, <2>2, RequestMade
<1>5. ASSUME NEW p \in Page,
             \/ \E id \in DraftId : HandleClone(p, id)
             \/ \E c \in Content : HandleCreate(p, c)
      PROVE  CapInv'
  <2>1. drafts' = drafts /\ TurnIsFree(p)
    BY <1>5 DEF HandleClone, HandleCreate
  <2>2. PICK c \in Content : work' = [work EXCEPT ![p] = Begun(c)]
    <3>1. ASSUME NEW id \in DraftId, HandleClone(p, id) PROVE drafts[id].content \in Content
      BY <1>0, <3>1 DEF HandleClone, Visible, DraftsTyped, TypedRow
    <3> QED
      BY <1>5, <3>1 DEF HandleClone, HandleCreate
  <2>3. Begun(c).step = "begun"
    BY RequestMade
  <2> QED
    BY <1>1, <2>1, <2>2, <2>3
<1>6. ASSUME NEW p \in Page, CreateCount(p) PROVE CapInv'
  <2>1. work[p].content \in Content /\ Creating(p) /\ drafts' = drafts
    BY <1>0, <1>6, RequestStep DEF CreateCount, DraftsTyped, Creating
  <2>2. \/ work' = [work EXCEPT ![p] = Idle]
        \/ /\ work' = [work EXCEPT ![p] = Counted(work[p].content)]
           /\ ~(Cardinality(Owned(AccountOf[p])) >= MaxDrafts)
    BY <1>6 DEF CreateCount
  <2>3. ~(Cardinality(Owned(AccountOf[p])) >= MaxDrafts)
          => Cardinality(Owned(AccountOf[p])) < MaxDrafts
    <3>1. Owned(AccountOf[p]) \subseteq DOMAIN drafts
      BY DEF Owned
    <3>2. Cardinality(Owned(AccountOf[p])) \in Nat /\ MaxDrafts \in Nat
      BY <1>0, <3>1, FS_Subset, FS_CardinalityType, DashboardDraftsAssumption DEF RoomLeft
    <3> QED
      BY <3>2
  <2>4. Counted(work[p].content).step = "counted" /\ Idle.step = "idle"
    BY <2>1, RequestMade
  <2> QED
    BY <1>1, <2>1, <2>2, <2>3, <2>4
<1>7. ASSUME NEW p \in Page, HandleSubmit(p) \/ HandleApprove(p) \/ Refused(p)
      PROVE  CapInv'
  <2>1. drafts' = drafts
    BY <1>7 DEF HandleSubmit, HandleApprove, Refused
  <2>2. \E w : work' = [work EXCEPT ![p] = w] /\ w.step \notin {"begun", "counted"}
    <3>1. CASE Refused(p)
      BY <3>1, RequestMade DEF Refused
    <3>2. CASE HandleSubmit(p) \/ HandleApprove(p)
      <4>1. PICK s \in read[p], op \in {"submit", "approve"} :
              work' = [work EXCEPT ![p] = Checked(op, s.id, s.rev)]
        BY <3>2 DEF HandleSubmit, HandleApprove
      <4>2. Checked(op, s.id, s.rev).step = op
        BY DEF Checked
      <4> QED
        BY <4>1, <4>2
    <3> QED
      BY <1>7, <3>1, <3>2
  <2> QED
    BY <1>1, <2>1, <2>2
<1>8. ASSUME UNCHANGED <<drafts, work>> PROVE CapInv'
  BY <1>0, <1>8 DEF CapInv, OneCreates, Creating, RoomLeft, DraftCapKept, Owned
<1>9. ASSUME NEW p \in Page, NEW id \in DraftId, HandleGet(p, id) PROVE CapInv'
  BY <1>8, <1>9 DEF HandleGet
<1>10. CASE ListNext \/ UNCHANGED draftVars
  BY <1>8, <1>10 DEF ListNext, ListStart, ListPage, DraftClock, draftVars
<1>11. ASSUME NEW p \in Page,
              (\E c \in Content : HandleUpdate(p, c)) \/ Submit(p) \/ Approve(p)
       PROVE  CapInv'
  BY <1>3, <1>11, WritesRevise
<1> QED
  BY <1>2, <1>4, <1>5, <1>6, <1>7, <1>9, <1>10, <1>11 DEF DashboardDraftsNext, PageNext

LEMMA CapStart == DashboardDraftsInit => CapInv
<1> SUFFICES ASSUME DashboardDraftsInit PROVE CapInv
  OBVIOUS
<1>1. DOMAIN drafts = {} /\ \A p \in Page : work[p] = Idle
  BY DEF DashboardDraftsInit
<1>2. OneCreates
  BY <1>1, RequestMade DEF OneCreates, Creating
<1>3. RoomLeft
  BY <1>1, RequestMade, FS_EmptySet DEF RoomLeft
<1>4. \A o \in Account : Owned(o) = {}
  BY <1>1 DEF Owned
<1>5. Cardinality({}) = 0 /\ 0 <= MaxDrafts
  BY FS_EmptySet, DashboardDraftsAssumption
<1>6. DraftCapKept
  BY <1>4, <1>5 DEF DraftCapKept
<1> QED
  BY <1>2, <1>3, <1>6 DEF CapInv

\* No user has more drafts than MaxDrafts, for any number of tabs that create
\* and clone at once: between the count and the insert the lock of the owner
\* (PostgreSQL) or the only connection (SQLite) keeps the others out.
THEOREM DraftsAreCapped == DashboardDraftsSpec => []DraftCapKept
<1>1. ScreenInv /\ CapInv /\ [DashboardDraftsNext]_draftVars => ScreenInv' /\ CapInv'
  BY ScreenStep, CapStep
<1>2. CapInv => DraftCapKept
  BY DEF CapInv
<1> QED
  BY <1>1, <1>2, ScreenStart, CapStart, PTL DEF DashboardDraftsSpec

-----------------------------------------------------------------------------
(* The roles of a token *)

\* What a request got cannot be older than the request: it has run for at
\* least as long as the provider may have stopped naming those roles.
RolesInv ==
    /\ UserinfoTypeOK
    /\ \A r \in Request : /\ roleCall[r].stale <= roleCall[r].elapsed
                          /\ roleCall[r].pc # "answered" => roleCall[r].stale = 0
    /\ RolesAreFresh

LEMMA RolesStart == UserinfoInit => RolesInv
BY UserinfoAssumption
   DEF UserinfoInit, RolesInv, UserinfoTypeOK, RolesAreFresh, NotCached, NoCall, Beyond

\* Storing what a call got: its life is what the call left of it.
LEMMA StoreRolesStep ==
  ASSUME RolesInv, NEW r \in Request, StoreRoles(r)
  PROVE  RolesInv'
<1>1. /\ RolesTTL \in Nat /\ TokenLife \in Nat /\ MaxChange \in Nat /\ RolesTTL > 0
      /\ tokenLeft \in 0 .. TokenLife
      /\ roleCall[r] \in [pc : {"idle", "sent", "answered"}, roles : 0 .. MaxChange,
                          elapsed : 0 .. Beyond, stale : 0 .. Beyond]
      /\ roleCall[r].stale <= roleCall[r].elapsed
  BY UserinfoAssumption DEF RolesInv, UserinfoTypeOK
<1>2. /\ LifeLeft(r) \in 0 .. RolesTTL /\ LifeLeft(r) <= tokenLeft
      /\ LifeLeft(r) > 0 => roleCall[r].elapsed + LifeLeft(r) <= RolesTTL
  BY <1>1 DEF LifeLeft, Upto, Beyond
<1>3. /\ cached' \in [roles : 0 .. MaxChange, left : 0 .. RolesTTL, stale : 0 .. Beyond]
      /\ cached'.left > 0 => /\ cached'.stale + cached'.left <= RolesTTL
                             /\ cached'.left <= tokenLeft
  BY <1>1, <1>2 DEF StoreRoles, NotCached, Beyond
<1> QED
  BY <1>1, <1>3 DEF StoreRoles, RolesInv, UserinfoTypeOK, RolesAreFresh, NoCall, Beyond

\* The clock: the entry loses of its life what its roles may have aged.
LEMMA TickRolesStep == RolesInv /\ TickRoles => RolesInv'
<1> SUFFICES ASSUME RolesInv, TickRoles PROVE RolesInv'
  OBVIOUS
<1>1. /\ RolesTTL \in Nat /\ TokenLife \in Nat /\ MaxChange \in Nat /\ RolesTTL > 0
      /\ tokenLeft \in 0 .. TokenLife
      /\ cached \in [roles : 0 .. MaxChange, left : 0 .. RolesTTL, stale : 0 .. Beyond]
      /\ provided \in 0 .. MaxChange
  BY UserinfoAssumption DEF RolesInv, UserinfoTypeOK
<1>2. \A k : \A n, m \in Nat : n <= m =>
         /\ Staler(k, n) \in 0 .. Beyond
         /\ Upto(m + 1, Beyond) \in 0 .. Beyond
         /\ Staler(k, n) <= Upto(m + 1, Beyond)
         /\ Staler(k, n) <= n + 1
  BY <1>1 DEF Staler, Upto, Beyond
<1>3. /\ cached' \in [roles : 0 .. MaxChange, left : 0 .. RolesTTL, stale : 0 .. Beyond]
      /\ tokenLeft' \in 0 .. TokenLife
      /\ cached'.left > 0 => /\ cached'.stale + cached'.left <= RolesTTL
                             /\ cached'.left <= tokenLeft'
  <2>1. tokenLeft' \in 0 .. TokenLife
    BY <1>1 DEF TickRoles
  <2>2. CASE cached.left <= 1
    BY <1>1, <2>1, <2>2 DEF TickRoles, NotCached, Beyond
  <2>3. CASE ~ cached.left <= 1
    <3>1. /\ cached.stale + cached.left <= RolesTTL /\ cached.left <= tokenLeft
      BY <1>1, <2>3 DEF RolesInv, RolesAreFresh
    <3>2. /\ Staler(cached.roles, cached.stale) \in 0 .. Beyond
          /\ Staler(cached.roles, cached.stale) <= cached.stale + 1
      BY <1>1, <1>2 DEF Beyond
    <3>3. /\ cached' = [roles |-> cached.roles, left |-> cached.left - 1,
                        stale |-> Staler(cached.roles, cached.stale)]
          /\ tokenLeft' = tokenLeft - 1
      BY <1>1, <2>3, <3>1 DEF TickRoles
    <3> QED
      BY <1>1, <2>1, <2>3, <3>1, <3>2, <3>3 DEF Beyond
  <2> QED
    BY <2>2, <2>3
<1>4. ASSUME NEW r \in Request
      PROVE  /\ roleCall'[r] \in [pc : {"idle", "sent", "answered"}, roles : 0 .. MaxChange,
                                  elapsed : 0 .. Beyond, stale : 0 .. Beyond]
             /\ roleCall'[r].stale <= roleCall'[r].elapsed
             /\ roleCall'[r].pc # "answered" => roleCall'[r].stale = 0
  <2>1. /\ roleCall[r] \in [pc : {"idle", "sent", "answered"}, roles : 0 .. MaxChange,
                            elapsed : 0 .. Beyond, stale : 0 .. Beyond]
        /\ roleCall[r].stale <= roleCall[r].elapsed
    BY DEF RolesInv, UserinfoTypeOK
  <2>2. /\ Staler(roleCall[r].roles, roleCall[r].stale) \in 0 .. Beyond
        /\ Upto(roleCall[r].elapsed + 1, Beyond) \in 0 .. Beyond
        /\ Staler(roleCall[r].roles, roleCall[r].stale) <= Upto(roleCall[r].elapsed + 1, Beyond)
    BY <2>1, <1>1, <1>2 DEF Beyond
  <2>3. roleCall'[r] =
          IF roleCall[r].pc = "idle" THEN NoCall
          ELSE [pc |-> roleCall[r].pc, roles |-> roleCall[r].roles,
                elapsed |-> Upto(roleCall[r].elapsed + 1, Beyond),
                stale |-> IF roleCall[r].pc = "sent" THEN 0
                          ELSE Staler(roleCall[r].roles, roleCall[r].stale)]
    BY DEF TickRoles
  <2>4. CASE roleCall[r].pc = "idle"
    BY <1>1, <2>3, <2>4 DEF NoCall, Beyond
  <2>5. CASE roleCall[r].pc # "idle"
    BY <1>1, <2>1, <2>2, <2>3, <2>5 DEF Beyond
  <2> QED
    BY <2>4, <2>5
<1>5. roleCall' \in [Request -> [pc : {"idle", "sent", "answered"}, roles : 0 .. MaxChange,
                                 elapsed : 0 .. Beyond, stale : 0 .. Beyond]]
  <2>1. DOMAIN roleCall' = Request /\ roleCall' = [r \in Request |-> roleCall'[r]]
    BY DEF TickRoles
  <2> QED
    BY <1>4, <2>1
<1> QED
  BY <1>1, <1>3, <1>4, <1>5 DEF RolesInv, UserinfoTypeOK, RolesAreFresh, TickRoles, Beyond

\* A request goes on: it is asked, and answered with what is provided.
LEMMA RoleCallStep ==
  ASSUME RolesInv, NEW r \in Request, roleCall[r].pc # "answered",
         UNCHANGED <<provided, cached, tokenLeft>>,
         \/ roleCall' = [roleCall EXCEPT ![r] = [roleCall[r] EXCEPT !.pc = "sent"]]
         \/ roleCall' = [roleCall EXCEPT ![r] = [roleCall[r] EXCEPT !.pc = "answered",
                                                                   !.roles = provided]]
  PROVE  RolesInv'
<1>1. /\ roleCall[r] \in [pc : {"idle", "sent", "answered"}, roles : 0 .. MaxChange,
                          elapsed : 0 .. Beyond, stale : 0 .. Beyond]
      /\ provided \in 0 .. MaxChange /\ roleCall[r].stale = 0
  BY DEF RolesInv, UserinfoTypeOK
<1>2. PICK got : /\ got \in [pc : {"idle", "sent", "answered"}, roles : 0 .. MaxChange,
                               elapsed : 0 .. Beyond, stale : 0 .. Beyond]
                 /\ got.stale = 0
                 /\ roleCall' = [roleCall EXCEPT ![r] = got]
  BY <1>1
<1>3. 0 <= got.elapsed
  BY <1>2, UserinfoAssumption DEF Beyond
<1> QED
  BY <1>2, <1>3 DEF RolesInv, UserinfoTypeOK, RolesAreFresh, Beyond

LEMMA RolesStep == RolesInv /\ [UserinfoNext]_userinfoVars => RolesInv'
<1> SUFFICES ASSUME RolesInv, [UserinfoNext]_userinfoVars PROVE RolesInv'
  OBVIOUS
<1> USE UserinfoAssumption
<1>1. CASE ChangeRoles
  BY <1>1 DEF ChangeRoles, RolesInv, UserinfoTypeOK, RolesAreFresh, Beyond
<1>2. CASE EvictRoles
  BY <1>2 DEF EvictRoles, RolesInv, UserinfoTypeOK, RolesAreFresh, NotCached, Beyond
<1>3. CASE TickRoles
  BY <1>3, TickRolesStep
<1>4. ASSUME NEW r \in Request, AskRoles(r) PROVE RolesInv'
  <2>1. /\ roleCall' = [roleCall EXCEPT ![r] = [roleCall[r] EXCEPT !.pc = "sent"]]
        /\ roleCall[r].pc # "answered" /\ UNCHANGED <<provided, cached, tokenLeft>>
    BY <1>4 DEF AskRoles
  <2> QED
    BY <2>1, RoleCallStep
<1>5. ASSUME NEW r \in Request, AnswerRoles(r) PROVE RolesInv'
  <2>1. /\ roleCall' = [roleCall EXCEPT ![r] = [roleCall[r] EXCEPT !.pc = "answered",
                                                                 !.roles = provided]]
        /\ roleCall[r].pc # "answered" /\ UNCHANGED <<provided, cached, tokenLeft>>
    BY <1>5 DEF AnswerRoles
  <2> QED
    BY <2>1, RoleCallStep DEF RolesInv, UserinfoTypeOK
<1>6. ASSUME NEW r \in Request, FailRoles(r) PROVE RolesInv'
  BY <1>6 DEF FailRoles, RolesInv, UserinfoTypeOK, RolesAreFresh, NoCall, Beyond
<1>7. ASSUME NEW r \in Request, StoreRoles(r) PROVE RolesInv'
  BY <1>7, StoreRolesStep
<1>8. CASE UNCHANGED userinfoVars
  BY <1>8 DEF userinfoVars, RolesInv, UserinfoTypeOK, RolesAreFresh, Beyond
<1> QED
  BY <1>1, <1>2, <1>3, <1>4, <1>5, <1>6, <1>7, <1>8 DEF UserinfoNext

\* Nothing kept is used beyond the life it was given: an answer, by whichever
\* instance computed it and through Redis (internal/cache/cache.go), and the
\* roles of a token, however late the provider answered and in whichever order
\* the answers came (internal/auth/userinfo.go).
THEOREM NothingOutlivesItsLife == CacheSpec /\ UserinfoSpec => []NothingIsUsedTooLong
<1>1. UserinfoSpec => []RolesInv
  BY RolesStart, RolesStep, PTL DEF UserinfoSpec
<1>2. RolesInv => RolesAreFresh
  BY DEF RolesInv
<1>3. UserinfoSpec => []RolesAreFresh
  BY <1>1, <1>2, PTL
<1>4. NothingIsUsedTooLong <=> NeverServedBeyondTTL /\ RolesAreFresh
  BY DEF NothingIsUsedTooLong
<1> QED
  BY <1>3, <1>4, NothingOutlivesTTL, PTL

-----------------------------------------------------------------------------
(* Browser sessions: the token that the record holds *)

RefreshTyped ==
    /\ record \in [version : Nat, token : Nat]
    /\ idpToken \in Nat
    /\ tab \in [Tab -> [pc : TabPC, version : Nat, token : Nat]]

\* A request that is about to set right what the provider's answer spoilt: it
\* removes the session, or holds the token that is accepted now.
Mending(t) == \/ tab[t].pc \in {"refused", "delete"}
              \/ tab[t].pc = "granted" /\ tab[t].token = idpToken

\* The record is right, and no answer that waits could replace it.
Settled == /\ record.token = idpToken
           /\ \A t \in Tab : tab[t].pc = "granted" => tab[t].version # record.version

\* While the record lives and nothing was lost on the way, it is right or
\* someone is mending it; and no request is ahead of it.
RefreshInv ==
    /\ RefreshTyped
    /\ LogoutIsFinal
    /\ Exists => \A t \in Tab : tab[t].version <= record.version
    /\ Exists /\ ~excused => Settled \/ \E t \in Tab : Mending(t)

LEMMA RefreshStart == RefreshInit => RefreshInv
BY DEF RefreshInit, RefreshInv, RefreshTyped, LogoutIsFinal, Exists, Settled, IdleTab, TabPC

\* A step of t that leaves the record or removes it, and the provider's token:
\* t was not mending, or it goes on mending, or what it did was lost.
LEMMA QuietStep ==
  ASSUME RefreshInv, NEW t \in Tab,
         NEW pc \in TabPC, NEW v \in Nat, NEW k \in Nat,
         tab' = [tab EXCEPT ![t] = [pc |-> pc, version |-> v, token |-> k]],
         idpToken' = idpToken,
         record' \in {record, NoRecord},
         Exists => v <= record.version,
         loggedOut' => loggedOut \/ record' = NoRecord,
         excused => excused',
         \/ pc \in {"refused", "delete"}
         \/ excused'
         \/ record' = NoRecord
         \/ ~ Mending(t) /\ pc # "granted"
  PROVE  RefreshInv'
<1>1. /\ RefreshTyped'
      /\ Exists' => Exists /\ record' = record
  BY DEF RefreshInv, RefreshTyped, NoRecord, Exists
<1>2. LogoutIsFinal'
  BY <1>1 DEF RefreshInv, LogoutIsFinal, NoRecord, Exists
<1>3. /\ DOMAIN tab = Tab /\ tab'[t] = [pc |-> pc, version |-> v, token |-> k]
      /\ \A u \in Tab : u # t => tab'[u] = tab[u]
  BY DEF RefreshInv, RefreshTyped
<1>4. Exists' => \A u \in Tab : tab'[u].version <= record'.version
  BY <1>1, <1>3 DEF RefreshInv
<1>5. ASSUME Exists', ~excused' PROVE Settled' \/ \E u \in Tab : Mending(u)'
  <2>1. /\ record' = record
        /\ Settled \/ \E u \in Tab : Mending(u)
        /\ pc \in {"refused", "delete"} \/ (~ Mending(t) /\ pc # "granted")
    BY <1>1, <1>5 DEF RefreshInv, NoRecord, Exists
  <2>2. CASE pc \in {"refused", "delete"}
    <3>1. Mending(t)'
      BY <1>3, <2>2 DEF Mending
    <3> QED
      BY <3>1
  <2>3. CASE ~ Mending(t) /\ pc # "granted"
    <3>1. CASE \E u \in Tab : Mending(u)
      <4>1. PICK u \in Tab : Mending(u)
        BY <3>1
      <4>2. Mending(u)'
        BY <4>1, <2>3, <1>3 DEF Mending
      <4> QED
        BY <4>2
    <3>2. CASE Settled
      <4>1. \A u \in Tab : tab'[u].pc = "granted" => u # t /\ tab'[u] = tab[u]
        BY <2>3, <1>3
      <4>2. record'.token = idpToken' /\ record'.version = record.version
        BY <3>2, <2>1 DEF Settled
      <4>3. \A u \in Tab : tab'[u].pc = "granted" => tab'[u].version # record'.version
        BY <3>2, <4>1, <4>2 DEF Settled
      <4>4. Settled'
        BY <4>2, <4>3 DEF Settled
      <4> QED
        BY <4>4
    <3> QED
      BY <3>1, <3>2, <2>1
  <2> QED
    BY <2>1, <2>2, <2>3
<1> QED
  BY <1>1, <1>2, <1>4, <1>5 DEF RefreshInv

\* The provider accepted the token of t, and what it gave reached t.
LEMMA GrantStep ==
  ASSUME RefreshInv, NEW t \in Tab, NEW new \in Nat,
         NEW pc \in {"granted", "refused"}, NEW v \in Nat, NEW k \in Nat,
         tab' = [tab EXCEPT ![t] = [pc |-> pc, version |-> v, token |-> k]],
         v = tab[t].version, pc = "granted" => k = new,
         idpToken' = new,
         UNCHANGED <<record, loggedOut>>
  PROVE  RefreshInv'
<1>1. /\ DOMAIN tab = Tab /\ tab'[t] = [pc |-> pc, version |-> v, token |-> k]
      /\ \A u \in Tab : u # t => tab'[u] = tab[u]
  BY DEF RefreshInv, RefreshTyped
<1>2. RefreshTyped' /\ LogoutIsFinal'
  BY DEF RefreshInv, RefreshTyped, TabPC, LogoutIsFinal, Exists
<1>3. Exists' => \A u \in Tab : tab'[u].version <= record'.version
  BY <1>1 DEF RefreshInv, Exists
<1>4. Mending(t)'
  BY <1>1 DEF Mending
<1> QED
  BY <1>2, <1>3, <1>4 DEF RefreshInv

\* What the exchange gave is stored over the version that was read: nobody
\* else has an answer for the version that is stored now.
LEMMA StoredStep ==
  ASSUME RefreshInv, NEW t \in Tab, tab[t].pc = "granted",
         Exists, record.version = tab[t].version, record' = NextRecord(t),
         tab' = [tab EXCEPT ![t] = [pc |-> "unlock", version |-> tab[t].version,
                                    token |-> tab[t].token]],
         UNCHANGED <<idpToken, loggedOut, excused>>
  PROVE  RefreshInv'
<1>1. /\ DOMAIN tab = Tab /\ tab[t] \in [pc : TabPC, version : Nat, token : Nat]
      /\ tab'[t] = [pc |-> "unlock", version |-> tab[t].version, token |-> tab[t].token]
      /\ \A u \in Tab : u # t => tab'[u] = tab[u]
  BY DEF RefreshInv, RefreshTyped
<1>2. /\ record' = [version |-> tab[t].version + 1, token |-> tab[t].token]
      /\ RefreshTyped' /\ LogoutIsFinal'
  BY <1>1 DEF NextRecord, RefreshInv, RefreshTyped, TabPC, LogoutIsFinal, Exists
<1>3. \A u \in Tab : /\ tab[u] \in [pc : TabPC, version : Nat, token : Nat]
                     /\ tab[u].version <= record.version
                     /\ tab'[u].version = tab[u].version
  BY <1>1 DEF RefreshInv, RefreshTyped
<1>4. Exists' => \A u \in Tab : tab'[u].version <= record'.version
  BY <1>1, <1>2, <1>3
<1>5. \A u \in Tab : tab'[u].version # record'.version
  BY <1>1, <1>2, <1>3
<1>6. ASSUME ~excused' PROVE Settled' \/ \E u \in Tab : Mending(u)'
  <2>1. CASE tab[t].token = idpToken
    <3>1. Settled'
      BY <1>2, <1>5, <2>1 DEF Settled
    <3> QED
      BY <3>1
  <2>2. CASE tab[t].token # idpToken
    <3>1. ~Settled /\ ~Mending(t)
      BY <2>2 DEF Settled, Mending
    <3>2. PICK u \in Tab : Mending(u)
      BY <3>1, <1>6 DEF RefreshInv
    <3>3. Mending(u)'
      BY <3>1, <3>2, <1>1 DEF Mending
    <3> QED
      BY <3>3
  <2> QED
    BY <2>1, <2>2
<1> QED
  BY <1>2, <1>4, <1>6 DEF RefreshInv

\* The steps of a request on its way.
LEMMA TabStep ==
  ASSUME RefreshInv, NEW t \in Tab,
         \/ ReadSession(t) \/ AuthorizeRefresh(t) \/ TakeRefreshLock(t)
         \/ Exchange(t) \/ StoreSession(t) \/ DeleteSession(t)
         \/ ReleaseRefreshLock(t)
         \/ AuthorizeLogout(t) \/ Logout(t) \/ Die(t)
  PROVE  RefreshInv'
<1>1. /\ tab \in [Tab -> [pc : TabPC, version : Nat, token : Nat]]
      /\ tab[t] \in [pc : TabPC, version : Nat, token : Nat]
      /\ tab[t] = [pc |-> tab[t].pc, version |-> tab[t].version, token |-> tab[t].token]
      /\ record \in [version : Nat, token : Nat] /\ idpToken \in Nat
      /\ Exists => tab[t].version <= record.version
  BY DEF RefreshInv, RefreshTyped
<1>2. \A pc : Step(t, pc) =>
        tab' = [tab EXCEPT ![t] = [pc |-> pc, version |-> tab[t].version,
                                   token |-> tab[t].token]]
  BY <1>1 DEF Step
<1>3. /\ IdleTab = [pc |-> "idle", version |-> 0, token |-> 0]
      /\ "idle" \in TabPC
      /\ Exists => 0 <= record.version
      /\ {"lock", "exchange", "refused", "delete", "unavailable", "unlock", "logout"}
           \subseteq TabPC
      /\ Answer(t) => tab' = [tab EXCEPT ![t] = [pc |-> "idle", version |-> 0, token |-> 0]]
  BY <1>1 DEF IdleTab, TabPC, Answer
<1>4. CASE ReadSession(t)
  BY <1>4, <1>1 DEF ReadSession, RefreshInv, RefreshTyped, LogoutIsFinal, Exists, Settled, Mending
<1>5. CASE AuthorizeRefresh(t)
  <2>1. /\ tab' = [tab EXCEPT ![t] = [pc |-> "lock", version |-> record.version,
                                      token |-> record.token]]
        /\ ~ Mending(t) /\ UNCHANGED <<record, idpToken, loggedOut, excused>>
        /\ record.version \in Nat /\ record.token \in Nat /\ record.version <= record.version
    BY <1>1, <1>5 DEF AuthorizeRefresh, Mending
  <2> QED
    BY <1>3, <2>1, QuietStep
<1>6. CASE TakeRefreshLock(t)
  <2>1. /\ ~ Mending(t) /\ UNCHANGED <<record, idpToken, loggedOut, excused>>
        /\ Step(t, "exchange") \/ Answer(t)
    BY <1>6 DEF TakeRefreshLock, Mending
  <2>2. CASE Step(t, "exchange")
    BY <1>1, <1>2, <1>3, <2>1, <2>2, QuietStep
  <2>3. CASE Answer(t)
    BY <1>1, <1>3, <2>1, <2>3, QuietStep
  <2> QED
    BY <2>1, <2>2, <2>3
<1>7. CASE Exchange(t)
  <2>1. /\ ~ Mending(t) /\ UNCHANGED <<record, loggedOut>>
    BY <1>7 DEF Exchange, Mending
  <2>2. CASE \E new \in 0 .. MaxToken :
                /\ Granted(t, new)
                /\ \/ /\ tab' = [tab EXCEPT ![t] = [pc |-> "granted",
                             version |-> tab[t].version, token |-> new]]
                      /\ UNCHANGED excused
                   \/ /\ Step(t, Unverified)
                      /\ UNCHANGED excused
                   \/ /\ Step(t, "unavailable")
                      /\ excused' = TRUE
    <3>1. PICK new \in Nat :
                /\ Granted(t, new)
                /\ \/ /\ tab' = [tab EXCEPT ![t] = [pc |-> "granted",
                             version |-> tab[t].version, token |-> new]]
                      /\ UNCHANGED excused
                   \/ /\ Step(t, Unverified)
                      /\ UNCHANGED excused
                   \/ /\ Step(t, "unavailable")
                      /\ excused' = TRUE
      BY <2>2
    <3>2. idpToken' = new
      BY <3>1 DEF Granted
    <3>3. CASE tab' = [tab EXCEPT ![t] = [pc |-> "granted", version |-> tab[t].version,
                                          token |-> new]]
      BY <1>1, <2>1, <3>2, <3>3, GrantStep
    <3>4. CASE Step(t, Unverified)
      <4>1. tab' = [tab EXCEPT ![t] = [pc |-> "refused", version |-> tab[t].version,
                                       token |-> tab[t].token]]
        BY <1>2, <3>4 DEF Unverified
      <4> QED
        BY <1>1, <2>1, <3>2, <4>1, GrantStep
    <3>5. CASE Step(t, "unavailable") /\ excused' = TRUE
      <4>1. tab' = [tab EXCEPT ![t] = [pc |-> "unavailable", version |-> tab[t].version,
                                       token |-> tab[t].token]]
        BY <1>2, <3>5
      <4>2. RefreshTyped' /\ LogoutIsFinal'
        BY <1>1, <1>3, <2>1, <3>2, <4>1 DEF RefreshInv, RefreshTyped, LogoutIsFinal, Exists
      <4>3. Exists' => \A u \in Tab : tab'[u].version <= record'.version
        BY <1>1, <2>1, <4>1 DEF RefreshInv, Exists
      <4> QED
        BY <3>5, <4>2, <4>3 DEF RefreshInv
    <3> QED
      BY <3>1, <3>3, <3>4, <3>5
  <2>3. CASE Step(t, "refused") /\ UNCHANGED <<idpToken, excused>>
    BY <1>1, <1>2, <1>3, <2>1, <2>3, QuietStep
  <2>4. CASE Step(t, "unavailable") /\ UNCHANGED <<idpToken, excused>>
    BY <1>1, <1>2, <1>3, <2>1, <2>4, QuietStep
  <2> QED
    BY <1>7, <2>2, <2>3, <2>4 DEF Exchange
<1>8. CASE StoreSession(t)
  <2>1. /\ tab[t].pc = "granted" /\ UNCHANGED <<idpToken, loggedOut>>
        /\ record.version + 1 # record.version
    BY <1>1, <1>8 DEF StoreSession
  <2>2. CASE Exists /\ record.version = tab[t].version
    <3>1. CasSession(t, NextRecord(t)) = NextRecord(t) /\ NextRecord(t) # record
      BY <1>1, <2>1, <2>2 DEF CasSession, NextRecord
    <3>2. CASE record' = NextRecord(t) /\ Step(t, "unlock") /\ UNCHANGED excused
      BY <1>2, <2>1, <2>2, <3>2, StoredStep
    <3>3. CASE /\ record' \in {NextRecord(t), record} /\ Step(t, "delete")
               /\ excused' = TRUE
      <4>1. tab' = [tab EXCEPT ![t] = [pc |-> "delete", version |-> tab[t].version,
                                       token |-> tab[t].token]]
        BY <1>2, <3>3
      <4>2. RefreshTyped' /\ LogoutIsFinal'
        BY <1>1, <1>3, <2>1, <2>2, <3>3, <4>1
           DEF RefreshInv, RefreshTyped, LogoutIsFinal, Exists, NextRecord
      <4>3. \A u \in Tab : /\ tab'[u].version = tab[u].version /\ tab[u].version \in Nat
                           /\ tab[u].version <= record.version
        BY <1>1, <2>2, <4>1 DEF RefreshInv
      <4>4. record'.version \in {record.version, record.version + 1}
        BY <1>1, <2>2, <3>3 DEF NextRecord
      <4>5. \A u \in Tab : tab'[u].version <= record'.version
        BY <1>1, <4>3, <4>4
      <4> QED
        BY <3>3, <4>2, <4>5 DEF RefreshInv
    <3> QED
      BY <1>8, <3>1, <3>2, <3>3 DEF StoreSession, Perhaps
  <2>3. CASE ~ (Exists /\ record.version = tab[t].version)
    <3>1. /\ record' = record /\ Step(t, "delete")
          /\ excused' = TRUE \/ excused' = excused
      BY <1>8, <2>3 DEF StoreSession, CasSession, Perhaps
    <3> QED
      BY <1>1, <1>2, <1>3, <2>1, <3>1, QuietStep
  <2> QED
    BY <2>2, <2>3
<1>9. CASE DeleteSession(t)
  <2>1. /\ record' = NoRecord \/ excused' = TRUE
        /\ record' \in {record, NoRecord}
        /\ excused => excused'
        /\ Step(t, "unlock") /\ UNCHANGED <<idpToken, loggedOut>>
    BY <1>9 DEF DeleteSession, Perhaps
  <2> QED
    BY <1>1, <1>2, <1>3, <2>1, QuietStep
<1>10. CASE ReleaseRefreshLock(t)
  <2>1. ~ Mending(t) /\ Answer(t) /\ UNCHANGED <<record, idpToken, loggedOut, excused>>
    BY <1>10 DEF ReleaseRefreshLock, Mending
  <2> QED
    BY <1>1, <1>3, <2>1, QuietStep
<1>11. CASE AuthorizeLogout(t)
  <2>1. /\ ~ Mending(t) /\ Step(t, "logout")
        /\ UNCHANGED <<record, idpToken, loggedOut, excused>>
    BY <1>11 DEF AuthorizeLogout, Mending
  <2> QED
    BY <1>1, <1>2, <1>3, <2>1, QuietStep
<1>12. CASE Logout(t)
  <2>1. /\ ~ Mending(t) /\ Answer(t) /\ UNCHANGED <<idpToken, excused>>
        /\ record' \in {record, NoRecord}
        /\ loggedOut' => loggedOut \/ record' = NoRecord
    BY <1>12 DEF Logout, Mending, Perhaps
  <2> QED
    BY <1>1, <1>3, <2>1, QuietStep
<1>13. CASE Die(t)
  <2>1. /\ Answer(t) /\ UNCHANGED <<record, idpToken, loggedOut>>
        /\ excused => excused'
        /\ Mending(t) => excused'
    BY <1>13 DEF Die, Mending
  <2> QED
    BY <1>1, <1>3, <2>1, QuietStep
<1> QED
  BY <1>4, <1>5, <1>6, <1>7, <1>8, <1>9, <1>10, <1>11, <1>12, <1>13

LEMMA RefreshStep == RefreshInv /\ [RefreshNext]_refreshVars => RefreshInv'
<1> SUFFICES ASSUME RefreshInv, [RefreshNext]_refreshVars PROVE RefreshInv'
  OBVIOUS
<1>1. CASE ExpireLock
  BY <1>1 DEF ExpireLock, RefreshInv, RefreshTyped, LogoutIsFinal, Exists, Settled, Mending
<1>2. CASE ExpireSession
  BY <1>2 DEF ExpireSession, NoRecord, RefreshInv, RefreshTyped, LogoutIsFinal, Exists
<1>3. CASE UNCHANGED refreshVars
  BY <1>3 DEF refreshVars, RefreshInv, RefreshTyped, LogoutIsFinal, Exists, Settled, Mending
<1> QED
  BY <1>1, <1>2, <1>3, TabStep DEF RefreshNext

LEMMA RightAtRest == RefreshInv => LogoutIsFinal /\ NoSpentTokenKept
BY DEF RefreshInv, NoSpentTokenKept, Settled, Mending

-----------------------------------------------------------------------------
(* Browser sessions: the index that the cap is counted by *)

\* The index gives a session at most half a second less than its key has.
IndexInv ==
    /\ half \in {0, 1}
    /\ key \in [Sid -> Nat] /\ index \in [Sid -> Nat] /\ absolute \in [Sid -> Nat]
    /\ \A s \in Sid : key[s] <= index[s] + 1

\* The removal of entries without a key, before a store.
LEMMA PrunedKeeps ==
  ASSUME IndexInv, NEW cap, NEW replaced
  PROVE  /\ Pruned(index, key, cap, replaced) \in [Sid -> Nat]
         /\ \A s \in Sid : key[s] <= Pruned(index, key, cap, replaced)[s] + 1
BY DEF IndexInv, Pruned

LEMMA FinishStep ==
  ASSUME IndexInv, NEW s \in Sid, NEW prior \in SUBSET Sid, NEW n \in Nat,
         FinishCallback(s, prior, n)
  PROVE  IndexInv'
<1>1. PICK idx : idx = Pruned(index, key, MaxSessions, prior \ {s})
  OBVIOUS
<1>2. PICK life : life = Smaller(Halves(IdleTTL), Halves(n))
  OBVIOUS
<1>3. /\ idx \in [Sid -> Nat] /\ \A q \in Sid : key[q] <= idx[q] + 1
      /\ life \in Nat
  BY <1>1, <1>2, PrunedKeeps, SessionIndexAssumption DEF Smaller, Halves
<1>4. \/ /\ key' = [q \in Sid |-> IF q = s THEN life
                                  ELSE IF q \in prior \ {s} THEN 0 ELSE key[q]]
         /\ index' = [q \in Sid |-> IF q = s THEN life
                                    ELSE IF q \in prior \ {s} THEN 0 ELSE idx[q]]
         /\ absolute' = [absolute EXCEPT ![s] = n]
      \/ index' = idx /\ UNCHANGED <<key, absolute>>
  BY <1>1, <1>2 DEF FinishCallback
<1>5. half' = half
  BY DEF FinishCallback
<1> QED
  BY <1>3, <1>4, <1>5 DEF IndexInv

LEMMA ResolveStep == ASSUME IndexInv, NEW s \in Sid, Resolve(s) PROVE IndexInv'
<1>1. CASE absolute[s] = 0
  BY <1>1 DEF Resolve, Forgotten, IndexInv
<1>2. CASE absolute[s] # 0
  <2>1. PICK life : life = Smaller(Halves(IdleTTL), Halves(absolute[s]))
    OBVIOUS
  <2>2. life \in Nat /\ life >= 2 /\ half \in {0, 1} /\ life - half \in Nat
    BY <1>2, <2>1, SessionIndexAssumption DEF Smaller, Halves, IndexInv
  <2>3. /\ key' = [key EXCEPT ![s] = life] /\ index' = [index EXCEPT ![s] = life - half]
        /\ UNCHANGED <<half, absolute>>
    BY <1>2, <2>1 DEF Resolve, Touched
  <2> QED
    BY <2>2, <2>3 DEF IndexInv
<1> QED
  BY <1>1, <1>2

LEMMA RefreshSessionStep ==
  ASSUME IndexInv, NEW s \in Sid, NEW n \in Nat, RefreshSession(s, n)
  PROVE  IndexInv'
<1>1. PICK left : left = RefreshExpiry(absolute[s], n)
  OBVIOUS
<1>2. PICK life : life = Smaller(Halves(IdleTTL), Halves(left))
  OBVIOUS
<1>3. left \in Nat /\ life \in Nat
  BY <1>1, <1>2, SessionIndexAssumption DEF RefreshExpiry, Smaller, Halves, IndexInv
<1>4. /\ key' = [key EXCEPT ![s] = life] /\ index' = [index EXCEPT ![s] = life]
      /\ absolute' = [absolute EXCEPT ![s] = left] /\ half' = half
  BY <1>1, <1>2 DEF RefreshSession
<1> QED
  BY <1>3, <1>4 DEF IndexInv

LEMMA IndexStep == IndexInv /\ [SessionIndexNext]_sessionVars => IndexInv'
<1> SUFFICES ASSUME IndexInv, [SessionIndexNext]_sessionVars PROVE IndexInv'
  OBVIOUS
<1>1. ASSUME NEW x \in Txn, Login(x) \/ \E s \in Sid : BeginCallback(x, s) PROVE IndexInv'
  <2>1. UNCHANGED <<half, key, absolute, index>>
    BY <1>1 DEF Login, BeginCallback
  <2> QED
    BY <2>1 DEF IndexInv
<1>2. ASSUME NEW s \in Sid, NEW prior \in {{}} \cup {{q} : q \in Sid},
             NEW n \in {1, AbsoluteTTL}, FinishCallback(s, prior, n)
      PROVE  IndexInv'
  BY <1>2, FinishStep, SessionIndexAssumption
<1>3. ASSUME NEW s \in Sid, FailCallback(s) PROVE IndexInv'
  BY <1>3 DEF FailCallback, IndexInv
<1>4. ASSUME NEW s \in Sid, Resolve(s) PROVE IndexInv'
  BY <1>4, ResolveStep
<1>5. ASSUME NEW s \in Sid, ResolveMissing(s) PROVE IndexInv'
  BY <1>5 DEF ResolveMissing, IndexInv
<1>6. ASSUME NEW s \in Sid, NEW n \in {1, AbsoluteTTL}, RefreshSession(s, n) PROVE IndexInv'
  BY <1>6, RefreshSessionStep, SessionIndexAssumption
<1>7. ASSUME NEW s \in Sid, RemoveSession(s) PROVE IndexInv'
  BY <1>7 DEF RemoveSession, Forgotten, IndexInv
<1>8. CASE PassTime
  <2>1. /\ half' \in {0, 1}
        /\ key' = [s \in Sid |-> IF key[s] = 0 THEN 0 ELSE key[s] - 1]
        /\ index' = [s \in Sid |-> IF index[s] = 0 THEN 0 ELSE index[s] - 1]
        /\ absolute' \in [Sid -> Nat]
    BY <1>8 DEF PassTime, Sooner, IndexInv
  <2> QED
    BY <2>1 DEF IndexInv
<1>9. CASE UNCHANGED sessionVars
  BY <1>9 DEF sessionVars, IndexInv
<1> QED
  BY <1>1, <1>2, <1>3, <1>4, <1>5, <1>6, <1>7, <1>8, <1>9 DEF SessionIndexNext

\* However the tabs of a browser and the API instances that serve them
\* interleave, fail and die: a session that was logged out stays gone, no tab
\* leaves a record behind with a token that was already used, and a session
\* with more than half a second to live is in the index that the cap is counted
\* by (internal/auth/session.go: refresh, logout and the scripts).
THEOREM SessionsStayRight == RefreshSpec /\ SessionIndexSpec => []SessionsAreRight
<1>1. RefreshSpec => []RefreshInv
  BY RefreshStart, RefreshStep, PTL DEF RefreshSpec
<1>2. SessionIndexInit => IndexInv
  BY DEF SessionIndexInit, IndexInv
<1>3. SessionIndexSpec => []IndexInv
  BY <1>2, IndexStep, PTL DEF SessionIndexSpec
<1>4. IndexInv => LiveSessionsIndexed
  BY DEF IndexInv, LiveSessionsIndexed, Present
<1>5. RefreshInv /\ IndexInv => SessionsAreRight
  BY <1>4, RightAtRest DEF SessionsAreRight
<1> QED
  BY <1>1, <1>3, <1>5, PTL

-----------------------------------------------------------------------------
(* The probe of the half-open upstream *)

ClaimInv ==
    /\ call \in [Caller -> [probe : BOOLEAN, age : Nat] \cup {None}]
    /\ ClaimIsHeld

\* The call of c ends: the claim goes with it, or another probe has it.
LEMMA EndStep ==
  ASSUME ClaimInv, NEW c \in Caller, End(c), open' = open, halfOpen' => halfOpen,
         halfOpen' => ~ call[c].probe
  PROVE  ClaimInv'
<1>1. call' = [call EXCEPT ![c] = None]
  BY DEF End
<1>2. ASSUME halfOpen' PROVE open' /\ Probes' # {}
  <2>1. PICK p \in Caller : call[p] # None /\ call[p].probe
    BY <1>2 DEF ClaimInv, ClaimIsHeld, Probes
  <2>2. p # c /\ call'[p] = call[p]
    BY <1>1, <1>2, <2>1 DEF ClaimInv
  <2> QED
    BY <1>2, <2>1, <2>2 DEF ClaimInv, ClaimIsHeld, Probes
<1> QED
  BY <1>1, <1>2 DEF ClaimInv, ClaimIsHeld

LEMMA ClaimStep == ClaimInv /\ [UpstreamNext]_upstreamVars => ClaimInv'
<1> SUFFICES ASSUME ClaimInv, [UpstreamNext]_upstreamVars PROVE ClaimInv'
  OBVIOUS
<1>1. ASSUME NEW c \in Caller, Allow(c) PROVE ClaimInv'
  <2>1. CASE ~open /\ Begin(c, FALSE) /\ UNCHANGED <<circuit, notice>>
    <3>1. ~halfOpen' /\ call' = [call EXCEPT ![c] = [probe |-> FALSE, age |-> 0]]
      BY <2>1 DEF ClaimInv, ClaimIsHeld, circuit, Begin
    <3> QED
      BY <3>1 DEF ClaimInv, ClaimIsHeld
  <2>2. CASE open /\ open' = open /\ Begin(c, TRUE)
    <3>1. call' = [call EXCEPT ![c] = [probe |-> TRUE, age |-> 0]]
      BY <2>2 DEF Begin
    <3>2. [probe |-> TRUE, age |-> 0] \in [probe : BOOLEAN, age : Nat]
      OBVIOUS
    <3>3. call'[c] = [probe |-> TRUE, age |-> 0]
      BY <3>1 DEF ClaimInv
    <3>4. call'[c] # None /\ call'[c].probe
      BY <3>2, <3>3, UpstreamAssumption
    <3>5. c \in Probes'
      BY <3>4 DEF Probes
    <3> QED
      BY <2>2, <3>1, <3>5 DEF ClaimInv, ClaimIsHeld
  <2> QED
    BY <1>1, <2>1, <2>2 DEF Allow
<1>2. ASSUME NEW c \in Caller, Succeed(c) PROVE ClaimInv'
  BY <1>2 DEF Succeed, End, ClaimInv, ClaimIsHeld
<1>3. ASSUME NEW c \in Caller, Uncounted(c) PROVE ClaimInv'
  <2>1. End(c) /\ open' = open /\ halfOpen' = (halfOpen /\ ~ call[c].probe)
    BY <1>3 DEF Uncounted, ClaimAfter
  <2> QED
    BY <2>1, EndStep
<1>4. ASSUME NEW c \in Caller, Fail(c) PROVE ClaimInv'
  <2>1. End(c)
    BY <1>4 DEF Fail
  <2>2. CASE halfOpen' = FALSE
    BY <2>1, <2>2 DEF End, ClaimInv, ClaimIsHeld
  <2>3. CASE halfOpen' # FALSE
    <3>1. ~ call[c].probe /\ open' = open /\ halfOpen' = halfOpen
      BY <1>4, <2>3 DEF Fail
    <3> QED
      BY <2>1, <3>1, EndStep
  <2> QED
    BY <2>2, <2>3
<1>5. ASSUME NEW c \in Caller, SetCircuit(c) PROVE ClaimInv'
  BY <1>5 DEF SetCircuit, circuit, ClaimInv, ClaimIsHeld, Probes
<1>6. CASE Tick
  <2>1. /\ open' = open /\ halfOpen' = halfOpen
        /\ call' = [c \in Caller |-> IF call[c] = None THEN None
                                     ELSE [call[c] EXCEPT !.age = @ + 1]]
    BY <1>6 DEF Tick
  <2>2. ASSUME NEW c \in Caller, call[c] # None
        PROVE  /\ call'[c] \in [probe : BOOLEAN, age : Nat] /\ call'[c] # None
               /\ call'[c].probe = call[c].probe
    <3>1. call[c] \in [probe : BOOLEAN, age : Nat]
      BY <2>2 DEF ClaimInv
    <3>2. call'[c] = [call[c] EXCEPT !.age = @ + 1]
      BY <2>1, <2>2
    <3> QED
      BY <3>1, <3>2, UpstreamAssumption
  <2>3. call' \in [Caller -> [probe : BOOLEAN, age : Nat] \cup {None}]
    <3>1. \A c \in Caller : call'[c] \in [probe : BOOLEAN, age : Nat] \cup {None}
      BY <2>1, <2>2
    <3> QED
      BY <2>1, <3>1
  <2>4. ASSUME halfOpen PROVE Probes' # {}
    <3>1. PICK p \in Caller : call[p] # None /\ call[p].probe
      BY <2>4 DEF ClaimInv, ClaimIsHeld, Probes
    <3> QED
      BY <2>2, <3>1 DEF Probes
  <2> QED
    BY <2>1, <2>3, <2>4 DEF ClaimInv, ClaimIsHeld
<1>7. CASE UNCHANGED upstreamVars
  BY <1>7 DEF upstreamVars, circuit, ClaimInv, ClaimIsHeld, Probes
<1> QED
  BY <1>1, <1>2, <1>3, <1>4, <1>5, <1>6, <1>7 DEF UpstreamNext

LEMMA ClaimHolds == UpstreamSpec => []ClaimIsHeld
<1>1. UpstreamInit => ClaimInv
  BY DEF UpstreamInit, ClaimInv, ClaimIsHeld
<1>2. ClaimInv => ClaimIsHeld
  BY DEF ClaimInv
<1> QED
  BY <1>1, <1>2, ClaimStep, PTL DEF UpstreamSpec

-----------------------------------------------------------------------------
(* The running queries *)

\* An entry, of which only the number of running requests matters.
IsCounter(s) ==
    \E tokens, since, quiet : \E running \in Nat : s = Entity(tokens, since, quiet, running)
KnowsOnly(known, who) ==
    /\ DOMAIN known \subseteq who
    /\ \A k \in DOMAIN known : IsCounter(known[k])
RunningOf(known, k) == IF k \in DOMAIN known THEN known[k].running ELSE 0

\* What evicts or adds entries leaves the running requests of everybody.
SameRunning(known, now, who) ==
    /\ KnowsOnly(now, who)
    /\ \A k \in who : RunningOf(now, k) = RunningOf(known, k)

LEMMA EntityCounts ==
  ASSUME NEW n \in Nat, NEW s, \E x, y, z : s = Entity(x, y, z, n)
  PROVE  IsCounter(s) /\ s.running = n
<1>1. IsCounter(s)
  BY DEF IsCounter
<1>2. s.running = n
  BY DEF Entity
<1> QED
  BY <1>1, <1>2

\* Less than something idle, and more by something new.
LEMMA LessKeeps ==
  ASSUME NEW who, NEW known, KnowsOnly(known, who), NEW gone,
         \A k \in gone : k \in DOMAIN known => known[k].running = 0
  PROVE  SameRunning(known, Less(known, gone), who)
BY DEF KnowsOnly, SameRunning, RunningOf, Less, Restrict

LEMMA PutKeeps ==
  ASSUME NEW who, NEW known, KnowsOnly(known, who), NEW k \in who, k \notin DOMAIN known,
         NEW burst
  PROVE  SameRunning(known, Put(known, k, Fresh(burst)), who)
<1>1. IsCounter(Fresh(burst)) /\ Fresh(burst).running = 0
  BY DEF Fresh, IsCounter, Entity
<1> QED
  BY <1>1 DEF KnowsOnly, SameRunning, RunningOf, Put

LEMMA SameAgain ==
  ASSUME NEW who, NEW a, NEW b, NEW c, SameRunning(a, b, who), SameRunning(b, c, who)
  PROVE  SameRunning(a, c, who)
BY DEF SameRunning

LEMMA KnownKeeps ==
  ASSUME NEW who, NEW known, KnowsOnly(known, who), NEW k \in who, NEW burst,
         NEW now \in Known(known, k, burst)
  PROVE  SameRunning(known, now, who)
<1>1. SameRunning(known, known, who)
  BY DEF SameRunning
<1>2. ASSUME NEW m \in OldestEvicted(known) PROVE SameRunning(known, m, who)
  <2>1. CASE m = known
    BY <1>1, <2>1
  <2>2. CASE \E j \in DOMAIN known : known[j].running = 0 /\ m = Less(known, {j})
    BY <2>2, LessKeeps
  <2> QED
    BY <1>2, <2>1, <2>2 DEF OldestEvicted
<1>3. CASE now = known
  BY <1>1, <1>3
<1>4. CASE k \notin DOMAIN known /\ now = Put(known, k, Fresh(burst))
  BY <1>4, PutKeeps
<1>5. CASE /\ k \notin DOMAIN known
           /\ \E m \in OldestEvicted(known) : now \in {m, Put(m, k, Fresh(burst))}
  <2>1. PICK m \in OldestEvicted(known) : now \in {m, Put(m, k, Fresh(burst))}
    BY <1>5
  <2>2. SameRunning(known, m, who) /\ KnowsOnly(m, who)
    BY <1>2, <2>1 DEF SameRunning
  <2>3. k \notin DOMAIN m
    BY <1>5, <2>1 DEF OldestEvicted, Less, Restrict
  <2>4. SameRunning(m, m, who) /\ SameRunning(m, Put(m, k, Fresh(burst)), who)
    BY <2>2, <2>3, PutKeeps DEF SameRunning
  <2> QED
    BY <2>1, <2>2, <2>4, SameAgain
<1> QED
  BY <1>3, <1>4, <1>5 DEF Known

LEMMA SweptKeeps ==
  ASSUME NEW who, NEW known, KnowsOnly(known, who)
  PROVE  SameRunning(known, Swept(known), who)
BY LessKeeps DEF Swept

\* What Acquire decides: a query starts in both entries, below both limits, or
\* in neither.
Starts(s, t, d) ==
    /\ IsCounter(d[2]) /\ IsCounter(d[3])
    /\ d[1] = "admitted" =>
         /\ ~ (s.running >= UserLimit) /\ d[2].running = s.running + 1
         /\ ~ (t.running >= BoardLimit) /\ d[3].running = t.running + 1
    /\ d[1] # "admitted" => d[2].running = s.running /\ d[3].running = t.running

LEMMA DecidedRuns ==
  ASSUME NEW s, IsCounter(s), NEW t, IsCounter(t)
  PROVE  Starts(s, t, Decided(s, t))
<1>2. ASSUME NEW x, IsCounter(x)
      PROVE  /\ \A rate, burst : /\ IsCounter(Refilled(x, rate, burst))
                                 /\ Refilled(x, rate, burst).running = x.running
             /\ IsCounter(Spend(x)) /\ Spend(x).running = x.running
             /\ IsCounter(Plus(x, 1)) /\ Plus(x, 1).running = x.running
             /\ IsCounter(Start(x)) /\ Start(x).running = x.running + 1
  <2>1. PICK a, b, c : \E n \in Nat :
          x = [tokens |-> a, since |-> b, quiet |-> c, running |-> n]
    BY <1>2 DEF IsCounter, Entity
  <2>2. PICK n \in Nat : x = [tokens |-> a, since |-> b, quiet |-> c, running |-> n]
    BY <2>1
  <2>3. /\ x.running = n
        /\ Spend(x) = [tokens |-> a - 1, since |-> b, quiet |-> c, running |-> n]
        /\ Plus(x, 1) = [tokens |-> a + 1, since |-> b, quiet |-> c, running |-> n]
        /\ Start(x) = [tokens |-> a, since |-> b, quiet |-> c, running |-> n + 1]
    BY <2>2 DEF Spend, Plus, Start
  <2>4. \A d, e, f : \A m \in Nat :
          IsCounter([tokens |-> d, since |-> e, quiet |-> f, running |-> m])
    BY DEF IsCounter, Entity
  <2>5. \A rate, burst : /\ IsCounter(Refilled(x, rate, burst))
                         /\ Refilled(x, rate, burst).running = x.running
    BY <2>3, <2>4 DEF Refilled, Entity
  <2> QED
    BY <2>3, <2>4, <2>5
<1>3. PICK fu : fu = Refilled(s, UserRate, UserBurst)
  OBVIOUS
<1>4. PICK fb : fb = Refilled(t, BoardRate, BoardBurst)
  OBVIOUS
<1>5. /\ IsCounter(fu) /\ fu.running = s.running
      /\ IsCounter(fb) /\ fb.running = t.running
  BY <1>2, <1>3, <1>4
<1>6. PICK su : su = Spend(fu)
  OBVIOUS
<1>7. PICK sb : sb = Spend(fb)
  OBVIOUS
<1>8. /\ IsCounter(su) /\ su.running = s.running
      /\ IsCounter(sb) /\ sb.running = t.running
  BY <1>2, <1>5, <1>6, <1>7
<1>9. Decided(s, t) =
        IF fu.tokens = 0 THEN <<"user_rate", fu, t>>
        ELSE IF fb.tokens = 0 THEN <<"dashboard_rate", Plus(su, 1), fb>>
        ELSE IF s.running >= UserLimit
          THEN <<"user_concurrency", Plus(su, 1), Plus(sb, 1)>>
        ELSE IF t.running >= BoardLimit
          THEN <<"dashboard_concurrency", Plus(su, 1), Plus(sb, 1)>>
        ELSE <<"admitted", Start(su), Start(sb)>>
  BY <1>3, <1>4, <1>6, <1>7 DEF Decided
<1>10. /\ IsCounter(Plus(su, 1)) /\ Plus(su, 1).running = s.running
       /\ IsCounter(Plus(sb, 1)) /\ Plus(sb, 1).running = t.running
       /\ IsCounter(Start(su)) /\ Start(su).running = s.running + 1
       /\ IsCounter(Start(sb)) /\ Start(sb).running = t.running + 1
  BY <1>2, <1>8
<1>11. PICK d : d = Decided(s, t)
  OBVIOUS
<1>12. \/ d = <<"user_rate", fu, t>>
       \/ d = <<"dashboard_rate", Plus(su, 1), fb>>
       \/ d = <<"user_concurrency", Plus(su, 1), Plus(sb, 1)>>
       \/ d = <<"dashboard_concurrency", Plus(su, 1), Plus(sb, 1)>>
       \/ /\ d = <<"admitted", Start(su), Start(sb)>>
          /\ ~ (s.running >= UserLimit) /\ ~ (t.running >= BoardLimit)
  BY <1>9, <1>11
<1>14. CASE d = <<"admitted", Start(su), Start(sb)>> /\ ~ (s.running >= UserLimit) /\ ~ (t.running >= BoardLimit)
  <2>1. d[1] = "admitted" /\ d[2] = Start(su) /\ d[3] = Start(sb)
    BY <1>14
  <2>3. IsCounter(d[2]) /\ IsCounter(d[3])
    BY <1>10, <2>1
  <2>4. d[2].running = s.running + 1 /\ d[3].running = t.running + 1
    BY <1>10, <2>1
  <2> QED
    BY <1>11, <1>14, <2>1, <2>3, <2>4 DEF Starts
<1>15. CASE d[1] # "admitted" /\ d[2] \in {fu, Plus(su, 1)} /\ d[3] \in {t, fb, Plus(sb, 1)}
  BY <1>5, <1>10, <1>11, <1>15 DEF Starts
<1>16. CASE d = <<"user_rate", fu, t>>
  BY <1>15, <1>16
<1>17. CASE d = <<"dashboard_rate", Plus(su, 1), fb>>
  BY <1>15, <1>17
<1>18. CASE d = <<"user_concurrency", Plus(su, 1), Plus(sb, 1)>>
  BY <1>15, <1>18
<1>19. CASE d = <<"dashboard_concurrency", Plus(su, 1), Plus(sb, 1)>>
  BY <1>15, <1>19
<1> QED
  BY <1>12, <1>14, <1>16, <1>17, <1>18, <1>19

\* One permit more or less is one in the row of its user and in the column of
\* its dashboard.
OfUser(x) == {x} \X Board
OfBoard(y) == User \X {y}

LEMMA RowsFinite ==
  /\ \A u \in User : IsFiniteSet(OfUser(u)) /\ OfUser(u) \subseteq User \X Board
  /\ \A b \in Board : IsFiniteSet(OfBoard(b)) /\ OfBoard(b) \subseteq User \X Board
  /\ \A u \in User, b \in Board : /\ \A x \in User : <<u, b>> \in OfUser(x) <=> x = u
                                  /\ \A y \in Board : <<u, b>> \in OfBoard(y) <=> y = b
BY FS_Singleton, FS_Product, QueryGuardAssumption DEF OfUser, OfBoard

CountsMove(f, g, u, b) ==
    /\ \A x \in User : SumFunctionOnSet(g, OfUser(x))
         = SumFunctionOnSet(f, OfUser(x)) + (IF x = u THEN g[<<u, b>>] - f[<<u, b>>] ELSE 0)
    /\ \A y \in Board : SumFunctionOnSet(g, OfBoard(y))
         = SumFunctionOnSet(f, OfBoard(y)) + (IF y = b THEN g[<<u, b>>] - f[<<u, b>>] ELSE 0)

LEMMA HeldMoves ==
  ASSUME NEW f \in [User \X Board -> Nat], NEW g \in [User \X Board -> Nat],
         NEW u \in User, NEW b \in Board,
         \A q \in User \X Board : q # <<u, b>> => g[q] = f[q]
  PROVE  CountsMove(f, g, u, b)
<1>1. PICK p : p = <<u, b>>
  OBVIOUS
<1>2. ASSUME NEW S \in SUBSET (User \X Board), IsFiniteSet(S)
      PROVE  SumFunctionOnSet(g, S)
               = SumFunctionOnSet(f, S) + (IF p \in S THEN g[p] - f[p] ELSE 0)
  <2>1. /\ \A q \in S : f[q] \in Int /\ g[q] \in Int
        /\ \A q \in S : q # p => g[q] = f[q]
    BY <1>1
  <2> QED
    BY <1>2, <2>1, SumMoves
<1>3. ASSUME NEW x \in User
      PROVE  SumFunctionOnSet(g, OfUser(x))
               = SumFunctionOnSet(f, OfUser(x)) + (IF x = u THEN g[p] - f[p] ELSE 0)
  BY <1>1, <1>2, RowsFinite
<1>4. ASSUME NEW y \in Board
      PROVE  SumFunctionOnSet(g, OfBoard(y))
               = SumFunctionOnSet(f, OfBoard(y)) + (IF y = b THEN g[p] - f[p] ELSE 0)
  BY <1>1, <1>2, RowsFinite
<1> QED
  BY <1>1, <1>3, <1>4 DEF CountsMove

\* A permit that is held is counted.
LEMMA HeldCounts ==
  ASSUME permits \in [User \X Board -> Nat]
  PROVE  /\ \A u \in User : Held(OfUser(u)) \in Nat
         /\ \A b \in Board : Held(OfBoard(b)) \in Nat
         /\ \A u \in User, b \in Board :
              /\ permits[<<u, b>>] <= Held(OfUser(u))
              /\ permits[<<u, b>>] <= Held(OfBoard(b))
<1>1. ASSUME NEW S \in SUBSET (User \X Board), IsFiniteSet(S)
      PROVE  Held(S) \in Nat /\ \A p \in S : permits[p] <= Held(S)
  <2>1. \A p \in S : permits[p] \in Nat
    OBVIOUS
  <2> QED
    BY <1>1, <2>1, SumNat DEF Held
<1> QED
  BY <1>1, RowsFinite

GuardInv ==
    /\ permits \in [User \X Board -> Nat]
    /\ KnowsOnly(users, User) /\ KnowsOnly(boards, Board)
    /\ \A u \in User : Held(OfUser(u)) = RunningOf(users, u)
    /\ \A b \in Board : Held(OfBoard(b)) = RunningOf(boards, b)
    /\ \A u \in User : Held(OfUser(u)) <= UserLimit
    /\ \A b \in Board : Held(OfBoard(b)) <= BoardLimit

\* Entries come and go; who runs stays.
LEMMA MapsStep ==
  ASSUME GuardInv, permits' = permits,
         SameRunning(users, users', User), SameRunning(boards, boards', Board)
  PROVE  GuardInv'
BY DEF GuardInv, SameRunning, Held

LEMMA AcquireStep ==
  ASSUME GuardInv, NEW u \in User, NEW b \in Board, NEW known, NEW shown,
         SameRunning(users, known, User), SameRunning(boards, shown, Board),
         AcquireFrom(known, shown, u, b)
  PROVE  GuardInv'
<1>1. PICK us \in Known(known, u, UserBurst) :
      IF u \notin DOMAIN us
        THEN /\ users' = us
             /\ boards' = shown
             /\ UNCHANGED permits
        ELSE \E bs \in Known(shown, b, BoardBurst) :
               IF b \notin DOMAIN bs
                 THEN users' = us /\ boards' = bs /\ UNCHANGED permits
                 ELSE LET d == Decided(us[u], bs[b])
                      IN  /\ users' = [us EXCEPT ![u] = d[2]]
                          /\ boards' = [bs EXCEPT ![b] = d[3]]
                          /\ permits' = IF d[1] = "admitted"
                               THEN [permits EXCEPT ![<<u, b>>] = @ + 1]
                               ELSE permits
  BY DEF AcquireFrom
<1>2. SameRunning(users, us, User)
  BY KnownKeeps, SameAgain DEF SameRunning
<1>3. CASE u \notin DOMAIN us
  BY <1>1, <1>2, <1>3, MapsStep
<1>4. CASE u \in DOMAIN us
  <2>1. PICK bs \in Known(shown, b, BoardBurst) :
               IF b \notin DOMAIN bs
                 THEN users' = us /\ boards' = bs /\ UNCHANGED permits
                 ELSE LET d == Decided(us[u], bs[b])
                      IN  /\ users' = [us EXCEPT ![u] = d[2]]
                          /\ boards' = [bs EXCEPT ![b] = d[3]]
                          /\ permits' = IF d[1] = "admitted"
                               THEN [permits EXCEPT ![<<u, b>>] = @ + 1]
                               ELSE permits
    BY <1>1, <1>4
  <2>2. SameRunning(boards, bs, Board)
    BY KnownKeeps, SameAgain DEF SameRunning
  <2>3. CASE b \notin DOMAIN bs
    BY <1>2, <2>1, <2>2, <2>3, MapsStep
  <2>4. CASE b \in DOMAIN bs
    <3>0. PICK mine, its : mine = us[u] /\ its = bs[b]
      OBVIOUS
    <3>1. PICK d : d = Decided(mine, its)
      OBVIOUS
    <3>2. /\ users' = [us EXCEPT ![u] = d[2]]
          /\ boards' = [bs EXCEPT ![b] = d[3]]
          /\ permits' = IF d[1] = "admitted"
               THEN [permits EXCEPT ![<<u, b>>] = permits[<<u, b>>] + 1]
               ELSE permits
      BY <2>1, <2>4, <3>0, <3>1
    <3>3. /\ IsCounter(mine) /\ IsCounter(its)
          /\ mine.running = RunningOf(users, u) /\ its.running = RunningOf(boards, b)
      BY <1>2, <1>4, <2>2, <2>4, <3>0 DEF SameRunning, KnowsOnly, RunningOf
    <3>4. Starts(mine, its, d)
      BY <3>1, <3>3, DecidedRuns
    <3>5. /\ KnowsOnly(users', User) /\ KnowsOnly(boards', Board)
          /\ \A x \in User : RunningOf(users', x)
               = IF x = u THEN d[2].running ELSE RunningOf(users, x)
          /\ \A y \in Board : RunningOf(boards', y)
               = IF y = b THEN d[3].running ELSE RunningOf(boards, y)
      BY <1>2, <1>4, <2>2, <2>4, <3>2, <3>4 DEF Starts, SameRunning, KnowsOnly, RunningOf
    <3>6. CASE d[1] = "admitted"
      <4>1. /\ ~ (RunningOf(users, u) >= UserLimit) /\ ~ (RunningOf(boards, b) >= BoardLimit)
            /\ d[2].running = RunningOf(users, u) + 1
            /\ d[3].running = RunningOf(boards, b) + 1
        BY <3>3, <3>4, <3>6 DEF Starts
      <4>2. /\ permits[<<u, b>>] \in Nat /\ permits \in [User \X Board -> Nat]
            /\ permits' = [permits EXCEPT ![<<u, b>>] = permits[<<u, b>>] + 1]
        BY <3>2, <3>6 DEF GuardInv
      <4>3. PICK n \in Nat : n = permits[<<u, b>>]
        BY <4>2
      <4>4. /\ permits' \in [User \X Board -> Nat]
            /\ \A x \in User : SumFunctionOnSet(permits', OfUser(x))
                 = SumFunctionOnSet(permits, OfUser(x)) + (IF x = u THEN (n + 1) - n ELSE 0)
            /\ \A y \in Board : SumFunctionOnSet(permits', OfBoard(y))
                 = SumFunctionOnSet(permits, OfBoard(y)) + (IF y = b THEN (n + 1) - n ELSE 0)
        <5>1. /\ permits' \in [User \X Board -> Nat]
              /\ permits'[<<u, b>>] = n + 1 /\ permits[<<u, b>>] = n
              /\ \A q \in User \X Board : q # <<u, b>> => permits'[q] = permits[q]
          BY <4>2, <4>3
        <5>2. PICK f \in [User \X Board -> Nat] : f = permits
          BY <4>2
        <5>3. PICK g \in [User \X Board -> Nat] : g = permits'
          BY <5>1
        <5>4. \A q \in User \X Board : q # <<u, b>> => g[q] = f[q]
          BY <5>1, <5>2, <5>3
        <5>5. CountsMove(f, g, u, b)
          BY <5>4, HeldMoves
        <5> QED
          BY <5>1, <5>2, <5>3, <5>5 DEF CountsMove
      <4>5. ASSUME NEW x \in User
            PROVE  /\ SumFunctionOnSet(permits', OfUser(x)) = RunningOf(users', x)
                   /\ SumFunctionOnSet(permits', OfUser(x)) <= UserLimit
        <5>1. PICK h \in Nat : h = Held(OfUser(x))
          BY HeldCounts DEF GuardInv
        <5>2. PICK g : g = SumFunctionOnSet(permits', OfUser(x))
          OBVIOUS
        <5>3. h = RunningOf(users, x) /\ h <= UserLimit /\ UserLimit \in Nat
          BY <5>1, QueryGuardAssumption DEF GuardInv
        <5>4. g = IF x = u THEN h + 1 ELSE h
          BY <4>3, <4>4, <5>1, <5>2 DEF Held
        <5>5. RunningOf(users', x) = IF x = u THEN h + 1 ELSE h
          BY <3>5, <4>1, <5>3
        <5>6. x = u => ~ (h >= UserLimit)
          BY <4>1, <5>3
        <5> QED
          BY <5>2, <5>3, <5>4, <5>5, <5>6
      <4>6. ASSUME NEW y \in Board
            PROVE  /\ SumFunctionOnSet(permits', OfBoard(y)) = RunningOf(boards', y)
                   /\ SumFunctionOnSet(permits', OfBoard(y)) <= BoardLimit
        <5>1. PICK h \in Nat : h = Held(OfBoard(y))
          BY HeldCounts DEF GuardInv
        <5>2. PICK g : g = SumFunctionOnSet(permits', OfBoard(y))
          OBVIOUS
        <5>3. h = RunningOf(boards, y) /\ h <= BoardLimit /\ BoardLimit \in Nat
          BY <5>1, QueryGuardAssumption DEF GuardInv
        <5>4. g = IF y = b THEN h + 1 ELSE h
          BY <4>3, <4>4, <5>1, <5>2 DEF Held
        <5>5. RunningOf(boards', y) = IF y = b THEN h + 1 ELSE h
          BY <3>5, <4>1, <5>3
        <5>6. y = b => ~ (h >= BoardLimit)
          BY <4>1, <5>3
        <5> QED
          BY <5>2, <5>3, <5>4, <5>5, <5>6
      <4> QED
        BY <3>5, <4>4, <4>5, <4>6 DEF GuardInv, Held
    <3>7. CASE d[1] # "admitted"
      <4>1. /\ d[2].running = RunningOf(users, u) /\ d[3].running = RunningOf(boards, b)
            /\ permits' = permits
        BY <3>2, <3>3, <3>4, <3>7 DEF Starts
      <4>2. SameRunning(users, users', User) /\ SameRunning(boards, boards', Board)
        BY <3>5, <4>1 DEF SameRunning
      <4> QED
        BY <4>1, <4>2, MapsStep
    <3> QED
      BY <3>6, <3>7
  <2> QED
    BY <2>3, <2>4
<1> QED
  BY <1>3, <1>4

\* A query that ends is taken out of both entries: they are still there.
LEMMA ReleaseStep ==
  ASSUME GuardInv, NEW u \in User, NEW b \in Board, Release(u, b)
  PROVE  GuardInv'
<1>1. PICK n \in Nat : n = permits[<<u, b>>]
  BY DEF GuardInv
<1>2. /\ n > 0 /\ permits \in [User \X Board -> Nat]
      /\ permits' = [permits EXCEPT ![<<u, b>>] = n - 1]
      /\ users' = [users EXCEPT ![u] = Stop(users[u])]
      /\ boards' = [boards EXCEPT ![b] = Stop(boards[b])]
  BY <1>1 DEF Release, GuardInv
<1>3. /\ permits' \in [User \X Board -> Nat]
      /\ permits'[<<u, b>>] = n - 1
      /\ \A q \in User \X Board : q # <<u, b>> => permits'[q] = permits[q]
  BY <1>1, <1>2
<1>4. /\ \A x \in User : SumFunctionOnSet(permits', OfUser(x))
           = SumFunctionOnSet(permits, OfUser(x)) + (IF x = u THEN (n - 1) - n ELSE 0)
      /\ \A y \in Board : SumFunctionOnSet(permits', OfBoard(y))
           = SumFunctionOnSet(permits, OfBoard(y)) + (IF y = b THEN (n - 1) - n ELSE 0)
  <2>1. PICK f \in [User \X Board -> Nat] : f = permits
    BY <1>2
  <2>2. PICK g \in [User \X Board -> Nat] : g = permits'
    BY <1>3
  <2>3. \A q \in User \X Board : q # <<u, b>> => g[q] = f[q]
    BY <1>3, <2>1, <2>2
  <2>4. CountsMove(f, g, u, b)
    BY <2>3, HeldMoves
  <2> QED
    BY <1>1, <1>3, <2>1, <2>2, <2>4 DEF CountsMove
<1>5. /\ n <= Held(OfUser(u)) /\ Held(OfUser(u)) \in Nat
      /\ n <= Held(OfBoard(b)) /\ Held(OfBoard(b)) \in Nat
  BY <1>1, <1>2, HeldCounts
<1>6. u \in DOMAIN users /\ b \in DOMAIN boards
  BY <1>2, <1>5 DEF GuardInv, RunningOf
<1>7. IsCounter(users[u]) /\ IsCounter(boards[b])
  BY <1>6 DEF GuardInv, KnowsOnly
<1>8. /\ users[u].running = Held(OfUser(u)) /\ boards[b].running = Held(OfBoard(b))
  BY <1>6 DEF GuardInv, RunningOf
<1>9. /\ IsCounter(Stop(users[u])) /\ Stop(users[u]).running = Held(OfUser(u)) - 1
      /\ IsCounter(Stop(boards[b])) /\ Stop(boards[b]).running = Held(OfBoard(b)) - 1
  <2>1. PICK k \in Nat : k = Held(OfUser(u)) - 1
    BY <1>2, <1>5
  <2>2. PICK m \in Nat : m = Held(OfBoard(b)) - 1
    BY <1>2, <1>5
  <2>3. /\ \E x, y, z : Stop(users[u]) = Entity(x, y, z, k)
        /\ \E x, y, z : Stop(boards[b]) = Entity(x, y, z, m)
    BY <1>8, <2>1, <2>2 DEF Stop
  <2> QED
    BY <2>1, <2>2, <2>3, EntityCounts
<1>10. /\ KnowsOnly(users', User) /\ KnowsOnly(boards', Board)
       /\ \A x \in User : RunningOf(users', x)
            = IF x = u THEN Held(OfUser(u)) - 1 ELSE RunningOf(users, x)
       /\ \A y \in Board : RunningOf(boards', y)
            = IF y = b THEN Held(OfBoard(b)) - 1 ELSE RunningOf(boards, y)
  BY <1>2, <1>6, <1>9 DEF GuardInv, KnowsOnly, RunningOf
<1>11. ASSUME NEW x \in User
       PROVE  /\ SumFunctionOnSet(permits', OfUser(x)) = RunningOf(users', x)
              /\ SumFunctionOnSet(permits', OfUser(x)) <= UserLimit
  <2>1. PICK h \in Nat : h = Held(OfUser(x))
    BY <1>2, HeldCounts
  <2>2. PICK g : g = SumFunctionOnSet(permits', OfUser(x))
    OBVIOUS
  <2>3. h = RunningOf(users, x) /\ h <= UserLimit /\ UserLimit \in Nat
    BY <2>1, QueryGuardAssumption DEF GuardInv
  <2>4. g = h + (IF x = u THEN (n - 1) - n ELSE 0)
    BY <1>4, <2>1, <2>2 DEF Held
  <2>5. RunningOf(users', x) = IF x = u THEN h - 1 ELSE h
    BY <1>10, <2>1, <2>3
  <2> QED
    BY <2>2, <2>3, <2>4, <2>5
<1>12. ASSUME NEW y \in Board
       PROVE  /\ SumFunctionOnSet(permits', OfBoard(y)) = RunningOf(boards', y)
              /\ SumFunctionOnSet(permits', OfBoard(y)) <= BoardLimit
  <2>1. PICK h \in Nat : h = Held(OfBoard(y))
    BY <1>2, HeldCounts
  <2>2. PICK g : g = SumFunctionOnSet(permits', OfBoard(y))
    OBVIOUS
  <2>3. h = RunningOf(boards, y) /\ h <= BoardLimit /\ BoardLimit \in Nat
    BY <2>1, QueryGuardAssumption DEF GuardInv
  <2>4. g = h + (IF y = b THEN (n - 1) - n ELSE 0)
    BY <1>4, <2>1, <2>2 DEF Held
  <2>5. RunningOf(boards', y) = IF y = b THEN h - 1 ELSE h
    BY <1>10, <2>1, <2>3
  <2> QED
    BY <2>2, <2>3, <2>4, <2>5
<1> QED
  BY <1>3, <1>10, <1>11, <1>12 DEF GuardInv, Held

LEMMA OlderKeeps ==
  ASSUME NEW who, NEW known, KnowsOnly(known, who)
  PROVE  SameRunning(known, Older(known), who)
<1>1. DOMAIN Older(known) = DOMAIN known
  BY DEF Older
<1>2. ASSUME NEW k \in DOMAIN known
      PROVE  IsCounter(Older(known)[k]) /\ Older(known)[k].running = known[k].running
  <2>1. \E x, y, z : Older(known)[k] = Entity(x, y, z, known[k].running)
    BY <1>2 DEF Older
  <2>2. PICK n \in Nat : n = known[k].running
    BY <1>2 DEF KnowsOnly, IsCounter, Entity
  <2> QED
    BY <2>1, <2>2, EntityCounts
<1> QED
  BY <1>1, <1>2 DEF KnowsOnly, SameRunning, RunningOf

LEMMA GuardStep == GuardInv /\ [QueryGuardNext]_guardVars => GuardInv'
<1> SUFFICES ASSUME GuardInv, [QueryGuardNext]_guardVars PROVE GuardInv'
  OBVIOUS
<1>1. /\ SameRunning(users, users, User) /\ SameRunning(boards, boards, Board)
      /\ SameRunning(users, Swept(users), User) /\ SameRunning(boards, Swept(boards), Board)
  BY SweptKeeps DEF GuardInv, SameRunning
<1>2. ASSUME NEW u \in User, NEW b \in Board, Acquire(u, b) PROVE GuardInv'
  BY <1>1, <1>2, AcquireStep DEF Acquire
<1>3. ASSUME NEW u \in User, NEW b \in Board, Release(u, b) PROVE GuardInv'
  BY <1>3, ReleaseStep
<1>4. CASE GuardTick
  <2>1. SameRunning(users, users', User) /\ SameRunning(boards, boards', Board)
    BY <1>4, OlderKeeps DEF GuardTick, GuardInv
  <2> QED
    BY <1>4, <2>1, MapsStep DEF GuardTick
<1>5. CASE UNCHANGED guardVars
  BY <1>1, <1>5, MapsStep DEF guardVars
<1> QED
  BY <1>2, <1>3, <1>4, <1>5 DEF QueryGuardNext

LEMMA GuardStart == QueryGuardInit => GuardInv
<1> SUFFICES ASSUME QueryGuardInit PROVE GuardInv
  OBVIOUS
<1>1. /\ permits \in [User \X Board -> Nat]
      /\ \A p \in User \X Board : permits[p] = 0
      /\ DOMAIN users = {} /\ DOMAIN boards = {}
  BY DEF QueryGuardInit
<1>2. ASSUME NEW S \in SUBSET (User \X Board), IsFiniteSet(S) PROVE Held(S) = 0
  <2>1. \A p \in S : permits[p] = 0
    BY <1>1
  <2> QED
    BY <1>2, <2>1, SumZero DEF Held
<1>3. /\ \A u \in User : Held(OfUser(u)) = 0
      /\ \A b \in Board : Held(OfBoard(b)) = 0
  BY <1>2, RowsFinite
<1>4. UserLimit \in Nat /\ BoardLimit \in Nat
  BY QueryGuardAssumption
<1> QED
  BY <1>1, <1>3, <1>4 DEF GuardInv, KnowsOnly, RunningOf

LEMMA RunningHolds == QueryGuardSpec => []RunningIsCounted
<1>1. GuardInv => RunningIsCounted
  BY DEF GuardInv, RunningIsCounted, RunningOf, OfUser, OfBoard, KnowsOnly
<1> QED
  BY <1>1, GuardStart, GuardStep, PTL DEF QueryGuardSpec

-----------------------------------------------------------------------------
(* The readings of pods *)

\* One of the two measures, entries or bytes: k is what each cluster keeps, g
\* what its copy will need beyond that, b what its copy holds.
Ledger(k, g, b, total, reserved, building, limit, peak) ==
    /\ k \in [UsageCluster -> Nat]
    /\ g \in [UsageCluster -> Nat]
    /\ b \in [UsageCluster -> Nat]
    /\ total = SumFunction(k) /\ reserved = SumFunction(g) /\ building = SumFunction(b)
    /\ total + reserved <= limit /\ total + building <= peak

LEMMA LedgerTypes ==
  ASSUME NEW f \in [UsageCluster -> Nat] PROVE SumFunction(f) \in Nat
<1>1. DOMAIN f = UsageCluster /\ \A c \in DOMAIN f : f[c] \in Nat
  OBVIOUS
<1> QED
  BY <1>1, TotalNat, UsageAssumption

LEMMA LedgerChange ==
  ASSUME NEW f \in [UsageCluster -> Nat], NEW g \in [UsageCluster -> Nat],
         NEW c \in UsageCluster, \A d \in UsageCluster : d # c => g[d] = f[d]
  PROVE  SumFunction(g) = SumFunction(f) - f[c] + g[c]
<1>1. /\ DOMAIN f = UsageCluster /\ DOMAIN g = DOMAIN f /\ IsFiniteSet(DOMAIN f)
      /\ \A d \in DOMAIN f : f[d] \in Int
      /\ g[c] \in Int /\ \A d \in DOMAIN f \ {c} : g[d] = f[d]
  BY UsageAssumption
<1> QED
  BY <1>1, TotalChange

LEMMA LedgerAdmits ==
  ASSUME NEW k, NEW g, NEW b, NEW t, NEW r, NEW u, NEW limit \in Nat, NEW peak \in Nat,
         Ledger(k, g, b, t, r, u, limit, peak),
         NEW c \in UsageCluster, NEW d \in Nat, NEW n \in Nat,
         g[c] = 0, b[c] = 0, t + (r + d) <= limit, t + (u + n) <= peak,
         NEW g2 \in [UsageCluster -> Nat], NEW b2 \in [UsageCluster -> Nat],
         g2[c] = d, b2[c] = n,
         \A e \in UsageCluster : e # c => g2[e] = g[e] /\ b2[e] = b[e]
  PROVE  Ledger(k, g2, b2, t, r + d, u + n, limit, peak)
<1>1. /\ g \in [UsageCluster -> Nat] /\ b \in [UsageCluster -> Nat]
      /\ r = SumFunction(g) /\ u = SumFunction(b)
  BY DEF Ledger
<1>2. SumFunction(g2) = r - 0 + d
  BY <1>1, LedgerChange
<1>3. SumFunction(b2) = u - 0 + n
  BY <1>1, LedgerChange
<1>4. r \in Nat /\ u \in Nat
  BY <1>1, LedgerTypes
<1> QED
  BY <1>2, <1>3, <1>4 DEF Ledger

LEMMA LedgerStores ==
  ASSUME NEW k, NEW g, NEW b, NEW t, NEW r, NEW u, NEW limit \in Nat, NEW peak \in Nat,
         Ledger(k, g, b, t, r, u, limit, peak),
         NEW c \in UsageCluster, NEW old \in Nat, NEW d \in Nat, NEW n \in Nat,
         k[c] = old, g[c] = d, b[c] = n, n - old <= d,
         NEW k2 \in [UsageCluster -> Nat], k2[c] = n,
         NEW g2 \in [UsageCluster -> Nat], g2[c] = 0,
         NEW b2 \in [UsageCluster -> Nat], b2[c] = 0,
         \A e \in UsageCluster : e # c => k2[e] = k[e] /\ g2[e] = g[e] /\ b2[e] = b[e]
  PROVE  Ledger(k2, g2, b2, t + (n - old), r - d, u - n, limit, peak)
<1>1. /\ g \in [UsageCluster -> Nat] /\ b \in [UsageCluster -> Nat] /\ k \in [UsageCluster -> Nat]
      /\ t = SumFunction(k) /\ r = SumFunction(g) /\ u = SumFunction(b)
      /\ t + r <= limit /\ t + u <= peak
  BY DEF Ledger
<1>2. SumFunction(k2) = t - old + n
  BY <1>1, LedgerChange
<1>3. SumFunction(g2) = r - d + 0
  BY <1>1, LedgerChange
<1>4. SumFunction(b2) = u - n + 0
  BY <1>1, LedgerChange
<1>5. t \in Nat /\ r \in Nat /\ u \in Nat
  BY <1>1, LedgerTypes
<1>6. /\ t + (n - old) = t - old + n /\ r - d = r - d + 0 /\ u - n = u - n + 0
      /\ (t + (n - old)) + (r - d) <= limit
      /\ (t + (n - old)) + (u - n) <= peak
  BY <1>1, <1>5
<1> QED
  BY <1>2, <1>3, <1>4, <1>6 DEF Ledger

\* What the copy of a cluster needs beyond what is kept.
CopyGrowth(c) == IF usageArriving[c] = {} THEN NoUsage
                 ELSE UsageGrowth(usageKept[c], CHOOSE v \in usageArriving[c] : TRUE)

\* Both measures of both totals are kept in the two ledgers; a cluster copies
\* one map at a time.
UsageTyped ==
    /\ usageKept \in [UsageCluster -> Snapshots]
    /\ usageArriving \in [UsageCluster -> SUBSET Snapshots]
    /\ \A c \in UsageCluster : usageArriving[c] = {} \/ \E v \in Snapshots : usageArriving[c] = {v}
    /\ usageTotal \in [entries : Int, bytes : Int]
    /\ usageReserved \in [entries : Int, bytes : Int]
    /\ usageBuilding \in [entries : Int, bytes : Int]
EntriesBooked ==
    Ledger([c \in UsageCluster |-> UsageOf(c).entries],
           [c \in UsageCluster |-> CopyGrowth(c).entries],
           [c \in UsageCluster |-> UsageCopied(c).entries],
           usageTotal.entries, usageReserved.entries, usageBuilding.entries,
           UsageLimits.totalEntries, UsageLimits.peakEntries)
BytesBooked ==
    Ledger([c \in UsageCluster |-> UsageOf(c).bytes],
           [c \in UsageCluster |-> CopyGrowth(c).bytes],
           [c \in UsageCluster |-> UsageCopied(c).bytes],
           usageTotal.bytes, usageReserved.bytes, usageBuilding.bytes,
           UsageLimits.totalBytes, UsageLimits.peakBytes)
UsageInv == UsageTyped /\ EntriesBooked /\ BytesBooked

LEMMA ChargeType ==
  ASSUME NEW v \in Snapshots
  PROVE  UsageCharge(v) \in [entries : Nat, bytes : Nat]
<1>1. DOMAIN v \in SUBSET PodUid
  BY DEF Snapshots
<1>2. IsFiniteSet(DOMAIN v)
  BY <1>1, FS_Subset, UsageAssumption
<1>3. Cardinality(DOMAIN v) \in Nat
  BY <1>2, FS_CardinalityType
<1>4. PICK f : f = [u \in DOMAIN v |-> UidBytes[u]]
  OBVIOUS
<1>5. DOMAIN f = DOMAIN v /\ \A u \in DOMAIN f : f[u] \in Nat
  BY <1>1, <1>4, UsageAssumption
<1>6. SumFunction(f) \in Nat
  BY <1>2, <1>5, TotalNat
<1> QED
  BY <1>3, <1>4, <1>6 DEF UsageCharge

LEMMA GrowthType ==
  ASSUME NEW old \in Snapshots, NEW v \in Snapshots
  PROVE  /\ UsageGrowth(old, v) \in [entries : Nat, bytes : Nat]
         /\ UsageCharge(v).entries - UsageCharge(old).entries <= UsageGrowth(old, v).entries
         /\ UsageCharge(v).bytes - UsageCharge(old).bytes <= UsageGrowth(old, v).bytes
<1>1. ASSUME NEW d \in Int PROVE Max({0, d}) \in Nat /\ d <= Max({0, d})
  <2>1. \E x \in {0, d} : \A y \in {0, d} : x >= y
    OBVIOUS
  <2>2. PICK m : m = Max({0, d})
    OBVIOUS
  <2>3. m \in {0, d} /\ \A y \in {0, d} : m >= y
    BY <2>1, <2>2 DEF Max
  <2> QED
    BY <2>2, <2>3
<1>2. PICK a, b : a = UsageCharge(old) /\ b = UsageCharge(v)
  OBVIOUS
<1>3. a \in [entries : Nat, bytes : Nat] /\ b \in [entries : Nat, bytes : Nat]
  BY <1>2, ChargeType
<1>4. b.entries - a.entries \in Int /\ b.bytes - a.bytes \in Int
  BY <1>3
<1>5. UsageGrowth(old, v) = [entries |-> Max({0, b.entries - a.entries}),
                             bytes |-> Max({0, b.bytes - a.bytes})]
  BY <1>2 DEF UsageGrowth, LessOf
<1> QED
  BY <1>1, <1>2, <1>4, <1>5

\* What the six measures of a cluster are, by what it does.
LEMMA CopyingIs ==
  ASSUME NEW c \in UsageCluster, NEW v, usageArriving[c] = {v}
  PROVE  UsageCopied(c) = UsageCharge(v) /\ CopyGrowth(c) = UsageGrowth(usageKept[c], v)
<1>1. (CHOOSE w \in usageArriving[c] : TRUE) = v /\ usageArriving[c] # {}
  OBVIOUS
<1> QED
  BY <1>1 DEF UsageCopied, CopyGrowth

LEMMA IdleIs ==
  ASSUME NEW c \in UsageCluster, usageArriving[c] = {}
  PROVE  UsageCopied(c) = NoUsage /\ CopyGrowth(c) = NoUsage
BY DEF UsageCopied, CopyGrowth

\* The measures of every cluster are what a ledger may hold.
LEMMA MeasuresType ==
  ASSUME UsageTyped, NEW c \in UsageCluster
  PROVE  /\ UsageOf(c) \in [entries : Nat, bytes : Nat]
         /\ CopyGrowth(c) \in [entries : Nat, bytes : Nat]
         /\ UsageCopied(c) \in [entries : Nat, bytes : Nat]
<1>1. usageKept[c] \in Snapshots
  BY DEF UsageTyped
<1>2. CASE usageArriving[c] = {}
  BY <1>1, <1>2, IdleIs, ChargeType DEF UsageOf, NoUsage
<1>3. CASE \E v \in Snapshots : usageArriving[c] = {v}
  <2>1. PICK v \in Snapshots : usageArriving[c] = {v}
    BY <1>3
  <2> QED
    BY <1>1, <2>1, CopyingIs, ChargeType, GrowthType DEF UsageOf
<1> QED
  BY <1>2, <1>3 DEF UsageTyped

LEMMA AdmittedStep ==
  ASSUME UsageInv, NEW c \in UsageCluster, NEW v \in Snapshots, UsageAdmitted(c, v)
  PROVE  UsageInv'
<1>1. /\ UsageTyped
      /\ usageArriving[c] = {}
      /\ usageArriving' = [usageArriving EXCEPT ![c] = {v}]
      /\ usageKept' = usageKept /\ usageTotal' = usageTotal
  BY DEF UsageInv, UsageAdmitted
<1>2. PICK d, n, old : d = UsageGrowth(usageKept[c], v) /\ n = UsageCharge(v) /\ old = usageKept[c]
  OBVIOUS
<1>3. old \in Snapshots /\ d \in [entries : Nat, bytes : Nat] /\ n \in [entries : Nat, bytes : Nat]
  BY <1>1, <1>2, ChargeType, GrowthType DEF UsageTyped
<1>4. /\ usageReserved' = [entries |-> usageReserved.entries + d.entries,
                           bytes |-> usageReserved.bytes + d.bytes]
      /\ usageBuilding' = [entries |-> usageBuilding.entries + n.entries,
                           bytes |-> usageBuilding.bytes + n.bytes]
      /\ usageTotal.entries + (usageReserved.entries + d.entries) <= UsageLimits.totalEntries
      /\ usageTotal.bytes + (usageReserved.bytes + d.bytes) <= UsageLimits.totalBytes
      /\ usageTotal.entries + (usageBuilding.entries + n.entries) <= UsageLimits.peakEntries
      /\ usageTotal.bytes + (usageBuilding.bytes + n.bytes) <= UsageLimits.peakBytes
  BY <1>2 DEF UsageAdmitted, UsageHasRoom, UsageWithin, SumOf
<1>5. UsageTyped'
  <2>1. \A e \in UsageCluster :
          usageArriving'[e] = {} \/ \E w \in Snapshots : usageArriving'[e] = {w}
    BY <1>1 DEF UsageTyped
  <2>2. /\ usageReserved' \in [entries : Int, bytes : Int]
        /\ usageBuilding' \in [entries : Int, bytes : Int]
    BY <1>1, <1>3, <1>4 DEF UsageTyped
  <2> QED
    BY <1>1, <2>1, <2>2 DEF UsageTyped
<1>6. \A e \in UsageCluster : UsageOf(e)' = UsageOf(e)
  BY <1>1 DEF UsageOf
<1>7. UsageCopied(c)' = n /\ CopyGrowth(c)' = d
  <2>1. usageArriving'[c] = {v} /\ usageKept'[c] = old
    BY <1>1, <1>2 DEF UsageTyped
  <2>2. (CHOOSE w \in usageArriving'[c] : TRUE) = v /\ usageArriving'[c] # {}
    BY <2>1
  <2> QED
    BY <1>2, <2>1, <2>2 DEF UsageCopied, CopyGrowth
<1>8. \A e \in UsageCluster : e # c =>
        UsageCopied(e)' = UsageCopied(e) /\ CopyGrowth(e)' = CopyGrowth(e)
  BY <1>1 DEF UsageTyped, UsageCopied, CopyGrowth
<1>9. UsageCopied(c) = NoUsage /\ CopyGrowth(c) = NoUsage
  BY <1>1, IdleIs
<1>10. \A e \in UsageCluster : /\ CopyGrowth(e)' \in [entries : Nat, bytes : Nat]
                               /\ UsageCopied(e)' \in [entries : Nat, bytes : Nat]
  <2>1. \A e \in UsageCluster : /\ CopyGrowth(e) \in [entries : Nat, bytes : Nat]
                                /\ UsageCopied(e) \in [entries : Nat, bytes : Nat]
    BY <1>1, MeasuresType
  <2> QED
    BY <1>3, <1>7, <1>8, <2>1
<1>11. EntriesBooked'
  <2>1. PICK k, g, b : /\ k = [e \in UsageCluster |-> UsageOf(e).entries]
                       /\ g = [e \in UsageCluster |-> CopyGrowth(e).entries]
                       /\ b = [e \in UsageCluster |-> UsageCopied(e).entries]
    OBVIOUS
  <2>2. PICK k2, g2, b2 : /\ k2 = [e \in UsageCluster |-> UsageOf(e)'.entries]
                          /\ g2 = [e \in UsageCluster |-> CopyGrowth(e)'.entries]
                          /\ b2 = [e \in UsageCluster |-> UsageCopied(e)'.entries]
    OBVIOUS
  <2>3. Ledger(k, g, b, usageTotal.entries, usageReserved.entries, usageBuilding.entries,
               UsageLimits.totalEntries, UsageLimits.peakEntries)
    BY <2>1 DEF UsageInv, EntriesBooked
  <2>4. k2 = k
    BY <1>6, <2>1, <2>2
  <2>5. /\ g2 \in [UsageCluster -> Nat] /\ b2 \in [UsageCluster -> Nat]
        /\ g2[c] = d.entries /\ b2[c] = n.entries
        /\ g[c] = 0 /\ b[c] = 0
        /\ \A e \in UsageCluster : e # c => g2[e] = g[e] /\ b2[e] = b[e]
    BY <1>7, <1>8, <1>9, <1>10, <2>1, <2>2 DEF NoUsage
  <2>6. /\ UsageLimits.totalEntries \in Nat /\ UsageLimits.peakEntries \in Nat
        /\ d.entries \in Nat /\ n.entries \in Nat
    BY <1>3, UsageAssumption
  <2>7. Ledger(k, g2, b2, usageTotal.entries, usageReserved.entries + d.entries,
               usageBuilding.entries + n.entries,
               UsageLimits.totalEntries, UsageLimits.peakEntries)
    BY <1>4, <2>3, <2>5, <2>6, LedgerAdmits
  <2>8. /\ usageTotal'.entries = usageTotal.entries
        /\ usageReserved'.entries = usageReserved.entries + d.entries
        /\ usageBuilding'.entries = usageBuilding.entries + n.entries
    BY <1>1, <1>4
  <2> QED
    BY <2>2, <2>4, <2>7, <2>8 DEF EntriesBooked
<1>12. BytesBooked'
  <2>1. PICK k, g, b : /\ k = [e \in UsageCluster |-> UsageOf(e).bytes]
                       /\ g = [e \in UsageCluster |-> CopyGrowth(e).bytes]
                       /\ b = [e \in UsageCluster |-> UsageCopied(e).bytes]
    OBVIOUS
  <2>2. PICK k2, g2, b2 : /\ k2 = [e \in UsageCluster |-> UsageOf(e)'.bytes]
                          /\ g2 = [e \in UsageCluster |-> CopyGrowth(e)'.bytes]
                          /\ b2 = [e \in UsageCluster |-> UsageCopied(e)'.bytes]
    OBVIOUS
  <2>3. Ledger(k, g, b, usageTotal.bytes, usageReserved.bytes, usageBuilding.bytes,
               UsageLimits.totalBytes, UsageLimits.peakBytes)
    BY <2>1 DEF UsageInv, BytesBooked
  <2>4. k2 = k
    BY <1>6, <2>1, <2>2
  <2>5. /\ g2 \in [UsageCluster -> Nat] /\ b2 \in [UsageCluster -> Nat]
        /\ g2[c] = d.bytes /\ b2[c] = n.bytes
        /\ g[c] = 0 /\ b[c] = 0
        /\ \A e \in UsageCluster : e # c => g2[e] = g[e] /\ b2[e] = b[e]
    BY <1>7, <1>8, <1>9, <1>10, <2>1, <2>2 DEF NoUsage
  <2>6. /\ UsageLimits.totalBytes \in Nat /\ UsageLimits.peakBytes \in Nat
        /\ d.bytes \in Nat /\ n.bytes \in Nat
    BY <1>3, UsageAssumption
  <2>7. Ledger(k, g2, b2, usageTotal.bytes, usageReserved.bytes + d.bytes,
               usageBuilding.bytes + n.bytes,
               UsageLimits.totalBytes, UsageLimits.peakBytes)
    BY <1>4, <2>3, <2>5, <2>6, LedgerAdmits
  <2>8. /\ usageTotal'.bytes = usageTotal.bytes
        /\ usageReserved'.bytes = usageReserved.bytes + d.bytes
        /\ usageBuilding'.bytes = usageBuilding.bytes + n.bytes
    BY <1>1, <1>4
  <2> QED
    BY <2>2, <2>4, <2>7, <2>8 DEF BytesBooked
<1> QED
  BY <1>5, <1>11, <1>12 DEF UsageInv

LEMMA StoredReadingsStep ==
  ASSUME UsageInv, NEW c \in UsageCluster, UsageStored(c)
  PROVE  UsageInv'
<1>1. PICK v \in usageArriving[c] :
         /\ usageKept' = [usageKept EXCEPT ![c] = v]
         /\ usageTotal' = SumOf(usageTotal, LessOf(UsageCharge(v), UsageCharge(usageKept[c])))
         /\ usageReserved' = LessOf(usageReserved, UsageGrowth(usageKept[c], v))
         /\ usageBuilding' = LessOf(usageBuilding, UsageCharge(v))
  BY DEF UsageStored
<1>2. PICK a, d, n : /\ a = UsageCharge(usageKept[c]) /\ n = UsageCharge(v)
                     /\ d = UsageGrowth(usageKept[c], v)
  OBVIOUS
<1>t. UsageTyped /\ usageArriving' = [usageArriving EXCEPT ![c] = {}]
  BY DEF UsageInv, UsageStored
<1>k. usageKept[c] \in Snapshots /\ v \in Snapshots /\ usageArriving[c] = {v}
  BY <1>1, <1>t DEF UsageTyped
<1>3. /\ a \in [entries : Nat, bytes : Nat] /\ d \in [entries : Nat, bytes : Nat]
      /\ n \in [entries : Nat, bytes : Nat]
      /\ n.entries - a.entries <= d.entries /\ n.bytes - a.bytes <= d.bytes
  BY <1>2, <1>k, ChargeType, GrowthType
<1>4. /\ usageTotal' = [entries |-> usageTotal.entries + (n.entries - a.entries),
                        bytes |-> usageTotal.bytes + (n.bytes - a.bytes)]
      /\ usageReserved' = [entries |-> usageReserved.entries - d.entries,
                           bytes |-> usageReserved.bytes - d.bytes]
      /\ usageBuilding' = [entries |-> usageBuilding.entries - n.entries,
                           bytes |-> usageBuilding.bytes - n.bytes]
  BY <1>1, <1>2 DEF SumOf, LessOf
<1>5. UsageTyped'
  <2>1. \A e \in UsageCluster :
          usageArriving'[e] = {} \/ \E w \in Snapshots : usageArriving'[e] = {w}
    BY <1>t DEF UsageTyped
  <2>2. /\ usageTotal' \in [entries : Int, bytes : Int]
        /\ usageReserved' \in [entries : Int, bytes : Int]
        /\ usageBuilding' \in [entries : Int, bytes : Int]
    BY <1>t, <1>3, <1>4 DEF UsageTyped
  <2> QED
    BY <1>1, <1>t, <1>k, <2>1, <2>2 DEF UsageTyped
<1>6. /\ UsageOf(c) = a /\ UsageCopied(c) = n /\ CopyGrowth(c) = d
  BY <1>2, <1>k, CopyingIs DEF UsageOf
<1>7. UsageOf(c)' = n /\ UsageCopied(c)' = NoUsage /\ CopyGrowth(c)' = NoUsage
  <2>1. usageKept'[c] = v /\ usageArriving'[c] = {}
    BY <1>1, <1>t DEF UsageTyped
  <2> QED
    BY <1>2, <2>1 DEF UsageOf, UsageCopied, CopyGrowth
<1>8. \A e \in UsageCluster : e # c =>
        /\ UsageOf(e)' = UsageOf(e)
        /\ UsageCopied(e)' = UsageCopied(e) /\ CopyGrowth(e)' = CopyGrowth(e)
  BY <1>1, <1>t DEF UsageTyped, UsageOf, UsageCopied, CopyGrowth
<1>9. \A e \in UsageCluster : /\ UsageOf(e)' \in [entries : Nat, bytes : Nat]
                              /\ CopyGrowth(e)' \in [entries : Nat, bytes : Nat]
                              /\ UsageCopied(e)' \in [entries : Nat, bytes : Nat]
  <2>1. \A e \in UsageCluster : /\ UsageOf(e) \in [entries : Nat, bytes : Nat]
                                /\ CopyGrowth(e) \in [entries : Nat, bytes : Nat]
                                /\ UsageCopied(e) \in [entries : Nat, bytes : Nat]
    BY <1>t, MeasuresType
  <2>2. NoUsage \in [entries : Nat, bytes : Nat]
    BY DEF NoUsage
  <2> QED
    BY <1>3, <1>7, <1>8, <2>1, <2>2
<1>10. EntriesBooked'
  <2>1. PICK k, g, b : /\ k = [e \in UsageCluster |-> UsageOf(e).entries]
                       /\ g = [e \in UsageCluster |-> CopyGrowth(e).entries]
                       /\ b = [e \in UsageCluster |-> UsageCopied(e).entries]
    OBVIOUS
  <2>2. PICK k2, g2, b2 : /\ k2 = [e \in UsageCluster |-> UsageOf(e)'.entries]
                          /\ g2 = [e \in UsageCluster |-> CopyGrowth(e)'.entries]
                          /\ b2 = [e \in UsageCluster |-> UsageCopied(e)'.entries]
    OBVIOUS
  <2>3. Ledger(k, g, b, usageTotal.entries, usageReserved.entries, usageBuilding.entries,
               UsageLimits.totalEntries, UsageLimits.peakEntries)
    BY <2>1 DEF UsageInv, EntriesBooked
  <2>4. /\ k2 \in [UsageCluster -> Nat] /\ g2 \in [UsageCluster -> Nat]
        /\ b2 \in [UsageCluster -> Nat]
        /\ k2[c] = n.entries /\ g2[c] = 0 /\ b2[c] = 0
        /\ k[c] = a.entries /\ g[c] = d.entries /\ b[c] = n.entries
        /\ \A e \in UsageCluster : e # c => k2[e] = k[e] /\ g2[e] = g[e] /\ b2[e] = b[e]
    BY <1>6, <1>7, <1>8, <1>9, <2>1, <2>2 DEF NoUsage
  <2>5. /\ UsageLimits.totalEntries \in Nat /\ UsageLimits.peakEntries \in Nat
        /\ a.entries \in Nat /\ d.entries \in Nat /\ n.entries \in Nat
        /\ n.entries - a.entries <= d.entries
    BY <1>3, UsageAssumption
  <2>6. Ledger(k2, g2, b2, usageTotal.entries + (n.entries - a.entries),
               usageReserved.entries - d.entries, usageBuilding.entries - n.entries,
               UsageLimits.totalEntries, UsageLimits.peakEntries)
    <3>1. PICK x, y, z : x = a.entries /\ y = d.entries /\ z = n.entries
      OBVIOUS
    <3>2. PICK tt, rr, uu : /\ tt = usageTotal.entries /\ rr = usageReserved.entries
                            /\ uu = usageBuilding.entries
      OBVIOUS
    <3>3. PICK limit, peak : limit = UsageLimits.totalEntries /\ peak = UsageLimits.peakEntries
      OBVIOUS
    <3>4. /\ limit \in Nat /\ peak \in Nat /\ x \in Nat /\ y \in Nat /\ z \in Nat
          /\ z - x <= y
      BY <2>5, <3>1, <3>3
    <3>5. /\ k2 \in [UsageCluster -> Nat] /\ g2 \in [UsageCluster -> Nat]
          /\ b2 \in [UsageCluster -> Nat]
          /\ k2[c] = z /\ g2[c] = 0 /\ b2[c] = 0
          /\ k[c] = x /\ g[c] = y /\ b[c] = z
          /\ \A e \in UsageCluster : e # c => k2[e] = k[e] /\ g2[e] = g[e] /\ b2[e] = b[e]
      BY <2>4, <3>1
    <3>6. Ledger(k, g, b, tt, rr, uu, limit, peak)
      BY <2>3, <3>2, <3>3
    <3>7. Ledger(k2, g2, b2, tt + (z - x), rr - y, uu - z, limit, peak)
      BY <3>4, <3>5, <3>6, LedgerStores, SMTT(20)
    <3> QED
      BY <3>1, <3>2, <3>3, <3>7
  <2>7. /\ usageTotal'.entries = usageTotal.entries + (n.entries - a.entries)
        /\ usageReserved'.entries = usageReserved.entries - d.entries
        /\ usageBuilding'.entries = usageBuilding.entries - n.entries
    BY <1>4
  <2> QED
    BY <2>2, <2>6, <2>7 DEF EntriesBooked
<1>11. BytesBooked'
  <2>1. PICK k, g, b : /\ k = [e \in UsageCluster |-> UsageOf(e).bytes]
                       /\ g = [e \in UsageCluster |-> CopyGrowth(e).bytes]
                       /\ b = [e \in UsageCluster |-> UsageCopied(e).bytes]
    OBVIOUS
  <2>2. PICK k2, g2, b2 : /\ k2 = [e \in UsageCluster |-> UsageOf(e)'.bytes]
                          /\ g2 = [e \in UsageCluster |-> CopyGrowth(e)'.bytes]
                          /\ b2 = [e \in UsageCluster |-> UsageCopied(e)'.bytes]
    OBVIOUS
  <2>3. Ledger(k, g, b, usageTotal.bytes, usageReserved.bytes, usageBuilding.bytes,
               UsageLimits.totalBytes, UsageLimits.peakBytes)
    BY <2>1 DEF UsageInv, BytesBooked
  <2>4. /\ k2 \in [UsageCluster -> Nat] /\ g2 \in [UsageCluster -> Nat]
        /\ b2 \in [UsageCluster -> Nat]
        /\ k2[c] = n.bytes /\ g2[c] = 0 /\ b2[c] = 0
        /\ k[c] = a.bytes /\ g[c] = d.bytes /\ b[c] = n.bytes
        /\ \A e \in UsageCluster : e # c => k2[e] = k[e] /\ g2[e] = g[e] /\ b2[e] = b[e]
    BY <1>6, <1>7, <1>8, <1>9, <2>1, <2>2 DEF NoUsage
  <2>5. /\ UsageLimits.totalBytes \in Nat /\ UsageLimits.peakBytes \in Nat
        /\ a.bytes \in Nat /\ d.bytes \in Nat /\ n.bytes \in Nat
        /\ n.bytes - a.bytes <= d.bytes
    BY <1>3, UsageAssumption
  <2>6. Ledger(k2, g2, b2, usageTotal.bytes + (n.bytes - a.bytes),
               usageReserved.bytes - d.bytes, usageBuilding.bytes - n.bytes,
               UsageLimits.totalBytes, UsageLimits.peakBytes)
    <3>1. PICK x, y, z : x = a.bytes /\ y = d.bytes /\ z = n.bytes
      OBVIOUS
    <3>2. PICK tt, rr, uu : /\ tt = usageTotal.bytes /\ rr = usageReserved.bytes
                            /\ uu = usageBuilding.bytes
      OBVIOUS
    <3>3. PICK limit, peak : limit = UsageLimits.totalBytes /\ peak = UsageLimits.peakBytes
      OBVIOUS
    <3>4. /\ limit \in Nat /\ peak \in Nat /\ x \in Nat /\ y \in Nat /\ z \in Nat
          /\ z - x <= y
      BY <2>5, <3>1, <3>3
    <3>5. /\ k2 \in [UsageCluster -> Nat] /\ g2 \in [UsageCluster -> Nat]
          /\ b2 \in [UsageCluster -> Nat]
          /\ k2[c] = z /\ g2[c] = 0 /\ b2[c] = 0
          /\ k[c] = x /\ g[c] = y /\ b[c] = z
          /\ \A e \in UsageCluster : e # c => k2[e] = k[e] /\ g2[e] = g[e] /\ b2[e] = b[e]
      BY <2>4, <3>1
    <3>6. Ledger(k, g, b, tt, rr, uu, limit, peak)
      BY <2>3, <3>2, <3>3
    <3>7. Ledger(k2, g2, b2, tt + (z - x), rr - y, uu - z, limit, peak)
      BY <3>4, <3>5, <3>6, LedgerStores, SMTT(20)
    <3> QED
      BY <3>1, <3>2, <3>3, <3>7
  <2>7. /\ usageTotal'.bytes = usageTotal.bytes + (n.bytes - a.bytes)
        /\ usageReserved'.bytes = usageReserved.bytes - d.bytes
        /\ usageBuilding'.bytes = usageBuilding.bytes - n.bytes
    BY <1>4
  <2> QED
    BY <2>2, <2>6, <2>7 DEF BytesBooked
<1> QED
  BY <1>5, <1>10, <1>11 DEF UsageInv

LEMMA UsageStart == UsageStoreInit => UsageInv
<1> SUFFICES ASSUME UsageStoreInit PROVE UsageInv
  OBVIOUS
<1>1. DOMAIN << >> = {} /\ << >> \in Snapshots
  <2>1. << >> \in [{} -> UsageReading]
    OBVIOUS
  <2> QED
    BY <2>1 DEF Snapshots
<1>2. UsageCharge(<< >>) = NoUsage
  <2>1. PICK f : f = [u \in {} |-> UidBytes[u]]
    OBVIOUS
  <2>2. SumFunction(f) = 0 /\ Cardinality({}) = 0
    BY <2>1, TotalEmpty, FS_EmptySet
  <2> QED
    BY <1>1, <2>1, <2>2 DEF UsageCharge, NoUsage
<1>3. UsageTyped
  BY <1>1 DEF UsageStoreInit, UsageTyped, NoUsage
<1>4. \A c \in UsageCluster :
        UsageOf(c) = NoUsage /\ CopyGrowth(c) = NoUsage /\ UsageCopied(c) = NoUsage
  BY <1>2 DEF UsageStoreInit, UsageOf, CopyGrowth, UsageCopied
<1>5. PICK z : z = [c \in UsageCluster |-> 0]
  OBVIOUS
<1>6. SumFunction(z) = 0
  BY <1>5, TotalZero, UsageAssumption
<1>7. z \in [UsageCluster -> Nat]
  BY <1>5
<1>8. /\ UsageLimits.totalEntries \in Nat /\ UsageLimits.peakEntries \in Nat
      /\ UsageLimits.totalBytes \in Nat /\ UsageLimits.peakBytes \in Nat
  BY UsageAssumption
<1>9. \A limit \in Nat : \A peak \in Nat : Ledger(z, z, z, 0, 0, 0, limit, peak)
  BY <1>6, <1>7 DEF Ledger
<1>10. /\ [c \in UsageCluster |-> UsageOf(c).entries] = z
       /\ [c \in UsageCluster |-> CopyGrowth(c).entries] = z
       /\ [c \in UsageCluster |-> UsageCopied(c).entries] = z
       /\ usageTotal.entries = 0 /\ usageReserved.entries = 0 /\ usageBuilding.entries = 0
  BY <1>4, <1>5 DEF NoUsage, UsageStoreInit
<1>11. /\ [c \in UsageCluster |-> UsageOf(c).bytes] = z
       /\ [c \in UsageCluster |-> CopyGrowth(c).bytes] = z
       /\ [c \in UsageCluster |-> UsageCopied(c).bytes] = z
       /\ usageTotal.bytes = 0 /\ usageReserved.bytes = 0 /\ usageBuilding.bytes = 0
  BY <1>4, <1>5 DEF NoUsage, UsageStoreInit
<1>12. EntriesBooked /\ BytesBooked
  BY <1>8, <1>9, <1>10, <1>11 DEF EntriesBooked, BytesBooked
<1> QED
  BY <1>3, <1>12 DEF UsageInv

LEMMA UsageStep == UsageInv /\ [UsageStoreNext]_usageVars => UsageInv'
<1> SUFFICES ASSUME UsageInv, [UsageStoreNext]_usageVars PROVE UsageInv'
  OBVIOUS
<1>1. CASE UsageStoreNext
  BY <1>1, AdmittedStep, StoredReadingsStep DEF UsageStoreNext
<1>2. CASE UNCHANGED usageVars
  <2>1. /\ usageKept' = usageKept /\ usageArriving' = usageArriving /\ usageTotal' = usageTotal
        /\ usageReserved' = usageReserved /\ usageBuilding' = usageBuilding
    BY <1>2 DEF usageVars
  <2> QED
    BY <2>1 DEF UsageInv, UsageTyped, EntriesBooked, BytesBooked, UsageOf, CopyGrowth, UsageCopied
<1> QED
  BY <1>1, <1>2

\* The totals of the store are what it keeps, and neither what it keeps nor what
\* it keeps and copies passes the limits.  (UsageStore.Update.)
LEMMA UsageHolds == UsageStoreSpec => []UsageIsAccounted
<1>1. UsageInv => UsageIsAccounted
  <2> SUFFICES ASSUME UsageInv PROVE UsageIsAccounted
    OBVIOUS
  <2>1. PICK ke, ge, be : /\ ke = [c \in UsageCluster |-> UsageOf(c).entries]
                          /\ ge = [c \in UsageCluster |-> CopyGrowth(c).entries]
                          /\ be = [c \in UsageCluster |-> UsageCopied(c).entries]
    OBVIOUS
  <2>2. PICK kb, gb, bb : /\ kb = [c \in UsageCluster |-> UsageOf(c).bytes]
                          /\ gb = [c \in UsageCluster |-> CopyGrowth(c).bytes]
                          /\ bb = [c \in UsageCluster |-> UsageCopied(c).bytes]
    OBVIOUS
  <2>3. /\ Ledger(ke, ge, be, usageTotal.entries, usageReserved.entries, usageBuilding.entries,
                  UsageLimits.totalEntries, UsageLimits.peakEntries)
        /\ Ledger(kb, gb, bb, usageTotal.bytes, usageReserved.bytes, usageBuilding.bytes,
                  UsageLimits.totalBytes, UsageLimits.peakBytes)
    BY <2>1, <2>2 DEF UsageInv, EntriesBooked, BytesBooked
  <2>4. /\ UsageInUse = [entries |-> SumFunction(ke), bytes |-> SumFunction(kb)]
        /\ UsageInCopy = [entries |-> SumFunction(be), bytes |-> SumFunction(bb)]
    BY <2>1, <2>2 DEF UsageInUse, UsageInCopy
  <2>5. /\ SumFunction(ke) \in Nat /\ SumFunction(kb) \in Nat
        /\ SumFunction(ge) \in Nat /\ SumFunction(gb) \in Nat
    BY <2>3, LedgerTypes DEF Ledger
  <2>6. /\ usageTotal = [entries |-> SumFunction(ke), bytes |-> SumFunction(kb)]
    BY <2>3 DEF Ledger, UsageInv, UsageTyped
  <2>7. /\ SumFunction(ke) <= UsageLimits.totalEntries /\ SumFunction(kb) <= UsageLimits.totalBytes
        /\ SumFunction(ke) + SumFunction(be) <= UsageLimits.peakEntries
        /\ SumFunction(kb) + SumFunction(bb) <= UsageLimits.peakBytes
    BY <2>3, <2>5, UsageAssumption DEF Ledger
  <2> QED
    BY <2>4, <2>6, <2>7 DEF UsageIsAccounted, UsageWithin, SumOf
<1> QED
  BY <1>1, UsageStart, UsageStep, PTL DEF UsageStoreSpec

-----------------------------------------------------------------------------
(* The memory of the query cache *)

ThinStep(kept, seq, live, n) ==
    IF n = 0 THEN << >>
    ELSE IF seq[n] \in live THEN Append(kept[n - 1], seq[n]) ELSE kept[n - 1]

\* The loop over the list has a result.
LEMMA ThinIsDefined ==
  ASSUME NEW seq, NEW live, NEW m \in Nat
  PROVE  \E kept : kept = [n \in 0 .. m |-> ThinStep(kept, seq, live, n)]
<1> DEFINE P == {k \in Nat : \E kept : kept = [n \in 0 .. k |-> ThinStep(kept, seq, live, n)]}
<1>1. 0 \in P
  <2>1. PICK f : f = [n \in 0 .. 0 |-> << >>]
    OBVIOUS
  <2>2. f = [n \in 0 .. 0 |-> ThinStep(f, seq, live, n)]
    BY <2>1 DEF ThinStep
  <2> QED
    BY <2>2
<1>2. ASSUME NEW k \in Nat, k \in P PROVE k + 1 \in P
  <2>1. PICK f : f = [n \in 0 .. k |-> ThinStep(f, seq, live, n)]
    BY <1>2
  <2>2. PICK e : e = IF seq[k + 1] \in live THEN Append(f[k], seq[k + 1]) ELSE f[k]
    OBVIOUS
  <2>3. PICK g : g = [n \in 0 .. (k + 1) |-> IF n = k + 1 THEN e ELSE f[n]]
    OBVIOUS
  <2>4. \A n \in 0 .. k : g[n] = f[n]
    BY <2>3
  <2>5. ASSUME NEW n \in 0 .. (k + 1) PROVE g[n] = ThinStep(g, seq, live, n)
    <3>1. CASE n = k + 1
      <4>1. g[k] = f[k] /\ g[n] = e /\ n - 1 = k /\ n # 0
        BY <2>3, <2>4, <3>1
      <4> QED
        BY <4>1, <2>2, <3>1 DEF ThinStep
    <3>2. CASE n = 0
      BY <3>2, <2>1, <2>4 DEF ThinStep
    <3>3. CASE n # 0 /\ n # k + 1
      <4>1. n \in 0 .. k /\ n - 1 \in 0 .. k
        BY <3>3
      <4>2. g[n] = f[n] /\ g[n - 1] = f[n - 1] /\ f[n] = ThinStep(f, seq, live, n)
        BY <4>1, <2>1, <2>4
      <4> QED
        BY <4>2 DEF ThinStep
    <3> QED
      BY <3>1, <3>2, <3>3
  <2>6. g = [n \in 0 .. (k + 1) |-> ThinStep(g, seq, live, n)]
    BY <2>3, <2>5
  <2> QED
    BY <2>6
<1> HIDE DEF P
<1>3. m \in P
  BY <1>1, <1>2, Counting
<1> QED
  BY <1>3 DEF P

\* A list without duplicates of what is in a set.
ListOf(seq, set) ==
    /\ seq \in Seq(CacheKey)
    /\ \A i \in 1 .. Len(seq) : \A j \in 1 .. Len(seq) : seq[i] = seq[j] => i = j
    /\ \A k : k \in set <=> \E i \in 1 .. Len(seq) : seq[i] = k

LEMMA ThinnedIs ==
  ASSUME NEW seq, NEW set, ListOf(seq, set), NEW live
  PROVE  ListOf(Thinned(seq, live), set \cap live)
<1>1. seq \in Seq(CacheKey) /\ Len(seq) \in Nat
  BY DEF ListOf
<1>2. PICK kept : kept = [n \in 0 .. Len(seq) |-> ThinStep(kept, seq, live, n)]
  BY <1>1, ThinIsDefined
<1>3. PICK loop : /\ loop = [n \in 0 .. Len(seq) |-> ThinStep(loop, seq, live, n)]
                  /\ Thinned(seq, live) = loop[Len(seq)]
  BY <1>2 DEF Thinned, ThinStep
<1> DEFINE FirstKeys(n) == {seq[i] : i \in 1 .. n} \cap live
           P == {n \in Nat : n <= Len(seq) => ListOf(loop[n], FirstKeys(n))}
<1>4. 0 \in P
  <2>1. loop[0] = << >>
    BY <1>1, <1>3 DEF ThinStep
  <2>2. ListOf(<< >>, {})
    BY DEF ListOf
  <2>3. FirstKeys(0) = {}
    OBVIOUS
  <2> HIDE DEF FirstKeys
  <2> QED
    BY <2>1, <2>2, <2>3
<1>5. ASSUME NEW n \in Nat, n \in P PROVE n + 1 \in P
  <2> SUFFICES ASSUME n + 1 <= Len(seq) PROVE ListOf(loop[n + 1], FirstKeys(n + 1))
    OBVIOUS
  <2>1. PICK s, x : s = loop[n] /\ x = seq[n + 1]
    OBVIOUS
  <2>2. n <= Len(seq) /\ n + 1 \in 1 .. Len(seq) /\ x \in CacheKey
    BY <1>1, <2>1
  <2>3. ListOf(s, FirstKeys(n))
    BY <1>5, <2>1, <2>2
  <2>4. s \in Seq(CacheKey)
    BY <2>3 DEF ListOf
  <2>5. loop[n + 1] = IF x \in live THEN Append(s, x) ELSE s
    <3>1. PICK k : k = n + 1
      OBVIOUS
    <3>2. k \in 0 .. Len(seq) /\ k # 0 /\ k - 1 = n
      BY <1>1, <2>2, <3>1
    <3>3. loop[k] = ThinStep(loop, seq, live, k)
      BY <1>3, <3>2
    <3> QED
      BY <2>1, <3>1, <3>2, <3>3 DEF ThinStep
  <2>6. x \notin FirstKeys(n)
    BY <2>1, <2>2 DEF ListOf
  <2>7. FirstKeys(n + 1) = IF x \in live THEN FirstKeys(n) \cup {x} ELSE FirstKeys(n)
    <3>1. 1 .. (n + 1) = (1 .. n) \cup {n + 1}
      OBVIOUS
    <3> QED
      BY <2>1, <3>1
  <2>8. CASE x \in live
    <3> HIDE DEF FirstKeys
    <3>1. PICK u : u = FirstKeys(n)
      OBVIOUS
    <3>2. PICK t : t = Append(s, x)
      OBVIOUS
    <3>3. /\ Len(s) \in Nat /\ t \in Seq(CacheKey) /\ Len(t) = Len(s) + 1
          /\ t[Len(s) + 1] = x
          /\ \A i \in 1 .. Len(s) : t[i] = s[i]
      BY <2>2, <2>4, <3>2
    <3>4. /\ \A i \in 1 .. Len(s) : \A j \in 1 .. Len(s) : s[i] = s[j] => i = j
          /\ \A k : k \in u <=> \E i \in 1 .. Len(s) : s[i] = k
          /\ x \notin u
      BY <2>3, <2>6, <3>1 DEF ListOf
    <3>5. \A i \in 1 .. Len(t) : \A j \in 1 .. Len(t) : t[i] = t[j] => i = j
      BY <3>3, <3>4
    <3>6. ASSUME NEW k PROVE k \in u \cup {x} <=> \E i \in 1 .. Len(t) : t[i] = k
      BY <3>3, <3>4
    <3>7. ListOf(t, u \cup {x})
      BY <3>3, <3>5, <3>6 DEF ListOf
    <3> QED
      BY <2>5, <2>7, <2>8, <3>1, <3>2, <3>7
  <2>9. CASE x \notin live
    <3> HIDE DEF FirstKeys
    <3> QED
      BY <2>3, <2>5, <2>7, <2>9
  <2> QED
    BY <2>8, <2>9
<1>6. FirstKeys(Len(seq)) = set \cap live
  BY DEF ListOf
<1> HIDE DEF P, FirstKeys
<1>7. Len(seq) \in P
  BY <1>1, <1>4, <1>5, Counting
<1>8. ListOf(loop[Len(seq)], FirstKeys(Len(seq)))
  BY <1>1, <1>7 DEF P
<1> QED
  BY <1>3, <1>6, <1>8

\* The front of a list without duplicates, and how many it has.
LEMMA ListCounts ==
  ASSUME NEW seq, NEW set, ListOf(seq, set)
  PROVE  IsFiniteSet(set) /\ Cardinality(set) = Len(seq) /\ set \subseteq CacheKey
<1>1. seq \in Seq(CacheKey) /\ Len(seq) \in Nat /\ DOMAIN seq = 1 .. Len(seq)
  BY DEF ListOf
<1>2. set \subseteq CacheKey
  BY <1>1 DEF ListOf
<1>3. seq \in [1 .. Len(seq) -> set]
  BY <1>1 DEF ListOf
<1>4. seq \in Bijection(1 .. Len(seq), set)
  BY <1>3 DEF ListOf, Bijection, Injection, Surjection, IsInjective
<1>5. ExistsBijection(1 .. Len(seq), set)
  BY <1>4 DEF ExistsBijection
<1>6. Cardinality(set) = Len(seq)
  BY <1>1, <1>5, FS_CountingElements
<1>7. IsFiniteSet(1 .. Len(seq))
  BY <1>1, FS_Interval
<1> QED
  BY <1>2, <1>5, <1>6, <1>7, FS_Bijection

\* A key comes to the front, a new one or one that was further back.
LEMMA InFront ==
  ASSUME NEW seq, NEW set, ListOf(seq, set), NEW k \in CacheKey, k \notin set
  PROVE  ListOf(<<k>> \o seq, set \cup {k})
<1>1. PICK t : t = <<k>> \o seq
  OBVIOUS
<1>2. seq \in Seq(CacheKey) /\ Len(seq) \in Nat
  BY DEF ListOf
<1>3. /\ t \in Seq(CacheKey) /\ Len(t) = Len(seq) + 1 /\ t[1] = k
      /\ \A i \in 2 .. Len(t) : t[i] = seq[i - 1] /\ i - 1 \in 1 .. Len(seq)
      /\ \A i \in 1 .. Len(seq) : t[i + 1] = seq[i] /\ i + 1 \in 2 .. Len(t)
  BY <1>1, <1>2
<1>4. /\ \A i \in 1 .. Len(seq) : \A j \in 1 .. Len(seq) : seq[i] = seq[j] => i = j
      /\ \A x : x \in set <=> \E i \in 1 .. Len(seq) : seq[i] = x
  BY DEF ListOf
<1>5. ASSUME NEW i \in 1 .. Len(t), NEW j \in 1 .. Len(t), t[i] = t[j] PROVE i = j
  <2>1. CASE i = 1 /\ j = 1
    BY <2>1
  <2>2. CASE i = 1 /\ j # 1
    <3>1. j \in 2 .. Len(t)
      BY <1>2, <1>3, <2>2
    <3> QED
      BY <1>3, <1>4, <1>5, <2>2, <3>1
  <2>3. CASE i # 1 /\ j = 1
    <3>1. i \in 2 .. Len(t)
      BY <1>2, <1>3, <2>3
    <3> QED
      BY <1>3, <1>4, <1>5, <2>3, <3>1
  <2>4. CASE i # 1 /\ j # 1
    <3>1. i \in 2 .. Len(t) /\ j \in 2 .. Len(t)
      BY <1>2, <1>3, <2>4
    <3>2. i - 1 = j - 1
      BY <1>3, <1>4, <1>5, <3>1
    <3> QED
      BY <3>1, <3>2
  <2> QED
    BY <2>1, <2>2, <2>3, <2>4
<1>6. ASSUME NEW x PROVE x \in set \cup {k} <=> \E i \in 1 .. Len(t) : t[i] = x
  <2>1. ASSUME x \in set PROVE \E i \in 1 .. Len(t) : t[i] = x
    <3>1. PICK i \in 1 .. Len(seq) : seq[i] = x
      BY <1>4, <2>1
    <3>2. t[i + 1] = x /\ i + 1 \in 1 .. Len(t)
      BY <1>2, <1>3, <3>1
    <3> QED
      BY <3>2
  <2>2. ASSUME x = k PROVE \E i \in 1 .. Len(t) : t[i] = x
    BY <1>2, <1>3, <2>2
  <2>3. ASSUME NEW i \in 1 .. Len(t), t[i] = x PROVE x \in set \cup {k}
    <3>1. CASE i = 1
      BY <1>3, <2>3, <3>1
    <3>2. CASE i # 1
      <4>1. i \in 2 .. Len(t)
        BY <1>2, <1>3, <3>2
      <4> QED
        BY <1>3, <1>4, <2>3, <4>1
    <3> QED
      BY <3>1, <3>2
  <2> QED
    BY <2>1, <2>2, <2>3
<1>7. ListOf(t, set \cup {k})
  BY <1>3, <1>5, <1>6 DEF ListOf
<1> QED
  BY <1>1, <1>7

LEMMA ToFrontKeeps ==
  ASSUME NEW seq, NEW set, ListOf(seq, set), NEW k \in set
  PROVE  ListOf(ToFront(seq, k), set)
<1>1. ToSet(seq) = set
  BY DEF ListOf, ToSet
<1>2. PICK r : r = set \cap (set \ {k})
  OBVIOUS
<1>3. ListOf(Thinned(seq, set \ {k}), r)
  BY <1>2, ThinnedIs
<1>4. k \in CacheKey /\ k \notin r /\ r \cup {k} = set
  BY <1>2, ListCounts
<1>5. ListOf(<<k>> \o Thinned(seq, set \ {k}), r \cup {k})
  BY <1>3, <1>4, InFront
<1> QED
  BY <1>1, <1>4, <1>5 DEF ToFront

\* List, entries and count belong together.
Sound(its, seq, bytes) ==
    /\ ListOf(seq, DOMAIN its)
    /\ \A k \in DOMAIN its : its[k].size \in Nat
    /\ bytes = SumFunction(Sizes(its))

LEMMA SizesTotal ==
  ASSUME NEW its, IsFiniteSet(DOMAIN its), \A k \in DOMAIN its : its[k].size \in Nat
  PROVE  /\ SumFunction(Sizes(its)) \in Nat
         /\ DOMAIN Sizes(its) = DOMAIN its
         /\ \A k \in DOMAIN its : Sizes(its)[k] = its[k].size
<1>1. PICK f : f = Sizes(its)
  OBVIOUS
<1>2. DOMAIN f = DOMAIN its /\ \A k \in DOMAIN its : f[k] = its[k].size
  BY <1>1 DEF Sizes
<1>3. \A k \in DOMAIN f : f[k] \in Nat
  BY <1>2
<1>4. SumFunction(f) \in Nat
  BY <1>2, <1>3, TotalNat
<1> QED
  BY <1>1, <1>2, <1>4

LEMMA CutKeeps ==
  ASSUME NEW its, NEW seq, NEW bytes, Sound(its, seq, bytes), NEW live \in SUBSET DOMAIN its
  PROVE  LET d == Cut(Memory(its, seq, bytes), live)
         IN  /\ Sound(d.items, d.order, d.bytes)
             /\ DOMAIN d.items = live
             /\ Len(d.order) = Cardinality(live)
             /\ d.bytes <= bytes
<1>1. PICK new, line : new = [k \in live |-> its[k]] /\ line = Thinned(seq, live)
  OBVIOUS
<1>2. PICK f : f = Sizes(its)
  OBVIOUS
<1>3. IsFiniteSet(DOMAIN its)
  BY ListCounts DEF Sound
<1>4. PICK D, dead : D = DOMAIN its /\ dead = D \ live
  OBVIOUS
<1>5. /\ DOMAIN f = D /\ \A k \in D : f[k] = its[k].size /\ f[k] \in Nat
      /\ bytes = SumFunctionOnSet(f, D)
  BY <1>2, <1>3, <1>4, SizesTotal DEF Sound, SumFunction
<1>6. Cut(Memory(its, seq, bytes), live) =
        [items |-> new, order |-> line, bytes |-> bytes - SumFunctionOnSet(f, dead)]
  BY <1>1, <1>2, <1>4 DEF Cut, Memory
<1>7. ListOf(line, DOMAIN new)
  <2>1. DOMAIN new = live /\ live = D \cap live
    BY <1>1, <1>4
  <2>2. ListOf(line, D \cap live)
    BY <1>1, <1>4, ThinnedIs DEF Sound
  <2> QED
    BY <2>1, <2>2
<1>8. PICK g : g = Sizes(new)
  OBVIOUS
<1>9. /\ DOMAIN new = live /\ DOMAIN g = live /\ live \subseteq D
      /\ \A k \in live : new[k].size \in Nat /\ g[k] = f[k]
  BY <1>1, <1>4, <1>5, <1>8 DEF Sizes, Sound
<1>10. IsFiniteSet(live) /\ IsFiniteSet(dead)
  BY <1>3, <1>4, FS_Subset
<1>11. SumFunctionOnSet(g, live) = SumFunctionOnSet(f, live)
  BY <1>9, <1>10, SumSame
<1>12. SumFunctionOnSet(f, D) = SumFunctionOnSet(f, D \ dead) + SumFunctionOnSet(f, dead)
  <2>1. dead \in SUBSET D /\ IsFiniteSet(D) /\ \A k \in D : f[k] \in Int
    BY <1>3, <1>4, <1>5
  <2> QED
    BY <2>1, SumApart
<1>13. D \ dead = live
  BY <1>4, <1>9
<1>14. SumFunctionOnSet(f, dead) \in Nat
  <2>1. \A k \in dead : f[k] \in Nat
    BY <1>4, <1>5
  <2> QED
    BY <1>10, <2>1, SumNat
<1>15. SumFunctionOnSet(f, live) \in Nat
  <2>1. SumFunction(g) \in Nat
    BY <1>8, <1>9, <1>10, SizesTotal
  <2> QED
    BY <1>9, <1>11, <2>1 DEF SumFunction
<1>16. bytes - SumFunctionOnSet(f, dead) = SumFunction(g) /\ SumFunction(g) <= bytes
  <2>1. PICK x, y : x = SumFunctionOnSet(f, live) /\ y = SumFunctionOnSet(f, dead)
    OBVIOUS
  <2>2. x \in Nat /\ y \in Nat
    BY <1>14, <1>15, <2>1
  <2>3. bytes = x + y
    BY <1>5, <1>12, <1>13, <2>1
  <2>4. SumFunction(g) = x
    BY <1>9, <1>11, <2>1 DEF SumFunction
  <2> QED
    BY <2>1, <2>2, <2>3, <2>4
<1>17. Len(line) = Cardinality(live)
  BY <1>7, <1>9, ListCounts
<1>18. Sound(new, line, bytes - SumFunctionOnSet(f, dead))
  BY <1>7, <1>8, <1>9, <1>16 DEF Sound
<1> QED
  BY <1>6, <1>9, <1>16, <1>17, <1>18

\* The largest of some numbers up to m.
LEMMA Largest ==
  ASSUME NEW m \in Nat, NEW S \in SUBSET (0 .. m), S # {}
  PROVE  Max(S) \in S
<1>1. PICK T : T = {m - s : s \in S}
  OBVIOUS
<1>2. T \subseteq Nat /\ T # {}
  <2>1. PICK s \in S : TRUE
    OBVIOUS
  <2>2. m - s \in T
    BY <1>1, <2>1
  <2>3. \A y \in 0 .. m : m - y \in Nat
    OBVIOUS
  <2> QED
    BY <1>1, <2>2, <2>3
<1>3. PICK t \in T : \A u \in T : <<u, t>> \notin OpToRel(<, Nat)
  BY <1>2, WFMin, NatLessThanWellFounded, Zenon
<1>4. \A u \in T : ~(u < t)
  BY <1>2, <1>3, Zenon DEF OpToRel
<1>5. PICK s \in S : t = m - s
  BY <1>1
<1>6. \A y \in S : s >= y
  <2> TAKE y \in S
  <2>1. m - y \in T /\ m - y \in Nat /\ s \in Nat /\ y \in Nat
    BY <1>1
  <2>2. ~(m - y < m - s)
    BY <1>4, <1>5, <2>1
  <2> QED
    BY <2>1, <2>2
<1>7. \E x \in S : \A y \in S : x >= y
  BY <1>6
<1> QED
  BY <1>7 DEF Max

\* Eviction leaves a part that is within the limits.
LEMMA EvictLeaves ==
  ASSUME NEW its, NEW seq, NEW bytes, Sound(its, seq, bytes), NEW limit \in Nat
  PROVE  \E live \in SUBSET DOMAIN its :
           /\ Evict(Memory(its, seq, bytes), limit) = Cut(Memory(its, seq, bytes), live)
           /\ InLimits(Cut(Memory(its, seq, bytes), live), limit)
<1>1. PICK c : c = Memory(its, seq, bytes)
  OBVIOUS
<1>2. c.order = seq /\ c.items = its /\ c.bytes = bytes
  BY <1>1 DEF Memory
<1>3. Len(seq) \in Nat /\ \A i \in 1 .. Len(seq) : seq[i] \in DOMAIN its
  BY DEF Sound, ListOf
<1>4. \A n \in 0 .. Len(seq) : Recent(c, n) \in SUBSET DOMAIN its
  BY <1>2, <1>3 DEF Recent
<1>5. PICK fitting : fitting = {n \in 0 .. Len(seq) : InLimits(Cut(c, Recent(c, n)), limit)}
  OBVIOUS
<1>6. Evict(c, limit) = Cut(c, Recent(c, Max({0} \cup fitting)))
  BY <1>2, <1>5 DEF Evict
<1>7. 0 \in fitting
  <2>1. Recent(c, 0) = {}
    BY DEF Recent
  <2>2. PICK d : d = Cut(c, {})
    OBVIOUS
  <2>3. Sound(d.items, d.order, d.bytes) /\ DOMAIN d.items = {}
    BY <1>1, <2>2, CutKeeps
  <2>4. PICK f : f = Sizes(d.items)
    OBVIOUS
  <2>5. DOMAIN f = {}
    BY <2>3, <2>4 DEF Sizes
  <2>6. d.bytes = 0
    BY <2>3, <2>4, <2>5, TotalEmpty DEF Sound
  <2>7. Cardinality(DOMAIN d.items) = 0
    BY <2>3, FS_EmptySet
  <2>8. InLimits(d, limit)
    BY <2>6, <2>7, LocalCacheAssumption DEF InLimits
  <2>9. Cut(c, Recent(c, 0)) = d
    BY <2>1, <2>2
  <2>10. InLimits(Cut(c, Recent(c, 0)), limit) /\ 0 \in 0 .. Len(seq)
    BY <1>3, <2>8, <2>9
  <2> QED
    BY <1>5, <2>10
<1>8. {0} \cup fitting = fitting /\ fitting \in SUBSET (0 .. Len(seq)) /\ fitting # {}
  BY <1>5, <1>7
<1>9. PICK n : n = Max(fitting)
  OBVIOUS
<1>10. n \in fitting
  BY <1>3, <1>8, <1>9, Largest
<1>11. n \in 0 .. Len(seq) /\ InLimits(Cut(c, Recent(c, n)), limit)
  BY <1>5, <1>10
<1>12. Evict(c, limit) = Cut(c, Recent(c, n))
  BY <1>6, <1>8, <1>9
<1> QED
  BY <1>1, <1>4, <1>11, <1>12

\* The counter is what the entries hold and both limits are met.
MemInv ==
    /\ Sound(items, order, localBytes)
    /\ localBytes <= MaxLocalBytes
    /\ Len(order) <= MaxEntries

LEMMA MemoryTypes ==
  ASSUME Sound(items, order, localBytes)
  PROVE  /\ localBytes \in Nat /\ IsFiniteSet(Stored) /\ Stored \subseteq CacheKey
         /\ Cardinality(Stored) = Len(order) /\ Len(order) \in Nat
BY ListCounts, SizesTotal DEF Sound, Stored, ListOf

\* Removal of all but some of the entries.
LEMMA CutStep ==
  ASSUME MemInv, NEW live \in SUBSET Stored, Become(Cut(Now, live))
  PROVE  MemInv'
<1>1. PICK d : d = Cut(Memory(items, order, localBytes), live)
  OBVIOUS
<1>2. /\ Sound(d.items, d.order, d.bytes)
      /\ Len(d.order) = Cardinality(live) /\ d.bytes <= localBytes
  BY <1>1, CutKeeps DEF MemInv, Stored
<1>3. items' = d.items /\ order' = d.order /\ localBytes' = d.bytes
  BY <1>1 DEF Become, Now
<1>4. /\ localBytes \in Nat /\ Cardinality(live) <= Cardinality(Stored)
      /\ Cardinality(Stored) = Len(order) /\ Len(order) \in Nat
      /\ Cardinality(live) \in Nat
  BY MemoryTypes, FS_Subset, FS_CardinalityType DEF MemInv
<1>5. Sound(d.items, d.order, d.bytes) => d.bytes \in Nat
  BY ListCounts, SizesTotal DEF Sound
<1>6. Sound(items, order, localBytes)'
  BY <1>2, <1>3
<1> QED
  BY <1>2, <1>3, <1>4, <1>5, <1>6, LocalCacheAssumption DEF MemInv

\* A value is put in front, then entries are evicted.
LEMMA PutStep ==
  ASSUME NEW its, NEW seq, NEW bytes, Sound(its, seq, bytes),
         NEW limit \in Nat, limit <= MaxEntries,
         Become(Evict(Memory(its, seq, bytes), limit))
  PROVE  MemInv'
<1>1. PICK live \in SUBSET DOMAIN its :
        /\ Evict(Memory(its, seq, bytes), limit) = Cut(Memory(its, seq, bytes), live)
        /\ InLimits(Cut(Memory(its, seq, bytes), live), limit)
  BY EvictLeaves
<1>2. PICK d : d = Cut(Memory(its, seq, bytes), live)
  OBVIOUS
<1>3. /\ Sound(d.items, d.order, d.bytes) /\ DOMAIN d.items = live
      /\ Len(d.order) = Cardinality(live)
  BY <1>2, CutKeeps
<1>4. items' = d.items /\ order' = d.order /\ localBytes' = d.bytes
  BY <1>1, <1>2 DEF Become
<1>5. Cardinality(live) <= limit /\ d.bytes <= MaxLocalBytes
  BY <1>1, <1>2, <1>3 DEF InLimits
<1>6. Cardinality(live) \in Nat
  BY <1>3, ListCounts, FS_CardinalityType DEF Sound
<1>7. Sound(items, order, localBytes)'
  BY <1>3, <1>4
<1> QED
  BY <1>3, <1>4, <1>5, <1>6, <1>7, LocalCacheAssumption DEF MemInv

LEMMA UpdatedSound ==
  ASSUME MemInv, NEW k \in Stored, NEW s \in Size, NEW l \in Life
  PROVE  Sound([items EXCEPT ![k] = Entry(s, l)], ToFront(order, k),
               localBytes + s - items[k].size)
<1>1. PICK its : its = [items EXCEPT ![k] = Entry(s, l)]
  OBVIOUS
<1>2. s \in Nat /\ Entry(s, l).size = s
  BY LocalCacheAssumption DEF Entry
<1>3. /\ DOMAIN its = DOMAIN items /\ k \in DOMAIN items
      /\ its[k].size = s
      /\ \A x \in DOMAIN items \ {k} : its[x] = items[x]
  BY <1>1, <1>2 DEF Stored
<1>4. /\ IsFiniteSet(DOMAIN items) /\ \A x \in DOMAIN items : items[x].size \in Nat
      /\ localBytes = SumFunction(Sizes(items)) /\ localBytes \in Nat
  BY MemoryTypes DEF MemInv, Sound, Stored
<1>5. PICK f, g : f = Sizes(items) /\ g = Sizes(its)
  OBVIOUS
<1>6. /\ DOMAIN f = DOMAIN items /\ \A x \in DOMAIN items : f[x] = items[x].size
      /\ DOMAIN g = DOMAIN items /\ \A x \in DOMAIN items : g[x] = its[x].size
  BY <1>3, <1>5 DEF Sizes
<1>7. /\ DOMAIN g = DOMAIN f /\ k \in DOMAIN f /\ IsFiniteSet(DOMAIN f)
      /\ \A x \in DOMAIN f : f[x] \in Int
      /\ g[k] \in Int /\ \A x \in DOMAIN f \ {k} : g[x] = f[x]
  BY <1>2, <1>3, <1>4, <1>6
<1>8. SumFunction(g) = SumFunction(f) - f[k] + g[k]
  BY <1>7, TotalChange
<1>9. f[k] = items[k].size /\ g[k] = s /\ f[k] \in Nat
  BY <1>3, <1>4, <1>6
<1>10. localBytes + s - items[k].size = SumFunction(g)
  BY <1>2, <1>4, <1>5, <1>8, <1>9
<1>11. ListOf(ToFront(order, k), DOMAIN its)
  BY <1>3, ToFrontKeeps DEF MemInv, Sound
<1>12. \A x \in DOMAIN its : its[x].size \in Nat
  BY <1>2, <1>3, <1>4
<1> QED
  BY <1>1, <1>5, <1>10, <1>11, <1>12 DEF Sound

LEMMA InsertedSound ==
  ASSUME MemInv, NEW k \in CacheKey, k \notin Stored, NEW s \in Size, NEW l \in Life
  PROVE  Sound([x \in Stored \cup {k} |-> IF x = k THEN Entry(s, l) ELSE items[x]],
               <<k>> \o order, localBytes + s)
<1>1. PICK its : its = [x \in Stored \cup {k} |-> IF x = k THEN Entry(s, l) ELSE items[x]]
  OBVIOUS
<1>2. s \in Nat /\ Entry(s, l).size = s
  BY LocalCacheAssumption DEF Entry
<1>3. /\ DOMAIN its = DOMAIN items \cup {k} /\ k \notin DOMAIN items
      /\ its[k].size = s
      /\ \A x \in DOMAIN items : its[x] = items[x]
  BY <1>1, <1>2 DEF Stored
<1>4. /\ IsFiniteSet(DOMAIN items) /\ \A x \in DOMAIN items : items[x].size \in Nat
      /\ localBytes = SumFunction(Sizes(items)) /\ localBytes \in Nat
  BY MemoryTypes DEF MemInv, Sound, Stored
<1>5. PICK f, g : f = Sizes(items) /\ g = Sizes(its)
  OBVIOUS
<1>6. /\ DOMAIN f = DOMAIN items /\ \A x \in DOMAIN items : f[x] = items[x].size
      /\ DOMAIN g = DOMAIN items \cup {k}
      /\ \A x \in DOMAIN items \cup {k} : g[x] = its[x].size
  BY <1>3, <1>5 DEF Sizes
<1>7. /\ k \notin DOMAIN f /\ DOMAIN g = DOMAIN f \cup {k} /\ IsFiniteSet(DOMAIN f)
      /\ \A x \in DOMAIN f : f[x] \in Int
      /\ g[k] \in Int /\ \A x \in DOMAIN f : g[x] = f[x]
  BY <1>2, <1>3, <1>4, <1>6
<1>8. SumFunction(g) = SumFunction(f) + g[k]
  BY <1>7, TotalMore
<1>9. g[k] = s
  BY <1>3, <1>6
<1>10. localBytes + s = SumFunction(g)
  BY <1>4, <1>5, <1>8, <1>9
<1>11. ListOf(<<k>> \o order, DOMAIN its)
  BY <1>3, InFront DEF MemInv, Sound
<1>12. \A x \in DOMAIN its : its[x].size \in Nat
  BY <1>2, <1>3, <1>4
<1> QED
  BY <1>1, <1>5, <1>10, <1>11, <1>12 DEF Sound

LEMMA MemStep == MemInv /\ [LocalCacheNext]_lruVars => MemInv'
<1> SUFFICES ASSUME MemInv, [LocalCacheNext]_lruVars PROVE MemInv'
  OBVIOUS
<1>t. /\ Cardinality(Stored) = Len(order) /\ Len(order) \in Nat
      /\ Sound(items, order, localBytes)
  BY MemoryTypes DEF MemInv
<1>1. ASSUME NEW k \in CacheKey, LruGet(k) PROVE MemInv'
  <2>1. k \in Stored
    BY <1>1 DEF LruGet
  <2>2. CASE items[k].left > 0
    <3>1. order' = ToFront(order, k) /\ items' = items /\ localBytes' = localBytes
      BY <1>1, <2>2 DEF LruGet
    <3>2. ListOf(ToFront(order, k), DOMAIN items)
      BY <2>1, ToFrontKeeps DEF MemInv, Sound, Stored
    <3>3. PICK line : line = ToFront(order, k)
      OBVIOUS
    <3>4. ListOf(line, DOMAIN items)
      BY <3>2, <3>3
    <3>5. Len(line) = Len(order)
      BY <1>t, <3>4, ListCounts DEF Stored
    <3>6. Sound(items, order, localBytes)'
      BY <1>t, <3>1, <3>3, <3>4 DEF Sound
    <3> QED
      BY <3>1, <3>3, <3>5, <3>6 DEF MemInv
  <2>3. CASE ~(items[k].left > 0)
    <3>1. PICK live \in SUBSET Stored : live = Stored \ {k}
      OBVIOUS
    <3>2. Become(Cut(Now, live))
      BY <1>1, <2>3, <3>1 DEF LruGet
    <3> QED
      BY <3>2, CutStep
  <2> QED
    BY <2>2, <2>3
<1>2. ASSUME NEW k \in CacheKey, NEW s \in Size, NEW l \in Life, LruSet(k, s, l) PROVE MemInv'
  <2>1. CASE k \in Stored
    <3>1. PICK its, seq, bytes : /\ its = [items EXCEPT ![k] = Entry(s, l)]
                                 /\ seq = ToFront(order, k)
                                 /\ bytes = localBytes + s - items[k].size
      OBVIOUS
    <3>2. Sound(its, seq, bytes)
      BY <2>1, <3>1, UpdatedSound
    <3>3. PICK limit : limit = Cardinality(Stored)
      OBVIOUS
    <3>4. limit \in Nat /\ limit <= MaxEntries
      BY <1>t, <3>3 DEF MemInv
    <3>5. Become(Evict(Memory(its, seq, bytes), limit))
      BY <1>2, <2>1, <3>1, <3>3 DEF LruSet, Updated
    <3> QED
      BY <3>2, <3>4, <3>5, PutStep
  <2>2. CASE k \notin Stored
    <3>1. PICK its, seq, bytes :
            /\ its = [x \in Stored \cup {k} |-> IF x = k THEN Entry(s, l) ELSE items[x]]
            /\ seq = <<k>> \o order
            /\ bytes = localBytes + s
      OBVIOUS
    <3>2. Sound(its, seq, bytes)
      BY <2>2, <3>1, InsertedSound
    <3>3. MaxEntries \in Nat /\ MaxEntries <= MaxEntries
      BY LocalCacheAssumption
    <3>4. Become(Evict(Memory(its, seq, bytes), MaxEntries))
      BY <1>2, <2>2, <3>1 DEF LruSet, Inserted
    <3> QED
      BY <3>2, <3>3, <3>4, PutStep
  <2> QED
    BY <2>1, <2>2
<1>3. CASE LruLen
  <2>1. PICK live \in SUBSET Stored : Become(Cut(Now, live))
    BY <1>3 DEF LruLen
  <2> QED
    BY <2>1, CutStep
<1>4. CASE LruAge
  <2>1. /\ order' = order /\ localBytes' = localBytes
        /\ DOMAIN items' = DOMAIN items
        /\ \A x \in DOMAIN items : items'[x].size = items[x].size
    BY <1>4 DEF LruAge, Stored, Entry
  <2>2. Sizes(items') = Sizes(items)
    BY <2>1 DEF Sizes
  <2>3. Sound(items, order, localBytes)'
    BY <1>t, <2>1, <2>2 DEF Sound
  <2> QED
    BY <2>1, <2>3 DEF MemInv
<1>5. CASE UNCHANGED lruVars
  BY <1>5 DEF lruVars, MemInv
<1> QED
  BY <1>1, <1>2, <1>3, <1>4, <1>5 DEF LocalCacheNext

LEMMA MemStart == LocalCacheInit => MemInv
<1> SUFFICES ASSUME LocalCacheInit PROVE MemInv
  OBVIOUS
<1>1. items = << >> /\ order = << >> /\ localBytes = 0
  BY DEF LocalCacheInit
<1>2. DOMAIN items = {} /\ Len(order) = 0
  BY <1>1
<1>3. PICK f : f = Sizes(items)
  OBVIOUS
<1>4. DOMAIN f = {}
  BY <1>2, <1>3 DEF Sizes
<1>5. SumFunction(f) = 0
  BY <1>4, TotalEmpty
<1>6. ListOf(order, DOMAIN items)
  BY <1>1, <1>2 DEF ListOf
<1>7. Sound(items, order, localBytes)
  BY <1>1, <1>2, <1>3, <1>5, <1>6 DEF Sound
<1> QED
  BY <1>1, <1>2, <1>7, LocalCacheAssumption DEF MemInv

\* The count of bytes of the memory is what its entries hold, and both limits
\* are met.  (cache.go, TTL.get, set, remove and Len.)
LEMMA MemoryHolds == LocalCacheSpec => []MemoryAccounted
<1>1. MemInv => MemoryAccounted
  <2> SUFFICES ASSUME MemInv PROVE MemoryAccounted
    OBVIOUS
  <2>1. ToSet(order) = Stored
    <3>1. /\ DOMAIN order = 1 .. Len(order)
          /\ \A k : k \in Stored <=> \E i \in 1 .. Len(order) : order[i] = k
      BY DEF MemInv, Sound, ListOf, Stored
    <3> QED
      BY <3>1 DEF ToSet
  <2> QED
    BY <2>1, MemoryTypes DEF MemInv, Sound, MemoryAccounted
<1> QED
  BY <1>1, MemStart, MemStep, PTL DEF LocalCacheSpec

-----------------------------------------------------------------------------
(* The generations of the index *)

LeaseRecord == [owner : Owners, bytes : Nat, refs : Nat, retired : BOOLEAN, released : BOOLEAN]
ViewRecord == [at : {"idle", "zero", "owner", "service"},
               held : Seq(Nat), next : Nat \ {0}, last : Nat \cup {NoLease}]

LeasesTyped ==
    /\ leases \in Seq(LeaseRecord)
    /\ published \in [Owners -> DOMAIN leases \cup {NoLease}]
    /\ views \in [Walker -> ViewRecord]
    /\ \A g \in Owners : published[g] # NoLease => leases[published[g]].owner = g
    /\ ownerRetained \in [Owners -> Int]

\* A request holds a generation once: it has one of each resource, and those
\* only of the resources that it has been at.
Borrowed(w) == ToSet(views[w].held)
HeldOnce == \A w \in Walker :
    /\ \A i \in DOMAIN views[w].held : \A j \in DOMAIN views[w].held :
         views[w].held[i] = views[w].held[j] => i = j
    /\ \A l \in Borrowed(w) :
         /\ l \in DOMAIN leases
         /\ \E j \in DOMAIN GvrOrder : j < views[w].next /\ leases[l].owner = GvrOrder[j]

\* References are the publication and the requests that hold.
OnShow(l) == published[leases[l].owner] = l
Holders(l) == {w \in Walker : l \in Borrowed(w)}
RefsCounted == \A l \in DOMAIN leases :
    leases[l].refs = Cardinality(Holders(l)) + (IF OnShow(l) THEN 1 ELSE 0)

\* A generation without a reference is taken out by one request at most, which
\* finds it retired and not yet released.
TakenOutOnce == \A w \in Walker : views[w].at # "idle" =>
    /\ views[w].last \in DOMAIN leases
    /\ leases[views[w].last].refs = 0
    /\ \A x \in Walker : x # w /\ views[x].at # "idle" => views[x].last # views[w].last
Flagged ==
    /\ \A l \in DOMAIN leases : ~OnShow(l) => leases[l].retired = TRUE
    /\ \A l \in DOMAIN leases : leases[l].refs > 0 => leases[l].released = FALSE
    /\ \A w \in Walker : views[w].at = "zero" => leases[views[w].last].released = FALSE

\* What the two ledgers still count.
Paid == [l \in DOMAIN leases |-> leases[l].bytes]
Due(l, places) ==
    leases[l].refs > 0 \/ \E w \in Walker : views[w].at \in places /\ views[w].last = l
OnService == {l \in DOMAIN leases : Due(l, {"zero", "owner", "service"})}
OnOwner(g) == {l \in DOMAIN leases : leases[l].owner = g /\ Due(l, {"zero", "owner"})}
ServiceBooked ==
    retained = SumFunctionOnSet(Paid, OnService) /\ retained <= RetainedMax
OwnersBooked == \A g \in Owners :
    ownerRetained[g] = SumFunctionOnSet(Paid, OnOwner(g)) /\ ownerRetained[g] <= OwnerMax

LeaseInv == /\ LeasesTyped /\ HeldOnce /\ RefsCounted /\ TakenOutOnce /\ Flagged
            /\ ServiceBooked /\ OwnersBooked

LEMMA PaidSums ==
  ASSUME LeasesTyped
  PROVE  /\ IsFiniteSet(DOMAIN leases)
         /\ \A S \in SUBSET DOMAIN leases :
              /\ SumFunctionOnSet(Paid, S) \in Nat
              /\ \A l \in S : /\ Paid[l] <= SumFunctionOnSet(Paid, S)
                              /\ SumFunctionOnSet(Paid, S \ {l})
                                   = SumFunctionOnSet(Paid, S) - Paid[l]
         /\ \A l \in DOMAIN leases : Paid[l] = leases[l].bytes /\ Paid[l] \in Nat
<1>1. DOMAIN leases = 1 .. Len(leases) /\ Len(leases) \in Nat
  BY DEF LeasesTyped
<1>2. IsFiniteSet(DOMAIN leases)
  BY <1>1, FS_Interval
<1>3. PICK f : f = Paid
  OBVIOUS
<1>4. \A l \in DOMAIN leases : f[l] = leases[l].bytes /\ f[l] \in Nat
  <2>1. \A l \in DOMAIN leases : leases[l] \in LeaseRecord
    BY DEF LeasesTyped
  <2>2. \A l \in DOMAIN leases : f[l] = leases[l].bytes
    BY <1>3 DEF Paid
  <2> QED
    BY <2>1, <2>2 DEF LeaseRecord
<1>5. ASSUME NEW S \in SUBSET DOMAIN leases
      PROVE  /\ SumFunctionOnSet(f, S) \in Nat
             /\ \A l \in S : /\ f[l] <= SumFunctionOnSet(f, S)
                             /\ SumFunctionOnSet(f, S \ {l}) = SumFunctionOnSet(f, S) - f[l]
  <2>1. IsFiniteSet(S) /\ \A l \in S : f[l] \in Nat
    BY <1>2, <1>4, FS_Subset
  <2>2. SumFunctionOnSet(f, S) \in Nat /\ \A l \in S : f[l] <= SumFunctionOnSet(f, S)
    BY <2>1, SumNat
  <2>3. ASSUME NEW l \in S
        PROVE  SumFunctionOnSet(f, S \ {l}) = SumFunctionOnSet(f, S) - f[l]
    <3>1. SumFunctionOnSet(f, S) = f[l] + SumFunctionOnSet(f, S \ {l})
      BY <2>1, SumRemove
    <3>2. IsFiniteSet(S \ {l}) /\ \A k \in S \ {l} : f[k] \in Int
      BY <2>1, FS_Subset
    <3>3. SumFunctionOnSet(f, S \ {l}) \in Int
      BY <3>2, SumType
    <3> QED
      BY <2>1, <3>1, <3>3
  <2> QED
    BY <2>2, <2>3
<1> QED
  BY <1>2, <1>3, <1>4, <1>5

\* The last one takes a generation out of the ledger of the service.
LEMMA ReleaseServiceStep ==
  ASSUME LeaseInv, NEW w \in Walker, ReleaseService(w)
  PROVE  LeaseInv'
<1>1. PICK l : l = views[w].last
  OBVIOUS
<1>t. LeasesTyped /\ HeldOnce /\ RefsCounted /\ TakenOutOnce /\ Flagged
  BY DEF LeaseInv
<1>2. /\ views[w].at = "service" /\ leases' = leases /\ published' = published
      /\ ownerRetained' = ownerRetained
      /\ retained' = retained - leases[l].bytes
      /\ views' = [views EXCEPT ![w].at = "idle"]
  BY <1>1 DEF ReleaseService
<1>3. /\ l \in DOMAIN leases /\ leases[l].refs = 0
      /\ \A x \in Walker : x # w /\ views[x].at # "idle" => views[x].last # l
  BY <1>1, <1>2, <1>t DEF TakenOutOnce
<1>4. /\ views'[w].at = "idle" /\ views'[w].held = views[w].held
      /\ views'[w].next = views[w].next /\ views'[w].last = l
      /\ \A x \in Walker : x # w => views'[x] = views[x]
      /\ views' \in [Walker -> ViewRecord]
  BY <1>1, <1>2, <1>t DEF LeasesTyped, ViewRecord
<1>5. LeasesTyped'
  BY <1>2, <1>4, <1>t DEF LeasesTyped
<1>6. \A x \in Walker : views'[x].held = views[x].held /\ views'[x].next = views[x].next
  BY <1>4
<1>7. HeldOnce'
  BY <1>2, <1>6, <1>t DEF HeldOnce, Borrowed
<1>8. \A k : Holders(k)' = Holders(k)
  BY <1>6 DEF Holders, Borrowed
<1>9. RefsCounted'
  BY <1>2, <1>8, <1>t DEF RefsCounted, OnShow
<1>10. TakenOutOnce' /\ Flagged'
  BY <1>2, <1>4, <1>t DEF TakenOutOnce, Flagged, OnShow
<1>11. Paid' = Paid
  BY <1>2 DEF Paid
<1>12. OnService' = OnService \ {l} /\ l \in OnService
  BY <1>1, <1>2, <1>3, <1>4 DEF OnService, Due
<1>13. \A g \in Owners : OnOwner(g)' = OnOwner(g)
  BY <1>1, <1>2, <1>3, <1>4 DEF OnOwner, Due
<1>14. ServiceBooked'
  <2>1. PICK S : S = OnService
    OBVIOUS
  <2>2. S \in SUBSET DOMAIN leases /\ l \in S
    BY <1>12, <2>1 DEF OnService
  <2>3. /\ SumFunctionOnSet(Paid, S) \in Nat /\ Paid[l] = leases[l].bytes /\ Paid[l] \in Nat
        /\ SumFunctionOnSet(Paid, S \ {l}) = SumFunctionOnSet(Paid, S) - Paid[l]
    BY <1>3, <1>t, <2>2, PaidSums
  <2>4. retained = SumFunctionOnSet(Paid, S) /\ retained <= RetainedMax
    BY <2>1 DEF LeaseInv, ServiceBooked
  <2>5. retained' = SumFunctionOnSet(Paid, S \ {l}) /\ retained' <= RetainedMax
    BY <1>2, <2>3, <2>4, SearchLeasesAssumption
  <2> QED
    BY <1>11, <1>12, <2>1, <2>5 DEF ServiceBooked
<1>15. OwnersBooked'
  BY <1>2, <1>11, <1>13 DEF LeaseInv, OwnersBooked
<1> QED
  BY <1>5, <1>7, <1>9, <1>10, <1>14, <1>15 DEF LeaseInv

\* And out of the ledger of its resource.
LEMMA ReleaseOwnerStep ==
  ASSUME LeaseInv, NEW w \in Walker, ReleaseOwner(w)
  PROVE  LeaseInv'
<1>1. PICK l, o : l = views[w].last /\ o = leases[l].owner
  OBVIOUS
<1>t. LeasesTyped /\ HeldOnce /\ RefsCounted /\ TakenOutOnce /\ Flagged
  BY DEF LeaseInv
<1>2. /\ views[w].at = "owner" /\ leases' = leases /\ published' = published
      /\ retained' = retained
      /\ ownerRetained' = [ownerRetained EXCEPT ![o] = @ - leases[l].bytes]
      /\ views' = [views EXCEPT ![w].at = "service"]
  BY <1>1 DEF ReleaseOwner
<1>3. /\ l \in DOMAIN leases /\ leases[l].refs = 0
      /\ \A x \in Walker : x # w /\ views[x].at # "idle" => views[x].last # l
  BY <1>1, <1>2, <1>t DEF TakenOutOnce
<1>4. /\ views'[w].at = "service" /\ views'[w].held = views[w].held
      /\ views'[w].next = views[w].next /\ views'[w].last = l
      /\ \A x \in Walker : x # w => views'[x] = views[x]
      /\ views' \in [Walker -> ViewRecord]
  BY <1>1, <1>2, <1>t DEF LeasesTyped, ViewRecord
<1>5. leases[l] \in LeaseRecord /\ leases[l].bytes \in Nat /\ o \in Owners
  <2>1. leases[l] \in LeaseRecord
    BY <1>3, <1>t DEF LeasesTyped
  <2> QED
    BY <1>1, <2>1 DEF LeaseRecord
<1>6. /\ ownerRetained' \in [Owners -> Int]
      /\ ownerRetained'[o] = ownerRetained[o] - leases[l].bytes
      /\ \A g \in Owners : g # o => ownerRetained'[g] = ownerRetained[g]
  BY <1>2, <1>5, <1>t DEF LeasesTyped
<1>7. LeasesTyped'
  BY <1>2, <1>4, <1>6, <1>t DEF LeasesTyped
<1>8. \A x \in Walker : views'[x].held = views[x].held /\ views'[x].next = views[x].next
  BY <1>4
<1>9. HeldOnce'
  BY <1>2, <1>8, <1>t DEF HeldOnce, Borrowed
<1>10. \A k : Holders(k)' = Holders(k)
  BY <1>8 DEF Holders, Borrowed
<1>11. RefsCounted'
  BY <1>2, <1>10, <1>t DEF RefsCounted, OnShow
<1>12. TakenOutOnce' /\ Flagged'
  BY <1>2, <1>3, <1>4, <1>t DEF TakenOutOnce, Flagged, OnShow
<1>13. Paid' = Paid
  BY <1>2 DEF Paid
<1>14. OnService' = OnService
  BY <1>1, <1>2, <1>3, <1>4 DEF OnService, Due
<1>15. /\ OnOwner(o)' = OnOwner(o) \ {l} /\ l \in OnOwner(o)
       /\ \A g \in Owners : g # o => OnOwner(g)' = OnOwner(g)
  BY <1>1, <1>2, <1>3, <1>4 DEF OnOwner, Due
<1>16. ServiceBooked'
  BY <1>2, <1>13, <1>14 DEF LeaseInv, ServiceBooked
<1>17. ASSUME NEW g \in Owners
       PROVE  /\ ownerRetained'[g] = SumFunctionOnSet(Paid', OnOwner(g)')
              /\ ownerRetained'[g] <= OwnerMax
  <2>1. PICK S : S = OnOwner(g)
    OBVIOUS
  <2>2. S \in SUBSET DOMAIN leases
    BY <2>1 DEF OnOwner
  <2>3. ownerRetained[g] = SumFunctionOnSet(Paid, S) /\ ownerRetained[g] <= OwnerMax
    BY <2>1 DEF LeaseInv, OwnersBooked
  <2>4. CASE g = o
    <3>1. l \in S /\ OnOwner(g)' = S \ {l}
      BY <1>15, <2>1, <2>4
    <3>2. /\ SumFunctionOnSet(Paid, S) \in Nat /\ Paid[l] = leases[l].bytes /\ Paid[l] \in Nat
          /\ SumFunctionOnSet(Paid, S \ {l}) = SumFunctionOnSet(Paid, S) - Paid[l]
      BY <1>3, <1>t, <2>2, <3>1, PaidSums
    <3>3. ownerRetained'[g] = SumFunctionOnSet(Paid, S \ {l}) /\ ownerRetained'[g] <= OwnerMax
      BY <1>6, <2>3, <2>4, <3>2, SearchLeasesAssumption
    <3> QED
      BY <1>13, <3>1, <3>3
  <2>5. CASE g # o
    <3>1. OnOwner(g)' = S /\ ownerRetained'[g] = ownerRetained[g]
      BY <1>6, <1>15, <2>1, <2>5
    <3> QED
      BY <1>13, <2>3, <3>1
  <2> QED
    BY <2>4, <2>5
<1>18. OwnersBooked'
  BY <1>17 DEF OwnersBooked
<1> QED
  BY <1>7, <1>9, <1>11, <1>12, <1>16, <1>18 DEF LeaseInv

LEMMA HoldersFinite ==
  ASSUME NEW l
  PROVE  /\ IsFiniteSet(Holders(l)) /\ Cardinality(Holders(l)) \in Nat
         /\ Holders(l) # {} => Cardinality(Holders(l)) > 0
<1>1. IsFiniteSet(Holders(l))
  BY FS_Subset, SearchLeasesAssumption DEF Holders
<1>2. Cardinality(Holders(l)) \in Nat /\ (Cardinality(Holders(l)) = 0 <=> Holders(l) = {})
  BY <1>1, FS_CardinalityType, FS_EmptySet
<1> QED
  BY <1>1, <1>2

\* One generation changes its flags or its references; its owner and its bytes
\* stay.
SameGenerations(f, g) ==
    /\ DOMAIN f = DOMAIN g
    /\ \A k \in DOMAIN g : f[k].owner = g[k].owner /\ f[k].bytes = g[k].bytes

LEMMA MarkReleasedStep ==
  ASSUME LeaseInv, NEW w \in Walker, MarkReleased(w)
  PROVE  LeaseInv'
<1>1. PICK l : l = views[w].last
  OBVIOUS
<1>t. LeasesTyped /\ HeldOnce /\ RefsCounted /\ TakenOutOnce /\ Flagged
  BY DEF LeaseInv
<1>2. /\ views[w].at = "zero" /\ published' = published
      /\ retained' = retained /\ ownerRetained' = ownerRetained
  BY DEF MarkReleased
<1>3. /\ l \in DOMAIN leases /\ leases[l].refs = 0
      /\ \A x \in Walker : x # w /\ views[x].at # "idle" => views[x].last # l
  BY <1>1, <1>2, <1>t DEF TakenOutOnce
<1>4. leases[l].retired = TRUE /\ leases[l].released = FALSE
  <2>1. ~OnShow(l)
    BY <1>3, <1>t, HoldersFinite DEF RefsCounted
  <2> QED
    BY <1>1, <1>2, <1>3, <1>t, <2>1 DEF Flagged
<1>5. /\ leases' = [leases EXCEPT ![l].released = TRUE]
      /\ views' = [views EXCEPT ![w].at = "owner"]
  BY <1>1, <1>4 DEF MarkReleased
<1>6. /\ views'[w].at = "owner" /\ views'[w].held = views[w].held
      /\ views'[w].next = views[w].next /\ views'[w].last = l
      /\ \A x \in Walker : x # w => views'[x] = views[x]
      /\ views' \in [Walker -> ViewRecord]
  BY <1>1, <1>5, <1>t DEF LeasesTyped, ViewRecord
<1>7. /\ leases' \in Seq(LeaseRecord) /\ SameGenerations(leases', leases)
      /\ \A k \in DOMAIN leases : leases'[k].refs = leases[k].refs
      /\ \A k \in DOMAIN leases : leases'[k].retired = leases[k].retired
      /\ \A k \in DOMAIN leases : k # l => leases'[k] = leases[k]
  <2>1. \A k \in DOMAIN leases : leases[k] \in LeaseRecord
    BY <1>t DEF LeasesTyped
  <2>2. PICK r : r = [leases[l] EXCEPT !.released = TRUE]
    OBVIOUS
  <2>3. /\ r \in LeaseRecord /\ r.owner = leases[l].owner /\ r.bytes = leases[l].bytes
        /\ r.refs = leases[l].refs /\ r.retired = leases[l].retired
    BY <1>3, <2>1, <2>2 DEF LeaseRecord
  <2>4. leases' = [leases EXCEPT ![l] = r]
    BY <1>5, <2>2
  <2>5. /\ leases' \in Seq(LeaseRecord) /\ DOMAIN leases' = DOMAIN leases
        /\ leases'[l] = r /\ \A k \in DOMAIN leases : k # l => leases'[k] = leases[k]
    BY <1>3, <1>t, <2>3, <2>4 DEF LeasesTyped
  <2> QED
    BY <2>3, <2>5 DEF SameGenerations
<1>8. LeasesTyped'
  BY <1>2, <1>6, <1>7, <1>t DEF LeasesTyped, SameGenerations
<1>9. \A x \in Walker : views'[x].held = views[x].held /\ views'[x].next = views[x].next
  BY <1>6
<1>10. HeldOnce'
  BY <1>7, <1>9, <1>t DEF HeldOnce, Borrowed, SameGenerations
<1>11. \A k : Holders(k)' = Holders(k)
  BY <1>9 DEF Holders, Borrowed
<1>12. \A k \in DOMAIN leases : OnShow(k)' <=> OnShow(k)
  BY <1>2, <1>7 DEF OnShow, SameGenerations
<1>13. RefsCounted'
  BY <1>7, <1>11, <1>12, <1>t DEF RefsCounted, SameGenerations
<1>14. TakenOutOnce'
  BY <1>1, <1>2, <1>3, <1>6, <1>7, <1>t DEF TakenOutOnce, SameGenerations
<1>15. Flagged'
  <2>1. ASSUME NEW x \in Walker, views'[x].at = "zero"
        PROVE  leases'[views'[x].last].released = FALSE
    <3>1. x # w /\ views'[x] = views[x]
      BY <1>6, <2>1
    <3>2. views[x].last \in DOMAIN leases /\ views[x].last # l
      BY <1>3, <1>t, <2>1, <3>1 DEF TakenOutOnce
    <3> QED
      BY <1>7, <1>t, <2>1, <3>1, <3>2 DEF Flagged
  <2>2. ASSUME NEW k \in DOMAIN leases, ~OnShow(k)' PROVE leases'[k].retired = TRUE
    BY <1>7, <1>12, <1>t, <2>2 DEF Flagged
  <2>3. ASSUME NEW k \in DOMAIN leases, leases'[k].refs > 0 PROVE leases'[k].released = FALSE
    BY <1>3, <1>7, <1>t, <2>3 DEF Flagged
  <2> QED
    BY <1>7, <2>1, <2>2, <2>3 DEF Flagged, SameGenerations
<1>16. Paid' = Paid
  BY <1>7 DEF Paid, SameGenerations
<1>17. OnService' = OnService
  BY <1>1, <1>2, <1>6, <1>7 DEF OnService, Due, SameGenerations
<1>18. \A g \in Owners : OnOwner(g)' = OnOwner(g)
  BY <1>1, <1>2, <1>6, <1>7 DEF OnOwner, Due, SameGenerations
<1>19. ServiceBooked' /\ OwnersBooked'
  BY <1>2, <1>16, <1>17, <1>18 DEF LeaseInv, ServiceBooked, OwnersBooked
<1> QED
  BY <1>8, <1>10, <1>13, <1>14, <1>15, <1>19 DEF LeaseInv

\* What a request holds, as a set.
LEMMA HoldMore ==
  ASSUME NEW s \in Seq(Nat), NEW l \in Nat, l \notin ToSet(s),
         \A i \in DOMAIN s : \A j \in DOMAIN s : s[i] = s[j] => i = j
  PROVE  /\ Append(s, l) \in Seq(Nat)
         /\ ToSet(Append(s, l)) = ToSet(s) \cup {l}
         /\ \A i \in DOMAIN Append(s, l) : \A j \in DOMAIN Append(s, l) :
              Append(s, l)[i] = Append(s, l)[j] => i = j
<1>1. PICK t : t = Append(s, l)
  OBVIOUS
<1>2. /\ t \in Seq(Nat) /\ DOMAIN t = 1 .. (Len(s) + 1) /\ DOMAIN s = 1 .. Len(s)
      /\ Len(s) \in Nat /\ t[Len(s) + 1] = l
      /\ \A i \in DOMAIN s : t[i] = s[i]
  BY <1>1
<1>3. \A i \in DOMAIN s : s[i] # l
  BY DEF ToSet
<1>4. ToSet(t) = ToSet(s) \cup {l}
  <2>1. ASSUME NEW x \in ToSet(t) PROVE x \in ToSet(s) \cup {l}
    BY <1>2 DEF ToSet
  <2>2. ASSUME NEW x \in ToSet(s) PROVE x \in ToSet(t)
    BY <1>2 DEF ToSet
  <2>3. l \in ToSet(t)
    <3>1. Len(s) + 1 \in DOMAIN t
      BY <1>2
    <3> QED
      BY <1>2, <3>1 DEF ToSet
  <2> QED
    BY <2>1, <2>2, <2>3
<1>5. \A i \in DOMAIN t : \A j \in DOMAIN t : t[i] = t[j] => i = j
  BY <1>2, <1>3
<1> QED
  BY <1>1, <1>2, <1>4, <1>5

LEMMA HoldLess ==
  ASSUME NEW s \in Seq(Nat), s # << >>,
         \A i \in DOMAIN s : \A j \in DOMAIN s : s[i] = s[j] => i = j
  PROVE  /\ Tail(s) \in Seq(Nat) /\ Head(s) \in ToSet(s)
         /\ ToSet(Tail(s)) = ToSet(s) \ {Head(s)}
         /\ \A i \in DOMAIN Tail(s) : \A j \in DOMAIN Tail(s) :
              Tail(s)[i] = Tail(s)[j] => i = j
<1>1. PICK t, h : t = Tail(s) /\ h = Head(s)
  OBVIOUS
<1>2. /\ t \in Seq(Nat) /\ DOMAIN t = 1 .. (Len(s) - 1) /\ DOMAIN s = 1 .. Len(s)
      /\ Len(s) \in Nat /\ Len(s) > 0 /\ h = s[1]
      /\ \A i \in DOMAIN t : t[i] = s[i + 1] /\ i + 1 \in DOMAIN s /\ i + 1 # 1 /\ i \in Nat
  BY <1>1
<1>3. ToSet(t) = ToSet(s) \ {h}
  <2>1. ASSUME NEW x \in ToSet(t) PROVE x \in ToSet(s) \ {h}
    <3>1. PICK i \in DOMAIN t : x = t[i]
      BY DEF ToSet
    <3>2. x = s[i + 1] /\ i + 1 \in DOMAIN s /\ 1 \in DOMAIN s /\ i + 1 # 1
      BY <1>2, <3>1
    <3>3. s[i + 1] # s[1]
      BY <3>2
    <3> QED
      BY <1>2, <3>2, <3>3 DEF ToSet
  <2>2. ASSUME NEW x \in ToSet(s) \ {h} PROVE x \in ToSet(t)
    <3>1. PICK i \in DOMAIN s : x = s[i]
      BY DEF ToSet
    <3>2. i # 1
      BY <1>2, <2>2, <3>1
    <3>3. i - 1 \in DOMAIN t /\ (i - 1) + 1 = i
      BY <1>2, <3>2
    <3>4. x = t[i - 1]
      BY <1>2, <3>1, <3>3
    <3> QED
      BY <3>3, <3>4 DEF ToSet
  <2> QED
    BY <2>1, <2>2
<1>4. \A i \in DOMAIN t : \A j \in DOMAIN t : t[i] = t[j] => i = j
  <2> TAKE i \in DOMAIN t
  <2> TAKE j \in DOMAIN t
  <2> HAVE t[i] = t[j]
  <2>1. i + 1 = j + 1 /\ i \in Nat /\ j \in Nat
    BY <1>2
  <2> QED
    BY <2>1
<1>5. h \in ToSet(s)
  BY <1>2 DEF ToSet
<1> QED
  BY <1>1, <1>2, <1>3, <1>4, <1>5

\* The publication of a generation, or a request, is one reference: what remains
\* when the references of l change by n.
RefsBy(l, n) ==
    /\ leases' \in Seq(LeaseRecord) /\ SameGenerations(leases', leases)
    /\ leases'[l].refs = leases[l].refs + n
    /\ leases'[l].retired = leases[l].retired /\ leases'[l].released = leases[l].released
    /\ \A k \in DOMAIN leases : k # l => leases'[k] = leases[k]

LEMMA RefsChange ==
  ASSUME LeasesTyped, NEW l \in DOMAIN leases, NEW n \in Int, leases[l].refs + n \in Nat,
         leases' = [leases EXCEPT ![l].refs = leases[l].refs + n]
  PROVE  RefsBy(l, n)
<1>1. \A k \in DOMAIN leases : leases[k] \in LeaseRecord
  BY DEF LeasesTyped
<1>2. PICK r : r = [leases[l] EXCEPT !.refs = leases[l].refs + n]
  OBVIOUS
<1>3. /\ r \in LeaseRecord /\ r.owner = leases[l].owner /\ r.bytes = leases[l].bytes
      /\ r.refs = leases[l].refs + n
      /\ r.retired = leases[l].retired /\ r.released = leases[l].released
  BY <1>1, <1>2 DEF LeaseRecord
<1>4. leases' = [leases EXCEPT ![l] = r]
  BY <1>2
<1>5. /\ leases' \in Seq(LeaseRecord) /\ DOMAIN leases' = DOMAIN leases
      /\ leases'[l] = r /\ \A k \in DOMAIN leases : k # l => leases'[k] = leases[k]
  <2>1. leases \in Seq(LeaseRecord) /\ l \in DOMAIN leases /\ r \in LeaseRecord
    BY <1>3 DEF LeasesTyped
  <2> QED
    BY <1>4, <2>1
<1> QED
  BY <1>3, <1>5 DEF SameGenerations, RefsBy

\* A request goes to the next resource, and borrows what that shows.
LEMMA BorrowStep ==
  ASSUME LeaseInv, NEW w \in Walker, Borrow(w)
  PROVE  LeaseInv'
<1>1. PICK v, l, o : v = views[w] /\ o = GvrOrder[v.next] /\ l = published[o]
  OBVIOUS
<1>t. LeasesTyped /\ HeldOnce /\ RefsCounted /\ TakenOutOnce /\ Flagged
  BY DEF LeaseInv
<1>2. /\ v.at = "idle" /\ v.next <= Len(GvrOrder) /\ published' = published
      /\ retained' = retained /\ ownerRetained' = ownerRetained
  BY <1>1 DEF Borrow
<1>3. /\ v \in ViewRecord /\ v.held \in Seq(Nat) /\ v.next \in Nat \ {0}
      /\ v.last \in Nat \cup {NoLease}
  BY <1>1, <1>t DEF LeasesTyped, ViewRecord
<1>o. /\ DOMAIN GvrOrder = 1 .. Len(GvrOrder) /\ Len(GvrOrder) \in Nat
      /\ v.next \in DOMAIN GvrOrder /\ o \in Owners
  BY <1>1, <1>2, <1>3, SearchLeasesAssumption DEF Owners, ToSet
<1>4. CASE l = NoLease
  <2>1. leases' = leases /\ views' = [views EXCEPT ![w].next = @ + 1]
    BY <1>1, <1>4 DEF Borrow
  <2>2. /\ views'[w].at = "idle" /\ views'[w].held = v.held
        /\ views'[w].next = v.next + 1 /\ views'[w].last = v.last
        /\ \A x \in Walker : x # w => views'[x] = views[x]
        /\ views' \in [Walker -> ViewRecord]
    <3>1. PICK r : r = [v EXCEPT !.next = v.next + 1]
      OBVIOUS
    <3>2. /\ r \in ViewRecord /\ r.at = v.at /\ r.held = v.held /\ r.last = v.last
          /\ r.next = v.next + 1
      BY <1>3, <3>1 DEF ViewRecord
    <3>3. views \in [Walker -> ViewRecord] /\ views' = [views EXCEPT ![w] = r]
      BY <1>1, <1>t, <2>1, <3>1 DEF LeasesTyped
    <3> QED
      BY <1>2, <3>2, <3>3
  <2>3. LeasesTyped'
    BY <1>2, <1>t, <2>1, <2>2 DEF LeasesTyped
  <2>4. \A x \in Walker : views'[x].held = views[x].held
    BY <1>1, <2>2
  <2>5. HeldOnce'
    <3>1. \A x \in Walker : \A j \in DOMAIN GvrOrder : j < views[x].next => j < views'[x].next
      BY <1>1, <1>3, <1>o, <2>2
    <3> QED
      BY <1>t, <2>1, <2>4, <3>1 DEF HeldOnce, Borrowed
  <2>6. \A k : Holders(k)' = Holders(k)
    BY <2>4 DEF Holders, Borrowed
  <2>7. RefsCounted'
    BY <1>2, <1>t, <2>1, <2>6 DEF RefsCounted, OnShow
  <2>8. TakenOutOnce' /\ Flagged'
    BY <1>1, <1>2, <1>t, <2>1, <2>2 DEF TakenOutOnce, Flagged, OnShow
  <2>9. /\ Paid' = Paid /\ OnService' = OnService
        /\ \A g \in Owners : OnOwner(g)' = OnOwner(g)
    BY <1>1, <1>2, <2>1, <2>2 DEF Paid, OnService, OnOwner, Due
  <2>10. ServiceBooked' /\ OwnersBooked'
    BY <1>2, <2>9 DEF LeaseInv, ServiceBooked, OwnersBooked
  <2> QED
    BY <2>3, <2>5, <2>7, <2>8, <2>10 DEF LeaseInv
<1>5. CASE l # NoLease
  <2>1. /\ l \in DOMAIN leases /\ leases[l].owner = o /\ OnShow(l) /\ l \in Nat
    BY <1>1, <1>5, <1>o, <1>t DEF LeasesTyped, OnShow
  <2>2. leases[l].refs \in Nat /\ leases[l].refs > 0
    BY <1>t, <2>1, HoldersFinite DEF RefsCounted
  <2>3. l \notin Borrowed(w)
    BY <1>1, <1>3, <1>o, <1>t, <2>1, SearchLeasesAssumption DEF HeldOnce
  <2>4. /\ leases' = [leases EXCEPT ![l].refs = leases[l].refs + 1]
        /\ views' = [views EXCEPT ![w] = View("idle", Append(v.held, l), v.next + 1, v.last)]
    BY <1>1, <1>5 DEF Borrow
  <2>5. RefsBy(l, 1)
    <3>1. PICK n \in Int : n = 1
      OBVIOUS
    <3>2. leases[l].refs + n \in Nat /\ leases' = [leases EXCEPT ![l].refs = leases[l].refs + n]
      BY <2>2, <2>4, <3>1
    <3> QED
      BY <1>t, <2>1, <3>1, <3>2, RefsChange
  <2>6. PICK s : s = Append(v.held, l)
    OBVIOUS
  <2>7. /\ s \in Seq(Nat) /\ ToSet(s) = Borrowed(w) \cup {l}
        /\ \A i \in DOMAIN s : \A j \in DOMAIN s : s[i] = s[j] => i = j
    <3>1. /\ v.held \in Seq(Nat) /\ l \in Nat /\ l \notin ToSet(v.held)
          /\ Borrowed(w) = ToSet(v.held)
          /\ \A i \in DOMAIN v.held : \A j \in DOMAIN v.held : v.held[i] = v.held[j] => i = j
      BY <1>1, <1>3, <1>t, <2>1, <2>3 DEF HeldOnce, Borrowed
    <3> QED
      BY <2>6, <3>1, HoldMore
  <2>8. /\ views'[w].at = "idle" /\ views'[w].held = s
        /\ views'[w].next = v.next + 1 /\ views'[w].last = v.last
        /\ \A x \in Walker : x # w => views'[x] = views[x]
        /\ views' \in [Walker -> ViewRecord]
    BY <1>1, <1>3, <1>t, <2>4, <2>6, <2>7 DEF LeasesTyped, ViewRecord, View
  <2>9. LeasesTyped'
    BY <1>2, <1>t, <2>5, <2>8 DEF LeasesTyped, RefsBy, SameGenerations
  <2>10. /\ Borrowed(w)' = Borrowed(w) \cup {l}
         /\ \A x \in Walker : x # w => Borrowed(x)' = Borrowed(x)
    BY <2>7, <2>8 DEF Borrowed
  <2>11. HeldOnce'
    <3>1. ASSUME NEW x \in Walker, NEW k \in Borrowed(x)'
          PROVE  /\ k \in DOMAIN leases
                 /\ \E j \in DOMAIN GvrOrder : j < views'[x].next /\ leases[k].owner = GvrOrder[j]
      <4>1. CASE x = w /\ k = l
        BY <1>1, <1>3, <1>o, <2>1, <2>8, <4>1
      <4>2. CASE x # w \/ k # l
        <5>1. k \in Borrowed(x) /\ views[x].next <= views'[x].next
          BY <1>1, <1>3, <1>t, <2>8, <2>10, <3>1, <4>2 DEF LeasesTyped, ViewRecord
        <5>2. PICK j \in DOMAIN GvrOrder : j < views[x].next /\ leases[k].owner = GvrOrder[j]
          BY <1>t, <5>1 DEF HeldOnce
        <5>3. j < views'[x].next
          BY <1>1, <1>3, <1>o, <2>8, <5>2
        <5> QED
          BY <1>t, <5>1, <5>2, <5>3 DEF HeldOnce
      <4> QED
        BY <4>1, <4>2
    <3>2. \A x \in Walker : \A i \in DOMAIN views'[x].held : \A j \in DOMAIN views'[x].held :
            views'[x].held[i] = views'[x].held[j] => i = j
      BY <1>t, <2>7, <2>8 DEF HeldOnce
    <3> QED
      BY <2>5, <3>1, <3>2 DEF HeldOnce, RefsBy, SameGenerations
  <2>12. /\ Holders(l)' = Holders(l) \cup {w} /\ w \notin Holders(l)
         /\ \A k : k # l => Holders(k)' = Holders(k)
    BY <2>3, <2>10 DEF Holders
  <2>13. Cardinality(Holders(l)') = Cardinality(Holders(l)) + 1
    BY <2>12, HoldersFinite, FS_AddElement
  <2>14. \A k \in DOMAIN leases : OnShow(k)' <=> OnShow(k)
    BY <1>2, <2>5 DEF OnShow, RefsBy, SameGenerations
  <2>15. RefsCounted'
    <3>1. ASSUME NEW k \in DOMAIN leases
          PROVE  leases'[k].refs
                   = Cardinality(Holders(k)') + (IF OnShow(k)' THEN 1 ELSE 0)
      <4>1. CASE k = l
        BY <1>t, <2>1, <2>5, <2>13, <2>14, <4>1, HoldersFinite DEF RefsCounted, RefsBy
      <4>2. CASE k # l
        BY <1>t, <2>5, <2>12, <2>14, <4>2 DEF RefsCounted, RefsBy
      <4> QED
        BY <4>1, <4>2
    <3> QED
      BY <2>5, <3>1 DEF RefsCounted, RefsBy, SameGenerations
  <2>16. \A x \in Walker : /\ views'[x].at = views[x].at /\ views'[x].last = views[x].last
                           /\ views[x].at # "idle" => views[x].last # l
    BY <1>1, <1>2, <1>t, <2>2, <2>8 DEF TakenOutOnce
  <2>17. TakenOutOnce'
    BY <1>t, <2>5, <2>16 DEF TakenOutOnce, RefsBy, SameGenerations
  <2>18. Flagged'
    <3>1. ASSUME NEW x \in Walker, views'[x].at = "zero"
          PROVE  leases'[views'[x].last].released = FALSE
      BY <1>t, <2>5, <2>16, <3>1 DEF Flagged, TakenOutOnce, RefsBy
    <3>2. ASSUME NEW k \in DOMAIN leases, ~OnShow(k)' PROVE leases'[k].retired = TRUE
      BY <1>t, <2>5, <2>14, <3>2 DEF Flagged, RefsBy
    <3>3. ASSUME NEW k \in DOMAIN leases, leases'[k].refs > 0 PROVE leases'[k].released = FALSE
      BY <1>t, <2>1, <2>2, <2>5, <3>3 DEF Flagged, RefsBy
    <3> QED
      BY <2>5, <3>1, <3>2, <3>3 DEF Flagged, RefsBy, SameGenerations
  <2>19. Paid' = Paid
    BY <2>5 DEF Paid, RefsBy, SameGenerations
  <2>20. ASSUME NEW k \in DOMAIN leases, NEW places PROVE Due(k, places)' <=> Due(k, places)
    <3>1. CASE k = l
      BY <2>2, <2>5, <3>1 DEF Due, RefsBy
    <3>2. CASE k # l
      BY <2>5, <2>16, <3>2 DEF Due, RefsBy
    <3> QED
      BY <3>1, <3>2
  <2>21. /\ OnService' = OnService
         /\ \A g \in Owners : OnOwner(g)' = OnOwner(g)
    BY <2>5, <2>20 DEF OnService, OnOwner, RefsBy, SameGenerations
  <2>22. ServiceBooked' /\ OwnersBooked'
    BY <1>2, <2>19, <2>21 DEF LeaseInv, ServiceBooked, OwnersBooked
  <2> QED
    BY <2>9, <2>11, <2>15, <2>17, <2>18, <2>22 DEF LeaseInv
<1> QED
  BY <1>4, <1>5

\* A request gives back one of what it holds, or is done.
LEMMA GiveBackStep ==
  ASSUME LeaseInv, NEW w \in Walker, GiveBackLease(w)
  PROVE  LeaseInv'
<1>1. PICK v, l : v = views[w] /\ l = Head(v.held)
  OBVIOUS
<1>t. LeasesTyped /\ HeldOnce /\ RefsCounted /\ TakenOutOnce /\ Flagged
  BY DEF LeaseInv
<1>2. /\ v.at = "idle" /\ published' = published
      /\ retained' = retained /\ ownerRetained' = ownerRetained
  BY <1>1 DEF GiveBackLease
<1>3. /\ v \in ViewRecord /\ v.held \in Seq(Nat) /\ v.next \in Nat \ {0}
      /\ v.last \in Nat \cup {NoLease}
  BY <1>1, <1>t DEF LeasesTyped, ViewRecord
<1>4. CASE v.held = << >>
  <2>1. leases' = leases /\ views' = [views EXCEPT ![w] = NoView]
    BY <1>1, <1>4 DEF GiveBackLease
  <2>2. /\ NoView \in ViewRecord /\ NoView.at = "idle" /\ NoView.held = << >>
    BY DEF NoView, View, ViewRecord
  <2>3. /\ views'[w].at = "idle" /\ views'[w].held = << >>
        /\ \A x \in Walker : x # w => views'[x] = views[x]
        /\ views' \in [Walker -> ViewRecord]
    BY <1>t, <2>1, <2>2 DEF LeasesTyped
  <2>4. LeasesTyped'
    BY <1>2, <1>t, <2>1, <2>3 DEF LeasesTyped
  <2>5. \A x \in Walker : views'[x].held = views[x].held
    BY <1>1, <1>4, <2>3
  <2>6. HeldOnce'
    <3>1. Borrowed(w)' = {}
      BY <2>3 DEF Borrowed, ToSet
    <3>2. \A x \in Walker : x # w => views'[x].next = views[x].next
      BY <2>3
    <3> QED
      BY <1>t, <2>1, <2>5, <3>1, <3>2 DEF HeldOnce, Borrowed
  <2>7. \A k : Holders(k)' = Holders(k)
    BY <2>5 DEF Holders, Borrowed
  <2>8. RefsCounted'
    BY <1>2, <1>t, <2>1, <2>7 DEF RefsCounted, OnShow
  <2>9. TakenOutOnce' /\ Flagged'
    BY <1>1, <1>2, <1>t, <2>1, <2>3 DEF TakenOutOnce, Flagged, OnShow
  <2>10. /\ Paid' = Paid /\ OnService' = OnService
         /\ \A g \in Owners : OnOwner(g)' = OnOwner(g)
    BY <1>1, <1>2, <2>1, <2>3 DEF Paid, OnService, OnOwner, Due
  <2>11. ServiceBooked' /\ OwnersBooked'
    BY <1>2, <2>10 DEF LeaseInv, ServiceBooked, OwnersBooked
  <2> QED
    BY <2>4, <2>6, <2>8, <2>9, <2>11 DEF LeaseInv
<1>5. CASE v.held # << >>
  <2>1. PICK s, a : s = Tail(v.held) /\ a = IF LastReference(l) THEN "zero" ELSE "idle"
    OBVIOUS
  <2>2. /\ s \in Seq(Nat) /\ l \in Borrowed(w) /\ ToSet(s) = Borrowed(w) \ {l}
        /\ \A i \in DOMAIN s : \A j \in DOMAIN s : s[i] = s[j] => i = j
    <3>1. /\ v.held \in Seq(Nat) /\ v.held # << >> /\ Borrowed(w) = ToSet(v.held)
          /\ \A i \in DOMAIN v.held : \A j \in DOMAIN v.held : v.held[i] = v.held[j] => i = j
      BY <1>1, <1>3, <1>5, <1>t DEF HeldOnce, Borrowed
    <3> QED
      BY <1>1, <2>1, <3>1, HoldLess
  <2>3. l \in DOMAIN leases /\ l \in Nat /\ w \in Holders(l)
    BY <1>t, <2>2 DEF HeldOnce, Holders, LeasesTyped
  <2>4. leases[l].refs \in Nat /\ leases[l].refs > 0
    BY <1>t, <2>3, HoldersFinite DEF RefsCounted
  <2>5. /\ leases' = [leases EXCEPT ![l].refs = leases[l].refs - 1]
        /\ views' = [views EXCEPT ![w] = View(a, s, v.next, l)]
    BY <1>1, <1>5, <2>1 DEF GiveBackLease, Dereferenced
  <2>6. RefsBy(l, -1)
    <3>1. PICK n \in Int : n = -1
      OBVIOUS
    <3>2. leases[l].refs + n = leases[l].refs - 1 /\ leases[l].refs + n \in Nat
      BY <2>4, <3>1
    <3>3. leases' = [leases EXCEPT ![l].refs = leases[l].refs + n]
      BY <2>5, <3>2
    <3> QED
      BY <1>t, <2>3, <3>1, <3>2, <3>3, RefsChange
  <2>7. /\ leases'[l].refs = leases[l].refs - 1
        /\ a \in {"zero", "idle"} /\ (a = "zero" <=> leases'[l].refs = 0)
    BY <2>1, <2>4, <2>6 DEF LastReference, RefsBy
  <2>8. /\ views'[w].at = a /\ views'[w].held = s
        /\ views'[w].next = v.next /\ views'[w].last = l
        /\ \A x \in Walker : x # w => views'[x] = views[x]
        /\ views' \in [Walker -> ViewRecord]
    <3>1. PICK r : r = View(a, s, v.next, l)
      OBVIOUS
    <3>2. r \in ViewRecord /\ r.at = a /\ r.held = s /\ r.next = v.next /\ r.last = l
      BY <1>3, <2>2, <2>3, <2>7, <3>1 DEF View, ViewRecord
    <3>3. views \in [Walker -> ViewRecord] /\ views' = [views EXCEPT ![w] = r]
      BY <1>t, <2>5, <3>1 DEF LeasesTyped
    <3> QED
      BY <3>2, <3>3
  <2>9. LeasesTyped'
    BY <1>2, <1>t, <2>6, <2>8 DEF LeasesTyped, RefsBy, SameGenerations
  <2>10. /\ Borrowed(w)' = Borrowed(w) \ {l}
         /\ \A x \in Walker : x # w => Borrowed(x)' = Borrowed(x)
    BY <2>2, <2>8 DEF Borrowed
  <2>11. HeldOnce'
    <3>1. ASSUME NEW x \in Walker, NEW k \in Borrowed(x)'
          PROVE  /\ k \in DOMAIN leases
                 /\ \E j \in DOMAIN GvrOrder : j < views'[x].next /\ leases[k].owner = GvrOrder[j]
      <4>1. k \in Borrowed(x) /\ views[x].next = views'[x].next
        BY <1>1, <2>8, <2>10, <3>1
      <4> QED
        BY <1>t, <4>1 DEF HeldOnce
    <3>2. \A x \in Walker : \A i \in DOMAIN views'[x].held : \A j \in DOMAIN views'[x].held :
            views'[x].held[i] = views'[x].held[j] => i = j
      BY <1>t, <2>2, <2>8 DEF HeldOnce
    <3> QED
      BY <2>6, <3>1, <3>2 DEF HeldOnce, RefsBy, SameGenerations
  <2>12. /\ Holders(l)' = Holders(l) \ {w}
         /\ \A k : k # l => Holders(k)' = Holders(k)
    BY <2>10 DEF Holders
  <2>13. Cardinality(Holders(l)') = Cardinality(Holders(l)) - 1
    <3>1. PICK h : h = Holders(l)
      OBVIOUS
    <3>2. IsFiniteSet(h) /\ w \in h /\ Cardinality(h) \in Nat
      BY <2>3, <3>1, HoldersFinite
    <3>3. Cardinality(h \ {w}) = Cardinality(h) - 1
      BY <3>2, FS_RemoveElement
    <3> QED
      BY <2>12, <3>1, <3>3
  <2>14. \A k \in DOMAIN leases : OnShow(k)' <=> OnShow(k)
    BY <1>2, <2>6 DEF OnShow, RefsBy, SameGenerations
  <2>15. RefsCounted'
    <3>1. ASSUME NEW k \in DOMAIN leases
          PROVE  leases'[k].refs
                   = Cardinality(Holders(k)') + (IF OnShow(k)' THEN 1 ELSE 0)
      <4>1. CASE k = l
        BY <1>t, <2>3, <2>7, <2>13, <2>14, <4>1, HoldersFinite DEF RefsCounted
      <4>2. CASE k # l
        BY <1>t, <2>6, <2>12, <2>14, <4>2 DEF RefsCounted, RefsBy
      <4> QED
        BY <4>1, <4>2
    <3> QED
      BY <2>6, <3>1 DEF RefsCounted, RefsBy, SameGenerations
  <2>16. \A x \in Walker : x # w =>
           /\ views'[x].at = views[x].at /\ views'[x].last = views[x].last
           /\ views[x].at # "idle" => views[x].last # l /\ views[x].last \in DOMAIN leases
    BY <1>t, <2>4, <2>8 DEF TakenOutOnce
  <2>17. TakenOutOnce'
    <3>1. ASSUME NEW x \in Walker, views'[x].at # "idle"
          PROVE  /\ views'[x].last \in DOMAIN leases
                 /\ leases'[views'[x].last].refs = 0
                 /\ \A y \in Walker : y # x /\ views'[y].at # "idle" =>
                      views'[y].last # views'[x].last
      <4>1. CASE x = w
        BY <2>3, <2>7, <2>8, <2>16, <3>1, <4>1
      <4>2. CASE x # w
        BY <1>t, <2>6, <2>8, <2>16, <3>1, <4>2 DEF TakenOutOnce, RefsBy
      <4> QED
        BY <4>1, <4>2
    <3> QED
      BY <2>6, <3>1 DEF TakenOutOnce, RefsBy, SameGenerations
  <2>18. Flagged'
    <3>1. ASSUME NEW x \in Walker, views'[x].at = "zero", x # w
          PROVE  leases'[views'[x].last].released = FALSE
      BY <1>t, <2>6, <2>16, <3>1 DEF Flagged, RefsBy
    <3>2. ASSUME NEW k \in DOMAIN leases, ~OnShow(k)' PROVE leases'[k].retired = TRUE
      BY <1>t, <2>6, <2>14, <3>2 DEF Flagged, RefsBy
    <3>3. leases'[views'[w].last].released = FALSE
      BY <1>t, <2>3, <2>4, <2>6, <2>8 DEF Flagged, RefsBy
    <3>4. ASSUME NEW k \in DOMAIN leases, leases'[k].refs > 0 PROVE leases'[k].released = FALSE
      BY <1>t, <2>3, <2>4, <2>6, <3>4 DEF Flagged, RefsBy
    <3> QED
      BY <2>6, <3>1, <3>2, <3>3, <3>4 DEF Flagged, RefsBy, SameGenerations
  <2>19. Paid' = Paid
    BY <2>6 DEF Paid, RefsBy, SameGenerations
  <2>20. ASSUME NEW k \in DOMAIN leases, NEW places, "zero" \in places, "idle" \notin places
         PROVE  Due(k, places)' <=> Due(k, places)
    <3>1. CASE k = l
      <4>1. Due(k, places)
        BY <2>4, <3>1 DEF Due
      <4>2. CASE a = "zero"
        <5>1. views'[w].at \in places /\ views'[w].last = k
          BY <2>8, <2>20, <3>1, <4>2
        <5> QED
          BY <4>1, <5>1 DEF Due
      <4>3. CASE a = "idle"
        <5>1. leases'[k].refs > 0
          BY <2>4, <2>7, <3>1, <4>3
        <5> QED
          BY <4>1, <5>1 DEF Due
      <4> QED
        BY <2>7, <4>2, <4>3
    <3>2. CASE k # l
      <4>1. leases'[k].refs = leases[k].refs
        BY <2>6, <3>2 DEF RefsBy
      <4>2. \A x \in Walker : views'[x].at \in places /\ views'[x].last = k
                             <=> views[x].at \in places /\ views[x].last = k
        BY <1>1, <1>2, <2>8, <2>16, <2>20, <3>2
      <4> QED
        BY <4>1, <4>2 DEF Due
    <3> QED
      BY <3>1, <3>2
  <2>21. /\ OnService' = OnService
         /\ \A g \in Owners : OnOwner(g)' = OnOwner(g)
    BY <2>6, <2>20 DEF OnService, OnOwner, RefsBy, SameGenerations
  <2>22. ServiceBooked' /\ OwnersBooked'
    BY <1>2, <2>19, <2>21 DEF LeaseInv, ServiceBooked, OwnersBooked
  <2> QED
    BY <2>9, <2>11, <2>15, <2>17, <2>18, <2>22 DEF LeaseInv
<1> QED
  BY <1>4, <1>5

\* The generation that a publication ends, if no request holds it.
Ended(g) == {l \in DOMAIN leases : l = published[g] /\ leases[l].refs = 1}

\* What retirement of what g shows does to each generation.
Retirement(all, g) ==
    /\ all \in Seq(LeaseRecord) /\ SameGenerations(all, leases)
    /\ \A k \in DOMAIN leases : k # published[g] => all[k] = leases[k]
    /\ \A k \in DOMAIN leases : k = published[g] =>
         /\ leases[k].refs > 0 /\ all[k].refs = leases[k].refs - 1
         /\ all[k].retired = TRUE
         /\ all[k].refs > 0 => all[k].released = FALSE

LEMMA RefsType ==
  ASSUME LeasesTyped, NEW k \in DOMAIN leases
  PROVE  /\ leases[k] \in LeaseRecord
         /\ leases[k].refs \in Nat /\ leases[k].bytes \in Nat /\ leases[k].owner \in Owners
<1>1. leases[k] \in LeaseRecord
  BY DEF LeasesTyped
<1> QED
  BY <1>1 DEF LeaseRecord

LEMMA RetiredIs ==
  ASSUME LeaseInv, NEW g \in Owners
  PROVE  /\ Retirement(Retired(g).all, g)
         /\ Retired(g).bytes = SumFunctionOnSet(Paid, Ended(g))
<1>t. LeasesTyped /\ RefsCounted
  BY DEF LeaseInv
<1>1. CASE published[g] = NoLease
  <2>1. NoLease \notin DOMAIN leases
    <3>1. DOMAIN leases \subseteq Nat
      BY <1>t DEF LeasesTyped
    <3> QED
      BY <3>1, SearchLeasesAssumption
  <2>2. Ended(g) = {}
    BY <1>1, <2>1 DEF Ended
  <2>3. Retired(g).all = leases /\ Retired(g).bytes = 0
    BY <1>1 DEF Retired
  <2>4. SumFunctionOnSet(Paid, {}) = 0
    BY SumEmpty
  <2>5. Retirement(leases, g)
    BY <1>1, <1>t, <2>1 DEF Retirement, LeasesTyped, SameGenerations
  <2> QED
    BY <2>2, <2>3, <2>4, <2>5
<1>2. CASE published[g] # NoLease
  <2>1. PICK l : l = published[g]
    OBVIOUS
  <2>2. l \in DOMAIN leases /\ leases[l].owner = g /\ OnShow(l)
    BY <1>2, <1>t, <2>1 DEF LeasesTyped, OnShow
  <2>3. /\ leases[l] \in LeaseRecord /\ leases[l].refs \in Nat /\ leases[l].bytes \in Nat
        /\ leases[l].owner \in Owners /\ leases[l].refs > 0
    BY <1>t, <2>2, RefsType, HoldersFinite DEF RefsCounted
  <2>4. PICK gone \in BOOLEAN : gone = LastReference(l)
    BY DEF LastReference
  <2>5. gone <=> leases[l].refs = 1
    BY <2>4 DEF LastReference
  <2>6. PICK r : r = Generation(leases[l].owner, leases[l].bytes, leases[l].refs - 1, TRUE, gone)
    OBVIOUS
  <2>7. /\ r \in LeaseRecord /\ r.owner = leases[l].owner /\ r.bytes = leases[l].bytes
        /\ r.refs = leases[l].refs - 1 /\ r.retired = TRUE
        /\ r.released = gone
    BY <2>3, <2>6 DEF Generation, LeaseRecord
  <2>8. PICK all : all = [leases EXCEPT ![l] = r]
    OBVIOUS
  <2>9. /\ Retired(g).all = all
        /\ Retired(g).bytes = IF gone THEN leases[l].bytes ELSE 0
    BY <1>2, <2>1, <2>4, <2>6, <2>8 DEF Retired
  <2>10. /\ all \in Seq(LeaseRecord) /\ DOMAIN all = DOMAIN leases /\ all[l] = r
         /\ \A k \in DOMAIN leases : k # l => all[k] = leases[k]
    <3>1. leases \in Seq(LeaseRecord)
      BY <1>t DEF LeasesTyped
    <3> QED
      BY <2>2, <2>7, <2>8, <3>1
  <2>11. r.refs > 0 => r.released = FALSE
    BY <2>3, <2>5, <2>7
  <2>12. Retirement(all, g)
    BY <2>1, <2>3, <2>7, <2>10, <2>11 DEF Retirement, SameGenerations
  <2>13. SumFunctionOnSet(Paid, Ended(g)) = IF gone THEN leases[l].bytes ELSE 0
    <3>1. CASE gone
      <4>1. Ended(g) = {l}
        BY <2>1, <2>2, <2>5, <3>1 DEF Ended
      <4>2. PICK S : S = {l}
        OBVIOUS
      <4>3. S \in SUBSET DOMAIN leases /\ l \in S /\ S \ {l} = {}
        BY <2>2, <4>2
      <4>4. /\ SumFunctionOnSet(Paid, S \ {l}) = SumFunctionOnSet(Paid, S) - Paid[l]
            /\ SumFunctionOnSet(Paid, S) \in Nat /\ Paid[l] = leases[l].bytes
        BY <1>t, <2>2, <4>3, PaidSums
      <4>5. SumFunctionOnSet(Paid, S \ {l}) = 0
        BY <4>3, SumEmpty
      <4> QED
        BY <2>3, <3>1, <4>1, <4>2, <4>4, <4>5
    <3>2. CASE ~gone
      <4>1. Ended(g) = {}
        BY <2>1, <2>5, <3>2 DEF Ended
      <4> QED
        BY <3>2, <4>1, SumEmpty
    <3> QED
      BY <3>1, <3>2
  <2> QED
    BY <2>9, <2>12, <2>13
<1> QED
  BY <1>1, <1>2

\* What g shows is retired; in its place comes what M holds, a new generation or
\* nothing.
Renewed(g, all, M) ==
    /\ leases' \in Seq(LeaseRecord) /\ DOMAIN leases' = DOMAIN leases \cup M
    /\ \A k \in DOMAIN leases : leases'[k] = all[k]
    /\ published' \in [Owners -> DOMAIN leases' \cup {NoLease}]
    /\ \A h \in Owners : h # g => published'[h] = published[h]
    /\ (M = {} /\ published'[g] = NoLease) \/ M = {published'[g]}
    /\ \A m \in M : /\ m \notin DOMAIN leases
                    /\ leases'[m].owner = g /\ leases'[m].refs = 1
                    /\ leases'[m].released = FALSE
    /\ views' = views
    /\ ownerRetained' \in [Owners -> Int]

LEMMA RenewedShows ==
  ASSUME LeaseInv, NEW g \in Owners, NEW all, Retirement(all, g), NEW M, Renewed(g, all, M)
  PROVE  /\ \A k \in DOMAIN leases : /\ leases'[k].owner = leases[k].owner
                                     /\ leases'[k].bytes = leases[k].bytes
                                     /\ OnShow(k)' <=> OnShow(k) /\ k # published[g]
         /\ \A m \in M : OnShow(m)'
         /\ \A k : Holders(k)' = Holders(k)
         /\ \A m \in M : Holders(m) = {}
<1>t. LeasesTyped /\ HeldOnce
  BY DEF LeaseInv
<1>1. NoLease \notin DOMAIN leases
  <2>1. DOMAIN leases \subseteq Nat
    BY <1>t DEF LeasesTyped
  <2> QED
    BY <2>1, SearchLeasesAssumption
<1>2. published'[g] \notin DOMAIN leases
  BY <1>1 DEF Renewed
<1>3. \A k \in DOMAIN leases : leases'[k].owner = leases[k].owner /\ leases'[k].bytes = leases[k].bytes
  BY DEF Renewed, Retirement, SameGenerations
<1>4. ASSUME NEW k \in DOMAIN leases PROVE OnShow(k)' <=> OnShow(k) /\ k # published[g]
  <2>1. leases[k].owner \in Owners
    BY <1>t, RefsType
  <2>2. CASE leases[k].owner = g
    BY <1>2, <1>3, <2>2 DEF OnShow
  <2>3. CASE leases[k].owner # g
    <3>1. published'[leases[k].owner] = published[leases[k].owner]
      BY <2>1, <2>3 DEF Renewed
    <3>2. k # published[g]
      BY <1>1, <1>t, <2>3 DEF LeasesTyped
    <3> QED
      BY <1>3, <3>1, <3>2 DEF OnShow
  <2> QED
    BY <2>2, <2>3
<1>5. \A m \in M : OnShow(m)'
  BY DEF Renewed, OnShow
<1>6. \A k : Holders(k)' = Holders(k)
  BY DEF Renewed, Holders, Borrowed
<1>7. \A m \in M : Holders(m) = {}
  BY <1>t DEF Renewed, Holders, HeldOnce
<1> QED
  BY <1>3, <1>4, <1>5, <1>6, <1>7

LEMMA RenewedKeeps ==
  ASSUME LeaseInv, NEW g \in Owners, NEW all, Retirement(all, g), NEW M, Renewed(g, all, M)
  PROVE  LeasesTyped' /\ HeldOnce' /\ RefsCounted' /\ TakenOutOnce' /\ Flagged'
<1>t. LeasesTyped /\ HeldOnce /\ RefsCounted /\ TakenOutOnce /\ Flagged
  BY DEF LeaseInv
<1>1. /\ DOMAIN leases' = DOMAIN leases \cup M /\ views' = views
      /\ \A k \in DOMAIN leases : leases'[k] = all[k]
      /\ \A k \in DOMAIN leases : k # published[g] => leases'[k] = leases[k]
      /\ \A k \in DOMAIN leases : k = published[g] =>
           /\ leases[k].refs > 0 /\ leases'[k].refs = leases[k].refs - 1
           /\ leases'[k].retired = TRUE
           /\ leases'[k].refs > 0 => leases'[k].released = FALSE
      /\ \A m \in M : /\ m \notin DOMAIN leases
                      /\ leases'[m].owner = g /\ leases'[m].refs = 1
                      /\ leases'[m].released = FALSE
  BY DEF Renewed, Retirement
<1>2. /\ \A k \in DOMAIN leases : leases'[k].owner = leases[k].owner
      /\ \A k \in DOMAIN leases : OnShow(k)' <=> OnShow(k) /\ k # published[g]
      /\ \A m \in M : OnShow(m)'
      /\ \A k : Holders(k)' = Holders(k)
      /\ \A m \in M : Holders(m) = {}
  BY RenewedShows
<1>3. LeasesTyped'
  <2>1. ASSUME NEW h \in Owners, published'[h] # NoLease
        PROVE  leases'[published'[h]].owner = h
    <3>1. CASE h = g
      BY <1>1, <2>1, <3>1 DEF Renewed
    <3>2. CASE h # g
      <4>1. published'[h] = published[h] /\ published[h] \in DOMAIN leases
        BY <1>t, <2>1, <3>2 DEF Renewed, LeasesTyped
      <4> QED
        BY <1>2, <1>t, <2>1, <4>1 DEF LeasesTyped
    <3> QED
      BY <3>1, <3>2
  <2>2. views' \in [Walker -> ViewRecord]
    BY <1>1, <1>t DEF LeasesTyped
  <2> QED
    BY <2>1, <2>2 DEF LeasesTyped, Renewed
<1>4. HeldOnce'
  <2>1. ASSUME NEW x \in Walker, NEW k \in Borrowed(x)
        PROVE  /\ k \in DOMAIN leases'
               /\ \E j \in DOMAIN GvrOrder : j < views[x].next /\ leases'[k].owner = GvrOrder[j]
    BY <1>1, <1>2, <1>t DEF HeldOnce
  <2>2. \A x \in Walker : Borrowed(x)' = Borrowed(x)
    BY <1>1 DEF Borrowed
  <2> QED
    BY <1>1, <1>t, <2>1, <2>2 DEF HeldOnce
<1>5. ASSUME NEW k \in DOMAIN leases
      PROVE  leases'[k].refs = Cardinality(Holders(k)') + (IF OnShow(k)' THEN 1 ELSE 0)
  <2>1. Cardinality(Holders(k)) \in Nat /\ Holders(k)' = Holders(k)
    BY <1>2, HoldersFinite
  <2>2. leases[k].refs = Cardinality(Holders(k)) + (IF OnShow(k) THEN 1 ELSE 0)
    BY <1>t DEF RefsCounted
  <2>3. CASE k = published[g]
    <3>1. OnShow(k)
      BY <1>t, <2>3, SearchLeasesAssumption DEF LeasesTyped, OnShow
    <3> QED
      BY <1>1, <1>2, <2>1, <2>2, <2>3, <3>1
  <2>4. CASE k # published[g]
    BY <1>1, <1>2, <2>1, <2>2, <2>4
  <2> QED
    BY <2>3, <2>4
<1>6. ASSUME NEW m \in M
      PROVE  leases'[m].refs = Cardinality(Holders(m)') + (IF OnShow(m)' THEN 1 ELSE 0)
  <2>1. Holders(m)' = {}
    BY <1>2
  <2>2. Cardinality(Holders(m)') = 0
    BY <2>1, FS_EmptySet
  <2> QED
    BY <1>1, <1>2, <2>2
<1>7. RefsCounted'
  BY <1>1, <1>5, <1>6 DEF RefsCounted
<1>8. \A x \in Walker : views[x].at # "idle" =>
        /\ views[x].last \in DOMAIN leases
        /\ leases'[views[x].last] = leases[views[x].last]
  <2>1. ASSUME NEW x \in Walker, views[x].at # "idle"
        PROVE  views[x].last \in DOMAIN leases /\ views[x].last # published[g]
    BY <1>1, <1>t, <2>1 DEF TakenOutOnce
  <2> QED
    BY <1>1, <2>1
<1>9. TakenOutOnce'
  BY <1>1, <1>8, <1>t DEF TakenOutOnce
<1>10. Flagged'
  <2>1. ASSUME NEW x \in Walker, views'[x].at = "zero"
        PROVE  leases'[views'[x].last].released = FALSE
    BY <1>1, <1>8, <1>t, <2>1 DEF Flagged
  <2>2. ASSUME NEW k \in DOMAIN leases', ~OnShow(k)' PROVE leases'[k].retired = TRUE
    <3>1. k \in DOMAIN leases
      BY <1>1, <1>2, <2>2
    <3> QED
      BY <1>1, <1>2, <1>t, <2>2, <3>1 DEF Flagged
  <2>3. ASSUME NEW k \in DOMAIN leases', leases'[k].refs > 0 PROVE leases'[k].released = FALSE
    BY <1>1, <1>t, <2>3 DEF Flagged
  <2> QED
    BY <2>1, <2>2, <2>3 DEF Flagged
<1> QED
  BY <1>3, <1>4, <1>7, <1>9, <1>10

LEMMA RenewedCovers ==
  ASSUME LeaseInv, NEW g \in Owners, NEW all, Retirement(all, g), NEW M, Renewed(g, all, M)
  PROVE  /\ OnService' = (OnService \ Ended(g)) \cup M
         /\ OnOwner(g)' = (OnOwner(g) \ Ended(g)) \cup M
         /\ \A h \in Owners : h # g => OnOwner(h)' = OnOwner(h)
         /\ Ended(g) \subseteq OnService /\ Ended(g) \subseteq OnOwner(g)
<1>t. LeasesTyped /\ TakenOutOnce
  BY DEF LeaseInv
<1>1. /\ DOMAIN leases' = DOMAIN leases \cup M /\ views' = views
      /\ \A k \in DOMAIN leases : k # published[g] => leases'[k] = leases[k]
      /\ \A k \in DOMAIN leases : k = published[g] =>
           leases[k].refs > 0 /\ leases'[k].refs = leases[k].refs - 1
      /\ \A m \in M : leases'[m].owner = g /\ leases'[m].refs = 1
  BY DEF Renewed, Retirement
<1>2. \A k \in DOMAIN leases : leases'[k].owner = leases[k].owner
  BY RenewedShows
<1>3. ASSUME NEW k \in DOMAIN leases, NEW places, "idle" \notin places
      PROVE  Due(k, places)' <=> Due(k, places) /\ k \notin Ended(g)
  <2>1. CASE k = published[g]
    <3>1. leases[k].refs > 0 /\ leases'[k].refs = leases[k].refs - 1 /\ leases[k].refs \in Nat
      BY <1>1, <1>t, <2>1, RefsType
    <3>2. ~ \E w \in Walker : views[w].at \in places /\ views[w].last = k
      BY <1>3, <1>t, <3>1 DEF TakenOutOnce
    <3>3. Due(k, places) /\ (Due(k, places)' <=> leases'[k].refs > 0)
      BY <1>1, <3>1, <3>2 DEF Due
    <3>4. k \in Ended(g) <=> leases[k].refs = 1
      BY <2>1 DEF Ended
    <3> QED
      BY <3>1, <3>3, <3>4
  <2>2. CASE k # published[g]
    BY <1>1, <2>2 DEF Due, Ended
  <2> QED
    BY <2>1, <2>2
<1>4. \A m \in M : \A places : Due(m, places)'
  BY <1>1 DEF Due
<1>5. /\ \A k \in DOMAIN leases : Due(k, {"zero", "owner", "service"})'
           <=> Due(k, {"zero", "owner", "service"}) /\ k \notin Ended(g)
      /\ \A k \in DOMAIN leases : Due(k, {"zero", "owner"})'
           <=> Due(k, {"zero", "owner"}) /\ k \notin Ended(g)
  BY <1>3
<1>6. OnService' = (OnService \ Ended(g)) \cup M
  BY <1>1, <1>4, <1>5 DEF OnService
<1>7. OnOwner(g)' = (OnOwner(g) \ Ended(g)) \cup M
  BY <1>1, <1>2, <1>4, <1>5 DEF OnOwner
<1>8. \A k \in Ended(g) : k \in DOMAIN leases /\ leases[k].owner = g /\ leases[k].refs > 0
  BY <1>t, SearchLeasesAssumption DEF Ended, LeasesTyped
<1>9. ASSUME NEW h \in Owners, h # g PROVE OnOwner(h)' = OnOwner(h)
  <2>1. \A k \in DOMAIN leases : leases[k].owner = h => k \notin Ended(g)
    BY <1>8, <1>9
  <2>2. \A m \in M : leases'[m].owner # h
    BY <1>1, <1>9
  <2> QED
    BY <1>1, <1>2, <1>5, <2>1, <2>2 DEF OnOwner
<1>10. Ended(g) \subseteq OnService /\ Ended(g) \subseteq OnOwner(g)
  BY <1>8 DEF OnService, OnOwner, Due
<1> QED
  BY <1>6, <1>7, <1>9, <1>10

\* A ledger without the bytes of an ended generation, and with a new one.
LEMMA SumWithout ==
  ASSUME NEW f, NEW g, NEW S, IsFiniteSet(S), \A x \in S : f[x] \in Nat /\ g[x] = f[x],
         NEW D \in SUBSET S, NEW T, T = S \ D
  PROVE  /\ SumFunctionOnSet(g, T) = SumFunctionOnSet(f, S) - SumFunctionOnSet(f, D)
         /\ SumFunctionOnSet(f, D) \in Nat /\ SumFunctionOnSet(f, S) \in Nat
<1>1. IsFiniteSet(S \ D) /\ IsFiniteSet(D)
  BY FS_Subset
<1>2. SumFunctionOnSet(g, S \ D) = SumFunctionOnSet(f, S \ D)
  BY <1>1, SumSame
<1>3. SumFunctionOnSet(f, D) \in Nat
  BY <1>1, SumNat
<1>4. SumFunctionOnSet(f, S \ D) \in Nat
  BY <1>1, SumNat
<1>5. SumFunctionOnSet(f, S) \in Nat
  BY SumNat
<1>6. SumFunctionOnSet(f, S) = SumFunctionOnSet(f, S \ D) + SumFunctionOnSet(f, D)
  <2>1. \A x \in S : f[x] \in Int
    OBVIOUS
  <2> QED
    BY <2>1, SumApart
<1> QED
  BY <1>2, <1>3, <1>4, <1>5, <1>6

LEMMA SumWithNew ==
  ASSUME NEW f, NEW g, NEW S, IsFiniteSet(S), \A x \in S : f[x] \in Nat /\ g[x] = f[x],
         NEW D \in SUBSET S, NEW m, m \notin S, g[m] \in Nat,
         NEW T, T = (S \ D) \cup {m}
  PROVE  SumFunctionOnSet(g, T)
           = SumFunctionOnSet(f, S) - SumFunctionOnSet(f, D) + g[m]
<1>1. PICK R : R = S \ D
  OBVIOUS
<1>2. IsFiniteSet(R) /\ m \notin R /\ \A y \in R \cup {m} : g[y] \in Int
  BY <1>1, FS_Subset
<1>3. SumFunctionOnSet(g, R \cup {m}) = SumFunctionOnSet(g, R) + g[m]
  BY <1>2, SumAdd
<1>4. SumFunctionOnSet(g, R) = SumFunctionOnSet(f, S) - SumFunctionOnSet(f, D)
  BY <1>1, SumWithout
<1> QED
  BY <1>1, <1>3, <1>4

LEMMA PublishLeaseStep ==
  ASSUME LeaseInv, NEW g \in Owners, PublishLease(g)
  PROVE  LeaseInv'
<1>t. LeasesTyped
  BY DEF LeaseInv
<1>1. PICK n \in IndexBytes :
        /\ AdmitsLease(g, n)
        /\ leases' = Append(Retired(g).all, NewLease(g, n))
        /\ published' = [published EXCEPT ![g] = Len(leases) + 1]
        /\ retained' = retained + n - Retired(g).bytes
        /\ ownerRetained' = [ownerRetained EXCEPT ![g] = @ + n - Retired(g).bytes]
        /\ views' = views
  BY DEF PublishLease
<1>2. PICK all, lost, m, new : /\ all = Retired(g).all /\ lost = Retired(g).bytes
                               /\ m = Len(leases) + 1 /\ new = NewLease(g, n)
  OBVIOUS
<1>3. Retirement(all, g) /\ lost = SumFunctionOnSet(Paid, Ended(g))
  BY <1>2, RetiredIs
<1>4. /\ n \in Nat /\ new \in LeaseRecord /\ new.owner = g /\ new.bytes = n
      /\ new.refs = 1 /\ new.released = FALSE
  BY <1>2, SearchLeasesAssumption DEF NewLease, Generation, LeaseRecord
<1>5. /\ DOMAIN leases = 1 .. Len(leases) /\ Len(leases) \in Nat
      /\ m \in Nat /\ m \notin DOMAIN leases
  BY <1>2, <1>t DEF LeasesTyped
<1>6. all \in Seq(LeaseRecord) /\ Len(all) = Len(leases) /\ DOMAIN all = DOMAIN leases
  BY <1>3, <1>5 DEF Retirement, SameGenerations
<1>7. /\ leases' \in Seq(LeaseRecord) /\ DOMAIN leases' = DOMAIN leases \cup {m}
      /\ leases'[m] = new /\ \A k \in DOMAIN leases : leases'[k] = all[k]
  <2>1. leases' = Append(all, new)
    BY <1>1, <1>2
  <2>2. /\ leases' \in Seq(LeaseRecord) /\ DOMAIN leases' = 1 .. (Len(all) + 1)
        /\ leases'[Len(all) + 1] = new /\ \A k \in 1 .. Len(all) : leases'[k] = all[k]
    BY <1>4, <1>6, <2>1
  <2>3. 1 .. (Len(all) + 1) = (1 .. Len(all)) \cup {Len(all) + 1}
    BY <1>5, <1>6
  <2> QED
    BY <1>2, <1>5, <1>6, <2>2, <2>3
<1>8. /\ published'[g] = m
      /\ \A h \in Owners : h # g => published'[h] = published[h]
      /\ published' \in [Owners -> DOMAIN leases' \cup {NoLease}]
  BY <1>1, <1>2, <1>7, <1>t DEF LeasesTyped
<1>9. ownerRetained[g] \in Int /\ lost \in Nat /\ retained \in Nat
  <2>1. OnService \in SUBSET DOMAIN leases /\ Ended(g) \in SUBSET DOMAIN leases
    BY DEF OnService, Ended
  <2> QED
    BY <1>3, <1>t, <2>1, PaidSums DEF LeasesTyped, LeaseInv, ServiceBooked
<1>10. /\ ownerRetained' \in [Owners -> Int]
       /\ ownerRetained'[g] = ownerRetained[g] + n - lost
       /\ \A h \in Owners : h # g => ownerRetained'[h] = ownerRetained[h]
  BY <1>1, <1>2, <1>4, <1>9, <1>t DEF LeasesTyped
<1>11. PICK M : M = {m}
  OBVIOUS
<1>12. Renewed(g, all, M)
  BY <1>1, <1>4, <1>5, <1>7, <1>8, <1>10, <1>11 DEF Renewed
<1>13. LeasesTyped' /\ HeldOnce' /\ RefsCounted' /\ TakenOutOnce' /\ Flagged'
  BY <1>3, <1>12, RenewedKeeps
<1>14. /\ OnService' = (OnService \ Ended(g)) \cup M
       /\ OnOwner(g)' = (OnOwner(g) \ Ended(g)) \cup M
       /\ \A h \in Owners : h # g => OnOwner(h)' = OnOwner(h)
       /\ Ended(g) \subseteq OnService /\ Ended(g) \subseteq OnOwner(g)
  BY <1>3, <1>12, RenewedCovers
<1>15. PICK f, f2 : f = Paid /\ f2 = Paid'
  OBVIOUS
<1>16. /\ \A k \in DOMAIN leases : f[k] \in Nat /\ f2[k] = f[k]
       /\ f2[m] = n
  <2>1. \A k \in DOMAIN leases : leases'[k].bytes = leases[k].bytes
    BY <1>3, <1>12, RenewedShows
  <2> QED
    BY <1>4, <1>7, <1>15, <1>t, <2>1, PaidSums DEF Paid
<1>17. ASSUME NEW S \in SUBSET DOMAIN leases, Ended(g) \subseteq S
       PROVE  SumFunctionOnSet(f2, (S \ Ended(g)) \cup M) = SumFunctionOnSet(f, S) - lost + n
  <2>1. PICK D \in SUBSET S : D = Ended(g)
    BY <1>17
  <2>2. IsFiniteSet(S) /\ \A x \in S : f[x] \in Nat /\ f2[x] = f[x]
    BY <1>16, <1>t, FS_Subset, PaidSums
  <2>3. m \notin S /\ f2[m] = n /\ f2[m] \in Nat
    BY <1>4, <1>5, <1>16
  <2>4. PICK T : T = (S \ D) \cup {m}
    OBVIOUS
  <2>5. SumFunctionOnSet(f2, T) = SumFunctionOnSet(f, S) - SumFunctionOnSet(f, D) + f2[m]
    BY <2>2, <2>3, <2>4, SumWithNew
  <2> QED
    BY <1>3, <1>11, <1>15, <2>1, <2>3, <2>4, <2>5
<1>18. ServiceBooked'
  <2>1. OnService \in SUBSET DOMAIN leases
    BY DEF OnService
  <2>2. retained = SumFunctionOnSet(f, OnService)
    BY <1>15 DEF LeaseInv, ServiceBooked
  <2>3. PICK s : s = SumFunctionOnSet(f2, (OnService \ Ended(g)) \cup M)
    OBVIOUS
  <2>4. s = retained - lost + n
    BY <1>14, <1>17, <2>1, <2>2, <2>3
  <2>5. retained' = s /\ retained' <= RetainedMax
    BY <1>1, <1>2, <1>4, <1>9, <2>4, SearchLeasesAssumption DEF AdmitsLease
  <2> QED
    BY <1>14, <1>15, <2>3, <2>5 DEF ServiceBooked
<1>19. ASSUME NEW h \in Owners
       PROVE  /\ ownerRetained'[h] = SumFunctionOnSet(Paid', OnOwner(h)')
              /\ ownerRetained'[h] <= OwnerMax
  <2>1. OnOwner(h) \in SUBSET DOMAIN leases
    BY DEF OnOwner
  <2>2. ownerRetained[h] = SumFunctionOnSet(f, OnOwner(h)) /\ ownerRetained[h] <= OwnerMax
    BY <1>15 DEF LeaseInv, OwnersBooked
  <2>3. CASE h = g
    <3>1. PICK s : s = SumFunctionOnSet(f2, (OnOwner(g) \ Ended(g)) \cup M)
      OBVIOUS
    <3>2. s = ownerRetained[g] - lost + n
      BY <1>14, <1>17, <2>1, <2>2, <2>3, <3>1
    <3>3. ownerRetained'[g] = s /\ ownerRetained'[g] <= OwnerMax
      BY <1>1, <1>4, <1>9, <1>10, <3>2, SearchLeasesAssumption DEF AdmitsLease
    <3> QED
      BY <1>14, <1>15, <2>3, <3>1, <3>3
  <2>4. CASE h # g
    <3>1. PICK S : S = OnOwner(h)
      OBVIOUS
    <3>2. IsFiniteSet(S) /\ \A x \in S : f2[x] = f[x]
      BY <1>16, <1>t, <2>1, <3>1, FS_Subset, PaidSums
    <3>3. SumFunctionOnSet(f2, S) = SumFunctionOnSet(f, S)
      BY <3>2, SumSame
    <3>4. OnOwner(h)' = S /\ ownerRetained'[h] = ownerRetained[h]
      BY <1>10, <1>14, <2>4, <3>1
    <3> QED
      BY <1>15, <2>2, <3>1, <3>3, <3>4
  <2> QED
    BY <2>3, <2>4
<1>20. OwnersBooked'
  BY <1>19 DEF OwnersBooked
<1> QED
  BY <1>13, <1>18, <1>20 DEF LeaseInv

LEMMA DiscardLeaseStep ==
  ASSUME LeaseInv, NEW g \in Owners, DiscardLease(g)
  PROVE  LeaseInv'
<1>t. LeasesTyped
  BY DEF LeaseInv
<1>1. /\ leases' = Retired(g).all
      /\ published' = [published EXCEPT ![g] = NoLease]
      /\ retained' = retained - Retired(g).bytes
      /\ ownerRetained' = [ownerRetained EXCEPT ![g] = @ - Retired(g).bytes]
      /\ views' = views
  BY DEF DiscardLease
<1>2. PICK all, lost : all = Retired(g).all /\ lost = Retired(g).bytes
  OBVIOUS
<1>3. Retirement(all, g) /\ lost = SumFunctionOnSet(Paid, Ended(g))
  BY <1>2, RetiredIs
<1>4. /\ leases' \in Seq(LeaseRecord) /\ DOMAIN leases' = DOMAIN leases
      /\ \A k \in DOMAIN leases : leases'[k] = all[k]
  BY <1>1, <1>2, <1>3 DEF Retirement, SameGenerations
<1>5. /\ published'[g] = NoLease
      /\ \A h \in Owners : h # g => published'[h] = published[h]
      /\ published' \in [Owners -> DOMAIN leases' \cup {NoLease}]
  BY <1>1, <1>4, <1>t DEF LeasesTyped
<1>6. ownerRetained[g] \in Int /\ lost \in Nat /\ retained \in Nat
  <2>1. OnService \in SUBSET DOMAIN leases /\ Ended(g) \in SUBSET DOMAIN leases
    BY DEF OnService, Ended
  <2> QED
    BY <1>3, <1>t, <2>1, PaidSums DEF LeasesTyped, LeaseInv, ServiceBooked
<1>7. /\ ownerRetained' \in [Owners -> Int]
      /\ ownerRetained'[g] = ownerRetained[g] - lost
      /\ \A h \in Owners : h # g => ownerRetained'[h] = ownerRetained[h]
  BY <1>1, <1>2, <1>6, <1>t DEF LeasesTyped
<1>8. PICK M : M = {}
  OBVIOUS
<1>9. Renewed(g, all, M)
  BY <1>1, <1>4, <1>5, <1>7, <1>8 DEF Renewed
<1>10. LeasesTyped' /\ HeldOnce' /\ RefsCounted' /\ TakenOutOnce' /\ Flagged'
  BY <1>3, <1>9, RenewedKeeps
<1>11. /\ OnService' = OnService \ Ended(g)
       /\ OnOwner(g)' = OnOwner(g) \ Ended(g)
       /\ \A h \in Owners : h # g => OnOwner(h)' = OnOwner(h)
       /\ Ended(g) \subseteq OnService /\ Ended(g) \subseteq OnOwner(g)
  BY <1>3, <1>8, <1>9, RenewedCovers
<1>12. Paid' = Paid
  <2>1. \A k \in DOMAIN leases : leases'[k].bytes = leases[k].bytes
    BY <1>3, <1>9, RenewedShows
  <2> QED
    BY <1>4, <2>1 DEF Paid
<1>13. ASSUME NEW S \in SUBSET DOMAIN leases, Ended(g) \subseteq S
       PROVE  SumFunctionOnSet(Paid, S \ Ended(g)) = SumFunctionOnSet(Paid, S) - lost
  <2>1. PICK D \in SUBSET S : D = Ended(g)
    BY <1>13
  <2>2. PICK f : f = Paid
    OBVIOUS
  <2>3. IsFiniteSet(S) /\ \A x \in S : f[x] \in Nat /\ f[x] = f[x]
    BY <1>t, <2>2, FS_Subset, PaidSums
  <2>4. PICK T : T = S \ D
    OBVIOUS
  <2>5. SumFunctionOnSet(f, T) = SumFunctionOnSet(f, S) - SumFunctionOnSet(f, D)
    BY <2>3, <2>4, SumWithout
  <2> QED
    BY <1>3, <2>1, <2>2, <2>4, <2>5
<1>14. ServiceBooked'
  <2>1. OnService \in SUBSET DOMAIN leases
    BY DEF OnService
  <2>2. retained = SumFunctionOnSet(Paid, OnService) /\ retained <= RetainedMax
    BY DEF LeaseInv, ServiceBooked
  <2>3. retained - lost = SumFunctionOnSet(Paid, OnService \ Ended(g))
    BY <1>11, <1>13, <2>1, <2>2
  <2>4. retained' = retained - lost /\ retained' <= RetainedMax
    BY <1>1, <1>2, <1>6, <2>2, SearchLeasesAssumption
  <2> QED
    BY <1>11, <1>12, <2>3, <2>4 DEF ServiceBooked
<1>15. ASSUME NEW h \in Owners
       PROVE  /\ ownerRetained'[h] = SumFunctionOnSet(Paid', OnOwner(h)')
              /\ ownerRetained'[h] <= OwnerMax
  <2>1. OnOwner(h) \in SUBSET DOMAIN leases
    BY DEF OnOwner
  <2>2. ownerRetained[h] = SumFunctionOnSet(Paid, OnOwner(h)) /\ ownerRetained[h] <= OwnerMax
    BY DEF LeaseInv, OwnersBooked
  <2>3. CASE h = g
    <3>1. ownerRetained[g] - lost = SumFunctionOnSet(Paid, OnOwner(g) \ Ended(g))
      BY <1>11, <1>13, <2>1, <2>2, <2>3
    <3>2. ownerRetained'[g] = ownerRetained[g] - lost /\ ownerRetained'[g] <= OwnerMax
      BY <1>6, <1>7, <2>2, <2>3, SearchLeasesAssumption
    <3> QED
      BY <1>11, <1>12, <2>3, <3>1, <3>2
  <2>4. CASE h # g
    BY <1>7, <1>11, <1>12, <2>2, <2>4
  <2> QED
    BY <2>3, <2>4
<1>16. OwnersBooked'
  BY <1>15 DEF OwnersBooked
<1> QED
  BY <1>10, <1>14, <1>16 DEF LeaseInv

LEMMA LeaseStart == SearchLeasesInit => LeaseInv
<1> SUFFICES ASSUME SearchLeasesInit PROVE LeaseInv
  OBVIOUS
<1>1. /\ leases = << >> /\ retained = 0 /\ DOMAIN leases = {}
      /\ published = [g \in Owners |-> NoLease]
      /\ views = [w \in Walker |-> NoView]
      /\ ownerRetained = [g \in Owners |-> 0]
  BY DEF SearchLeasesInit
<1>2. /\ NoView \in ViewRecord
      /\ NoView.at = "idle" /\ NoView.held = << >> /\ NoView.next = 1
  BY DEF NoView, View, ViewRecord
<1>3. LeasesTyped
  <2>1. leases \in Seq(LeaseRecord)
    BY <1>1
  <2> QED
    BY <1>1, <1>2, <2>1 DEF LeasesTyped
<1>4. HeldOnce
  BY <1>1, <1>2 DEF HeldOnce, Borrowed, ToSet
<1>5. RefsCounted /\ TakenOutOnce /\ Flagged
  BY <1>1, <1>2 DEF RefsCounted, TakenOutOnce, Flagged
<1>6. OnService = {} /\ \A g \in Owners : OnOwner(g) = {}
  BY <1>1 DEF OnService, OnOwner
<1>7. SumFunctionOnSet(Paid, {}) = 0
  BY SumEmpty
<1>8. ServiceBooked /\ OwnersBooked
  <2>1. 0 <= RetainedMax /\ 0 <= OwnerMax
    BY SearchLeasesAssumption
  <2>2. ServiceBooked
    BY <1>1, <1>6, <1>7, <2>1 DEF ServiceBooked
  <2>3. ASSUME NEW g \in Owners
        PROVE  /\ ownerRetained[g] = SumFunctionOnSet(Paid, OnOwner(g))
               /\ ownerRetained[g] <= OwnerMax
    <3>1. ownerRetained[g] = 0 /\ OnOwner(g) = {}
      BY <1>1, <1>6
    <3> QED
      BY <1>7, <2>1, <3>1
  <2> QED
    BY <2>2, <2>3 DEF OwnersBooked
<1> QED
  BY <1>3, <1>4, <1>5, <1>8 DEF LeaseInv

LEMMA LeaseStutter ==
  ASSUME LeaseInv, UNCHANGED leaseVars
  PROVE  LeaseInv'
<1>1. /\ leases' = leases /\ published' = published /\ views' = views
      /\ retained' = retained /\ ownerRetained' = ownerRetained
  BY DEF leaseVars
<1>2. LeasesTyped' /\ HeldOnce' /\ TakenOutOnce'
  BY <1>1 DEF LeaseInv, LeasesTyped, HeldOnce, TakenOutOnce, Borrowed
<1>3. \A l : Holders(l)' = Holders(l) /\ (OnShow(l)' <=> OnShow(l))
  BY <1>1 DEF Holders, Borrowed, OnShow
<1>4. RefsCounted' /\ Flagged'
  BY <1>1, <1>3 DEF LeaseInv, RefsCounted, Flagged
<1>5. Paid' = Paid /\ OnService' = OnService /\ \A g \in Owners : OnOwner(g)' = OnOwner(g)
  BY <1>1 DEF Paid, OnService, OnOwner, Due
<1>6. ServiceBooked' /\ OwnersBooked'
  BY <1>1, <1>5 DEF LeaseInv, ServiceBooked, OwnersBooked
<1> QED
  BY <1>2, <1>4, <1>6 DEF LeaseInv

LEMMA LeaseStep == LeaseInv /\ [SearchLeasesNext]_leaseVars => LeaseInv'
<1> SUFFICES ASSUME LeaseInv, [SearchLeasesNext]_leaseVars PROVE LeaseInv'
  OBVIOUS
<1>1. ASSUME NEW g \in Owners, PublishLease(g) PROVE LeaseInv'
  BY <1>1, PublishLeaseStep
<1>2. ASSUME NEW g \in Owners, DiscardLease(g) PROVE LeaseInv'
  BY <1>2, DiscardLeaseStep
<1>3. ASSUME NEW w \in Walker, Borrow(w) PROVE LeaseInv'
  BY <1>3, BorrowStep
<1>4. ASSUME NEW w \in Walker, GiveBackLease(w) PROVE LeaseInv'
  BY <1>4, GiveBackStep
<1>5. ASSUME NEW w \in Walker, MarkReleased(w) PROVE LeaseInv'
  BY <1>5, MarkReleasedStep
<1>6. ASSUME NEW w \in Walker, ReleaseOwner(w) PROVE LeaseInv'
  BY <1>6, ReleaseOwnerStep
<1>7. ASSUME NEW w \in Walker, ReleaseService(w) PROVE LeaseInv'
  BY <1>7, ReleaseServiceStep
<1>8. CASE UNCHANGED leaseVars
  BY <1>8, LeaseStutter
<1> QED
  BY <1>1, <1>2, <1>3, <1>4, <1>5, <1>6, <1>7, <1>8 DEF SearchLeasesNext

\* What has a reference is what someone may still read.
LEMMA ReferencedIsAlive ==
  ASSUME LeaseInv, NEW l \in DOMAIN leases
  PROVE  Alive(l) <=> leases[l].refs > 0
<1>t. LeasesTyped /\ HeldOnce /\ RefsCounted
  BY DEF LeaseInv
<1>1. leases[l].refs \in Nat /\ leases[l].owner \in Owners
  BY <1>t, RefsType
<1>2. (\E g \in Owners : published[g] = l) <=> OnShow(l)
  <2>1. ASSUME NEW g \in Owners, published[g] = l PROVE OnShow(l)
    <3>1. l # NoLease
      BY <1>t, SearchLeasesAssumption DEF LeasesTyped
    <3> QED
      BY <1>t, <2>1, <3>1 DEF LeasesTyped, OnShow
  <2> QED
    BY <1>1, <2>1 DEF OnShow
<1>3. (\E w \in Walker : l \in ToSet(views[w].held)) <=> Holders(l) # {}
  BY DEF Holders, Borrowed
<1>4. /\ Cardinality(Holders(l)) \in Nat
      /\ Holders(l) # {} <=> Cardinality(Holders(l)) > 0
  <2>1. Cardinality({}) = 0
    BY FS_EmptySet
  <2> QED
    BY <2>1, HoldersFinite
<1>5. leases[l].refs > 0 <=> Holders(l) # {} \/ OnShow(l)
  <2>1. leases[l].refs = Cardinality(Holders(l)) + (IF OnShow(l) THEN 1 ELSE 0)
    BY <1>t DEF RefsCounted
  <2>2. CASE OnShow(l)
    BY <1>4, <2>1, <2>2
  <2>3. CASE ~OnShow(l)
    BY <1>4, <2>1, <2>3
  <2> QED
    BY <2>2, <2>3
<1> QED
  BY <1>2, <1>3, <1>5 DEF Alive

\* The ledgers of the service and of the resources count what is alive and what
\* a request is taking out (catalog.go, publishLeaseLocked, releaseSearch,
\* retireLeaseBytes).
LEMMA LeasesHold == SearchLeasesSpec => []GenerationsAreCounted
<1>1. LeaseInv => GenerationsAreCounted
  <2> SUFFICES ASSUME LeaseInv PROVE GenerationsAreCounted
    OBVIOUS
  <2>1. AliveLeases = {l \in DOMAIN leases : leases[l].refs > 0}
    BY ReferencedIsAlive DEF AliveLeases
  <2>2. \A w \in Walker : views[w].at # "idle" => views[w].last \in DOMAIN leases
    BY DEF LeaseInv, TakenOutOnce
  <2>3. AliveLeases \cup LeavingAt({"zero", "owner", "service"}) = OnService
    BY <2>1, <2>2 DEF LeavingAt, OnService, Due
  <2>4. \A g \in Owners :
          Of(g) \cap (AliveLeases \cup LeavingAt({"zero", "owner"})) = OnOwner(g)
    BY <2>1, <2>2 DEF LeavingAt, OnOwner, Due, Of
  <2>5. \A S : BytesOfLeases(S) = SumFunctionOnSet(Paid, S)
    BY DEF BytesOfLeases, Paid
  <2>6. retained = BytesOfLeases(OnService) /\ retained <= RetainedMax
    BY <2>5 DEF LeaseInv, ServiceBooked
  <2>7. \A g \in Owners :
          ownerRetained[g] = BytesOfLeases(OnOwner(g)) /\ ownerRetained[g] <= OwnerMax
    BY <2>5 DEF LeaseInv, OwnersBooked
  <2> QED
    BY <2>3, <2>4, <2>6, <2>7 DEF GenerationsAreCounted
<1> QED
  BY <1>1, LeaseStart, LeaseStep, PTL DEF SearchLeasesSpec

-----------------------------------------------------------------------------
(* All the counters *)

LEMMA CountersTogether ==
  ASSUME MemoryAccounted, GenerationsAreCounted, RunningIsCounted, DraftCapKept,
         ClaimIsHeld, UsageIsAccounted
  PROVE  CountersAgree
BY DEF CountersAgree

\* Every counter of the API process is what it counts, whatever the parts do
\* beside each other: the bytes of the in-process cache (cache.go, LRU), the
\* generations of the search index (catalog.go, searchLease), the running
\* queries (queryprotect/protect.go), the drafts of an author
\* (dashboard/store.go), the probe of an upstream (upstream.go), and the usage
\* of pods (usage_store.go).
THEOREM CountersAgreeAlways ==
  /\ LocalCacheSpec /\ SearchLeasesSpec /\ QueryGuardSpec
  /\ DashboardDraftsSpec /\ UpstreamSpec /\ UsageStoreSpec
  => []CountersAgree
BY MemoryHolds, LeasesHold, RunningHolds, DraftsAreCapped, ClaimHolds, UsageHolds,
   CountersTogether, PTL
-----------------------------------------------------------------------------
(* The list of drafts *)

Listed == [next : {"none", "first", "end"}, shown : Seq(DraftId), steady : SUBSET DraftId]
ListedOn == [next : {"more"}, shown : Seq(DraftId), steady : SUBSET DraftId,
             cursor : [id : DraftId, at : Nat]]

Once(seq) == \A i, j \in 1 .. Len(seq) : i # j => seq[i] # seq[j]

\* What the cursor divides: the drafts shown are not behind it, and one that
\* has been listable all along is shown or is behind it.
CursorDivides(table, shown, steady, cursor) ==
    /\ \A id \in ToSet(shown) \cap DOMAIN table :
         ~(table[id].at < cursor.at \/ (table[id].at = cursor.at /\ id < cursor.id))
    /\ \A id \in steady \cap DOMAIN table :
         \/ id \in ToSet(shown)
         \/ table[id].at < cursor.at \/ (table[id].at = cursor.at /\ id < cursor.id)

ListInv ==
    /\ listing \in Listed \cup ListedOn
    /\ ToSet(listing.shown) \subseteq spent
    /\ Once(listing.shown)
    /\ listing.steady \subseteq Listable(drafts)
    /\ listing.next \in {"none", "first"} => listing.shown = << >>
    /\ listing.next = "more" =>
         CursorDivides(drafts, listing.shown, listing.steady, listing.cursor)
    /\ listing.next = "end" => listing.steady \subseteq ToSet(listing.shown)

\* What a statement of the database leaves of the table for a list: a draft
\* stays as old and as visible as it was, and a new one has a new id.
TableKeeps ==
    /\ \A x \in DOMAIN drafts' \cap DOMAIN drafts :
         drafts'[x].at = drafts[x].at
         /\ (x \in Listable(drafts) => x \in Listable(drafts'))
    /\ DOMAIN drafts' \cap spent \subseteq DOMAIN drafts
    /\ spent \subseteq spent'
    /\ listing' = [listing EXCEPT !.steady = @ \cap DOMAIN drafts']

LEMMA ListedFields ==
    ASSUME NEW l \in Listed \cup ListedOn
    PROVE  /\ l.shown \in Seq(DraftId) /\ l.steady \in SUBSET DraftId
           /\ l.next \in {"none", "first", "more", "end"}
           /\ l.next = "more" => l.cursor.id \in DraftId /\ l.cursor.at \in Nat
BY DEF Listed, ListedOn

LEMMA SteadyShrinks ==
    ASSUME NEW l \in Listed \cup ListedOn, NEW T
    PROVE  LET m == [l EXCEPT !.steady = @ \cap T]
           IN  /\ m \in Listed \cup ListedOn
               /\ m.shown = l.shown /\ m.next = l.next /\ m.steady = l.steady \cap T
               /\ l.next = "more" => m.cursor = l.cursor
<1>1. l.steady \cap T \in SUBSET DraftId
  BY ListedFields
<1> DEFINE s == l.steady \cap T
           m == [l EXCEPT !.steady = s]
<1>2. s \in SUBSET DraftId
  BY <1>1
<1> HIDE DEF s
<1>3. /\ m \in Listed \cup ListedOn
      /\ m.shown = l.shown /\ m.next = l.next /\ m.steady = s
      /\ l.next = "more" => m.cursor = l.cursor
  <2>1. CASE l \in Listed
    BY <1>2, <2>1 DEF Listed
  <2>2. CASE l \in ListedOn
    BY <1>2, <2>2 DEF ListedOn
  <2> QED
    BY <2>1, <2>2
<1> QED
  BY <1>3 DEF s

LEMMA KeepsList == ASSUME DraftsTyped, ListInv, TableKeeps PROVE ListInv'
<1> DEFINE l == listing
           m == listing'
<1>1. /\ m \in Listed \cup ListedOn
      /\ m.shown = l.shown /\ m.next = l.next /\ m.steady = l.steady \cap DOMAIN drafts'
      /\ l.next = "more" => m.cursor = l.cursor
  BY SteadyShrinks DEF ListInv, TableKeeps
<1>2. ToSet(m.shown) \subseteq spent' /\ Once(m.shown)
  BY <1>1 DEF ListInv, TableKeeps
<1>3. m.steady \subseteq Listable(drafts')
  BY <1>1 DEF ListInv, TableKeeps, Listable
<1>4. m.next \in {"none", "first"} => m.shown = << >>
  BY <1>1 DEF ListInv
<1>5. m.next = "more" => CursorDivides(drafts', m.shown, m.steady, m.cursor)
  <2> SUFFICES ASSUME m.next = "more" PROVE CursorDivides(drafts', m.shown, m.steady, m.cursor)
    OBVIOUS
  <2>1. CursorDivides(drafts, l.shown, l.steady, l.cursor)
    BY <1>1 DEF ListInv
  <2>2. \A id \in DOMAIN drafts' \cap spent : drafts'[id].at = drafts[id].at /\ id \in DOMAIN drafts
    BY DEF TableKeeps
  <2>3. m.cursor = l.cursor /\ ToSet(l.shown) \subseteq spent /\ m.steady \subseteq spent
    BY <1>1 DEF ListInv, Listable, DraftsTyped
  <2> QED
    BY <1>1, <2>1, <2>2, <2>3 DEF CursorDivides
<1>6. m.next = "end" => m.steady \subseteq ToSet(m.shown)
  BY <1>1 DEF ListInv
<1>7. Listable(drafts)' = Listable(drafts')
  BY DEF Listable
<1> QED
  BY <1>1, <1>2, <1>3, <1>4, <1>5, <1>6, <1>7 DEF ListInv
\* A write takes a draft to a state that is seen by all who saw it.
LEMMA RevisedKeeps ==
    ASSUME DraftsTyped, ListInv, NEW id \in DOMAIN drafts, NEW c,
           NEW st, st = drafts[id].state \/ st \in {"submitted", "approved"},
           drafts' = [drafts EXCEPT ![id] = Revised(drafts[id], st, c)],
           spent' = spent, listing' = [listing EXCEPT !.steady = @ \cap DOMAIN drafts']
    PROVE  TableKeeps
<1> DEFINE new == Revised(drafts[id], st, c)
<1>1. new.owner = drafts[id].owner /\ new.at = drafts[id].at /\ new.state = st
  BY DEF Revised
<1>2. Sees(Lister, Lister \in Publisher, drafts[id]) => Sees(Lister, Lister \in Publisher, new)
  BY <1>1 DEF Sees
<1> HIDE DEF new
<1>3. DOMAIN drafts' = DOMAIN drafts /\ drafts'[id] = new
      /\ \A x \in DOMAIN drafts : x # id => drafts'[x] = drafts[x]
  BY DEF DraftsTyped, new
<1>4. ASSUME NEW x \in DOMAIN drafts
      PROVE  drafts'[x].at = drafts[x].at /\ (x \in Listable(drafts) => x \in Listable(drafts'))
  BY <1>1, <1>2, <1>3 DEF Listable
<1> QED
  BY <1>3, <1>4 DEF TableKeeps

LEMMA WritesKeep ==
    ASSUME DraftsTyped, ListInv, NEW p \in Page,
           (\E c \in Content : HandleUpdate(p, c)) \/ Submit(p) \/ Approve(p)
    PROVE  TableKeeps
<1>1. ASSUME NEW c \in Content, HandleUpdate(p, c) PROVE TableKeeps
  <2>1. PICK s \in read[p] :
          /\ Matches(s.id, AccountOf[p], s.rev, {"draft"})
          /\ Changed(s.id, Revised(drafts[s.id], "draft", c))
    BY <1>1 DEF HandleUpdate
  <2> DEFINE id == s.id
  <2>2. /\ id \in DOMAIN drafts /\ drafts[id].state = "draft" /\ spent' = spent
        /\ drafts' = [drafts EXCEPT ![id] = Revised(drafts[id], "draft", c)]
        /\ listing' = [listing EXCEPT !.steady = @ \cap DOMAIN drafts']
    BY <1>1, <2>1 DEF HandleUpdate, Matches, Changed, SetDrafts
  <2> HIDE DEF id
  <2> QED
    BY <2>2, RevisedKeeps
<1>2. CASE Submit(p) \/ Approve(p)
  <2> DEFINE id == work[p].id
  <2>1. PICK st \in {"submitted", "approved"} : Moved(p, st)
    BY <1>2 DEF Submit, Approve
  <2>2. id \in DOMAIN drafts /\ spent' = spent
    BY <1>2 DEF Submit, Approve, Matches
  <2>3. /\ drafts' = [drafts EXCEPT ![id] = Revised(drafts[id], st, drafts[id].content)]
        /\ listing' = [listing EXCEPT !.steady = @ \cap DOMAIN drafts']
    BY <2>1 DEF Moved, Changed, SetDrafts
  <2> HIDE DEF id
  <2> QED
    BY <2>1, <2>2, <2>3, RevisedKeeps
<1> QED
  BY <1>1, <1>2

LEMMA InsertKeeps ==
    ASSUME DraftsTyped, ListInv, NEW p \in Page, CreateInsert(p)
    PROVE  TableKeeps
<1>1. PICK id, new :
        /\ id \in DraftId \ spent
        /\ spent' = spent \cup {id}
        /\ drafts' = [x \in DOMAIN drafts \cup {id} |-> IF x = id THEN new ELSE drafts[x]]
        /\ listing' = [listing EXCEPT !.steady = @ \cap DOMAIN drafts']
  <2>1. PICK id \in DraftId \ spent :
          LET d == [owner |-> AccountOf[p], rev |-> 1, state |-> "draft",
                    content |-> work[p].content, at |-> instant]
          IN  /\ spent' = spent \cup {id}
              /\ SetDrafts([x \in DOMAIN drafts \cup {id} |-> IF x = id THEN d ELSE drafts[x]])
    BY DEF CreateInsert
  <2> QED
    BY <2>1 DEF SetDrafts
<1>2. id \notin DOMAIN drafts /\ DOMAIN drafts' = DOMAIN drafts \cup {id}
      /\ \A x \in DOMAIN drafts : drafts'[x] = drafts[x]
  BY <1>1 DEF DraftsTyped
<1> QED
  BY <1>1, <1>2 DEF TableKeeps, Listable

LEMMA DeleteKeeps ==
    ASSUME DraftsTyped, ListInv, NEW p \in Page, HandleDelete(p)
    PROVE  TableKeeps
<1>1. PICK s \in read[p] : SetDrafts(Restrict(drafts, DOMAIN drafts \ {s.id}))
  BY DEF HandleDelete
<1>2. /\ DOMAIN drafts' \subseteq DOMAIN drafts /\ spent' = spent
      /\ \A x \in DOMAIN drafts' : drafts'[x] = drafts[x]
      /\ listing' = [listing EXCEPT !.steady = @ \cap DOMAIN drafts']
  BY <1>1 DEF HandleDelete, SetDrafts, Restrict
<1> QED
  BY <1>2 DEF TableKeeps, Listable

\* The order of the rows of a page is a total one: two drafts have two ids.
NewerPairs(rows) == {q \in rows \X rows : Newer(q[1], q[2])}

LEMMA NewestOrder ==
    ASSUME DraftsTyped, NEW rows \in SUBSET DOMAIN drafts
    PROVE  Orders(NewerPairs(rows), rows)
<1>1. \A x \in rows : x \in Nat /\ drafts[x].at \in Nat
  BY DashboardDraftsAssumption DEF DraftsTyped, TypedRow
<1>2. \A x, y \in rows : <<x, y>> \in NewerPairs(rows) <=> Newer(x, y)
  BY DEF NewerPairs
<1>3. ASSUME NEW x \in rows PROVE ~Newer(x, x)
  BY <1>1 DEF Newer
<1>4. ASSUME NEW x \in rows, NEW y \in rows, NEW z \in rows, Newer(x, y), Newer(y, z)
      PROVE  Newer(x, z)
  <2> DEFINE a == drafts[x].at
             b == drafts[y].at
             c == drafts[z].at
  <2>1. a \in Nat /\ b \in Nat /\ c \in Nat /\ x \in Nat /\ y \in Nat /\ z \in Nat
    BY <1>1
  <2>2. (a > b \/ (a = b /\ x > y)) /\ (b > c \/ (b = c /\ y > z))
    BY <1>4 DEF Newer
  <2> HIDE DEF a, b, c
  <2>3. a > c \/ (a = c /\ x > z)
    BY <2>1, <2>2
  <2> QED
    BY <2>3 DEF Newer, a, c
<1>5. ASSUME NEW x \in rows, NEW y \in rows, x # y PROVE Newer(x, y) \/ Newer(y, x)
  <2> DEFINE a == drafts[x].at
             b == drafts[y].at
  <2>1. a \in Nat /\ b \in Nat /\ x \in Nat /\ y \in Nat
    BY <1>1
  <2> HIDE DEF a, b
  <2>2. (a > b \/ (a = b /\ x > y)) \/ (b > a \/ (b = a /\ y > x))
    BY <1>5, <2>1
  <2> QED
    BY <2>2 DEF Newer, a, b
<1> QED
  BY <1>2, <1>3, <1>4, <1>5 DEF Orders

LEMMA NewestLine ==
    ASSUME DraftsTyped, NEW rows \in SUBSET DOMAIN drafts, IsFiniteSet(rows)
    PROVE  /\ NewestFirst(rows) \in SetToSeqs(rows)
           /\ \A i, j \in DOMAIN NewestFirst(rows) :
                i < j => Newer(NewestFirst(rows)[i], NewestFirst(rows)[j])
<1>1. PICK line \in SetToSeqs(rows) : Ascending(line, NewerPairs(rows))
  BY NewestOrder, SortedExists
<1>2. \A i, j \in DOMAIN line : i < j => Newer(line[i], line[j])
  BY <1>1 DEF Ascending, NewerPairs
<1> QED
  BY <1>1, <1>2 DEF NewestFirst
\* A page is the newest of the rows, and its last row divides it from the rest.
LEMMA PageIs ==
    ASSUME DraftsTyped, NEW rows \in SUBSET DOMAIN drafts, IsFiniteSet(rows)
    PROVE  LET page == PageOf(rows, PageLimit)
           IN  /\ page \in Seq(rows) /\ Once(page)
               /\ ~(Cardinality(rows) > PageLimit) => ToSet(page) = rows
               /\ Cardinality(rows) > PageLimit =>
                    /\ Last(page) \in rows
                    /\ \A id \in ToSet(page) : id = Last(page) \/ Newer(id, Last(page))
                    /\ \A id \in rows : id \in ToSet(page) \/ Newer(Last(page), id)
<1> DEFINE line == NewestFirst(rows)
           c == Cardinality(rows)
           n == IF c > PageLimit THEN PageLimit ELSE c
           page == SubSeq(line, 1, n)
<1>1. /\ line \in SetToSeqs(rows)
      /\ \A i, j \in DOMAIN line : i < j => Newer(line[i], line[j])
  BY NewestLine
<1>2. /\ c \in Nat /\ DOMAIN line = 1 .. c /\ line \in Seq(rows)
      /\ \A i, j \in 1 .. c : i # j => line[i] # line[j]
      /\ \A x \in rows : \E i \in 1 .. c : line[i] = x
  BY <1>1, LineOf
<1>p. page = PageOf(rows, PageLimit)
  BY DEF PageOf
<1> HIDE DEF line, c
<1>3. PageLimit \in Nat /\ PageLimit > 0 /\ n \in Nat /\ n <= c
  BY <1>2, DashboardDraftsAssumption
<1>4. (c > PageLimit => n = PageLimit) /\ (~(c > PageLimit) => n = c)
  OBVIOUS
<1> HIDE DEF n
<1>5. \A i \in 1 .. n : i \in 1 .. c /\ line[i] \in rows
  <2>1. \A i \in 1 .. n : i \in 1 .. c
    BY <1>2, <1>3
  <2> QED
    BY <1>2, <2>1, ElementOfSeq, LenProperties
<1>6. /\ page \in Seq(rows) /\ Len(page) = n /\ DOMAIN page = 1 .. n
      /\ \A i \in 1 .. n : page[i] = line[i]
  <2>1. /\ page \in Seq(rows)
        /\ Len(page) = IF 1 <= n THEN n - 1 + 1 ELSE 0
        /\ \A i \in 1 .. n - 1 + 1 : page[i] = line[1 + i - 1]
    BY <1>3, <1>5, SubSeqProperties
  <2>2. Len(page) = n
    BY <1>3, <2>1
  <2>3. \A i \in 1 .. n : 1 + i - 1 = i /\ i \in 1 .. n - 1 + 1
    BY <1>3
  <2> QED
    BY <2>1, <2>2, <2>3, LenProperties
<1> HIDE DEF page
<1>7. Once(page)
  BY <1>2, <1>5, <1>6 DEF Once
<1>8. ToSet(page) \subseteq rows
  BY <1>5, <1>6 DEF ToSet
<1>9. ASSUME ~(c > PageLimit) PROVE ToSet(page) = rows
  <2>1. n = c
    BY <1>4, <1>9
  <2> QED
    BY <1>2, <1>6, <1>8, <2>1 DEF ToSet
<1>10. ASSUME c > PageLimit
       PROVE  /\ Last(page) \in rows
              /\ \A id \in ToSet(page) : id = Last(page) \/ Newer(id, Last(page))
              /\ \A id \in rows : id \in ToSet(page) \/ Newer(Last(page), id)
  <2>1. n \in 1 .. n /\ Last(page) = line[n]
    BY <1>3, <1>4, <1>6, <1>10 DEF Last
  <2>2. ASSUME NEW i \in 1 .. n PROVE i = n \/ Newer(line[i], line[n])
    <3>1. i = n \/ i < n
      BY <1>3
    <3> QED
      BY <1>1, <1>2, <1>5, <2>1, <3>1
  <2>3. ASSUME NEW i \in 1 .. c PROVE i \in 1 .. n \/ Newer(line[n], line[i])
    <3>1. i \in 1 .. n \/ n < i
      BY <1>2, <1>3
    <3> QED
      BY <1>1, <1>2, <1>5, <2>1, <3>1
  <2>4. \A id \in ToSet(page) : \E i \in 1 .. n : id = line[i]
    BY <1>6 DEF ToSet
  <2>5. \A i \in 1 .. n : line[i] \in ToSet(page)
    BY <1>6 DEF ToSet
  <2>6. \A id \in rows : id \in ToSet(page) \/ Newer(Last(page), id)
    BY <1>2, <2>1, <2>3, <2>5
  <2> QED
    BY <1>5, <2>1, <2>2, <2>4, <2>6
<1> QED
  BY <1>6, <1>7, <1>9, <1>10, <1>p DEF c

\* The next page shows nothing twice and skips nothing that was there.
LEMMA ListPageStep ==
    ASSUME DraftsTyped, RoomLeft, ListInv, ListPage
    PROVE  ListInv'
<1> DEFINE l == listing
           m == listing'
           rows == {id \in Listable(drafts) : l.next = "first" \/ BeforeCursor(id, l.cursor)}
           page == PageOf(rows, PageLimit)
<1>1. /\ l \in Listed \cup ListedOn /\ l.shown \in Seq(DraftId) /\ l.steady \in SUBSET DraftId
      /\ l.next \in {"first", "more"}
      /\ l.next = "more" => l.cursor.id \in Nat /\ l.cursor.at \in Nat
  BY ListedFields, DashboardDraftsAssumption DEF ListInv, ListPage
<1>2. rows \in SUBSET DOMAIN drafts /\ IsFiniteSet(rows)
  BY FS_Subset DEF Listable, RoomLeft
<1>3. \A x \in DOMAIN drafts : x \in DraftId /\ x \in Nat /\ drafts[x].at \in Nat /\ x \in spent
  BY DashboardDraftsAssumption DEF DraftsTyped, TypedRow
<1>4. /\ page \in Seq(rows) /\ Once(page)
      /\ ~(Cardinality(rows) > PageLimit) => ToSet(page) = rows
      /\ Cardinality(rows) > PageLimit =>
           /\ Last(page) \in rows
           /\ \A id \in ToSet(page) : id = Last(page) \/ Newer(id, Last(page))
           /\ \A id \in rows : id \in ToSet(page) \/ Newer(Last(page), id)
  BY <1>2, PageIs
<1>5. IF Cardinality(rows) > PageLimit
      THEN m = [next |-> "more", shown |-> l.shown \o page, steady |-> l.steady,
                cursor |-> [id |-> Last(page), at |-> drafts[Last(page)].at]]
      ELSE m = [next |-> "end", shown |-> l.shown \o page, steady |-> l.steady]
  BY DEF ListPage
<1>6. UNCHANGED <<drafts, spent>>
  BY DEF ListPage
<1>7. l.next = "first" => l.shown = << >>
  BY DEF ListInv
<1>8. l.next = "more" =>
        /\ \A id \in ToSet(l.shown) \cap DOMAIN drafts : ~BeforeCursor(id, l.cursor)
        /\ \A id \in l.steady : id \in ToSet(l.shown) \/ BeforeCursor(id, l.cursor)
  BY DEF ListInv, CursorDivides, BeforeCursor, Listable
<1>9. l.steady \subseteq ToSet(l.shown) \cup rows /\ ToSet(l.shown) \cap rows = {}
  <2>1. CASE l.next = "first"
    <3>1. ToSet(l.shown) = {} /\ rows = Listable(drafts)
      BY <1>7, <2>1 DEF ToSet
    <3> QED
      BY <3>1 DEF ListInv
  <2>2. CASE l.next = "more"
    BY <1>2, <1>8, <2>2 DEF ListInv
  <2> QED
    BY <1>1, <2>1, <2>2
<1>10. rows \subseteq DraftId /\ rows \subseteq spent
  BY <1>2, <1>3
<1>11. ASSUME NEW id \in rows PROVE l.next = "more" => BeforeCursor(id, l.cursor)
  BY <1>11
<1> HIDE DEF l, m, rows, page
<1>12. page \in Seq(DraftId) /\ ToSet(page) \subseteq rows
  BY <1>4, <1>10, LenProperties, ElementOfSeq DEF ToSet
<1> DEFINE s == l.shown \o page
<1>13. /\ s \in Seq(DraftId) /\ ToSet(s) = ToSet(l.shown) \cup ToSet(page)
       /\ Len(s) = Len(l.shown) + Len(page)
       /\ Len(l.shown) \in Nat /\ Len(page) \in Nat
       /\ \A i \in 1 .. Len(l.shown) : s[i] = l.shown[i]
       /\ \A i \in 1 .. Len(page) : s[Len(l.shown) + i] = page[i]
       /\ \A i \in 1 .. Len(l.shown) + Len(page) :
            i \in 1 .. Len(l.shown) \/ (i > Len(l.shown) /\ i - Len(l.shown) \in 1 .. Len(page))
  BY <1>1, <1>12, Joined
<1> HIDE DEF s
<1>14. Once(s)
  <2> DEFINE a == Len(l.shown)
             b == Len(page)
  <2>1. ASSUME NEW i \in 1 .. a + b, NEW j \in 1 .. a + b, i < j PROVE s[i] # s[j]
    <3>1. ASSUME i \in 1 .. a, j \in 1 .. a PROVE s[i] # s[j]
      <4>1. l.shown[i] # l.shown[j]
        BY <2>1, <3>1 DEF ListInv, Once, l
      <4> QED
        BY <1>13, <3>1, <4>1
    <3>2. ASSUME i \in 1 .. a, j - a \in 1 .. b PROVE s[i] # s[j]
      <4>1. s[i] \in ToSet(l.shown)
        BY <1>1, <1>13, <3>2, LenProperties DEF ToSet
      <4>2. s[j] \in ToSet(page)
        <5>1. a + (j - a) = j
          BY <1>13
        <5>2. s[j] = page[j - a]
          BY <1>13, <3>2, <5>1
        <5> QED
          BY <1>12, <3>2, <5>2, LenProperties DEF ToSet
      <4> QED
        BY <1>9, <1>12, <4>1, <4>2
    <3>3. ASSUME i - a \in 1 .. b, j - a \in 1 .. b PROVE s[i] # s[j]
      <4>1. a + (j - a) = j /\ a + (i - a) = i /\ i - a # j - a
        BY <1>13, <2>1
      <4>2. s[i] = page[i - a] /\ s[j] = page[j - a]
        BY <1>13, <3>3, <4>1
      <4>3. page[i - a] # page[j - a]
        BY <1>4, <3>3, <4>1 DEF Once
      <4> QED
        BY <4>2, <4>3
    <3>4. (i \in 1 .. a \/ (i > a /\ i - a \in 1 .. b))
          /\ (j \in 1 .. a \/ (j > a /\ j - a \in 1 .. b))
      BY <1>13
    <3>5. ~(i > a /\ j \in 1 .. a)
      BY <1>13, <2>1
    <3> QED
      BY <3>1, <3>2, <3>3, <3>4, <3>5
  <2>2. \A i, j \in 1 .. a + b : i # j => i < j \/ j < i
    BY <1>13
  <2> QED
    BY <1>13, <2>1, <2>2 DEF Once
<1>15. ToSet(s) \subseteq spent /\ l.steady \subseteq Listable(drafts)
  BY <1>10, <1>12, <1>13 DEF ListInv, l
<1>16. CASE Cardinality(rows) > PageLimit
  <2> DEFINE last == Last(page)
             cur == [id |-> last, at |-> drafts[last].at]
  <2>1. m = [next |-> "more", shown |-> s, steady |-> l.steady, cursor |-> cur]
    BY <1>5, <1>16 DEF s
  <2>2. /\ last \in rows /\ last \in DOMAIN drafts
        /\ last \in DraftId /\ last \in Nat /\ drafts[last].at \in Nat
    BY <1>2, <1>3, <1>4, <1>16
  <2>3. cur \in [id : DraftId, at : Nat] /\ cur.id = last /\ cur.at = drafts[last].at
    BY <2>2
  <2> DEFINE old == drafts[last].at
  <2>4. ASSUME NEW x \in DOMAIN drafts
        PROVE  BeforeCursor(x, cur) <=> Newer(last, x)
    <3>1. drafts[x].at \in Nat /\ x \in Nat
      BY <1>3
    <3> DEFINE ax == drafts[x].at
    <3>2. (ax < old \/ (ax = old /\ x < last)) <=> (old > ax \/ (old = ax /\ last > x))
      BY <2>2, <3>1
    <3> QED
      BY <2>3, <3>2 DEF BeforeCursor, Newer
  <2>5. ASSUME NEW x \in ToSet(s) \cap DOMAIN drafts PROVE ~BeforeCursor(x, cur)
    <3>0. x \in Nat /\ drafts[x].at \in Nat
      BY <1>3
    <3> DEFINE ax == drafts[x].at
    <3>1. CASE x \in ToSet(page)
      <4>1. x = last \/ Newer(x, last)
        BY <1>4, <1>16, <3>1
      <4>2. x = last \/ ax > old \/ (ax = old /\ x > last)
        BY <4>1 DEF Newer
      <4>3. ~(old > ax \/ (old = ax /\ last > x))
        BY <2>2, <3>0, <4>2
      <4>4. ~Newer(last, x)
        BY <4>3 DEF Newer
      <4> QED
        BY <2>4, <4>4
    <3>2. CASE x \in ToSet(l.shown)
      <4>1. l.next = "more"
        BY <1>1, <1>7, <3>2 DEF ToSet
      <4>2. ~BeforeCursor(x, l.cursor) /\ BeforeCursor(last, l.cursor)
        BY <1>8, <1>11, <2>2, <3>2, <4>1
      <4> DEFINE ca == l.cursor.at
                 ci == l.cursor.id
      <4>3. ~(ax < ca \/ (ax = ca /\ x < ci)) /\ (old < ca \/ (old = ca /\ last < ci))
        BY <4>2 DEF BeforeCursor
      <4>4. ca \in Nat /\ ci \in Nat
        BY <1>1, <4>1
      <4>5. ~(old > ax \/ (old = ax /\ last > x))
        BY <2>2, <3>0, <4>3, <4>4
      <4>6. ~Newer(last, x)
        BY <4>5 DEF Newer
      <4> QED
        BY <2>4, <4>6
    <3> QED
      BY <1>13, <2>5, <3>1, <3>2
  <2>6. ASSUME NEW x \in l.steady PROVE x \in ToSet(s) \/ BeforeCursor(x, cur)
    <3>1. x \in ToSet(l.shown) \/ x \in rows
      BY <1>9, <2>6
    <3>2. x \in rows => x \in ToSet(page) \/ Newer(last, x)
      BY <1>4, <1>16
    <3> QED
      BY <1>2, <1>13, <2>4, <3>1, <3>2
  <2>7. CursorDivides(drafts, s, l.steady, cur)
    BY <2>5, <2>6 DEF CursorDivides, BeforeCursor
  <2> HIDE DEF cur
  <2>8. /\ m \in ListedOn /\ m.shown = s /\ m.next = "more" /\ m.steady = l.steady
        /\ m.cursor = cur
    BY <1>1, <1>13, <2>1, <2>3 DEF ListedOn
  <2>9. Listable(drafts)' = Listable(drafts)
    BY <1>6 DEF Listable
  <2> QED
    BY <1>6, <1>14, <1>15, <2>7, <2>8, <2>9 DEF ListInv, m
<1>17. CASE ~(Cardinality(rows) > PageLimit)
  <2>1. m = [next |-> "end", shown |-> s, steady |-> l.steady]
    BY <1>5, <1>17 DEF s
  <2>2. m \in Listed /\ m.shown = s /\ m.next = "end" /\ m.steady = l.steady
    BY <1>1, <1>13, <2>1 DEF Listed
  <2>3. l.steady \subseteq ToSet(s)
    BY <1>4, <1>9, <1>13, <1>17
  <2>4. Listable(drafts)' = Listable(drafts)
    BY <1>6 DEF Listable
  <2> QED
    BY <1>6, <1>14, <1>15, <2>2, <2>3, <2>4 DEF ListInv, m
<1> QED
  BY <1>16, <1>17
LEMMA ListStartStep ==
    ASSUME DraftsTyped, ListInv, ListStart PROVE ListInv'
<1>1. /\ listing' = [next |-> "first", shown |-> << >>, steady |-> Listable(drafts)]
      /\ UNCHANGED <<drafts, spent>>
  BY DEF ListStart
<1>2. Listable(drafts) \in SUBSET DraftId /\ Listable(drafts)' = Listable(drafts)
  BY <1>1 DEF Listable, DraftsTyped
<1>3. << >> \in Seq(DraftId) /\ Len(<< >>) = 0 /\ ToSet(<< >>) = {}
  BY DEF ToSet
<1>4. /\ listing' \in Listed /\ listing'.shown = << >> /\ listing'.next = "first"
      /\ listing'.steady = Listable(drafts)
  BY <1>1, <1>2, <1>3 DEF Listed
<1>5. Once(<< >>)
  <2>1. \A i : i \notin 1 .. 0
    <3>1. \A i \in Int : ~(1 <= i /\ i <= 0)
      OBVIOUS
    <3> QED
      BY <3>1
  <2> QED
    BY <1>3, <2>1 DEF Once
<1> QED
  BY <1>1, <1>2, <1>3, <1>4, <1>5 DEF ListInv

LEMMA ListStep ==
    ScreenInv /\ CapInv /\ ListInv /\ [DashboardDraftsNext]_draftVars => ListInv'
<1> SUFFICES ASSUME ScreenInv, CapInv, ListInv, [DashboardDraftsNext]_draftVars PROVE ListInv'
  OBVIOUS
<1>0. DraftsTyped /\ RoomLeft
  BY DEF ScreenInv, CapInv
<1>1. ASSUME NEW p \in Page,
             \/ \E c \in Content : HandleUpdate(p, c)
             \/ Submit(p) \/ Approve(p) \/ CreateInsert(p) \/ HandleDelete(p)
      PROVE  ListInv'
  BY <1>0, <1>1, WritesKeep, InsertKeeps, DeleteKeeps, KeepsList
<1>2. ASSUME UNCHANGED <<drafts, spent, listing>> PROVE ListInv'
  BY <1>2 DEF ListInv, Listable
<1>3. ASSUME NEW p \in Page,
             \/ \E id \in DraftId : HandleGet(p, id) \/ HandleClone(p, id)
             \/ \E c \in Content : HandleCreate(p, c)
             \/ CreateCount(p) \/ HandleSubmit(p) \/ HandleApprove(p) \/ Refused(p)
      PROVE  ListInv'
  <2>1. UNCHANGED <<drafts, spent, listing>>
    BY <1>3 DEF HandleGet, HandleClone, HandleCreate, CreateCount, HandleSubmit,
       HandleApprove, Refused
  <2> QED
    BY <1>2, <2>1
<1>4. CASE ListStart
  BY <1>0, <1>4, ListStartStep
<1>5. CASE ListPage
  BY <1>0, <1>5, ListPageStep
<1>6. CASE DraftClock \/ UNCHANGED draftVars
  <2>1. UNCHANGED <<drafts, spent, listing>>
    BY <1>6 DEF DraftClock, draftVars
  <2> QED
    BY <1>2, <2>1
<1> QED
  BY <1>1, <1>3, <1>4, <1>5, <1>6 DEF DashboardDraftsNext, PageNext, ListNext

LEMMA ListBegins == DashboardDraftsInit => ListInv
<1> SUFFICES ASSUME DashboardDraftsInit PROVE ListInv
  OBVIOUS
<1>1. listing = [next |-> "none", shown |-> << >>, steady |-> {}]
  BY DEF DashboardDraftsInit, NotListing
<1>2. << >> \in Seq(DraftId) /\ Len(<< >>) = 0 /\ ToSet(<< >>) = {}
  BY DEF ToSet
<1>3. listing \in Listed
  BY <1>1, <1>2 DEF Listed
<1>4. \A i : i \notin 1 .. 0
  <2>1. \A i \in Int : ~(1 <= i /\ i <= 0)
    OBVIOUS
  <2> QED
    BY <2>1
<1> QED
  BY <1>1, <1>2, <1>3, <1>4 DEF ListInv, Once

LEMMA DraftListHolds == DashboardDraftsSpec => []ListIsComplete
<1>1. ListInv => ListIsComplete
  BY ListedFields, DistinctCount DEF ListInv, Once, ListIsComplete
<1> QED
  BY <1>1, ScreenStart, ScreenStep, CapStart, CapStep, ListBegins, ListStep, PTL
     DEF DashboardDraftsSpec
-----------------------------------------------------------------------------
(* The list of a kind *)

TableTyped ==
    /\ namespaced \in BOOLEAN
    /\ listMoves \in Nat
    /\ tableRows \in [TableKey -> {NoTableRow} \cup TableRow]
    /\ \A k \in TableKey : tableRows[k] # NoTableRow => tableRows[k].uid <= listMoves + 1
    /\ viewer \in [all : BOOLEAN, spaces : SUBSET Spaces]

InSpan(q, k) == SpanAll(q) \/ k[1] \in Filter(q)
Shows(lines) == {lines[i].key : i \in 1 .. Len(lines)}
Sorted(descending, lines) ==
    \A i, j \in 1 .. Len(lines) : i < j => Before2(descending, lines[i].key, lines[j].key)

\* Whether the pages read so far have come as far as k.
UpTo(descending, next, k) == next = NoList \/ k = next.key \/ Before2(descending, k, next.key)

\* The order of the index is a total one, in both directions.
KeyPairs(d, keys) == {p \in keys \X keys : Before2(d, p[1], p[2])}

LEMMA KeyOrder ==
    ASSUME NEW d \in BOOLEAN
    PROVE  /\ \A k \in TableKey : ~Before2(d, k, k)
           /\ \A k, l, m \in TableKey : Before2(d, k, l) /\ Before2(d, l, m) => Before2(d, k, m)
           /\ \A k, l \in TableKey : k = l \/ Before2(d, k, l) \/ Before2(d, l, k)
           /\ \A keys \in SUBSET TableKey : Orders(KeyPairs(d, keys), keys)
<1>1. \A k \in TableKey : k \in Nat \X Nat /\ k[1] \in Nat /\ k[2] \in Nat /\ k = <<k[1], k[2]>>
  BY ResourceListAssumption
<1>2. ASSUME NEW k \in TableKey PROVE ~KeyBefore(k, k)
  BY <1>1 DEF KeyBefore
<1>3. ASSUME NEW k \in TableKey, NEW l \in TableKey, NEW m \in TableKey,
             KeyBefore(k, l), KeyBefore(l, m)
      PROVE  KeyBefore(k, m)
  <2> DEFINE a == k[1]
             b == l[1]
             c == m[1]
             x == k[2]
             y == l[2]
             z == m[2]
  <2>1. a \in Nat /\ b \in Nat /\ c \in Nat /\ x \in Nat /\ y \in Nat /\ z \in Nat
    BY <1>1
  <2>2. (a < b \/ (a = b /\ x < y)) /\ (b < c \/ (b = c /\ y < z))
    BY <1>3 DEF KeyBefore
  <2> HIDE DEF a, b, c, x, y, z
  <2>3. a < c \/ (a = c /\ x < z)
    BY <2>1, <2>2
  <2> QED
    BY <2>3 DEF KeyBefore, a, c, x, z
<1>4. ASSUME NEW k \in TableKey, NEW l \in TableKey, k # l PROVE KeyBefore(k, l) \/ KeyBefore(l, k)
  <2> DEFINE a == k[1]
             b == l[1]
             x == k[2]
             y == l[2]
  <2>1. a \in Nat /\ b \in Nat /\ x \in Nat /\ y \in Nat /\ (a # b \/ x # y)
    BY <1>1, <1>4
  <2> HIDE DEF a, b, x, y
  <2>2. (a < b \/ (a = b /\ x < y)) \/ (b < a \/ (b = a /\ y < x))
    BY <2>1
  <2> QED
    BY <2>2 DEF KeyBefore, a, b, x, y
<1>5. /\ \A k \in TableKey : ~Before2(d, k, k)
      /\ \A k, l, m \in TableKey : Before2(d, k, l) /\ Before2(d, l, m) => Before2(d, k, m)
      /\ \A k, l \in TableKey : k = l \/ Before2(d, k, l) \/ Before2(d, l, k)
  BY <1>2, <1>3, <1>4 DEF Before2
<1>6. ASSUME NEW keys \in SUBSET TableKey PROVE Orders(KeyPairs(d, keys), keys)
  <2>1. \A k, l \in keys : <<k, l>> \in KeyPairs(d, keys) <=> Before2(d, k, l)
    BY DEF KeyPairs
  <2> QED
    BY <1>5, <2>1 DEF Orders
<1> QED
  BY <1>5, <1>6

LEMMA KeyLine ==
    ASSUME NEW d \in BOOLEAN, NEW keys \in SUBSET TableKey
    PROVE  LET line == ListOrder(d, keys)
               n == Cardinality(keys)
           IN  /\ line \in Seq(keys) /\ Len(line) = n /\ n \in Nat /\ DOMAIN line = 1 .. n
               /\ \A i, j \in 1 .. n : i < j => Before2(d, line[i], line[j])
               /\ \A i \in 1 .. n : line[i] \in keys
               /\ \A k \in keys : \E i \in 1 .. n : line[i] = k
<1>1. IsFiniteSet(keys)
  BY FS_Subset, ResourceListAssumption
<1>2. PICK l \in SetToSeqs(keys) : Ascending(l, KeyPairs(d, keys))
  BY <1>1, KeyOrder, SortedExists
<1>3. \A i, j \in DOMAIN l : i < j => Before2(d, l[i], l[j])
  BY <1>2 DEF Ascending, KeyPairs
<1> DEFINE line == ListOrder(d, keys)
<1>4. line \in SetToSeqs(keys) /\ \A i, j \in DOMAIN line : i < j => Before2(d, line[i], line[j])
  BY <1>2, <1>3 DEF ListOrder
<1> HIDE DEF line
<1>5. /\ line \in Seq(keys) /\ Len(line) = Cardinality(keys) /\ Cardinality(keys) \in Nat
      /\ DOMAIN line = 1 .. Cardinality(keys)
      /\ \A x \in keys : \E i \in DOMAIN line : line[i] = x
  BY <1>1, <1>4, LineOf
<1>6. \A i \in 1 .. Cardinality(keys) : line[i] \in keys
  BY <1>5, ElementOfSeq
<1> QED
  BY <1>4, <1>5, <1>6 DEF line

CoveredBy(print, k) == print.all \/ k[1] \in print.spaces

LEMMA FingerprintIs ==
    ASSUME TableTyped, NEW q \in Query
    PROVE  /\ Fingerprint(q) \in ListPrint
           /\ Fingerprint(q).query = [q EXCEPT !.asked = 0]
<1>1. [q EXCEPT !.asked = 0] \in Query
  BY DEF Query
<1>2. SpanAll(q) \in BOOLEAN
  BY DEF SpanAll, TableTyped
<1>3. Filter(q) \in SUBSET Spaces
  BY DEF Filter, Query, TableTyped
<1> QED
  BY <1>1, <1>2, <1>3 DEF Fingerprint, ListPrint

LEMMA FingerprintCovers ==
    ASSUME NEW q, NEW k PROVE CoveredBy(Fingerprint(q), k) <=> InSpan(q, k)
BY DEF Fingerprint, CoveredBy, InSpan

\* A page shows, of the rows behind the cursor and up to where it stops, those
\* that match.
ShowsBehind(q, cursor, lines, next) ==
    /\ lines \in Seq(TableItem) /\ Sorted(q.descending, lines)
    /\ next = NoList
       \/ (/\ next \in TableCursor /\ next.print = Fingerprint(q)
           /\ Clip(q, cursor, next.key))
    /\ \A i \in 1 .. Len(lines) : lines[i].uid = tableRows[lines[i].key].uid
    /\ \A k \in Shows(lines) : /\ k \in ListedKeys /\ InSpan(q, k) /\ Clip(q, cursor, k)
                              /\ UpTo(q.descending, next, k)
    /\ \A k \in ListedKeys :
         InSpan(q, k) /\ Clip(q, cursor, k) /\ UpTo(q.descending, next, k) =>
           (k \in Shows(lines) <=> MatchesQuery(q, k))

LEMMA TablePageIs ==
    ASSUME TableTyped, NEW q \in Query, NEW cursor, cursor = NoList \/ cursor \in TableCursor,
           NEW limit
    PROVE  ShowsBehind(q, cursor, TablePage(q, cursor, limit).items,
                       TablePage(q, cursor, limit).next)
<1>f. Fingerprint(q) \in ListPrint
  BY FingerprintIs
<1> DEFINE d == q.descending
           rows == {k \in ListedKeys : InSpan(q, k) /\ Clip(q, cursor, k)}
           line == ListOrder(d, rows)
           found(n) == {k \in {line[i] : i \in 1 .. n} : MatchesQuery(q, k)}
           full == {n \in 1 .. Len(line) :
                      Cardinality(found(n)) >= limit \/ n >= limit * ListScanFactor}
           examined == IF full = {} THEN Len(line) ELSE Min(full)
           shown == ListOrder(d, found(examined))
           lines == [i \in DOMAIN shown |-> [key |-> shown[i], uid |-> tableRows[shown[i]].uid]]
           next == IF examined = Len(line) THEN NoList
                   ELSE [key |-> line[examined], print |-> Fingerprint(q)]
           page == TablePage(q, cursor, limit)
<1>1. Remaining(q, cursor) = line
  BY DEF Remaining, InSpan
<1>2. page = [items |-> lines, next |-> next]
  BY <1>1 DEF TablePage
<1>3. page.items = lines /\ page.next = next
  BY <1>2
<1> HIDE DEF page
<1>4. d \in BOOLEAN /\ rows \in SUBSET TableKey /\ rows \subseteq ListedKeys
  BY DEF Query, ListedKeys
<1> DEFINE c == Cardinality(rows)
<1>5. /\ line \in Seq(rows) /\ Len(line) = c /\ c \in Nat
      /\ \A i, j \in 1 .. c : i < j => Before2(d, line[i], line[j])
      /\ \A i \in 1 .. c : line[i] \in rows
      /\ \A k \in rows : \E i \in 1 .. c : line[i] = k
  BY <1>4, KeyLine
<1> HIDE DEF c, line
<1>6. examined \in 0 .. c /\ (examined # c => examined \in 1 .. c)
  <2>1. full \in SUBSET Nat /\ full \subseteq 1 .. c
    BY <1>5
  <2>2. full # {} => Min(full) \in full
    BY <2>1, MinOf
  <2> HIDE DEF full
  <2>3. examined = c \/ examined \in 1 .. c
    BY <1>5, <2>1, <2>2
  <2> HIDE DEF examined
  <2> QED
    BY <1>5, <2>3
<1> HIDE DEF examined, full
<1>7. found(examined) \in SUBSET TableKey /\ found(examined) \subseteq rows
  BY <1>4, <1>5, <1>6
<1> DEFINE n == Cardinality(found(examined))
<1>8. /\ shown \in Seq(found(examined)) /\ Len(shown) = n /\ n \in Nat /\ DOMAIN shown = 1 .. n
      /\ \A i, j \in 1 .. n : i < j => Before2(d, shown[i], shown[j])
      /\ \A i \in 1 .. n : shown[i] \in found(examined)
      /\ \A k \in found(examined) : \E i \in 1 .. n : shown[i] = k
  BY <1>4, <1>7, KeyLine
<1> HIDE DEF shown, n
<1>9. \A k \in rows : tableRows[k].uid \in Nat
  BY <1>4 DEF TableTyped, ListedKeys, TableRow
<1>10. \A i \in 1 .. n : [key |-> shown[i], uid |-> tableRows[shown[i]].uid] \in TableItem
  BY <1>4, <1>7, <1>8, <1>9 DEF TableItem
<1>11. /\ lines \in Seq(TableItem) /\ Len(lines) = n
       /\ \A i \in 1 .. n : lines[i].key = shown[i] /\ lines[i].uid = tableRows[shown[i]].uid
  <2>1. lines = [i \in 1 .. n |-> [key |-> shown[i], uid |-> tableRows[shown[i]].uid]]
    BY <1>8
  <2>2. lines \in [1 .. n -> TableItem]
    BY <1>10, <2>1
  <2> QED
    BY <1>8, <2>1, <2>2, SeqDef, LenProperties
<1> HIDE DEF lines
<1>12. Sorted(d, lines)
  BY <1>8, <1>11 DEF Sorted
<1>13. Shows(lines) = found(examined)
  <2> HIDE DEF found
  <2>1. Shows(lines) = {lines[i].key : i \in 1 .. n}
    BY <1>11 DEF Shows
  <2>2. \A i \in 1 .. n : lines[i].key = shown[i]
    BY <1>11
  <2>3. Shows(lines) = {shown[i] : i \in 1 .. n}
    BY <2>1, <2>2
  <2> QED
    BY <1>8, <2>3
<1>14. next = NoList
       \/ (/\ next \in TableCursor /\ next.print = Fingerprint(q)
           /\ Clip(q, cursor, next.key))
  <2>1. CASE examined = c
    BY <1>5, <2>1
  <2>2. CASE examined # c
    <3>1. examined \in 1 .. c /\ line[examined] \in rows /\ line[examined] \in TableKey
      BY <1>4, <1>5, <1>6, <2>2
    <3>2. next = [key |-> line[examined], print |-> Fingerprint(q)]
      BY <1>5, <2>2
    <3>3. next.key = line[examined] /\ next.print = Fingerprint(q) /\ next \in TableCursor
      BY <1>f, <3>1, <3>2 DEF TableCursor
    <3> QED
      BY <3>1, <3>3
  <2> QED
    BY <2>1, <2>2
<1>15. ASSUME NEW i \in 1 .. c
       PROVE  /\ i \in 1 .. examined => UpTo(d, next, line[i])
              /\ UpTo(d, next, line[i]) /\ next # NoList => i \in 1 .. examined
              /\ next = NoList => i \in 1 .. examined
  <2>1. CASE examined = c
    BY <1>5, <2>1 DEF UpTo
  <2>2. CASE examined # c
    <3>1. examined \in 1 .. c /\ line[examined] \in TableKey /\ line[i] \in TableKey
      BY <1>4, <1>5, <1>6, <2>2
    <3>2. next = [key |-> line[examined], print |-> Fingerprint(q)] /\ next.key = line[examined]
      BY <1>5, <2>2
    <3>3. next # NoList
      BY <1>f, <3>1, <3>2, ResourceListAssumption DEF TableCursor
    <3>4. i = examined \/ i < examined \/ examined < i
      BY <1>5, <3>1
    <3>5. i \in 1 .. examined <=> i = examined \/ i < examined
      BY <1>5, <3>1
    <3>6. examined < i => Before2(d, line[examined], line[i])
      BY <1>5, <3>1
    <3>7. i < examined => Before2(d, line[i], line[examined])
      BY <1>5, <3>1
    <3>8. examined < i => ~(line[i] = line[examined] \/ Before2(d, line[i], line[examined]))
      BY <1>4, <3>1, <3>6, KeyOrder
    <3> QED
      BY <3>2, <3>3, <3>4, <3>5, <3>7, <3>8 DEF UpTo
  <2> QED
    BY <2>1, <2>2
<1> HIDE DEF next
<1>16. ASSUME NEW k \in Shows(lines)
       PROVE  k \in ListedKeys /\ InSpan(q, k) /\ Clip(q, cursor, k) /\ UpTo(d, next, k)
  <2>1. k \in found(examined) /\ k \in rows
    BY <1>7, <1>13
  <2>2. PICK i \in 1 .. examined : k = line[i]
    BY <2>1
  <2>3. i \in 1 .. c
    BY <1>5, <1>6
  <2> QED
    BY <1>15, <2>1, <2>2, <2>3
<1>17. ASSUME NEW k \in ListedKeys, InSpan(q, k), Clip(q, cursor, k), UpTo(d, next, k)
       PROVE  k \in Shows(lines) <=> MatchesQuery(q, k)
  <2>1. PICK i \in 1 .. c : k = line[i]
    BY <1>5, <1>17
  <2>2. i \in 1 .. examined
    BY <1>15, <1>17, <2>1
  <2> QED
    BY <1>13, <2>1, <2>2
<1> QED
  BY <1>3, <1>11, <1>12, <1>14, <1>16, <1>17 DEF page, ShowsBehind
\* What was read of the list so far: in order, of what its query covers, and
\* complete up to the cursor for the rows that have not changed since.
ReadSoFar(p) ==
    /\ p \in ListPaging
    /\ p.print.query = [p.query EXCEPT !.asked = 0]
    /\ Sorted(p.query.descending, p.items)
    /\ \A k \in Shows(p.items) :
         CoveredBy(p.print, k) /\ UpTo(p.query.descending, p.next, k)
    /\ p.next # NoList => p.next.print = p.print
    /\ p.lasting \subseteq ListedKeys
    /\ \A k \in p.lasting :
         UpTo(p.query.descending, p.next, k) =>
           (k \in Shows(p.items) <=> CoveredBy(p.print, k) /\ MatchesQuery(p.query, k))

\* An item carries the uid of its object: the uids to come are larger, and an
\* item that is gone does not come back.
ItemsAreOld(p) ==
    /\ \A item \in ToSet(p.items) : item.uid <= listMoves + 1
    /\ \A item \in p.gone : item.uid <= listMoves + 1 /\ ~IsLive(item)

RecalledStand == \A item \in recalled : ScopeAllows(item) /\ IsLive(item)

TableInv ==
    /\ TableTyped /\ RecalledStand
    /\ \/ paging = NoList /\ recalled = {}
       \/ ReadSoFar(paging) /\ ItemsAreOld(paging)

\* Two queries with one print ask for the same in the same order.
LEMMA SameQuery ==
    ASSUME NEW q \in Query, NEW r \in Query, [q EXCEPT !.asked = 0] = [r EXCEPT !.asked = 0]
    PROVE  /\ q.descending = r.descending
           /\ \A k : MatchesQuery(q, k) <=> MatchesQuery(r, k)
<1>1. \A s \in Query : /\ [s EXCEPT !.asked = 0].descending = s.descending
                       /\ [s EXCEPT !.asked = 0].names = s.names
                       /\ [s EXCEPT !.asked = 0].labels = s.labels
  BY DEF Query
<1>2. q.descending = r.descending /\ q.names = r.names /\ q.labels = r.labels
  BY <1>1
<1> QED
  BY <1>2 DEF MatchesQuery

LEMMA ShownKeys ==
    ASSUME NEW lines \in Seq(TableItem) PROVE Shows(lines) \subseteq TableKey
<1>1. \A i \in 1 .. Len(lines) : lines[i] \in TableItem
  BY ElementOfSeq
<1> QED
  BY <1>1 DEF Shows, TableItem

\* Items, and items that come after all of them.
LEMMA ItemsJoined ==
    ASSUME NEW old \in Seq(TableItem), NEW more \in Seq(TableItem), NEW d,
           Sorted(d, old), Sorted(d, more),
           \A k \in Shows(old), l \in Shows(more) : Before2(d, k, l)
    PROVE  /\ old \o more \in Seq(TableItem) /\ Sorted(d, old \o more)
           /\ Shows(old \o more) = Shows(old) \cup Shows(more)
           /\ ToSet(old \o more) = ToSet(old) \cup ToSet(more)
<1> DEFINE its == old \o more
           a == Len(old)
           b == Len(more)
<1>1. /\ its \in Seq(TableItem) /\ Len(its) = a + b /\ a \in Nat /\ b \in Nat
      /\ \A i \in 1 .. a : its[i] = old[i]
      /\ \A i \in 1 .. b : its[a + i] = more[i]
      /\ \A i \in 1 .. a + b : i \in 1 .. a \/ (i > a /\ i - a \in 1 .. b)
      /\ ToSet(its) = ToSet(old) \cup ToSet(more)
  BY Joined
<1>2. Shows(old) = {old[i].key : i \in 1 .. a} /\ Shows(more) = {more[i].key : i \in 1 .. b}
      /\ Shows(its) = {its[i].key : i \in 1 .. a + b}
  BY <1>1 DEF Shows
<1>3. /\ \A i, j \in 1 .. a : i < j => Before2(d, old[i].key, old[j].key)
      /\ \A i, j \in 1 .. b : i < j => Before2(d, more[i].key, more[j].key)
  BY DEF Sorted
<1> HIDE DEF its, a, b
<1>4. /\ \A i \in 1 .. a : i \in 1 .. a + b
      /\ \A i \in 1 .. b : a + i \in 1 .. a + b
      /\ \A i \in 1 .. a + b : a + (i - a) = i
  BY <1>1
<1>5. ASSUME NEW i \in 1 .. a + b
      PROVE  \/ i \in 1 .. a /\ its[i] = old[i]
             \/ i > a /\ i - a \in 1 .. b /\ its[i] = more[i - a]
  BY <1>1, <1>4
<1>6. Shows(its) = Shows(old) \cup Shows(more)
  <2>1. Shows(its) \subseteq Shows(old) \cup Shows(more)
    BY <1>2, <1>5
  <2>2. Shows(old) \subseteq Shows(its)
    BY <1>1, <1>2, <1>4
  <2>3. Shows(more) \subseteq Shows(its)
    BY <1>1, <1>2, <1>4
  <2> QED
    BY <2>1, <2>2, <2>3
<1>7. ASSUME NEW i \in 1 .. a + b, NEW j \in 1 .. a + b, i < j
      PROVE  Before2(d, its[i].key, its[j].key)
  <2>1. CASE i \in 1 .. a /\ its[i] = old[i]
    <3>1. CASE j \in 1 .. a /\ its[j] = old[j]
      BY <1>3, <1>7, <2>1, <3>1
    <3>2. CASE j - a \in 1 .. b /\ its[j] = more[j - a]
      BY <1>2, <2>1, <3>2
    <3> QED
      BY <1>5, <3>1, <3>2
  <2>2. CASE i > a /\ i - a \in 1 .. b /\ its[i] = more[i - a]
    <3>1. i - a < j - a /\ ~(j \in 1 .. a)
      BY <1>1, <1>7, <2>2
    <3>2. j - a \in 1 .. b /\ its[j] = more[j - a]
      BY <1>5, <3>1
    <3> QED
      BY <1>3, <2>2, <3>1, <3>2
  <2> QED
    BY <1>5, <2>1, <2>2
<1>8. Sorted(d, its)
  BY <1>1, <1>7 DEF Sorted
<1> QED
  BY <1>1, <1>6, <1>8 DEF its

\* The first page, and the next one: what is behind the cursor is added to
\* what was read up to it.
LEMMA PageAdds ==
    ASSUME TableTyped, NEW q \in Query, NEW limit, NEW p, ReadSoFar(p), p.next # NoList,
           p.next.print = Fingerprint(q),
           NEW page, page = TablePage(q, p.next, limit)
    PROVE  ReadSoFar([p EXCEPT !.items = @ \o page.items, !.next = page.next])
<1> DEFINE d == q.descending
           r == p.query
           new == [p EXCEPT !.items = @ \o page.items, !.next = page.next]
           cursor == p.next
<1>1. /\ p \in ListPaging /\ r \in Query /\ cursor \in TableCursor /\ cursor.key \in TableKey
      /\ p.items \in Seq(TableItem) /\ p.lasting \in SUBSET TableKey
  BY DEF ReadSoFar, ListPaging, TableCursor
<1>2. p.print = Fingerprint(q) /\ p.print.query = [r EXCEPT !.asked = 0]
  BY DEF ReadSoFar
<1>3. d = r.descending /\ \A k : MatchesQuery(q, k) <=> MatchesQuery(r, k)
  BY <1>1, <1>2, FingerprintIs, SameQuery
<1>4. \A k : CoveredBy(p.print, k) <=> InSpan(q, k)
  BY <1>2, FingerprintCovers
<1>5. ShowsBehind(q, cursor, page.items, page.next)
  BY <1>1, TablePageIs
<1> DEFINE old == p.items
           more == page.items
           next == page.next
<1>6. /\ more \in Seq(TableItem) /\ Sorted(d, more)
      /\ next = NoList
         \/ (next \in TableCursor /\ next.print = p.print /\ Clip(q, cursor, next.key))
      /\ \A k \in Shows(more) :
           k \in ListedKeys /\ InSpan(q, k) /\ Clip(q, cursor, k) /\ UpTo(d, next, k)
      /\ \A k \in ListedKeys :
           InSpan(q, k) /\ Clip(q, cursor, k) /\ UpTo(d, next, k) =>
             (k \in Shows(more) <=> MatchesQuery(q, k))
  BY <1>2, <1>5 DEF ShowsBehind
<1>7. /\ old \in Seq(TableItem) /\ Sorted(d, old)
      /\ \A k \in Shows(old) : CoveredBy(p.print, k) /\ UpTo(d, cursor, k)
      /\ \A k \in p.lasting : UpTo(d, cursor, k) =>
           (k \in Shows(old) <=> CoveredBy(p.print, k) /\ MatchesQuery(r, k))
  BY <1>1, <1>3 DEF ReadSoFar
<1> DEFINE its == old \o more
<1>n. new = [p EXCEPT !.items = its, !.next = next]
  OBVIOUS
<1> HIDE DEF old, more, next, d, cursor, new
<1>9. \A k \in Shows(old) : k \in TableKey /\ CoveredBy(p.print, k)
                            /\ (k = cursor.key \/ Before2(d, k, cursor.key))
  <2>1. cursor # NoList
    BY DEF cursor
  <2> QED
    BY <1>7, <2>1, ShownKeys DEF UpTo
<1>10. \A k \in Shows(more) : k \in TableKey /\ Before2(d, cursor.key, k)
                              /\ CoveredBy(p.print, k) /\ UpTo(d, next, k)
  <2>1. cursor # NoList
    BY DEF cursor
  <2> QED
    BY <1>4, <1>6, <2>1 DEF Clip, ListedKeys, d
<1>11. d \in BOOLEAN
  BY DEF Query, d
<1>12. \A k \in Shows(old), l \in Shows(more) : Before2(d, k, l)
  BY <1>1, <1>9, <1>10, <1>11, KeyOrder
<1>13. its \in Seq(TableItem) /\ Sorted(d, its) /\ Shows(its) = Shows(old) \cup Shows(more)
  BY <1>6, <1>7, <1>12, ItemsJoined
<1> HIDE DEF its
<1>14. /\ new \in ListPaging /\ new.query = r /\ new.items = its /\ new.next = next
       /\ new.print = p.print /\ new.lasting = p.lasting
  BY <1>1, <1>6, <1>13, <1>n DEF ListPaging
<1>15. ASSUME NEW k \in Shows(old) PROVE UpTo(d, next, k)
  <2>1. CASE next = NoList
    BY <2>1 DEF UpTo
  <2>2. CASE next # NoList
    <3>1. next.key \in TableKey /\ Before2(d, cursor.key, next.key)
      <4>1. cursor # NoList
        BY DEF cursor
      <4> QED
        BY <1>1, <1>6, <2>2, <4>1 DEF Clip, d, TableCursor
    <3>2. Before2(d, k, next.key)
      BY <1>1, <1>9, <1>11, <3>1, KeyOrder
    <3> QED
      BY <3>2 DEF UpTo
  <2> QED
    BY <2>1, <2>2
<1>16. ASSUME NEW k \in p.lasting, UpTo(d, next, k)
       PROVE  k \in Shows(its) <=> CoveredBy(p.print, k) /\ MatchesQuery(r, k)
  <2>0. cursor # NoList
    BY DEF cursor
  <2>1. k \in ListedKeys /\ k \in TableKey
    BY <1>1 DEF ReadSoFar
  <2>2. CASE UpTo(d, cursor, k)
    <3>1. k \in Shows(old) <=> CoveredBy(p.print, k) /\ MatchesQuery(r, k)
      BY <1>7, <2>2
    <3>2. ~Before2(d, cursor.key, k)
      BY <1>1, <1>11, <2>0, <2>1, <2>2, KeyOrder DEF UpTo
    <3> QED
      BY <1>10, <1>13, <3>1, <3>2
  <2>3. CASE ~UpTo(d, cursor, k)
    <3>1. Before2(d, cursor.key, k) /\ k \notin Shows(old)
      BY <1>1, <1>7, <1>11, <2>1, <2>3, KeyOrder DEF UpTo
    <3>2. Clip(q, cursor, k)
      BY <3>1 DEF Clip, d
    <3>3. InSpan(q, k) => (k \in Shows(more) <=> MatchesQuery(q, k))
      BY <1>6, <1>16, <2>1, <3>2
    <3> QED
      BY <1>3, <1>4, <1>10, <1>13, <3>1, <3>3
  <2> QED
    BY <2>2, <2>3
<1>17. \A k \in Shows(its) : CoveredBy(p.print, k) /\ UpTo(d, next, k)
  BY <1>9, <1>10, <1>13, <1>15
<1>18. p.lasting \subseteq ListedKeys
  BY DEF ReadSoFar
<1>19. next # NoList => next.print = p.print
  BY <1>6
<1> QED
  BY <1>2, <1>3, <1>13, <1>14, <1>16, <1>17, <1>18, <1>19 DEF ReadSoFar, new, old, more, its, next
\* A step that leaves the table as it is leaves a list as it was read.
LEMMA TableStands ==
    ASSUME UNCHANGED <<namespaced, tableRows>>
    PROVE  /\ ListedKeys' = ListedKeys
           /\ ReadSoFar(paging') => ReadSoFar(paging)'
           /\ \A item : IsLive(item)' <=> IsLive(item)
<1>1. ListedKeys' = ListedKeys
  BY DEF ListedKeys
<1>2. \A q, k : (k[2] \in q.names /\ tableRows'[k].label \in q.labels) <=> MatchesQuery(q, k)
  BY DEF MatchesQuery
<1>3. \A k : MatchesQuery(paging.query, k)' <=> MatchesQuery(paging'.query, k)
  BY DEF MatchesQuery
<1>4. ReadSoFar(paging') => ReadSoFar(paging)'
  BY <1>1, <1>3 DEF ReadSoFar
<1>5. \A item : IsLive(item)' <=> IsLive(item)
  BY <1>1 DEF IsLive
<1> QED
  BY <1>1, <1>4, <1>5

LEMMA PagesAreOld ==
    ASSUME TableTyped, NEW q, NEW cursor, NEW lines, NEW next, ShowsBehind(q, cursor, lines, next)
    PROVE  \A item \in ToSet(lines) : item.uid <= listMoves + 1
<1>1. /\ lines \in Seq(TableItem) /\ Shows(lines) \subseteq ListedKeys
      /\ \A i \in 1 .. Len(lines) : lines[i].uid = tableRows[lines[i].key].uid
  BY DEF ShowsBehind
<1>2. \A k \in ListedKeys : tableRows[k].uid <= listMoves + 1
  BY DEF TableTyped, ListedKeys
<1>3. \A i \in 1 .. Len(lines) : lines[i].key \in ListedKeys
  BY <1>1 DEF Shows
<1>4. \A item \in ToSet(lines) : \E i \in 1 .. Len(lines) : item = lines[i]
  BY <1>1, LenProperties DEF ToSet
<1> QED
  BY <1>1, <1>2, <1>3, <1>4

LEMMA FirstListStep ==
    ASSUME TableInv, NEW q \in Query, NEW limit, FirstList(q, limit) PROVE TableInv'
<1> DEFINE page == TablePage(q, NoList, limit)
           d == q.descending
           lines == page.items
           next == page.next
<1>1. /\ paging' = [query |-> q, items |-> lines, next |-> next,
                    print |-> Fingerprint(q), lasting |-> ListedKeys, gone |-> {}]
      /\ UNCHANGED <<namespaced, tableRows, tableState, viewer, recalled, listMoves>>
  BY DEF FirstList
<1>2. TableTyped
  BY DEF TableInv
<1>3. ShowsBehind(q, NoList, lines, next)
  BY <1>2, TablePageIs
<1>4. \A k : Clip(q, NoList, k)
  BY DEF Clip
<1> HIDE DEF lines, next
<1>5. /\ Fingerprint(q) \in ListPrint /\ Fingerprint(q).query = [q EXCEPT !.asked = 0]
      /\ \A k : CoveredBy(Fingerprint(q), k) <=> InSpan(q, k)
  BY <1>2, FingerprintIs, FingerprintCovers
<1>6. /\ lines \in Seq(TableItem) /\ Sorted(d, lines)
      /\ next \in TableCursor \cup {NoList} /\ (next # NoList => next.print = Fingerprint(q))
      /\ \A k \in Shows(lines) : CoveredBy(Fingerprint(q), k) /\ UpTo(d, next, k)
      /\ \A k \in ListedKeys : UpTo(d, next, k) =>
           (k \in Shows(lines) <=> CoveredBy(Fingerprint(q), k) /\ MatchesQuery(q, k))
  <2>1. \A k \in ListedKeys : UpTo(d, next, k) =>
           (k \in Shows(lines) <=> CoveredBy(Fingerprint(q), k) /\ MatchesQuery(q, k))
    BY <1>3, <1>4, <1>5 DEF ShowsBehind
  <2> QED
    BY <1>3, <1>5, <2>1 DEF ShowsBehind
<1> DEFINE new == [query |-> q, items |-> lines, next |-> next,
                   print |-> Fingerprint(q), lasting |-> ListedKeys, gone |-> {}]
<1>7. new \in ListPaging
  BY <1>5, <1>6 DEF ListPaging, ListedKeys
<1>8. /\ new.query = q /\ new.items = lines /\ new.next = next
      /\ new.print = Fingerprint(q) /\ new.lasting = ListedKeys /\ new.gone = {}
  OBVIOUS
<1> HIDE DEF new
<1>9. ReadSoFar(new)
  BY <1>5, <1>6, <1>7, <1>8 DEF ReadSoFar
<1>10. \A item \in ToSet(lines) : item.uid <= listMoves + 1
  BY <1>2, <1>3, PagesAreOld
<1>11. paging' = new
  BY <1>1 DEF new
<1>12. ReadSoFar(paging)' /\ ItemsAreOld(paging)'
  BY <1>1, <1>8, <1>9, <1>10, <1>11, TableStands DEF ItemsAreOld
<1>13. TableTyped' /\ RecalledStand'
  BY <1>1, TableStands DEF TableInv, TableTyped, RecalledStand, ScopeAllows, AllowsNamespace
<1> QED
  BY <1>12, <1>13 DEF TableInv

LEMMA NextListStep ==
    ASSUME TableInv, NEW q \in Query, NEW limit, NextList(q, limit) PROVE TableInv'
<1> DEFINE page == TablePage(q, paging.next, limit)
<1>1. /\ paging # NoList /\ paging.next # NoList /\ paging.next.print = Fingerprint(q)
      /\ paging' = [paging EXCEPT !.items = @ \o page.items, !.next = page.next]
      /\ UNCHANGED <<namespaced, tableRows, tableState, viewer, recalled, listMoves>>
  BY DEF NextList
<1>2. TableTyped /\ ReadSoFar(paging) /\ ItemsAreOld(paging)
  BY <1>1 DEF TableInv
<1>3. paging.next \in TableCursor /\ paging \in ListPaging /\ paging.items \in Seq(TableItem)
  BY <1>1, <1>2 DEF ReadSoFar, ListPaging
<1>4. ShowsBehind(q, paging.next, page.items, page.next)
  BY <1>2, <1>3, TablePageIs
<1> HIDE DEF page
<1>5. ReadSoFar([paging EXCEPT !.items = @ \o page.items, !.next = page.next])
  BY <1>1, <1>2, PageAdds DEF page
<1>6. page.items \in Seq(TableItem) /\ \A item \in ToSet(page.items) : item.uid <= listMoves + 1
  BY <1>2, <1>4, PagesAreOld DEF ShowsBehind
<1>7. paging'.items = paging.items \o page.items /\ paging'.gone = paging.gone
  BY <1>1, <1>3 DEF ListPaging
<1>8. ToSet(paging'.items) = ToSet(paging.items) \cup ToSet(page.items)
  BY <1>3, <1>6, <1>7, Joined
<1>9. ReadSoFar(paging)'
  BY <1>1, <1>5, TableStands
<1>10. ItemsAreOld(paging)'
  BY <1>1, <1>2, <1>6, <1>7, <1>8, TableStands DEF ItemsAreOld
<1>11. TableTyped' /\ RecalledStand'
  BY <1>1, TableStands DEF TableInv, TableTyped, RecalledStand, ScopeAllows, AllowsNamespace
<1> QED
  BY <1>9, <1>10, <1>11 DEF TableInv

LEMMA RecallStep == ASSUME TableInv, Recall PROVE TableInv'
<1>1. /\ paging # NoList
      /\ \A item \in recalled' : ScopeAllows(item) /\ IsLive(item)
      /\ UNCHANGED <<namespaced, tableRows, tableState, viewer, paging, listMoves>>
  BY DEF Recall
<1>2. TableTyped /\ ReadSoFar(paging) /\ ItemsAreOld(paging)
  BY <1>1 DEF TableInv
<1>3. ReadSoFar(paging)' /\ ItemsAreOld(paging)'
  BY <1>1, <1>2, TableStands DEF ItemsAreOld
<1>4. TableTyped' /\ RecalledStand'
  BY <1>1, <1>2, TableStands DEF TableTyped, RecalledStand, ScopeAllows, AllowsNamespace
<1> QED
  BY <1>3, <1>4 DEF TableInv

LEMMA MovesGrow ==
    ASSUME TableTyped, listMoves' = listMoves + 1
    PROVE  /\ listMoves' \in Nat
           /\ \A u \in Nat : u <= listMoves + 1 => u <= listMoves' + 1 /\ u # listMoves + 2
BY DEF TableTyped

\* The scope or the state of the entry changes: what has been read stays.
LEMMA ScopeStep == ASSUME TableInv, ChangeViewer \/ ChangeState PROVE TableInv'
<1>1. /\ listMoves' = listMoves + 1 /\ recalled' = {}
      /\ UNCHANGED <<namespaced, tableRows, paging>>
  BY DEF ChangeViewer, ChangeState, ListMoved
<1>2. viewer' \in [all : BOOLEAN, spaces : SUBSET Spaces]
  <2>1. ASSUME NEW v \in [all : {FALSE}, spaces : SUBSET (Spaces \ {0})]
        PROVE  v \in [all : BOOLEAN, spaces : SUBSET Spaces]
    OBVIOUS
  <2>2. ChangeViewer => viewer' \in [all : BOOLEAN, spaces : SUBSET Spaces]
    <3>1. [all |-> TRUE, spaces |-> {}] \in [all : BOOLEAN, spaces : SUBSET Spaces]
      OBVIOUS
    <3> QED
      BY <2>1, <3>1 DEF ChangeViewer
  <2>3. ChangeState => viewer' \in [all : BOOLEAN, spaces : SUBSET Spaces]
    BY DEF ChangeState, TableInv, TableTyped
  <2> QED
    BY <2>2, <2>3
<1>3. TableTyped
  BY DEF TableInv
<1>4. TableTyped'
  <2>1. \A k \in TableKey : tableRows[k] # NoTableRow => tableRows[k].uid \in Nat
    BY <1>3 DEF TableTyped, TableRow
  <2> QED
    BY <1>1, <1>2, <1>3, <2>1, MovesGrow DEF TableTyped
<1>5. ASSUME paging # NoList PROVE ReadSoFar(paging)' /\ ItemsAreOld(paging)'
  <2>1. ReadSoFar(paging) /\ ItemsAreOld(paging)
    BY <1>5 DEF TableInv
  <2>2. ToSet(paging.items) \cup paging.gone \subseteq TableItem
    BY <2>1, LenProperties, ElementOfSeq DEF ReadSoFar, ListPaging, ToSet
  <2>3. ItemsAreOld(paging)'
    BY <1>1, <1>3, <2>1, <2>2, MovesGrow, TableStands DEF ItemsAreOld, TableItem
  <2> QED
    BY <1>1, <2>1, <2>3, TableStands
<1> QED
  BY <1>1, <1>4, <1>5 DEF TableInv, RecalledStand
\* A row comes, goes or changes.  The rows listed and the same all the time are
\* the others; an object that takes the name of another has a uid of its own.
LEMMA PublishTableStep == ASSUME TableInv, NEW k \in TableKey, PublishTable(k) PROVE TableInv'
<1>0. TableTyped /\ k \in TableKey
  BY DEF TableInv
<1>1. PICK row \in {NoTableRow} \cup [uid : {listMoves + 2}, label : TableLabel]
                   \cup (IF k \in ListedKeys THEN [uid : {tableRows[k].uid}, label : TableLabel]
                         ELSE {}) :
        /\ tableRows' = [tableRows EXCEPT ![k] = row]
        /\ paging' = IF paging = NoList THEN NoList
                     ELSE [paging EXCEPT !.lasting = @ \ {k},
                             !.gone = @ \cup {i \in ToSet(paging.items) :
                                                i.key = k /\ (row = NoTableRow \/ row.uid # i.uid)}]
  BY DEF PublishTable
<1>2. /\ listMoves' = listMoves + 1 /\ recalled' = {} /\ (namespaced <=> k[1] # 0)
      /\ UNCHANGED <<namespaced, viewer>>
  BY DEF PublishTable, ListMoved
<1>3. /\ listMoves \in Nat /\ listMoves + 2 \in Nat
      /\ \A l \in TableKey : tableRows[l] # NoTableRow =>
           /\ tableRows[l] \in TableRow /\ tableRows[l].uid \in Nat
           /\ tableRows[l].uid <= listMoves + 1
  BY <1>0 DEF TableTyped, TableRow
<1>4. row = NoTableRow
      \/ (row \in TableRow /\ row # NoTableRow /\ row.uid = listMoves + 2)
      \/ (row \in TableRow /\ row # NoTableRow /\ k \in ListedKeys /\ row.uid = tableRows[k].uid)
  <2>1. CASE row \in [uid : {listMoves + 2}, label : TableLabel]
    BY <1>3, <2>1, ResourceListAssumption DEF TableRow
  <2>2. CASE k \in ListedKeys /\ row \in [uid : {tableRows[k].uid}, label : TableLabel]
    BY <1>3, <2>2, ResourceListAssumption DEF TableRow, ListedKeys
  <2> QED
    BY <1>1, <2>1, <2>2
<1>5. /\ tableRows' \in [TableKey -> {NoTableRow} \cup TableRow]
      /\ tableRows'[k] = row /\ \A l \in TableKey : l # k => tableRows'[l] = tableRows[l]
  BY <1>0, <1>1, <1>4 DEF TableTyped
<1>6. row # NoTableRow => row.uid \in Nat /\ row.uid <= listMoves + 2
  BY <1>0, <1>3, <1>4 DEF ListedKeys
<1>7. TableTyped'
  <2>1. listMoves' \in Nat /\ listMoves' + 1 = listMoves + 2
    BY <1>2, <1>3
  <2>2. ASSUME NEW l \in TableKey, tableRows'[l] # NoTableRow
        PROVE  tableRows'[l].uid <= listMoves' + 1
    <3>1. CASE l = k
      BY <1>5, <1>6, <2>1, <2>2, <3>1
    <3>2. CASE l # k
      <4> DEFINE u == tableRows[l].uid
      <4>1. tableRows'[l].uid = u /\ u \in Nat /\ u <= listMoves + 1
        BY <1>3, <1>5, <2>2, <3>2
      <4> HIDE DEF u
      <4>2. u <= listMoves + 2
        BY <1>3, <4>1
      <4> QED
        BY <2>1, <4>1, <4>2
    <3> QED
      BY <3>1, <3>2
  <2> QED
    BY <1>0, <1>2, <1>5, <2>1, <2>2 DEF TableTyped
<1>8. /\ \A l \in TableKey : l # k => (l \in ListedKeys' <=> l \in ListedKeys)
      /\ k \in ListedKeys' <=> row # NoTableRow
  BY <1>2, <1>5 DEF ListedKeys
<1>9. ASSUME paging # NoList PROVE ReadSoFar(paging)' /\ ItemsAreOld(paging)'
  <2> DEFINE p == paging
             lost == {i \in ToSet(p.items) : i.key = k /\ (row = NoTableRow \/ row.uid # i.uid)}
             m == [p EXCEPT !.lasting = @ \ {k}, !.gone = @ \cup lost]
  <2>1. ReadSoFar(p) /\ ItemsAreOld(p) /\ p \in ListPaging
    BY <1>9 DEF TableInv, ReadSoFar
  <2>2. ToSet(p.items) \subseteq TableItem /\ p.gone \subseteq TableItem
    BY <2>1, LenProperties, ElementOfSeq DEF ListPaging, ToSet
  <2>3. /\ m \in ListPaging /\ m.query = p.query /\ m.items = p.items /\ m.next = p.next
        /\ m.print = p.print /\ m.lasting = p.lasting \ {k} /\ m.gone = p.gone \cup lost
    <3>1. lost \in SUBSET TableItem
      BY <2>2
    <3> HIDE DEF lost
    <3> QED
      BY <2>1, <3>1 DEF ListPaging
  <2>4. paging' = m
    BY <1>1, <1>9
  <2> HIDE DEF m
  <2>5. p.lasting \subseteq ListedKeys /\ ListedKeys \subseteq TableKey
    BY <2>1 DEF ReadSoFar, ListedKeys
  <2>6. m.lasting \subseteq ListedKeys'
    BY <1>8, <2>3, <2>5
  <2>7. \A l \in m.lasting : MatchesQuery(paging.query, l)' <=> MatchesQuery(p.query, l)
    <3>1. \A l \in m.lasting : tableRows'[l] = tableRows[l]
      BY <1>5, <2>3, <2>5
    <3> QED
      BY <2>3, <2>4, <3>1 DEF MatchesQuery
  <2>8. ReadSoFar(paging)'
    BY <2>1, <2>3, <2>4, <2>6, <2>7 DEF ReadSoFar
  <2>9. ASSUME NEW item \in p.gone PROVE ~IsLive(item)'
    <3>1. ~IsLive(item) /\ item.uid <= listMoves + 1 /\ item.uid \in Nat /\ item.key \in TableKey
      BY <2>1, <2>2 DEF ItemsAreOld, TableItem
    <3>2. CASE item.key # k
      BY <1>5, <1>8, <3>1, <3>2 DEF IsLive
    <3>3. CASE item.key = k
      <4>1. CASE row = NoTableRow
        BY <1>8, <3>3, <4>1 DEF IsLive
      <4>2. CASE row # NoTableRow /\ row.uid = listMoves + 2
        <5>1. row.uid # item.uid
          BY <1>3, <3>1, <4>2
        <5> QED
          BY <1>5, <3>3, <5>1 DEF IsLive
      <4>3. CASE row # NoTableRow /\ k \in ListedKeys /\ row.uid = tableRows[k].uid
        BY <1>5, <3>1, <3>3, <4>3 DEF IsLive
      <4> QED
        BY <1>4, <4>1, <4>2, <4>3
    <3> QED
      BY <3>2, <3>3
  <2>10. ASSUME NEW item \in lost PROVE ~IsLive(item)'
    BY <1>5, <1>8 DEF IsLive
  <2>11. ASSUME NEW item \in ToSet(p.items) \cup p.gone PROVE item.uid <= listMoves' + 1
    BY <1>0, <1>2, <2>1, <2>2, MovesGrow DEF ItemsAreOld, TableItem
  <2>12. ItemsAreOld(paging)'
    BY <2>3, <2>4, <2>9, <2>10, <2>11 DEF ItemsAreOld
  <2> QED
    BY <2>8, <2>12
<1>10. paging = NoList => paging' = NoList
  BY <1>1
<1> QED
  BY <1>2, <1>7, <1>9, <1>10 DEF TableInv, RecalledStand

LEMMA TableStep == TableInv /\ [ResourceListNext]_tableVars => TableInv'
<1> SUFFICES ASSUME TableInv, [ResourceListNext]_tableVars PROVE TableInv'
  OBVIOUS
<1>1. CASE UNCHANGED tableVars
  <2>1. UNCHANGED <<namespaced, tableRows, tableState, viewer, paging, recalled, listMoves>>
    BY <1>1 DEF tableVars
  <2>2. TableTyped' /\ RecalledStand'
    BY <2>1, TableStands DEF TableInv, TableTyped, RecalledStand, ScopeAllows, AllowsNamespace
  <2>3. ASSUME ReadSoFar(paging), ItemsAreOld(paging) PROVE ReadSoFar(paging)' /\ ItemsAreOld(paging)'
    BY <2>1, <2>3, TableStands DEF ItemsAreOld
  <2> QED
    BY <2>1, <2>2, <2>3 DEF TableInv
<1> QED
  BY <1>1, FirstListStep, NextListStep, RecallStep, ScopeStep, PublishTableStep
     DEF ResourceListNext

LEMMA TableStart == ResourceListInit => TableInv
<1> SUFFICES ASSUME ResourceListInit PROVE TableInv
  OBVIOUS
<1>1. tableRows \in [TableKey -> {NoTableRow} \cup [uid : {1}, label : TableLabel]]
  BY DEF ResourceListInit
<1>2. /\ tableRows \in [TableKey -> {NoTableRow} \cup TableRow]
      /\ \A k \in TableKey : tableRows[k] # NoTableRow => tableRows[k].uid <= 0 + 1
  BY <1>1 DEF TableRow
<1>3. viewer \in [all : BOOLEAN, spaces : SUBSET Spaces]
  BY DEF ResourceListInit
<1> QED
  BY <1>2, <1>3 DEF ResourceListInit, TableInv, TableTyped, RecalledStand

LEMMA PagesHold == ResourceListSpec => []PagesAreExact
<1>1. TableInv => PagesAreExact
  <2> SUFFICES ASSUME TableInv PROVE PagesAreExact
    OBVIOUS
  <2>1. \A item \in recalled : item \notin paging.gone /\ ScopeAllows(item)
    BY DEF TableInv, RecalledStand, ItemsAreOld
  <2>2. ASSUME paging # NoList
        PROVE  LET shown == [i \in DOMAIN paging.items |-> paging.items[i].key]
               IN  /\ \A i, j \in DOMAIN shown :
                        i < j => Before2(paging.query.descending, shown[i], shown[j])
                   /\ \A i \in DOMAIN shown : Covered(shown[i])
                   /\ paging.next = NoList =>
                        \A k \in paging.lasting :
                          (k \in ToSet(shown)) <=> (Covered(k) /\ MatchesQuery(paging.query, k))
    <3> DEFINE lines == paging.items
               shown == [i \in DOMAIN lines |-> lines[i].key]
    <3>1. ReadSoFar(paging) /\ lines \in Seq(TableItem)
      BY <2>2 DEF TableInv, ReadSoFar, ListPaging
    <3>2. DOMAIN lines = 1 .. Len(lines)
      BY <3>1, LenProperties
    <3>3. ToSet(shown) = Shows(lines)
      BY <3>2 DEF ToSet, Shows
    <3>4. \A i, j \in DOMAIN shown :
             i < j => Before2(paging.query.descending, shown[i], shown[j])
      BY <3>1, <3>2 DEF ReadSoFar, Sorted
    <3>5. \A i \in DOMAIN shown : Covered(shown[i])
      BY <3>1, <3>2 DEF ReadSoFar, Shows, CoveredBy, Covered
    <3>6. paging.next = NoList => \A k \in paging.lasting :
             (k \in ToSet(shown)) <=> (Covered(k) /\ MatchesQuery(paging.query, k))
      BY <3>1, <3>3 DEF ReadSoFar, UpTo, CoveredBy, Covered
    <3> QED
      BY <3>4, <3>5, <3>6
  <2> QED
    BY <2>1, <2>2 DEF PagesAreExact
<1> QED
  BY <1>1, TableStart, TableStep, PTL DEF ResourceListSpec

\* A list read page by page to its end has shown every row that was there all
\* the time, once and in order, and a recent item stands for the same object
\* (index.go, cursor.go and recent.go of the resource catalog; List and
\* encodeCursor of the dashboard store): for every table, order, query and
\* limit of a page, and any number of users who write in between.
THEOREM ListsStayExact == DashboardDraftsSpec /\ ResourceListSpec => []ListsAreExact
<1>1. ListIsComplete /\ PagesAreExact => ListsAreExact
  BY DEF ListsAreExact
<1> QED
  BY <1>1, DraftListHolds, PagesHold, PTL
=============================================================================
