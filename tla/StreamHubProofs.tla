-------------------------- MODULE StreamHubProofs --------------------------
(***************************************************************************)
(* Proofs about StreamHub, for every set of clients, users and namespaces, *)
(* every scope, and every size of the ring, of the channels and of the     *)
(* limits.                                                                 *)
(***************************************************************************)
EXTENDS StreamHub, SequenceTheorems, FiniteSetTheorems, WellFoundedInduction, TLAPS

-----------------------------------------------------------------------------
(* The inductive invariant                                                 *)
(*                                                                         *)
(* A client is owed what was published since it was last told something.   *)
(* Its debt is kept in two places: while it has a stream, in the line of   *)
(* what the handler still has to send; while it has none, in the ring, from *)
(* its cursor on, as long as the ring reaches back that far.               *)

Stamp == [life : HubLife, seq : 0 .. MaxSignals]

\* StreamTypeOK without the limits.
Shape ==
  /\ hubLife \in HubLife
  /\ closed \in BOOLEAN
  /\ seq \in 0 .. MaxSignals
  /\ ring \in Seq(Signal)
  /\ sub \in [Client -> SubState]
  /\ replay \in [Client -> Seq(Signal)]
  /\ chan \in [Client -> Seq(Signal)]
  /\ cursor \in [Client -> Stamp \cup {NoStream}]
  /\ known \subseteq Client
  /\ owed \in [Client -> SUBSET Signal]
  /\ hubSettled \in BOOLEAN

InLine(x, line) == \E i \in DOMAIN line : line[i] = x

\* A line holds signals of this process, each later than those before it, ...
Current(line, life, last) == \A i \in DOMAIN line : line[i].life = life /\ line[i].seq <= last
Ordered(line) == \A i, j \in DOMAIN line : i < j => LaterSignal(line[j], line[i])

\* ... which the client is owed, but for a reset in their place.
Promised(line, debt) == \A i \in DOMAIN line : line[i] \in debt \/ line[i].about = "reset"

\* What is owed is in the line, or the reset at its head stands for it; a
\* dropped subscription owes more, all of it later than its line.
HeadCovers(x, line) == line # <<>> /\ line[1].about = "reset" /\ NotAfter(x, line[1])
Accounted(line, debt, state) ==
  \A x \in debt : \/ InLine(x, line)
                  \/ HeadCovers(x, line)
                  \/ state = "dropped" /\ \A i \in DOMAIN line : LaterSignal(x, line[i])

\* What the ring has for c from a number on is owed to c.
RingOwed(signals, c, debt, from) ==
  \A i \in DOMAIN signals : signals[i].seq > from /\ Allows(c, signals[i]) => signals[i] \in debt

\* The ring holds the last signals of this process, without a gap.
Holds(s, life, last) ==
  /\ s \in Seq(Signal)
  /\ Len(s) <= last
  /\ last > 0 => s # <<>>
  /\ \A i \in DOMAIN s : s[i].life = life /\ s[i].seq = last - Len(s) + i

RingIsContiguous == Holds(ring, hubLife, seq)

\* What is owed was published; what the ring still reaches is in the ring.
DebtWasPublished(c) ==
  \A x \in owed[c] :
    /\ Allows(c, x)
    /\ x.life <= hubLife
    /\ x.life = hubLife =>
         /\ x.seq >= 1 /\ x.seq <= seq
         /\ x.seq > seq - Len(ring) => InLine(x, ring)

\* A cursor of this process separates what c was told from what it is owed.
CursorSeparates(c) ==
  cursor[c] # NoStream =>
    /\ c \in known
    /\ cursor[c].life <= hubLife
    /\ cursor[c].life = hubLife =>
         /\ cursor[c].seq <= seq
         /\ \A x \in owed[c] : x.life = hubLife /\ x.seq > cursor[c].seq
         /\ RingOwed(ring, c, owed[c], cursor[c].seq)

LineIsExact(c) ==
  /\ sub[c] = "none" => replay[c] = <<>> /\ chan[c] = <<>>
  /\ sub[c] # "none" =>
       /\ c \in known
       /\ Current(Line(c), hubLife, seq)
       /\ Ordered(Line(c))
       /\ Promised(Line(c), owed[c])
       /\ Accounted(Line(c), owed[c], sub[c])
       /\ Line(c) # <<>> => RingOwed(ring, c, owed[c], Line(c)[1].seq)

StreamInv ==
  /\ Shape
  /\ RingIsContiguous
  /\ \A c \in Client : DebtWasPublished(c) /\ CursorSeparates(c) /\ LineIsExact(c)

-----------------------------------------------------------------------------
(* Lines and signals *)

LEMMA BoundsAreNumbers ==
  /\ RingSize \in Nat \ {0} /\ SubscriberBuffer \in Nat \ {0}
  /\ MaxConnections \in Nat \ {0} /\ MaxPerSubject \in Nat \ {0}
  /\ MaxSignals \in Nat \ {0} /\ MaxHubLife \in Nat \ {0}
BY HubAssumption DEF HubAssumption

LEMMA SignalNumbers ==
  ASSUME NEW e \in Signal
  PROVE  e.life \in Nat /\ e.seq \in Nat
BY BoundsAreNumbers DEF Signal, HubLife

\* Of two signals of one process the one with the higher number is the later.
LEMMA LaterInLife ==
  ASSUME NEW e \in Signal, NEW f \in Signal, e.life = f.life
  PROVE  LaterSignal(e, f) <=> e.seq > f.seq
BY SignalNumbers DEF LaterSignal, NotAfter

\* A line is extended at its end ...
LEMMA LineGrows ==
  ASSUME NEW s \in Seq(Signal), NEW t \in Seq(Signal), NEW e \in Signal
  PROVE  s \o Append(t, e) = Append(s \o t, e)
BY ConcatProperties, AppendProperties

\* ... and read at its head, the replay before the channel.
LEMMA LineShrinks ==
  ASSUME NEW s \in Seq(Signal), NEW t \in Seq(Signal)
  PROVE  /\ s \o t \in Seq(Signal)
         /\ s # <<>> => /\ s \o t # <<>>
                        /\ Head(s) = Head(s \o t)
                        /\ Tail(s) \o t = Tail(s \o t)
         /\ s = <<>> => s \o t = t
BY ConcatProperties, HeadTailProperties

\* What is in a sequence after an append, and after a reading.
LEMMA AppendElements ==
  ASSUME NEW line \in Seq(Signal), NEW e \in Signal
  PROVE  /\ Append(line, e) \in Seq(Signal)
         /\ Append(line, e) # <<>>
         /\ DOMAIN Append(line, e) = 1 .. (Len(line) + 1)
         /\ DOMAIN line = 1 .. Len(line)
         /\ Len(line) \in Nat
         /\ Append(line, e)[Len(line) + 1] = e
         /\ \A i \in 1 .. Len(line) : Append(line, e)[i] = line[i]
BY AppendProperties, LenProperties

LEMMA TailElements ==
  ASSUME NEW line \in Seq(Signal), line # <<>>
  PROVE  /\ Tail(line) \in Seq(Signal)
         /\ Len(line) \in Nat \ {0}
         /\ DOMAIN line = 1 .. Len(line)
         /\ DOMAIN Tail(line) = 1 .. (Len(line) - 1)
         /\ \A i \in 1 .. (Len(line) - 1) : Tail(line)[i] = line[i + 1]
         /\ Head(line) = line[1]
         /\ line[1] \in Signal
BY HeadTailProperties, LenProperties, ElementOfSeq

-----------------------------------------------------------------------------
(* A signal is published *)

\* A line that gets the next signal stays in order.
LEMMA LineStaysOrdered ==
  ASSUME NEW line \in Seq(Signal), NEW e \in Signal, NEW last \in Nat,
         e.seq = last + 1, Current(line, e.life, last), Ordered(line)
  PROVE  /\ Current(Append(line, e), e.life, last + 1)
         /\ Ordered(Append(line, e))
<1> DEFINE longer == Append(line, e)
<1>1. \A i \in 1 .. Len(line) : /\ longer[i] = line[i] /\ line[i] \in Signal
                                /\ line[i].life = e.life /\ line[i].seq <= last
  BY AppendElements, ElementOfSeq DEF Current
<1>2. Current(longer, e.life, last + 1)
  <2> SUFFICES ASSUME NEW i \in DOMAIN longer
               PROVE  longer[i].life = e.life /\ longer[i].seq <= last + 1
    BY DEF Current
  <2>1. CASE i = Len(line) + 1
    BY <2>1, AppendElements
  <2>2. CASE i \in 1 .. Len(line)
    BY <2>2, <1>1, SignalNumbers
  <2> QED
    BY <2>1, <2>2, AppendElements
<1>3. Ordered(longer)
  <2> SUFFICES ASSUME NEW i \in DOMAIN longer, NEW j \in DOMAIN longer, i < j
               PROVE  LaterSignal(longer[j], longer[i])
    BY DEF Ordered
  <2>1. i \in 1 .. Len(line)
    BY AppendElements
  <2>2. CASE j = Len(line) + 1
    <3>1. longer[j] = e /\ e.seq > longer[i].seq
      BY <2>1, <2>2, <1>1, AppendElements, SignalNumbers
    <3> QED
      BY <3>1, <2>1, <1>1, LaterInLife
  <2>3. CASE j \in 1 .. Len(line)
    BY <2>1, <2>3, <1>1, AppendElements DEF Ordered
  <2> QED
    BY <2>2, <2>3, AppendElements
<1> QED
  BY <1>2, <1>3

\* A subscription that takes the signal has it in its line.
LEMMA TakenIsAccounted ==
  ASSUME NEW line \in Seq(Signal), NEW e \in Signal, NEW debt, NEW state,
         state # "dropped",
         Promised(line, debt), Accounted(line, debt, state)
  PROVE  /\ Promised(Append(line, e), debt \cup {e})
         /\ Accounted(Append(line, e), debt \cup {e}, state)
<1>1. Promised(Append(line, e), debt \cup {e})
  BY AppendElements DEF Promised
<1>2. ASSUME NEW x \in debt \cup {e}
      PROVE  InLine(x, Append(line, e)) \/ HeadCovers(x, Append(line, e))
  <2>1. CASE x = e
    BY <2>1, AppendElements DEF InLine
  <2>2. CASE x \in debt /\ InLine(x, line)
    BY <2>2, AppendElements DEF InLine
  <2>3. CASE x \in debt /\ HeadCovers(x, line)
    <3>1. 1 \in 1 .. Len(line)
      BY <2>3, TailElements DEF HeadCovers
    <3> QED
      BY <2>3, <3>1, AppendElements DEF HeadCovers
  <2> QED
    BY <2>1, <2>2, <2>3 DEF Accounted
<1> QED
  BY <1>1, <1>2 DEF Accounted

\* One that is dropped, or was, owes it after its line.
LEMMA DroppedIsAccounted ==
  ASSUME NEW line \in Seq(Signal), NEW e \in Signal, NEW debt, NEW state, NEW last \in Nat,
         e.seq = last + 1, Current(line, e.life, last),
         Promised(line, debt), Accounted(line, debt, state)
  PROVE  /\ Promised(line, debt \cup {e})
         /\ Accounted(line, debt \cup {e}, "dropped")
         /\ Accounted(line, debt, "dropped")
<1>1. \A i \in DOMAIN line : LaterSignal(e, line[i])
  <2> TAKE i \in DOMAIN line
  <2>1. line[i] \in Signal
    BY ElementOfSeq, LenProperties
  <2> QED
    BY <2>1, LaterInLife, SignalNumbers DEF Current
<1> QED
  BY <1>1 DEF Promised, Accounted

\* The ring after one more signal: contiguous again, with e at its end, nothing
\* else that is new, and nothing gone that it still reaches.
Advances(r, s, e, last) ==
  /\ Holds(s, e.life, last)
  /\ InLine(e, s)
  /\ \A i \in DOMAIN s : s[i] = e \/ InLine(s[i], r)
  /\ \A x \in Signal : x.seq > last - Len(s) /\ InLine(x, r) => InLine(x, s)

LEMMA RingGrows ==
  ASSUME NEW r \in Seq(Signal), NEW e \in Signal, NEW last \in Nat, e.seq = last + 1,
         Holds(r, e.life, last)
  PROVE  Advances(r, Append(r, e), e, last + 1)
<1> DEFINE s == Append(r, e)
           n == Len(r)
<1>1. /\ s \in Seq(Signal) /\ s # <<>> /\ n \in Nat
      /\ DOMAIN s = 1 .. (n + 1) /\ DOMAIN r = 1 .. n /\ Len(s) = n + 1
      /\ s[n + 1] = e /\ \A i \in 1 .. n : s[i] = r[i]
  BY AppendElements, AppendProperties
<1>2. n <= last /\ \A i \in 1 .. n : r[i].life = e.life /\ r[i].seq = last - n + i
  BY <1>1 DEF Holds
<1> HIDE DEF s, n
<1>3. Holds(s, e.life, last + 1)
  BY <1>1, <1>2 DEF Holds
<1>4. InLine(e, s)
  BY <1>1 DEF InLine
<1>5. \A i \in DOMAIN s : s[i] = e \/ InLine(s[i], r)
  BY <1>1 DEF InLine
<1>6. \A x : InLine(x, r) => InLine(x, s)
  BY <1>1 DEF InLine
<1>7. Advances(r, s, e, last + 1)
  BY <1>3, <1>4, <1>5, <1>6 DEF Advances
<1> QED
  BY <1>7 DEF s

LEMMA RingShifts ==
  ASSUME NEW r \in Seq(Signal), NEW e \in Signal, NEW last \in Nat, e.seq = last + 1,
         Holds(r, e.life, last), r # <<>>
  PROVE  Advances(r, Tail(Append(r, e)), e, last + 1)
<1> DEFINE s == Tail(Append(r, e))
           n == Len(r)
<1>1. /\ s \in Seq(Signal) /\ n \in Nat /\ n > 0 /\ s # <<>>
      /\ DOMAIN s = 1 .. n /\ DOMAIN r = 1 .. n /\ Len(s) = n
      /\ s[n] = e /\ \A i \in 1 .. (n - 1) : s[i] = r[i + 1]
  <2>1. n \in Nat /\ n > 0
    BY TailElements
  <2>2. /\ Append(r, e) \in Seq(Signal) /\ Append(r, e) # <<>> /\ Len(Append(r, e)) = n + 1
        /\ DOMAIN r = 1 .. n /\ Append(r, e)[n + 1] = e /\ \A i \in 1 .. n : Append(r, e)[i] = r[i]
    BY AppendElements, AppendProperties
  <2>3. /\ s \in Seq(Signal) /\ DOMAIN s = 1 .. (Len(Append(r, e)) - 1)
        /\ \A i \in 1 .. (Len(Append(r, e)) - 1) : s[i] = Append(r, e)[i + 1]
    BY <2>2, TailElements
  <2>4. Len(s) = n
    BY <2>2, HeadTailProperties, <2>1
  <2> HIDE DEF s, n
  <2>5. s # <<>>
    BY <2>4, <2>1
  <2> QED
    BY <2>1, <2>2, <2>3, <2>4, <2>5
<1>2. n <= last /\ \A i \in 1 .. n : r[i].life = e.life /\ r[i].seq = last - n + i
  BY <1>1 DEF Holds
<1> HIDE DEF s, n
<1>3. Holds(s, e.life, last + 1)
  BY <1>1, <1>2 DEF Holds
<1>4. InLine(e, s)
  BY <1>1 DEF InLine
<1>5. \A i \in DOMAIN s : s[i] = e \/ InLine(s[i], r)
  BY <1>1 DEF InLine
<1>6. ASSUME NEW x \in Signal, x.seq > last + 1 - n, NEW i \in DOMAIN r, r[i] = x
      PROVE  InLine(x, s)
  <2>1. i - 1 \in 1 .. (n - 1)
    BY <1>6, <1>1, <1>2, SignalNumbers
  <2>2. s[i - 1] = x
    BY <2>1, <1>1, <1>6
  <2> QED
    BY <2>1, <2>2, <1>1 DEF InLine
<1>7. Advances(r, s, e, last + 1)
  BY <1>1, <1>3, <1>4, <1>5, <1>6 DEF Advances, InLine
<1> QED
  BY <1>7 DEF s

\* What the ring had for c was owed; so it is now.
LEMMA RingOwedAfter ==
  ASSUME NEW c \in Client, NEW r, NEW s, NEW e, NEW debt, NEW more, NEW from,
         \A i \in DOMAIN s : s[i] = e \/ InLine(s[i], r),
         Allows(c, e) => e \in more, debt \subseteq more,
         RingOwed(r, c, debt, from)
  PROVE  RingOwed(s, c, more, from)
BY DEF RingOwed, InLine

-----------------------------------------------------------------------------
(* A client resumes: the loop over the ring *)

\* A set of naturals that holds a, and with each number below b the next one,
\* holds all of a .. b: its least exception would have to follow a member.
LEMMA Climb ==
  ASSUME NEW a \in Nat, NEW b \in Nat, NEW S, a \in S,
         \A n \in a .. b : n # b /\ n \in S => n + 1 \in S
  PROVE  \A n \in a .. b : n \in S
<1> DEFINE T == {n \in a .. b : n \notin S}
<1>1. SUFFICES ASSUME T # {} PROVE FALSE
  OBVIOUS
<1>2. T \subseteq Nat
  OBVIOUS
<1>3. PICK m \in T : \A k \in T : <<k, m>> \notin OpToRel(<, Nat)
  BY <1>1, <1>2, WFMin, NatLessThanWellFounded, Zenon
<1>4. \A k \in T : ~(k < m)
  BY <1>2, <1>3, Zenon DEF OpToRel
<1>5. m \in Nat /\ a <= m /\ m <= b /\ m \notin S
  OBVIOUS
<1>6. m # a
  BY <1>5
<1>7. m - 1 \in a .. b /\ m - 1 < m /\ m - 1 # b /\ (m - 1) + 1 = m
  BY <1>5, <1>6
<1>8. m - 1 \in S
  BY <1>4, <1>7
<1> QED
  BY <1>5, <1>7, <1>8

\* The loop has a result: the function that Missed defines exists.
LEMMA LoopIsDefined ==
  ASSUME NEW c \in Client, NEW a \in Nat, NEW b \in Nat, a <= b
  PROVE  \E f : f = [s \in a .. b |->
           IF s = a THEN <<>>
           ELSE IF Allows(c, SignalAt(s)) THEN Append(f[s - 1], SignalAt(s)) ELSE f[s - 1]]
<1> DEFINE Step(f, s) == IF s = a THEN <<>>
                         ELSE IF Allows(c, SignalAt(s)) THEN Append(f[s - 1], SignalAt(s))
                         ELSE f[s - 1]
           S == {n \in Nat : \E f : f = [s \in a .. n |-> Step(f, s)]}
<1>1. a \in S
  <2> DEFINE f == [s \in a .. a |-> <<>>]
  <2>1. \A s \in a .. a : s = a
    OBVIOUS
  <2>2. f = [s \in a .. a |-> Step(f, s)]
    BY <2>1
  <2> QED
    BY <2>2
<1>2. ASSUME NEW n \in a .. b, n # b, n \in S
      PROVE  n + 1 \in S
  <2>1. n \in Nat /\ n + 1 \in Nat /\ n >= a
    OBVIOUS
  <2>2. PICK f : f = [s \in a .. n |-> Step(f, s)]
    BY <1>2
  <2> DEFINE new == IF Allows(c, SignalAt(n + 1)) THEN Append(f[n], SignalAt(n + 1)) ELSE f[n]
             g == [s \in a .. (n + 1) |-> IF s = n + 1 THEN new ELSE f[s]]
  <2> HIDE DEF new
  <2>3. \A s \in a .. n : g[s] = f[s]
    BY <2>1
  <2>4. \A s \in a .. (n + 1) : g[s] = Step(g, s)
    <3> TAKE s \in a .. (n + 1)
    <3>1. CASE s = n + 1
      <4>1. g[n] = f[n] /\ g[s] = new /\ s - 1 = n /\ s # a
        BY <2>1, <2>3, <3>1
      <4> QED
        BY <4>1, <3>1 DEF new
    <3>2. CASE s = a
      BY <3>2, <2>1, <2>2, <2>3
    <3>3. CASE s # a /\ s # n + 1
      <4>1. s \in a .. n /\ s - 1 \in a .. n
        BY <3>3, <2>1
      <4>2. g[s] = f[s] /\ g[s - 1] = f[s - 1]
        BY <4>1, <2>3
      <4> QED
        BY <4>1, <4>2, <2>2
    <3> QED
      BY <3>1, <3>2, <3>3
  <2>5. g = [s \in a .. (n + 1) |-> Step(g, s)]
    BY <2>4
  <2> QED
    BY <2>1, <2>5
<1> HIDE DEF S
<1>3. b \in S
  BY <1>1, <1>2, Climb
<1> QED
  BY <1>3 DEF S

\* The line for c of what the ring has between two numbers.
Filtered(line, c, from, to) ==
  /\ line \in Seq(Signal)
  /\ Current(line, hubLife, to)
  /\ Ordered(line)
  /\ \A i \in DOMAIN line : InLine(line[i], ring) /\ Allows(c, line[i]) /\ line[i].seq > from
  /\ \A i \in DOMAIN ring :
       ring[i].seq > from /\ ring[i].seq <= to /\ Allows(c, ring[i]) => InLine(ring[i], line)

\* The numbers of the ring: it holds FirstSeq .. seq.
LEMMA Numbering ==
  ASSUME NEW last \in Nat, NEW n \in Nat, n <= last, NEW first, first = last - n + 1
  PROVE  /\ first \in Nat \ {0}
         /\ \A i \in 1 .. n : last - n + i = first - 1 + i
         /\ \A s \in first .. last : s - first + 1 \in 1 .. n
         /\ \A i \in 1 .. n, k \in Nat : k = first - 1 + i => k - first + 1 = i
OBVIOUS

LEMMA RingNumbers ==
  ASSUME seq \in 0 .. MaxSignals, RingIsContiguous
  PROVE  /\ seq \in Nat /\ ring \in Seq(Signal) /\ Len(ring) \in Nat /\ Len(ring) <= seq
         /\ DOMAIN ring = 1 .. Len(ring) /\ FirstSeq \in Nat \ {0}
         /\ \A i \in DOMAIN ring : /\ ring[i] \in Signal /\ ring[i].life = hubLife
                                   /\ ring[i].seq = FirstSeq - 1 + i
         /\ \A s \in FirstSeq .. seq : s - FirstSeq + 1 \in DOMAIN ring
         /\ \A i \in DOMAIN ring : ring[i].seq - FirstSeq + 1 = i
<1> DEFINE n == Len(ring)
<1>1. ring \in Seq(Signal) /\ n <= seq /\ seq \in Nat
  BY BoundsAreNumbers DEF RingIsContiguous, Holds
<1>2. n \in Nat /\ DOMAIN ring = 1 .. n
  BY <1>1, LenProperties
<1>3. \A i \in DOMAIN ring : ring[i] \in Signal /\ ring[i].seq \in Nat
  BY <1>1, <1>2, ElementOfSeq, SignalNumbers
<1>4. \A i \in DOMAIN ring : ring[i].life = hubLife /\ ring[i].seq = seq - n + i
  BY DEF RingIsContiguous, Holds
<1>5. FirstSeq = seq - n + 1
  BY DEF FirstSeq
<1> HIDE DEF n
<1>6. /\ FirstSeq \in Nat \ {0}
      /\ \A i \in 1 .. n : seq - n + i = FirstSeq - 1 + i
      /\ \A s \in FirstSeq .. seq : s - FirstSeq + 1 \in 1 .. n
      /\ \A i \in 1 .. n, k \in Nat : k = FirstSeq - 1 + i => k - FirstSeq + 1 = i
  BY <1>1, <1>2, <1>5, Numbering
<1>7. \A i \in DOMAIN ring : /\ ring[i].seq = FirstSeq - 1 + i
                             /\ ring[i].seq - FirstSeq + 1 = i
  BY <1>2, <1>3, <1>4, <1>6
<1> QED
  BY <1>1, <1>2, <1>3, <1>4, <1>6, <1>7 DEF n

\* One more signal of the ring: it is appended if the scope allows it.
LEMMA FilteredGrows ==
  ASSUME NEW line, NEW c \in Client, NEW from \in Nat, NEW to \in Nat, from <= to, to < seq,
         seq \in 0 .. MaxSignals, hubLife \in HubLife, RingIsContiguous, from + 1 >= FirstSeq,
         Filtered(line, c, from, to)
  PROVE  IF Allows(c, SignalAt(to + 1))
         THEN Filtered(Append(line, SignalAt(to + 1)), c, from, to + 1)
         ELSE Filtered(line, c, from, to + 1)
<1> DEFINE e == SignalAt(to + 1)
<1>1. /\ e \in Signal /\ e.life = hubLife /\ e.seq = to + 1 /\ InLine(e, ring)
      /\ \A i \in DOMAIN ring : /\ ring[i] \in Signal /\ ring[i].seq \in Nat
                                /\ ring[i].seq = to + 1 => ring[i] = e
  <2>1. to + 1 \in FirstSeq .. seq /\ to + 1 - FirstSeq + 1 \in DOMAIN ring
    BY RingNumbers
  <2>2. e \in Signal /\ e.life = hubLife /\ e.seq = to + 1 /\ InLine(e, ring)
    BY <2>1, RingNumbers DEF SignalAt, InLine
  <2>3. ASSUME NEW i \in DOMAIN ring, ring[i].seq = to + 1
        PROVE  ring[i] = e
    <3>1. ring[i].seq - FirstSeq + 1 = i /\ FirstSeq \in Nat
      BY RingNumbers
    <3>2. i = (to + 1) - FirstSeq + 1
      BY <2>3, <3>1
    <3> HIDE <2>3
    <3> QED
      BY <3>2 DEF SignalAt
  <2> QED
    BY <2>2, <2>3, RingNumbers, SignalNumbers
<1> HIDE DEF e
<1>2. /\ line \in Seq(Signal) /\ Current(line, hubLife, to) /\ Ordered(line)
      /\ \A i \in DOMAIN line : InLine(line[i], ring) /\ Allows(c, line[i]) /\ line[i].seq > from
      /\ \A i \in DOMAIN ring :
           ring[i].seq > from /\ ring[i].seq <= to /\ Allows(c, ring[i]) => InLine(ring[i], line)
  BY DEF Filtered
<1>3. CASE Allows(c, e)
  <2> DEFINE longer == Append(line, e)
  <2>1. longer \in Seq(Signal) /\ Current(longer, hubLife, to + 1) /\ Ordered(longer)
    BY <1>1, <1>2, LineStaysOrdered, AppendElements
  <2>2. \A i \in DOMAIN longer :
          InLine(longer[i], ring) /\ Allows(c, longer[i]) /\ longer[i].seq > from
    BY <1>1, <1>2, <1>3, AppendElements
  <2>3. ASSUME NEW i \in DOMAIN ring, ring[i].seq > from, ring[i].seq <= to + 1,
               Allows(c, ring[i])
        PROVE  InLine(ring[i], longer)
    <3>1. CASE ring[i].seq = to + 1
      BY <3>1, <1>1, <1>2, AppendElements DEF InLine
    <3>2. CASE ring[i].seq # to + 1
      <4>1. InLine(ring[i], line)
        BY <3>2, <2>3, <1>1, <1>2
      <4> QED
        BY <4>1, <1>1, <1>2, AppendElements DEF InLine
    <3> QED
      BY <3>1, <3>2
  <2>4. Filtered(longer, c, from, to + 1)
    BY <2>1, <2>2, <2>3 DEF Filtered
  <2> QED
    BY <2>4, <1>3 DEF e
<1>4. CASE ~Allows(c, e)
  <2>1. Current(line, hubLife, to + 1)
    <3> SUFFICES ASSUME NEW i \in DOMAIN line
                 PROVE  line[i].life = hubLife /\ line[i].seq <= to + 1
      BY DEF Current
    <3>1. line[i] \in Signal /\ line[i].life = hubLife /\ line[i].seq <= to
      BY <1>2, ElementOfSeq, LenProperties DEF Current
    <3> QED
      BY <3>1, SignalNumbers
  <2>2. \A i \in DOMAIN ring :
          ring[i].seq > from /\ ring[i].seq <= to + 1 /\ Allows(c, ring[i]) => InLine(ring[i], line)
    BY <1>1, <1>2, <1>4
  <2>3. Filtered(line, c, from, to + 1)
    BY <1>2, <2>1, <2>2 DEF Filtered
  <2> QED
    BY <2>3, <1>4 DEF e
<1> QED
  BY <1>3, <1>4

\* What the loop returns: every signal after the cursor that the ring has for c.
LEMMA MissedIsExact ==
  ASSUME NEW c \in Client, NEW id, id.seq \in Nat, id.seq <= seq, id.seq + 1 >= FirstSeq,
         seq \in 0 .. MaxSignals, hubLife \in HubLife, RingIsContiguous
  PROVE  Filtered(Missed(c, id), c, id.seq, seq)
<1> DEFINE a == id.seq
           taken[s \in id.seq .. seq] ==
             IF s = id.seq THEN <<>>
             ELSE IF Allows(c, SignalAt(s)) THEN Append(taken[s - 1], SignalAt(s))
             ELSE taken[s - 1]
           S == {n \in id.seq .. seq : Filtered(taken[n], c, id.seq, n)}
<1>1. seq \in Nat /\ \A n \in id.seq .. seq : n \in Nat
  BY RingNumbers
<1>2. \A s \in id.seq .. seq :
        taken[s] = IF s = id.seq THEN <<>>
                   ELSE IF Allows(c, SignalAt(s)) THEN Append(taken[s - 1], SignalAt(s))
                   ELSE taken[s - 1]
  <2>1. \E f : f = [s \in id.seq .. seq |->
           IF s = id.seq THEN <<>>
           ELSE IF Allows(c, SignalAt(s)) THEN Append(f[s - 1], SignalAt(s)) ELSE f[s - 1]]
    BY <1>1, LoopIsDefined
  <2>2. taken = [s \in id.seq .. seq |->
           IF s = id.seq THEN <<>>
           ELSE IF Allows(c, SignalAt(s)) THEN Append(taken[s - 1], SignalAt(s)) ELSE taken[s - 1]]
    BY <2>1
  <2> HIDE DEF taken
  <2> QED
    BY <2>2
<1>3. Missed(c, id) = taken[seq]
  BY DEF Missed
<1> HIDE DEF taken
<1>4. id.seq \in S
  <2>1. taken[id.seq] = <<>> /\ id.seq \in id.seq .. seq
    BY <1>1, <1>2
  <2>2. Filtered(<<>>, c, id.seq, id.seq)
    BY RingNumbers, SignalNumbers DEF Filtered, Current, Ordered
  <2> QED
    BY <2>1, <2>2
<1>5. ASSUME NEW n \in id.seq .. seq, n # seq, n \in S
      PROVE  n + 1 \in S
  <2>1. n \in Nat /\ n < seq /\ n + 1 \in id.seq .. seq /\ n + 1 # id.seq /\ (n + 1) - 1 = n
    BY <1>1, <1>5
  <2>2. taken[n + 1] = IF Allows(c, SignalAt(n + 1))
                       THEN Append(taken[n], SignalAt(n + 1)) ELSE taken[n]
    BY <2>1, <1>2
  <2>3. Filtered(taken[n], c, id.seq, n)
    BY <1>5
  <2>4. Filtered(taken[n + 1], c, id.seq, n + 1)
    BY <2>1, <2>2, <2>3, FilteredGrows
  <2> QED
    BY <2>1, <2>4
<1> HIDE DEF S
<1>6. \A n \in id.seq .. seq : n \in S
  BY <1>1, <1>4, <1>5, Climb
<1>7. seq \in S
  BY <1>1, <1>6
<1> QED
  BY <1>3, <1>7 DEF S

-----------------------------------------------------------------------------
(* The invariant is inductive: one lemma per action *)

LEMMA LineType ==
  ASSUME Shape, NEW c \in Client
  PROVE  /\ replay[c] \in Seq(Signal) /\ chan[c] \in Seq(Signal) /\ Line(c) \in Seq(Signal)
         /\ DOMAIN Line(c) = 1 .. Len(Line(c))
         /\ \A i \in DOMAIN Line(c) : Line(c)[i] \in Signal
         /\ owed[c] \subseteq Signal /\ sub[c] \in SubState
<1>1. replay[c] \in Seq(Signal) /\ chan[c] \in Seq(Signal)
  BY DEF Shape
<1>2. Line(c) \in Seq(Signal)
  BY <1>1, LineShrinks DEF Line
<1>3. owed[c] \subseteq Signal /\ sub[c] \in SubState
  BY DEF Shape
<1> QED
  BY <1>1, <1>2, <1>3, LenProperties, ElementOfSeq

\* A line that does not change, when a signal is published.
LEMMA LineWaits ==
  ASSUME NEW line \in Seq(Signal), NEW life, NEW last \in Nat, Current(line, life, last)
  PROVE  Current(line, life, last + 1)
<1> SUFFICES ASSUME NEW i \in DOMAIN line
             PROVE  line[i].life = life /\ line[i].seq <= last + 1
  BY DEF Current
<1>1. line[i] \in Signal /\ line[i].life = life /\ line[i].seq <= last
  BY ElementOfSeq, LenProperties DEF Current
<1> QED
  BY <1>1, SignalNumbers

\* The state after a signal: its number, the ring, and the debts.
LEMMA PublishedState ==
  ASSUME StreamInv, NEW about \in Namespace \cup {"cluster", "reset"}, PublishSignal(about),
         NEW e, e = [life |-> hubLife, seq |-> seq + 1, about |-> about]
  PROVE  /\ e \in Signal /\ e.life = hubLife /\ e.seq = seq + 1 /\ seq \in Nat /\ seq' = seq + 1
         /\ Advances(ring, ring', e, seq + 1)
         /\ Len(ring') <= Len(ring) + 1
         /\ \A c \in Client : owed'[c] = IF c \in known /\ Allows(c, e) THEN owed[c] \cup {e}
                                         ELSE owed[c]
         /\ \A c \in Client : sub'[c] \in {sub[c], "dropped"}
         /\ \A c \in Client : sub[c] # "open" => sub'[c] = sub[c] /\ chan'[c] = chan[c]
         /\ \A c \in Client : sub[c] = "open" =>
              \/ Allows(c, e) /\ sub'[c] = "open" /\ chan'[c] = Append(chan[c], e)
              \/ Allows(c, e) /\ sub'[c] = "dropped" /\ chan'[c] = chan[c]
              \/ ~Allows(c, e) /\ sub'[c] = "open" /\ chan'[c] = chan[c]
         /\ Shape' /\ RingIsContiguous'
<1> DEFINE grown == Append(ring, e)
<1>1. seq \in Nat /\ seq' = seq + 1 /\ seq + 1 \in 0 .. MaxSignals /\ hubLife \in HubLife
  BY BoundsAreNumbers DEF StreamInv, Shape, PublishSignal
<1>2. e \in Signal /\ e.life = hubLife /\ e.seq = seq + 1
  BY <1>1 DEF Signal
<1>3. ring \in Seq(Signal) /\ Holds(ring, e.life, seq) /\ Len(ring) \in Nat
  BY <1>2, LenProperties DEF StreamInv, RingIsContiguous, Shape
<1>4. ring' = IF Len(grown) > RingSize THEN Tail(grown) ELSE grown
  BY DEF PublishSignal
<1>5. grown \in Seq(Signal) /\ Len(grown) = Len(ring) + 1 /\ grown # <<>>
  BY <1>2, <1>3, AppendElements, AppendProperties
<1>6. Advances(ring, ring', e, seq + 1) /\ Len(ring') <= Len(ring) + 1
  <2>1. CASE Len(grown) > RingSize
    <3>1. ring # <<>>
      BY <2>1, <1>5, <1>3, BoundsAreNumbers, EmptySeq
    <3>2. Advances(ring, Tail(grown), e, seq + 1)
      BY <3>1, <1>1, <1>2, <1>3, RingShifts
    <3>3. Len(Tail(grown)) = Len(ring)
      BY <1>3, <1>5, HeadTailProperties
    <3> QED
      BY <3>2, <3>3, <2>1, <1>3, <1>4
  <2>2. CASE ~(Len(grown) > RingSize)
    <3>1. Advances(ring, grown, e, seq + 1)
      BY <1>1, <1>2, <1>3, RingGrows
    <3> QED
      BY <3>1, <2>2, <1>3, <1>4, <1>5
  <2> QED
    BY <2>1, <2>2
<1>7. \A c \in Client : owed'[c] = IF c \in known /\ Allows(c, e) THEN owed[c] \cup {e}
                                   ELSE owed[c]
  BY DEF PublishSignal
<1>8. /\ chan' = [c \in Client |-> IF c \in Open /\ Allows(c, e) /\ ~Full(c)
                                   THEN Append(chan[c], e) ELSE chan[c]]
      /\ sub' = [c \in Client |-> IF c \in Open /\ Allows(c, e) /\ Full(c)
                                  THEN "dropped" ELSE sub[c]]
  BY DEF PublishSignal, RemoveAll, Open
<1> HIDE DEF grown
<1>9. \A c \in Client : sub'[c] \in {sub[c], "dropped"}
  BY <1>8
<1>10. \A c \in Client : sub[c] # "open" => sub'[c] = sub[c] /\ chan'[c] = chan[c]
  BY <1>8 DEF Open
<1>11. \A c \in Client : sub[c] = "open" =>
              \/ Allows(c, e) /\ sub'[c] = "open" /\ chan'[c] = Append(chan[c], e)
              \/ Allows(c, e) /\ sub'[c] = "dropped" /\ chan'[c] = chan[c]
              \/ ~Allows(c, e) /\ sub'[c] = "open" /\ chan'[c] = chan[c]
  BY <1>8 DEF Open
<1>12. Holds(ring', hubLife, seq + 1)
  BY <1>2, <1>6 DEF Advances
<1>13. Shape'
  <2>1. chan' \in [Client -> Seq(Signal)]
    <3>1. \A c \in Client : chan[c] \in Seq(Signal) /\ Append(chan[c], e) \in Seq(Signal)
      BY <1>2, AppendElements DEF StreamInv, Shape
    <3> QED
      BY <3>1, <1>8
  <2>2. sub' \in [Client -> SubState]
    BY <1>8 DEF StreamInv, Shape, SubState
  <2>3. owed' \in [Client -> SUBSET Signal]
    <3>1. owed' = [c \in Client |-> IF c \in known /\ Allows(c, e) THEN owed[c] \cup {e}
                                    ELSE owed[c]]
      BY DEF PublishSignal
    <3> QED
      BY <3>1, <1>2 DEF StreamInv, Shape
  <2>4. ring' \in Seq(Signal)
    BY <1>12 DEF Holds
  <2>5. /\ hubLife' \in HubLife /\ closed' \in BOOLEAN /\ replay' \in [Client -> Seq(Signal)]
        /\ cursor' \in [Client -> Stamp \cup {NoStream}] /\ known' \subseteq Client
        /\ hubSettled' \in BOOLEAN
    BY DEF StreamInv, Shape, PublishSignal
  <2> QED
    BY <2>1, <2>2, <2>3, <2>4, <2>5, <1>1 DEF Shape
<1>14. RingIsContiguous'
  BY <1>12, <1>1 DEF RingIsContiguous, PublishSignal
<1> QED
  BY <1>1, <1>2, <1>6, <1>7, <1>9, <1>10, <1>11, <1>13, <1>14

ClientInv(c) == DebtWasPublished(c) /\ CursorSeparates(c) /\ LineIsExact(c)

\* The next signal as one client sees it.
LEMMA PublishedClient ==
  ASSUME StreamInv, NEW about \in Namespace \cup {"cluster", "reset"}, PublishSignal(about),
         NEW c \in Client
  PROVE  ClientInv(c)'
<1> DEFINE e == [life |-> hubLife, seq |-> seq + 1, about |-> about]
           more == owed'[c]
           line == Line(c)
<1>1. /\ e \in Signal /\ e.life = hubLife /\ e.seq = seq + 1 /\ seq \in Nat /\ seq' = seq + 1
      /\ Advances(ring, ring', e, seq + 1) /\ Len(ring') <= Len(ring) + 1
      /\ more = IF c \in known /\ Allows(c, e) THEN owed[c] \cup {e} ELSE owed[c]
      /\ sub'[c] \in {sub[c], "dropped"}
      /\ sub[c] # "open" => sub'[c] = sub[c] /\ chan'[c] = chan[c]
      /\ sub[c] = "open" =>
              \/ Allows(c, e) /\ sub'[c] = "open" /\ chan'[c] = Append(chan[c], e)
              \/ Allows(c, e) /\ sub'[c] = "dropped" /\ chan'[c] = chan[c]
              \/ ~Allows(c, e) /\ sub'[c] = "open" /\ chan'[c] = chan[c]
  BY PublishedState, Zenon
<1>2. hubLife' = hubLife /\ replay'[c] = replay[c] /\ cursor'[c] = cursor[c] /\ known' = known
  BY DEF PublishSignal
<1>3. /\ replay[c] \in Seq(Signal) /\ chan[c] \in Seq(Signal) /\ line \in Seq(Signal)
      /\ DOMAIN line = 1 .. Len(line) /\ (\A i \in DOMAIN line : line[i] \in Signal)
      /\ owed[c] \subseteq Signal /\ more \subseteq Signal
      /\ sub[c] \in {"none", "open", "dropped"}
  BY <1>1, LineType DEF StreamInv, SubState
<1>4. DebtWasPublished(c) /\ CursorSeparates(c) /\ LineIsExact(c)
  BY DEF StreamInv
<1>5. Len(ring) \in Nat /\ Len(ring') \in Nat /\ ring' \in Seq(Signal)
  BY <1>1, LenProperties DEF StreamInv, Shape, Advances, Holds
<1> HIDE DEF e, more, line
<1>6. ASSUME NEW from, RingOwed(ring, c, owed[c], from), c \in known
      PROVE  RingOwed(ring', c, more, from)
  <2>1. \A i \in DOMAIN ring' : ring'[i] = e \/ InLine(ring'[i], ring)
    BY <1>1 DEF Advances
  <2>2. (Allows(c, e) => e \in more) /\ owed[c] \subseteq more
    BY <1>1, <1>6
  <2> QED
    BY <1>6, <2>1, <2>2, RingOwedAfter
<1>7. DebtWasPublished(c)'
  <2> SUFFICES ASSUME NEW x \in more
               PROVE  /\ Allows(c, x) /\ x.life <= hubLife
                      /\ x.life = hubLife => /\ x.seq >= 1 /\ x.seq <= seq + 1
                                             /\ x.seq > seq + 1 - Len(ring') => InLine(x, ring')
    BY <1>1, <1>2 DEF DebtWasPublished, more
  <2>1. hubLife \in Nat /\ x.seq \in Nat /\ x \in Signal
    BY <1>1, <1>3, SignalNumbers
  <2>2. CASE x = e /\ Allows(c, e)
    BY <2>1, <2>2, <1>1 DEF Advances
  <2>3. CASE x \in owed[c]
    <3>1. /\ Allows(c, x) /\ x.life <= hubLife
          /\ x.life = hubLife => /\ x.seq >= 1 /\ x.seq <= seq
                                 /\ x.seq > seq - Len(ring) => InLine(x, ring)
      BY <2>3, <1>4 DEF DebtWasPublished
    <3>2. x.seq > seq + 1 - Len(ring') => x.seq > seq - Len(ring)
      BY <1>1, <1>5, <2>1
    <3>3. x.seq > seq + 1 - Len(ring') /\ InLine(x, ring) => InLine(x, ring')
      BY <1>1, <2>1 DEF Advances
    <3> QED
      BY <3>1, <3>2, <3>3, <2>1, <1>1
  <2> QED
    BY <2>2, <2>3, <1>1
<1>8. CursorSeparates(c)'
  <2> DEFINE k == cursor[c]
  <2> SUFFICES ASSUME k # NoStream
               PROVE  /\ c \in known /\ k.life <= hubLife
                      /\ k.life = hubLife =>
                           /\ k.seq <= seq + 1
                           /\ \A x \in more : x.life = hubLife /\ x.seq > k.seq
                           /\ RingOwed(ring', c, more, k.seq)
    BY <1>1, <1>2 DEF CursorSeparates, more
  <2>1. /\ c \in known /\ k.life <= hubLife
        /\ k.life = hubLife =>
             /\ k.seq <= seq
             /\ \A x \in owed[c] : x.life = hubLife /\ x.seq > k.seq
             /\ RingOwed(ring, c, owed[c], k.seq)
    BY <1>4 DEF CursorSeparates
  <2>2. k.seq \in Nat
    BY BoundsAreNumbers DEF StreamInv, Shape, Stamp
  <2> HIDE DEF k
  <2>3. k.life = hubLife => RingOwed(ring', c, more, k.seq)
    BY <2>1, <1>6
  <2>4. ASSUME k.life = hubLife
        PROVE  k.seq <= seq + 1 /\ \A x \in more : x.life = hubLife /\ x.seq > k.seq
    BY <2>1, <2>2, <2>4, <1>1
  <2> QED
    BY <2>1, <2>3, <2>4
<1>9. LineIsExact(c)'
  <2>1. CASE sub[c] = "none"
    BY <2>1, <1>1, <1>2, <1>4 DEF LineIsExact
  <2>2. CASE sub[c] # "none"
    <3>1. /\ c \in known
          /\ Current(line, e.life, seq) /\ Ordered(line)
          /\ Promised(line, owed[c]) /\ Accounted(line, owed[c], sub[c])
          /\ line # <<>> => RingOwed(ring, c, owed[c], line[1].seq)
      BY <2>2, <1>1, <1>4 DEF LineIsExact, line
    <3>2. CASE sub'[c] = "open" /\ Allows(c, e)
      <4>1. sub[c] = "open" /\ chan'[c] = Append(chan[c], e) /\ more = owed[c] \cup {e}
        BY <3>1, <3>2, <1>1, <2>2
      <4>2. Line(c)' = Append(line, e)
        BY <4>1, <1>1, <1>2, <1>3, LineGrows DEF Line, line
      <4> DEFINE longer == Append(line, e)
      <4>3. Current(longer, e.life, seq + 1) /\ Ordered(longer)
        BY <3>1, <1>1, <1>3, LineStaysOrdered
      <4>4. Promised(longer, more) /\ Accounted(longer, more, "open")
        <5>1. Promised(line, owed[c]) /\ Accounted(line, owed[c], "open")
          BY <3>1, <4>1
        <5>2. e \in Signal /\ line \in Seq(Signal) /\ "open" # "dropped"
          BY <1>1, <1>3
        <5>3. /\ Promised(Append(line, e), owed[c] \cup {e})
              /\ Accounted(Append(line, e), owed[c] \cup {e}, "open")
          BY <5>1, <5>2, TakenIsAccounted
        <5> QED
          BY <5>3, <4>1, Zenon
      <4>5. RingOwed(ring', c, more, longer[1].seq)
        <5>1. CASE line = <<>>
          <6>1. longer[1].seq = seq + 1
            BY <5>1, <1>1, <1>3, AppendElements, EmptySeq
          <6>2. \A i \in DOMAIN ring' : ~(ring'[i].seq > seq + 1)
            <7> TAKE i \in DOMAIN ring'
            <7>1. i \in 1 .. Len(ring')
              BY <1>5, LenProperties
            <7>2. ring'[i].seq = seq + 1 - Len(ring') + i
              BY <1>1 DEF Advances, Holds
            <7> QED
              BY <7>1, <7>2, <1>1, <1>5
          <6> QED
            BY <6>1, <6>2 DEF RingOwed
        <5>2. CASE line # <<>>
          <6>1. longer[1] = line[1]
            BY <5>2, <1>1, <1>3, AppendElements, TailElements
          <6> QED
            BY <6>1, <5>2, <3>1, <1>6
        <5> QED
          BY <5>1, <5>2
      <4> HIDE DEF longer
      <4>6. Line(c)' = longer
        BY <4>2 DEF longer
      <4> QED
        BY <4>3, <4>4, <4>5, <4>6, <3>1, <3>2, <1>1, <1>2 DEF LineIsExact, more
    <3>3. CASE ~(sub'[c] = "open" /\ Allows(c, e))
      <4>1. chan'[c] = chan[c] /\ sub'[c] \in {"open", "dropped"} /\ (sub'[c] = "open" => sub[c] = "open")
        BY <3>3, <1>1, <1>3, <2>2
      <4>2. Line(c)' = line
        BY <4>1, <1>2 DEF Line, line
      <4>3. Current(line, e.life, seq + 1)
        BY <3>1, <1>1, <1>3, LineWaits
      <4>4. Promised(line, more) /\ Accounted(line, more, sub'[c])
        <5>1. CASE sub'[c] = "dropped"
          BY <5>1, <3>1, <1>1, <1>3, DroppedIsAccounted
        <5>2. CASE sub'[c] = "open"
          BY <5>2, <3>1, <3>3, <4>1, <1>1
        <5> QED
          BY <5>1, <5>2, <4>1
      <4>5. line # <<>> => RingOwed(ring', c, more, line[1].seq)
        BY <3>1, <1>6
      <4> QED
        BY <4>1, <4>2, <4>3, <4>4, <4>5, <3>1, <1>1, <1>2 DEF LineIsExact, more
    <3> QED
      BY <3>2, <3>3
  <2> QED
    BY <2>1, <2>2
<1> QED
  BY <1>7, <1>8, <1>9 DEF ClientInv

\* A line is read at its head: what a client is told, it is no longer owed.
Less(debt, e) == IF e.about = "reset" THEN {x \in debt : ~NotAfter(x, e)} ELSE debt \ {e}

IsRead(line, rest, debt, less, state, life, last, e) ==
  /\ Current(rest, life, last) /\ Ordered(rest)
  /\ Promised(rest, less) /\ Accounted(rest, less, state)
  /\ \A i \in DOMAIN rest : rest[i].seq > e.seq
  /\ \A x \in Signal : x.life = life /\ x.seq > e.seq /\ x \in debt => x \in less
  /\ e.about # "reset" => \A x \in less : LaterSignal(x, e)

LEMMA ToldClient ==
  ASSUME NEW line \in Seq(Signal), line # <<>>, NEW debt, debt \subseteq Signal, NEW state,
         NEW life, NEW last \in Nat,
         Current(line, life, last), Ordered(line),
         Promised(line, debt), Accounted(line, debt, state)
  PROVE  IsRead(line, Tail(line), debt, Less(debt, line[1]), state, life, last, line[1])
<1> DEFINE e == line[1]
           rest == Tail(line)
           less == Less(debt, e)
<1>0. \A x : x \in less <=> x \in debt /\ IF e.about = "reset" THEN ~NotAfter(x, e) ELSE x # e
  BY DEF Less
<1> DEFINE n == Len(line)
<1>1. /\ rest \in Seq(Signal) /\ n \in Nat /\ n > 0
      /\ DOMAIN line = 1 .. n /\ DOMAIN rest = 1 .. (n - 1)
      /\ \A i \in 1 .. (n - 1) : rest[i] = line[i + 1]
      /\ e \in Signal /\ e = line[1]
  BY TailElements
<1>2. \A i \in 1 .. n : /\ line[i] \in Signal /\ line[i].life = life /\ line[i].seq <= last
                        /\ line[i].life \in Nat /\ line[i].seq \in Nat
  BY <1>1, ElementOfSeq, SignalNumbers DEF Current
<1>3. \A i, j \in 1 .. n : i < j => LaterSignal(line[j], line[i])
  BY <1>1 DEF Ordered
<1>4. \A i \in 1 .. (n - 1) : /\ i + 1 \in 1 .. n /\ 1 < i + 1 /\ 1 \in 1 .. n
                              /\ LaterSignal(line[i + 1], line[1])
  BY <1>1, <1>3
<1> HIDE DEF n, e, rest, less
<1>5. \A i \in DOMAIN rest : rest[i] \in Signal /\ rest[i].life = life /\ rest[i].seq <= last
                             /\ LaterSignal(rest[i], e)
  BY <1>1, <1>2, <1>4
<1>6. Current(rest, life, last)
  BY <1>5 DEF Current
<1>7. Ordered(rest)
  <2> SUFFICES ASSUME NEW i \in DOMAIN rest, NEW j \in DOMAIN rest, i < j
               PROVE  LaterSignal(rest[j], rest[i])
    BY DEF Ordered
  <2>1. i + 1 \in 1 .. n /\ j + 1 \in 1 .. n /\ i + 1 < j + 1
    BY <1>1
  <2> QED
    BY <2>1, <1>1, <1>3
<1>8. e.life = life /\ e.seq \in Nat /\ ~LaterSignal(e, e)
  BY <1>1, <1>2, SignalNumbers DEF LaterSignal, NotAfter
<1>9. \A x \in debt : LaterSignal(x, e) => x \in less
  <2> SUFFICES ASSUME NEW x \in debt, LaterSignal(x, e)
               PROVE  x \in less
    OBVIOUS
  <2>1. ~NotAfter(x, e) /\ x # e
    BY <1>8 DEF LaterSignal
  <2> QED
    BY <2>1, <1>0
<1>10. less \subseteq debt /\ e \notin less
  BY <1>0, <1>8 DEF LaterSignal
<1>11. Promised(rest, less)
  <2> SUFFICES ASSUME NEW i \in DOMAIN rest
               PROVE  rest[i] \in less \/ rest[i].about = "reset"
    BY DEF Promised
  <2>1. rest[i] \in debt \/ rest[i].about = "reset"
    BY <1>1, <1>4 DEF Promised
  <2> QED
    BY <2>1, <1>5, <1>9
<1>12. ASSUME NEW x \in less
       PROVE  /\ \/ InLine(x, rest)
                 \/ state = "dropped" /\ \A i \in DOMAIN rest : LaterSignal(x, rest[i])
              /\ e.about # "reset" => LaterSignal(x, e)
  <2>1. x \in debt /\ x # e /\ (e.about = "reset" => ~NotAfter(x, e))
    BY <1>0, <1>10, <1>12
  <2>2. CASE InLine(x, line)
    <3>1. PICK i \in 1 .. n : line[i] = x
      BY <2>2, <1>1 DEF InLine
    <3>2. i - 1 \in 1 .. (n - 1) /\ (i - 1) + 1 = i
      BY <3>1, <2>1, <1>1
    <3>3. rest[i - 1] = x /\ i - 1 \in DOMAIN rest
      BY <3>1, <3>2, <1>1
    <3> QED
      BY <3>3, <1>5 DEF InLine
  <2>3. CASE HeadCovers(x, line)
    BY <2>1, <2>3, <1>1 DEF HeadCovers
  <2>4. CASE state = "dropped" /\ \A i \in DOMAIN line : LaterSignal(x, line[i])
    BY <2>4, <1>1, <1>4, SMTT(20)
  <2> QED
    BY <2>1, <2>2, <2>3, <2>4 DEF Accounted
<1>13. Accounted(rest, less, state)
  BY <1>12 DEF Accounted
<1>14. \A i \in DOMAIN rest : rest[i].seq > e.seq
  BY <1>5, <1>8, <1>1, LaterInLife
<1>15. \A x \in Signal : x.life = life /\ x.seq > e.seq /\ x \in debt => x \in less
  BY <1>1, <1>8, <1>9, LaterInLife
<1>16. e.about # "reset" => \A x \in less : LaterSignal(x, e)
  BY <1>12
<1>17. IsRead(line, rest, debt, less, state, life, last, e)
  BY <1>6, <1>7, <1>11, <1>13, <1>14, <1>15, <1>16 DEF IsRead
<1> QED
  BY <1>17 DEF e, rest, less

LEMMA DeliverKeeps ==
  ASSUME StreamInv, NEW c \in Client, Deliver(c)
  PROVE  StreamInv'
<1> DEFINE line == Line(c)
           e == line[1]
           less == owed'[c]
<1>1. /\ replay[c] \in Seq(Signal) /\ chan[c] \in Seq(Signal) /\ line \in Seq(Signal)
      /\ owed[c] \subseteq Signal /\ seq \in Nat /\ hubLife \in Nat
  BY LineType, BoundsAreNumbers DEF StreamInv, Shape, HubLife
<1>2. /\ line # <<>> /\ Told(c, e) /\ Line(c)' = Tail(line)
      /\ \A d \in Client : d # c => replay'[d] = replay[d] /\ chan'[d] = chan[d]
      /\ replay' \in [Client -> Seq(Signal)] /\ chan' \in [Client -> Seq(Signal)]
  <2>1. CASE replay[c] # <<>>
    <3>1. /\ Told(c, Head(replay[c])) /\ chan' = chan
          /\ replay' = [replay EXCEPT ![c] = Tail(replay[c])]
      BY <2>1 DEF Deliver
    <3>2. /\ line # <<>> /\ Head(replay[c]) = e /\ Tail(replay[c]) \o chan[c] = Tail(line)
          /\ Tail(replay[c]) \in Seq(Signal)
      BY <2>1, <1>1, LineShrinks, TailElements DEF Line
    <3>3. Line(c)' = Tail(line) /\ replay' \in [Client -> Seq(Signal)]
      BY <3>1, <3>2 DEF Line, StreamInv, Shape
    <3>4. Told(c, e)
      BY <3>1, <3>2, Zenon
    <3> QED
      BY <3>1, <3>2, <3>3, <3>4 DEF StreamInv, Shape
  <2>2. CASE replay[c] = <<>>
    <3>1. /\ Told(c, Head(chan[c])) /\ replay' = replay /\ chan[c] # <<>>
          /\ chan' = [chan EXCEPT ![c] = Tail(chan[c])]
      BY <2>2 DEF Deliver
    <3>2. /\ line = chan[c] /\ Head(chan[c]) = e /\ Tail(chan[c]) \in Seq(Signal)
          /\ <<>> \o Tail(chan[c]) = Tail(chan[c])
      BY <2>2, <3>1, <1>1, LineShrinks, TailElements DEF Line
    <3>3. Line(c)' = Tail(line) /\ chan' \in [Client -> Seq(Signal)]
      BY <2>2, <3>1, <3>2 DEF Line, StreamInv, Shape
    <3>4. Told(c, e)
      BY <3>1, <3>2, Zenon
    <3> QED
      BY <3>1, <3>2, <3>3, <3>4 DEF StreamInv, Shape
  <2> QED
    BY <2>1, <2>2
<1>3. /\ UNCHANGED <<hubLife, closed, seq, ring, sub, known, hubSettled>> /\ sub[c] # "none"
  BY DEF Deliver, hubVars
<1>4. /\ c \in known /\ Current(line, hubLife, seq) /\ Ordered(line)
      /\ Promised(line, owed[c]) /\ Accounted(line, owed[c], sub[c])
      /\ RingOwed(ring, c, owed[c], e.seq)
      /\ DebtWasPublished(c)
  BY <1>2, <1>3 DEF StreamInv, LineIsExact
<1>5. /\ less = IF e.about = "reset" THEN {x \in owed[c] : ~NotAfter(x, e)} ELSE owed[c] \ {e}
      /\ cursor'[c] = IF e.about = "reset" THEN NoStream ELSE [life |-> e.life, seq |-> e.seq]
      /\ \A d \in Client : d # c => owed'[d] = owed[d] /\ cursor'[d] = cursor[d]
  BY <1>2 DEF Told, StreamInv, Shape
<1>6. /\ e \in Signal /\ e.life = hubLife /\ e.seq \in Nat /\ e.seq <= seq
      /\ less \subseteq owed[c]
  BY <1>1, <1>2, <1>4, <1>5, TailElements, SignalNumbers, EmptySeq DEF Current
<1> HIDE DEF e, less, line
<1>7. /\ Current(Tail(line), hubLife, seq) /\ Ordered(Tail(line))
      /\ Promised(Tail(line), less) /\ Accounted(Tail(line), less, sub[c])
      /\ \A i \in DOMAIN Tail(line) : Tail(line)[i].seq > e.seq
      /\ \A x \in Signal : x.life = hubLife /\ x.seq > e.seq /\ x \in owed[c] => x \in less
      /\ e.about # "reset" => \A x \in less : LaterSignal(x, e)
  <2>1. e = line[1] /\ less = Less(owed[c], e)
    BY <1>5 DEF e, Less
  <2>2. IsRead(line, Tail(line), owed[c], Less(owed[c], line[1]), sub[c], hubLife, seq, line[1])
    BY <1>1, <1>2, <1>4, ToldClient
  <2>3. IsRead(line, Tail(line), owed[c], less, sub[c], hubLife, seq, e)
    BY <2>1, <2>2, Zenon
  <2> QED
    BY <2>3 DEF IsRead
<1>8. Shape'
  <2>1. owed' \in [Client -> SUBSET Signal]
    BY <1>2, <1>1 DEF Told, StreamInv, Shape
  <2>2. cursor' \in [Client -> Stamp \cup {NoStream}]
    <3>1. [life |-> e.life, seq |-> e.seq] \in Stamp
      BY <1>6 DEF Stamp, Signal
    <3> QED
      BY <3>1, <1>2 DEF Told, StreamInv, Shape
  <2> QED
    BY <2>1, <2>2, <1>2, <1>3 DEF StreamInv, Shape
<1>9. RingIsContiguous'
  BY <1>3 DEF StreamInv, RingIsContiguous
<1>10. ClientInv(c)'
  <2>1. DebtWasPublished(c)'
    <3>1. \A x \in less : x \in owed[c]
      BY <1>6
    <3> QED
      BY <3>1, <1>3, <1>4 DEF DebtWasPublished, less, Allows
  <2>2. RingOwed(ring, c, less, e.seq)
    <3> SUFFICES ASSUME NEW i \in DOMAIN ring, ring[i].seq > e.seq, Allows(c, ring[i])
                 PROVE  ring[i] \in less
      BY DEF RingOwed
    <3>1. ring[i] \in Signal /\ ring[i].life = hubLife
      BY RingNumbers DEF StreamInv, Shape
    <3> QED
      BY <3>1, <1>4, <1>7 DEF RingOwed
  <2>3. CursorSeparates(c)'
    <3> SUFFICES ASSUME e.about # "reset"
                 PROVE  /\ c \in known /\ e.life <= hubLife /\ e.seq <= seq
                        /\ \A x \in less : x.life = hubLife /\ x.seq > e.seq
                        /\ RingOwed(ring, c, less, e.seq)
      <4>1. CASE e.about = "reset"
        BY <4>1, <1>5 DEF CursorSeparates
      <4>2. CASE e.about # "reset"
        <5>1. cursor'[c].life = e.life /\ cursor'[c].seq = e.seq
          BY <4>2, <1>5
        <5> QED
          BY <5>1, <4>2, <1>3 DEF CursorSeparates, less
      <4> QED
        BY <4>1, <4>2
    <3>1. ASSUME NEW x \in less
          PROVE  x.life = hubLife /\ x.seq > e.seq
      <4>1. LaterSignal(x, e) /\ x \in Signal /\ x.life <= hubLife
        BY <3>1, <1>1, <1>4, <1>6, <1>7 DEF DebtWasPublished
      <4>2. x.life = hubLife
        BY <4>1, <1>1, <1>6, SignalNumbers DEF LaterSignal, NotAfter
      <4> QED
        BY <4>1, <4>2, <1>6, LaterInLife
    <3> QED
      BY <3>1, <2>2, <1>1, <1>4, <1>6
  <2>4. Tail(line) # <<>> => RingOwed(ring, c, less, Tail(line)[1].seq)
    <3> SUFFICES ASSUME Tail(line) # <<>>, NEW i \in DOMAIN ring,
                        ring[i].seq > Tail(line)[1].seq, Allows(c, ring[i])
                 PROVE  ring[i] \in less
      BY DEF RingOwed
    <3>1. /\ 1 \in DOMAIN Tail(line) /\ Tail(line)[1] \in Signal
      BY <1>1, <1>2, TailElements
    <3>2. Tail(line)[1].seq > e.seq /\ Tail(line)[1].seq \in Nat
      BY <3>1, <1>7, SignalNumbers
    <3>3. ring[i].seq \in Nat
      BY RingNumbers, SignalNumbers DEF StreamInv, Shape
    <3> QED
      BY <3>2, <3>3, <2>2, <1>6 DEF RingOwed
  <2>5. LineIsExact(c)'
    BY <2>4, <1>2, <1>3, <1>4, <1>7 DEF LineIsExact, less
  <2> QED
    BY <2>1, <2>3, <2>5 DEF ClientInv
<1>11. ASSUME NEW d \in Client, d # c
       PROVE  ClientInv(d)'
  <2>1. /\ replay'[d] = replay[d] /\ chan'[d] = chan[d] /\ owed'[d] = owed[d]
        /\ cursor'[d] = cursor[d] /\ sub'[d] = sub[d]
    BY <1>2, <1>3, <1>5, <1>11
  <2>2. Line(d)' = Line(d)
    BY <2>1 DEF Line
  <2>3. DebtWasPublished(d)' /\ CursorSeparates(d)'
    BY <2>1, <1>3 DEF StreamInv, DebtWasPublished, CursorSeparates
  <2>4. LineIsExact(d)'
    BY <2>1, <2>2, <1>3 DEF StreamInv, LineIsExact
  <2> QED
    BY <2>3, <2>4 DEF ClientInv
<1> QED
  BY <1>8, <1>9, <1>10, <1>11 DEF StreamInv, ClientInv

\* What a resumption prepares: everything that is owed, or a reset in its place.
LEMMA ReplayIsRight ==
  ASSUME StreamInv, NEW c \in Client, cursor[c] # NoStream,
         NEW line, line = ReplayFor(c, cursor[c])
  PROVE  /\ line \in Seq(Signal)
         /\ Current(line, hubLife, seq) /\ Ordered(line)
         /\ Promised(line, owed[c]) /\ Accounted(line, owed[c], "open")
         /\ line # <<>> => RingOwed(ring, c, owed[c], line[1].seq)
         /\ \/ \E i \in DOMAIN line : line[i].about = "reset"
            \/ {line[i] : i \in DOMAIN line} = owed[c]
<1> DEFINE id == cursor[c]
<1>1. /\ seq \in Nat /\ seq \in 0 .. MaxSignals /\ hubLife \in HubLife /\ RingIsContiguous
      /\ id.seq \in Nat /\ owed[c] \subseteq Signal
      /\ DebtWasPublished(c) /\ CursorSeparates(c)
  BY BoundsAreNumbers DEF StreamInv, Shape, Stamp
<1>2. CASE OutOfReach(id)
  <2> DEFINE e == ResetSignal
  <2>1. /\ e \in Signal /\ e.life = hubLife /\ e.seq = seq /\ e.about = "reset"
    BY <1>1 DEF ResetSignal, Signal
  <2>2. line = <<e>>
    BY <1>2 DEF ReplayFor
  <2> HIDE DEF e, id
  <2>3. /\ line \in Seq(Signal) /\ DOMAIN line = {1} /\ line[1] = e /\ line # <<>>
    BY <2>1, <2>2
  <2>4. Current(line, hubLife, seq) /\ Ordered(line) /\ Promised(line, owed[c])
    BY <2>1, <2>3, <1>1 DEF Current, Ordered, Promised
  <2>5. ASSUME NEW x \in owed[c]
        PROVE  NotAfter(x, e)
    <3>1. x.life <= hubLife /\ (x.life = hubLife => x.seq <= seq)
      BY <2>5, <1>1 DEF DebtWasPublished
    <3>2. x \in Signal
      BY <2>5, <1>1
    <3> QED
      BY <3>1, <3>2, <2>1, SignalNumbers DEF NotAfter
  <2>6. Accounted(line, owed[c], "open")
    BY <2>1, <2>3, <2>5 DEF Accounted, HeadCovers
  <2>7. RingOwed(ring, c, owed[c], line[1].seq)
    <3>1. ASSUME NEW i \in DOMAIN ring
          PROVE  ~(ring[i].seq > seq)
      <4>1. /\ i \in 1 .. Len(ring) /\ Len(ring) \in Nat
            /\ ring[i].seq = seq - Len(ring) + i
        BY <3>1, <1>1, RingNumbers DEF RingIsContiguous, Holds
      <4> QED
        BY <4>1, <1>1
    <3> QED
      BY <3>1, <2>1, <2>3 DEF RingOwed
  <2> QED
    BY <2>1, <2>3, <2>4, <2>6, <2>7
<1>3. CASE ~OutOfReach(id)
  <2>1. line = Missed(c, id)
    BY <1>3 DEF ReplayFor
  <2>2. /\ id.life = hubLife /\ id.seq <= seq /\ (ring = <<>> \/ id.seq + 1 >= FirstSeq)
        /\ FirstSeq \in Nat
    BY <1>1, <1>3, RingNumbers DEF OutOfReach
  <2>3. id.seq + 1 >= FirstSeq
    <3>1. CASE ring = <<>>
      <4>1. seq = 0 /\ Len(ring) = 0
        BY <3>1, <1>1, EmptySeq DEF RingIsContiguous, Holds
      <4> QED
        BY <4>1, <1>1 DEF FirstSeq
    <3> QED
      BY <3>1, <2>2
  <2>4. Filtered(line, c, id.seq, seq)
    BY <1>1, <2>1, <2>2, <2>3, MissedIsExact
  <2>5. /\ \A x \in owed[c] : x.life = hubLife /\ x.seq > id.seq
        /\ RingOwed(ring, c, owed[c], id.seq)
    BY <1>1, <2>2 DEF CursorSeparates
  <2> HIDE DEF id
  <2>6. \A i \in DOMAIN line : line[i] \in owed[c] /\ line[i].seq > id.seq
    <3> TAKE i \in DOMAIN line
    <3>1. InLine(line[i], ring) /\ Allows(c, line[i]) /\ line[i].seq > id.seq
      BY <2>4 DEF Filtered
    <3> QED
      BY <3>1, <2>5 DEF RingOwed, InLine
  <2>7. ASSUME NEW x \in owed[c]
        PROVE  InLine(x, line)
    <3>1. /\ x.life = hubLife /\ x.seq > id.seq /\ x.seq <= seq /\ Allows(c, x)
          /\ x.seq > seq - Len(ring) => InLine(x, ring)
      BY <2>5, <2>7, <1>1 DEF DebtWasPublished
    <3>2. x.seq > seq - Len(ring)
      <4>1. id.seq >= seq - Len(ring) /\ Len(ring) \in Nat
        <5> DEFINE n == Len(ring)
                   k == id.seq
        <5>1. n \in Nat /\ seq \in Nat /\ k \in Nat /\ FirstSeq = seq - n + 1 /\ k + 1 >= FirstSeq
          BY <2>3, <1>1, RingNumbers DEF FirstSeq, id
        <5> HIDE DEF n, k
        <5>2. k >= seq - n
          BY <5>1
        <5> QED
          BY <5>1, <5>2 DEF n, k
      <4>2. x.seq \in Nat
        BY <2>7, <1>1, SignalNumbers
      <4> QED
        BY <3>1, <4>1, <4>2, <1>1
    <3> QED
      BY <3>1, <3>2, <2>4 DEF Filtered, InLine
  <2>8. Accounted(line, owed[c], "open") /\ Promised(line, owed[c])
    BY <2>6, <2>7 DEF Accounted, Promised
  <2>9. {line[i] : i \in DOMAIN line} = owed[c]
    BY <2>6, <2>7 DEF InLine
  <2>10. line # <<>> => RingOwed(ring, c, owed[c], line[1].seq)
    <3> SUFFICES ASSUME line # <<>>, NEW i \in DOMAIN ring, ring[i].seq > line[1].seq,
                        Allows(c, ring[i])
                 PROVE  ring[i] \in owed[c]
      BY DEF RingOwed
    <3>1. 1 \in DOMAIN line /\ line[1] \in Signal
      BY <2>4, TailElements DEF Filtered
    <3>2. ring[i].seq \in Nat /\ line[1].seq \in Nat /\ line[1].seq > id.seq
      BY <3>1, <2>6, <1>1, RingNumbers, SignalNumbers
    <3> QED
      BY <3>2, <2>5, <1>1 DEF RingOwed
  <2> QED
    BY <2>4, <2>8, <2>9, <2>10 DEF Filtered
<1> QED
  BY <1>2, <1>3

LEMMA ConnectKeeps ==
  ASSUME StreamInv, NEW c \in Client, Connect(c)
  PROVE  StreamInv'
<1>1. /\ UNCHANGED <<hubLife, closed, seq, ring, chan, cursor, hubSettled>>
      /\ sub[c] = "none" /\ known' = known \cup {c}
      /\ sub' = [sub EXCEPT ![c] = "open"]
      /\ replay' = [replay EXCEPT ![c] = ReplayFor(c, cursor[c])]
      /\ owed' = IF cursor[c] = NoStream THEN [owed EXCEPT ![c] = {}] ELSE owed
  BY DEF Connect, hubVars
<1> DEFINE line == ReplayFor(c, cursor[c])
<1>2. /\ line \in Seq(Signal)
      /\ Current(line, hubLife, seq) /\ Ordered(line)
      /\ Promised(line, owed'[c]) /\ Accounted(line, owed'[c], "open")
      /\ line # <<>> => RingOwed(ring, c, owed'[c], line[1].seq)
  <2>1. CASE cursor[c] = NoStream
    <3>1. line = <<>> /\ owed'[c] = {}
      BY <2>1, <1>1 DEF ReplayFor, StreamInv, Shape
    <3> QED
      BY <3>1 DEF Current, Ordered, Promised, Accounted
  <2>2. CASE cursor[c] # NoStream
    <3>1. owed'[c] = owed[c]
      BY <2>2, <1>1
    <3> QED
      BY <2>2, <3>1, ReplayIsRight
  <2> QED
    BY <2>1, <2>2
<1> HIDE DEF line
<1>3. replay' = [replay EXCEPT ![c] = line]
  BY <1>1 DEF line
<1>4. Shape'
  <2>1. replay' \in [Client -> Seq(Signal)]
    BY <1>2, <1>3 DEF StreamInv, Shape
  <2>2. owed' \in [Client -> SUBSET Signal]
    BY <1>1 DEF StreamInv, Shape
  <2>3. sub' \in [Client -> SubState]
    BY <1>1 DEF StreamInv, Shape, SubState
  <2> QED
    BY <2>1, <2>2, <2>3, <1>1 DEF StreamInv, Shape
<1>5. RingIsContiguous'
  BY <1>1 DEF StreamInv, RingIsContiguous
<1>6. ClientInv(c)'
  <2>1. \A x \in owed'[c] : x \in owed[c]
    BY <1>1 DEF StreamInv, Shape
  <2>2. DebtWasPublished(c)'
    BY <2>1, <1>1 DEF StreamInv, DebtWasPublished, Allows
  <2>3. CursorSeparates(c)'
    <3>1. cursor[c] # NoStream => owed'[c] = owed[c]
      BY <1>1
    <3> QED
      BY <3>1, <1>1 DEF StreamInv, CursorSeparates
  <2>4. Line(c)' = line
    <3>1. chan[c] = <<>> /\ replay'[c] = line
      BY <1>1, <1>3 DEF StreamInv, Shape, LineIsExact
    <3> QED
      BY <3>1, <1>1, <1>2, ConcatEmptySeq DEF Line
  <2>5. sub'[c] = "open" /\ c \in known'
    BY <1>1 DEF StreamInv, Shape
  <2>6. LineIsExact(c)'
    BY <2>4, <2>5, <1>1, <1>2 DEF LineIsExact
  <2> QED
    BY <2>2, <2>3, <2>6 DEF ClientInv
<1>7. ASSUME NEW d \in Client, d # c
      PROVE  ClientInv(d)'
  <2>1. /\ replay'[d] = replay[d] /\ owed'[d] = owed[d] /\ sub'[d] = sub[d]
    BY <1>1, <1>7 DEF StreamInv, Shape
  <2>2. Line(d)' = Line(d)
    BY <2>1, <1>1 DEF Line
  <2>3. DebtWasPublished(d)' /\ CursorSeparates(d)'
    BY <2>1, <1>1 DEF StreamInv, DebtWasPublished, CursorSeparates
  <2>4. LineIsExact(d)'
    BY <2>1, <2>2, <1>1 DEF StreamInv, LineIsExact
  <2> QED
    BY <2>3, <2>4 DEF ClientInv
<1> QED
  BY <1>4, <1>5, <1>6, <1>7 DEF StreamInv, ClientInv

LEMMA CloseSubKeeps ==
  ASSUME StreamInv, NEW c \in Client, CloseSub(c),
         UNCHANGED <<hubVars, cursor, known, owed, hubSettled>>
  PROVE  StreamInv'
<1>1. /\ UNCHANGED <<hubLife, closed, seq, ring, cursor, known, owed, hubSettled>>
      /\ sub' = [sub EXCEPT ![c] = "none"]
      /\ replay' = [replay EXCEPT ![c] = <<>>]
      /\ chan' = [chan EXCEPT ![c] = <<>>]
  BY DEF CloseSub, hubVars
<1>2. Shape'
  <2>1. /\ replay' \in [Client -> Seq(Signal)] /\ chan' \in [Client -> Seq(Signal)]
        /\ sub' \in [Client -> SubState]
    BY <1>1 DEF StreamInv, Shape, SubState
  <2> QED
    BY <2>1, <1>1 DEF StreamInv, Shape
<1>3. RingIsContiguous'
  BY <1>1 DEF StreamInv, RingIsContiguous
<1>4. ASSUME NEW d \in Client
      PROVE  ClientInv(d)'
  <2>1. DebtWasPublished(d)' /\ CursorSeparates(d)'
    BY <1>1 DEF StreamInv, DebtWasPublished, CursorSeparates
  <2>2. CASE d = c
    <3>1. sub'[d] = "none" /\ replay'[d] = <<>> /\ chan'[d] = <<>>
      BY <2>2, <1>1 DEF StreamInv, Shape
    <3> QED
      BY <3>1, <2>1 DEF LineIsExact, ClientInv
  <2>3. CASE d # c
    <3>1. sub'[d] = sub[d] /\ replay'[d] = replay[d] /\ chan'[d] = chan[d]
      BY <2>3, <1>1 DEF StreamInv, Shape
    <3>2. Line(d)' = Line(d)
      BY <3>1 DEF Line
    <3>3. LineIsExact(d)'
      BY <3>1, <3>2, <1>1 DEF StreamInv, LineIsExact
    <3> QED
      BY <3>3, <2>1 DEF ClientInv
  <2> QED
    BY <2>2, <2>3
<1> QED
  BY <1>2, <1>3, <1>4 DEF StreamInv, ClientInv

\* Every open subscription is dropped: what is owed after its line may stay owed.
LEMMA ShutdownKeeps ==
  ASSUME StreamInv, Shutdown
  PROVE  StreamInv'
<1>1. /\ UNCHANGED <<hubLife, seq, ring, replay, chan, cursor, known, owed, hubSettled>>
      /\ closed' = TRUE
      /\ sub' = [c \in Client |-> IF sub[c] = "open" THEN "dropped" ELSE sub[c]]
  BY DEF Shutdown, RemoveAll, Open
<1>2. Shape' /\ RingIsContiguous'
  BY <1>1 DEF StreamInv, Shape, RingIsContiguous, SubState
<1>3. ASSUME NEW c \in Client
      PROVE  ClientInv(c)'
  <2>1. DebtWasPublished(c)' /\ CursorSeparates(c)'
    BY <1>1 DEF StreamInv, DebtWasPublished, CursorSeparates
  <2>2. sub'[c] = IF sub[c] = "open" THEN "dropped" ELSE sub[c]
    BY <1>1
  <2>3. Line(c)' = Line(c)
    BY <1>1 DEF Line
  <2>4. Accounted(Line(c), owed[c], sub[c]) => Accounted(Line(c), owed[c], sub'[c])
    BY <2>2 DEF Accounted
  <2>5. LineIsExact(c)'
    BY <2>2, <2>3, <2>4, <1>1 DEF StreamInv, LineIsExact
  <2> QED
    BY <2>1, <2>5 DEF ClientInv
<1> QED
  BY <1>2, <1>3 DEF StreamInv, ClientInv

\* A new process: no debt and no cursor is of it.
LEMMA RestartKeeps ==
  ASSUME StreamInv, Restart
  PROVE  StreamInv'
<1>1. /\ hubLife \in Nat /\ hubLife' = hubLife + 1 /\ hubLife' \in HubLife /\ closed' = FALSE
      /\ seq' = 0 /\ ring' = <<>>
      /\ sub' = [c \in Client |-> "none"] /\ replay' = [c \in Client |-> <<>>]
      /\ chan' = [c \in Client |-> <<>>]
      /\ UNCHANGED <<cursor, known, owed, hubSettled>>
  BY BoundsAreNumbers DEF Restart, StreamInv, Shape, HubLife
<1>2. Shape'
  <2>1. /\ seq' \in 0 .. MaxSignals /\ ring' \in Seq(Signal) /\ sub' \in [Client -> SubState]
        /\ replay' \in [Client -> Seq(Signal)] /\ chan' \in [Client -> Seq(Signal)]
    BY <1>1, BoundsAreNumbers DEF SubState
  <2> QED
    BY <2>1, <1>1 DEF StreamInv, Shape
<1>3. RingIsContiguous'
  <2>1. Holds(<<>>, hubLife', 0)
    BY EmptySeq DEF Holds
  <2> QED
    BY <2>1, <1>1 DEF RingIsContiguous
<1>4. ASSUME NEW c \in Client
      PROVE  ClientInv(c)'
  <2>1. DebtWasPublished(c)'
    <3>1. ASSUME NEW x \in owed[c]
          PROVE  Allows(c, x) /\ x.life <= hubLife' /\ x.life # hubLife'
      <4>1. x \in Signal /\ Allows(c, x) /\ x.life <= hubLife
        BY <3>1 DEF StreamInv, Shape, DebtWasPublished
      <4> QED
        BY <4>1, <1>1, SignalNumbers
    <3> QED
      BY <3>1, <1>1 DEF DebtWasPublished, Allows
  <2>2. CursorSeparates(c)'
    <3>1. ASSUME cursor[c] # NoStream
          PROVE  c \in known /\ cursor[c].life <= hubLife' /\ cursor[c].life # hubLife'
      <4>1. c \in known /\ cursor[c].life <= hubLife /\ cursor[c].life \in Nat
        BY <3>1, BoundsAreNumbers
           DEF StreamInv, Shape, CursorSeparates, Stamp, HubLife
      <4> QED
        BY <4>1, <1>1
    <3> QED
      BY <3>1, <1>1 DEF CursorSeparates
  <2>3. LineIsExact(c)'
    BY <1>1 DEF LineIsExact
  <2> QED
    BY <2>1, <2>2, <2>3 DEF ClientInv
<1> QED
  BY <1>2, <1>3, <1>4 DEF StreamInv, ClientInv

THEOREM StreamInvHolds == StreamSpec => []StreamInv
<1>1. StreamInit => StreamInv
  <2> SUFFICES ASSUME StreamInit PROVE StreamInv
    OBVIOUS
  <2>1. Shape
    <3>1. hubLife \in HubLife /\ seq \in 0 .. MaxSignals
      BY BoundsAreNumbers DEF StreamInit, HubLife
    <3>2. /\ ring \in Seq(Signal) /\ replay \in [Client -> Seq(Signal)]
          /\ chan \in [Client -> Seq(Signal)]
      BY DEF StreamInit
    <3>3. /\ sub \in [Client -> SubState] /\ cursor \in [Client -> Stamp \cup {NoStream}]
          /\ owed \in [Client -> SUBSET Signal] /\ known \subseteq Client
          /\ closed \in BOOLEAN /\ hubSettled \in BOOLEAN
      BY DEF StreamInit, SubState
    <3> QED
      BY <3>1, <3>2, <3>3 DEF Shape
  <2>2. RingIsContiguous
    <3>1. Holds(<<>>, hubLife, 0)
      BY EmptySeq DEF Holds
    <3> QED
      BY <3>1 DEF StreamInit, RingIsContiguous
  <2>3. \A c \in Client : DebtWasPublished(c) /\ CursorSeparates(c) /\ LineIsExact(c)
    BY DEF StreamInit, DebtWasPublished, CursorSeparates, LineIsExact
  <2> QED
    BY <2>1, <2>2, <2>3 DEF StreamInv
<1>2. StreamInv /\ [StreamNext]_signalVars => StreamInv'
  <2> SUFFICES ASSUME StreamInv, [StreamNext]_signalVars
               PROVE  StreamInv'
    OBVIOUS
  <2>1. ASSUME NEW about \in Namespace \cup {"cluster", "reset"}, PublishSignal(about)
        PROVE  StreamInv'
    <3>1. Shape' /\ RingIsContiguous'
      <4> DEFINE e == [life |-> hubLife, seq |-> seq + 1, about |-> about]
      <4>1. e = [life |-> hubLife, seq |-> seq + 1, about |-> about]
        OBVIOUS
      <4> HIDE DEF e
      <4> QED
        BY <2>1, <4>1, PublishedState
    <3>2. \A c \in Client : ClientInv(c)'
      BY <2>1, PublishedClient
    <3> QED
      BY <3>1, <3>2 DEF StreamInv, ClientInv
  <2>2. ASSUME NEW c \in Client, Connect(c)
        PROVE  StreamInv'
    BY <2>2, ConnectKeeps
  <2>3. ASSUME NEW c \in Client, Deliver(c)
        PROVE  StreamInv'
    BY <2>3, DeliverKeeps
  <2>4. ASSUME NEW c \in Client, EndOfEvents(c)
        PROVE  StreamInv'
    BY <2>4, CloseSubKeeps DEF EndOfEvents
  <2>5. ASSUME NEW c \in Client, CutOff(c)
        PROVE  StreamInv'
    BY <2>5, CloseSubKeeps DEF CutOff
  <2>6. CASE Shutdown
    BY <2>6, ShutdownKeeps
  <2>7. CASE Restart
    BY <2>7, RestartKeeps
  <2>8. CASE UNCHANGED signalVars
    <3>1. UNCHANGED <<hubLife, closed, seq, ring, sub, replay, chan, cursor, known, owed, hubSettled>>
      BY <2>8 DEF signalVars, hubVars, clientVars
    <3>2. Shape' /\ RingIsContiguous'
      BY <3>1 DEF StreamInv, Shape, RingIsContiguous
    <3>3. \A c \in Client : ClientInv(c)'
      <4> TAKE c \in Client
      <4>1. Line(c)' = Line(c)
        BY <3>1 DEF Line
      <4> QED
        BY <4>1, <3>1 DEF StreamInv, ClientInv, DebtWasPublished, CursorSeparates, LineIsExact
    <3> QED
      BY <3>2, <3>3 DEF StreamInv, ClientInv
  <2> QED
    BY <2>1, <2>2, <2>3, <2>4, <2>5, <2>6, <2>7, <2>8 DEF StreamNext, Serve
<1> QED
  BY <1>1, <1>2, PTL DEF StreamSpec

-----------------------------------------------------------------------------
(* The properties *)

\* What an open stream has still to send is what its client is owed, in order
\* (stream.go, Hub.Publish and Hub.Subscribe): no signal is lost, repeated or
\* out of scope unless a reset stands for it.
THEOREM NothingIsSkipped == StreamSpec => []NothingSkipped
<1>1. StreamInv => NothingSkipped
  <2> SUFFICES ASSUME StreamInv, NEW c \in Client, sub[c] = "open"
               PROVE  /\ \A i, j \in DOMAIN Line(c) : i < j => LaterSignal(Line(c)[j], Line(c)[i])
                      /\ \A i \in DOMAIN Line(c) : Line(c)[i] \in owed[c] \/ Line(c)[i].about = "reset"
                      /\ \A e \in owed[c] : \E i \in DOMAIN Line(c) :
                           \/ Line(c)[i] = e
                           \/ Line(c)[i].about = "reset" /\ NotAfter(e, Line(c)[i])
    BY DEF NothingSkipped, Open
  <2>1. /\ Ordered(Line(c)) /\ Promised(Line(c), owed[c])
        /\ Accounted(Line(c), owed[c], "open")
    BY DEF StreamInv, LineIsExact
  <2>2. Line(c) \in Seq(Signal)
    BY LineType DEF StreamInv
  <2>3. Line(c) # <<>> => 1 \in DOMAIN Line(c)
    BY <2>2, TailElements
  <2> QED
    BY <2>1, <2>3 DEF Ordered, Promised, Accounted, InLine, HeadCovers
<1> QED
  BY <1>1, StreamInvHolds, PTL

\* A client that resumes with a Last-Event-ID is sent all that it missed, or a
\* reset (stream.go, the two cases of the replay in Hub.Subscribe).
THEOREM ResumesAreCompleteOrReset == StreamSpec => ResumeIsCompleteOrReset
<1>1. ASSUME StreamInv, [StreamNext]_signalVars, NEW c \in Client,
             Resumes(c), cursor[c] # NoStream
      PROVE  CompleteOrReset(c)
  <2>1. Connect(c)
    <3>1. sub[c] = "none" /\ sub'[c] = "open" /\ sub \in [Client -> SubState]
      BY <1>1 DEF Resumes, StreamInv, Shape
    <3>2. ASSUME NEW about \in Namespace \cup {"cluster", "reset"}, PublishSignal(about)
          PROVE  FALSE
      BY <3>1, <3>2 DEF PublishSignal, RemoveAll
    <3>3. ASSUME NEW d \in Client, Connect(d), d # c
          PROVE  FALSE
      BY <3>1, <3>3 DEF Connect
    <3>4. ASSUME NEW d \in Client, Deliver(d)
          PROVE  FALSE
      BY <3>1, <3>4 DEF Deliver
    <3>5. ASSUME NEW d \in Client, EndOfEvents(d) \/ CutOff(d)
          PROVE  FALSE
      BY <3>1, <3>5 DEF EndOfEvents, CutOff, CloseSub
    <3>6. ~Shutdown
      BY <3>1 DEF Shutdown, RemoveAll
    <3>7. ~Restart
      BY <3>1 DEF Restart
    <3>8. ~UNCHANGED signalVars
      BY <3>1 DEF signalVars, clientVars
    <3> QED
      BY <1>1, <3>2, <3>3, <3>4, <3>5, <3>6, <3>7, <3>8 DEF StreamNext, Serve
  <2> DEFINE line == ReplayFor(c, cursor[c])
  <2>2. replay'[c] = line
    BY <1>1, <2>1 DEF Connect, StreamInv, Shape
  <2>3. \/ \E i \in DOMAIN line : line[i].about = "reset"
        \/ {line[i] : i \in DOMAIN line} = owed[c]
    BY <1>1, ReplayIsRight
  <2> HIDE DEF line
  <2> QED
    BY <2>2, <2>3 DEF CompleteOrReset
<1>2. StreamInv /\ [StreamNext]_signalVars =>
        [\A c \in Client : Resumes(c) /\ cursor[c] # NoStream => CompleteOrReset(c)]_signalVars
  BY <1>1
<1> QED
  BY <1>2, StreamInvHolds, PTL DEF StreamSpec, ResumeIsCompleteOrReset

-----------------------------------------------------------------------------
(* The limits *)

\* The slots of a user are those of its open subscriptions, and both limits
\* hold, whoever ends a subscription: Publish, Close or the handler.
ConnectionsCounted ==
  /\ IsFiniteSet(Open) /\ Cardinality(Open) <= MaxConnections
  /\ \A s \in Subject : /\ subjectConns[s] = Cardinality(OpenOf(s))
                        /\ subjectConns[s] <= MaxPerSubject

PerSubject(f) == f = [s \in Subject |-> f[s]]

LimitInv ==
  /\ StreamInv
  /\ ConnectionsCounted
  /\ PerSubject(subjectConns)
  /\ Len(ring) <= RingSize
  /\ \A c \in Client : Len(chan[c]) <= SubscriberBuffer

\* Slots given back: the set of open subscriptions loses what is gone.
LEMMA SlotsGivenBack ==
  ASSUME ConnectionsCounted, PerSubject(subjectConns),
         NEW gone, Open' = Open \ gone,
         PerSubject(subjectConns'),
         \A s \in Subject :
           subjectConns'[s] = subjectConns[s] - Cardinality(OpenOf(s) \cap gone)
  PROVE  ConnectionsCounted'
<1>1. IsFiniteSet(Open) /\ Cardinality(Open) \in Nat /\ Cardinality(Open) <= MaxConnections
  BY FS_CardinalityType DEF ConnectionsCounted
<1>2. Open' \in SUBSET Open
  OBVIOUS
<1>3. IsFiniteSet(Open') /\ Cardinality(Open') <= Cardinality(Open) /\ Cardinality(Open') \in Nat
  BY <1>1, <1>2, FS_Subset, FS_CardinalityType
<1>4. ASSUME NEW s \in Subject
      PROVE  /\ subjectConns'[s] = Cardinality(OpenOf(s)')
             /\ subjectConns'[s] <= MaxPerSubject
  <2>1. OpenOf(s) \in SUBSET Open /\ OpenOf(s)' = OpenOf(s) \ gone
    BY DEF OpenOf
  <2>2. IsFiniteSet(OpenOf(s))
    BY <1>1, <2>1, FS_Subset
  <2>3. /\ Cardinality(OpenOf(s) \ gone)
             = Cardinality(OpenOf(s)) - Cardinality(OpenOf(s) \cap gone)
        /\ Cardinality(OpenOf(s)) \in Nat
        /\ Cardinality(OpenOf(s) \cap gone) \in Nat
    BY <2>2, FS_Difference, FS_Intersection, FS_CardinalityType
  <2>4. subjectConns[s] = Cardinality(OpenOf(s)) /\ subjectConns[s] <= MaxPerSubject
    BY DEF ConnectionsCounted
  <2>5. subjectConns'[s] = Cardinality(OpenOf(s)')
    BY <2>1, <2>3, <2>4
  <2>6. subjectConns'[s] <= MaxPerSubject
    <3> DEFINE k == Cardinality(OpenOf(s))
               g == Cardinality(OpenOf(s) \cap gone)
               now == subjectConns'[s]
    <3>1. k \in Nat /\ g \in Nat /\ k <= MaxPerSubject /\ now = k - g
      BY <2>3, <2>4
    <3> HIDE DEF k, g, now
    <3>2. now <= MaxPerSubject
      BY <3>1, BoundsAreNumbers
    <3> QED
      BY <3>2 DEF now
  <2> QED
    BY <2>5, <2>6
<1>5. Cardinality(Open') <= MaxConnections
  <2> DEFINE m == Cardinality(Open')
             k == Cardinality(Open)
  <2>1. m \in Nat /\ k \in Nat /\ m <= k /\ k <= MaxConnections
    BY <1>1, <1>3
  <2> HIDE DEF m, k
  <2>2. m <= MaxConnections
    BY <2>1, BoundsAreNumbers
  <2> QED
    BY <2>2 DEF m
<1> QED
  BY <1>3, <1>4, <1>5 DEF ConnectionsCounted

\* removeLocked of a set: Publish and Close.
LEMMA RemoveAllGivesBack ==
  ASSUME LimitInv, NEW gone, RemoveAll(gone)
  PROVE  ConnectionsCounted' /\ PerSubject(subjectConns')
<1>1. PerSubject(subjectConns')
  BY DEF RemoveAll, PerSubject
<1>2. Open' = Open \ gone
  BY DEF RemoveAll, Open
<1>3. \A s \in Subject :
         subjectConns'[s] = subjectConns[s] - Cardinality(OpenOf(s) \cap gone)
  BY DEF RemoveAll
<1> QED
  BY <1>1, <1>2, <1>3, SlotsGivenBack DEF LimitInv

\* The handler returns: it gives back its slot only if it still has one.
LEMMA CloseSubGivesBack ==
  ASSUME LimitInv, NEW c \in Client, CloseSub(c)
  PROVE  ConnectionsCounted' /\ PerSubject(subjectConns')
<1>1. PerSubject(subjectConns) /\ SubjectOf[c] \in Subject /\ sub \in [Client -> SubState]
  BY HubAssumption DEF LimitInv, HubAssumption, StreamInv, Shape
<1>2. PerSubject(subjectConns')
  BY <1>1 DEF CloseSub, PerSubject
<1>3. Open' = Open \ {c}
  BY <1>1 DEF CloseSub, Open
<1>4. ASSUME NEW s \in Subject
      PROVE  subjectConns'[s] = subjectConns[s] - Cardinality(OpenOf(s) \cap {c})
  <2>1. subjectConns[s] = Cardinality(OpenOf(s)) /\ IsFiniteSet(Open)
    BY DEF LimitInv, ConnectionsCounted
  <2>2. subjectConns[s] \in Nat
    <3>1. OpenOf(s) \in SUBSET Open
      BY DEF OpenOf
    <3> QED
      BY <2>1, <3>1, FS_Subset, FS_CardinalityType
  <2>3. CASE sub[c] = "open" /\ s = SubjectOf[c]
    <3>1. OpenOf(s) \cap {c} = {c}
      BY <2>3 DEF OpenOf, Open
    <3>2. Cardinality({c}) = 1
      BY FS_Singleton
    <3> QED
      BY <3>1, <3>2, <2>3, <1>1 DEF CloseSub, PerSubject
  <2>4. CASE ~(sub[c] = "open" /\ s = SubjectOf[c])
    <3>1. OpenOf(s) \cap {c} = {}
      BY <2>4 DEF OpenOf, Open
    <3>2. subjectConns'[s] = subjectConns[s]
      BY <2>4, <1>1 DEF CloseSub, PerSubject
    <3> QED
      BY <3>1, <3>2, <2>2, FS_EmptySet
  <2> QED
    BY <2>3, <2>4
<1> QED
  BY <1>1, <1>2, <1>3, <1>4, SlotsGivenBack DEF LimitInv

\* A slot is taken under the limits.
LEMMA ConnectTakesSlot ==
  ASSUME LimitInv, NEW c \in Client, Connect(c)
  PROVE  ConnectionsCounted' /\ PerSubject(subjectConns')
<1> DEFINE t == SubjectOf[c]
<1>1. /\ PerSubject(subjectConns) /\ t \in Subject /\ sub \in [Client -> SubState]
      /\ sub[c] = "none" /\ sub' = [sub EXCEPT ![c] = "open"]
      /\ subjectConns' = [subjectConns EXCEPT ![t] = subjectConns[t] + 1]
      /\ Cardinality(Open) < MaxConnections /\ subjectConns[t] < MaxPerSubject
  BY HubAssumption DEF LimitInv, HubAssumption, StreamInv, Shape, Connect
<1>2. IsFiniteSet(Open) /\ c \notin Open /\ Open' = Open \cup {c}
  BY <1>1 DEF LimitInv, ConnectionsCounted, Open
<1>3. IsFiniteSet(Open') /\ Cardinality(Open') <= MaxConnections
  <2> DEFINE k == Cardinality(Open)
  <2>1. k \in Nat /\ Cardinality(Open \cup {c}) = k + 1 /\ IsFiniteSet(Open \cup {c})
    BY <1>2, FS_AddElement, FS_CardinalityType
  <2>2. k < MaxConnections
    BY <1>1
  <2> HIDE DEF k
  <2>3. k + 1 <= MaxConnections
    BY <2>1, <2>2, BoundsAreNumbers
  <2> QED
    BY <1>2, <2>1, <2>3
<1>4. ASSUME NEW s \in Subject
      PROVE  subjectConns'[s] = Cardinality(OpenOf(s)') /\ subjectConns'[s] <= MaxPerSubject
  <2>1. OpenOf(s) \in SUBSET Open
    BY DEF OpenOf
  <2>2. /\ IsFiniteSet(OpenOf(s)) /\ Cardinality(OpenOf(s)) \in Nat
        /\ subjectConns[s] = Cardinality(OpenOf(s)) /\ subjectConns[s] <= MaxPerSubject
    BY <1>2, <2>1, FS_Subset, FS_CardinalityType DEF LimitInv, ConnectionsCounted
  <2>3. CASE s = t
    <3>1. OpenOf(s)' = OpenOf(s) \cup {c} /\ c \notin OpenOf(s)
      BY <1>2, <2>3 DEF OpenOf
    <3>2. Cardinality(OpenOf(s) \cup {c}) = Cardinality(OpenOf(s)) + 1
      BY <3>1, <2>2, FS_AddElement
    <3>3. subjectConns'[s] = subjectConns[s] + 1
      BY <1>1, <2>3 DEF PerSubject
    <3> DEFINE k == Cardinality(OpenOf(s))
    <3>4. k \in Nat /\ k < MaxPerSubject
      BY <1>1, <2>2, <2>3
    <3> HIDE DEF k
    <3>5. k + 1 <= MaxPerSubject
      BY <3>4, BoundsAreNumbers
    <3> QED
      BY <3>1, <3>2, <3>3, <3>5, <2>2 DEF k
  <2>4. CASE s # t
    <3>1. OpenOf(s)' = OpenOf(s)
      BY <1>2, <2>4 DEF OpenOf
    <3>2. subjectConns'[s] = subjectConns[s]
      BY <1>1, <2>4 DEF PerSubject
    <3> QED
      BY <3>1, <3>2, <2>2
  <2> QED
    BY <2>3, <2>4
<1>5. PerSubject(subjectConns')
  BY <1>1 DEF PerSubject
<1> QED
  BY <1>3, <1>4, <1>5 DEF ConnectionsCounted

\* The ring and the channels: PublishSignal appends only to a channel with room.
LEMMA LengthsAreKept ==
  ASSUME LimitInv, [StreamNext]_signalVars
  PROVE  Len(ring') <= RingSize /\ \A c \in Client : Len(chan'[c]) <= SubscriberBuffer
<1>1. /\ ring \in Seq(Signal) /\ Len(ring) \in Nat /\ Len(ring) <= RingSize
      /\ \A c \in Client : /\ chan[c] \in Seq(Signal) /\ Len(chan[c]) \in Nat
                           /\ Len(chan[c]) <= SubscriberBuffer
      /\ chan \in [Client -> Seq(Signal)]
  BY LenProperties DEF LimitInv, StreamInv, Shape
<1>2. ASSUME NEW about \in Namespace \cup {"cluster", "reset"}, PublishSignal(about)
      PROVE  Len(ring') <= RingSize /\ \A c \in Client : Len(chan'[c]) <= SubscriberBuffer
  <2> DEFINE e == [life |-> hubLife, seq |-> seq + 1, about |-> about]
             grown == Append(ring, e)
  <2>1. /\ ring' = IF Len(grown) > RingSize THEN Tail(grown) ELSE grown
        /\ \A c \in Client : chan'[c] \in {chan[c], Append(chan[c], e)}
        /\ \A c \in Client : chan'[c] # chan[c] => ~Full(c)
    BY <1>2 DEF PublishSignal
  <2>2. e \in Signal
    BY <1>2, BoundsAreNumbers DEF PublishSignal, LimitInv, StreamInv, Shape, Signal
  <2> HIDE DEF e
  <2>3. /\ grown \in Seq(Signal) /\ grown # <<>> /\ Len(grown) = Len(ring) + 1
        /\ Len(Tail(grown)) = Len(ring)
    BY <2>2, <1>1, AppendProperties, HeadTailProperties
  <2> HIDE DEF grown
  <2>4. Len(ring') <= RingSize
    BY <2>1, <2>3, <1>1, BoundsAreNumbers
  <2>5. ASSUME NEW c \in Client
        PROVE  Len(chan'[c]) <= SubscriberBuffer
    <3>1. CASE chan'[c] = chan[c]
      BY <3>1, <1>1
    <3>2. CASE chan'[c] # chan[c]
      <4>1. Len(chan[c]) < SubscriberBuffer
        BY <3>2, <2>1, <1>1, BoundsAreNumbers DEF Full
      <4>2. Len(chan'[c]) = Len(chan[c]) + 1
        BY <3>2, <2>1, <2>2, <1>1, AppendProperties
      <4> QED
        BY <4>1, <4>2, <1>1, BoundsAreNumbers
    <3> QED
      BY <3>1, <3>2
  <2> QED
    BY <2>4, <2>5
<1>3. ASSUME NEW c \in Client, Connect(c)
      PROVE  ring' = ring /\ chan' = chan
  BY <1>3 DEF Connect, hubVars
<1>4. ASSUME NEW c \in Client, Deliver(c)
      PROVE  Len(ring') <= RingSize /\ \A d \in Client : Len(chan'[d]) <= SubscriberBuffer
  <2>1. ring' = ring
    BY <1>4 DEF Deliver, hubVars
  <2>2. CASE chan' = chan
    BY <2>1, <2>2, <1>1
  <2>3. CASE chan[c] # <<>> /\ chan' = [chan EXCEPT ![c] = Tail(chan[c])]
    <3>1. Len(Tail(chan[c])) = Len(chan[c]) - 1
      BY <2>3, <1>1, HeadTailProperties
    <3>2. Len(Tail(chan[c])) <= SubscriberBuffer
      BY <3>1, <1>1, BoundsAreNumbers
    <3> QED
      BY <2>1, <2>3, <3>2, <1>1
  <2> QED
    BY <1>4, <2>2, <2>3 DEF Deliver
<1>5. ASSUME NEW c \in Client, EndOfEvents(c) \/ CutOff(c)
      PROVE  Len(ring') <= RingSize /\ \A d \in Client : Len(chan'[d]) <= SubscriberBuffer
  <2>1. ring' = ring /\ chan' = [chan EXCEPT ![c] = <<>>]
    BY <1>5 DEF EndOfEvents, CutOff, CloseSub, hubVars
  <2>2. Len(<<>>) = 0
    BY EmptySeq
  <2> QED
    BY <2>1, <2>2, <1>1, BoundsAreNumbers
<1>6. CASE Shutdown
  BY <1>1, <1>6 DEF Shutdown
<1>7. CASE Restart
  <2>1. ring' = <<>> /\ \A c \in Client : chan'[c] = <<>>
    BY <1>7 DEF Restart
  <2> QED
    BY <2>1, EmptySeq, BoundsAreNumbers
<1>8. CASE UNCHANGED signalVars
  BY <1>1, <1>8 DEF signalVars, hubVars, clientVars
<1> QED
  BY <1>1, <1>2, <1>3, <1>4, <1>5, <1>6, <1>7, <1>8 DEF StreamNext, Serve

LEMMA SlotsAreKept ==
  ASSUME LimitInv, [StreamNext]_signalVars
  PROVE  ConnectionsCounted' /\ PerSubject(subjectConns')
<1>1. ASSUME NEW about \in Namespace \cup {"cluster", "reset"}, PublishSignal(about)
      PROVE  ConnectionsCounted' /\ PerSubject(subjectConns')
  <2>1. \E gone : RemoveAll(gone)
    BY <1>1 DEF PublishSignal
  <2> QED
    BY <2>1, RemoveAllGivesBack
<1>2. ASSUME NEW c \in Client, Connect(c)
      PROVE  ConnectionsCounted' /\ PerSubject(subjectConns')
  BY <1>2, ConnectTakesSlot
<1>3. ASSUME NEW c \in Client, EndOfEvents(c) \/ CutOff(c)
      PROVE  ConnectionsCounted' /\ PerSubject(subjectConns')
  BY <1>3, CloseSubGivesBack DEF EndOfEvents, CutOff
<1>4. CASE Shutdown
  BY <1>4, RemoveAllGivesBack DEF Shutdown
<1>5. CASE Restart
  <2>1. Open' = {} /\ subjectConns' = [s \in Subject |-> 0]
    BY <1>5 DEF Restart, Open
  <2>2. \A s \in Subject : OpenOf(s)' = {}
    BY <2>1 DEF OpenOf
  <2> QED
    BY <2>1, <2>2, FS_EmptySet, BoundsAreNumbers DEF ConnectionsCounted, PerSubject
<1>6. CASE UNCHANGED <<sub, subjectConns>>
  <2>1. Open' = Open /\ \A s \in Subject : OpenOf(s)' = OpenOf(s)
    BY <1>6 DEF Open, OpenOf
  <2> QED
    BY <1>6, <2>1 DEF LimitInv, ConnectionsCounted, PerSubject
<1>7. ASSUME NEW c \in Client, Deliver(c)
      PROVE  UNCHANGED <<sub, subjectConns>>
  BY <1>7 DEF Deliver
<1>8. UNCHANGED signalVars => UNCHANGED <<sub, subjectConns>>
  BY DEF signalVars, clientVars
<1> QED
  BY <1>1, <1>2, <1>3, <1>4, <1>5, <1>6, <1>7, <1>8 DEF StreamNext, Serve

THEOREM LimitInvHolds == StreamSpec => []LimitInv
<1>1. StreamInit => ConnectionsCounted /\ PerSubject(subjectConns)
  <2> SUFFICES ASSUME StreamInit PROVE ConnectionsCounted /\ PerSubject(subjectConns)
    OBVIOUS
  <2>1. Open = {} /\ \A s \in Subject : OpenOf(s) = {}
    BY DEF StreamInit, Open, OpenOf
  <2> QED
    BY <2>1, FS_EmptySet, BoundsAreNumbers DEF StreamInit, ConnectionsCounted, PerSubject
<1>2. StreamInit => Len(ring) <= RingSize /\ \A c \in Client : Len(chan[c]) <= SubscriberBuffer
  BY EmptySeq, BoundsAreNumbers DEF StreamInit
<1>3. StreamInit /\ StreamInv => LimitInv
  BY <1>1, <1>2 DEF LimitInv
<1>4. LimitInv /\ StreamInv' /\ [StreamNext]_signalVars => LimitInv'
  BY SlotsAreKept, LengthsAreKept DEF LimitInv
<1> QED
  BY <1>3, <1>4, StreamInvHolds, PTL DEF StreamSpec

\* The hub never holds more than its limits, and what subjectConns says of a
\* user is the number of its open streams (stream.go, Subscribe, removeLocked).
THEOREM SlotsAreExact == StreamSpec => []ConnectionsCounted
<1>1. LimitInv => ConnectionsCounted
  BY DEF LimitInv
<1> QED
  BY <1>1, LimitInvHolds, PTL

\* Type correctness, with the limits of the ring, the channels and the users.
THEOREM StreamTypes == StreamSpec => []StreamTypeOK
<1>1. ASSUME LimitInv
      PROVE  StreamTypeOK
  <2>1. \A s \in Subject : subjectConns[s] \in 0 .. MaxPerSubject
    <3> TAKE s \in Subject
    <3>1. OpenOf(s) \in SUBSET Open
      BY DEF OpenOf
    <3>2. Cardinality(OpenOf(s)) \in Nat
      BY <1>1, <3>1, FS_Subset, FS_CardinalityType DEF LimitInv, ConnectionsCounted
    <3> QED
      BY <1>1, <3>2, BoundsAreNumbers DEF LimitInv, ConnectionsCounted
  <2>2. subjectConns \in [Subject -> 0 .. MaxPerSubject]
    BY <1>1, <2>1 DEF LimitInv, PerSubject
  <2> QED
    BY <1>1, <2>2 DEF LimitInv, StreamInv, Shape, StreamTypeOK, Stamp
<1> QED
  BY <1>1, LimitInvHolds, PTL
=============================================================================
