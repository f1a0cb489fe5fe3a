----------------------------- MODULE LocalCache -----------------------------
(***************************************************************************)
(* The memory of the query cache (internal/cache/cache.go): entries found  *)
(* by key, a list in the order of their last use, and a running count of   *)
(* their bytes.  All operations hold one mutex, so each is a step.         *)
(***************************************************************************)
EXTENDS Naturals, SequencesExt, FiniteSetsExt, Functions

CONSTANTS
    CacheKey,      \* keys of answers
    Size,          \* sizes a value may have, in bytes
    Life,          \* lives a value may be given, in ticks
    MaxEntries,    \* Config.MaxEntries
    MaxLocalBytes  \* Config.MaxLocalBytes

ASSUME LocalCacheAssumption ==
    /\ Size \subseteq Nat \ {0} /\ Life \subseteq Nat \ {0}
    /\ MaxEntries \in Nat \ {0} /\ MaxLocalBytes \in Nat \ {0}

VARIABLES
    items,      \* the entries: key -> [size, left]
    order,      \* the keys, the most recently used first
    localBytes  \* what the entries hold together, as counted

lruVars == <<items, order, localBytes>>

Stored == DOMAIN items

LocalCacheTypeOK ==
    /\ Stored \subseteq CacheKey
    /\ \A k \in Stored : /\ items[k].size \in Size
                       /\ items[k].left \in 0 .. Max(Life)
    /\ order \in Seq(CacheKey)
    /\ localBytes \in Nat

LocalCacheInit == items = << >> /\ order = << >> /\ localBytes = 0

-----------------------------------------------------------------------------
Entry(s, l) == [size |-> s, left |-> l]
Sizes(its) == [k \in DOMAIN its |-> its[k].size]

\* The list without the keys that are not in live.
Thinned(seq, live) ==
    LET kept[n \in 0 .. Len(seq)] ==
            IF n = 0 THEN << >>
            ELSE IF seq[n] \in live THEN Append(kept[n - 1], seq[n]) ELSE kept[n - 1]
    IN  kept[Len(seq)]
ToFront(seq, k) == <<k>> \o Thinned(seq, ToSet(seq) \ {k})

\* The state of the cache as a value, and what remains of it once all entries
\* but those of live are removed.
Memory(its, seq, bytes) == [items |-> its, order |-> seq, bytes |-> bytes]
Cut(c, live) == Memory([k \in live |-> c.items[k]], Thinned(c.order, live),
                       c.bytes - SumFunctionOnSet(Sizes(c.items), DOMAIN c.items \ live))
Become(c) == /\ items' = c.items
             /\ order' = c.order
             /\ localBytes' = c.bytes
Now == Memory(items, order, localBytes)

\* Entries are removed from the back until the cache is within its limits: the
\* most recent ones stay, as many as fit.  An update counts only bytes, an
\* insertion entries too.
InLimits(c, limit) == Cardinality(DOMAIN c.items) <= limit /\ c.bytes <= MaxLocalBytes
Recent(c, n) == {c.order[i] : i \in 1 .. n}
Evict(c, limit) ==
    LET fitting == {n \in 0 .. Len(c.order) : InLimits(Cut(c, Recent(c, n)), limit)}
    IN  Cut(c, Recent(c, Max({0} \cup fitting)))

\* TTL.get: a live entry moves to the front, an expired one is removed.
LruGet(k) ==
    /\ k \in Stored
    /\ IF items[k].left > 0
         THEN /\ order' = ToFront(order, k)
              /\ UNCHANGED <<items, localBytes>>
         ELSE Become(Cut(Now, Stored \ {k}))

\* Variant: the new size of an entry is not stored.
UpdatedKeepingSize(k, s, l) ==
    Memory([items EXCEPT ![k].left = l], ToFront(order, k),
          localBytes + s - items[k].size)

Updated(k, s, l) ==
    Memory([items EXCEPT ![k] = Entry(s, l)], ToFront(order, k),
          localBytes + s - items[k].size)
Inserted(k, s, l) ==
    Memory([x \in Stored \cup {k} |-> IF x = k THEN Entry(s, l) ELSE items[x]],
          <<k>> \o order, localBytes + s)

\* TTL.set: a value that no cache could hold is not stored.
LruSet(k, s, l) ==
    /\ s <= MaxLocalBytes
    /\ IF k \in Stored
         THEN Become(Evict(Updated(k, s, l), Cardinality(Stored)))
         ELSE Become(Evict(Inserted(k, s, l), MaxEntries))

\* TTL.Len: expired entries are removed.
LruLen ==
    LET live == {k \in Stored : items[k].left > 0}
    IN  live # Stored /\ Become(Cut(Now, live))

\* The clock: lives run out, entries stay until someone looks.
LruAge ==
    /\ \E k \in Stored : items[k].left > 0
    /\ items' = [k \in Stored |-> Entry(items[k].size,
                    IF items[k].left = 0 THEN 0 ELSE items[k].left - 1)]
    /\ UNCHANGED <<order, localBytes>>

LocalCacheNext ==
    \/ \E k \in CacheKey : LruGet(k)
    \/ \E k \in CacheKey, s \in Size, l \in Life : LruSet(k, s, l)
    \/ LruLen
    \/ LruAge

LocalCacheSpec == LocalCacheInit /\ [][LocalCacheNext]_lruVars

-----------------------------------------------------------------------------
\* The list and the entries agree, the counter is what the entries hold (it
\* is kept by differences on every path and would drift for ever), and both
\* limits are met.
MemoryAccounted ==
    /\ ToSet(order) = Stored /\ Len(order) = Cardinality(Stored)
    /\ localBytes = SumFunction(Sizes(items))
    /\ localBytes <= MaxLocalBytes /\ Len(order) <= MaxEntries
=============================================================================
