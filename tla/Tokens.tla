------------------------------- MODULE Tokens -------------------------------
(***************************************************************************)
(* The tokens that the search of resources is made of, and the order of    *)
(* its answers (internal/resourcecatalog/searchindex.go, search.go).  A    *)
(* token is its place in TokenText, the tokens in order, each a sequence   *)
(* of letters.                                                             *)
(***************************************************************************)
EXTENDS Naturals, FiniteSets, SequencesExt

CONSTANT TokenText

\* How many letters two texts share at their start.
Lcp(s, t) == Cardinality({i \in 1..Len(s) : i <= Len(t) /\ IsPrefix(SubSeq(s, 1, i), t)})

\* What a token of a row shares with the token of the row before it.
PrevLcp(tokens, t) ==
    LET before == {u \in tokens : u < t}
    IN IF before = {} THEN 0 ELSE Lcp(TokenText[Max(before)], TokenText[t])

LexBefore(a, b) == \E i \in DOMAIN a : a[i] < b[i] /\ \A j \in 1..(i - 1) : a[j] = b[j]
=============================================================================
