------------------------------ MODULE Selection ------------------------------
(***************************************************************************)
(* The elements of a sequence that are in a set, in their order: what a    *)
(* list comprehension with a condition returns.  It is SelectSeq of        *)
(* Sequences, defined without recursion so that facts about it can be      *)
(* proved: the k-th element kept is the one whose place has rank k.        *)
(***************************************************************************)
EXTENDS Naturals, Sequences, FiniteSets

PlacesIn(s, S) == {i \in 1..Len(s) : s[i] \in S}

Rank(places, i) == Cardinality({j \in places : j <= i})

Kept(s, S) ==
    LET places == PlacesIn(s, S)
    IN  [k \in 1..Cardinality(places) |-> s[CHOOSE i \in places : Rank(places, i) = k]]
================================================================================
