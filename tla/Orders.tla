------------------------------- MODULE Orders -------------------------------
(***************************************************************************)
(* Sorting, for the places where the program calls sorted() or lets the    *)
(* database sort: the elements of a set in a strict order, and a sequence  *)
(* by the numbers of its elements. SortSeq of TLC and SetToSortSeq of the  *)
(* community modules do the same, but have no definition a proof can use.  *)
(***************************************************************************)
EXTENDS Integers, FiniteSets, Sequences

\* before is a strict total order of S, given as a set of pairs
StrictlyOrders(before, S) ==
  /\ \A x \in S : <<x, x>> \notin before
  /\ \A x, y \in S : x = y \/ <<x, y>> \in before \/ <<y, x>> \in before
  /\ \A x, y, z \in S : <<x, y>> \in before /\ <<y, z>> \in before => <<x, z>> \in before

IsSortedBy(s, before) == \A i, j \in DOMAIN s : i < j => <<s[i], s[j]>> \in before

\* the elements of S, each once, in the order before
SortedBy(S, before) ==
  CHOOSE s \in [1..Cardinality(S) -> S] : IsSortedBy(s, before)

\* numbers in ascending order
Less(S) == {p \in S \X S : p[1] < p[2]}
Ascending(S) == SortedBy(S, Less(S))

\* sorted(s, key=...): rank[i] is the key of the i-th element, equal keys stay
\* in the order they have
StablyBefore(rank) ==
  {p \in (DOMAIN rank) \X (DOMAIN rank) :
     rank[p[1]] < rank[p[2]] \/ (rank[p[1]] = rank[p[2]] /\ p[1] < p[2])}
SortedByRank(s, rank) ==
  LET order == SortedBy(DOMAIN s, StablyBefore(rank))
  IN [i \in DOMAIN s |-> s[order[i]]]
=============================================================================
