------------------------------ MODULE Ranking --------------------------------
(***************************************************************************)
(* Sorting and cutting, as the queries and searches of the program do it.  *)
(* An order is a relation, and the place of an element in it is the number *)
(* of elements before it; SetToSortSeq of the community modules gives the  *)
(* same sequence, but rests on an operator the provers know nothing about. *)
(***************************************************************************)
EXTENDS Naturals, FiniteSets, Sequences

Place(S, R, a) == Cardinality({b \in S : <<b, a>> \in R}) + 1

\* The elements of S, from the first to the last in R.
InOrder(S, R) == [n \in 1..Cardinality(S) |-> CHOOSE a \in S : Place(S, R, a) = n]

\* Positions of a sequence, as they come and backwards.
Upwards(at) == {p \in at \X at : p[1] < p[2]}
Backwards(at) == {p \in at \X at : p[2] < p[1]}

\* Python's sort with reverse=True, which is stable: the highest score first, ties in
\* the given order.
Downwards(at, score) ==
  {p \in at \X at : \/ score[p[1]] > score[p[2]]
                    \/ score[p[1]] = score[p[2]] /\ p[1] < p[2]}

\* The elements of s at the given positions, in the order R.
Pick(s, at, R) == LET positions == InOrder(at, R) IN [n \in DOMAIN positions |-> s[positions[n]]]

First(s, n) == SubSeq(s, 1, IF n < Len(s) THEN n ELSE Len(s))
=============================================================================
