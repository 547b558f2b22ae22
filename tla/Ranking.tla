------------------------------ MODULE Ranking -------------------------------
(***************************************************************************)
(* Position of an element in a finite set of numbers, and the subsequence  *)
(* that a filter keeps, both without recursion.                            *)
(***************************************************************************)
EXTENDS Naturals, FiniteSets

\* How many elements of K come before i.
Rank(K, i) == Cardinality({j \in K : j < i})

\* The elements of q that lie in S, in their order.
Keep(q, S) ==
  LET kept == {i \in DOMAIN q : q[i] \in S}
  IN  [n \in 1 .. Cardinality(kept) |-> q[CHOOSE i \in kept : Rank(kept, i) = n - 1]]
=============================================================================
