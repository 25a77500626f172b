---- MODULE Ordered ----
(***************************************************************************)
(* The members of a finite set of numbers in their order: what an ORDER BY *)
(* of ids returns, and the positions of a list that a filter keeps.        *)
(***************************************************************************)
EXTENDS Naturals, Sequences, FiniteSets

Ordered(S) ==
  [n \in 1..Cardinality(S) |-> CHOOSE i \in S : Cardinality({j \in S : j <= i}) = n]
====
