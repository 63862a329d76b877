------------------------------- MODULE Sublists -------------------------------
(***************************************************************************)
(* A loop that goes through a list and keeps some of its entries, in their *)
(* order.  (SelectSeq takes a test, about which nothing can be proved; the *)
(* places of what is kept are a set.)                                      *)
(***************************************************************************)
EXTENDS Naturals, Sequences, FiniteSets

\* The place in P before which there are so many others.
Place(P, before) == CHOOSE n \in P : Cardinality({m \in P : m < n}) = before

\* The entries of s at the places P, in their order.
Sublist(s, P) == [i \in 1..Cardinality(P) |-> s[Place(P, i - 1)]]
=============================================================================
