------------------------------- MODULE Places -------------------------------
(***************************************************************************)
(* Sequences that are sifted: what a sequence has at a set of its places,  *)
(* in their order.  Unlike SelectSeq it takes no operator as an argument,  *)
(* so that it can be reasoned about.                                       *)
(***************************************************************************)
EXTENDS Naturals, FiniteSets, Sequences

AtPlaces(order, places) ==
  LET n     == Cardinality(places)
      place == CHOOSE p \in [1..n -> places] : \A j, k \in 1..n : j < k => p[j] < p[k]
  IN  [k \in 1..n |-> order[place[k]]]
=============================================================================
