-------------------------------- MODULE Lists --------------------------------
(***************************************************************************)
(* The part of a list that stays when a call drops entries: what SelectSeq *)
(* computes, told from the places that stay.  SelectSeq is built into TLC  *)
(* and unknown to the proof system; this form can be reasoned about.       *)
(***************************************************************************)
EXTENDS Naturals, Sequences, FiniteSets

\* The k-th of the places K.
Nth(K, k) == CHOOSE i \in K : Cardinality({j \in K : j <= i}) = k

\* The entries of s at the places K, in their order (retain and filter of the Rust library).
KeptAt(s, K) == [k \in 1 .. Cardinality(K) |-> s[Nth(K, k)]]
=============================================================================
