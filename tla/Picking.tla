-------------------------------- MODULE Picking --------------------------------
(***************************************************************************)
(* Strings that lose some of their characters, which Python's str.replace  *)
(* and urllib do: what stays keeps its order.                              *)
(***************************************************************************)
EXTENDS Naturals, Sequences, FiniteSets

\* What is at the places of s that are in kept, in their order.
Picked(s, kept) ==
    [k \in 1..Cardinality(kept) |-> s[CHOOSE i \in kept : Cardinality({j \in kept : j <= i}) = k]]
=============================================================================
