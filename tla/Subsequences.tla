---------------------------- MODULE Subsequences ----------------------------
(***************************************************************************)
(* What Array.filter and String.replace leave of a sequence.               *)
(***************************************************************************)
EXTENDS Integers, Sequences, FiniteSets

(* The elements of s at the places in P, in their order.                    *)
keep(s, P) ==
    [n \in 1 .. Cardinality(P) |->
        s[CHOOSE i \in P : Cardinality({k \in P : k < i}) = n - 1]]
=============================================================================
