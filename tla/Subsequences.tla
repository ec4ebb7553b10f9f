---------------------------- MODULE Subsequences ----------------------------
(***************************************************************************)
(* What a function, such as a sequence, holds at some places, in the order *)
(* of the places.  SelectSeq and SetToSortSeq say the same, but rest on    *)
(* recursion that no proof can use.                                        *)
(***************************************************************************)
EXTENDS Integers, FiniteSets

\* The i-th smallest of a finite set of integers.
Nth(K, i) == CHOOSE k \in K : Cardinality({j \in K : j <= k}) = i

Subsequence(s, K) == [i \in 1..Cardinality(K) |-> s[Nth(K, i)]]
=============================================================================
