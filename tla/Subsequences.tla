---------------------------- MODULE Subsequences ----------------------------
(***************************************************************************)
(* Parts of a sequence, in their order: what the loops of the code that    *)
(* append some elements of one slice to another return.  They are defined  *)
(* by the positions that are kept, which is what proofs about them need.   *)
(***************************************************************************)
EXTENDS Naturals, FiniteSets

\* The k-th number of T, from the least.
Nth(T, k) == CHOOSE x \in T : Cardinality({y \in T : y <= x}) = k

\* The elements of s at the positions in T.
At(s, T) == [k \in 1..Cardinality(T) |-> s[Nth(T, k)]]

\* The elements of s that are in S.
Only(s, S) == At(s, {i \in DOMAIN s : s[i] \in S})

NonEmpty(s) == At(s, {i \in DOMAIN s : s[i] # <<>>})
=============================================================================
