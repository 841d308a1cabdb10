------------------------------ MODULE Selection ------------------------------
(***************************************************************************)
(* What a loop over a sequence pushes back when it skips some positions.   *)
(***************************************************************************)
EXTENDS Integers, FiniteSets

\* The k-th position of S.
Nth(S, k) == CHOOSE i \in S : Cardinality({j \in S : j <= i}) = k

\* The elements of s at the positions in S, in their order.
Selected(s, S) == [k \in 1 .. Cardinality(S) |-> s[Nth(S, k)]]
=============================================================================
