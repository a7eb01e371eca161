------------------------------- MODULE Queues -------------------------------
(***************************************************************************)
(* std::queue as a sequence: what the proofs say of its entries.           *)
(***************************************************************************)
EXTENDS Naturals, Sequences

\* No entry occurs twice; c occurs.
Distinct(s) == \A i, j \in 1..Len(s) : s[i] = s[j] => i = j
In(s, c) == \E i \in 1..Len(s) : s[i] = c
=============================================================================
