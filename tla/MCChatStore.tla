----------------------------- MODULE MCChatStore -----------------------------
(* ChatStore for TLC: users and workers are interchangeable.               *)
EXTENDS ChatStore, TLC

Symmetry == Permutations(User) \cup Permutations(Workers)
=============================================================================
