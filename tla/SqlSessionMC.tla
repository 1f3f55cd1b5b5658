----------------------------- MODULE SqlSessionMC -----------------------------
(* Small instances of SqlSession for TLC. *)
EXTENDS SqlSession, TLC

CONSTANTS s1, s2, k1, k2, w1, w2, w3

Symmetric == Permutations(Session) \cup Permutations(Write) \cup Permutations(Key)
===============================================================================
