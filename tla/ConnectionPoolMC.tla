--------------------------- MODULE ConnectionPoolMC ---------------------------
(* Small instances of ConnectionPool for TLC. *)
EXTENDS ConnectionPool

CONSTANTS c1, c2, c3, r1, r2, r3, a, b, u1, u2

Symmetric == Permutations({c1, c2, c3} \cap Client) \cup Permutations({r1, r2, r3} \cap Real)
===============================================================================
