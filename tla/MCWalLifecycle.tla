--------------------------- MODULE MCWalLifecycle ---------------------------
(* Two column families and two flush threads; both sets are symmetric.      *)
EXTENDS WalLifecycle

CONSTANTS a, b, j1, j2

MCSymmetry == Permutations({a, b}) \cup Permutations({j1, j2})
=============================================================================
