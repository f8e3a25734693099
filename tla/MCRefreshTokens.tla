--------------------------- MODULE MCRefreshTokens ---------------------------
(* TLC instance of RefreshTokens: tokens and requests are interchangeable.  *)
EXTENDS RefreshTokens, TLC

Symmetry == Permutations(Tokens) \cup Permutations(Requests)
=============================================================================
