-------------------------- MODULE MCRefreshTokens --------------------------
(* Small instances of RefreshTokens for TLC.                               *)
EXTENDS RefreshTokens, TLC

Symmetry == Permutations(Tokens) \cup Permutations(Refreshes)
            \cup Permutations(Entries) \cup Permutations(Tenants)
=============================================================================
