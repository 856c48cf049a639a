------------------------- MODULE MCEphemeralTokens -------------------------
(* Small instances of EphemeralTokens for TLC.                             *)
EXTENDS EphemeralTokens, TLC

Symmetry == Permutations(Tokens) \cup Permutations(Handshakes)
            \cup Permutations(Rotations) \cup Permutations(Projects)
=============================================================================
