--------------------------- MODULE MCChatSession ---------------------------
(* Small instances of ChatSession for TLC.                                 *)
EXTENDS ChatSession, TLC

Symmetry == Permutations(Tasks) \cup Permutations(Handlers)
=============================================================================
