-------------------------- MODULE MCProjectConfig --------------------------
(* Small instances of ProjectConfig for TLC.                               *)
EXTENDS ProjectConfig
=============================================================================
