-------------------------- MODULE MCSessionManager --------------------------
(* Small instances of SessionManager for TLC.                               *)
EXTENDS SessionManager
=============================================================================
