--------------------------- MODULE LoginSessions ---------------------------
(***************************************************************************)
(* What refresh tokens promise: a login opens a session that can be kept   *)
(* alive until it is over, and a session that is over stays so.            *)
(***************************************************************************)
CONSTANT Logins

VARIABLE session    \* "none", "active", "over"

Init == session = [s \in Logins |-> "none"]

Begin(s) == session[s] = "none" /\ session' = [session EXCEPT ![s] = "active"]

\* Logging out, or letting time pass, ends any number of sessions at once.
End(S) ==
    /\ \A s \in S : session[s] = "active"
    /\ session' = [s \in Logins |-> IF s \in S THEN "over" ELSE session[s]]

Next == (\E s \in Logins : Begin(s)) \/ (\E S \in SUBSET Logins : End(S))

Spec == Init /\ [][Next]_session
=============================================================================
