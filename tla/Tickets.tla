------------------------------ MODULE Tickets ------------------------------
(***************************************************************************)
(* What ephemeral tokens promise: each mint hands out one ticket, which     *)
(* admits at most one WebSocket session.  A ticket in use is taken out of   *)
(* circulation, and may come back (as the token of a rotation) or be lost.  *)
(***************************************************************************)
CONSTANT Mints

VARIABLE ticket    \* "none", "valid", "taken", "admitted", "void"

States == {"none", "valid", "taken", "admitted", "void"}

Init == ticket = [m \in Mints |-> "none"]

Step(m, from, to) == ticket[m] = from /\ ticket' = [ticket EXCEPT ![m] = to]

Issue(m)  == Step(m, "none", "valid")
Take(m)   == Step(m, "valid", "taken")
Return(m) == Step(m, "taken", "valid")
Admit(m)  == Step(m, "taken", "admitted")
Lapse(m)  == Step(m, "valid", "void") \/ Step(m, "taken", "void")

Next == \E m \in Mints : Issue(m) \/ Take(m) \/ Return(m) \/ Admit(m) \/ Lapse(m)

Spec == Init /\ [][Next]_ticket
=============================================================================
