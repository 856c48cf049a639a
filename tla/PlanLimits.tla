----------------------------- MODULE PlanLimits -----------------------------
(***************************************************************************)
(* What a tenant's plan allows (core/plan_limits) and where it is enforced: *)
(* the dashboard requests that create and change projects, tools and API    *)
(* keys (api/projects, api/keys), while the plan itself changes.            *)
(*                                                                          *)
(* Every request first reads the tenant (get_current_tenant), then works    *)
(* with that plan: one read, the checks, one write.  Each database command  *)
(* is an action.  A project and a key bear the name of the request that     *)
(* creates them.                                                            *)
(***************************************************************************)
EXTENDS Naturals, FiniteSets

CONSTANTS
    Requests,   \* dashboard requests of one tenant
    Plans,      \* the plans of PLAN_LIMITS, which tenant.plan is one of
    Limit,      \* plan -> field -> its limit, None for unlimited
    Values,     \* the values a request may ask for
    None

ASSUME RequestsFinite == IsFiniteSet(Requests)

Fields   == {"projects", "ttl", "rpm", "timeout"}
Settings == {"ttl", "rpm", "timeout"}

ASSUME LimitsAreNumbers ==
    /\ None \notin Nat /\ Values \subseteq Nat
    /\ Limit \in [Plans -> [Fields -> Nat \cup {None}]]

VARIABLES
    plan,       \* tenant.plan
    enabled,    \* tenant.is_active
    projects,   \* the projects in db.projects
    inactive,   \* those that are soft-deleted
    setting,    \* project -> its ttl and rpm, and the timeout of its tool if any
    keyRpm,     \* rate_limit_rpm of the key each request has created
    req,        \* where each request is
    planRead,   \* the plan in the tenant document it has read
    target,     \* the project it is about
    toolRead,   \* the timeout of the tool it has read
    held,       \* plans the tenant has been on so far
    peak        \* most create requests ever between their count and their insert

tenantVars == <<plan, enabled, held>>
docVars    == <<projects, inactive, setting, keyRpm>>
localVars  == <<planRead, target, toolRead>>
vars == <<tenantVars, docVars, req, localVars, peak>>

Blank == [f \in Settings |-> None]

Init ==
    /\ plan \in Plans /\ held = {plan} /\ enabled = TRUE
    /\ projects = {} /\ inactive = {}
    /\ setting = [r \in Requests |-> Blank]
    /\ keyRpm = [r \in Requests |-> None]
    /\ req = [r \in Requests |-> "new"]
    /\ planRead = [r \in Requests |-> None]
    /\ target = [r \in Requests |-> None]
    /\ toolRead = [r \in Requests |-> None]
    /\ peak = 0

-----------------------------------------------------------------------------
(* core/plan_limits                                                         *)

MutantIsWithin(pl, f, count) == Limit[pl][f] = None \/ count <= Limit[pl][f]
IsWithin(pl, f, count) == Limit[pl][f] = None \/ count < Limit[pl][f]

MutantUncapped(pl, f, v) == v
MutantReplaced(pl, f, v) == Limit[pl][f]
Effective(pl, f, v) == IF Limit[pl][f] = None \/ v <= Limit[pl][f] THEN v ELSE Limit[pl][f]

-----------------------------------------------------------------------------
(* The requests.                                                            *)

Go(r, from, to) == req[r] = from /\ req' = [req EXCEPT ![r] = to]

\* get_current_tenant: 401 for a deactivated tenant.
Authenticate(r) ==
    /\ Go(r, "new", IF enabled THEN "ready" ELSE "refused")
    /\ planRead' = [planRead EXCEPT ![r] = plan]
    /\ UNCHANGED <<tenantVars, docVars, target, toolRead, peak>>

\* create_project: list_for_tenant lists soft-deleted projects as well.
Listed == projects

InFlight == {r \in Requests : req[r] = "insert"}

CountProjects(r) ==
    /\ Go(r, "ready", IF IsWithin(planRead[r], "projects", Cardinality(Listed))
                      THEN "insert" ELSE "refused")
    /\ peak' = IF Cardinality(InFlight') > peak THEN Cardinality(InFlight') ELSE peak
    /\ UNCHANGED <<tenantVars, docVars, localVars>>

InsertProject(r, ttl, rpm) ==
    /\ Go(r, "insert", "done")
    /\ projects' = projects \cup {r}
    /\ setting' = [setting EXCEPT ![r].ttl = Effective(planRead[r], "ttl", ttl),
                                  ![r].rpm = Effective(planRead[r], "rpm", rpm)]
    /\ UNCHANGED <<tenantVars, inactive, keyRpm, localVars, peak>>

\* get_by_id, which opens every request about a project and finds soft-deleted
\* ones too.  What is to be written follows from the plan and from what was read.
ReadProject(r, p) ==
    /\ p \in projects
    /\ \E to \in {"update", "tool", "key", "delete"} : Go(r, "ready", to)
    /\ target' = [target EXCEPT ![r] = p]
    /\ toolRead' = [toolRead EXCEPT ![r] = setting[p].timeout]
    /\ UNCHANGED <<tenantVars, docVars, planRead, peak>>

\* update_project: the ttl, the rpm, both or other fields.
UpdateProject(r, fields, v) ==
    /\ Go(r, "update", "done")
    /\ setting' = [setting EXCEPT ![target[r]] =
                      [f \in Settings |-> IF f \in fields THEN Effective(planRead[r], f, v)
                                                          ELSE @[f]]]
    /\ UNCHANGED <<tenantVars, projects, inactive, keyRpm, localVars, peak>>

\* add_tool and update_tool write the tools array back as a whole, with the
\* timeout that was read when the request gives none.
WriteTool(r, v) ==
    /\ Go(r, "tool", "done")
    /\ \/ setting' = [setting EXCEPT ![target[r]].timeout = Effective(planRead[r], "timeout", v)]
       \/ setting' = [setting EXCEPT ![target[r]].timeout = toolRead[r]]
    /\ UNCHANGED <<tenantVars, projects, inactive, keyRpm, localVars, peak>>

\* create_key
InsertKey(r, v) ==
    /\ Go(r, "key", "done")
    /\ keyRpm' = [keyRpm EXCEPT ![r] = Effective(planRead[r], "rpm", v)]
    /\ UNCHANGED <<tenantVars, projects, inactive, setting, localVars, peak>>

\* delete_project: soft_delete
SoftDelete(r) ==
    /\ Go(r, "delete", "done")
    /\ inactive' = inactive \cup {target[r]}
    /\ UNCHANGED <<tenantVars, projects, setting, keyRpm, localVars, peak>>

\* 404, 409, 422, an error of the database, or the client is told nothing more.
Stops(r) ==
    /\ req[r] \in {"ready", "insert", "update", "tool", "key", "delete"}
    /\ req' = [req EXCEPT ![r] = "refused"]
    /\ UNCHANGED <<tenantVars, docVars, localVars, peak>>

\* The idle timeout of a session: session_runner waits for the stored
\* session_ttl_seconds, and nothing compares it with the tenant's plan again.
SessionTtl(p) == setting[p].ttl

-----------------------------------------------------------------------------
(* TenantRepository, called from outside the dashboard.                     *)

UpdatePlan(p) ==
    /\ plan' = p
    /\ held' = held \cup {p}
    /\ UNCHANGED <<enabled, docVars, req, localVars, peak>>

SetActive(b) ==
    /\ enabled' = b
    /\ UNCHANGED <<plan, held, docVars, req, localVars, peak>>

-----------------------------------------------------------------------------
Request(r) ==
    \/ Authenticate(r)
    \/ CountProjects(r)
    \/ \E ttl, rpm \in Values : InsertProject(r, ttl, rpm)
    \/ \E p \in Requests : ReadProject(r, p)
    \/ \E fields \in SUBSET {"ttl", "rpm"}, v \in Values : UpdateProject(r, fields, v)
    \/ \E v \in Values : WriteTool(r, v) \/ InsertKey(r, v)
    \/ SoftDelete(r) \/ Stops(r)

Next ==
    \/ \E r \in Requests : Request(r)
    \/ \E p \in Plans : UpdatePlan(p)
    \/ \E b \in BOOLEAN : SetActive(b)

Spec == Init /\ [][Next]_vars

-----------------------------------------------------------------------------
(* Properties.                                                              *)

\* The values the variables take; a project has a ttl and an rpm.
TypeOK ==
    /\ plan \in Plans /\ held \subseteq Plans /\ plan \in held /\ enabled \in BOOLEAN
    /\ projects \subseteq Requests /\ inactive \subseteq projects
    /\ setting \in [Requests -> [Settings -> Nat \cup {None}]]
    /\ \A p \in projects : setting[p].ttl \in Nat /\ setting[p].rpm \in Nat
    /\ keyRpm \in [Requests -> Nat \cup {None}]
    /\ req \in [Requests -> {"new", "ready", "insert", "update", "tool", "key", "delete",
                             "done", "refused"}]
    /\ planRead \in [Requests -> Plans \cup {None}]
    /\ target \in [Requests -> Requests \cup {None}]
    /\ toolRead \in [Requests -> Nat \cup {None}]
    /\ peak \in Nat

\* The project limit is overrun only by a race, and by no more than it takes: a
\* tenant never owns more projects than the best of its plans allowed, plus one
\* for each create request but one that was under way with the others (the count
\* in create_project is taken one database command before the insert).
ExcessNeedsRace ==
    \/ \E pl \in held : Limit[pl].projects = None
    \/ \E pl \in held :
         Cardinality(projects) + Cardinality(InFlight)
           <= IF peak = 0 THEN 0 ELSE Limit[pl].projects + peak - 1

\* Whatever is configured was allowed by a plan the tenant has been on: no
\* request, however late its write and however stale the plan and the tools it
\* has read, sets a ttl, an rpm or a timeout above the highest cap so far.  What
\* the plan in force allows may be less: see ActualTtlIsMin.
CapsOfAPlanHeld ==
    LET Allowed(f, v) == v # None =>
            \E pl \in held : Limit[pl][f] = None \/ v <= Limit[pl][f]
    IN /\ \A p \in projects, f \in Settings : Allowed(f, setting[p][f])
       /\ \A r \in Requests : Allowed("rpm", keyRpm[r])

-----------------------------------------------------------------------------
(* What the documentation promises and the code does not keep.              *)

\* "Actual session TTL is min(project.session_ttl, plan.session_ttl)"
\* (core/plan_limits.py:21, and again in :123): of the plan the tenant is on when
\* a session of an active project opens.
ActualTtlIsMin ==
    \A p \in projects \ inactive : SessionTtl(p) = Effective(plan, "ttl", setting[p].ttl)

=============================================================================
