-------------------------- MODULE PlanLimits_proofs --------------------------
(* Theorems about PlanLimits, for any number of requests, plans and limits. *)
EXTENDS PlanLimits, FiniteSetTheorems, TLAPS

USE DEF vars, tenantVars, docVars, localVars

\* What requests know: after the first command the plan they have read is one
\* the tenant has been on, and a request about a project has found it.
Known ==
    /\ \A r \in Requests : req[r] \notin {"new", "refused"} => planRead[r] \in held
    /\ \A r \in Requests :
         req[r] \in {"update", "tool", "key", "delete"} => target[r] \in projects

\* A value is none, or within the cap of some plan so far.
Allowed(f, v) == v # None => \E pl \in held : Limit[pl][f] = None \/ v <= Limit[pl][f]

\* Not only what is configured is allowed, but also what a request has read of a
\* tool and may write back later.
AllAllowed ==
    /\ \A p \in Requests, f \in Settings : Allowed(f, setting[p][f])
    /\ \A r \in Requests : Allowed("rpm", keyRpm[r]) /\ Allowed("timeout", toolRead[r])

\* The inductive invariant.
PlanInv == TypeOK /\ Known /\ AllAllowed /\ ExcessNeedsRace

-----------------------------------------------------------------------------

\* What an effective value is: a number, and within the cap of its plan.
LEMMA EffectiveIsCapped ==
    ASSUME NEW pl \in Plans, NEW f \in Fields, NEW v \in Nat
    PROVE  /\ Effective(pl, f, v) \in Nat
           /\ Limit[pl][f] = None \/ Effective(pl, f, v) <= Limit[pl][f]
<1>1. Limit[pl][f] \in Nat \cup {None}
    BY LimitsAreNumbers
<1>. QED
    BY <1>1 DEF Effective

\* A value that has been made effective under a plan the tenant has been on is
\* allowed, whatever plan the tenant is on now.
LEMMA EffectiveIsAllowed ==
    ASSUME TypeOK, Known, NEW r \in Requests, req[r] \notin {"new", "refused"},
           NEW f \in Settings, NEW v \in Values
    PROVE  /\ Effective(planRead[r], f, v) \in Nat
           /\ Allowed(f, Effective(planRead[r], f, v))
<1>1. planRead[r] \in held /\ planRead[r] \in Plans
    BY DEF TypeOK, Known
<1>2. f \in Fields /\ v \in Nat
    BY LimitsAreNumbers DEF Settings, Fields
<1>. QED
    BY <1>1, <1>2, EffectiveIsCapped DEF Allowed

\* The invariant holds when no request has begun.
LEMMA PlanInit == Init => PlanInv
<1>. SUFFICES ASSUME Init PROVE PlanInv
    OBVIOUS
<1>1. TypeOK
    BY DEF Init, TypeOK, Blank
<1>2. Known /\ AllAllowed
    BY DEF Init, Known, AllAllowed, Allowed, Blank
<1>3. ExcessNeedsRace
    <2>1. InFlight = {} /\ projects = {} /\ peak = 0 /\ plan \in held
        BY DEF Init, InFlight
    <2>. QED  BY <2>1, FS_EmptySet DEF ExcessNeedsRace
<1>. QED
    BY <1>1, <1>2, <1>3 DEF PlanInv

\* Every step keeps the types.
LEMMA PlanTypeStep == TypeOK /\ Known /\ [Next]_vars => TypeOK'
<1>. SUFFICES ASSUME TypeOK, Known, [Next]_vars PROVE TypeOK'
    OBVIOUS
<1>. USE DEF Go
<1>1. CASE UNCHANGED vars
    BY <1>1 DEF TypeOK
<1>2. ASSUME NEW r \in Requests, Authenticate(r) PROVE TypeOK'
    BY <1>2 DEF Authenticate, TypeOK
<1>3. ASSUME NEW r \in Requests, CountProjects(r) PROVE TypeOK'
    <2>1. peak' \in Nat
        <3>1. IsFiniteSet(InFlight')
            BY RequestsFinite, FS_Subset DEF InFlight
        <3>. QED  BY <1>3, <3>1, FS_CardinalityType DEF CountProjects, TypeOK
    <2>. QED  BY <1>3, <2>1 DEF CountProjects, TypeOK
<1>4. ASSUME NEW r \in Requests, NEW ttl \in Values, NEW rpm \in Values,
             InsertProject(r, ttl, rpm)
      PROVE  TypeOK'
    <2>1. Effective(planRead[r], "ttl", ttl) \in Nat /\ Effective(planRead[r], "rpm", rpm) \in Nat
        BY <1>4, EffectiveIsAllowed DEF InsertProject, Settings
    <2>2. setting' \in [Requests -> [Settings -> Nat \cup {None}]]
        BY <1>4, <2>1 DEF InsertProject, TypeOK
    <2>3. \A p \in projects' : setting'[p].ttl \in Nat /\ setting'[p].rpm \in Nat
        BY <1>4, <2>1 DEF InsertProject, TypeOK, Settings
    <2>. QED  BY <1>4, <2>2, <2>3 DEF InsertProject, TypeOK
<1>5. ASSUME NEW r \in Requests, NEW p \in Requests, ReadProject(r, p) PROVE TypeOK'
    BY <1>5 DEF ReadProject, TypeOK, Settings
<1>6. ASSUME NEW r \in Requests, NEW fields \in SUBSET {"ttl", "rpm"}, NEW v \in Values,
             UpdateProject(r, fields, v)
      PROVE  TypeOK'
    <2>1. \A f \in fields : Effective(planRead[r], f, v) \in Nat
        <3>1. fields \subseteq Settings
            BY DEF Settings
        <3>2. req[r] \notin {"new", "refused"}
            BY <1>6 DEF UpdateProject
        <3>. QED  BY <3>1, <3>2, EffectiveIsAllowed, Zenon
    <2>2. target[r] \in projects /\ target[r] \in Requests
        BY <1>6 DEF UpdateProject, Known, TypeOK
    <2>3. setting' \in [Requests -> [Settings -> Nat \cup {None}]]
        BY <1>6, <2>1, <2>2 DEF UpdateProject, TypeOK
    <2>4. \A p \in projects' : setting'[p].ttl \in Nat /\ setting'[p].rpm \in Nat
        BY <1>6, <2>1, <2>2 DEF UpdateProject, TypeOK, Settings
    <2>. QED  BY <1>6, <2>3, <2>4 DEF UpdateProject, TypeOK
<1>7. ASSUME NEW r \in Requests, NEW v \in Values, WriteTool(r, v) PROVE TypeOK'
    <2>1. Effective(planRead[r], "timeout", v) \in Nat
        BY <1>7, EffectiveIsAllowed DEF WriteTool, Settings
    <2>2. PICK t \in Nat \cup {None} : setting' = [setting EXCEPT ![target[r]].timeout = t]
        BY <1>7, <2>1 DEF WriteTool, TypeOK
    <2>3. setting' \in [Requests -> [Settings -> Nat \cup {None}]]
        BY <2>2 DEF TypeOK
    <2>4. \A p \in Requests : setting'[p].ttl = setting[p].ttl /\ setting'[p].rpm = setting[p].rpm
        BY <2>2 DEF TypeOK, Settings
    <2>. QED  BY <1>7, <2>3, <2>4 DEF WriteTool, TypeOK
<1>8. ASSUME NEW r \in Requests, NEW v \in Values, InsertKey(r, v) PROVE TypeOK'
    <2>1. Effective(planRead[r], "rpm", v) \in Nat
        BY <1>8, EffectiveIsAllowed DEF InsertKey, Settings
    <2>. QED  BY <1>8, <2>1 DEF InsertKey, TypeOK
<1>9. ASSUME NEW r \in Requests, SoftDelete(r) \/ Stops(r) PROVE TypeOK'
    BY <1>9 DEF SoftDelete, Stops, Known, TypeOK
<1>10. ASSUME NEW p \in Plans, UpdatePlan(p) PROVE TypeOK'
    BY <1>10 DEF UpdatePlan, TypeOK
<1>11. ASSUME NEW b \in BOOLEAN, SetActive(b) PROVE TypeOK'
    BY <1>11 DEF SetActive, TypeOK
<1>. QED
    BY <1>1, <1>2, <1>3, <1>4, <1>5, <1>6, <1>7, <1>8, <1>9, <1>10, <1>11 DEF Next, Request

\* Every step keeps what requests know.
LEMMA KnownStep == TypeOK /\ Known /\ [Next]_vars => Known'
<1>. SUFFICES ASSUME TypeOK, Known, [Next]_vars PROVE Known'
    OBVIOUS
<1>. USE DEF Go, TypeOK, Known
<1>1. CASE UNCHANGED vars
    BY <1>1
<1>2. ASSUME NEW r \in Requests, Authenticate(r) PROVE Known'
    BY <1>2 DEF Authenticate
<1>3. ASSUME NEW r \in Requests, CountProjects(r) PROVE Known'
    BY <1>3 DEF CountProjects
<1>4. ASSUME NEW r \in Requests, NEW ttl \in Values, NEW rpm \in Values,
             InsertProject(r, ttl, rpm)
      PROVE  Known'
    BY <1>4 DEF InsertProject
<1>5. ASSUME NEW r \in Requests, NEW p \in Requests, ReadProject(r, p) PROVE Known'
    BY <1>5 DEF ReadProject
<1>6. ASSUME NEW r \in Requests, NEW fields, NEW v, UpdateProject(r, fields, v) PROVE Known'
    BY <1>6 DEF UpdateProject
<1>7. ASSUME NEW r \in Requests, NEW v, WriteTool(r, v) \/ InsertKey(r, v) PROVE Known'
    BY <1>7 DEF WriteTool, InsertKey
<1>8. ASSUME NEW r \in Requests, SoftDelete(r) \/ Stops(r) PROVE Known'
    BY <1>8 DEF SoftDelete, Stops
<1>9. ASSUME NEW p \in Plans, UpdatePlan(p) PROVE Known'
    BY <1>9 DEF UpdatePlan
<1>10. ASSUME NEW b \in BOOLEAN, SetActive(b) PROVE Known'
    BY <1>10 DEF SetActive
<1>. QED
    BY <1>1, <1>2, <1>3, <1>4, <1>5, <1>6, <1>7, <1>8, <1>9, <1>10 DEF Next, Request

\* Every step keeps to the caps.
LEMMA AllowedStep == TypeOK /\ Known /\ AllAllowed /\ [Next]_vars => AllAllowed'
<1>. SUFFICES ASSUME TypeOK, Known, AllAllowed, [Next]_vars PROVE AllAllowed'
    OBVIOUS
<1>. USE DEF Go, AllAllowed
<1>1. held \subseteq held' /\ \A f, v : Allowed(f, v) => Allowed(f, v)'
    <2>1. held \subseteq held'
        BY DEF Next, Request, Authenticate, CountProjects, InsertProject, ReadProject,
               UpdateProject, WriteTool, InsertKey, SoftDelete, Stops, UpdatePlan, SetActive
    <2>. QED  BY <2>1 DEF Allowed
<1>2. CASE UNCHANGED docVars /\ UNCHANGED toolRead
    BY <1>1, <1>2
<1>3. ASSUME NEW r \in Requests, NEW ttl \in Values, NEW rpm \in Values,
             InsertProject(r, ttl, rpm)
      PROVE  AllAllowed'
    <2>1. /\ Allowed("ttl", Effective(planRead[r], "ttl", ttl))
          /\ Allowed("rpm", Effective(planRead[r], "rpm", rpm))
        BY <1>3, EffectiveIsAllowed DEF InsertProject, Settings
    <2>. QED  BY <1>1, <1>3, <2>1 DEF InsertProject, TypeOK, Settings
<1>4. ASSUME NEW r \in Requests, NEW p \in Requests, ReadProject(r, p) PROVE AllAllowed'
    BY <1>1, <1>4 DEF ReadProject, TypeOK, Settings
<1>5. ASSUME NEW r \in Requests, NEW fields \in SUBSET {"ttl", "rpm"}, NEW v \in Values,
             UpdateProject(r, fields, v)
      PROVE  AllAllowed'
    <2>1. \A f \in fields : Allowed(f, Effective(planRead[r], f, v))
        <3>1. fields \subseteq Settings
            BY DEF Settings
        <3>2. req[r] \notin {"new", "refused"}
            BY <1>5 DEF UpdateProject
        <3>. QED  BY <3>1, <3>2, EffectiveIsAllowed, Zenon
    <2>2. target[r] \in Requests
        BY <1>5 DEF UpdateProject, Known, TypeOK
    <2>. QED  BY <1>1, <1>5, <2>1, <2>2 DEF UpdateProject, TypeOK
<1>6. ASSUME NEW r \in Requests, NEW v \in Values, WriteTool(r, v) PROVE AllAllowed'
    <2>1. Allowed("timeout", Effective(planRead[r], "timeout", v))
        BY <1>6, EffectiveIsAllowed DEF WriteTool, Settings
    <2>2. target[r] \in Requests
        BY <1>6 DEF WriteTool, Known, TypeOK
    <2>. QED  BY <1>1, <1>6, <2>1, <2>2 DEF WriteTool, TypeOK, Settings
<1>7. ASSUME NEW r \in Requests, NEW v \in Values, InsertKey(r, v) PROVE AllAllowed'
    <2>1. Allowed("rpm", Effective(planRead[r], "rpm", v))
        BY <1>7, EffectiveIsAllowed DEF InsertKey, Settings
    <2>. QED  BY <1>1, <1>7, <2>1 DEF InsertKey, TypeOK
<1>8. ASSUME NEW r \in Requests, SoftDelete(r) PROVE AllAllowed'
    BY <1>1, <1>8 DEF SoftDelete
<1>. QED
    BY <1>2, <1>3, <1>4, <1>5, <1>6, <1>7, <1>8
       DEF Next, Request, Authenticate, CountProjects, Stops, UpdatePlan, SetActive

-----------------------------------------------------------------------------

\* Sets of requests have a number of members.
LEMMA RequestsCount ==
    ASSUME NEW S \in SUBSET Requests
    PROVE  IsFiniteSet(S) /\ Cardinality(S) \in Nat
BY RequestsFinite, FS_Subset, FS_CardinalityType

\* The count that a create request takes may be exceeded by those under way
\* only, and the insert moves a request from one summand to the other.
LEMMA ExcessStep == TypeOK /\ TypeOK' /\ Known /\ ExcessNeedsRace /\ [Next]_vars => ExcessNeedsRace'
<1>. SUFFICES ASSUME TypeOK, TypeOK', Known, ExcessNeedsRace, [Next]_vars
              PROVE  ExcessNeedsRace'
    OBVIOUS
<1>. DEFINE Total == Cardinality(projects) + Cardinality(InFlight)
<1>1. /\ IsFiniteSet(projects) /\ Cardinality(projects) \in Nat
      /\ IsFiniteSet(projects') /\ Cardinality(projects') \in Nat
      /\ IsFiniteSet(InFlight) /\ Cardinality(InFlight) \in Nat
      /\ IsFiniteSet(InFlight') /\ Cardinality(InFlight') \in Nat
      /\ peak \in Nat /\ peak' \in Nat
    <2>1. projects \in SUBSET Requests /\ projects' \in SUBSET Requests
        BY DEF TypeOK
    <2>2. InFlight \in SUBSET Requests /\ InFlight' \in SUBSET Requests
        BY DEF InFlight
    <2>. QED  BY <2>1, <2>2, RequestsCount DEF TypeOK
<1>2. held \subseteq held' /\ \A pl \in held' : Limit[pl].projects \in Nat \cup {None}
    <2>1. \A pl \in Plans : Limit[pl].projects \in Nat \cup {None}
        BY LimitsAreNumbers DEF Fields
    <2>2. held \subseteq held'
        BY DEF Next, Request, Authenticate, CountProjects, InsertProject, ReadProject,
               UpdateProject, WriteTool, InsertKey, SoftDelete, Stops, UpdatePlan, SetActive
    <2>. QED  BY <2>1, <2>2 DEF TypeOK
<1>3. ASSUME Total' <= Total, peak <= peak' PROVE ExcessNeedsRace'
    BY <1>1, <1>2, <1>3 DEF ExcessNeedsRace
<1>4. ASSUME projects' = projects, InFlight' \subseteq InFlight, peak' = peak
      PROVE  ExcessNeedsRace'
    <2>1. Cardinality(InFlight') <= Cardinality(InFlight)
        BY <1>1, <1>4, FS_Subset
    <2>. QED  BY <1>1, <1>3, <1>4, <2>1
<1>5. ASSUME NEW r \in Requests, CountProjects(r) PROVE ExcessNeedsRace'
    <2>1. projects' = projects /\ peak <= peak' /\ Cardinality(InFlight') <= peak'
        BY <1>1, <1>5 DEF CountProjects
    <2>2. CASE ~IsWithin(planRead[r], "projects", Cardinality(Listed))
        <3>1. InFlight' \subseteq InFlight
            BY <1>5, <2>2 DEF CountProjects, Go, InFlight, TypeOK
        <3>2. Cardinality(InFlight') <= Cardinality(InFlight)
            BY <1>1, <3>1, FS_Subset
        <3>. QED  BY <1>1, <1>3, <2>1, <3>2
    <2>3. CASE IsWithin(planRead[r], "projects", Cardinality(Listed))
        <3>1. planRead[r] \in held
            BY <1>5 DEF CountProjects, Go, Known
        <3>2. r \in InFlight'
            BY <1>5, <2>3 DEF CountProjects, Go, InFlight, TypeOK
        <3>3. Cardinality(InFlight') # 0
            BY <1>1, <3>2, FS_EmptySet
        <3>4. Limit[planRead[r]].projects = None
              \/ Cardinality(projects) < Limit[planRead[r]].projects
            BY <2>3 DEF IsWithin, Listed
        <3>. QED  BY <1>1, <1>2, <2>1, <3>1, <3>3, <3>4 DEF ExcessNeedsRace
    <2>. QED  BY <2>2, <2>3
<1>6. ASSUME NEW r \in Requests, NEW ttl, NEW rpm, InsertProject(r, ttl, rpm)
      PROVE  ExcessNeedsRace'
    <2>1. r \in InFlight /\ InFlight' = InFlight \ {r}
        BY <1>6 DEF InsertProject, Go, InFlight, TypeOK
    <2>2. Cardinality(InFlight') = Cardinality(InFlight) - 1
        BY <1>1, <2>1, FS_RemoveElement
    <2>3. projects' = projects \cup {r} /\ peak' = peak
        BY <1>6 DEF InsertProject
    <2>4. Cardinality(projects') <= Cardinality(projects) + 1
        BY <1>1, <2>3, FS_AddElement
    <2>. QED  BY <1>1, <1>3, <2>2, <2>3, <2>4
<1>7. ASSUME NEW r \in Requests,
             \/ Authenticate(r) \/ SoftDelete(r) \/ Stops(r)
             \/ \E p \in Requests : ReadProject(r, p)
             \/ \E fields \in SUBSET {"ttl", "rpm"}, v \in Values : UpdateProject(r, fields, v)
             \/ \E v \in Values : WriteTool(r, v) \/ InsertKey(r, v)
      PROVE  ExcessNeedsRace'
    <2>1. projects' = projects /\ peak' = peak
        BY <1>7 DEF Authenticate, SoftDelete, Stops, ReadProject, UpdateProject, WriteTool,
                    InsertKey
    <2>2. InFlight' \subseteq InFlight
        BY <1>7 DEF Authenticate, SoftDelete, Stops, ReadProject, UpdateProject, WriteTool,
                    InsertKey, Go, InFlight, TypeOK
    <2>. QED  BY <1>4, <2>1, <2>2
<1>8. CASE UNCHANGED <<docVars, req, localVars, peak>>
    BY <1>4, <1>8 DEF InFlight
<1>. QED
    BY <1>5, <1>6, <1>7, <1>8 DEF Next, Request, UpdatePlan, SetActive

\* Every step keeps the invariant.
LEMMA PlanStep == PlanInv /\ [Next]_vars => PlanInv'
BY PlanTypeStep, KnownStep, AllowedStep, ExcessStep DEF PlanInv

\* The invariant holds throughout.
THEOREM PlanInvHolds == Spec => []PlanInv
BY PlanInit, PlanStep, PTL DEF Spec

\* Types: in particular every project has a ttl and an rpm, and only projects
\* are soft-deleted.
THEOREM PlanTypeCorrect == Spec => []TypeOK
<1>1. PlanInv => TypeOK
    BY DEF PlanInv
<1>. QED
    BY <1>1, PlanInvHolds, PTL

\* A tenant owns more projects than the best of its plans allowed only when
\* create requests raced between their count and their insert.
THEOREM ExcessOnlyByRace == Spec => []ExcessNeedsRace
<1>1. PlanInv => ExcessNeedsRace
    BY DEF PlanInv
<1>. QED
    BY <1>1, PlanInvHolds, PTL

\* No ttl, rate or timeout is configured above every cap the tenant has had,
\* however stale the plan or the tool a request has read.
THEOREM CapsHeld == Spec => []CapsOfAPlanHeld
<1>1. PlanInv => CapsOfAPlanHeld
    BY DEF PlanInv, TypeOK, AllAllowed, Allowed, CapsOfAPlanHeld
<1>. QED
    BY <1>1, PlanInvHolds, PTL

=============================================================================
