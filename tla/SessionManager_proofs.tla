------------------------ MODULE SessionManager_proofs ------------------------
(* Theorems about SessionManager, for every set of sids, projects and       *)
(* runners and every set of caps.                                           *)
EXTENDS SessionManager, TLAPS, FiniteSetTheorems

USE DEF Walkers, Suspended, Ended, Phases, Live

-----------------------------------------------------------------------------
(* Type correctness.                                                        *)

\* The registry and the lists keep their types when sids are popped.
LEMMA TerminateEachType ==
    ASSUME TypeOK, NEW w \in Walkers, NEW list \in SUBSET Sids,
           TerminateEach(w, list)
    PROVE  TypeOK'
<1>1. UNCHANGED <<sidOf, projectOf, capOf, phase, cancelling, idle, records, closedSent, deaf>>
    BY DEF TerminateEach, runnerVars, closeVars
<1>2. ASSUME NEW S, Pop(S) PROVE registry' \in [Sids -> Runners \cup {None}]
    BY <1>2 DEF Pop, TypeOK
<1>3. CASE \E s \in list : ~NoWait(s) /\ WaitFor(w, s, list)
    <2>1. PICK s \in list : ~NoWait(s) /\ WaitFor(w, s, list)
        BY <1>3
    <2>2. registry[s] \in Runners
        BY <2>1 DEF NoWait, Registered, TypeOK
    <2>3. PICK passed \in SUBSET {t \in list \ {s} : NoWait(t)} :
              /\ Pop(passed \cup {s})
              /\ todo'   = [todo EXCEPT ![w] = list \ (passed \cup {s})]
              /\ target' = [target EXCEPT ![w] = registry[s]]
              /\ pc'     = [pc EXCEPT ![w] = "wait"]
              /\ Signal(registry[s])
        BY <2>1 DEF WaitFor
    <2>4. stopQueued' \in [Runners -> BOOLEAN]
        BY <2>3, <2>2 DEF Signal, TypeOK
    <2>5. registry' \in [Sids -> Runners \cup {None}]
        BY <2>3, <1>2
    <2>6. todo' \in [Walkers -> SUBSET Sids] /\ target' \in [Walkers -> Runners \cup {None}]
        BY <2>3, <2>2 DEF TypeOK
    <2>7. pc' \in [Walkers -> {"up", "join", "stopped", "sleep", "ended", "wait", "await"}]
        BY <2>3 DEF TypeOK
    <2>. QED  BY <1>1, <2>4, <2>5, <2>6, <2>7 DEF TypeOK
<1>4. CASE ListDone(w, list)
    <2>1. registry' \in [Sids -> Runners \cup {None}]
        BY <1>4, <1>2 DEF ListDone
    <2>. QED  BY <1>1, <1>4, <2>1 DEF ListDone, TypeOK
<1>. QED  BY <1>3, <1>4 DEF TerminateEach

\* Every step of a runner keeps the types.
LEMMA RunnerStepType ==
    ASSUME TypeOK, NEW i \in Runners, RunnerStep(i)
    PROVE  TypeOK'
<1>. USE DEF TypeOK, runnerVars, closeVars, walkerVars, MoveTo, Runs
<1>1. CASE Connect(i)       BY <1>1 DEF Connect
<1>2. CASE TakeFrame(i)     BY <1>2 DEF TakeFrame
<1>3. CASE TakeStop(i)      BY <1>3 DEF TakeStop
<1>4. CASE TtlExpires(i)    BY <1>4 DEF TtlExpires
<1>5. CASE EndTurn(i)       BY <1>5 DEF EndTurn
<1>6. CASE Drained(i)       BY <1>6 DEF Drained
<1>7. CASE Disconnected(i)  BY <1>7 DEF Disconnected
<1>8. CASE Saved(i)         BY <1>8 DEF Saved, Insert
<1>9. CASE Cancelled(i)
    <2>1. AfterCancel(phase[i]) \in Phases
        BY <1>9 DEF Cancelled, AfterCancel
    <2>2. records' \in [Sids -> Runners \cup {None}]
        BY <1>9 DEF Cancelled, Insert
    <2>. QED  BY <1>9, <2>1, <2>2 DEF Cancelled
<1>10. CASE OnRunnerDone(i) BY <1>10 DEF OnRunnerDone
<1>11. CASE GrowIdle(i)     BY <1>11 DEF GrowIdle
<1>12. CASE Touch(i)        BY <1>12 DEF Touch
<1>. QED
    BY <1>1, <1>2, <1>3, <1>4, <1>5, <1>6, <1>7, <1>8, <1>9, <1>10, <1>11, <1>12
    DEF RunnerStep

\* Requesting a cancellation of any value keeps the type of the flags.
LEMMA RequestCancelType ==
    ASSUME cancelling \in [Runners -> BOOLEAN], NEW t, RequestCancel(t)
    PROVE  cancelling' \in [Runners -> BOOLEAN]
<1>1. Live(t) \in BOOLEAN
    OBVIOUS
<1>. QED  BY <1>1 DEF RequestCancel

\* One step of the system keeps the types.
LEMMA NextType == TypeOK /\ [Next]_vars => TypeOK'
<1>. SUFFICES ASSUME TypeOK, [Next]_vars PROVE TypeOK'
    OBVIOUS
<1>1. CASE UNCHANGED vars
    BY <1>1 DEF vars, runnerVars, closeVars, walkerVars, TypeOK
<1>2. ASSUME NEW s \in Sids, Resume(s) PROVE TypeOK'
    BY <1>2 DEF Resume, runnerVars, closeVars, walkerVars, TypeOK
<1>3. ASSUME NEW s \in Sids, NEW p \in Projects, NEW c \in Caps, NEW i \in Runners,
             Create(s, p, c, i)
      PROVE  TypeOK'
    BY <1>3 DEF Create, closeVars, walkerVars, TypeOK
<1>4. ASSUME NEW i \in Runners, RunnerStep(i) PROVE TypeOK'
    BY <1>4, RunnerStepType
<1>5. ASSUME NEW w \in Walkers, WaitExpires(w) PROVE TypeOK'
    BY <1>5 DEF WaitExpires, RequestCancel, runnerVars, closeVars, TypeOK
<1>6. ASSUME NEW w \in Walkers, WaitOver(w) PROVE TypeOK'
    <2>1. todo[w] \in SUBSET Sids
        BY DEF TypeOK
    <2>. QED  BY <1>6, <2>1, TerminateEachType DEF WaitOver
<1>7. CASE Sweep
    <2>1. IdleSids \in SUBSET Sids
        BY DEF IdleSids, Registered
    <2>. QED  BY <1>7, <2>1, TerminateEachType DEF Sweep
<1>8. CASE StopRequested
    <2>1. cancelling' = cancelling \/ RequestCancel(target["cleanup"])
        BY <1>8 DEF StopRequested
    <2>1a. cancelling' \in [Runners -> BOOLEAN]
        BY <2>1, RequestCancelType DEF TypeOK
    <2>2. pc' \in [Walkers -> {"up", "join", "stopped", "sleep", "ended", "wait", "await"}]
        BY <1>8 DEF StopRequested, TypeOK
    <2>3. UNCHANGED <<registry, sidOf, projectOf, capOf, phase, stopQueued, idle,
                      records, closedSent, todo, target, deaf>>
        BY <1>8 DEF StopRequested, runnerVars, closeVars
    <2>. QED  BY <2>1a, <2>2, <2>3 DEF TypeOK
<1>9. CASE SweepJoined
    <2>1. Registered \in SUBSET Sids
        BY DEF Registered
    <2>. QED  BY <1>9, <2>1, TerminateEachType DEF SweepJoined
<1>. QED
    BY <1>1, <1>2, <1>3, <1>4, <1>5, <1>6, <1>7, <1>8, <1>9 DEF Next

\* Every reachable state of the registry, the runners and the two walkers has
\* the types of TypeOK.
THEOREM TypeCorrect == Spec => []TypeOK
<1>1. Init => TypeOK
    BY DEF Init, TypeOK
<1>. QED  BY <1>1, NextType, PTL DEF Spec

-----------------------------------------------------------------------------
(* The registry: consistency, the cap, and what can orphan a session.       *)

\* Entries are only removed, never changed.
OnlyRemoves == \A s \in Sids : registry'[s] \in {registry[s], None}

\* A walk over a list only removes entries, and an entry of a live runner
\* only to wait for that runner.
LEMMA TerminateEachRemoves ==
    ASSUME TypeOK, NEW w \in Walkers, NEW list \in SUBSET Sids,
           TerminateEach(w, list)
    PROVE  /\ UNCHANGED <<sidOf, projectOf, capOf, phase>>
           /\ OnlyRemoves
           /\ \A v \in Walkers \ {w} : target'[v] = target[v] /\ pc'[v] = pc[v]
           /\ \A s \in Sids : s \in Registered /\ Live(registry[s]) =>
                 \/ registry'[s] = registry[s]
                 \/ target'[w] = registry[s] /\ pc'[w] = "wait"
<1>1. UNCHANGED <<sidOf, projectOf, capOf, phase>>
    BY DEF TerminateEach, runnerVars
<1>2. CASE \E s \in list : ~NoWait(s) /\ WaitFor(w, s, list)
    <2>1. PICK s \in list : ~NoWait(s) /\ WaitFor(w, s, list)
        BY <1>2
    <2>2. PICK passed \in SUBSET {t \in list \ {s} : NoWait(t)} :
              /\ Pop(passed \cup {s})
              /\ target' = [target EXCEPT ![w] = registry[s]]
              /\ pc'     = [pc EXCEPT ![w] = "wait"]
        BY <2>1 DEF WaitFor
    <2>3. OnlyRemoves
        BY <2>2 DEF Pop, OnlyRemoves
    <2>4. target'[w] = registry[s] /\ pc'[w] = "wait"
        BY <2>2 DEF TypeOK
    <2>5. ASSUME NEW t \in Sids, t \in Registered, Live(registry[t])
          PROVE  registry'[t] = registry[t] \/ t = s
        BY <2>2, <2>5 DEF Pop, NoWait
    <2>6. \A v \in Walkers \ {w} : target'[v] = target[v] /\ pc'[v] = pc[v]
        BY <2>2 DEF TypeOK
    <2>. QED  BY <1>1, <2>3, <2>4, <2>5, <2>6
<1>3. CASE ListDone(w, list)
    <2>1. OnlyRemoves
        BY <1>3 DEF ListDone, Pop, OnlyRemoves
    <2>2. \A v \in Walkers \ {w} : target'[v] = target[v] /\ pc'[v] = pc[v]
        BY <1>3 DEF ListDone, TypeOK
    <2>3. ASSUME NEW t \in Sids, t \in Registered, Live(registry[t])
          PROVE  registry'[t] = registry[t]
        BY <1>3, <2>3 DEF ListDone, Pop, NoWait
    <2>. QED  BY <1>1, <2>1, <2>2, <2>3
<1>. QED  BY <1>2, <1>3 DEF TerminateEach

\* A live runner stays live or ends; nothing brings one back, and a runner is
\* "gone" only through its callback.
LEMMA RunnerStepPhases ==
    ASSUME TypeOK, NEW i \in Runners, RunnerStep(i), ~OnRunnerDone(i)
    PROVE  /\ UNCHANGED <<registry, sidOf, projectOf, capOf, pc, target>>
           /\ Live(i)
           /\ phase'[i] \in Suspended \cup {"done"}
           /\ \A j \in Runners \ {i} : phase'[j] = phase[j]
<1>. USE DEF TypeOK, runnerVars, closeVars, walkerVars, MoveTo, Runs
<1>1. CASE Connect(i)       BY <1>1 DEF Connect
<1>2. CASE TakeFrame(i)     BY <1>2 DEF TakeFrame
<1>3. CASE TakeStop(i)      BY <1>3 DEF TakeStop
<1>4. CASE TtlExpires(i)    BY <1>4 DEF TtlExpires
<1>5. CASE EndTurn(i)       BY <1>5 DEF EndTurn
<1>6. CASE Drained(i)       BY <1>6 DEF Drained
<1>7. CASE Disconnected(i)  BY <1>7 DEF Disconnected
<1>8. CASE Saved(i)         BY <1>8 DEF Saved
<1>9. CASE Cancelled(i)
    <2>1. AfterCancel(phase[i]) \in Suspended \cup {"done"}
        BY <1>9 DEF Cancelled, AfterCancel
    <2>. QED  BY <1>9, <2>1 DEF Cancelled
<1>10. CASE GrowIdle(i)     BY <1>10 DEF GrowIdle
<1>11. CASE Touch(i)        BY <1>11 DEF Touch
<1>. QED
    BY <1>1, <1>2, <1>3, <1>4, <1>5, <1>6, <1>7, <1>8, <1>9, <1>10, <1>11 DEF RunnerStep

\* The registered sessions of a project that were admitted under a cap of c or
\* less.
AdmittedUnder(p, c) == {s \in SessionsOf(p) : capOf[registry[s]] <= c}

\* They are finitely many.
LEMMA AdmittedFinite ==
    ASSUME NEW p, NEW c
    PROVE  /\ IsFiniteSet(AdmittedUnder(p, c))
           /\ IsFiniteSet(SessionsOf(p))
           /\ Cardinality(AdmittedUnder(p, c)) \in Nat
           /\ Cardinality(SessionsOf(p)) \in Nat
           /\ Cardinality(AdmittedUnder(p, c)) <= Cardinality(SessionsOf(p))
<1>1. IsFiniteSet(SessionsOf(p))
    BY SidsFinite, FS_Subset DEF SessionsOf, Registered
<1>2. AdmittedUnder(p, c) \subseteq SessionsOf(p)
    BY DEF AdmittedUnder
<1>. QED  BY <1>1, <1>2, FS_Subset, FS_CardinalityType

\* The cap survives every step that only removes entries.
LEMMA CapKept ==
    ASSUME TypeOK, TypeOK', AdmittedWithinCap, OnlyRemoves,
           projectOf' = projectOf, capOf' = capOf
    PROVE  AdmittedWithinCap'
<1>. SUFFICES ASSUME NEW p \in Projects, NEW c \in Caps
              PROVE  Cardinality(AdmittedUnder(p, c)') <= c
    BY DEF AdmittedWithinCap, AdmittedUnder
<1>1. AdmittedUnder(p, c)' \subseteq AdmittedUnder(p, c)
    BY DEF AdmittedUnder, SessionsOf, Registered, OnlyRemoves
<1>2. IsFiniteSet(AdmittedUnder(p, c)) /\ Cardinality(AdmittedUnder(p, c)) \in Nat
    BY AdmittedFinite
<1>3. /\ Cardinality(AdmittedUnder(p, c)') <= Cardinality(AdmittedUnder(p, c))
      /\ Cardinality(AdmittedUnder(p, c)') \in Nat
    BY <1>1, <1>2, FS_Subset, FS_CardinalityType
<1>4. Cardinality(AdmittedUnder(p, c)) <= c /\ c \in Nat
    BY CapsAreNumbers DEF AdmittedWithinCap, AdmittedUnder
<1>. QED  BY <1>2, <1>3, <1>4

\* Every created runner has a session id.
CreatedHaveSid == \A i \in Runners : phase[i] # "free" => sidOf[i] \in Sids

\* The inductive invariant.
RegistryInv ==
    TypeOK /\ CreatedHaveSid /\ RegistryConsistent /\ AdmittedWithinCap
    /\ OrphanHasPredecessor

\* What the invariant says of one live runner.
Accounted(i) ==
    \/ registry[sidOf[i]] = i
    \/ \E w \in Walkers : pc[w] \in {"wait", "await"} /\ target[w] = i
    \/ \E j \in Runners \ {i} : phase[j] = "gone" /\ sidOf[j] = sidOf[i]

\* A list walk keeps the invariant, provided the walker was not itself waiting
\* for a runner that is still alive.
LEMMA TerminateEachKeeps ==
    ASSUME RegistryInv, TypeOK', NEW w \in Walkers, NEW list \in SUBSET Sids,
           TerminateEach(w, list),
           pc[w] \in {"wait", "await"} => ~Live(target[w])
    PROVE  RegistryInv'
<1>1. /\ UNCHANGED <<sidOf, projectOf, capOf, phase>>
      /\ OnlyRemoves
      /\ \A v \in Walkers \ {w} : target'[v] = target[v] /\ pc'[v] = pc[v]
      /\ \A s \in Sids : s \in Registered /\ Live(registry[s]) =>
            \/ registry'[s] = registry[s]
            \/ target'[w] = registry[s] /\ pc'[w] = "wait"
    BY TerminateEachRemoves DEF RegistryInv
<1>2. CreatedHaveSid'
    BY <1>1 DEF RegistryInv, CreatedHaveSid
<1>3. RegistryConsistent'
    BY <1>1 DEF RegistryInv, RegistryConsistent, Registered, OnlyRemoves
<1>4. AdmittedWithinCap'
    BY <1>1, CapKept DEF RegistryInv
<1>5. ASSUME NEW i \in Runners, Live(i)' PROVE Accounted(i)'
    <2>1. Live(i) /\ Accounted(i) /\ sidOf[i] \in Sids
        BY <1>1, <1>5 DEF RegistryInv, OrphanHasPredecessor, Accounted, CreatedHaveSid
    <2>2. CASE registry[sidOf[i]] = i
        <3>1. sidOf[i] \in Registered
            BY <2>1, <2>2, NoneIsNoRunner DEF Registered
        <3>2. registry'[sidOf[i]] = i \/ (target'[w] = i /\ pc'[w] = "wait")
            BY <1>1, <2>1, <2>2, <3>1
        <3>. QED  BY <1>1, <3>2 DEF Accounted
    <2>3. CASE \E v \in Walkers : pc[v] \in {"wait", "await"} /\ target[v] = i
        <3>1. PICK v \in Walkers : pc[v] \in {"wait", "await"} /\ target[v] = i
            BY <2>3
        <3>2. v # w
            BY <2>1, <3>1
        <3>. QED  BY <1>1, <3>1, <3>2 DEF Accounted
    <2>4. CASE \E j \in Runners \ {i} : phase[j] = "gone" /\ sidOf[j] = sidOf[i]
        BY <1>1, <2>4 DEF Accounted
    <2>. QED  BY <2>1, <2>2, <2>3, <2>4 DEF Accounted
<1>. QED
    BY <1>2, <1>3, <1>4, <1>5 DEF RegistryInv, OrphanHasPredecessor, Accounted

\* A step of a runner's own coroutine keeps the invariant.
LEMMA RunnerStepKeeps ==
    ASSUME RegistryInv, TypeOK', NEW i \in Runners, RunnerStep(i)
    PROVE  RegistryInv'
<1>1. CASE ~OnRunnerDone(i)
    <2>1. /\ UNCHANGED <<registry, sidOf, projectOf, capOf, pc, target>>
          /\ Live(i)
          /\ phase'[i] \in Suspended \cup {"done"}
          /\ \A j \in Runners \ {i} : phase'[j] = phase[j]
        BY <1>1, RunnerStepPhases DEF RegistryInv
    <2>2. CreatedHaveSid'
        BY <2>1 DEF RegistryInv, CreatedHaveSid
    <2>3. RegistryConsistent'
        BY <2>1 DEF RegistryInv, RegistryConsistent, Registered, TypeOK
    <2>4. AdmittedWithinCap'
        BY <2>1, CapKept DEF RegistryInv, OnlyRemoves
    <2>5. ASSUME NEW j \in Runners, Live(j)' PROVE Accounted(j)'
        <3>1. Live(j) /\ Accounted(j)
            BY <2>1, <2>5 DEF RegistryInv, OrphanHasPredecessor, Accounted
        <3>2. ASSUME NEW k \in Runners, phase[k] = "gone" PROVE phase'[k] = "gone"
            BY <2>1, <3>2
        <3>. QED  BY <2>1, <3>1, <3>2 DEF Accounted
    <2>. QED
        BY <2>2, <2>3, <2>4, <2>5 DEF RegistryInv, OrphanHasPredecessor, Accounted
<1>2. CASE OnRunnerDone(i)
    <2>1. /\ UNCHANGED <<sidOf, projectOf, capOf, pc, target>>
          /\ phase[i] = "done"
          /\ phase' = [phase EXCEPT ![i] = "gone"]
          /\ registry' = [registry EXCEPT ![sidOf[i]] = None]
        BY <1>2 DEF OnRunnerDone, runnerVars, walkerVars
    <2>2. CreatedHaveSid'
        BY <2>1 DEF RegistryInv, CreatedHaveSid, TypeOK
    <2>3. OnlyRemoves
        BY <2>1 DEF RegistryInv, TypeOK, OnlyRemoves
    <2>4. RegistryConsistent'
        <3>1. SUFFICES ASSUME NEW s \in Sids, registry'[s] # None
                       PROVE  sidOf[registry'[s]] = s /\ phase'[registry'[s]] \notin {"free", "gone"}
            BY <2>1 DEF RegistryConsistent, Registered
        <3>2. registry'[s] = registry[s] /\ s \in Registered
            BY <2>3, <3>1 DEF OnlyRemoves, Registered
        <3>3. registry[s] \in Runners /\ sidOf[registry[s]] = s
              /\ phase[registry[s]] \notin {"free", "gone"}
            BY <3>2 DEF RegistryInv, RegistryConsistent, Registered, TypeOK
        <3>4. registry[s] # i
            BY <2>1, <3>1, <3>3 DEF RegistryInv, TypeOK
        <3>. QED  BY <2>1, <3>2, <3>3, <3>4 DEF RegistryInv, TypeOK
    <2>5. AdmittedWithinCap'
        BY <2>1, <2>3, CapKept DEF RegistryInv
    <2>6. ASSUME NEW j \in Runners, Live(j)' PROVE Accounted(j)'
        <3>1. j # i /\ Live(j) /\ Accounted(j)
            BY <2>1, <2>6 DEF RegistryInv, OrphanHasPredecessor, Accounted, TypeOK
        <3>2. phase'[i] = "gone"
            BY <2>1 DEF RegistryInv, TypeOK
        <3>3. CASE sidOf[i] = sidOf[j]
            BY <2>1, <3>1, <3>2, <3>3 DEF Accounted
        <3>4. CASE sidOf[i] # sidOf[j]
            <4>1. sidOf[j] \in Sids
                BY <3>1 DEF RegistryInv, CreatedHaveSid
            <4>2. registry'[sidOf[j]] = registry[sidOf[j]]
                BY <2>1, <3>4, <4>1 DEF RegistryInv, TypeOK
            <4>3. ASSUME NEW k \in Runners, phase[k] = "gone" PROVE phase'[k] = "gone"
                BY <2>1, <4>3 DEF RegistryInv, TypeOK
            <4>. QED  BY <2>1, <3>1, <4>2, <4>3 DEF Accounted
        <3>. QED  BY <3>3, <3>4
    <2>. QED
        BY <2>2, <2>4, <2>5, <2>6 DEF RegistryInv, OrphanHasPredecessor, Accounted
<1>. QED  BY <1>1, <1>2

\* get_or_create keeps the invariant: the new runner's entry replaces none,
\* and there was room for it.
LEMMA CreateKeeps ==
    ASSUME RegistryInv, TypeOK', NEW s \in Sids, NEW p \in Projects,
           NEW c \in Caps, NEW i \in Runners, Create(s, p, c, i)
    PROVE  RegistryInv'
<1>. USE DEF RegistryInv, TypeOK
<1>1. /\ registry[s] = None
      /\ phase[i] = "free"
      /\ registry'  = [registry EXCEPT ![s] = i]
      /\ sidOf'     = [sidOf EXCEPT ![i] = s]
      /\ projectOf' = [projectOf EXCEPT ![i] = p]
      /\ capOf'     = [capOf EXCEPT ![i] = c]
      /\ phase'[i] \in {"connecting", "done"}
      /\ \A j \in Runners \ {i} : phase'[j] = phase[j]
      /\ UNCHANGED <<pc, target>>
    BY DEF Create, Registered, walkerVars
<1>2. \A t \in Registered : registry[t] \in Runners /\ registry[t] # i
    BY <1>1 DEF RegistryConsistent, Registered
<1>3. CreatedHaveSid'
    BY <1>1 DEF CreatedHaveSid
<1>4. RegistryConsistent'
    <2>1. SUFFICES ASSUME NEW t \in Sids, registry'[t] # None
                   PROVE  /\ sidOf'[registry'[t]] = t
                          /\ phase'[registry'[t]] \notin {"free", "gone"}
        BY DEF RegistryConsistent, Registered
    <2>2. CASE t = s
        BY <1>1, <2>2
    <2>3. CASE t # s
        <3>1. registry'[t] = registry[t] /\ t \in Registered
            BY <1>1, <2>1, <2>3 DEF Registered
        <3>. QED  BY <1>1, <1>2, <3>1 DEF RegistryConsistent
    <2>. QED  BY <2>2, <2>3
<1>5. AdmittedWithinCap'
    <2>. SUFFICES ASSUME NEW q \in Projects, NEW d \in Caps
                  PROVE  Cardinality(AdmittedUnder(q, d)') <= d
        BY DEF AdmittedWithinCap, AdmittedUnder
    <2>. DEFINE A == AdmittedUnder(q, d)
    <2>1. A' = IF q = p /\ c <= d THEN A \cup {s} ELSE A
        BY <1>1, <1>2, NoneIsNoRunner DEF AdmittedUnder, SessionsOf, Registered
    <2>2. IsFiniteSet(A) /\ Cardinality(A) \in Nat /\ c \in Nat /\ d \in Nat
        BY AdmittedFinite, CapsAreNumbers
    <2>3. CASE q = p /\ c <= d
        <3>1. Cardinality(SessionsOf(q)) < c
            BY <2>3 DEF Create, HasRoom
        <3>2. Cardinality(A) <= Cardinality(SessionsOf(q)) /\ Cardinality(SessionsOf(q)) \in Nat
            BY AdmittedFinite
        <3>3. s \notin A
            BY <1>1 DEF AdmittedUnder, SessionsOf, Registered
        <3>4. Cardinality(A \cup {s}) = Cardinality(A) + 1
            BY <2>2, <3>3, FS_AddElement
        <3>. QED  BY <2>1, <2>2, <2>3, <3>1, <3>2, <3>4
    <2>4. CASE ~(q = p /\ c <= d)
        BY <2>1, <2>4 DEF AdmittedWithinCap, AdmittedUnder
    <2>. QED  BY <2>3, <2>4
<1>6. ASSUME NEW j \in Runners, Live(j)' PROVE Accounted(j)'
    <2>1. CASE j = i
        BY <1>1, <2>1 DEF Accounted
    <2>2. CASE j # i
        <3>1. Live(j) /\ Accounted(j) /\ sidOf'[j] = sidOf[j]
            BY <1>1, <1>6, <2>2 DEF OrphanHasPredecessor, Accounted
        <3>2. registry[sidOf[j]] = j => registry'[sidOf[j]] = j
            BY <1>1, <3>1, NoneIsNoRunner DEF CreatedHaveSid
        <3>3. ASSUME NEW k \in Runners, phase[k] = "gone"
              PROVE  k # i /\ phase'[k] = "gone" /\ sidOf'[k] = sidOf[k]
            BY <1>1, <3>3
        <3>. QED  BY <1>1, <3>1, <3>2, <3>3 DEF Accounted
    <2>. QED  BY <2>1, <2>2
<1>. QED  BY <1>3, <1>4, <1>5, <1>6 DEF OrphanHasPredecessor, Accounted

\* A step that leaves the registry and the runners' phases alone, and lets no
\* walker stop waiting, keeps the invariant.
LEMMA WaitingKeeps ==
    ASSUME RegistryInv, TypeOK',
           UNCHANGED <<registry, sidOf, projectOf, capOf, phase, target>>,
           \A w \in Walkers : pc[w] \in {"wait", "await"} => pc'[w] \in {"wait", "await"}
    PROVE  RegistryInv'
<1>1. CreatedHaveSid' /\ RegistryConsistent'
    BY DEF RegistryInv, CreatedHaveSid, RegistryConsistent, Registered
<1>2. AdmittedWithinCap'
    BY CapKept DEF RegistryInv, OnlyRemoves
<1>3. OrphanHasPredecessor'
    BY DEF RegistryInv, OrphanHasPredecessor
<1>. QED  BY <1>1, <1>2, <1>3 DEF RegistryInv

\* One step of the system keeps the invariant.
LEMMA NextKeeps == RegistryInv /\ [Next]_vars => RegistryInv'
<1>. SUFFICES ASSUME RegistryInv, [Next]_vars PROVE RegistryInv'
    OBVIOUS
<1>. TypeOK'
    BY NextType DEF RegistryInv
<1>1. CASE UNCHANGED vars
    BY <1>1, WaitingKeeps DEF vars, runnerVars, walkerVars
<1>2. ASSUME NEW s \in Sids, Resume(s) PROVE RegistryInv'
    BY <1>2, WaitingKeeps DEF Resume, runnerVars, walkerVars
<1>3. ASSUME NEW s \in Sids, NEW p \in Projects, NEW c \in Caps, NEW i \in Runners,
             Create(s, p, c, i)
      PROVE  RegistryInv'
    BY <1>3, CreateKeeps
<1>4. ASSUME NEW i \in Runners, RunnerStep(i) PROVE RegistryInv'
    BY <1>4, RunnerStepKeeps
<1>5. ASSUME NEW w \in Walkers, WaitExpires(w) PROVE RegistryInv'
    <2>1. \A v \in Walkers : pc[v] \in {"wait", "await"} => pc'[v] \in {"wait", "await"}
        BY <1>5 DEF WaitExpires, RegistryInv, TypeOK
    <2>. QED  BY <1>5, <2>1, WaitingKeeps DEF WaitExpires, runnerVars
<1>6. ASSUME NEW w \in Walkers, WaitOver(w) PROVE RegistryInv'
    <2>1. todo[w] \in SUBSET Sids
        BY DEF RegistryInv, TypeOK
    <2>2. ~Live(target[w])
        BY <1>6 DEF WaitOver, WorkerDone
    <2>. QED  BY <1>6, <2>1, <2>2, TerminateEachKeeps DEF WaitOver
<1>7. CASE Sweep
    <2>1. IdleSids \in SUBSET Sids
        BY DEF IdleSids, Registered
    <2>. QED  BY <1>7, <2>1, TerminateEachKeeps DEF Sweep
<1>8. CASE StopRequested
    <2>1. \A v \in Walkers : pc[v] \in {"wait", "await"} => pc'[v] \in {"wait", "await"}
        BY <1>8 DEF StopRequested, RegistryInv, TypeOK
    <2>. QED  BY <1>8, <2>1, WaitingKeeps DEF StopRequested, runnerVars
<1>9. CASE SweepJoined
    <2>1. Registered \in SUBSET Sids
        BY DEF Registered
    <2>. QED  BY <1>9, <2>1, TerminateEachKeeps DEF SweepJoined
<1>. QED
    BY <1>1, <1>2, <1>3, <1>4, <1>5, <1>6, <1>7, <1>8, <1>9 DEF Next

\* The registry invariant holds initially.
LEMMA InitInv == Init => RegistryInv
<1>. SUFFICES ASSUME Init PROVE RegistryInv
    OBVIOUS
<1>1. TypeOK /\ CreatedHaveSid /\ RegistryConsistent /\ OrphanHasPredecessor
    BY DEF Init, TypeOK, CreatedHaveSid, RegistryConsistent, Registered,
           OrphanHasPredecessor
<1>2. ASSUME NEW p \in Projects, NEW c \in Caps PROVE Cardinality(AdmittedUnder(p, c)) <= c
    <2>1. AdmittedUnder(p, c) = {}
        BY DEF Init, AdmittedUnder, SessionsOf, Registered
    <2>. QED  BY <2>1, FS_EmptySet, CapsAreNumbers
<1>. QED  BY <1>1, <1>2 DEF RegistryInv, AdmittedWithinCap, AdmittedUnder

\* The invariant holds in every reachable state.
LEMMA InvHolds == Spec => []RegistryInv
BY InitInv, NextKeeps, PTL DEF Spec

\* Whatever values the cap of a project takes, and however stale the config of
\* a handshake, the sessions admitted under a cap of c or less never exceed c:
\* for any number of clients and any interleaving of the sweep, the shutdown and
\* the callbacks.
THEOREM CapHolds == Spec => []AdmittedWithinCap
<1>1. RegistryInv => AdmittedWithinCap
    BY DEF RegistryInv
<1>. QED  BY <1>1, InvHolds, PTL

\* Every registry entry is under its runner's own sid and has its callback
\* still to come.
THEOREM RegistryStaysConsistent == Spec => []RegistryConsistent
<1>1. RegistryInv => RegistryConsistent
    BY DEF RegistryInv
<1>. QED  BY <1>1, InvHolds, PTL

\* A live session that is neither registered nor awaited by _terminate has
\* been displaced by the callback of an earlier session with the same sid.
THEOREM OnlySidReuseOrphans == Spec => []OrphanHasPredecessor
<1>1. RegistryInv => OrphanHasPredecessor
    BY DEF RegistryInv
<1>. QED  BY <1>1, InvHolds, PTL

-----------------------------------------------------------------------------
(* The shutdown.                                                            *)

\* Where the two walkers can be, and what stop() has still to go through: it
\* walks once the sweep has ended, and every registered sid is on its list.
StopInv ==
    /\ pc["stop"] \in {"up", "join", "wait", "await", "stopped"}
    /\ pc["cleanup"] \in {"sleep", "wait", "await", "ended"}
    /\ pc["stop"] \in {"wait", "await", "stopped"} => pc["cleanup"] = "ended"
    /\ pc["stop"] \in {"wait", "await"} => Registered \subseteq todo["stop"]
    /\ pc["stop"] = "stopped" => Registered = {}

\* A walk of stop() over all that is registered leaves no entry off its list.
LEMMA StopWalkKeeps ==
    ASSUME TypeOK, NEW list \in SUBSET Sids, TerminateEach("stop", list),
           Registered \subseteq list, pc["cleanup"] = "ended"
    PROVE  StopInv'
<1>1. ASSUME NEW S, Pop(S) PROVE Registered' = Registered \ S
    BY <1>1 DEF Pop, Registered
<1>2. CASE \E s \in list : ~NoWait(s) /\ WaitFor("stop", s, list)
    <2>1. PICK s \in list, passed \in SUBSET {t \in list : NoWait(t)} :
              /\ Pop(passed \cup {s})
              /\ todo' = [todo EXCEPT !["stop"] = list \ (passed \cup {s})]
              /\ pc'   = [pc EXCEPT !["stop"] = "wait"]
        BY <1>2 DEF WaitFor
    <2>2. Registered' \subseteq todo'["stop"]
        BY <1>1, <2>1 DEF TypeOK
    <2>. QED  BY <2>1, <2>2 DEF StopInv, TypeOK
<1>3. CASE ListDone("stop", list)
    <2>1. Registered' = {}
        BY <1>1, <1>3 DEF ListDone
    <2>2. pc'["stop"] = "stopped" /\ pc'["cleanup"] = "ended"
        BY <1>3 DEF ListDone, TypeOK
    <2>. QED  BY <2>1, <2>2 DEF StopInv
<1>. QED  BY <1>2, <1>3 DEF TerminateEach

\* A walk of the sweep happens before that of stop().
LEMMA SweepWalkKeeps ==
    ASSUME TypeOK, StopInv, NEW list, TerminateEach("cleanup", list),
           pc["cleanup"] # "ended"
    PROVE  StopInv'
<1>1. pc["stop"] \in {"up", "join"}
    BY DEF StopInv
<1>2. pc'["stop"] = pc["stop"] /\ pc'["cleanup"] \in {"wait", "sleep"}
    BY DEF TerminateEach, WaitFor, ListDone, TypeOK
<1>. QED  BY <1>1, <1>2 DEF StopInv

\* No step but a creation adds an entry, and creations are over once stop()
\* has begun.
LEMMA NextStopKeeps == RegistryInv /\ StopInv /\ [Next]_vars => StopInv'
<1>. SUFFICES ASSUME RegistryInv, StopInv, [Next]_vars PROVE StopInv'
    OBVIOUS
<1>. TypeOK
    BY DEF RegistryInv
<1>1. ASSUME OnlyRemoves, UNCHANGED <<pc, todo>> PROVE StopInv'
    <2>1. Registered' \subseteq Registered
        BY <1>1 DEF OnlyRemoves, Registered
    <2>. QED  BY <1>1, <2>1 DEF StopInv
<1>2. CASE UNCHANGED vars
    BY <1>1, <1>2 DEF vars, walkerVars, OnlyRemoves
<1>3. ASSUME NEW s \in Sids, Resume(s) PROVE StopInv'
    BY <1>1, <1>3 DEF Resume, walkerVars, OnlyRemoves
<1>4. ASSUME NEW s \in Sids, NEW p \in Projects, NEW c \in Caps, NEW i \in Runners,
             Create(s, p, c, i)
      PROVE  StopInv'
    BY <1>4 DEF Create, walkerVars, StopInv
<1>5. ASSUME NEW i \in Runners, RunnerStep(i) PROVE StopInv'
    <2>1. UNCHANGED <<pc, todo>>
        BY <1>5 DEF RunnerStep, Connect, TakeFrame, TakeStop, TtlExpires, EndTurn, Drained,
                    Disconnected, Saved, Cancelled, OnRunnerDone, GrowIdle, Touch, MoveTo,
                    walkerVars
    <2>2. CASE OnRunnerDone(i)
        BY <1>1, <2>1, <2>2 DEF OnRunnerDone, OnlyRemoves, TypeOK
    <2>3. CASE ~OnRunnerDone(i)
        BY <1>1, <1>5, <2>1, <2>3, RunnerStepPhases DEF OnlyRemoves
    <2>. QED  BY <2>2, <2>3
<1>6. ASSUME NEW w \in Walkers, WaitExpires(w) PROVE StopInv'
    <2>1. /\ UNCHANGED <<registry, todo>>
          /\ pc[w] = "wait" /\ pc' = [pc EXCEPT ![w] = "await"]
        BY <1>6 DEF WaitExpires
    <2>. QED  BY <2>1 DEF StopInv, Registered, TypeOK
<1>7. ASSUME NEW w \in Walkers, WaitOver(w) PROVE StopInv'
    <2>1. TerminateEach(w, todo[w]) /\ pc[w] \in {"wait", "await"} /\ todo[w] \in SUBSET Sids
        BY <1>7 DEF WaitOver, TypeOK
    <2>2. CASE w = "stop"
        BY <2>1, <2>2, StopWalkKeeps DEF StopInv
    <2>3. CASE w = "cleanup"
        BY <2>1, <2>3, SweepWalkKeeps
    <2>. QED  BY <2>2, <2>3
<1>8. CASE Sweep
    BY <1>8, SweepWalkKeeps DEF Sweep
<1>9. CASE StopRequested
    BY <1>9 DEF StopRequested, StopInv, TypeOK
<1>10. CASE SweepJoined
    <2>1. Registered \in SUBSET Sids
        BY DEF Registered
    <2>. QED  BY <1>10, <2>1, StopWalkKeeps DEF SweepJoined
<1>. QED
    BY <1>2, <1>3, <1>4, <1>5, <1>6, <1>7, <1>8, <1>9, <1>10 DEF Next

\* A session that is still running when stop() returns has lost its entry to
\* the callback of an earlier session with its sid: stop() misses no other.
THEOREM StopMissesOnlyDisplaced == Spec => []StopLeavesOnlyDisplaced
<1>1. Init => StopInv
    BY DEF Init, StopInv
<1>2. ASSUME RegistryInv, StopInv PROVE StopLeavesOnlyDisplaced
    <2>. SUFFICES ASSUME pc["stop"] = "stopped", NEW i \in Runners, Live(i)
                  PROVE  \E j \in Runners \ {i} : phase[j] = "gone" /\ sidOf[j] = sidOf[i]
        BY DEF StopLeavesOnlyDisplaced
    <2>1. Registered = {} /\ pc["cleanup"] = "ended"
        BY <1>2 DEF StopInv
    <2>2. registry[sidOf[i]] # i
        BY <1>2, <2>1, NoneIsNoRunner DEF RegistryInv, CreatedHaveSid, Registered
    <2>. QED  BY <1>2, <2>1, <2>2 DEF RegistryInv, OrphanHasPredecessor
<1>. QED  BY <1>1, <1>2, NextStopKeeps, InvHolds, PTL DEF Spec

-----------------------------------------------------------------------------
(* Documents of sessions.                                                   *)

\* Documents are filed under the sid of the runner that wrote them, and only
\* runners that have been created write or announce anything.
Filed ==
    /\ \A s \in Sids : records[s] # None =>
         sidOf[records[s]] = s /\ phase[records[s]] # "free"
    /\ \A i \in Runners : closedSent[i] => phase[i] # "free"

\* What a step may do to the documents and the announcements: Saved writes and
\* announces, a cancellation that finds the insert under way may write.
LEMMA WhoWrites ==
    ASSUME RegistryInv, [Next]_vars
    PROVE  \/ UNCHANGED <<records, closedSent>>
           \/ \E i \in Runners : Saved(i) \/ Cancelled(i)
BY DEF Next, vars, runnerVars, closeVars, walkerVars, Resume, Create, RunnerStep, Connect,
       TakeFrame, TakeStop, TtlExpires, EndTurn, Drained, Disconnected, OnRunnerDone, GrowIdle,
       Touch, MoveTo, WaitExpires, WaitOver, Sweep, StopRequested, SweepJoined, TerminateEach

\* What a writing step writes: nothing, or a document of its own where there was
\* none; what is announced has been written unless the insert raised.
LEMMA WhatIsWritten ==
    ASSUME RegistryInv, NEW i \in Runners, Saved(i) \/ Cancelled(i)
    PROVE  /\ sidOf[i] \in Sids /\ phase[i] # "free" /\ phase'[i] # "free"
           /\ \A j \in Runners : j # i => phase'[j] = phase[j]
           /\ sidOf' = sidOf
           /\ records' = records \/ records' = Insert(i)
           /\ \/ closedSent' = closedSent
              \/ /\ closedSent' = [closedSent EXCEPT ![i] = TRUE]
                 /\ sidOf[i] \notin Unreliable => records' = Insert(i)
<1>1. sidOf[i] \in Sids /\ phase[i] # "free" /\ TypeOK
    BY DEF RegistryInv, CreatedHaveSid, TypeOK, Saved, Cancelled, Runs
<1>2. phase'[i] # "free" /\ \A j \in Runners : j # i => phase'[j] = phase[j]
    BY <1>1 DEF TypeOK, Saved, Cancelled, AfterCancel
<1>. QED
    BY <1>1, <1>2 DEF Saved, Cancelled, runnerVars

\* Every step keeps documents filed and announcements recorded.
LEMMA FiledStep ==
    RegistryInv /\ Filed /\ AnnouncedIsRecorded /\ [Next]_vars => Filed' /\ AnnouncedIsRecorded'
<1>. SUFFICES ASSUME RegistryInv, Filed, AnnouncedIsRecorded, [Next]_vars
              PROVE  Filed' /\ AnnouncedIsRecorded'
    OBVIOUS
<1>1. TypeOK /\ \A i \in Runners : phase[i] # "free" => sidOf[i] \in Sids
    BY DEF RegistryInv, CreatedHaveSid
<1>2. CASE UNCHANGED <<records, closedSent>>
    <2>1. \A i \in Runners : phase[i] # "free" => phase'[i] # "free" /\ sidOf'[i] = sidOf[i]
        BY <1>1
           DEF TypeOK, Next, vars, runnerVars, closeVars, walkerVars, Resume, Create, RunnerStep,
               Connect, TakeFrame, TakeStop, TtlExpires, EndTurn, Drained, Disconnected, Saved,
               Cancelled, AfterCancel, OnRunnerDone, GrowIdle, Touch, MoveTo, WaitExpires,
               WaitOver, Sweep, StopRequested, SweepJoined, TerminateEach
    <2>. QED  BY <1>1, <1>2, <2>1 DEF TypeOK, Filed, AnnouncedIsRecorded
<1>3. ASSUME NEW i \in Runners, Saved(i) \/ Cancelled(i)
      PROVE  Filed' /\ AnnouncedIsRecorded'
    <2>1. Filed'
        BY <1>1, <1>3, WhatIsWritten DEF TypeOK, Filed, Insert
    <2>2. ASSUME NEW j \in Runners, closedSent'[j], sidOf[j] \notin Unreliable
          PROVE  sidOf[j] \in Sids /\ records'[sidOf[j]] # None
        <3>1. \A s \in Sids : records[s] # None => records'[s] # None
            BY <1>1, <1>3, WhatIsWritten DEF TypeOK, Insert
        <3>2. CASE closedSent[j]
            BY <1>1, <2>2, <3>1, <3>2 DEF Filed, AnnouncedIsRecorded
        <3>3. CASE ~closedSent[j]
            <4>1. j = i /\ sidOf[i] \in Sids /\ records' = Insert(i)
                BY <1>1, <1>3, <2>2, <3>3, WhatIsWritten DEF TypeOK
            <4>. QED  BY <1>1, <4>1, NoneIsNoRunner DEF TypeOK, Insert
        <3>. QED  BY <3>2, <3>3
    <2>3. sidOf' = sidOf
        BY <1>3, WhatIsWritten
    <2>. QED  BY <2>1, <2>2, <2>3 DEF Filed, AnnouncedIsRecorded
<1>. QED
    BY <1>2, <1>3, WhoWrites

\* Documents are filed, and announcements recorded, in every reachable state.
LEMMA FiledHolds == Spec => [](Filed /\ AnnouncedIsRecorded)
<1>1. Init => Filed /\ AnnouncedIsRecorded
    BY DEF Init, Filed, AnnouncedIsRecorded
<1>. QED
    BY <1>1, FiledStep, InvHolds, PTL DEF Spec

\* A session whose close was announced has left a document under its sid, its
\* own or one of an earlier session of that sid, unless its insert may raise.
THEOREM CloseIsRecorded == Spec => []AnnouncedIsRecorded
BY FiledHolds, PTL

=============================================================================
