--------------------------- MODULE SessionManager ---------------------------
(***************************************************************************)
(* The in-process registry of live Gemini sessions (core/session_manager)  *)
(* together with the life of each session_runner task (core/gemini_runner),*)
(* the idle sweep and the shutdown path.                                   *)
(*                                                                         *)
(* asyncio is single threaded: one action is the code between two points   *)
(* where a coroutine really suspends.  No critical section of the manager  *)
(* awaits, so its lock is never contended and needs no variable.           *)
(***************************************************************************)
EXTENDS Naturals, FiniteSets

CONSTANTS
    Sids,            \* session ids (chosen by clients, so they can be reused)
    Projects,        \* project ids
    Runners,         \* SessionState objects and their runner tasks (a bound)
    Caps,            \* values max_concurrent_sessions is edited to (PATCH)
    Unreliable,      \* sids whose insert into db.sessions may raise
    InboxMayFill,    \* whether an inbox may hold 512 frames when STOP is put
    None             \* no runner

ASSUME SidsFinite == IsFiniteSet(Sids)
ASSUME CapsAreNumbers == Caps \subseteq Nat
ASSUME NoneIsNoRunner == None \notin Runners
ASSUME EnvironmentSwitches == Unreliable \subseteq Sids /\ InboxMayFill \in BOOLEAN

VARIABLES
    registry,     \* _sessions: sid -> registered runner, or None
    sidOf,        \* state.session_id of each runner (None before creation)
    projectOf,    \* state.project_id of each runner (None before creation)
    capOf,        \* max_concurrent_sessions of the config it was created with
    phase,        \* where each session_runner task is suspended
    cancelling,   \* task.cancel() requested and not yet delivered
    stopQueued,   \* a STOP frame is in the inbox
    idle,         \* state.is_idle(300)
    records,      \* db.sessions: _id -> runner that wrote the document
    closedSent,   \* closed event, session_ended and _OUTBOX_STOP were issued
    pc,           \* where the sweep and the shutdown coroutines are
    todo,         \* sids each of them has still to _terminate
    target,       \* runner each of them is waiting for inside _terminate
    deaf          \* auxiliary: runners that swallowed a cancellation

runnerVars  == <<sidOf, projectOf, capOf>>
closeVars   == <<records, closedSent>>
walkerVars  == <<pc, todo, target>>
vars == <<registry, runnerVars, phase, cancelling, stopQueued, idle,
          closeVars, walkerVars, deaf>>

Walkers == {"cleanup", "stop"}

(* "serving" awaits inbox.get, "turn" awaits Gemini, "draining" awaits the  *)
(* receive task it has just cancelled, "exiting" awaits the close of the    *)
(* Gemini connection, "saving" awaits close_session; "done" is a finished   *)
(* task whose callback has not run, "gone" one whose callback has.          *)
Suspended == {"connecting", "serving", "turn", "draining", "exiting", "saving"}
Ended     == {"done", "gone"}
Phases    == {"free"} \cup Suspended \cup Ended

Live(i)    == phase[i] \in Suspended
Registered == {s \in Sids : registry[s] # None}
SessionsOf(p) == {s \in Registered : projectOf[registry[s]] = p}

Init ==
    /\ registry   = [s \in Sids |-> None]
    /\ sidOf      = [i \in Runners |-> None]
    /\ projectOf  = [i \in Runners |-> None]
    /\ capOf      = [i \in Runners |-> None]
    /\ phase      = [i \in Runners |-> "free"]
    /\ cancelling = [i \in Runners |-> FALSE]
    /\ stopQueued = [i \in Runners |-> FALSE]
    /\ idle       = [i \in Runners |-> FALSE]
    /\ records    = [s \in Sids |-> None]
    /\ closedSent = [i \in Runners |-> FALSE]
    /\ pc         = [w \in Walkers |-> IF w = "cleanup" THEN "sleep" ELSE "up"]
    /\ todo       = [w \in Walkers |-> {}]
    /\ target     = [w \in Walkers |-> None]
    /\ deaf       = {}

-----------------------------------------------------------------------------
(* get_or_create.  A refused request (MaxSessionsExceededError) changes     *)
(* nothing.  The cap is that of the config the handshake resolved, possibly *)
(* from the cache: PATCH edits it at any time, so any of Caps may come with *)
(* any request, and nothing looks at the sessions already registered.  The  *)
(* config stays the runner's own (capOf).                                   *)
(* The HTTP server stops accepting before the lifespan shutdown            *)
(* calls stop(), hence the guard on pc["stop"].  The runner's first step, up *)
(* to its first await, needs nothing and is part of Create: a rejected      *)
(* config makes build_gemini_config raise before the try block, and the     *)
(* task is done without having run any finally block.                       *)

MutantRoomOffByOne(p, c) == Cardinality(SessionsOf(p)) <= c
HasRoom(p, c) == Cardinality(SessionsOf(p)) < c

Resume(s) ==
    /\ pc["stop"] = "up"
    /\ s \in Registered
    /\ idle' = [idle EXCEPT ![registry[s]] = FALSE]
    /\ UNCHANGED <<registry, runnerVars, phase, cancelling, stopQueued,
                   closeVars, walkerVars, deaf>>

Create(s, p, c, i) ==
    /\ pc["stop"] = "up"
    /\ s \notin Registered
    /\ HasRoom(p, c)
    /\ phase[i] = "free"
    /\ registry'  = [registry EXCEPT ![s] = i]
    /\ sidOf'     = [sidOf EXCEPT ![i] = s]
    /\ projectOf' = [projectOf EXCEPT ![i] = p]
    /\ capOf'     = [capOf EXCEPT ![i] = c]
    /\ \E ph \in {"connecting", "done"} : phase' = [phase EXCEPT ![i] = ph]
    /\ UNCHANGED <<cancelling, stopQueued, idle, closeVars, walkerVars, deaf>>

-----------------------------------------------------------------------------
(* The session_runner task.  A pending cancellation is delivered before the *)
(* task takes any other step.                                               *)

Runs(i, ph) == phase[i] = ph /\ ~cancelling[i]

MoveTo(i, ph) ==
    /\ phase' = [phase EXCEPT ![i] = ph]
    /\ UNCHANGED <<registry, runnerVars, cancelling, closeVars, walkerVars, deaf>>

\* live.connect returns, or raises and control passes to the finally block.
Connect(i) ==
    /\ Runs(i, "connecting")
    /\ \E ph \in {"serving", "saving"} : MoveTo(i, ph)
    /\ UNCHANGED <<stopQueued, idle>>

\* A client frame ahead of any STOP: a control frame or failed send returns
\* to the loop, text and voice_end wait for Gemini, voice_start may first
\* have to cancel a lingering receive task.
TakeFrame(i) ==
    /\ Runs(i, "serving")
    /\ \E ph \in {"serving", "turn", "draining"} : MoveTo(i, ph)
    /\ idle' = [idle EXCEPT ![i] = FALSE]
    /\ UNCHANGED stopQueued

TakeStop(i) ==
    /\ Runs(i, "serving")
    /\ stopQueued[i]
    /\ MoveTo(i, "exiting")
    /\ stopQueued' = [stopQueued EXCEPT ![i] = FALSE]
    /\ idle' = [idle EXCEPT ![i] = FALSE]

\* wait_for(inbox.get(), session_ttl_seconds) expires on an empty inbox.
TtlExpires(i) ==
    /\ Runs(i, "serving")
    /\ ~stopQueued[i]
    /\ MoveTo(i, "exiting")
    /\ UNCHANGED <<stopQueued, idle>>

\* The turn completes, or the Gemini stream ended and the loop breaks; nothing
\* bounds how long that takes.
EndTurn(i) ==
    /\ Runs(i, "turn")
    /\ \E ph \in {"serving", "exiting"} : MoveTo(i, ph)
    /\ UNCHANGED <<stopQueued, idle>>

Drained(i) ==
    /\ Runs(i, "draining")
    /\ MoveTo(i, "serving")
    /\ UNCHANGED <<stopQueued, idle>>

Disconnected(i) ==
    /\ Runs(i, "exiting")
    /\ MoveTo(i, "saving")
    /\ UNCHANGED <<stopQueued, idle>>

(* close_session inserts {_id: sid}; a duplicate key and any other error    *)
(* are both swallowed.  What follows in the finally block never suspends:   *)
(* the closed event is launched, session_ended and _OUTBOX_STOP are put.    *)

MutantInsertFirstOnly(i) ==
    IF \A s \in Sids : records[s] = None THEN [records EXCEPT ![sidOf[i]] = i]
                                        ELSE records
Insert(i) ==
    IF records[sidOf[i]] = None THEN [records EXCEPT ![sidOf[i]] = i]
                                ELSE records

Saved(i) ==
    /\ Runs(i, "saving")
    /\ phase' = [phase EXCEPT ![i] = "done"]
    /\ \/ records' = Insert(i)
       \/ sidOf[i] \in Unreliable /\ records' = records
    /\ closedSent' = [closedSent EXCEPT ![i] = TRUE]
    /\ UNCHANGED <<registry, runnerVars, cancelling, stopQueued, idle, walkerVars, deaf>>

\* Where a delivered CancelledError leaves the task: a connected session is
\* closed first; while a receive task is drained the exception is swallowed;
\* inside the finally block it ends the task.
MutantAfterCancel(ph) ==
    CASE ph \in {"serving", "turn"}        -> "exiting"
      [] ph \in {"connecting", "exiting"}  -> "saving"
      [] ph = "draining"                   -> "serving"
      [] ph = "saving"                     -> "closed"

AfterCancel(ph) ==
    CASE ph \in {"serving", "turn"}        -> "exiting"
      [] ph \in {"connecting", "exiting"}  -> "saving"
      [] ph = "draining"                   -> "serving"
      [] ph = "saving"                     -> "done"

\* A cancelled insert may or may not have reached the collection.
Cancelled(i) ==
    /\ Live(i)
    /\ cancelling[i]
    /\ phase' = [phase EXCEPT ![i] = AfterCancel(phase[i])]
    /\ cancelling' = [cancelling EXCEPT ![i] = FALSE]
    /\ records' \in (IF phase[i] = "saving" THEN {records, Insert(i)} ELSE {records})
    /\ deaf' = IF phase[i] = "draining" THEN deaf \cup {i} ELSE deaf
    /\ UNCHANGED <<registry, runnerVars, stopQueued, idle, closedSent, walkerVars>>

\* _on_runner_done pops whatever is registered under the runner's sid.
MutantOnRunnerDone(i) ==
    /\ phase[i] = "done"
    /\ phase' = [phase EXCEPT ![i] = "gone"]
    /\ UNCHANGED <<registry, runnerVars, cancelling, stopQueued, idle,
                   closeVars, walkerVars, deaf>>

OnRunnerDone(i) ==
    /\ phase[i] = "done"
    /\ phase' = [phase EXCEPT ![i] = "gone"]
    /\ registry' = [registry EXCEPT ![sidOf[i]] = None]
    /\ UNCHANGED <<runnerVars, cancelling, stopQueued, idle, closeVars, walkerVars, deaf>>

\* Five minutes without a frame or a resume; only the sweep reads the age,
\* and only of a registered session.  Connecting and closing never take
\* that long.
GrowIdle(i) ==
    /\ phase[i] \in {"serving", "turn"}
    /\ registry[sidOf[i]] = i
    /\ idle' = [idle EXCEPT ![i] = TRUE]
    /\ UNCHANGED <<registry, runnerVars, phase, cancelling, stopQueued,
                   closeVars, walkerVars, deaf>>

\* The client side queues a frame (api/chat), even while a turn is awaited.
Touch(i) ==
    /\ Live(i)
    /\ idle' = [idle EXCEPT ![i] = FALSE]
    /\ UNCHANGED <<registry, runnerVars, phase, cancelling, stopQueued,
                   closeVars, walkerVars, deaf>>

-----------------------------------------------------------------------------
(* _terminate, run for each sid of a list by the idle sweep and by stop().  *)
(* Sids that need no wait (unregistered, or the task has finished) are      *)
(* passed without suspending; the first live one is popped, gets a STOP     *)
(* frame unless its inbox is full, and is waited for.                       *)

NoWait(s) == s \in Registered => phase[registry[s]] \in Ended

Pop(S) == registry' = [s \in Sids |-> IF s \in S THEN None ELSE registry[s]]

Signal(i) ==
    \/ stopQueued' = [stopQueued EXCEPT ![i] = TRUE]
    \/ InboxMayFill /\ stopQueued' = stopQueued

WaitFor(w, s, list) ==
    \E passed \in SUBSET {t \in list \ {s} : NoWait(t)} :
        /\ Pop(passed \cup {s})
        /\ todo'   = [todo EXCEPT ![w] = list \ (passed \cup {s})]
        /\ target' = [target EXCEPT ![w] = registry[s]]
        /\ pc'     = [pc EXCEPT ![w] = "wait"]
        /\ Signal(registry[s])

ListDone(w, list) ==
    /\ \A s \in list : NoWait(s)
    /\ Pop(list)
    /\ todo'   = [todo EXCEPT ![w] = {}]
    /\ target' = [target EXCEPT ![w] = None]
    /\ pc'     = [pc EXCEPT ![w] = IF w = "cleanup" THEN "sleep" ELSE "stopped"]
    /\ UNCHANGED stopQueued

TerminateEach(w, list) ==
    /\ \/ \E s \in list : ~NoWait(s) /\ WaitFor(w, s, list)
       \/ ListDone(w, list)
    /\ UNCHANGED <<runnerVars, phase, cancelling, idle, closeVars, deaf>>

\* task.cancel() does nothing to a finished task.
RequestCancel(i) == cancelling' = [cancelling EXCEPT ![i] = Live(i)]

\* wait_for(shield(worker), 2.0) times out: cancel the worker and wait on.
MutantWaitExpires(w) ==
    /\ pc[w] = "wait"
    /\ Live(target[w])
    /\ pc' = [pc EXCEPT ![w] = "await"]
    /\ UNCHANGED <<registry, runnerVars, phase, cancelling, stopQueued, idle,
                   closeVars, todo, target, deaf>>

WaitExpires(w) ==
    /\ pc[w] = "wait"
    /\ Live(target[w])
    /\ RequestCancel(target[w])
    /\ pc' = [pc EXCEPT ![w] = "await"]
    /\ UNCHANGED <<registry, runnerVars, phase, stopQueued, idle, closeVars,
                   todo, target, deaf>>

\* The worker being waited for has finished; go on with the list.
MutantWorkerDone(w) == phase[target[w]] \in Ended \/ pc[w] = "await"
WorkerDone(w) == phase[target[w]] \in Ended

WaitOver(w) ==
    /\ pc[w] \in {"wait", "await"}
    /\ WorkerDone(w)
    /\ TerminateEach(w, todo[w])

\* One round of _cleanup_loop: the idle sids are collected once, and
\* terminated one after the other however long that takes.
IdleSids == {s \in Registered : idle[registry[s]]}

Sweep ==
    /\ pc["cleanup"] = "sleep"
    /\ TerminateEach("cleanup", IdleSids)

\* stop() cancels the sweep.  Asleep, the sweep ends; inside _terminate the
\* CancelledError is swallowed there, after reaching the worker.
StopRequested ==
    /\ pc["stop"] = "up"
    /\ \/ /\ pc["cleanup"] = "sleep"
          /\ pc' = [pc EXCEPT !["stop"] = "join", !["cleanup"] = "ended"]
          /\ UNCHANGED cancelling
       \/ /\ pc["cleanup"] # "sleep"
          /\ pc' = [pc EXCEPT !["stop"] = "join", !["cleanup"] = "await"]
          /\ RequestCancel(target["cleanup"])
    /\ UNCHANGED <<registry, runnerVars, phase, stopQueued, idle, closeVars,
                   todo, target, deaf>>

\* stop() has awaited the sweep; it terminates what is registered now.
MutantSweepJoined ==
    /\ pc["stop"] = "join"
    /\ pc["cleanup"] = "ended"
    /\ TerminateEach("stop", IdleSids)

SweepJoined ==
    /\ pc["stop"] = "join"
    /\ pc["cleanup"] = "ended"
    /\ TerminateEach("stop", Registered)

-----------------------------------------------------------------------------
RunnerStep(i) ==
    \/ Connect(i)
    \/ TakeFrame(i) \/ TakeStop(i) \/ TtlExpires(i)
    \/ EndTurn(i) \/ Drained(i)
    \/ Disconnected(i) \/ Saved(i) \/ Cancelled(i)
    \/ OnRunnerDone(i) \/ GrowIdle(i) \/ Touch(i)

Next ==
    \/ \E s \in Sids : Resume(s)
    \/ \E s \in Sids, p \in Projects, c \in Caps, i \in Runners : Create(s, p, c, i)
    \/ \E i \in Runners : RunnerStep(i)
    \/ \E w \in Walkers : WaitExpires(w) \/ WaitOver(w)
    \/ Sweep
    \/ StopRequested
    \/ SweepJoined

Spec == Init /\ [][Next]_vars

(* Fairness.  The event loop runs every ready coroutine and fires every     *)
(* timer, so the steps of the walkers are weakly fair, and so are the steps *)
(* of a runner that end without anybody's help: a cancellation is           *)
(* delivered, a cancelled receive task ends at its next await, the close of *)
(* a websocket has a timeout.  The database is assumed to answer or to      *)
(* fail.  The inbox is a FIFO queue with finitely many frames ahead of a    *)
(* STOP, so taking it is strongly fair.  Connect and EndTurn have none: the *)
(* code waits for Gemini without a timeout.  Clients owe nothing, nor does  *)
(* the clock owe a session its idleness.                                    *)
Fairness ==
    /\ \A i \in Runners :
        /\ WF_vars(Drained(i)) /\ WF_vars(Disconnected(i)) /\ WF_vars(Saved(i))
        /\ WF_vars(Cancelled(i)) /\ WF_vars(OnRunnerDone(i))
        /\ SF_vars(TakeStop(i))
    /\ \A w \in Walkers : WF_vars(WaitExpires(w)) /\ WF_vars(WaitOver(w))
    /\ WF_vars(Sweep) /\ WF_vars(SweepJoined)

FairSpec == Spec /\ Fairness

-----------------------------------------------------------------------------
(* Properties.                                                              *)

\* The values the variables take.
TypeOK ==
    /\ registry   \in [Sids -> Runners \cup {None}]
    /\ sidOf      \in [Runners -> Sids \cup {None}]
    /\ projectOf  \in [Runners -> Projects \cup {None}]
    /\ capOf      \in [Runners -> Caps \cup {None}]
    /\ phase      \in [Runners -> Phases]
    /\ cancelling \in [Runners -> BOOLEAN]
    /\ stopQueued \in [Runners -> BOOLEAN]
    /\ idle       \in [Runners -> BOOLEAN]
    /\ records    \in [Sids -> Runners \cup {None}]
    /\ closedSent \in [Runners -> BOOLEAN]
    /\ pc         \in [Walkers -> {"up", "join", "stopped", "sleep", "ended",
                                   "wait", "await"}]
    /\ todo       \in [Walkers -> SUBSET Sids]
    /\ target     \in [Walkers -> Runners \cup {None}]
    /\ deaf       \subseteq Runners

\* However the cap of a project is edited, of the sessions that were admitted
\* under a cap of c or less no more than c are registered: a project exceeds a
\* lowered cap only by sessions admitted before, or with a stale config.
AdmittedWithinCap ==
    \A p \in Projects, c \in Caps :
        Cardinality({s \in SessionsOf(p) : capOf[registry[s]] <= c}) <= c

\* A registered state is registered under its own sid, and its done callback
\* is still to come: no entry outlives its task for good, and the callback of
\* a session that is still registered finds its own entry.
RegistryConsistent ==
    \A s \in Registered :
        /\ sidOf[registry[s]] = s
        /\ phase[registry[s]] \notin {"free", "gone"}

\* The only way a running session is neither registered nor being terminated
\* is that the callback of an earlier session with the same sid removed its
\* entry: _terminate never lets go of a runner that is still alive.
OrphanHasPredecessor ==
    \A i \in Runners : Live(i) =>
        \/ registry[sidOf[i]] = i
        \/ \E w \in Walkers : pc[w] \in {"wait", "await"} /\ target[w] = i
        \/ \E j \in Runners \ {i} : phase[j] = "gone" /\ sidOf[j] = sidOf[i]

\* stop() waits for the sweep before it lists what is registered, and waits
\* for each runner it lists: when it returns, a session still running is one
\* whose entry the callback of an earlier session of its sid removed.
StopLeavesOnlyDisplaced ==
    pc["stop"] = "stopped" =>
        \A i \in Runners : Live(i) =>
            \E j \in Runners \ {i} : phase[j] = "gone" /\ sidOf[j] = sidOf[i]

\* Unless its insert may raise, a session whose close was announced has left a
\* document under its sid, its own or that of an earlier session it shares the
\* sid with.
AnnouncedIsRecorded ==
    \A i \in Runners : closedSent[i] /\ sidOf[i] \notin Unreliable =>
        /\ records[sidOf[i]] # None
        /\ sidOf[records[sidOf[i]]] = sidOf[i]

\* A session being terminated ends, even from a turn that never does, unless
\* the drain of a receive task swallowed its cancellation; then a hung turn may
\* hold it, or the want of the STOP frame that found its inbox full.
TerminationEnds ==
    \A i \in Runners :
        (\E w \in Walkers : pc[w] \in {"wait", "await"} /\ target[w] = i) ~>
            \/ phase[i] \in Ended
            \/ i \in deaf /\ (phase[i] = "turn" \/ ~stopQueued[i])

-----------------------------------------------------------------------------
(* What the documentation promises and the code does not keep.              *)

\* main.py:98-102 lists the steps of the shutdown: stop() terminates.
ShutdownCompletes == pc["stop"] = "join" ~> pc["stop"] = "stopped"

=============================================================================
