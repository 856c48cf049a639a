------------------------------ MODULE Webhooks ------------------------------
(***************************************************************************)
(* What one session sends to the customer's backend: the tool calls of     *)
(* Gemini (_handle_tool_call in core/gemini_runner, core/tool_executor)    *)
(* and the lifecycle events (core/session_events), for a project that has  *)
(* a webhook_url.                                                          *)
(*                                                                         *)
(* The consumer is the coroutine in _consume_gemini_responses: a receive   *)
(* task or the runner itself.  The function calls of the session are       *)
(* numbered in the order in which they are executed.                       *)
(***************************************************************************)
EXTENDS Naturals

CONSTANTS
    MaxCalls,   \* bound on the function calls of a session
    None        \* no count

ASSUME CallsBounded == MaxCalls \in Nat
ASSUME NoneIsNoCount == None \notin Nat

VARIABLES
    runner,     \* where session_runner is
    consumer,   \* where the consumer is; "none" when nobody reads Gemini
    cancelled,  \* it has been cancelled and does not know yet
    inline,     \* the runner itself is the consumer (a text turn)
    call,       \* the calls begun so far, the last one being the current
    left,       \* function calls of the message that follow the current
    attempt,    \* of the current call's webhook
    counted,    \* state.tool_calls
    recorded,   \* tool_calls given to close_session
    announced,  \* tool_calls of the closed event
    dlv,        \* where the delivery task of each lifecycle event is
    tries,      \* its attempt
    posts,      \* requests sent for each call
    settled     \* calls for which an answer or an error was taken as final

callVars     == <<call, left, attempt, counted, posts, settled>>
consumerVars == <<consumer, inline, callVars>>
eventVars    == <<dlv, tries>>
closeVars    == <<recorded, announced>>
vars == <<runner, cancelled, consumerVars, eventVars, closeVars>>

Calls  == 1 .. MaxCalls
Events == {"started", "closed"}

ToolAttempts  == 3
EventAttempts == 2

Init ==
    /\ runner = "connecting"
    /\ consumer = "none" /\ inline = FALSE /\ cancelled = FALSE
    /\ call = 0 /\ left = 0 /\ attempt = 0
    /\ counted = 0 /\ recorded = None /\ announced = None
    /\ dlv = [e \in Events |-> "none"]
    /\ tries = [e \in Events |-> 0]
    /\ posts = [c \in Calls |-> 0]
    /\ settled = {}

-----------------------------------------------------------------------------
(* session_runner.                                                          *)

Launch(e) ==
    /\ dlv' = [dlv EXCEPT ![e] = "post"]
    /\ tries' = [tries EXCEPT ![e] = 1]

\* The connection opens and the started event is launched; or connect raises
\* and the finally block begins.
Open ==
    /\ runner = "connecting"
    /\ \/ runner' = "open" /\ Launch("started") /\ UNCHANGED recorded
       \/ runner' = "saving" /\ recorded' = counted /\ UNCHANGED eventVars
    /\ UNCHANGED <<cancelled, consumerVars, announced>>

\* A voice turn spawns a receive task, a text turn consumes inline.
StartConsumer ==
    /\ runner = "open" /\ consumer = "none"
    /\ consumer' = "reading"
    /\ inline' \in BOOLEAN
    /\ UNCHANGED <<runner, cancelled, callVars, eventVars, closeVars>>

\* A new voice turn cancels the receive task that is still running.
CancelLingering ==
    /\ runner = "open" /\ consumer # "none" /\ ~inline
    /\ cancelled' = TRUE
    /\ UNCHANGED <<runner, consumerVars, eventVars, closeVars>>

\* The loop is left, but not while it waits for a cancelled receive task.  A
\* cancellation that finds the runner in a turn unwinds the consumer on its
\* way; a lingering receive task goes on.
Leave ==
    /\ runner = "open" /\ ~cancelled
    /\ runner' = "closing"
    /\ \/ (consumer = "none" \/ ~inline) /\ UNCHANGED consumer
       \/ consumer' = "none"
    /\ UNCHANGED <<cancelled, inline, callVars, eventVars, closeVars>>

\* The connection is closed.  The finally block cancels the receive task and
\* hands the counters to close_session.
MutantClose ==
    /\ runner = "closing"
    /\ runner' = "saving"
    /\ recorded' = counted
    /\ UNCHANGED <<cancelled, consumerVars, eventVars, announced>>

Close ==
    /\ runner = "closing"
    /\ runner' = "saving"
    /\ cancelled' = (consumer # "none")
    /\ recorded' = counted
    /\ UNCHANGED <<consumerVars, eventVars, announced>>

\* close_session has returned, whatever became of the insert, and the closed
\* event reads the counters again; or a cancellation skips it.
Saved ==
    /\ runner = "saving"
    /\ runner' = "ended"
    /\ \/ Launch("closed") /\ announced' = counted
       \/ UNCHANGED <<eventVars, announced>>
    /\ UNCHANGED <<cancelled, consumerVars, recorded>>

-----------------------------------------------------------------------------
(* The consumer.                                                            *)

Runs(at) == consumer = at /\ ~cancelled

\* Of n calls still to execute, those of static and unknown tools have their
\* result at once; the first of another kind is posted.  "done" calls have just
\* got theirs.
Execute(done, begun, n) ==
    \E s \in 0 .. n :
        /\ counted' = counted + done + s
        /\ \/ /\ s = n
              /\ consumer' = "respond"
              /\ call' = begun + s /\ left' = 0 /\ attempt' = 0
              /\ UNCHANGED posts
           \/ /\ s < n
              /\ consumer' = "post"
              /\ call' = begun + s + 1 /\ left' = n - s - 1 /\ attempt' = 1
              /\ posts' = [posts EXCEPT ![begun + s + 1] = 1]

\* Some attempt before the last one has failed.
PauseBefore(last) ==
    /\ attempt < last
    /\ consumer' = "pause"
    /\ UNCHANGED <<call, left, attempt, counted, posts>>

\* A tool_call message with n function calls.
ToolCall(n) ==
    /\ Runs("reading")
    /\ Execute(0, call, n)
    /\ UNCHANGED <<runner, cancelled, inline, settled, eventVars, closeVars>>

MutantFinal ==
    /\ Runs("post")
    /\ settled' = settled \cup {call}
    /\ \/ Execute(1, call, left)
       \/ PauseBefore(ToolAttempts)
    /\ UNCHANGED <<runner, cancelled, inline, eventVars, closeVars>>

\* What the code does not retry: a success, any HTTP status outside
\* _RETRYABLE_STATUS (501 and 505 too), and any exception that is not a timeout or
\* a failed connect (httpx.ReadError too).  The docstring differs (line 19): it
\* has network errors and HTTP 5xx retried.
Final ==
    /\ Runs("post")
    /\ settled' = settled \cup {call}
    /\ Execute(1, call, left)
    /\ UNCHANGED <<runner, cancelled, inline, eventVars, closeVars>>

\* HTTP 429, 500, 502, 503 or 504, a timeout or a failed connect: there are
\* attempts left after a pause, or the error is the result of the call.
MutantTransient ==
    /\ Runs("post")
    /\ PauseBefore(ToolAttempts + 1)
    /\ UNCHANGED <<runner, cancelled, inline, settled, eventVars, closeVars>>

Transient ==
    /\ Runs("post")
    /\ \/ PauseBefore(ToolAttempts)
       \/ attempt = ToolAttempts /\ Execute(1, call, left)
    /\ UNCHANGED <<runner, cancelled, inline, settled, eventVars, closeVars>>

MutantRetry ==
    /\ Runs("pause")
    /\ consumer' = "post"
    /\ posts' = [posts EXCEPT ![call] = attempt]
    /\ UNCHANGED <<runner, cancelled, inline, call, left, attempt, counted, settled,
                   eventVars, closeVars>>

Retry ==
    /\ Runs("pause")
    /\ consumer' = "post"
    /\ attempt' = attempt + 1
    /\ posts' = [posts EXCEPT ![call] = attempt + 1]
    /\ UNCHANGED <<runner, cancelled, inline, call, left, counted, settled,
                   eventVars, closeVars>>

\* send_tool_response, whose failure is only reported to the client.
Respond ==
    /\ Runs("respond")
    /\ consumer' = "reading"
    /\ UNCHANGED <<runner, cancelled, inline, callVars, eventVars, closeVars>>

\* The turn completes or the stream ends.
Return ==
    /\ Runs("reading")
    /\ consumer' = "none"
    /\ UNCHANGED <<runner, cancelled, inline, callVars, eventVars, closeVars>>

\* CancelledError is no Exception: nothing in the executor catches it.
MutantUnwind ==
    /\ cancelled
    /\ cancelled' = FALSE
    /\ IF consumer = "post" THEN UNCHANGED consumer ELSE consumer' = "none"
    /\ UNCHANGED <<runner, inline, callVars, eventVars, closeVars>>

Unwind ==
    /\ cancelled
    /\ cancelled' = FALSE
    /\ consumer' = "none"
    /\ UNCHANGED <<runner, inline, callVars, eventVars, closeVars>>

-----------------------------------------------------------------------------
(* Delivery of lifecycle events.                                            *)

DlvGo(e, from, to) ==
    /\ dlv[e] = from
    /\ dlv' = [dlv EXCEPT ![e] = to]
    /\ UNCHANGED <<runner, cancelled, consumerVars, closeVars>>

Delivered(e) == DlvGo(e, "post", "delivered") /\ UNCHANGED tries

\* Any error, and any status from 400 on, has one retry.
Undelivered(e) ==
    /\ DlvGo(e, "post", IF tries[e] < EventAttempts THEN "pause" ELSE "failed")
    /\ UNCHANGED tries

Redeliver(e) ==
    /\ DlvGo(e, "pause", "post")
    /\ tries' = [tries EXCEPT ![e] = @ + 1]

\* Nobody awaits the delivery tasks when the service stops.
Dropped(e) ==
    /\ runner = "ended"
    /\ \E at \in {"post", "pause"} : DlvGo(e, at, "dropped")
    /\ UNCHANGED tries

-----------------------------------------------------------------------------
RunnerStep == Open \/ StartConsumer \/ CancelLingering \/ Leave \/ Close \/ Saved

ConsumerStep ==
    \/ \E n \in 1 .. MaxCalls - call : ToolCall(n)
    \/ Final \/ Transient \/ Retry \/ Respond \/ Return \/ Unwind

Next ==
    \/ RunnerStep \/ ConsumerStep
    \/ \E e \in Events : Delivered(e) \/ Undelivered(e) \/ Redeliver(e) \/ Dropped(e)

Spec == Init /\ [][Next]_vars

(* Fairness.  Every request is answered or times out, and every pause ends; *)
(* whether it is answered well or badly is up to the backend.  Neither      *)
(* Gemini nor the client has to do anything.                                *)
Fairness ==
    /\ WF_vars(Final \/ Transient) /\ WF_vars(Retry) /\ WF_vars(Respond)
    /\ WF_vars(Unwind)
    /\ \A e \in Events : WF_vars(Delivered(e) \/ Undelivered(e)) /\ WF_vars(Redeliver(e))

FairSpec == Spec /\ Fairness

-----------------------------------------------------------------------------
(* Properties.                                                              *)

\* The values the variables take.
TypeOK ==
    /\ runner \in {"connecting", "open", "closing", "saving", "ended"}
    /\ consumer \in {"none", "reading", "post", "pause", "respond"}
    /\ inline \in BOOLEAN /\ cancelled \in BOOLEAN
    /\ call \in 0 .. MaxCalls /\ left \in 0 .. MaxCalls
    /\ attempt \in 0 .. ToolAttempts
    /\ counted \in 0 .. MaxCalls
    /\ recorded \in 0 .. MaxCalls \cup {None}
    /\ announced \in 0 .. MaxCalls \cup {None}
    /\ dlv \in [Events -> {"none", "post", "pause", "delivered", "failed", "dropped"}]
    /\ tries \in [Events -> 0 .. EventAttempts]
    /\ posts \in [Calls -> 0 .. ToolAttempts]
    /\ settled \subseteq Calls

\* The document and the closed event agree on the counters, although they are
\* read on the two sides of an await and a receive task may run in between.
RecordMatchesEvent == announced # None => announced = recorded

\* Once the closed event is on its way the backend gets no more tool requests
\* from the session, retries included.
QuietAfterClosed == [][announced # None => UNCHANGED posts]_vars

\* The backend is not called again for a call that has its result, or a failure
\* that the code takes as permanent.  These are more than its docstring says
\* (core/tool_executor.py:19): Final has some HTTP 5xx and network errors among
\* them, and nothing here says that every transient failure is retried.
SettledIsNotRetried == [][\A c \in settled : posts'[c] = posts[c]]_vars

\* Neither a tool call nor the delivery of an event goes on for ever, however
\* often the backend fails.
RequestsEnd ==
    /\ consumer \in {"post", "pause"} ~> consumer \notin {"post", "pause"}
    /\ \A e \in Events : dlv[e] = "post" ~> dlv[e] \in {"delivered", "failed", "dropped"}

=============================================================================
