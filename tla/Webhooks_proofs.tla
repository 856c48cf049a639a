--------------------------- MODULE Webhooks_proofs ---------------------------
(* Theorems about Webhooks, for any number of function calls.               *)
EXTENDS Webhooks, TLAPS

USE DEF vars, callVars, consumerVars, eventVars, closeVars

\* The calls of a message fit, a call is counted only when it has its result,
\* and a retry, of a call or of a delivery, comes after an attempt that was not
\* the last one.
Counted ==
    /\ counted <= call
    /\ consumer \in {"post", "pause"} =>
         call \in Calls /\ counted < call /\ call + left <= MaxCalls
    /\ consumer = "pause" => attempt < ToolAttempts
    /\ \A e \in Events : dlv[e] = "pause" => tries[e] < EventAttempts

\* Once the finally block has begun nobody reads Gemini, or whoever still does
\* has been cancelled and will not go on.
Quiet == runner \in {"connecting", "saving", "ended"} => consumer = "none" \/ cancelled

\* What the finally block has recorded is what is counted from then on.
Recorded ==
    /\ runner \in {"saving", "ended"} => recorded = counted
    /\ announced # None => runner = "ended" /\ announced = counted

\* Only calls up to the current one are settled, and not the current one as
\* long as it is being posted.
SettledIsBehind ==
    \A c \in settled : c <= call /\ (consumer \in {"post", "pause"} => c < call)

\* The inductive invariant.
WebhookInv == TypeOK /\ Counted /\ Quiet /\ Recorded /\ SettledIsBehind

-----------------------------------------------------------------------------

\* What Execute makes of the variables when begun calls have been begun before:
\* it counts no more calls than have begun and posts for later ones only.
Fits(begun) ==
    /\ consumer' \in {"post", "respond"}
    /\ call' \in begun .. MaxCalls /\ left' \in 0 .. MaxCalls
    /\ attempt' \in 0 .. ToolAttempts
    /\ counted' \in 0 .. MaxCalls /\ counted' <= call'
    /\ posts' \in [Calls -> 0 .. ToolAttempts]
    /\ consumer' = "post" =>
         call' \in Calls /\ begun < call' /\ counted' < call' /\ call' + left' <= MaxCalls
    /\ \A c \in Calls : c <= begun => posts'[c] = posts[c]

\* Execute fits when the calls left to execute do.
LEMMA ExecuteFits ==
    ASSUME TypeOK,
           NEW done \in {0, 1}, NEW begun \in Nat, NEW n \in Nat,
           begun + n <= MaxCalls, counted + done <= begun,
           Execute(done, begun, n)
    PROVE  Fits(begun)
<1>. USE CallsBounded DEF TypeOK, Calls, ToolAttempts
<1>1. PICK s \in 0 .. n :
        /\ counted' = counted + done + s
        /\ \/ /\ s = n
              /\ consumer' = "respond"
              /\ call' = begun + s /\ left' = 0 /\ attempt' = 0
              /\ UNCHANGED posts
           \/ /\ s < n
              /\ consumer' = "post"
              /\ call' = begun + s + 1 /\ left' = n - s - 1 /\ attempt' = 1
              /\ posts' = [posts EXCEPT ![begun + s + 1] = 1]
    BY DEF Execute
<1>2. CASE s = n
    BY <1>1, <1>2 DEF Fits
<1>3. CASE s < n
    <2>1. /\ consumer' = "post" /\ attempt' = 1
          /\ call' = begun + s + 1 /\ left' = n - s - 1 /\ counted' = counted + done + s
          /\ posts' = [posts EXCEPT ![begun + s + 1] = 1]
        BY <1>1, <1>3
    <2>2. call' \in Calls /\ left' \in 0 .. MaxCalls /\ begun < call' /\ counted' < call'
          /\ counted' \in 0 .. MaxCalls /\ call' + left' <= MaxCalls
        BY <1>3, <2>1
    <2>3. posts' \in [Calls -> 0 .. ToolAttempts]
        <3>1. posts \in [Calls -> 0 .. ToolAttempts] /\ 1 \in 0 .. ToolAttempts
            OBVIOUS
        <3>. QED  BY <2>1, <3>1, Zenon
    <2>4. \A c \in Calls : c <= begun => posts'[c] = posts[c]
        BY <2>1
    <2>. QED  BY <2>1, <2>2, <2>3, <2>4 DEF Fits
<1>. QED
    BY <1>2, <1>3

\* Executing the calls of a new message fits, and so does going on with those
\* that follow the current call.
LEMMA CallsFit ==
    ASSUME WebhookInv
    PROVE  /\ \A n \in 1 .. MaxCalls - call : Execute(0, call, n) => Fits(call)
           /\ consumer = "post" /\ Execute(1, call, left) => Fits(call)
<1>. USE CallsBounded DEF WebhookInv
<1>1. ASSUME NEW n \in 1 .. MaxCalls - call, Execute(0, call, n) PROVE Fits(call)
    <2>1. call \in Nat /\ n \in Nat /\ call + n <= MaxCalls /\ counted + 0 <= call
        BY DEF TypeOK, Counted
    <2>. QED  BY <1>1, <2>1, ExecuteFits
<1>2. ASSUME consumer = "post", Execute(1, call, left) PROVE Fits(call)
    <2>1. call \in Nat /\ left \in Nat /\ call + left <= MaxCalls /\ counted + 1 <= call
        BY <1>2 DEF TypeOK, Counted
    <2>. QED  BY <1>2, <2>1, ExecuteFits
<1>. QED
    BY <1>1, <1>2

\* The invariant holds when the session begins.
LEMMA WebhookInit == Init => WebhookInv
<1>. SUFFICES ASSUME Init PROVE WebhookInv
    OBVIOUS
<1>. USE CallsBounded DEF Init
<1>1. TypeOK
    <2>1. /\ dlv \in [Events -> {"none", "post", "pause", "delivered", "failed", "dropped"}]
          /\ tries \in [Events -> 0 .. EventAttempts] /\ posts \in [Calls -> 0 .. ToolAttempts]
        BY DEF EventAttempts, ToolAttempts
    <2>2. /\ call \in 0 .. MaxCalls /\ left \in 0 .. MaxCalls /\ counted \in 0 .. MaxCalls
          /\ attempt \in 0 .. ToolAttempts /\ settled \subseteq Calls
        BY DEF ToolAttempts
    <2>. QED  BY <2>1, <2>2 DEF TypeOK
<1>2. Counted /\ Quiet /\ Recorded /\ SettledIsBehind
    BY DEF Counted, Quiet, Recorded, SettledIsBehind
<1>. QED
    BY <1>1, <1>2 DEF WebhookInv

\* A step of the runner keeps the invariant.
LEMMA RunnerKeeps == WebhookInv /\ RunnerStep => WebhookInv'
<1>. SUFFICES ASSUME WebhookInv, RunnerStep PROVE WebhookInv'
    OBVIOUS
<1>. USE CallsBounded, NoneIsNoCount
     DEF WebhookInv, TypeOK, Counted, Quiet, Recorded, SettledIsBehind, Events, EventAttempts
<1>1. CASE Open
    BY <1>1 DEF Open, Launch
<1>2. CASE StartConsumer
    BY <1>2 DEF StartConsumer
<1>3. CASE CancelLingering
    BY <1>3 DEF CancelLingering
<1>4. CASE Leave
    BY <1>4 DEF Leave
<1>5. CASE Close
    BY <1>5 DEF Close
<1>6. CASE Saved
    BY <1>6 DEF Saved, Launch
<1>. QED
    BY <1>1, <1>2, <1>3, <1>4, <1>5, <1>6 DEF RunnerStep

\* Calls that fit keep the invariant, when the consumer may run and settles at
\* most the current call.
LEMMA FitKeeps ==
    ASSUME WebhookInv, Fits(call), ~cancelled, consumer \in {"reading", "post"},
           settled' = settled \/ (consumer = "post" /\ settled' = settled \cup {call}),
           UNCHANGED <<runner, cancelled, inline, eventVars, closeVars>>
    PROVE  WebhookInv'
<1>. USE CallsBounded, NoneIsNoCount
<1>1. TypeOK'
    <2>1. settled' \subseteq Calls
        BY DEF WebhookInv, TypeOK, Counted
    <2>. QED  BY <2>1 DEF WebhookInv, TypeOK, Counted, Fits
<1>2. Counted'
    BY DEF WebhookInv, Counted, Fits
<1>3. Quiet' /\ Recorded'
    BY DEF WebhookInv, TypeOK, Quiet, Recorded
<1>4. SettledIsBehind'
    <2>1. call \in 0 .. MaxCalls /\ settled \subseteq Calls
        BY DEF WebhookInv, TypeOK
    <2>2. /\ call' \in call .. MaxCalls
          /\ consumer' \in {"post", "pause"} => call < call'
        BY DEF Fits
    <2>3. settled' \subseteq settled \cup {call} /\ \A c \in settled : c <= call
        BY DEF WebhookInv, SettledIsBehind
    <2>. QED  BY <2>1, <2>2, <2>3 DEF SettledIsBehind, Calls
<1>. QED
    BY <1>1, <1>2, <1>3, <1>4 DEF WebhookInv

\* A step of the consumer keeps the invariant: whoever runs has not been
\* cancelled, so the session has not reached its finally block.
LEMMA ConsumerKeeps == WebhookInv /\ ConsumerStep => WebhookInv'
<1>. SUFFICES ASSUME WebhookInv, ConsumerStep PROVE WebhookInv'
    OBVIOUS
<1>1. ASSUME NEW n \in 1 .. MaxCalls - call, ToolCall(n) PROVE WebhookInv'
    BY <1>1, CallsFit, FitKeeps DEF ToolCall, Runs
<1>2. CASE Final
    BY <1>2, CallsFit, FitKeeps DEF Final, Runs
<1>3. CASE Transient
    <2>1. CASE PauseBefore(ToolAttempts)
        BY <1>3, <2>1, CallsBounded
           DEF Transient, Runs, PauseBefore, WebhookInv, TypeOK, Counted, Quiet, Recorded,
               SettledIsBehind
    <2>2. CASE Execute(1, call, left)
        BY <1>3, <2>2, CallsFit, FitKeeps DEF Transient, Runs
    <2>. QED  BY <1>3, <2>1, <2>2 DEF Transient
<1>4. CASE Retry
    BY <1>4, CallsBounded
       DEF Retry, Runs, WebhookInv, TypeOK, Counted, Quiet, Recorded, SettledIsBehind,
           ToolAttempts
<1>5. CASE Respond \/ Return \/ Unwind
    BY <1>5, CallsBounded
       DEF Respond, Return, Unwind, Runs, WebhookInv, TypeOK, Counted, Quiet, Recorded,
           SettledIsBehind
<1>. QED
    BY <1>1, <1>2, <1>3, <1>4, <1>5 DEF ConsumerStep

\* A step of a delivery keeps the invariant.
LEMMA DeliveryKeeps ==
    ASSUME WebhookInv, NEW e \in Events,
           Delivered(e) \/ Undelivered(e) \/ Redeliver(e) \/ Dropped(e)
    PROVE  WebhookInv'
<1>. USE CallsBounded, NoneIsNoCount
     DEF WebhookInv, TypeOK, Counted, Quiet, Recorded, SettledIsBehind, DlvGo, EventAttempts
<1>1. CASE Delivered(e)
    BY <1>1 DEF Delivered
<1>2. CASE Undelivered(e)
    BY <1>2 DEF Undelivered
<1>3. CASE Redeliver(e)
    BY <1>3 DEF Redeliver
<1>4. CASE Dropped(e)
    BY <1>4 DEF Dropped
<1>. QED
    BY <1>1, <1>2, <1>3, <1>4

\* Every step keeps the invariant.
LEMMA WebhookStep == WebhookInv /\ [Next]_vars => WebhookInv'
<1>1. WebhookInv /\ UNCHANGED vars => WebhookInv'
    BY DEF WebhookInv, TypeOK, Counted, Quiet, Recorded, SettledIsBehind
<1>. QED
    BY <1>1, RunnerKeeps, ConsumerKeeps, DeliveryKeeps DEF Next

\* The invariant holds throughout.
THEOREM WebhookInvHolds == Spec => []WebhookInv
BY WebhookInit, WebhookStep, PTL DEF Spec

-----------------------------------------------------------------------------

\* Types: in particular no call has more than ToolAttempts requests and no
\* lifecycle event more than EventAttempts.
THEOREM WebhooksTypeCorrect == Spec => []TypeOK
<1>1. WebhookInv => TypeOK
    BY DEF WebhookInv
<1>. QED
    BY <1>1, WebhookInvHolds, PTL

\* The session's document and its closed event agree on the tool calls, on
\* whichever side of the await of close_session a receive task still runs.
THEOREM RecordAgreesWithEvent == Spec => []RecordMatchesEvent
<1>1. WebhookInv => RecordMatchesEvent
    BY DEF WebhookInv, Recorded, RecordMatchesEvent
<1>. QED
    BY <1>1, WebhookInvHolds, PTL

\* What a step may do to the requests sent: a request is sent by a consumer that
\* runs, and for a call that is not settled.
LEMMA OnlyUnsettledArePosted ==
    ASSUME WebhookInv, [Next]_vars
    PROVE  /\ UNCHANGED posts \/ (~cancelled /\ consumer # "none")
           /\ \A c \in settled : posts'[c] = posts[c]
<1>. DEFINE Sent == /\ ~cancelled /\ consumer # "none"
                    /\ \A c \in settled : posts'[c] = posts[c]
<1>. USE DEF Runs
<1>1. CASE UNCHANGED vars
    BY <1>1
<1>2. CASE RunnerStep
    BY <1>2 DEF RunnerStep, Open, StartConsumer, CancelLingering, Leave, Close, Saved
<1>3. ASSUME Fits(call), ~cancelled, consumer # "none" PROVE Sent
    BY <1>3 DEF Fits, WebhookInv, TypeOK, SettledIsBehind
<1>4. ASSUME NEW n \in 1 .. MaxCalls - call, ToolCall(n) PROVE Sent
    BY <1>3, <1>4, CallsFit DEF ToolCall
<1>5. CASE Final \/ Transient
    <2>1. CASE PauseBefore(ToolAttempts)
        BY <2>1 DEF PauseBefore
    <2>2. CASE Execute(1, call, left)
        BY <1>3, <1>5, <2>2, CallsFit DEF Final, Transient
    <2>. QED  BY <1>5, <2>1, <2>2 DEF Final, Transient
<1>6. CASE Retry
    BY <1>6 DEF Retry, WebhookInv, TypeOK, Counted, SettledIsBehind, Calls
<1>7. CASE Respond \/ Return \/ Unwind
    BY <1>7 DEF Respond, Return, Unwind
<1>8. ASSUME NEW e \in Events,
             Delivered(e) \/ Undelivered(e) \/ Redeliver(e) \/ Dropped(e)
      PROVE  UNCHANGED posts
    BY <1>8 DEF Delivered, Undelivered, Redeliver, Dropped, DlvGo
<1>. QED
    BY <1>1, <1>2, <1>4, <1>5, <1>6, <1>7, <1>8 DEF Next, ConsumerStep

\* The backend gets no tool request, retries included, once the closed event
\* is on its way.
THEOREM NoRequestAfterClosed == Spec => QuietAfterClosed
<1>1. WebhookInv /\ [Next]_vars => [announced # None => UNCHANGED posts]_vars
    BY OnlyUnsettledArePosted DEF WebhookInv, Quiet, Recorded
<1>. QED
    BY <1>1, WebhookInvHolds, PTL DEF Spec, QuietAfterClosed

\* A call whose answer was final is not sent again.
THEOREM SettledStaysSettled == Spec => SettledIsNotRetried
<1>1. WebhookInv /\ [Next]_vars => [\A c \in settled : posts'[c] = posts[c]]_vars
    BY OnlyUnsettledArePosted
<1>. QED
    BY <1>1, WebhookInvHolds, PTL DEF Spec, SettledIsNotRetried

=============================================================================
