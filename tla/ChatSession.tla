---------------------------- MODULE ChatSession ----------------------------
(***************************************************************************)
(* One session: the WebSocket handlers attached to it (api/chat), the two  *)
(* bounded queues of its SessionState (core/session_state), the loop of    *)
(* session_runner and the receive task of a voice turn (core/gemini_       *)
(* runner), and the Gemini connection as the runner sees it.               *)
(*                                                                         *)
(* A handler is a receive loop and a forward loop.  A client that comes    *)
(* back with the same session id is a new handler on the same state.       *)
(***************************************************************************)
EXTENDS Naturals, Sequences, FiniteSets

CONSTANTS
    Handlers,    \* WebSocket connections to this session over its life
    Tasks,       \* receive tasks (a bound on those that exist at once)
    InboxMax,    \* INBOX_MAX_SIZE
    OutboxMax,   \* OUTBOX_MAX_SIZE
    None         \* no receive task

ASSUME QueueSizes == InboxMax \in Nat \ {0} /\ OutboxMax \in Nat \ {0}
ASSUME NoneIsNoTask == None \notin Tasks

VARIABLES
    inbox,        \* state.inbox, a sequence of frame kinds
    outbox,       \* state.outbox
    rpc,          \* where session_runner is suspended
    cur,          \* _recv_task
    task,         \* the state of each receive task
    conn,         \* the Gemini connection works
    activity,     \* Gemini has had activity_start without activity_end
    term,         \* how far _terminate has gone with this session
    owed,         \* Gemini has a finished input it has still to answer
    sock,         \* the client's socket: "new", "open", "closed"
    voiceActive,  \* voice_active of each receive loop
    forward       \* forward loop: "off", "get", "down"

queues   == <<inbox, outbox>>
tasks    == <<cur, task>>
gemini   == <<conn, activity, owed>>
handlers == <<sock, voiceActive, forward>>
vars == <<queues, rpc, term, tasks, gemini, handlers>>

InFrames  == {"TEXT", "AUDIO", "START", "END", "SPEAKER", "STOP"}
OutFrames == {"ready", "frame", "ended", "STOP"}

Receiving(t) == task[t] \in {"running", "cancelled"}    \* not t.done()
InTurn       == rpc \in {"textTurn", "awaitVoice"}

Init ==
    /\ inbox = <<>> /\ outbox = <<>>
    /\ rpc = "connecting"
    /\ term = "no"
    /\ cur = None
    /\ task = [t \in Tasks |-> "free"]
    /\ conn = TRUE /\ activity = FALSE /\ owed = FALSE
    /\ sock = [h \in Handlers |-> "new"]
    /\ voiceActive = [h \in Handlers |-> FALSE]
    /\ forward = [h \in Handlers |-> "off"]

-----------------------------------------------------------------------------
(* The queues: put_nowait; a full inbox answers "busy", a full outbox drops.*)

Put(kind) == inbox' = IF Len(inbox) < InboxMax THEN Append(inbox, kind) ELSE inbox

MutantQueued(out, kind) == Append(out, kind)
Queued(out, kind) == IF Len(out) < OutboxMax THEN Append(out, kind) ELSE out

Emit(kind) == outbox' = Queued(outbox, kind)

-----------------------------------------------------------------------------
(* The WebSocket handler.                                                   *)

\* get_or_create returns the state as long as it is registered, until
\* _terminate or the done callback of the runner pops it.
Attach(h) ==
    /\ sock[h] = "new"
    /\ rpc # "gone" /\ term = "no"
    /\ sock' = [sock EXCEPT ![h] = "open"]
    /\ forward' = [forward EXCEPT ![h] = "get"]
    /\ UNCHANGED <<queues, rpc, tasks, gemini, voiceActive, term>>

\* One message of the client, handled by _receive_loop.  ping and malformed
\* messages are answered on the socket and touch nothing here.
ClientText(h) ==
    /\ Put("TEXT")
    /\ UNCHANGED voiceActive

ClientAudio(h) ==
    /\ voiceActive[h]
    /\ Put("AUDIO")
    /\ UNCHANGED voiceActive

ClientVoiceStart(h) ==
    /\ voiceActive' = [voiceActive EXCEPT ![h] = TRUE]
    /\ Put("START")

ClientVoiceEnd(h) ==
    /\ voiceActive[h]
    /\ voiceActive' = [voiceActive EXCEPT ![h] = FALSE]
    /\ Put("END")

ClientSpeaker(h) ==
    /\ Put("SPEAKER")
    /\ UNCHANGED voiceActive

ClientInterrupt(h) ==
    /\ voiceActive' = [voiceActive EXCEPT ![h] = FALSE]
    /\ UNCHANGED inbox

Receive(h) ==
    /\ sock[h] = "open"
    /\ \/ ClientText(h) \/ ClientAudio(h)
       \/ ClientVoiceStart(h) \/ ClientVoiceEnd(h)
       \/ ClientSpeaker(h) \/ ClientInterrupt(h)
    /\ UNCHANGED <<outbox, rpc, tasks, gemini, sock, forward, term>>

\* The client goes away: the receive loop returns, the forward loop does not
\* notice before its next send.
Disconnect(h) ==
    /\ sock[h] = "open"
    /\ sock' = [sock EXCEPT ![h] = "closed"]
    /\ UNCHANGED <<queues, rpc, tasks, gemini, voiceActive, forward, term>>

\* _forward_loop takes one item; the sentinel ends it, and so does a send to
\* a closed socket, which loses the item.
MutantForward(h) ==
    /\ forward[h] = "get" /\ outbox # <<>>
    /\ Head(outbox) # "STOP"
    /\ outbox' = Tail(outbox)
    /\ forward' = [forward EXCEPT ![h] = IF sock[h] = "closed" THEN "down" ELSE "get"]
    /\ UNCHANGED <<inbox, rpc, tasks, gemini, sock, voiceActive, term>>

Forward(h) ==
    /\ forward[h] = "get" /\ outbox # <<>>
    /\ outbox' = Tail(outbox)
    /\ forward' = [forward EXCEPT ![h] =
                     IF Head(outbox) = "STOP" \/ sock[h] = "closed" THEN "down" ELSE "get"]
    /\ UNCHANGED <<inbox, rpc, tasks, gemini, sock, voiceActive, term>>

-----------------------------------------------------------------------------
(* session_runner.  A send to Gemini fails exactly when the connection is   *)
(* broken; while a send is suspended nothing reads what the step changes.   *)

Opened ==
    /\ rpc = "connecting"
    /\ \/ rpc' = "get" /\ Emit("ready") /\ UNCHANGED conn
       \/ rpc' = "save" /\ Emit("frame") /\ conn' = FALSE
    /\ UNCHANGED <<inbox, tasks, activity, owed, handlers, term>>

\* The runner pops the head of the inbox.
Pops(kind) ==
    /\ rpc = "get" /\ inbox # <<>>
    /\ Head(inbox) = kind
    /\ inbox' = Tail(inbox)

TakeStop ==
    /\ Pops("STOP")
    /\ rpc' = "exit"
    /\ UNCHANGED <<outbox, tasks, gemini, handlers, term>>

TakeSpeaker ==
    /\ Pops("SPEAKER")
    /\ Emit("frame")
    /\ UNCHANGED <<rpc, tasks, gemini, handlers, term>>

TakeAudio ==
    /\ Pops("AUDIO")
    /\ UNCHANGED <<outbox, rpc, tasks, gemini, handlers, term>>

\* ACTIVITY_START cancels a lingering receive task and waits for it first.
Lingering == cur # None /\ Receiving(cur)

MutantTakeStart ==
    /\ Pops("START")
    /\ rpc' = "start" /\ UNCHANGED tasks
    /\ UNCHANGED <<outbox, gemini, handlers, term>>

TakeStart ==
    /\ Pops("START")
    /\ \/ /\ Lingering
          /\ rpc' = "drain"
          /\ task' = [task EXCEPT ![cur] = "cancelled"]
          /\ UNCHANGED cur
       \/ ~Lingering /\ rpc' = "start" /\ UNCHANGED tasks
    /\ UNCHANGED <<outbox, gemini, handlers, term>>

\* The old task has finished.  A cancellation of the runner itself would be
\* swallowed by the same except clause.
Drained ==
    /\ rpc = "drain"
    /\ ~Receiving(cur)
    /\ rpc' = "start"
    /\ cur' = None
    /\ task' = [task EXCEPT ![cur] = "free"]
    /\ UNCHANGED <<queues, gemini, handlers, term>>

\* activity_start is sent and the receive task spawned, or the send fails.
SendStart ==
    /\ rpc = "start"
    /\ rpc' = "get"
    /\ \/ /\ conn
          /\ activity' = TRUE
          /\ \E t \in Tasks :
               /\ task[t] = "free" /\ t # cur
               /\ cur' = t
               /\ task' = [s \in Tasks |->
                             IF s = t THEN "running"
                             ELSE IF s = cur /\ ~Receiving(s) THEN "free"
                             ELSE task[s]]
          /\ UNCHANGED outbox
       \/ ~conn /\ Emit("frame") /\ UNCHANGED <<tasks, activity>>
    /\ UNCHANGED <<inbox, conn, owed, handlers, term>>

\* ACTIVITY_END is sent, then the receive task is awaited without a timeout.
MutantTakeEnd ==
    /\ Pops("END")
    /\ activity' = FALSE
    /\ IF conn THEN UNCHANGED outbox ELSE Emit("frame")
    /\ rpc' = IF cur = None THEN "get" ELSE "awaitVoice"
    /\ UNCHANGED <<tasks, conn, owed, handlers, term>>

TakeEnd ==
    /\ Pops("END")
    /\ IF conn THEN activity' = FALSE /\ owed' = TRUE /\ UNCHANGED outbox
               ELSE Emit("frame") /\ UNCHANGED <<activity, owed>>
    /\ rpc' = IF cur = None THEN "get" ELSE "awaitVoice"
    /\ UNCHANGED <<tasks, conn, handlers, term>>

VoiceDone ==
    /\ rpc = "awaitVoice"
    /\ ~Receiving(cur)
    /\ rpc' = IF task[cur] = "alive" THEN "get" ELSE "exit"
    /\ cur' = None
    /\ task' = [task EXCEPT ![cur] = "free"]
    /\ UNCHANGED <<queues, gemini, handlers, term>>

\* TEXT is dropped while a receive task is running; otherwise it is sent and
\* the runner itself consumes the answer.
DropText ==
    /\ Pops("TEXT")
    /\ Lingering
    /\ UNCHANGED <<outbox, rpc, tasks, gemini, handlers, term>>

MutantTakeText ==
    /\ Pops("TEXT")
    /\ IF conn THEN rpc' = "textTurn" /\ owed' = TRUE /\ UNCHANGED outbox
               ELSE Emit("frame") /\ UNCHANGED <<rpc, owed>>
    /\ UNCHANGED <<tasks, conn, activity, handlers, term>>

TakeText ==
    /\ Pops("TEXT")
    /\ ~Lingering
    /\ IF conn THEN rpc' = "textTurn" /\ owed' = TRUE /\ UNCHANGED outbox
               ELSE Emit("frame") /\ UNCHANGED <<rpc, owed>>
    /\ UNCHANGED <<tasks, conn, activity, handlers, term>>

\* wait_for(inbox.get(), session_ttl_seconds) expires.
TtlExpires ==
    /\ rpc = "get" /\ inbox = <<>>
    /\ rpc' = "exit"
    /\ UNCHANGED <<queues, tasks, gemini, handlers, term>>

-----------------------------------------------------------------------------
(* Gemini and _consume_gemini_responses, run by a receive task or inline.   *)

Breaks ==
    /\ conn /\ rpc # "connecting"
    /\ conn' = FALSE
    /\ UNCHANGED <<queues, rpc, tasks, activity, owed, handlers, term>>

\* Audio, transcripts and tool results go to the outbox as they arrive.
AnswerPart ==
    /\ conn
    /\ rpc = "textTurn" \/ \E t \in Tasks : task[t] = "running"
    /\ Emit("frame")
    /\ UNCHANGED <<inbox, rpc, tasks, gemini, handlers, term>>

\* The consumer returns True on turn_complete or interrupted, which Gemini
\* may send as soon as it has any input; False when the stream ends or fails.
Completes ==
    /\ conn /\ (owed \/ activity)
    /\ owed' = FALSE
    /\ Emit("frame")

StreamEnds ==
    /\ ~conn
    /\ UNCHANGED owed
    /\ Emit("frame") \/ UNCHANGED outbox

TextDone ==
    /\ rpc = "textTurn"
    /\ \/ Completes /\ rpc' = "get"
       \/ StreamEnds /\ rpc' = "exit"
    /\ UNCHANGED <<inbox, tasks, conn, activity, handlers, term>>

RecvDone(t) ==
    /\ task[t] = "running"
    /\ \/ Completes /\ task' = [task EXCEPT ![t] = "alive"]
       \/ StreamEnds /\ task' = [task EXCEPT ![t] = "dead"]
    /\ UNCHANGED <<inbox, rpc, cur, conn, activity, handlers, term>>

RecvCancelled(t) ==
    /\ task[t] = "cancelled"
    /\ task' = [task EXCEPT ![t] = "over"]
    /\ UNCHANGED <<queues, rpc, cur, gemini, handlers, term>>

-----------------------------------------------------------------------------
(* The end of the runner.                                                   *)

\* _terminate pops the session and puts a STOP frame if there is room.
ManagerStop ==
    /\ term = "no" /\ rpc \notin {"ended", "gone"}
    /\ term' = "signalled"
    /\ Put("STOP")
    /\ UNCHANGED <<outbox, rpc, tasks, gemini, handlers>>

\* After two seconds it cancels the runner, and stop() may cancel it again
\* through the sweep.  While the runner drains a receive task a cancellation
\* is swallowed; in its finally block it ends the runner.
CancelledTasks ==
    IF Lingering THEN [task EXCEPT ![cur] = "cancelled"] ELSE task

ManagerCancel ==
    /\ rpc \notin {"ended", "gone"}
    /\ \/ term = "signalled" /\ term' = "cancelled"
       \/ term = "cancelled" /\ term' = "twice"
    /\ rpc' = CASE rpc \in {"connecting", "exit"} -> "save"
                [] rpc = "save"                   -> "ended"
                [] rpc = "drain"                  -> "drain"
                [] OTHER                          -> "exit"
    /\ task' = IF rpc \in {"exit", "awaitVoice"} THEN CancelledTasks ELSE task
    /\ conn' = (conn /\ rpc \notin {"connecting", "exit"})
    /\ UNCHANGED <<queues, cur, activity, owed, handlers>>

\* The connection is closed; the finally block cancels the receive task and
\* suspends in close_session.
MutantClosed ==
    /\ rpc = "exit"
    /\ rpc' = "save"
    /\ UNCHANGED <<queues, tasks, gemini, handlers, term>>

Closed ==
    /\ rpc = "exit"
    /\ rpc' = "save"
    /\ conn' = FALSE
    /\ task' = CancelledTasks
    /\ UNCHANGED <<queues, cur, activity, owed, handlers, term>>

Saved ==
    /\ rpc = "save"
    /\ rpc' = "ended"
    /\ outbox' = Queued(Queued(outbox, "ended"), "STOP")
    /\ UNCHANGED <<inbox, tasks, gemini, handlers, term>>

\* _on_runner_done: the session can be resumed no more.
OnRunnerDone ==
    /\ rpc = "ended"
    /\ rpc' = "gone"
    /\ UNCHANGED <<queues, tasks, gemini, handlers, term>>

-----------------------------------------------------------------------------
TakeFrame ==
    TakeStop \/ TakeSpeaker \/ TakeAudio \/ TakeStart \/ TakeEnd
    \/ TakeText \/ DropText

Next ==
    \/ \E h \in Handlers : Attach(h) \/ Receive(h) \/ Disconnect(h) \/ Forward(h)
    \/ Opened \/ TakeFrame \/ Drained \/ SendStart \/ VoiceDone \/ TtlExpires
    \/ Breaks \/ AnswerPart \/ TextDone
    \/ \E t \in Tasks : RecvDone(t) \/ RecvCancelled(t)
    \/ ManagerStop \/ ManagerCancel \/ Closed \/ Saved \/ OnRunnerDone

Spec == Init /\ [][Next]_vars

(* Fairness.  Every coroutine that can run eventually does.  Gemini answers *)
(* a finished input, or the stream ends when the connection is gone; while  *)
(* the user is still speaking it owes nothing.  Clients owe nothing.        *)
Fairness ==
    /\ \A h \in Handlers : WF_vars(Forward(h))
    /\ WF_vars(Opened) /\ WF_vars(TakeFrame) /\ WF_vars(Drained)
    /\ WF_vars(SendStart) /\ WF_vars(VoiceDone)
    /\ WF_vars(Closed) /\ WF_vars(Saved)
    /\ WF_vars(TextDone)
    /\ \A t \in Tasks :
         WF_vars(RecvCancelled(t)) /\ WF_vars((owed \/ ~conn) /\ RecvDone(t))

FairSpec == Spec /\ Fairness

-----------------------------------------------------------------------------
(* Properties.                                                              *)

\* The values the variables take.
TypeOK ==
    /\ inbox  \in Seq(InFrames)  /\ Len(inbox) <= InboxMax
    /\ outbox \in Seq(OutFrames) /\ Len(outbox) <= OutboxMax
    /\ rpc \in {"connecting", "get", "drain", "start", "awaitVoice", "textTurn",
                "exit", "save", "ended", "gone"}
    /\ term \in {"no", "signalled", "cancelled", "twice"}
    /\ cur \in Tasks \cup {None}
    /\ task \in [Tasks -> {"free", "running", "cancelled", "alive", "dead", "over"}]
    /\ conn \in BOOLEAN /\ activity \in BOOLEAN /\ owed \in BOOLEAN
    /\ sock \in [Handlers -> {"new", "open", "closed"}]
    /\ voiceActive \in [Handlers -> BOOLEAN]
    /\ forward \in [Handlers -> {"off", "get", "down"}]

\* Gemini's stream has one consumer at a time: two coroutines iterating
\* gsession.receive() would steal each other's events.
SingleReceiver ==
    Cardinality({t \in Tasks : Receiving(t)})
        + (IF rpc = "textTurn" THEN 1 ELSE 0) <= 1

\* Nothing follows the sentinel into the outbox, where no forward loop would
\* ever take it: the receive task is stopped before the sentinel is put.
SentinelIsLast ==
    \A n \in 1 .. Len(outbox) - 1 : outbox[n] # "STOP"

\* A receive task is always known to the runner while it can still emit, so
\* the next voice turn and the finally block are able to cancel it.
NoStrayReceiver == \A t \in Tasks : task[t] = "running" => cur = t

\* The runner does not wait for Gemini for ever, although neither a text turn
\* nor the end of a voice turn has a timeout: whenever it waits, an answer is
\* owed or the connection is gone.
TurnReturns == InTurn ~> ~InTurn

\* A sentinel in the outbox is taken, unless every forward loop has failed.
SentinelTaken ==
    (\E n \in DOMAIN outbox : outbox[n] = "STOP") /\ (\E h \in Handlers : forward[h] = "get")
        ~> (outbox = <<>> \/ \A h \in Handlers : forward[h] # "get")

-----------------------------------------------------------------------------
(* What comments in the code say and the code does not keep.                *)

\* core/session_state.py:70-71: the sentinel is put when the runner is done
\* and the forward loop, of each attached socket, watches for it and exits.
ForwardLoopsExit ==
    (\E n \in DOMAIN outbox : outbox[n] = "STOP")
        ~> \A h \in Handlers : forward[h] # "get"

=============================================================================
