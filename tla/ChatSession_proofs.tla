------------------------- MODULE ChatSession_proofs -------------------------
(***************************************************************************)
(* Proofs about ChatSession, for any number of WebSocket handlers, any     *)
(* number of receive tasks and queues of any size: Gemini's stream has one *)
(* consumer, the runner knows every receive task, and nothing follows the  *)
(* sentinel into the outbox.                                               *)
(***************************************************************************)
EXTENDS ChatSession, FiniteSetTheorems, SequenceTheorems, TLAPS

-----------------------------------------------------------------------------
(* The queues.                                                              *)

NoSentinel(q) == \A n \in 1 .. Len(q) : q[n] # "STOP"

\* The frames of a queue of bounded length.
Holds(q, Frames, max) == q \in Seq(Frames) /\ Len(q) <= max

\* put_nowait on the inbox keeps it within its size.
LEMMA PutFits ==
    ASSUME Holds(inbox, InFrames, InboxMax), NEW k \in InFrames, Put(k)
    PROVE  Holds(inbox', InFrames, InboxMax)
<1>1. Len(inbox) \in Nat
    BY LenProperties DEF Holds
<1>. QED
    BY <1>1, AppendProperties, QueueSizes DEF Put, Holds

\* What the runner pops is gone from the inbox, and nothing else is.
LEMMA PopFits ==
    ASSUME NEW q, NEW Frames, NEW max \in Nat, Holds(q, Frames, max), q # <<>>
    PROVE  /\ Holds(Tail(q), Frames, max)
           /\ Len(Tail(q)) = Len(q) - 1
           /\ \A n \in 1 .. Len(Tail(q)) : Tail(q)[n] = q[n + 1]
<1>1. q \in Seq(Frames) /\ Len(q) \in Nat /\ Len(q) <= max
    BY LenProperties DEF Holds
<1>. QED
    BY <1>1, HeadTailProperties DEF Holds

\* An item put into the outbox is its last, or is dropped.
LEMMA QueuedFits ==
    ASSUME NEW q, Holds(q, OutFrames, OutboxMax), NEW k \in OutFrames
    PROVE  /\ Holds(Queued(q, k), OutFrames, OutboxMax)
           /\ \/ Queued(q, k) = q
              \/ /\ Len(Queued(q, k)) = Len(q) + 1
                 /\ Queued(q, k)[Len(q) + 1] = k
                 /\ \A n \in 1 .. Len(q) : Queued(q, k)[n] = q[n]
<1>1. q \in Seq(OutFrames) /\ Len(q) \in Nat /\ Len(q) <= OutboxMax
    BY LenProperties DEF Holds
<1>. QED
    BY <1>1, AppendProperties, QueueSizes DEF Queued, Holds

\* Items other than the sentinel leave an outbox without sentinels so.
LEMMA QueuedPlain ==
    ASSUME NEW q, Holds(q, OutFrames, OutboxMax), NoSentinel(q),
           NEW k \in OutFrames \ {"STOP"}
    PROVE  NoSentinel(Queued(q, k))
<1>1. Len(q) \in Nat
    BY LenProperties DEF Holds
<1>. QED
    BY <1>1, QueuedFits DEF NoSentinel

-----------------------------------------------------------------------------
(* The inductive invariant.                                                 *)

\* The runner knows every receive task that has not finished.
ReceiverKnown == \A t \in Tasks : Receiving(t) => cur = t

\* While the runner connects, starts a voice turn or reads the stream itself,
\* no receive task does.
StreamFree ==
    rpc \in {"connecting", "start", "textTurn"} => \A t \in Tasks : ~Receiving(t)

\* The runner waits only for a task there is.
WaitsForTask == rpc \in {"drain", "awaitVoice"} => cur # None

\* Once the runner has left the loop and the finally block has begun, no
\* receive task goes on.
StoppedBeforeSave ==
    rpc \in {"save", "ended", "gone"} => \A t \in Tasks : task[t] # "running"

\* The sentinel comes with the end of the runner.
SentinelAtEnd == rpc \notin {"ended", "gone"} => NoSentinel(outbox)

TasksInv == ReceiverKnown /\ StreamFree /\ WaitsForTask /\ StoppedBeforeSave

ChatInv == TypeOK /\ TasksInv /\ SentinelAtEnd /\ SentinelIsLast

-----------------------------------------------------------------------------
(* Types.                                                                   *)

\* The queues are within their sizes.
LEMMA QueuesFit ==
    ASSUME TypeOK
    PROVE  Holds(inbox, InFrames, InboxMax) /\ Holds(outbox, OutFrames, OutboxMax)
BY DEF TypeOK, Holds

\* A step of a handler keeps the types.
LEMMA HandlerTyped ==
    ASSUME TypeOK, NEW h \in Handlers,
           Attach(h) \/ Receive(h) \/ Disconnect(h) \/ Forward(h)
    PROVE  TypeOK'
<1>1. CASE Attach(h) \/ Disconnect(h)
    BY <1>1 DEF Attach, Disconnect, TypeOK, queues, tasks, gemini
<1>2. CASE Receive(h)
    <2>1. Holds(inbox', InFrames, InboxMax)
        BY <1>2, QueuesFit, PutFits
           DEF Receive, ClientText, ClientAudio, ClientVoiceStart, ClientVoiceEnd, ClientSpeaker,
               ClientInterrupt, InFrames
    <2>2. voiceActive' \in [Handlers -> BOOLEAN]
        BY <1>2
           DEF Receive, ClientText, ClientAudio, ClientVoiceStart, ClientVoiceEnd, ClientSpeaker,
               ClientInterrupt, TypeOK
    <2>. QED  BY <1>2, <2>1, <2>2 DEF Receive, TypeOK, Holds, tasks, gemini
<1>3. CASE Forward(h)
    <2>1. Holds(outbox', OutFrames, OutboxMax)
        BY <1>3, QueuesFit, PopFits, QueueSizes DEF Forward
    <2>. QED  BY <1>3, <2>1 DEF Forward, TypeOK, Holds, tasks, gemini
<1>. QED  BY <1>1, <1>2, <1>3

\* What Emit leaves in the outbox.
LEMMA EmitFits ==
    ASSUME TypeOK, NEW k \in OutFrames, Emit(k) \/ UNCHANGED outbox
    PROVE  Holds(outbox', OutFrames, OutboxMax)
BY QueuesFit, QueuedFits DEF Emit

\* What popping leaves in the inbox.
LEMMA PopsFits ==
    ASSUME TypeOK, NEW k \in InFrames, Pops(k)
    PROVE  Holds(inbox', InFrames, InboxMax)
BY QueuesFit, PopFits, QueueSizes DEF Pops

\* A frame taken by the runner keeps the types.
LEMMA FrameTyped ==
    ASSUME TypeOK, TakeFrame
    PROVE  TypeOK'
<1>1. Holds(inbox', InFrames, InboxMax)
    BY PopsFits
       DEF TakeFrame, TakeStop, TakeSpeaker, TakeAudio, TakeStart, TakeEnd, TakeText, DropText,
           InFrames
<1>2. Holds(outbox', OutFrames, OutboxMax)
    BY EmitFits
       DEF TakeFrame, TakeStop, TakeSpeaker, TakeAudio, TakeStart, TakeEnd, TakeText, DropText,
           OutFrames
<1>3. CASE TakeStop \/ TakeSpeaker \/ TakeAudio \/ DropText
    BY <1>1, <1>2, <1>3
       DEF TakeStop, TakeSpeaker, TakeAudio, DropText, TypeOK, Holds, tasks, gemini, handlers
<1>4. CASE TakeStart
    BY <1>1, <1>2, <1>4 DEF TakeStart, Lingering, TypeOK, Holds, tasks, gemini, handlers
<1>5. CASE TakeEnd
    BY <1>1, <1>2, <1>5 DEF TakeEnd, TypeOK, Holds, tasks, handlers
<1>6. CASE TakeText
    BY <1>1, <1>2, <1>6 DEF TakeText, TypeOK, Holds, tasks, handlers
<1>. QED
    BY <1>3, <1>4, <1>5, <1>6 DEF TakeFrame

\* A step of the runner between frames, of Gemini or of a receive task keeps
\* the types.
LEMMA RunnerTyped ==
    ASSUME TypeOK, WaitsForTask,
           \/ Opened \/ Drained \/ SendStart \/ VoiceDone \/ TtlExpires
           \/ Breaks \/ AnswerPart \/ TextDone
           \/ \E t \in Tasks : RecvDone(t) \/ RecvCancelled(t)
    PROVE  TypeOK'
<1>1. CASE Opened
    <2>1. Holds(outbox', OutFrames, OutboxMax)
        BY <1>1, EmitFits DEF Opened, OutFrames
    <2>. QED  BY <1>1, <2>1 DEF Opened, TypeOK, Holds, tasks, handlers
<1>2. CASE Drained \/ VoiceDone
    <2>1. cur \in Tasks
        BY <1>2 DEF Drained, VoiceDone, WaitsForTask, TypeOK
    <2>. QED  BY <1>2, <2>1 DEF Drained, VoiceDone, TypeOK, queues, gemini, handlers
<1>3. CASE SendStart
    <2>1. Holds(outbox', OutFrames, OutboxMax)
        BY <1>3, EmitFits DEF SendStart, OutFrames
    <2>2. activity' \in BOOLEAN /\ cur' \in Tasks \cup {None}
        BY <1>3 DEF SendStart, TypeOK, tasks
    <2>3. task' \in [Tasks -> {"free", "running", "cancelled", "alive", "dead", "over"}]
        BY <1>3 DEF SendStart, TypeOK, tasks
    <2>. QED  BY <1>3, <2>1, <2>2, <2>3 DEF SendStart, TypeOK, Holds, handlers
<1>4. CASE TtlExpires \/ Breaks
    BY <1>4 DEF TtlExpires, Breaks, TypeOK, queues, tasks, gemini, handlers
<1>5. CASE AnswerPart \/ TextDone
    <2>1. Holds(outbox', OutFrames, OutboxMax)
        BY <1>5, EmitFits DEF AnswerPart, TextDone, Completes, StreamEnds, OutFrames
    <2>. QED
        BY <1>5, <2>1
           DEF AnswerPart, TextDone, Completes, StreamEnds, TypeOK, Holds, tasks, gemini, handlers
<1>6. ASSUME NEW t \in Tasks, RecvDone(t) \/ RecvCancelled(t)
      PROVE  TypeOK'
    <2>1. Holds(outbox', OutFrames, OutboxMax)
        BY <1>6, EmitFits DEF RecvDone, RecvCancelled, Completes, StreamEnds, OutFrames, queues
    <2>2. CASE RecvDone(t)
        BY <2>1, <2>2 DEF RecvDone, Completes, StreamEnds, TypeOK, Holds, handlers
    <2>3. CASE RecvCancelled(t)
        BY <2>3 DEF RecvCancelled, TypeOK, queues, gemini, handlers
    <2>. QED  BY <1>6, <2>2, <2>3
<1>. QED  BY <1>1, <1>2, <1>3, <1>4, <1>5, <1>6

\* A step that ends the session keeps the types.
LEMMA EndTyped ==
    ASSUME TypeOK, ManagerStop \/ ManagerCancel \/ Closed \/ Saved \/ OnRunnerDone
    PROVE  TypeOK'
<1>1. CancelledTasks \in [Tasks -> {"free", "running", "cancelled", "alive", "dead", "over"}]
    BY DEF CancelledTasks, Lingering, TypeOK
<1>2. CASE ManagerStop
    <2>1. Holds(inbox', InFrames, InboxMax)
        BY <1>2, QueuesFit, PutFits DEF ManagerStop, InFrames
    <2>. QED  BY <1>2, <2>1 DEF ManagerStop, TypeOK, Holds, tasks, gemini, handlers
<1>3. CASE ManagerCancel
    <2>1. rpc' \in {"save", "ended", "drain", "exit"}
        BY <1>3, Zenon DEF ManagerCancel
    <2>. QED  BY <1>1, <1>3, <2>1 DEF ManagerCancel, TypeOK, queues, handlers
<1>4. CASE Closed \/ OnRunnerDone
    BY <1>1, <1>4 DEF Closed, OnRunnerDone, TypeOK, queues, tasks, gemini, handlers
<1>5. CASE Saved
    <2>1. Holds(Queued(outbox, "ended"), OutFrames, OutboxMax)
        BY QueuesFit, QueuedFits DEF OutFrames
    <2>2. Holds(outbox', OutFrames, OutboxMax)
        BY <1>5, <2>1, QueuedFits DEF Saved, OutFrames
    <2>. QED  BY <1>5, <2>2 DEF Saved, TypeOK, Holds, tasks, gemini, handlers
<1>. QED  BY <1>2, <1>3, <1>4, <1>5

-----------------------------------------------------------------------------
(* Receive tasks.                                                           *)

\* A step that spawns no receive task and does not move the runner keeps what
\* is known about the tasks.
LEMMA IdleKeepsTasks ==
    ASSUME TasksInv, UNCHANGED <<rpc, cur>>,
           \A t \in Tasks : /\ Receiving(t)' => Receiving(t)
                            /\ task'[t] = "running" => task[t] = "running"
    PROVE  TasksInv'
BY DEF TasksInv, ReceiverKnown, StreamFree, WaitsForTask, StoppedBeforeSave

\* A frame taken by the runner keeps the tasks known.
LEMMA FrameKeepsTasks ==
    ASSUME TypeOK, TasksInv, TakeFrame
    PROVE  TasksInv'
<1>1. \A t \in Tasks : Receiving(t) => cur = t
    BY DEF TasksInv, ReceiverKnown
<1>2. CASE TakeSpeaker \/ TakeAudio \/ DropText
    BY <1>2
       DEF TakeSpeaker, TakeAudio, DropText, TasksInv, ReceiverKnown, StreamFree, WaitsForTask,
           StoppedBeforeSave, Receiving, tasks
<1>3. CASE TakeStop \/ TakeEnd
    BY <1>3
       DEF TakeStop, TakeEnd, TasksInv, ReceiverKnown, StreamFree, WaitsForTask,
           StoppedBeforeSave, Receiving, tasks
<1>4. CASE TakeStart
    BY <1>1, <1>4, NoneIsNoTask
       DEF TakeStart, Lingering, TypeOK, TasksInv, ReceiverKnown, StreamFree, WaitsForTask,
           StoppedBeforeSave, Receiving, tasks
<1>5. CASE TakeText
    BY <1>1, <1>5, NoneIsNoTask
       DEF TakeText, Pops, Lingering, TypeOK, TasksInv, ReceiverKnown, StreamFree, WaitsForTask,
           StoppedBeforeSave, Receiving, tasks
<1>. QED
    BY <1>2, <1>3, <1>4, <1>5 DEF TakeFrame

\* So does every other step of the runner, and every step of a receive task.
LEMMA RunnerKeepsTasks ==
    ASSUME TypeOK, TasksInv,
           \/ Opened \/ Drained \/ SendStart \/ VoiceDone \/ TtlExpires
           \/ Breaks \/ AnswerPart \/ TextDone
           \/ \E t \in Tasks : RecvDone(t) \/ RecvCancelled(t)
    PROVE  TasksInv'
<1>1. CASE Opened \/ TtlExpires \/ TextDone
    BY <1>1
       DEF Opened, TtlExpires, TextDone, TasksInv, ReceiverKnown, StreamFree, WaitsForTask,
           StoppedBeforeSave, Receiving, tasks
<1>2. CASE Drained \/ VoiceDone
    <2>1. cur \in Tasks /\ task' = [task EXCEPT ![cur] = "free"] /\ cur' = None
        BY <1>2 DEF Drained, VoiceDone, TasksInv, WaitsForTask, TypeOK
    <2>2. \A t \in Tasks : ~Receiving(t)
        BY <1>2 DEF Drained, VoiceDone, TasksInv, ReceiverKnown
    <2>3. \A t \in Tasks : ~Receiving(t)' /\ task'[t] # "running"
        BY <2>1, <2>2 DEF Receiving, TypeOK
    <2>4. rpc' \in {"start", "get", "exit"}
        BY <1>2 DEF Drained, VoiceDone
    <2>. QED
        BY <2>3, <2>4 DEF TasksInv, ReceiverKnown, StreamFree, WaitsForTask, StoppedBeforeSave
<1>3. CASE SendStart
    <2>1. rpc' = "get" /\ \A t \in Tasks : ~Receiving(t)
        BY <1>3 DEF SendStart, TasksInv, StreamFree
    <2>2. ReceiverKnown'
        BY <1>3, <2>1 DEF SendStart, ReceiverKnown, Receiving, TypeOK, tasks
    <2>. QED
        BY <2>1, <2>2 DEF TasksInv, StreamFree, WaitsForTask, StoppedBeforeSave
<1>4. CASE Breaks \/ AnswerPart
    BY <1>4, IdleKeepsTasks DEF Breaks, AnswerPart, Receiving, tasks
<1>5. ASSUME NEW t \in Tasks, RecvDone(t) \/ RecvCancelled(t)
      PROVE  TasksInv'
    BY <1>5, IdleKeepsTasks DEF RecvDone, RecvCancelled, Receiving, TypeOK
<1>. QED  BY <1>1, <1>2, <1>3, <1>4, <1>5

\* The finally block stops the receive task before the session is saved; a
\* cancellation that comes while the connection closes does so too.
LEMMA EndKeepsTasks ==
    ASSUME TypeOK, TasksInv, ManagerStop \/ ManagerCancel \/ Closed \/ Saved \/ OnRunnerDone
    PROVE  TasksInv'
<1>1. /\ \A t \in Tasks : CancelledTasks[t] \in {"running", "cancelled"} => Receiving(t)
      /\ \A t \in Tasks : CancelledTasks[t] # "running"
    BY NoneIsNoTask
       DEF CancelledTasks, Lingering, Receiving, TypeOK, TasksInv, ReceiverKnown
<1>2. CASE ManagerStop
    BY <1>2, IdleKeepsTasks DEF ManagerStop, Receiving, tasks
<1>3. CASE ManagerCancel
    <2>1. /\ rpc \in {"connecting", "exit"} => rpc' = "save"
          /\ rpc = "save" => rpc' = "ended"
          /\ rpc = "drain" => rpc' = "drain"
          /\ rpc \notin {"connecting", "exit", "save", "drain"} => rpc' = "exit"
        BY <1>3, Zenon DEF ManagerCancel
    <2>2. \A t \in Tasks : Receiving(t)' => Receiving(t)
        BY <1>1, <1>3 DEF ManagerCancel, Receiving
    <2>3. ReceiverKnown'
        BY <1>3, <2>2 DEF ManagerCancel, TasksInv, ReceiverKnown
    <2>4. StreamFree' /\ WaitsForTask'
        BY <1>3, <2>1 DEF ManagerCancel, TasksInv, StreamFree, WaitsForTask, TypeOK
    <2>5. StoppedBeforeSave'
        BY <1>1, <1>3, <2>1
           DEF ManagerCancel, TasksInv, StreamFree, StoppedBeforeSave, Receiving, TypeOK
    <2>. QED  BY <2>3, <2>4, <2>5 DEF TasksInv
<1>4. CASE Closed
    BY <1>1, <1>4
       DEF Closed, TasksInv, ReceiverKnown, StreamFree, WaitsForTask, StoppedBeforeSave, Receiving
<1>5. CASE Saved \/ OnRunnerDone
    BY <1>5
       DEF Saved, OnRunnerDone, TasksInv, ReceiverKnown, StreamFree, WaitsForTask,
           StoppedBeforeSave, Receiving, tasks
<1>. QED  BY <1>2, <1>3, <1>4, <1>5

-----------------------------------------------------------------------------
(* The sentinel.                                                            *)

\* An outbox without sentinels has none before its last item.
LEMMA NoneIsLast == ASSUME TypeOK, NoSentinel(outbox) PROVE SentinelIsLast
BY LenProperties DEF TypeOK, NoSentinel, SentinelIsLast

\* Only steps of an unfinished runner, or of a running receive task, put
\* anything into the outbox; Saved alone puts the sentinel.
LEMMA WhoEmits ==
    ASSUME TypeOK, TasksInv, [Next]_vars
    PROVE  \/ UNCHANGED outbox /\ (rpc' \in {"ended", "gone"} \/ rpc \notin {"ended", "gone"})
           \/ \E h \in Handlers : Forward(h)
           \/ /\ rpc \notin {"ended", "gone"}
              /\ \E k \in OutFrames \ {"STOP"} : Emit(k)
           \/ Saved
<1>1. \A t \in Tasks : RecvDone(t) => rpc \notin {"ended", "gone"}
    BY DEF RecvDone, TasksInv, StoppedBeforeSave
<1>2. AnswerPart => rpc \notin {"ended", "gone"}
    BY DEF AnswerPart, TasksInv, StoppedBeforeSave
<1>. QED
    BY <1>1, <1>2
       DEF Next, vars, queues, tasks, gemini, handlers, Attach, Receive, Disconnect, Opened,
           TakeFrame, TakeStop, TakeSpeaker, TakeAudio, TakeStart, TakeEnd, TakeText, DropText,
           Pops, Drained, SendStart, VoiceDone, TtlExpires, Breaks, AnswerPart, TextDone,
           RecvDone, RecvCancelled, Completes, StreamEnds, ManagerStop, ManagerCancel, Closed,
           OnRunnerDone, OutFrames

\* Every step keeps the sentinel last, and out of the outbox until the end.
LEMMA SentinelKeeps ==
    ASSUME ChatInv, [Next]_vars
    PROVE  SentinelAtEnd' /\ SentinelIsLast'
<1>1. TypeOK /\ Holds(outbox, OutFrames, OutboxMax) /\ Len(outbox) \in Nat /\ OutboxMax \in Nat
    BY QueuesFit, LenProperties, QueueSizes DEF ChatInv, TypeOK
<1>2. CASE UNCHANGED outbox /\ (rpc' \in {"ended", "gone"} \/ rpc \notin {"ended", "gone"})
    BY <1>2 DEF ChatInv, SentinelAtEnd, SentinelIsLast, NoSentinel
<1>3. ASSUME NEW h \in Handlers, Forward(h)
      PROVE  SentinelAtEnd' /\ SentinelIsLast'
    <2>1. /\ outbox' = Tail(outbox) /\ rpc' = rpc
          /\ Len(outbox') = Len(outbox) - 1
          /\ \A n \in 1 .. Len(outbox') : outbox'[n] = outbox[n + 1]
        BY <1>1, <1>3, PopFits DEF Forward
    <2>2. SentinelAtEnd'
        BY <1>1, <2>1 DEF ChatInv, SentinelAtEnd, NoSentinel
    <2>3. SentinelIsLast'
        BY <1>1, <2>1 DEF ChatInv, SentinelIsLast
    <2>. QED  BY <2>2, <2>3
<1>4. ASSUME rpc \notin {"ended", "gone"}, NEW k \in OutFrames \ {"STOP"}, Emit(k)
      PROVE  SentinelAtEnd' /\ SentinelIsLast'
    <2>1. Holds(outbox', OutFrames, OutboxMax) /\ NoSentinel(outbox')
        BY <1>1, <1>4, QueuedFits, QueuedPlain DEF Emit, ChatInv, SentinelAtEnd
    <2>2. Len(outbox') \in Nat
        BY <2>1, LenProperties DEF Holds
    <2>. QED
        BY <2>1, <2>2 DEF SentinelAtEnd, SentinelIsLast, NoSentinel
<1>5. CASE Saved
    <2>1. PICK q : q = Queued(outbox, "ended")
        OBVIOUS
    <2>2. NoSentinel(outbox) /\ "ended" \in OutFrames \ {"STOP"} /\ "STOP" \in OutFrames
        BY <1>5 DEF Saved, ChatInv, SentinelAtEnd, OutFrames
    <2>3. Holds(q, OutFrames, OutboxMax) /\ NoSentinel(q)
        BY <1>1, <2>1, <2>2, QueuedFits, QueuedPlain
    <2>4. Len(q) \in Nat
        BY <2>3, LenProperties DEF Holds
    <2>5. outbox' = Queued(q, "STOP") /\ rpc' = "ended"
        BY <1>5, <2>1 DEF Saved
    <2>6. \/ outbox' = q
          \/ /\ Len(outbox') = Len(q) + 1
             /\ \A n \in 1 .. Len(q) : outbox'[n] = q[n]
        BY <2>2, <2>3, <2>5, QueuedFits
    <2>. QED
        BY <2>3, <2>4, <2>5, <2>6 DEF SentinelAtEnd, SentinelIsLast, NoSentinel
<1>. QED
    BY <1>1, <1>2, <1>3, <1>4, <1>5, WhoEmits DEF ChatInv

-----------------------------------------------------------------------------
(* The whole.                                                               *)

\* The invariant holds before the runner has connected.
LEMMA InitInv == Init => ChatInv
<1>. SUFFICES ASSUME Init PROVE ChatInv
    OBVIOUS
<1>1. TypeOK
    <2>1. inbox \in Seq(InFrames) /\ outbox \in Seq(OutFrames) /\ Len(inbox) = 0 /\ Len(outbox) = 0
        BY EmptySeq DEF Init
    <2>2. Len(inbox) <= InboxMax /\ Len(outbox) <= OutboxMax
        BY <2>1, QueueSizes
    <2>3. conn \in BOOLEAN /\ activity \in BOOLEAN /\ owed \in BOOLEAN
        BY Zenon DEF Init
    <2>4. /\ task \in [Tasks -> {"free", "running", "cancelled", "alive", "dead", "over"}]
          /\ sock \in [Handlers -> {"new", "open", "closed"}]
          /\ voiceActive \in [Handlers -> BOOLEAN]
          /\ forward \in [Handlers -> {"off", "get", "down"}]
        BY DEF Init
    <2>. QED  BY <2>1, <2>2, <2>3, <2>4 DEF Init, TypeOK
<1>2. TasksInv
    BY DEF Init, TasksInv, ReceiverKnown, StreamFree, WaitsForTask, StoppedBeforeSave, Receiving
<1>3. SentinelAtEnd /\ SentinelIsLast
    BY EmptySeq DEF Init, SentinelAtEnd, NoSentinel, SentinelIsLast
<1>. QED  BY <1>1, <1>2, <1>3 DEF ChatInv

\* Every step keeps it.
LEMMA NextKeeps == ChatInv /\ [Next]_vars => ChatInv'
<1>. SUFFICES ASSUME ChatInv, [Next]_vars PROVE ChatInv'
    OBVIOUS
<1>. TypeOK /\ TasksInv /\ WaitsForTask
    BY DEF ChatInv, TasksInv
<1>1. SentinelAtEnd' /\ SentinelIsLast'
    BY SentinelKeeps
<1>2. TypeOK' /\ TasksInv'
    <2>1. CASE UNCHANGED vars
        BY <2>1
           DEF vars, queues, tasks, gemini, handlers, TypeOK, TasksInv, ReceiverKnown, StreamFree,
               WaitsForTask, StoppedBeforeSave, Receiving
    <2>2. ASSUME NEW h \in Handlers, Attach(h) \/ Receive(h) \/ Disconnect(h) \/ Forward(h)
          PROVE  TypeOK' /\ TasksInv'
        <3>1. TypeOK'
            BY <2>2, HandlerTyped
        <3>2. UNCHANGED <<rpc, cur, task>>
            BY <2>2 DEF Attach, Receive, Disconnect, Forward, tasks
        <3>. QED  BY <3>1, <3>2, IdleKeepsTasks DEF Receiving
    <2>3. CASE TakeFrame
        BY <2>3, FrameTyped, FrameKeepsTasks
    <2>4. CASE ManagerStop \/ ManagerCancel \/ Closed \/ Saved \/ OnRunnerDone
        BY <2>4, EndTyped, EndKeepsTasks
    <2>5. CASE \/ Opened \/ Drained \/ SendStart \/ VoiceDone \/ TtlExpires
               \/ Breaks \/ AnswerPart \/ TextDone
               \/ \E t \in Tasks : RecvDone(t) \/ RecvCancelled(t)
        BY <2>5, RunnerTyped, RunnerKeepsTasks
    <2>. QED  BY <2>1, <2>2, <2>3, <2>4, <2>5 DEF Next
<1>. QED  BY <1>1, <1>2 DEF ChatInv

\* The invariant holds in every reachable state.
THEOREM ChatInvHolds == Spec => []ChatInv
BY InitInv, NextKeeps, PTL DEF Spec

\* The variables keep their types; the queues stay within their sizes.
THEOREM ChatTypeCorrect == Spec => []TypeOK
<1>1. ChatInv => TypeOK
    BY DEF ChatInv
<1>. QED  BY <1>1, ChatInvHolds, PTL

\* However voice turns, text turns, cancellations and the end of the session
\* overlap, gsession.receive() has one consumer at a time.
THEOREM OneReceiver == Spec => []SingleReceiver
<1>1. ChatInv => SingleReceiver
    <2>. SUFFICES ASSUME ChatInv PROVE SingleReceiver
        OBVIOUS
    <2>. DEFINE R == {t \in Tasks : Receiving(t)}
    <2>1. R \in SUBSET {cur} /\ (rpc = "textTurn" => R = {})
        BY DEF ChatInv, TasksInv, ReceiverKnown, StreamFree
    <2>2. IsFiniteSet({cur}) /\ Cardinality({cur}) = 1
        BY FS_Singleton
    <2>3. Cardinality(R) \in Nat /\ Cardinality(R) <= 1
        BY <2>1, <2>2, FS_Subset, FS_CardinalityType
    <2>4. rpc = "textTurn" => Cardinality(R) = 0
        BY <2>1, FS_EmptySet
    <2>. QED  BY <2>3, <2>4 DEF SingleReceiver
<1>. QED  BY <1>1, ChatInvHolds, PTL

\* A receive task that can still emit is the one the runner holds.
THEOREM ReceiversAreKnown == Spec => []NoStrayReceiver
<1>1. ChatInv => NoStrayReceiver
    BY DEF ChatInv, TasksInv, ReceiverKnown, NoStrayReceiver, Receiving
<1>. QED  BY <1>1, ChatInvHolds, PTL

\* Nothing follows the sentinel into the outbox.
THEOREM NothingAfterSentinel == Spec => []SentinelIsLast
<1>1. ChatInv => SentinelIsLast
    BY DEF ChatInv
<1>. QED  BY <1>1, ChatInvHolds, PTL

=============================================================================
