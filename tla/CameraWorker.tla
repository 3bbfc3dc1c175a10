---------------------------- MODULE CameraWorker ----------------------------
(***************************************************************************)
(* One camera: the worker task that connects, streams and retries          *)
(* (camera/worker.rs), the GStreamer pipelines that push frames into its   *)
(* broadcast channel (camera/pipeline.rs), its shared CameraStatus         *)
(* (camera/status.rs), and the task that takes its messages and publishes  *)
(* stream_up and stream_down (start_processing_task in camera/manager.rs). *)
(*                                                                         *)
(* The two tasks run on different threads and share the status and a       *)
(* bounded message channel.  The worker is modelled between two awaits;    *)
(* the frames are only counted.  A pipeline that can deliver frames does so *)
(* within 10 s: only a dead pipeline or a lost link makes the silence that *)
(* the code takes for a lost camera.  The writes of update_state are one   *)
(* step: the other task reads only the reconnect count, written last.      *)
(***************************************************************************)
EXTENDS Integers, Sequences

CONSTANTS
  QueueCapacity,   \* mpsc::channel(100)
  RingCapacity,    \* FRAME_BROADCAST_CAPACITY, 16
  MaxRetries,      \* ReconnectConfig::max_retries, 10
  DownThreshold,   \* reconnect_count that publishes stream_down, 3
  InitialDelay,    \* ReconnectConfig::initial_delay_ms
  Multiplier,      \* ReconnectConfig::backoff_multiplier, 2
  MaxDelay         \* ReconnectConfig::max_delay_ms

ASSUME ConstantsValid ==
  /\ {QueueCapacity, RingCapacity, MaxRetries, DownThreshold,
      InitialDelay, Multiplier, MaxDelay} \subseteq Nat \ {0}
  /\ InitialDelay <= MaxDelay

VARIABLES
  link,      \* the camera is reachable and sends frames
  prompt,    \* assumed: the task drains the channel within a back-off sleep
  pc,        \* where the worker task is
  outbox,    \* messages the worker is about to send, in order
  live,      \* pipelines that push frames: of this attempt, of an earlier one
  rx,        \* frames waiting in the worker's receiver; Closed when it has none
  lagged,    \* the receiver has been overrun
  first,     \* first_frame
  status,    \* the shared CameraStatus
  errors,    \* consecutive_errors
  delay,     \* current_delay
  queue,     \* the message channel
  hand,      \* the message the processing task works on
  due,       \* should_emit: the count called for stream_down when it was read
  serving,   \* the processing task runs (its receiver exists)
  told,      \* history: state of the last StateChanged taken
  signal,    \* history: last of stream_up and stream_down published
  downs      \* history: stream_down published since the last Streaming, up to 2

worker == <<pc, outbox, live, rx, lagged, first, status, errors, delay>>
task   == <<queue, hand, due, serving, told, signal, downs>>
env    == <<link, prompt>>
vars   == <<env, worker, task>>

Closed == -1
Frame  == [type |-> "Frame"]
StateChanged(state, error) ==
  [type |-> "StateChanged", state |-> state, error |-> error]

Smaller(a, b) == IF a < b THEN a ELSE b

-----------------------------------------------------------------------------
\* CameraStatus after set_state, set_error and increment_reconnect.  The count
\* is only ever compared with DownThreshold: one value stands for all above.
SetState(state, error) ==
  [state |-> state, error |-> error,
   reconnects |-> CASE state = "Streaming" -> 0
                    [] state = "Reconnecting" /\ status.state # state ->
                         Smaller(status.reconnects + 1, DownThreshold + 1)
                    [] OTHER -> status.reconnects]

\* Mutant of News: Connected, which nobody acts on, is not announced.
NewsDropped(state, error) ==
  IF status.state # state /\ state # "Connected"
  THEN <<StateChanged(state, error)>> ELSE <<>>

\* The message update_state sends: only when the state really changed.
News(state, error) ==
  IF status.state # state THEN <<StateChanged(state, error)>> ELSE <<>>

\* WorkerLoop::update_state.
UpdateState(state, error) ==
  /\ status' = SetState(state, error)
  /\ outbox' = News(state, error)

\* Mutant of ResetBackoff: the delay survives a successful stream.
ResetErrorsOnly == errors' = 0 /\ UNCHANGED delay

ResetBackoff == errors' = 0 /\ delay' = InitialDelay

\* The worker is at an await other than the sending of a message.
At(point) == pc = point /\ outbox = <<>>

-----------------------------------------------------------------------------
(* The worker task.                                                        *)

\* connect_and_stream announces the attempt.
Connect ==
  /\ At("connect")
  /\ UpdateState("Connecting", FALSE)
  /\ pc' = "subscribe"
  /\ UNCHANGED <<env, live, rx, lagged, first, errors, delay, task>>

\* It subscribes before it builds the pipeline.  The pipeline of an earlier
\* attempt is still held, and still pushes into the same channel.
Subscribe ==
  /\ At("subscribe")
  /\ rx' = 0 /\ lagged' = FALSE
  /\ live' = IF live = {} THEN {} ELSE {"old"}
  /\ pc' = "build"
  /\ UNCHANGED <<env, outbox, first, status, errors, delay, task>>

\* Mutant of StreamError: the count is compared before it is incremented.
StreamErrorLate ==
  /\ rx' = Closed /\ lagged' = FALSE
  /\ errors' = errors + 1
  /\ IF errors > MaxRetries
     THEN UpdateState("Failed", TRUE) /\ pc' = "cooloff"
     ELSE UpdateState("Reconnecting", TRUE) /\ pc' = "backoff"
  /\ UNCHANGED <<env, delay, task>>

\* Mutant of StreamError: the reason is not passed on.
StreamErrorSilent ==
  /\ rx' = Closed /\ lagged' = FALSE
  /\ errors' = errors + 1
  /\ IF errors + 1 >= MaxRetries
     THEN UpdateState("Failed", TRUE) /\ pc' = "cooloff"
     ELSE UpdateState("Reconnecting", FALSE) /\ pc' = "backoff"
  /\ UNCHANGED <<env, delay, task>>

\* The Err branch of run(): the receiver is gone, the error is counted, and
\* the worker sleeps before the next attempt.
StreamError ==
  /\ rx' = Closed /\ lagged' = FALSE
  /\ errors' = errors + 1
  /\ IF errors + 1 >= MaxRetries
     THEN UpdateState("Failed", TRUE) /\ pc' = "cooloff"
     ELSE UpdateState("Reconnecting", TRUE) /\ pc' = "backoff"
  /\ UNCHANGED <<env, delay, task>>

\* build() and start() succeed; until Install both pipelines may push.
Build ==
  /\ At("build")
  /\ live' = live \union {"current"}
  /\ pc' = "install"
  /\ UNCHANGED <<env, outbox, rx, lagged, first, status, errors, delay, task>>

\* build() or start() fails: the new pipeline is dropped, the old one is kept.
BuildFails ==
  /\ At("build") /\ ~link
  /\ StreamError
  /\ UNCHANGED <<live, first>>

\* Mutant of Install: the new loop does not wait for its first frame.
InstallNotFirst ==
  /\ At("install")
  /\ live' = {"current"}
  /\ UpdateState("Connected", FALSE)
  /\ pc' = "recv"
  /\ UNCHANGED <<env, rx, lagged, first, errors, delay, task>>

\* The assignment to self.pipeline drops, and so stops, the old pipeline.
Install ==
  /\ At("install")
  /\ live' = {"current"}
  /\ first' = TRUE
  /\ UpdateState("Connected", FALSE)
  /\ pc' = "recv"
  /\ UNCHANGED <<env, rx, lagged, errors, delay, task>>

\* streaming_loop takes a frame; the sampler decides whether it is sent on.
ReceiveFrame(sampled) ==
  /\ At("recv") /\ rx > 0 /\ ~lagged
  /\ rx' = rx - 1
  /\ first' = FALSE
  /\ LET frame == IF sampled THEN <<Frame>> ELSE <<>> IN
     IF first
     THEN /\ status' = SetState("Streaming", FALSE)
          /\ outbox' = News("Streaming", FALSE) \o frame
          /\ ResetBackoff
     ELSE outbox' = frame /\ UNCHANGED <<status, errors, delay>>
  /\ UNCHANGED <<env, pc, live, lagged, task>>

\* RecvError::Lagged: the overrun is reported once, then reading goes on.
ReceiveLagged ==
  /\ At("recv") /\ lagged
  /\ lagged' = FALSE
  /\ UNCHANGED <<env, pc, outbox, live, rx, first, status, errors, delay, task>>

\* No frame for 10 seconds.
ReceiveTimeout ==
  /\ At("recv") /\ rx = 0 /\ ~lagged
  /\ ~(link /\ "current" \in live)
  /\ StreamError
  /\ UNCHANGED <<live, first>>

\* The back-off sleep ends.  With prompt the sleep outlasts the work that
\* was queued when it began.
Retry ==
  /\ At("backoff")
  /\ prompt => queue = <<>> /\ hand = <<>>
  /\ delay' = Smaller(delay * Multiplier, MaxDelay)
  /\ pc' = "connect"
  /\ UNCHANGED <<env, outbox, live, rx, lagged, first, status, errors, task>>

\* The 60 s sleep of a failed camera ends.
RetryFailed ==
  /\ At("cooloff")
  /\ prompt => queue = <<>> /\ hand = <<>>
  /\ ResetBackoff
  /\ pc' = "connect"
  /\ UNCHANGED <<env, outbox, live, rx, lagged, first, status, task>>

\* tx.send().await waits for room in the channel.
Send ==
  /\ outbox # <<>> /\ serving
  /\ Len(queue) < QueueCapacity
  /\ queue' = Append(queue, Head(outbox))
  /\ outbox' = Tail(outbox)
  /\ UNCHANGED <<env, pc, live, rx, lagged, first, status, errors, delay,
                 hand, due, serving, told, signal, downs>>

\* The receiver is gone: a lost StateChanged is ignored, a lost Frame ends
\* the task, whose pipeline stops when the loop is dropped.
SendFails ==
  /\ outbox # <<>> /\ ~serving
  /\ outbox' = Tail(outbox)
  /\ IF Head(outbox) = Frame
     THEN pc' = "done" /\ live' = {} /\ rx' = Closed /\ lagged' = FALSE
     ELSE UNCHANGED <<pc, live, rx, lagged>>
  /\ UNCHANGED <<env, first, status, errors, delay, task>>

\* CameraWorker::stop aborts the task, before it starts or at an await, and
\* drops its loop.
Stop ==
  /\ \/ status.state = "Unknown" /\ pc = "connect"
     \/ outbox # <<>>
     \/ pc \in {"recv", "backoff", "cooloff"}
  /\ pc' = "done"
  /\ outbox' = <<>> /\ live' = {} /\ rx' = Closed /\ lagged' = FALSE
  /\ UNCHANGED <<env, first, status, errors, delay, task>>

-----------------------------------------------------------------------------
(* The processing task.                                                    *)

Take ==
  /\ serving /\ hand = <<>> /\ queue # <<>>
  /\ hand' = <<Head(queue)>>
  /\ queue' = Tail(queue)
  /\ UNCHANGED <<env, worker, due, serving, told, signal, downs>>

\* Inference and decision; nothing the stream state depends on.
HandleFrame ==
  /\ hand = <<Frame>>
  /\ hand' = <<>>
  /\ UNCHANGED <<env, worker, queue, due, serving, told, signal, downs>>

\* The task is done with the StateChanged it works on.
Finish(msg) == hand' = <<>> /\ told' = msg.state

\* Mutant of CheckCount: every failure from the third on is published.
CheckCountRepeats ==
  /\ hand # <<>> /\ hand # <<Frame>> /\ ~due
  /\ LET msg == hand[1] IN
     /\ msg.state = "Reconnecting" /\ msg.error
     /\ IF status.reconnects >= DownThreshold
        THEN due' = TRUE /\ UNCHANGED <<hand, told>>
        ELSE Finish(msg) /\ UNCHANGED due
  /\ UNCHANGED <<env, worker, queue, serving, signal, downs>>

\* The task is told of a failure.  It compares the reconnect count of this
\* moment, not the one of the moment the message was sent, and lets the status
\* go again.
CheckCount ==
  /\ hand # <<>> /\ hand # <<Frame>> /\ ~due
  /\ LET msg == hand[1] IN
     /\ msg.state = "Reconnecting" /\ msg.error
     /\ IF status.reconnects = DownThreshold
        THEN due' = TRUE /\ UNCHANGED <<hand, told>>
        ELSE Finish(msg) /\ UNCHANGED due
  /\ UNCHANGED <<env, worker, queue, serving, signal, downs>>

\* publish_stream_down, whatever the worker did since the count was read.
PublishDown ==
  /\ due /\ hand # <<>>
  /\ Finish(hand[1]) /\ due' = FALSE
  /\ signal' = "down" /\ downs' = Smaller(downs + 1, 2)
  /\ UNCHANGED <<env, worker, queue, serving>>

\* Mutant of HandleStateChanged: stream_up is kept for a camera that had to
\* reconnect, but the count is 0 again by the time it is read.
HandleStateChangedUpIfReconnected ==
  /\ hand # <<>> /\ hand # <<Frame>>
  /\ LET msg == hand[1] IN
     /\ ~(msg.state = "Reconnecting" /\ msg.error)
     /\ Finish(msg)
     /\ IF msg.state = "Streaming" /\ status.reconnects > 0
        THEN signal' = "up" /\ downs' = 0
        ELSE UNCHANGED <<signal, downs>>
  /\ UNCHANGED <<env, worker, queue, due, serving>>

\* Every other StateChanged: publish_stream_up, or nothing.
HandleStateChanged ==
  /\ hand # <<>> /\ hand # <<Frame>>
  /\ LET msg == hand[1] IN
     /\ ~(msg.state = "Reconnecting" /\ msg.error)
     /\ Finish(msg)
     /\ IF msg.state = "Streaming"
        THEN signal' = "up" /\ downs' = 0
        ELSE UNCHANGED <<signal, downs>>
  /\ UNCHANGED <<env, worker, queue, due, serving>>

\* stop_all aborts the task; what is in the channel is lost.
StopTask ==
  /\ serving
  /\ serving' = FALSE /\ queue' = <<>> /\ hand' = <<>> /\ due' = FALSE
  /\ UNCHANGED <<env, worker, told, signal, downs>>

-----------------------------------------------------------------------------
(* The camera and its pipelines.                                           *)

LinkChanges == link' = ~link /\ UNCHANGED <<prompt, worker, task>>

\* Without a link a pipeline may fail for good; it reports that on its bus,
\* to which the worker does not listen.
PipelineDies(pipeline) ==
  /\ ~link /\ pipeline \in live
  /\ live' = live \ {pipeline}
  /\ UNCHANGED <<env, pc, outbox, rx, lagged, first, status, errors, delay, task>>

\* The appsink callback of a pipeline broadcasts a frame; a full ring
\* overwrites its oldest frame and marks the receiver as lagging.
Push(pipeline) ==
  /\ link /\ pipeline \in live /\ rx # Closed
  /\ rx' = Smaller(rx + 1, RingCapacity)
  /\ lagged' = (lagged \/ rx = RingCapacity)
  /\ UNCHANGED <<env, pc, outbox, live, first, status, errors, delay, task>>

-----------------------------------------------------------------------------
Init ==
  /\ link \in BOOLEAN /\ prompt \in BOOLEAN
  /\ pc = "connect" /\ outbox = <<>>
  /\ live = {} /\ rx = Closed /\ lagged = FALSE /\ first = TRUE
  /\ status = [state |-> "Unknown", error |-> FALSE, reconnects |-> 0]
  /\ errors = 0 /\ delay = InitialDelay
  /\ queue = <<>> /\ hand = <<>> /\ due = FALSE /\ serving = TRUE
  /\ told = "Unknown" /\ signal = "none" /\ downs = 0

WorkerStep ==
  \/ Connect
  \/ Subscribe
  \/ Build
  \/ BuildFails
  \/ Install
  \/ \E sampled \in BOOLEAN : ReceiveFrame(sampled)
  \/ ReceiveLagged
  \/ ReceiveTimeout
  \/ Retry
  \/ RetryFailed
  \/ Send
  \/ SendFails

TaskStep ==
  \/ Take
  \/ HandleFrame
  \/ CheckCount
  \/ PublishDown
  \/ HandleStateChanged

Next ==
  \/ WorkerStep
  \/ TaskStep
  \/ Stop
  \/ StopTask
  \/ LinkChanges
  \/ \E p \in {"old", "current"} : Push(p) \/ PipelineDies(p)

Spec == Init /\ [][Next]_vars

\* Both tasks are scheduled by the runtime, sleeps end, and a camera whose
\* link is up keeps sending.  After an overrun the worker reads again within
\* microseconds, frames are tens of milliseconds apart: it cannot be overrun
\* at every attempt to read (SF).
Fairness ==
  /\ WF_vars(WorkerStep)
  /\ SF_vars(\E sampled \in BOOLEAN : ReceiveFrame(sampled))
  /\ WF_vars(TaskStep)
  /\ WF_vars(Push("current"))

FairSpec == Spec /\ Fairness

-----------------------------------------------------------------------------
(* Properties.                                                             *)

StreamStates ==
  {"Unknown", "Connecting", "Connected", "Streaming", "Reconnecting", "Failed"}

Messages == {Frame} \union
  {StateChanged(state, error) : state \in StreamStates, error \in BOOLEAN}

\* Every variable has a value the code can give it; the channel and the
\* receiver stay within their capacities and the error count within its limit.
TypeOK ==
  /\ link \in BOOLEAN /\ prompt \in BOOLEAN
  /\ pc \in {"connect", "subscribe", "build", "install", "recv",
             "backoff", "cooloff", "done"}
  /\ outbox \in Seq(Messages) /\ Len(outbox) <= 2
  /\ live \subseteq {"old", "current"}
  /\ rx \in Closed..RingCapacity
  /\ lagged \in BOOLEAN /\ first \in BOOLEAN
  /\ status \in [state : StreamStates, error : BOOLEAN,
                 reconnects : 0..(DownThreshold + 1)]
  /\ errors \in 0..MaxRetries
  /\ delay \in InitialDelay..MaxDelay
  /\ queue \in Seq(Messages) /\ Len(queue) <= QueueCapacity
  /\ hand \in Seq(Messages) /\ Len(hand) <= 1
  /\ due \in BOOLEAN /\ serving \in BOOLEAN
  /\ told \in StreamStates
  /\ signal \in {"none", "down", "up"}
  /\ downs \in 0..2

\* What the task has been told and what is on its way to it, oldest first.
Undelivered == hand \o queue \o outbox
Chain       == <<StateChanged(told, FALSE)>> \o Undelivered

\* The task learns every state the stream goes through, in the order of the
\* life cycle, however late and whatever frames and full channels come between
\* (update_state writes the status and then sends).
TaskLife == INSTANCE StreamLifecycle WITH state <- told
TaskSeesLifecycle == TaskLife!Spec

\* What the task has been told and what is still on its way add up to the
\* shared status, as long as neither task is stopped: the two views of the
\* stream never part.
ViewsAgree ==
  serving /\ pc # "done" =>
    \A i \in 1..Len(Chain) :
      /\ Chain[i] # Frame
      /\ \A j \in (i + 1)..Len(Chain) : Chain[j] = Frame
      => Chain[i].state = status.state

\* The delay after n failures.
Backoff[n \in Nat] ==
  IF n = 0 THEN InitialDelay ELSE Smaller(Backoff[n - 1] * Multiplier, MaxDelay)

\* The back-off delay is the one the number of failures since the last stream
\* calls for, and a camera rests exactly when it used up its retries, over any
\* sequence of failures, first frames and rests (increase_backoff and
\* reset_backoff are called at different places from the error count).
BackoffConsistent ==
  LET sleeps == IF pc \in {"backoff", "cooloff"} THEN errors - 1 ELSE errors
  IN pc # "done" =>
       /\ delay = Backoff[sleeps]
       /\ errors = MaxRetries <=> pc = "cooloff"

\* A stream_down may come too late: the worker's thread can bring the stream
\* back after the task read the reconnect count, and even before it did.  A
\* prompt task never publishes it for a camera that streams; otherwise, as long
\* as both tasks run, the stream_up that corrects it is on its way.
DownIsCorrected ==
  /\ prompt /\ due => status.state # "Streaming"
  /\ serving /\ pc # "done" /\ status.state = "Streaming" /\ signal = "down" =>
       \E i \in 1..Len(Undelivered) :
         Undelivered[i] # Frame /\ Undelivered[i].state = "Streaming"

\* With a prompt task an outage is reported once, over any number of retries
\* and rests (the task compares the count with == 3).
OneDownPerOutage == prompt => downs <= 1

\* With a prompt task a camera that stays unreachable is reported down.
OutageReported ==
  prompt /\ <>[]~link => <>[](signal = "down" \/ pc = "done" \/ ~serving)

\* A camera that comes back and stays is streamed again and reported up, even
\* after its retries were used up, unless one of the tasks is stopped.
Recovers ==
  <>[]link =>
    <>[](\/ status.state = "Streaming" /\ signal = "up"
         \/ pc = "done" \/ ~serving)
=============================================================================
