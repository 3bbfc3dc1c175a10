# Formal verification of the fire and smoke detector

TLA+ modules, TLC configurations and TLAPS proofs about the detector service
(`src/apps/detector`, Rust/tokio/GStreamer/ONNX), the API service
(`src/apps/api`, Rust/axum/PostgreSQL) and the way they work together.
`PROJECT.json` maps every definition to the lines it models and lists the runs,
the mutants, the findings, the hazards and the theorems.

## 1. The system

```
 camera --RTSP--> pipeline --broadcast(16)--> worker --mpsc(100)--> processing task
                     (per camera, one task each)                     |  inference
                                                                     |  decision engine
 reload_config (gRPC) --> camera manager --starts/stops--> workers   v
                                                            event publisher --broadcast-->
 API: event listener <--gRPC stream_events--                  --> database, WebSocket, Telegram
 API: camera administration --> database --> cameras.yaml --> reload_config
```

| Component | State | Operations | Interacts with |
|---|---|---|---|
| Decision engine (`decision/`) | per camera: sliding window and its size; `last_events` per camera and kind | `process` | called by the processing task with the settings of the moment |
| Camera worker (`camera/worker.rs`, `pipeline.rs`, `status.rs`) | stream state, error and reconnect count (shared); back-off, error count, receiver, pipeline (own) | connect, stream, fail, back off, rest, stop | pipelines push frames from GStreamer threads; messages to the processing task; status read by gRPC |
| Processing task (`manager.rs`) | message channel, message in hand | frame: inference, decision, publication; state change: `stream_down`, `stream_up` | all workers, decision engine, publisher |
| Camera manager (`manager.rs`) | configurations, shared settings, workers, statuses | `start_all`, `reload_cameras`, `stop_all` | gRPC `reload_config`, live view, shutdown |
| Frame sampler (`camera/sampler.rs`) | time of the last frame taken | `should_sample` | worker |
| Configuration (`config/`) | none | load, default, validate | file written by the API |
| Inference (`inference/`) | ONNX session behind a mutex | `detect` | processing task |
| Event publisher, gRPC server (`event/`) | broadcast channel, subscribers | publish, `stream_events` | processing task, API |
| Live view (`stream/server.rs`, `routes/stream.rs`) | one receiver per viewer | subscribe | worker's broadcast channel, API proxy |
| API event listener (`detector_client.rs`, `main.rs`) | connection, retry delay | connect, handle event | detector, database, WebSocket, Telegram |
| WebSocket (`ws.rs`, `useWebSocket.ts`) | broadcast channel, connections | broadcast, connect, reconnect | listener, browser |
| Telegram (`telegram.rs`, `routes/settings.rs`) | configuration, rate limiter, settings rows | send, update, load at start | listener, administrator |
| Camera administration (`routes/cameras.rs`, `camera_sync.rs`, `db.rs`) | camera table, `cameras.yaml` | create, update, delete, each followed by list, write, reload | detector |
| Events, authentication, other routes, web pages | table rows, tokens | single statements, reads | database |

Hard behaviours, in the order of what they endanger:

1. **Alarms**: votes expire by age and by number, settings change between two
   frames, cooldowns are kept per camera and kind. Correct when the alarms are
   exactly those the history calls for, and spaced by the cooldown.
2. **Streams**: a worker, its pipelines and the processing task run on
   different threads; links fail at any moment, the channel may be full, the
   task may lag, either task may be aborted. Correct when both views of the
   stream agree, outages are reported once, and a camera always recovers.
3. **Reloads and shutdown**: concurrent reloads act on the same maps in
   several steps; shutdown holds a lock across an await. Correct when a complete
   reload leaves what it was told to, no camera that stays is interrupted and
   everything returns.
4. **Configuration**: table, file and detector are updated one after the other
   by overlapping requests, which may be cut off at any await; both services
   start and crash when they like. Correct when a request nobody overlaps brings
   the table to the detector, and nothing disturbs a camera nobody touched.
5. **Delivery**: every hop from the publisher to the user may drop events.
   Correct when none is repeated, reordered or shown without being stored, and
   delivery always resumes.
6. **Telegram**: settings in four rows and in memory, under two locks; a rate
   limit in windows. Correct when a message follows the configuration it was sent
   under, the limit is kept and what was saved survives a restart that can read it.
7. **Computations**: suppression, layouts, sampling, paging and defaults have
   boundaries that examples in tests do not reach.

`PROJECT.json` lists the hazards of each, at the lines where they bite.

## 2. Modules

| Module | Kind | Models |
|---|---|---|
| `Detections` | vocabulary | classified frames, votes, evidence |
| `AlarmPolicy` | abstract specification | which alarms a complete history of frames calls for |
| `DecisionEngine` | detailed specification | `process`, windows, cooldown map, reconfiguration |
| `MCDecisionEngine` | TLC instance | results and settings |
| `DecisionEngineProofs` | proofs | types, cooldown, windows against histories, refinement of `AlarmPolicy` |
| `StreamLifecycle` | abstract specification | the life of a stream as seen by an observer |
| `CameraWorker` | detailed specification | worker task, pipelines, status, channel, `StateChanged` branch |
| `MCCameraWorker` | TLC instance | constants only |
| `CameraWorkerProofs` | proofs | types, agreeing views, back-off, reports, refinement of `StreamLifecycle` |
| `CameraManager` | detailed specification | reload handlers, worker map and its lock, statuses, tasks, shutdown |
| `MCCameraManager` | TLC instance | files with one camera that stays and one that comes and goes |
| `CameraManagerProofs` | proofs | live workers and uninterrupted cameras under any reloads; orphans, reloads and shutdown with one |
| `ConfigSync` | detailed specification | administrative requests, camera table, `cameras.yaml`, loading, start and crash of both services |
| `MCConfigSync` | TLC instance | request bodies |
| `ConfigSyncProofs` | proofs | types, lone requests, untouched cameras |
| `EventFeed` | abstract specification | what the delivery of events promises |
| `EventDelivery` | detailed specification | publisher, gRPC stream, listener, event table, WebSocket, Telegram |
| `MCEventDelivery` | TLC instance | constants only |
| `EventDeliveryProofs` | proofs | types, refinement of `EventFeed` |
| `TelegramSettings` | detailed specification | settings rows, configuration in memory, rate limiter, messages |
| `MCTelegramSettings` | TLC instance | request bodies, symmetry |
| `TelegramSettingsProofs` | proofs | types, messages, rows and restarts, rate limit |
| `Ranking` | operators | a set as a list in a given order: what a sort leaves |
| `Postprocess`, `Letterbox`, `Sampling`, `EventQueries`, `CameraSettings` | operators | the pure computations of inference, camera, event table and configuration |
| `Algorithms` | specification | one task and its answer, for all computations; what each is for |
| `MCAlgorithms` | TLC instance | the inputs |
| `AlgorithmsProofs` | proofs | every property of `Algorithms`: frames, sampling and rates, suppression, layouts, events, settings |
| `NumberLemmas` | lemmas | least and greatest elements, induction and recursion up to a bound |

### Decision engine

`Process(camera, result)` is one call of `process`: filter by threshold, choose
or replace the window, push (prune by age, append, trim), then the two branches
of `check_for_events` with `try_fire_with_cooldown`. There is one processing
task, so calls do not overlap, and the model takes each as one step.
`Reconfigure` replaces the settings of a camera between two frames, as a reload
does through `shared_configs`. A result is a grade per class; boxes are
abstracted away, and averages of confidences are left out, since no decision
depends on them. The history variables `seen` and `alarms` record input and
output; the code keeps neither.

`AlarmPolicy` knows neither windows nor maps. A frame counts if it is fresh, was
classified under the window size in force and is one of the last `window_size`;
the votes that count are the unbroken run of such frames that ends with the
newest. The cooldown is read off the list of alarms. `ImplementsPolicy` says
that the engine is an implementation of it with the same variables: pruning only
from the front, resetting the window on a new size and the map of last events
lose nothing and add nothing.

### Camera worker

The actions of the worker are the code between two awaits. `update_state` puts
the new state into the shared status at once and leaves its message in
`outbox`, from which `Send` moves it into the bounded channel, so the status is
ahead of the channel by exactly what the code's `send().await` allows. The
frames in the receiver are counted. `live` holds the pipelines that push frames:
between `Subscribe` and `Install` the one of an earlier attempt still does.
`LinkChanges` and `PipelineDies` are the environment: a pipeline without a link
may fail for good, and only the 10 s timeout notices. `prompt`, chosen at the
start of a behaviour, is an assumption some properties make: the processing task works off
its channel within a back-off sleep, which lasts a second or more.

The task handles an error in two steps, because it releases the statuses in
between: `CheckCount` reads the reconnect count (`manager.rs:430-436`) and sets
`due`, `PublishDown` publishes (`manager.rs:437-442`). The worker's thread may bring
the stream back before, between or after them, so a `stream_down` can come for a
camera that streams. `DownIsCorrected` says what the code guarantees all the same:
a `prompt` task never publishes one for a camera that streams, and whenever another
did, the `stream_up` that takes it back is on its way, as long as both tasks run.

`TaskSeesLifecycle` is the refinement of `StreamLifecycle` under the mapping of
its state to the last transition the processing task took. `Chain` is what the
task was told last and what is on its way to it, in order; `ViewsAgree` says
that its last state is the shared one.

### Camera manager

`reload[h]` is one gRPC handler, with the file it read and what is left of
`to_stop` or of the cameras to start. Every lock is taken for one access, so
every access is an action: `Compare`, `Remove`, `Stopped`, `Forget` (the loop over
`to_stop`), `Share`, `Adopt` (two copies of the configuration, two locks),
`Recheck` (`running_ids`), `Launch` (status and task), `Insert`. `Cancel` drops the
handler at its only await. `workers` holds tasks, not copies of them: when
`Insert` overwrites an entry, the task of the old one stays in `live`, as the code
drops a `JoinHandle` and a sender without receiver. A task and the status object
made for it are one value.

`stop_all` runs on the main thread and holds the map (`Locked`) from
`LockWorkers` to `Clear`. A request that needs the map meanwhile blocks its thread
(`Block`), because `parking_lot` locks do not yield to the runtime; with all
`Threads` blocked nothing that needs a runtime thread happens (`CanRun`).

`start_all` is the initial state: `main` calls it before it starts the servers.
The contents of the file are free; the order in which files are written and read
belongs to configuration synchronisation. A file without cameras is
refused by validation, which changes nothing.

### Configuration synchronisation

A request is a record `req[h]` with the statement it is at: `Create` and `Delete`
change the table at once, an update reads the row first (`BeginUpdate`, for the
URL) and writes it afterwards (`Update`). Then every request lists the table
(`List`), opens and truncates the file (`Truncate`), writes it (`Write`) and asks
the detector to load it (`Load`, where validation may refuse it) and to adopt it
(`Apply`). `Drop` ends a handler at an await: the client went away or a statement
failed. `BootStep` is the same writing at the start of the API, without the
reload; there the listing, the truncation and the write may fail, which the API only
logs before it serves (`main.rs:114-121`), and `failed` keeps that this happened, or
that a request's write failed, since the API was last started. A write puts all its
bytes into the file or none. A table row is a number, a camera its detector id, its URL and the pair
`window_size`, `fire_hits`, whose joint range the API and the detector check
differently (`Valid`, `CameraValid`). Two writers of the file at once leave the
tail of the longer content (`Overwrite`). `solo` of a request says that no other
was under way at the same time.

The detector holds two things: `running`, the entries it has loaded, whose decision
settings apply at once, and `workers`, the entries its workers were started with. A
reload stops the workers of cameras that are gone and starts one for each new camera
(`Reloaded`); one that runs keeps the entry it cloned, its URL included
(`manager.rs:277`). Starting a worker does not fail (`CameraWorker::start` always
returns `Ok`), and the disabled cameras of a file are left to `CameraManager`.

`AloneSynchronises` is what the comment at `cameras.rs:276` promises, as far as
it is true: a request nobody overlapped leaves the settings of the table, workers for
exactly its cameras, and the table's entry in every worker that is new. That an edit
reaches a worker that runs is what `README.md:745` says and the code does not do
(`EditReachesWorker`, finding 2). Requests that overlap may leave an older list in
the file, and a file the detector refuses (a duplicate id, more hits than the
window, no camera at all) keeps every later change from it until it is mended.
`UntouchedKeepRunning` bounds the damage: whatever happens, a camera whose row no
request touched keeps its settings and its worker and stays known, as long as the
API's start wrote the file. `FileRepaired` says when a torn file is written again: at
the next start of the API at the latest, unless that start or a write after it fails.
`Apply` takes the whole content of the file that was read; a row that no request
touched is never changed by it, of other rows `UntouchedKeepRunning` says nothing.

### Delivery of events

An event is its place in `published`. `stream` is the server's side of the one
subscription: its receiver is a position in the ring, and it has lagged when
`Capacity` newer events exist (`Lagged`); `SendEvent` ends with the first lag, as
`while let Ok` does. `wire` is what the transport holds. `listener` is at one of
the statements of `handle_event`: the lookup of the detector's id (`Convert`), the
insertion (`Save`), the lookup of the name and the broadcast (`Show`), the message
(`Alert`); any lookup may fail, and the event is then given up. `client[c]` is a
browser's connection: open before the server has subscribed (`opening`), served
(`open`), or `deaf`, when its sending task ended with a lag and its reading task
lives on. `fate` is a history of what became of each event, and makes it
possible to say that none the API was sent is forgotten (`SentIsSettled`).

`EventFeed` is what remains when all the loss is allowed: order, no repetition,
nothing shown before it is stored, Telegram about fire and smoke only.
`ImplementsFeed` is the refinement; its mapping takes what browsers received out
of `client`.

### Telegram

`update[u].at` numbers the statements of an update: four rows (`Persist`), the
configuration (`ApplyConfig`) and the limit of the limiter (`ApplyLimit`), which
`update_config` replaces under two locks. A message reads the chat (`ReadChat`),
then the switch and the token (`ReadToken`), then asks the limiter (`Check`).
`Restart` loads the rows over the environment; each of the four reads may fail and
then counts as a row that is not there (`Found`, the `.ok()` of `main.rs:264-294`).
`promised` is a history: what the updates ask for, as long as none overlapped another,
failed, was cut off or began on a configuration that a start could load only in part
(`partial`): such an update writes the environment's values over the rows it found in
memory. `Survives` speaks of starts that can read all the rows; it is false of the
others. `Abandon` ends an update at an await, the one after the last row included.

`PostsAsConfigured` does not say that every message follows one configuration: the
chat is read at `telegram.rs:192`, switch and token at `:94`, and updates may be
applied in between, so a message begun under A may go to A's chat with C's token. Of
messages between whose reads nothing was applied (`stale` is false) it says that chat
and token belong together, and of all that none is posted that began while the bot was
disabled unless it was enabled meanwhile.

### Algorithms

Five modules hold the computations as operators, each as short as the code
allows. What the code filters out is not in the domain of a function from rows
(`Accepted`, `Written`), what it sorts is `Ranked`: the element at place `k` has
`k - 1` before it in the order of the sort, which for `nms` is by confidence and
then by row, as the sort is stable, and for the listing of events by time. `nms`
(`Suppress`) and the reader who turns pages (`Walk`) are recursive functions.

A store is the events and an order of their ids. The query sorts by time alone
(`db.rs:321`), in milliseconds, so events of one time come in any order, which may be
another at every page: the input is a history of stores, one per page, between which
events arrive, go and change places. What `PagesComplete` promises is what is left
with that: an event that stays, has its time to itself and never has fewer newer
events before it is on a page that is turned. Events that share a time may be missed
or shown twice, and so may those that move up because newer ones are deleted. The web
page drops what is neither fire nor smoke from a page it has got, and asks for page
and total in one request that makes two queries; neither is in the model.

The scale of a frame is an `f32` and the product with its sides is truncated
(`preprocess.rs:42-46`). `Scaled` is the set of what may come out: the exact quotient,
or one less where the exact product is whole and the scale is not. All sides up
to 4096, and up to 8192 in steps of 32, on canvases from 320 to 1280 give nothing else
when computed in single precision; 634 on 640 gives 639. `FrameOnCanvas` holds for
every outcome, so a frame falls at most a pixel short of filling the canvas. On a
frame of 640 by 640 pixels, as the pipelines make it, a box is drawn where it was
found; on other frames it is not (section 5).

`Loaded` gives the configuration of a file, or none when `validate_config` refuses it:
no camera, an id used twice, a camera or the inference section that is not valid by
itself. `TableReachesDetector` says both what is loaded and when. Texts are sequences
of pieces (literal, `$NAME`, `${NAME:-default}`), since two expansions follow each other
and the second sees what the first brought in: a property about texts without variables
has to tell them from those with.

`Algorithms` picks one input, computes the answer in one step and states
what the answer is for, independently of how it is computed: cells shared instead of
areas of intersections, the whole history instead of the pruned deque, the table
instead of the file. Whole numbers stand for `f32`: coordinates are cells of a
small image, confidences have three values. The `f32` of the letterbox is the exception.

## 3. Runs

| Run | Shows | Bounds |
|---|---|---|
| `decision_engine` | types, cooldown, exact map, implementation of the policy | one camera, two settings that differ in every field, six results, four frames, four instants, votes valid for 1 s |
| `decision_two_cameras` | cameras do not influence each other | two cameras, two settings, two results, two frames each |
| `camera_worker` | types, agreeing views, consistent back-off, complete life cycle, a late `stream_down` is corrected; with `prompt`, none while the camera streams, every lasting outage reported, once; a camera that returns streams and is reported up | channel 3, ring 2, 4 retries, threshold 3, delays 1, 2, 4, 5 |
| `manager_concurrent` | no dead worker in the map; a camera that stays enabled is not interrupted | two cameras, two overlapping reloads, three files, six tasks |
| `manager_serial` | a complete reload puts everything right, also after broken-off ones; no lost task; shutdown and reloads return | two cameras, one reload at a time (any number after each other), one live view, three threads, six files and an empty one, six tasks |
| `config_sync` | a request nobody overlaps synchronises settings, cameras and new workers; untouched cameras keep running; a torn file is written again unless a start or write fails | two requests at once, two rows, two cameras, two URLs, any initial table and file, one crash |
| `event_delivery` | implementation of the feed; none forgotten; listening resumes | three events of two kinds, one camera, one browser, rings and transport of one, two faults |
| `telegram_settings` | rate limit, messages as configured, settings survive | two updates of three bodies, two senders, three messages, three minutes of one tick, one restart with any of its reads failing |
| `algorithms` | suppression, layouts, letterbox, sampler, rate, paging, settings | three rows on 4 by 4 cells, sides 1 to 16 on a canvas of 8, image sizes 320 to 1280, five arrivals in 9 ticks, four events that arrive, go and change order over three pages, two cameras |
| `config_edit` | violation: an edited URL does not reach the worker that runs | as `config_sync` |
| `manager_leak` | violation: two overlapping reloads lose a task | as `manager_concurrent` |
| `websocket_deaf` | violation: a connected browser gets nothing more | two events shown, ring of one |

**Bounds.** Those of the decision engine let the window overflow (sizes 2 and 3, four
frames), votes expire (age 1, four instants), both cooldowns elapse (2 and 3)
and the settings change between any two frames. Those of the worker let the
channel and the ring fill, a camera use up its retries and start over several
times, the delay reach its cap, and the reconnect count pass the threshold; all
its variables are bounded by the code itself, so the runs cover every behaviour
of the instance. The reconnect count is compared only with the threshold; one
value stands for all above it.

In the manager a reload begins only while enough of `Tasks` are unused (`Spare`)
for it and for those under way, so that `Launch` never wants for one; with six, a
task can be lost and the status and the worker of a camera can belong to
different tasks. Reloads are not counted, so the runs cover any sequence of them.

Two overlapping requests and one crash reach every pair of statements that can
race for table, file and detector; the two rows may hold the same camera, one
the detector refuses, or one without an id. Three events with a ring and a
transport of one reach a lag on either ring with something before and behind the
gap, and two faults a second failure while the first is being mended. Three
minutes of one tick hold two touching periods of the limiter. The rates,
pages and suppressions have an element more than the longest dependency between
their elements. Every bound that is not a constant of the code is named in the
module that has it (`MaxRequests`, `MaxCrashes`, `MaxEvents`, `MaxFaults`,
`MaxTime`, `MaxUpdates`, `MaxMessages`, `MaxRestarts`).

Deadlock is not checked where the system really stops or a bound stops it: the
clock and the frames of the decision engine are bounded, both tasks of the worker
may be aborted, after a shutdown nothing is left to do, requests, events and
messages are counted, and a computation ends with its answer.

**Fairness** (`FairSpec`). Both tasks of a camera are scheduled by tokio and every sleep
ends (weak fairness of `WorkerStep` and `TaskStep`); a live pipeline with a link
keeps sending (weak fairness of `Push("current")`). Reading a frame is strongly
fair: after an overrun the loop calls `recv` again within microseconds, while
frames are tens of milliseconds apart, so the ring cannot be overrun between
every two calls. Nothing is assumed of the link, of the pipelines' failures or
of the aborts; the liveness properties name the cases in which one of the tasks
was stopped. Building a pipeline is taken to fail only without a link; a missing
codec plugin would fail for ever and is a matter of installation.

For the manager, `FairSpec` lets every handler proceed, every aborted task be
polled and the main thread run, as long as a runtime thread is free; it does not
assume that files are loaded, handlers cancelled or the service shut down.

In `ConfigSync` handlers and start-up run to their end (tokio), and the detector
is started again when it has exited (the restart policy in `docker-compose.yml`); no
request is ever assumed to come. In `EventDelivery` the task of the stream and
the listener run; weak fairness of `Connect` stands for its retries with the
assumption that the detector can be reached again at some time. Nothing is
assumed of browsers, of users or of faults. `TelegramSettings` and `Algorithms`
have safety properties only.

**What is not claimed**, although one might wish it, because the code does not
do it and no document says it does:

* without `prompt`, `OneDownPerOutage` does not hold: two failures that wait in
  the channel together are both handled while the count is 3 (`manager.rs:432`);
* with overlapping reloads `ReloadApplies` fails (`manager.rs:257`), and the two
  copies of the configuration may differ afterwards; the API does not serialise
  its requests;
* with overlapping requests table and detector may differ until the next one, a
  concurrent change of a URL may be undone (`db.rs:173`), and a stored event may
  reach neither browser nor Telegram (`detector_client.rs:155`);
* with a cooldown of 0 a continuous fire keeps smoke from being reported
  (`engine.rs:203`);
* the status of a camera that was disabled at start-up and then deleted stays in
  the list (`manager.rs:241`);
* a `$NAME` in the URL of a camera is replaced by nothing when the file is loaded
  (`loader.rs:210`), and a default of the file replaces only an explicit 0
  (`loader.rs:166`);
* with a failing read at its start the API runs with the environment's value for that
  row (`main.rs:264-294`), and an update made then saves it;
* pages are not complete for events that share a millisecond or move up
  (`db.rs:321`);
* with overlapping updates of the bot the rows, the configuration and the limit
  may come from different ones (`settings.rs:95`, `telegram.rs:80`).

## 4. Proofs

Seven modules prove, for every value of the constants that their assumptions
admit, every safety and action property of the passing runs, and the three
refinements; only liveness is left to TLC. An eighth, `NumberLemmas`, holds
the facts about numbers they share. The assumptions are those of the modules,
which TLC evaluates in the runs: types of the constants, what
`validate_camera` accepts (`ConfigsValid`), frames that arrive in the order of the
clock, outputs of the model in whole numbers, image sizes of 320 and more as
`models.rs:60` and `models.rs:109` require them, finite tables of events with a
primary key (`AlgorithmsAssumption`), what a request body may hold
(`ConfigSyncAssumption`, `TelegramAssumption`), a finite table, a task for every
camera (`EnoughTasks`), and values like `None` that are no ordinary ones.

Every proof has the same plan: an inductive invariant (`IInv` or the conjunction
named below), lemmas that say what each operation does to the variables
with its data hidden behind their types, one step per action, and the property
from the invariant. What makes each invariant inductive:

**Decision engine.** `CooldownRespected` and `CooldownMapFaithful` need each
other: the engine looks at its map, not at the history, so the spacing follows
only if the map holds the *latest* alarm of every camera and kind
(`CooldownMapExact`) and no entry lies in the future (`LastEventsPast`).
`EngineFollowsPolicy` needs in addition that the window is an end of the history
of frames (`HistoryInv`): it starts right after a frame that no longer counts,
for its age, its size or its place, and a frame that stopped counting never
counts again (`LaterTracks`). `PruneIsSuffix` and `TrimIsSuffix` turn the two
loops of `push` into one cut of the history, `PushFollowsHistory` shows that it
is the cut of the policy, and `CanFireIsRested` does the same for the cooldown.

**Camera worker.** `Control` is about the worker alone: where it is decides
what the shared status says, the reconnect count is 0 while it streams, and the
delay follows the error count. `Delivery` is about the messages: neighbouring
states of `Chain` follow each other in the life cycle (`Linked`), its last one is
the shared status (`ViewsAgree`), with a `prompt` task a failure is the last
thing the task has still to learn (`LastWord`), and an outage that was reported
keeps its count above the threshold until the camera streams again (`Reported`).
`Linked` makes every step of the task one of `StreamLifecycle`
(`TaskFollowsLifecycle`). `Published` is about what is published: the count a
`prompt` task compared is still the threshold when it publishes (`Checked`), and
after a `stream_down` the last state it was told is not `Streaming` (`Down`), so the
`Streaming` of a camera that is back is still on its way (`LateDownIsCorrected`).

**Camera manager.** For any number of overlapping reloads: what a handler holds
at each statement (`HandlerShape`), no task in two places (`TasksDiffer`), a
worker on its way to the map alive (`CarriedLive`), and a camera that every
file enables in the map and on nobody's list (`AlwaysOnKept`). `NobodyForgotten`,
`ReloadsApply` and `ShutdownStopsAll` assume `OneReload`, that at most one reload is
under way, as they are false otherwise (finding 1); its runs may be broken off
at any await and repeated for ever. Their invariant says at each statement how
much of the file is applied (`Applied`), that the statuses are those of the
workers, and that what is awaited or ticked off is dying or dead.

**Event delivery.** The invariant orders the places of an event: what is alerted
is shown, what is shown is stored, what is stored lies before the event in the
listener's hand, and that lies before everything on the wire and in the ring
(`ListenerOK`, `WireOK`, `Past`); an open connection has still to read only what
comes after what its browser has (`ClientsOK`). `DeliveryKeepsOrder` is the
refinement of `EventFeed`: every step is one of the feed or not seen by it.

**Telegram.** `Promise` follows an update that overlaps with no other through
its rows (`Halfway`): those before its statement hold the new values, and when
nobody is at work, rows, configuration and limiter agree (`Settled`); this gives
`SettingsSurvive`. `Messages` says what a message has read at each of its
reads. `RateLimited` numbers the periods of the limiter: the posts of one period
are no more than its limit, and a minute meets at most two.

**Configuration.** A list that was taken, the content that is being written and
the file after it keep the entries of the rows nobody touched, whatever another
writer leaves behind it (`Keeps`, `Overwritten`): `UntouchedStay`. For a request
that nobody overlaps list, file and table are equal from statement to statement
(`AsListed`): `LoneRequestSynchronises`.

**Computations.** `FramesFit`: no outcome of the scaling exceeds the canvas or falls
more than a pixel short of it in the longer direction (`ScaledFits`), halving the border
leaves at most a pixel (`PlacementFits`), and the
offsets of the row-by-row copy can be told apart again (`RowAndColumn`).
`SamplerKeepsPace`: after a frame `last_frame` is the latest of the sampled ones
(`LastFrameIsLatest`), for arrivals in any number that never go back in time, as
`Instant::now` guarantees. `RateIsOfHistory`: the deque is an end of the history,
and what was popped was a period old when it was and is older when the rate is
asked for (`RecordedIsEnd`, `RateOfEnd`).
`SuppressionIsSound`: the list that a sort leaves has every element once, at the
place of its rank (`RankedLists`). Two intersecting sides share as many cells as
their ends tell, so the `iou` of the code is that of the cells of the boxes, also for
boxes without an area or turned inside out (`OverlapCountsCells`). After each row
`nms` has kept a list in which none overlaps another and every row looked at
is kept or overlaps a kept one; that one is as sure, because the rows come surest
first (`LookedKeeps`, `SuppressLeaves`); the three classes do not mix
(`PartsApart`).
`LayoutsTold`: an image of 320 has 1600 cells of 8 pixels, which alone make the
standard output longer than 10 000 values, and an end-to-end output of 300 rows is
shorter (`LengthsTellLayouts`); a column decodes to the detection of the row it
encodes (`RowAsColumn`).
`PagesAreComplete`: before an event in a listing are all the newer ones, and none that
is older (`ListingIsRanked`), so one that has its time to itself stands at the place
that the number of newer ones gives, whatever the order of the others
(`PlaceOfUnshared`). After each page an event that stays either was shown or is
further down than the page (`Pending`, `PendingOnNextPage`), since its place never
decreases, and after the last page nothing is further down, by the count that came
with it (`NothingMissed`). While the events stay, each page is a part of one of the
listings (`ReadsOn`, `ListingRead`), and two listings of the same events never have a
newer one at a later place (`SameEventsSameTimes`).
`TableIsLoaded`: expanding a text without variables leaves it as it is
(`FlattenedElements`, `LiteralExpands`), a file without a section of defaults
replaces no setting, and what is validated is then the table (`LoadedOfWritten`).

Some definitions were given a form that can be reasoned about, with the same
meaning: `Backoff`, `LastFrame`, `Recorded`, `Suppress` and `Walk` are recursive
functions, whose equations are proved from the existence of their prefixes
(`BackoffEquation`; for the others `BoundedRecursion`); what is sorted is
`Ranked`, and the listing of a table of cameras is the
ascending enumeration of its rows (`Sorted`, shown to exist); a new task is chosen
from `Spare`. Where a proof calls for induction it takes the least
counterexample, which `LeastElement` provides, or goes up to a bound with a set in
the place of the predicate (`BoundedInduction`).

**Only model-checked.**

* Liveness: `OutageReported`, `Recovers`, `ShutdownCompletes`, `ReloadReturns`,
  `FileRepaired`, `SentIsSettled`, `ListensAgain`. Fairness needs `ENABLED`,
  which the provers do not handle.
* The three findings below, which are counterexamples.

## 5. Findings

Each is a run that TLC ends with a counterexample, and a line of the repository
that says otherwise.

1. `manager_leak`, `NoOrphans` with two reloads: `worker.rs:53` says that dropping
   the sender aborts the task; the task goes on and nobody can stop it.
2. `config_edit`, `EditReachesWorker`: `README.md:745` says that the worker of an
   edited camera is replaced; a reload skips a camera that runs (`manager.rs:277`),
   whose worker keeps the URL it was started with until the camera is disabled and
   enabled again or the detector starts anew.
3. `websocket_deaf`, `BroadcastReachesConnected`: `README.md:722` says that events
   are broadcast to every connected browser. After a lag of its receiver
   (`ws.rs:82`, a ring of 1024 unless configured) a connection stays open and gets nothing; the browser polls
   only while it is disconnected, so its page shows no further event until it is
   loaded again.

Further disagreements between code and documents that the models show without a
run of their own:

* `README.md:400` offers an image size of 1280; `postprocess.rs:80` divides by 640
  and clamps whatever the size, so a box is drawn at twice its coordinates or at the
  edge (`OnCanvas` and `Drawn` with a canvas of twice `ModelInput`).
* `README.md:409` promises the cooldown between two consecutive alerts; the code
  keeps it per kind, so smoke may follow fire at the next frame.
* `engine.rs:32` calls the evidence the detections that triggered the event; the
  list may be empty (the newest frame with detections may have expired).
* `status.rs:26` says a failed camera needs manual intervention; the worker tries
  again after 60 s (`RetryFailed`).
* `INTRODUCTION.md:90-94`, `main.rs:8` and `architecture.md:26` describe a queue
  of one frame that drops the old one; the channel holds 100 and blocks the
  senders.
* `stop_all` waits for tasks with the worker map locked (`manager.rs:170`), against
  the rule of `docs/CHANGELOG.md:92`. With as many live-view requests and reloads
  as runtime threads the shutdown hangs: `ManagerSerial.cfg` with `Threads = 1`
  shows it, with three it completes.

## 6. Plan

1. Composition: the processing task over several cameras with the shared channel
   and fairness between them; the engine with the delivery, for the cooldown that
   begins with an event nobody receives; `ConfigSync` with the steps of
   `CameraManager`.
2. The sampler inside the worker, for the windows that are never half full.

## 7. Not modelled

* Decoding, resizing, drawing, JPEG, the ONNX runtime: external code and output
  without state. NaN and the rounding of `f32` are abstracted away with the
  numbers, but for the sides of the letterbox.
* The construction of the GStreamer graph (`pipeline.rs`): its outcome, a
  pipeline that delivers frames, fails or stays silent, is in `CameraWorker`.
* The encryption of URLs and passwords, authentication (stateless tokens),
  metrics, logging, the web pages and the tools under `models/`.
* A write of `cameras.yaml` that fails after some of its bytes: it succeeds or leaves
  the file truncated.
* A model with other than 300 end-to-end candidates (`engine.rs:311`): `LayoutsAgree`
  says nothing of it.
* The live view: a lossy fan-out without state, of which only the lock it takes
  matters (`CameraManager`).
* `AdaptiveFrameSampler`, `start_camera`, `stop_camera`, the batch variants of
  inference, `clear_camera`, `send_stream_down_alert`: no caller in the program.

The database executes each statement atomically. `PROJECT.json` gives the state
of each component.
