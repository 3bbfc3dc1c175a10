---------------------------- MODULE CameraManager ----------------------------
(***************************************************************************)
(* The camera manager (camera/manager.rs): the gRPC handlers that reload   *)
(* the cameras, and the shutdown, which share the map of workers, the map  *)
(* of statuses and the two copies of the configuration.                    *)
(*                                                                         *)
(* A handler runs on a thread of the tokio runtime.  It takes each lock    *)
(* for one access only, so an action is one access; the shutdown runs on   *)
(* the main thread and alone keeps a lock, the one of the worker map,      *)
(* while it waits for tasks that need a runtime thread to end.  A request  *)
(* that waits for that lock keeps its thread.                              *)
(*                                                                         *)
(* A task stands for the worker loop and for the status object made for    *)
(* it.  What is in the configuration file when a reload reads it is up to  *)
(* the API.  Bound: Tasks; a reload begins only with tasks to spare.       *)
(***************************************************************************)
EXTENDS Naturals, FiniteSets

CONSTANTS
  Cameras,
  Settings,    \* what the file may say of a camera
  Enabled,     \* the settings with enabled = true
  Absent,      \* the camera is not in the file
  Files,       \* the contents of the file
  Tasks,
  None,
  Reloads,     \* reload_config requests that may be in progress together
  Viewers,     \* live-view requests, the other users of the worker map
  Threads      \* worker threads of the runtime

ASSUME ConstantsValid ==
  /\ Enabled \subseteq Settings /\ Absent \notin Settings
  /\ Files \subseteq [Cameras -> Settings \union {Absent}]
  /\ None \notin Tasks \union Cameras \union [task : Tasks, setting : Settings]
  /\ Reloads \intersect Viewers = {}
  /\ IsFiniteSet(Cameras) /\ IsFiniteSet(Reloads) /\ IsFiniteSet(Viewers)
  /\ Threads \in Nat \ {0}

\* Every camera can have a task of its own.
Allotment(f) == \A c, d \in Cameras : f[c] = f[d] => c = d
ASSUME EnoughTasks == \E f \in [Cameras -> Tasks] : Allotment(f)

VARIABLES
  configs,   \* the canonical list
  shared,    \* the map the processing task reads
  workers,   \* by camera: its task and the settings it was made with, or None
  statuses,  \* by camera: the task that writes this status, or None
  live,      \* tasks that have not ended
  aborted,   \* those among them that were aborted
  reload,    \* the state of every handler
  blocked,   \* requests that keep their thread while they wait for the lock
  main,      \* the main thread: what it does, and the workers it still has
  left,      \*   to stop, with the one it is waiting for
  closing

config == <<configs, shared>>
tasks  == <<live, aborted>>
stop   == <<main, left, closing>>
vars   == <<config, workers, statuses, tasks, reload, blocked, stop>>

Idle == [pc |-> "idle", file |-> None, todo |-> {}, cam |-> None, task |-> None]

EnabledIn(file) == {c \in Cameras : file[c] \in Enabled}
Running == {c \in Cameras : workers[c] # None}

\* The lock of the worker map is held across an await.
Locked == main = "stopping"

\* A thread of the runtime is free.
CanRun == Cardinality(blocked) < Threads

Used ==
  live \union {workers[c].task : c \in Running}
       \union {statuses[c] : c \in Cameras} \union {reload[h].task : h \in Reloads}

Active == {h \in Reloads : reload[h].pc # "idle"}

Spare   == Tasks \ Used
NewTask == CHOOSE t \in Spare : TRUE

-----------------------------------------------------------------------------
(* reload_config and reload_cameras.                                       *)

\* The file is read and accepted.  One without cameras is refused, like any
\* that cannot be read, and nothing happens.
Load(h, file) ==
  /\ reload[h].pc = "idle" /\ CanRun /\ main # "stopped"
  /\ \E c \in Cameras : file[c] # Absent
  /\ Cardinality(Spare) >= Cardinality(Cameras) * (Cardinality(Active) + 1)
  /\ reload' = [reload EXCEPT ![h] = [Idle EXCEPT !.pc = "compare", !.file = file]]
  /\ UNCHANGED <<config, workers, statuses, tasks, blocked, stop>>

\* Mutant of Compare: a camera that is disabled is not stopped.
CompareNames(h) ==
  /\ reload[h].pc = "compare" /\ ~Locked
  /\ reload' = [reload EXCEPT ![h].pc = "stop",
                  ![h].todo = {c \in Running : reload[h].file[c] = Absent}]
  /\ UNCHANGED <<config, workers, statuses, tasks, blocked, stop>>

\* to_stop: the running cameras that are not enabled any more.
Compare(h) ==
  /\ reload[h].pc = "compare" /\ ~Locked
  /\ reload' = [reload EXCEPT ![h].pc = "stop",
                  ![h].todo = Running \ EnabledIn(reload[h].file)]
  /\ UNCHANGED <<config, workers, statuses, tasks, blocked, stop>>

\* Mutant of Remove: the worker is stopped in place.
RemoveInPlace(h, c) ==
  /\ reload[h].pc = "stop" /\ c \in reload[h].todo /\ ~Locked
  /\ IF workers[c] = None
     THEN /\ reload' = [reload EXCEPT ![h].pc = "forget", ![h].cam = c]
          /\ UNCHANGED <<workers, aborted>>
     ELSE /\ aborted' = aborted \union ({workers[c].task} \intersect live)
          /\ reload' = [reload EXCEPT ![h].pc = "await", ![h].cam = c,
                                      ![h].task = workers[c].task]
          /\ UNCHANGED workers
  /\ UNCHANGED <<config, statuses, live, blocked, stop>>

\* Mutant of Remove: only the shutdown channel is closed.
RemoveUnaborted(h, c) ==
  /\ reload[h].pc = "stop" /\ c \in reload[h].todo /\ ~Locked
  /\ IF workers[c] = None
     THEN /\ reload' = [reload EXCEPT ![h].pc = "forget", ![h].cam = c]
          /\ UNCHANGED workers
     ELSE /\ workers' = [workers EXCEPT ![c] = None]
          /\ reload' = [reload EXCEPT ![h].pc = "await", ![h].cam = c,
                                      ![h].task = workers[c].task]
  /\ UNCHANGED <<config, statuses, tasks, blocked, stop>>

\* The worker is taken out of the map, if it is still there, and its task is
\* aborted.
Remove(h, c) ==
  /\ reload[h].pc = "stop" /\ c \in reload[h].todo /\ ~Locked
  /\ IF workers[c] = None
     THEN /\ reload' = [reload EXCEPT ![h].pc = "forget", ![h].cam = c]
          /\ UNCHANGED <<workers, aborted>>
     ELSE /\ workers' = [workers EXCEPT ![c] = None]
          /\ aborted' = aborted \union ({workers[c].task} \intersect live)
          /\ reload' = [reload EXCEPT ![h].pc = "await", ![h].cam = c,
                                      ![h].task = workers[c].task]
  /\ UNCHANGED <<config, statuses, live, blocked, stop>>

\* stop() returns when the task has ended.
Stopped(h) ==
  /\ reload[h].pc = "await" /\ reload[h].task \notin live /\ CanRun
  /\ reload' = [reload EXCEPT ![h].pc = "forget", ![h].task = None]
  /\ UNCHANGED <<config, workers, statuses, tasks, blocked, stop>>

\* The client goes away and tonic drops the handler at its only await.
Cancel(h) ==
  /\ reload[h].pc = "await"
  /\ reload' = [reload EXCEPT ![h] = Idle]
  /\ UNCHANGED <<config, workers, statuses, tasks, blocked, stop>>

\* The status of the camera is removed, whoever it belongs to by now.
Forget(h) ==
  /\ reload[h].pc = "forget" /\ CanRun
  /\ statuses' = [statuses EXCEPT ![reload[h].cam] = None]
  /\ reload' = [reload EXCEPT ![h].pc = "stop", ![h].cam = None,
                              ![h].todo = @ \ {reload[h].cam}]
  /\ UNCHANGED <<config, workers, tasks, blocked, stop>>

Share(h) ==
  /\ reload[h].pc = "stop" /\ reload[h].todo = {} /\ CanRun
  /\ shared' = reload[h].file
  /\ reload' = [reload EXCEPT ![h].pc = "adopt"]
  /\ UNCHANGED <<configs, workers, statuses, tasks, blocked, stop>>

Adopt(h) ==
  /\ reload[h].pc = "adopt" /\ CanRun
  /\ configs' = reload[h].file
  /\ reload' = [reload EXCEPT ![h].pc = "recheck"]
  /\ UNCHANGED <<shared, workers, statuses, tasks, blocked, stop>>

\* Mutant of Recheck: every enabled camera is started.
RecheckAll(h) ==
  /\ reload[h].pc = "recheck" /\ ~Locked
  /\ reload' = [reload EXCEPT ![h].pc = "start",
                              ![h].todo = EnabledIn(reload[h].file)]
  /\ UNCHANGED <<config, workers, statuses, tasks, blocked, stop>>

\* running_ids: a snapshot, before anything is started.
Recheck(h) ==
  /\ reload[h].pc = "recheck" /\ ~Locked
  /\ reload' = [reload EXCEPT ![h].pc = "start",
                              ![h].todo = EnabledIn(reload[h].file) \ Running]
  /\ UNCHANGED <<config, workers, statuses, tasks, blocked, stop>>

\* A new status replaces the one in the map, and the worker's task starts.
\* (Bound: a spare task; Load sees to it that there is one.)
Launch(h, c) ==
  /\ reload[h].pc = "start" /\ c \in reload[h].todo /\ CanRun
  /\ Spare # {}
  /\ statuses' = [statuses EXCEPT ![c] = NewTask]
  /\ live' = live \union {NewTask}
  /\ reload' = [reload EXCEPT ![h].pc = "insert", ![h].cam = c, ![h].task = NewTask]
  /\ UNCHANGED <<config, workers, aborted, blocked, stop>>

\* The worker enters the map.  One that is already there is dropped, and with
\* it the handle of its task and a shutdown channel nobody listens to.
Insert(h) ==
  /\ reload[h].pc = "insert" /\ ~Locked
  /\ LET c == reload[h].cam IN
     /\ workers' = [workers EXCEPT ![c] = [task    |-> reload[h].task,
                                           setting |-> reload[h].file[c]]]
     /\ reload' = [reload EXCEPT ![h].pc = "start", ![h].todo = @ \ {c},
                                 ![h].cam = None, ![h].task = None]
  /\ UNCHANGED <<config, statuses, tasks, blocked, stop>>

Finish(h) ==
  /\ reload[h].pc = "start" /\ reload[h].todo = {} /\ CanRun
  /\ reload' = [reload EXCEPT ![h] = Idle]
  /\ UNCHANGED <<config, workers, statuses, tasks, blocked, stop>>

\* What a handler does once it has begun.
Proceed(h) ==
  \/ Compare(h) \/ Stopped(h) \/ Forget(h) \/ Share(h) \/ Adopt(h)
  \/ Recheck(h) \/ Insert(h) \/ Finish(h)
  \/ \E c \in Cameras : Remove(h, c) \/ Launch(h, c)

\* A handler or a live-view request finds the map locked.  A live view that
\* does not is one read, subscribe_to_camera, and changes nothing.
NeedsLock(r) ==
  r \in Reloads =>
    \/ reload[r].pc \in {"compare", "recheck", "insert"}
    \/ reload[r].pc = "stop" /\ reload[r].todo # {}

Block(r) ==
  /\ Locked /\ CanRun
  /\ r \notin blocked /\ NeedsLock(r)
  /\ blocked' = blocked \union {r}
  /\ UNCHANGED <<config, workers, statuses, tasks, reload, stop>>

-----------------------------------------------------------------------------
(* The tasks of the workers.                                               *)

\* An aborted task ends when a thread of the runtime gets to it.
TaskEnds(t) ==
  /\ t \in aborted /\ CanRun
  /\ live' = live \ {t} /\ aborted' = aborted \ {t}
  /\ UNCHANGED <<config, workers, statuses, reload, blocked, stop>>

\* A task also ends when its frame finds no processing task any more.
TaskQuits(t) ==
  /\ t \in live \ aborted /\ main # "serving" /\ CanRun
  /\ live' = live \ {t}
  /\ UNCHANGED <<config, workers, statuses, aborted, reload, blocked, stop>>

-----------------------------------------------------------------------------
(* Shutdown: stop_all on the main thread.                                  *)

\* The processing task is aborted and awaited.
StopProcessing ==
  /\ main = "serving"
  /\ main' = "locking"
  /\ UNCHANGED <<config, workers, statuses, tasks, reload, blocked, left, closing>>

LockWorkers ==
  /\ main = "locking"
  /\ main' = "stopping" /\ left' = Running
  /\ UNCHANGED <<config, workers, statuses, tasks, reload, blocked, closing>>

\* Mutant of StopWorker: the worker is ticked off before its task has ended.
StopWorkerAhead(c) ==
  /\ main = "stopping" /\ closing = None /\ c \in left
  /\ closing' = c /\ left' = left \ {c}
  /\ aborted' = aborted \union ({workers[c].task} \intersect live)
  /\ UNCHANGED <<config, workers, statuses, live, reload, blocked, main>>

\* Mutant of StopWorker: only the shutdown channel is closed.
StopWorkerUnaborted(c) ==
  /\ main = "stopping" /\ closing = None /\ c \in left
  /\ closing' = c
  /\ UNCHANGED <<config, workers, statuses, tasks, reload, blocked, main, left>>

StopWorker(c) ==
  /\ main = "stopping" /\ closing = None /\ c \in left
  /\ closing' = c
  /\ aborted' = aborted \union ({workers[c].task} \intersect live)
  /\ UNCHANGED <<config, workers, statuses, live, reload, blocked, main, left>>

\* Mutant of WorkerStopped: the aborted task is not awaited.
WorkerNotAwaited ==
  /\ main = "stopping" /\ closing # None
  /\ closing' = None /\ left' = left \ {closing}
  /\ UNCHANGED <<config, workers, statuses, tasks, reload, blocked, main>>

WorkerStopped ==
  /\ main = "stopping" /\ closing # None
  /\ workers[closing].task \notin live
  /\ closing' = None /\ left' = left \ {closing}
  /\ UNCHANGED <<config, workers, statuses, tasks, reload, blocked, main>>

\* The map is cleared and unlocked; whoever waited for it goes on.
Clear ==
  /\ main = "stopping" /\ closing = None /\ left = {}
  /\ workers' = [c \in Cameras |-> None]
  /\ main' = "stopped" /\ blocked' = {}
  /\ UNCHANGED <<config, statuses, tasks, reload, left, closing>>

Shutdown ==
  LockWorkers \/ WorkerStopped \/ Clear \/ \E c \in Cameras : StopWorker(c)

-----------------------------------------------------------------------------
\* CameraManager::new and start_all, before anyone else has the manager.
Init ==
  /\ \E file \in Files :
       LET ids == CHOOSE f \in [Cameras -> Tasks] : Allotment(f)
       IN /\ \E c \in Cameras : file[c] # Absent
          /\ configs = file /\ shared = file
          /\ statuses = [c \in Cameras |-> IF file[c] = Absent THEN None ELSE ids[c]]
          /\ workers = [c \in Cameras |->
                          IF c \in EnabledIn(file)
                          THEN [task |-> ids[c], setting |-> file[c]] ELSE None]
          /\ live = {ids[c] : c \in EnabledIn(file)}
  /\ aborted = {} /\ blocked = {}
  /\ reload = [h \in Reloads |-> Idle]
  /\ main = "serving" /\ left = {} /\ closing = None

Next ==
  \/ \E h \in Reloads : Proceed(h) \/ Cancel(h) \/ \E file \in Files : Load(h, file)
  \/ \E r \in Reloads \union Viewers : Block(r)
  \/ \E t \in Tasks : TaskEnds(t) \/ TaskQuits(t)
  \/ StopProcessing \/ Shutdown

Spec == Init /\ [][Next]_vars

\* tokio polls every ready handler and task; the main thread runs.
FairSpec ==
  /\ Spec
  /\ \A h \in Reloads : WF_vars(Proceed(h))
  /\ \A t \in Tasks : WF_vars(TaskEnds(t))
  /\ WF_vars(Shutdown)

-----------------------------------------------------------------------------
(* Properties.                                                             *)

Worker == [task : Tasks, setting : Enabled]

Handler ==
  [pc : {"idle", "compare", "stop", "await", "forget", "adopt", "recheck",
         "start", "insert"},
   file : Files \union {None}, todo : SUBSET Cameras,
   cam : Cameras \union {None}, task : Tasks \union {None}]

\* Types of the manager's state; the worker that stop_all waits for is one it
\* has not ticked off, only tasks that run are under abort, and only the
\* shutdown makes requests wait.
TypeOK ==
  /\ configs \in Files /\ shared \in Files
  /\ workers \in [Cameras -> Worker \union {None}]
  /\ statuses \in [Cameras -> Tasks \union {None}]
  /\ live \subseteq Tasks /\ aborted \subseteq live
  /\ reload \in [Reloads -> Handler]
  /\ blocked \subseteq Reloads \union Viewers
  /\ main \in {"serving", "locking", "stopping", "stopped"}
  /\ left \subseteq Cameras /\ closing \in left \union {None}
  /\ blocked # {} => Locked

\* While the service runs, no worker in the map is dead or dying: a live view
\* that finds its camera gets frames, and a reload that finds a camera running
\* is right not to start it, whatever reloads happen together or are broken off.
WorkersLive ==
  main = "serving" =>
    \A c \in Running : workers[c].task \in live \ aborted

\* A running camera that every configuration enables is not interrupted by
\* reloads (docs/CHANGELOG.md:79), neither stopped nor replaced, even when
\* several reloads overlap.
AlwaysOn == {c \in Cameras : \A file \in Files : file[c] \in Enabled}

KeptRunning ==
  [][main' = "serving" =>
       \A c \in AlwaysOn : /\ workers'[c] = workers[c]
                           /\ workers[c].task \in live' \ aborted']_vars

\* Every task that is not being stopped belongs to a worker that the map or a
\* handler on its way to the map holds, so that somebody can stop it.  (The
\* comment on CameraWorker::shutdown_tx says that dropping the worker ends it.)
NoOrphans ==
  live \ aborted \subseteq {workers[c].task : c \in Running}
                           \union {reload[h].task : h \in Reloads}

\* With one reload at a time, also after reloads that were broken off half
\* way: when a reload returns, exactly the enabled cameras of its file run,
\* each with a live task and the status of that task, and both copies of the
\* configuration are the file.
ReloadApplies ==
  [][\A h \in Reloads : Finish(h) /\ main = "serving" =>
       LET file == reload[h].file IN
       /\ Running = EnabledIn(file)
       /\ \A c \in Running : /\ workers[c].task \in live \ aborted
                             /\ statuses[c] = workers[c].task
       /\ configs = file /\ shared = file]_vars

\* With one reload at a time: when stop_all lets go of the map, the tasks of
\* its workers have ended, and what still runs is dying or in the hands of a
\* handler.
ShutdownLeavesNone ==
  [][Clear => /\ \A c \in Running : workers[c].task \notin live
              /\ live \subseteq aborted \union {reload[h].task : h \in Reloads}]_vars

\* With more threads than requests, stop_all returns although it waits with
\* the map locked ("Graceful shutdown" in main.rs).
ShutdownCompletes == main = "locking" ~> main = "stopped"

\* With more threads than requests, every reload returns, also one that the
\* shutdown held up or found half way.
ReloadReturns == \A h \in Reloads : reload[h].pc # "idle" ~> reload[h].pc = "idle"
=============================================================================
