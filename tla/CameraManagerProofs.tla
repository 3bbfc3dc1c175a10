------------------------- MODULE CameraManagerProofs -------------------------
(***************************************************************************)
(* Proofs about CameraManager, for every set of cameras, files, tasks,     *)
(* requests and threads.                                                   *)
(***************************************************************************)
EXTENDS CameraManager, FiniteSetTheorems, TLAPS

-----------------------------------------------------------------------------
(* The inductive invariant, for any number of overlapping reloads. *)

\* What a handler holds at each point: its file from the first lock to the
\* last, the camera it works on, which is still on its list, and that camera's
\* task.  It starts only cameras its file enables.
HandlerShape ==
  \A h \in Reloads :
    LET r == reload[h] IN
    /\ r.pc # "idle" => r.file \in Files
    /\ r.pc \in {"await", "forget", "insert"} => r.cam \in r.todo
    /\ r.pc \in {"await", "insert"} => r.task \in Tasks
    /\ r.pc \notin {"await", "insert"} => r.task = None
    /\ r.pc \in {"start", "insert"} => r.todo \subseteq EnabledIn(r.file)

\* Nobody but stop_all, with the map locked, waits for a worker.
ClosingOnce == closing # None => main = "stopping"

\* The handler holds a worker that is not in the map yet.
Carries(h) == reload[h].pc = "insert"

\* No task is used twice.
TasksDiffer ==
  /\ \A c, d \in Running : workers[c].task = workers[d].task => c = d
  /\ \A h \in Reloads : Carries(h) =>
       \A c \in Running : workers[c].task # reload[h].task
  /\ \A g, h \in Reloads : Carries(g) /\ Carries(h) =>
       (reload[g].task = reload[h].task => g = h)

\* While the service runs nobody stops a worker that is on its way to the map.
CarriedLive ==
  main = "serving" =>
    \A h \in Reloads : Carries(h) => reload[h].task \in live \ aborted

\* While the service runs a camera that every file enables is in the map, and
\* on nobody's list.
AlwaysOnKept ==
  main = "serving" =>
    /\ AlwaysOn \subseteq Running
    /\ \A h \in Reloads : reload[h].todo \intersect AlwaysOn = {}

IInv ==
  /\ TypeOK
  /\ HandlerShape
  /\ ClosingOnce
  /\ TasksDiffer
  /\ WorkersLive
  /\ CarriedLive
  /\ AlwaysOnKept

-----------------------------------------------------------------------------
(* The inductive invariant with one reload at a time. *)

OneReload == \A g, h \in Reloads : g = h

\* Where the handler is decides how far its file is applied.
AppliedBy(r) ==
  /\ r.pc \in {"stop", "await", "forget"} =>
       Running \subseteq EnabledIn(r.file) \union r.todo
  /\ r.pc \in {"await", "forget"} => r.cam \notin Running
  /\ r.pc \in {"adopt", "recheck"} => Running \subseteq EnabledIn(r.file)
  /\ r.pc \in {"start", "insert"} =>
       /\ r.todo \intersect Running = {}
       /\ Running \subseteq EnabledIn(r.file)
       /\ main # "stopped" => EnabledIn(r.file) \subseteq Running \union r.todo
  /\ r.pc \in {"adopt", "recheck", "start", "insert"} => shared = r.file
  /\ r.pc \in {"recheck", "start", "insert"} => configs = r.file

Applied == \A h \in Reloads : AppliedBy(reload[h])

\* The status in the map is the one of the worker in the map.
StatusesMatch ==
  /\ \A c \in Running : statuses[c] = workers[c].task
  /\ \A h \in Reloads : Carries(h) => statuses[reload[h].cam] = reload[h].task

\* The task a handler waits for is dying.
AwaitedDying ==
  \A h \in Reloads :
    reload[h].pc = "await" => reload[h].task \notin live \ aborted

\* The workers that stop_all has ticked off are dead.
TickedOff ==
  main = "stopping" => \A c \in Running \ left : workers[c].task \notin live

SInv ==
  /\ IInv
  /\ Applied
  /\ StatusesMatch
  /\ AwaitedDying
  /\ NoOrphans
  /\ TickedOff

-----------------------------------------------------------------------------
(* Tasks and types. *)

\* A new task is one nobody has.
LEMMA NewTaskFresh ==
  ASSUME Spare # {}
  PROVE  NewTask \in Tasks /\ NewTask \notin Used
BY DEF NewTask, Spare

\* None is neither a task nor a camera nor a worker.
LEMMA NoneApart ==
  None \notin Tasks /\ None \notin Cameras /\ None \notin Worker
BY ConstantsValid DEF ConstantsValid, Worker

\* The actions of a handler, under one name each.
HandlerStep(h) ==
  \/ \E file \in Files : Load(h, file)
  \/ Compare(h) \/ Stopped(h) \/ Cancel(h) \/ Forget(h) \/ Share(h)
  \/ Adopt(h) \/ Recheck(h) \/ Insert(h) \/ Finish(h)
  \/ \E c \in Cameras : Remove(h, c) \/ Launch(h, c)

\* Every handler keeps the type of its state.
LEMMA HandlerType ==
  ASSUME TypeOK, HandlerShape, NEW h \in Reloads, HandlerStep(h)
  PROVE  reload' \in [Reloads -> Handler]
<1>1. reload \in [Reloads -> Handler] /\ reload[h] \in Handler
  BY DEF TypeOK
<1>2. \A c : workers[c] # None /\ c \in Cameras => workers[c].task \in Tasks
  BY DEF TypeOK, Worker
<1>3. None \in Tasks \union {None} /\ None \in Cameras \union {None}
  OBVIOUS
<1>4. Idle \in Handler
  BY <1>3 DEF Idle, Handler
<1>5. ASSUME NEW file \in Files, Load(h, file)
      PROVE  reload' \in [Reloads -> Handler]
  <2>1. [Idle EXCEPT !.pc = "compare", !.file = file] \in Handler
    BY <1>4 DEF Handler
  <2> QED BY <1>1, <1>5, <2>1 DEF Load
<1>6. CASE Compare(h)
  <2>1. Running \ EnabledIn(reload[h].file) \in SUBSET Cameras
    BY DEF Running
  <2> QED BY <1>1, <1>6, <2>1 DEF Compare, Handler
<1>7. CASE Stopped(h)
  BY <1>1, <1>7 DEF Stopped, Handler
<1>8. CASE Cancel(h)
  BY <1>1, <1>4, <1>8 DEF Cancel
<1>9. CASE Forget(h)
  BY <1>1, <1>9 DEF Forget, Handler
<1>10. CASE Share(h)
  BY <1>1, <1>10 DEF Share, Handler
<1>11. CASE Adopt(h)
  BY <1>1, <1>11 DEF Adopt, Handler
<1>12. CASE Recheck(h)
  <2>1. EnabledIn(reload[h].file) \ Running \in SUBSET Cameras
    BY DEF EnabledIn
  <2> QED BY <1>1, <1>12, <2>1 DEF Recheck, Handler
<1>13. CASE Insert(h)
  BY <1>1, <1>13 DEF Insert, Handler
<1>14. CASE Finish(h)
  BY <1>1, <1>4, <1>14 DEF Finish
<1>15. ASSUME NEW c \in Cameras, Remove(h, c)
       PROVE  reload' \in [Reloads -> Handler]
  <2>1. CASE workers[c] = None
    BY <1>1, <1>15, <2>1 DEF Remove, Handler
  <2>2. CASE workers[c] # None
    <3>1. workers[c].task \in Tasks
      BY <1>2, <2>2
    <3>2. reload' = [reload EXCEPT ![h].pc = "await", ![h].cam = c,
                                   ![h].task = workers[c].task]
      BY <1>15, <2>2 DEF Remove
    <3> QED BY <1>1, <3>1, <3>2 DEF Handler
  <2> QED BY <2>1, <2>2
<1>16. ASSUME NEW c \in Cameras, Launch(h, c)
       PROVE  reload' \in [Reloads -> Handler]
  <2>1. NewTask \in Tasks
    BY <1>16, NewTaskFresh DEF Launch
  <2> QED BY <1>1, <1>16, <2>1 DEF Launch, Handler
<1> QED BY <1>5, <1>6, <1>7, <1>8, <1>9, <1>10, <1>11, <1>12, <1>13, <1>14,
           <1>15, <1>16 DEF HandlerStep

\* A handler keeps the types of everything else.
LEMMA HandlerKeepsType ==
  ASSUME TypeOK, HandlerShape, NEW h \in Reloads, HandlerStep(h)
  PROVE  TypeOK'
<1>1. reload' \in [Reloads -> Handler]
  BY HandlerType
<1>2. UNCHANGED <<blocked, stop>>
  BY DEF HandlerStep, Load, Compare, Stopped, Cancel, Forget, Share, Adopt,
         Recheck, Insert, Finish, Remove, Launch
<1>3. /\ blocked' \subseteq Reloads \union Viewers
      /\ main' \in {"serving", "locking", "stopping", "stopped"}
      /\ left' \subseteq Cameras /\ closing' \in left' \union {None}
      /\ blocked' # {} => Locked'
  BY <1>2 DEF TypeOK, stop, Locked
<1>4. CASE \/ \E file \in Files : Load(h, file)
           \/ Compare(h) \/ Stopped(h) \/ Cancel(h) \/ Recheck(h) \/ Finish(h)
  <2>1. UNCHANGED <<config, workers, statuses, tasks>>
    BY <1>4 DEF Load, Compare, Stopped, Cancel, Recheck, Finish
  <2> QED BY <1>1, <1>3, <2>1 DEF TypeOK, config, tasks
<1>5. CASE Forget(h)
  <2>1. statuses' \in [Cameras -> Tasks \union {None}]
    BY <1>5 DEF Forget, TypeOK
  <2> QED BY <1>1, <1>3, <1>5, <2>1 DEF Forget, TypeOK, config, tasks
<1>6. CASE Share(h) \/ Adopt(h)
  <2>1. reload[h].file \in Files
    BY <1>6 DEF HandlerShape, Share, Adopt
  <2>2. /\ configs' \in {configs, reload[h].file}
        /\ shared' \in {shared, reload[h].file}
        /\ UNCHANGED <<workers, statuses, tasks>>
    BY <1>6 DEF Share, Adopt
  <2> QED BY <1>1, <1>3, <2>1, <2>2 DEF TypeOK, tasks
<1>7. CASE Insert(h)
  <2> DEFINE c == reload[h].cam
             w == [task |-> reload[h].task, setting |-> reload[h].file[c]]
  <2>1. /\ reload[h].task \in Tasks /\ c \in reload[h].todo
        /\ reload[h].todo \subseteq EnabledIn(reload[h].file)
    BY <1>7 DEF HandlerShape, Insert
  <2>2. w \in Worker
    BY <2>1 DEF EnabledIn, Worker
  <2>3. workers' = [workers EXCEPT ![c] = w]
    BY <1>7 DEF Insert
  <2> HIDE DEF w, c
  <2>4. workers' \in [Cameras -> Worker \union {None}]
    BY <2>2, <2>3 DEF TypeOK
  <2> QED BY <1>1, <1>3, <1>7, <2>4 DEF Insert, TypeOK, config, tasks
<1>8. ASSUME NEW c \in Cameras, Remove(h, c)
      PROVE  TypeOK'
  <2>1. workers' \in [Cameras -> Worker \union {None}]
    BY <1>8 DEF Remove, TypeOK
  <2>2. aborted' \subseteq live
    BY <1>8 DEF Remove, TypeOK
  <2> QED BY <1>1, <1>3, <1>8, <2>1, <2>2 DEF Remove, TypeOK, config
<1>9. ASSUME NEW c \in Cameras, Launch(h, c)
      PROVE  TypeOK'
  <2>1. NewTask \in Tasks
    BY <1>9, NewTaskFresh DEF Launch
  <2>2. statuses' \in [Cameras -> Tasks \union {None}]
    BY <1>9, <2>1 DEF Launch, TypeOK
  <2>3. live' \subseteq Tasks /\ aborted' \subseteq live'
    BY <1>9, <2>1 DEF Launch, TypeOK
  <2> QED BY <1>1, <1>3, <1>9, <2>2, <2>3 DEF Launch, TypeOK, config
<1> QED BY <1>4, <1>5, <1>6, <1>7, <1>8, <1>9 DEF HandlerStep

\* The other steps of the system.
OtherStep ==
  \/ \E r \in Reloads \union Viewers : Block(r)
  \/ \E t \in Tasks : TaskEnds(t) \/ TaskQuits(t)
  \/ StopProcessing \/ Shutdown

\* Every step is one of these.
LEMMA NextCases ==
  ASSUME [Next]_vars
  PROVE  \/ \E h \in Reloads : HandlerStep(h)
         \/ OtherStep
         \/ UNCHANGED vars
BY DEF Next, Proceed, HandlerStep, OtherStep

\* The other steps keep the types.
LEMMA OtherKeepsType ==
  ASSUME TypeOK, ClosingOnce, OtherStep
  PROVE  TypeOK' /\ ClosingOnce'
<1>1. UNCHANGED <<config, statuses, reload>>
  BY DEF OtherStep, Block, TaskEnds, TaskQuits, StopProcessing, Shutdown,
         LockWorkers, StopWorker, WorkerStopped, Clear
<1>2. ASSUME NEW r \in Reloads \union Viewers, Block(r)
      PROVE  TypeOK' /\ ClosingOnce'
  BY <1>1, <1>2 DEF Block, TypeOK, ClosingOnce, config, tasks, stop, Locked
<1>3. ASSUME NEW t \in Tasks, TaskEnds(t) \/ TaskQuits(t)
      PROVE  TypeOK' /\ ClosingOnce'
  <2>1. live' \subseteq Tasks /\ aborted' \subseteq live'
    BY <1>3 DEF TaskEnds, TaskQuits, TypeOK
  <2>2. UNCHANGED <<workers, blocked, stop>>
    BY <1>3 DEF TaskEnds, TaskQuits
  <2> QED BY <1>1, <2>1, <2>2 DEF TypeOK, ClosingOnce, config, stop, Locked
<1>4. CASE StopProcessing
  BY <1>1, <1>4 DEF StopProcessing, TypeOK, ClosingOnce, config, tasks, Locked
<1>5. CASE LockWorkers
  <2>1. closing' = None /\ left' \subseteq Cameras
    BY <1>5 DEF LockWorkers, ClosingOnce, Running
  <2> QED BY <1>1, <1>5, <2>1 DEF LockWorkers, TypeOK, ClosingOnce, config, tasks,
                                  Locked
<1>6. ASSUME NEW c \in Cameras, StopWorker(c)
      PROVE  TypeOK' /\ ClosingOnce'
  <2>1. aborted' \subseteq live' /\ closing' \in left'
    BY <1>6 DEF StopWorker, TypeOK
  <2>2. UNCHANGED <<workers, live, blocked, main, left>>
    BY <1>6 DEF StopWorker
  <2> QED BY <1>1, <1>6, <2>1, <2>2 DEF StopWorker, TypeOK, ClosingOnce, config, Locked
<1>7. CASE WorkerStopped
  BY <1>1, <1>7 DEF WorkerStopped, TypeOK, ClosingOnce, config, tasks, Locked
<1>8. CASE Clear
  <2>1. workers' \in [Cameras -> Worker \union {None}]
    BY <1>8 DEF Clear
  <2> QED BY <1>1, <1>8, <2>1 DEF Clear, TypeOK, ClosingOnce, config, tasks, Locked
<1> QED BY <1>2, <1>3, <1>4, <1>5, <1>6, <1>7, <1>8 DEF OtherStep, Shutdown

-----------------------------------------------------------------------------
(* The shape of the handlers. *)

\* What HandlerShape says of one handler.
Shape(r) ==
  /\ r.pc # "idle" => r.file \in Files
  /\ r.pc \in {"await", "forget", "insert"} => r.cam \in r.todo
  /\ r.pc \in {"await", "insert"} => r.task \in Tasks
  /\ r.pc \notin {"await", "insert"} => r.task = None
  /\ r.pc \in {"start", "insert"} => r.todo \subseteq EnabledIn(r.file)

\* A step of one handler leaves the others alone.
LEMMA OthersWait ==
  ASSUME TypeOK, NEW h \in Reloads, HandlerStep(h)
  PROVE  \A g \in Reloads : g # h => reload'[g] = reload[g]
<1>1. reload \in [Reloads -> Handler]
  BY DEF TypeOK
<1>2. ASSUME NEW c \in Cameras, Remove(h, c)
      PROVE  \A g \in Reloads : g # h => reload'[g] = reload[g]
  BY <1>1, <1>2 DEF Remove
<1> QED BY <1>1, <1>2 DEF HandlerStep, Load, Compare, Stopped, Cancel, Forget, Share,
           Adopt, Recheck, Insert, Finish, Launch

\* A step of a handler keeps its shape.
LEMMA HandlerKeepsShape ==
  ASSUME TypeOK, HandlerShape, NEW h \in Reloads, HandlerStep(h)
  PROVE  HandlerShape'
<1> DEFINE r == reload[h]
<1>1. reload \in [Reloads -> Handler] /\ r \in Handler
  BY DEF TypeOK
<1>2. Shape(r)
  BY DEF HandlerShape, Shape
<1> SUFFICES Shape(reload'[h])
  <2>1. ASSUME Shape(reload'[h])
        PROVE  \A g \in Reloads : Shape(reload'[g])
    BY <2>1, OthersWait DEF HandlerShape, Shape
  <2> QED BY <2>1 DEF HandlerShape, Shape, EnabledIn
<1>3. ASSUME NEW file \in Files, Load(h, file)
      PROVE  Shape(reload'[h])
  BY <1>1, <1>3 DEF Load, Shape, Idle
<1>4. CASE Compare(h)
  BY <1>1, <1>2, <1>4 DEF Compare, Shape, Handler
<1>5. CASE Stopped(h)
  BY <1>1, <1>2, <1>5 DEF Stopped, Shape, Handler
<1>6. CASE Cancel(h) \/ Finish(h)
  BY <1>1, <1>6 DEF Cancel, Finish, Shape, Idle
<1>7. CASE Forget(h)
  BY <1>1, <1>2, <1>7 DEF Forget, Shape, Handler
<1>8. CASE Share(h) \/ Adopt(h)
  BY <1>1, <1>2, <1>8 DEF Share, Adopt, Shape, Handler
<1>9. CASE Recheck(h)
  <2>1. reload'[h] = [r EXCEPT !.pc = "start", !.todo = EnabledIn(r.file) \ Running]
    BY <1>1, <1>9 DEF Recheck
  <2>2. /\ reload'[h].pc = "start" /\ reload'[h].file = r.file
        /\ reload'[h].todo \subseteq EnabledIn(r.file) /\ reload'[h].task = r.task
    BY <1>1, <2>1 DEF Handler
  <2> QED BY <1>2, <1>9, <2>2 DEF Recheck, Shape
<1>10. CASE Insert(h)
  <2>1. reload'[h] = [r EXCEPT !.pc = "start", !.todo = @ \ {r.cam},
                               !.cam = None, !.task = None]
    BY <1>1, <1>10 DEF Insert
  <2>2. /\ reload'[h].pc = "start" /\ reload'[h].file = r.file
        /\ reload'[h].todo \subseteq r.todo /\ reload'[h].task = None
    BY <1>1, <2>1 DEF Handler
  <2> QED BY <1>2, <1>10, <2>2 DEF Insert, Shape
<1>11. ASSUME NEW c \in Cameras, Remove(h, c)
       PROVE  Shape(reload'[h])
  <2>1. CASE workers[c] = None
    BY <1>1, <1>2, <1>11, <2>1 DEF Remove, Shape, Handler
  <2>2. CASE workers[c] # None
    <3>1. workers[c].task \in Tasks
      BY <2>2 DEF TypeOK, Worker
    <3>2. reload' = [reload EXCEPT ![h].pc = "await", ![h].cam = c,
                                   ![h].task = workers[c].task]
      BY <1>11, <2>2 DEF Remove
    <3>3. r.pc = "stop" /\ c \in r.todo
      BY <1>11 DEF Remove
    <3> QED BY <1>1, <1>2, <3>1, <3>2, <3>3 DEF Shape, Handler
  <2> QED BY <2>1, <2>2
<1>12. ASSUME NEW c \in Cameras, Launch(h, c)
       PROVE  Shape(reload'[h])
  <2>1. NewTask \in Tasks
    BY <1>12, NewTaskFresh DEF Launch
  <2>2. reload'[h] = [r EXCEPT !.pc = "insert", !.cam = c, !.task = NewTask]
    BY <1>1, <1>12 DEF Launch
  <2>3. /\ reload'[h].pc = "insert" /\ reload'[h].file = r.file
        /\ reload'[h].todo = r.todo /\ reload'[h].cam = c
        /\ reload'[h].task = NewTask
    BY <1>1, <2>2 DEF Handler
  <2> QED BY <1>2, <1>12, <2>1, <2>3 DEF Launch, Shape
<1> QED
  BY <1>3, <1>4, <1>5, <1>6, <1>7, <1>8, <1>9, <1>10, <1>11, <1>12 DEF HandlerStep

-----------------------------------------------------------------------------
(* What a step of a handler does to the workers and their tasks. *)

\* Nothing, and the handler neither carries a worker nor waits for one to end.
Quiet(h) ==
  /\ UNCHANGED <<workers, live, aborted>>
  /\ statuses' = statuses \/ Forget(h)
  /\ reload[h].pc # "insert" /\ reload'[h].pc \notin {"await", "insert"}

\* It takes the worker of camera c out of the map and aborts its task.
Takes(h, c) ==
  /\ reload[h].pc = "stop" /\ c \in reload[h].todo /\ workers[c] # None /\ ~Locked
  /\ workers' = [workers EXCEPT ![c] = None]
  /\ live' = live /\ aborted' = aborted \union ({workers[c].task} \intersect live)
  /\ statuses' = statuses
  /\ reload'[h].pc = "await" /\ reload'[h].task = workers[c].task

\* It starts a new task for camera c.
Starts(h, c) ==
  /\ reload[h].pc = "start" /\ c \in reload[h].todo /\ Spare # {}
  /\ workers' = workers /\ live' = live \union {NewTask} /\ aborted' = aborted
  /\ statuses' = [statuses EXCEPT ![c] = NewTask]
  /\ reload'[h].pc = "insert" /\ reload'[h].cam = c /\ reload'[h].task = NewTask

\* It puts the worker it carries into the map.
Puts(h) ==
  /\ Carries(h) /\ ~Locked
  /\ workers' = [workers EXCEPT ![reload[h].cam] =
                   [task    |-> reload[h].task,
                    setting |-> reload[h].file[reload[h].cam]]]
  /\ UNCHANGED <<live, aborted, statuses>>
  /\ reload'[h].pc = "start"

\* A step of a handler does one of these.
LEMMA HandlerEffects ==
  ASSUME TypeOK, NEW h \in Reloads, HandlerStep(h)
  PROVE  \/ Quiet(h)
         \/ \E c \in Cameras : Takes(h, c) \/ Starts(h, c)
         \/ Puts(h)
<1>1. reload \in [Reloads -> Handler] /\ reload[h] \in Handler
  BY DEF TypeOK
<1>2. ASSUME NEW file \in Files, Load(h, file)
      PROVE  Quiet(h)
  BY <1>1, <1>2 DEF Load, Idle, Quiet, tasks
<1>3. CASE Cancel(h) \/ Finish(h)
  BY <1>1, <1>3 DEF Cancel, Finish, Idle, Quiet, tasks
<1>4. CASE Compare(h) \/ Stopped(h) \/ Recheck(h)
  BY <1>1, <1>4 DEF Compare, Stopped, Recheck, Handler, Quiet, tasks
<1>5. CASE Forget(h) \/ Share(h) \/ Adopt(h)
  <2>1. UNCHANGED <<workers, live, aborted>> /\ (statuses' = statuses \/ Forget(h))
    BY <1>5 DEF Forget, Share, Adopt, tasks
  <2>2. reload[h].pc # "insert" /\ reload'[h].pc \in {"stop", "adopt", "recheck"}
    BY <1>1, <1>5 DEF Forget, Share, Adopt, Handler
  <2> QED BY <2>1, <2>2 DEF Quiet
<1>6. CASE Insert(h)
  BY <1>1, <1>6 DEF Insert, Handler, Carries, Puts, tasks
<1>7. ASSUME NEW c \in Cameras, Remove(h, c)
      PROVE  Quiet(h) \/ Takes(h, c)
  <2>1. CASE workers[c] = None
    BY <1>1, <1>7, <2>1 DEF Remove, Handler, Quiet
  <2>2. CASE workers[c] # None
    BY <1>1, <1>7, <2>2 DEF Remove, Handler, Takes
  <2> QED BY <2>1, <2>2
<1>8. ASSUME NEW c \in Cameras, Launch(h, c)
      PROVE  Starts(h, c)
  BY <1>1, <1>8 DEF Launch, Handler, Starts
<1> QED BY <1>2, <1>3, <1>4, <1>5, <1>6, <1>7, <1>8 DEF HandlerStep

\* A handler gives no task to two workers.
LEMMA HandlerKeepsTasksDiffer ==
  ASSUME TypeOK, HandlerShape, TasksDiffer, NEW h \in Reloads, HandlerStep(h)
  PROVE  TasksDiffer'
<1>1. \A g \in Reloads : g # h => reload'[g] = reload[g]
  BY OthersWait
<1>2. CASE Quiet(h)
  BY <1>1, <1>2 DEF Quiet, TasksDiffer, Running, Carries
<1>3. ASSUME NEW c \in Cameras, Takes(h, c)
      PROVE  TasksDiffer'
  <2>1. \A d \in Running' : d \in Running /\ workers'[d] = workers[d]
    BY <1>3 DEF Takes, Running, TypeOK
  <2>2. \A g \in Reloads : Carries(g)' => Carries(g) /\ reload'[g] = reload[g]
    BY <1>1, <1>3 DEF Takes, Carries
  <2> QED BY <2>1, <2>2 DEF TasksDiffer
<1>4. ASSUME NEW c \in Cameras, Starts(h, c)
      PROVE  TasksDiffer'
  <2>1. \A d \in Running : workers[d].task # NewTask
    BY <1>4, NewTaskFresh DEF Starts, Used
  <2>2. \A g \in Reloads : reload[g].task # NewTask
    BY <1>4, NewTaskFresh DEF Starts, Used
  <2>3. workers' = workers /\ Running' = Running
    BY <1>4 DEF Starts, Running
  <2>4. reload'[h].task = NewTask
    BY <1>4 DEF Starts
  <2>5. \A g \in Reloads : Carries(g)' =>
          g = h \/ (Carries(g) /\ reload'[g] = reload[g])
    BY <1>1 DEF Carries
  <2> QED BY <2>1, <2>2, <2>3, <2>4, <2>5 DEF TasksDiffer
<1>5. CASE Puts(h)
  <2> DEFINE c == reload[h].cam
             w == [task |-> reload[h].task, setting |-> reload[h].file[c]]
  <2>1. w.task = reload[h].task
    OBVIOUS
  <2>2. c \in Cameras
    BY <1>5 DEF Puts, Carries, HandlerShape, TypeOK, Handler
  <2>3. workers' = [workers EXCEPT ![c] = w]
    BY <1>5 DEF Puts
  <2> HIDE DEF w, c
  <2>4. /\ workers'[c] = w
        /\ \A d \in Running' : d # c => d \in Running /\ workers'[d] = workers[d]
    BY <2>2, <2>3 DEF TypeOK, Running
  <2>5. Carries(h) /\ \A g \in Reloads : Carries(g)' =>
                        g # h /\ Carries(g) /\ reload'[g] = reload[g]
    BY <1>1, <1>5 DEF Puts, Carries
  <2>6. \A d, e \in Running' : workers'[d].task = workers'[e].task => d = e
    BY <2>1, <2>4, <2>5 DEF TasksDiffer
  <2>7. ASSUME NEW g \in Reloads, Carries(g)'
        PROVE  \A d \in Running' : workers'[d].task # reload'[g].task
    BY <2>1, <2>4, <2>5, <2>7 DEF TasksDiffer
  <2>8. ASSUME NEW f \in Reloads, NEW g \in Reloads, Carries(f)', Carries(g)',
               reload'[f].task = reload'[g].task
        PROVE  f = g
    BY <2>5, <2>8 DEF TasksDiffer
  <2> QED BY <2>6, <2>7, <2>8 DEF TasksDiffer
<1> QED BY <1>2, <1>3, <1>4, <1>5, HandlerEffects

\* While the service runs, a handler stops no task of another worker.
LEMMA HandlerKeepsLive ==
  ASSUME TypeOK, HandlerShape, TasksDiffer, WorkersLive, CarriedLive,
         NEW h \in Reloads, HandlerStep(h)
  PROVE  WorkersLive' /\ CarriedLive'
<1>1. \A g \in Reloads : g # h => reload'[g] = reload[g]
  BY OthersWait
<1> SUFFICES ASSUME main' = "serving"
             PROVE  /\ \A d \in Running' : workers'[d].task \in live' \ aborted'
                    /\ \A g \in Reloads : Carries(g)' =>
                         reload'[g].task \in live' \ aborted'
  BY DEF WorkersLive, CarriedLive
<1>2. main = "serving"
  BY DEF HandlerStep, Load, Compare, Stopped, Cancel, Forget, Share, Adopt,
         Recheck, Insert, Finish, Remove, Launch, stop
<1>3. /\ \A d \in Running : workers[d].task \in live \ aborted
      /\ \A g \in Reloads : Carries(g) => reload[g].task \in live \ aborted
  BY <1>2 DEF WorkersLive, CarriedLive
<1>4. CASE Quiet(h)
  BY <1>1, <1>3, <1>4 DEF Quiet, Running, Carries
<1>5. ASSUME NEW c \in Cameras, Takes(h, c)
      PROVE  /\ \A d \in Running' : workers'[d].task \in live' \ aborted'
             /\ \A g \in Reloads : Carries(g)' =>
                  reload'[g].task \in live' \ aborted'
  <2>1. \A d \in Running' : d \in Running /\ d # c /\ workers'[d] = workers[d]
    BY <1>5 DEF Takes, Running, TypeOK
  <2>2. c \in Running
    BY <1>5 DEF Takes, Running
  <2>3. \A g \in Reloads : Carries(g)' => Carries(g) /\ reload'[g] = reload[g]
    BY <1>1, <1>5 DEF Takes, Carries
  <2>4. live' = live /\ aborted' \subseteq aborted \union {workers[c].task}
    BY <1>5 DEF Takes
  <2>5. \A d \in Running : d # c => workers[d].task # workers[c].task
    BY <2>2 DEF TasksDiffer
  <2>6. \A g \in Reloads : Carries(g) => reload[g].task # workers[c].task
    BY <2>2 DEF TasksDiffer
  <2> QED BY <1>3, <2>1, <2>3, <2>4, <2>5, <2>6
<1>6. ASSUME NEW c \in Cameras, Starts(h, c)
      PROVE  /\ \A d \in Running' : workers'[d].task \in live' \ aborted'
             /\ \A g \in Reloads : Carries(g)' =>
                  reload'[g].task \in live' \ aborted'
  <2>1. NewTask \notin aborted
    BY <1>6, NewTaskFresh DEF Starts, Used, TypeOK
  <2>2. Running' = Running
    BY <1>6 DEF Starts, Running
  <2> QED BY <1>1, <1>3, <1>6, <2>1, <2>2 DEF Starts, Carries
<1>7. CASE Puts(h)
  <2> DEFINE c == reload[h].cam
             w == [task |-> reload[h].task, setting |-> reload[h].file[c]]
  <2>1. w.task = reload[h].task
    OBVIOUS
  <2>2. c \in Cameras
    BY <1>7 DEF Puts, Carries, HandlerShape, TypeOK, Handler
  <2>3. workers' = [workers EXCEPT ![c] = w]
    BY <1>7 DEF Puts
  <2> HIDE DEF w, c
  <2>4. /\ workers'[c] = w
        /\ \A d \in Running' : d # c => d \in Running /\ workers'[d] = workers[d]
    BY <2>2, <2>3 DEF TypeOK, Running
  <2> QED BY <1>1, <1>3, <1>7, <2>1, <2>4 DEF Puts, Carries
<1> QED BY <1>4, <1>5, <1>6, <1>7, HandlerEffects

\* A handler never lists a camera that every file enables while it is in the
\* map, so it keeps it there.
LEMMA HandlerKeepsAlwaysOn ==
  ASSUME TypeOK, HandlerShape, AlwaysOnKept, NEW h \in Reloads, HandlerStep(h)
  PROVE  /\ AlwaysOnKept'
         /\ main' = "serving" =>
              \A c \in AlwaysOn : c \in Running /\ workers'[c] = workers[c]
<1>1. \A g \in Reloads : g # h => reload'[g] = reload[g]
  BY OthersWait
<1> SUFFICES ASSUME main' = "serving"
             PROVE  /\ AlwaysOn \subseteq Running'
                    /\ \A g \in Reloads : reload'[g].todo \intersect AlwaysOn = {}
                    /\ \A c \in AlwaysOn : c \in Running /\ workers'[c] = workers[c]
  BY DEF AlwaysOnKept, AlwaysOn
<1>2. main = "serving"
  BY DEF HandlerStep, Load, Compare, Stopped, Cancel, Forget, Share, Adopt,
         Recheck, Insert, Finish, Remove, Launch, stop
<1>3. /\ AlwaysOn \subseteq Running
      /\ \A g \in Reloads : reload[g].todo \intersect AlwaysOn = {}
  BY <1>2 DEF AlwaysOnKept
<1>4. \A c \in AlwaysOn : workers'[c] = workers[c]
  <2>1. CASE Quiet(h)
    BY <2>1 DEF Quiet
  <2>2. ASSUME NEW c \in Cameras, Takes(h, c) \/ Starts(h, c)
        PROVE  \A d \in AlwaysOn : workers'[d] = workers[d]
    <3>1. c \notin AlwaysOn
      BY <1>3, <2>2 DEF Takes, Starts
    <3> QED BY <2>2, <3>1 DEF Takes, Starts, TypeOK, AlwaysOn
  <2>3. CASE Puts(h)
    <3>1. reload[h].cam \notin AlwaysOn
      BY <1>3, <2>3 DEF Puts, Carries, HandlerShape
    <3>2. \A c \in AlwaysOn : c \in Cameras
      BY DEF AlwaysOn
    <3> DEFINE w == [task    |-> reload[h].task,
                     setting |-> reload[h].file[reload[h].cam]]
    <3>3. workers' = [workers EXCEPT ![reload[h].cam] = w]
      BY <2>3 DEF Puts
    <3> HIDE DEF w
    <3> QED BY <3>1, <3>2, <3>3 DEF TypeOK
  <2> QED BY <2>1, <2>2, <2>3, HandlerEffects
<1>5. AlwaysOn \subseteq Running'
  BY <1>3, <1>4 DEF Running
<1>6. reload'[h].todo \intersect AlwaysOn = {}
  <2>1. reload \in [Reloads -> Handler] /\ reload[h] \in Handler
    BY DEF TypeOK
  <2>2. CASE Compare(h)
    <3>1. reload[h].file \in Files
      BY <2>2 DEF Compare, HandlerShape
    <3>2. AlwaysOn \subseteq EnabledIn(reload[h].file)
      BY <3>1 DEF AlwaysOn, EnabledIn
    <3>3. reload'[h].todo = Running \ EnabledIn(reload[h].file)
      BY <2>1, <2>2 DEF Compare, Handler
    <3> QED BY <3>2, <3>3
  <2>3. CASE Recheck(h)
    <3>1. reload'[h].todo = EnabledIn(reload[h].file) \ Running
      BY <2>1, <2>3 DEF Recheck, Handler
    <3> QED BY <1>3, <3>1
  <2>4. CASE Cancel(h) \/ Finish(h)
    <3>1. reload'[h].todo = {}
      BY <2>1, <2>4 DEF Cancel, Finish, Idle
    <3> QED BY <3>1
  <2>8. ASSUME NEW file \in Files, Load(h, file)
        PROVE  reload'[h].todo = {}
    BY <2>1, <2>8 DEF Load, Idle
  <2>5. CASE Stopped(h) \/ Forget(h) \/ Share(h) \/ Adopt(h)
    <3>1. reload'[h].todo \subseteq reload[h].todo
      BY <2>1, <2>5 DEF Stopped, Forget, Share, Adopt, Handler
    <3> QED BY <1>3, <3>1
  <2>6. CASE Insert(h)
    <3>1. reload'[h].todo \subseteq reload[h].todo
      BY <2>1, <2>6 DEF Insert, Handler
    <3> QED BY <1>3, <3>1
  <2>7. ASSUME NEW c \in Cameras, Remove(h, c) \/ Launch(h, c)
        PROVE  reload'[h].todo = reload[h].todo
    <3>1. CASE Remove(h, c)
      BY <2>1, <3>1 DEF Remove, Handler
    <3>2. CASE Launch(h, c)
      BY <2>1, <3>2 DEF Launch, Handler
    <3> QED BY <2>7, <3>1, <3>2
  <2> QED BY <1>3, <2>2, <2>3, <2>4, <2>5, <2>6, <2>7, <2>8 DEF HandlerStep
<1> QED BY <1>1, <1>3, <1>4, <1>5, <1>6

-----------------------------------------------------------------------------
(* The invariant: the other steps, the initial states, the theorems. *)

\* Tasks that end and the shutdown keep the rest of the invariant.
LEMMA OtherKeepsRest ==
  ASSUME IInv, OtherStep
  PROVE  /\ HandlerShape' /\ TasksDiffer' /\ WorkersLive' /\ CarriedLive'
         /\ AlwaysOnKept'
         /\ main' = "serving" => workers' = workers
<1>1. reload' = reload
  BY DEF OtherStep, Block, TaskEnds, TaskQuits, StopProcessing, Shutdown,
         LockWorkers, StopWorker, WorkerStopped, Clear
<1>2. HandlerShape'
  BY <1>1 DEF IInv, HandlerShape, EnabledIn
<1>3. TasksDiffer'
  <2>1. CASE workers' = workers
    BY <1>1, <2>1 DEF IInv, TasksDiffer, Running, Carries
  <2>2. CASE Clear
    <3>1. Running' = {}
      BY <2>2 DEF Clear, Running
    <3> QED BY <1>1, <3>1 DEF IInv, TasksDiffer, Carries
  <2> QED BY <2>1, <2>2
          DEF OtherStep, Block, TaskEnds, TaskQuits, StopProcessing, Shutdown,
              LockWorkers, StopWorker, WorkerStopped
<1> SUFFICES ASSUME main' = "serving"
             PROVE  WorkersLive' /\ CarriedLive' /\ AlwaysOnKept' /\ workers' = workers
  BY <1>2, <1>3 DEF WorkersLive, CarriedLive, AlwaysOnKept
<1>4. main = "serving" /\ workers' = workers
  BY DEF OtherStep, Block, TaskEnds, TaskQuits, StopProcessing, Shutdown,
         LockWorkers, StopWorker, WorkerStopped, Clear, stop
<1>5. live' \ aborted' = live \ aborted
  <2>1. CASE UNCHANGED tasks
    BY <2>1 DEF tasks
  <2>2. ASSUME NEW t \in Tasks, TaskEnds(t)
        PROVE  live' \ aborted' = live \ aborted
    BY <2>2 DEF TaskEnds
  <2> QED BY <1>4, <2>1, <2>2
          DEF OtherStep, Block, TaskQuits, StopProcessing, Shutdown,
              LockWorkers, StopWorker, WorkerStopped, Clear
<1> QED BY <1>1, <1>4, <1>5
        DEF IInv, WorkersLive, CarriedLive, AlwaysOnKept, Running, Carries, AlwaysOn

\* The manager starts with a task of its own for every camera.
LEMMA InitInvariant ==
  Init => IInv
<1> SUFFICES ASSUME Init PROVE IInv
  OBVIOUS
<1> DEFINE ids == CHOOSE f \in [Cameras -> Tasks] : Allotment(f)
<1>1. ids \in [Cameras -> Tasks] /\ Allotment(ids)
  BY EnoughTasks
<1>2. PICK file \in Files :
        /\ configs = file /\ shared = file
        /\ statuses = [c \in Cameras |-> IF file[c] = Absent THEN None ELSE ids[c]]
        /\ workers = [c \in Cameras |->
                        IF c \in EnabledIn(file)
                        THEN [task |-> ids[c], setting |-> file[c]] ELSE None]
        /\ live = {ids[c] : c \in EnabledIn(file)}
  BY DEF Init
<1> HIDE DEF ids
<1>3. /\ aborted = {} /\ blocked = {}
      /\ reload = [h \in Reloads |-> Idle]
      /\ main = "serving" /\ left = {} /\ closing = None
  BY DEF Init
<1>4. Idle \in Handler
  BY DEF Idle, Handler
<1>5. EnabledIn(file) \subseteq Cameras
  BY DEF EnabledIn
<1>6. TypeOK
  <2>1. workers \in [Cameras -> Worker \union {None}]
    <3>1. ASSUME NEW c \in EnabledIn(file)
          PROVE  [task |-> ids[c], setting |-> file[c]] \in Worker
      BY <1>1 DEF EnabledIn, Worker
    <3> QED BY <1>2, <3>1
  <2>2. statuses \in [Cameras -> Tasks \union {None}]
    BY <1>1, <1>2
  <2>3. live \subseteq Tasks
    BY <1>1, <1>2, <1>5
  <2>4. reload \in [Reloads -> Handler]
    BY <1>3, <1>4
  <2> QED BY <1>2, <1>3, <2>1, <2>2, <2>3, <2>4 DEF TypeOK
<1>7. Running \subseteq EnabledIn(file)
  BY <1>2 DEF Running
<1>8. \A c \in Running : workers[c].task = ids[c]
  BY <1>2, <1>5, <1>7
<1>9. \A h \in Reloads : /\ reload[h].pc = "idle" /\ reload[h].task = None
                         /\ reload[h].todo = {}
  BY <1>3 DEF Idle
<1>10. HandlerShape /\ ClosingOnce
  BY <1>3, <1>9 DEF HandlerShape, ClosingOnce
<1>11. TasksDiffer
  BY <1>1, <1>5, <1>7, <1>8, <1>9 DEF TasksDiffer, Carries, Allotment
<1>12. WorkersLive /\ CarriedLive
  <2>1. \A c \in Running : workers[c].task \in live
    <3>1. \A c \in EnabledIn(file) : ids[c] \in live
      BY <1>2
    <3> QED BY <1>7, <1>8, <3>1
  <2>2. \A h \in Reloads : ~Carries(h)
    BY <1>9 DEF Carries
  <2> QED BY <1>3, <2>1, <2>2 DEF WorkersLive, CarriedLive
<1>13. AlwaysOnKept
  <2>1. ASSUME NEW c \in AlwaysOn
        PROVE  c \in Running
    <3>1. c \in EnabledIn(file) /\ c \in Cameras
      BY <2>1 DEF AlwaysOn, EnabledIn
    <3>2. workers[c] = [task |-> ids[c], setting |-> file[c]]
      BY <1>2, <3>1
    <3>3. [task |-> ids[c], setting |-> file[c]] \in Worker
      BY <1>1, <3>1 DEF EnabledIn, Worker
    <3> QED BY <3>1, <3>2, <3>3, NoneApart DEF Running
  <2> QED BY <1>9, <2>1 DEF AlwaysOnKept
<1> QED BY <1>6, <1>10, <1>11, <1>12, <1>13 DEF IInv

\* Every step keeps the invariant, and the workers of the cameras that every
\* file enables.
LEMMA StepInvariant ==
  ASSUME IInv, [Next]_vars
  PROVE  /\ IInv'
         /\ main' = "serving" =>
              \A c \in AlwaysOn : c \in Running /\ workers'[c] = workers[c]
<1>1. ASSUME NEW h \in Reloads, HandlerStep(h)
      PROVE  /\ IInv'
             /\ main' = "serving" =>
                  \A c \in AlwaysOn : c \in Running /\ workers'[c] = workers[c]
  <2>1. TypeOK' /\ HandlerShape'
    BY <1>1, HandlerKeepsType, HandlerKeepsShape DEF IInv
  <2>2. ClosingOnce'
    BY <1>1 DEF IInv, ClosingOnce, HandlerStep, Load, Compare, Stopped, Cancel,
                Forget, Share, Adopt, Recheck, Insert, Finish, Remove, Launch, stop
  <2>3. TasksDiffer' /\ WorkersLive' /\ CarriedLive'
    BY <1>1, HandlerKeepsTasksDiffer, HandlerKeepsLive DEF IInv
  <2> QED BY <1>1, <2>1, <2>2, <2>3, HandlerKeepsAlwaysOn DEF IInv
<1>2. CASE OtherStep
  <2>1. main' = "serving" => main = "serving"
    BY <1>2 DEF OtherStep, Block, TaskEnds, TaskQuits, StopProcessing, Shutdown,
                LockWorkers, StopWorker, WorkerStopped, Clear, stop
  <2> QED BY <1>2, <2>1, OtherKeepsType, OtherKeepsRest DEF IInv, AlwaysOnKept
<1>3. CASE UNCHANGED vars
  <2>1. IInv'
    BY <1>3 DEF IInv, TypeOK, HandlerShape, ClosingOnce, TasksDiffer, WorkersLive,
                CarriedLive, AlwaysOnKept, Running, Carries, EnabledIn, AlwaysOn,
                Locked, vars, config, tasks, stop
  <2>2. main' = main /\ workers' = workers
    BY <1>3 DEF vars, stop
  <2> QED BY <2>1, <2>2 DEF IInv, AlwaysOnKept
<1> QED BY <1>1, <1>2, <1>3, NextCases

\* The invariant holds, for any number of overlapping reloads.
THEOREM ManagerInvariant ==
  Spec => []IInv
<1>1. IInv /\ [Next]_vars => IInv'
  BY StepInvariant
<1> QED BY <1>1, InitInvariant, PTL DEF Spec

\* Tasks, workers, statuses and handlers have their types; the worker that
\* stop_all waits for is one it has not ticked off.
THEOREM ManagerTypeCorrect ==
  Spec => []TypeOK
<1>1. IInv => TypeOK
  BY DEF IInv
<1> QED BY <1>1, ManagerInvariant, PTL

\* While the service runs, no worker in the map is dead or dying, however many
\* reloads overlap or are broken off half way.
THEOREM WorkersStayLive ==
  Spec => []WorkersLive
<1>1. IInv => WorkersLive
  BY DEF IInv
<1> QED BY <1>1, ManagerInvariant, PTL

\* No reload, however many overlap, stops or replaces the worker of a camera
\* that every configuration enables.
THEOREM ReloadsKeepRunning ==
  Spec => KeptRunning
<1>1. IInv /\ [Next]_vars =>
        [main' = "serving" =>
           \A c \in AlwaysOn : /\ workers'[c] = workers[c]
                               /\ workers[c].task \in live' \ aborted']_vars
  <2> SUFFICES ASSUME IInv, [Next]_vars, main' = "serving", NEW c \in AlwaysOn
               PROVE  /\ workers'[c] = workers[c]
                      /\ workers[c].task \in live' \ aborted'
    OBVIOUS
  <2>1. IInv' /\ workers'[c] = workers[c]
    BY StepInvariant
  <2>2. c \in Running' /\ WorkersLive'
    BY <2>1 DEF IInv, AlwaysOnKept, AlwaysOn
  <2> QED BY <2>1, <2>2 DEF WorkersLive
<1> QED BY <1>1, ManagerInvariant, PTL DEF Spec, KeptRunning

-----------------------------------------------------------------------------
(* One reload at a time: how far the file is applied. *)

\* A handler that reaches a point has done what its file asks for up to there.
LEMMA HandlerKeepsApplied ==
  ASSUME OneReload, IInv, Applied, NEW h \in Reloads, HandlerStep(h)
  PROVE  Applied'
<1> DEFINE r == reload[h]
           s == reload'[h]
<1>1. /\ reload \in [Reloads -> Handler] /\ r \in Handler
      /\ workers \in [Cameras -> Worker \union {None}]
  BY DEF IInv, TypeOK
<1>2. AppliedBy(r) /\ Shape(r)
  BY DEF Applied, IInv, HandlerShape, Shape
<1>3. main' = main
  BY DEF HandlerStep, Load, Compare, Stopped, Cancel, Forget, Share, Adopt,
         Recheck, Insert, Finish, Remove, Launch, stop
<1> SUFFICES AppliedBy(reload[h])'
  BY DEF OneReload, Applied
<1>4. ASSUME NEW file \in Files, Load(h, file)
      PROVE  AppliedBy(reload[h])'
  BY <1>1, <1>4 DEF Load, AppliedBy, Idle
<1>5. CASE Cancel(h) \/ Finish(h)
  BY <1>1, <1>5 DEF Cancel, Finish, AppliedBy, Idle
<1>6. CASE Compare(h)
  <2>1. /\ s.pc = "stop" /\ s.file = r.file
        /\ s.todo = Running \ EnabledIn(r.file) /\ Running' = Running
    BY <1>1, <1>6 DEF Compare, Handler, Running
  <2> QED BY <2>1 DEF AppliedBy
<1>7. CASE Stopped(h)
  <2>1. /\ r.pc = "await" /\ s.pc = "forget" /\ s.file = r.file
        /\ s.todo = r.todo /\ s.cam = r.cam /\ Running' = Running
    BY <1>1, <1>7 DEF Stopped, Handler, Running
  <2> QED BY <1>2, <2>1 DEF AppliedBy
<1>8. CASE Forget(h)
  <2>1. /\ r.pc = "forget" /\ s.pc = "stop" /\ s.file = r.file
        /\ s.todo = r.todo \ {r.cam} /\ Running' = Running
    BY <1>1, <1>8 DEF Forget, Handler, Running
  <2> QED BY <1>2, <2>1 DEF AppliedBy
<1>9. CASE Share(h)
  <2>1. /\ r.pc = "stop" /\ s.pc = "adopt" /\ s.file = r.file
        /\ r.todo = {} /\ shared' = r.file /\ Running' = Running
    BY <1>1, <1>9 DEF Share, Handler, Running
  <2> QED BY <1>2, <2>1 DEF AppliedBy
<1>10. CASE Adopt(h)
  <2>1. /\ r.pc = "adopt" /\ s.pc = "recheck" /\ s.file = r.file
        /\ shared' = shared /\ configs' = r.file /\ Running' = Running
    BY <1>1, <1>10 DEF Adopt, Handler, Running
  <2> QED BY <1>2, <2>1 DEF AppliedBy
<1>11. CASE Recheck(h)
  <2>1. /\ r.pc = "recheck" /\ s.pc = "start" /\ s.file = r.file
        /\ s.todo = EnabledIn(r.file) \ Running
        /\ shared' = shared /\ configs' = configs /\ Running' = Running
    BY <1>1, <1>11 DEF Recheck, Handler, Running, config
  <2> QED BY <1>2, <2>1 DEF AppliedBy
<1>12. CASE Insert(h)
  <2>1. /\ r.pc = "insert" /\ s.pc = "start" /\ s.file = r.file
        /\ s.todo = r.todo \ {r.cam} /\ shared' = shared /\ configs' = configs
    BY <1>1, <1>12 DEF Insert, Handler, config
  <2>2. Running' = Running \union {r.cam}
    <3> DEFINE w == [task |-> r.task, setting |-> r.file[r.cam]]
    <3>1. workers' = [workers EXCEPT ![r.cam] = w]
      BY <1>12 DEF Insert
    <3>2. r.cam \in EnabledIn(r.file) /\ r.task \in Tasks
      BY <1>2, <2>1 DEF Shape
    <3>3. r.cam \in Cameras /\ w \in Worker
      BY <3>2 DEF EnabledIn, Worker
    <3> HIDE DEF w
    <3>4. workers'[r.cam] = w /\ w # None
      BY <1>1, <3>1, <3>3, NoneApart
    <3>5. \A d \in Cameras : d # r.cam => workers'[d] = workers[d]
      BY <1>1, <3>1
    <3> QED BY <3>3, <3>4, <3>5 DEF Running
  <2>3. r.cam \in r.todo /\ r.todo \subseteq EnabledIn(r.file)
    BY <1>2, <2>1 DEF Shape
  <2> QED BY <1>2, <1>3, <2>1, <2>2, <2>3 DEF AppliedBy
<1>13. ASSUME NEW c \in Cameras, Remove(h, c)
       PROVE  AppliedBy(reload[h])'
  <2>1. /\ r.pc = "stop" /\ s.pc \in {"await", "forget"} /\ s.file = r.file
        /\ s.todo = r.todo /\ s.cam = c
    <3>1. CASE workers[c] = None
      BY <1>1, <1>13, <3>1 DEF Remove, Handler
    <3>2. CASE workers[c] # None
      BY <1>1, <1>13, <3>2 DEF Remove, Handler
    <3> QED BY <3>1, <3>2
  <2>2. Running' \subseteq Running /\ c \notin Running'
    BY <1>1, <1>13 DEF Remove, Running
  <2> QED BY <1>2, <2>1, <2>2 DEF AppliedBy
<1>14. ASSUME NEW c \in Cameras, Launch(h, c)
       PROVE  AppliedBy(reload[h])'
  <2>1. /\ r.pc = "start" /\ s.pc = "insert" /\ s.file = r.file
        /\ s.todo = r.todo /\ shared' = shared /\ configs' = configs
        /\ Running' = Running
    BY <1>1, <1>14 DEF Launch, Handler, Running, config
  <2> QED BY <1>2, <1>3, <2>1 DEF AppliedBy
<1> QED BY <1>4, <1>5, <1>6, <1>7, <1>8, <1>9, <1>10, <1>11, <1>12, <1>13, <1>14
        DEF HandlerStep

\* The status of a camera follows its worker.
LEMMA HandlerKeepsStatuses ==
  ASSUME OneReload, IInv, Applied, StatusesMatch, NEW h \in Reloads, HandlerStep(h)
  PROVE  StatusesMatch'
<1> DEFINE r == reload[h]
           s == reload'[h]
<1>1. /\ reload \in [Reloads -> Handler] /\ r \in Handler
      /\ workers \in [Cameras -> Worker \union {None}]
      /\ statuses \in [Cameras -> Tasks \union {None}]
  BY DEF IInv, TypeOK
<1>2. AppliedBy(r) /\ Shape(r)
  BY DEF Applied, IInv, HandlerShape, Shape
<1>3. /\ \A c \in Running : statuses[c] = workers[c].task
      /\ r.pc = "insert" => statuses[r.cam] = r.task
  BY DEF StatusesMatch, Carries
<1> SUFFICES /\ \A c \in Running' : statuses'[c] = workers'[c].task
             /\ s.pc = "insert" => statuses'[s.cam] = s.task
  BY DEF OneReload, StatusesMatch, Carries
<1>4. CASE Quiet(h) /\ ~Forget(h)
  BY <1>3, <1>4 DEF Quiet, Running
<1>5. CASE Forget(h)
  <2>1. r.pc = "forget" /\ s.pc = "stop" /\ workers' = workers
        /\ statuses' = [statuses EXCEPT ![r.cam] = None]
    BY <1>1, <1>5 DEF Forget, Handler
  <2>2. Running' = Running /\ r.cam \notin Running
    BY <1>2, <2>1 DEF AppliedBy, Running
  <2>3. \A c \in Running : c \in Cameras /\ c # r.cam
    BY <2>2 DEF Running
  <2> QED BY <1>1, <1>3, <2>1, <2>2, <2>3
<1>6. ASSUME NEW c \in Cameras, Takes(h, c)
      PROVE  /\ \A d \in Running' : statuses'[d] = workers'[d].task
             /\ s.pc = "insert" => statuses'[s.cam] = s.task
  <2>1. \A d \in Running' : d \in Running /\ workers'[d] = workers[d]
    BY <1>1, <1>6 DEF Takes, Running
  <2> QED BY <1>3, <1>6, <2>1 DEF Takes
<1>7. ASSUME NEW c \in Cameras, Starts(h, c)
      PROVE  /\ \A d \in Running' : statuses'[d] = workers'[d].task
             /\ s.pc = "insert" => statuses'[s.cam] = s.task
  <2>1. /\ r.pc = "start" /\ c \in r.todo /\ s.cam = c /\ s.task = NewTask
        /\ workers' = workers /\ statuses' = [statuses EXCEPT ![c] = NewTask]
    BY <1>7 DEF Starts
  <2>2. Running' = Running /\ c \notin Running
    BY <1>2, <2>1 DEF AppliedBy, Running
  <2>3. \A d \in Running : d \in Cameras /\ d # c
    BY <2>2 DEF Running
  <2> QED BY <1>1, <1>3, <2>1, <2>2, <2>3
<1>8. CASE Puts(h)
  <2> DEFINE w == [task |-> r.task, setting |-> r.file[r.cam]]
  <2>1. w.task = r.task
    OBVIOUS
  <2>2. workers' = [workers EXCEPT ![r.cam] = w]
    BY <1>8 DEF Puts
  <2>3. r.pc = "insert" /\ r.cam \in Cameras
    BY <1>1, <1>2, <1>8 DEF Puts, Carries, Shape, Handler
  <2> HIDE DEF w
  <2>4. /\ workers'[r.cam] = w
        /\ \A d \in Running' : d # r.cam => d \in Running /\ workers'[d] = workers[d]
    BY <1>1, <2>2, <2>3 DEF Running
  <2> QED BY <1>3, <1>8, <2>1, <2>3, <2>4 DEF Puts
<1> QED BY <1>4, <1>5, <1>6, <1>7, <1>8, HandlerEffects DEF IInv

-----------------------------------------------------------------------------
(* One reload at a time: the tasks. *)

\* The task a handler waits for is dying, and a handler that neither waits for
\* one nor carries one has none.
LEMMA HandlerKeepsAwaited ==
  ASSUME OneReload, IInv, AwaitedDying, NEW h \in Reloads, HandlerStep(h)
  PROVE  AwaitedDying'
<1> SUFFICES ASSUME reload'[h].pc = "await"
             PROVE  reload'[h].task \notin live' \ aborted'
  BY DEF OneReload, AwaitedDying
<1>1. PICK c \in Cameras : Takes(h, c)
  BY HandlerEffects DEF IInv, Quiet, Starts, Puts
<1> QED BY <1>1 DEF Takes

\* Every step of a handler leaves each task with the map or with the handler.
LEMMA HandlerKeepsOwners ==
  ASSUME OneReload, IInv, Applied, AwaitedDying, NoOrphans,
         NEW h \in Reloads, HandlerStep(h)
  PROVE  NoOrphans'
<1> DEFINE r == reload[h]
           s == reload'[h]
<1>1. /\ r \in Handler /\ workers \in [Cameras -> Worker \union {None}]
      /\ live \subseteq Tasks
  BY DEF IInv, TypeOK
<1>2. AppliedBy(r) /\ Shape(r)
  BY DEF Applied, IInv, HandlerShape, Shape
<1>3. \A t \in live \ aborted :
        t = r.task \/ \E c \in Running : t = workers[c].task
  BY DEF NoOrphans, OneReload
<1> SUFFICES ASSUME NEW t \in live' \ aborted'
             PROVE  t = s.task \/ \E c \in Running' : t = workers'[c].task
  BY DEF NoOrphans
<1>4. r.pc # "insert" => r.task \notin live \ aborted
  <2>1. r.pc = "await" => r.task \notin live \ aborted
    BY DEF AwaitedDying
  <2>2. r.pc \notin {"await", "insert"} => r.task = None
    BY <1>2 DEF Shape
  <2> QED BY <1>1, <2>1, <2>2, NoneApart
<1>5. CASE Quiet(h)
  <2>1. t \in live \ aborted /\ Running' = Running /\ workers' = workers
    BY <1>5 DEF Quiet, Running
  <2> QED BY <1>3, <1>4, <1>5, <2>1 DEF Quiet
<1>6. ASSUME NEW c \in Cameras, Takes(h, c)
      PROVE  t = s.task \/ \E d \in Running' : t = workers'[d].task
  <2>1. t \in live \ aborted /\ s.task = workers[c].task
    BY <1>6 DEF Takes
  <2>2. r.pc = "stop"
    BY <1>6 DEF Takes
  <2>3. PICK d \in Running : t = workers[d].task
    BY <1>3, <1>4, <2>1, <2>2
  <2>4. d # c => d \in Running' /\ workers'[d] = workers[d]
    BY <1>1, <1>6 DEF Takes, Running
  <2> QED BY <2>1, <2>3, <2>4
<1>7. ASSUME NEW c \in Cameras, Starts(h, c)
      PROVE  t = s.task \/ \E d \in Running' : t = workers'[d].task
  <2>1. t = NewTask \/ t \in live \ aborted
    BY <1>7 DEF Starts
  <2>2. r.pc = "start" /\ s.task = NewTask
    BY <1>7 DEF Starts
  <2>3. Running' = Running /\ workers' = workers
    BY <1>7 DEF Starts, Running
  <2> QED BY <1>3, <1>4, <2>1, <2>2, <2>3
<1>8. CASE Puts(h)
  <2> DEFINE w == [task |-> r.task, setting |-> r.file[r.cam]]
  <2>1. w.task = r.task
    OBVIOUS
  <2>2. workers' = [workers EXCEPT ![r.cam] = w]
    BY <1>8 DEF Puts
  <2>3. r.pc = "insert"
    BY <1>8 DEF Puts, Carries
  <2>4. /\ r.cam \in r.todo /\ r.todo \subseteq EnabledIn(r.file)
        /\ r.todo \intersect Running = {} /\ r.task \in Tasks
    BY <1>2, <2>3 DEF Shape, AppliedBy
  <2>5. r.cam \in Cameras /\ w \in Worker
    BY <2>4 DEF EnabledIn, Worker
  <2> HIDE DEF w
  <2>6. r.cam \in Running' /\ workers'[r.cam] = w
    BY <1>1, <2>2, <2>5, NoneApart DEF Running
  <2>7. \A d \in Running : d \in Running' /\ workers'[d] = workers[d]
    BY <1>1, <2>2, <2>4 DEF Running
  <2>8. t \in live \ aborted
    BY <1>8 DEF Puts
  <2> QED BY <1>3, <2>1, <2>6, <2>7, <2>8
<1> QED BY <1>5, <1>6, <1>7, <1>8, HandlerEffects DEF IInv

\* While stop_all has the map, no handler gives it a worker with a live task.
LEMMA HandlerKeepsTicked ==
  ASSUME IInv, TickedOff, NEW h \in Reloads, HandlerStep(h)
  PROVE  TickedOff'
<1>1. main' = main /\ left' = left
  BY DEF HandlerStep, Load, Compare, Stopped, Cancel, Forget, Share, Adopt,
         Recheck, Insert, Finish, Remove, Launch, stop
<1> SUFFICES ASSUME main = "stopping", NEW c \in Running' \ left
             PROVE  workers'[c].task \notin live'
  BY <1>1 DEF TickedOff
<1>2. workers' = workers
  BY HandlerEffects DEF IInv, Quiet, Takes, Starts, Puts, Locked
<1>3. c \in Running \ left /\ workers[c].task \notin live
  BY <1>2 DEF Running, TickedOff
<1>4. CASE live' = live
  BY <1>2, <1>3, <1>4
<1>5. ASSUME NEW d \in Cameras, Starts(h, d)
      PROVE  workers'[c].task \notin live'
  <2>1. workers[c].task # NewTask
    BY <1>3, <1>5, NewTaskFresh DEF Starts, Used
  <2> QED BY <1>2, <1>3, <1>5, <2>1 DEF Starts
<1> QED BY <1>4, <1>5, HandlerEffects DEF IInv, Quiet, Takes, Puts

\* Tasks that end and the shutdown keep the invariant of one reload.
LEMMA OtherKeepsSerial ==
  ASSUME SInv, OtherStep
  PROVE  Applied' /\ StatusesMatch' /\ AwaitedDying' /\ NoOrphans' /\ TickedOff'
<1>1. reload' = reload /\ config' = config /\ statuses' = statuses
  BY DEF OtherStep, Block, TaskEnds, TaskQuits, StopProcessing, Shutdown,
         LockWorkers, StopWorker, WorkerStopped, Clear
<1>2. live' \subseteq live /\ live' \ aborted' \subseteq live \ aborted
  <2>1. CASE UNCHANGED tasks
    BY <2>1 DEF tasks
  <2>2. ASSUME NEW t \in Tasks, TaskEnds(t) \/ TaskQuits(t)
        PROVE  live' \subseteq live /\ live' \ aborted' \subseteq live \ aborted
    BY <2>2 DEF TaskEnds, TaskQuits
  <2>3. ASSUME NEW c \in Cameras, StopWorker(c)
        PROVE  live' \subseteq live /\ live' \ aborted' \subseteq live \ aborted
    BY <2>3 DEF StopWorker
  <2> QED BY <2>1, <2>2, <2>3
          DEF OtherStep, Block, StopProcessing, Shutdown, LockWorkers,
              WorkerStopped, Clear
<1>3. AwaitedDying'
  BY <1>1, <1>2 DEF SInv, AwaitedDying
<1>4. CASE Clear
  <2>1. /\ Running' = {} /\ main' = "stopped" /\ left = {} /\ main = "stopping"
        /\ live' = live /\ aborted' = aborted
    BY <1>4 DEF Clear, Running, tasks
  <2>2. Applied'
    <3>1. shared' = shared /\ configs' = configs
      BY <1>1 DEF config
    <3>2. ASSUME NEW h \in Reloads
          PROVE  AppliedBy(reload[h])'
      <4>1. AppliedBy(reload[h])
        BY DEF SInv, Applied
      <4> QED BY <1>1, <2>1, <3>1, <4>1 DEF AppliedBy
    <3> QED BY <3>2 DEF Applied
  <2>3. StatusesMatch'
    BY <1>1, <2>1 DEF SInv, StatusesMatch, Carries
  <2>4. \A c \in Running : workers[c].task \notin live
    BY <2>1 DEF SInv, TickedOff
  <2>5. NoOrphans'
    BY <1>1, <2>1, <2>4 DEF SInv, NoOrphans
  <2> QED BY <1>3, <2>1, <2>2, <2>3, <2>5 DEF TickedOff
<1>5. CASE ~Clear
  <2>1. workers' = workers /\ Running' = Running
    BY <1>5 DEF OtherStep, Block, TaskEnds, TaskQuits, StopProcessing, Shutdown,
                LockWorkers, StopWorker, WorkerStopped, Running
  <2>2. main = "stopped" => main' = "stopped"
    BY <1>5 DEF OtherStep, Block, TaskEnds, TaskQuits, StopProcessing, Shutdown,
                LockWorkers, StopWorker, WorkerStopped, stop
  <2>3. Applied'
    <3>1. shared' = shared /\ configs' = configs
      BY <1>1 DEF config
    <3>2. ASSUME NEW h \in Reloads
          PROVE  AppliedBy(reload[h])'
      <4>1. AppliedBy(reload[h])
        BY DEF SInv, Applied
      <4> QED BY <1>1, <2>1, <2>2, <3>1, <4>1 DEF AppliedBy
    <3> QED BY <3>2 DEF Applied
  <2>4. StatusesMatch'
    BY <1>1, <2>1 DEF SInv, StatusesMatch, Carries
  <2>5. NoOrphans'
    BY <1>1, <1>2, <2>1 DEF SInv, NoOrphans
  <2>6. TickedOff'
    <3>1. CASE UNCHANGED <<main, left>>
      BY <1>2, <2>1, <3>1 DEF SInv, TickedOff
    <3>2. CASE LockWorkers
      BY <2>1, <3>2 DEF LockWorkers, TickedOff
    <3>3. CASE StopProcessing
      BY <3>3 DEF StopProcessing, TickedOff
    <3>4. CASE WorkerStopped
      <4>1. /\ main = "stopping" /\ workers[closing].task \notin live
            /\ left' = left \ {closing} /\ live' = live
        BY <3>4 DEF WorkerStopped, tasks
      <4> QED BY <2>1, <4>1 DEF SInv, TickedOff
    <3> QED BY <1>5, <3>1, <3>2, <3>3, <3>4
            DEF OtherStep, Block, TaskEnds, TaskQuits, Shutdown, StopWorker, stop
  <2> QED BY <1>3, <2>3, <2>4, <2>5, <2>6
<1> QED BY <1>4, <1>5

\* Nothing is running, reloaded or shut down at the start.
LEMMA InitSerial ==
  ASSUME Init
  PROVE  SInv
<1> DEFINE ids == CHOOSE f \in [Cameras -> Tasks] : Allotment(f)
<1>1. PICK file \in Files :
        /\ statuses = [c \in Cameras |-> IF file[c] = Absent THEN None ELSE ids[c]]
        /\ workers = [c \in Cameras |->
                        IF c \in EnabledIn(file)
                        THEN [task |-> ids[c], setting |-> file[c]] ELSE None]
        /\ live = {ids[c] : c \in EnabledIn(file)}
  BY DEF Init
<1>2. ids \in [Cameras -> Tasks]
  BY EnoughTasks
<1> HIDE DEF ids
<1>3. \A h \in Reloads : reload[h].pc = "idle"
  BY DEF Init, Idle
<1>4. IInv /\ main = "serving"
  BY InitInvariant DEF Init
<1>5. Applied /\ AwaitedDying /\ TickedOff
  BY <1>3, <1>4 DEF Applied, AppliedBy, AwaitedDying, TickedOff
<1>6. \A c \in EnabledIn(file) :
        c \in Running /\ workers[c].task = ids[c] /\ statuses[c] = ids[c]
  <2> TAKE c \in EnabledIn(file)
  <2> DEFINE w == [task |-> ids[c], setting |-> file[c]]
  <2>1. c \in Cameras /\ file[c] \in Enabled
    BY DEF EnabledIn
  <2>2. w \in Worker /\ w.task = ids[c]
    BY <1>2, <2>1 DEF Worker
  <2>3. workers[c] = w
    BY <1>1, <2>1
  <2> HIDE DEF w
  <2>4. statuses[c] = ids[c]
    BY <1>1, <2>1, ConstantsValid DEF ConstantsValid
  <2> QED BY <2>1, <2>2, <2>3, <2>4, NoneApart DEF Running
<1>7. Running \subseteq EnabledIn(file)
  BY <1>1 DEF Running
<1>8. StatusesMatch
  BY <1>3, <1>6, <1>7 DEF StatusesMatch, Carries
<1>9. NoOrphans
  <2>1. \A t \in live : \E c \in Running : t = workers[c].task
    BY <1>1, <1>6
  <2> QED BY <2>1 DEF NoOrphans
<1> QED BY <1>4, <1>5, <1>8, <1>9 DEF SInv

\* With one reload at a time, every step keeps the stronger invariant.
THEOREM SerialInvariant ==
  ASSUME OneReload
  PROVE  Spec => []SInv
<1>1. SInv /\ [Next]_vars => SInv'
  <2> SUFFICES ASSUME SInv, [Next]_vars PROVE SInv'
    OBVIOUS
  <2>1. IInv'
    BY StepInvariant DEF SInv
  <2>2. ASSUME NEW h \in Reloads, HandlerStep(h)
        PROVE  SInv'
    BY <2>1, <2>2, HandlerKeepsApplied, HandlerKeepsStatuses, HandlerKeepsAwaited,
       HandlerKeepsOwners, HandlerKeepsTicked, OneReload DEF SInv
  <2>3. CASE OtherStep
    BY <2>1, <2>3, OtherKeepsSerial DEF SInv
  <2>4. CASE UNCHANGED vars
    <3>1. Applied' /\ StatusesMatch' /\ AwaitedDying' /\ NoOrphans' /\ TickedOff'
      BY <2>4 DEF SInv, Applied, AppliedBy, StatusesMatch, AwaitedDying, NoOrphans,
                  TickedOff, Running, Carries, EnabledIn, vars, config, tasks, stop
    <3> QED BY <2>1, <3>1 DEF SInv
  <2> QED BY <2>2, <2>3, <2>4, NextCases
<1>2. Init => SInv
  BY InitSerial
<1> QED BY <1>1, <1>2, PTL DEF Spec

\* With one reload at a time, every task that runs and is not being stopped
\* belongs to the map or to the handler that is about to put it there.
THEOREM NobodyForgotten ==
  ASSUME OneReload
  PROVE  Spec => []NoOrphans
<1>1. SInv => NoOrphans
  BY DEF SInv
<1> QED BY <1>1, SerialInvariant, PTL

\* With one reload at a time, a reload that returns while the service runs has
\* applied the file it read.
THEOREM ReloadsApply ==
  ASSUME OneReload
  PROVE  Spec => ReloadApplies
<1>1. SInv => [\A h \in Reloads : Finish(h) /\ main = "serving" =>
                 LET file == reload[h].file IN
                 /\ Running = EnabledIn(file)
                 /\ \A c \in Running : /\ workers[c].task \in live \ aborted
                                       /\ statuses[c] = workers[c].task
                 /\ configs = file /\ shared = file]_vars
  <2> SUFFICES ASSUME SInv, NEW h \in Reloads, Finish(h), main = "serving"
               PROVE  /\ Running = EnabledIn(reload[h].file)
                      /\ \A c \in Running : /\ workers[c].task \in live \ aborted
                                            /\ statuses[c] = workers[c].task
                      /\ configs = reload[h].file /\ shared = reload[h].file
    OBVIOUS
  <2>1. reload[h].pc = "start" /\ reload[h].todo = {}
    BY DEF Finish
  <2>2. AppliedBy(reload[h])
    BY DEF SInv, Applied
  <2>3. /\ Running = EnabledIn(reload[h].file)
        /\ configs = reload[h].file /\ shared = reload[h].file
    BY <2>1, <2>2 DEF AppliedBy
  <2> QED BY <2>3 DEF SInv, IInv, WorkersLive, StatusesMatch
<1> QED BY <1>1, SerialInvariant, PTL DEF ReloadApplies

\* With one reload at a time, the shutdown lets go of the map when the tasks of
\* its workers have ended, and whatever else still runs is dying or in the
\* hands of the handler.
THEOREM ShutdownStopsAll ==
  ASSUME OneReload
  PROVE  Spec => ShutdownLeavesNone
<1>1. SInv => [Clear => /\ \A c \in Running : workers[c].task \notin live
                        /\ live \subseteq
                             aborted \union {reload[h].task : h \in Reloads}]_vars
  <2> SUFFICES ASSUME SInv, Clear
               PROVE  /\ \A c \in Running : workers[c].task \notin live
                      /\ live \subseteq aborted \union {reload[h].task : h \in Reloads}
    OBVIOUS
  <2>1. \A c \in Running : workers[c].task \notin live
    BY DEF SInv, TickedOff, Clear
  <2> QED BY <2>1 DEF SInv, NoOrphans
<1> QED BY <1>1, SerialInvariant, PTL DEF ShutdownLeavesNone
=============================================================================
