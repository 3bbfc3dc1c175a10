--------------------------- MODULE DecisionEngine ---------------------------
(***************************************************************************)
(* The decision engine of the detector: sliding-window voting and cooldown *)
(* per camera (decision/engine.rs, decision/window.rs, decision/cooldown.rs*)
(* under src/apps/detector/src).                                           *)
(*                                                                         *)
(* The single frame-processing task calls process() once per classified    *)
(* frame, with the camera settings it reads at that moment; a reload may   *)
(* replace these settings between any two frames.  The variables seen and  *)
(* alarms record what went in and what came out; the code keeps neither.   *)
(***************************************************************************)
EXTENDS Detections

CONSTANTS
  Cameras,    \* identifiers of the cameras
  Configs,    \* decision settings that pass validate_camera
  Results,    \* results the model can return for one frame
  MaxAge,     \* SlidingWindow::max_age, in seconds
  MaxTime,    \* bound of the clock
  MaxFrames   \* bound of the frames classified per camera

\* What validate_camera guarantees of the settings: a window of at least one
\* frame, quorums that fit in it and thresholds above zero.
Config ==
  [window_size : Nat \ {0}, hits : [Kinds -> Nat], conf : [Classes -> Nat \ {0}],
   cooldown : Nat]

ASSUME ConfigsValid ==
  /\ Configs \subseteq Config
  /\ \A cfg \in Configs, k \in Kinds : cfg.hits[k] <= cfg.window_size

ASSUME ResultsValid == Results \subseteq [Classes -> Nat]

ASSUME BoundsValid == MaxAge \in Nat /\ MaxTime \in Nat /\ MaxFrames \in Nat

VARIABLES
  now,          \* the clock behind Instant::now(), in seconds
  config,       \* the settings process() will be given for each camera
  states,       \* camera_states: window and window_size of each camera
  last_events,  \* CooldownManager::last_events; Never where no entry exists
  seen,         \* history: every frame passed to process()
  alarms        \* history: every event returned by process()

vars == <<now, config, states, last_events, seen, alarms>>

Never == -1

-----------------------------------------------------------------------------
\* SlidingWindow::prune_old: pop the front while it is older than max_age.
Prune(window) ==
  LET fresh == {i \in DOMAIN window : now - window[i].time <= MaxAge}
      first == CHOOSE i \in fresh : \A j \in fresh : i <= j
  IN  IF fresh = {} THEN <<>> ELSE SubSeq(window, first, Len(window))

\* Mutant of Trim: the comparison lets one frame too many stay.
TrimLate(window, size) ==
  IF Len(window) > size + 1
  THEN SubSeq(window, Len(window) - size, Len(window))
  ELSE window

\* The trim loop of SlidingWindow::push.
Trim(window, size) ==
  IF Len(window) > size
  THEN SubSeq(window, Len(window) - size + 1, Len(window))
  ELSE window

Push(window, size, entry) == Trim(Append(Prune(window), entry), size)

\* The window of a camera as process() finds it: a new one when the size in
\* the settings differs from the one it was built for.
WindowFor(state, size) ==
  IF state.window_size # size THEN <<>> ELSE state.window

\* Mutant of CanFire: the elapsed time is compared with half the cooldown.
CanFireEarly(camera, kind, cooldown) ==
  \/ last_events[camera][kind] = Never
  \/ now - last_events[camera][kind] >= cooldown \div 2

\* CooldownManager::try_fire_with_cooldown, the check.
CanFire(camera, kind, cooldown) ==
  \/ last_events[camera][kind] = Never
  \/ now - last_events[camera][kind] >= cooldown

\* Mutant of Triggers: smoke is looked at only when fire has no quorum.
TriggersMasked(camera, window, cfg) ==
  {kind \in Kinds :
     /\ HalfFull(window, cfg.window_size)
     /\ Count(window, kind) >= cfg.hits[kind]
     /\ kind = "smoke" => Count(window, "fire") < cfg.hits["fire"]
     /\ CanFire(camera, kind, cfg.cooldown)}

\* The branches of check_for_events that return an event of the kind: smoke
\* is looked at even when fire has its quorum but is in cooldown.
Triggers(camera, window, cfg) ==
  {kind \in Kinds :
     /\ HalfFull(window, cfg.window_size)
     /\ Count(window, kind) >= cfg.hits[kind]
     /\ CanFire(camera, kind, cfg.cooldown)}

Event(camera, kind, window, cfg) ==
  [camera |-> camera, kind |-> kind, time |-> now, cooldown |-> cfg.cooldown,
   count |-> Count(window, kind), evidence |-> Evidence(window, kind)]

\* Mutant of Emit: one cooldown entry per camera, filed under fire.
EmitSharedKey(camera, kind, window, cfg) ==
  /\ last_events' = [last_events EXCEPT ![camera]["fire"] = now]
  /\ alarms' = Append(alarms, Event(camera, kind, window, cfg))

\* Mutant of Emit: the cooldown key forgets the camera.
EmitForAll(camera, kind, window, cfg) ==
  /\ last_events' = [c \in Cameras |-> [last_events[c] EXCEPT ![kind] = now]]
  /\ alarms' = Append(alarms, Event(camera, kind, window, cfg))

\* try_fire_with_cooldown records the time of the event it lets through.
Emit(camera, kind, window, cfg) ==
  /\ last_events' = [last_events EXCEPT ![camera][kind] = now]
  /\ alarms' = Append(alarms, Event(camera, kind, window, cfg))

-----------------------------------------------------------------------------
\* The entry of a camera is created by its first frame; an empty window of
\* any size is indistinguishable from the missing entry.
Init ==
  /\ now = 0
  /\ config \in [Cameras -> Configs]
  /\ states = [c \in Cameras |->
                 [window |-> <<>>, window_size |-> config[c].window_size]]
  /\ last_events = [c \in Cameras |-> [k \in Kinds |-> Never]]
  /\ seen = [c \in Cameras |-> <<>>]
  /\ alarms = <<>>

\* DecisionEngine::process with the check_for_events it ends with.
Process(camera, result) ==
  LET cfg      == config[camera]
      entry    == [time |-> now, size |-> cfg.window_size,
                   kept |-> Kept(result, cfg)]
      window   == Push(WindowFor(states[camera], cfg.window_size),
                       cfg.window_size, entry)
      triggers == Triggers(camera, window, cfg)
  IN  /\ Len(seen[camera]) < MaxFrames
      /\ seen' = [seen EXCEPT ![camera] = Append(@, entry)]
      /\ states' = [states EXCEPT ![camera] =
                      [window |-> window, window_size |-> cfg.window_size]]
      /\ \/ "fire" \in triggers /\ Emit(camera, "fire", window, cfg)
         \/ triggers = {"smoke"} /\ Emit(camera, "smoke", window, cfg)
         \/ triggers = {} /\ UNCHANGED <<last_events, alarms>>
      /\ UNCHANGED <<now, config>>

\* A reload replaces the settings the next frame of the camera is judged by.
Reconfigure(camera, cfg) ==
  /\ config' = [config EXCEPT ![camera] = cfg]
  /\ UNCHANGED <<now, states, last_events, seen, alarms>>

Tick ==
  /\ now < MaxTime
  /\ now' = now + 1
  /\ UNCHANGED <<config, states, last_events, seen, alarms>>

Next ==
  \/ \E c \in Cameras, r \in Results : Process(c, r)
  \/ \E c \in Cameras, cfg \in Configs : Reconfigure(c, cfg)
  \/ Tick

Spec == Init /\ [][Next]_vars

-----------------------------------------------------------------------------
Entry == [time : Nat, size : Nat \ {0}, kept : [Classes -> Nat]]

AlarmRecord ==
  [camera : Cameras, kind : Kinds, time : Nat, cooldown : Nat,
   count : Nat, evidence : Nat]

\* Every variable has its type, and a window never outgrows its size.
TypeOK ==
  /\ now \in Nat
  /\ config \in [Cameras -> Configs]
  /\ states \in [Cameras -> [window : Seq(Entry), window_size : Nat \ {0}]]
  /\ last_events \in [Cameras -> [Kinds -> Nat \union {Never}]]
  /\ seen \in [Cameras -> Seq(Entry)]
  /\ alarms \in Seq(AlarmRecord)
  /\ \A c \in Cameras : Len(states[c].window) <= states[c].window_size

\* Two alarms of one kind for one camera are at least the cooldown in force
\* at the second one apart, whatever was reconfigured in between.
CooldownSpacing ==
  \A i, j \in DOMAIN alarms :
    /\ i < j
    /\ alarms[i].camera = alarms[j].camera
    /\ alarms[i].kind = alarms[j].kind
    => alarms[j].time - alarms[i].time >= alarms[j].cooldown

\* The cooldown map is exactly the history of the alarms: an entry is the time
\* of the latest alarm of its camera and kind, and Never means there is none.
CooldownMapExact ==
  \A c \in Cameras, k \in Kinds :
    /\ \A i \in DOMAIN alarms :
         alarms[i].camera = c /\ alarms[i].kind = k
           => /\ last_events[c][k] # Never
              /\ alarms[i].time <= last_events[c][k]
    /\ last_events[c][k] # Never =>
         \E i \in DOMAIN alarms :
           /\ alarms[i].camera = c /\ alarms[i].kind = k
           /\ alarms[i].time = last_events[c][k]

\* The engine, with its bounded window and its map of last events, raises
\* exactly the alarms that the complete histories call for.
Policy == INSTANCE AlarmPolicy
ImplementsPolicy == Policy!Spec
=============================================================================
