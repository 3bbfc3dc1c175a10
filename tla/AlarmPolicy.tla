----------------------------- MODULE AlarmPolicy -----------------------------
(***************************************************************************)
(* What the detector promises its users about fire and smoke alarms, told  *)
(* without windows, maps or locks.  The only state is the complete history *)
(* of the frames classified for each camera and the alarms raised so far;  *)
(* both the quorum and the cooldown are read off these histories.          *)
(***************************************************************************)
EXTENDS Detections

CONSTANTS
  Cameras,    \* identifiers of the cameras
  Configs,    \* decision settings a camera can be given
  Results,    \* results the model can return for one frame
  MaxAge,     \* seconds a vote stays valid
  MaxTime,    \* bound of the clock
  MaxFrames   \* bound of the frames classified per camera

VARIABLES
  now,        \* the clock, in seconds
  config,     \* decision settings in force for each camera
  seen,       \* every frame classified for each camera
  alarms      \* every alarm raised

vars == <<now, config, seen, alarms>>

\* A frame still counts if it is fresh, was classified under the window size
\* now in force, and is one of the last window_size frames.
Counts(history, i, size) ==
  /\ now - history[i].time <= MaxAge
  /\ history[i].size = size
  /\ i > Len(history) - size

\* The unbroken run of countable frames that ends with the newest one.
Recent(history, size) ==
  LET starts == {i \in 1 .. Len(history) + 1 :
                   \A j \in i .. Len(history) : Counts(history, j, size)}
      first  == CHOOSE i \in starts : \A j \in starts : i <= j
  IN  SubSeq(history, first, Len(history))

\* No alarm of this kind for this camera during the cooldown.
Rested(camera, kind, cooldown) ==
  \A i \in DOMAIN alarms :
    alarms[i].camera = camera /\ alarms[i].kind = kind
      => now - alarms[i].time >= cooldown

\* The alarms that the history of a camera calls for.
Due(camera, history, cfg) ==
  LET window == Recent(history, cfg.window_size) IN
  {kind \in Kinds :
     /\ HalfFull(window, cfg.window_size)
     /\ Count(window, kind) >= cfg.hits[kind]
     /\ Rested(camera, kind, cfg.cooldown)}

\* One frame raises at most one alarm, and fire goes first.
Chosen(due) == IF "fire" \in due THEN "fire" ELSE "smoke"

Alarm(camera, kind, history, cfg) ==
  LET window == Recent(history, cfg.window_size) IN
  [camera |-> camera, kind |-> kind, time |-> now, cooldown |-> cfg.cooldown,
   count |-> Count(window, kind), evidence |-> Evidence(window, kind)]

-----------------------------------------------------------------------------
Init ==
  /\ now = 0
  /\ config \in [Cameras -> Configs]
  /\ seen = [c \in Cameras |-> <<>>]
  /\ alarms = <<>>

Observe(camera, result) ==
  LET cfg     == config[camera]
      frame   == [time |-> now, size |-> cfg.window_size,
                  kept |-> Kept(result, cfg)]
      history == Append(seen[camera], frame)
      due     == Due(camera, history, cfg)
  IN  /\ Len(seen[camera]) < MaxFrames
      /\ seen' = [seen EXCEPT ![camera] = history]
      /\ alarms' = IF due = {} THEN alarms
                   ELSE Append(alarms,
                               Alarm(camera, Chosen(due), history, cfg))
      /\ UNCHANGED <<now, config>>

Reconfigure(camera, cfg) ==
  /\ config' = [config EXCEPT ![camera] = cfg]
  /\ UNCHANGED <<now, seen, alarms>>

Tick ==
  /\ now < MaxTime
  /\ now' = now + 1
  /\ UNCHANGED <<config, seen, alarms>>

Next ==
  \/ \E c \in Cameras, r \in Results : Observe(c, r)
  \/ \E c \in Cameras, cfg \in Configs : Reconfigure(c, cfg)
  \/ Tick

Spec == Init /\ [][Next]_vars
=============================================================================
