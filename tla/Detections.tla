----------------------------- MODULE Detections -----------------------------
(***************************************************************************)
(* Vocabulary shared by the decision engine and the policy it implements:  *)
(* what the detector knows of one classified frame.                        *)
(*                                                                         *)
(* A result gives, for each class of DetectionClass, the best confidence   *)
(* grade found in the frame; grade 0 stands for "no detection of the       *)
(* class".  Boxes and the other detections of the same class are           *)
(* abstracted away: no decision depends on them.                           *)
(***************************************************************************)
EXTENDS Integers, Sequences, FiniteSets

Classes == {"fire", "smoke", "other"}

\* The classes that can raise an alarm (DecisionEventType).
Kinds == {"fire", "smoke"}

\* What is left of a result once every detection under the camera's
\* threshold for its class is dropped (Detection::is_above_threshold).
Kept(result, cfg) ==
  [k \in Classes |-> IF result[k] >= cfg.conf[k] THEN result[k] ELSE 0]

\* FrameResult::has_fire and has_smoke: the frame votes for the kind.
Votes(entry, kind) == entry.kept[kind] > 0

\* SlidingWindow::fire_count and smoke_count.
Count(window, kind) == Cardinality({i \in DOMAIN window : Votes(window[i], kind)})

\* The frames of the window that kept a detection of any class.
NonEmpty(window) ==
  {i \in DOMAIN window : \E k \in Classes : window[i].kept[k] > 0}

\* The detections of the kind that an event carries: those of the latest
\* frame with a detection of any class (latest_detections, then filtered).
Evidence(window, kind) ==
  LET frames == NonEmpty(window)
      latest == CHOOSE i \in frames : \A j \in frames : j <= i
  IN  IF frames = {} THEN 0 ELSE window[latest].kept[kind]

\* The window is trusted once at least half of it is filled.
HalfFull(window, size) == 2 * Len(window) >= size
=============================================================================
