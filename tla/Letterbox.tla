----------------------------- MODULE Letterbox -----------------------------
(***************************************************************************)
(* A frame on the square canvas that the model reads                       *)
(* (inference/preprocess.rs), and a box the model found on the canvas      *)
(* drawn on the frame again (draw_bounding_boxes in event/publisher.rs).   *)
(* Frames of any sides are accepted; the pipelines make square ones of     *)
(* the canvas' size.                                                       *)
(***************************************************************************)
EXTENDS Integers

CONSTANT ModelInput   \* MODEL_INPUT_SIZE, 640

Longer(w, h) == IF w >= h THEN w ELSE h

\* Mutant of Scaled: the frame is scaled by its shorter side.
ScaledByShorter(v, w, h, target) == {(v * target) \div (IF w <= h THEN w ELSE h)}

\* What v pixels of a frame of w by h may come to on a canvas of side target.  The
\* scale and the product are f32 and the product is truncated: where the exact one
\* is whole, the rounding of a scale that is not whole may leave it just below.
Scaled(v, w, h, target) ==
    LET exact == (v * target) \div Longer(w, h)
        rounded == target % Longer(w, h) # 0 /\ (v * target) % Longer(w, h) = 0
    IN  {exact} \union (IF rounded THEN {exact - 1} ELSE {})

\* What is left of the canvas, half on each side.  Unsigned in the code: a
\* negative difference would be an overflow.
Pad(new, target) == (target - new) \div 2

\* preprocess_image: where the frame may lie on the canvas.
Placements(w, h, target) ==
    {[newW |-> newW, newH |-> newH, padX |-> Pad(newW, target), padY |-> Pad(newH, target)] :
        newW \in Scaled(w, w, h, target), newH \in Scaled(h, w, h, target)}

\* The offsets of the canvas that the row-by-row copy writes.
Copied(p, target) ==
    {(y + p.padY) * target + p.padX + x : y \in 0..p.newH - 1, x \in 0..p.newW - 1}

\* Where a coordinate of a frame of old pixels lies on the canvas: the frame is
\* resized to new pixels and moved by pad.
OnCanvas(v, new, old, pad) == (v * new) \div old + pad

\* parse_detection and to_pixels: the coordinate is divided by 640, brought into
\* [0, 1] and multiplied by the side of the frame.
Drawn(v, side) == ((IF v > ModelInput THEN ModelInput ELSE v) * side) \div ModelInput
=============================================================================
