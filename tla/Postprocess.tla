---------------------------- MODULE Postprocess ----------------------------
(***************************************************************************)
(* From the output of the model to detections: the two layouts of the      *)
(* output, the thresholds and non-maximum suppression                      *)
(* (inference/postprocess.rs, inference/detection.rs, inference/engine.rs).*)
(*                                                                         *)
(* Coordinates are whole cells of an image of Size by Size cells in place  *)
(* of real numbers between 0 and 1; confidences are whole, and never NaN.  *)
(*                                                                         *)
(* The detections of a frame are a function from the numbers of the rows   *)
(* they come from; what the code filters out is not in its domain.         *)
(***************************************************************************)
EXTENDS Integers, Sequences, Ranking

CONSTANTS Size,        \* the side of the model's input, 640 pixels
          Threshold    \* lowest confidence, by class

\* DetectionClass::from_index, after the cast of the number to usize.
Indexed == <<"fire", "other", "smoke">>
ClassAt(index) == IF index < 0 THEN 0 ELSE index
Named(index) == ClassAt(index) + 1 \in DOMAIN Indexed

Larger(a, b) == IF a >= b THEN a ELSE b
Smaller(a, b) == IF a <= b THEN a ELSE b
Clamp(v) == Larger(0, Smaller(v, Size))

Box(x, y, width, height) == [x |-> x, y |-> y, width |-> width, height |-> height]

\* Mutant of Intersection: boxes that do not meet on either axis.
IntersectionSigned(a, b) ==
    (Smaller(a.x + a.width, b.x + b.width) - Larger(a.x, b.x)) *
    (Smaller(a.y + a.height, b.y + b.height) - Larger(a.y, b.y))

Intersection(a, b) ==
    Larger(0, Smaller(a.x + a.width, b.x + b.width) - Larger(a.x, b.x)) *
    Larger(0, Smaller(a.y + a.height, b.y + b.height) - Larger(a.y, b.y))

\* iou > 0.45; boxes without an area have an iou of 0.
Overlap(a, b) ==
    LET union == a.width * a.height + b.width * b.height - Intersection(a, b)
    IN  union > 0 /\ 100 * Intersection(a, b) > 45 * union

(***************************************************************************)
(* Non-maximum suppression                                                 *)
(***************************************************************************)

\* ds[i] comes before ds[j]: it is surer, or as sure and before it already.
Surer(ds, i, j) ==
    \/ ds[i].confidence > ds[j].confidence
    \/ ds[i].confidence = ds[j].confidence /\ i < j

\* The rows of S, highest confidence first; the sort is stable.
ByConfidence(ds, S) == Ranked(S, {p \in S \X S : Surer(ds, p[1], p[2])})

\* nms, of the rows of S: a detection is kept unless one kept before it overlaps it.
Suppress(ds, S) ==
    LET order == ByConfidence(ds, S)
        kept[n \in 0..Cardinality(S)] ==
            IF n = 0 THEN <<>>
            ELSE IF \E k \in DOMAIN kept[n - 1] : Overlap(kept[n - 1][k].box, ds[order[n]].box)
                 THEN kept[n - 1] ELSE Append(kept[n - 1], ds[order[n]])
    IN  kept[Cardinality(S)]

Final(ds) ==
    LET Of(class) == Suppress(ds, {i \in DOMAIN ds : ds[i].class = class})
    IN  Of("fire") \o Of("smoke") \o Of("other")

(***************************************************************************)
(* The end-to-end layout: rows x1, y1, x2, y2, confidence, class.          *)
(***************************************************************************)

Parsed(row) ==
    [class |-> Indexed[ClassAt(row.class) + 1], confidence |-> row.confidence,
     box |-> Box(Clamp(row.x1), Clamp(row.y1),
                 Clamp(row.x2) - Clamp(row.x1), Clamp(row.y2) - Clamp(row.y1))]

\* Rows of an unknown class, or below the threshold of their class, are skipped.
Accepted(rows) ==
    [i \in {i \in DOMAIN rows : /\ Named(rows[i].class)
                                /\ rows[i].confidence >= Threshold[Parsed(rows[i]).class]}
        |-> Parsed(rows[i])]

EndToEnd(rows) == Final(Accepted(rows))

(***************************************************************************)
(* The standard layout: columns cx, cy, w, h and one probability per class.*)
(* Centres are given in half cells, so that they are whole.                *)
(***************************************************************************)

\* The first class of the highest probability.
Best(probs) ==
    CHOOSE c \in DOMAIN probs :
        /\ \A d \in DOMAIN probs : probs[d] <= probs[c]
        /\ \A d \in DOMAIN probs : d < c => probs[d] < probs[c]

\* Mutant of FromCenter: the centre less the whole width.
FromCenterWhole(cx, cy, w, h) == Box(cx \div 2 - w, cy \div 2 - h, w, h)

FromCenter(cx, cy, w, h) == Box((cx - w) \div 2, (cy - h) \div 2, w, h)

Decoded(col) ==
    [class |-> Indexed[Best(col.probs)], confidence |-> col.probs[Best(col.probs)],
     box |-> FromCenter(col.cx, col.cy, col.w, col.h)]

Standard(columns) ==
    LET above == {i \in DOMAIN columns :
                    Decoded(columns[i]).confidence >= Threshold[Decoded(columns[i]).class]}
    IN  Final([i \in above |-> Decoded(columns[i])])

(***************************************************************************)
(* Telling the layouts apart                                               *)
(***************************************************************************)

\* OutputProcessor::process looks at the number of values only.
TakenAsStandard(len) == len > 10000

\* The head of the model has a cell per 8, 16 and 32 pixels of the input's side.
Squared(n) == n * n
Columns(imgsz) == Squared(imgsz \div 8) + Squared(imgsz \div 16) + Squared(imgsz \div 32)
StandardLength(imgsz) == (4 + Len(Indexed)) * Columns(imgsz)
EndToEndLength(rows) == 6 * rows
=============================================================================
