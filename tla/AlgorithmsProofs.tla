-------------------------- MODULE AlgorithmsProofs --------------------------
(***************************************************************************)
(* Proofs about Algorithms: where a frame lies on the canvas of the model, *)
(* for frames and canvases of every size; which frames of a camera are     *)
(* sampled and what rate it reports, whenever its frames arrive; which     *)
(* detections are reported of whatever the model puts out, in either       *)
(* layout; what the detector loads of the camera table; what a reader of   *)
(* the events sees while others arrive.                                    *)
(***************************************************************************)
EXTENDS Algorithms, Ranking, NumberLemmas, FiniteSetTheorems, FunctionTheorems,
        SequenceTheorems, TLAPS

-----------------------------------------------------------------------------
(* Division. *)

\* A quotient and a remainder make up the number.
LEMMA DivMod ==
  ASSUME NEW a \in Nat, NEW b \in Nat \ {0}
  PROVE  /\ a \div b \in Nat /\ a % b \in 0 .. b - 1
         /\ a = (a \div b) * b + (a % b)
<1>1. a \div b \in Nat
  OBVIOUS
<1>2. a % b \in 0 .. b - 1
  OBVIOUS
<1>3. a = (a \div b) * b + (a % b)
  OBVIOUS
<1> QED BY <1>1, <1>2, <1>3

\* The two halves of a row-by-row offset can be told apart.
LEMMA RowAndColumn ==
  ASSUME NEW b \in Nat \ {0}, NEW q \in Nat, NEW r \in 0 .. b - 1
  PROVE  (q * b + r) \div b = q /\ (q * b + r) % b = r
<1>1. (q * b + r) \div b = q
  OBVIOUS
<1>2. (q * b + r) % b = r
  OBVIOUS
<1> QED BY <1>1, <1>2

\* A part of the whole is scaled to a part of the canvas, the whole to all of it.
LEMMA ScaledBound ==
  ASSUME NEW v \in Nat, NEW long \in Nat \ {0}, NEW side \in Nat \ {0}, v <= long
  PROVE  /\ (v * side) \div long \in 0 .. side
         /\ v = long => (v * side) \div long = side
<1>1. PICK a \in Nat : a = v * side
  OBVIOUS
<1>2. PICK q \in Nat : q = a \div long
  BY <1>1, DivMod
<1>3. PICK r \in 0 .. long - 1 : a = q * long + r
  <2>1. a % long \in 0 .. long - 1 /\ a = (a \div long) * long + (a % long)
    BY DivMod
  <2> QED BY <1>2, <2>1
<1>4. a <= long * side
  BY <1>1
<1>5. q <= side
  <2> SUFFICES ASSUME side + 1 <= q PROVE FALSE
    OBVIOUS
  <2>1. (side + 1) * long <= q * long
    OBVIOUS
  <2>2. (side + 1) * long = long * side + long
    OBVIOUS
  <2> QED BY <1>3, <1>4, <2>1, <2>2
<1>6. v = long => (v * side) \div long = side
  <2> SUFFICES ASSUME v = long PROVE (side * long + 0) \div long = side
    BY <1>1
  <2> QED BY RowAndColumn
<1> QED BY <1>1, <1>2, <1>5, <1>6

\* However its product is rounded, a side of the frame is no longer than the canvas,
\* and the longer one at most a pixel shorter, which it is not when the scale is whole.
LEMMA ScaledFits ==
  ASSUME NEW v \in Nat \ {0}, NEW w, NEW h, NEW side \in Nat \ {0},
         NEW long \in Nat \ {0}, long = L!Longer(w, h), v <= long,
         NEW n \in L!Scaled(v, w, h, side)
  PROVE  /\ n \in 0 .. side
         /\ v = long => n \in {side, side - 1}
         /\ v = long /\ side % long = 0 => n = side
<1>1. PICK a \in Nat \ {0} : a = v * side
  OBVIOUS
<1>2. PICK q \in 0 .. side : q = (v * side) \div long /\ (v = long => q = side)
  <2>1. /\ (v * side) \div long \in 0 .. side
        /\ v = long => (v * side) \div long = side
    BY ScaledBound
  <2> QED BY <2>1
<1>3. \/ n = q
      \/ n = q - 1 /\ side % long # 0 /\ (v * side) % long = 0
  <2>1. n \in {(v * side) \div long} \union
               (IF side % long # 0 /\ (v * side) % long = 0
                THEN {(v * side) \div long - 1} ELSE {})
    BY DEF L!Scaled
  <2> QED BY <1>2, <2>1
<1>4. CASE n = q
  BY <1>2, <1>4
<1>5. CASE n = q - 1 /\ side % long # 0 /\ (v * side) % long = 0
  <2>1. a = (a \div long) * long + (a % long)
    BY <1>1, DivMod
  <2>2. a = q * long + 0
    BY <1>1, <1>2, <1>5, <2>1
  <2>3. q # 0
    <3> SUFFICES ASSUME q = 0 PROVE FALSE
      OBVIOUS
    <3> QED BY <2>2
  <2> QED BY <1>2, <1>5, <2>3
<1> QED BY <1>3, <1>4, <1>5

\* What half the border leaves over is nothing or one pixel.
LEMMA HalfBorder ==
  ASSUME NEW target \in Nat, NEW new \in 0 .. target
  PROVE  /\ L!Pad(new, target) \in 0 .. target
         /\ target - new - 2 * L!Pad(new, target) \in {0, 1}
BY DEF L!Pad

-----------------------------------------------------------------------------
(* The canvas. *)

\* The place on the canvas of an offset of the buffer.
Spans(o, side) == <<o % side, o \div side>>

\* The copy writes a rectangle, row by row.
LEMMA CopyIsRectangle ==
  ASSUME NEW side \in Nat \ {0}, NEW p,
         p.newW \in Nat, p.newH \in Nat, p.padX \in Nat, p.padY \in Nat,
         p.padX + p.newW <= side
  PROVE  {Spans(o, side) : o \in L!Copied(p, side)}
           = (p.padX .. p.padX + p.newW - 1) \X (p.padY .. p.padY + p.newH - 1)
<1> DEFINE X == p.padX .. p.padX + p.newW - 1
           Y == p.padY .. p.padY + p.newH - 1
<1>1. \A x \in 0 .. p.newW - 1, y \in 0 .. p.newH - 1 :
        Spans((y + p.padY) * side + p.padX + x, side) = <<p.padX + x, p.padY + y>>
  <2> TAKE x \in 0 .. p.newW - 1, y \in 0 .. p.newH - 1
  <2>1. PICK q \in Nat : q = p.padY + y
    OBVIOUS
  <2>2. PICK r \in 0 .. side - 1 : r = p.padX + x
    OBVIOUS
  <2>3. (y + p.padY) * side + p.padX + x = q * side + r
    BY <2>1, <2>2
  <2>4. (q * side + r) \div side = q /\ (q * side + r) % side = r
    BY RowAndColumn
  <2> QED BY <2>1, <2>2, <2>3, <2>4 DEF Spans
<1>2. ASSUME NEW o \in L!Copied(p, side)
      PROVE  Spans(o, side) \in X \X Y
  <2>1. PICK x \in 0 .. p.newW - 1, y \in 0 .. p.newH - 1 :
          o = (y + p.padY) * side + p.padX + x
    BY <1>2 DEF L!Copied
  <2>2. p.padX + x \in X /\ p.padY + y \in Y
    OBVIOUS
  <2> QED BY <1>1, <2>1, <2>2
<1>3. ASSUME NEW x \in X, NEW y \in Y
      PROVE  \E o \in L!Copied(p, side) : Spans(o, side) = <<x, y>>
  <2>1. PICK u \in 0 .. p.newW - 1 : p.padX + u = x
    <3>1. x - p.padX \in 0 .. p.newW - 1
      OBVIOUS
    <3> QED BY <3>1
  <2>2. PICK v \in 0 .. p.newH - 1 : p.padY + v = y
    <3>1. y - p.padY \in 0 .. p.newH - 1
      OBVIOUS
    <3> QED BY <3>1
  <2>3. (v + p.padY) * side + p.padX + u \in L!Copied(p, side)
    BY DEF L!Copied
  <2> QED BY <1>1, <2>1, <2>2, <2>3
<1> HIDE DEF X, Y
<1>4. {Spans(o, side) : o \in L!Copied(p, side)} = X \X Y
  BY <1>2, <1>3
<1> QED BY <1>4 DEF X, Y

\* Everything that FrameOnCanvas says, of every placement of any frame.
LEMMA PlacementFits ==
  ASSUME NEW w \in Nat \ {0}, NEW h \in Nat \ {0}, NEW side \in Nat \ {0},
         NEW p \in L!Placements(w, h, side)
  PROVE  /\ p.newW \in 0 .. side /\ p.newH \in 0 .. side
         /\ p.padX \in 0 .. side /\ p.padY \in 0 .. side
         /\ {side, side - 1} \intersect {p.newW, p.newH} # {}
         /\ side % L!Longer(w, h) = 0 => side \in {p.newW, p.newH}
         /\ side - p.newW - 2 * p.padX \in {0, 1}
         /\ side - p.newH - 2 * p.padY \in {0, 1}
         /\ p.padX + p.newW <= side
<1>1. PICK long \in Nat \ {0} :
        long = L!Longer(w, h) /\ w <= long /\ h <= long /\ long \in {w, h}
  BY DEF L!Longer
<1>2. PICK a \in L!Scaled(w, w, h, side), b \in L!Scaled(h, w, h, side) :
        p = [newW |-> a, newH |-> b, padX |-> L!Pad(a, side), padY |-> L!Pad(b, side)]
  BY DEF L!Placements
<1>3. /\ a \in 0 .. side
      /\ w = long => a \in {side, side - 1}
      /\ w = long /\ side % long = 0 => a = side
  BY <1>1, ScaledFits
<1>4. /\ b \in 0 .. side
      /\ h = long => b \in {side, side - 1}
      /\ h = long /\ side % long = 0 => b = side
  BY <1>1, ScaledFits
<1>5. PICK c \in 0 .. side : c = L!Pad(a, side) /\ side - a - 2 * c \in {0, 1}
  BY <1>3, HalfBorder
<1>6. PICK d \in 0 .. side : d = L!Pad(b, side) /\ side - b - 2 * d \in {0, 1}
  BY <1>4, HalfBorder
<1>7. p.newW = a /\ p.newH = b /\ p.padX = c /\ p.padY = d
  BY <1>2, <1>5, <1>6
<1>8. {side, side - 1} \intersect {a, b} # {}
  BY <1>1, <1>3, <1>4
<1>9. side % long = 0 => side \in {a, b}
  BY <1>1, <1>3, <1>4
<1> QED BY <1>1, <1>3, <1>4, <1>5, <1>6, <1>7, <1>8, <1>9

-----------------------------------------------------------------------------
\* Multiplying and dividing again changes nothing.
LEMMA WholeQuotient ==
  ASSUME NEW v \in Nat, NEW n \in Nat \ {0}
  PROVE  (v * n) \div n = v
<1>1. (v * n + 0) \div n = v
  BY RowAndColumn
<1> QED BY <1>1

\* A frame of the side that the detections are divided by is copied as it is, and a
\* pixel of it is drawn where it was.
LEMMA DrawnInPlace ==
  ASSUME NEW n, n = ModelInput, NEW p \in L!Placements(n, n, n), NEW v \in 0 .. n - 1
  PROVE  /\ L!Drawn(L!OnCanvas(v, p.newW, n, p.padX), n) = v
         /\ L!Drawn(L!OnCanvas(v, p.newH, n, p.padY), n) = v
<1>1. n \in Nat \ {0}
  BY AlgorithmsAssumption
<1>2. v \in Nat /\ v <= n
  BY <1>1
<1>3. (n * n) \div n = n /\ (v * n) \div n = v
  BY <1>1, <1>2, WholeQuotient
<1>4. n % n = 0
  BY <1>1
<1>5. L!Scaled(n, n, n, n) = {n}
  BY <1>3, <1>4 DEF L!Scaled, L!Longer
<1>6. L!Pad(n, n) = 0
  BY <1>1 DEF L!Pad
<1>7. p = [newW |-> n, newH |-> n, padX |-> 0, padY |-> 0]
  BY <1>5, <1>6 DEF L!Placements
<1>8. L!OnCanvas(v, n, n, 0) = v
  BY <1>2, <1>3 DEF L!OnCanvas
<1>9. L!Drawn(v, n) = v
  BY <1>1, <1>2, <1>3 DEF L!Drawn
<1> QED BY <1>7, <1>8, <1>9

\* A task keeps the sides it was set with, and an answer is one that the code may
\* compute for them.
CanvasInv ==
  task.kind = "canvas" =>
    /\ task.w \in FrameSides /\ task.h \in FrameSides /\ task.side \in Canvases
    /\ \/ answer = <<>>
       \/ \E p \in L!Placements(task.w, task.h, task.side) : answer = <<p>>

\* Whatever its sides and however its scale is rounded, a frame is copied into a
\* rectangle in the middle of the canvas that fills it in one direction but for a
\* pixel, which a whole scale does not leave: no subtraction of preprocess_image
\* underflows, and no row runs over.  What is found on a frame of the side that the
\* detections are divided by is drawn at its place.
THEOREM FramesFit == Spec => []FrameOnCanvas
<1>1. Init => CanvasInv
  BY DEF Init, CanvasInv
<1>2. CanvasInv /\ [Next]_vars => CanvasInv'
  <2> SUFFICES ASSUME CanvasInv, [Next]_vars, task'.kind = "canvas"
               PROVE  CanvasInv'
    BY DEF CanvasInv
  <2>1. task' = task
    BY DEF Next, vars, DetectObjects, PlaceFrame, RecogniseLayout, WatchCamera,
           ReadEvents, SynchroniseSettings, Answer
  <2>2. CASE PlaceFrame
    BY <2>1, <2>2 DEF CanvasInv, PlaceFrame, Answer
  <2>3. CASE UNCHANGED vars
    BY <2>3 DEF CanvasInv, vars
  <2>4. CASE \/ DetectObjects \/ RecogniseLayout \/ WatchCamera
             \/ ReadEvents \/ SynchroniseSettings
    BY <2>1, <2>4 DEF DetectObjects, RecogniseLayout, WatchCamera, ReadEvents,
                      SynchroniseSettings, Answer
  <2> QED BY <2>2, <2>3, <2>4 DEF Next
<1>3. CanvasInv => FrameOnCanvas
  <2> SUFFICES ASSUME CanvasInv, Answered("canvas") PROVE FrameOnCanvas
    BY DEF FrameOnCanvas
  <2>1. /\ task.w \in Nat \ {0} /\ task.h \in Nat \ {0}
        /\ task.side \in Nat \ {0}
    BY AlgorithmsAssumption DEF CanvasInv, Answered
  <2>2. PICK side \in Nat \ {0} : side = task.side
    BY <2>1
  <2>3. PICK p \in L!Placements(task.w, task.h, side) : answer = <<p>>
    BY <2>2 DEF CanvasInv, Answered
  <2>4. The = p
    BY <2>3 DEF The
  <2>5. /\ p.newW \in 0 .. side /\ p.newH \in 0 .. side
        /\ p.padX \in 0 .. side /\ p.padY \in 0 .. side
        /\ {side, side - 1} \intersect {p.newW, p.newH} # {}
        /\ side % L!Longer(task.w, task.h) = 0 => side \in {p.newW, p.newH}
        /\ side - p.newW - 2 * p.padX \in {0, 1}
        /\ side - p.newH - 2 * p.padY \in {0, 1}
        /\ p.padX + p.newW <= side
    BY <2>1, <2>3, PlacementFits
  <2>6. {Spans(o, side) : o \in L!Copied(p, side)}
          = (p.padX .. p.padX + p.newW - 1) \X (p.padY .. p.padY + p.newH - 1)
    <3>1. p.newW \in Nat /\ p.newH \in Nat /\ p.padX \in Nat /\ p.padY \in Nat
      BY <2>5
    <3> QED BY <2>5, <3>1, CopyIsRectangle
  <2>7. {<<o % task.side, o \div task.side>> : o \in L!Copied(The, task.side)}
          = (The.padX .. The.padX + The.newW - 1)
              \X (The.padY .. The.padY + The.newH - 1)
    BY <2>2, <2>4, <2>6 DEF Spans
  <2>8. /\ The.padX >= 0 /\ The.padY >= 0
        /\ {task.side, task.side - 1} \intersect {The.newW, The.newH} # {}
        /\ task.side % L!Longer(task.w, task.h) = 0 => task.side \in {The.newW, The.newH}
        /\ task.side - The.newW - 2 * The.padX \in {0, 1}
        /\ task.side - The.newH - 2 * The.padY \in {0, 1}
    BY <2>2, <2>4, <2>5
  <2>9. {task.w, task.h, task.side} = {ModelInput} =>
          \A v \in 0 .. task.side - 1 :
            /\ L!Drawn(L!OnCanvas(v, The.newW, task.w, The.padX), task.w) = v
            /\ L!Drawn(L!OnCanvas(v, The.newH, task.h, The.padY), task.h) = v
    <3> SUFFICES ASSUME {task.w, task.h, task.side} = {ModelInput},
                        NEW v \in 0 .. task.side - 1
                 PROVE  /\ L!Drawn(L!OnCanvas(v, The.newW, task.w, The.padX), task.w) = v
                        /\ L!Drawn(L!OnCanvas(v, The.newH, task.h, The.padY), task.h) = v
      OBVIOUS
    <3>1. task.w = ModelInput /\ task.h = ModelInput /\ side = ModelInput
      BY <2>2
    <3>2. p \in L!Placements(ModelInput, ModelInput, ModelInput) /\ v \in 0 .. ModelInput - 1
      BY <2>2, <2>3, <3>1
    <3> QED BY <2>4, <3>1, <3>2, DrawnInPlace
  <2> QED BY <2>7, <2>8, <2>9, Zenon DEF FrameOnCanvas
<1> QED BY <1>1, <1>2, <1>3, PTL DEF Spec

-----------------------------------------------------------------------------
(* The sampler. *)

LEMMA IntervalType ==
  ASSUME NEW fps \in Nat
  PROVE  S!MinInterval(fps) \in Nat
<1>1. Second \in Nat \ {0}
  BY AlgorithmsAssumption
<1> QED BY <1>1 DEF S!MinInterval

\* What last_frame is after a frame, from what it was before.
LEMMA LastFrameEquation ==
  ASSUME NEW times \in Seq(Nat), NEW fps \in Nat
  PROVE  LET last == S!LastFrame(times, fps)
         IN  /\ last \in [0 .. Len(times) -> Nat]
             /\ last[0] = 0
             /\ \A i \in 1 .. Len(times) :
                  last[i] = IF \/ last[i - 1] = 0
                               \/ times[i] - times[last[i - 1]] >= S!MinInterval(fps)
                            THEN i ELSE last[i - 1]
<1> DEFINE n == Len(times)
           gap == S!MinInterval(fps)
           step == [p \in Nat \X Nat |->
                      IF p[2] = 0 \/ times[p[1]] - times[p[2]] >= gap
                      THEN p[1] ELSE p[2]]
<1>1. n \in Nat
  OBVIOUS
<1>2. step \in [Nat \X Nat -> Nat]
  OBVIOUS
<1>3. PICK f :
        /\ f \in [0 .. n -> Nat] /\ f[0] = 0
        /\ \A i \in 1 .. n : f[i] = step[<<i, f[i - 1]>>]
  <2>1. \E f : Continues(f, n, Nat, 0, step)
    <3> HIDE DEF n, step
    <3> QED BY <1>1, <1>2, BoundedRecursion
  <2> QED BY <2>1 DEF Continues
<1>4. ASSUME NEW i \in 1 .. n
      PROVE  f[i] = IF f[i - 1] = 0 \/ times[i] - times[f[i - 1]] >= gap
                    THEN i ELSE f[i - 1]
  <2>1. i \in Nat /\ f[i - 1] \in Nat
    BY <1>1, <1>3
  <2> QED BY <1>3, <2>1
<1> DEFINE Body(g) == [i \in 0 .. n |->
             IF i = 0 THEN 0
             ELSE IF g[i - 1] = 0 \/ times[i] - times[g[i - 1]] >= gap
                  THEN i ELSE g[i - 1]]
<1>5. f = Body(f)
  <2>1. ASSUME NEW i \in 0 .. n PROVE f[i] = Body(f)[i]
    <3>1. CASE i = 0
      BY <1>3, <3>1
    <3>2. CASE i # 0
      <4>1. i \in 1 .. n
        BY <1>1, <3>2
      <4> QED BY <1>4, <3>2, <4>1
    <3> QED BY <3>1, <3>2
  <2> QED BY <1>3, <2>1
<1> DEFINE last == CHOOSE g : g = Body(g)
<1>6. last = Body(last)
  <2> HIDE DEF Body
  <2> QED BY <1>5
<1>7. S!LastFrame(times, fps) = last
  BY DEF S!LastFrame
<1> HIDE DEF last
<1>8. /\ DOMAIN last = 0 .. n /\ last[0] = 0
      /\ \A i \in 1 .. n :
           last[i] = IF last[i - 1] = 0 \/ times[i] - times[last[i - 1]] >= gap
                     THEN i ELSE last[i - 1]
  <2>1. 0 \in 0 .. n
    BY <1>1
  <2>2. last[0] = 0 /\ DOMAIN last = 0 .. n
    BY <1>6, <2>1
  <2>3. ASSUME NEW i \in 1 .. n
        PROVE  last[i] = IF last[i - 1] = 0 \/ times[i] - times[last[i - 1]] >= gap
                         THEN i ELSE last[i - 1]
    <3>1. i \in 0 .. n /\ i # 0
      BY <1>1
    <3>2. last[i] = Body(last)[i]
      BY <1>6
    <3> QED BY <3>1, <3>2
  <2> QED BY <2>2, <2>3
<1>9. \A i \in 0 .. n : last[i] \in Nat
  <2> DEFINE T == {i \in 0 .. n : last[i] \in Nat}
  <2>1. 0 \in T
    BY <1>1, <1>8
  <2>2. ASSUME NEW i \in 1 .. n, i - 1 \in T PROVE i \in T
    <3>1. i \in 0 .. n /\ i \in Nat /\ last[i - 1] \in Nat
      BY <1>1, <2>2
    <3> QED BY <1>8, <3>1
  <2>3. \A i \in 0 .. n : i \in T
    <3> HIDE DEF T, n
    <3> QED BY <1>1, <2>1, <2>2, BoundedInduction
  <2> QED BY <2>3
<1>10. last \in [0 .. n -> Nat]
  <2>1. last = [i \in 0 .. n |-> last[i]]
    BY <1>6
  <2> QED BY <1>9, <2>1
<1> QED BY <1>7, <1>8, <1>10

\* After a frame, last_frame is the latest of those that were sampled.
LEMMA LastFrameIsLatest ==
  ASSUME NEW times \in Seq(Nat), NEW fps \in Nat, NEW i \in 1 .. Len(times)
  PROVE  LET last == S!LastFrame(times, fps)
         IN  /\ last[i] \in 1 .. i /\ last[i] \in S!Sample(times, fps)
             /\ \A j \in S!Sample(times, fps) : j <= i => j <= last[i]
<1> DEFINE last == S!LastFrame(times, fps)
           n == Len(times)
           gap == S!MinInterval(fps)
           Latest(k) == /\ last[k] \in 1 .. k /\ last[last[k]] = last[k]
                        /\ \A j \in 1 .. n : last[j] = j /\ j <= k => j <= last[k]
           T == {k \in 0 .. n : k # 0 => Latest(k)}
<1>1. n \in Nat /\ DOMAIN times = 1 .. n
  OBVIOUS
<1>2. /\ last \in [0 .. n -> Nat] /\ last[0] = 0
      /\ \A k \in 1 .. n :
           last[k] = IF last[k - 1] = 0 \/ times[k] - times[last[k - 1]] >= gap
                     THEN k ELSE last[k - 1]
  BY LastFrameEquation
<1> HIDE DEF last, n, gap
<1>3. 0 \in T
  BY <1>1
<1>4. ASSUME NEW k \in 1 .. n, k - 1 \in T PROVE k \in T
  <2>1. last[k] = k \/ (last[k] = last[k - 1] /\ last[k - 1] # 0)
    BY <1>2
  <2>2. CASE last[k] = k
    <3>1. Latest(k)
      BY <1>1, <2>2
    <3> QED BY <1>1, <3>1
  <2>3. CASE last[k] = last[k - 1] /\ last[k - 1] # 0
    <3>1. k - 1 # 0
      BY <1>2, <2>3
    <3>2. Latest(k - 1)
      BY <1>4, <3>1
    <3>3. last[k] \in 1 .. k /\ last[last[k]] = last[k] /\ last[k] # k
      BY <1>1, <2>3, <3>1, <3>2
    <3>4. \A j \in 1 .. n : last[j] = j /\ j <= k => j <= last[k]
      <4> TAKE j \in 1 .. n
      <4>1. j = k \/ j <= k - 1 \/ j > k
        BY <1>1
      <4> QED BY <1>1, <2>3, <3>2, <3>3, <4>1
    <3> QED BY <1>1, <3>3, <3>4
  <2> QED BY <2>1, <2>2, <2>3
<1>5. \A k \in 0 .. n : k \in T
  <2> HIDE DEF T
  <2> QED BY <1>1, <1>3, <1>4, BoundedInduction
<1>6. i \in 0 .. n /\ i # 0 /\ i \in 1 .. n
  BY <1>1 DEF n
<1>7. Latest(i)
  BY <1>5, <1>6
<1>8. S!Sample(times, fps) = {j \in 1 .. n : last[j] = j}
  BY <1>1 DEF S!Sample, last
<1>9. last[i] \in 1 .. n
  BY <1>1, <1>6, <1>7
<1>10. /\ last[i] \in 1 .. i /\ last[i] \in S!Sample(times, fps)
       /\ \A j \in S!Sample(times, fps) : j <= i => j <= last[i]
  BY <1>7, <1>8, <1>9
<1> QED BY <1>10 DEF last

\* Everything that SampledInTime says, of any frames that arrive in order.
LEMMA SamplesAreSpaced ==
  ASSUME NEW times \in Seq(Nat), NEW fps \in Nat,
         \A i, j \in DOMAIN times : i <= j => times[i] <= times[j]
  PROVE  LET taken == S!Sample(times, fps)
             interval == S!MinInterval(fps)
         IN  /\ times # <<>> => 1 \in taken
             /\ \A i, j \in taken : i < j => times[j] - times[i] >= interval
             /\ \A i \in DOMAIN times \ taken :
                  \E j \in taken : j < i /\ times[i] - times[j] < interval
<1> DEFINE last == S!LastFrame(times, fps)
           n == Len(times)
           taken == S!Sample(times, fps)
           gap == S!MinInterval(fps)
<1>1. n \in Nat /\ DOMAIN times = 1 .. n /\ gap \in Nat
  BY IntervalType
<1>2. /\ last \in [0 .. n -> Nat] /\ last[0] = 0
      /\ \A k \in 1 .. n :
           last[k] = IF last[k - 1] = 0 \/ times[k] - times[last[k - 1]] >= gap
                     THEN k ELSE last[k - 1]
  BY LastFrameEquation
<1>3. \A k \in 1 .. n : /\ last[k] \in 1 .. k /\ last[k] \in taken
                        /\ \A j \in taken : j <= k => j <= last[k]
  BY LastFrameIsLatest
<1>4. taken = {j \in 1 .. n : last[j] = j}
  BY <1>1 DEF S!Sample
<1>5. \A k \in 1 .. n : times[k] \in Nat
  OBVIOUS
<1> HIDE DEF last, n, taken, gap
<1>6. times # <<>> => 1 \in taken
  <2> SUFFICES ASSUME times # <<>> PROVE 1 \in taken
    OBVIOUS
  <2>1. 1 \in 1 .. n
    BY <1>1 DEF n
  <2>2. last[1] = 1
    BY <1>3, <2>1
  <2> QED BY <1>4, <2>1, <2>2
<1>7. ASSUME NEW i \in taken, NEW j \in taken, i < j
      PROVE  times[j] - times[i] >= gap
  <2>1. /\ i \in 1 .. n /\ j \in 1 .. n /\ j - 1 \in 1 .. n
        /\ i <= j - 1 /\ last[j] = j
    BY <1>1, <1>4, <1>7
  <2>2. last[j - 1] \in 1 .. j - 1 /\ i <= last[j - 1]
    BY <1>3, <2>1
  <2>3. last[j - 1] # 0 /\ last[j - 1] # j /\ last[j - 1] \in 1 .. n
    BY <1>1, <2>1, <2>2
  <2>4. times[j] - times[last[j - 1]] >= gap
    BY <1>2, <2>1, <2>3
  <2>5. times[i] <= times[last[j - 1]]
    BY <1>1, <2>1, <2>2, <2>3
  <2>6. PICK x \in Nat, y \in Nat, z \in Nat :
          x = times[i] /\ y = times[last[j - 1]] /\ z = times[j]
    BY <1>5, <2>1, <2>3
  <2>7. z - y >= gap /\ x <= y
    BY <2>4, <2>5, <2>6
  <2>8. z - x >= gap
    BY <1>1, <2>7
  <2> QED BY <2>6, <2>8
<1>8. ASSUME NEW i \in DOMAIN times \ taken
      PROVE  \E j \in taken : j < i /\ times[i] - times[j] < gap
  <2>1. i \in 1 .. n /\ last[i] # i
    BY <1>1, <1>4
  <2>2. last[i] \in taken /\ last[i] \in 1 .. i
    BY <1>3, <2>1
  <2>3. last[i] = last[i - 1] /\ ~ (times[i] - times[last[i - 1]] >= gap)
    BY <1>2, <2>1
  <2>4. last[i] \in 1 .. n /\ times[last[i]] \in Nat /\ times[i] \in Nat
    BY <1>1, <1>5, <2>1, <2>2
  <2>5. last[i] < i
    BY <1>1, <2>1, <2>2
  <2>6. times[i] - times[last[i]] < gap
    BY <1>1, <2>3, <2>4
  <2> QED BY <2>2, <2>5, <2>6
<1> QED BY <1>6, <1>7, <1>8 DEF taken, gap

-----------------------------------------------------------------------------
(* The rate of the frames. *)

\* The end of the times from position g on.
EndOf(d, times, g, n) ==
  /\ d \in Seq(Nat) /\ Len(d) = n - g + 1
  /\ \A i \in 1 .. n - g + 1 : d[i] = times[g + i - 1]

\* Pruning leaves an end of the deque, and only what is a period old leaves.
LEMMA PrunedIsEnd ==
  ASSUME NEW d \in Seq(Nat), NEW t \in Nat
  PROVE  \E k \in 1 .. Len(d) + 1 :
           /\ EndOf(S!Pruned(d, t), d, k, Len(d))
           /\ \A j \in 1 .. k - 1 : d[j] <= t - Period
<1> DEFINE young == S!Young(d, t)
           m == Len(d)
           first == S!FirstOf(young)
<1>1. m \in Nat /\ DOMAIN d = 1 .. m /\ Period \in Nat
  BY AlgorithmsAssumption
<1>2. young = {i \in 1 .. m : d[i] > t - Period}
  BY <1>1 DEF S!Young
<1>3. \A i \in 1 .. m : d[i] \in Nat
  OBVIOUS
<1>4. CASE young = {}
  <2>1. S!Pruned(d, t) = <<>>
    BY <1>4 DEF S!Pruned
  <2>2. EndOf(S!Pruned(d, t), d, m + 1, m)
    <3> HIDE DEF m
    <3> QED BY <1>1, <2>1 DEF EndOf
  <2>3. \A j \in 1 .. (m + 1) - 1 : d[j] <= t - Period
    BY <1>1, <1>2, <1>3, <1>4
  <2>4. m + 1 \in 1 .. m + 1
    BY <1>1
  <2> QED BY <2>2, <2>3, <2>4
<1>5. CASE young # {}
  <2>1. first \in young /\ \A j \in young : first <= j
    <3>1. young \in SUBSET Nat
      BY <1>1, <1>2
    <3> HIDE DEF young
    <3>2. \E i \in young : \A j \in young : i <= j
      BY <1>5, <3>1, LeastElement
    <3> QED BY <3>2 DEF S!FirstOf
  <2>2. S!Pruned(d, t) = SubSeq(d, first, m)
    BY <1>5 DEF S!Pruned
  <2> HIDE DEF young, first, m
  <2>3. first \in 1 .. m
    BY <1>2, <2>1
  <2>4. EndOf(S!Pruned(d, t), d, first, m)
    BY <1>1, <2>2, <2>3 DEF EndOf, m
  <2>5. \A j \in 1 .. first - 1 : d[j] <= t - Period
    <3> TAKE j \in 1 .. first - 1
    <3>1. j \in 1 .. m /\ ~ (first <= j)
      BY <1>1, <2>3
    <3> QED BY <1>1, <1>2, <1>3, <2>1, <3>1
  <2>6. first \in 1 .. m + 1
    BY <1>1, <2>3
  <2> QED BY <2>4, <2>5, <2>6 DEF m
<1> QED BY <1>4, <1>5

\* An end of an end is an end.
LEMMA EndOfEnd ==
  ASSUME NEW times \in Seq(Nat), NEW n \in 0 .. Len(times), NEW g \in 1 .. n + 1,
         NEW d, EndOf(d, times, g, n), NEW k \in 1 .. Len(d) + 1,
         NEW e, EndOf(e, d, k, Len(d))
  PROVE  g + k - 1 \in 1 .. n + 1 /\ EndOf(e, times, g + k - 1, n)
<1>1. /\ Len(d) = n - g + 1
      /\ \A i \in 1 .. n - g + 1 : d[i] = times[g + i - 1]
  BY DEF EndOf
<1>2. /\ e \in Seq(Nat) /\ Len(e) = Len(d) - k + 1
      /\ \A i \in 1 .. Len(d) - k + 1 : e[i] = d[k + i - 1]
  BY DEF EndOf
<1>3. n \in Nat
  OBVIOUS
<1>4. g + k - 1 \in 1 .. n + 1 /\ Len(e) = n - (g + k - 1) + 1
  BY <1>1, <1>2, <1>3
<1>5. ASSUME NEW i \in 1 .. n - (g + k - 1) + 1
      PROVE  e[i] = times[(g + k - 1) + i - 1]
  <2>1. /\ i \in 1 .. Len(d) - k + 1 /\ k + i - 1 \in 1 .. n - g + 1
        /\ g + (k + i - 1) - 1 = (g + k - 1) + i - 1
    BY <1>1, <1>3, <1>4
  <2> QED BY <1>1, <1>2, <2>1
<1> QED BY <1>2, <1>4, <1>5 DEF EndOf

LEMMA AppendElements ==
  ASSUME NEW T, NEW s \in Seq(T), NEW e \in T
  PROVE  /\ Append(s, e) \in Seq(T) /\ Len(Append(s, e)) = Len(s) + 1
         /\ \A i \in 1 .. Len(s) : Append(s, e)[i] = s[i]
         /\ Append(s, e)[Len(s) + 1] = e
OBVIOUS

\* A new time goes to the end.
LEMMA EndExtended ==
  ASSUME NEW times \in Seq(Nat), NEW n \in 1 .. Len(times), NEW g \in 1 .. n,
         NEW d, EndOf(d, times, g, n - 1)
  PROVE  EndOf(Append(d, times[n]), times, g, n)
<1>1. n \in Nat /\ times[n] \in Nat
  OBVIOUS
<1>2. /\ d \in Seq(Nat) /\ Len(d) = n - g
      /\ \A i \in 1 .. n - g : d[i] = times[g + i - 1]
  <2>1. (n - 1) - g + 1 = n - g
    BY <1>1
  <2> QED BY <2>1 DEF EndOf
<1>3. /\ Append(d, times[n]) \in Seq(Nat) /\ Len(Append(d, times[n])) = n - g + 1
      /\ \A i \in 1 .. n - g : Append(d, times[n])[i] = d[i]
      /\ Append(d, times[n])[n - g + 1] = times[n]
  <2>1. PICK t \in Nat : t = times[n]
    BY <1>1
  <2>2. /\ Append(d, t) \in Seq(Nat) /\ Len(Append(d, t)) = Len(d) + 1
        /\ \A i \in 1 .. Len(d) : Append(d, t)[i] = d[i]
        /\ Append(d, t)[Len(d) + 1] = t
    BY <1>2, AppendElements
  <2> QED BY <1>2, <2>1, <2>2
<1>4. ASSUME NEW i \in 1 .. n - g + 1
      PROVE  Append(d, times[n])[i] = times[g + i - 1]
  <2>1. CASE i = n - g + 1
    <3>1. g + i - 1 = n
      BY <1>1, <2>1
    <3> QED BY <1>3, <2>1, <3>1
  <2>2. CASE i # n - g + 1
    <3>1. i \in 1 .. n - g
      BY <1>1, <2>2
    <3> QED BY <1>2, <1>3, <3>1
  <2> QED BY <2>1, <2>2
<1> QED BY <1>3, <1>4 DEF EndOf

\* What the deque holds after each of the times, from what it held before.
Recording(deque, times) ==
  /\ deque[0] = <<>>
  /\ \A i \in 1 .. Len(times) :
       deque[i] = Append(S!Pruned(deque[i - 1], times[i]), times[i])

LEMMA RecordedEquation ==
  ASSUME NEW times \in Seq(Nat)
  PROVE  \E deque : Recording(deque, times) /\ S!Recorded(times) = deque[Len(times)]
<1> DEFINE n == Len(times)
           After(i, d) == Append(S!Pruned(d, times[i]), times[i])
           step == [p \in Nat \X Seq(Nat) |->
                      IF p[1] \in 1 .. n THEN After(p[1], p[2]) ELSE <<>>]
           Body(h) == [i \in 0 .. n |-> IF i = 0 THEN <<>> ELSE After(i, h[i - 1])]
           deque == CHOOSE h : h = Body(h)
<1>1. n \in Nat
  OBVIOUS
<1>2. ASSUME NEW i \in 1 .. n, NEW d \in Seq(Nat)
      PROVE  After(i, d) \in Seq(Nat)
  <2>1. PICK t \in Nat : t = times[i]
    BY <1>1
  <2>2. S!Pruned(d, t) \in Seq(Nat)
    BY PrunedIsEnd DEF EndOf
  <2>3. Append(S!Pruned(d, t), t) \in Seq(Nat)
    BY <2>2, AppendElements
  <2> QED BY <2>1, <2>3
<1> HIDE DEF n, After
<1>3. step \in [Nat \X Seq(Nat) -> Seq(Nat)]
  <2>1. ASSUME NEW q \in Nat \X Seq(Nat)
        PROVE  (IF q[1] \in 1 .. n THEN After(q[1], q[2]) ELSE <<>>) \in Seq(Nat)
    BY <1>2
  <2> QED BY <2>1
<1>4. PICK h : Continues(h, n, Seq(Nat), <<>>, step)
  <2>1. <<>> \in Seq(Nat)
    OBVIOUS
  <2>2. \E h : Continues(h, n, Seq(Nat), <<>>, step)
    <3> HIDE DEF step
    <3> QED BY <1>1, <1>3, <2>1, BoundedRecursion
  <2> QED BY <2>2
<1>5. h = Body(h)
  <2>1. h \in [0 .. n -> Seq(Nat)] /\ h[0] = <<>>
        /\ \A i \in 1 .. n : h[i] = step[<<i, h[i - 1]>>]
    BY <1>4 DEF Continues
  <2>2. ASSUME NEW i \in 0 .. n PROVE h[i] = Body(h)[i]
    <3>1. CASE i = 0
      BY <2>1, <3>1
    <3>2. CASE i # 0
      <4>1. i \in 1 .. n /\ i \in Nat /\ i - 1 \in 0 .. n
        BY <1>1, <3>2
      <4>2. h[i - 1] \in Seq(Nat) /\ h[i] = step[<<i, h[i - 1]>>]
        BY <2>1, <4>1
      <4>3. step[<<i, h[i - 1]>>] = After(i, h[i - 1])
        BY <4>1, <4>2
      <4> QED BY <3>2, <4>2, <4>3
    <3> QED BY <3>1, <3>2
  <2> QED BY <2>1, <2>2
<1>6. deque = Body(deque)
  <2> HIDE DEF Body
  <2> QED BY <1>5
<1>7. S!Recorded(times) = deque[n]
  BY DEF S!Recorded, n, After
<1> HIDE DEF deque
<1>8. deque[0] = <<>>
  <2>1. 0 \in 0 .. n
    BY <1>1
  <2> QED BY <1>6, <2>1
<1>9. ASSUME NEW i \in 1 .. n PROVE deque[i] = After(i, deque[i - 1])
  <2>1. i \in 0 .. n /\ i # 0
    BY <1>1
  <2>2. deque[i] = Body(deque)[i]
    BY <1>6
  <2> QED BY <2>1, <2>2
<1>10. Recording(deque, times)
  BY <1>8, <1>9 DEF Recording, n, After
<1> QED BY <1>7, <1>10 DEF n

\* After the last of the times the deque is an end of them, and what is not in
\* it was a period old by then.
LEMMA RecordedIsEnd ==
  ASSUME NEW times \in Seq(Nat), times # <<>>,
         \A i, j \in DOMAIN times : i <= j => times[i] <= times[j]
  PROVE  \E g \in 1 .. Len(times) :
           /\ EndOf(S!Recorded(times), times, g, Len(times))
           /\ \A j \in 1 .. g - 1 : times[j] <= times[Len(times)] - Period
<1> DEFINE n == Len(times)
<1>1. /\ n \in Nat /\ n \in 1 .. n /\ DOMAIN times = 1 .. n
      /\ Period \in Nat \ {0} /\ \A i \in 1 .. n : times[i] \in Nat
  BY AlgorithmsAssumption
<1>2. PICK deque : Recording(deque, times) /\ S!Recorded(times) = deque[n]
  BY RecordedEquation
<1> DEFINE Old(g, i) == \A j \in 1 .. g - 1 : times[j] <= times[i] - Period
           Held(i) == \E g \in 1 .. i : EndOf(deque[i], times, g, i) /\ Old(g, i)
           T == {i \in 0 .. n : i # 0 => Held(i)}
<1>3. 0 \in T
  BY <1>1
<1>4. ASSUME NEW i \in 1 .. n, i - 1 \in T PROVE i \in T
  <2>1. i \in Nat /\ i - 1 \in 0 .. n /\ times[i] \in Nat /\ (i - 1) + 1 = i
    BY <1>1
  <2>2. PICK g \in 1 .. i : /\ EndOf(deque[i - 1], times, g, i - 1)
                            /\ \A j \in 1 .. g - 1 : times[j] <= times[i] - Period
    <3>1. CASE i = 1
      <4>1. EndOf(<<>>, times, 1, 0)
        BY DEF EndOf
      <4>2. deque[i - 1] = <<>> /\ i - 1 = 0
        BY <1>2, <3>1 DEF Recording
      <4>3. 1 \in 1 .. i /\ \A j \in 1 .. 1 - 1 : times[j] <= times[i] - Period
        BY <2>1
      <4> QED BY <4>1, <4>2, <4>3
    <3>2. CASE i # 1
      <4>1. i - 1 # 0 /\ i - 1 \in 1 .. n
        BY <2>1, <3>2
      <4>2. PICK g \in 1 .. i - 1 :
              EndOf(deque[i - 1], times, g, i - 1) /\ Old(g, i - 1)
        BY <1>4, <4>1
      <4>3. times[i - 1] <= times[i] /\ times[i - 1] \in Nat
        BY <1>1, <2>1, <4>1
      <4>4. ASSUME NEW j \in 1 .. g - 1 PROVE times[j] <= times[i] - Period
        <5>1. j \in 1 .. n /\ times[j] \in Nat
          BY <1>1, <2>1, <4>1
        <5>2. times[j] <= times[i - 1] - Period
          BY <4>2
        <5> QED BY <1>1, <2>1, <4>3, <5>1, <5>2
      <4> QED BY <2>1, <4>2, <4>4
    <3> QED BY <3>1, <3>2
  <2> DEFINE d == deque[i - 1]
             e == S!Pruned(d, times[i])
  <2>3. deque[i] = Append(e, times[i])
    BY <1>2 DEF Recording
  <2>4. /\ d \in Seq(Nat) /\ Len(d) = (i - 1) - g + 1
        /\ \A j \in 1 .. (i - 1) - g + 1 : d[j] = times[g + j - 1]
    BY <2>2 DEF EndOf
  <2> HIDE DEF d
  <2>5. PICK k \in 1 .. Len(d) + 1 :
          EndOf(e, d, k, Len(d)) /\ \A j \in 1 .. k - 1 : d[j] <= times[i] - Period
    BY <2>1, <2>4, PrunedIsEnd
  <2> HIDE DEF e
  <2> DEFINE m == g + k - 1
  <2>6. EndOf(d, times, g, i - 1)
    BY <2>2 DEF d
  <2>7. m \in 1 .. (i - 1) + 1 /\ EndOf(e, times, m, i - 1)
    <3>1. i - 1 \in 0 .. Len(times) /\ g \in 1 .. (i - 1) + 1
      BY <2>1
    <3> QED BY <2>5, <2>6, <3>1, EndOfEnd
  <2>8. m \in 1 .. i
    BY <2>1, <2>7
  <2> HIDE DEF m
  <2>9. EndOf(deque[i], times, m, i)
    BY <2>3, <2>7, <2>8, EndExtended
  <2>10. ASSUME NEW j \in 1 .. m - 1 PROVE times[j] <= times[i] - Period
    <3>1. CASE j <= g - 1
      BY <2>1, <2>2, <3>1
    <3>2. CASE ~ (j <= g - 1)
      <4>1. k \in Nat /\ m = g + k - 1 /\ Len(d) \in Nat
        BY <2>4, <2>5 DEF m
      <4>2. /\ j - g + 1 \in 1 .. k - 1 /\ j - g + 1 \in 1 .. (i - 1) - g + 1
            /\ g + (j - g + 1) - 1 = j
        BY <2>1, <2>4, <2>8, <3>2, <4>1
      <4>3. d[j - g + 1] = times[j] /\ d[j - g + 1] <= times[i] - Period
        BY <2>4, <2>5, <4>2
      <4> QED BY <4>3
    <3> QED BY <3>1, <3>2
  <2> QED BY <2>1, <2>8, <2>9, <2>10
<1>5. \A i \in 0 .. n : i \in T
  <2> HIDE DEF T, n
  <2> QED BY <1>1, <1>3, <1>4, BoundedInduction
<1>6. Held(n)
  <2>1. n \in 0 .. n /\ n # 0
    BY <1>1
  <2> HIDE DEF Held, n
  <2> QED BY <1>5, <2>1
<1> QED BY <1>2, <1>6

\* A set of positions that is moved has as many elements.
LEMMA MovedCardinality ==
  ASSUME NEW m \in Nat, NEW A \in SUBSET (1 .. m), NEW o \in Nat, NEW B,
         B = {o + i : i \in A}
  PROVE  Cardinality(B) = Cardinality(A)
<1> DEFINE f == [i \in A |-> o + i]
<1>1. IsFiniteSet(A)
  <2>1. IsFiniteSet(1 .. m)
    BY FS_Interval
  <2> QED BY <2>1, FS_Subset
<1>2. f \in Bijection(A, B)
  <2>1. f \in [A -> B]
    OBVIOUS
  <2>2. \A i, j \in A : f[i] = f[j] => i = j
    OBVIOUS
  <2>3. \A b \in B : \E i \in A : f[i] = b
    OBVIOUS
  <2> HIDE DEF f
  <2> QED BY <2>1, <2>2, <2>3, Fun_IsBij
<1>3. ExistsBijection(A, B)
  BY <1>2, Fun_ExistsBij
<1> QED BY <1>1, <1>3, FS_Bijection

\* The least position of a set, moved, is the least of the set that is moved.
LEMMA MovedFirst ==
  ASSUME NEW A \in SUBSET Nat, A # {}, NEW o \in Nat, NEW B,
         B = {o + i : i \in A}
  PROVE  S!FirstOf(A) \in A /\ S!FirstOf(B) = o + S!FirstOf(A)
<1>1. S!FirstOf(A) \in A /\ \A j \in A : S!FirstOf(A) <= j
  <2>1. \E i \in A : \A j \in A : i <= j
    BY LeastElement
  <2> QED BY <2>1 DEF S!FirstOf
<1>2. B \in SUBSET Nat /\ B # {}
  <2>1. \A i \in A : o + i \in Nat /\ o + i \in B
    OBVIOUS
  <2>2. \A b \in B : b \in Nat
    BY <2>1
  <2>3. PICK i \in A : TRUE
    OBVIOUS
  <2> QED BY <2>1, <2>2, <2>3
<1>3. S!FirstOf(B) \in B /\ \A j \in B : S!FirstOf(B) <= j
  <2>1. \E i \in B : \A j \in B : i <= j
    BY <1>2, LeastElement
  <2> QED BY <2>1 DEF S!FirstOf
<1>4. PICK a \in A : a = S!FirstOf(A)
  BY <1>1
<1>5. PICK b \in A : o + b = S!FirstOf(B)
  BY <1>3
<1>6. a <= b
  BY <1>1, <1>4
<1>7. o + b <= o + a
  BY <1>3, <1>5
<1>8. a \in Nat /\ b \in Nat
  OBVIOUS
<1>9. a = b
  BY <1>6, <1>7, <1>8
<1> QED BY <1>4, <1>5, <1>9

LEMMA CardinalityInSampling ==
  ASSUME NEW A
  PROVE  S!Cardinality(A) = Cardinality(A)
BY DEF S!Cardinality, Cardinality

\* The rate of an end of the times is that of all of them when what is missing
\* was a period old at the last of them.
LEMMA RateOfEnd ==
  ASSUME NEW times \in Seq(Nat), NEW g \in 1 .. Len(times), NEW now \in Nat,
         now >= times[Len(times)],
         \A j \in 1 .. g - 1 : times[j] <= times[Len(times)] - Period,
         NEW d, EndOf(d, times, g, Len(times))
  PROVE  S!Rate(d, now) = S!Rate(times, now)
<1> DEFINE n == Len(times)
           m == n - g + 1
           A == S!Young(d, now)
           B == S!Young(times, now)
<1>1. /\ n \in Nat /\ n \in 1 .. n /\ DOMAIN times = 1 .. n /\ Period \in Nat \ {0}
      /\ \A i \in 1 .. n : times[i] \in Nat
  <2>1. Period \in Nat \ {0}
    BY AlgorithmsAssumption
  <2> QED BY <2>1
<1>2. /\ d \in Seq(Nat) /\ Len(d) = m
      /\ \A i \in 1 .. m : d[i] = times[g + i - 1]
  BY DEF EndOf
<1>3. m \in Nat \ {0} /\ DOMAIN d = 1 .. m /\ g - 1 \in Nat
  BY <1>1, <1>2
<1>4. A = {i \in 1 .. m : d[i] > now - Period}
  BY <1>3 DEF S!Young
<1>5. B = {i \in 1 .. n : times[i] > now - Period}
  BY <1>1 DEF S!Young
<1>6. \A j \in 1 .. g - 1 : times[j] <= times[n] - Period
  OBVIOUS
<1>7. now >= times[n]
  OBVIOUS
<1> HIDE DEF A, B
<1>8. B = {(g - 1) + i : i \in A}
  <2>1. ASSUME NEW i \in A PROVE (g - 1) + i \in B
    <3>1. i \in 1 .. m /\ times[g + i - 1] > now - Period
      BY <1>2, <1>4
    <3>2. (g - 1) + i = g + i - 1 /\ (g - 1) + i \in 1 .. n
      BY <1>1, <3>1
    <3> QED BY <1>5, <3>1, <3>2
  <2>2. ASSUME NEW j \in B PROVE \E i \in A : j = (g - 1) + i
    <3>1. j \in 1 .. n /\ times[j] > now - Period /\ times[j] \in Nat /\ times[n] \in Nat
      BY <1>1, <1>5
    <3>2. ~ (j \in 1 .. g - 1)
      <4>1. ASSUME times[j] <= times[n] - Period PROVE FALSE
        BY <1>1, <1>7, <3>1, <4>1
      <4> QED BY <1>6, <4>1
    <3>3. j - g + 1 \in 1 .. m /\ g + (j - g + 1) - 1 = j
      BY <1>1, <3>1, <3>2
    <3>4. d[j - g + 1] = times[j]
      BY <1>2, <3>3
    <3>5. j - g + 1 \in A /\ j = (g - 1) + (j - g + 1)
      BY <1>1, <1>4, <3>1, <3>3, <3>4
    <3> QED BY <3>5
  <2> QED BY <2>1, <2>2
<1>9. A \in SUBSET (1 .. m) /\ A \in SUBSET Nat
  BY <1>4
<1>10. S!Cardinality(B) = S!Cardinality(A)
  <2>1. Cardinality(B) = Cardinality(A)
    <3> DEFINE o == g - 1
    <3>1. o \in Nat /\ m \in Nat /\ B = {o + i : i \in A}
      BY <1>3, <1>8
    <3> HIDE DEF o, m
    <3> QED BY <1>9, <3>1, MovedCardinality
  <2> QED BY <2>1, CardinalityInSampling
<1>11. A = {} <=> B = {}
  BY <1>8
<1>12. d[Len(d)] = times[n]
  <2>1. g + m - 1 = n /\ m \in 1 .. m
    BY <1>1, <1>3
  <2> QED BY <1>2, <2>1
<1>13. CASE A = {}
  BY <1>11, <1>13 DEF S!Rate, A, B
<1>14. CASE A # {}
  <2>1. S!FirstOf(A) \in A /\ S!FirstOf(B) = (g - 1) + S!FirstOf(A)
    BY <1>3, <1>8, <1>9, <1>14, MovedFirst
  <2>2. PICK a \in 1 .. m : a = S!FirstOf(A)
    BY <1>9, <2>1
  <2>3. d[a] = times[(g - 1) + a]
    <3>1. g + a - 1 = (g - 1) + a
      BY <1>1
    <3> QED BY <1>2, <3>1
  <2>4. d[S!FirstOf(A)] = times[S!FirstOf(B)]
    BY <2>1, <2>2, <2>3
  <2>5. CASE m = 1
    <3>1. g = n /\ a = 1 /\ S!FirstOf(B) = n
      <4>1. g \in Nat /\ a \in Nat /\ g = n /\ a = 1
        <5>1. g \in 1 .. n
          OBVIOUS
        <5> HIDE DEF n
        <5>2. g = n
          BY <1>1, <2>5, <5>1
        <5>3. a = 1
          <6>1. a \in 1 .. 1
            BY <2>2, <2>5
          <6> QED BY <6>1
        <5> QED BY <1>1, <5>2, <5>3
      <4>2. (g - 1) + a = n
        BY <1>1, <4>1
      <4> QED BY <2>1, <2>2, <4>1, <4>2
    <3>2. times[n] <= times[S!FirstOf(B)]
      BY <1>1, <3>1
    <3>3. S!Rate(d, now) = S!NoRate
      BY <1>2, <2>5 DEF S!Rate
    <3>4. S!Rate(times, now) = S!NoRate
      BY <3>2 DEF S!Rate, B
    <3> QED BY <3>3, <3>4
  <2>6. CASE m # 1
    <3>1. m >= 2 /\ n >= m
      BY <1>1, <1>3, <2>6
    <3>2. ~ (Len(d) < 2) /\ ~ (Len(times) < 2)
      <4>1. n >= 2 /\ m \in Nat /\ n \in Nat /\ Len(d) = m
        BY <1>1, <1>2, <1>3, <3>1
      <4>2. ~ (m < 2) /\ ~ (n < 2)
        <5> HIDE DEF m, n
        <5> QED BY <3>1, <4>1
      <4> QED BY <4>1, <4>2
    <3> DEFINE x == d[Len(d)]
               y == d[S!FirstOf(A)]
               value == [frames |-> S!Cardinality(A) - 1, ticks |-> x - y]
    <3>3. S!Rate(d, now) = IF x <= y THEN S!NoRate ELSE value
      BY <1>14, <3>2 DEF S!Rate, A
    <3>4. S!Rate(times, now) = IF x <= y THEN S!NoRate ELSE value
      <4>1. x = times[Len(times)] /\ y = times[S!FirstOf(B)]
        BY <1>12, <2>4
      <4>2. S!Cardinality(A) = S!Cardinality(B) /\ B # {}
        BY <1>10, <1>11, <1>14
      <4> HIDE DEF x, y
      <4> QED BY <3>2, <4>1, <4>2 DEF S!Rate, B
    <3> QED BY <3>3, <3>4
  <2> QED BY <2>5, <2>6
<1> QED BY <1>13, <1>14

-----------------------------------------------------------------------------
\* A camera keeps the frames and the rate it was set with, and an answer is what
\* the code makes of them.
CameraInv ==
  task.kind = "camera" =>
    /\ task.times \in Arrivals /\ task.fps \in Rates
    /\ answer \in {<<>>, <<[sampled |-> S!Sample(task.times, task.fps),
                            recorded |-> S!Recorded(task.times)]>>}

LEMMA CameraInvariant == Spec => []CameraInv
<1>1. Init => CameraInv
  BY DEF Init, CameraInv
<1>2. CameraInv /\ [Next]_vars => CameraInv'
  <2> SUFFICES ASSUME CameraInv, [Next]_vars, task'.kind = "camera"
               PROVE  CameraInv'
    BY DEF CameraInv
  <2>1. task' = task
    BY DEF Next, vars, DetectObjects, PlaceFrame, RecogniseLayout, WatchCamera,
           ReadEvents, SynchroniseSettings, Answer
  <2>2. CASE WatchCamera
    BY <2>1, <2>2 DEF CameraInv, WatchCamera, Answer
  <2>3. CASE UNCHANGED vars
    BY <2>3 DEF CameraInv, vars
  <2>4. CASE \/ DetectObjects \/ PlaceFrame \/ RecogniseLayout
             \/ ReadEvents \/ SynchroniseSettings
    BY <2>1, <2>4 DEF DetectObjects, PlaceFrame, RecogniseLayout, ReadEvents,
                      SynchroniseSettings, Answer
  <2> QED BY <2>2, <2>3, <2>4 DEF Next
<1> QED BY <1>1, <1>2, PTL DEF Spec

\* Whenever its frames arrive and whatever its rate, a camera samples the first
\* frame, leaves an interval between the sampled ones, and skips none that came
\* an interval after the last.
THEOREM SamplerKeepsPace == Spec => []SampledInTime
<1>1. CameraInv => SampledInTime
  <2> SUFFICES ASSUME CameraInv, Answered("camera") PROVE SampledInTime
    BY DEF SampledInTime
  <2>1. /\ task.times \in Arrivals /\ task.fps \in Rates
        /\ answer = <<[sampled |-> S!Sample(task.times, task.fps),
                       recorded |-> S!Recorded(task.times)]>>
    BY DEF CameraInv, Answered
  <2>2. /\ task.times \in Seq(Nat) /\ task.fps \in Nat
        /\ \A i, j \in DOMAIN task.times : i <= j => task.times[i] <= task.times[j]
    BY <2>1, AlgorithmsAssumption
  <2>3. The.sampled = S!Sample(task.times, task.fps)
    BY <2>1 DEF The
  <2> DEFINE times == task.times
             fps == task.fps
  <2>4. LET taken == S!Sample(times, fps)
            interval == S!MinInterval(fps)
        IN  /\ times # <<>> => 1 \in taken
            /\ \A i, j \in taken : i < j => times[j] - times[i] >= interval
            /\ \A i \in DOMAIN times \ taken :
                 \E j \in taken : j < i /\ times[i] - times[j] < interval
    <3> HIDE DEF times, fps
    <3>1. /\ times \in Seq(Nat) /\ fps \in Nat
          /\ \A i, j \in DOMAIN times : i <= j => times[i] <= times[j]
      BY <2>2 DEF times, fps
    <3> QED BY <3>1, SamplesAreSpaced
  <2> QED BY <2>3, <2>4 DEF SampledInTime
<1> QED BY <1>1, CameraInvariant, PTL

\* Whenever the rate of the frames is asked for, the times that were popped from
\* the deque make no difference to it.
THEOREM RateIsOfHistory == Spec => []RateOfHistory
<1>1. CameraInv => RateOfHistory
  <2> SUFFICES ASSUME CameraInv, Answered("camera"), task.times # <<>>,
                      NEW now \in 0 .. 3 * Period, now >= task.times[Len(task.times)]
               PROVE  S!Rate(The.recorded, now) = S!Rate(task.times, now)
    BY DEF RateOfHistory, Last
  <2>1. /\ task.times \in Arrivals
        /\ answer = <<[sampled |-> S!Sample(task.times, task.fps),
                       recorded |-> S!Recorded(task.times)]>>
    BY DEF CameraInv, Answered
  <2>2. The.recorded = S!Recorded(task.times)
    BY <2>1 DEF The
  <2> DEFINE times == task.times
  <2>3. /\ times \in Seq(Nat) /\ times # <<>>
        /\ \A i, j \in DOMAIN times : i <= j => times[i] <= times[j]
    BY <2>1, AlgorithmsAssumption
  <2>4. now \in Nat /\ now >= times[Len(times)]
    OBVIOUS
  <2> HIDE DEF times
  <2>5. PICK g \in 1 .. Len(times) :
          /\ EndOf(S!Recorded(times), times, g, Len(times))
          /\ \A j \in 1 .. g - 1 : times[j] <= times[Len(times)] - Period
    BY <2>3, RecordedIsEnd
  <2>6. S!Rate(S!Recorded(times), now) = S!Rate(times, now)
    BY <2>3, <2>4, <2>5, RateOfEnd
  <2> QED BY <2>2, <2>6 DEF times
<1> QED BY <1>1, CameraInvariant, PTL

-----------------------------------------------------------------------------
(* Lists of sets. *)

\* What an order must be for a set to be listed by it.
OrderOf(order, D) ==
  /\ \A x \in D : <<x, x>> \notin order
  /\ \A x, y \in D : x # y => <<x, y>> \in order \/ <<y, x>> \in order
  /\ \A x, y, z \in D : <<x, y>> \in order /\ <<y, z>> \in order => <<x, z>> \in order

\* What comes before has a smaller rank.
LEMMA RankGrows ==
  ASSUME NEW D, IsFiniteSet(D), NEW order, OrderOf(order, D),
         NEW x \in D, NEW y \in D, <<x, y>> \in order
  PROVE  Rank(D, order, x) \in Nat /\ Rank(D, order, y) \in Nat
         /\ Rank(D, order, x) < Rank(D, order, y)
<1> DEFINE A == {z \in D : <<z, x>> \in order}
           B == {z \in D : <<z, y>> \in order}
<1>1. A \in SUBSET D /\ B \in SUBSET D /\ A \in SUBSET B
  BY DEF OrderOf
<1>2. x \in B /\ x \notin A
  BY DEF OrderOf
<1>3. Rank(D, order, x) = Cardinality(A) /\ Rank(D, order, y) = Cardinality(B)
  BY DEF Rank
<1> HIDE DEF A, B
<1>4. IsFiniteSet(A) /\ IsFiniteSet(B)
  BY <1>1, FS_Subset
<1>5. Cardinality(A) \in Nat /\ Cardinality(B) \in Nat
  BY <1>4, FS_CardinalityType
<1>6. Cardinality(A) <= Cardinality(B) /\ (Cardinality(A) = Cardinality(B) => A = B)
  BY <1>1, <1>4, FS_Subset
<1> QED BY <1>2, <1>3, <1>5, <1>6

\* The list of a set has every element once, at the place its rank gives it.
LEMMA RankedLists ==
  ASSUME NEW D, IsFiniteSet(D), NEW order, OrderOf(order, D)
  PROVE  LET n == Cardinality(D)
             r == Ranked(D, order)
         IN  /\ n \in Nat /\ r \in [1 .. n -> D]
             /\ \A x \in D : /\ Rank(D, order, x) + 1 \in 1 .. n
                             /\ r[Rank(D, order, x) + 1] = x
             /\ \A k \in 1 .. n : Rank(D, order, r[k]) = k - 1
             /\ \A i, j \in 1 .. n : i < j => <<r[i], r[j]>> \in order
<1> DEFINE n == Cardinality(D)
           r == Ranked(D, order)
           rk == [x \in D |-> Rank(D, order, x) + 1]
<1>1. n \in Nat
  BY FS_CardinalityType
<1>2. ASSUME NEW x \in D
      PROVE  Rank(D, order, x) \in Nat /\ Rank(D, order, x) + 1 \in 1 .. n
  <2> DEFINE A == {z \in D : <<z, x>> \in order}
  <2>1. A \in SUBSET D /\ x \notin A
    BY DEF OrderOf
  <2>2. Rank(D, order, x) = Cardinality(A)
    BY DEF Rank
  <2> HIDE DEF A
  <2>3. IsFiniteSet(A) /\ Cardinality(A) <= n /\ (n = Cardinality(A) => D = A)
    BY <2>1, FS_Subset
  <2>4. Cardinality(A) \in Nat
    BY <2>3, FS_CardinalityType
  <2> HIDE DEF n
  <2>5. Cardinality(A) # n
    BY <2>1, <2>3
  <2> QED BY <1>1, <2>2, <2>3, <2>4, <2>5
<1>3. rk \in Injection(D, 1 .. n)
  <2>1. rk \in [D -> 1 .. n]
    BY <1>2
  <2>2. ASSUME NEW x \in D, NEW y \in D, x # y PROVE rk[x] # rk[y]
    <3>1. CASE <<x, y>> \in order
      <4>1. Rank(D, order, x) < Rank(D, order, y)
        BY <3>1, RankGrows
      <4> QED BY <1>2, <4>1
    <3>2. CASE <<y, x>> \in order
      <4>1. Rank(D, order, y) < Rank(D, order, x)
        BY <3>2, RankGrows
      <4> QED BY <1>2, <4>1
    <3> QED BY <2>2, <3>1, <3>2 DEF OrderOf
  <2> HIDE DEF rk
  <2> QED BY <2>1, <2>2 DEF Injection, IsInjective
<1>4. \A k \in 1 .. n : \E x \in D : rk[x] = k
  <2>1. IsFiniteSet(1 .. n) /\ Cardinality(1 .. n) = n
    BY <1>1, FS_Interval
  <2>2. rk \in Surjection(D, 1 .. n)
    <3> HIDE DEF rk
    <3> QED BY <1>3, <2>1, FS_Injection
  <2> HIDE DEF rk
  <2> QED BY <2>2 DEF Surjection
<1>5. ASSUME NEW k \in 1 .. n
      PROVE  r[k] \in D /\ Rank(D, order, r[k]) = k - 1
  <2>1. \E x \in D : Rank(D, order, x) = k - 1
    <3>1. PICK x \in D : rk[x] = k
      BY <1>4
    <3> QED BY <1>2, <3>1
  <2>2. r[k] = CHOOSE x \in D : Rank(D, order, x) = k - 1
    BY DEF Ranked
  <2> QED BY <2>1, <2>2
<1>6. r \in [1 .. n -> D]
  <2>1. r = [k \in 1 .. n |-> r[k]]
    BY DEF Ranked
  <2> HIDE DEF r
  <2> QED BY <1>5, <2>1
<1>7. ASSUME NEW x \in D PROVE r[Rank(D, order, x) + 1] = x
  <2> DEFINE k == Rank(D, order, x) + 1
  <2>1. k \in 1 .. n
    BY <1>2
  <2>2. r[k] \in D /\ Rank(D, order, r[k]) = k - 1
    BY <1>5, <2>1
  <2>3. rk[r[k]] = rk[x]
    BY <1>2, <2>2
  <2> HIDE DEF k, r, rk
  <2> QED BY <1>3, <2>2, <2>3 DEF Injection, IsInjective, k
<1>8. ASSUME NEW i \in 1 .. n, NEW j \in 1 .. n, i < j PROVE <<r[i], r[j]>> \in order
  <2>1. r[i] \in D /\ r[j] \in D /\ Rank(D, order, r[i]) < Rank(D, order, r[j])
    BY <1>5, <1>8
  <2>2. r[i] # r[j]
    BY <2>1, <1>2
  <2>3. ~ (<<r[j], r[i]>> \in order)
    <3> SUFFICES ASSUME <<r[j], r[i]>> \in order PROVE FALSE
      OBVIOUS
    <3> HIDE DEF r
    <3>1. Rank(D, order, r[j]) < Rank(D, order, r[i])
      BY <2>1, RankGrows
    <3> QED BY <1>2, <2>1, <3>1
  <2> HIDE DEF r
  <2> QED BY <2>1, <2>2, <2>3 DEF OrderOf
<1> QED BY <1>1, <1>2, <1>5, <1>6, <1>7, <1>8

-----------------------------------------------------------------------------
(* Boxes and their cells. *)

\* What is asked of a box: whole coordinates.
Boxes == [x : Int, y : Int, width : Int, height : Int]

\* The cells from a on, w of them, and how many of those from b on are among them.
Side(a, w) == a .. a + w - 1
Common(a, w, b, v) == P!Larger(0, P!Smaller(a + w, b + v) - P!Larger(a, b))

\* A side of w cells has w of them, or none.
LEMMA SideCells ==
  ASSUME NEW a \in Int, NEW w \in Int
  PROVE  IsFiniteSet(Side(a, w)) /\ Cardinality(Side(a, w)) = P!Larger(0, w)
<1>1. /\ IsFiniteSet(a .. a + w - 1)
      /\ Cardinality(a .. a + w - 1)
           = IF a > a + w - 1 THEN 0 ELSE a + w - 1 - a + 1
  BY FS_Interval
<1> QED BY <1>1 DEF Side, P!Larger

\* The cells that two sides have in common are counted by their ends alone.
LEMMA CommonCells ==
  \A a, w, b, v \in Int :
    /\ IsFiniteSet(Side(a, w) \cap Side(b, v))
    /\ Cardinality(Side(a, w) \cap Side(b, v)) = Common(a, w, b, v)
    /\ Common(a, w, b, v) \in Nat
<1> TAKE a \in Int, w \in Int, b \in Int, v \in Int
<1>1. PICK lo \in Int : lo = P!Larger(a, b)
  BY DEF P!Larger
<1>2. PICK d \in Int : d = P!Smaller(a + w, b + v) - lo
  BY DEF P!Smaller
<1>3. Side(a, w) \cap Side(b, v) = Side(lo, d)
  BY <1>1, <1>2 DEF Side, P!Larger, P!Smaller
<1>4. Common(a, w, b, v) = P!Larger(0, d)
  BY <1>1, <1>2 DEF Common
<1>5. P!Larger(0, d) \in Nat
  BY DEF P!Larger
<1> QED BY <1>3, <1>4, <1>5, SideCells

\* The overlap that the code computes from the sides of two boxes is that of
\* their cells; a box without cells, or one turned inside out, meets none.
LEMMA OverlapCountsCells ==
  ASSUME NEW a, NEW b, a.box \in Boxes, b.box \in Boxes
  PROVE  Same(a, b) <=> P!Overlap(a.box, b.box)
<1> DEFINE Counted(p, q, r, v) ==
             /\ IsFiniteSet(Side(p, q) \cap Side(r, v))
             /\ Cardinality(Side(p, q) \cap Side(r, v)) = Common(p, q, r, v)
<1>0. \A p, q, r, v \in Int : Counted(p, q, r, v)
  BY CommonCells
<1> HIDE DEF Counted
<1>1. PICK x1 \in Int, y1 \in Int, w1 \in Int, h1 \in Int :
        a.box = [x |-> x1, y |-> y1, width |-> w1, height |-> h1]
  BY DEF Boxes
<1>2. PICK x2 \in Int, y2 \in Int, w2 \in Int, h2 \in Int :
        b.box = [x |-> x2, y |-> y2, width |-> w2, height |-> h2]
  BY DEF Boxes
<1> DEFINE X1 == Side(x1, w1)
           Y1 == Side(y1, h1)
           X2 == Side(x2, w2)
           Y2 == Side(y2, h2)
           dx == Common(x1, w1, x2, w2)
           dy == Common(y1, h1, y2, h2)
<1>3. Cells(a.box) = X1 \X Y1 /\ Cells(b.box) = X2 \X Y2
  BY <1>1, <1>2 DEF Cells, Side
<1>4. P!Intersection(a.box, b.box) = dx * dy
  BY <1>1, <1>2 DEF P!Intersection, Common
<1>5. dx \in Nat /\ dy \in Nat
  BY CommonCells
<1>6. /\ IsFiniteSet(X1) /\ Cardinality(X1) = P!Larger(0, w1)
      /\ IsFiniteSet(X2) /\ Cardinality(X2) = P!Larger(0, w2)
      /\ IsFiniteSet(Y1) /\ Cardinality(Y1) = P!Larger(0, h1)
      /\ IsFiniteSet(Y2) /\ Cardinality(Y2) = P!Larger(0, h2)
  BY SideCells
<1>7. /\ IsFiniteSet(X1 \cap X2) /\ Cardinality(X1 \cap X2) = dx
      /\ IsFiniteSet(Y1 \cap Y2) /\ Cardinality(Y1 \cap Y2) = dy
  <2>1. Counted(x1, w1, x2, w2) /\ Counted(y1, h1, y2, h2)
    BY <1>0
  <2> QED BY <2>1 DEF Counted
<1> HIDE DEF X1, X2, Y1, Y2
<1>8. (X1 \X Y1) \cap (X2 \X Y2) = (X1 \cap X2) \X (Y1 \cap Y2)
  OBVIOUS
<1>9. Cardinality(Cells(a.box) \cap Cells(b.box)) = dx * dy
  <2>1. Cardinality((X1 \cap X2) \X (Y1 \cap Y2))
          = Cardinality(X1 \cap X2) * Cardinality(Y1 \cap Y2)
    BY <1>7, FS_Product
  <2> HIDE DEF dx, dy
  <2> QED BY <1>3, <1>7, <1>8, <2>1
<1>10. /\ IsFiniteSet(X1 \X Y1) /\ Cardinality(X1 \X Y1) = P!Larger(0, w1) * P!Larger(0, h1)
       /\ IsFiniteSet(X2 \X Y2) /\ Cardinality(X2 \X Y2) = P!Larger(0, w2) * P!Larger(0, h2)
  <2>1. IsFiniteSet(X1 \X Y1) /\ Cardinality(X1 \X Y1) = Cardinality(X1) * Cardinality(Y1)
    BY <1>6, FS_Product
  <2>2. IsFiniteSet(X2 \X Y2) /\ Cardinality(X2 \X Y2) = Cardinality(X2) * Cardinality(Y2)
    BY <1>6, FS_Product
  <2> QED BY <1>6, <2>1, <2>2
<1> DEFINE both == Cells(a.box) \cup Cells(b.box)
<1>11. /\ IsFiniteSet(both)
       /\ Cardinality(both) = P!Larger(0, w1) * P!Larger(0, h1)
                                + P!Larger(0, w2) * P!Larger(0, h2) - dx * dy
  <2>1. /\ IsFiniteSet(both)
        /\ Cardinality(both) = Cardinality(Cells(a.box)) + Cardinality(Cells(b.box))
                                 - Cardinality(Cells(a.box) \cap Cells(b.box))
    BY <1>3, <1>10, FS_Union
  <2> HIDE DEF both, dx, dy
  <2> QED BY <1>3, <1>9, <1>10, <2>1
<1>12. /\ Cardinality(both) \in Nat
       /\ P!Larger(0, w1) * P!Larger(0, h1) <= Cardinality(both)
  <2>1. Cells(a.box) \in SUBSET both
    OBVIOUS
  <2> HIDE DEF both
  <2>2. Cardinality(both) \in Nat
    BY <1>11, FS_CardinalityType
  <2>3. Cardinality(Cells(a.box)) <= Cardinality(both)
    BY <1>11, <2>1, FS_Subset
  <2> QED BY <1>3, <1>10, <2>2, <2>3
<1>13. P!Overlap(a.box, b.box)
         <=> w1 * h1 + w2 * h2 - dx * dy > 0
               /\ 100 * (dx * dy) > 45 * (w1 * h1 + w2 * h2 - dx * dy)
  BY <1>1, <1>2, <1>4 DEF P!Overlap
<1>14. Same(a, b) <=> 100 * (dx * dy) > 45 * Cardinality(both)
  BY <1>9 DEF Same
<1>15. CASE w1 > 0 /\ h1 > 0 /\ w2 > 0 /\ h2 > 0
  <2>1. /\ P!Larger(0, w1) = w1 /\ P!Larger(0, h1) = h1
        /\ P!Larger(0, w2) = w2 /\ P!Larger(0, h2) = h2
    BY <1>15 DEF P!Larger
  <2>2. w1 * h1 > 0
    BY <1>15
  <2>3. w1 * h1 \in Int /\ w2 * h2 \in Int /\ dx * dy \in Int
    BY <1>5
  <2> HIDE DEF both, dx, dy
  <2>4. Cardinality(both) > 0 /\ Cardinality(both) = w1 * h1 + w2 * h2 - dx * dy
    BY <1>11, <1>12, <2>1, <2>2, <2>3
  <2> QED BY <1>13, <1>14, <2>4
<1>16. CASE ~ (w1 > 0 /\ h1 > 0 /\ w2 > 0 /\ h2 > 0)
  <2>1. dx = 0 \/ dy = 0
    BY <1>16 DEF Common, P!Larger, P!Smaller
  <2>2. dx * dy = 0
    BY <1>5, <2>1
  <2>3. w1 * h1 \in Int /\ w2 * h2 \in Int
    OBVIOUS
  <2> HIDE DEF both, dx, dy
  <2> QED BY <1>12, <1>13, <1>14, <2>2, <2>3
<1> QED BY <1>15, <1>16

\* Of two detections either is the same as the other, or neither is.
LEMMA SameBothWays ==
  ASSUME NEW a, NEW b
  PROVE  Same(a, b) <=> Same(b, a)
<1>1. /\ Cells(a.box) \cap Cells(b.box) = Cells(b.box) \cap Cells(a.box)
      /\ Cells(a.box) \cup Cells(b.box) = Cells(b.box) \cup Cells(a.box)
  OBVIOUS
<1> QED BY <1>1 DEF Same

-----------------------------------------------------------------------------
(* Suppression of the same detections. *)

\* The list of a set is the same in the instance of Postprocess.
LEMMA RankedInPostprocess ==
  ASSUME NEW A, NEW order
  PROVE  P!Cardinality(A) = Cardinality(A) /\ P!Ranked(A, order) = Ranked(A, order)
<1>1. \A B : P!Cardinality(B) = Cardinality(B)
  BY DEF P!Cardinality, Cardinality
<1>2. \A x : P!Rank(A, order, x) = Rank(A, order, x)
  BY <1>1 DEF P!Rank, Rank
<1> QED BY <1>1, <1>2 DEF P!Ranked, Ranked

\* The rows of a class, surest first.
LEMMA SurestFirst ==
  ASSUME NEW A \in SUBSET Nat, IsFiniteSet(A), NEW ds,
         \A i \in A : ds[i].confidence \in Int
  PROVE  LET n == P!Cardinality(A)
             r == P!ByConfidence(ds, A)
         IN  /\ n \in Nat /\ r \in [1 .. n -> A]
             /\ \A i \in A : \E k \in 1 .. n : r[k] = i
             /\ \A j, k \in 1 .. n :
                  j < k => ds[r[j]].confidence >= ds[r[k]].confidence
<1> DEFINE order == {p \in A \X A : P!Surer(ds, p[1], p[2])}
           n == Cardinality(A)
           r == Ranked(A, order)
<1>1. \A i, j \in A : <<i, j>> \in order <=>
        \/ ds[i].confidence > ds[j].confidence
        \/ ds[i].confidence = ds[j].confidence /\ i < j
  BY DEF P!Surer
<1>2. P!ByConfidence(ds, A) = r /\ P!Cardinality(A) = n
  <2>1. P!ByConfidence(ds, A) = P!Ranked(A, order)
    BY DEF P!ByConfidence
  <2> HIDE DEF order
  <2> QED BY <2>1, RankedInPostprocess
<1> HIDE DEF order
<1>3. OrderOf(order, A)
  <2>1. \A x \in A : <<x, x>> \notin order
    BY <1>1
  <2>2. \A x, y \in A : x # y => <<x, y>> \in order \/ <<y, x>> \in order
    BY <1>1
  <2>3. \A x, y, z \in A : <<x, y>> \in order /\ <<y, z>> \in order => <<x, z>> \in order
    BY <1>1
  <2> QED BY <2>1, <2>2, <2>3 DEF OrderOf
<1>4. /\ n \in Nat /\ r \in [1 .. n -> A]
      /\ \A x \in A : Rank(A, order, x) + 1 \in 1 .. n /\ r[Rank(A, order, x) + 1] = x
      /\ \A i, j \in 1 .. n : i < j => <<r[i], r[j]>> \in order
  BY <1>3, RankedLists
<1> HIDE DEF n, r
<1>5. \A i \in A : \E k \in 1 .. n : r[k] = i
  BY <1>4
<1>6. ASSUME NEW j \in 1 .. n, NEW k \in 1 .. n, j < k
      PROVE  ds[r[j]].confidence >= ds[r[k]].confidence
  <2>1. r[j] \in A /\ r[k] \in A /\ <<r[j], r[k]>> \in order
    BY <1>4, <1>6
  <2>2. PICK a \in A, b \in A : a = r[j] /\ b = r[k] /\ <<a, b>> \in order
    BY <2>1
  <2>3. ds[a].confidence \in Int /\ ds[b].confidence \in Int
    OBVIOUS
  <2>4. ds[a].confidence > ds[b].confidence \/ ds[a].confidence = ds[b].confidence
    BY <1>1, <2>2
  <2> QED BY <2>2, <2>3, <2>4
<1> QED BY <1>2, <1>4, <1>5, <1>6

\* One step of nms, and what nms keeps after each.
Looked(kept, d) ==
  IF \E k \in DOMAIN kept : P!Overlap(kept[k].box, d.box) THEN kept ELSE Append(kept, d)

\* What is kept stays a list of detections.
LEMMA LookedType ==
  ASSUME NEW D, NEW kept \in Seq(D), NEW d \in D
  PROVE  Looked(kept, d) \in Seq(D)
BY DEF Looked

\* nms of the rows A looks at them surest first.
Keeps(kept, ds, A) ==
  LET n == P!Cardinality(A)
      r == P!ByConfidence(ds, A)
  IN  /\ DOMAIN kept = 0 .. n /\ kept[0] = <<>>
      /\ \A k \in 1 .. n : kept[k] = Looked(kept[k - 1], ds[r[k]])

\* The recursive function of nms satisfies its defining equation.
LEMMA SuppressEquation ==
  ASSUME NEW A \in SUBSET Nat, IsFiniteSet(A), NEW ds,
         \A i \in A : ds[i].confidence \in Int
  PROVE  \E kept : Keeps(kept, ds, A) /\ P!Suppress(ds, A) = kept[P!Cardinality(A)]
<1> DEFINE n == P!Cardinality(A)
           r == P!ByConfidence(ds, A)
           D == {ds[i] : i \in A}
           step == [p \in Nat \X Seq(D) |->
                      IF p[1] \in 1 .. n THEN Looked(p[2], ds[r[p[1]]]) ELSE p[2]]
<1>1. n \in Nat /\ r \in [1 .. n -> A]
  BY SurestFirst
<1>2. step \in [Nat \X Seq(D) -> Seq(D)]
  <2>1. ASSUME NEW i \in Nat, NEW kept \in Seq(D), i \in 1 .. n
        PROVE  Looked(kept, ds[r[i]]) \in Seq(D)
    <3>1. ds[r[i]] \in D
      BY <1>1, <2>1
    <3> HIDE DEF D, r, n
    <3> QED BY <3>1, LookedType
  <2> HIDE DEF D, r, n
  <2> QED BY <2>1
<1>3. PICK f : /\ f \in [0 .. n -> Seq(D)] /\ f[0] = <<>>
               /\ \A i \in 1 .. n : f[i] = step[<<i, f[i - 1]>>]
  <2>1. <<>> \in Seq(D)
    <3> HIDE DEF D
    <3> QED OBVIOUS
  <2>2. \E f : Continues(f, n, Seq(D), <<>>, step)
    <3> HIDE DEF n, step, D
    <3> QED BY <1>1, <1>2, <2>1, BoundedRecursion
  <2> QED BY <2>2 DEF Continues
<1>4. ASSUME NEW i \in 1 .. n
      PROVE  f[i] = Looked(f[i - 1], ds[r[i]])
  <2>1. i \in Nat /\ f[i - 1] \in Seq(D)
    <3> HIDE DEF D, n
    <3> QED BY <1>1, <1>3
  <2> HIDE DEF D, n, r
  <2> QED BY <1>3, <2>1
<1> DEFINE Body(g) == [i \in 0 .. n |->
             IF i = 0 THEN <<>>
             ELSE IF \E k \in DOMAIN g[i - 1] : P!Overlap(g[i - 1][k].box, ds[r[i]].box)
                  THEN g[i - 1] ELSE Append(g[i - 1], ds[r[i]])]
<1>5. f = Body(f)
  <2>1. ASSUME NEW i \in 0 .. n PROVE f[i] = Body(f)[i]
    <3>1. CASE i = 0
      BY <1>3, <3>1
    <3>2. CASE i # 0
      <4>1. i \in 1 .. n
        BY <1>1, <3>2
      <4> HIDE DEF n, r
      <4> QED BY <1>4, <3>2, <4>1 DEF Looked
    <3> QED BY <3>1, <3>2
  <2> HIDE DEF n, r, D
  <2> QED BY <1>3, <2>1
<1> DEFINE kept == CHOOSE g : g = Body(g)
<1>6. kept = Body(kept)
  <2> HIDE DEF Body
  <2> QED BY <1>5
<1>7. P!Suppress(ds, A) = kept[n]
  BY DEF P!Suppress
<1> HIDE DEF kept
<1>8. Keeps(kept, ds, A)
  <2>1. 0 \in 0 .. n
    BY <1>1
  <2>2. kept[0] = <<>> /\ DOMAIN kept = 0 .. n
    <3> HIDE DEF n, r
    <3> QED BY <1>6, <2>1
  <2>3. ASSUME NEW i \in 1 .. n
        PROVE  kept[i] = Looked(kept[i - 1], ds[r[i]])
    <3>1. i \in 0 .. n /\ i # 0
      BY <1>1
    <3>2. kept[i] = Body(kept)[i]
      <4> HIDE DEF Body
      <4> QED BY <1>6
    <3> HIDE DEF n, r
    <3> QED BY <3>1, <3>2 DEF Looked
  <2> QED BY <2>2, <2>3 DEF Keeps
<1> QED BY <1>7, <1>8

\* What is kept of the rows of A: none overlaps one kept before it, and each of
\* them is kept or overlaps a kept one that is as sure.
Covers(kept, d) ==
  \E k \in DOMAIN kept :
    kept[k] = d \/ (kept[k].confidence >= d.confidence /\ P!Overlap(kept[k].box, d.box))

Apart(kept) ==
  \A i, j \in DOMAIN kept : i < j => ~ P!Overlap(kept[i].box, kept[j].box)

\* A step keeps what is kept, and looks at one more detection, not surer than those.
LEMMA LookedKeeps ==
  ASSUME NEW D, NEW kept \in Seq(D), NEW d \in D, Apart(kept),
         \A k \in DOMAIN kept : kept[k].confidence >= d.confidence
  PROVE  /\ Apart(Looked(kept, d)) /\ Covers(Looked(kept, d), d)
         /\ \A e : Covers(kept, e) => Covers(Looked(kept, d), e)
         /\ \A i \in DOMAIN Looked(kept, d) :
              Looked(kept, d)[i] = d \/ \E j \in DOMAIN kept : Looked(kept, d)[i] = kept[j]
<1>1. CASE \E k \in DOMAIN kept : P!Overlap(kept[k].box, d.box)
  <2>1. Looked(kept, d) = kept
    BY <1>1 DEF Looked
  <2> QED BY <1>1, <2>1 DEF Covers
<1>2. CASE ~ \E k \in DOMAIN kept : P!Overlap(kept[k].box, d.box)
  <2>1. Looked(kept, d) = Append(kept, d)
    BY <1>2 DEF Looked
  <2>2. PICK more : more = Append(kept, d)
    OBVIOUS
  <2>3. PICK m \in Nat : m = Len(kept)
    OBVIOUS
  <2>4. /\ DOMAIN kept = 1 .. m /\ DOMAIN more = 1 .. m + 1
        /\ \A i \in 1 .. m : more[i] = kept[i]
        /\ more[m + 1] = d
    BY <2>2, <2>3
  <2>5. Apart(more)
    <3> SUFFICES ASSUME NEW i \in 1 .. m + 1, NEW j \in 1 .. m + 1, i < j
                 PROVE  ~ P!Overlap(more[i].box, more[j].box)
      BY <2>4 DEF Apart
    <3>1. i \in 1 .. m /\ more[i] = kept[i]
      BY <2>4
    <3>2. CASE j = m + 1
      BY <1>2, <2>4, <3>1, <3>2
    <3>3. CASE j # m + 1
      <4>1. j \in 1 .. m
        BY <3>3
      <4> QED BY <2>4, <3>1, <4>1 DEF Apart
    <3> QED BY <3>2, <3>3
  <2>6. m + 1 \in 1 .. m + 1 /\ \A i \in 1 .. m : i \in 1 .. m + 1
    OBVIOUS
  <2>7. Covers(more, d)
    BY <2>4, <2>6 DEF Covers
  <2>8. ASSUME NEW e, Covers(kept, e) PROVE Covers(more, e)
    BY <2>4, <2>6, <2>8 DEF Covers
  <2>9. ASSUME NEW i \in 1 .. m + 1
        PROVE  more[i] = d \/ \E j \in 1 .. m : more[i] = kept[j]
    <3>1. i = m + 1 \/ i \in 1 .. m
      OBVIOUS
    <3> QED BY <2>4, <3>1
  <2> QED BY <2>1, <2>2, <2>4, <2>5, <2>7, <2>8, <2>9
<1> QED BY <1>1, <1>2

\* What nms leaves of the rows of a class.
LEMMA SuppressLeaves ==
  ASSUME NEW A \in SUBSET Nat, IsFiniteSet(A), NEW ds,
         \A i \in A : ds[i].confidence \in Int
  PROVE  LET kept == P!Suppress(ds, A)
         IN  /\ kept \in Seq({ds[i] : i \in A}) /\ Apart(kept)
             /\ \A i \in A : Covers(kept, ds[i])
<1> DEFINE n == P!Cardinality(A)
           r == P!ByConfidence(ds, A)
           D == {ds[i] : i \in A}
<1>1. /\ n \in Nat /\ r \in [1 .. n -> A]
      /\ \A i \in A : \E k \in 1 .. n : r[k] = i
      /\ \A j, k \in 1 .. n :
           j < k => ds[r[j]].confidence >= ds[r[k]].confidence
  BY SurestFirst
<1>2. PICK kept : Keeps(kept, ds, A) /\ P!Suppress(ds, A) = kept[n]
  BY SuppressEquation
<1>3. /\ kept[0] = <<>>
      /\ \A k \in 1 .. n : kept[k] = Looked(kept[k - 1], ds[r[k]])
  BY <1>2 DEF Keeps
<1> DEFINE Leaves(k) ==
             /\ kept[k] \in Seq(D) /\ Apart(kept[k])
             /\ \A j \in 1 .. k : Covers(kept[k], ds[r[j]])
             /\ \A i \in DOMAIN kept[k] : \E j \in 1 .. k : kept[k][i] = ds[r[j]]
           T == {k \in 0 .. n : Leaves(k)}
<1>4. 0 \in T
  <2>1. 0 \in 0 .. n /\ kept[0] \in Seq(D) /\ DOMAIN kept[0] = {}
    <3> HIDE DEF D, n
    <3> QED BY <1>1, <1>3
  <2>2. Apart(kept[0])
    BY <2>1 DEF Apart
  <2>3. 1 .. 0 = {}
    OBVIOUS
  <2> HIDE DEF D, n, r
  <2> QED BY <2>1, <2>2, <2>3
<1>5. ASSUME NEW k \in 1 .. n, k - 1 \in T PROVE k \in T
  <2>1. Leaves(k - 1) /\ k \in 0 .. n /\ k \in Nat /\ 1 .. k - 1 \subseteq 1 .. n
    BY <1>1, <1>5
  <2>2. PICK old : old = kept[k - 1]
    OBVIOUS
  <2>3. PICK d \in D : d = ds[r[k]]
    BY <1>1
  <2>4. kept[k] = Looked(old, d)
    BY <1>3, <2>2, <2>3
  <2>5. \A i \in DOMAIN old : old[i].confidence >= d.confidence
    <3> TAKE i \in DOMAIN old
    <3>1. PICK j \in 1 .. k - 1 : old[i] = ds[r[j]]
      BY <2>1, <2>2
    <3>2. j \in 1 .. n /\ j < k
      BY <2>1
    <3> HIDE DEF n, r, D
    <3> QED BY <1>1, <2>3, <3>1, <3>2
  <2>6. old \in Seq(D) /\ Apart(old)
    BY <2>1, <2>2
  <2> HIDE DEF D, n, r
  <2>7. /\ Apart(Looked(old, d)) /\ Covers(Looked(old, d), d)
        /\ \A e : Covers(old, e) => Covers(Looked(old, d), e)
        /\ \A i \in DOMAIN Looked(old, d) :
             Looked(old, d)[i] = d \/ \E j \in DOMAIN old : Looked(old, d)[i] = old[j]
    BY <2>5, <2>6, LookedKeeps
  <2>8. kept[k] \in Seq(D)
    BY <2>4, <2>6, LookedType
  <2>9. ASSUME NEW j \in 1 .. k PROVE Covers(kept[k], ds[r[j]])
    <3>1. CASE j = k
      BY <2>3, <2>4, <2>7, <3>1
    <3>2. CASE j # k
      <4>1. j \in 1 .. k - 1
        BY <2>1, <3>2
      <4>2. Covers(old, ds[r[j]])
        BY <2>1, <2>2, <4>1
      <4> QED BY <2>4, <2>7, <4>2
    <3> QED BY <3>1, <3>2
  <2>10. ASSUME NEW i \in DOMAIN kept[k] PROVE \E j \in 1 .. k : kept[k][i] = ds[r[j]]
    <3>1. CASE kept[k][i] = d
      <4>1. k \in 1 .. k
        BY <2>1
      <4> QED BY <2>3, <3>1, <4>1
    <3>2. CASE \E j \in DOMAIN old : kept[k][i] = old[j]
      <4>1. PICK j \in DOMAIN old : kept[k][i] = old[j]
        BY <3>2
      <4>2. PICK m \in 1 .. k - 1 : old[j] = ds[r[m]]
        BY <2>1, <2>2
      <4>3. m \in 1 .. k
        BY <2>1
      <4> QED BY <4>1, <4>2, <4>3
    <3> QED BY <2>4, <2>7, <3>1, <3>2
  <2>11. Apart(kept[k])
    BY <2>4, <2>7
  <2> QED BY <2>1, <2>8, <2>9, <2>10, <2>11
<1>6. \A k \in 0 .. n : k \in T
  <2> HIDE DEF T, n
  <2> QED BY <1>1, <1>4, <1>5, BoundedInduction
<1>7. Leaves(n)
  <2>1. n \in 0 .. n
    BY <1>1
  <2> HIDE DEF Leaves
  <2> QED BY <1>6, <2>1
<1>8. \A i \in A : Covers(kept[n], ds[i])
  <2> TAKE i \in A
  <2>1. PICK k \in 1 .. n : r[k] = i
    BY <1>1
  <2> QED BY <1>7, <2>1
<1> QED BY <1>2, <1>7, <1>8

\* A list after another.
LEMMA TwoParts ==
  ASSUME NEW D, NEW a \in Seq(D), NEW b \in Seq(D)
  PROVE  /\ a \o b \in Seq(D) /\ Len(a \o b) = Len(a) + Len(b)
         /\ \A p \in 1 .. Len(a) : (a \o b)[p] = a[p]
         /\ \A p \in 1 .. Len(b) : (a \o b)[Len(a) + p] = b[p]
OBVIOUS

\* Three lists one after the other.
LEMMA ThreeParts ==
  ASSUME NEW D, NEW a \in Seq(D), NEW b \in Seq(D), NEW c \in Seq(D),
         NEW f, f = a \o b \o c
  PROVE  /\ f \in Seq(D)
         /\ \A p \in DOMAIN a : p \in DOMAIN f /\ f[p] = a[p]
         /\ \A p \in DOMAIN b : Len(a) + p \in DOMAIN f /\ f[Len(a) + p] = b[p]
         /\ \A p \in DOMAIN c :
              Len(a) + Len(b) + p \in DOMAIN f /\ f[Len(a) + Len(b) + p] = c[p]
         /\ \A i \in DOMAIN f : \/ i \in DOMAIN a
                                \/ i - Len(a) \in DOMAIN b
                                \/ i - Len(a) - Len(b) \in DOMAIN c
<1>1. PICK l \in Nat, m \in Nat, n \in Nat : l = Len(a) /\ m = Len(b) /\ n = Len(c)
  OBVIOUS
<1>2. /\ f \in Seq(D) /\ DOMAIN f = 1 .. l + m + n
      /\ DOMAIN a = 1 .. l /\ DOMAIN b = 1 .. m /\ DOMAIN c = 1 .. n
  BY <1>1
<1>3. PICK g : g = a \o b
  OBVIOUS
<1>4. /\ g \in Seq(D) /\ Len(g) = l + m
      /\ \A p \in 1 .. l : g[p] = a[p]
      /\ \A p \in 1 .. m : g[l + p] = b[p]
  <2>1. /\ a \o b \in Seq(D) /\ Len(a \o b) = Len(a) + Len(b)
        /\ \A p \in 1 .. Len(a) : (a \o b)[p] = a[p]
        /\ \A p \in 1 .. Len(b) : (a \o b)[Len(a) + p] = b[p]
    BY TwoParts
  <2> QED BY <1>1, <1>3, <2>1
<1>5. PICK k \in Nat : k = l + m
  OBVIOUS
<1>6. f = g \o c /\ k = Len(g)
  BY <1>3, <1>4, <1>5
<1>7. /\ \A p \in 1 .. k : f[p] = g[p]
      /\ \A p \in 1 .. n : f[k + p] = c[p]
  <2>1. /\ \A p \in 1 .. Len(g) : (g \o c)[p] = g[p]
        /\ \A p \in 1 .. Len(c) : (g \o c)[Len(g) + p] = c[p]
    <3>1. g \in Seq(D)
      BY <1>4
    <3> QED BY <3>1, TwoParts
  <2> QED BY <1>1, <1>6, <2>1
<1>8. /\ \A p \in 1 .. l : p \in 1 .. k /\ p \in 1 .. l + m + n
      /\ \A p \in 1 .. m : l + p \in 1 .. k /\ l + p \in 1 .. l + m + n
  BY <1>5
<1>9. \A p \in 1 .. n : l + m + p \in 1 .. l + m + n
  OBVIOUS
<1>10. \A i \in 1 .. l + m + n : i \in 1 .. l \/ i - l \in 1 .. m \/ i - l - m \in 1 .. n
  OBVIOUS
<1>11. \A p \in 1 .. l : f[p] = a[p]
  BY <1>4, <1>7, <1>8
<1>12. \A p \in 1 .. m : f[l + p] = b[p]
  BY <1>4, <1>7, <1>8
<1>13. \A p \in 1 .. n : f[l + m + p] = c[p]
  BY <1>5, <1>7
<1> QED BY <1>1, <1>2, <1>8, <1>9, <1>10, <1>11, <1>12, <1>13

\* Lists of different classes: what does not overlap in any of them does not in all.
LEMMA PartsApart ==
  ASSUME NEW D, NEW a \in Seq(D), NEW b \in Seq(D), NEW c \in Seq(D),
         NEW f, f = a \o b \o c, Apart(a), Apart(b), Apart(c),
         \A p \in DOMAIN a : a[p].class = "fire",
         \A p \in DOMAIN b : b[p].class = "smoke",
         \A p \in DOMAIN c : c[p].class = "other"
  PROVE  \A i, j \in DOMAIN f :
           i < j /\ f[i].class = f[j].class => ~ P!Overlap(f[i].box, f[j].box)
<1>1. PICK l \in Nat, m \in Nat : l = Len(a) /\ m = Len(b)
  OBVIOUS
<1>2. /\ f \in Seq(D) /\ DOMAIN f \subseteq Nat
      /\ \A p \in DOMAIN a : f[p] = a[p]
      /\ \A p \in DOMAIN b : f[l + p] = b[p]
      /\ \A p \in DOMAIN c : f[l + m + p] = c[p]
      /\ \A i \in DOMAIN f : \/ i \in DOMAIN a \/ i - l \in DOMAIN b
                             \/ i - l - m \in DOMAIN c
  <2>1. f \in Seq(D) => DOMAIN f \subseteq Nat
    OBVIOUS
  <2> QED BY <1>1, <2>1, ThreeParts
<1>3. ASSUME NEW i \in DOMAIN f
      PROVE  /\ f[i].class = "fire" => i \in DOMAIN a /\ f[i] = a[i]
             /\ f[i].class = "smoke" => i - l \in DOMAIN b /\ f[i] = b[i - l]
             /\ f[i].class = "other" => i - l - m \in DOMAIN c /\ f[i] = c[i - l - m]
             /\ f[i].class \in {"fire", "smoke", "other"}
  <2>1. i \in Nat
    BY <1>2
  <2>2. CASE i \in DOMAIN a
    <3>1. f[i] = a[i] /\ f[i].class = "fire"
      BY <1>2, <2>2
    <3> QED BY <2>2, <3>1
  <2>3. CASE i - l \in DOMAIN b
    <3>1. PICK p \in DOMAIN b : p = i - l
      BY <2>3
    <3>2. l + p = i
      BY <2>1, <3>1
    <3>3. f[l + p] = b[p] /\ b[p].class = "smoke"
      BY <1>2
    <3>4. f[i] = b[i - l] /\ f[i].class = "smoke"
      BY <3>1, <3>2, <3>3
    <3> QED BY <2>3, <3>4
  <2>4. CASE i - l - m \in DOMAIN c
    <3>1. PICK p \in DOMAIN c : p = i - l - m
      BY <2>4
    <3>2. l + m + p = i
      BY <2>1, <3>1
    <3>3. f[l + m + p] = c[p] /\ c[p].class = "other"
      BY <1>2
    <3>4. f[i] = c[i - l - m] /\ f[i].class = "other"
      BY <3>1, <3>2, <3>3
    <3> QED BY <2>4, <3>4
  <2>5. i \in DOMAIN a \/ i - l \in DOMAIN b \/ i - l - m \in DOMAIN c
    BY <1>2
  <2> QED BY <2>2, <2>3, <2>4, <2>5
<1> SUFFICES ASSUME NEW i \in DOMAIN f, NEW j \in DOMAIN f, i < j,
                    f[i].class = f[j].class
             PROVE  ~ P!Overlap(f[i].box, f[j].box)
  OBVIOUS
<1>4. i \in Nat /\ j \in Nat
  BY <1>2
<1>5. CASE f[i].class = "fire"
  <2>1. i \in DOMAIN a /\ f[i] = a[i] /\ j \in DOMAIN a /\ f[j] = a[j]
    BY <1>3, <1>5
  <2> QED BY <2>1 DEF Apart
<1>6. CASE f[i].class = "smoke"
  <2>1. /\ i - l \in DOMAIN b /\ f[i] = b[i - l]
        /\ j - l \in DOMAIN b /\ f[j] = b[j - l]
    BY <1>3, <1>6
  <2>2. i - l < j - l
    BY <1>4
  <2> QED BY <2>1, <2>2 DEF Apart
<1>7. CASE f[i].class = "other"
  <2>1. /\ i - l - m \in DOMAIN c /\ f[i] = c[i - l - m]
        /\ j - l - m \in DOMAIN c /\ f[j] = c[j - l - m]
    BY <1>3, <1>7
  <2>2. i - l - m < j - l - m
    BY <1>4
  <2> QED BY <2>1, <2>2 DEF Apart
<1> QED BY <1>3, <1>5, <1>6, <1>7

\* Detections of a frame as the code makes them: of a known class, whole.
Detected(ds) ==
  /\ DOMAIN ds \in SUBSET Nat /\ IsFiniteSet(DOMAIN ds)
  /\ \A i \in DOMAIN ds : /\ ds[i].class \in {"fire", "smoke", "other"}
                          /\ ds[i].confidence \in Int /\ ds[i].box \in Boxes

\* What is reported of the detections of a frame.
LEMMA FinalSound ==
  ASSUME NEW ds, Detected(ds), NEW found, found = P!Final(ds)
  PROVE  /\ found \in Seq({ds[i] : i \in DOMAIN ds})
         /\ \A i, j \in DOMAIN found :
              i # j /\ found[i].class = found[j].class => ~ Same(found[i], found[j])
         /\ \A i \in DOMAIN ds :
              \E k \in DOMAIN found :
                \/ found[k] = ds[i]
                \/ /\ found[k].class = ds[i].class
                   /\ found[k].confidence >= ds[i].confidence
                   /\ Same(found[k], ds[i])
<1> DEFINE D == {ds[i] : i \in DOMAIN ds}
           Of(class) == {i \in DOMAIN ds : ds[i].class = class}
           a == P!Suppress(ds, Of("fire"))
           b == P!Suppress(ds, Of("smoke"))
           c == P!Suppress(ds, Of("other"))
<1>1. found = a \o b \o c
  BY DEF P!Final
<1>2. ASSUME NEW class
      PROVE  LET kept == P!Suppress(ds, Of(class))
             IN  /\ kept \in Seq(D) /\ Apart(kept)
                 /\ \A p \in DOMAIN kept : kept[p].class = class
                 /\ \A i \in Of(class) : Covers(kept, ds[i])
  <2> DEFINE A == Of(class)
             kept == P!Suppress(ds, A)
             E == {ds[i] : i \in A}
  <2>1. A \in SUBSET Nat /\ IsFiniteSet(A)
    <3>1. A \in SUBSET (DOMAIN ds)
      OBVIOUS
    <3> HIDE DEF A
    <3> QED BY <3>1, FS_Subset DEF Detected
  <2>2. \A i \in A : ds[i].confidence \in Int
    BY DEF Detected
  <2>3. \A i \in A : ds[i] \in D /\ ds[i].class = class
    OBVIOUS
  <2> HIDE DEF A
  <2>4. kept \in Seq(E) /\ Apart(kept) /\ \A i \in A : Covers(kept, ds[i])
    BY <2>1, <2>2, SuppressLeaves
  <2> HIDE DEF kept
  <2>5. E \subseteq D /\ \A e \in E : e.class = class
    BY <2>3
  <2> HIDE DEF E, D
  <2>6. kept \in Seq(D) /\ \A p \in DOMAIN kept : kept[p] \in E
    BY <2>4, <2>5
  <2> QED BY <2>4, <2>5, <2>6 DEF kept, A
<1>3. /\ a \in Seq(D) /\ b \in Seq(D) /\ c \in Seq(D)
      /\ Apart(a) /\ Apart(b) /\ Apart(c)
      /\ \A p \in DOMAIN a : a[p].class = "fire"
      /\ \A p \in DOMAIN b : b[p].class = "smoke"
      /\ \A p \in DOMAIN c : c[p].class = "other"
  BY <1>2
<1>4. /\ \A i \in Of("fire") : Covers(a, ds[i])
      /\ \A i \in Of("smoke") : Covers(b, ds[i])
      /\ \A i \in Of("other") : Covers(c, ds[i])
  BY <1>2
<1>5. \A i \in DOMAIN ds : i \in Of("fire") \/ i \in Of("smoke") \/ i \in Of("other")
  BY DEF Detected
<1>6. \A d \in D : d.box \in Boxes
  BY DEF Detected
<1>7. \A i \in DOMAIN ds : ds[i] \in D
  OBVIOUS
<1>8. \A class : \A i \in Of(class) : ds[i].class = class
  OBVIOUS
<1> HIDE DEF D, Of, a, b, c
<1>9. /\ found \in Seq(D)
      /\ \A p \in DOMAIN a : p \in DOMAIN found /\ found[p] = a[p]
      /\ \A p \in DOMAIN b : Len(a) + p \in DOMAIN found /\ found[Len(a) + p] = b[p]
      /\ \A p \in DOMAIN c :
           Len(a) + Len(b) + p \in DOMAIN found /\ found[Len(a) + Len(b) + p] = c[p]
  BY <1>1, <1>3, ThreeParts
<1>10. /\ \A i \in DOMAIN found : found[i] \in D /\ found[i].box \in Boxes
       /\ DOMAIN found \subseteq Nat
  BY <1>6, <1>9
<1>11. \A i, j \in DOMAIN found :
         i < j /\ found[i].class = found[j].class => ~ P!Overlap(found[i].box, found[j].box)
  BY <1>1, <1>3, PartsApart
<1>12. ASSUME NEW i \in DOMAIN found, NEW j \in DOMAIN found, i # j,
              found[i].class = found[j].class
       PROVE  ~ Same(found[i], found[j])
  <2>1. i < j \/ j < i
    BY <1>10, <1>12
  <2>2. ~ P!Overlap(found[i].box, found[j].box) \/ ~ P!Overlap(found[j].box, found[i].box)
    BY <1>11, <1>12, <2>1
  <2>3. ~ Same(found[i], found[j]) \/ ~ Same(found[j], found[i])
    BY <1>10, <2>2, OverlapCountsCells
  <2> QED BY <2>3, SameBothWays
<1>13. ASSUME NEW kept, NEW class, NEW i \in Of(class), i \in DOMAIN ds,
              Covers(kept, ds[i]), \A p \in DOMAIN kept : kept[p].class = class,
              \A p \in DOMAIN kept : \E k \in DOMAIN found : found[k] = kept[p]
       PROVE  \E k \in DOMAIN found :
                \/ found[k] = ds[i]
                \/ /\ found[k].class = ds[i].class
                   /\ found[k].confidence >= ds[i].confidence
                   /\ Same(found[k], ds[i])
  <2>1. PICK p \in DOMAIN kept :
          kept[p] = ds[i] \/ (kept[p].confidence >= ds[i].confidence
                                /\ P!Overlap(kept[p].box, ds[i].box))
    BY <1>13 DEF Covers
  <2>2. PICK k \in DOMAIN found : found[k] = kept[p]
    BY <1>13
  <2>3. found[k].box \in Boxes /\ ds[i].box \in Boxes
    BY <1>6, <1>7, <1>10, <1>13
  <2>4. found[k].class = class /\ ds[i].class = class
    BY <1>8, <1>13, <2>2
  <2>5. P!Overlap(kept[p].box, ds[i].box) => Same(found[k], ds[i])
    BY <2>2, <2>3, OverlapCountsCells
  <2> QED BY <2>1, <2>2, <2>4, <2>5
<1>14. ASSUME NEW i \in DOMAIN ds
       PROVE  \E k \in DOMAIN found :
                \/ found[k] = ds[i]
                \/ /\ found[k].class = ds[i].class
                   /\ found[k].confidence >= ds[i].confidence
                   /\ Same(found[k], ds[i])
  <2>1. CASE i \in Of("fire")
    <3>1. \A p \in DOMAIN a : \E k \in DOMAIN found : found[k] = a[p]
      BY <1>9
    <3> QED BY <1>3, <1>4, <1>13, <2>1, <3>1
  <2>2. CASE i \in Of("smoke")
    <3>1. \A p \in DOMAIN b : \E k \in DOMAIN found : found[k] = b[p]
      BY <1>9
    <3> QED BY <1>3, <1>4, <1>13, <2>2, <3>1
  <2>3. CASE i \in Of("other")
    <3>1. \A p \in DOMAIN c : \E k \in DOMAIN found : found[k] = c[p]
      BY <1>9
    <3> QED BY <1>3, <1>4, <1>13, <2>3, <3>1
  <2> QED BY <1>5, <2>1, <2>2, <2>3
<1> QED BY <1>9, <1>12, <1>14 DEF D

-----------------------------------------------------------------------------
(* Detections. *)

\* A row of the output, in whole numbers.
OutputRow == [x1 : Int, y1 : Int, x2 : Int, y2 : Int, confidence : Int, class : Int]

\* The detections made of the rows are whole, and their cells are in the image.
LEMMA AcceptedRows ==
  ASSUME NEW rows \in Seq(OutputRow), NEW ds, ds = P!Accepted(rows)
  PROVE  /\ Detected(ds)
         /\ \A i \in DOMAIN ds :
              Cells(ds[i].box) \subseteq (0 .. Size - 1) \X (0 .. Size - 1)
<1>1. /\ DOMAIN ds \in SUBSET (DOMAIN rows)
      /\ \A i \in DOMAIN ds : P!Named(rows[i].class) /\ ds[i] = P!Parsed(rows[i])
  BY DEF P!Accepted
<1>2. DOMAIN ds \in SUBSET Nat /\ IsFiniteSet(DOMAIN ds)
  <2>1. PICK n \in Nat : DOMAIN rows = 1 .. n
    OBVIOUS
  <2>2. IsFiniteSet(1 .. n)
    BY FS_Interval
  <2>3. DOMAIN ds \in SUBSET (1 .. n)
    BY <1>1, <2>1
  <2> QED BY <2>2, <2>3, FS_Subset
<1>3. \A v \in Int : P!Clamp(v) \in 0 .. Size
  BY AlgorithmsAssumption DEF P!Clamp, P!Larger, P!Smaller
<1>4. ASSUME NEW i \in DOMAIN ds
      PROVE  /\ ds[i].class \in {"fire", "smoke", "other"}
             /\ ds[i].confidence \in Int /\ ds[i].box \in Boxes
             /\ Cells(ds[i].box) \subseteq (0 .. Size - 1) \X (0 .. Size - 1)
  <2>1. PICK row \in OutputRow : row = rows[i] /\ P!Named(row.class) /\ ds[i] = P!Parsed(row)
    BY <1>1
  <2>2. PICK x1 \in 0 .. Size, y1 \in 0 .. Size, x2 \in 0 .. Size, y2 \in 0 .. Size :
          x1 = P!Clamp(row.x1) /\ y1 = P!Clamp(row.y1)
            /\ x2 = P!Clamp(row.x2) /\ y2 = P!Clamp(row.y2)
    BY <1>3 DEF OutputRow
  <2>3. /\ ds[i].class = P!Indexed[P!ClassAt(row.class) + 1]
        /\ ds[i].confidence = row.confidence
        /\ ds[i].box = [x |-> x1, y |-> y1, width |-> x2 - x1, height |-> y2 - y1]
    BY <2>1, <2>2 DEF P!Parsed, P!Box
  <2>4. P!ClassAt(row.class) + 1 \in 1 .. 3
    BY <2>1 DEF P!Named, P!Indexed
  <2>5. ds[i].class \in {"fire", "smoke", "other"}
    BY <2>3, <2>4 DEF P!Indexed
  <2>6. ds[i].confidence \in Int
    BY <2>3 DEF OutputRow
  <2>7. Size \in Nat
    BY AlgorithmsAssumption
  <2>8. ds[i].box \in Boxes
    BY <2>3, <2>7 DEF Boxes
  <2>9. Cells(ds[i].box) = (x1 .. x1 + (x2 - x1) - 1) \X (y1 .. y1 + (y2 - y1) - 1)
    BY <2>3 DEF Cells
  <2>10. /\ x1 .. x1 + (x2 - x1) - 1 \subseteq 0 .. Size - 1
         /\ y1 .. y1 + (y2 - y1) - 1 \subseteq 0 .. Size - 1
    BY <2>7
  <2>11. Cells(ds[i].box) \subseteq (0 .. Size - 1) \X (0 .. Size - 1)
    BY <2>9, <2>10
  <2> QED BY <2>5, <2>6, <2>8, <2>11
<1> QED BY <1>2, <1>4 DEF Detected

\* The rows of a frame stay as they were set, and the answer is the one the code
\* computes for them.
DetectionsInv ==
  task.kind = "detections" =>
    task.rows \in RowSets /\ answer \in {<<>>, <<P!EndToEnd(task.rows)>>}

\* No step gives a frame another answer.
LEMMA DetectionsKept == Spec => []DetectionsInv
<1>1. Init => DetectionsInv
  BY DEF Init, DetectionsInv
<1>2. DetectionsInv /\ [Next]_vars => DetectionsInv'
  <2> SUFFICES ASSUME DetectionsInv, [Next]_vars, task'.kind = "detections"
               PROVE  DetectionsInv'
    BY DEF DetectionsInv
  <2>1. task' = task
    BY DEF Next, vars, DetectObjects, PlaceFrame, RecogniseLayout, WatchCamera,
           ReadEvents, SynchroniseSettings, Answer
  <2>2. CASE DetectObjects
    BY <2>1, <2>2 DEF DetectionsInv, DetectObjects, Answer
  <2>3. CASE UNCHANGED vars
    BY <2>3 DEF DetectionsInv, vars
  <2>4. CASE \/ PlaceFrame \/ RecogniseLayout \/ WatchCamera
             \/ ReadEvents \/ SynchroniseSettings
    BY <2>1, <2>4 DEF PlaceFrame, RecogniseLayout, WatchCamera, ReadEvents,
                      SynchroniseSettings, Answer
  <2> QED BY <2>2, <2>3, <2>4 DEF Next
<1> QED BY <1>1, <1>2, PTL DEF Spec

\* Whatever rows the model puts out, nms reports no object of a class twice,
\* loses none that is not as well reported, invents none and leaves the image with
\* no box; the overlap it computes is that of the cells of the boxes.
THEOREM SuppressionIsSound == Spec => []SuppressionSound
<1>1. DetectionsInv => SuppressionSound
  <2> SUFFICES ASSUME DetectionsInv, Answered("detections") PROVE SuppressionSound
    BY DEF SuppressionSound
  <2>1. task.rows \in Seq(OutputRow) /\ The = P!EndToEnd(task.rows)
    BY AlgorithmsAssumption DEF DetectionsInv, Answered, The, OutputRow
  <2>2. PICK ds : ds = P!Accepted(task.rows)
    OBVIOUS
  <2>3. PICK found : found = The
    OBVIOUS
  <2>4. found = P!Final(ds)
    BY <2>1, <2>2, <2>3 DEF P!EndToEnd
  <2> DEFINE D == {ds[i] : i \in DOMAIN ds}
  <2>5. /\ Detected(ds)
        /\ \A i \in DOMAIN ds :
             Cells(ds[i].box) \subseteq (0 .. Size - 1) \X (0 .. Size - 1)
    BY <2>1, <2>2, AcceptedRows
  <2>6. /\ found \in Seq(D)
        /\ \A i, j \in DOMAIN found :
             i # j /\ found[i].class = found[j].class => ~ Same(found[i], found[j])
        /\ \A i \in DOMAIN ds :
             \E k \in DOMAIN found :
               \/ found[k] = ds[i]
               \/ /\ found[k].class = ds[i].class
                  /\ found[k].confidence >= ds[i].confidence
                  /\ Same(found[k], ds[i])
    <3>1. Detected(ds)
      BY <2>5
    <3> QED BY <2>4, <3>1, FinalSound
  <2>7. \A i \in DOMAIN found : found[i] \in D
    <3> HIDE DEF D
    <3> QED BY <2>6
  <2>8. ToSet(found) \subseteq D
    BY <2>7 DEF ToSet
  <2>9. ASSUME NEW i \in DOMAIN found
        PROVE  Cells(found[i].box) \subseteq (0 .. Size - 1) \X (0 .. Size - 1)
    BY <2>5, <2>7
  <2>10. ASSUME NEW i \in DOMAIN ds
         PROVE  \/ ds[i] \in ToSet(found)
                \/ \E k \in DOMAIN found :
                     /\ found[k].class = ds[i].class
                     /\ found[k].confidence >= ds[i].confidence
                     /\ Same(found[k], ds[i])
    BY <2>6 DEF ToSet
  <2> QED BY <2>2, <2>3, <2>6, <2>8, <2>9, <2>10 DEF SuppressionSound
<1> QED BY <1>1, DetectionsKept, PTL

-----------------------------------------------------------------------------
(* The two layouts of the output. *)

\* An image the API admits has enough cells for its output to be told by its length.
LEMMA LengthsTellLayouts ==
  ASSUME NEW imgsz \in Nat, imgsz >= 320
  PROVE  /\ P!TakenAsStandard(P!StandardLength(imgsz))
         /\ ~ P!TakenAsStandard(P!EndToEndLength(300))
<1>1. \A d \in {8, 16, 32} : P!Squared(imgsz \div d) \in Nat
  <2> TAKE d \in {8, 16, 32}
  <2>1. PICK q \in Nat : q = imgsz \div d
    BY DivMod
  <2> QED BY <2>1 DEF P!Squared
<1>2. P!Squared(imgsz \div 8) >= 1600
  <2>1. PICK q \in Nat : q = imgsz \div 8
    BY DivMod
  <2>2. PICK r \in 0 .. 7 : imgsz = q * 8 + r
    BY <2>1, DivMod
  <2>3. q >= 40
    BY <2>2
  <2>4. q * q >= 40 * q
    BY <2>3
  <2> QED BY <2>1, <2>3, <2>4 DEF P!Squared
<1>3. PICK a \in Nat, b \in Nat, c \in Nat :
        a = P!Squared(imgsz \div 8) /\ b = P!Squared(imgsz \div 16)
          /\ c = P!Squared(imgsz \div 32)
  BY <1>1
<1>4. P!StandardLength(imgsz) = 7 * (a + b + c)
  <2>1. 4 + Len(P!Indexed) = 7
    BY DEF P!Indexed
  <2>2. P!Columns(imgsz) = a + b + c
    BY <1>3 DEF P!Columns
  <2> QED BY <2>1, <2>2 DEF P!StandardLength
<1>5. a >= 1600
  BY <1>2, <1>3
<1> QED BY <1>4, <1>5 DEF P!TakenAsStandard, P!EndToEndLength

\* The first class of the highest probability is the only one that has any.
LEMMA BestOfOne ==
  ASSUME NEW c \in 1 .. 3, NEW p \in Nat, p > 0,
         NEW probs, probs = [d \in 1 .. 3 |-> IF d = c THEN p ELSE 0]
  PROVE  P!Best(probs) = c /\ probs[P!Best(probs)] = p
<1> DEFINE Is(d) == /\ \A e \in DOMAIN probs : probs[e] <= probs[d]
                    /\ \A e \in DOMAIN probs : e < d => probs[e] < probs[d]
<1>1. DOMAIN probs = 1 .. 3 /\ probs[c] = p /\ \A d \in 1 .. 3 : d # c => probs[d] = 0
  OBVIOUS
<1>2. Is(c)
  BY <1>1
<1>3. ASSUME NEW d \in DOMAIN probs, Is(d) PROVE d = c
  <2> SUFFICES ASSUME d # c PROVE FALSE
    OBVIOUS
  <2>1. probs[d] = 0 /\ probs[c] <= probs[d]
    BY <1>1, <1>3
  <2> QED BY <1>1, <2>1
<1>4. P!Best(probs) = CHOOSE d \in DOMAIN probs : Is(d)
  BY DEF P!Best
<1> HIDE DEF Is
<1>5. P!Best(probs) = c
  BY <1>1, <1>2, <1>3, <1>4
<1> QED BY <1>1, <1>5

\* A row that lies in the image is the same detection in both layouts.
LEMMA RowAsColumn ==
  ASSUME NEW row \in OutputRow, AsColumn(row)
  PROVE  P!Named(row.class) /\ P!Decoded(Column(row)) = P!Parsed(row)
<1>1. PICK x1 \in Int, y1 \in Int, x2 \in Int, y2 \in Int, p \in Nat, class \in 0 .. 2 :
        /\ row.x1 = x1 /\ row.y1 = y1 /\ row.x2 = x2 /\ row.y2 = y2
        /\ row.confidence = p /\ p > 0 /\ row.class = class
        /\ {x1, y1, x2, y2} \subseteq 0 .. Size
  BY DEF OutputRow, AsColumn
<1>2. P!ClassAt(row.class) = class /\ P!Named(row.class)
  BY <1>1 DEF P!ClassAt, P!Named, P!Indexed
<1>3. \A v \in 0 .. Size : P!Clamp(v) = v
  BY AlgorithmsAssumption DEF P!Clamp, P!Larger, P!Smaller
<1>4. P!Parsed(row) = [class |-> P!Indexed[class + 1], confidence |-> p,
                       box |-> P!Box(x1, y1, x2 - x1, y2 - y1)]
  <2>1. /\ P!Clamp(row.x1) = x1 /\ P!Clamp(row.y1) = y1
        /\ P!Clamp(row.x2) = x2 /\ P!Clamp(row.y2) = y2
    BY <1>1, <1>3
  <2> QED BY <1>1, <1>2, <2>1 DEF P!Parsed
<1>5. PICK probs : /\ probs = Column(row).probs
                   /\ probs = [d \in 1 .. 3 |-> IF d = class + 1 THEN p ELSE 0]
  BY <1>1 DEF Column
<1>6. P!Best(probs) = class + 1 /\ probs[P!Best(probs)] = p
  <2>1. PICK c \in 1 .. 3 : c = class + 1
    OBVIOUS
  <2> QED BY <1>1, <1>5, <2>1, BestOfOne
<1>7. /\ Column(row).cx = x1 + x2 /\ Column(row).cy = y1 + y2
      /\ Column(row).w = x2 - x1 /\ Column(row).h = y2 - y1
  BY <1>1 DEF Column
<1>8. P!FromCenter(x1 + x2, y1 + y2, x2 - x1, y2 - y1) = P!Box(x1, y1, x2 - x1, y2 - y1)
  <2>1. (x1 + x2 - (x2 - x1)) \div 2 = x1 /\ (y1 + y2 - (y2 - y1)) \div 2 = y1
    OBVIOUS
  <2> QED BY <2>1 DEF P!FromCenter
<1> QED BY <1>2, <1>4, <1>5, <1>6, <1>7, <1>8 DEF P!Decoded

\* The image size stays as it was set, and the answer is that of the code.
LayoutInv ==
  task.kind = "layout" =>
    /\ task.imgsz \in ImageSizes
    /\ answer \in {<<>>, <<[standard |-> P!TakenAsStandard(P!StandardLength(task.imgsz)),
                            endToEnd |-> P!TakenAsStandard(P!EndToEndLength(300))]>>}

\* No step gives an image size another answer.
LEMMA LayoutKept == Spec => []LayoutInv
<1>1. Init => LayoutInv
  BY DEF Init, LayoutInv
<1>2. LayoutInv /\ [Next]_vars => LayoutInv'
  <2> SUFFICES ASSUME LayoutInv, [Next]_vars, task'.kind = "layout"
               PROVE  LayoutInv'
    BY DEF LayoutInv
  <2>1. task' = task
    BY DEF Next, vars, DetectObjects, PlaceFrame, RecogniseLayout, WatchCamera,
           ReadEvents, SynchroniseSettings, Answer
  <2>2. CASE RecogniseLayout
    BY <2>1, <2>2 DEF LayoutInv, RecogniseLayout, Answer
  <2>3. CASE UNCHANGED vars
    BY <2>3 DEF LayoutInv, vars
  <2>4. CASE \/ DetectObjects \/ PlaceFrame \/ WatchCamera
             \/ ReadEvents \/ SynchroniseSettings
    BY <2>1, <2>4 DEF DetectObjects, PlaceFrame, WatchCamera, ReadEvents,
                      SynchroniseSettings, Answer
  <2> QED BY <2>2, <2>3, <2>4 DEF Next
<1> QED BY <1>1, <1>2, PTL DEF Spec

\* For every image size that the API admits the length of the output tells its
\* layout, and the same objects in the image are reported the same from either,
\* in the same order.
THEOREM LayoutsTold == Spec => []LayoutsAgree
<1>1. DetectionsInv /\ LayoutInv => LayoutsAgree
  <2> SUFFICES ASSUME DetectionsInv, LayoutInv PROVE LayoutsAgree
    OBVIOUS
  <2>1. ASSUME Answered("layout") PROVE The.standard /\ ~ The.endToEnd
    <3>1. task.imgsz \in Nat /\ task.imgsz >= 320
      BY <2>1, AlgorithmsAssumption DEF LayoutInv, Answered
    <3>2. The = [standard |-> P!TakenAsStandard(P!StandardLength(task.imgsz)),
                 endToEnd |-> P!TakenAsStandard(P!EndToEndLength(300))]
      BY <2>1 DEF LayoutInv, Answered, The
    <3>3. /\ P!TakenAsStandard(P!StandardLength(task.imgsz))
          /\ ~ P!TakenAsStandard(P!EndToEndLength(300))
      BY <3>1, LengthsTellLayouts
    <3> QED BY <3>2, <3>3
  <2>2. ASSUME Answered("detections"), \A i \in DOMAIN task.rows : AsColumn(task.rows[i])
        PROVE  The = P!Standard([i \in DOMAIN task.rows |-> Column(task.rows[i])])
    <3>1. task.rows \in Seq(OutputRow) /\ The = P!EndToEnd(task.rows)
      BY <2>2, AlgorithmsAssumption DEF DetectionsInv, Answered, The, OutputRow
    <3>2. PICK rows \in Seq(OutputRow) : rows = task.rows
      BY <3>1
    <3>3. PICK columns : columns = [i \in DOMAIN rows |-> Column(rows[i])]
      OBVIOUS
    <3>4. ASSUME NEW i \in DOMAIN rows
          PROVE  P!Named(rows[i].class) /\ P!Decoded(columns[i]) = P!Parsed(rows[i])
      <4>1. rows[i] \in OutputRow /\ AsColumn(rows[i]) /\ columns[i] = Column(rows[i])
        BY <2>2, <3>2, <3>3
      <4> QED BY <4>1, RowAsColumn
    <3> DEFINE above == {i \in DOMAIN columns :
                  P!Decoded(columns[i]).confidence >= Threshold[P!Decoded(columns[i]).class]}
    <3>5. P!Standard(columns) = P!Final([i \in above |-> P!Decoded(columns[i])])
      BY DEF P!Standard
    <3>6. P!Accepted(rows) = [i \in above |-> P!Decoded(columns[i])]
      <4>1. DOMAIN columns = DOMAIN rows
        BY <3>3
      <4>2. above = {i \in DOMAIN rows :
                       /\ P!Named(rows[i].class)
                       /\ rows[i].confidence >= Threshold[P!Parsed(rows[i]).class]}
        <5>1. \A i \in DOMAIN rows : P!Parsed(rows[i]).confidence = rows[i].confidence
          BY DEF P!Parsed
        <5> QED BY <3>4, <4>1, <5>1
      <4>3. P!Accepted(rows) = [i \in above |-> P!Parsed(rows[i])]
        BY <4>2 DEF P!Accepted
      <4>4. \A i \in above : P!Decoded(columns[i]) = P!Parsed(rows[i])
        BY <3>4, <4>1
      <4> HIDE DEF above
      <4> QED BY <4>3, <4>4
    <3> HIDE DEF above
    <3> QED BY <3>1, <3>2, <3>3, <3>5, <3>6 DEF P!EndToEnd
  <2> QED BY <2>1, <2>2 DEF LayoutsAgree
<1> QED BY <1>1, DetectionsKept, LayoutKept, PTL

-----------------------------------------------------------------------------
(* The camera table and the settings that the detector loads. *)

\* A list cut into its elements and put together again.
LEMMA FlattenedElements ==
  ASSUME NEW D, NEW s \in Seq(D)
  PROVE  C!FlattenSeq([i \in DOMAIN s |-> <<s[i]>>]) = s
<1> DEFINE n == Len(s)
           seqs == [i \in DOMAIN s |-> <<s[i]>>]
           Body(g) == [i \in 1 .. n |-> IF i = 1 THEN seqs[i] ELSE g[i - 1] \o seqs[i]]
           flatten == CHOOSE g : g = Body(g)
           f == [i \in 1 .. n |-> SubSeq(s, 1, i)]
<1>1. n \in Nat /\ DOMAIN s = 1 .. n /\ Len(seqs) = n
  <2>1. n \in Nat /\ DOMAIN s = 1 .. n
    OBVIOUS
  <2>2. seqs \in [1 .. n -> Seq(D)]
    OBVIOUS
  <2>3. Len(seqs) = n
    <3> HIDE DEF n, seqs
    <3> QED BY <2>1, <2>2
  <2> QED BY <2>1, <2>3
<1>2. CASE n = 0
  <2>1. C!FlattenSeq(seqs) = seqs
    BY <1>1, <1>2 DEF C!FlattenSeq
  <2>2. seqs = s
    BY <1>1, <1>2
  <2> QED BY <2>1, <2>2
<1>3. CASE n # 0
  <2>1. ASSUME NEW i \in 1 .. n
        PROVE  SubSeq(s, 1, i) = IF i = 1 THEN <<s[i]>> ELSE SubSeq(s, 1, i - 1) \o <<s[i]>>
    <3>1. 1 \in 1 .. Len(s) /\ i \in 1 .. Len(s)
      BY <1>1, <1>3
    <3>2. SubSeq(s, 1, i) = SubSeq(s, 1, i - 1) \o <<s[i]>>
      BY <3>1, SubSeqRecursiveSecond
    <3>3. i = 1 => SubSeq(s, 1, i - 1) = <<>>
      OBVIOUS
    <3>4. s[i] \in D /\ <<s[i]>> \in Seq(D)
      BY <3>1
    <3>5. <<>> \o <<s[i]>> = <<s[i]>>
      BY <3>4, ConcatEmptySeq
    <3> QED BY <3>2, <3>3, <3>5
  <2>2. f = Body(f)
    <3>1. ASSUME NEW i \in 1 .. n PROVE f[i] = Body(f)[i]
      <4>1. seqs[i] = <<s[i]>>
        BY <1>1
      <4>2. i # 1 => i - 1 \in 1 .. n
        BY <1>1
      <4> HIDE DEF seqs, n
      <4> QED BY <2>1, <4>1, <4>2
    <3> HIDE DEF seqs, n
    <3> QED BY <3>1
  <2>3. flatten = Body(flatten)
    <3> HIDE DEF Body, f
    <3> QED BY <2>2
  <2>4. C!FlattenSeq(seqs) = flatten[n]
    BY <1>1, <1>3 DEF C!FlattenSeq
  <2> HIDE DEF flatten
  <2> DEFINE T == {i \in 0 .. n : i # 0 => flatten[i] = SubSeq(s, 1, i)}
  <2>5. 0 \in T
    BY <1>1
  <2>6. ASSUME NEW i \in 1 .. n, i - 1 \in T PROVE i \in T
    <3>1. i \in 0 .. n /\ i \in Nat /\ seqs[i] = <<s[i]>>
      BY <1>1
    <3>2. flatten[i] = IF i = 1 THEN seqs[i] ELSE flatten[i - 1] \o seqs[i]
      <4> HIDE DEF seqs, n
      <4> QED BY <2>3
    <3>3. i # 1 => flatten[i - 1] = SubSeq(s, 1, i - 1)
      BY <2>6, <3>1
    <3> HIDE DEF seqs, n
    <3> QED BY <2>1, <3>1, <3>2, <3>3
  <2>7. \A i \in 0 .. n : i \in T
    <3> HIDE DEF T, n
    <3> QED BY <1>1, <2>5, <2>6, BoundedInduction
  <2>8. flatten[n] = SubSeq(s, 1, n)
    BY <1>1, <1>3, <2>7
  <2>9. SubSeq(s, 1, n) = s
    BY <1>1
  <2> QED BY <2>4, <2>8, <2>9
<1> QED BY <1>2, <1>3

\* A text without variables is not changed.
LEMMA LiteralExpands ==
  ASSUME NEW D, NEW text \in Seq(D), NEW env,
         \A p \in DOMAIN text : text[p].type = "literal"
  PROVE  C!Expand(text, env) = text
<1> DEFINE Once(t) == [i \in DOMAIN t |->
              IF t[i].type # "braced" THEN <<t[i]>>
              ELSE IF t[i].name \in DOMAIN env THEN env[t[i].name] ELSE t[i].default]
           Twice(t) == [i \in DOMAIN t |->
              IF t[i].type # "simple" THEN <<t[i]>> ELSE C!Value(env, t[i].name)]
<1>1. C!Expand(text, env) = C!FlattenSeq(Twice(C!FlattenSeq(Once(text))))
  BY DEF C!Expand
<1>2. Once(text) = [i \in DOMAIN text |-> <<text[i]>>]
  OBVIOUS
<1>3. Twice(text) = [i \in DOMAIN text |-> <<text[i]>>]
  OBVIOUS
<1> HIDE DEF Once, Twice
<1>4. C!FlattenSeq([i \in DOMAIN text |-> <<text[i]>>]) = text
  BY FlattenedElements
<1> QED BY <1>1, <1>2, <1>3, <1>4

\* The cameras that the detector reads from a file the API wrote.
LEMMA ReadOfWritten ==
  ASSUME NEW cams \in CameraLists, NEW env, NEW i \in C!Mapped(cams), Plain(cams[i]),
         NEW global, global.fps = 0, global.imgsz = 0
  PROVE  C!WithDefaults(C!Decoded(C!Entry(cams[i]), env), global) = cams[i]
<1> DEFINE Fields == C!Texts \union C!Optional
<1>1. PICK cam : cam = cams[i]
  OBVIOUS
<1>2. /\ cam = [f \in Fields |-> cam[f]]
      /\ cam.url \in Seq(ToSet(cam.url)) /\ cam.id \in Seq(ToSet(cam.id))
  <2>1. i \in DOMAIN cams /\ cams[i].id # Absent
    BY DEF C!Mapped
  <2> QED BY <1>1, <2>1, AlgorithmsAssumption
<1>3. C!Entry(cam) = cam
  BY <1>2 DEF C!Entry
<1>4. /\ \A p \in DOMAIN cam.url : cam.url[p].type = "literal"
      /\ \A p \in DOMAIN cam.id : cam.id[p].type = "literal"
  BY <1>1 DEF Plain, IsLiteral
<1>5. C!Expand(cam.url, env) = cam.url /\ C!Expand(cam.id, env) = cam.id
  BY <1>2, <1>4, LiteralExpands
<1>6. C!Decoded(cam, env) = cam
  <2>1. DOMAIN cam = Fields
    BY <1>2
  <2>2. C!Decoded(cam, env) = [f \in Fields |-> IF f \in C!Texts THEN C!Expand(cam[f], env) ELSE cam[f]]
    BY <2>1 DEF C!Decoded
  <2>3. \A f \in C!Texts : C!Expand(cam[f], env) = cam[f]
    BY <1>5 DEF C!Texts
  <2> HIDE DEF Fields
  <2>4. [f \in Fields |-> IF f \in C!Texts THEN C!Expand(cam[f], env) ELSE cam[f]]
          = [f \in Fields |-> cam[f]]
    BY <2>3
  <2> QED BY <1>2, <2>2, <2>4
<1>7. C!WithDefaults(cam, global) = cam
  <2>1. C!WithDefaults(cam, global)
          = [cam EXCEPT !.fps = IF cam.fps = 0 THEN 0 ELSE cam.fps,
                        !.imgsz = IF cam.imgsz = 0 THEN 0 ELSE cam.imgsz]
    BY DEF C!WithDefaults
  <2>2. @ = [cam EXCEPT !.fps = cam.fps, !.imgsz = cam.imgsz]
    OBVIOUS
  <2>3. @ = cam
    <3> HIDE DEF Fields
    <3> QED BY <1>2
  <2> QED BY <2>1, <2>2, <2>3
<1> QED BY <1>1, <1>3, <1>6, <1>7

\* A configuration that is loaded has the inference settings of one file or the other.
LEMMA LoadedInference ==
  ASSUME NEW file, NEW settings, NEW env,
         NEW loaded, loaded = C!Loaded(file, settings, env), loaded # <<>>
  PROVE  loaded[1].inference = C!Inference(settings, C!Global(file))
<1> DEFINE config == [cameras |-> [i \in DOMAIN file.cameras |->
                         C!WithDefaults(C!Decoded(file.cameras[i], env), C!Global(file))],
                      inference |-> C!Inference(settings, C!Global(file)),
                      reconnect |-> C!Global(file).reconnect]
<1>1. loaded = IF C!Valid(config) THEN <<config>> ELSE <<>>
  BY DEF C!Loaded
<1>2. config.inference = C!Inference(settings, C!Global(file))
  OBVIOUS
<1> HIDE DEF config
<1>3. loaded[1] = config
  BY <1>1
<1> QED BY <1>2, <1>3

\* What is loaded of a table comes from this configuration.
MadeOf(config, loaded, cams, settings) ==
  /\ loaded = IF C!Valid(config) THEN <<config>> ELSE <<>>
  /\ DOMAIN config.cameras = C!Mapped(cams)
  /\ config.cameras = [i \in C!Mapped(cams) |-> config.cameras[i]]
  /\ \A i \in C!Mapped(cams) : Plain(cams[i]) => config.cameras[i] = cams[i]
  /\ config.inference = C!Inference(settings, C!Global(C!Written(cams)))

\* What the detector makes of a file the API wrote: a configuration with every row
\* that has a detector id, as it is in the table if it has no variable, when that
\* configuration is valid.
LEMMA LoadedOfWritten ==
  ASSUME NEW cams \in CameraLists, NEW settings, NEW env,
         NEW loaded, loaded = C!Loaded(C!Written(cams), settings, env)
  PROVE  \E config : MadeOf(config, loaded, cams, settings)
<1> DEFINE file == C!Written(cams)
           config == [cameras |-> [i \in DOMAIN file.cameras |->
                         C!WithDefaults(C!Decoded(file.cameras[i], env), C!Global(file))],
                      inference |-> C!Inference(settings, C!Global(file)),
                      reconnect |-> C!Global(file).reconnect]
<1>1. loaded = IF C!Valid(config) THEN <<config>> ELSE <<>>
  BY DEF C!Loaded
<1>2. /\ file.global = Absent
      /\ file.cameras = [i \in C!Mapped(cams) |-> C!Entry(cams[i])]
  BY DEF C!Written
<1>3. /\ C!Global(file).fps = 0 /\ C!Global(file).imgsz = 0
  BY <1>2 DEF C!Global
<1>4. PICK c : c = config
  OBVIOUS
<1>5. /\ c.cameras = [i \in C!Mapped(cams) |->
                        C!WithDefaults(C!Decoded(C!Entry(cams[i]), env), C!Global(file))]
      /\ c.inference = C!Inference(settings, C!Global(C!Written(cams)))
  BY <1>2, <1>4
<1> HIDE DEF config, file
<1>6. ASSUME NEW i \in C!Mapped(cams), Plain(cams[i])
      PROVE  c.cameras[i] = cams[i]
  BY <1>3, <1>5, <1>6, ReadOfWritten
<1>7. MadeOf(c, loaded, cams, settings)
  BY <1>1, <1>4, <1>5, <1>6 DEF MadeOf
<1> QED BY <1>7

\* The table and the files stay as they were set, and the answer is that of the
\* code: the settings loaded before the API writes its file and after.
SettingsInv ==
  task.kind = "settings" =>
    /\ task.cams \in CameraLists
    /\ answer \in {<<>>,
         <<[before |-> C!Loaded(task.file, task.settings, task.env),
            after |-> C!Loaded(C!Written(task.cams), task.settings, task.env)]>>}

\* No step gives settings another answer.
LEMMA SettingsKept == Spec => []SettingsInv
<1>1. Init => SettingsInv
  BY DEF Init, SettingsInv
<1>2. SettingsInv /\ [Next]_vars => SettingsInv'
  <2> SUFFICES ASSUME SettingsInv, [Next]_vars, task'.kind = "settings"
               PROVE  SettingsInv'
    BY DEF SettingsInv
  <2>1. task' = task
    BY DEF Next, vars, DetectObjects, PlaceFrame, RecogniseLayout, WatchCamera,
           ReadEvents, SynchroniseSettings, Answer
  <2>2. CASE SynchroniseSettings
    BY <2>1, <2>2 DEF SettingsInv, SynchroniseSettings, Answer
  <2>3. CASE UNCHANGED vars
    BY <2>3 DEF SettingsInv, vars
  <2>4. CASE \/ DetectObjects \/ PlaceFrame \/ RecogniseLayout
             \/ WatchCamera \/ ReadEvents
    BY <2>1, <2>4 DEF DetectObjects, PlaceFrame, RecogniseLayout, WatchCamera,
                      ReadEvents, Answer
  <2> QED BY <2>2, <2>3, <2>4 DEF Next
<1> QED BY <1>1, <1>2, PTL DEF Spec

\* Whatever the table, settings.yaml and the environment hold: what the detector
\* accepts of the file the API writes has each mapped camera as it is in the table,
\* unless a text of it has a variable; of a table without variables it accepts it
\* just when it has such a camera, their ids differ and each is valid; and a model or
\* device that settings.yaml names survives that file.
THEOREM TableIsLoaded == Spec => []TableReachesDetector
<1>1. SettingsInv => TableReachesDetector
  <2> SUFFICES ASSUME SettingsInv, Answered("settings") PROVE TableReachesDetector
    BY DEF TableReachesDetector
  <2>1. /\ task.cams \in CameraLists
        /\ The.before = C!Loaded(task.file, task.settings, task.env)
        /\ The.after = C!Loaded(C!Written(task.cams), task.settings, task.env)
    BY DEF SettingsInv, Answered, The
  <2>2. PICK cams, settings, mapped :
          /\ cams = task.cams /\ settings = task.settings /\ mapped = C!Mapped(cams)
    OBVIOUS
  <2>3. PICK rows : rows = [i \in mapped |-> cams[i]]
    OBVIOUS
  <2>4. PICK Named \in BOOLEAN :
          Named <=> \/ settings.model # C!DefaultInference.model
                    \/ settings.device # C!DefaultInference.device
    OBVIOUS
  <2>5. PICK before, after : before = The.before /\ after = The.after
    OBVIOUS
  <2>6. PICK config :
          /\ after = IF C!Valid(config) THEN <<config>> ELSE <<>>
          /\ DOMAIN config.cameras = mapped
          /\ config.cameras = [i \in mapped |-> config.cameras[i]]
          /\ \A i \in mapped : Plain(cams[i]) => config.cameras[i] = cams[i]
          /\ config.inference = C!Inference(settings, C!Global(C!Written(cams)))
    <3>1. cams \in CameraLists /\ after = C!Loaded(C!Written(cams), settings, task.env)
      BY <2>1, <2>2, <2>5
    <3>2. PICK config : MadeOf(config, after, cams, settings)
      BY <3>1, LoadedOfWritten
    <3> QED BY <2>2, <3>2 DEF MadeOf
  <2>7. after # <<>> <=> C!Valid(config)
    BY <2>6
  <2>8. ASSUME after # <<>> PROVE after[1] = config
    BY <2>6, <2>8
  <2>9. ASSUME after # <<>>
        PROVE  /\ DOMAIN after[1].cameras = mapped
               /\ \A i \in mapped : Plain(rows[i]) => after[1].cameras[i] = rows[i]
    BY <2>3, <2>6, <2>8, <2>9
  <2>10. C!ValidInference(config.inference) <=> (Named => C!ValidInference(settings))
    <3>1. CASE Named
      BY <2>4, <2>6, <3>1 DEF C!Inference
    <3>2. CASE ~ Named
      <4>1. config.inference = C!DefaultInference
        BY <2>4, <2>6, <3>2 DEF C!Inference, C!Global, C!Written
      <4>2. C!DefaultInference.model # Absent /\ C!DefaultInference.batch # 0
        BY AlgorithmsAssumption DEF C!DefaultInference
      <4> QED BY <3>2, <4>1, <4>2 DEF C!ValidInference
    <3> QED BY <3>1, <3>2
  <2>11. ASSUME \A i \in mapped : Plain(rows[i])
         PROVE  after # <<>> <=>
                  /\ mapped # {} /\ C!DifferentIds(rows)
                  /\ \A i \in mapped : C!ValidCamera(rows[i])
                  /\ Named => C!ValidInference(settings)
    <3>1. \A i \in mapped : config.cameras[i] = rows[i]
      BY <2>3, <2>6, <2>11
    <3>2. config.cameras = rows
      BY <2>3, <2>6, <3>1
    <3>3. C!Valid(config) <=> /\ mapped # {} /\ C!DifferentIds(rows)
                              /\ \A i \in mapped : C!ValidCamera(rows[i])
                              /\ C!ValidInference(config.inference)
      BY <2>6, <3>2 DEF C!Valid
    <3> QED BY <2>7, <2>10, <3>3
  <2>12. ASSUME Named, before # <<>>, after # <<>>
         PROVE  before[1].inference = after[1].inference
    <3>1. after[1].inference = settings
      BY <2>4, <2>6, <2>8, <2>12 DEF C!Inference
    <3>2. before = C!Loaded(task.file, settings, task.env)
      BY <2>1, <2>2, <2>5
    <3>3. before[1].inference = C!Inference(settings, C!Global(task.file))
      BY <2>12, <3>2, LoadedInference
    <3> QED BY <2>4, <2>12, <3>1, <3>3 DEF C!Inference
  <2> QED BY <2>2, <2>3, <2>4, <2>5, <2>9, <2>11, <2>12, Zenon DEF TableReachesDetector
<1> QED BY <1>1, SettingsKept, PTL

-----------------------------------------------------------------------------
(* The listing of events and its pages. *)

\* The list of a set is the same in the instance of EventQueries.
LEMMA RankedInEventQueries ==
  ASSUME NEW A, NEW order
  PROVE  /\ Q!Cardinality(A) = Cardinality(A) /\ Q!Ranked(A, order) = Ranked(A, order)
         /\ Q!IsFiniteSet(A) <=> IsFiniteSet(A)
<1>1. \A B : Q!Cardinality(B) = Cardinality(B)
  BY DEF Q!Cardinality, Cardinality
<1>2. \A x : Q!Rank(A, order, x) = Rank(A, order, x)
  BY <1>1 DEF Q!Rank, Rank
<1>3. Q!IsFiniteSet(A) <=> IsFiniteSet(A)
  BY DEF Q!IsFiniteSet, IsFiniteSet
<1> QED BY <1>1, <1>2, <1>3 DEF Q!Ranked, Ranked

\* What the assumption says of a store: a finite table with a primary key.
Listable(store) ==
  /\ IsFiniteSet(store.events)
  /\ \A e \in store.events : e.time \in Int /\ store.order[e.id] \in Int
  /\ \A e, f \in store.events : store.order[e.id] = store.order[f.id] => e = f

\* The events of a set that are newer than a time, and those that are not older.
Over(M, time) == {f \in M : f.time > time}
From(M, time) == {f \in M : f.time >= time}

\* How many events of a finite set there are above a time.
LEMMA Above ==
  ASSUME NEW M, IsFiniteSet(M), NEW time
  PROVE  /\ IsFiniteSet(Over(M, time)) /\ Cardinality(Over(M, time)) \in Nat
         /\ IsFiniteSet(From(M, time)) /\ Cardinality(From(M, time)) \in Nat
<1>1. Over(M, time) \in SUBSET M /\ From(M, time) \in SUBSET M
  BY DEF Over, From
<1>2. IsFiniteSet(Over(M, time)) /\ IsFiniteSet(From(M, time))
  BY <1>1, FS_Subset
<1> QED BY <1>2, FS_CardinalityType

\* The matching events of a store.
LEMMA MatchingOfStore ==
  ASSUME NEW store, Listable(store), NEW filter, NEW M, M = Q!Matching(store, filter)
  PROVE  /\ M \in SUBSET store.events /\ IsFiniteSet(M)
         /\ Cardinality(M) \in Nat /\ Cardinality(M) <= Cardinality(store.events)
         /\ Cardinality(store.events) \in Nat
         /\ Q!CountOf(store, filter) = Cardinality(M)
         /\ \A e \in M : e.time \in Int
<1>1. M \in SUBSET store.events
  BY DEF Q!Matching
<1>2. IsFiniteSet(M) /\ Cardinality(M) <= Cardinality(store.events)
  BY <1>1, FS_Subset DEF Listable
<1>3. Cardinality(M) \in Nat /\ Cardinality(store.events) \in Nat
  BY <1>2, FS_CardinalityType DEF Listable
<1>4. Q!CountOf(store, filter) = Cardinality(M)
  BY RankedInEventQueries DEF Q!CountOf
<1>5. \A e \in M : e.time \in Int
  BY <1>1 DEF Listable
<1> QED BY <1>1, <1>2, <1>3, <1>4, <1>5

\* A listing has every matching event once; those newer than one come before it,
\* and before it come only those that are not older.
LEMMA ListingIsRanked ==
  ASSUME NEW store, Listable(store), NEW filter, NEW list, list = Q!Listing(store, filter),
         NEW M, M = Q!Matching(store, filter)
  PROVE  /\ list \in Seq(M) /\ Len(list) = Cardinality(M)
         /\ \A e \in M : \E i \in DOMAIN list : list[i] = e
         /\ \A i \in DOMAIN list :
              /\ Cardinality(Over(M, list[i].time)) < i
              /\ i <= Cardinality(From(M, list[i].time))
<1> DEFINE order == Q!Before(M, store.order)
           n == Cardinality(M)
<1>1. /\ M \in SUBSET store.events /\ IsFiniteSet(M)
      /\ n \in Nat /\ \A e \in M : e.time \in Int
  BY MatchingOfStore
<1>2. PICK ids : ids = store.order
  OBVIOUS
<1>3. \A e \in M : e.time \in Int /\ ids[e.id] \in Int
  BY <1>1, <1>2 DEF Listable
<1>4. \A e, f \in M : ids[e.id] = ids[f.id] => e = f
  BY <1>1, <1>2 DEF Listable
<1>5. \A x, y \in M : <<x, y>> \in order <=>
                        \/ x.time > y.time
                        \/ x.time = y.time /\ ids[x.id] < ids[y.id]
  BY <1>2 DEF Q!Before
<1>6. OrderOf(order, M)
  <2> HIDE DEF order
  <2>1. \A x \in M : <<x, x>> \notin order
    BY <1>3, <1>5
  <2>2. ASSUME NEW x \in M, NEW y \in M, x # y
        PROVE  <<x, y>> \in order \/ <<y, x>> \in order
    <3>1. /\ x.time \in Int /\ y.time \in Int /\ ids[x.id] \in Int /\ ids[y.id] \in Int
          /\ ids[x.id] # ids[y.id]
      BY <1>3, <1>4, <2>2
    <3> QED BY <1>5, <3>1
  <2>3. ASSUME NEW x \in M, NEW y \in M, NEW z \in M, <<x, y>> \in order, <<y, z>> \in order
        PROVE  <<x, z>> \in order
    <3>1. /\ x.time \in Int /\ y.time \in Int /\ z.time \in Int
          /\ ids[x.id] \in Int /\ ids[y.id] \in Int /\ ids[z.id] \in Int
      BY <1>3
    <3>2. \/ x.time > y.time
          \/ x.time = y.time /\ ids[x.id] < ids[y.id]
      BY <1>5, <2>3
    <3>3. \/ y.time > z.time
          \/ y.time = z.time /\ ids[y.id] < ids[z.id]
      BY <1>5, <2>3
    <3>4. \/ x.time > z.time
          \/ x.time = z.time /\ ids[x.id] < ids[z.id]
      BY <3>1, <3>2, <3>3
    <3> QED BY <1>5, <3>4
  <2> QED BY <2>1, <2>2, <2>3 DEF OrderOf
<1>7. list = Ranked(M, order)
  <2>1. list = Q!Ranked(M, order)
    BY DEF Q!Listing
  <2> HIDE DEF order
  <2> QED BY <2>1, RankedInEventQueries
<1> HIDE DEF order
<1>8. /\ n \in Nat /\ list \in [1 .. n -> M]
      /\ \A x \in M : Rank(M, order, x) + 1 \in 1 .. n /\ list[Rank(M, order, x) + 1] = x
      /\ \A k \in 1 .. n : Rank(M, order, list[k]) = k - 1
  BY <1>1, <1>6, <1>7, RankedLists
<1> HIDE DEF n
<1>9. list \in Seq(M) /\ Len(list) = n /\ DOMAIN list = 1 .. n
  BY <1>8
<1>10. ASSUME NEW i \in 1 .. n
       PROVE  /\ Cardinality(Over(M, list[i].time)) < i
              /\ i <= Cardinality(From(M, list[i].time))
  <2>1. PICK y \in M : y = list[i]
    BY <1>8
  <2>2. PICK B : B = {z \in M : <<z, y>> \in order}
    OBVIOUS
  <2>3. Cardinality(B) = i - 1
    BY <1>8, <2>1, <2>2 DEF Rank
  <2>4. y \notin B /\ B \in SUBSET M
    BY <1>6, <2>2 DEF OrderOf
  <2>5. IsFiniteSet(B)
    BY <1>1, <2>4, FS_Subset
  <2>6. Over(M, y.time) \in SUBSET B
    BY <1>5, <2>2 DEF Over
  <2>7. B \cup {y} \in SUBSET From(M, y.time)
    BY <1>3, <1>5, <2>2 DEF From
  <2>8. Cardinality(Over(M, y.time)) <= Cardinality(B)
    BY <2>5, <2>6, FS_Subset
  <2>9. Cardinality(B \cup {y}) = Cardinality(B) + 1
    BY <2>4, <2>5, FS_AddElement
  <2>10. Cardinality(B \cup {y}) <= Cardinality(From(M, y.time))
    BY <1>1, <2>7, Above, FS_Subset
  <2>11. PICK a \in Nat, b \in Nat : a = Cardinality(Over(M, y.time)) /\ b = Cardinality(From(M, y.time))
    BY <1>1, Above
  <2>12. i \in Nat
    BY <1>8
  <2> QED BY <2>1, <2>3, <2>8, <2>9, <2>10, <2>11, <2>12
<1>11. \A e \in M : \E i \in DOMAIN list : list[i] = e
  BY <1>8, <1>9
<1> QED BY <1>9, <1>10, <1>11 DEF n

\* The place of an event that has its time to itself does not depend on the order.
LEMMA PlaceOfUnshared ==
  ASSUME NEW store, Listable(store), NEW filter, NEW list, list = Q!Listing(store, filter),
         NEW M, M = Q!Matching(store, filter),
         NEW e \in M, \A f \in M : f.time = e.time => f = e
  PROVE  /\ Cardinality(Over(M, e.time)) \in Nat /\ Cardinality(Over(M, e.time)) < Len(list)
         /\ list[Cardinality(Over(M, e.time)) + 1] = e
         /\ \A i \in DOMAIN list : list[i] = e => i = Cardinality(Over(M, e.time)) + 1
<1>1. IsFiniteSet(M) /\ \A f \in M : f.time \in Int
  BY MatchingOfStore
<1>2. From(M, e.time) = Over(M, e.time) \cup {e}
  BY <1>1 DEF From, Over
<1>3. e \notin Over(M, e.time)
  BY <1>1 DEF Over
<1>4. PICK a \in Nat : a = Cardinality(Over(M, e.time))
  BY <1>1, Above
<1>5. Cardinality(From(M, e.time)) = a + 1
  BY <1>1, <1>2, <1>3, <1>4, Above, FS_AddElement
<1>6. /\ list \in Seq(M)
      /\ \A i \in DOMAIN list :
              /\ Cardinality(Over(M, list[i].time)) < i
              /\ i <= Cardinality(From(M, list[i].time))
  BY ListingIsRanked
<1>7. ASSUME NEW i \in DOMAIN list, list[i] = e PROVE i = a + 1
  <2>1. a < i /\ i <= a + 1
    BY <1>4, <1>5, <1>6, <1>7
  <2>2. i \in Nat
    BY <1>6
  <2> QED BY <2>1, <2>2
<1>8. PICK i \in DOMAIN list : list[i] = e
  BY ListingIsRanked
<1>9. i = a + 1 /\ i <= Len(list)
  BY <1>6, <1>7, <1>8
<1> QED BY <1>4, <1>6, <1>7, <1>8, <1>9

\* Two listings of the same events, in whatever orders, have no newer event at a
\* later place.
LEMMA SameEventsSameTimes ==
  ASSUME NEW first, Listable(first), NEW second, Listable(second), NEW filter,
         NEW M, M = Q!Matching(first, filter), M = Q!Matching(second, filter),
         NEW i \in DOMAIN Q!Listing(first, filter), NEW j \in DOMAIN Q!Listing(second, filter),
         i <= j
  PROVE  Q!Listing(first, filter)[i].time >= Q!Listing(second, filter)[j].time
<1>1. PICK l1, l2 : l1 = Q!Listing(first, filter) /\ l2 = Q!Listing(second, filter)
  OBVIOUS
<1>2. IsFiniteSet(M) /\ \A f \in M : f.time \in Int
  BY MatchingOfStore
<1>3. /\ l1 \in Seq(M) /\ i \in DOMAIN l1
      /\ Cardinality(Over(M, l1[i].time)) < i
  <2>1. /\ l1 \in Seq(M)
        /\ \A p \in DOMAIN l1 : Cardinality(Over(M, l1[p].time)) < p
    <3>1. Listable(first) /\ M = Q!Matching(first, filter) /\ l1 = Q!Listing(first, filter)
      BY <1>1
    <3> QED BY <3>1, ListingIsRanked
  <2>2. i \in DOMAIN l1
    BY <1>1
  <2> QED BY <2>1, <2>2
<1>4. /\ l2 \in Seq(M) /\ j \in DOMAIN l2
      /\ j <= Cardinality(From(M, l2[j].time))
  <2>1. /\ l2 \in Seq(M)
        /\ \A p \in DOMAIN l2 : p <= Cardinality(From(M, l2[p].time))
    BY <1>1, ListingIsRanked
  <2>2. j \in DOMAIN l2
    BY <1>1
  <2> QED BY <2>1, <2>2
<1>5. PICK s \in Int, t \in Int : s = l1[i].time /\ t = l2[j].time
  BY <1>2, <1>3, <1>4
<1>6. SUFFICES ASSUME s < t PROVE FALSE
  BY <1>1, <1>5
<1>7. From(M, t) \in SUBSET Over(M, s)
  BY <1>2, <1>6 DEF From, Over
<1>8. Cardinality(From(M, t)) <= Cardinality(Over(M, s))
  BY <1>2, <1>7, Above, FS_Subset
<1>9. PICK a \in Nat, b \in Nat : a = Cardinality(Over(M, s)) /\ b = Cardinality(From(M, t))
  BY <1>2, Above
<1>10. i \in Nat /\ j \in Nat
  BY <1>3, <1>4
<1> QED BY <1>3, <1>4, <1>5, <1>8, <1>9, <1>10

\* Part k of a list cut into parts of a size, the last of which may be shorter.
Part(list, k, size) ==
  SubSeq(list, (k - 1) * size + 1, IF k * size <= Len(list) THEN k * size ELSE Len(list))

\* The settings of the size of a page.
IsSize(size) == size \in 1 .. Q!MaxLimit

\* The server takes them as they are.
LEMMA SizeOfPage ==
  ASSUME NEW size, IsSize(size)
  PROVE  size \in Nat \ {0} /\ Q!SafeLimit(size) = size
BY DEF IsSize, Q!SafeLimit, Q!MaxLimit

\* Where page k begins and ends.
LEMMA Products ==
  ASSUME NEW k \in Nat \ {0}, NEW size \in Nat \ {0}
  PROVE  /\ (k - 1) * size \in Nat /\ k * size \in Nat
         /\ k * size = (k - 1) * size + size /\ k <= k * size
OBVIOUS

\* A page is the part of the listing that its number says.
LEMMA PageIsPart ==
  ASSUME NEW store, NEW filter, NEW size, IsSize(size), NEW k \in Nat \ {0},
         NEW list, list = Q!Listing(store, filter), Len(list) \in Nat
  PROVE  Q!Page(store, filter, size, (k - 1) * size) = Part(list, k, size)
<1>1. size \in Nat \ {0} /\ Q!SafeLimit(size) = size
  BY SizeOfPage
<1>2. PICK n : n = Len(list) /\ n \in Nat
  OBVIOUS
<1>3. PICK o, m : o = (k - 1) * size /\ o \in Nat /\ m = k * size /\ m = o + size
  BY <1>1, Products
<1>5. Q!SafeOffset(o) = o
  BY <1>3 DEF Q!SafeOffset
<1>6. Q!Page(store, filter, size, o)
        = SubSeq(list, o + 1, IF o + 1 + size - 1 <= n THEN o + 1 + size - 1 ELSE n)
  BY <1>1, <1>2, <1>5 DEF Q!Page
<1>7. o + 1 + size - 1 = m
  BY <1>1, <1>3
<1>8. Part(list, k, size) = SubSeq(list, o + 1, IF m <= n THEN m ELSE n)
  BY <1>2, <1>3, Zenon DEF Part
<1> QED BY <1>3, <1>6, <1>7, <1>8, Zenon

\* Where part k begins and where it ends, in a list of a length.
Start(k, size) == (k - 1) * size
End(k, size, n) == IF k * size <= n THEN k * size ELSE n

LEMMA EndsOfPart ==
  ASSUME NEW k \in Nat \ {0}, NEW size \in Nat \ {0}, NEW n \in Nat
  PROVE  /\ Start(k, size) \in Nat /\ k * size = Start(k, size) + size
         /\ End(k, size, n) \in Nat /\ End(k, size, n) <= n
BY DEF Start, End

\* A part is what a list has from one place to another.
IsPartOf(part, list, M, o, u) ==
  /\ part \in Seq(M) /\ Len(part) = IF o <= u THEN u - o ELSE 0
  /\ \A i \in 1 .. u - o : part[i] = list[o + i]

\* What part k of a list has.
LEMMA PartsOfList ==
  ASSUME NEW M, NEW list, list \in Seq(M), NEW size, size \in Nat \ {0}, NEW k, k \in Nat \ {0},
         NEW n, n = Len(list), NEW o, o = Start(k, size), NEW u, u = End(k, size, n),
         NEW part, part = Part(list, k, size)
  PROVE  IsPartOf(part, list, M, o, u)
<1>1. n \in Nat /\ DOMAIN list = 1 .. n
  OBVIOUS
<1>2. o \in Nat /\ u \in Nat /\ u <= n
  BY <1>1, EndsOfPart
<1>3. part = SubSeq(list, o + 1, u)
  BY DEF Part, Start, End
<1>4. \A i \in o + 1 .. u : list[i] \in M
  BY <1>1, <1>2
<1>5. /\ SubSeq(list, o + 1, u) \in Seq(M)
      /\ Len(SubSeq(list, o + 1, u)) = IF o + 1 <= u THEN u - (o + 1) + 1 ELSE 0
      /\ \A i \in 1 .. u - (o + 1) + 1 : SubSeq(list, o + 1, u)[i] = list[o + 1 + i - 1]
  BY <1>2, <1>4, SubSeqProperties
<1>6. /\ part \in Seq(M) /\ Len(part) = IF o + 1 <= u THEN u - (o + 1) + 1 ELSE 0
      /\ \A i \in 1 .. u - (o + 1) + 1 : part[i] = list[o + 1 + i - 1]
  BY <1>3, <1>5, Zenon
<1>7. Len(part) = IF o <= u THEN u - o ELSE 0
  BY <1>2, <1>6
<1>8. ASSUME NEW i \in 1 .. u - o PROVE part[i] = list[o + i]
  <2>1. i \in 1 .. u - (o + 1) + 1 /\ o + 1 + i - 1 = o + i
    BY <1>2
  <2> QED BY <1>6, <2>1, Zenon
<1> QED BY <1>6, <1>7, <1>8 DEF IsPartOf

\* What the assumption says of a history of stores.
IsHistory(history) ==
  /\ Len(history) \in Nat \ {0} /\ DOMAIN history = 1 .. Len(history)
  /\ \A k \in DOMAIN history : Listable(history[k])

\* The histories of the model are such.
LEMMA HistoriesOfTasks ==
  ASSUME NEW history \in Histories
  PROVE  IsHistory(history)
<1>1. /\ history \in Seq(ToSet(history)) \ {<<>>}
      /\ \A k \in DOMAIN history : Q!IsStore(history[k])
  BY AlgorithmsAssumption, SMTT(60)
<1>2. Len(history) \in Nat \ {0} /\ DOMAIN history = 1 .. Len(history)
  BY <1>1
<1>3. ASSUME NEW k \in DOMAIN history PROVE Listable(history[k])
  <2>1. PICK store : store = history[k]
    OBVIOUS
  <2>2. Q!IsStore(store)
    BY <1>1, <2>1
  <2>3. Listable(store)
    BY <2>2, RankedInEventQueries DEF Q!IsStore, Listable
  <2> QED BY <2>1, <2>3
<1> QED BY <1>2, <1>3 DEF IsHistory

\* So are the sizes of pages.
LEMMA SizesOfTasks ==
  ASSUME NEW size, size \in PageSizes
  PROVE  IsSize(size)
BY AlgorithmsAssumption DEF IsSize

\* A page is read from one of the stores.
LEMMA StoreOfPage ==
  ASSUME NEW history, IsHistory(history), NEW k \in Nat \ {0}
  PROVE  /\ Listable(Q!At(history, k))
         /\ \E j \in DOMAIN history : Q!At(history, k) = history[j]
BY DEF IsHistory, Q!At

\* The last page is one whose total says that there is no more.
EndsAt(history, filter, size, k) ==
  k * size >= Q!CountOf(Q!At(history, k), filter)

\* Some page is the first to be one.
LEMMA SomePageEnds ==
  ASSUME NEW history, IsHistory(history), NEW filter, NEW size, IsSize(size),
         NEW n, n = Len(history), NEW c, c = Cardinality(history[n].events)
  PROVE  /\ c \in Nat /\ n + c \in Nat \ {0}
         /\ \E k \in 1 .. n + c : /\ EndsAt(history, filter, size, k)
                                 /\ \A j \in 1 .. k - 1 : ~ EndsAt(history, filter, size, j)
<1>1. n \in Nat \ {0} /\ n \in DOMAIN history /\ Listable(history[n])
  BY DEF IsHistory
<1>2. c \in Nat
  BY <1>1, FS_CardinalityType DEF Listable
<1>3. PICK final : final = n + c /\ final \in Nat \ {0} /\ final >= n /\ c <= final
  BY <1>1, <1>2
<1>4. PICK store : store = history[n] /\ store = Q!At(history, final)
  <2>1. final <= n => final = n
    BY <1>1, <1>3
  <2> QED BY <2>1 DEF Q!At
<1>5. PICK m : m = Q!CountOf(store, filter) /\ m \in Nat /\ m <= c
  <2>1. PICK M : M = Q!Matching(store, filter)
    OBVIOUS
  <2>2. Listable(store)
    BY <1>1, <1>4
  <2>3. /\ Cardinality(M) \in Nat /\ Cardinality(M) <= Cardinality(store.events)
        /\ Q!CountOf(store, filter) = Cardinality(M)
    BY <2>1, <2>2, MatchingOfStore
  <2> QED BY <1>4, <2>3
<1>6. PICK d : d = final * size /\ d \in Nat /\ final <= d
  BY <1>3, SizeOfPage, Products
<1>7. EndsAt(history, filter, size, final)
  <2>1. d >= m
    BY <1>2, <1>3, <1>5, <1>6
  <2> QED BY <1>4, <1>5, <1>6, <2>1, Zenon DEF EndsAt
<1>8. PICK T : T = {k \in 1 .. final : EndsAt(history, filter, size, k)}
  OBVIOUS
<1>9. T \in SUBSET Nat /\ T # {}
  BY <1>3, <1>7, <1>8
<1>10. PICK k \in T : \A j \in T : k <= j
  BY <1>9, LeastElement
<1>11. k \in 1 .. final /\ EndsAt(history, filter, size, k)
  BY <1>8
<1>12. ASSUME NEW j \in 1 .. k - 1, EndsAt(history, filter, size, j) PROVE FALSE
  <2>1. j \in 1 .. final /\ ~ (k <= j)
    BY <1>3, <1>11
  <2>2. j \in T
    BY <1>8, <1>12, <2>1
  <2> QED BY <1>10, <2>1, <2>2
<1> QED BY <1>2, <1>3, <1>11, <1>12

\* The page that the total calls the last.
LEMMA LastPageIsLast ==
  ASSUME NEW history, IsHistory(history), NEW filter, NEW size, IsSize(size),
         NEW last, last = Q!LastPage(history, filter, size)
  PROVE  last \in Nat \ {0} /\ EndsAt(history, filter, size, last)
<1>1. PICK n, c : n = Len(history) /\ c = Cardinality(history[n].events)
  OBVIOUS
<1>2. /\ c \in Nat /\ n + c \in Nat \ {0}
      /\ \E k \in 1 .. n + c : /\ EndsAt(history, filter, size, k)
                              /\ \A j \in 1 .. k - 1 : ~ EndsAt(history, filter, size, j)
  BY <1>1, SomePageEnds
<1>3. Q!Cardinality(history[n].events) = c
  BY <1>1, RankedInEventQueries
<1>4. last = CHOOSE k \in 1 .. n + c : /\ EndsAt(history, filter, size, k)
                                       /\ \A j \in 1 .. k - 1 : ~ EndsAt(history, filter, size, j)
  BY <1>1, <1>3 DEF Q!LastPage, EndsAt
<1>5. last \in 1 .. n + c /\ EndsAt(history, filter, size, last)
  BY <1>2, <1>4
<1> QED BY <1>2, <1>5

\* Page k of a reader.
PageOf(history, filter, size, k) ==
  Q!Page(Q!At(history, k), filter, size, (k - 1) * size)

\* What a reader has seen after each page.
Reads(seen, history, filter, size, last) ==
  /\ seen[0] = <<>>
  /\ \A k \in 1 .. last : seen[k] = seen[k - 1] \o PageOf(history, filter, size, k)

\* All events that there are at some time.
Ever(history) == UNION {history[k].events : k \in DOMAIN history}

\* A page is a list of events that are stored.
LEMMA PageTyped ==
  ASSUME NEW history, IsHistory(history), NEW filter, NEW size, IsSize(size),
         NEW k \in Nat \ {0}
  PROVE  PageOf(history, filter, size, k) \in Seq(Ever(history))
<1>1. PICK store : store = Q!At(history, k) /\ Listable(store)
                   /\ store.events \in SUBSET Ever(history)
  BY StoreOfPage DEF Ever
<1>2. PICK M : M = Q!Matching(store, filter) /\ M \in SUBSET Ever(history)
  BY <1>1 DEF Q!Matching
<1>3. PICK list : list = Q!Listing(store, filter)
  OBVIOUS
<1>4. list \in Seq(M)
  BY <1>1, <1>2, <1>3, ListingIsRanked
<1>5. PICK n : n = Len(list) /\ n \in Nat
  BY <1>4
<1>6. PICK all : all = Ever(history)
  OBVIOUS
<1>7. list \in Seq(all)
  <2>1. DOMAIN list = 1 .. n /\ list \in [1 .. n -> M]
    BY <1>4, <1>5
  <2>2. list \in [1 .. n -> all]
    BY <1>2, <1>6, <2>1
  <2> QED BY <1>5, <2>2
<1>10. Part(list, k, size) \in Seq(all)
  BY <1>7, SizeOfPage, PartsOfList DEF IsPartOf
<1>11. Q!Page(store, filter, size, (k - 1) * size) = Part(list, k, size)
  BY <1>3, <1>5, PageIsPart
<1> QED BY <1>1, <1>6, <1>10, <1>11 DEF PageOf

\* The recursive function of a reader satisfies its defining equation.
LEMMA WalkEquation ==
  ASSUME NEW history, IsHistory(history), NEW filter, NEW size, IsSize(size),
         NEW last, last = Q!LastPage(history, filter, size)
  PROVE  \E seen : /\ Reads(seen, history, filter, size, last)
                   /\ Q!Walk(history, filter, size) = seen[last]
<1> DEFINE page(k) == PageOf(history, filter, size, k)
           step(all) == [p \in Nat \X Seq(all) |-> IF p[1] = 0 THEN p[2] ELSE p[2] \o page(p[1])]
<1>1. last \in Nat
  BY LastPageIsLast
<1>2. PICK all : all = Ever(history)
  OBVIOUS
<1>3. \A k \in Nat \ {0} : page(k) \in Seq(all)
  BY <1>2, PageTyped
<1> HIDE DEF page
<1>4. PICK next : next = step(all) /\ next \in [Nat \X Seq(all) -> Seq(all)]
  <2>1. ASSUME NEW k \in Nat, NEW s \in Seq(all), k # 0 PROVE s \o page(k) \in Seq(all)
    <3>1. page(k) \in Seq(all)
      BY <1>3, <2>1
    <3> QED BY <3>1, ConcatProperties
  <2>2. step(all) \in [Nat \X Seq(all) -> Seq(all)]
    BY <2>1
  <2> HIDE DEF step
  <2> QED BY <2>2
<1>5. PICK f : /\ f \in [0 .. last -> Seq(all)] /\ f[0] = <<>>
               /\ \A k \in 1 .. last : f[k] = next[<<k, f[k - 1]>>]
  <2>1. <<>> \in Seq(all)
    OBVIOUS
  <2> HIDE DEF step
  <2>2. \E f : Continues(f, last, Seq(all), <<>>, next)
    BY <1>1, <1>4, <2>1, BoundedRecursion
  <2> QED BY <2>2 DEF Continues
<1>6. ASSUME NEW k \in 1 .. last PROVE f[k] = f[k - 1] \o page(k)
  <2>1. k \in Nat /\ k # 0 /\ k - 1 \in 0 .. last
    BY <1>1
  <2>2. f[k - 1] \in Seq(all)
    <3> HIDE DEF step
    <3> QED BY <1>5, <2>1, Zenon
  <2> QED BY <1>4, <1>5, <2>1, <2>2
<1> DEFINE Body(g) == [k \in 0 .. last |-> IF k = 0 THEN <<>> ELSE g[k - 1] \o page(k)]
<1>7. f = Body(f)
  <2>1. ASSUME NEW k \in 0 .. last PROVE f[k] = Body(f)[k]
    <3>1. CASE k = 0
      BY <1>5, <3>1
    <3>2. CASE k # 0
      <4>1. k \in 1 .. last
        BY <1>1, <3>2
      <4> QED BY <1>6, <3>2, <4>1
    <3> QED BY <3>1, <3>2
  <2> QED BY <1>5, <2>1
<1> DEFINE seen == CHOOSE g : g = Body(g)
<1>8. seen = Body(seen)
  <2> HIDE DEF Body
  <2> QED BY <1>7
<1>9. Q!Walk(history, filter, size) = seen[last]
  BY DEF Q!Walk, page, PageOf
<1> HIDE DEF seen
<1>10. seen[0] = <<>>
  BY <1>1, <1>8
<1>11. ASSUME NEW k \in 1 .. last PROVE seen[k] = seen[k - 1] \o page(k)
  <2>1. k \in 0 .. last /\ k # 0
    BY <1>1
  <2>2. seen[k] = Body(seen)[k]
    BY <1>8
  <2> QED BY <2>1, <2>2
<1> QED BY <1>9, <1>10, <1>11 DEF Reads, page

-----------------------------------------------------------------------------
(* A reader of the listing. *)

\* What is concatenated holds what its parts hold.
LEMMA SeenGrows ==
  ASSUME NEW D, NEW a \in Seq(D), NEW b \in Seq(D)
  PROVE  /\ \A e : e \in ToSet(a) => e \in ToSet(a \o b)
         /\ \A i \in DOMAIN b : b[i] \in ToSet(a \o b)
<1>1. PICK l \in Nat, m \in Nat : l = Len(a) /\ m = Len(b)
  OBVIOUS
<1>2. PICK f : f = a \o b
  OBVIOUS
<1>3. /\ f \in Seq(D) /\ Len(f) = l + m
      /\ \A p \in 1 .. l : f[p] = a[p]
      /\ \A p \in 1 .. m : f[l + p] = b[p]
  BY <1>1, <1>2
<1>4. DOMAIN a = 1 .. l /\ DOMAIN b = 1 .. m /\ DOMAIN f = 1 .. l + m
  BY <1>1, <1>3
<1>5. /\ \A p \in 1 .. l : p \in 1 .. l + m
      /\ \A p \in 1 .. m : l + p \in 1 .. l + m
  OBVIOUS
<1> QED BY <1>2, <1>3, <1>4, <1>5 DEF ToSet

\* A page shows an event that has its time to itself when as many newer ones are
\* listed as its number leaves above.
LEMMA PageShows ==
  ASSUME NEW store, Listable(store), NEW filter, NEW size, IsSize(size),
         NEW k \in Nat \ {0}, NEW M, M = Q!Matching(store, filter),
         NEW e \in M, \A f \in M : f.time = e.time => f = e,
         NEW a, a = Cardinality(Over(M, e.time)), Start(k, size) <= a, a < k * size,
         NEW page, page = Q!Page(store, filter, size, (k - 1) * size)
  PROVE  \E i \in DOMAIN page : page[i] = e
<1>1. PICK list : list = Q!Listing(store, filter)
  OBVIOUS
<1>2. list \in Seq(M)
  BY <1>1, ListingIsRanked
<1>3. PICK n : n = Len(list) /\ n \in Nat
  BY <1>2
<1>4. a \in Nat /\ a < n /\ list[a + 1] = e
  BY <1>1, <1>3, PlaceOfUnshared
<1>5. PICK o, u : o = Start(k, size) /\ u = End(k, size, n)
  OBVIOUS
<1>6. /\ o \in Nat /\ u \in Nat /\ u <= n /\ k * size = o + size /\ size \in Nat
      /\ u = IF k * size <= n THEN k * size ELSE n
  BY <1>3, <1>5, SizeOfPage, EndsOfPart DEF End
<1>7. page = Part(list, k, size)
  BY <1>1, <1>3, PageIsPart
<1>8. /\ page \in Seq(M) /\ Len(page) = IF o <= u THEN u - o ELSE 0
      /\ \A i \in 1 .. u - o : page[i] = list[o + i]
  <2>1. IsPartOf(page, list, M, o, u)
    BY <1>2, <1>3, <1>5, <1>7, SizeOfPage, PartsOfList
  <2> QED BY <2>1 DEF IsPartOf
<1>9. a < u /\ o <= a
  BY <1>4, <1>5, <1>6
<1>10. PICK i : i = a - o + 1 /\ i \in 1 .. u - o /\ o + i = a + 1
  BY <1>4, <1>6, <1>9
<1>11. page[i] = e
  BY <1>4, <1>8, <1>10
<1>12. i \in DOMAIN page
  <2>1. Len(page) = u - o
    BY <1>4, <1>6, <1>8, <1>9
  <2>2. DOMAIN page = 1 .. u - o
    BY <1>8, <2>1
  <2> QED BY <1>10, <2>2
<1> QED BY <1>11, <1>12

\* How many newer events are listed when page k is read.
Newer(e, history, filter, k) ==
  Cardinality(Over(Q!Matching(Q!At(history, k), filter), e.time))

\* An event that stays is listed, by itself with its time, whichever page is read.
LEMMA StayingIsListed ==
  ASSUME NEW history, IsHistory(history), NEW filter, NEW e, Stays(e, history, filter),
         NEW k \in Nat \ {0}, NEW store, store = Q!At(history, k),
         NEW M, M = Q!Matching(store, filter)
  PROVE  /\ Listable(store) /\ e \in M /\ \A f \in M : f.time = e.time => f = e
         /\ Newer(e, history, filter, k) = Cardinality(Over(M, e.time))
         /\ Newer(e, history, filter, k) \in Nat
         /\ Q!CountOf(store, filter) \in Nat
         /\ Newer(e, history, filter, k) < Q!CountOf(store, filter)
<1>1. Listable(store)
  BY StoreOfPage
<1>2. PICK j \in DOMAIN history : store = history[j]
  BY StoreOfPage
<1>3. e \in M /\ \A f \in M : f.time = e.time => f = e
  BY <1>2, Zenon DEF Stays
<1>4. PICK list : list = Q!Listing(store, filter)
  OBVIOUS
<1>5. PICK a : a = Cardinality(Over(M, e.time)) /\ a \in Nat /\ a < Len(list)
  BY <1>1, <1>3, <1>4, PlaceOfUnshared
<1>6. Len(list) = Cardinality(M)
  BY <1>1, <1>4, ListingIsRanked
<1>7. Q!CountOf(store, filter) = Cardinality(M) /\ Cardinality(M) \in Nat
  BY <1>1, MatchingOfStore
<1>8. Newer(e, history, filter, k) = a
  BY <1>5 DEF Newer
<1> QED BY <1>1, <1>3, <1>5, <1>6, <1>7, <1>8

\* From page to page no fewer are newer.
LEMMA NewerGrows ==
  ASSUME NEW history, IsHistory(history), NEW filter, NEW e, Stays(e, history, filter),
         NeverMovesUp(e, history, filter), NEW k \in Nat \ {0}
  PROVE  Newer(e, history, filter, k) <= Newer(e, history, filter, k + 1)
<1>1. PICK n : n = Len(history) /\ n \in Nat \ {0}
  BY DEF IsHistory
<1>2. CASE k >= n
  <2>1. Q!At(history, k + 1) = Q!At(history, k)
    BY <1>1, <1>2 DEF Q!At
  <2>2. Newer(e, history, filter, k + 1) = Newer(e, history, filter, k)
    BY <2>1 DEF Newer
  <2>3. Newer(e, history, filter, k) \in Nat
    BY StayingIsListed
  <2> QED BY <2>2, <2>3
<1>3. CASE ~ (k >= n)
  <2>1. k \in 1 .. n - 1 /\ k <= n /\ k + 1 <= n
    BY <1>1, <1>3
  <2>2. Q!At(history, k) = history[k] /\ Q!At(history, k + 1) = history[k + 1]
    BY <1>1, <2>1 DEF Q!At
  <2>3. NewerThan(e, history[k], filter) <= NewerThan(e, history[k + 1], filter)
    BY <1>1, <2>1 DEF NeverMovesUp
  <2> QED BY <2>2, <2>3, Zenon DEF NewerThan, Over, Newer
<1> QED BY <1>2, <1>3

\* After page k an event has been seen, or it is further down.
Pending(e, seen, history, filter, size, k) ==
  /\ seen[k] \in Seq(Ever(history))
  /\ \/ e \in ToSet(seen[k])
     \/ k = 0
     \/ k * size <= Newer(e, history, filter, k)

\* The next page keeps it so.
LEMMA PendingOnNextPage ==
  ASSUME NEW history, IsHistory(history), NEW filter, NEW size, IsSize(size),
         NEW e, Stays(e, history, filter), NeverMovesUp(e, history, filter),
         NEW seen, NEW k \in Nat \ {0},
         seen[k] = seen[k - 1] \o PageOf(history, filter, size, k),
         Pending(e, seen, history, filter, size, k - 1)
  PROVE  Pending(e, seen, history, filter, size, k)
<1>1. PICK all : all = Ever(history)
  OBVIOUS
<1>2. PICK s, page : s = seen[k - 1] /\ page = PageOf(history, filter, size, k)
  OBVIOUS
<1>3. s \in Seq(all) /\ page \in Seq(all) /\ seen[k] = s \o page
  BY <1>1, <1>2, PageTyped DEF Pending
<1>4. seen[k] \in Seq(all)
  BY <1>3, ConcatProperties
<1>5. CASE e \in ToSet(s)
  <2>1. e \in ToSet(seen[k])
    BY <1>3, <1>5, SeenGrows
  <2> QED BY <1>1, <1>4, <2>1 DEF Pending
<1>6. CASE e \notin ToSet(s)
  <2>1. PICK a : a = Newer(e, history, filter, k) /\ a \in Nat
    BY StayingIsListed
  <2>2. PICK o, m : /\ o = Start(k, size) /\ o = (k - 1) * size /\ o \in Nat
                    /\ m = k * size /\ m \in Nat
    BY SizeOfPage, Products DEF Start
  <2>3. k - 1 = 0 \/ o <= Newer(e, history, filter, k - 1)
    BY <1>2, <1>6, <2>2 DEF Pending
  <2>4. o <= a
    <3>1. CASE k - 1 = 0
      <4>1. k = 1
        BY <3>1
      <4>2. o = 0
        BY <2>2, <4>1, SizeOfPage
      <4> QED BY <2>1, <4>2
    <3>2. CASE k - 1 # 0
      <4>1. PICK j : j = k - 1 /\ j \in Nat \ {0} /\ j + 1 = k
        BY <3>2
      <4>2. Newer(e, history, filter, j) \in Nat /\ Newer(e, history, filter, j) <= a
        BY <2>1, <4>1, StayingIsListed, NewerGrows
      <4> QED BY <2>1, <2>2, <2>3, <3>2, <4>1, <4>2
    <3> QED BY <3>1, <3>2
  <2>5. CASE a < m
    <3>1. PICK store, M : store = Q!At(history, k) /\ M = Q!Matching(store, filter)
      OBVIOUS
    <3>2. /\ Listable(store) /\ e \in M /\ \A f \in M : f.time = e.time => f = e
          /\ a = Cardinality(Over(M, e.time))
      BY <2>1, <3>1, StayingIsListed
    <3>3. page = Q!Page(store, filter, size, (k - 1) * size)
      BY <1>2, <3>1 DEF PageOf
    <3>4. Start(k, size) <= a /\ a < k * size
      BY <2>2, <2>4, <2>5
    <3>5. \E i \in DOMAIN page : page[i] = e
      BY <3>1, <3>2, <3>3, <3>4, PageShows
    <3>6. e \in ToSet(seen[k])
      BY <1>3, <3>5, SeenGrows
    <3> QED BY <1>1, <1>4, <3>6 DEF Pending
  <2>6. CASE ~ (a < m)
    <3>1. k * size <= Newer(e, history, filter, k)
      BY <2>1, <2>2, <2>6
    <3> QED BY <1>1, <1>4, <3>1 DEF Pending
  <2> QED BY <2>5, <2>6
<1> QED BY <1>5, <1>6

\* An event that stays and never moves up is seen.
LEMMA NothingMissed ==
  ASSUME NEW history, IsHistory(history), NEW filter, NEW size, IsSize(size),
         NEW e, Stays(e, history, filter), NeverMovesUp(e, history, filter)
  PROVE  e \in ToSet(Q!Walk(history, filter, size))
<1>1. PICK last : last = Q!LastPage(history, filter, size)
  OBVIOUS
<1>2. last \in Nat \ {0} /\ EndsAt(history, filter, size, last)
  BY <1>1, LastPageIsLast
<1>3. PICK seen : /\ Reads(seen, history, filter, size, last)
                  /\ Q!Walk(history, filter, size) = seen[last]
  BY <1>1, WalkEquation
<1>4. PICK T : T = {k \in 0 .. last : Pending(e, seen, history, filter, size, k)}
  OBVIOUS
<1>5. 0 \in T
  <2>1. seen[0] = <<>>
    BY <1>3 DEF Reads
  <2>2. seen[0] \in Seq(Ever(history))
    BY <2>1
  <2>3. Pending(e, seen, history, filter, size, 0)
    BY <2>2, Zenon DEF Pending
  <2> QED BY <1>2, <1>4, <2>3
<1>6. ASSUME NEW k \in 1 .. last, k - 1 \in T PROVE k \in T
  <2>1. k \in 0 .. last /\ k \in Nat \ {0}
    BY <1>2
  <2>2. seen[k] = seen[k - 1] \o PageOf(history, filter, size, k)
    BY <1>3 DEF Reads
  <2>3. Pending(e, seen, history, filter, size, k - 1)
    BY <1>4, <1>6
  <2>4. Pending(e, seen, history, filter, size, k)
    BY <2>1, <2>2, <2>3, PendingOnNextPage
  <2> QED BY <1>4, <2>1, <2>4
<1>7. last \in T
  <2>1. \A k \in 0 .. last : k \in T
    BY <1>2, <1>5, <1>6, BoundedInduction
  <2> QED BY <1>2, <2>1
<1>8. Pending(e, seen, history, filter, size, last)
  BY <1>4, <1>7
<1>9. ~ (last * size <= Newer(e, history, filter, last))
  <2>1. PICK a, b : /\ a = Newer(e, history, filter, last) /\ a \in Nat /\ b \in Nat
                    /\ b = Q!CountOf(Q!At(history, last), filter) /\ a < b
    BY <1>2, StayingIsListed
  <2>2. PICK d : d = last * size /\ d \in Nat
    BY <1>2, SizeOfPage, Products
  <2>3. d >= b
    BY <1>2, <2>1, <2>2 DEF EndsAt
  <2> QED BY <2>1, <2>2, <2>3
<1> QED BY <1>2, <1>3, <1>8, <1>9 DEF Pending

\* The listings of a history while the events stay: what stands at a place of what is
\* read stands there in one of them.
ReadSoFar(s, history, filter, M, n) ==
  /\ s \in Seq(M) /\ Len(s) = n
  /\ \A i \in 1 .. n : \E j \in DOMAIN history : s[i] = Q!Listing(history[j], filter)[i]

\* A further part of one of the listings.
LEMMA ReadsOn ==
  ASSUME NEW history, NEW filter, NEW M, NEW n \in Nat, NEW size, IsSize(size),
         NEW k \in Nat \ {0}, NEW j \in DOMAIN history,
         NEW list, list = Q!Listing(history[j], filter), list \in Seq(M), Len(list) = n,
         NEW s, ReadSoFar(s, history, filter, M, End(k - 1, size, n)),
         NEW part, part = Part(list, k, size)
  PROVE  ReadSoFar(s \o part, history, filter, M, End(k, size, n))
<1>1. PICK o, u, v : o = Start(k, size) /\ u = End(k, size, n) /\ v = End(k - 1, size, n)
  OBVIOUS
<1>2. /\ o \in Nat /\ u \in Nat /\ size \in Nat \ {0} /\ k * size = o + size
      /\ (k - 1) * size = o
  BY <1>1, SizeOfPage, EndsOfPart DEF Start
<1>3. /\ u = IF o + size <= n THEN o + size ELSE n
      /\ v = IF o <= n THEN o ELSE n
  BY <1>1, <1>2 DEF End
<1>4. v \in Nat /\ (o <= u => v = o) /\ (o > u => v = u)
  BY <1>2, <1>3
<1>5. /\ part \in Seq(M) /\ Len(part) = IF o <= u THEN u - o ELSE 0
      /\ \A i \in 1 .. u - o : part[i] = list[o + i]
  <2>1. IsPartOf(part, list, M, o, u)
    BY <1>1, <1>2, PartsOfList
  <2> QED BY <2>1 DEF IsPartOf
<1>6. /\ s \in Seq(M) /\ Len(s) = v
      /\ \A i \in 1 .. v : \E m \in DOMAIN history : s[i] = Q!Listing(history[m], filter)[i]
  BY <1>1 DEF ReadSoFar
<1>7. v + Len(part) = u
  <2>1. CASE o <= u
    BY <1>2, <1>4, <1>5, <2>1
  <2>2. CASE ~ (o <= u)
    BY <1>2, <1>4, <1>5, <2>2
  <2> QED BY <2>1, <2>2
<1>8. PICK f : f = s \o part
  OBVIOUS
<1>9. /\ f \in Seq(M) /\ Len(f) = u
      /\ \A i \in 1 .. u : f[i] = IF i <= v THEN s[i] ELSE part[i - v]
  <2>1. /\ s \o part \in Seq(M) /\ Len(s \o part) = Len(s) + Len(part)
        /\ \A i \in 1 .. Len(s) + Len(part) :
             (s \o part)[i] = IF i <= Len(s) THEN s[i] ELSE part[i - Len(s)]
    <3>1. s \in Seq(M) /\ part \in Seq(M)
      BY <1>5, <1>6
    <3> QED BY <3>1, ConcatProperties, Zenon
  <2>2. Len(s) = v /\ Len(s) + Len(part) = u
    BY <1>6, <1>7
  <2> QED BY <1>8, <2>1, <2>2, Zenon
<1>10. ASSUME NEW i \in 1 .. u
       PROVE  \E m \in DOMAIN history : f[i] = Q!Listing(history[m], filter)[i]
  <2>1. CASE i <= v
    <3>1. i \in 1 .. v /\ f[i] = s[i]
      BY <1>4, <1>9, <2>1
    <3> QED BY <1>6, <3>1
  <2>2. CASE ~ (i <= v)
    <3>1. v = o /\ i - v \in 1 .. u - o /\ o + (i - v) = i
      BY <1>2, <1>4, <2>2
    <3>2. f[i] = part[i - v]
      BY <1>9, <2>2
    <3>3. part[i - v] = list[o + (i - v)]
      BY <1>5, <3>1
    <3>4. f[i] = list[i]
      BY <3>1, <3>2, <3>3
    <3> QED BY <3>4
  <2> QED BY <2>1, <2>2
<1> QED BY <1>1, <1>8, <1>9, <1>10 DEF ReadSoFar

\* While the events stay as they are a reader reads place after place of the listing,
\* though each page of it may be in another order.
LEMMA ListingRead ==
  ASSUME NEW history, IsHistory(history), NEW filter, NEW size, IsSize(size),
         \A k \in DOMAIN history : history[k].events = history[1].events,
         NEW M, M = Q!Matching(history[1], filter), NEW n, n = Cardinality(M)
  PROVE  ReadSoFar(Q!Walk(history, filter, size), history, filter, M, n)
<1>1. PICK last : last = Q!LastPage(history, filter, size)
  OBVIOUS
<1>2. last \in Nat \ {0} /\ EndsAt(history, filter, size, last)
  BY <1>1, LastPageIsLast
<1>3. PICK seen : /\ Reads(seen, history, filter, size, last)
                  /\ Q!Walk(history, filter, size) = seen[last]
  BY <1>1, WalkEquation
<1>4. ASSUME NEW j \in DOMAIN history
      PROVE  /\ Listable(history[j]) /\ Q!Matching(history[j], filter) = M
             /\ Q!CountOf(history[j], filter) = n /\ n \in Nat
             /\ Q!Listing(history[j], filter) \in Seq(M)
             /\ Len(Q!Listing(history[j], filter)) = n
  <2>1. PICK store : store = history[j]
    OBVIOUS
  <2>2. Listable(store)
    BY <2>1 DEF IsHistory
  <2>3. M = Q!Matching(store, filter)
    BY <2>1 DEF Q!Matching
  <2>4. Q!CountOf(store, filter) = n /\ n \in Nat
    BY <2>2, <2>3, MatchingOfStore
  <2>5. PICK list : list = Q!Listing(store, filter)
    OBVIOUS
  <2>6. list \in Seq(M) /\ Len(list) = n
    BY <2>2, <2>3, <2>5, ListingIsRanked
  <2> QED BY <2>1, <2>2, <2>3, <2>4, <2>5, <2>6
<1>5. n \in Nat
  <2>1. 1 \in DOMAIN history
    BY DEF IsHistory
  <2> QED BY <1>4, <2>1
<1>6. PICK T : T = {k \in 0 .. last : ReadSoFar(seen[k], history, filter, M, End(k, size, n))}
  OBVIOUS
<1>7. 0 \in T
  <2>1. End(0, size, n) = 0
    BY <1>5, SizeOfPage DEF End
  <2>2. seen[0] = <<>>
    BY <1>3 DEF Reads
  <2>3. seen[0] \in Seq(M) /\ Len(seen[0]) = 0
    BY <2>2
  <2>4. ReadSoFar(seen[0], history, filter, M, 0)
    BY <2>3 DEF ReadSoFar
  <2> QED BY <1>2, <1>6, <2>1, <2>4
<1>8. ASSUME NEW k \in 1 .. last, k - 1 \in T PROVE k \in T
  <2>1. k \in 0 .. last /\ k \in Nat \ {0}
    BY <1>2
  <2>2. seen[k] = seen[k - 1] \o PageOf(history, filter, size, k)
    BY <1>3 DEF Reads
  <2>3. PICK j \in DOMAIN history : Q!At(history, k) = history[j]
    BY <2>1, StoreOfPage
  <2>4. PICK store, list : store = history[j] /\ list = Q!Listing(store, filter)
    OBVIOUS
  <2>5. list \in Seq(M) /\ Len(list) = n
    BY <1>4, <2>4
  <2>6. PageOf(history, filter, size, k) = Part(list, k, size)
    <3>1. Q!Page(store, filter, size, (k - 1) * size) = Part(list, k, size)
      BY <1>5, <2>1, <2>4, <2>5, PageIsPart
    <3> QED BY <2>3, <2>4, <3>1 DEF PageOf
  <2>7. PICK s : s = seen[k - 1] /\ ReadSoFar(s, history, filter, M, End(k - 1, size, n))
    BY <1>6, <1>8
  <2>8. PICK part : part = Part(list, k, size)
    OBVIOUS
  <2>9. ReadSoFar(s \o part, history, filter, M, End(k, size, n))
    BY <1>5, <2>1, <2>4, <2>5, <2>7, <2>8, ReadsOn
  <2> QED BY <1>6, <2>1, <2>2, <2>6, <2>7, <2>8, <2>9
<1>9. last \in T
  <2>1. \A k \in 0 .. last : k \in T
    BY <1>2, <1>7, <1>8, BoundedInduction
  <2> QED BY <1>2, <2>1
<1>10. ReadSoFar(seen[last], history, filter, M, End(last, size, n))
  BY <1>6, <1>9
<1>11. End(last, size, n) = n
  <2>1. Q!CountOf(Q!At(history, last), filter) = n
    BY <1>2, <1>4, StoreOfPage
  <2>2. PICK d : d = last * size /\ d \in Nat
    BY <1>2, SizeOfPage, Products
  <2>3. d >= n
    BY <1>2, <2>1, <2>2 DEF EndsAt
  <2> QED BY <1>5, <2>2, <2>3 DEF End
<1> QED BY <1>3, <1>10, <1>11

\* Every event of the period is acknowledged or pending, and of one kind.
LEMMA StatsAddUp ==
  ASSUME NEW store, Listable(store), NEW start, NEW end,
         NEW stats, stats = Q!Stats(store, start, end)
  PROVE  /\ stats.acknowledged + stats.pending = stats.total
         /\ stats.fire + stats.smoke <= stats.total
<1> DEFINE in == {e \in store.events : Q!InPeriod(e, start, end)}
           done == {e \in in : e.acknowledged}
           fire == {e \in in : e.kind = "fire"}
           smoke == {e \in in : e.kind = "smoke"}
<1>1. /\ stats.total = Cardinality(in) /\ stats.acknowledged = Cardinality(done)
      /\ stats.pending = Cardinality(in) - Cardinality(done)
      /\ stats.fire = Cardinality(fire) /\ stats.smoke = Cardinality(smoke)
  BY RankedInEventQueries DEF Q!Stats
<1>2. /\ in \in SUBSET store.events /\ done \in SUBSET in
      /\ fire \in SUBSET in /\ smoke \in SUBSET in /\ fire \cup smoke \in SUBSET in
  OBVIOUS
<1>3. fire \cap smoke = {}
  OBVIOUS
<1> HIDE DEF in, done, fire, smoke
<1>4. IsFiniteSet(in)
  BY <1>2, FS_Subset DEF Listable
<1>5. IsFiniteSet(done) /\ IsFiniteSet(fire) /\ IsFiniteSet(smoke)
  BY <1>2, <1>4, FS_Subset
<1>6. /\ Cardinality(in) \in Nat /\ Cardinality(done) \in Nat
      /\ Cardinality(fire) \in Nat /\ Cardinality(smoke) \in Nat
  BY <1>4, <1>5, FS_CardinalityType
<1>7. Cardinality(fire \cup smoke) = Cardinality(fire) + Cardinality(smoke)
  <2>1. Cardinality(fire \cup smoke)
          = Cardinality(fire) + Cardinality(smoke) - Cardinality(fire \cap smoke)
    BY <1>5, FS_Union
  <2>2. Cardinality(fire \cap smoke) = 0
    BY <1>3, FS_EmptySet
  <2> QED BY <1>6, <2>1, <2>2
<1>8. Cardinality(fire \cup smoke) <= Cardinality(in)
  BY <1>2, <1>4, FS_Subset
<1> QED BY <1>1, <1>6, <1>7, <1>8

\* The events and their reader stay as they were set, and the answer is that of
\* the code.
EventsInv ==
  task.kind = "events" =>
    /\ task.history \in Histories /\ task.size \in PageSizes
    /\ answer \in {<<>>,
         <<[walk |-> Q!Walk(task.history, task.filter, task.size),
            count |-> Q!CountOf(task.history[1], task.filter),
            stats |-> Q!Stats(task.history[1], task.filter.start, task.filter.end)]>>}

\* No step gives a reader another answer.
LEMMA EventsKept == Spec => []EventsInv
<1>1. Init => EventsInv
  BY DEF Init, EventsInv
<1>2. EventsInv /\ [Next]_vars => EventsInv'
  <2> SUFFICES ASSUME EventsInv, [Next]_vars, task'.kind = "events"
               PROVE  EventsInv'
    BY DEF EventsInv
  <2>1. task' = task
    BY DEF Next, vars, DetectObjects, PlaceFrame, RecogniseLayout, WatchCamera,
           ReadEvents, SynchroniseSettings, Answer
  <2>2. CASE ReadEvents
    BY <2>1, <2>2 DEF EventsInv, ReadEvents, Answer
  <2>3. CASE UNCHANGED vars
    BY <2>3 DEF EventsInv, vars
  <2>4. CASE \/ DetectObjects \/ PlaceFrame \/ RecogniseLayout
             \/ WatchCamera \/ SynchroniseSettings
    BY <2>1, <2>4 DEF DetectObjects, PlaceFrame, RecogniseLayout, WatchCamera,
                      SynchroniseSettings, Answer
  <2> QED BY <2>2, <2>3, <2>4 DEF Next
<1> QED BY <1>1, <1>2, PTL DEF Spec

\* Whatever arrives and goes between two pages, in whatever order the database puts
\* events of one time and whatever the size of the pages, a reader misses no event that
\* stays, has its time to itself and never moves up; while the events stay as they are
\* it reads as many as the count says, those of the filter, never a newer one after an
\* older, and one with its time to itself once.
THEOREM PagesAreComplete == Spec => []PagesComplete
<1>1. EventsInv => PagesComplete
  <2> SUFFICES ASSUME EventsInv, Answered("events") PROVE PagesComplete
    BY DEF PagesComplete
  <2>1. /\ task.history \in Histories /\ task.size \in PageSizes
        /\ The.walk = Q!Walk(task.history, task.filter, task.size)
        /\ The.count = Q!CountOf(task.history[1], task.filter)
        /\ The.stats = Q!Stats(task.history[1], task.filter.start, task.filter.end)
    BY DEF EventsInv, Answered, The
  <2>2. PICK history, filter, size :
          history = task.history /\ filter = task.filter /\ size = task.size
    OBVIOUS
  <2>3. IsHistory(history) /\ IsSize(size)
    <3>1. size \in PageSizes
      BY <2>1, <2>2
    <3>2. IsSize(size)
      BY <3>1, SizesOfTasks
    <3> QED BY <2>1, <2>2, <3>2, HistoriesOfTasks
  <2>4. PICK first : first = history[1] /\ Listable(first)
    BY <2>3 DEF IsHistory
  <2>5. PICK M : M = Q!Matching(first, filter)
    OBVIOUS
  <2>6. PICK seen : seen = The.walk /\ seen = Q!Walk(history, filter, size)
    BY <2>1, <2>2
  <2>7. \A e \in M : Stays(e, history, filter) /\ NeverMovesUp(e, history, filter) => e \in ToSet(seen)
    BY <2>3, <2>6, NothingMissed
  <2>8. ASSUME \A k \in DOMAIN history : history[k].events = history[1].events
        PROVE  /\ Len(seen) = The.count /\ ToSet(seen) \subseteq M
               /\ \A i, j \in DOMAIN seen : i < j => seen[i].time >= seen[j].time
               /\ \A i, j \in DOMAIN seen :
                    Stays(seen[i], history, filter) /\ seen[i] = seen[j] => i = j
    <3>1. PICK n \in Nat : n = Cardinality(M) /\ n = The.count
      BY <2>1, <2>2, <2>4, <2>5, MatchingOfStore
    <3>2. ReadSoFar(seen, history, filter, M, n)
      BY <2>3, <2>4, <2>5, <2>6, <2>8, <3>1, ListingRead
    <3>3. /\ seen \in Seq(M) /\ Len(seen) = n /\ DOMAIN seen = 1 .. n
          /\ \A i \in 1 .. n : \E j \in DOMAIN history : seen[i] = Q!Listing(history[j], filter)[i]
      BY <3>2 DEF ReadSoFar
    <3>4. ToSet(seen) \subseteq M
      BY <3>3 DEF ToSet
    <3>5. ASSUME NEW i \in 1 .. n
          PROVE  \E store : /\ Listable(store) /\ M = Q!Matching(store, filter)
                            /\ i \in DOMAIN Q!Listing(store, filter)
                            /\ seen[i] = Q!Listing(store, filter)[i]
      <4>1. PICK j \in DOMAIN history : seen[i] = Q!Listing(history[j], filter)[i]
        BY <3>3
      <4>2. PICK store : store = history[j] /\ Listable(store) /\ M = Q!Matching(store, filter)
        BY <2>3, <2>4, <2>5, <2>8 DEF IsHistory, Q!Matching
      <4>3. Q!Listing(store, filter) \in Seq(M) /\ Len(Q!Listing(store, filter)) = n
        <5>1. PICK list : list = Q!Listing(store, filter)
          OBVIOUS
        <5>2. list \in Seq(M) /\ Len(list) = Cardinality(M)
          BY <4>2, <5>1, ListingIsRanked
        <5> QED BY <3>1, <5>1, <5>2
      <4>4. i \in DOMAIN Q!Listing(store, filter)
        BY <4>3
      <4> QED BY <4>1, <4>2, <4>4
    <3>6. ASSUME NEW i \in 1 .. n, NEW j \in 1 .. n, i < j
          PROVE  seen[i].time >= seen[j].time
      <4>1. PICK a : /\ Listable(a) /\ M = Q!Matching(a, filter)
                     /\ i \in DOMAIN Q!Listing(a, filter) /\ seen[i] = Q!Listing(a, filter)[i]
        BY <3>5
      <4>2. PICK b : /\ Listable(b) /\ M = Q!Matching(b, filter)
                     /\ j \in DOMAIN Q!Listing(b, filter) /\ seen[j] = Q!Listing(b, filter)[j]
        BY <3>5
      <4>3. i <= j
        BY <3>6
      <4>4. Q!Listing(a, filter)[i].time >= Q!Listing(b, filter)[j].time
        BY <4>1, <4>2, <4>3, SameEventsSameTimes
      <4> QED BY <4>1, <4>2, <4>4
    <3>7. ASSUME NEW i \in 1 .. n, NEW j \in 1 .. n,
                 Stays(seen[i], history, filter), seen[i] = seen[j]
          PROVE  i = j
      <4>1. PICK e : e = seen[i] /\ e = seen[j]
        BY <3>7
      <4>2. e \in M /\ \A f \in M : f.time = e.time => f = e
        <5>1. 1 \in DOMAIN history
          BY <2>3 DEF IsHistory
        <5> QED BY <2>4, <2>5, <3>7, <4>1, <5>1 DEF Stays
      <4>3. ASSUME NEW k \in 1 .. n, seen[k] = e PROVE k = Cardinality(Over(M, e.time)) + 1
        <5>1. PICK a : /\ Listable(a) /\ M = Q!Matching(a, filter)
                       /\ k \in DOMAIN Q!Listing(a, filter) /\ seen[k] = Q!Listing(a, filter)[k]
          BY <3>5
        <5>2. PICK list : list = Q!Listing(a, filter)
          OBVIOUS
        <5>3. \A m \in DOMAIN list : list[m] = e => m = Cardinality(Over(M, e.time)) + 1
          BY <4>2, <5>1, <5>2, PlaceOfUnshared
        <5> QED BY <4>3, <5>1, <5>2, <5>3
      <4> QED BY <4>1, <4>3
    <3> QED BY <3>1, <3>3, <3>4, <3>6, <3>7
  <2>9. /\ The.stats.acknowledged + The.stats.pending = The.stats.total
        /\ The.stats.fire + The.stats.smoke <= The.stats.total
    BY <2>1, <2>2, <2>4, StatsAddUp
  <2> QED BY <2>2, <2>4, <2>5, <2>6, <2>7, <2>8, <2>9, Zenon DEF PagesComplete
<1> QED BY <1>1, EventsKept, PTL
=============================================================================
