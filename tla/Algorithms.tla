----------------------------- MODULE Algorithms -----------------------------
(***************************************************************************)
(* The pure computations of the system, each on every input of a bounded   *)
(* set and against a definition of what it is for.  A behaviour is one     *)
(* task and its answer.                                                    *)
(***************************************************************************)
EXTENDS Integers, Sequences, FiniteSets, SequencesExt

CONSTANTS Size, Threshold, Second, Period, Unset, Absent, LongIds,
          RowSets,      \* outputs of the model, as rows
          FrameSides,   \* sides of frames
          Canvases,     \* sides of canvases the frames are put on, imgsz
          ModelInput,   \* the side the detector takes every canvas to have
          ImageSizes,   \* settings imgsz
          Arrivals,     \* times at which frames arrive
          Rates,        \* settings fps_sample
          Histories,    \* stores of events, from page to page of a reader
          Filters, PageSizes,
          CameraLists, Settings, Environments, HandWritten

P == INSTANCE Postprocess
L == INSTANCE Letterbox
S == INSTANCE Sampling
Q == INSTANCE EventQueries
C == INSTANCE CameraSettings

ASSUME AlgorithmsAssumption ==
    /\ {Size, ModelInput, Second, Period} \subseteq Nat \ {0}
    /\ Threshold \in [{"fire", "smoke", "other"} -> Int]
    /\ RowSets \subseteq Seq([x1 : Int, y1 : Int, x2 : Int, y2 : Int, confidence : Int, class : Int])
    /\ C!DefaultInference.model # Absent
    /\ ImageSizes \subseteq {n \in Nat : n >= 320}
    /\ FrameSides \union Canvases \subseteq Nat \ {0} /\ Rates \subseteq Nat
    /\ \A times \in Arrivals :
         times \in Seq(Nat) /\ \A i, j \in DOMAIN times : i <= j => times[i] <= times[j]
    /\ PageSizes \subseteq 1..Q!MaxLimit
    /\ \A history \in Histories :
         /\ history \in Seq(ToSet(history)) \ {<<>>}
         /\ \A k \in DOMAIN history : Q!IsStore(history[k])
    /\ \A cams \in CameraLists : \A i \in DOMAIN cams :
         /\ cams[i] = [f \in C!Texts \union C!Optional |-> cams[i][f]]
         /\ cams[i].url \in Seq(ToSet(cams[i].url))
         /\ cams[i].id # Absent => cams[i].id \in Seq(ToSet(cams[i].id))

VARIABLES task, answer

vars == <<task, answer>>

Init ==
    /\ \/ \E rows \in RowSets : task = [kind |-> "detections", rows |-> rows]
       \/ \E w, h \in FrameSides, side \in Canvases :
            task = [kind |-> "canvas", w |-> w, h |-> h, side |-> side]
       \/ \E imgsz \in ImageSizes : task = [kind |-> "layout", imgsz |-> imgsz]
       \/ \E times \in Arrivals, fps \in Rates :
            task = [kind |-> "camera", times |-> times, fps |-> fps]
       \/ \E history \in Histories, filter \in Filters, size \in PageSizes :
            task = [kind |-> "events", history |-> history, filter |-> filter, size |-> size]
       \/ \E cams \in CameraLists, settings \in Settings, env \in Environments, file \in HandWritten :
            task = [kind |-> "settings", cams |-> cams, settings |-> settings,
                    env |-> env, file |-> file]
    /\ answer = <<>>

Answer(kind, value) ==
    /\ task.kind = kind /\ answer = <<>>
    /\ answer' = <<value>>
    /\ UNCHANGED task

\* run_inference, behind the session.
DetectObjects ==
    Answer("detections", P!EndToEnd(task.rows))

PlaceFrame ==
    /\ task.kind = "canvas"
    /\ \E p \in L!Placements(task.w, task.h, task.side) : Answer("canvas", p)

RecogniseLayout ==
    Answer("layout", [standard |-> P!TakenAsStandard(P!StandardLength(task.imgsz)),
                      endToEnd |-> P!TakenAsStandard(P!EndToEndLength(300))])

WatchCamera ==
    Answer("camera", [sampled |-> S!Sample(task.times, task.fps),
                      recorded |-> S!Recorded(task.times)])

ReadEvents ==
    Answer("events", [walk |-> Q!Walk(task.history, task.filter, task.size),
                      count |-> Q!CountOf(task.history[1], task.filter),
                      stats |-> Q!Stats(task.history[1], task.filter.start, task.filter.end)])

SynchroniseSettings ==
    Answer("settings", [before |-> C!Loaded(task.file, task.settings, task.env),
                        after |-> C!Loaded(C!Written(task.cams), task.settings, task.env)])

Next ==
    \/ DetectObjects \/ PlaceFrame \/ RecogniseLayout
    \/ WatchCamera \/ ReadEvents \/ SynchroniseSettings

Spec == Init /\ [][Next]_vars

Answered(kind) == task.kind = kind /\ answer # <<>>
The == answer[1]

(***************************************************************************)
(* Detections                                                              *)
(***************************************************************************)

Cells(box) ==
    (box.x..box.x + box.width - 1) \X (box.y..box.y + box.height - 1)

\* More than 45 per cent of the cells of either box are cells of both.
Same(a, b) ==
    100 * Cardinality(Cells(a.box) \intersect Cells(b.box))
        > 45 * Cardinality(Cells(a.box) \union Cells(b.box))

\* postprocess.rs: no object is reported twice, none is lost, and none is
\* invented.  Two detections of a class that are reported share less than 45 per
\* cent of their cells; one left out shares more with a reported one of its class
\* that is at least as sure; every box lies in the image.
SuppressionSound ==
    Answered("detections") =>
        LET accepted == P!Accepted(task.rows)
            found == The
        IN  /\ ToSet(found) \subseteq {accepted[i] : i \in DOMAIN accepted}
            /\ \A i, j \in DOMAIN found :
                 i # j /\ found[i].class = found[j].class => ~Same(found[i], found[j])
            /\ \A i \in DOMAIN accepted :
                 \/ accepted[i] \in ToSet(found)
                 \/ \E k \in DOMAIN found :
                      /\ found[k].class = accepted[i].class
                      /\ found[k].confidence >= accepted[i].confidence
                      /\ Same(found[k], accepted[i])
            /\ \A i \in DOMAIN found : Cells(found[i].box) \subseteq (0..Size - 1) \X (0..Size - 1)

\* A row that lies in the image, as a column of the standard layout.
Column(row) ==
    [cx |-> row.x1 + row.x2, cy |-> row.y1 + row.y2,
     w |-> row.x2 - row.x1, h |-> row.y2 - row.y1,
     probs |-> [c \in 1..3 |-> IF c = row.class + 1 THEN row.confidence ELSE 0]]

AsColumn(row) ==
    /\ {row.x1, row.y1, row.x2, row.y2} \subseteq 0..Size
    /\ row.class \in 0..2 /\ row.confidence > 0

\* engine.rs:252 tells the layouts apart by the length of the output alone: it
\* tells them right for every image size the API admits, and whichever layout the
\* exported model has, the same objects in the image are the same detections, in
\* the same order.
LayoutsAgree ==
    /\ Answered("layout") => The.standard /\ ~The.endToEnd
    /\ Answered("detections") /\ (\A i \in DOMAIN task.rows : AsColumn(task.rows[i]))
         => The = P!Standard([i \in DOMAIN task.rows |-> Column(task.rows[i])])

(***************************************************************************)
(* Frames                                                                  *)
(***************************************************************************)

\* preprocess.rs:64 subtracts and :75 copies without a check: however f32 rounds, the
\* copied rows are a rectangle of the canvas in the middle of it, which falls at most
\* a pixel short of filling it in one direction, so nothing underflows and no row
\* runs over into the next; with a whole scale, as for the frames that the pipelines
\* make, it fills it.  On a frame made for a canvas of the side that postprocess.rs:80
\* divides by, what is found at a pixel is drawn there.
FrameOnCanvas ==
    Answered("canvas") =>
        LET p == The
            side == task.side
            row(o) == o \div side
            col(o) == o % side
        IN  /\ p.padX >= 0 /\ p.padY >= 0
            /\ {side, side - 1} \intersect {p.newW, p.newH} # {}
            /\ side % L!Longer(task.w, task.h) = 0 => side \in {p.newW, p.newH}
            /\ side - p.newW - 2 * p.padX \in {0, 1}
            /\ side - p.newH - 2 * p.padY \in {0, 1}
            /\ {<<col(o), row(o)>> : o \in L!Copied(p, side)}
                 = (p.padX..p.padX + p.newW - 1) \X (p.padY..p.padY + p.newH - 1)
            /\ {task.w, task.h, side} = {ModelInput} =>
                 \A v \in 0..side - 1 :
                     /\ L!Drawn(L!OnCanvas(v, p.newW, task.w, p.padX), task.w) = v
                     /\ L!Drawn(L!OnCanvas(v, p.newH, task.h, p.padY), task.h) = v

(***************************************************************************)
(* Cameras                                                                 *)
(***************************************************************************)

\* sampler.rs: the first frame is sampled; two sampled frames are an interval
\* apart or more, and no frame is skipped that came an interval after the last
\* sampled one, so sampling never falls behind by more than a frame.
SampledInTime ==
    Answered("camera") =>
        LET times == task.times
            taken == The.sampled
            interval == S!MinInterval(task.fps)
        IN  /\ times # <<>> => 1 \in taken
            /\ \A i, j \in taken : i < j => times[j] - times[i] >= interval
            /\ \A i \in DOMAIN times \ taken :
                 \E j \in taken : j < i /\ times[i] - times[j] < interval

\* status.rs: whenever it is asked for, the rate is that of the last five seconds
\* of the whole history, although frames are forgotten only as others arrive.
RateOfHistory ==
    Answered("camera") =>
        \A now \in 0..3 * Period :
            task.times # <<>> /\ now >= Last(task.times)
                => S!Rate(The.recorded, now) = S!Rate(task.times, now)

(***************************************************************************)
(* Events                                                                  *)
(***************************************************************************)

\* An event that every page could list, alone with its time among those listed.
Stays(e, history, filter) ==
    \A k \in DOMAIN history :
        LET listed == Q!Matching(history[k], filter)
        IN  e \in listed /\ \A f \in listed : f.time = e.time => f = e

NewerThan(e, store, filter) == Cardinality({f \in Q!Matching(store, filter) : f.time > e.time})

\* From page to page no fewer events are listed before e.
NeverMovesUp(e, history, filter) ==
    \A k \in 1..Len(history) - 1 :
        NewerThan(e, history[k], filter) <= NewerThan(e, history[k + 1], filter)

\* routes/events.rs, EventsPage.tsx: a reader who turns the pages while events
\* arrive and go misses none that stays, unless it shares its time or as many newer
\* ones go that it moves up.  While the events stay as they are it reads as many as
\* the total says, all of the filter, never a newer one after an older, and each
\* that has its time to itself once, in whatever order the database puts the others.
\* The statistics add up.
PagesComplete ==
    Answered("events") =>
        LET history == task.history
            filter == task.filter
            listed == Q!Matching(history[1], filter)
            seen == The.walk
            stats == The.stats
        IN  /\ \A e \in listed :
                 Stays(e, history, filter) /\ NeverMovesUp(e, history, filter) => e \in ToSet(seen)
            /\ (\A k \in DOMAIN history : history[k].events = history[1].events) =>
                 /\ Len(seen) = The.count /\ ToSet(seen) \subseteq listed
                 /\ \A i, j \in DOMAIN seen : i < j => seen[i].time >= seen[j].time
                 /\ \A i, j \in DOMAIN seen :
                      Stays(seen[i], history, filter) /\ seen[i] = seen[j] => i = j
            /\ stats.acknowledged + stats.pending = stats.total
            /\ stats.fire + stats.smoke <= stats.total

(***************************************************************************)
(* Settings                                                                *)
(***************************************************************************)

IsLiteral(text) == \A p \in DOMAIN text : text[p].type = "literal"

\* A row that has no variable in its texts.
Plain(cam) == IsLiteral(cam.id) /\ IsLiteral(cam.url)

\* camera_sync.rs:13 "Minimal camera entry that matches the detector's
\* CameraConfig serde format": when the detector accepts what the API wrote, it
\* loads every camera with a detector id as it is in the table, unless one of its
\* texts has a variable in it.  Without variables it accepts it just when there is
\* such a camera, no two have the same id (which the table lets them) and each is
\* valid by itself, a zero included that a hand-written section of defaults would
\* have replaced.  And a model or a device that settings.yaml names (loader.rs:69)
\* stays in use when the API replaces a hand-written cameras.yaml and with it the
\* section of defaults.
TableReachesDetector ==
    Answered("settings") =>
        LET mapped == C!Mapped(task.cams)
            rows == [i \in mapped |-> task.cams[i]]
            Named == task.settings.model # C!DefaultInference.model \/
                     task.settings.device # C!DefaultInference.device
            Loads(file) == file # <<>>
        IN  /\ Loads(The.after) =>
                 /\ DOMAIN The.after[1].cameras = mapped
                 /\ \A i \in mapped : Plain(rows[i]) => The.after[1].cameras[i] = rows[i]
            /\ (\A i \in mapped : Plain(rows[i])) =>
                 (Loads(The.after) <=>
                     /\ mapped # {} /\ C!DifferentIds(rows)
                     /\ \A i \in mapped : C!ValidCamera(rows[i])
                     /\ Named => C!ValidInference(task.settings))
            /\ Named /\ Loads(The.before) /\ Loads(The.after) =>
                 The.before[1].inference = The.after[1].inference
=============================================================================
