---------------------------- MODULE MCAlgorithms ----------------------------
(* Algorithms for TLC.  The image has 4 by 4 cells, a second 6 ticks, the   *)
(* period of the rate 5; a canvas has 8 pixels a side.                      *)
EXTENDS Algorithms

CONSTANTS yard, hall

MCThreshold == [fire |-> 1, smoke |-> 1, other |-> 2]

Row(x1, y1, x2, y2, confidence, class) ==
    [x1 |-> x1, y1 |-> y1, x2 |-> x2, y2 |-> y2, confidence |-> confidence, class |-> class]

\* Corners: alike, shifted by a cell, apart, small, empty, and beyond the image.
Corners == {<<0, 0, 2, 2>>, <<0, 0, 2, 3>>, <<0, 0, 3, 3>>, <<1, 0, 3, 2>>, <<2, 2, 4, 4>>,
            <<0, 0, 4, 4>>, <<0, 0, 1, 1>>, <<2, 2, 3, 3>>, <<1, 1, 1, 3>>, <<-1, -1, 2, 2>>, <<3, 3, 6, 5>>}

Rows == {Row(c[1], c[2], c[3], c[4], conf, 0) : c \in Corners, conf \in 0..2}
          \union {Row(c[1], c[2], c[3], c[4], conf, class) :
                    c \in {<<0, 0, 2, 2>>, <<-1, -1, 2, 2>>}, conf \in 1..2, class \in {-1, 1, 2, 3}}

MCRowSets == {<<>>} \union {<<a>> : a \in Rows} \union {<<a, b, c>> : a, b, c \in Rows}

MCImageSizes == {32 * n : n \in 10..40}

MCArrivals == UNION {{t \in [1..n -> 0..8] : \A i \in 1..n - 1 : t[i] <= t[i + 1]} : n \in 0..5}

Event(id, kind, camera, time, acknowledged) ==
    [id |-> id, kind |-> kind, camera |-> camera, time |-> time, acknowledged |-> acknowledged]

\* Two of them of one time.
Early == {Event(1, "fire", yard, 1, TRUE), Event(2, "smoke", yard, 3, FALSE),
          Event(3, "fire", hall, 3, FALSE), Event(4, "stream_up", hall, 7, FALSE)}

\* The last one comes late, with the time of two others.
Later == {Event(5, "fire", yard, 9, FALSE), Event(6, "smoke", hall, 3, FALSE)}

\* Nothing happens, an event arrives, or one is deleted.
Changed(events) ==
    {events} \union {events \union {e} : e \in Later} \union {events \ {e} : e \in Early}

Orders == {[id \in 1..6 |-> id], [id \in 1..6 |-> -id]}

\* The events at three pages.
Turns ==
    UNION {{<<first, second, third>> : third \in Changed(second)} :
             <<first, second>> \in UNION {{<<e, f>> : f \in Changed(e)} : e \in SUBSET Early}}

MCHistories ==
    {[k \in 1..3 |-> [events |-> turns[k], order |-> orders[k]]] :
        turns \in Turns, orders \in [1..3 -> Orders]}

MCFilters ==
    {Q!NoFilter, [Q!NoFilter EXCEPT !.kind = "fire"], [Q!NoFilter EXCEPT !.camera = hall],
     [Q!NoFilter EXCEPT !.acknowledged = FALSE], [Q!NoFilter EXCEPT !.start = 3, !.end = 5]}

Camera(id, url) ==
    [id |-> id, url |-> url, enabled |-> TRUE, fps |-> 1, imgsz |-> 320, conf |-> 50,
     window |-> 5, hits |-> 5, codec |-> "h265"]

Gate == <<C!Literal("gate")>>
LongName == [i \in 1..2 |-> [type |-> "literal", default |-> <<>>,
                             name |-> IF i = 1 THEN "gate" ELSE "-with-a-long-name"]]
MCLongIds == {LongName}

Known == <<C!Literal("rtsp://yard")>>
Secret == <<C!Literal("rtsp://"), C!Variable("PASSWORD"), C!Braced("HOST", <<C!Literal("nvr")>>)>>
Unknown == <<C!Variable("PASSWORD")>>

\* Rows with every id and URL, and rows that differ in a setting.
MCCameras ==
    {Camera(id, url) : id \in {Gate, LongName, Unknown, <<>>, Absent}, url \in {Known, Secret, Unknown}}
      \union {[Camera(<<C!Literal("cam")>>, Unknown) EXCEPT !.enabled = FALSE]}
      \union {[Camera(<<C!Literal("cam")>>, Known) EXCEPT ![change[1]] = change[2]] :
                change \in {<<"fps", 0>>, <<"conf", 0>>, <<"window", 0>>, <<"hits", 6>>,
                            <<"imgsz", 0>>, <<"codec", "h264">>}}

MCCameraLists == {<<>>} \union {<<a, b>> : a, b \in MCCameras}

MCSettings == {[device |-> d, model |-> m, batch |-> b] :
                 d \in {"cpu", "cuda:0"}, m \in {"models/best.onnx", "own.onnx", Absent}, b \in 0..1}

Host == "HOST" :> <<C!Literal("nvr"), C!Variable("PASSWORD")>>
MCEnvironments == {<<>>, Host, Host @@ ("PASSWORD" :> <<C!Literal("secret")>>)}

HandEntries == {[id |-> Gate, url |-> url] : url \in {Known, Secret}} \union
               {[id |-> Gate, url |-> Known, fps |-> fps] : fps \in {0, 5}}

MCHandWritten ==
    {[global |-> global, cameras |-> <<entry>>] :
       entry \in HandEntries,
       global \in {Absent, [fps |-> 2, imgsz |-> 320, reconnect |-> [max_retries |-> 5],
                            inference |-> [device |-> "cpu", model |-> "old.onnx", batch |-> 1]]}}
=============================================================================
