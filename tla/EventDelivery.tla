--------------------------- MODULE EventDelivery ---------------------------
(***************************************************************************)
(* An event on its way from the detector's processing task to the table    *)
(* events, the browsers and Telegram: the publisher's broadcast ring, the  *)
(* gRPC stream the API listens to, the listener that stores, broadcasts    *)
(* and alerts, and the ring of the WebSocket connections.  Rings overrun,  *)
(* streams break, the API crashes, statements fail, and cameras are        *)
(* deleted with their events while all this goes on.                       *)
(*                                                                         *)
(* An event is its number in published.  The contents that no property     *)
(* tells apart (confidence, boxes, metadata, picture) are left out, and    *)
(* so are the waiting times between two connections.                       *)
(***************************************************************************)
EXTENDS Naturals, Sequences, SequencesExt

CONSTANTS Cameras,      \* detector camera ids
          Kinds,        \* kinds of events that occur
          Clients,      \* browsers
          Capacity,     \* of the publisher's broadcast channel
          Wire,         \* events the transport holds for the API
          WsCapacity,   \* of the channel of the WebSocket connections
          MaxEvents,    \* bound: events in a behaviour
          MaxFaults     \* bound: broken streams and crashes of the API

ASSUME EventDeliveryAssumption ==
    /\ Kinds \subseteq {"fire", "smoke", "stream_down", "stream_up"}
    /\ Capacity \in Nat \ {0} /\ Wire \in Nat \ {0} /\ WsCapacity \in Nat \ {0}
    /\ MaxEvents \in Nat /\ MaxFaults \in Nat

VARIABLES published,   \* events in the order in which they are raised
          stream,      \* the detector's side of the API's subscription
          listener,    \* the API's event listener
          registered,  \* cameras with a row in the table cameras
          rows,        \* the table events
          shown,       \* events broadcast to the WebSocket connections
          client,      \* the connections
          stored, alerted,   \* history: events stored, events sent to Telegram
          fate,        \* history: what became of each event published
          faults

vars == <<published, stream, listener, registered, rows, shown, client,
          stored, alerted, fate, faults>>

NoStream == [at |-> "none", next |-> 0, wire |-> <<>>]
Connecting == [at |-> "connecting", event |-> 0]

Kind(e) == published[e].kind
Camera(e) == published[e].camera

(***************************************************************************)
(* The detector                                                            *)
(***************************************************************************)

\* publish, publish_stream_down, publish_stream_up: the event goes into the
\* ring when there is a receiver, else it is dropped.
Publish ==
    /\ Len(published) < MaxEvents
    /\ \E k \in Kinds, c \in Cameras :
         published' = Append(published, [kind |-> k, camera |-> c])
    /\ fate' = Append(fate, IF stream.at = "open" THEN "sent" ELSE "unheard")
    /\ UNCHANGED <<stream, listener, registered, rows, shown, client,
                   stored, alerted, faults>>

Lagged == Len(published) >= stream.next + Capacity

\* Events no one will deliver any more.
Lose(lost) ==
    fate' = [e \in DOMAIN fate |-> IF e \in lost /\ fate[e] = "sent" THEN "lost" ELSE fate[e]]

Unread == stream.next..Len(published)

\* Mutant of SendEvent: an overrun receiver goes on behind the gap.
SendEventSkips ==
    /\ stream.at = "open" /\ stream.next <= Len(published) /\ Len(stream.wire) < Wire
    /\ LET e == IF Lagged THEN Len(published) ELSE stream.next
       IN  stream' = [stream EXCEPT !.next = e + 1, !.wire = Append(@, e)]
    /\ UNCHANGED <<published, listener, registered, rows, shown, client,
                   stored, alerted, fate, faults>>

\* The task of stream_events: it hands on what it receives, and ends with the
\* first error, an overrun of its receiver among them.
SendEvent ==
    /\ stream.at = "open"
    /\ IF Lagged
       THEN stream' = [stream EXCEPT !.at = "ended"] /\ Lose(Unread)
       ELSE /\ stream.next <= Len(published) /\ Len(stream.wire) < Wire
            /\ stream' = [stream EXCEPT !.next = @ + 1, !.wire = Append(@, stream.next)]
            /\ UNCHANGED fate
    /\ UNCHANGED <<published, listener, registered, rows, shown, client,
                   stored, alerted, faults>>

(***************************************************************************)
(* The event listener                                                      *)
(***************************************************************************)

Listener(at, e) == listener' = [at |-> at, event |-> e]

\* connect and the call of stream_events; when it fails the listener sleeps
\* and tries again.
Connect ==
    /\ listener.at = "connecting"
    /\ stream' = [at |-> "open", next |-> Len(published) + 1, wire |-> <<>>]
    /\ Listener("reading", 0)
    /\ UNCHANGED <<published, registered, rows, shown, client, stored, alerted, fate, faults>>

\* Mutant of Receive: only a broken stream is noticed, not one that ends.
ReceiveIgnoresEnd ==
    /\ listener.at = "reading"
    /\ \/ /\ stream.wire # <<>>
          /\ stream' = [stream EXCEPT !.wire = Tail(@)]
          /\ Listener("convert", Head(stream.wire))
       \/ /\ stream.wire = <<>> /\ stream.at \in {"broken", "none"}
          /\ stream' = NoStream
          /\ listener' = Connecting
    /\ UNCHANGED <<published, registered, rows, shown, client, stored, alerted, fate, faults>>

\* stream.message(): the next event, or the end of the stream.
Receive ==
    /\ listener.at = "reading"
    /\ \/ /\ stream.wire # <<>>
          /\ stream' = [stream EXCEPT !.wire = Tail(@)]
          /\ Listener("convert", Head(stream.wire))
       \/ /\ stream.wire = <<>> /\ stream.at # "open"
          /\ stream' = NoStream
          /\ listener' = Connecting
    /\ UNCHANGED <<published, registered, rows, shown, client, stored, alerted, fate, faults>>

\* handle_event returns early: the error is logged and the next event read.
Refuse ==
    /\ listener.at \in {"convert", "save"}
    /\ fate' = [fate EXCEPT ![listener.event] = "refused"]
    /\ Listener("reading", 0)
    /\ UNCHANGED <<published, stream, registered, rows, shown, client, stored, alerted, faults>>

\* The detector's camera id is looked up; an unknown one is an error.
Convert ==
    /\ listener.at = "convert" /\ Camera(listener.event) \in registered
    /\ Listener("save", listener.event)
    /\ UNCHANGED <<published, stream, registered, rows, shown, client,
                   stored, alerted, fate, faults>>

\* The row refers to the camera's: the insert fails when that is gone.
Save ==
    LET e == listener.event
    IN  /\ listener.at = "save" /\ Camera(e) \in registered
        /\ rows' = rows \union {[id |-> e, acknowledged |-> FALSE]}
        /\ stored' = Append(stored, e)
        /\ fate' = [fate EXCEPT ![e] = "stored"]
        /\ Listener("show", e)
        /\ UNCHANGED <<published, stream, registered, shown, client, alerted, faults>>

\* get_camera, for the name: a deleted camera is shown as unknown, a failing
\* statement ends the handling of the event.
Show ==
    LET e == listener.event
    IN  /\ listener.at = "show"
        /\ \/ /\ shown' = Append(shown, e)
              /\ IF Kind(e) \in {"fire", "smoke"}
                 THEN Listener("alert", e) ELSE Listener("reading", 0)
           \/ UNCHANGED shown /\ Listener("reading", 0)
        /\ UNCHANGED <<published, stream, registered, rows, client,
                       stored, alerted, fate, faults>>

\* Mutant of Alert: a message that may have been sent is sent again.
AlertRetries ==
    /\ listener.at = "alert"
    /\ alerted' \in {alerted, Append(alerted, listener.event)}
    /\ listener' \in {listener, [at |-> "reading", event |-> 0]}
    /\ Len(alerted) < MaxEvents
    /\ UNCHANGED <<published, stream, registered, rows, shown, client, stored, fate, faults>>

\* send_fire_alert returns within its time-out, sent or not.
Alert ==
    /\ listener.at = "alert"
    /\ alerted' \in {alerted, Append(alerted, listener.event)}
    /\ Listener("reading", 0)
    /\ UNCHANGED <<published, stream, registered, rows, shown, client, stored, fate, faults>>

(***************************************************************************)
(* Browsers and users                                                      *)
(***************************************************************************)

SetClient(c, at) == client' = [client EXCEPT ![c].at = at]

\* The browser's connection is open before the server's task has subscribed.
Open(c) ==
    /\ client[c].at = "closed"
    /\ SetClient(c, "opening")
    /\ UNCHANGED <<published, stream, listener, registered, rows, shown,
                   stored, alerted, fate, faults>>

Subscribe(c) ==
    /\ client[c].at = "opening"
    /\ client' = [client EXCEPT ![c].at = "open", ![c].next = Len(shown) + 1]
    /\ UNCHANGED <<published, stream, listener, registered, rows, shown,
                   stored, alerted, fate, faults>>

\* The sending task of a connection.  It ends with the first error; the task
\* that reads is detached then and keeps the connection open.
Deliver(c) ==
    /\ client[c].at = "open" /\ client[c].next <= Len(shown)
    /\ IF Len(shown) >= client[c].next + WsCapacity
       THEN SetClient(c, "deaf")
       ELSE client' = [client EXCEPT ![c].next = @ + 1,
                                     ![c].got = Append(@, shown[client[c].next])]
    /\ UNCHANGED <<published, stream, listener, registered, rows, shown,
                   stored, alerted, fate, faults>>

\* The page is left, or the connection is lost; the browser opens another.
Close(c) ==
    /\ client[c].at # "closed"
    /\ SetClient(c, "closed")
    /\ UNCHANGED <<published, stream, listener, registered, rows, shown,
                   stored, alerted, fate, faults>>

Acknowledge ==
    /\ \E row \in rows :
         rows' = (rows \ {row}) \union {[row EXCEPT !.acknowledged = TRUE]}
    /\ UNCHANGED <<published, stream, listener, registered, shown, client,
                   stored, alerted, fate, faults>>

\* Mutant of DeleteCamera: the rows of its events stay.
DeleteCameraOnly(c) ==
    /\ c \in registered
    /\ registered' = registered \ {c}
    /\ UNCHANGED <<published, stream, listener, rows, shown, client, stored, alerted, fate, faults>>

\* The rows of its events are deleted with the camera's.
DeleteCamera(c) ==
    /\ c \in registered
    /\ registered' = registered \ {c}
    /\ rows' = {row \in rows : Camera(row.id) # c}
    /\ UNCHANGED <<published, stream, listener, shown, client, stored, alerted, fate, faults>>

(***************************************************************************)
(* Faults                                                                  *)
(***************************************************************************)

\* The network fails or the detector crashes: the receiver is dropped, and
\* what the transport held is lost.
Break ==
    /\ stream.at = "open" /\ faults < MaxFaults
    /\ faults' = faults + 1
    /\ stream' = [stream EXCEPT !.at = "broken", !.wire = <<>>]
    /\ Lose(Unread \union ToSet(stream.wire))
    /\ UNCHANGED <<published, listener, registered, rows, shown, client, stored, alerted>>

Handled == IF listener.at \in {"convert", "save"} THEN {listener.event} ELSE {}

Crash ==
    /\ faults < MaxFaults
    /\ faults' = faults + 1
    /\ listener' = Connecting
    /\ stream' = NoStream
    /\ client' = [c \in Clients |-> [client[c] EXCEPT !.at = "closed"]]
    /\ Lose(Unread \union ToSet(stream.wire) \union Handled)
    /\ UNCHANGED <<published, registered, rows, shown, stored, alerted>>

(***************************************************************************)
(* Specification                                                           *)
(***************************************************************************)

Init ==
    /\ published = <<>> /\ stream = NoStream /\ listener = Connecting
    /\ registered \in SUBSET Cameras
    /\ rows = {} /\ shown = <<>>
    /\ client = [c \in Clients |-> [at |-> "closed", next |-> 0, got |-> <<>>]]
    /\ stored = <<>> /\ alerted = <<>> /\ fate = <<>> /\ faults = 0

ListenerStep == Connect \/ Receive \/ Refuse \/ Convert \/ Save \/ Show \/ Alert

Next ==
    \/ Publish \/ SendEvent \/ ListenerStep
    \/ \E c \in Clients : Open(c) \/ Subscribe(c) \/ Deliver(c) \/ Close(c)
    \/ Acknowledge \/ \E c \in Cameras : DeleteCamera(c)
    \/ Break \/ Crash

Spec == Init /\ [][Next]_vars

\* The tasks are driven by the runtime, and the listener's retries end when
\* the detector can be reached again.  Nothing is assumed of browsers.
FairSpec == Spec /\ WF_vars(SendEvent) /\ WF_vars(ListenerStep)

(***************************************************************************)
(* Properties                                                              *)
(***************************************************************************)

Fates == {"sent", "unheard", "stored", "refused", "lost"}

\* Every variable has its type; a row belongs to a camera that is registered.
TypeOK ==
    /\ \A e \in DOMAIN published : Kind(e) \in Kinds /\ Camera(e) \in Cameras
    /\ stream.at \in {"none", "open", "ended", "broken"}
    /\ ToSet(stream.wire) \subseteq DOMAIN published
    /\ listener.at \in {"connecting", "reading", "convert", "save", "show", "alert"}
    /\ \A row \in rows : Camera(row.id) \in registered
    /\ \A c \in Clients : client[c].at \in {"closed", "opening", "open", "deaf"}
    /\ ToSet(fate) \subseteq Fates /\ Len(fate) = Len(published)

\* main.rs and ws.rs keep the order of the events across every reconnection
\* and crash: nothing is stored, shown to a client or alerted twice or out of
\* order, nothing is shown before it is stored, and Telegram hears of alarms only.
Feed == INSTANCE EventFeed WITH got <- [c \in Clients |-> client[c].got]
ImplementsFeed == Feed!Spec

\* An event published while the API is subscribed is stored or refused, unless
\* the stream breaks or overruns or the API crashes before: none is forgotten.
SentIsSettled ==
    \A e \in 1..MaxEvents :
        (e \in DOMAIN fate /\ fate[e] = "sent") ~> (e \in DOMAIN fate /\ fate[e] # "sent")

\* Whatever broke, overran or crashed, the listener comes to listen again.
ListensAgain == <>[](listener.at = "reading" /\ stream.at = "open")

\* README.md:722, "API broadcast qua WebSocket toi tat ca browser dang ket noi"
\* (the API broadcasts to every browser that is connected): an event is not
\* broadcast past a connection whose task has subscribed and that is still open.
BroadcastReachesConnected ==
    [][\A c \in Clients :
         shown' # shown /\ client[c].at \in {"open", "deaf"} => client[c].at = "open"]_vars
=============================================================================
