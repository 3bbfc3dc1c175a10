------------------------ MODULE EventDeliveryProofs ------------------------
(***************************************************************************)
(* Proofs about EventDelivery, for every set of cameras, kinds of events   *)
(* and browsers, every capacity of the rings and of the transport, and any *)
(* number of events and faults.                                            *)
(***************************************************************************)
EXTENDS EventDelivery, TLAPS

-----------------------------------------------------------------------------
(* Sequences of event numbers. *)

Below(set, e) == \A x \in set : x < e
Increasing(seq) == \A i, j \in DOMAIN seq : i < j => seq[i] < seq[j]

\* Appending to a sequence.
LEMMA Appended ==
  ASSUME NEW T, NEW seq \in Seq(T), NEW x \in T
  PROVE  /\ Append(seq, x) \in Seq(T)
         /\ Len(Append(seq, x)) = Len(seq) + 1 /\ Len(seq) \in Nat
         /\ DOMAIN seq = 1..Len(seq) /\ DOMAIN Append(seq, x) = 1..Len(seq) + 1
         /\ \A i \in 1..Len(seq) : Append(seq, x)[i] = seq[i]
         /\ Append(seq, x)[Len(seq) + 1] = x
         /\ ToSet(Append(seq, x)) = ToSet(seq) \union {x}
<1>1. /\ Append(seq, x) \in Seq(T)
      /\ Len(Append(seq, x)) = Len(seq) + 1 /\ Len(seq) \in Nat
      /\ DOMAIN seq = 1..Len(seq) /\ DOMAIN Append(seq, x) = 1..Len(seq) + 1
      /\ \A i \in 1..Len(seq) : Append(seq, x)[i] = seq[i]
      /\ Append(seq, x)[Len(seq) + 1] = x
  OBVIOUS
<1> DEFINE a == Append(seq, x)
           n == Len(seq)
<1>2. /\ DOMAIN seq = 1..n /\ DOMAIN a = 1..n + 1 /\ n \in Nat
      /\ \A i \in 1..n : a[i] = seq[i]
      /\ a[n + 1] = x
  BY <1>1
<1> HIDE DEF a, n
<1>3. ToSet(a) \subseteq ToSet(seq) \union {x}
  BY <1>2 DEF ToSet
<1>4. ToSet(seq) \subseteq ToSet(a) /\ x \in ToSet(a)
  <2>1. n + 1 \in DOMAIN a /\ \A i \in 1..n : i \in DOMAIN a
    BY <1>2
  <2> QED BY <1>2, <2>1 DEF ToSet
<1>5. ToSet(a) = ToSet(seq) \union {x}
  BY <1>3, <1>4
<1> QED BY <1>1, <1>5 DEF a

\* Appending a greater number keeps a sequence increasing.
LEMMA AppendedIncreasing ==
  ASSUME NEW seq \in Seq(Nat), NEW e \in Nat, Increasing(seq), Below(ToSet(seq), e)
  PROVE  Increasing(Append(seq, e))
<1> DEFINE a == Append(seq, e)
           n == Len(seq)
<1>1. /\ DOMAIN seq = 1..n /\ DOMAIN a = 1..n + 1 /\ n \in Nat
      /\ \A i \in 1..n : a[i] = seq[i]
      /\ a[n + 1] = e
  BY Appended
<1> HIDE DEF a, n
<1>2. \A i \in 1..n : seq[i] < e
  BY <1>1 DEF Below, ToSet
<1>3. Increasing(a)
  <2> SUFFICES ASSUME NEW i \in 1..n + 1, NEW j \in 1..n + 1, i < j
               PROVE  a[i] < a[j]
    BY <1>1 DEF Increasing
  <2>1. i \in 1..n
    BY <1>1
  <2>2. CASE j = n + 1
    BY <1>1, <1>2, <2>1, <2>2
  <2>3. CASE j # n + 1
    <3>1. j \in 1..n
      BY <1>1, <2>3
    <3> QED BY <1>1, <2>1, <3>1 DEF Increasing
  <2> QED BY <2>2, <2>3
<1> QED BY <1>3 DEF a

\* A number above all others comes after the last one.
LEMMA BelowAfter ==
  ASSUME NEW seq \in Seq(Nat), NEW e, Below(ToSet(seq), e)
  PROVE  seq = <<>> \/ Last(seq) < e
<1> SUFFICES ASSUME seq # <<>>
             PROVE  Last(seq) < e
  OBVIOUS
<1>1. Len(seq) \in DOMAIN seq
  OBVIOUS
<1>2. Last(seq) \in ToSet(seq)
  BY <1>1 DEF Last, ToSet
<1> QED BY <1>2 DEF Below

\* The first of an increasing sequence and the rest of it.
LEMMA Taken ==
  ASSUME NEW seq \in Seq(Nat), seq # <<>>
  PROVE  /\ Tail(seq) \in Seq(Nat) /\ Head(seq) \in ToSet(seq)
         /\ ToSet(Tail(seq)) \subseteq ToSet(seq)
         /\ Increasing(seq) => /\ Increasing(Tail(seq))
                               /\ \A w \in ToSet(Tail(seq)) : Head(seq) < w
<1> DEFINE t == Tail(seq)
           n == Len(seq)
<1>1. /\ t \in Seq(Nat) /\ n \in Nat /\ n >= 1
      /\ DOMAIN seq = 1..n /\ DOMAIN t = 1..n - 1
      /\ \A i \in 1..n - 1 : t[i] = seq[i + 1]
      /\ Head(seq) = seq[1]
  OBVIOUS
<1> HIDE DEF t, n
<1>2. 1 \in DOMAIN seq /\ Head(seq) \in ToSet(seq)
  <2>1. 1 \in DOMAIN seq
    BY <1>1
  <2> QED BY <1>1, <2>1 DEF ToSet
<1>3. \A i \in 1..n - 1 : i + 1 \in DOMAIN seq /\ 1 < i + 1 /\ 1 \in DOMAIN seq
  BY <1>1
<1>4. ToSet(t) \subseteq ToSet(seq)
  <2>1. \A i \in 1..n - 1 : t[i] \in ToSet(seq)
    BY <1>1, <1>3 DEF ToSet
  <2>2. ToSet(t) = {t[i] : i \in 1..n - 1}
    BY <1>1 DEF ToSet
  <2> HIDE DEF ToSet
  <2> QED BY <2>1, <2>2
<1>5. ASSUME Increasing(seq)
      PROVE  Increasing(t) /\ \A w \in ToSet(t) : Head(seq) < w
  <2>1. \A w \in ToSet(t) : Head(seq) < w
    BY <1>1, <1>3, <1>5 DEF Increasing, ToSet
  <2>2. ASSUME NEW i \in 1..n - 1, NEW j \in 1..n - 1, i < j
        PROVE  t[i] < t[j]
    <3>1. i + 1 < j + 1 /\ i + 1 \in DOMAIN seq /\ j + 1 \in DOMAIN seq
      BY <1>1, <1>3, <2>2
    <3> QED BY <1>1, <1>5, <3>1 DEF Increasing
  <2> QED BY <1>1, <2>1, <2>2 DEF Increasing
<1> QED BY <1>1, <1>2, <1>4, <1>5 DEF t

\* Nothing is in an empty sequence.
LEMMA NothingIn ==
  ToSet(<<>>) = {} /\ <<>> \in Seq(Nat) /\ Increasing(<<>>)
BY DEF ToSet, Increasing

-----------------------------------------------------------------------------
(* The inductive invariant. *)

\* The records TypeOK speaks of, in full.
Typed ==
  /\ published \in Seq([kind : Kinds, camera : Cameras])
  /\ stream \in [at : {"none", "open", "ended", "broken"}, next : Nat, wire : Seq(Nat)]
  /\ listener \in [at : {"connecting", "reading", "convert", "save", "show", "alert"},
                   event : Nat]
  /\ registered \subseteq Cameras
  /\ rows \subseteq [id : Nat, acknowledged : BOOLEAN]
  /\ shown \in Seq(Nat) /\ stored \in Seq(Nat) /\ alerted \in Seq(Nat)
  /\ client \in [Clients -> [at : {"closed", "opening", "open", "deaf"},
                             next : Nat, got : Seq(Nat)]]
  /\ fate \in Seq(Fates) /\ Len(fate) = Len(published)

Events == 1..Len(published)

\* A row is of an event that was raised, and its camera is registered.
RowsOK ==
  \A row \in rows : row.id \in Events /\ Camera(row.id) \in registered

\* The stream holds events in their order, before those it will read.
WireOK ==
  /\ stream.next <= Len(published) + 1
  /\ stream.at = "open" => stream.next >= 1
  /\ ToSet(stream.wire) \subseteq Events
  /\ Increasing(stream.wire)
  /\ Below(ToSet(stream.wire), stream.next)

\* The stream is past event x.
Past(x) == x < stream.next /\ \A w \in ToSet(stream.wire) : x < w

\* The listener works on an event that it has not stored, shown or alerted
\* before, nor any later one, and the stream has only later ones.
ListenerOK ==
  /\ ToSet(stored) \subseteq Events
  /\ listener.at # "connecting" => \A x \in ToSet(stored) : Past(x)
  /\ listener.at \in {"convert", "save", "show", "alert"} =>
       listener.event \in Events /\ Past(listener.event)
  /\ listener.at \in {"convert", "save"} => Below(ToSet(stored), listener.event)
  /\ listener.at = "show" =>
       listener.event \in ToSet(stored) /\ Below(ToSet(shown), listener.event)
  /\ listener.at = "alert" =>
       /\ listener.event \in ToSet(shown) /\ Below(ToSet(alerted), listener.event)
       /\ Kind(listener.event) \in {"fire", "smoke"}

\* What is shown is stored, in order; what is alerted is shown.
ShownOK ==
  /\ Increasing(shown)
  /\ ToSet(shown) \subseteq ToSet(stored)
  /\ ToSet(alerted) \subseteq ToSet(shown)

\* What an open connection has still to read comes after what its browser has.
ConnectionOK(c) ==
  /\ ToSet(c.got) \subseteq ToSet(shown)
  /\ c.at = "open" =>
       /\ c.next >= 1
       /\ \A i \in DOMAIN shown : i >= c.next => Below(ToSet(c.got), shown[i])

ClientsOK == \A c \in Clients : ConnectionOK(client[c])

IInv == Typed /\ RowsOK /\ WireOK /\ ListenerOK /\ ShownOK /\ ClientsOK

-----------------------------------------------------------------------------
(* Types. *)

\* The fates of the events remain as many as there are events.
LEMMA LoseType ==
  ASSUME Typed, NEW lost, Lose(lost), published' = published
  PROVE  fate' \in Seq(Fates) /\ Len(fate') = Len(published')
<1>1. fate \in Seq(Fates) /\ Len(fate) = Len(published)
  BY DEF Typed
<1> DEFINE f == [e \in DOMAIN fate |->
                   IF e \in lost /\ fate[e] = "sent" THEN "lost" ELSE fate[e]]
<1>2. DOMAIN fate = 1..Len(fate) /\ Len(fate) \in Nat
  BY <1>1
<1>3. f \in [1..Len(fate) -> Fates]
  BY <1>1, <1>2 DEF Fates
<1>4. fate' = f
  BY DEF Lose
<1> HIDE DEF f
<1>5. f \in Seq(Fates) /\ Len(f) = Len(fate)
  BY <1>2, <1>3
<1> QED BY <1>1, <1>4, <1>5

\* The steps of one connection.
ClientStep(c) == Open(c) \/ Subscribe(c) \/ Deliver(c) \/ Close(c)

Connection == [at : {"closed", "opening", "open", "deaf"}, next : Nat, got : Seq(Nat)]

\* A step of one connection changes nothing else.
LEMMA ClientChanges ==
  ASSUME Typed, ClientsOK, NEW c \in Clients, ClientStep(c)
  PROVE  /\ UNCHANGED <<published, stream, listener, registered, rows, shown,
                        stored, alerted, fate, faults>>
         /\ client' \in [Clients -> Connection]
         /\ \A d \in Clients : d # c => client'[d] = client[d]
         /\ Deliver(c) \/ client'[c].got = client[c].got
<1>1. client \in [Clients -> Connection] /\ client[c] \in Connection
  BY DEF Typed, Connection
<1>2. CASE Open(c) \/ Close(c)
  <2>1. PICK at \in {"opening", "closed"} : client' = [client EXCEPT ![c].at = at]
    BY <1>2 DEF Open, Close, SetClient
  <2>2. UNCHANGED <<published, stream, listener, registered, rows, shown,
                    stored, alerted, fate, faults>>
    BY <1>2 DEF Open, Close
  <2>3. /\ client' \in [Clients -> Connection]
        /\ \A d \in Clients : d # c => client'[d] = client[d]
        /\ client'[c].got = client[c].got
    BY <1>1, <2>1 DEF Connection
  <2> QED BY <2>2, <2>3
<1>3. CASE Subscribe(c)
  <2>1. Len(shown) + 1 \in Nat
    BY DEF Typed
  <2> DEFINE n == Len(shown) + 1
  <2>2. client' = [client EXCEPT ![c].at = "open", ![c].next = n]
    BY <1>3 DEF Subscribe
  <2>3. UNCHANGED <<published, stream, listener, registered, rows, shown,
                    stored, alerted, fate, faults>>
    BY <1>3 DEF Subscribe
  <2> HIDE DEF n
  <2>4. n \in Nat
    BY <2>1 DEF n
  <2>5. /\ client' \in [Clients -> Connection]
        /\ \A d \in Clients : d # c => client'[d] = client[d]
        /\ client'[c].got = client[c].got
    BY <1>1, <2>2, <2>4 DEF Connection
  <2> QED BY <2>3, <2>5
<1>4. CASE Deliver(c)
  <2>1. CASE Len(shown) >= client[c].next + WsCapacity
    <3>1. client' = [client EXCEPT ![c].at = "deaf"]
      BY <1>4, <2>1 DEF Deliver, SetClient
    <3>2. UNCHANGED <<published, stream, listener, registered, rows, shown,
                      stored, alerted, fate, faults>>
      BY <1>4 DEF Deliver
    <3>3. /\ client' \in [Clients -> Connection]
          /\ \A d \in Clients : d # c => client'[d] = client[d]
      BY <1>1, <3>1 DEF Connection
    <3> QED BY <1>4, <3>2, <3>3
  <2>2. CASE ~(Len(shown) >= client[c].next + WsCapacity)
    <3> DEFINE m == client[c].next + 1
               g == Append(client[c].got, shown[client[c].next])
    <3>1. client' = [client EXCEPT ![c].next = m, ![c].got = g]
      BY <1>4, <2>2 DEF Deliver
    <3>2. m \in Nat /\ client[c].got \in Seq(Nat)
      BY <1>1 DEF Connection
    <3>3. client[c].next \in 1..Len(shown) /\ shown \in Seq(Nat)
      BY <1>1, <1>4 DEF Deliver, Connection, Typed, ClientsOK, ConnectionOK
    <3>4. g \in Seq(Nat)
      BY <3>2, <3>3
    <3>5. UNCHANGED <<published, stream, listener, registered, rows, shown,
                      stored, alerted, fate, faults>>
      BY <1>4 DEF Deliver
    <3> HIDE DEF m, g
    <3>6. /\ client' \in [Clients -> Connection]
          /\ \A d \in Clients : d # c => client'[d] = client[d]
      BY <1>1, <3>1, <3>2, <3>4 DEF Connection
    <3> QED BY <1>4, <3>5, <3>6
  <2> QED BY <2>1, <2>2
<1> QED BY <1>2, <1>3, <1>4 DEF ClientStep

\* The steps of the detector and of the listener, and the faults.
OtherStep ==
  \/ Publish \/ SendEvent \/ ListenerStep \/ Acknowledge \/ Break \/ Crash
  \/ \E c \in Cameras : DeleteCamera(c)

\* Every step is one of these.
LEMMA NextCases ==
  ASSUME [Next]_vars
  PROVE  \/ \E c \in Clients : ClientStep(c)
         \/ OtherStep
         \/ UNCHANGED vars
BY DEF Next, ClientStep, OtherStep

\* A number of published is an event.
LEMMA EventsAre ==
  ASSUME Typed
  PROVE  /\ DOMAIN published = Events /\ Len(published) \in Nat
         /\ \A e \in Events : e \in Nat /\ e >= 1 /\ e <= Len(published)
BY DEF Typed, Events

\* A new event goes to the end of the list.
LEMMA Published ==
  ASSUME Typed, Publish
  PROVE  /\ published' \in Seq([kind : Kinds, camera : Cameras])
         /\ Len(published') = Len(published) + 1
         /\ Events \subseteq Events'
         /\ \A e \in Events : Kind(e)' = Kind(e) /\ Camera(e)' = Camera(e)
         /\ fate' \in Seq(Fates) /\ Len(fate') = Len(published')
         /\ UNCHANGED <<stream, listener, registered, rows, shown, client,
                        stored, alerted>>
<1> DEFINE T == [kind : Kinds, camera : Cameras]
<1>1. PICK k \in Kinds, c \in Cameras :
        published' = Append(published, [kind |-> k, camera |-> c])
  BY DEF Publish
<1> DEFINE e == [kind |-> k, camera |-> c]
<1>2. e \in T /\ published \in Seq(T) /\ published' = Append(published, e)
  BY <1>1 DEF Typed
<1>3. PICK f \in {"sent", "unheard"} : fate' = Append(fate, f)
  BY DEF Publish
<1>4. f \in Fates /\ fate \in Seq(Fates) /\ Len(fate) = Len(published)
  BY DEF Fates, Typed
<1>5. fate' \in Seq(Fates) /\ Len(fate') = Len(fate) + 1
  BY <1>3, <1>4, Appended
<1> HIDE DEF T, e
<1>6. /\ published' \in Seq(T) /\ Len(published') = Len(published) + 1
      /\ Len(published) \in Nat
      /\ \A i \in 1..Len(published) : published'[i] = published[i]
  BY <1>2, Appended
<1>7. Events \subseteq Events'
  BY <1>6 DEF Events
<1>8. \A i \in Events : Kind(i)' = Kind(i) /\ Camera(i)' = Camera(i)
  BY <1>6 DEF Events, Kind, Camera
<1>9. UNCHANGED <<stream, listener, registered, rows, shown, client, stored, alerted>>
  BY DEF Publish
<1> QED BY <1>4, <1>5, <1>6, <1>7, <1>8, <1>9 DEF T

Stream == [at : {"none", "open", "ended", "broken"}, next : Nat, wire : Seq(Nat)]

\* The stream keeps its type and hands on events in their order.
LEMMA StreamStep ==
  ASSUME Typed, WireOK, SendEvent
  PROVE  /\ stream' \in Stream
         /\ WireOK'
         /\ \A x \in Nat : Past(x) => Past(x)'
         /\ fate' \in Seq(Fates) /\ Len(fate') = Len(published')
         /\ UNCHANGED <<published, listener, registered, rows, shown, client,
                        stored, alerted>>
<1>1. UNCHANGED <<published, listener, registered, rows, shown, client, stored, alerted>>
  BY DEF SendEvent
<1>2. stream \in Stream /\ stream.at = "open"
  BY DEF Typed, SendEvent, Stream
<1>3. CASE Lagged
  <2>1. stream' = [stream EXCEPT !.at = "ended"] /\ Lose(Unread)
    BY <1>3 DEF SendEvent
  <2>2. /\ stream' \in Stream
        /\ stream'.at = "ended" /\ stream'.next = stream.next /\ stream'.wire = stream.wire
    BY <1>2, <2>1 DEF Stream
  <2>3. WireOK' /\ \A x \in Nat : Past(x) => Past(x)'
    BY <1>1, <2>2 DEF WireOK, Past, Events
  <2> QED BY <1>1, <2>1, <2>2, <2>3, LoseType
<1>4. CASE ~Lagged
  <2> DEFINE n == stream.next
             w == stream.wire
             a == Append(w, n)
             m == n + 1
  <2>1. /\ n <= Len(published) /\ n >= 1 /\ n \in Nat /\ w \in Seq(Nat)
        /\ stream' = [stream EXCEPT !.next = m, !.wire = a]
        /\ fate' = fate
    BY <1>2, <1>4 DEF SendEvent, WireOK, Stream
  <2>2. a \in Seq(Nat) /\ ToSet(a) = ToSet(w) \union {n}
    BY <2>1, Appended
  <2>3. /\ Increasing(w) /\ Below(ToSet(w), n) /\ ToSet(w) \subseteq Events
        /\ Len(published) \in Nat
    BY EventsAre DEF WireOK
  <2> HIDE DEF n, w
  <2>4. Increasing(a)
    BY <2>1, <2>3, AppendedIncreasing
  <2>5. /\ m \in Nat /\ m >= 1 /\ m <= Len(published) + 1 /\ n < m
        /\ \A x \in Nat : x < n => x < m
    BY <2>1, <2>3
  <2> HIDE DEF a, m
  <2>6. stream' \in Stream /\ stream'.at = "open" /\ stream'.next = m /\ stream'.wire = a
    BY <1>2, <2>1, <2>2, <2>5 DEF Stream
  <2>7. Events' = Events /\ Len(published') = Len(published)
    BY <1>1 DEF Events
  <2>8. n \in Events
    BY <2>1, <2>3 DEF Events
  <2>9. Below(ToSet(a), m)
    <3>1. \A x \in ToSet(w) : x \in Nat /\ x < n
      BY <2>3, EventsAre DEF Below
    <3> QED BY <2>2, <2>5, <3>1 DEF Below
  <2>10. ToSet(a) \subseteq Events
    BY <2>2, <2>3, <2>8
  <2>11. WireOK'
    BY <2>4, <2>5, <2>6, <2>7, <2>9, <2>10 DEF WireOK
  <2>12. ASSUME NEW x \in Nat, Past(x)
         PROVE  Past(x)'
    <3>1. x < n /\ \A y \in ToSet(w) : x < y
      BY <2>12 DEF Past, n, w
    <3>2. \A y \in ToSet(a) : x < y
      BY <2>2, <3>1
    <3>3. x < m
      BY <2>5, <3>1
    <3> QED BY <2>6, <3>2, <3>3 DEF Past
  <2> QED BY <1>1, <2>1, <2>6, <2>11, <2>12 DEF Typed
<1> QED BY <1>3, <1>4

-----------------------------------------------------------------------------
(* The detector's steps. *)

\* A new event is no one's yet.
LEMMA PublishKeeps ==
  ASSUME IInv, Publish
  PROVE  IInv'
<1>1. Typed /\ RowsOK /\ WireOK /\ ListenerOK /\ ShownOK /\ ClientsOK
  BY DEF IInv
<1>2. /\ published' \in Seq([kind : Kinds, camera : Cameras])
      /\ Len(published') = Len(published) + 1 /\ Len(published) \in Nat
      /\ Events \subseteq Events'
      /\ \A e \in Events : Kind(e)' = Kind(e) /\ Camera(e)' = Camera(e)
      /\ fate' \in Seq(Fates) /\ Len(fate') = Len(published')
      /\ UNCHANGED <<stream, listener, registered, rows, shown, client,
                     stored, alerted>>
  BY <1>1, Published, EventsAre
<1>3. Typed'
  BY <1>1, <1>2 DEF Typed
<1>4. RowsOK'
  BY <1>1, <1>2 DEF RowsOK
<1>5. WireOK'
  <2>1. stream.next \in Nat
    BY <1>1 DEF Typed
  <2> QED BY <1>1, <1>2, <2>1 DEF WireOK
<1>6. ListenerOK'
  BY <1>1, <1>2 DEF ListenerOK, Past
<1>7. ShownOK' /\ ClientsOK'
  BY <1>1, <1>2 DEF ShownOK, ClientsOK, ConnectionOK
<1> QED BY <1>3, <1>4, <1>5, <1>6, <1>7 DEF IInv

\* The listener's events are behind the stream wherever that goes.
LEMMA SendKeeps ==
  ASSUME IInv, SendEvent
  PROVE  IInv'
<1>1. Typed /\ RowsOK /\ WireOK /\ ListenerOK /\ ShownOK /\ ClientsOK
  BY DEF IInv
<1>2. /\ stream' \in Stream
      /\ WireOK'
      /\ \A x \in Nat : Past(x) => Past(x)'
      /\ fate' \in Seq(Fates) /\ Len(fate') = Len(published')
      /\ UNCHANGED <<published, listener, registered, rows, shown, client,
                     stored, alerted>>
  BY <1>1, StreamStep
<1>3. Typed'
  BY <1>1, <1>2 DEF Typed, Stream
<1>4. RowsOK'
  BY <1>1, <1>2 DEF RowsOK, Events, Camera
<1>5. ListenerOK'
  <2>1. \A e \in Events : e \in Nat
    BY <1>1, EventsAre
  <2>2. Events' = Events /\ \A e : Kind(e)' = Kind(e)
    BY <1>2 DEF Events, Kind
  <2> QED BY <1>1, <1>2, <2>1, <2>2 DEF ListenerOK
<1>6. ShownOK' /\ ClientsOK'
  BY <1>1, <1>2 DEF ShownOK, ClientsOK, ConnectionOK
<1> QED BY <1>2, <1>3, <1>4, <1>5, <1>6 DEF IInv

-----------------------------------------------------------------------------
(* The listener's steps. *)

\* A new fate for one event.
LEMMA FateType ==
  ASSUME Typed, NEW e \in Events, NEW f \in Fates, fate' = [fate EXCEPT ![e] = f],
         published' = published
  PROVE  fate' \in Seq(Fates) /\ Len(fate') = Len(published')
<1>1. fate \in Seq(Fates) /\ Len(fate) = Len(published)
  BY DEF Typed
<1> DEFINE g == [fate EXCEPT ![e] = f]
<1>2. fate \in [1..Len(fate) -> Fates] /\ Len(fate) \in Nat
  BY <1>1
<1>3. g \in [1..Len(fate) -> Fates]
  BY <1>2
<1> HIDE DEF g
<1>4. g \in Seq(Fates) /\ Len(g) = Len(fate)
  BY <1>2, <1>3
<1> QED BY <1>1, <1>4 DEF g

\* A listener's type.
ListenerType ==
  [at : {"connecting", "reading", "convert", "save", "show", "alert"}, event : Nat]

\* A new stream begins after everything that was stored.
LEMMA ConnectKeeps ==
  ASSUME IInv, Connect
  PROVE  IInv'
<1>1. Typed /\ RowsOK /\ WireOK /\ ListenerOK /\ ShownOK /\ ClientsOK
  BY DEF IInv
<1>2. /\ UNCHANGED <<published, registered, rows, shown, client, stored, alerted, fate>>
      /\ stream' = [at |-> "open", next |-> Len(published) + 1, wire |-> <<>>]
      /\ listener' = [at |-> "reading", event |-> 0]
  BY DEF Connect, Listener
<1> DEFINE n == Len(published) + 1
<1>3. n \in Nat /\ n >= 1 /\ n <= Len(published) + 1 /\ \A x \in Events : x < n
  BY <1>1, EventsAre
<1>4. /\ stream'.at = "open" /\ stream'.next = n /\ stream'.wire = <<>>
      /\ listener'.at = "reading" /\ listener'.event = 0
  BY <1>2
<1>5. stream' \in Stream /\ listener' \in ListenerType
  <2> HIDE DEF n
  <2>1. stream' = [at |-> "open", next |-> n, wire |-> <<>>] /\ <<>> \in Seq(Nat)
    BY <1>2, NothingIn DEF n
  <2> QED BY <1>2, <1>3, <2>1 DEF Stream, ListenerType
<1>6. Typed'
  BY <1>1, <1>2, <1>5 DEF Typed, Stream, ListenerType
<1>7. RowsOK' /\ Events' = Events
  BY <1>1, <1>2 DEF RowsOK, Events, Camera
<1> HIDE DEF n
<1>8. n <= Len(published') + 1 /\ n >= 1
  BY <1>2, <1>3
<1>9. WireOK'
  BY <1>4, <1>7, <1>8, NothingIn DEF WireOK, Below
<1>10. ListenerOK'
  BY <1>1, <1>2, <1>3, <1>4, <1>7, NothingIn DEF ListenerOK, Past
<1>11. ShownOK' /\ ClientsOK'
  BY <1>1, <1>2 DEF ShownOK, ClientsOK, ConnectionOK
<1> QED BY <1>6, <1>7, <1>9, <1>10, <1>11 DEF IInv

\* No stream and no event in hand.
LEMMA Disconnected ==
  ASSUME stream' = NoStream, listener' = Connecting
  PROVE  /\ stream' \in Stream /\ listener' \in ListenerType
         /\ stream'.at = "none" /\ stream'.next = 0 /\ stream'.wire = <<>>
         /\ listener'.at = "connecting"
BY NothingIn DEF NoStream, Connecting, Stream, ListenerType

\* The next event is later than all that are stored; those that follow it in
\* the stream are later still.
LEMMA ReceiveKeeps ==
  ASSUME IInv, Receive
  PROVE  IInv'
<1>1. Typed /\ RowsOK /\ WireOK /\ ListenerOK /\ ShownOK /\ ClientsOK
  BY DEF IInv
<1>2. /\ UNCHANGED <<published, registered, rows, shown, client, stored, alerted, fate>>
      /\ listener.at = "reading"
  BY DEF Receive
<1>3. RowsOK' /\ Events' = Events /\ Len(published') = Len(published) /\ Len(published) \in Nat
  BY <1>1, <1>2, EventsAre DEF RowsOK, Events, Camera
<1>4. ShownOK' /\ ClientsOK'
  BY <1>1, <1>2 DEF ShownOK, ClientsOK, ConnectionOK
<1>5. stream \in Stream
  BY <1>1 DEF Typed, Stream
<1>6. CASE stream.wire # <<>>
  <2> DEFINE w == stream.wire
             h == Head(w)
             t == Tail(w)
  <2>1. w \in Seq(Nat) /\ w # <<>> /\ ToSet(w) \subseteq Events
    BY <1>1, <1>5, <1>6 DEF WireOK, Stream
  <2>2. /\ t \in Seq(Nat) /\ h \in ToSet(w) /\ ToSet(t) \subseteq ToSet(w)
        /\ Increasing(t) /\ \A x \in ToSet(t) : h < x
    <3>1. Increasing(w)
      BY <1>1 DEF WireOK
    <3> HIDE DEF w
    <3> QED BY <2>1, <3>1, Taken
  <2>3. stream' = [stream EXCEPT !.wire = t] /\ listener' = [at |-> "convert", event |-> h]
    BY <1>6 DEF Receive, Listener
  <2>4. /\ stream.next <= Len(published) + 1
        /\ stream.at = "open" => stream.next >= 1
        /\ Below(ToSet(w), stream.next)
        /\ \A x \in ToSet(stored) : Past(x)
        /\ ToSet(stored) \subseteq Events
    BY <1>1, <1>2 DEF WireOK, ListenerOK
  <2>5. \A x \in ToSet(stored) : x < stream.next /\ \A y \in ToSet(w) : x < y
    BY <2>4 DEF Past
  <2>6. h \in Nat
    BY <1>1, <2>1, <2>2, EventsAre
  <2> HIDE DEF w, h, t
  <2>7. /\ stream' \in Stream
        /\ stream'.at = stream.at /\ stream'.next = stream.next /\ stream'.wire = t
    BY <1>5, <2>2, <2>3 DEF Stream
  <2>8. /\ listener' \in ListenerType
        /\ listener'.at = "convert" /\ listener'.event = h
    BY <2>3, <2>6 DEF ListenerType
  <2>9. Typed'
    BY <1>1, <1>2, <2>7, <2>8 DEF Typed, Stream, ListenerType
  <2>10. WireOK'
    BY <1>3, <2>1, <2>2, <2>4, <2>7 DEF WireOK, Below
  <2>11. Past(listener.event)' /\ \A x \in ToSet(stored) : Past(x)'
    BY <2>2, <2>4, <2>5, <2>7, <2>8 DEF Past, Below
  <2>12. Below(ToSet(stored), h) /\ h \in Events
    BY <2>1, <2>2, <2>5 DEF Below
  <2>13. ListenerOK'
    BY <1>2, <1>3, <2>4, <2>8, <2>11, <2>12 DEF ListenerOK
  <2> QED BY <1>3, <1>4, <2>9, <2>10, <2>13 DEF IInv
<1>7. CASE stream.wire = <<>>
  <2>1. stream' = NoStream /\ listener' = Connecting
    BY <1>7 DEF Receive
  <2>2. /\ stream' \in Stream /\ listener' \in ListenerType
        /\ stream'.at = "none" /\ stream'.next = 0 /\ stream'.wire = <<>>
        /\ listener'.at = "connecting"
    BY <2>1, Disconnected
  <2>3. Typed'
    BY <1>1, <1>2, <2>2 DEF Typed, Stream, ListenerType
  <2>4. WireOK'
    BY <1>3, <2>2, NothingIn DEF WireOK, Below
  <2>5. ListenerOK'
    BY <1>1, <1>2, <1>3, <2>2 DEF ListenerOK
  <2> QED BY <1>3, <1>4, <2>3, <2>4, <2>5 DEF IInv
<1> QED BY <1>6, <1>7

\* An early return leaves the listener reading, with nothing in hand.
LEMMA ReadsOn ==
  ASSUME IInv, NEW T, published' = published, stream' = stream, shown' = shown,
         client' = client, rows' = rows, registered' = registered,
         stored' = stored, fate' = T, T \in Seq(Fates), Len(T) = Len(published),
         alerted' \in Seq(Nat), ToSet(alerted') \subseteq ToSet(shown),
         listener.at # "connecting", listener' = [at |-> "reading", event |-> 0]
  PROVE  IInv'
<1>1. Typed /\ RowsOK /\ WireOK /\ ListenerOK /\ ShownOK /\ ClientsOK
  BY DEF IInv
<1>2. listener' \in ListenerType /\ listener'.at = "reading"
  BY DEF ListenerType
<1>3. Typed'
  BY <1>1, <1>2 DEF Typed, ListenerType
<1>4. RowsOK' /\ WireOK' /\ Events' = Events
  BY <1>1 DEF RowsOK, WireOK, Events, Camera
<1>5. ListenerOK'
  BY <1>1, <1>2, <1>4 DEF ListenerOK, Past
<1>6. ShownOK' /\ ClientsOK'
  BY <1>1 DEF ShownOK, ClientsOK, ConnectionOK
<1> QED BY <1>3, <1>4, <1>5, <1>6 DEF IInv

\* An event that is refused is never stored, and the next one is read.
LEMMA RefuseKeeps ==
  ASSUME IInv, Refuse
  PROVE  IInv'
<1>1. Typed /\ ListenerOK /\ ShownOK
  BY DEF IInv
<1>2. /\ UNCHANGED <<published, stream, registered, rows, shown, client, stored, alerted>>
      /\ listener.at \in {"convert", "save"}
      /\ listener' = [at |-> "reading", event |-> 0]
      /\ fate' = [fate EXCEPT ![listener.event] = "refused"]
  BY DEF Refuse, Listener
<1>3. listener.event \in Events
  BY <1>1, <1>2 DEF ListenerOK
<1>4. fate' \in Seq(Fates) /\ Len(fate') = Len(published)
  BY <1>1, <1>2, <1>3, FateType DEF Fates
<1>5. alerted' \in Seq(Nat) /\ ToSet(alerted') \subseteq ToSet(shown)
  BY <1>1, <1>2 DEF Typed, ShownOK
<1> QED BY <1>2, <1>4, <1>5, ReadsOn

\* The camera's row was found; the event is still in hand.
LEMMA ConvertKeeps ==
  ASSUME IInv, Convert
  PROVE  IInv'
<1>1. Typed /\ RowsOK /\ WireOK /\ ListenerOK /\ ShownOK /\ ClientsOK
  BY DEF IInv
<1>2. /\ UNCHANGED <<published, stream, registered, rows, shown, client, stored,
                     alerted, fate>>
      /\ listener.at = "convert"
      /\ listener' = [at |-> "save", event |-> listener.event]
  BY DEF Convert, Listener
<1>3. listener.event \in Nat
  BY <1>1 DEF Typed
<1>4. listener' \in ListenerType /\ listener'.at = "save" /\ listener'.event = listener.event
  BY <1>2, <1>3 DEF ListenerType
<1>5. Typed'
  BY <1>1, <1>2, <1>4 DEF Typed, ListenerType
<1>6. RowsOK' /\ WireOK' /\ Events' = Events
  BY <1>1, <1>2 DEF RowsOK, WireOK, Events, Camera
<1>7. ListenerOK'
  BY <1>1, <1>2, <1>4, <1>6 DEF ListenerOK, Past
<1>8. ShownOK' /\ ClientsOK'
  BY <1>1, <1>2 DEF ShownOK, ClientsOK, ConnectionOK
<1> QED BY <1>5, <1>6, <1>7, <1>8 DEF IInv

\* What Save does, the event of the listener given a name.
LEMMA Saved ==
  ASSUME IInv, Save
  PROVE  \E e \in Events :
           /\ e = listener.event /\ e \in Nat /\ Past(e) /\ Below(ToSet(stored), e)
           /\ Camera(e) \in registered
           /\ rows' = rows \union {[id |-> e, acknowledged |-> FALSE]}
           /\ stored' = Append(stored, e) /\ stored \in Seq(Nat)
           /\ fate' = [fate EXCEPT ![e] = "stored"]
           /\ listener' = [at |-> "show", event |-> e]
           /\ UNCHANGED <<published, stream, registered, shown, client, alerted>>
<1>1. Typed /\ ListenerOK
  BY DEF IInv
<1>2. /\ listener.at = "save"
      /\ Camera(listener.event) \in registered
      /\ rows' = rows \union {[id |-> listener.event, acknowledged |-> FALSE]}
      /\ stored' = Append(stored, listener.event)
      /\ fate' = [fate EXCEPT ![listener.event] = "stored"]
      /\ listener' = [at |-> "show", event |-> listener.event]
      /\ UNCHANGED <<published, stream, registered, shown, client, alerted>>
  BY DEF Save, Listener
<1>3. listener.event \in Nat /\ stored \in Seq(Nat)
  BY <1>1 DEF Typed
<1>4. /\ listener.event \in Events /\ Past(listener.event)
      /\ Below(ToSet(stored), listener.event)
  BY <1>1, <1>2 DEF ListenerOK
<1> QED BY <1>2, <1>3, <1>4

\* The event is stored after all that were stored before.
LEMMA SaveKeeps ==
  ASSUME IInv, Save
  PROVE  IInv'
<1>1. Typed /\ RowsOK /\ WireOK /\ ListenerOK /\ ShownOK /\ ClientsOK
  BY DEF IInv
<1>2. PICK e \in Events :
        /\ e = listener.event /\ e \in Nat /\ Past(e) /\ Below(ToSet(stored), e)
        /\ Camera(e) \in registered
        /\ rows' = rows \union {[id |-> e, acknowledged |-> FALSE]}
        /\ stored' = Append(stored, e) /\ stored \in Seq(Nat)
        /\ fate' = [fate EXCEPT ![e] = "stored"]
        /\ listener' = [at |-> "show", event |-> e]
        /\ UNCHANGED <<published, stream, registered, shown, client, alerted>>
  BY Saved
<1>3. /\ stored' \in Seq(Nat) /\ ToSet(stored') = ToSet(stored) \union {e}
  BY <1>2, Appended
<1>4. listener' \in ListenerType /\ listener'.at = "show" /\ listener'.event = e
  BY <1>2 DEF ListenerType
<1>5. fate' \in Seq(Fates) /\ Len(fate') = Len(published')
  BY <1>1, <1>2, FateType DEF Fates
<1>6. Typed'
  <2> DEFINE R == [id : Nat, acknowledged : BOOLEAN]
             row == [id |-> e, acknowledged |-> FALSE]
  <2>2. row \in R
    BY <1>2
  <2>3. rows \subseteq R /\ rows' = rows \union {row}
    BY <1>1, <1>2 DEF Typed
  <2> HIDE DEF R, row
  <2>4. rows' \subseteq R
    BY <2>2, <2>3
  <2>1. rows' \subseteq [id : Nat, acknowledged : BOOLEAN]
    BY <2>4 DEF R
  <2> QED BY <1>1, <1>2, <1>3, <1>4, <1>5, <2>1 DEF Typed, ListenerType
<1>7. WireOK' /\ Events' = Events /\ \A x : Camera(x)' = Camera(x)
  BY <1>1, <1>2 DEF WireOK, Events, Camera
<1>8. RowsOK'
  BY <1>1, <1>2, <1>7 DEF RowsOK
<1>9. ListenerOK'
  <2>1. listener.at = "save"
    BY DEF Save
  <2>2. \A x \in ToSet(stored) : Past(x)
    BY <1>1, <2>1 DEF ListenerOK
  <2>3. \A x \in ToSet(stored') : Past(x)'
    BY <1>2, <1>3, <2>2 DEF Past
  <2>4. Past(listener.event)'
    BY <1>2, <1>4 DEF Past
  <2>5. Below(ToSet(shown), e)
    BY <1>1, <1>2 DEF ShownOK, Below
  <2> QED BY <1>1, <1>2, <1>3, <1>4, <1>7, <2>3, <2>4, <2>5 DEF ListenerOK
<1>10. ShownOK' /\ ClientsOK'
  BY <1>1, <1>2, <1>3 DEF ShownOK, ClientsOK, ConnectionOK
<1> QED BY <1>6, <1>7, <1>8, <1>9, <1>10 DEF IInv

\* What Show does when it broadcasts, the event of the listener given a name.
LEMMA Broadcast ==
  ASSUME IInv, Show, shown' # shown
  PROVE  \E e \in Events :
           /\ e = listener.event /\ e \in Nat /\ Past(e)
           /\ e \in ToSet(stored) /\ Below(ToSet(shown), e)
           /\ shown' = Append(shown, e) /\ shown \in Seq(Nat)
           /\ \/ Kind(e) \in {"fire", "smoke"} /\ listener' = [at |-> "alert", event |-> e]
              \/ listener' = [at |-> "reading", event |-> 0]
<1>1. Typed /\ ListenerOK
  BY DEF IInv
<1>2. /\ listener.at = "show"
      /\ shown' = Append(shown, listener.event)
      /\ \/ /\ Kind(listener.event) \in {"fire", "smoke"}
            /\ listener' = [at |-> "alert", event |-> listener.event]
         \/ listener' = [at |-> "reading", event |-> 0]
  BY DEF Show, Listener
<1>3. listener.event \in Nat /\ shown \in Seq(Nat)
  BY <1>1 DEF Typed
<1>4. /\ listener.event \in Events /\ Past(listener.event)
      /\ listener.event \in ToSet(stored) /\ Below(ToSet(shown), listener.event)
  BY <1>1, <1>2 DEF ListenerOK
<1> QED BY <1>2, <1>3, <1>4

\* The event is broadcast after all that were broadcast before, and every open
\* connection finds it behind what its browser has.
LEMMA ShowKeeps ==
  ASSUME IInv, Show
  PROVE  IInv'
<1>1. Typed /\ RowsOK /\ WireOK /\ ListenerOK /\ ShownOK /\ ClientsOK
  BY DEF IInv
<1>2. /\ UNCHANGED <<published, stream, registered, rows, client, stored, alerted, fate>>
      /\ listener.at = "show"
  BY DEF Show
<1>3. CASE shown' = shown
  <2>1. \/ listener' = [at |-> "reading", event |-> 0]
        \/ shown' = Append(shown, listener.event)
    BY DEF Show, Listener
  <2>2. shown' # Append(shown, listener.event)
    <3>1. shown \in Seq(Nat) /\ listener.event \in Nat
      BY <1>1 DEF Typed
    <3>2. Len(Append(shown, listener.event)) = Len(shown) + 1 /\ Len(shown) \in Nat
      BY <3>1, Appended
    <3> QED BY <1>3, <3>2
  <2>3. /\ fate \in Seq(Fates) /\ Len(fate) = Len(published)
        /\ alerted' \in Seq(Nat) /\ ToSet(alerted') \subseteq ToSet(shown)
    BY <1>1, <1>2 DEF Typed, ShownOK
  <2> QED BY <1>2, <1>3, <2>1, <2>2, <2>3, ReadsOn
<1>4. CASE shown' # shown
  <2>1. PICK e \in Events :
          /\ e = listener.event /\ e \in Nat /\ Past(e)
          /\ e \in ToSet(stored) /\ Below(ToSet(shown), e)
          /\ shown' = Append(shown, e) /\ shown \in Seq(Nat)
          /\ \/ Kind(e) \in {"fire", "smoke"} /\ listener' = [at |-> "alert", event |-> e]
             \/ listener' = [at |-> "reading", event |-> 0]
    BY <1>4, Broadcast
  <2>2. /\ shown' \in Seq(Nat) /\ ToSet(shown') = ToSet(shown) \union {e}
        /\ DOMAIN shown = 1..Len(shown) /\ DOMAIN shown' = 1..Len(shown) + 1
        /\ \A i \in 1..Len(shown) : shown'[i] = shown[i]
        /\ shown'[Len(shown) + 1] = e /\ Len(shown) \in Nat
    BY <2>1, Appended
  <2>3. Increasing(shown')
    BY <1>1, <2>1, AppendedIncreasing DEF ShownOK
  <2>4. listener' \in ListenerType
    BY <2>1 DEF ListenerType
  <2>5. Typed'
    BY <1>1, <1>2, <2>2, <2>4 DEF Typed, ListenerType
  <2>6. RowsOK' /\ WireOK' /\ Events' = Events
    BY <1>1, <1>2 DEF RowsOK, WireOK, Events, Camera
  <2>7. ShownOK'
    BY <1>1, <1>2, <2>1, <2>2, <2>3 DEF ShownOK
  <2>8. ListenerOK'
    <3>1. ToSet(stored') \subseteq Events' /\ \A x \in ToSet(stored') : Past(x)'
      BY <1>1, <1>2, <2>6 DEF ListenerOK, Past
    <3>2. CASE listener' = [at |-> "reading", event |-> 0]
      <4>1. listener'.at = "reading"
        BY <3>2
      <4> QED BY <3>1, <4>1 DEF ListenerOK
    <3>3. CASE Kind(e) \in {"fire", "smoke"} /\ listener' = [at |-> "alert", event |-> e]
      <4>1. listener'.at = "alert" /\ listener'.event = e
        BY <3>3
      <4>2. Past(listener.event)' /\ Kind(listener.event)' \in {"fire", "smoke"}
        BY <1>2, <2>1, <3>3, <4>1 DEF Past, Kind
      <4>3. Below(ToSet(alerted), e)
        BY <1>1, <2>1 DEF ShownOK, Below
      <4> QED BY <1>2, <2>2, <2>6, <3>1, <4>1, <4>2, <4>3 DEF ListenerOK
    <3> QED BY <2>1, <3>2, <3>3
  <2>9. ClientsOK'
    <3> SUFFICES ASSUME NEW c \in Clients
                 PROVE  ConnectionOK(client[c])'
      BY DEF ClientsOK
    <3>1. ConnectionOK(client[c]) /\ client[c] \in Connection
      BY <1>1 DEF ClientsOK, Typed, Connection
    <3>2. ASSUME client[c].at = "open", NEW i \in DOMAIN shown', i >= client[c].next
          PROVE  Below(ToSet(client[c].got), shown'[i])
      <4>1. CASE i \in 1..Len(shown)
        BY <2>2, <3>1, <3>2, <4>1 DEF ConnectionOK
      <4>2. CASE i \notin 1..Len(shown)
        <5>1. i = Len(shown) + 1
          BY <2>2, <4>2
        <5> QED BY <2>1, <2>2, <3>1, <5>1 DEF ConnectionOK, Below
      <4> QED BY <4>1, <4>2
    <3> QED BY <1>2, <2>2, <3>1, <3>2 DEF ConnectionOK
  <2> QED BY <2>5, <2>6, <2>7, <2>8, <2>9 DEF IInv
<1> QED BY <1>3, <1>4

\* The alert is of an event that was shown, sent or not.
LEMMA AlertKeeps ==
  ASSUME IInv, Alert
  PROVE  IInv'
<1>1. Typed /\ ListenerOK /\ ShownOK
  BY DEF IInv
<1>2. /\ UNCHANGED <<published, stream, registered, rows, shown, client, stored, fate>>
      /\ listener.at = "alert"
      /\ listener' = [at |-> "reading", event |-> 0]
      /\ alerted' \in {alerted, Append(alerted, listener.event)}
  BY DEF Alert, Listener
<1>3. listener.event \in Nat /\ alerted \in Seq(Nat) /\ listener.event \in ToSet(shown)
  BY <1>1, <1>2 DEF Typed, ListenerOK
<1>4. /\ Append(alerted, listener.event) \in Seq(Nat)
      /\ ToSet(Append(alerted, listener.event)) = ToSet(alerted) \union {listener.event}
  BY <1>3, Appended
<1>5. alerted' \in Seq(Nat) /\ ToSet(alerted') \subseteq ToSet(shown)
  BY <1>1, <1>2, <1>3, <1>4 DEF ShownOK
<1>6. fate \in Seq(Fates) /\ Len(fate) = Len(published)
  BY <1>1 DEF Typed
<1> QED BY <1>2, <1>5, <1>6, ReadsOn

-----------------------------------------------------------------------------
(* The steps of users and browsers. *)

\* A step that changes only rows and registered keeps what is said of the rest.
LEMMA TableSteps ==
  ASSUME IInv, rows' \subseteq [id : Nat, acknowledged : BOOLEAN],
         registered' \subseteq Cameras, RowsOK',
         UNCHANGED <<published, stream, listener, shown, client, stored, alerted, fate>>
  PROVE  IInv'
<1>1. Typed /\ WireOK /\ ListenerOK /\ ShownOK /\ ClientsOK
  BY DEF IInv
<1>2. Typed'
  BY <1>1 DEF Typed
<1>3. WireOK' /\ ListenerOK'
  BY <1>1 DEF WireOK, ListenerOK, Past, Events, Kind
<1>4. ShownOK' /\ ClientsOK'
  BY <1>1 DEF ShownOK, ClientsOK, ConnectionOK
<1> QED BY <1>2, <1>3, <1>4 DEF IInv

\* An acknowledged row is of the same event.
LEMMA AcknowledgeKeeps ==
  ASSUME IInv, Acknowledge
  PROVE  IInv'
<1> DEFINE R == [id : Nat, acknowledged : BOOLEAN]
<1>1. rows \subseteq R /\ RowsOK /\ registered \subseteq Cameras
  BY DEF IInv, Typed
<1>2. PICK row \in rows :
        rows' = (rows \ {row}) \union {[row EXCEPT !.acknowledged = TRUE]}
  BY DEF Acknowledge
<1>3. UNCHANGED <<published, stream, listener, registered, shown, client, stored,
                  alerted, fate>>
  BY DEF Acknowledge
<1> DEFINE r == [row EXCEPT !.acknowledged = TRUE]
<1>4. r \in R /\ r.id = row.id
  BY <1>1
<1>5. rows' = (rows \ {row}) \union {r}
  BY <1>2
<1> HIDE DEF r, R
<1>6. rows' \subseteq R
  BY <1>1, <1>4, <1>5
<1>7. Events' = Events /\ \A x : Camera(x)' = Camera(x)
  BY <1>3 DEF Events, Camera
<1>8. \A x \in rows' : x.id \in Events /\ Camera(x.id) \in registered
  BY <1>1, <1>4, <1>5 DEF RowsOK
<1>9. RowsOK'
  BY <1>3, <1>7, <1>8 DEF RowsOK
<1> QED BY <1>1, <1>3, <1>6, <1>9, TableSteps DEF R

\* The rows that are left are of other cameras.
LEMMA DeleteKeeps ==
  ASSUME IInv, NEW c \in Cameras, DeleteCamera(c)
  PROVE  IInv'
<1>1. /\ rows \subseteq [id : Nat, acknowledged : BOOLEAN] /\ RowsOK
      /\ registered \subseteq Cameras
  BY DEF IInv, Typed
<1>2. /\ registered' = registered \ {c}
      /\ rows' = {row \in rows : Camera(row.id) # c}
      /\ UNCHANGED <<published, stream, listener, shown, client, stored, alerted, fate>>
  BY DEF DeleteCamera
<1>3. Events' = Events /\ \A x : Camera(x)' = Camera(x)
  BY <1>2 DEF Events, Camera
<1>4. RowsOK'
  BY <1>1, <1>2, <1>3 DEF RowsOK
<1>5. rows' \subseteq [id : Nat, acknowledged : BOOLEAN] /\ registered' \subseteq Cameras
  BY <1>1, <1>2
<1> QED BY <1>2, <1>4, <1>5, TableSteps

\* What Deliver does when the connection has not been overrun.
LEMMA Delivered ==
  ASSUME IInv, NEW c \in Clients, Deliver(c), client'[c].got # client[c].got
  PROVE  \E e \in ToSet(shown) :
           /\ e = shown[client[c].next] /\ e \in Nat /\ Below(ToSet(client[c].got), e)
           /\ client[c].next \in DOMAIN shown
           /\ client[c].got \in Seq(Nat)
           /\ client'[c].got = Append(client[c].got, e)
           /\ client'[c].next = client[c].next + 1 /\ client'[c].at = client[c].at
<1>1. Typed /\ ClientsOK
  BY DEF IInv
<1>2. client \in [Clients -> Connection] /\ client[c] \in Connection /\ shown \in Seq(Nat)
  BY <1>1 DEF Typed, Connection
<1>3. client[c].at = "open" /\ client[c].next <= Len(shown) /\ ConnectionOK(client[c])
  BY <1>1 DEF Deliver, ClientsOK
<1> DEFINE n == client[c].next
           e == shown[n]
           g == client[c].got
<1>4. n \in DOMAIN shown /\ n \in Nat /\ n >= n /\ g \in Seq(Nat) /\ e \in Nat
  BY <1>2, <1>3 DEF ConnectionOK, Connection
<1>5. Below(ToSet(g), e)
  BY <1>3, <1>4 DEF ConnectionOK
<1>6. e \in ToSet(shown)
  BY <1>4 DEF ToSet
<1>7. \/ client' = [client EXCEPT ![c].at = "deaf"]
      \/ client' = [client EXCEPT ![c].next = n + 1, ![c].got = Append(g, e)]
  BY DEF Deliver, SetClient
<1>8. client' # [client EXCEPT ![c].at = "deaf"]
  BY <1>2 DEF Connection
<1>9. client' = [client EXCEPT ![c].next = n + 1, ![c].got = Append(g, e)]
  BY <1>7, <1>8
<1> DEFINE a == Append(g, e)
           m == n + 1
<1>10. client' = [client EXCEPT ![c].next = m, ![c].got = a]
  BY <1>9
<1> HIDE DEF a, m
<1>11. client'[c].got = a /\ client'[c].next = m /\ client'[c].at = client[c].at
  BY <1>2, <1>10 DEF Connection
<1> QED BY <1>4, <1>5, <1>6, <1>11 DEF a, m

\* A connection that has not been delivered anything is as it was, or reads
\* only what is still to come, or does not read.
LEMMA Undelivered ==
  ASSUME IInv, NEW c \in Clients, ClientStep(c), client'[c].got = client[c].got
  PROVE  ConnectionOK(client'[c])
<1>1. client \in [Clients -> Connection] /\ ConnectionOK(client[c]) /\ shown \in Seq(Nat)
  BY DEF IInv, Typed, Connection, ClientsOK
<1>2. ToSet(client'[c].got) \subseteq ToSet(shown)
  BY <1>1 DEF ConnectionOK
<1>3. CASE client'[c].at # "open"
  BY <1>2, <1>3 DEF ConnectionOK
<1>4. CASE client'[c].at = "open"
  <2>1. ~ \E at \in {"opening", "closed", "deaf"} : client' = [client EXCEPT ![c].at = at]
    BY <1>1, <1>4 DEF Connection
  <2>2. CASE Subscribe(c)
    <3> DEFINE n == Len(shown) + 1
    <3>1. client' = [client EXCEPT ![c].at = "open", ![c].next = n]
      BY <2>2 DEF Subscribe
    <3>2. n >= 1 /\ ~ \E i \in DOMAIN shown : i >= n
      BY <1>1
    <3> HIDE DEF n
    <3>3. client'[c].next = n
      BY <1>1, <3>1 DEF Connection
    <3> QED BY <1>2, <3>2, <3>3 DEF ConnectionOK
  <2>3. CASE Deliver(c)
    <3> DEFINE g == client[c].got
               e == shown[client[c].next]
               m == client[c].next + 1
               a == Append(g, e)
    <3>1. client' = [client EXCEPT ![c].next = m, ![c].got = a]
      BY <2>1, <2>3 DEF Deliver, SetClient
    <3>2. client[c].at = "open" /\ client[c].next <= Len(shown)
      BY <2>3 DEF Deliver
    <3>3. g \in Seq(Nat) /\ client[c].next \in Nat
      BY <1>1 DEF Connection
    <3>4. client[c].next \in DOMAIN shown
      BY <1>1, <3>2, <3>3 DEF ConnectionOK
    <3>5. e \in Nat
      BY <1>1, <3>4
    <3>6. Len(a) = Len(g) + 1 /\ Len(g) \in Nat
      BY <3>3, <3>5, Appended
    <3>7. a # g
      BY <3>6
    <3> HIDE DEF g, e, m, a
    <3>8. client'[c].got = a
      BY <1>1, <3>1 DEF Connection
    <3> QED BY <3>7, <3>8 DEF g
  <2> QED BY <2>1, <2>2, <2>3 DEF ClientStep, Open, Close, SetClient
<1> QED BY <1>3, <1>4

\* Every connection reads on in the order of what is shown.
LEMMA ClientKeeps ==
  ASSUME IInv, NEW c \in Clients, ClientStep(c)
  PROVE  IInv'
<1>1. Typed /\ RowsOK /\ WireOK /\ ListenerOK /\ ShownOK /\ ClientsOK
  BY DEF IInv
<1>2. /\ UNCHANGED <<published, stream, listener, registered, rows, shown,
                     stored, alerted, fate, faults>>
      /\ client' \in [Clients -> Connection]
      /\ \A d \in Clients : d # c => client'[d] = client[d]
      /\ Deliver(c) \/ client'[c].got = client[c].got
  BY <1>1, ClientChanges
<1>3. Typed'
  BY <1>1, <1>2 DEF Typed, Connection
<1>4. RowsOK' /\ WireOK' /\ ListenerOK' /\ ShownOK'
  BY <1>1, <1>2 DEF RowsOK, WireOK, ListenerOK, ShownOK, Past, Events, Kind, Camera
<1>5. ConnectionOK(client'[c])
  <2>1. CASE client'[c].got = client[c].got
    BY <2>1, Undelivered
  <2>2. CASE client'[c].got # client[c].got
    <3>1. PICK e \in ToSet(shown) :
            /\ e = shown[client[c].next] /\ e \in Nat /\ Below(ToSet(client[c].got), e)
            /\ client[c].next \in DOMAIN shown
            /\ client[c].got \in Seq(Nat)
            /\ client'[c].got = Append(client[c].got, e)
            /\ client'[c].next = client[c].next + 1 /\ client'[c].at = client[c].at
      BY <1>2, <2>2, Delivered
    <3>2. ToSet(client'[c].got) = ToSet(client[c].got) \union {e}
      BY <3>1, Appended
    <3>3. ConnectionOK(client[c]) /\ Increasing(shown) /\ shown \in Seq(Nat)
      BY <1>1 DEF ClientsOK, ShownOK, Typed
    <3>4. client[c].next \in Nat /\ client[c].next >= 1 /\ client[c].next + 1 >= 1
      BY <3>1, <3>3
    <3>5. ASSUME client[c].at = "open", NEW i \in DOMAIN shown, i >= client[c].next + 1
          PROVE  Below(ToSet(client'[c].got), shown[i])
      <4>1. i \in Nat /\ i >= client[c].next /\ client[c].next < i
        BY <3>3, <3>4, <3>5
      <4>2. Below(ToSet(client[c].got), shown[i])
        BY <3>3, <3>5, <4>1 DEF ConnectionOK
      <4>3. e < shown[i]
        BY <3>1, <3>3, <3>5, <4>1 DEF Increasing
      <4> QED BY <3>2, <4>2, <4>3 DEF Below
    <3> QED BY <3>1, <3>2, <3>3, <3>4, <3>5 DEF ConnectionOK
  <2> QED BY <2>1, <2>2
<1>6. ClientsOK'
  <2>1. \A d \in Clients : ConnectionOK(client'[d])
    BY <1>1, <1>2, <1>5 DEF ClientsOK
  <2> QED BY <1>2, <2>1 DEF ClientsOK, ConnectionOK
<1> QED BY <1>3, <1>4, <1>6 DEF IInv

-----------------------------------------------------------------------------
(* Faults. *)

\* What the transport held is gone; the position stays.
LEMMA BreakKeeps ==
  ASSUME IInv, Break
  PROVE  IInv'
<1>1. Typed /\ RowsOK /\ WireOK /\ ListenerOK /\ ShownOK /\ ClientsOK
  BY DEF IInv
<1>2. /\ UNCHANGED <<published, listener, registered, rows, shown, client, stored, alerted>>
      /\ stream' = [stream EXCEPT !.at = "broken", !.wire = <<>>]
      /\ Lose(Unread \union ToSet(stream.wire))
  BY DEF Break
<1>3. stream \in Stream
  BY <1>1 DEF Typed, Stream
<1>4. PICK none : none = <<>> /\ none \in Seq(Nat)
  BY NothingIn
<1>5. stream' = [stream EXCEPT !.at = "broken", !.wire = none]
  BY <1>2, <1>4
<1>6. /\ stream' \in Stream /\ stream'.at = "broken"
      /\ stream'.next = stream.next /\ stream'.wire = none
  BY <1>3, <1>4, <1>5 DEF Stream
<1>7. Typed'
  BY <1>1, <1>2, <1>6, LoseType DEF Typed, Stream
<1>8. RowsOK' /\ Events' = Events
  BY <1>1, <1>2 DEF RowsOK, Events, Camera
<1>9. WireOK'
  BY <1>1, <1>2, <1>4, <1>6, NothingIn DEF WireOK, Below
<1>10. \A x : Past(x) => Past(x)'
  BY <1>4, <1>6, NothingIn DEF Past
<1>11. ListenerOK'
  BY <1>1, <1>2, <1>8, <1>10 DEF ListenerOK, Kind
<1>12. ShownOK' /\ ClientsOK'
  BY <1>1, <1>2 DEF ShownOK, ClientsOK, ConnectionOK
<1> QED BY <1>7, <1>8, <1>9, <1>11, <1>12 DEF IInv

\* A crash leaves nothing in hand and no connection open.
LEMMA CrashKeeps ==
  ASSUME IInv, Crash
  PROVE  IInv' /\ \A c \in Clients : client'[c].got = client[c].got
<1>1. Typed /\ RowsOK /\ WireOK /\ ListenerOK /\ ShownOK /\ ClientsOK
  BY DEF IInv
<1>2. /\ UNCHANGED <<published, registered, rows, shown, stored, alerted>>
      /\ listener' = Connecting /\ stream' = NoStream
      /\ client' = [c \in Clients |-> [client[c] EXCEPT !.at = "closed"]]
      /\ Lose(Unread \union ToSet(stream.wire) \union Handled)
  BY DEF Crash
<1>3. /\ stream' \in Stream /\ listener' \in ListenerType
      /\ stream'.at = "none" /\ stream'.next = 0 /\ stream'.wire = <<>>
      /\ listener'.at = "connecting"
  BY <1>2, Disconnected
<1>4. client \in [Clients -> Connection]
  BY <1>1 DEF Typed, Connection
<1>5. /\ client' \in [Clients -> Connection]
      /\ \A c \in Clients : client'[c].at = "closed" /\ client'[c].got = client[c].got
  BY <1>2, <1>4 DEF Connection
<1>6. Typed'
  BY <1>1, <1>2, <1>3, <1>5, LoseType DEF Typed, Stream, ListenerType, Connection
<1>7. RowsOK' /\ Events' = Events /\ Len(published) \in Nat
  BY <1>1, <1>2, EventsAre DEF RowsOK, Events, Camera
<1>8. WireOK'
  BY <1>2, <1>3, <1>7, NothingIn DEF WireOK, Below
<1>9. ListenerOK'
  BY <1>1, <1>2, <1>3, <1>7 DEF ListenerOK
<1>10. ShownOK' /\ ClientsOK'
  BY <1>1, <1>2, <1>5 DEF ShownOK, ClientsOK, ConnectionOK
<1> QED BY <1>5, <1>6, <1>7, <1>8, <1>9, <1>10 DEF IInv

-----------------------------------------------------------------------------
(* The theorems. *)

\* At the start nothing is raised, and no one is connected.
LEMMA InitHolds ==
  ASSUME Init
  PROVE  IInv
<1> DEFINE T == [kind : Kinds, camera : Cameras]
<1>1. /\ published = <<>> /\ stream = NoStream /\ listener = Connecting
      /\ registered \subseteq Cameras /\ rows = {}
      /\ shown = <<>> /\ stored = <<>> /\ alerted = <<>> /\ fate = <<>>
      /\ client = [c \in Clients |-> [at |-> "closed", next |-> 0, got |-> <<>>]]
  BY DEF Init
<1>2. <<>> \in Seq(T) /\ <<>> \in Seq(Fates) /\ Len(<<>>) = 0 /\ <<>> \in Seq(Nat)
  OBVIOUS
<1>3. PICK none : none = <<>> /\ none \in Seq(Nat)
  BY <1>2
<1>4. client = [c \in Clients |-> [at |-> "closed", next |-> 0, got |-> none]]
  BY <1>1, <1>3
<1>5. /\ client \in [Clients -> Connection]
      /\ \A c \in Clients : client[c].at = "closed" /\ client[c].got = none
  BY <1>3, <1>4 DEF Connection
<1>6. /\ stream \in Stream /\ listener \in ListenerType
      /\ stream.at = "none" /\ stream.next = 0 /\ stream.wire = <<>>
      /\ listener.at = "connecting"
  BY <1>1, NothingIn DEF NoStream, Connecting, Stream, ListenerType
<1>7. Typed
  BY <1>1, <1>2, <1>5, <1>6 DEF Typed, Stream, ListenerType, Connection
<1>8. RowsOK
  BY <1>1 DEF RowsOK
<1>9. Len(published) = 0
  BY <1>1, <1>2
<1>10. WireOK
  BY <1>6, <1>9, NothingIn DEF WireOK, Below
<1>11. ToSet(stored) = {} /\ ToSet(shown) = {} /\ ToSet(alerted) = {} /\ Increasing(shown)
  BY <1>1, NothingIn
<1>12. ListenerOK /\ ShownOK
  BY <1>6, <1>11 DEF ListenerOK, ShownOK
<1>13. ClientsOK
  BY <1>3, <1>5, NothingIn DEF ClientsOK, ConnectionOK
<1> QED BY <1>7, <1>8, <1>10, <1>12, <1>13 DEF IInv

\* Every step keeps the invariant.
LEMMA StepKeeps ==
  ASSUME IInv, [Next]_vars
  PROVE  IInv'
<1>1. CASE \E c \in Clients : ClientStep(c)
  BY <1>1, ClientKeeps
<1>2. CASE OtherStep
  <2>1. CASE Publish
    BY <2>1, PublishKeeps
  <2>2. CASE SendEvent
    BY <2>2, SendKeeps
  <2>3. CASE ListenerStep
    BY <2>3, ConnectKeeps, ReceiveKeeps, RefuseKeeps, ConvertKeeps, SaveKeeps,
       ShowKeeps, AlertKeeps DEF ListenerStep
  <2>4. CASE Acknowledge
    BY <2>4, AcknowledgeKeeps
  <2>5. CASE Break
    BY <2>5, BreakKeeps
  <2>6. CASE Crash
    BY <2>6, CrashKeeps
  <2>7. CASE \E c \in Cameras : DeleteCamera(c)
    BY <2>7, DeleteKeeps
  <2> QED BY <1>2, <2>1, <2>2, <2>3, <2>4, <2>5, <2>6, <2>7 DEF OtherStep
<1>3. CASE UNCHANGED vars
  <2>1. UNCHANGED <<published, stream, listener, registered, rows, shown, client,
                    stored, alerted, fate>>
    BY <1>3 DEF vars
  <2>2. /\ rows' \subseteq [id : Nat, acknowledged : BOOLEAN]
        /\ registered' \subseteq Cameras /\ RowsOK
    BY <2>1 DEF IInv, Typed
  <2>3. RowsOK'
    BY <2>1, <2>2 DEF RowsOK, Events, Camera
  <2> QED BY <2>1, <2>2, <2>3, TableSteps
<1> QED BY <1>1, <1>2, <1>3, NextCases

\* The stream is always behind what the listener has in hand, that is behind
\* what it stored; what is broadcast, alerted and delivered follows in order.
THEOREM DeliveryInvariant == Spec => []IInv
<1>1. Init => IInv
  BY InitHolds
<1>2. IInv /\ [Next]_vars => IInv'
  BY StepKeeps
<1> QED BY <1>1, <1>2, PTL DEF Spec

\* Every variable has its type, and every row is of a camera that is registered:
\* the deletion of a camera takes its events along, and none is stored after it.
THEOREM DeliveryTypeCorrect == Spec => []TypeOK
<1>1. IInv => TypeOK
  <2> SUFFICES ASSUME IInv
               PROVE  TypeOK
    OBVIOUS
  <2>1. Typed /\ RowsOK /\ WireOK
    BY DEF IInv
  <2>2. DOMAIN published = Events
    BY <2>1, EventsAre
  <2>3. \A e \in DOMAIN published : Kind(e) \in Kinds /\ Camera(e) \in Cameras
    <3> DEFINE T == [kind : Kinds, camera : Cameras]
    <3>1. published \in Seq(T)
      BY <2>1 DEF Typed
    <3> HIDE DEF T
    <3>2. \A e \in DOMAIN published : published[e] \in T
      BY <3>1
    <3> QED BY <3>2 DEF Kind, Camera, T
  <2>4. ToSet(fate) \subseteq Fates /\ Len(fate) = Len(published)
    BY <2>1 DEF Typed, ToSet
  <2>5. /\ stream.at \in {"none", "open", "ended", "broken"}
        /\ listener.at \in {"connecting", "reading", "convert", "save", "show", "alert"}
        /\ \A c \in Clients : client[c].at \in {"closed", "opening", "open", "deaf"}
    BY <2>1 DEF Typed
  <2> QED BY <2>1, <2>2, <2>3, <2>4, <2>5 DEF TypeOK, RowsOK, WireOK
<1> QED BY <1>1, DeliveryInvariant, PTL

-----------------------------------------------------------------------------
(* The delivery keeps the order of the events (EventFeed). *)

\* What a browser has received.
Got == [c \in Clients |-> client[c].got]

\* At the start no one has anything.
LEMMA FeedInit ==
  ASSUME Init
  PROVE  Feed!Init
<1>1. [c \in Clients |-> client[c].got] = [c \in Clients |-> <<>>]
  BY DEF Init
<1> QED BY <1>1 DEF Init, Feed!Init

\* A step of Publish is one of the feed: the events before it stay.
LEMMA FeedPublish ==
  ASSUME Typed, Publish
  PROVE  Feed!Publish
<1> DEFINE T == [kind : Kinds, camera : Cameras]
<1>1. PICK k \in Kinds, c \in Cameras :
        published' = Append(published, [kind |-> k, camera |-> c])
  BY DEF Publish
<1> DEFINE e == [kind |-> k, camera |-> c]
<1>2. e \in T /\ published \in Seq(T) /\ published' = Append(published, e)
  BY <1>1 DEF Typed
<1> HIDE DEF T, e
<1>3. Len(published') = Len(published) + 1 /\ Len(published) \in Nat
  BY <1>2, Appended
<1>4. SubSeq(published, 1, Len(published)) = SubSeq(published', 1, Len(published))
  BY <1>2
<1>5. Feed!IsPrefix(published, published')
  BY <1>3, <1>4 DEF Feed!IsPrefix
<1>6. UNCHANGED <<stored, shown, client, alerted>>
  BY DEF Publish
<1> QED BY <1>3, <1>5, <1>6 DEF Feed!Publish

\* Save appends an event later than all that are stored.
LEMMA FeedStore ==
  ASSUME IInv, Save
  PROVE  Feed!Store
<1>1. PICK e \in Events :
        /\ e = listener.event /\ e \in Nat /\ Past(e) /\ Below(ToSet(stored), e)
        /\ Camera(e) \in registered
        /\ rows' = rows \union {[id |-> e, acknowledged |-> FALSE]}
        /\ stored' = Append(stored, e) /\ stored \in Seq(Nat)
        /\ fate' = [fate EXCEPT ![e] = "stored"]
        /\ listener' = [at |-> "show", event |-> e]
        /\ UNCHANGED <<published, stream, registered, shown, client, alerted>>
  BY Saved
<1>2. e \in DOMAIN published
  BY EventsAre DEF IInv
<1>3. stored = <<>> \/ Last(stored) < e
  BY <1>1, BelowAfter
<1>4. Feed!After(e, stored)
  BY <1>3 DEF Feed!After, Feed!Last, Last
<1> QED BY <1>1, <1>2, <1>4 DEF Feed!Store

\* Show appends an event that is stored and later than all that are shown.
LEMMA FeedShow ==
  ASSUME IInv, Show, shown' # shown
  PROVE  Feed!Show
<1>1. PICK e \in Events :
        /\ e = listener.event /\ e \in Nat /\ Past(e)
        /\ e \in ToSet(stored) /\ Below(ToSet(shown), e)
        /\ shown' = Append(shown, e) /\ shown \in Seq(Nat)
        /\ \/ Kind(e) \in {"fire", "smoke"} /\ listener' = [at |-> "alert", event |-> e]
           \/ listener' = [at |-> "reading", event |-> 0]
  BY Broadcast
<1>2. shown = <<>> \/ Last(shown) < e
  BY <1>1, BelowAfter
<1>3. Feed!After(e, shown) /\ e \in Feed!ToSet(stored)
  BY <1>1, <1>2 DEF Feed!After, Feed!Last, Last, Feed!ToSet, ToSet
<1>4. UNCHANGED <<published, stored, client, alerted>>
  BY DEF Show
<1> QED BY <1>1, <1>3, <1>4 DEF Feed!Show

\* An alert is of an alarm that is shown and later than all that are alerted.
LEMMA FeedAlert ==
  ASSUME IInv, Alert, alerted' # alerted
  PROVE  Feed!Alert
<1>1. Typed /\ ListenerOK /\ ShownOK
  BY DEF IInv
<1>2. /\ UNCHANGED <<published, shown, client, stored>>
      /\ listener.at = "alert"
      /\ alerted' = Append(alerted, listener.event)
  BY DEF Alert
<1> DEFINE e == listener.event
<1>3. /\ e \in ToSet(shown) /\ Below(ToSet(alerted), e) /\ alerted \in Seq(Nat)
      /\ published[e].kind \in {"fire", "smoke"}
  BY <1>1, <1>2 DEF ListenerOK, Typed, Kind
<1>4. alerted = <<>> \/ Last(alerted) < e
  BY <1>3, BelowAfter
<1>5. Feed!After(e, alerted) /\ e \in Feed!ToSet(shown) /\ Feed!Alarm(e)
  BY <1>3, <1>4 DEF Feed!After, Feed!Last, Last, Feed!ToSet, ToSet, Feed!Alarm
<1> QED BY <1>2, <1>5 DEF Feed!Alert

\* Deliver sends a browser an event that is shown and later than all it has.
LEMMA FeedReceive ==
  ASSUME IInv, NEW c \in Clients, Deliver(c), client'[c].got # client[c].got
  PROVE  Feed!Receive(c)
<1>1. PICK e \in ToSet(shown) :
        /\ e = shown[client[c].next] /\ e \in Nat /\ Below(ToSet(client[c].got), e)
        /\ client[c].next \in DOMAIN shown
        /\ client[c].got \in Seq(Nat)
        /\ client'[c].got = Append(client[c].got, e)
        /\ client'[c].next = client[c].next + 1 /\ client'[c].at = client[c].at
  BY Delivered
<1>2. /\ UNCHANGED <<published, stream, listener, registered, rows, shown,
                     stored, alerted, fate, faults>>
      /\ \A d \in Clients : d # c => client'[d] = client[d]
  BY ClientChanges DEF IInv, ClientStep
<1>3. client[c].got = <<>> \/ Last(client[c].got) < e
  BY <1>1, BelowAfter
<1>4. Feed!After(e, Got[c]) /\ e \in Feed!ToSet(shown)
  BY <1>1, <1>3 DEF Feed!After, Feed!Last, Last, Feed!ToSet, ToSet, Got
<1>5. Got' = [Got EXCEPT ![c] = Append(@, e)]
  <2>1. \A d \in Clients : client'[d].got = IF d = c THEN Append(Got[d], e) ELSE Got[d]
    BY <1>1, <1>2 DEF Got
  <2> QED BY <2>1 DEF Got
<1> QED BY <1>2, <1>4, <1>5 DEF Feed!Receive, Got

\* A step that none of the feed sees.
LEMMA FeedStutters ==
  ASSUME UNCHANGED <<published, stored, shown, alerted>>,
         \A c \in Clients : client'[c].got = client[c].got
  PROVE  UNCHANGED Feed!feed
<1>1. [c \in Clients |-> client'[c].got] = [c \in Clients |-> client[c].got]
  OBVIOUS
<1> QED BY <1>1 DEF Feed!feed

\* Every step is one of the feed or one that it does not see.
LEMMA FeedStep ==
  ASSUME IInv, [Next]_vars
  PROVE  [Feed!Next]_Feed!feed
<1>1. CASE \E c \in Clients : ClientStep(c)
  <2>1. PICK c \in Clients : ClientStep(c)
    BY <1>1
  <2>2. /\ UNCHANGED <<published, stored, shown, alerted>>
        /\ \A d \in Clients : d # c => client'[d] = client[d]
        /\ Deliver(c) \/ client'[c].got = client[c].got
    BY <2>1, ClientChanges DEF IInv
  <2>3. CASE client'[c].got = client[c].got
    BY <2>2, <2>3, FeedStutters
  <2>4. CASE client'[c].got # client[c].got
    BY <2>2, <2>4, FeedReceive DEF Feed!Next
  <2> QED BY <2>3, <2>4
<1>2. CASE OtherStep
  <2>1. CASE Publish
    BY <2>1, FeedPublish DEF IInv, Feed!Next
  <2>2. CASE Save
    BY <2>2, FeedStore DEF Feed!Next
  <2>3. CASE Show
    <3>1. CASE shown' # shown
      BY <2>3, <3>1, FeedShow DEF Feed!Next
    <3>2. CASE shown' = shown
      BY <2>3, <3>2, FeedStutters DEF Show
    <3> QED BY <3>1, <3>2
  <2>4. CASE Alert
    <3>1. CASE alerted' # alerted
      BY <2>4, <3>1, FeedAlert DEF Feed!Next
    <3>2. CASE alerted' = alerted
      BY <2>4, <3>2, FeedStutters DEF Alert
    <3> QED BY <3>1, <3>2
  <2>5. CASE Crash
    BY <2>5, CrashKeeps, FeedStutters DEF Crash
  <2>6. CASE SendEvent \/ Connect \/ Receive \/ Refuse \/ Convert
             \/ Acknowledge \/ Break \/ \E c \in Cameras : DeleteCamera(c)
    <3>1. UNCHANGED <<published, stored, shown, alerted, client>>
      BY <2>6 DEF SendEvent, Connect, Receive, Refuse, Convert, Acknowledge, Break,
                  DeleteCamera
    <3> QED BY <3>1, FeedStutters
  <2> QED BY <1>2, <2>1, <2>2, <2>3, <2>4, <2>5, <2>6 DEF OtherStep, ListenerStep
<1>3. CASE UNCHANGED vars
  BY <1>3, FeedStutters DEF vars
<1> QED BY <1>1, <1>2, <1>3, NextCases

\* The delivery implements the feed, whatever breaks, crashes or is deleted:
\* nothing is stored, shown to a browser or alerted twice or out of order,
\* nothing is shown before it is stored, and Telegram hears of alarms only.
THEOREM DeliveryKeepsOrder == Spec => ImplementsFeed
<1>1. Init => Feed!Init
  BY FeedInit
<1>2. IInv /\ [Next]_vars => [Feed!Next]_Feed!feed
  BY FeedStep
<1> QED BY <1>1, <1>2, DeliveryInvariant, PTL DEF Spec, ImplementsFeed, Feed!Spec
=============================================================================
