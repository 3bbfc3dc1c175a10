------------------------- MODULE CameraWorkerProofs -------------------------
(***************************************************************************)
(* Proofs about CameraWorker, for every capacity, limit and delay.         *)
(***************************************************************************)
EXTENDS CameraWorker, NumberLemmas, SequenceTheorems

-----------------------------------------------------------------------------
(* The back-off delay. *)

\* A delay that grows from a legal one is legal.
LEMMA GrownDelay ==
  ASSUME ConstantsValid, NEW d \in InitialDelay..MaxDelay
  PROVE  Smaller(d * Multiplier, MaxDelay) \in InitialDelay..MaxDelay
<1>1. /\ InitialDelay \in Nat \ {0} /\ MaxDelay \in Nat \ {0}
      /\ Multiplier \in Nat \ {0} /\ InitialDelay <= MaxDelay
  BY DEF ConstantsValid
<1>2. d \in Nat /\ InitialDelay <= d /\ d <= MaxDelay
  BY <1>1
<1>3. d * Multiplier \in Nat /\ d * Multiplier >= d
  BY <1>1, <1>2
<1> DEFINE grown == d * Multiplier
<1> HIDE DEF grown
<1>4. grown \in Nat /\ grown >= d
  BY <1>3 DEF grown
<1>5. Smaller(grown, MaxDelay) \in InitialDelay..MaxDelay
  BY <1>1, <1>2, <1>4 DEF Smaller
<1> QED BY <1>5 DEF grown

\* The first n delays exist and are unique, so Backoff obeys its equation.
LEMMA BackoffEquation ==
  ASSUME ConstantsValid
  PROVE  /\ Backoff[0] = InitialDelay
         /\ \A n \in Nat : Backoff[n + 1] = Smaller(Backoff[n] * Multiplier, MaxDelay)
<1> DEFINE Step(d) == Smaller(d * Multiplier, MaxDelay)
           Prefix(g, n) == /\ DOMAIN g = 0..n
                           /\ g[0] = InitialDelay
                           /\ \A k \in 1..n : g[k] = Step(g[k - 1])
           Last(n) == (CHOOSE g : Prefix(g, n))[n]
           f == [n \in Nat |-> Last(n)]
<1> HIDE DEF Step
<1>1. ASSUME NEW n \in Nat, NEW g, Prefix(g, n)
      PROVE  Prefix([k \in 0..(n + 1) |-> IF k = n + 1 THEN Step(g[n]) ELSE g[k]], n + 1)
  <2> DEFINE h == [k \in 0..(n + 1) |-> IF k = n + 1 THEN Step(g[n]) ELSE g[k]]
  <2>1. DOMAIN h = 0..(n + 1)
    OBVIOUS
  <2>2. h[0] = InitialDelay
    BY <1>1
  <2>3. ASSUME NEW k \in 1..(n + 1)
        PROVE  h[k] = Step(h[k - 1])
    <3>1. CASE k = n + 1
      <4>1. h[k] = Step(g[n])
        BY <3>1
      <4>2. h[k - 1] = g[n]
        BY <3>1
      <4> QED BY <4>1, <4>2
    <3>2. CASE k # n + 1
      <4>1. h[k] = g[k] /\ h[k - 1] = g[k - 1]
        BY <3>2
      <4>2. g[k] = Step(g[k - 1])
        BY <1>1, <3>2
      <4> QED BY <4>1, <4>2
    <3> QED BY <3>1, <3>2
  <2> QED BY <2>1, <2>2, <2>3
<1>2. ASSUME NEW n \in Nat
      PROVE  \E g : Prefix(g, n)
  <2> DEFINE bad == {i \in Nat : ~ \E g : Prefix(g, i)}
  <2>1. SUFFICES ASSUME bad # {}
                 PROVE  FALSE
    OBVIOUS
  <2>2. PICK x \in bad : \A y \in bad : x <= y
    BY <2>1, LeastElement
  <2>3. x # 0
    <3>1. Prefix([k \in 0..0 |-> InitialDelay], 0)
      OBVIOUS
    <3> QED BY <2>2, <3>1
  <2>4. x - 1 \in Nat /\ x - 1 \notin bad /\ (x - 1) + 1 = x
    BY <2>2, <2>3
  <2>5. PICK g : Prefix(g, x - 1)
    BY <2>4
  <2>6. \E h : Prefix(h, (x - 1) + 1)
    <3> HIDE DEF Prefix
    <3> QED BY <1>1, <2>4, <2>5
  <2>7. \E h : Prefix(h, x)
    BY <2>4, <2>6
  <2> QED BY <2>2, <2>7
<1>3. ASSUME NEW n \in Nat, NEW g, Prefix(g, n), NEW m \in Nat, m >= n,
             NEW h, Prefix(h, m)
      PROVE  g[n] = h[n]
  <2> DEFINE bad == {i \in 0..n : g[i] # h[i]}
  <2>1. SUFFICES ASSUME bad # {}
                 PROVE  FALSE
    OBVIOUS
  <2>2. PICK x \in bad : \A y \in bad : x <= y
    <3>1. bad \in SUBSET Nat
      OBVIOUS
    <3> HIDE DEF bad
    <3> QED BY <2>1, <3>1, LeastElement
  <2>3. x # 0
    BY <1>3, <2>2
  <2>4. x \in 1..n /\ x - 1 \in 0..n /\ x - 1 \notin bad
    BY <2>2, <2>3
  <2>5. g[x - 1] = h[x - 1]
    BY <2>4
  <2>6. g[x] = Step(g[x - 1]) /\ h[x] = Step(h[x - 1])
    BY <1>3, <2>4
  <2> QED BY <2>2, <2>5, <2>6
<1> HIDE DEF Prefix
<1>4. ASSUME NEW n \in Nat
      PROVE  Prefix(CHOOSE g : Prefix(g, n), n)
  BY <1>2
<1>5. f[0] = InitialDelay
  <2>1. Prefix(CHOOSE g : Prefix(g, 0), 0)
    BY <1>4
  <2> QED BY <2>1 DEF Prefix
<1>6. ASSUME NEW n \in Nat
      PROVE  f[n + 1] = Step(f[n])
  <2> DEFINE g == CHOOSE q : Prefix(q, n)
             h == CHOOSE q : Prefix(q, n + 1)
  <2>1. Prefix(g, n) /\ Prefix(h, n + 1)
    BY <1>4
  <2>2. f[n] = g[n] /\ f[n + 1] = h[n + 1]
    OBVIOUS
  <2> HIDE DEF g, h, f
  <2>3. g[n] = h[n]
    BY <1>3, <2>1
  <2>4. h[n + 1] = Step(h[n])
    BY <2>1 DEF Prefix
  <2> QED BY <2>2, <2>3, <2>4
<1>7. f = [n \in Nat |-> IF n = 0 THEN InitialDelay
                         ELSE Smaller(f[n - 1] * Multiplier, MaxDelay)]
  <2>1. ASSUME NEW n \in Nat
        PROVE  f[n] = IF n = 0 THEN InitialDelay ELSE Step(f[n - 1])
    <3>1. CASE n = 0
      BY <1>5, <3>1
    <3>2. CASE n # 0
      <4>1. n - 1 \in Nat /\ (n - 1) + 1 = n
        BY <3>2
      <4> HIDE DEF f
      <4>2. f[n] = Step(f[n - 1])
        BY <1>6, <4>1
      <4> QED BY <3>2, <4>2
    <3> QED BY <3>1, <3>2
  <2>2. f = [n \in Nat |-> f[n]]
    OBVIOUS
  <2> HIDE DEF f
  <2> QED BY <2>1, <2>2 DEF Step
<1>8. Backoff = [n \in Nat |-> IF n = 0 THEN InitialDelay
                               ELSE Smaller(Backoff[n - 1] * Multiplier, MaxDelay)]
  <2> HIDE DEF f
  <2> QED BY <1>7 DEF Backoff
<1> QED
  <2>1. Backoff[0] = InitialDelay
    BY <1>8
  <2>2. ASSUME NEW n \in Nat
        PROVE  Backoff[n + 1] = Smaller(Backoff[n] * Multiplier, MaxDelay)
    <3>1. n + 1 \in Nat /\ n + 1 # 0 /\ (n + 1) - 1 = n
      OBVIOUS
    <3> QED BY <1>8, <3>1
  <2> QED BY <2>1, <2>2

-----------------------------------------------------------------------------
(* The inductive invariant. *)

\* Where the worker is decides what the status says, so that every change of
\* state is a step of the life cycle and is announced.
Stage ==
  /\ pc = "connect" => status.state \in {"Unknown", "Reconnecting", "Failed"}
  /\ pc \in {"subscribe", "build", "install"} => status.state = "Connecting"
  /\ pc = "recv" => status.state = IF first THEN "Connected" ELSE "Streaming"
  /\ pc = "backoff" => status.state = "Reconnecting"
  /\ pc = "cooloff" => status.state = "Failed"

\* A stream that works has a reconnect count of 0.
Fresh == status.state = "Streaming" => status.reconnects = 0

\* Only a camera that rests or sleeps has failed at least once.
Slept == pc \in {"backoff", "cooloff"} => errors > 0

\* A task that does not run holds no message.
Idle == ~serving => hand = <<>> /\ queue = <<>>

\* A stream_down that is due answers the failure in the task's hand.
Waiting ==
  due => /\ hand # <<>> /\ hand[1] # Frame
         /\ hand[1].state = "Reconnecting" /\ hand[1].error

\* Neighbouring states of a chain, frames left out, follow each other in the
\* life cycle.
Linked(c) ==
  \A i, j \in 1..Len(c) :
    (/\ i < j
     /\ c[i] # Frame
     /\ c[j] # Frame
     /\ \A k \in (i + 1)..(j - 1) : c[k] = Frame)
    => c[j].state \in TaskLife!Successors[c[i].state]

\* The last state of a chain is s.
Latest(c, s) ==
  \A i \in 1..Len(c) :
    (/\ c[i] # Frame
     /\ \A j \in (i + 1)..Len(c) : c[j] = Frame)
    => c[i].state = s

\* The state s is announced in the chain, after the one the task was told.
Pending(c, s) == \E i \in 2..Len(c) : c[i] # Frame /\ c[i].state = s

\* Nothing comes after a failure.
FailureLast(c) ==
  \A i \in 2..Len(c) : c[i] # Frame /\ c[i].state = "Reconnecting" => i = Len(c)

\* With a prompt task a failure is the last thing the task has yet to learn,
\* because the worker does not retry before the task learnt it.
LastWord ==
  prompt /\ serving =>
    /\ FailureLast(Chain)
    /\ Pending(Chain, "Reconnecting") => pc \in {"backoff", "done"}

\* An outage that was reported and is not over has a count that the next
\* failure takes beyond the threshold.
Reported ==
  prompt /\ serving /\ downs # 0 /\ ~Pending(Chain, "Streaming") =>
    /\ pc # "done" => status.reconnects >= DownThreshold
    /\ Pending(Chain, "Reconnecting") => status.reconnects > DownThreshold

\* With a prompt task the count still calls for the stream_down that is due.
Checked == prompt /\ due => status.reconnects = DownThreshold

\* After a stream_down the last state the task was told is not Streaming.
Down == signal = "down" => told # "Streaming"

\* The parts that are about the worker and what the task has in hand, those
\* about the messages, and those about what is published.
Control == Stage /\ Fresh /\ Slept /\ BackoffConsistent /\ Idle /\ Waiting

Delivery ==
  /\ serving => Linked(Chain)
  /\ ViewsAgree
  /\ LastWord
  /\ OneDownPerOutage
  /\ Reported

Published == Checked /\ Down

IInv == TypeOK /\ Control /\ Delivery /\ Published

-----------------------------------------------------------------------------
(* The chain of messages. *)

\* The chain as an operator of its parts.
Line(t, h, q, o) == <<StateChanged(t, FALSE)>> \o (h \o q \o o)

\* Where the messages of the three parts stand in the chain c.
Shape(c, t, h, q, o) ==
  /\ c \in Seq(Messages)
  /\ Len(c) = 1 + Len(h) + Len(q) + Len(o)
  /\ c[1] = StateChanged(t, FALSE)
  /\ \A i \in 1..Len(h) : c[1 + i] = h[i]
  /\ \A i \in 1..Len(q) : c[1 + Len(h) + i] = q[i]
  /\ \A i \in 1..Len(o) : c[1 + Len(h) + Len(q) + i] = o[i]

\* A message is a frame or announces a state.
LEMMA MessageKinds ==
  /\ Frame \in Messages
  /\ \A t \in StreamStates, e \in BOOLEAN :
       /\ StateChanged(t, e) \in Messages
       /\ StateChanged(t, e) # Frame
       /\ StateChanged(t, e).state = t
       /\ StateChanged(t, e).error = e
  /\ \A m \in Messages : m # Frame => m.state \in StreamStates
<1>1. \A t, e : /\ StateChanged(t, e) # Frame
                /\ StateChanged(t, e).state = t
                /\ StateChanged(t, e).error = e
  <2> TAKE t, e
  <2>1. StateChanged(t, e).type = "StateChanged" /\ Frame.type = "Frame"
    BY DEF StateChanged, Frame
  <2>2. StateChanged(t, e) # Frame
    BY <2>1
  <2> QED BY <2>2 DEF StateChanged
<1>2. \A m \in Messages : m # Frame => m.state \in StreamStates
  <2> TAKE m \in Messages
  <2> HAVE m # Frame
  <2>1. PICK t \in StreamStates, e \in BOOLEAN : m = StateChanged(t, e)
    BY DEF Messages
  <2> QED BY <1>1, <2>1
<1> QED BY <1>1, <1>2 DEF Messages

\* A single announcement is a sequence of messages.
LEMMA OneAnnouncement ==
  ASSUME NEW t \in StreamStates, NEW e \in BOOLEAN
  PROVE  /\ <<StateChanged(t, e)>> \in Seq(Messages)
         /\ Len(<<StateChanged(t, e)>>) = 1
         /\ <<StateChanged(t, e)>>[1] = StateChanged(t, e)
<1> DEFINE m == StateChanged(t, e)
<1>1. m \in Messages
  BY MessageKinds
<1> HIDE DEF m
<1>2. <<m>> \in Seq(Messages) /\ Len(<<m>>) = 1 /\ <<m>>[1] = m
  BY <1>1
<1> QED BY <1>2 DEF m

\* The chain has that shape.
LEMMA LineShape ==
  ASSUME NEW t \in StreamStates, NEW h \in Seq(Messages),
         NEW q \in Seq(Messages), NEW o \in Seq(Messages)
  PROVE  Shape(Line(t, h, q, o), t, h, q, o)
<1> DEFINE m == StateChanged(t, FALSE)
           u == <<m>>
<1>1. u \in Seq(Messages) /\ Len(u) = 1 /\ u[1] = m
  BY OneAnnouncement
<1> HIDE DEF u
<1>2. /\ h \o q \in Seq(Messages)
      /\ Len(h \o q) = Len(h) + Len(q)
      /\ \A i \in 1..(Len(h) + Len(q)) :
           (h \o q)[i] = IF i <= Len(h) THEN h[i] ELSE q[i - Len(h)]
  BY ConcatProperties
<1> DEFINE hq == h \o q
<1> HIDE DEF hq
<1>3. /\ hq \o o \in Seq(Messages)
      /\ Len(hq \o o) = Len(hq) + Len(o)
      /\ \A i \in 1..(Len(hq) + Len(o)) :
           (hq \o o)[i] = IF i <= Len(hq) THEN hq[i] ELSE o[i - Len(hq)]
  BY <1>2, ConcatProperties DEF hq
<1> DEFINE hqo == hq \o o
<1> HIDE DEF hqo
<1>4. /\ u \o hqo \in Seq(Messages)
      /\ Len(u \o hqo) = Len(u) + Len(hqo)
      /\ \A i \in 1..(Len(u) + Len(hqo)) :
           (u \o hqo)[i] = IF i <= Len(u) THEN u[i] ELSE hqo[i - Len(u)]
  BY <1>1, <1>3, ConcatProperties DEF hqo
<1>5. Line(t, h, q, o) = u \o hqo
  BY DEF Line, u, hqo, hq
<1> DEFINE c == u \o hqo
<1>6. /\ Len(hq) = Len(h) + Len(q)
      /\ \A i \in 1..(Len(h) + Len(q)) :
           hq[i] = IF i <= Len(h) THEN h[i] ELSE q[i - Len(h)]
  BY <1>2 DEF hq
<1>7. /\ Len(hqo) = Len(hq) + Len(o)
      /\ \A i \in 1..(Len(hq) + Len(o)) :
           hqo[i] = IF i <= Len(hq) THEN hq[i] ELSE o[i - Len(hq)]
  BY <1>3 DEF hqo
<1>8. /\ c \in Seq(Messages)
      /\ Len(c) = 1 + Len(hqo)
      /\ c[1] = StateChanged(t, FALSE)
      /\ \A i \in 1..Len(hqo) : c[1 + i] = hqo[i]
  <2>1. Len(hqo) \in Nat
    BY <1>3 DEF hqo
  <2>2. c[1] = u[1]
    <3>1. 1 \in 1..(Len(u) + Len(hqo)) /\ 1 <= Len(u)
      BY <1>1, <2>1
    <3> QED BY <1>4, <3>1
  <2>3. ASSUME NEW i \in 1..Len(hqo)
        PROVE  c[1 + i] = hqo[i]
    <3>1. 1 + i \in 1..(Len(u) + Len(hqo)) /\ ~ (1 + i <= Len(u)) /\ (1 + i) - Len(u) = i
      BY <1>1, <2>1
    <3> QED BY <1>4, <3>1
  <2> QED BY <1>1, <1>4, <2>1, <2>2, <2>3
<1> HIDE DEF c
<1>9. Len(h) \in Nat /\ Len(q) \in Nat /\ Len(o) \in Nat
  OBVIOUS
<1>10. \A i \in 1..Len(h) : c[1 + i] = h[i]
  BY <1>6, <1>7, <1>8, <1>9
<1>11. \A i \in 1..Len(q) : c[1 + Len(h) + i] = q[i]
  <2> TAKE i \in 1..Len(q)
  <2>1. Len(h) + i \in 1..Len(hqo) /\ Len(h) + i \in 1..Len(hq) /\ ~ (Len(h) + i <= Len(h))
    BY <1>6, <1>7, <1>9
  <2>2. c[1 + (Len(h) + i)] = hqo[Len(h) + i]
    BY <1>8, <2>1
  <2>3. hqo[Len(h) + i] = hq[Len(h) + i]
    BY <1>6, <1>7, <1>9, <2>1
  <2>4. hq[Len(h) + i] = q[(Len(h) + i) - Len(h)]
    BY <1>6, <1>9, <2>1
  <2>5. (Len(h) + i) - Len(h) = i /\ 1 + (Len(h) + i) = 1 + Len(h) + i
    BY <1>9
  <2> QED BY <2>2, <2>3, <2>4, <2>5
<1>12. \A i \in 1..Len(o) : c[1 + Len(h) + Len(q) + i] = o[i]
  <2> TAKE i \in 1..Len(o)
  <2>1. /\ Len(hq) + i \in 1..Len(hqo) /\ ~ (Len(hq) + i <= Len(hq))
        /\ Len(hq) \in Nat
    BY <1>6, <1>7, <1>9
  <2>2. c[1 + (Len(hq) + i)] = hqo[Len(hq) + i]
    BY <1>8, <2>1
  <2>3. hqo[Len(hq) + i] = o[(Len(hq) + i) - Len(hq)]
    BY <1>7, <1>9, <2>1
  <2>4. (Len(hq) + i) - Len(hq) = i /\ 1 + (Len(hq) + i) = 1 + Len(h) + Len(q) + i
    BY <1>6, <1>9
  <2> QED BY <2>2, <2>3, <2>4
<1>13. Len(c) = 1 + Len(h) + Len(q) + Len(o)
  BY <1>6, <1>7, <1>8, <1>9
<1>14. Line(t, h, q, o) = c
  BY <1>5 DEF c
<1> QED BY <1>8, <1>10, <1>11, <1>12, <1>13, <1>14 DEF Shape

\* Sending moves the first message of the outbox into the channel.
LEMMA LineSent ==
  ASSUME NEW t \in StreamStates, NEW h \in Seq(Messages),
         NEW q \in Seq(Messages), NEW o \in Seq(Messages), o # <<>>
  PROVE  Line(t, h, Append(q, Head(o)), Tail(o)) = Line(t, h, q, o)
<1> DEFINE x == Head(o)
           r == Tail(o)
<1>1. x \in Messages /\ r \in Seq(Messages) /\ <<x>> \in Seq(Messages)
  <2>1. x \in Messages /\ r \in Seq(Messages)
    BY HeadTailProperties
  <2> HIDE DEF x, r
  <2> QED BY <2>1
<1>2. o = <<x>> \o r
  <2>1. Len(<<x>>) = 1 /\ <<x>>[1] = x
    OBVIOUS
  <2>2. /\ <<x>> \o r \in Seq(Messages)
        /\ Len(<<x>> \o r) = Len(<<x>>) + Len(r)
        /\ \A i \in 1..(Len(<<x>>) + Len(r)) :
             (<<x>> \o r)[i] = IF i <= Len(<<x>>) THEN <<x>>[i] ELSE r[i - Len(<<x>>)]
    <3> HIDE DEF x, r
    <3> QED BY <1>1, ConcatProperties
  <2>3. /\ Len(r) = Len(o) - 1 /\ Len(o) \in Nat /\ Len(o) > 0
        /\ \A i \in 1..Len(r) : r[i] = o[i + 1]
        /\ x = o[1]
    BY HeadTailProperties
  <2> DEFINE v == <<x>> \o r
  <2> HIDE DEF x, r
  <2>4. v \in Seq(Messages) /\ Len(v) = Len(o)
    BY <2>1, <2>2, <2>3
  <2>5. \A i \in 1..Len(o) : o[i] = v[i]
    BY <2>1, <2>2, <2>3
  <2> HIDE DEF v
  <2>6. o = v
    BY <2>4, <2>5, SeqEqual
  <2> QED BY <2>6 DEF v
<1> HIDE DEF x, r
<1>3. Append(q, x) = q \o <<x>>
  BY <1>1, AppendIsConcat
<1>4. /\ h \o q \in Seq(Messages) /\ q \o <<x>> \in Seq(Messages)
      /\ <<x>> \o r \in Seq(Messages)
  BY <1>1, ConcatProperties
<1>5. (h \o (q \o <<x>>)) \o r = h \o ((q \o <<x>>) \o r)
  BY SMTT(30), <1>1, <1>4, ConcatAssociative
<1>6. (q \o <<x>>) \o r = q \o (<<x>> \o r)
  BY <1>1, ConcatAssociative
<1>7. h \o (q \o (<<x>> \o r)) = (h \o q) \o (<<x>> \o r)
  BY <1>1, <1>4, ConcatAssociative
<1>8. h \o Append(q, x) \o r = h \o q \o o
  BY <1>2, <1>3, <1>5, <1>6, <1>7
<1> QED BY <1>8 DEF Line, x, r

\* Taking moves the first message of the channel into the task's hand.
LEMMA LineTaken ==
  ASSUME NEW t \in StreamStates,
         NEW q \in Seq(Messages), NEW o \in Seq(Messages), q # <<>>
  PROVE  Line(t, <<Head(q)>>, Tail(q), o) = Line(t, <<>>, q, o)
<1> DEFINE e == <<>>
<1>1. e \in Seq(Messages)
  OBVIOUS
<1>2. Line(t, e, Append(e, Head(q)), Tail(q)) = Line(t, e, e, q)
  <2> HIDE DEF e
  <2> QED BY <1>1, LineSent
<1>3. Append(e, Head(q)) = <<Head(q)>>
  OBVIOUS
<1>4. <<Head(q)>> \in Seq(Messages) /\ Tail(q) \in Seq(Messages)
  OBVIOUS
<1>5. e \o <<Head(q)>> = <<Head(q)>> /\ e \o e = e /\ e \o q = q
  BY <1>1, <1>4, ConcatEmptySeq
<1>6. <<StateChanged(t, FALSE)>> \o (<<Head(q)>> \o Tail(q))
        = <<StateChanged(t, FALSE)>> \o q
  BY <1>2, <1>3, <1>5 DEF Line
<1>7. <<Head(q)>> \o Tail(q) = q
  <2> DEFINE u == <<StateChanged(t, FALSE)>>
             v == <<Head(q)>> \o Tail(q)
  <2>1. u \in Seq(Messages)
    BY OneAnnouncement
  <2>2. v \in Seq(Messages)
    BY <1>4, ConcatProperties
  <2>3. u \o v = u \o q
    BY <1>6
  <2> HIDE DEF u, v
  <2>4. v = q
    BY <2>1, <2>2, <2>3, ConcatSimplifications
  <2> QED BY <2>4 DEF v
<1> QED BY <1>5, <1>7 DEF Line

\* A message put into the outbox ends the chain.
LEMMA LineExtended ==
  ASSUME NEW t \in StreamStates, NEW h \in Seq(Messages),
         NEW q \in Seq(Messages), NEW o \in Seq(Messages), NEW m \in Messages
  PROVE  Line(t, h, q, Append(o, m)) = Append(Line(t, h, q, o), m)
<1> DEFINE u == <<StateChanged(t, FALSE)>>
<1>1. u \in Seq(Messages)
  BY OneAnnouncement
<1> HIDE DEF u
<1>2. <<m>> \in Seq(Messages)
  OBVIOUS
<1> DEFINE hq == h \o q
<1>3. hq \in Seq(Messages)
  BY ConcatProperties
<1> HIDE DEF hq
<1>4. hq \o o \in Seq(Messages) /\ u \o (hq \o o) \in Seq(Messages)
  BY <1>1, <1>3, ConcatProperties
<1>5. Append(o, m) = o \o <<m>>
  BY AppendIsConcat
<1>6. hq \o (o \o <<m>>) = (hq \o o) \o <<m>>
  BY <1>2, <1>3, ConcatAssociative
<1>7. u \o ((hq \o o) \o <<m>>) = (u \o (hq \o o)) \o <<m>>
  BY <1>1, <1>2, <1>4, ConcatAssociative
<1>8. Append(u \o (hq \o o), m) = (u \o (hq \o o)) \o <<m>>
  BY <1>4, AppendIsConcat
<1>9. u \o (hq \o Append(o, m)) = Append(u \o (hq \o o), m)
  BY <1>5, <1>6, <1>7, <1>8
<1> QED BY <1>9 DEF Line, u, hq

\* The chain c, from which the message m was taken, became d.
Handled(c, d, t, t2, m) ==
  /\ Len(c) = Len(d) + 1
  /\ Len(d) \in Nat \ {0}
  /\ c[1] = StateChanged(t, FALSE)
  /\ c[2] = m
  /\ d[1] = StateChanged(t2, FALSE)
  /\ \A i \in 2..Len(d) : d[i] = c[i + 1]

\* Handling a message takes it out of the chain.
LEMMA LineHandled ==
  ASSUME NEW t \in StreamStates, NEW t2 \in StreamStates, NEW m \in Messages,
         NEW q \in Seq(Messages), NEW o \in Seq(Messages)
  PROVE  Handled(Line(t, <<m>>, q, o), Line(t2, <<>>, q, o), t, t2, m)
<1> DEFINE h == <<m>>
           e == <<>>
<1>1. h \in Seq(Messages) /\ Len(h) = 1 /\ h[1] = m
  OBVIOUS
<1>2. e \in Seq(Messages) /\ Len(e) = 0
  OBVIOUS
<1> HIDE DEF h, e
<1> DEFINE c == Line(t, h, q, o)
           d == Line(t2, e, q, o)
<1>3. Len(q) \in Nat /\ Len(o) \in Nat
  OBVIOUS
<1>4. /\ Len(c) = 2 + Len(q) + Len(o)
      /\ c[1] = StateChanged(t, FALSE)
      /\ c[2] = m
      /\ \A i \in 1..Len(q) : c[2 + i] = q[i]
      /\ \A i \in 1..Len(o) : c[2 + Len(q) + i] = o[i]
  <2>1. Shape(c, t, h, q, o)
    BY <1>1, LineShape
  <2> HIDE DEF c
  <2> QED BY <1>1, <1>3, <2>1 DEF Shape
<1>5. /\ Len(d) = 1 + Len(q) + Len(o)
      /\ d[1] = StateChanged(t2, FALSE)
      /\ \A i \in 1..Len(q) : d[1 + i] = q[i]
      /\ \A i \in 1..Len(o) : d[1 + Len(q) + i] = o[i]
  <2>1. Shape(d, t2, e, q, o)
    BY <1>2, LineShape
  <2> HIDE DEF d
  <2> QED BY <1>2, <1>3, <2>1 DEF Shape
<1> HIDE DEF c, d
<1>6. ASSUME NEW i \in 2..Len(d)
      PROVE  d[i] = c[i + 1]
  <2>1. CASE i - 1 <= Len(q)
    <3>1. i - 1 \in 1..Len(q) /\ 1 + (i - 1) = i /\ 2 + (i - 1) = i + 1
      BY <1>3, <1>5, <2>1
    <3> QED BY ZenonT(30), <1>4, <1>5, <3>1
  <2>2. CASE ~ (i - 1 <= Len(q))
    <3> DEFINE j == i - 1 - Len(q)
    <3>1. j \in 1..Len(o) /\ 1 + Len(q) + j = i /\ 2 + Len(q) + j = i + 1
      BY <1>3, <1>5, <2>2
    <3> HIDE DEF j
    <3> QED BY <1>4, <1>5, <3>1
  <2> QED BY <2>1, <2>2
<1>7. Len(c) = Len(d) + 1 /\ Len(d) \in Nat \ {0}
  BY <1>3, <1>4, <1>5
<1>8. Handled(c, d, t, t2, m)
  BY <1>4, <1>5, <1>6, <1>7 DEF Handled
<1> QED BY <1>8 DEF c, d, h, e

\* The chain c, from whose end o was cut off, became d.
Cut(c, d, o) ==
  /\ Len(c) = Len(d) + Len(o)
  /\ Len(d) \in Nat \ {0}
  /\ \A i \in 1..Len(d) : d[i] = c[i]

\* Dropping the outbox cuts the end of the chain off.
LEMMA LineCut ==
  ASSUME NEW t \in StreamStates, NEW h \in Seq(Messages),
         NEW q \in Seq(Messages), NEW o \in Seq(Messages)
  PROVE  Cut(Line(t, h, q, o), Line(t, h, q, <<>>), o)
<1> DEFINE e == <<>>
<1>1. e \in Seq(Messages) /\ Len(e) = 0
  OBVIOUS
<1> HIDE DEF e
<1> DEFINE c == Line(t, h, q, o)
           d == Line(t, h, q, e)
<1>2. Len(h) \in Nat /\ Len(q) \in Nat /\ Len(o) \in Nat
  OBVIOUS
<1>3. /\ Len(c) = 1 + Len(h) + Len(q) + Len(o)
      /\ c[1] = StateChanged(t, FALSE)
      /\ \A i \in 1..Len(h) : c[1 + i] = h[i]
      /\ \A i \in 1..Len(q) : c[1 + Len(h) + i] = q[i]
  <2>1. Shape(c, t, h, q, o)
    BY LineShape
  <2> HIDE DEF c
  <2> QED BY <2>1 DEF Shape
<1>4. /\ Len(d) = 1 + Len(h) + Len(q)
      /\ d[1] = StateChanged(t, FALSE)
      /\ \A i \in 1..Len(h) : d[1 + i] = h[i]
      /\ \A i \in 1..Len(q) : d[1 + Len(h) + i] = q[i]
  <2>1. Shape(d, t, h, q, e)
    BY <1>1, LineShape
  <2> HIDE DEF d
  <2> QED BY <1>1, <1>2, <2>1 DEF Shape
<1> HIDE DEF c, d
<1>5. ASSUME NEW i \in 1..Len(d)
      PROVE  d[i] = c[i]
  <2>1. CASE i = 1
    BY <1>3, <1>4, <2>1
  <2>2. CASE i # 1 /\ i - 1 <= Len(h)
    <3>1. i - 1 \in 1..Len(h) /\ 1 + (i - 1) = i
      BY <1>2, <1>4, <2>2
    <3> QED BY <1>3, <1>4, <3>1
  <2>3. CASE ~ (i - 1 <= Len(h))
    <3> DEFINE j == i - 1 - Len(h)
    <3>1. j \in 1..Len(q) /\ 1 + Len(h) + j = i
      BY <1>2, <1>4, <2>3
    <3> HIDE DEF j
    <3> QED BY <1>3, <1>4, <3>1
  <2> QED BY <2>1, <2>2, <2>3
<1>6. Cut(c, d, o)
  BY <1>2, <1>3, <1>4, <1>5 DEF Cut
<1> QED BY <1>6 DEF c, d, e

\* A frame at the end of a chain changes nothing; a state that follows the
\* last one prolongs it.
LEMMA LinkedAppend ==
  ASSUME NEW c \in Seq(Messages), NEW m \in Messages, NEW s,
         Linked(c), Latest(c, s),
         m # Frame => m.state \in TaskLife!Successors[s]
  PROVE  /\ Linked(Append(c, m))
         /\ Latest(Append(c, m), IF m = Frame THEN s ELSE m.state)
<1> DEFINE d == Append(c, m)
<1>1. /\ Len(d) = Len(c) + 1
      /\ \A i \in 1..Len(c) : d[i] = c[i]
      /\ d[Len(c) + 1] = m
      /\ Len(c) \in Nat
  BY AppendProperties
<1> HIDE DEF d
<1>2. Linked(d)
  <2> SUFFICES ASSUME NEW i \in 1..Len(d), NEW j \in 1..Len(d),
                      i < j, d[i] # Frame, d[j] # Frame,
                      \A k \in (i + 1)..(j - 1) : d[k] = Frame
               PROVE  d[j].state \in TaskLife!Successors[d[i].state]
    BY DEF Linked
  <2>1. i \in 1..Len(c) /\ d[i] = c[i]
    BY <1>1
  <2>2. \A k \in (i + 1)..(j - 1) : c[k] = Frame
    BY <1>1
  <2>3. CASE j <= Len(c)
    <3>1. j \in 1..Len(c) /\ d[j] = c[j]
      BY <1>1, <2>3
    <3> QED BY <2>1, <2>2, <3>1 DEF Linked
  <2>4. CASE ~ (j <= Len(c))
    <3>1. j = Len(c) + 1 /\ d[j] = m
      BY <1>1, <2>4
    <3>2. \A k \in (i + 1)..Len(c) : c[k] = Frame
      BY <1>1, <2>2, <3>1
    <3>3. c[i].state = s
      BY <2>1, <3>2 DEF Latest
    <3> QED BY <2>1, <3>1, <3>3
  <2> QED BY <2>3, <2>4
<1>3. CASE m = Frame
  <2> SUFFICES ASSUME NEW i \in 1..Len(d), d[i] # Frame,
                      \A j \in (i + 1)..Len(d) : d[j] = Frame
               PROVE  d[i].state = s
    BY <1>2, <1>3 DEF Latest, d
  <2>1. i \in 1..Len(c) /\ d[i] = c[i]
    BY <1>1, <1>3
  <2>2. \A j \in (i + 1)..Len(c) : c[j] = Frame
    BY <1>1
  <2> QED BY <2>1, <2>2 DEF Latest
<1>4. CASE m # Frame
  <2> SUFFICES ASSUME NEW i \in 1..Len(d), d[i] # Frame,
                      \A j \in (i + 1)..Len(d) : d[j] = Frame
               PROVE  d[i].state = m.state
    BY <1>2, <1>4 DEF Latest, d
  <2>1. i = Len(c) + 1
    BY <1>1, <1>4
  <2> QED BY <1>1, <2>1
<1> QED BY <1>3, <1>4

\* The chain without its first link is a chain, with the same end.
LEMMA LinkedHandled ==
  ASSUME NEW c, NEW d,
         Len(d) \in Nat \ {0}, Len(c) = Len(d) + 1,
         c[1] # Frame, d[1] # Frame,
         IF c[2] = Frame THEN d[1].state = c[1].state
                         ELSE d[1].state = c[2].state,
         \A i \in 2..Len(d) : d[i] = c[i + 1]
  PROVE  /\ Linked(c) => Linked(d)
         /\ \A s : Latest(c, s) => Latest(d, s)
<1>1. Linked(c) => Linked(d)
  <2> SUFFICES ASSUME Linked(c), NEW i \in 1..Len(d), NEW j \in 1..Len(d),
                      i < j, d[i] # Frame, d[j] # Frame,
                      \A k \in (i + 1)..(j - 1) : d[k] = Frame
               PROVE  d[j].state \in TaskLife!Successors[d[i].state]
    BY DEF Linked
  <2>1. j + 1 \in 1..Len(c) /\ d[j] = c[j + 1] /\ c[j + 1] # Frame
    OBVIOUS
  <2>2. \A k \in (i + 2)..j : c[k] = Frame
    <3> TAKE k \in (i + 2)..j
    <3>1. k - 1 \in (i + 1)..(j - 1) /\ k - 1 \in 2..Len(d) /\ (k - 1) + 1 = k
      OBVIOUS
    <3>2. d[k - 1] = Frame /\ d[k - 1] = c[(k - 1) + 1]
      BY <3>1
    <3> QED BY <3>1, <3>2
  <2>3. CASE i = 1 /\ c[2] = Frame
    <3>1. \A k \in (1 + 1)..((j + 1) - 1) : c[k] = Frame
      <4> TAKE k \in (1 + 1)..((j + 1) - 1)
      <4>1. k = 2 \/ k \in (i + 2)..j
        BY <2>3
      <4> QED BY <2>2, <2>3, <4>1
    <3>2. c[j + 1].state \in TaskLife!Successors[c[1].state]
      <4>1. 1 \in 1..Len(c) /\ 1 < j + 1
        OBVIOUS
      <4> QED BY <2>1, <3>1, <4>1 DEF Linked
    <3> QED BY <2>1, <2>3, <3>2
  <2>4. CASE ~ (i = 1 /\ c[2] = Frame)
    <3>1. c[i + 1] # Frame /\ c[i + 1].state = d[i].state
      BY <2>4
    <3>2. \A k \in ((i + 1) + 1)..((j + 1) - 1) : c[k] = Frame
      BY <2>2
    <3>3. i + 1 \in 1..Len(c) /\ i + 1 < j + 1
      OBVIOUS
    <3>4. c[j + 1].state \in TaskLife!Successors[c[i + 1].state]
      BY <2>1, <3>1, <3>2, <3>3 DEF Linked
    <3> QED BY <2>1, <3>1, <3>4
  <2> QED BY <2>3, <2>4
<1>2. ASSUME NEW s, Latest(c, s)
      PROVE  Latest(d, s)
  <2> SUFFICES ASSUME NEW i \in 1..Len(d), d[i] # Frame,
                      \A j \in (i + 1)..Len(d) : d[j] = Frame
               PROVE  d[i].state = s
    BY DEF Latest
  <2>1. \A k \in (i + 2)..Len(c) : c[k] = Frame
    <3> TAKE k \in (i + 2)..Len(c)
    <3>1. k - 1 \in (i + 1)..Len(d) /\ k - 1 \in 2..Len(d) /\ (k - 1) + 1 = k
      OBVIOUS
    <3>2. d[k - 1] = Frame /\ d[k - 1] = c[(k - 1) + 1]
      BY <3>1
    <3> QED BY <3>1, <3>2
  <2>2. CASE i = 1 /\ c[2] = Frame
    <3>1. \A k \in (1 + 1)..Len(c) : c[k] = Frame
      <4> TAKE k \in (1 + 1)..Len(c)
      <4>1. k = 2 \/ k \in (i + 2)..Len(c)
        BY <2>2
      <4> QED BY <2>1, <2>2, <4>1
    <3>2. c[1].state = s
      <4>1. 1 \in 1..Len(c)
        OBVIOUS
      <4> QED BY <1>2, <3>1, <4>1 DEF Latest
    <3> QED BY <2>2, <3>2
  <2>3. CASE ~ (i = 1 /\ c[2] = Frame)
    <3>1. c[i + 1] # Frame /\ c[i + 1].state = d[i].state
      BY <2>3
    <3>2. \A k \in ((i + 1) + 1)..Len(c) : c[k] = Frame
      BY <2>1
    <3>3. i + 1 \in 1..Len(c)
      OBVIOUS
    <3> QED BY <1>2, <3>1, <3>2, <3>3 DEF Latest
  <2> QED BY <2>2, <2>3
<1> QED BY <1>1, <1>2

\* A chain cut short is a chain.
LEMMA LinkedCut ==
  ASSUME NEW c, NEW d, Len(d) \in Nat, Len(c) \in Nat, Len(d) <= Len(c),
         \A i \in 1..Len(d) : d[i] = c[i], Linked(c)
  PROVE  Linked(d)
<1> SUFFICES ASSUME NEW i \in 1..Len(d), NEW j \in 1..Len(d),
                    i < j, d[i] # Frame, d[j] # Frame,
                    \A k \in (i + 1)..(j - 1) : d[k] = Frame
             PROVE  d[j].state \in TaskLife!Successors[d[i].state]
  BY DEF Linked
<1>1. /\ i \in 1..Len(c) /\ j \in 1..Len(c)
      /\ d[i] = c[i] /\ d[j] = c[j]
      /\ \A k \in (i + 1)..(j - 1) : c[k] = Frame
  OBVIOUS
<1> QED BY <1>1 DEF Linked

-----------------------------------------------------------------------------
(* Types. *)

Statuses ==
  [state : StreamStates, error : BOOLEAN, reconnects : 0..(DownThreshold + 1)]

\* update_state keeps the types and sends at most one message.
LEMMA UpdateType ==
  ASSUME ConstantsValid, TypeOK, NEW s \in StreamStates, NEW e \in BOOLEAN
  PROVE  /\ SetState(s, e) \in Statuses
         /\ News(s, e) \in Seq(Messages)
         /\ Len(News(s, e)) \in Nat /\ Len(News(s, e)) <= 1
<1>1. DownThreshold \in Nat \ {0} /\ status \in Statuses
  BY DEF ConstantsValid, TypeOK, Statuses
<1>2. Smaller(status.reconnects + 1, DownThreshold + 1) \in 0..(DownThreshold + 1)
  BY <1>1 DEF Smaller, Statuses
<1>3. SetState(s, e) \in Statuses
  BY <1>1, <1>2 DEF SetState, Statuses
<1>4. /\ News(s, e) \in Seq(Messages)
      /\ Len(News(s, e)) \in Nat /\ Len(News(s, e)) <= 1
  <2>1. CASE status.state = s
    BY <2>1 DEF News
  <2>2. CASE status.state # s
    BY <2>2, OneAnnouncement DEF News
  <2> QED BY <2>1, <2>2
<1> QED BY <1>3, <1>4

\* A failed attempt is counted before the limit is reached.
LEMMA ErrorType ==
  ASSUME ConstantsValid, TypeOK, BackoffConsistent,
         pc \notin {"cooloff", "done"}
  PROVE  errors + 1 \in 0..MaxRetries
BY DEF ConstantsValid, TypeOK, BackoffConsistent

\* The Err branch keeps the types.
LEMMA StreamErrorType ==
  ASSUME ConstantsValid, TypeOK, BackoffConsistent,
         pc \notin {"cooloff", "done"}, StreamError, UNCHANGED <<live, first>>
  PROVE  TypeOK'
<1>1. errors' \in 0..MaxRetries
  BY ErrorType DEF StreamError
<1>2. pc' \in {"cooloff", "backoff"} /\ status' \in Statuses
      /\ outbox' \in Seq(Messages) /\ Len(outbox') <= 2
  <2>1. {"Failed", "Reconnecting"} \subseteq StreamStates
    BY DEF StreamStates
  <2>2. \A s \in {"Failed", "Reconnecting"} :
          /\ SetState(s, TRUE) \in Statuses
          /\ News(s, TRUE) \in Seq(Messages)
          /\ Len(News(s, TRUE)) \in Nat /\ Len(News(s, TRUE)) <= 1
    BY <2>1, UpdateType
  <2>3. PICK s \in {"Failed", "Reconnecting"} :
          pc' \in {"cooloff", "backoff"} /\ UpdateState(s, TRUE)
    BY DEF StreamError
  <2>4. status' = SetState(s, TRUE) /\ outbox' = News(s, TRUE)
    BY <2>3 DEF UpdateState
  <2>5. Len(outbox') \in Nat /\ Len(outbox') <= 1
    BY <2>2, <2>4
  <2>6. Len(outbox') <= 2
    BY <2>5
  <2>7. status' \in Statuses /\ outbox' \in Seq(Messages)
    BY <2>2, <2>4
  <2> QED BY <2>3, <2>6, <2>7
<1>3. rx' = Closed /\ lagged' = FALSE /\ UNCHANGED <<env, delay, task, live, first>>
  BY DEF StreamError
<1>4. Closed \in Closed..RingCapacity
  BY DEF Closed, ConstantsValid
<1> QED BY <1>1, <1>2, <1>3, <1>4 DEF TypeOK, Statuses, env, task

\* The task works on one message at a time.
LEMMA HandOfOne ==
  ASSUME NEW h \in Seq(Messages), Len(h) <= 1, h # <<>>
  PROVE  h[1] \in Messages /\ h = <<h[1]>>
<1>1. Len(h) \in Nat /\ Len(h) # 0
  BY EmptySeq
<1>2. Len(h) = 1
  BY <1>1
<1>3. h[1] \in Messages
  BY <1>2, ElementOfSeq
<1>4. <<h[1]>> \in Seq(Messages) /\ Len(<<h[1]>>) = 1 /\ <<h[1]>>[1] = h[1]
  BY <1>3
<1> QED BY <1>2, <1>3, <1>4, SeqEqual

\* The initial state is well typed.
LEMMA TypeInit ==
  ASSUME ConstantsValid, Init
  PROVE  TypeOK
<1>1. Closed \in Closed..RingCapacity
  BY DEF Closed, ConstantsValid
<1>2. /\ InitialDelay \in InitialDelay..MaxDelay /\ 0 \in 0..MaxRetries
      /\ QueueCapacity >= 0 /\ 0 \in 0..(DownThreshold + 1)
  BY DEF ConstantsValid
<1>3. "Unknown" \in StreamStates
  BY DEF StreamStates
<1>4. <<>> \in Seq(Messages) /\ Len(<<>>) = 0
  BY EmptySeq
<1>5. /\ outbox \in Seq(Messages) /\ Len(outbox) <= 2
      /\ queue \in Seq(Messages) /\ Len(queue) <= QueueCapacity
      /\ hand \in Seq(Messages) /\ Len(hand) <= 1
  BY <1>2, <1>4 DEF Init
<1>6. status \in Statuses
  BY <1>2, <1>3 DEF Init, Statuses
<1>7. /\ link \in BOOLEAN /\ prompt \in BOOLEAN /\ pc = "connect" /\ live = {}
      /\ rx = Closed /\ lagged = FALSE /\ first = TRUE /\ errors = 0
      /\ delay = InitialDelay /\ due = FALSE /\ serving = TRUE /\ told = "Unknown"
      /\ signal = "none" /\ downs = 0
  BY DEF Init
<1>8. errors \in 0..MaxRetries /\ delay \in InitialDelay..MaxDelay /\ downs \in 0..2
  BY <1>2, <1>7
<1> QED BY <1>1, <1>3, <1>5, <1>6, <1>7, <1>8 DEF TypeOK, Statuses

\* Every step keeps the types.
LEMMA TypeStep ==
  ASSUME ConstantsValid, TypeOK, BackoffConsistent, Waiting, [Next]_vars
  PROVE  TypeOK'
<1>1. /\ QueueCapacity \in Nat \ {0} /\ RingCapacity \in Nat \ {0}
      /\ MaxRetries \in Nat \ {0} /\ DownThreshold \in Nat \ {0}
      /\ InitialDelay \in Nat \ {0} /\ MaxDelay \in Nat \ {0}
      /\ InitialDelay <= MaxDelay
  BY DEF ConstantsValid
<1>2. InitialDelay \in InitialDelay..MaxDelay
  BY <1>1
<1>3. {"Connecting", "Connected", "Streaming"} \subseteq StreamStates
  BY DEF StreamStates
<1>4. ASSUME NEW s \in {"Connecting", "Connected", "Streaming"},
             UpdateState(s, FALSE)
      PROVE  /\ status' \in Statuses
             /\ outbox' \in Seq(Messages)
             /\ Len(outbox') <= 2
  <2>1. /\ SetState(s, FALSE) \in Statuses
        /\ News(s, FALSE) \in Seq(Messages)
        /\ Len(News(s, FALSE)) \in Nat /\ Len(News(s, FALSE)) <= 1
    BY <1>3, UpdateType
  <2>2. status' = SetState(s, FALSE) /\ outbox' = News(s, FALSE)
    BY <1>4 DEF UpdateState
  <2>3. Len(outbox') \in Nat /\ Len(outbox') <= 1
    BY <2>1, <2>2
  <2>4. Len(outbox') <= 2
    BY <2>3
  <2> QED BY <2>1, <2>2, <2>4
<1>5. CASE Connect
  <2>1. status' \in Statuses /\ outbox' \in Seq(Messages) /\ Len(outbox') <= 2
    BY <1>4, <1>5 DEF Connect
  <2> QED BY <1>5, <2>1 DEF TypeOK, Connect, Statuses, env, task
<1>6. CASE Subscribe
  <2>1. rx' \in Closed..RingCapacity
    BY <1>1, <1>6 DEF Subscribe, Closed
  <2> QED BY <1>6, <2>1 DEF TypeOK, Subscribe, env, task
<1>7. CASE Build
  BY <1>7 DEF TypeOK, Build, env, task
<1>8. CASE BuildFails
  BY <1>8, StreamErrorType DEF BuildFails, At
<1>9. CASE Install
  <2>1. status' \in Statuses /\ outbox' \in Seq(Messages) /\ Len(outbox') <= 2
    BY <1>4, <1>9 DEF Install
  <2> QED BY <1>9, <2>1 DEF TypeOK, Install, Statuses, env, task
<1>10. ASSUME NEW sampled \in BOOLEAN, ReceiveFrame(sampled)
       PROVE  TypeOK'
  <2> DEFINE frame == IF sampled THEN <<Frame>> ELSE <<>>
  <2>1. frame \in Seq(Messages) /\ Len(frame) <= 1 /\ Len(frame) \in Nat
    <3>1. Frame \in Messages
      BY MessageKinds
    <3> QED BY <3>1
  <2>2. /\ SetState("Streaming", FALSE) \in Statuses
        /\ News("Streaming", FALSE) \in Seq(Messages)
        /\ Len(News("Streaming", FALSE)) \in Nat /\ Len(News("Streaming", FALSE)) <= 1
    BY <1>3, UpdateType
  <2>3. \/ /\ status' = SetState("Streaming", FALSE)
           /\ outbox' = News("Streaming", FALSE) \o frame
           /\ errors' = 0 /\ delay' = InitialDelay
        \/ /\ outbox' = frame
           /\ UNCHANGED <<status, errors, delay>>
    BY <1>10 DEF ReceiveFrame, ResetBackoff
  <2>4. /\ rx' = rx - 1 /\ rx > 0 /\ first' = FALSE
        /\ UNCHANGED <<env, pc, live, lagged, task>>
    BY <1>10 DEF ReceiveFrame
  <2> DEFINE news == News("Streaming", FALSE)
  <2>5. news \o frame \in Seq(Messages) /\ Len(news \o frame) <= 2
    <3> HIDE DEF frame
    <3>1. news \in Seq(Messages) /\ Len(news) \in Nat /\ Len(news) <= 1
      BY <2>2
    <3> HIDE DEF news
    <3>2. /\ news \o frame \in Seq(Messages)
          /\ Len(news \o frame) = Len(news) + Len(frame)
      BY <2>1, <3>1, ConcatProperties
    <3>3. Len(news) + Len(frame) <= 2
      BY <2>1, <3>1
    <3> QED BY <3>2, <3>3
  <2> HIDE DEF frame
  <2> HIDE DEF news
  <2>6. /\ outbox' \in Seq(Messages) /\ Len(outbox') <= 2
    <3>1. outbox' = news \o frame \/ outbox' = frame
      BY <2>3 DEF news
    <3>2. Len(frame) <= 2
      BY <2>1
    <3> QED BY <2>1, <2>5, <3>1, <3>2
  <2>8. /\ status' \in Statuses
        /\ errors' \in 0..MaxRetries /\ delay' \in InitialDelay..MaxDelay
    <3>1. /\ status \in Statuses /\ errors \in 0..MaxRetries
          /\ delay \in InitialDelay..MaxDelay /\ 0 \in 0..MaxRetries
      BY <1>1 DEF TypeOK, Statuses
    <3>2. SetState("Streaming", FALSE) \in Statuses
      BY <2>2
    <3> QED BY <1>2, <2>3, <3>1, <3>2
  <2>7. rx' \in Closed..RingCapacity
    BY <1>1, <2>4 DEF TypeOK, Closed
  <2> QED BY <2>4, <2>6, <2>7, <2>8 DEF TypeOK, Statuses, env, task
<1>11. CASE ReceiveLagged
  BY <1>11 DEF TypeOK, ReceiveLagged, env, task
<1>12. CASE ReceiveTimeout
  BY <1>12, StreamErrorType DEF ReceiveTimeout, At
<1>13. CASE Retry
  <2>1. delay' \in InitialDelay..MaxDelay
    BY <1>13, GrownDelay DEF TypeOK, Retry
  <2> QED BY <1>13, <2>1 DEF TypeOK, Retry, env, task
<1>14. CASE RetryFailed
  BY <1>1, <1>2, <1>14 DEF TypeOK, RetryFailed, ResetBackoff, env, task
<1>15. CASE Send
  <2>1. Head(outbox) \in Messages /\ Tail(outbox) \in Seq(Messages)
        /\ Len(Tail(outbox)) = Len(outbox) - 1
    BY <1>15, HeadTailProperties DEF TypeOK, Send
  <2>2. Append(queue, Head(outbox)) \in Seq(Messages)
        /\ Len(Append(queue, Head(outbox))) = Len(queue) + 1
    BY <2>1, AppendProperties DEF TypeOK
  <2>3. outbox' \in Seq(Messages) /\ Len(outbox') <= 2
    BY <1>15, <2>1 DEF TypeOK, Send
  <2>4. queue' \in Seq(Messages) /\ Len(queue') <= QueueCapacity
    BY <1>1, <1>15, <2>2 DEF TypeOK, Send
  <2> QED BY <1>15, <2>3, <2>4 DEF TypeOK, Send, env
<1>16. CASE SendFails
  <2>1. outbox' \in Seq(Messages) /\ Len(outbox') <= 2
    BY <1>16, HeadTailProperties DEF TypeOK, SendFails
  <2>2. /\ pc' \in {pc, "done"} /\ live' \in {live, {}} /\ rx' \in {rx, Closed}
        /\ lagged' \in {lagged, FALSE}
        /\ UNCHANGED <<env, first, status, errors, delay, task>>
    BY <1>16 DEF SendFails
  <2>3. rx' \in Closed..RingCapacity
    BY <1>1, <2>2 DEF TypeOK, Closed
  <2>4. pc' \in {"connect", "subscribe", "build", "install", "recv",
                 "backoff", "cooloff", "done"}
    BY <2>2 DEF TypeOK
  <2>5. live' \subseteq {"old", "current"} /\ lagged' \in BOOLEAN
    BY <2>2 DEF TypeOK
  <2> QED BY <2>1, <2>2, <2>3, <2>4, <2>5 DEF TypeOK, env, task
<1>17. CASE Take
  <2>1. Head(queue) \in Messages /\ Tail(queue) \in Seq(Messages)
        /\ Len(Tail(queue)) = Len(queue) - 1
    BY <1>17, HeadTailProperties DEF TypeOK, Take
  <2>2. hand' \in Seq(Messages) /\ Len(hand') <= 1
    BY <1>17, <2>1 DEF Take
  <2>3. queue' \in Seq(Messages) /\ Len(queue') <= QueueCapacity
    BY <1>1, <1>17, <2>1 DEF TypeOK, Take
  <2> QED BY <1>17, <2>2, <2>3 DEF TypeOK, Take, env, worker
<1>18. CASE HandleFrame
  BY <1>18 DEF TypeOK, HandleFrame, env, worker
<1>19. CASE HandleStateChanged \/ CheckCount \/ PublishDown
  <2>1. hand # <<>> /\ (hand = <<Frame>> \/ hand[1].state \in StreamStates)
    <3>1. hand # <<>>
      BY <1>19 DEF HandleStateChanged, CheckCount, PublishDown
    <3>2. hand[1] \in Messages /\ hand = <<hand[1]>>
      BY <3>1, HandOfOne DEF TypeOK
    <3> QED BY <3>1, <3>2, MessageKinds
  <2>2. told' \in StreamStates
    <3>1. CASE hand = <<Frame>>
      <4>1. PublishDown
        BY <1>19, <3>1 DEF HandleStateChanged, CheckCount
      <4>2. due /\ hand[1] = Frame
        BY <3>1, <4>1 DEF PublishDown
      <4> QED BY <4>2 DEF Waiting
    <3>2. CASE hand # <<Frame>>
      <4>1. told' = told \/ told' = hand[1].state
        BY <1>19 DEF HandleStateChanged, CheckCount, PublishDown, Finish
      <4> QED BY <2>1, <3>2, <4>1 DEF TypeOK
    <3> QED BY <3>1, <3>2
  <2>3. Smaller(downs + 1, 2) \in 0..2
    BY DEF TypeOK, Smaller
  <2>4. signal' \in {"none", "down", "up"} /\ downs' \in 0..2 /\ due' \in BOOLEAN
    <3>1. CASE HandleStateChanged
      BY <3>1 DEF TypeOK, HandleStateChanged
    <3>2. CASE CheckCount
      BY <3>2 DEF TypeOK, CheckCount
    <3>3. CASE PublishDown
      BY <2>3, <3>3 DEF TypeOK, PublishDown
    <3> QED BY <1>19, <3>1, <3>2, <3>3
  <2>5. hand' \in Seq(Messages) /\ Len(hand') <= 1
    <3>1. hand' = hand \/ hand' = <<>>
      BY <1>19 DEF HandleStateChanged, CheckCount, PublishDown, Finish
    <3>2. <<>> \in Seq(Messages) /\ Len(<<>>) <= 1
      OBVIOUS
    <3> QED BY <3>1, <3>2 DEF TypeOK
  <2>6. UNCHANGED <<env, worker, queue, serving>>
    BY <1>19 DEF HandleStateChanged, CheckCount, PublishDown
  <2> QED BY <2>2, <2>4, <2>5, <2>6 DEF TypeOK, env, worker
<1>20. CASE Stop
  <2>1. rx' \in Closed..RingCapacity
    BY <1>1, <1>20 DEF Stop, Closed
  <2>2. outbox' \in Seq(Messages) /\ Len(outbox') <= 2
    BY <1>20 DEF Stop
  <2>3. /\ pc' = "done" /\ live' = {} /\ lagged' = FALSE
        /\ UNCHANGED <<env, first, status, errors, delay, task>>
    BY <1>20 DEF Stop
  <2> QED BY <2>1, <2>2, <2>3 DEF TypeOK, env, task
<1>21. CASE StopTask
  <2>1. /\ queue' \in Seq(Messages) /\ Len(queue') <= QueueCapacity
        /\ hand' \in Seq(Messages) /\ Len(hand') <= 1
    BY <1>1, <1>21 DEF StopTask
  <2> QED BY <1>21, <2>1 DEF TypeOK, StopTask, env, worker
<1>22. CASE LinkChanges
  BY <1>22 DEF TypeOK, LinkChanges, worker, task
<1>23. ASSUME NEW p \in {"old", "current"}, Push(p)
       PROVE  TypeOK'
  BY <1>1, <1>23 DEF TypeOK, Push, Smaller, Closed, env, task
<1>24. ASSUME NEW p \in {"old", "current"}, PipelineDies(p)
       PROVE  TypeOK'
  BY <1>24 DEF TypeOK, PipelineDies, env, task
<1>25. CASE UNCHANGED vars
  BY <1>25 DEF TypeOK, vars, env, worker, task
<1> QED BY <1>5, <1>6, <1>7, <1>8, <1>9, <1>10, <1>11, <1>12, <1>13, <1>14,
           <1>15, <1>16, <1>17, <1>18, <1>19, <1>20, <1>21, <1>22, <1>23,
           <1>24, <1>25 DEF Next, WorkerStep, TaskStep

-----------------------------------------------------------------------------
(* The worker: its status, its errors and its delay. *)

\* What set_state does to the state and to the reconnect count.
LEMMA SetStateEffect ==
  ASSUME NEW s, NEW e
  PROVE  /\ SetState(s, e).state = s
         /\ SetState(s, e).reconnects =
              IF s = "Streaming" THEN 0
              ELSE IF s = "Reconnecting" /\ status.state # s
                   THEN Smaller(status.reconnects + 1, DownThreshold + 1)
                   ELSE status.reconnects
BY DEF SetState

\* What a failed attempt leaves behind.
LEMMA StreamErrorEffect ==
  ASSUME ConstantsValid, TypeOK, BackoffConsistent,
         pc \notin {"cooloff", "done"}, StreamError
  PROVE  /\ errors' = errors + 1
         /\ UNCHANGED <<env, task, delay>>
         /\ \/ /\ pc' = "cooloff" /\ errors' = MaxRetries
               /\ UpdateState("Failed", TRUE)
            \/ /\ pc' = "backoff" /\ errors' # MaxRetries
               /\ UpdateState("Reconnecting", TRUE)
<1>1. errors \in Nat /\ MaxRetries \in Nat /\ errors + 1 <= MaxRetries
  BY ErrorType DEF TypeOK, ConstantsValid
<1>2. errors' = errors + 1 /\ UNCHANGED <<env, task, delay>>
  BY DEF StreamError
<1>3. IF errors + 1 >= MaxRetries
      THEN UpdateState("Failed", TRUE) /\ pc' = "cooloff"
      ELSE UpdateState("Reconnecting", TRUE) /\ pc' = "backoff"
  BY DEF StreamError
<1>4. errors + 1 >= MaxRetries <=> errors' = MaxRetries
  BY <1>1, <1>2
<1> QED BY <1>2, <1>3, <1>4, Zenon

\* A failed attempt keeps them.
LEMMA StreamErrorControl ==
  ASSUME ConstantsValid, TypeOK, Control,
         pc \in {"build", "recv"}, StreamError
  PROVE  Control'
<1>1. /\ errors' = errors + 1
      /\ UNCHANGED <<env, task, delay>>
      /\ \/ /\ pc' = "cooloff" /\ errors' = MaxRetries
            /\ UpdateState("Failed", TRUE)
         \/ /\ pc' = "backoff" /\ errors' # MaxRetries
            /\ UpdateState("Reconnecting", TRUE)
  BY StreamErrorEffect DEF Control
<1>2. pc' = "cooloff" => status'.state = "Failed"
  BY <1>1, SetStateEffect DEF UpdateState
<1>3. pc' = "backoff" => status'.state = "Reconnecting"
  BY <1>1, SetStateEffect DEF UpdateState
<1>4. pc' \in {"cooloff", "backoff"}
  BY <1>1
<1>5. Stage'
  BY <1>2, <1>3, <1>4 DEF Stage
<1>6. Fresh'
  BY <1>2, <1>3, <1>4 DEF Fresh
<1>7. errors \in Nat
  BY DEF TypeOK, ConstantsValid
<1>8. Slept'
  BY <1>1, <1>7 DEF Slept
<1>9. BackoffConsistent'
  <2>1. delay = Backoff[errors]
    BY DEF Control, BackoffConsistent
  <2>2. errors' - 1 = errors
    BY <1>1, <1>7
  <2> QED BY <1>1, <1>4, <2>1, <2>2 DEF BackoffConsistent
<1>10. Idle' /\ Waiting'
  BY <1>1 DEF Control, Idle, Waiting, task
<1> QED BY <1>5, <1>6, <1>8, <1>9, <1>10 DEF Control

\* The initial state satisfies them.
LEMMA ControlInit ==
  ASSUME ConstantsValid, Init
  PROVE  Control
<1>1. /\ pc = "connect" /\ status.state = "Unknown" /\ errors = 0
      /\ delay = InitialDelay /\ serving = TRUE /\ due = FALSE
  BY DEF Init
<1>2. Backoff[0] = InitialDelay /\ 0 # MaxRetries
  BY BackoffEquation DEF ConstantsValid
<1> QED BY <1>1, <1>2 DEF Control, Stage, Fresh, Slept, BackoffConsistent, Idle, Waiting

\* Every step keeps them.
LEMMA ControlStep ==
  ASSUME ConstantsValid, TypeOK, Control, [Next]_vars
  PROVE  Control'
<1>1. /\ errors \in Nat /\ MaxRetries \in Nat \ {0}
      /\ Stage /\ Fresh /\ Slept /\ BackoffConsistent /\ Idle /\ Waiting
  BY DEF TypeOK, ConstantsValid, Control
<1> USE DEF Control, Stage, Fresh, Slept, BackoffConsistent, Idle, Waiting
<1>2. CASE Connect
  <2>1. /\ pc = "connect" /\ pc' = "subscribe" /\ status'.state = "Connecting"
        /\ UNCHANGED <<errors, delay, task>>
    BY <1>2, SetStateEffect DEF Connect, At, UpdateState
  <2> QED BY <1>1, <2>1 DEF task
<1>3. CASE Subscribe
  BY <1>1, <1>3 DEF Subscribe, At, task
<1>4. CASE Build
  BY <1>1, <1>4 DEF Build, At, task
<1>5. CASE BuildFails
  BY <1>5, StreamErrorControl DEF BuildFails, At
<1>6. CASE Install
  <2>1. /\ pc = "install" /\ pc' = "recv" /\ first' = TRUE
        /\ status'.state = "Connected"
        /\ UNCHANGED <<errors, delay, task>>
    BY <1>6, SetStateEffect DEF Install, At, UpdateState
  <2> QED BY <1>1, <2>1 DEF task
<1>7. ASSUME NEW sampled \in BOOLEAN, ReceiveFrame(sampled)
      PROVE  Control'
  <2>1. /\ pc = "recv" /\ pc' = "recv" /\ first' = FALSE
        /\ UNCHANGED <<task>>
    BY <1>7 DEF ReceiveFrame, At
  <2>2. CASE first
    <3>1. /\ status' = SetState("Streaming", FALSE)
          /\ errors' = 0 /\ delay' = InitialDelay
      BY <1>7, <2>2 DEF ReceiveFrame, ResetBackoff
    <3>2. status'.state = "Streaming" /\ status'.reconnects = 0
      BY <3>1, SetStateEffect
    <3>3. Backoff[0] = InitialDelay
      BY BackoffEquation
    <3> QED BY <1>1, <2>1, <3>1, <3>2, <3>3 DEF task
  <2>3. CASE ~ first
    <3>1. UNCHANGED <<status, errors, delay>>
      BY <1>7, <2>3 DEF ReceiveFrame
    <3> QED BY <1>1, <2>1, <2>3, <3>1 DEF task
  <2> QED BY <2>2, <2>3
<1>8. CASE ReceiveLagged
  BY <1>1, <1>8 DEF ReceiveLagged, task
<1>9. CASE ReceiveTimeout
  BY <1>9, StreamErrorControl DEF ReceiveTimeout, At
<1>10. CASE Retry
  <2>1. /\ pc = "backoff" /\ pc' = "connect"
        /\ delay' = Smaller(delay * Multiplier, MaxDelay)
        /\ UNCHANGED <<status, errors, task>>
    BY <1>10 DEF Retry, At
  <2>2. errors - 1 \in Nat /\ (errors - 1) + 1 = errors /\ errors # MaxRetries
    BY <1>1, <2>1
  <2>3. delay = Backoff[errors - 1]
    BY <1>1, <2>1
  <2>4. delay' = Backoff[errors]
    BY <2>1, <2>2, <2>3, BackoffEquation
  <2> QED BY <1>1, <2>1, <2>2, <2>4 DEF task
<1>11. CASE RetryFailed
  <2>1. /\ pc = "cooloff" /\ pc' = "connect"
        /\ errors' = 0 /\ delay' = InitialDelay
        /\ UNCHANGED <<status, task>>
    BY <1>11 DEF RetryFailed, At, ResetBackoff
  <2>2. Backoff[0] = InitialDelay
    BY BackoffEquation
  <2> QED BY <1>1, <2>1, <2>2 DEF task
<1>12. CASE Send
  BY <1>1, <1>12 DEF Send
<1>13. CASE SendFails
  <2>1. /\ pc' = pc \/ pc' = "done"
        /\ UNCHANGED <<first, status, errors, delay, task>>
    BY <1>13 DEF SendFails
  <2> QED BY <1>1, <2>1 DEF task
<1>14. CASE Take
  BY <1>1, <1>14 DEF Take, worker
<1>15. CASE HandleFrame
  BY <1>1, <1>15 DEF HandleFrame, worker
<1>16. CASE HandleStateChanged \/ CheckCount \/ PublishDown
  <2>1. \/ hand' = <<>> /\ ~ due'
        \/ hand' = hand /\ serving /\ Waiting'
    <3>1. CASE HandleStateChanged
      BY <1>1, <3>1 DEF HandleStateChanged, Finish
    <3>2. CASE CheckCount
      <4>1. hand # <<>> /\ hand # <<Frame>> /\ ~ due
            /\ hand[1].state = "Reconnecting" /\ hand[1].error
        BY <3>2 DEF CheckCount
      <4>2. hand[1] # Frame
        BY <4>1, HandOfOne DEF TypeOK
      <4>3. \/ hand' = <<>> /\ ~ due'
            \/ hand' = hand
        BY <3>2, <4>1 DEF CheckCount, Finish
      <4> QED BY <1>1, <4>1, <4>2, <4>3
    <3>3. CASE PublishDown
      BY <3>3 DEF PublishDown, Finish
    <3> QED BY <1>16, <3>1, <3>2, <3>3
  <2>2. UNCHANGED <<worker, queue, serving>>
    BY <1>16 DEF HandleStateChanged, CheckCount, PublishDown
  <2> QED BY <1>1, <2>1, <2>2 DEF worker
<1>17. CASE Stop
  <2>1. pc' = "done" /\ UNCHANGED <<status, task>>
    BY <1>17 DEF Stop
  <2> QED BY <1>1, <2>1 DEF task
<1>18. CASE StopTask
  BY <1>1, <1>18 DEF StopTask, worker
<1>19. CASE LinkChanges
  BY <1>1, <1>19 DEF LinkChanges, worker, task
<1>20. ASSUME NEW p \in {"old", "current"}, Push(p) \/ PipelineDies(p)
       PROVE  Control'
  <2>1. UNCHANGED <<pc, first, status, errors, delay, task>>
    BY <1>20 DEF Push, PipelineDies
  <2> QED BY <1>1, <2>1 DEF task
<1>21. CASE UNCHANGED vars
  BY <1>1, <1>21 DEF vars, worker, task
<1> QED BY <1>2, <1>3, <1>4, <1>5, <1>6, <1>7, <1>8, <1>9, <1>10, <1>11,
           <1>12, <1>13, <1>14, <1>15, <1>16, <1>17, <1>18, <1>19, <1>20,
           <1>21 DEF Next, WorkerStep, TaskStep

-----------------------------------------------------------------------------
(* The messages on their way. *)

\* No state follows itself.
LEMMA SuccessorDiffers ==
  \A s \in StreamStates : s \notin TaskLife!Successors[s]
BY DEF StreamStates, TaskLife!Successors

\* The chain is never empty and starts with what the task was told.
LEMMA ChainType ==
  ASSUME TypeOK
  PROVE  /\ Chain = Line(told, hand, queue, outbox)
         /\ Chain \in Seq(Messages)
         /\ Len(Chain) \in Nat \ {0}
         /\ Chain[1] = StateChanged(told, FALSE)
<1>1. Chain = Line(told, hand, queue, outbox)
  BY DEF Chain, Undelivered, Line
<1>2. Shape(Chain, told, hand, queue, outbox)
  BY <1>1, LineShape DEF TypeOK
<1>3. Len(hand) \in Nat /\ Len(queue) \in Nat /\ Len(outbox) \in Nat
  BY DEF TypeOK
<1> QED BY <1>1, <1>2, <1>3 DEF Shape

\* What a message at the end adds to the chain.
LEMMA PendingAppend ==
  ASSUME NEW c \in Seq(Messages), Len(c) \in Nat \ {0}, NEW m \in Messages
  PROVE  /\ \A s : Pending(Append(c, m), s)
                     <=> Pending(c, s) \/ (m # Frame /\ m.state = s)
         /\ ~ Pending(c, "Reconnecting") => FailureLast(Append(c, m))
<1> DEFINE d == Append(c, m)
<1>1. /\ Len(d) = Len(c) + 1
      /\ \A i \in 1..Len(c) : d[i] = c[i]
      /\ d[Len(c) + 1] = m
  BY AppendProperties
<1> HIDE DEF d
<1>2. ASSUME NEW s
      PROVE  Pending(d, s) <=> Pending(c, s) \/ (m # Frame /\ m.state = s)
  <2>1. ASSUME Pending(d, s)
        PROVE  Pending(c, s) \/ (m # Frame /\ m.state = s)
    <3>1. PICK i \in 2..Len(d) : d[i] # Frame /\ d[i].state = s
      BY <2>1 DEF Pending
    <3>2. CASE i = Len(c) + 1
      BY <1>1, <3>1, <3>2
    <3>3. CASE i # Len(c) + 1
      <4>1. i \in 2..Len(c) /\ d[i] = c[i]
        BY <1>1, <3>3
      <4> QED BY <3>1, <4>1 DEF Pending
    <3> QED BY <3>2, <3>3
  <2>2. ASSUME Pending(c, s)
        PROVE  Pending(d, s)
    <3>1. PICK i \in 2..Len(c) : c[i] # Frame /\ c[i].state = s
      BY <2>2 DEF Pending
    <3>2. i \in 2..Len(d) /\ d[i] = c[i]
      BY <1>1
    <3> QED BY <3>1, <3>2 DEF Pending
  <2>3. ASSUME m # Frame, m.state = s
        PROVE  Pending(d, s)
    <3>1. Len(c) + 1 \in 2..Len(d)
      BY <1>1
    <3> QED BY <1>1, <2>3, <3>1 DEF Pending
  <2> QED BY <2>1, <2>2, <2>3
<1>3. ASSUME ~ Pending(c, "Reconnecting")
      PROVE  FailureLast(d)
  <2> SUFFICES ASSUME NEW i \in 2..Len(d), d[i] # Frame,
                      d[i].state = "Reconnecting", i # Len(d)
               PROVE  FALSE
    BY DEF FailureLast
  <2>1. i \in 2..Len(c) /\ d[i] = c[i]
    BY <1>1
  <2> QED BY <1>3, <2>1 DEF Pending
<1> QED BY <1>2, <1>3 DEF d

\* What handling a message takes from the chain.
LEMMA PendingHandled ==
  ASSUME NEW c, NEW d,
         Len(d) \in Nat \ {0}, Len(c) = Len(d) + 1,
         \A i \in 2..Len(d) : d[i] = c[i + 1]
  PROVE  /\ \A s : Pending(c, s) <=> Pending(d, s) \/ (c[2] # Frame /\ c[2].state = s)
         /\ FailureLast(c) => FailureLast(d)
<1>1. ASSUME NEW s
      PROVE  Pending(c, s) <=> Pending(d, s) \/ (c[2] # Frame /\ c[2].state = s)
  <2>1. ASSUME Pending(c, s)
        PROVE  Pending(d, s) \/ (c[2] # Frame /\ c[2].state = s)
    <3>1. PICK i \in 2..Len(c) : c[i] # Frame /\ c[i].state = s
      BY <2>1 DEF Pending
    <3>2. CASE i # 2
      <4>1. i - 1 \in 2..Len(d) /\ (i - 1) + 1 = i
        BY <3>2
      <4>2. d[i - 1] = c[i]
        BY <4>1
      <4> QED BY <3>1, <4>1, <4>2 DEF Pending
    <3> QED BY <3>1, <3>2
  <2>2. ASSUME Pending(d, s)
        PROVE  Pending(c, s)
    <3>1. PICK i \in 2..Len(d) : d[i] # Frame /\ d[i].state = s
      BY <2>2 DEF Pending
    <3>2. i + 1 \in 2..Len(c) /\ d[i] = c[i + 1]
      OBVIOUS
    <3> QED BY <3>1, <3>2 DEF Pending
  <2>3. ASSUME c[2] # Frame, c[2].state = s
        PROVE  Pending(c, s)
    <3>1. 2 \in 2..Len(c)
      OBVIOUS
    <3> QED BY <2>3, <3>1 DEF Pending
  <2> QED BY <2>1, <2>2, <2>3
<1>2. ASSUME FailureLast(c)
      PROVE  FailureLast(d)
  <2> SUFFICES ASSUME NEW i \in 2..Len(d), d[i] # Frame,
                      d[i].state = "Reconnecting"
               PROVE  i = Len(d)
    BY DEF FailureLast
  <2>1. i + 1 \in 2..Len(c) /\ d[i] = c[i + 1]
    OBVIOUS
  <2>2. i + 1 = Len(c)
    BY <1>2, <2>1 DEF FailureLast
  <2> QED BY <2>2
<1> QED BY <1>1, <1>2

\* What a chain cut short still holds.
LEMMA PendingCut ==
  ASSUME NEW c, NEW d, Len(d) \in Nat, Len(c) \in Nat, Len(d) <= Len(c),
         \A i \in 1..Len(d) : d[i] = c[i]
  PROVE  /\ \A s : Pending(d, s) => Pending(c, s)
         /\ FailureLast(c) /\ Len(d) < Len(c) => ~ Pending(d, "Reconnecting")
         /\ FailureLast(c) => FailureLast(d)
<1>1. ASSUME NEW i \in 2..Len(d)
      PROVE  i \in 2..Len(c) /\ d[i] = c[i]
  OBVIOUS
<1>2. \A s : Pending(d, s) => Pending(c, s)
  BY <1>1 DEF Pending
<1>3. FailureLast(c) /\ Len(d) < Len(c) => ~ Pending(d, "Reconnecting")
  <2> SUFFICES ASSUME FailureLast(c), Len(d) < Len(c), NEW i \in 2..Len(d),
                      d[i] # Frame, d[i].state = "Reconnecting"
               PROVE  FALSE
    BY DEF Pending
  <2>1. i = Len(c)
    BY <1>1 DEF FailureLast
  <2> QED BY <2>1
<1>4. ASSUME FailureLast(c)
      PROVE  FailureLast(d)
  <2> SUFFICES ASSUME NEW i \in 2..Len(d), d[i] # Frame,
                      d[i].state = "Reconnecting"
               PROVE  i = Len(d)
    BY DEF FailureLast
  <2>1. i = Len(c)
    BY <1>1, <1>4 DEF FailureLast
  <2> QED BY <2>1
<1> QED BY <1>2, <1>3, <1>4

\* The messages in the next state, written with the next chain.
LEMMA NextDelivery ==
  /\ ViewsAgree <=> (serving /\ pc # "done" => Latest(Chain, status.state))
  /\ Delivery' <=>
       /\ serving' => Linked(Chain')
       /\ serving' /\ pc' # "done" => Latest(Chain', status'.state)
       /\ prompt' /\ serving' =>
            /\ FailureLast(Chain')
            /\ Pending(Chain', "Reconnecting") => pc' \in {"backoff", "done"}
       /\ prompt' => downs' <= 1
       /\ prompt' /\ serving' /\ downs' # 0 /\ ~ Pending(Chain', "Streaming") =>
            /\ pc' # "done" => status'.reconnects >= DownThreshold
            /\ Pending(Chain', "Reconnecting") => status'.reconnects > DownThreshold
<1>1. ViewsAgree <=> (serving /\ pc # "done" => Latest(Chain, status.state))
  BY DEF ViewsAgree, Latest
<1>2. Linked(Chain)' <=> Linked(Chain')
  BY DEF Linked
<1>3. ViewsAgree' <=> (serving' /\ pc' # "done" => Latest(Chain', status'.state))
  BY DEF ViewsAgree, Latest
<1>4. /\ Pending(Chain, "Reconnecting")' <=> Pending(Chain', "Reconnecting")
      /\ Pending(Chain, "Streaming")' <=> Pending(Chain', "Streaming")
      /\ FailureLast(Chain)' <=> FailureLast(Chain')
  BY DEF Pending, FailureLast
<1>5. LastWord' <=> (prompt' /\ serving' =>
                       /\ FailureLast(Chain')
                       /\ Pending(Chain', "Reconnecting") => pc' \in {"backoff", "done"})
  BY <1>4 DEF LastWord
<1>6. Reported' <=>
        (prompt' /\ serving' /\ downs' # 0 /\ ~ Pending(Chain', "Streaming") =>
           /\ pc' # "done" => status'.reconnects >= DownThreshold
           /\ Pending(Chain', "Reconnecting") => status'.reconnects > DownThreshold)
  BY <1>4 DEF Reported
<1> QED BY <1>1, <1>2, <1>3, <1>5, <1>6 DEF Delivery, OneDownPerOutage

\* A step that leaves the messages and the status alone.
LEMMA DeliveryQuiet ==
  ASSUME Delivery, Chain' = Chain, UNCHANGED <<status, serving, downs, prompt>>,
         \/ pc' = pc
         \/ /\ pc # "done" /\ pc' # "done"
            /\ \/ pc # "backoff"
               \/ prompt /\ serving => ~ Pending(Chain, "Reconnecting")
  PROVE  Delivery'
<1>1. prompt /\ serving /\ pc' # pc => ~ Pending(Chain, "Reconnecting")
  BY DEF Delivery, LastWord
<1> QED BY <1>1, NextDelivery DEF Delivery, LastWord, Reported, OneDownPerOutage

\* update_state announces a state that follows the last one.
LEMMA DeliveryAnnounce ==
  ASSUME ConstantsValid, TypeOK, Delivery,
         NEW s \in StreamStates, NEW e \in BOOLEAN, NEW c,
         c = Append(Chain, StateChanged(s, e)),
         status' = SetState(s, e),
         s \in TaskLife!Successors[status.state],
         UNCHANGED <<serving, downs, prompt>>,
         pc \notin {"backoff", "done"}, pc' # "done",
         \/ Chain' = c /\ (s = "Reconnecting" => pc' = "backoff")
         \/ Chain' = Append(c, Frame) /\ s # "Reconnecting"
  PROVE  Delivery'
<1> DEFINE m == StateChanged(s, e)
<1>1. /\ m \in Messages /\ m # Frame /\ m.state = s
      /\ Frame \in Messages
  BY MessageKinds
<1> HIDE DEF m
<1>2. Chain \in Seq(Messages) /\ Len(Chain) \in Nat \ {0}
  BY ChainType
<1>3. c = Append(Chain, m)
  BY DEF m
<1>4. c \in Seq(Messages) /\ Len(c) \in Nat \ {0}
  BY <1>1, <1>2, <1>3, AppendProperties
<1>5. s # status.state
  BY SuccessorDiffers
<1>6. /\ serving => Linked(c) /\ Latest(c, s)
      /\ serving => Linked(Append(c, Frame)) /\ Latest(Append(c, Frame), s)
  <2> SUFFICES ASSUME serving
               PROVE  /\ Linked(c) /\ Latest(c, s)
                      /\ Linked(Append(c, Frame)) /\ Latest(Append(c, Frame), s)
    OBVIOUS
  <2>1. Linked(Chain) /\ Latest(Chain, status.state)
    BY NextDelivery DEF Delivery
  <2>2. Linked(c) /\ Latest(c, s)
    BY <1>1, <1>2, <1>3, <2>1, LinkedAppend
  <2>3. Linked(Append(c, Frame)) /\ Latest(Append(c, Frame), s)
    BY <1>1, <1>4, <2>2, LinkedAppend
  <2> QED BY <2>2, <2>3
<1>7. /\ \A x : Pending(c, x) <=> Pending(Chain, x) \/ x = s
      /\ ~ Pending(Chain, "Reconnecting") => FailureLast(c)
  BY <1>1, <1>2, <1>3, PendingAppend
<1>8. /\ \A x : Pending(Append(c, Frame), x) <=> Pending(c, x)
      /\ ~ Pending(c, "Reconnecting") => FailureLast(Append(c, Frame))
  BY <1>1, <1>4, PendingAppend
<1>9. prompt /\ serving => ~ Pending(Chain, "Reconnecting")
  BY DEF Delivery, LastWord
<1>10. status'.state = s
  BY SetStateEffect
<1>11. serving' => Linked(Chain') /\ Latest(Chain', status'.state)
  BY <1>6, <1>10
<1>12. \A x : Pending(Chain', x) <=> Pending(Chain, x) \/ x = s
  BY <1>7, <1>8
<1>13. prompt' /\ serving' =>
         /\ FailureLast(Chain')
         /\ Pending(Chain', "Reconnecting") => pc' \in {"backoff", "done"}
  BY <1>7, <1>8, <1>9, <1>12
<1>14. prompt' => downs' <= 1
  BY DEF Delivery, OneDownPerOutage
<1>15. prompt' /\ serving' /\ downs' # 0 /\ ~ Pending(Chain', "Streaming") =>
         /\ pc' # "done" => status'.reconnects >= DownThreshold
         /\ Pending(Chain', "Reconnecting") => status'.reconnects > DownThreshold
  <2> SUFFICES ASSUME prompt, serving, downs # 0, ~ Pending(Chain', "Streaming")
               PROVE  /\ status'.reconnects >= DownThreshold
                      /\ Pending(Chain', "Reconnecting") =>
                           status'.reconnects > DownThreshold
    OBVIOUS
  <2>1. s # "Streaming" /\ ~ Pending(Chain, "Streaming")
    BY <1>12
  <2>2. status.reconnects >= DownThreshold
    BY <2>1 DEF Delivery, Reported
  <2>3. status.reconnects \in Nat /\ DownThreshold \in Nat
    BY DEF TypeOK, ConstantsValid
  <2>4. CASE s = "Reconnecting"
    <3>1. status'.reconnects = Smaller(status.reconnects + 1, DownThreshold + 1)
      BY <1>5, <2>4, SetStateEffect
    <3> QED BY <2>2, <2>3, <3>1 DEF Smaller
  <2>5. CASE s # "Reconnecting"
    <3>1. status'.reconnects = status.reconnects
      BY <2>1, <2>5, SetStateEffect
    <3>2. ~ Pending(Chain', "Reconnecting")
      BY <1>9, <1>12, <2>5
    <3> QED BY <2>2, <3>1, <3>2
  <2> QED BY <2>4, <2>5
<1> QED BY <1>11, <1>13, <1>14, <1>15, NextDelivery

\* A sampled frame is sent after the states.
LEMMA DeliveryFrame ==
  ASSUME TypeOK, Delivery, Chain' = Append(Chain, Frame),
         pc' = pc, pc \notin {"backoff", "done"},
         UNCHANGED <<status, serving, downs, prompt>>
  PROVE  Delivery'
<1>1. Frame \in Messages
  BY MessageKinds
<1>2. Chain \in Seq(Messages) /\ Len(Chain) \in Nat \ {0}
  BY ChainType
<1>3. serving => Linked(Chain') /\ Latest(Chain', status.state)
  BY <1>1, <1>2, LinkedAppend, NextDelivery DEF Delivery
<1>4. /\ \A x : Pending(Chain', x) <=> Pending(Chain, x)
      /\ ~ Pending(Chain, "Reconnecting") => FailureLast(Chain')
  BY <1>1, <1>2, PendingAppend
<1>5. prompt /\ serving => ~ Pending(Chain, "Reconnecting")
  BY DEF Delivery, LastWord
<1> QED BY <1>3, <1>4, <1>5, NextDelivery DEF Delivery, OneDownPerOutage, Reported

\* The task learns the state it was handed, or drops the frame.
LEMMA HandledChain ==
  ASSUME TypeOK, TypeOK', hand # <<>>, hand' = <<>>, UNCHANGED <<queue, outbox>>,
         told' = IF hand[1] = Frame THEN told ELSE hand[1].state
  PROVE  /\ Len(Chain') \in Nat \ {0}
         /\ Len(Chain) = Len(Chain') + 1
         /\ Chain[2] = hand[1]
         /\ \A i \in 2..Len(Chain') : Chain'[i] = Chain[i + 1]
         /\ Linked(Chain) => Linked(Chain')
         /\ \A s : Latest(Chain, s) => Latest(Chain', s)
<1>1. hand[1] \in Messages /\ hand = <<hand[1]>>
  BY HandOfOne DEF TypeOK
<1>2. told \in StreamStates /\ told' \in StreamStates
      /\ queue \in Seq(Messages) /\ outbox \in Seq(Messages)
  BY DEF TypeOK
<1>3. Chain = Line(told, <<hand[1]>>, queue, outbox)
  BY <1>1 DEF Chain, Undelivered, Line
<1>4. Chain' = Line(told', <<>>, queue, outbox)
  BY DEF Chain, Undelivered, Line
<1>5. /\ Len(Chain) = Len(Chain') + 1
      /\ Len(Chain') \in Nat \ {0}
      /\ Chain[1] = StateChanged(told, FALSE)
      /\ Chain[2] = hand[1]
      /\ Chain'[1] = StateChanged(told', FALSE)
      /\ \A i \in 2..Len(Chain') : Chain'[i] = Chain[i + 1]
  <2> DEFINE m == hand[1]
  <2>1. m \in Messages
    BY <1>1
  <2> HIDE DEF m
  <2>2. Handled(Line(told, <<m>>, queue, outbox),
                Line(told', <<>>, queue, outbox), told, told', m)
    BY <1>2, <2>1, LineHandled
  <2> QED BY <1>3, <1>4, <2>2 DEF m, Handled
<1>6. /\ Chain[1] # Frame /\ Chain[1].state = told
      /\ Chain'[1] # Frame /\ Chain'[1].state = told'
  BY <1>2, <1>5, MessageKinds
<1>7. IF Chain[2] = Frame THEN Chain'[1].state = Chain[1].state
                          ELSE Chain'[1].state = Chain[2].state
  BY <1>5, <1>6
<1> QED BY <1>5, <1>6, <1>7, LinkedHandled

\* Handling a message: an outage that is not over is not published again.
LEMMA DeliveryHandled ==
  ASSUME ConstantsValid, TypeOK, TypeOK', Idle, Waiting, Checked, Delivery,
         HandleFrame \/ HandleStateChanged \/ CheckCount \/ PublishDown,
         hand' # hand
  PROVE  Delivery'
<1>1. /\ hand # <<>> /\ hand' = <<>>
      /\ UNCHANGED <<pc, status, outbox, prompt, queue, serving>>
      /\ told' = IF hand[1] = Frame THEN told ELSE hand[1].state
      /\ hand[1] = Frame => downs' = downs
  <2>1. CASE HandleFrame
    <3>1. hand # <<>> /\ hand[1] = Frame
      BY <2>1 DEF HandleFrame
    <3> QED BY <2>1, <3>1 DEF HandleFrame, env, worker
  <2>2. CASE HandleStateChanged \/ CheckCount
    <3>1. /\ hand # <<>> /\ hand # <<Frame>> /\ hand' = <<>>
          /\ UNCHANGED <<env, worker, queue, serving>> /\ told' = hand[1].state
      BY <2>2 DEF HandleStateChanged, CheckCount, Finish
    <3>2. hand[1] # Frame
      BY <3>1, HandOfOne DEF TypeOK
    <3> QED BY <3>1, <3>2 DEF env, worker
  <2>3. CASE PublishDown
    <3>1. hand # <<>> /\ hand[1] # Frame
      BY <2>3 DEF PublishDown, Waiting
    <3> QED BY <2>3, <3>1 DEF PublishDown, Finish, env, worker
  <2> QED BY <2>1, <2>2, <2>3
<1>2. /\ Len(Chain') \in Nat \ {0}
      /\ Len(Chain) = Len(Chain') + 1
      /\ Chain[2] = hand[1]
      /\ \A i \in 2..Len(Chain') : Chain'[i] = Chain[i + 1]
      /\ Linked(Chain) => Linked(Chain')
      /\ \A s : Latest(Chain, s) => Latest(Chain', s)
  BY <1>1, HandledChain
<1>3. /\ \A s : Pending(Chain, s) <=>
                  Pending(Chain', s) \/ (hand[1] # Frame /\ hand[1].state = s)
      /\ FailureLast(Chain) => FailureLast(Chain')
  BY SMTT(30), <1>2, PendingHandled
<1>4. /\ serving' => Linked(Chain')
      /\ serving' /\ pc' # "done" => Latest(Chain', status'.state)
  BY <1>1, <1>2, NextDelivery DEF Delivery
<1>5. prompt' /\ serving' =>
        /\ FailureLast(Chain')
        /\ Pending(Chain', "Reconnecting") => pc' \in {"backoff", "done"}
  BY <1>1, <1>3 DEF Delivery, LastWord
<1>6. CASE hand[1] = Frame
  BY <1>1, <1>3, <1>4, <1>5, <1>6, NextDelivery
     DEF Delivery, OneDownPerOutage, Reported
<1>7. CASE hand[1] # Frame
  <2>1. HandleStateChanged \/ CheckCount \/ PublishDown
    <3>1. ASSUME HandleFrame
          PROVE  hand[1] = Frame
      BY <3>1 DEF HandleFrame
    <3> QED BY <1>7, <3>1
  <2>2. \/ /\ hand[1].state = "Reconnecting"
           /\ prompt => status.reconnects = DownThreshold
           /\ downs' = Smaller(downs + 1, 2)
        \/ hand[1].state = "Streaming" /\ downs' = 0
        \/ hand[1].state # "Streaming" /\ downs' = downs
    <3>1. CASE HandleStateChanged
      BY <3>1 DEF HandleStateChanged
    <3>2. CASE CheckCount
      BY <3>2 DEF CheckCount
    <3>3. CASE PublishDown
      BY <3>3 DEF PublishDown, Waiting, Checked
    <3> QED BY <2>1, <3>1, <3>2, <3>3
  <2>3. downs \in 0..2 /\ DownThreshold \in Nat /\ status.reconnects \in Nat
    BY DEF TypeOK, ConstantsValid
  <2>4. CASE hand[1].state = "Streaming" /\ downs' = 0
    BY <1>4, <1>5, <2>4, NextDelivery
  <2>5. CASE hand[1].state # "Streaming" /\ downs' = downs
    <3>1. Pending(Chain, "Streaming") <=> Pending(Chain', "Streaming")
      BY <1>3, <2>5
    <3>2. Pending(Chain', "Reconnecting") => Pending(Chain, "Reconnecting")
      BY <1>3
    <3> QED BY <1>1, <1>4, <1>5, <2>5, <3>1, <3>2, NextDelivery
            DEF Delivery, OneDownPerOutage, Reported
  <2>6. CASE /\ hand[1].state = "Reconnecting"
             /\ prompt => status.reconnects = DownThreshold
             /\ downs' = Smaller(downs + 1, 2)
    <3>1. CASE ~ prompt
      BY <1>1, <1>4, <1>5, <3>1, NextDelivery
    <3>2. CASE prompt
      <4>1. serving
        BY <1>1 DEF Idle
      <4>2. Pending(Chain, "Reconnecting") /\ FailureLast(Chain)
        BY <1>3, <1>7, <2>6, <3>2, <4>1 DEF Delivery, LastWord
      <4>3. Len(Chain) = 2
        BY <1>2, <1>7, <2>6, <4>2 DEF FailureLast
      <4>4. ~ Pending(Chain, "Streaming")
        <5>1. \A i \in 2..Len(Chain) : i = 2
          BY <4>3
        <5>2. Chain[2].state = "Reconnecting"
          BY <1>2, <2>6
        <5> QED BY <5>1, <5>2 DEF Pending
      <4>5. \A s : ~ Pending(Chain', s)
        <5>1. Len(Chain') = 1
          <6> DEFINE n == Len(Chain')
          <6>1. n \in Nat /\ 2 = n + 1
            BY <1>2, <4>3
          <6> HIDE DEF n
          <6>2. n = 1
            BY <6>1
          <6> QED BY <6>2 DEF n
        <5>2. 2..Len(Chain') = {}
          BY <5>1
        <5> QED BY <5>2 DEF Pending
      <4>6. downs = 0
        BY <2>3, <2>6, <3>2, <4>1, <4>2, <4>4 DEF Delivery, Reported
      <4>7. downs' = 1
        BY <2>6, <4>6 DEF Smaller
      <4>8. status'.reconnects >= DownThreshold
        BY <1>1, <2>3, <2>6, <3>2
      <4> QED BY <1>4, <1>5, <4>5, <4>7, <4>8, NextDelivery
    <3> QED BY <3>1, <3>2
  <2> QED BY <2>2, <2>4, <2>5, <2>6
<1> QED BY <1>6, <1>7

\* Stopping the worker drops what it was about to send.
LEMMA DeliveryStop ==
  ASSUME TypeOK, TypeOK', Control, Delivery, Stop
  PROVE  Delivery'
<1>1. /\ pc' = "done" /\ outbox' = <<>>
      /\ UNCHANGED <<prompt, status, hand, queue, serving, told, downs>>
      /\ outbox = <<>> \/ Len(outbox) > 0
  BY DEF Stop, TypeOK, env, task
<1>2. /\ told \in StreamStates /\ hand \in Seq(Messages)
      /\ queue \in Seq(Messages) /\ outbox \in Seq(Messages)
  BY DEF TypeOK
<1>3. /\ Chain = Line(told, hand, queue, outbox)
      /\ Chain' = Line(told, hand, queue, <<>>)
  BY <1>1 DEF Chain, Undelivered, Line
<1>4. /\ Len(Chain) = Len(Chain') + Len(outbox)
      /\ Len(Chain') \in Nat \ {0}
      /\ \A i \in 1..Len(Chain') : Chain'[i] = Chain[i]
  <2>1. Cut(Line(told, hand, queue, outbox), Line(told, hand, queue, <<>>), outbox)
    BY <1>2, LineCut
  <2> QED BY <1>3, <2>1 DEF Cut
<1>5. Len(outbox) \in Nat /\ Len(Chain') <= Len(Chain) /\ Len(Chain) \in Nat
  <2>1. Len(outbox) \in Nat /\ Len(Chain') \in Nat
    BY <1>2, <1>4
  <2> QED BY <1>4, <2>1
<1>6. Linked(Chain) => Linked(Chain')
  BY <1>4, <1>5, LinkedCut
<1>7. /\ \A s : Pending(Chain', s) => Pending(Chain, s)
      /\ FailureLast(Chain) /\ Len(Chain') < Len(Chain)
           => ~ Pending(Chain', "Reconnecting")
      /\ FailureLast(Chain) => FailureLast(Chain')
  BY <1>4, <1>5, PendingCut
<1>8. CASE outbox = <<>>
  <2>1. Chain' = Chain
    BY <1>1, <1>3, <1>8
  <2> QED BY <1>1, <2>1, NextDelivery
          DEF Delivery, LastWord, OneDownPerOutage, Reported
<1>9. CASE Len(outbox) > 0
  <2>1. Len(Chain') < Len(Chain)
    BY <1>4, <1>5, <1>9
  <2>2. prompt /\ serving => ~ Pending(Chain', "Reconnecting")
    BY <1>7, <2>1 DEF Delivery, LastWord
  <2> QED BY <1>1, <1>6, <1>7, <2>2, NextDelivery
          DEF Delivery, LastWord, OneDownPerOutage
<1> QED BY <1>1, <1>8, <1>9

\* The initial state has nothing on the way.
LEMMA DeliveryInit ==
  ASSUME ConstantsValid, Init
  PROVE  Delivery
<1>1. TypeOK
  BY TypeInit
<1>2. /\ hand = <<>> /\ queue = <<>> /\ outbox = <<>> /\ downs = 0
      /\ status.state = "Unknown" /\ told = "Unknown"
  BY DEF Init
<1>3. Chain \in Seq(Messages) /\ Len(Chain) = 1 /\ Chain[1] = StateChanged(told, FALSE)
  <2>1. Shape(Chain, told, hand, queue, outbox)
    <3>1. /\ told \in StreamStates /\ hand \in Seq(Messages)
          /\ queue \in Seq(Messages) /\ outbox \in Seq(Messages)
      BY <1>1 DEF TypeOK
    <3>2. Shape(Line(told, hand, queue, outbox), told, hand, queue, outbox)
      BY <3>1, LineShape
    <3> QED BY <1>1, <3>2, ChainType
  <2>2. Len(hand) = 0 /\ Len(queue) = 0 /\ Len(outbox) = 0
    BY <1>2
  <2> QED BY <2>1, <2>2 DEF Shape
<1>4. Chain[1].state = "Unknown"
  BY <1>1, <1>2, <1>3, MessageKinds DEF TypeOK
<1>5. Linked(Chain) /\ Latest(Chain, status.state)
  <2>1. \A i \in 1..Len(Chain) : i = 1
    BY <1>3
  <2> QED BY <1>2, <1>4, <2>1 DEF Linked, Latest
<1>6. FailureLast(Chain) /\ ~ Pending(Chain, "Reconnecting")
  <2>1. 2..Len(Chain) = {}
    BY <1>3
  <2> QED BY <2>1 DEF FailureLast, Pending
<1> QED BY <1>2, <1>5, <1>6, NextDelivery
        DEF Delivery, LastWord, OneDownPerOutage, Reported

\* With an empty outbox a change of state, and then perhaps a frame, end the
\* chain.
LEMMA AnnouncedChain ==
  ASSUME TypeOK, outbox = <<>>, UNCHANGED task,
         NEW s \in StreamStates, NEW e \in BOOLEAN, status.state # s
  PROVE  /\ outbox' = News(s, e) => Chain' = Append(Chain, StateChanged(s, e))
         /\ outbox' = News(s, e) \o <<Frame>> =>
              Chain' = Append(Append(Chain, StateChanged(s, e)), Frame)
<1> DEFINE m == StateChanged(s, e)
<1>1. m \in Messages /\ Frame \in Messages /\ News(s, e) = <<m>>
  BY MessageKinds DEF News
<1> HIDE DEF m
<1>2. <<>> \in Seq(Messages) /\ Append(<<>>, m) = <<m>> /\ <<m>> \in Seq(Messages)
  BY <1>1
<1>3. /\ told \in StreamStates /\ hand \in Seq(Messages) /\ queue \in Seq(Messages)
      /\ told' = told /\ hand' = hand /\ queue' = queue
  BY DEF TypeOK, task
<1>4. /\ Chain = Line(told, hand, queue, <<>>)
      /\ Chain' = Line(told, hand, queue, outbox')
  BY <1>3 DEF Chain, Undelivered, Line
<1>5. Line(told, hand, queue, <<m>>) = Append(Chain, m)
  <2>1. Line(told, hand, queue, Append(<<>>, m))
          = Append(Line(told, hand, queue, <<>>), m)
    <3> DEFINE o == <<>>
    <3>1. o \in Seq(Messages)
      OBVIOUS
    <3> HIDE DEF o
    <3>2. Line(told, hand, queue, Append(o, m)) = Append(Line(told, hand, queue, o), m)
      BY ZenonT(30), <1>1, <1>3, <3>1, LineExtended
    <3> QED BY <3>2 DEF o
  <2> QED BY <1>2, <1>4, <2>1
<1>6. Line(told, hand, queue, Append(<<m>>, Frame)) = Append(Append(Chain, m), Frame)
  <2>1. Line(told, hand, queue, Append(<<m>>, Frame))
          = Append(Line(told, hand, queue, <<m>>), Frame)
    <3> DEFINE o == <<m>>
    <3>1. o \in Seq(Messages)
      BY <1>2
    <3> HIDE DEF o
    <3>2. Line(told, hand, queue, Append(o, Frame))
            = Append(Line(told, hand, queue, o), Frame)
      BY ZenonT(30), <1>1, <1>3, <3>1, LineExtended
    <3> QED BY <3>2 DEF o
  <2> QED BY <1>5, <2>1
<1>7. <<m>> \o <<Frame>> = Append(<<m>>, Frame)
  BY <1>1, <1>2, AppendIsConcat
<1> QED BY <1>1, <1>4, <1>5, <1>6, <1>7 DEF m

\* With an empty outbox a frame ends the chain.
LEMMA FramedChain ==
  ASSUME TypeOK, outbox = <<>>, UNCHANGED task, outbox' = <<Frame>>
  PROVE  Chain' = Append(Chain, Frame)
<1>1. <<>> \in Seq(Messages) /\ Frame \in Messages /\ Append(<<>>, Frame) = <<Frame>>
  BY MessageKinds
<1>2. /\ told \in StreamStates /\ hand \in Seq(Messages) /\ queue \in Seq(Messages)
      /\ told' = told /\ hand' = hand /\ queue' = queue
  BY DEF TypeOK, task
<1>3. /\ Chain = Line(told, hand, queue, <<>>)
      /\ Chain' = Line(told, hand, queue, <<Frame>>)
  BY <1>2 DEF Chain, Undelivered, Line
<1>4. Line(told, hand, queue, Append(<<>>, Frame))
        = Append(Line(told, hand, queue, <<>>), Frame)
  BY <1>1, <1>2, LineExtended
<1> QED BY <1>1, <1>3, <1>4

\* A failed attempt is announced.
LEMMA DeliveryError ==
  ASSUME ConstantsValid, TypeOK, Control, Delivery,
         outbox = <<>>, pc \in {"build", "recv"}, StreamError
  PROVE  Delivery'
<1>1. /\ UNCHANGED <<env, task>>
      /\ \/ pc' = "cooloff" /\ UpdateState("Failed", TRUE)
         \/ pc' = "backoff" /\ UpdateState("Reconnecting", TRUE)
  BY StreamErrorEffect DEF Control
<1>2. PICK s \in {"Failed", "Reconnecting"} :
        /\ UpdateState(s, TRUE) /\ pc' # "done"
        /\ s = "Reconnecting" => pc' = "backoff"
  BY <1>1
<1>3. status' = SetState(s, TRUE) /\ outbox' = News(s, TRUE)
  BY <1>2 DEF UpdateState
<1>4. s \in StreamStates /\ s \in TaskLife!Successors[status.state]
  <2>1. status.state \in {"Connecting", "Connected", "Streaming"}
    BY DEF Control, Stage
  <2> QED BY <2>1 DEF StreamStates, TaskLife!Successors
<1>5. status.state # s
  BY <1>4, SuccessorDiffers
<1>6. Chain' = Append(Chain, StateChanged(s, TRUE))
  BY <1>1, <1>3, <1>4, <1>5, AnnouncedChain
<1>7. UNCHANGED <<serving, downs, prompt>>
  BY <1>1 DEF env, task
<1> QED BY <1>2, <1>3, <1>4, <1>6, <1>7, DeliveryAnnounce

\* Every step keeps what is true of the messages.
LEMMA DeliveryStep ==
  ASSUME ConstantsValid, TypeOK, TypeOK', Control, Delivery, Checked, [Next]_vars
  PROVE  Delivery'
<1>1. ASSUME UNCHANGED <<prompt, task, outbox, status, pc>>
      PROVE  Delivery'
  <2>1. Chain' = Chain
    BY <1>1 DEF Chain, Undelivered, task
  <2> QED BY <1>1, <2>1, DeliveryQuiet DEF task
<1>2. ASSUME UNCHANGED <<prompt, task, outbox, status>>,
             pc \notin {"backoff", "done"}, pc' # "done"
      PROVE  Delivery'
  <2>1. Chain' = Chain
    BY <1>2 DEF Chain, Undelivered, task
  <2> QED BY <1>2, <2>1, DeliveryQuiet DEF task
<1>3. ASSUME NEW s \in {"Connecting", "Connected"}, UpdateState(s, FALSE),
             outbox = <<>>, s \in TaskLife!Successors[status.state],
             UNCHANGED <<prompt, task>>, pc \notin {"backoff", "done"}, pc' # "done"
      PROVE  Delivery'
  <2>1. status' = SetState(s, FALSE) /\ outbox' = News(s, FALSE)
    BY <1>3 DEF UpdateState
  <2>2. s \in StreamStates
    BY DEF StreamStates
  <2>3. status.state # s
    BY <1>3, <2>2, SuccessorDiffers
  <2>4. Chain' = Append(Chain, StateChanged(s, FALSE))
    BY <1>3, <2>1, <2>2, <2>3, AnnouncedChain
  <2>5. UNCHANGED <<serving, downs, prompt>> /\ s # "Reconnecting"
    BY <1>3 DEF task
  <2> QED BY <1>3, <2>1, <2>2, <2>4, <2>5, DeliveryAnnounce
<1>4. ASSUME ~ serving', downs' = downs, prompt' = prompt
      PROVE  Delivery'
  BY <1>4, NextDelivery DEF Delivery, OneDownPerOutage
<1>5. CASE Connect
  <2>1. "Connecting" \in TaskLife!Successors[status.state]
    BY <1>5 DEF Connect, At, Control, Stage, TaskLife!Successors
  <2> QED BY <1>3, <1>5, <2>1 DEF Connect, At, env
<1>6. CASE Subscribe
  BY <1>2, <1>6 DEF Subscribe, At, env
<1>7. CASE Build
  BY <1>2, <1>7 DEF Build, At, env
<1>8. CASE BuildFails
  BY <1>8, DeliveryError DEF BuildFails, At
<1>9. CASE Install
  <2>1. "Connected" \in TaskLife!Successors[status.state]
    BY <1>9 DEF Install, At, Control, Stage, TaskLife!Successors
  <2> QED BY <1>3, <1>9, <2>1 DEF Install, At, env
<1>10. ASSUME NEW sampled \in BOOLEAN, ReceiveFrame(sampled)
       PROVE  Delivery'
  <2>1. /\ pc = "recv" /\ pc' = "recv" /\ outbox = <<>>
        /\ UNCHANGED <<env, task>>
    BY <1>10 DEF ReceiveFrame, At
  <2>2. UNCHANGED <<prompt, serving, downs>>
    BY <2>1 DEF env, task
  <2>3. CASE first
    <3>1. /\ status' = SetState("Streaming", FALSE)
          /\ \/ sampled /\ outbox' = News("Streaming", FALSE) \o <<Frame>>
             \/ ~ sampled /\ outbox' = News("Streaming", FALSE) \o <<>>
      BY <1>10, <2>3 DEF ReceiveFrame
    <3>2. status.state = "Connected"
      BY <2>1, <2>3 DEF Control, Stage
    <3>3. /\ "Streaming" \in StreamStates
          /\ "Streaming" \in TaskLife!Successors[status.state]
      BY <3>2 DEF StreamStates, TaskLife!Successors
    <3>4. News("Streaming", FALSE) \in Seq(Messages)
      BY <3>3, UpdateType
    <3>5. News("Streaming", FALSE) \o <<>> = News("Streaming", FALSE)
      BY <3>4, ConcatEmptySeq
    <3> DEFINE c == Append(Chain, StateChanged("Streaming", FALSE))
    <3>6. Chain' = c \/ Chain' = Append(c, Frame)
      BY <2>1, <3>1, <3>2, <3>3, <3>5, AnnouncedChain
    <3> HIDE DEF c
    <3>7. c = Append(Chain, StateChanged("Streaming", FALSE))
      BY DEF c
    <3> QED BY <2>1, <2>2, <3>1, <3>3, <3>6, <3>7, DeliveryAnnounce
  <2>4. CASE ~ first
    <3>1. UNCHANGED status /\ (outbox' = <<Frame>> \/ outbox' = <<>>)
      BY <1>10, <2>4 DEF ReceiveFrame
    <3>2. CASE outbox' = <<Frame>>
      <4>1. Chain' = Append(Chain, Frame)
        BY <2>1, <3>2, FramedChain
      <4> QED BY <2>1, <2>2, <3>1, <4>1, DeliveryFrame
    <3>3. CASE outbox' = <<>>
      BY <1>1, <2>1, <3>1, <3>3 DEF env
    <3> QED BY <3>1, <3>2, <3>3
  <2> QED BY <2>3, <2>4
<1>11. CASE ReceiveLagged
  BY <1>1, <1>11 DEF ReceiveLagged, env
<1>12. CASE ReceiveTimeout
  BY <1>12, DeliveryError DEF ReceiveTimeout, At
<1>13. CASE Retry
  <2>1. /\ pc = "backoff" /\ pc' = "connect" /\ outbox = <<>>
        /\ prompt => queue = <<>> /\ hand = <<>>
        /\ UNCHANGED <<prompt, task, outbox, status>>
    BY <1>13 DEF Retry, At, env
  <2>2. Chain' = Chain
    BY <2>1 DEF Chain, Undelivered, task
  <2>3. prompt => ~ Pending(Chain, "Reconnecting")
    <3>1. SUFFICES ASSUME prompt
                   PROVE  2..Len(Chain) = {}
      BY DEF Pending
    <3>2. /\ told \in StreamStates /\ hand \in Seq(Messages)
          /\ queue \in Seq(Messages) /\ outbox \in Seq(Messages)
      BY DEF TypeOK
    <3>3. Shape(Chain, told, hand, queue, outbox)
      BY <3>2, ChainType, LineShape
    <3>4. Len(hand) = 0 /\ Len(queue) = 0 /\ Len(outbox) = 0
      BY <2>1, <3>1
    <3>5. Len(Chain) = 1
      BY <3>3, <3>4 DEF Shape
    <3> QED BY <3>5
  <2> QED BY <2>1, <2>2, <2>3, DeliveryQuiet DEF task
<1>14. CASE RetryFailed
  BY <1>2, <1>14 DEF RetryFailed, At, env
<1>15. CASE Send
  <2>1. /\ outbox # <<>> /\ queue' = Append(queue, Head(outbox))
        /\ outbox' = Tail(outbox)
        /\ UNCHANGED <<prompt, pc, status, hand, serving, told, downs>>
    BY <1>15 DEF Send, env
  <2>2. Chain' = Line(told, hand, Append(queue, Head(outbox)), Tail(outbox))
    BY <2>1 DEF Chain, Undelivered, Line
  <2>3. Chain' = Chain
    <3>1. /\ told \in StreamStates /\ hand \in Seq(Messages)
          /\ queue \in Seq(Messages) /\ outbox \in Seq(Messages)
      BY DEF TypeOK
    <3>2. Line(told, hand, Append(queue, Head(outbox)), Tail(outbox))
            = Line(told, hand, queue, outbox)
      BY <2>1, <3>1, LineSent
    <3> QED BY <2>2, <3>2, ChainType
  <2> QED BY <2>1, <2>3, DeliveryQuiet
<1>16. CASE SendFails
  BY <1>4, <1>16 DEF SendFails, env, task
<1>17. CASE Take
  <2>1. /\ hand = <<>> /\ queue # <<>>
        /\ hand' = <<Head(queue)>> /\ queue' = Tail(queue)
        /\ UNCHANGED <<prompt, pc, status, outbox, serving, told, downs>>
    BY <1>17 DEF Take, env, worker
  <2>2. Chain' = Line(told, <<Head(queue)>>, Tail(queue), outbox)
    BY <2>1 DEF Chain, Undelivered, Line
  <2>3. Chain = Line(told, <<>>, queue, outbox)
    BY <2>1, ChainType
  <2>4. Chain' = Chain
    <3>1. told \in StreamStates /\ queue \in Seq(Messages) /\ outbox \in Seq(Messages)
      BY DEF TypeOK
    <3>2. Line(told, <<Head(queue)>>, Tail(queue), outbox)
            = Line(told, <<>>, queue, outbox)
      BY <2>1, <3>1, LineTaken
    <3> QED BY <2>2, <2>3, <3>2
  <2> QED BY <2>1, <2>4, DeliveryQuiet
<1>18. CASE HandleFrame \/ HandleStateChanged \/ CheckCount \/ PublishDown
  <2>1. CASE hand' # hand
    BY <1>18, <2>1, DeliveryHandled DEF Control
  <2>2. CASE hand' = hand
    <3>1. hand # <<>>
      <4>1. <<Frame>> # <<>>
        OBVIOUS
      <4> QED BY <1>18, <4>1 DEF HandleFrame, HandleStateChanged, CheckCount, PublishDown
    <3>2. CheckCount
      BY <1>18, <2>2, <3>1 DEF HandleFrame, HandleStateChanged, PublishDown, Finish
    <3>3. UNCHANGED <<env, worker, queue, serving, told, downs>>
      BY <2>2, <3>1, <3>2 DEF CheckCount, Finish
    <3>4. Chain' = Chain
      BY <2>2, <3>3 DEF Chain, Undelivered, worker
    <3> QED BY <3>3, <3>4, DeliveryQuiet DEF env, worker
  <2> QED BY <2>1, <2>2
<1>19. CASE Stop
  BY <1>19, DeliveryStop
<1>20. CASE StopTask
  BY <1>4, <1>20 DEF StopTask, env
<1>21. CASE LinkChanges
  BY <1>1, <1>21 DEF LinkChanges, worker
<1>22. ASSUME NEW p \in {"old", "current"}, Push(p) \/ PipelineDies(p)
       PROVE  Delivery'
  BY <1>1, <1>22 DEF Push, PipelineDies, env
<1>23. CASE UNCHANGED vars
  BY <1>1, <1>23 DEF vars, env, worker
<1> QED BY <1>5, <1>6, <1>7, <1>8, <1>9, <1>10, <1>11, <1>12, <1>13, <1>14,
           <1>15, <1>16, <1>17, <1>18, <1>19, <1>20, <1>21, <1>22, <1>23
        DEF Next, WorkerStep, TaskStep

-----------------------------------------------------------------------------
(* What is published. *)

\* While a stream_down is due, a worker of a prompt task sleeps or has ended.
LEMMA DueSleeps ==
  ASSUME TypeOK, Control, Delivery, prompt, due
  PROVE  pc \in {"backoff", "done"}
<1>1. /\ hand # <<>> /\ hand[1] # Frame /\ hand[1].state = "Reconnecting"
      /\ serving
  BY DEF Control, Waiting, Idle
<1>2. /\ told \in StreamStates /\ hand \in Seq(Messages)
      /\ queue \in Seq(Messages) /\ outbox \in Seq(Messages)
  BY DEF TypeOK
<1>3. Len(hand) \in Nat \ {0} /\ Len(queue) \in Nat /\ Len(outbox) \in Nat
  BY <1>1, <1>2, EmptySeq
<1>4. Shape(Chain, told, hand, queue, outbox)
  <2>1. Shape(Line(told, hand, queue, outbox), told, hand, queue, outbox)
    BY <1>2, LineShape
  <2> QED BY <2>1, ChainType
<1>5. 2 \in 2..Len(Chain) /\ Chain[2] = hand[1]
  <2>1. 1 \in 1..Len(hand)
    BY <1>3
  <2>2. Chain[1 + 1] = hand[1]
    BY <1>4, <2>1 DEF Shape
  <2>3. Len(Chain) = 1 + Len(hand) + Len(queue) + Len(outbox)
    BY <1>4 DEF Shape
  <2> QED BY <1>3, <2>2, <2>3
<1>6. Pending(Chain, "Reconnecting")
  BY <1>1, <1>5 DEF Pending
<1> QED BY <1>1, <1>6 DEF Delivery, LastWord

\* The last announcement of a chain exists: either the first link announces the
\* latest state or a later one does.
LEMMA LastAnnouncement ==
  ASSUME NEW c, Len(c) \in Nat \ {0}, c[1] # Frame, NEW s, Latest(c, s), c[1].state # s
  PROVE  \E i \in 2..Len(c) : c[i] # Frame /\ c[i].state = s
<1> DEFINE n == Len(c)
           back == {k \in Nat : n - k \in 1..n /\ c[n - k] # Frame}
<1>1. n \in Nat \ {0}
  OBVIOUS
<1> HIDE DEF n
<1>2. n - 1 \in back
  BY <1>1
<1>3. PICK k \in back : \A y \in back : k <= y
  <2>1. back \in SUBSET Nat /\ back # {}
    BY <1>2
  <2> HIDE DEF back
  <2> QED BY <2>1, LeastElement
<1>4. n - k \in 1..n /\ c[n - k] # Frame /\ k \in Nat
  BY <1>3
<1>5. ASSUME NEW j \in ((n - k) + 1)..n, c[j] # Frame
      PROVE  FALSE
  <2>1. n - j \in Nat /\ n - (n - j) = j /\ j \in 1..n /\ n - j < k
    BY <1>1, <1>4
  <2>2. n - j \in back
    BY <1>5, <2>1
  <2>3. k <= n - j
    BY <1>3, <2>2
  <2> QED BY <1>1, <1>4, <2>1, <2>3
<1>6. c[n - k].state = s
  BY <1>4, <1>5 DEF Latest, n
<1>7. n - k # 1
  BY <1>6
<1>8. n - k \in 2..Len(c)
  BY <1>1, <1>4, <1>7 DEF n
<1> QED BY <1>4, <1>6, <1>8

\* What is on its way is the chain without its first link.
LEMMA UndeliveredChain ==
  ASSUME TypeOK
  PROVE  /\ Undelivered \in Seq(Messages)
         /\ \A i \in 2..Len(Chain) :
              i - 1 \in 1..Len(Undelivered) /\ Undelivered[i - 1] = Chain[i]
<1> DEFINE u == <<StateChanged(told, FALSE)>>
           v == Undelivered
<1>1. /\ hand \in Seq(Messages) /\ queue \in Seq(Messages)
      /\ outbox \in Seq(Messages) /\ told \in StreamStates
  BY DEF TypeOK
<1>2. v \in Seq(Messages)
  <2>1. hand \o queue \in Seq(Messages)
    BY <1>1, ConcatProperties
  <2> QED BY <1>1, <2>1, ConcatProperties DEF Undelivered
<1>3. u \in Seq(Messages) /\ Len(u) = 1
  BY <1>1, OneAnnouncement
<1>4. Chain = u \o v
  BY DEF Chain
<1> HIDE DEF u, v
<1>5. /\ Len(Chain) = Len(u) + Len(v)
      /\ \A i \in 1..(Len(u) + Len(v)) :
           Chain[i] = IF i <= Len(u) THEN u[i] ELSE v[i - Len(u)]
  BY <1>2, <1>3, <1>4, ConcatProperties
<1>6. Len(v) \in Nat
  BY <1>2
<1>7. \A i \in 2..Len(Chain) : i - 1 \in 1..Len(v) /\ v[i - 1] = Chain[i]
  BY <1>3, <1>5, <1>6
<1> QED BY <1>2, <1>7 DEF v

\* Every step keeps what is true of the publications.
LEMMA PublishedStep ==
  ASSUME ConstantsValid, TypeOK, Control, Delivery, Published, [Next]_vars
  PROVE  Published'
<1> USE DEF Published, Checked, Down
<1>1. prompt /\ due => pc \in {"backoff", "done"}
  BY DueSleeps
<1>2. CASE Connect \/ BuildFails \/ Install \/ ReceiveTimeout
           \/ \E sampled \in BOOLEAN : ReceiveFrame(sampled)
  <2>1. pc \notin {"backoff", "done"}
    BY <1>2 DEF Connect, BuildFails, Install, ReceiveTimeout, ReceiveFrame, At
  <2>2. UNCHANGED <<env, task>>
    BY <1>2 DEF Connect, BuildFails, Install, ReceiveTimeout, ReceiveFrame,
               StreamError
  <2> QED BY <1>1, <2>1, <2>2 DEF env, task
<1>3. CASE Subscribe \/ Build \/ ReceiveLagged \/ Retry \/ RetryFailed
           \/ SendFails \/ Stop
  BY <1>3 DEF Subscribe, Build, ReceiveLagged, Retry, RetryFailed, SendFails,
              Stop, env, task
<1>4. CASE Send
  BY <1>4 DEF Send, env
<1>5. CASE Take \/ HandleFrame
  BY <1>5 DEF Take, HandleFrame, env, worker
<1>6. CASE CheckCount
  <2>1. /\ hand[1].state = "Reconnecting"
        /\ \/ status.reconnects = DownThreshold /\ due' = TRUE /\ told' = told
           \/ told' = hand[1].state /\ due' = due /\ ~ due
        /\ UNCHANGED <<env, worker, signal>>
    BY <1>6 DEF CheckCount, Finish
  <2> QED BY <2>1 DEF env, worker
<1>7. CASE PublishDown
  <2>1. due /\ told' = hand[1].state /\ due' = FALSE
    BY <1>7 DEF PublishDown, Finish
  <2>2. hand[1].state = "Reconnecting"
    BY <2>1 DEF Control, Waiting
  <2> QED BY <2>1, <2>2
<1>8. CASE HandleStateChanged
  <2>1. /\ told' = hand[1].state
        /\ IF hand[1].state = "Streaming" THEN signal' = "up" ELSE signal' = signal
        /\ UNCHANGED <<env, worker, due>>
    BY <1>8 DEF HandleStateChanged, Finish
  <2> QED BY <2>1 DEF env, worker
<1>9. CASE StopTask
  BY <1>9 DEF StopTask, env, worker
<1>10. CASE LinkChanges
  BY <1>10 DEF LinkChanges, worker, task
<1>11. ASSUME NEW p \in {"old", "current"}, Push(p) \/ PipelineDies(p)
       PROVE  Published'
  BY <1>11 DEF Push, PipelineDies, env, task
<1>12. CASE UNCHANGED vars
  BY <1>12 DEF vars, env, worker, task
<1> QED BY <1>2, <1>3, <1>4, <1>5, <1>6, <1>7, <1>8, <1>9, <1>10, <1>11, <1>12
        DEF Next, WorkerStep, TaskStep

-----------------------------------------------------------------------------
(* The theorems. *)

\* The inductive invariant holds in every reachable state.
THEOREM WorkerInvariant ==
  Spec => []IInv
<1>1. Init => IInv
  <2> SUFFICES ASSUME Init
               PROVE  IInv
    OBVIOUS
  <2>1. Published
    BY DEF Init, Published, Checked, Down
  <2> QED BY <2>1, ConstantsValid, TypeInit, ControlInit, DeliveryInit DEF IInv
<1>2. IInv /\ [Next]_vars => IInv'
  <2> SUFFICES ASSUME IInv, [Next]_vars
               PROVE  IInv'
    OBVIOUS
  <2>1. TypeOK /\ Control /\ Delivery /\ Published
    BY DEF IInv
  <2>2. TypeOK'
    BY <2>1, ConstantsValid, TypeStep DEF Control
  <2>3. Control'
    BY <2>1, ConstantsValid, ControlStep
  <2>4. Delivery'
    BY <2>1, <2>2, ConstantsValid, DeliveryStep DEF Published
  <2>5. Published'
    BY <2>1, ConstantsValid, PublishedStep
  <2> QED BY <2>2, <2>3, <2>4, <2>5 DEF IInv
<1> QED BY <1>1, <1>2, PTL DEF Spec

\* The state of the worker, its channel and its receiver stay within their
\* types and capacities: no more errors than retries, no delay above the limit
\* (worker.rs increments one and grows the other in different functions).
THEOREM WorkerTypeCorrect ==
  Spec => []TypeOK
<1>1. IInv => TypeOK
  BY DEF IInv
<1> QED BY <1>1, WorkerInvariant, PTL

\* What the processing task was told and what is on its way always add up to
\* the shared CameraStatus, which update_state writes before it sends.
THEOREM ViewsNeverPart ==
  Spec => []ViewsAgree
<1>1. IInv => ViewsAgree
  BY DEF IInv, Delivery
<1> QED BY <1>1, WorkerInvariant, PTL

\* The delay of increase_backoff and reset_backoff is always the one that
\* belongs to consecutive_errors, and a camera rests exactly at max_retries.
THEOREM BackoffFollowsErrors ==
  Spec => []BackoffConsistent
<1>1. IInv => BackoffConsistent
  BY DEF IInv, Control
<1> QED BY <1>1, WorkerInvariant, PTL

\* With a task that drains the channel within a back-off sleep, an outage is
\* published as stream_down at most once, over any number of retries.
THEOREM OutageReportedOnce ==
  Spec => []OneDownPerOutage
<1>1. IInv => OneDownPerOutage
  BY DEF IInv, Delivery
<1> QED BY <1>1, WorkerInvariant, PTL

\* start_processing_task releases the status between reading the reconnect
\* count and publishing stream_down.  A prompt task publishes it for no camera
\* that streams; of any other task, a stream_down that came too late is followed
\* by the stream_up that is already on its way to it.
THEOREM LateDownIsCorrected ==
  Spec => []DownIsCorrected
<1>1. IInv => DownIsCorrected
  <2> SUFFICES ASSUME IInv
               PROVE  DownIsCorrected
    OBVIOUS
  <2>1. TypeOK /\ Control /\ Delivery /\ Published
    BY DEF IInv
  <2>2. ASSUME prompt, due
        PROVE  status.state # "Streaming"
    <3>1. status.reconnects # 0
      BY <2>1, <2>2, ConstantsValid DEF Published, Checked, ConstantsValid
    <3> QED BY <2>1, <3>1 DEF Control, Fresh
  <2>3. ASSUME serving, pc # "done", status.state = "Streaming", signal = "down"
        PROVE  \E i \in 1..Len(Undelivered) :
                 Undelivered[i] # Frame /\ Undelivered[i].state = "Streaming"
    <3>1. told # "Streaming"
      BY <2>1, <2>3 DEF Published, Down
    <3>2. /\ Chain \in Seq(Messages) /\ Len(Chain) \in Nat \ {0}
          /\ Chain[1] # Frame /\ Chain[1].state = told
      BY <2>1, ChainType, MessageKinds DEF TypeOK
    <3>3. Latest(Chain, "Streaming")
      BY <2>1, <2>3, NextDelivery DEF Delivery
    <3>4. PICK i \in 2..Len(Chain) : Chain[i] # Frame /\ Chain[i].state = "Streaming"
      BY <3>1, <3>2, <3>3, LastAnnouncement
    <3>5. /\ Undelivered \in Seq(Messages)
          /\ i - 1 \in 1..Len(Undelivered) /\ Undelivered[i - 1] = Chain[i]
      BY <2>1, UndeliveredChain
    <3> QED BY <3>4, <3>5
  <2> QED BY <2>2, <2>3 DEF DownIsCorrected
<1> QED BY <1>1, WorkerInvariant, PTL

\* The states the processing task learns are a behaviour of StreamLifecycle:
\* the worker, its outbox, the channel and the task implement it.
THEOREM TaskFollowsLifecycle ==
  Spec => TaskSeesLifecycle
<1>1. Init => TaskLife!Init
  BY DEF Init, TaskLife!Init
<1>2. IInv /\ IInv' /\ [Next]_vars => [TaskLife!Next]_told
  <2> SUFFICES ASSUME IInv, IInv', [Next]_vars, told' # told
               PROVE  told' \in TaskLife!Successors[told]
    BY DEF TaskLife!Next
  <2>1. HandleStateChanged \/ CheckCount \/ PublishDown
    BY DEF Next, WorkerStep, TaskStep, vars, task, Connect, Subscribe, Build,
           BuildFails, StreamError, Install, ReceiveFrame, ReceiveLagged,
           ReceiveTimeout, Retry, RetryFailed, Send, SendFails, Take,
           HandleFrame, Stop, StopTask, LinkChanges, Push, PipelineDies
  <2>2. /\ hand # <<>> /\ hand' = <<>>
        /\ UNCHANGED <<worker, queue>> /\ told' = hand[1].state
    BY <2>1 DEF HandleStateChanged, CheckCount, PublishDown, Finish
  <2>3. TypeOK /\ TypeOK' /\ Idle /\ Waiting /\ Delivery
    BY DEF IInv, Control
  <2>4. hand[1] # Frame
    <3>1. CASE PublishDown
      BY <2>3, <3>1 DEF PublishDown, Waiting
    <3>2. CASE HandleStateChanged \/ CheckCount
      <4>1. hand # <<Frame>>
        BY <3>2 DEF HandleStateChanged, CheckCount
      <4> QED BY <2>2, <2>3, <4>1, HandOfOne DEF TypeOK
    <3> QED BY <2>1, <3>1, <3>2
  <2>5. /\ Len(Chain') \in Nat \ {0}
        /\ Len(Chain) = Len(Chain') + 1
        /\ Chain[2] = hand[1]
    BY <2>2, <2>3, <2>4, HandledChain DEF worker
  <2>6. serving /\ Linked(Chain)
    BY <2>2, <2>3 DEF Idle, Delivery
  <2>7. Chain[1] = StateChanged(told, FALSE) /\ told \in StreamStates
    BY <2>3, ChainType DEF TypeOK
  <2>8. Chain[1] # Frame /\ Chain[1].state = told
    BY <2>7, MessageKinds
  <2>9. Chain[2].state \in TaskLife!Successors[Chain[1].state]
    <3>1. 1 \in 1..Len(Chain) /\ 2 \in 1..Len(Chain)
      BY <2>5
    <3>2. (1 + 1)..(2 - 1) = {}
      OBVIOUS
    <3> QED BY <2>4, <2>5, <2>6, <2>8, <3>1, <3>2 DEF Linked
  <2> QED BY <2>2, <2>5, <2>8, <2>9
<1> QED BY <1>1, <1>2, WorkerInvariant, PTL
        DEF Spec, TaskSeesLifecycle, TaskLife!Spec
=============================================================================
