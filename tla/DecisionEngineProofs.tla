------------------------ MODULE DecisionEngineProofs ------------------------
(***************************************************************************)
(* Proofs about DecisionEngine, for every set of cameras, settings and     *)
(* results and for every bound.                                            *)
(***************************************************************************)
EXTENDS DecisionEngine, NumberLemmas, SequenceTheorems, FiniteSetTheorems,
        TLAPS

-----------------------------------------------------------------------------
(* Types of the window operations. *)

LEMMA PruneType ==
  ASSUME now \in Nat, NEW w \in Seq(Entry)
  PROVE  Prune(w) \in Seq(Entry) /\ Len(Prune(w)) <= Len(w)
<1> DEFINE fresh == {i \in DOMAIN w : now - w[i].time <= MaxAge}
           first == CHOOSE i \in fresh : \A j \in fresh : i <= j
<1>1. CASE fresh = {}
  BY <1>1 DEF Prune
<1>2. CASE fresh # {}
  <2>1. fresh \in SUBSET Nat
    OBVIOUS
  <2>2. first \in fresh
    <3> HIDE DEF fresh
    <3> QED BY <1>2, <2>1, LeastElement
  <2>3. first \in 1 .. Len(w)
    <3> HIDE DEF first
    <3> QED BY <2>2
  <2>4. Prune(w) = SubSeq(w, first, Len(w))
    BY <1>2 DEF Prune
  <2> HIDE DEF first
  <2>5. \A i \in first .. Len(w) : w[i] \in Entry
    BY <2>3
  <2>6. /\ SubSeq(w, first, Len(w)) \in Seq(Entry)
        /\ Len(SubSeq(w, first, Len(w))) = Len(w) - first + 1
    BY <2>3, <2>5, SubSeqProperties
  <2> QED BY <2>3, <2>4, <2>6
<1> QED BY <1>1, <1>2

LEMMA TrimType ==
  ASSUME NEW w \in Seq(Entry), NEW size \in Nat \ {0}
  PROVE  Trim(w, size) \in Seq(Entry) /\ Len(Trim(w, size)) <= size
<1>1. CASE Len(w) > size
  <2> DEFINE m == Len(w) - size + 1
  <2>1. m \in 1 .. Len(w)
    BY <1>1
  <2>2. Trim(w, size) = SubSeq(w, m, Len(w))
    BY <1>1 DEF Trim
  <2> HIDE DEF m
  <2>3. /\ SubSeq(w, m, Len(w)) \in Seq(Entry)
        /\ Len(SubSeq(w, m, Len(w))) = Len(w) - m + 1
    BY <2>1, SubSeqProperties
  <2> QED BY <2>2, <2>3 DEF m
<1>2. CASE ~ (Len(w) > size)
  BY <1>2 DEF Trim
<1> QED BY <1>1, <1>2

LEMMA PushType ==
  ASSUME now \in Nat, NEW w \in Seq(Entry), NEW size \in Nat \ {0},
         NEW e \in Entry
  PROVE  Push(w, size, e) \in Seq(Entry) /\ Len(Push(w, size, e)) <= size
<1>1. Append(Prune(w), e) \in Seq(Entry)
  BY PruneType
<1> QED BY <1>1, TrimType DEF Push

LEMMA CountType ==
  ASSUME NEW w \in Seq(Entry), NEW kind
  PROVE  Count(w, kind) \in Nat
<1> DEFINE S == {i \in DOMAIN w : Votes(w[i], kind)}
<1>1. IsFiniteSet(1 .. Len(w))
  BY FS_Interval
<1>2. S \in SUBSET (1 .. Len(w))
  OBVIOUS
<1>3. IsFiniteSet(S)
  BY <1>1, <1>2, FS_Subset
<1>4. Cardinality(S) \in Nat
  BY <1>3, FS_CardinalityType
<1> QED BY <1>4 DEF Count

LEMMA EvidenceType ==
  ASSUME NEW w \in Seq(Entry), NEW kind \in Kinds
  PROVE  Evidence(w, kind) \in Nat
<1> DEFINE latest == CHOOSE i \in NonEmpty(w) : \A j \in NonEmpty(w) : j <= i
<1>1. CASE NonEmpty(w) = {}
  BY <1>1 DEF Evidence
<1>2. CASE NonEmpty(w) # {}
  <2>1. NonEmpty(w) \in SUBSET (1 .. Len(w))
    BY DEF NonEmpty
  <2>2. \E x \in NonEmpty(w) : \A y \in NonEmpty(w) : y <= x
    <3>1. Len(w) \in Nat
      OBVIOUS
    <3> QED BY <1>2, <2>1, <3>1, GreatestElement
  <2>3. latest \in NonEmpty(w)
    BY <2>2
  <2>4. latest \in 1 .. Len(w)
    BY <2>1, <2>3
  <2>5. Evidence(w, kind) = w[latest].kept[kind]
    BY <1>2 DEF Evidence
  <2> HIDE DEF latest
  <2>6. w[latest] \in Entry
    BY <2>4
  <2> QED BY <2>5, <2>6 DEF Entry, Kinds, Classes
<1> QED BY <1>1, <1>2

LEMMA ConfigType ==
  ASSUME NEW cfg \in Configs
  PROVE  /\ cfg.window_size \in Nat \ {0}
         /\ cfg.cooldown \in Nat
         /\ cfg.hits \in [Kinds -> Nat]
         /\ cfg.conf \in [Classes -> Nat \ {0}]
BY ConfigsValid DEF Config

LEMMA KeptType ==
  ASSUME NEW r \in Results, NEW cfg \in Configs
  PROVE  Kept(r, cfg) \in [Classes -> Nat]
BY ResultsValid, ConfigType DEF Kept

-----------------------------------------------------------------------------
\* One alarm of the camera that its cooldown allows.
Raises(c) ==
  \E kind \in Kinds, e \in AlarmRecord :
    /\ CanFire(c, kind, e.cooldown)
    /\ e.camera = c /\ e.kind = kind /\ e.time = now
    /\ last_events' = [last_events EXCEPT ![c][kind] = now]
    /\ alarms' = Append(alarms, e)

RaisesNothing == last_events' = last_events /\ alarms' = alarms

\* What one call of process() can do, with the window and the event hidden
\* behind their types: it leaves the clock and the settings alone, and either
\* raises nothing or one alarm that its cooldown allows.
LEMMA ProcessEffect ==
  ASSUME TypeOK, NEW c \in Cameras, NEW r \in Results, Process(c, r)
  PROVE  /\ now' = now /\ config' = config
         /\ seen' \in [Cameras -> Seq(Entry)]
         /\ \E w \in Seq(Entry) :
              /\ Len(w) <= config[c].window_size
              /\ states' = [states EXCEPT ![c] =
                   [window |-> w, window_size |-> config[c].window_size]]
         /\ Raises(c) \/ RaisesNothing
<1> DEFINE cfg == config[c]
           entry == [time |-> now, size |-> cfg.window_size,
                     kept |-> Kept(r, cfg)]
           old == WindowFor(states[c], cfg.window_size)
           w == Push(old, cfg.window_size, entry)
           triggers == Triggers(c, w, cfg)
<1>1. cfg \in Configs
  BY DEF TypeOK
<1>2. cfg.window_size \in Nat \ {0} /\ cfg.cooldown \in Nat
  BY <1>1, ConfigType
<1>3. entry \in Entry
  BY <1>1, <1>2, KeptType DEF TypeOK, Entry
<1>4. old \in Seq(Entry)
  BY DEF TypeOK, WindowFor
<1>5. w \in Seq(Entry) /\ Len(w) <= cfg.window_size
  <2> HIDE DEF entry, old
  <2> QED BY <1>2, <1>3, <1>4, PushType DEF TypeOK
<1>6. \A kind \in Kinds :
        /\ Event(c, kind, w, cfg) \in AlarmRecord
        /\ Event(c, kind, w, cfg).camera = c
        /\ Event(c, kind, w, cfg).kind = kind
        /\ Event(c, kind, w, cfg).time = now
        /\ Event(c, kind, w, cfg).cooldown = cfg.cooldown
  <2> HIDE DEF w, cfg
  <2> TAKE kind \in Kinds
  <2>1. Count(w, kind) \in Nat /\ Evidence(w, kind) \in Nat
    BY <1>5, CountType, EvidenceType
  <2> QED BY <1>2, <2>1 DEF Event, AlarmRecord, TypeOK
<1>7. seen' = [seen EXCEPT ![c] = Append(@, entry)]
  BY DEF Process
<1>8. seen' \in [Cameras -> Seq(Entry)]
  <2> HIDE DEF entry
  <2> QED BY <1>3, <1>7 DEF TypeOK
<1>9. states' = [states EXCEPT ![c] =
                   [window |-> w, window_size |-> cfg.window_size]]
  BY DEF Process
<1>10. \/ "fire" \in triggers /\ Emit(c, "fire", w, cfg)
       \/ triggers = {"smoke"} /\ Emit(c, "smoke", w, cfg)
       \/ last_events' = last_events /\ alarms' = alarms
  BY DEF Process
<1>11. \A kind \in triggers : kind \in Kinds /\ CanFire(c, kind, cfg.cooldown)
  BY DEF Triggers
<1>12. \/ last_events' = last_events /\ alarms' = alarms
       \/ \E kind \in triggers : Emit(c, kind, w, cfg)
  <2> HIDE DEF triggers, w, cfg
  <2> QED BY <1>10
<1>13. Raises(c) \/ RaisesNothing
  <2> HIDE DEF triggers, w, cfg
  <2>1. CASE last_events' = last_events /\ alarms' = alarms
    BY <2>1 DEF RaisesNothing
  <2>2. ASSUME NEW kind \in triggers, Emit(c, kind, w, cfg)
        PROVE  Raises(c)
    BY <1>6, <1>11, <2>2 DEF Emit, Raises
  <2> QED BY <1>12, <2>1, <2>2
<1>14. now' = now /\ config' = config
  BY DEF Process
<1> HIDE DEF w, entry, old, triggers
<1> QED BY <1>5, <1>8, <1>9, <1>13, <1>14

\* A step either processes a frame, or replaces settings, or moves the clock.
LEMMA StepCases ==
  ASSUME TypeOK, [Next]_vars
  PROVE  \/ \E c \in Cameras, r \in Results : Process(c, r)
         \/ /\ now' \in Nat /\ now <= now'
            /\ config' \in [Cameras -> Configs]
            /\ UNCHANGED <<states, last_events, seen, alarms>>
<1>1. CASE \E c \in Cameras, r \in Results : Process(c, r)
  BY <1>1
<1>2. ASSUME NEW c \in Cameras, NEW cfg \in Configs, Reconfigure(c, cfg)
      PROVE  /\ now' \in Nat /\ now <= now'
             /\ config' \in [Cameras -> Configs]
             /\ UNCHANGED <<states, last_events, seen, alarms>>
  BY <1>2 DEF Reconfigure, TypeOK
<1>3. CASE Tick
  BY <1>3 DEF Tick, TypeOK
<1>4. CASE UNCHANGED vars
  BY <1>4 DEF vars, TypeOK
<1> QED BY <1>1, <1>2, <1>3, <1>4 DEF Next

-----------------------------------------------------------------------------
LEMMA TypeInit == Init => TypeOK
<1> SUFFICES ASSUME Init PROVE TypeOK
  OBVIOUS
<1>1. config \in [Cameras -> Configs]
  BY DEF Init
<1>2. \A c \in Cameras : config[c].window_size \in Nat \ {0}
  BY <1>1, ConfigType
<1> QED BY <1>1, <1>2 DEF Init, TypeOK

\* Every reachable state is well typed, and no window outgrows its size
\* however the settings change between frames.
THEOREM TypeCorrect == Spec => []TypeOK
<1>2. TypeOK /\ [Next]_vars => TypeOK'
  <2> SUFFICES ASSUME TypeOK, [Next]_vars PROVE TypeOK'
    OBVIOUS
  <2>1. ASSUME NEW c \in Cameras, NEW r \in Results, Process(c, r)
        PROVE  TypeOK'
    <3>1. config[c].window_size \in Nat \ {0}
      BY ConfigType DEF TypeOK
    <3>2. now' \in Nat /\ config' \in [Cameras -> Configs]
      BY <2>1, ProcessEffect DEF TypeOK
    <3>3. /\ states' \in [Cameras ->
                            [window : Seq(Entry), window_size : Nat \ {0}]]
          /\ \A d \in Cameras : Len(states'[d].window) <= states'[d].window_size
      <4>1. PICK w \in Seq(Entry) :
              /\ Len(w) <= config[c].window_size
              /\ states' = [states EXCEPT ![c] =
                   [window |-> w, window_size |-> config[c].window_size]]
        BY <2>1, ProcessEffect
      <4> DEFINE new == [window |-> w, window_size |-> config[c].window_size]
      <4>2. new \in [window : Seq(Entry), window_size : Nat \ {0}]
        BY <3>1
      <4>3. states' = [states EXCEPT ![c] = new]
        BY <4>1
      <4>4. Len(new.window) <= new.window_size
        BY <4>1
      <4> HIDE DEF new
      <4> QED BY <4>2, <4>3, <4>4 DEF TypeOK
    <3>4. seen' \in [Cameras -> Seq(Entry)]
      BY <2>1, ProcessEffect
    <3>5. /\ last_events' \in [Cameras -> [Kinds -> Nat \union {Never}]]
          /\ alarms' \in Seq(AlarmRecord)
      <4>1. CASE RaisesNothing
        BY <4>1 DEF RaisesNothing, TypeOK
      <4>2. ASSUME NEW kind \in Kinds, NEW e \in AlarmRecord,
                   last_events' = [last_events EXCEPT ![c][kind] = now],
                   alarms' = Append(alarms, e)
            PROVE  /\ last_events' \in [Cameras -> [Kinds -> Nat \union {Never}]]
                   /\ alarms' \in Seq(AlarmRecord)
        BY <4>2 DEF TypeOK
      <4>3. CASE Raises(c)
        BY <4>2, <4>3 DEF Raises
      <4> QED BY <2>1, <4>1, <4>3, ProcessEffect
    <3> QED BY <3>2, <3>3, <3>4, <3>5 DEF TypeOK
  <2>2. CASE /\ now' \in Nat /\ now <= now'
             /\ config' \in [Cameras -> Configs]
             /\ UNCHANGED <<states, last_events, seen, alarms>>
    BY <2>2 DEF TypeOK
  <2> QED BY <2>1, <2>2, StepCases
<1> QED BY <1>2, TypeInit, PTL DEF Spec

-----------------------------------------------------------------------------
\* The entry of an alarm is never in the future.
LastEventsPast == \A c \in Cameras, k \in Kinds : last_events[c][k] <= now

\* The inductive invariant behind the spacing of the alarms: the cooldown map
\* must be known to be exact, for CanFire looks at the map and not at the
\* history, and its entries must lie in the past for the newest to be the
\* greatest.
CooldownInv ==
  /\ TypeOK
  /\ LastEventsPast
  /\ CooldownMapExact
  /\ CooldownSpacing

\* An alarm that its cooldown allows keeps the map exact and the alarms spaced.
LEMMA AlarmStep ==
  ASSUME CooldownInv, NEW c \in Cameras, NEW kind \in Kinds,
         NEW e \in AlarmRecord, TypeOK',
         now' = now, CanFire(c, kind, e.cooldown),
         e.camera = c, e.kind = kind, e.time = now,
         last_events' = [last_events EXCEPT ![c][kind] = now],
         alarms' = Append(alarms, e)
  PROVE  LastEventsPast' /\ CooldownMapExact' /\ CooldownSpacing'
<1> DEFINE n == Len(alarms)
<1>1. /\ n \in Nat /\ DOMAIN alarms = 1 .. n /\ DOMAIN alarms' = 1 .. n + 1
      /\ \A i \in 1 .. n : alarms'[i] = alarms[i]
      /\ alarms'[n + 1] = e
  BY DEF CooldownInv, TypeOK
<1>2. /\ last_events'[c][kind] = now
      /\ \A d \in Cameras, k \in Kinds :
           <<d, k>> # <<c, kind>> => last_events'[d][k] = last_events[d][k]
  BY DEF CooldownInv, TypeOK
<1>3. now \in Nat /\ now # Never
  BY DEF CooldownInv, TypeOK, Never
<1>4. \A i \in 1 .. n : alarms[i].time \in Nat
  <2>1. \A i \in 1 .. n : alarms[i] \in AlarmRecord
    BY <1>1 DEF CooldownInv, TypeOK
  <2> QED BY <2>1 DEF AlarmRecord
<1>5. LastEventsPast'
  BY <1>2, <1>3 DEF CooldownInv, LastEventsPast
<1>6. \A i \in 1 .. n : alarms[i].camera = c /\ alarms[i].kind = kind
        => /\ last_events[c][kind] # Never
           /\ alarms[i].time <= last_events[c][kind]
           /\ last_events[c][kind] <= now
  BY <1>1 DEF CooldownInv, CooldownMapExact, LastEventsPast
<1>7. CooldownMapExact'
  <2>1. \A d \in Cameras, k \in Kinds, i \in 1 .. n + 1 :
          alarms'[i].camera = d /\ alarms'[i].kind = k
            => /\ last_events'[d][k] # Never
               /\ alarms'[i].time <= last_events'[d][k]
    <3> TAKE d \in Cameras, k \in Kinds, i \in 1 .. n + 1
    <3>1. CASE i = n + 1
      BY <1>1, <1>2, <1>3, <3>1
    <3>2. CASE i \in 1 .. n /\ <<d, k>> = <<c, kind>>
      BY <1>1, <1>2, <1>3, <1>4, <1>6, <3>2 DEF CooldownInv, TypeOK, Never
    <3>3. CASE i \in 1 .. n /\ <<d, k>> # <<c, kind>>
      BY <1>1, <1>2, <3>3 DEF CooldownInv, CooldownMapExact
    <3> QED BY <1>1, <3>1, <3>2, <3>3
  <2>2. \A d \in Cameras, k \in Kinds : last_events'[d][k] # Never =>
          \E i \in 1 .. n + 1 :
            /\ alarms'[i].camera = d /\ alarms'[i].kind = k
            /\ alarms'[i].time = last_events'[d][k]
    <3> TAKE d \in Cameras, k \in Kinds
    <3>1. CASE <<d, k>> = <<c, kind>>
      BY <1>1, <1>2, <3>1
    <3>2. CASE <<d, k>> # <<c, kind>>
      BY <1>1, <1>2, <3>2 DEF CooldownInv, CooldownMapExact
    <3> QED BY <3>1, <3>2
  <2>3. (\A d \in Cameras, k \in Kinds :
           /\ \A i \in DOMAIN alarms :
                alarms[i].camera = d /\ alarms[i].kind = k
                  => /\ last_events[d][k] # Never
                     /\ alarms[i].time <= last_events[d][k]
           /\ last_events[d][k] # Never =>
                \E i \in DOMAIN alarms :
                  /\ alarms[i].camera = d /\ alarms[i].kind = k
                  /\ alarms[i].time = last_events[d][k])'
    BY <1>1, <2>1, <2>2
  <2> QED BY <2>3 DEF CooldownMapExact
<1>8. CooldownSpacing'
  <2> SUFFICES ASSUME NEW i \in 1 .. n + 1, NEW j \in 1 .. n + 1,
                      i < j,
                      alarms'[i].camera = alarms'[j].camera,
                      alarms'[i].kind = alarms'[j].kind
               PROVE  alarms'[j].time - alarms'[i].time >= alarms'[j].cooldown
    BY <1>1 DEF CooldownSpacing
  <2>1. CASE j = n + 1
    <3>1. i \in 1 .. n /\ alarms'[i] = alarms[i] /\ alarms'[j] = e
      BY <1>1, <2>1
    <3>2. /\ last_events[c][kind] # Never
          /\ alarms[i].time <= last_events[c][kind]
      BY <1>6, <3>1
    <3>3. now - last_events[c][kind] >= e.cooldown
      BY <3>2 DEF CanFire
    <3>4. /\ last_events[c][kind] \in Nat /\ e.cooldown \in Nat
          /\ alarms[i].time \in Nat
      BY <1>4, <3>1, <3>2 DEF CooldownInv, TypeOK, AlarmRecord
    <3> QED BY <1>3, <3>1, <3>2, <3>3, <3>4
  <2>2. CASE j \in 1 .. n
    BY <1>1, <2>2 DEF CooldownInv, CooldownSpacing
  <2> QED BY <1>1, <2>1, <2>2
<1> QED BY <1>5, <1>7, <1>8

\* The map of last events stays exact and in the past, and the alarms spaced.
THEOREM CooldownInvariant == Spec => []CooldownInv
<1>1. Init => CooldownInv
  <2> SUFFICES ASSUME Init, TypeOK
               PROVE  LastEventsPast /\ CooldownMapExact /\ CooldownSpacing
    BY TypeInit DEF CooldownInv
  <2>1. /\ now = 0 /\ alarms = <<>>
        /\ \A c \in Cameras, k \in Kinds : last_events[c][k] = Never
    BY DEF Init
  <2> QED
    BY <2>1 DEF LastEventsPast, CooldownMapExact, CooldownSpacing, Never
<1>2. CooldownInv /\ TypeOK' /\ [Next]_vars => CooldownInv'
  <2> SUFFICES ASSUME CooldownInv, TypeOK', [Next]_vars
               PROVE  LastEventsPast' /\ CooldownMapExact' /\ CooldownSpacing'
    BY DEF CooldownInv
  <2>1. TypeOK
    BY DEF CooldownInv
  <2>2. ASSUME NEW c \in Cameras, NEW r \in Results, Process(c, r)
        PROVE  LastEventsPast' /\ CooldownMapExact' /\ CooldownSpacing'
    <3>1. now' = now
      BY <2>1, <2>2, ProcessEffect
    <3>2. CASE RaisesNothing
      BY <3>1, <3>2 DEF RaisesNothing,
        CooldownInv, LastEventsPast, CooldownMapExact, CooldownSpacing
    <3>3. CASE Raises(c)
      <4>1. PICK kind \in Kinds, e \in AlarmRecord :
              /\ CanFire(c, kind, e.cooldown)
              /\ e.camera = c /\ e.kind = kind /\ e.time = now
              /\ last_events' = [last_events EXCEPT ![c][kind] = now]
              /\ alarms' = Append(alarms, e)
        BY <3>3 DEF Raises
      <4> QED BY <3>1, <4>1, AlarmStep
    <3> QED BY <2>1, <2>2, <3>2, <3>3, ProcessEffect
  <2>3. CASE /\ now' \in Nat /\ now <= now'
             /\ config' \in [Cameras -> Configs]
             /\ UNCHANGED <<states, last_events, seen, alarms>>
    <3>1. LastEventsPast'
      <4>1. \A c \in Cameras, k \in Kinds :
              last_events[c][k] \in Int /\ last_events[c][k] <= now
        BY <2>1 DEF CooldownInv, LastEventsPast, TypeOK, Never
      <4>2. now \in Nat /\ now' \in Nat /\ now <= now'
        BY <2>1, <2>3 DEF TypeOK
      <4>3. last_events' = last_events
        BY <2>3
      <4> QED BY <4>1, <4>2, <4>3 DEF LastEventsPast
    <3>2. CooldownMapExact' /\ CooldownSpacing'
      BY <2>3 DEF CooldownInv, CooldownMapExact, CooldownSpacing
    <3> QED BY <3>1, <3>2
  <2> QED BY <2>1, <2>2, <2>3, StepCases
<1> QED BY <1>1, <1>2, TypeCorrect, PTL DEF Spec

\* Two alarms of one kind for one camera are always at least the cooldown
\* apart: no change of settings, no interleaving with other cameras and no tie
\* of the clock loosens it.
THEOREM CooldownRespected == Spec => []CooldownSpacing
<1>1. CooldownInv => CooldownSpacing
  BY DEF CooldownInv
<1> QED BY <1>1, CooldownInvariant, PTL

\* The cooldown map forgets no alarm and invents none, so that looking at it is
\* looking at the history.
THEOREM CooldownMapFaithful == Spec => []CooldownMapExact
<1>1. CooldownInv => CooldownMapExact
  BY DEF CooldownInv
<1> QED BY <1>1, CooldownInvariant, PTL

-----------------------------------------------------------------------------
(* The window against the history (AlarmPolicy). *)

\* The end of a sequence, from position m.
Suffix(s, m) == SubSeq(s, m, Len(s))

\* The elements of the end of a sequence.
LEMMA SuffixElements ==
  ASSUME NEW T, NEW s \in Seq(T), NEW m \in 1 .. Len(s) + 1
  PROVE  /\ Suffix(s, m) \in Seq(T)
         /\ Len(Suffix(s, m)) = Len(s) - m + 1
         /\ \A i \in 1 .. Len(s) - m + 1 : Suffix(s, m)[i] = s[m + i - 1]
BY DEF Suffix

\* The end of the end of a sequence.
LEMMA SuffixOfSuffix ==
  ASSUME NEW T, NEW s \in Seq(T), NEW m \in 1 .. Len(s) + 1,
         NEW k \in 1 .. Len(s) - m + 2
  PROVE  Suffix(Suffix(s, m), k) = Suffix(s, m + k - 1)
<1> DEFINE w == Suffix(s, m)
           n == Len(s)
           g == m + k - 1
<1>1. w \in Seq(T) /\ Len(w) = n - m + 1 /\ n \in Nat
      /\ \A i \in 1 .. n - m + 1 : w[i] = s[m + i - 1]
  BY SuffixElements
<1>2. k \in 1 .. Len(w) + 1 /\ g \in 1 .. n + 1
  BY <1>1
<1> HIDE DEF w
<1>3. /\ Suffix(w, k) \in Seq(T) /\ Len(Suffix(w, k)) = Len(w) - k + 1
      /\ \A i \in 1 .. Len(w) - k + 1 : Suffix(w, k)[i] = w[k + i - 1]
  BY <1>1, <1>2, SuffixElements
<1>4. /\ Suffix(s, g) \in Seq(T) /\ Len(Suffix(s, g)) = n - g + 1
      /\ \A i \in 1 .. n - g + 1 : Suffix(s, g)[i] = s[g + i - 1]
  <2> HIDE DEF g
  <2> QED BY <1>2, SuffixElements
<1>5. Len(w) - k + 1 = n - g + 1
  BY <1>1
<1>6. \A i \in 1 .. n - g + 1 : Suffix(w, k)[i] = Suffix(s, g)[i]
  <2> TAKE i \in 1 .. n - g + 1
  <2>1. k + i - 1 \in 1 .. n - m + 1 /\ m + (k + i - 1) - 1 = g + i - 1
    BY <1>1, <1>2
  <2>2. Suffix(w, k)[i] = w[k + i - 1] /\ Suffix(s, g)[i] = s[g + i - 1]
    BY <1>3, <1>4, <1>5
  <2> QED BY <1>1, <2>1, <2>2
<1>7. Suffix(w, k) = Suffix(s, g)
  <2> HIDE DEF g, n
  <2> QED BY <1>3, <1>4, <1>5, <1>6, SeqEqual
<1> QED BY <1>7 DEF w

\* A new element goes to the end of the end.
LEMMA SuffixOfAppend ==
  ASSUME NEW T, NEW s \in Seq(T), NEW m \in 1 .. Len(s) + 1, NEW e \in T
  PROVE  Append(Suffix(s, m), e) = Suffix(Append(s, e), m)
<1> DEFINE a == Append(s, e)
           w == Suffix(s, m)
           n == Len(s)
<1>1. w \in Seq(T) /\ Len(w) = n - m + 1 /\ n \in Nat
      /\ \A i \in 1 .. n - m + 1 : w[i] = s[m + i - 1]
  BY SuffixElements
<1>2. /\ a \in Seq(T) /\ Len(a) = n + 1
      /\ \A i \in 1 .. n : a[i] = s[i]
      /\ a[n + 1] = e
  OBVIOUS
<1>3. m \in 1 .. Len(a) + 1
  BY <1>2
<1> HIDE DEF a, w
<1>4. /\ Suffix(a, m) \in Seq(T) /\ Len(Suffix(a, m)) = Len(a) - m + 1
      /\ \A i \in 1 .. Len(a) - m + 1 : Suffix(a, m)[i] = a[m + i - 1]
  BY <1>2, <1>3, SuffixElements
<1>5. /\ Append(w, e) \in Seq(T) /\ Len(Append(w, e)) = Len(w) + 1
      /\ \A i \in 1 .. Len(w) : Append(w, e)[i] = w[i]
      /\ Append(w, e)[Len(w) + 1] = e
  BY <1>1
<1>6. \A i \in 1 .. Len(w) + 1 : Append(w, e)[i] = Suffix(a, m)[i]
  <2> TAKE i \in 1 .. Len(w) + 1
  <2>1. Suffix(a, m)[i] = a[m + i - 1]
    BY <1>1, <1>2, <1>4
  <2>2. CASE i = Len(w) + 1
    <3>1. m + i - 1 = n + 1
      BY <1>1, <2>2
    <3> QED BY <1>2, <1>5, <2>1, <2>2, <3>1
  <2>3. CASE i # Len(w) + 1
    <3>1. i \in 1 .. Len(w) /\ i \in 1 .. n - m + 1 /\ m + i - 1 \in 1 .. n
      BY <1>1, <2>3
    <3> QED BY <1>1, <1>2, <1>5, <2>1, <3>1
  <2> QED BY <2>2, <2>3
<1>7. Len(Append(w, e)) = Len(Suffix(a, m))
  BY <1>1, <1>2, <1>4, <1>5
<1>8. Append(w, e) = Suffix(a, m)
  <2>1. \A i \in 1 .. Len(Append(w, e)) : Append(w, e)[i] = Suffix(a, m)[i]
    BY <1>5, <1>6
  <2> QED BY <1>4, <1>5, <1>7, <2>1, SeqEqual
<1> QED BY <1>8 DEF a, w

\* The frames are recorded in the order of the clock.
InOrder(h) ==
  /\ \A i \in 1 .. Len(h) : h[i].time <= now
  /\ \A i, j \in 1 .. Len(h) : i <= j => h[i].time <= h[j].time

\* Pruning the front is dropping every frame that is too old, and no other.
LEMMA PruneIsSuffix ==
  ASSUME now \in Nat, MaxAge \in Nat, NEW w \in Seq(Entry),
         \A i, j \in 1 .. Len(w) : i <= j => w[i].time <= w[j].time
  PROVE  \E k \in 1 .. Len(w) + 1 :
           /\ Prune(w) = Suffix(w, k)
           /\ \A i \in k .. Len(w) : now - w[i].time <= MaxAge
           /\ k = 1 \/ now - w[k - 1].time > MaxAge
<1> DEFINE fresh == {i \in DOMAIN w : now - w[i].time <= MaxAge}
           first == CHOOSE i \in fresh : \A j \in fresh : i <= j
           n == Len(w)
<1>1. n \in Nat /\ DOMAIN w = 1 .. n
  OBVIOUS
<1>2. \A i \in 1 .. n : w[i].time \in Nat
  <2>1. \A i \in 1 .. n : w[i] \in Entry
    OBVIOUS
  <2> QED BY <2>1 DEF Entry
<1>3. CASE fresh = {}
  <2>1. Prune(w) = <<>>
    BY <1>3 DEF Prune
  <2>2. n + 1 \in 1 .. n + 1 /\ n < n + 1
    BY <1>1
  <2>3. Suffix(w, n + 1) = <<>>
    BY <1>1, <2>2, SubSeqEmpty DEF Suffix
  <2>4. \A i \in 1 .. n : ~ (now - w[i].time <= MaxAge)
    BY <1>1, <1>3
  <2>5. n + 1 = 1 \/ now - w[(n + 1) - 1].time > MaxAge
    <3>1. n = 0 \/ (n \in 1 .. n /\ (n + 1) - 1 = n)
      BY <1>1
    <3> QED BY <1>2, <2>4, <3>1, BoundsValid
  <2>6. \A i \in n + 1 .. n : now - w[i].time <= MaxAge
    BY <1>1
  <2> QED BY <2>1, <2>2, <2>3, <2>5, <2>6
<1>4. CASE fresh # {}
  <2>1. fresh \in SUBSET Nat
    OBVIOUS
  <2>2. first \in fresh /\ \A j \in fresh : first <= j
    <3> HIDE DEF fresh
    <3> QED BY <1>4, <2>1, LeastElement
  <2>3. first \in 1 .. n /\ now - w[first].time <= MaxAge
    <3> HIDE DEF first
    <3> QED BY <2>2
  <2>4. Prune(w) = Suffix(w, first)
    BY <1>4 DEF Prune, Suffix
  <2>5. \A i \in 1 .. n : now - w[i].time <= MaxAge => first <= i
    <3> HIDE DEF first
    <3> QED BY <2>2
  <2> HIDE DEF first, fresh
  <2>6. \A i \in first .. n : now - w[i].time <= MaxAge
    <3> TAKE i \in first .. n
    <3>1. i \in 1 .. n /\ first <= i
      BY <1>1, <2>3
    <3>2. w[first].time <= w[i].time
      BY <2>3, <3>1
    <3> QED BY <1>2, <2>3, <3>1, <3>2
  <2>7. first = 1 \/ now - w[first - 1].time > MaxAge
    <3>1. CASE first # 1
      <4>1. first - 1 \in 1 .. n /\ ~ (first <= first - 1)
        BY <1>1, <2>3, <3>1
      <4>2. ~ (now - w[first - 1].time <= MaxAge)
        BY <2>5, <4>1
      <4>3. w[first - 1].time \in Nat
        BY <1>2, <4>1
      <4> QED BY <4>2, <4>3
    <3> QED BY <3>1
  <2>8. first \in 1 .. n + 1
    BY <1>1, <2>3
  <2> QED BY <2>4, <2>6, <2>7, <2>8
<1> QED BY <1>3, <1>4

\* The policy's run of countable frames starts where the counting stops.
LEMMA RecentIsSuffix ==
  ASSUME NEW h \in Seq(Entry), NEW size \in Nat, NEW m \in 1 .. Len(h) + 1,
         \A j \in m .. Len(h) : Policy!Counts(h, j, size),
         m = 1 \/ ~ Policy!Counts(h, m - 1, size)
  PROVE  Policy!Recent(h, size) = Suffix(h, m)
<1> DEFINE n == Len(h)
           starts == {i \in 1 .. n + 1 :
                        \A j \in i .. n : Policy!Counts(h, j, size)}
           first == CHOOSE i \in starts : \A j \in starts : i <= j
<1>1. n \in Nat
  OBVIOUS
<1>2. m \in starts
  OBVIOUS
<1>3. \A i \in starts : m <= i
  <2> SUFFICES ASSUME NEW i \in starts, i < m PROVE FALSE
    BY <1>1
  <2>1. m - 1 \in i .. n /\ m # 1
    BY <1>1
  <2>2. Policy!Counts(h, m - 1, size)
    BY <2>1
  <2> QED BY <2>1, <2>2
<1>4. \A i \in starts : i \in Nat
  BY <1>1
<1>5. first = m
  <2> HIDE DEF starts
  <2>1. first \in starts /\ \A j \in starts : first <= j
    BY <1>2, <1>3
  <2>2. first <= m /\ m <= first
    BY <1>2, <1>3, <2>1
  <2> HIDE DEF first
  <2> QED BY <1>1, <1>2, <1>4, <2>1, <2>2
<1>6. Policy!Recent(h, size) = SubSeq(h, first, n)
  BY DEF Policy!Recent
<1> HIDE DEF first
<1> QED BY <1>5, <1>6 DEF Suffix

\* Trimming keeps the newest frames.
LEMMA TrimIsSuffix ==
  ASSUME NEW w \in Seq(Entry), NEW size \in Nat \ {0}
  PROVE  /\ Len(w) > size => Trim(w, size) = Suffix(w, Len(w) - size + 1)
         /\ ~ (Len(w) > size) => Trim(w, size) = w
BY DEF Trim, Suffix

\* From position f the frames of h were classified under this window size, and
\* the frame before does not count.
Tracks(h, f, size) ==
  /\ f \in 1 .. Len(h) + 1
  /\ \A j \in f .. Len(h) : h[j].size = size
  /\ f = 1 \/ ~ Policy!Counts(h, f - 1, size)

\* Pushing a frame on a window that tracks the history gives the run of frames
\* that the policy counts.
LEMMA PushFollowsHistory ==
  ASSUME now \in Nat, NEW h \in Seq(Entry), InOrder(h),
         NEW size \in Nat \ {0}, NEW f \in 1 .. Len(h) + 1,
         Tracks(h, f, size),
         NEW e \in Entry, e.time = now, e.size = size
  PROVE  \E m \in 1 .. Len(h) + 2 :
           /\ Push(Suffix(h, f), size, e) = Suffix(Append(h, e), m)
           /\ \A j \in m .. Len(h) + 1 : Policy!Counts(Append(h, e), j, size)
           /\ m = 1 \/ ~ Policy!Counts(Append(h, e), m - 1, size)
<1> DEFINE n == Len(h)
           w == Suffix(h, f)
           H == Append(h, e)
<1>1. n \in Nat /\ size \in Nat /\ 1 <= size /\ MaxAge \in Nat
  BY BoundsValid
<1>2. /\ H \in Seq(Entry) /\ Len(H) = n + 1
      /\ \A i \in 1 .. n : H[i] = h[i]
      /\ H[n + 1] = e
  OBVIOUS
<1>3. \A i \in 1 .. n : h[i].time \in Nat /\ h[i].time <= now
  <2>1. \A i \in 1 .. n : h[i] \in Entry
    OBVIOUS
  <2> QED BY <2>1 DEF Entry, InOrder
<1>4. /\ w \in Seq(Entry) /\ Len(w) = n - f + 1
      /\ \A i \in 1 .. n - f + 1 : w[i] = h[f + i - 1]
  BY SuffixElements
<1> HIDE DEF w, H
<1>5. \A i, j \in 1 .. Len(w) : i <= j => w[i].time <= w[j].time
  <2> TAKE i, j \in 1 .. Len(w)
  <2>1. f + i - 1 \in 1 .. n /\ f + j - 1 \in 1 .. n
    BY <1>1, <1>4
  <2>2. i <= j => f + i - 1 <= f + j - 1
    BY <1>1, <1>4
  <2>3. w[i] = h[f + i - 1] /\ w[j] = h[f + j - 1]
    BY <1>4
  <2> QED BY <2>1, <2>2, <2>3 DEF InOrder
<1>6. PICK k \in 1 .. Len(w) + 1 :
        /\ Prune(w) = Suffix(w, k)
        /\ \A i \in k .. Len(w) : now - w[i].time <= MaxAge
        /\ k = 1 \/ now - w[k - 1].time > MaxAge
  BY <1>1, <1>4, <1>5, PruneIsSuffix
<1>7. PICK g \in 1 .. n + 1 : g = f + k - 1
  BY <1>1, <1>4
<1>8. Suffix(w, k) = Suffix(h, g)
  <2>1. k \in 1 .. n - f + 2
    BY <1>1, <1>4
  <2> QED BY <1>7, <2>1, SuffixOfSuffix DEF w
<1>9. \A j \in g .. n : h[j].size = size /\ now - h[j].time <= MaxAge
  <2> TAKE j \in g .. n
  <2>1. j \in f .. n /\ j - f + 1 \in k .. Len(w) /\ j - f + 1 \in 1 .. n - f + 1
        /\ f + (j - f + 1) - 1 = j
    BY SMTT(30), <1>1, <1>4, <1>7
  <2>2. w[j - f + 1] = h[j]
    BY <1>4, <2>1
  <2> QED BY <1>6, <2>1, <2>2 DEF Tracks
<1>10. g = 1 \/ ~ Policy!Counts(h, g - 1, size)
  <2>1. CASE k = 1
    <3>1. g = f
      BY <1>1, <1>7, <2>1
    <3> QED BY <3>1 DEF Tracks
  <2>2. CASE k # 1
    <3>1. k - 1 \in 1 .. n - f + 1 /\ f + (k - 1) - 1 = g - 1
      BY <1>1, <1>4, <1>7, <2>2
    <3>2. w[k - 1] = h[g - 1]
      BY <1>4, <3>1
    <3>3. now - h[g - 1].time > MaxAge
      BY <1>6, <2>2, <3>2
    <3>4. g - 1 \in 1 .. n
      BY <1>1, <1>4, <1>7, <3>1
    <3> QED BY <1>1, <1>3, <3>3, <3>4 DEF Policy!Counts
  <2> QED BY <2>1, <2>2
<1>11. Append(Prune(w), e) = Suffix(H, g)
  BY <1>6, <1>8, SuffixOfAppend DEF H
<1>12. g \in 1 .. Len(H) + 1
  BY <1>1, <1>2
<1>13. Suffix(H, g) \in Seq(Entry) /\ Len(Suffix(H, g)) = n - g + 2
  <2>1. Len(H) \in Nat /\ g \in Int
    BY <1>1, <1>2
  <2>2. /\ Suffix(H, g) \in Seq(Entry)
        /\ Len(Suffix(H, g)) = Len(H) - g + 1
    BY <1>2, <1>12, SuffixElements
  <2> QED BY <1>1, <1>2, <2>1, <2>2
<1>14. \A j \in g .. n + 1 :
         H[j].size = size /\ now - H[j].time <= MaxAge
  <2> TAKE j \in g .. n + 1
  <2>1. CASE j = n + 1
    BY <1>1, <1>2, <2>1
  <2>2. CASE j # n + 1
    <3>1. j \in g .. n /\ j \in 1 .. n
      BY <1>1, <2>2
    <3> QED BY <1>2, <1>9, <3>1
  <2> QED BY <2>1, <2>2
<1>15. CASE n - g + 2 > size
  <2> DEFINE m == n + 2 - size
  <2>1. m \in 1 .. n + 2 /\ m \in Int /\ g <= m /\ m - 1 \in Int
    BY <1>1, <1>15
  <2>2. Push(w, size, e) = Suffix(Suffix(H, g), n - g + 2 - size + 1)
    BY <1>11, <1>13, <1>15, TrimIsSuffix DEF Push
  <2>3. /\ n - g + 2 - size + 1 \in 1 .. Len(H) - g + 2
        /\ g + (n - g + 2 - size + 1) - 1 = m
    BY <1>1, <1>2, <1>15
  <2>4. Push(w, size, e) = Suffix(H, m)
    <3> HIDE DEF m
    <3> QED BY <1>2, <1>12, <2>2, <2>3, SuffixOfSuffix
  <2>5. \A j \in m .. n + 1 : Policy!Counts(H, j, size)
    <3> TAKE j \in m .. n + 1
    <3>1. j \in g .. n + 1 /\ j > Len(H) - size
      BY <1>1, <1>2, <2>1
    <3> QED BY <1>14, <3>1 DEF Policy!Counts
  <2>6. ~ Policy!Counts(H, m - 1, size)
    <3>1. ~ (m - 1 > Len(H) - size)
      BY <1>1, <1>2
    <3> QED BY <3>1 DEF Policy!Counts
  <2> QED BY <2>1, <2>4, <2>5, <2>6 DEF w, H
<1>16. CASE ~ (n - g + 2 > size)
  <2>1. Push(w, size, e) = Suffix(H, g)
    BY <1>11, <1>13, <1>16, TrimIsSuffix DEF Push
  <2>2. g \in 1 .. n + 2
    BY <1>1
  <2>3. \A j \in g .. n + 1 : Policy!Counts(H, j, size)
    <3> TAKE j \in g .. n + 1
    <3>1. j > Len(H) - size
      BY <1>1, <1>2, <1>16
    <3> QED BY <1>14, <3>1 DEF Policy!Counts
  <2>4. g = 1 \/ ~ Policy!Counts(H, g - 1, size)
    <3>1. CASE g # 1
      <4>1. g - 1 \in 1 .. n /\ H[g - 1] = h[g - 1]
        BY <1>1, <1>2, <3>1
      <4>2. g - 1 > Len(H) - size => g - 1 > Len(h) - size
        BY <1>1, <1>2
      <4> QED BY <1>10, <3>1, <4>1, <4>2 DEF Policy!Counts
    <3> QED BY <3>1
  <2> QED BY <2>1, <2>2, <2>3, <2>4 DEF w, H
<1> QED BY <1>15, <1>16

-----------------------------------------------------------------------------
\* The window of a camera is an end of its history: it reaches back to the last
\* frame that no longer counts, and the newest frame is of the window's size.
WindowTracks(c) ==
  /\ InOrder(seen[c])
  /\ seen[c] # <<>> => seen[c][Len(seen[c])].size = states[c].window_size
  /\ \E f \in 1 .. Len(seen[c]) + 1 :
       /\ states[c].window = Suffix(seen[c], f)
       /\ Tracks(seen[c], f, states[c].window_size)

\* Together with the exact cooldown map this is why looking at the bounded
\* state of the engine is looking at the unbounded history.
HistoryInv == \A c \in Cameras : WindowTracks(c)

\* The window process() starts from tracks the history under the size that is
\* now in the settings, whether it is the old one or a new one.
LEMMA OldWindowTracks ==
  ASSUME TypeOK, NEW c \in Cameras, WindowTracks(c), NEW size \in Nat \ {0}
  PROVE  \E f \in 1 .. Len(seen[c]) + 1 :
           /\ WindowFor(states[c], size) = Suffix(seen[c], f)
           /\ Tracks(seen[c], f, size)
<1>1. PICK h \in Seq(Entry) : h = seen[c]
  BY DEF TypeOK
<1>2. PICK n \in Nat : n = Len(h)
  OBVIOUS
<1>3. CASE states[c].window_size = size
  BY <1>3 DEF WindowFor, WindowTracks
<1>4. CASE states[c].window_size # size
  <2>1. WindowFor(states[c], size) = <<>>
    BY <1>4 DEF WindowFor
  <2>2. n + 1 \in 1 .. Len(h) + 1
    BY <1>2
  <2>3. Suffix(h, n + 1) = <<>>
    BY <1>2, SubSeqEmpty DEF Suffix
  <2>4. Tracks(h, n + 1, size)
    <3>1. \A j \in n + 1 .. Len(h) : h[j].size = size
      BY <1>2
    <3>2. CASE n = 0
      BY <2>2, <3>1, <3>2 DEF Tracks
    <3>3. CASE n # 0
      <4>1. h # <<>> /\ (n + 1) - 1 = n
        BY <1>2, <3>3
      <4>2. h[n].size # size
        BY <1>1, <1>2, <1>4, <4>1 DEF WindowTracks
      <4> QED BY <2>2, <3>1, <4>1, <4>2 DEF Tracks, Policy!Counts
    <3> QED BY <3>2, <3>3
  <2> QED BY <1>1, <2>1, <2>2, <2>3, <2>4
<1> QED BY <1>3, <1>4

\* The entry process() records for a frame.
FrameEntry(c, r) ==
  [time |-> now, size |-> config[c].window_size, kept |-> Kept(r, config[c])]

\* The window process() judges a frame by.
NewWindow(c, r) ==
  Push(WindowFor(states[c], config[c].window_size), config[c].window_size,
       FrameEntry(c, r))

LEMMA FrameEntryType ==
  ASSUME TypeOK, NEW c \in Cameras, NEW r \in Results
  PROVE  /\ config[c] \in Configs /\ config[c].window_size \in Nat \ {0}
         /\ FrameEntry(c, r) \in Entry
         /\ FrameEntry(c, r).time = now
         /\ FrameEntry(c, r).size = config[c].window_size
<1>1. config[c] \in Configs
  BY DEF TypeOK
<1>2. config[c].window_size \in Nat \ {0}
  BY <1>1, ConfigType
<1>3. Kept(r, config[c]) \in [Classes -> Nat]
  BY <1>1, KeptType
<1> QED BY <1>1, <1>2, <1>3 DEF FrameEntry, Entry, TypeOK

\* The window process() judges a frame by is what the policy reads off the
\* history, and it tracks the history for the next frame.
LEMMA NewWindowIsRecent ==
  ASSUME TypeOK, NEW c \in Cameras, WindowTracks(c), NEW r \in Results
  PROVE  \E H \in Seq(Entry) :
           /\ H = Append(seen[c], FrameEntry(c, r))
           /\ NewWindow(c, r) = Policy!Recent(H, config[c].window_size)
           /\ \E m \in 1 .. Len(H) + 1 :
                /\ NewWindow(c, r) = Suffix(H, m)
                /\ Tracks(H, m, config[c].window_size)
<1>1. PICK h \in Seq(Entry) : h = seen[c]
  BY DEF TypeOK
<1>2. PICK e \in Entry : e = FrameEntry(c, r) /\ e.time = now
                         /\ e.size = config[c].window_size
  BY FrameEntryType
<1>3. PICK size \in Nat \ {0} : size = config[c].window_size
  BY FrameEntryType
<1>4. PICK f \in 1 .. Len(h) + 1 :
        /\ WindowFor(states[c], size) = Suffix(h, f)
        /\ Tracks(h, f, size)
  BY <1>1, OldWindowTracks
<1>5. InOrder(h) /\ now \in Nat
  BY <1>1 DEF WindowTracks, TypeOK
<1>6. PICK H \in Seq(Entry) :
        H = Append(h, e) /\ Len(H) = Len(h) + 1
  <2>1. Append(h, e) \in Seq(Entry) /\ Len(Append(h, e)) = Len(h) + 1
    OBVIOUS
  <2> QED BY <2>1
<1>7. NewWindow(c, r) = Push(Suffix(h, f), size, e)
  BY <1>2, <1>3, <1>4 DEF NewWindow
<1>8. PICK m \in 1 .. Len(h) + 2 :
        /\ Push(Suffix(h, f), size, e) = Suffix(H, m)
        /\ \A j \in m .. Len(h) + 1 : Policy!Counts(H, j, size)
        /\ m = 1 \/ ~ Policy!Counts(H, m - 1, size)
  BY <1>2, <1>3, <1>4, <1>5, <1>6, PushFollowsHistory
<1>9. m \in 1 .. Len(H) + 1
  BY <1>6
<1>10. \A j \in m .. Len(H) : Policy!Counts(H, j, size)
  BY <1>6, <1>8
<1>11. Policy!Recent(H, size) = Suffix(H, m)
  BY <1>8, <1>9, <1>10, RecentIsSuffix
<1>12. Tracks(H, m, size)
  BY <1>8, <1>9, <1>10 DEF Tracks, Policy!Counts
<1>13. NewWindow(c, r) = Suffix(H, m)
  BY <1>7, <1>8
<1>14. H = Append(seen[c], FrameEntry(c, r))
  BY <1>1, <1>2, <1>6
<1> QED BY <1>3, <1>9, <1>11, <1>12, <1>13, <1>14

\* What one call of process() does to the history and to the window.
LEMMA ProcessWindow ==
  ASSUME TypeOK, NEW c \in Cameras, NEW r \in Results, Process(c, r)
  PROVE  /\ now' = now
         /\ seen' = [seen EXCEPT ![c] = Append(seen[c], FrameEntry(c, r))]
         /\ states' = [states EXCEPT ![c] =
              [window |-> NewWindow(c, r), window_size |-> config[c].window_size]]
BY DEF Process, NewWindow, FrameEntry

\* A frame that is recorded last keeps the history in order.
LEMMA AppendInOrder ==
  ASSUME now \in Nat, NEW h \in Seq(Entry), InOrder(h),
         NEW e \in Entry, e.time = now
  PROVE  InOrder(Append(h, e))
<1>1. PICK n \in Nat : n = Len(h)
  OBVIOUS
<1>2. PICK H \in Seq(Entry) :
        /\ H = Append(h, e) /\ Len(H) = n + 1
        /\ \A i \in 1 .. n : H[i] = h[i]
        /\ H[n + 1] = e
  <2>1. /\ Append(h, e) \in Seq(Entry) /\ Len(Append(h, e)) = n + 1
        /\ \A i \in 1 .. n : Append(h, e)[i] = h[i]
        /\ Append(h, e)[n + 1] = e
    BY <1>1
  <2> QED BY <2>1
<1>3. \A i \in 1 .. n : h[i].time \in Nat /\ h[i].time <= now
  <2>1. \A i \in 1 .. n : h[i] \in Entry
    BY <1>1
  <2> QED BY <1>1, <2>1 DEF Entry, InOrder
<1>4. \A i \in 1 .. n + 1 : H[i].time <= now
  BY <1>2, <1>3
<1>5. \A i, j \in 1 .. n + 1 : i <= j => H[i].time <= H[j].time
  <2> TAKE i, j \in 1 .. n + 1
  <2>1. CASE j = n + 1
    BY <1>2, <1>4, <2>1
  <2>2. CASE j # n + 1 /\ i <= j
    <3>1. i \in 1 .. n /\ j \in 1 .. n
      BY <2>2
    <3>2. h[i].time <= h[j].time
      BY <1>1, <2>2, <3>1 DEF InOrder
    <3> QED BY <1>2, <3>1, <3>2
  <2> QED BY <2>1, <2>2
<1> QED BY <1>2, <1>4, <1>5 DEF InOrder

\* A later clock leaves what is tracked tracked: a frame that stopped counting
\* never counts again.
LEMMA LaterTracks ==
  ASSUME TypeOK, NEW c \in Cameras, WindowTracks(c),
         now' \in Nat, now <= now',
         seen'[c] = seen[c], states'[c] = states[c]
  PROVE  WindowTracks(c)'
<1>1. PICK h \in Seq(Entry) : h = seen[c]
  BY DEF TypeOK
<1>2. PICK st : st = states[c] /\ st.window_size \in Nat
  BY DEF TypeOK
<1>3. now \in Nat /\ MaxAge \in Nat
  BY BoundsValid DEF TypeOK
<1>4. \A i \in 1 .. Len(h) : h[i].time \in Nat
  <2>1. \A i \in 1 .. Len(h) : h[i] \in Entry
    OBVIOUS
  <2> QED BY <2>1 DEF Entry
<1>5. InOrder(h)'
  <2>1. \A i \in 1 .. Len(h) : h[i].time <= now'
    BY <1>1, <1>3, <1>4 DEF WindowTracks, InOrder
  <2> QED BY <1>1, <2>1 DEF WindowTracks, InOrder
<1>6. PICK f \in 1 .. Len(h) + 1 :
        st.window = Suffix(h, f) /\ Tracks(h, f, st.window_size)
  BY <1>1, <1>2 DEF WindowTracks
<1>7. Tracks(h, f, st.window_size)'
  <2>1. CASE f # 1
    <3>1. f - 1 \in 1 .. Len(h)
      BY <2>1
    <3>2. ~ (now - h[f - 1].time <= MaxAge) => ~ (now' - h[f - 1].time <= MaxAge)
      BY <1>3, <1>4, <3>1
    <3> QED BY <1>6, <2>1, <3>2 DEF Tracks, Policy!Counts
  <2>2. CASE f = 1
    BY <1>6, <2>2 DEF Tracks
  <2> QED BY <2>1, <2>2
<1>8. h # <<>> => h[Len(h)].size = st.window_size
  BY <1>1, <1>2 DEF WindowTracks
<1>9. h = seen'[c] /\ st = states'[c]
  BY <1>1, <1>2
<1> QED BY <1>5, <1>6, <1>7, <1>8, <1>9 DEF WindowTracks

\* Every window tracks its history, in every reachable state.
THEOREM HistoryInvariant == Spec => []HistoryInv
<1>1. Init => HistoryInv
  <2> SUFFICES ASSUME Init, NEW c \in Cameras PROVE WindowTracks(c)
    BY DEF HistoryInv
  <2>1. PICK h \in Seq(Entry) : h = seen[c] /\ h = <<>> /\ Len(h) = 0
    <3>1. <<>> \in Seq(Entry) /\ Len(<<>>) = 0
      OBVIOUS
    <3>2. seen[c] = <<>>
      BY DEF Init
    <3> QED BY <3>1, <3>2
  <2>2. states[c].window = <<>>
    BY DEF Init
  <2>3. Suffix(h, 1) = <<>>
    BY <2>1, SubSeqEmpty DEF Suffix
  <2>4. InOrder(h)
    BY <2>1 DEF InOrder
  <2>5. 1 \in 1 .. Len(h) + 1 /\ Tracks(h, 1, states[c].window_size)
    BY <2>1 DEF Tracks
  <2> QED BY <2>1, <2>2, <2>3, <2>4, <2>5 DEF WindowTracks
<1>2. TypeOK /\ HistoryInv /\ [Next]_vars => HistoryInv'
  <2> SUFFICES ASSUME TypeOK, HistoryInv, [Next]_vars, NEW d \in Cameras
               PROVE  WindowTracks(d)'
    BY DEF HistoryInv
  <2>1. WindowTracks(d) /\ now \in Nat
    BY DEF HistoryInv, TypeOK
  <2>2. ASSUME NEW c \in Cameras, NEW r \in Results, Process(c, r)
        PROVE  WindowTracks(d)'
    <3>1. /\ now' = now
          /\ seen' = [seen EXCEPT ![c] = Append(seen[c], FrameEntry(c, r))]
          /\ states' = [states EXCEPT ![c] =
               [window |-> NewWindow(c, r),
                window_size |-> config[c].window_size]]
      BY <2>2, ProcessWindow
    <3>2. CASE d # c
      <4>1. seen'[d] = seen[d] /\ states'[d] = states[d]
        BY <3>1, <3>2
      <4>2. now' \in Nat /\ now <= now'
        BY <2>1, <3>1
      <4> QED BY <2>1, <4>1, <4>2, LaterTracks
    <3>3. CASE d = c
      <4>1. PICK h \in Seq(Entry) : h = seen[c]
        BY DEF TypeOK
      <4>2. PICK size : size = config[c].window_size
        OBVIOUS
      <4>3. PICK H \in Seq(Entry) :
               /\ H = Append(h, FrameEntry(c, r))
               /\ \E m \in 1 .. Len(H) + 1 :
                    NewWindow(c, r) = Suffix(H, m) /\ Tracks(H, m, size)
        BY <2>1, <3>3, <4>1, <4>2, NewWindowIsRecent
      <4>4. PICK m \in 1 .. Len(H) + 1 :
              NewWindow(c, r) = Suffix(H, m) /\ Tracks(H, m, size)
        BY <4>3
      <4>5. PICK e \in Entry : /\ e = FrameEntry(c, r) /\ e.time = now
                               /\ e.size = config[c].window_size
        BY FrameEntryType
      <4>6. InOrder(H)
        BY <2>1, <3>3, <4>1, <4>3, <4>5, AppendInOrder DEF WindowTracks
      <4>7. H[Len(H)] = e
        BY <4>3, <4>5
      <4>8. H = seen'[c]
        BY <3>1, <4>1, <4>3 DEF TypeOK
      <4>9. /\ states'[c].window = Suffix(H, m)
            /\ states'[c].window_size = size
        BY <3>1, <4>4, <4>2 DEF TypeOK
      <4>10. InOrder(H)' /\ Tracks(H, m, size)'
        BY <3>1, <4>4, <4>6 DEF InOrder, Tracks, Policy!Counts
      <4>11. H[Len(H)].size = size
        BY <4>5, <4>7, <4>2
      <4> QED BY <3>3, <4>8, <4>9, <4>10, <4>11 DEF WindowTracks
    <3> QED BY <3>2, <3>3
  <2>3. CASE /\ now' \in Nat /\ now <= now'
             /\ config' \in [Cameras -> Configs]
             /\ UNCHANGED <<states, last_events, seen, alarms>>
    BY <2>1, <2>3, LaterTracks
  <2> QED BY <2>2, <2>3, StepCases
<1> QED BY <1>1, <1>2, TypeCorrect, PTL DEF Spec

-----------------------------------------------------------------------------
(* The engine implements AlarmPolicy. *)

\* The cooldown map answers for the whole history of alarms.
LEMMA CanFireIsRested ==
  ASSUME CooldownInv, NEW c \in Cameras, NEW kind \in Kinds,
         NEW cooldown \in Nat
  PROVE  CanFire(c, kind, cooldown) <=> Policy!Rested(c, kind, cooldown)
<1>1. PICK last \in Nat \union {Never} : last = last_events[c][kind]
  BY DEF CooldownInv, TypeOK
<1>2. \A i \in DOMAIN alarms : alarms[i].camera = c /\ alarms[i].kind = kind
        => last # Never /\ alarms[i].time <= last
  BY <1>1 DEF CooldownInv, CooldownMapExact
<1>3. last # Never => \E i \in DOMAIN alarms :
        alarms[i].camera = c /\ alarms[i].kind = kind /\ alarms[i].time = last
  BY <1>1 DEF CooldownInv, CooldownMapExact
<1>4. now \in Nat
  BY DEF CooldownInv, TypeOK
<1>5. \A i \in DOMAIN alarms : alarms[i].time \in Nat
  <2>1. \A i \in DOMAIN alarms : alarms[i] \in AlarmRecord
    BY DEF CooldownInv, TypeOK
  <2> QED BY <2>1 DEF AlarmRecord
<1>6. CASE last = Never
  <2>1. CanFire(c, kind, cooldown)
    BY <1>1, <1>6 DEF CanFire
  <2>2. Policy!Rested(c, kind, cooldown)
    BY <1>2, <1>6 DEF Policy!Rested
  <2> QED BY <2>1, <2>2
<1>7. CASE last # Never
  <2>1. last \in Nat
    BY <1>7
  <2>2. CanFire(c, kind, cooldown) <=> now - last >= cooldown
    BY <1>1, <1>7 DEF CanFire
  <2>3. Policy!Rested(c, kind, cooldown) => now - last >= cooldown
    BY <1>3, <1>7 DEF Policy!Rested
  <2>4. ASSUME now - last >= cooldown
        PROVE  Policy!Rested(c, kind, cooldown)
    <3>1. ASSUME NEW i \in DOMAIN alarms,
                 alarms[i].camera = c, alarms[i].kind = kind
          PROVE  now - alarms[i].time >= cooldown
      <4>1. PICK t \in Nat : t = alarms[i].time
        BY <1>5
      <4>2. t <= last
        BY <1>2, <3>1, <4>1
      <4> QED BY <1>4, <2>1, <2>4, <4>1, <4>2
    <3> QED BY <3>1 DEF Policy!Rested
  <2> QED BY <2>2, <2>3, <2>4
<1> QED BY <1>6, <1>7

\* One frame through the engine is one frame through the policy.
LEMMA ProcessObserves ==
  ASSUME CooldownInv, HistoryInv, NEW c \in Cameras, NEW r \in Results,
         Process(c, r)
  PROVE  Policy!Observe(c, r)
<1>1. TypeOK /\ WindowTracks(c)
  BY DEF CooldownInv, HistoryInv
<1>2. PICK cfg \in Configs : cfg = config[c]
  BY <1>1 DEF TypeOK
<1>3. cfg.cooldown \in Nat
  BY ConfigType
<1>4. PICK e : e = FrameEntry(c, r)
  OBVIOUS
<1>5. e = [time |-> now, size |-> cfg.window_size, kept |-> Policy!Kept(r, cfg)]
  BY <1>2, <1>4 DEF FrameEntry, Kept, Policy!Kept, Classes, Policy!Classes
<1>6. PICK H \in Seq(Entry) :
        H = Append(seen[c], e) /\ NewWindow(c, r) = Policy!Recent(H, cfg.window_size)
  BY <1>1, <1>2, <1>4, NewWindowIsRecent
<1>7. PICK w : w = NewWindow(c, r)
  OBVIOUS
<1>8. PICK triggers : triggers = Triggers(c, w, cfg)
  OBVIOUS
<1>9. /\ Len(seen[c]) < MaxFrames
      /\ seen' = [seen EXCEPT ![c] = H]
      /\ \/ "fire" \in triggers /\ Emit(c, "fire", w, cfg)
         \/ triggers = {"smoke"} /\ Emit(c, "smoke", w, cfg)
         \/ triggers = {} /\ UNCHANGED <<last_events, alarms>>
      /\ UNCHANGED <<now, config>>
  BY <1>2, <1>4, <1>6, <1>7, <1>8 DEF Process, NewWindow, FrameEntry
<1>10. \A kind \in Kinds : Count(w, kind) = Policy!Count(w, kind)
  <2> TAKE kind \in Kinds
  <2>1. {i \in DOMAIN w : Votes(w[i], kind)}
          = {i \in DOMAIN w : Policy!Votes(w[i], kind)}
    BY DEF Votes, Policy!Votes
  <2>2. \A S : Cardinality(S) = Policy!Cardinality(S)
    BY DEF Cardinality, Policy!Cardinality
  <2> QED BY <2>1, <2>2 DEF Count, Policy!Count
<1>11. \A kind \in Kinds : Evidence(w, kind) = Policy!Evidence(w, kind)
  BY DEF Evidence, Policy!Evidence, NonEmpty, Policy!NonEmpty,
         Classes, Policy!Classes
<1>12. triggers = Policy!Due(c, H, cfg)
  <2>1. \A kind \in Kinds :
          CanFire(c, kind, cfg.cooldown) <=> Policy!Rested(c, kind, cfg.cooldown)
    BY <1>3, CanFireIsRested
  <2>2. w = Policy!Recent(H, cfg.window_size)
    BY <1>6, <1>7
  <2> QED BY <1>8, <1>10, <2>1, <2>2
          DEF Triggers, Policy!Due, HalfFull, Policy!HalfFull, Kinds, Policy!Kinds
<1>13. \A kind \in Kinds :
         Event(c, kind, w, cfg) = Policy!Alarm(c, kind, H, cfg)
  BY <1>6, <1>7, <1>10, <1>11 DEF Event, Policy!Alarm
<1>14. alarms' = IF triggers = {} THEN alarms
                 ELSE Append(alarms, Policy!Alarm(c, Policy!Chosen(triggers), H, cfg))
  <2>1. CASE "fire" \in triggers
    <3>1. alarms' = Append(alarms, Event(c, "fire", w, cfg))
      BY <1>9, <2>1 DEF Emit
    <3>2. Policy!Chosen(triggers) = "fire" /\ "fire" \in Kinds /\ triggers # {}
      BY <2>1 DEF Policy!Chosen, Kinds
    <3> QED BY <1>13, <3>1, <3>2
  <2>2. CASE triggers = {"smoke"}
    <3>1. alarms' = Append(alarms, Event(c, "smoke", w, cfg))
      BY <1>9, <2>2 DEF Emit
    <3>2. Policy!Chosen(triggers) = "smoke" /\ "smoke" \in Kinds /\ triggers # {}
      BY <2>2 DEF Policy!Chosen, Kinds
    <3> QED BY <1>13, <3>1, <3>2
  <2>3. CASE triggers = {}
    BY <1>9, <2>3
  <2> QED BY <1>9, <2>1, <2>2, <2>3
<1> QED BY <1>2, <1>5, <1>6, <1>9, <1>12, <1>14 DEF Policy!Observe

\* The engine raises exactly the alarms that the complete histories of frames
\* and alarms call for: its bounded window, its pruning and trimming, its fresh
\* window after a change of size and its map of last events lose nothing that
\* matters and keep nothing that does not.
THEOREM EngineFollowsPolicy == Spec => ImplementsPolicy
<1>1. Init => Policy!Init
  BY DEF Init, Policy!Init
<1>2. CooldownInv /\ HistoryInv /\ [Next]_vars => [Policy!Next]_(Policy!vars)
  <2> SUFFICES ASSUME CooldownInv, HistoryInv, [Next]_vars
               PROVE  [Policy!Next]_(Policy!vars)
    OBVIOUS
  <2>1. ASSUME NEW c \in Cameras, NEW r \in Results, Process(c, r)
        PROVE  Policy!Next
    BY <2>1, ProcessObserves DEF Policy!Next
  <2>2. ASSUME NEW c \in Cameras, NEW cfg \in Configs, Reconfigure(c, cfg)
        PROVE  Policy!Next
    BY <2>2 DEF Reconfigure, Policy!Reconfigure, Policy!Next
  <2>3. CASE Tick
    BY <2>3 DEF Tick, Policy!Tick, Policy!Next
  <2>4. CASE UNCHANGED vars
    BY <2>4 DEF vars, Policy!vars
  <2> QED BY <2>1, <2>2, <2>3, <2>4 DEF Next
<1> QED BY <1>1, <1>2, CooldownInvariant, HistoryInvariant, PTL
        DEF Spec, ImplementsPolicy, Policy!Spec
=============================================================================
