------------------------------ MODULE Sampling ------------------------------
(***************************************************************************)
(* What a camera does with the times at which its frames arrive: which of  *)
(* them are sampled (FrameSampler in camera/sampler.rs), and the rate that *)
(* is reported (FpsTracker in camera/status.rs).  Times are sequences of   *)
(* ticks that never decrease.                                              *)
(***************************************************************************)
EXTENDS Integers, Sequences, FiniteSets, SequencesExt

CONSTANTS Second,     \* ticks in a second
          Period      \* FpsTracker::window, 5 s

\* min_interval; a rate of 0 counts as 1.
MinInterval(fps) == Second \div (IF fps = 0 THEN 1 ELSE fps)

\* FrameSampler::last_frame after every frame: the position of the one that was
\* sampled last, 0 for None.
LastFrame(times, fps) ==
    LET last[i \in 0..Len(times)] ==
            IF i = 0 THEN 0
            ELSE IF \/ last[i - 1] = 0
                    \/ times[i] - times[last[i - 1]] >= MinInterval(fps)
                 THEN i ELSE last[i - 1]
    IN  last

\* Mutant of Sample: the last frame is the last received, not the last sampled.
SampleEvery(times, fps) ==
    {i \in DOMAIN times : i = 1 \/ times[i] - times[i - 1] >= MinInterval(fps)}

\* should_sample: the positions of the frames that are sampled.
Sample(times, fps) == {i \in DOMAIN times : LastFrame(times, fps)[i] = i}

\* Mutant of Recorded: the deque is kept at the length it was allocated with.
RecordedAtMost(times) == IF Len(times) <= 3 THEN times ELSE SubSeq(times, Len(times) - 2, Len(times))

\* The positions of a deque that are younger than the period, and the first.
Young(deque, now) == {i \in DOMAIN deque : deque[i] > now - Period}
FirstOf(positions) == CHOOSE i \in positions : \A j \in positions : i <= j

\* Entries of an earlier period are popped at the front.
Pruned(deque, now) ==
    LET young == Young(deque, now)
    IN  IF young = {} THEN <<>> ELSE SubSeq(deque, FirstOf(young), Len(deque))

\* record_frame, for each of the times.
Recorded(times) ==
    LET deque[i \in 0..Len(times)] ==
            IF i = 0 THEN <<>>
            ELSE Append(Pruned(deque[i - 1], times[i]), times[i])
    IN  deque[Len(times)]

\* calculate_fps at time now: frames and ticks of the rate; NoRate for 0.
NoRate == [frames |-> 0, ticks |-> 1]
Rate(deque, now) ==
    LET young == Young(deque, now)
        first == deque[FirstOf(young)]
        last == deque[Len(deque)]
    IN  IF Len(deque) < 2 \/ young = {} \/ last <= first THEN NoRate
        ELSE [frames |-> Cardinality(young) - 1, ticks |-> last - first]
=============================================================================
