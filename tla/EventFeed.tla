----------------------------- MODULE EventFeed -----------------------------
(***************************************************************************)
(* What the delivery of events promises: the events the detector raises    *)
(* are stored in the order in which they were raised, every browser is     *)
(* shown stored events in that order and none twice, and the Telegram      *)
(* group hears of fire and smoke only, in that order, none twice, and of   *)
(* nothing that was not shown.  It does not promise that none is missing.  *)
(***************************************************************************)
EXTENDS Naturals, Sequences, SequencesExt

CONSTANTS Clients

VARIABLES published,  \* the events, in the order in which they were raised
          stored,     \* numbers of the events that were ever in the table
          shown,      \* numbers of the events that were broadcast
          got,        \* by client, the numbers of those it was sent
          alerted     \* numbers of the events sent to Telegram

feed == <<published, stored, shown, got, alerted>>

After(e, seq) == seq = <<>> \/ Last(seq) < e

Alarm(e) == published[e].kind \in {"fire", "smoke"}

Init ==
    /\ published = <<>> /\ stored = <<>> /\ shown = <<>> /\ alerted = <<>>
    /\ got = [c \in Clients |-> <<>>]

Publish ==
    /\ Len(published') = Len(published) + 1 /\ IsPrefix(published, published')
    /\ UNCHANGED <<stored, shown, got, alerted>>

Store ==
    \E e \in DOMAIN published :
        /\ After(e, stored)
        /\ stored' = Append(stored, e)
        /\ UNCHANGED <<published, shown, got, alerted>>

Show ==
    \E e \in ToSet(stored) :
        /\ After(e, shown)
        /\ shown' = Append(shown, e)
        /\ UNCHANGED <<published, stored, got, alerted>>

Receive(c) ==
    \E e \in ToSet(shown) :
        /\ After(e, got[c])
        /\ got' = [got EXCEPT ![c] = Append(@, e)]
        /\ UNCHANGED <<published, stored, shown, alerted>>

Alert ==
    \E e \in ToSet(shown) :
        /\ Alarm(e) /\ After(e, alerted)
        /\ alerted' = Append(alerted, e)
        /\ UNCHANGED <<published, stored, shown, got>>

Next == Publish \/ Store \/ Show \/ Alert \/ \E c \in Clients : Receive(c)

Spec == Init /\ [][Next]_feed
=============================================================================
