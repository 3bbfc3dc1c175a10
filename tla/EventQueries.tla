---------------------------- MODULE EventQueries ----------------------------
(***************************************************************************)
(* The queries of the table events (db.rs) behind the page that lists      *)
(* events (routes/events.rs, EventsPage.tsx): filter, order, pages, count, *)
(* statistics.  An event is a record of id, kind, camera, time and         *)
(* acknowledged.  A store is the events and an order of their ids: times   *)
(* are whole milliseconds, and those of one time come as the database      *)
(* pleases, which may be another way for every query.                      *)
(***************************************************************************)
EXTENDS Integers, Sequences, Ranking

CONSTANT Unset    \* a field of a filter that is not given

Fields == {"kind", "camera", "acknowledged"}
NoFilter == [kind |-> Unset, camera |-> Unset, acknowledged |-> Unset, start |-> Unset, end |-> Unset]

InPeriod(e, start, end) ==
    /\ start # Unset => e.time >= start
    /\ end # Unset => e.time <= end

\* The WHERE clause, which list_events and count_events build the same way.
Matches(e, filter) ==
    /\ \A f \in Fields : filter[f] # Unset => e[f] = filter[f]
    /\ InPeriod(e, filter.start, filter.end)

\* The identifiers are the table's primary key.
IsStore(store) ==
    /\ IsFiniteSet(store.events)
    /\ \A e \in store.events : e.time \in Int /\ store.order[e.id] \in Int
    /\ \A e, f \in store.events : store.order[e.id] = store.order[f.id] => e = f

\* ORDER BY timestamp DESC, and nothing after it.
Before(events, order) ==
    {p \in events \X events :
        \/ p[1].time > p[2].time
        \/ p[1].time = p[2].time /\ order[p[1].id] < order[p[2].id]}

Matching(store, filter) == {e \in store.events : Matches(e, filter)}

Listing(store, filter) ==
    Ranked(Matching(store, filter), Before(Matching(store, filter), store.order))

MaxLimit == 10000
SafeLimit(limit) == IF limit < 1 THEN 1 ELSE IF limit > MaxLimit THEN MaxLimit ELSE limit
SafeOffset(offset) == IF offset < 0 THEN 0 ELSE offset

\* Mutant of Page: the offset is the position of the first event shown.
PageOffByOne(store, filter, limit, offset) ==
    LET all == Listing(store, filter)
        first == SafeOffset(offset) + (IF offset > 0 THEN 2 ELSE 1)
        last == first + SafeLimit(limit) - 1
    IN  SubSeq(all, first, IF last <= Len(all) THEN last ELSE Len(all))

\* list_events.
Page(store, filter, limit, offset) ==
    LET all == Listing(store, filter)
        first == SafeOffset(offset) + 1
        last == first + SafeLimit(limit) - 1
    IN  SubSeq(all, first, IF last <= Len(all) THEN last ELSE Len(all))

CountOf(store, filter) == Cardinality(Matching(store, filter))

\* event_stats.
Stats(store, start, end) ==
    LET in == {e \in store.events : InPeriod(e, start, end)}
        acknowledged == Cardinality({e \in in : e.acknowledged})
    IN  [total |-> Cardinality(in), acknowledged |-> acknowledged,
         fire |-> Cardinality({e \in in : e.kind = "fire"}),
         smoke |-> Cardinality({e \in in : e.kind = "smoke"}),
         pending |-> Cardinality(in) - acknowledged]

\* The store when page k is read, of a history of stores whose last one stays.
At(history, k) == history[IF k <= Len(history) THEN k ELSE Len(history)]

\* The first page from which the reader cannot turn further: the total that came
\* with it says that there is no more.
LastPage(history, filter, size) ==
    LET IsLast(k) == k * size >= CountOf(At(history, k), filter)
        final == Len(history) + Cardinality(history[Len(history)].events)
    IN  CHOOSE k \in 1..final : IsLast(k) /\ \A j \in 1..k - 1 : ~IsLast(j)

\* A reader turns page after page until the last: what it has seen then.
Walk(history, filter, size) ==
    LET last == LastPage(history, filter, size)
        seen[k \in 0..last] ==
            IF k = 0 THEN <<>>
            ELSE seen[k - 1] \o Page(At(history, k), filter, size, (k - 1) * size)
    IN  seen[last]
=============================================================================
