-------------------------- MODULE QuadraticHashmap --------------------------
(***************************************************************************)
(* PUTs/07quadratic-probing-hashmap: a map as one array; a key that        *)
(* collides moves on by growing distances, and a removed key leaves a      *)
(* tombstone.  The hash of a key is the key.                               *)
(*                                                                         *)
(* A put that reuses a tombstone does not count the entry, and does not    *)
(* look for the same key further along.  From then on the map is not       *)
(* exact: hashmapq_get answers NULL once the count is zero, a key may be   *)
(* there twice, and hashmapq_clear fails its own assertion.                *)
(***************************************************************************)
EXTENDS Subject, Integers, FiniteSets, SequencesExt

CONSTANTS
    QmapCapacity,   \* initial_capacity of hashmapq_new
    QmapMaxSize,    \* bound on size
    QmapMaxDeficit, \* bound on how far count falls below zero, which is without end
    QmapKeys,
    QmapVals

Tombstone == -1

Empty == [key |-> NULL, val |-> NULL]

hashmapq_new(capacity) ==
    [size |-> capacity, count |-> 0, slots_used |-> 0,
     array |-> [s \in 0 .. capacity - 1 |-> Empty]]

\* The slot that a search for k looks at in its i-th step
QSlot(h, k, i) == (k + i \div 2 + (i * i) \div 2) % h.size

\* Steps at which the search finds one of the keys in stops.  The slots repeat
\* after 2 * size steps
QStops(h, k, stops) == {i \in 0 .. 2 * h.size - 1 : h.array[QSlot(h, k, i)].key \in stops}

QLanding(h, k, stops) ==
    LET S == QStops(h, k, stops)
    IN  QSlot(h, k, CHOOSE i \in S : \A j \in S : i <= j)

hashmapq_get(h, key) ==
    IF h.count = 0 THEN NULL
    ELSE LET n == h.array[QLanding(h, key, {NULL, key})]
         IN  IF n.key = key THEN n.val ELSE NULL

hashmapq_contains_key(h, key) == hashmapq_get(h, key) # NULL

\* Mutation: a removed slot becomes unused.
MutNoTombstone(h, k) ==
    LET s == QLanding(h, k, {NULL, k})
    IN  IF h.array[s].key = NULL THEN h
        ELSE [h EXCEPT !.array[s] = Empty, !.count = @ - 1]

\* (the value of a tombstone is never read)
hashmapq_remove(h, k) ==
    LET s == QLanding(h, k, {NULL, k})
    IN  IF h.array[s].key = NULL THEN h
        ELSE [h EXCEPT !.array[s] = [key |-> Tombstone, val |-> NULL], !.count = @ - 1]

LiveSlots(h) == {s \in DOMAIN h.array : h.array[s].key \notin {NULL, Tombstone}}

\* Both assertions of hashmapq_clear hold
ClearAsserts(h) == h.count = Cardinality(LiveSlots(h))

\* slots_used is not reset
hashmapq_clear(h) == [h EXCEPT !.array = [s \in DOMAIN @ |-> Empty], !.count = 0]

\* The probing of hashmapq_put, after the capacity is ensured
Probe(h, e) ==
    LET s    == QLanding(h, e.key, {NULL, Tombstone, e.key})
        new  == IF h.array[s].key = NULL THEN 1 ELSE 0
    IN  [h EXCEPT !.array[s] = e, !.count = @ + new, !.slots_used = @ + new]

\* The entries are put again, in the order of the array; at most half of the old
\* slots were used, so that these puts never enlarge the array themselves
hashmapq_increase_capacity(h) ==
    LET cells == [i \in 1 .. h.size |-> h.array[i - 1]]
    IN  FoldLeft(Probe, hashmapq_new(2 * h.size),
                 SelectSeq(cells, LAMBDA e : e.key \notin {NULL, Tombstone}))

\* (float)h->slots_used / h->size < SPACERATIO
q_ensurecapacity(h) ==
    IF 2 * h.slots_used < h.size THEN h ELSE hashmapq_increase_capacity(h)

hashmapq_put(h, k, v) == Probe(q_ensurecapacity(h), [key |-> k, val |-> v])

\* hashmapq_put of k takes the place of a tombstone
Reuses(h, k) ==
    LET g == q_ensurecapacity(h)
    IN  g.array[QLanding(g, k, {NULL, Tombstone, k})].key = Tombstone

\* hashmapq_iterator_next: cur afterwards, and the key returned
NextLive(h, cur) ==
    CHOOSE s \in cur .. h.size :
        /\ s = h.size \/ s \in LiveSlots(h)
        /\ \A t \in cur .. s - 1 : t \notin LiveSlots(h)

hashmapq_iterator_next(h, cur) ==
    LET s == NextLive(h, cur)
    IN  IF s = h.size THEN [cur |-> s, ret |-> NULL]
        ELSE [cur |-> s + 1, ret |-> h.array[s].key]

\* hashmapq_iterator_peek
hashmapq_iterator_peek(h, cur) ==
    LET s == NextLive(h, cur) IN IF s = h.size THEN NULL ELSE h.array[s].key

-----------------------------------------------------------------------------
(* Calls.  cur is -1 when no iteration is in progress.                       *)

QmapInit ==
    /\ subject = "qmap"
    /\ obj = [map |-> hashmapq_new(QmapCapacity), cur |-> -1]
    /\ abs = [map |-> <<>>, todo |-> {}, twice |-> FALSE, reused |-> FALSE]

QmapPut ==
    \E k \in QmapKeys, v \in QmapVals :
        LET h == hashmapq_put(obj.map, k, v)
        IN  /\ h.size <= QmapMaxSize
            /\ Becomes([map |-> h, cur |-> -1],
                       [map    |-> [j \in DOMAIN abs.map \union {k} |->
                                       IF j = k THEN v ELSE abs.map[j]],
                        todo   |-> {}, twice |-> FALSE,
                        reused |-> abs.reused \/ Reuses(obj.map, k)])

QmapRemove ==
    \E k \in QmapKeys :
        LET h == hashmapq_remove(obj.map, k)
        IN  /\ -h.count <= QmapMaxDeficit
            /\ Becomes([obj EXCEPT !.map = h],
                       [abs EXCEPT !.map = [j \in DOMAIN @ \ {k} |-> @[j]], !.todo = @ \ {k}])

QmapClear ==
    /\ ClearAsserts(obj.map)
    /\ Becomes([map |-> hashmapq_clear(obj.map), cur |-> -1],
               [map |-> <<>>, todo |-> {}, twice |-> FALSE, reused |-> FALSE])

QmapIterate ==
    /\ obj.cur = -1
    /\ Becomes([obj EXCEPT !.cur = 0], [abs EXCEPT !.todo = DOMAIN abs.map])

QmapIterNext ==
    /\ obj.cur # -1
    /\ LET it == hashmapq_iterator_next(obj.map, obj.cur)
       IN  IF it.ret = NULL
           THEN Becomes([obj EXCEPT !.cur = -1], abs)
           ELSE Becomes([obj EXCEPT !.cur = it.cur],
                        [abs EXCEPT !.todo = @ \ {it.ret},
                                    !.twice = it.ret \notin abs.todo])

QmapNext ==
    /\ subject = "qmap"
    /\ QmapPut \/ QmapRemove \/ QmapClear \/ QmapIterate \/ QmapIterNext

-----------------------------------------------------------------------------
\* Until a put reuses a tombstone, hashmapq_get finds exactly the keys put and not
\* removed, also those beyond a tombstone and after growth, hashmapq_count counts
\* them, and the assertions of hashmapq_clear hold.
QmapExact ==
    (subject = "qmap" /\ ~abs.reused) =>
        /\ \A k \in QmapKeys :
              /\ hashmapq_get(obj.map, k) = IF k \in DOMAIN abs.map THEN abs.map[k] ELSE NULL
              /\ hashmapq_contains_key(obj.map, k) <=> k \in DOMAIN abs.map
        /\ obj.map.count = Cardinality(DOMAIN abs.map)
        /\ ClearAsserts(obj.map)

\* "this guarantees we will be able to escape this loop" (hashmapq_put): the search
\* for any key meets an unused slot, whatever tombstones, duplicates and clears there
\* were, so that get, remove and put all return.
QmapProbesEnd ==
    subject = "qmap" => \A k \in QmapKeys : QStops(obj.map, k, {NULL}) # {}

\* "It is safe to remove items while iterating": an iteration, with any removals in
\* between, returns each item that is not removed exactly once; with a key stored
\* twice it may return that key again.
QmapIteratesOnce ==
    (subject = "qmap" /\ ~abs.reused) =>
        /\ ~abs.twice
        /\ obj.cur = -1 => abs.todo = {}
        /\ obj.cur # -1 => hashmapq_iterator_peek(obj.map, obj.cur)
                              = hashmapq_iterator_next(obj.map, obj.cur).ret
=============================================================================
