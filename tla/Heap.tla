-------------------------------- MODULE Heap --------------------------------
(***************************************************************************)
(* PUTs/12heap-master: a binary heap in an array, the greatest item first. *)
(* The user's cmp is subtraction and treats a null item as the smallest.   *)
(***************************************************************************)
EXTENDS Subject, Integers, FiniteSets, Bags

CONSTANTS
    HeapCapacity,   \* DEFAULT_CAPACITY
    HeapMaxSize,    \* bound: size the array may double to
    HeapItems       \* items; positive

child_left(idx) == idx * 2 + 1
child_right(idx) == idx * 2 + 2
parent(idx) == (idx - 1) \div 2

\* array[i] for i >= size is memory the heap does not own
heap_new == [size |-> HeapCapacity, count |-> 0, array |-> [i \in 0 .. HeapMaxSize - 1 |-> NULL]]

ensurecapacity(h) == IF h.count < h.size THEN h ELSE [h EXCEPT !.size = @ * 2]

swap(h, i, j) == [h EXCEPT !.array[i] = h.array[j], !.array[j] = h.array[i]]

RECURSIVE pushup(_, _)
pushup(h, idx) ==
    IF idx = 0 \/ h.array[idx] < h.array[parent(idx)] THEN h
    ELSE pushup(swap(h, idx, parent(idx)), parent(idx))

\* the biggest child, when idx has one
Child(h, idx) ==
    IF child_right(idx) < h.count /\ h.array[child_left(idx)] < h.array[child_right(idx)]
    THEN child_right(idx) ELSE child_left(idx)

RECURSIVE pushdown(_, _)
pushdown(h, idx) ==
    IF child_left(idx) >= h.count \/ h.array[idx] >= h.array[Child(h, idx)] THEN h
    ELSE pushdown(swap(h, idx, Child(h, idx)), Child(h, idx))

heap_offerx_unchecked(h, item) ==
    LET put == [h EXCEPT !.array[h.count] = item, !.count = @ + 1]
    IN  pushup(put, h.count)

heap_offerx(h, item) == IF h.count = h.size THEN h ELSE heap_offerx_unchecked(h, item)

heap_offer(h, item) == heap_offerx_unchecked(ensurecapacity(h), item)

heap_poll(h) ==
    LET cut == [h EXCEPT !.array[0] = h.array[h.count - 1], !.count = @ - 1] IN
    IF h.count = 0 THEN h
    ELSE IF cut.count > 1 THEN pushdown(cut, 0) ELSE cut

heap_peek(h) == IF h.count = 0 THEN NULL ELSE h.array[0]

heap_clear(h) == [h EXCEPT !.count = 0]

item_get_idx(h, item) ==
    LET at == {i \in 0 .. h.count - 1 : h.array[i] = item}
    IN  IF at = {} THEN -1 ELSE CHOOSE i \in at : \A j \in at : i <= j

heap_remove_item(h, item) ==
    LET idx == item_get_idx(h, item)
        last == h.array[h.count - 1]
        cut == [h EXCEPT !.array = [[@ EXCEPT ![idx] = last] EXCEPT ![h.count - 1] = NULL],
                         !.count = @ - 1]
    IN  IF idx = -1 THEN h ELSE pushup(cut, idx)

heap_contains_item(h, item) == item_get_idx(h, item) # -1

-----------------------------------------------------------------------------
\* abs.bag: the items in the heap.  abs.removed: heap_remove_item took an item
\* out; it repairs the order upwards only.
HeapInit == subject = "heap" /\ obj = heap_new /\ abs = [bag |-> EmptyBag, removed |-> FALSE]

With(item) == [abs EXCEPT !.bag = @ (+) SetToBag({item})]
Less(item) == [abs EXCEPT !.bag = @ (-) SetToBag({item})]

HeapOffer(item) ==
    /\ obj.count < obj.size \/ obj.size * 2 <= HeapMaxSize
    /\ Becomes(heap_offer(obj, item), With(item))

HeapOfferx(item) ==
    Becomes(heap_offerx(obj, item), IF obj.count = obj.size THEN abs ELSE With(item))

HeapPoll == Becomes(heap_poll(obj), Less(heap_peek(obj)))

HeapClear == Becomes(heap_clear(obj), [abs EXCEPT !.bag = EmptyBag])

HeapRemove(item) ==
    /\ heap_contains_item(obj, item)
    /\ Becomes(heap_remove_item(obj, item), [Less(item) EXCEPT !.removed = TRUE])

HeapNext ==
    /\ subject = "heap"
    /\ \/ HeapPoll
       \/ HeapClear
       \/ \E i \in HeapItems : HeapOffer(i) \/ HeapOfferx(i) \/ HeapRemove(i)

\* Whatever the order of offers, polls, clears and removals, the first count
\* slots hold exactly the items put in and not taken out, each as often as it
\* was put in: no swap, growth or removal drops or repeats an item.
HeapKeepsItems ==
    subject = "heap" =>
        /\ obj.count <= obj.size
        /\ \A i \in HeapItems :
              Cardinality({k \in 0 .. obj.count - 1 : obj.array[k] = i}) = CopiesIn(i, abs.bag)
        /\ obj.count = BagCardinality(abs.bag)

\* Until heap_remove_item is used, no item is greater than its parent, so that
\* heap_peek and heap_poll give a greatest item.
HeapOrdered ==
    subject = "heap" /\ ~abs.removed =>
        \A k \in 1 .. obj.count - 1 : obj.array[k] <= obj.array[parent(k)]
=============================================================================
