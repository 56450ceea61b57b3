-------------------------- MODULE LinkedListHashmap --------------------------
(***************************************************************************)
(* PUTs/04CHashMapViaLinkedList: a map with a chain of nodes per slot of   *)
(* the array.  The first node of a chain lies in the array itself: when it *)
(* is removed the second one is copied over it and freed, which matters to *)
(* an iterator that points at that second node.                            *)
(* A chain is a sequence of entries; the hash of a key is the key.         *)
(***************************************************************************)
EXTENDS Subject, Integers, FiniteSets, SequencesExt

CONSTANTS
    LlmapCapacity,   \* initial_capacity of hashmap_new
    LlmapMaxSize,    \* bound on arraySize
    LlmapKeys,
    LlmapVals

hashmap_new(capacity) ==
    [arraySize |-> capacity, count |-> 0,
     array |-> [s \in 0 .. capacity - 1 |-> <<>>]]

doProbe(h, key) == key % h.arraySize

\* Places in its chain of the node that holds the key
Nodes(h, key) ==
    {j \in DOMAIN h.array[doProbe(h, key)] : h.array[doProbe(h, key)][j].key = key}

hashmap_get(h, key) ==
    IF h.count = 0 \/ Nodes(h, key) = {} THEN NULL
    ELSE h.array[doProbe(h, key)][CHOOSE j \in Nodes(h, key) : TRUE].val

hashmap_contains_key(h, key) == hashmap_get(h, key) # NULL

hashmap_clear(h) == hashmap_new(h.arraySize)

hashmap_remove(h, k) ==
    IF Nodes(h, k) = {} THEN h
    ELSE [h EXCEPT !.count = @ - 1,
                   !.array[doProbe(h, k)] = RemoveAt(@, CHOOSE j \in Nodes(h, k) : TRUE)]

\* Key of the node whose memory the removal of k frees: the node itself, or the
\* second of the chain when k is in the array; NULL when k is alone in its slot
Freed(h, k) ==
    LET chain == h.array[doProbe(h, k)]
    IN  IF Nodes(h, k) = {} THEN NULL
        ELSE IF chain[1].key # k THEN k
        ELSE IF Len(chain) > 1 THEN chain[2].key ELSE NULL

\* hashmap_put after the capacity is ensured: replace the value of an equal key,
\* or fill the array node, or add a node to the end of the chain
nodeassign(h, e) ==
    LET s == doProbe(h, e.key)
    IN  IF Nodes(h, e.key) # {}
        THEN [h EXCEPT !.array[s] = [j \in DOMAIN @ |-> IF @[j].key = e.key THEN e ELSE @[j]]]
        ELSE [h EXCEPT !.count = @ + 1, !.array[s] = Append(@, e)]

\* All nodes in the order of the array, each chain from its first node on
Entries(h) == FlattenSeq([i \in 1 .. h.arraySize |-> h.array[i - 1]])

\* The nodes are put again; the count is below a quarter of the new size then,
\* so that these puts never enlarge the array themselves
hashmap_increase_capacity(h, factor) ==
    FoldLeft(nodeassign, hashmap_new(h.arraySize * factor), Entries(h))

\* (float)h->count / h->arraySize < SPACERATIO
ll_ensurecapacity(h) ==
    IF 2 * h.count < h.arraySize THEN h ELSE hashmap_increase_capacity(h, 2)

hashmap_put(h, k, v) == nodeassign(ll_ensurecapacity(h), [key |-> k, val |-> v])

-----------------------------------------------------------------------------
(* The iterator.  cur_linked is the key of the node it points at; the map    *)
(* moves an entry out of that node only when it frees the node.             *)

hashmap_iterator == [cur |-> 0, cur_linked |-> NULL, ret |-> NULL]

\* First slot from cur on whose array node is in use, or arraySize
NextUsed(h, cur) ==
    CHOOSE s \in cur .. h.arraySize :
        /\ s = h.arraySize \/ h.array[s] # <<>>
        /\ \A t \in cur .. s - 1 : h.array[t] = <<>>

\* Key of the node after place j of a chain
After(chain, j) == IF j < Len(chain) THEN chain[j + 1].key ELSE NULL

\* Mutation: the second node of the chain is returned, and the chain left.
MutNoDanglingCheck(h, iter) ==
    LET chain == h.array[iter.cur]
    IN  [iter EXCEPT !.cur = @ + 1, !.cur_linked = NULL, !.ret = After(chain, 1)]

\* hashmap_iterator_next when cur_linked is set
NextLinked(h, iter) ==
    LET chain == h.array[iter.cur]
        j     == CHOOSE i \in DOMAIN chain : chain[i].key = iter.cur_linked
    IN  IF Len(chain) = 1    \* the node is now on the array
        THEN [iter EXCEPT !.cur = @ + 1, !.cur_linked = NULL, !.ret = chain[1].key]
        ELSE [cur        |-> IF After(chain, j) = NULL THEN iter.cur + 1 ELSE iter.cur,
              cur_linked |-> After(chain, j),
              ret        |-> iter.cur_linked]

\* hashmap_iterator_next when it is not
NextOnArray(h, iter) ==
    LET s == NextUsed(h, iter.cur)
    IN  IF s = h.arraySize
        THEN [iter EXCEPT !.cur = s, !.ret = NULL]
        ELSE [cur        |-> IF Len(h.array[s]) > 1 THEN s ELSE s + 1,
              cur_linked |-> After(h.array[s], 1),
              ret        |-> h.array[s][1].key]

hashmap_iterator_next(h, iter) ==
    IF iter.cur_linked # NULL THEN NextLinked(h, iter) ELSE NextOnArray(h, iter)

\* hashmap_iterator_peek
hashmap_iterator_peek(h, iter) ==
    IF iter.cur_linked # NULL THEN iter.cur_linked
    ELSE LET s == NextUsed(h, iter.cur)
         IN  IF s = h.arraySize THEN NULL ELSE h.array[s][1].key

\* The removal of k frees the node the iterator points at, or takes away the entry
\* that was in it, except when that entry is left alone in the array: the next call
\* of hashmap_iterator_next follows a dangling pointer, returns an item again, or
\* ends the iteration early.
Dangles(h, iter, k) ==
    /\ iter.cur_linked # NULL
    /\ \/ k = iter.cur_linked
       \/ Freed(h, k) = iter.cur_linked /\ Len(h.array[iter.cur]) > 2

-----------------------------------------------------------------------------
(* Calls.  abs.map is the map; an iteration in progress has abs.todo, the    *)
(* keys that were there when it began and were neither returned nor removed, *)
(* and abs.twice, whether it returned a key it should not.                  *)

WithoutKey(map, k) == [j \in DOMAIN map \ {k} |-> map[j]]

WithKey(map, k, v) == [j \in DOMAIN map \union {k} |-> IF j = k THEN v ELSE map[j]]

NoIteration == [on |-> FALSE, todo |-> {}, twice |-> FALSE]

LlmapInit ==
    /\ subject = "llmap"
    /\ obj = [map |-> hashmap_new(LlmapCapacity), iter |-> hashmap_iterator]
    /\ abs = [map |-> <<>>, it |-> NoIteration]

LlmapPut ==
    \E k \in LlmapKeys, v \in LlmapVals :
        LET h == hashmap_put(obj.map, k, v)
        IN  /\ h.arraySize <= LlmapMaxSize
            /\ Becomes([map |-> h, iter |-> hashmap_iterator],
                       [map |-> WithKey(abs.map, k, v), it |-> NoIteration])

LlmapRemove ==
    \E k \in LlmapKeys :
        LET lost == abs.it.on /\ Dangles(obj.map, obj.iter, k)
        IN  Becomes([map  |-> hashmap_remove(obj.map, k),
                     iter |-> IF lost THEN hashmap_iterator ELSE obj.iter],
                    [map |-> WithoutKey(abs.map, k),
                     it  |-> IF lost THEN NoIteration
                             ELSE [abs.it EXCEPT !.todo = @ \ {k}]])

LlmapClear ==
    Becomes([map |-> hashmap_clear(obj.map), iter |-> hashmap_iterator],
            [map |-> <<>>, it |-> NoIteration])

LlmapIterate ==
    /\ ~abs.it.on
    /\ Becomes([obj EXCEPT !.iter = hashmap_iterator],
               [abs EXCEPT !.it = [NoIteration EXCEPT !.on = TRUE, !.todo = DOMAIN abs.map]])

LlmapIterNext ==
    /\ abs.it.on
    /\ LET it == hashmap_iterator_next(obj.map, obj.iter)
       IN  Becomes([obj EXCEPT !.iter = it],
                   [abs EXCEPT !.it =
                       IF it.ret = NULL
                       THEN [NoIteration EXCEPT !.todo = abs.it.todo]
                       ELSE [abs.it EXCEPT !.todo = @ \ {it.ret},
                                           !.twice = it.ret \notin abs.it.todo]])

LlmapNext ==
    /\ subject = "llmap"
    /\ LlmapPut \/ LlmapRemove \/ LlmapClear \/ LlmapIterate \/ LlmapIterNext

-----------------------------------------------------------------------------
\* Through collisions, growth and removal from the head, the middle and the end
\* of a chain, hashmap_get finds exactly the keys put and not removed, with their
\* last value, and hashmap_count counts them.
LlmapExact ==
    subject = "llmap" =>
        /\ \A k \in LlmapKeys :
              /\ hashmap_get(obj.map, k) = IF k \in DOMAIN abs.map THEN abs.map[k] ELSE NULL
              /\ hashmap_contains_key(obj.map, k) <=> k \in DOMAIN abs.map
        /\ obj.map.count = Cardinality(DOMAIN abs.map)
        /\ Len(Entries(obj.map)) = obj.map.count

\* "It is safe to remove items while iterating" (linked_list_hashmap.h), as far as
\* it goes: unless a removal makes the pointer of the iterator dangle, an iteration
\* returns no item twice, none that was removed, and when it ends it has returned
\* all others; hashmap_iterator_peek tells what comes next.  (Of a node that was
\* freed because its entry moved to the array, only hashmap_iterator_next is safe.)
LlmapIteratesOnce ==
    subject = "llmap" =>
        /\ ~abs.it.twice
        /\ ~abs.it.on => abs.it.todo = {}
        /\ abs.it.on => hashmap_iterator_peek(obj.map, obj.iter)
                           = hashmap_iterator_next(obj.map, obj.iter).ret
=============================================================================
