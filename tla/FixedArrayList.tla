--------------------------- MODULE FixedArrayList ---------------------------
(***************************************************************************)
(* PUTs/03farraylist-master, as the build compiles it: neither             *)
(* HASHMAP_AVAILABLE nor HEAP_AVAILABLE is defined.  An array list whose   *)
(* items keep their index; a null slot is free.  A failed assertion ends   *)
(* the program ("aborted").                                                *)
(***************************************************************************)
EXTENDS Subject, Integers, FiniteSets

CONSTANTS
    ListCapacity,  \* argument of farraylist_new
    ListMaxIndex,  \* bound: greatest index a caller inserts at
    ListItems      \* items; positive

ASSUME ListAssumption ==
    ListCapacity \in Nat /\ ListMaxIndex \in Nat /\ ListItems \subseteq Nat \ {0}

farraylist_new ==
    [array |-> [i \in 0 .. ListCapacity - 1 |-> NULL], arraySize |-> ListCapacity,
     count |-> 0, aborted |-> FALSE]

Used(me) == {i \in DOMAIN me.array : me.array[i] # NULL}

NewSize(me, idx) == IF idx >= me.arraySize * 2 THEN idx + 1 ELSE me.arraySize * 2

\* enlarges the array for idx; the slots in use must be count
ensurecap(me, idx) ==
    IF me.count < me.arraySize /\ idx < me.arraySize THEN me
    ELSE [me EXCEPT !.array = [i \in 0 .. NewSize(me, idx) - 1 |->
                                  IF i < me.arraySize THEN @[i] ELSE NULL],
                    !.arraySize = NewSize(me, idx),
                    !.aborted = Cardinality(Used(me)) # me.count]

farraylist_insert(me, item, idx) ==
    LET e == ensurecap(me, idx) IN
    IF e.aborted THEN e
    ELSE [e EXCEPT !.array[idx] = item,
                   !.count = IF e.array[idx] = NULL THEN @ + 1 ELSE @]

probecheck(me, idx) == 0 <= idx /\ idx < me.arraySize

farraylist_get(me, idx) == IF probecheck(me, idx) THEN me.array[idx] ELSE NULL

farraylist_remove(me, idx) ==
    IF ~probecheck(me, idx) THEN me
    ELSE IF me.array[idx] = NULL THEN [me EXCEPT !.aborted = TRUE]
    ELSE [me EXCEPT !.array[idx] = NULL, !.count = @ - 1]

\* the index farraylist_add settles on: the first free slot, else count
FreeSlot(me) ==
    LET free == DOMAIN me.array \ Used(me)
    IN  IF free = {} THEN me.count ELSE CHOOSE i \in free : \A j \in free : i <= j

farraylist_add(me, item) ==
    LET idx == FreeSlot(me)
        e == IF Used(me) = DOMAIN me.array THEN ensurecap(me, idx) ELSE me
    IN  IF e.aborted THEN e
        ELSE IF e.array[idx] # NULL THEN [e EXCEPT !.aborted = TRUE]
        ELSE farraylist_insert(e, item, idx)

\* clears the slots below count, wherever the items are
farraylist_clear(me) ==
    [me EXCEPT !.array = [i \in DOMAIN @ |-> IF i < me.count THEN NULL ELSE @[i]],
               !.count = 0]

-----------------------------------------------------------------------------
\* abs.at: index -> item.  abs.stale: farraylist_clear left items behind.
ListInit ==
    /\ subject = "farraylist"
    /\ obj = farraylist_new
    /\ abs = [at |-> [i \in {} |-> NULL], stale |-> FALSE]

Put(at, idx, item) == [i \in DOMAIN at \union {idx} |-> IF i = idx THEN item ELSE at[i]]

ListInsert(item, idx) ==
    Becomes(farraylist_insert(obj, item, idx), [abs EXCEPT !.at = Put(@, idx, item)])

ListAdd(item) ==
    /\ FreeSlot(obj) <= ListMaxIndex
    /\ Becomes(farraylist_add(obj, item), [abs EXCEPT !.at = Put(@, FreeSlot(obj), item)])

\* callers remove at an index that is in use or outside the array
ListRemove(idx) ==
    /\ farraylist_get(obj, idx) # NULL \/ ~probecheck(obj, idx)
    /\ Becomes(farraylist_remove(obj, idx),
               [abs EXCEPT !.at = [i \in DOMAIN @ \ {idx} |-> @[i]]])

ListClear ==
    LET new == farraylist_clear(obj) IN
    Becomes(new, [at |-> [i \in {} |-> NULL], stale |-> abs.stale \/ Used(new) # {}])

ListNext ==
    /\ subject = "farraylist"
    /\ ~obj.aborted /\ ~abs.stale
    /\ \/ \E item \in ListItems : ListAdd(item)
       \/ \E item \in ListItems, idx \in 0 .. ListMaxIndex : ListInsert(item, idx)
       \/ \E idx \in 0 .. ListMaxIndex : ListRemove(idx)
       \/ ListClear

\* As long as farraylist_clear finds the items below count, every index holds
\* what was last put there and nothing else, count is their number, growth
\* keeps them all, and no assertion of the list fails.
ListKeepsItems ==
    subject = "farraylist" /\ ~abs.stale =>
        /\ ~obj.aborted
        /\ DOMAIN abs.at = Used(obj)
        /\ \A i \in DOMAIN abs.at : farraylist_get(obj, i) = abs.at[i]
        /\ obj.count = Cardinality(DOMAIN abs.at)
        /\ DOMAIN obj.array = 0 .. obj.arraySize - 1
=============================================================================
