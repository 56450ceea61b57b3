-------------------------- MODULE HashSetIterator ---------------------------
(***************************************************************************)
(* hashset/hashset_itr.c: an iterator over the slots of a hash set, made   *)
(* before or after items are added.                                        *)
(***************************************************************************)
EXTENDS Subject, HashTable

CONSTANT ItrItems     \* items that are added and removed

\* hashset_iterator_has_next: 0, 1, or no answer.  The loop that is to find an
\* item in the slots from index on does not advance: at an empty slot it stays.
Hangs == 2

hashset_iterator_has_next(s, index) ==
    IF s.nitems = 0 \/ index >= Capacity(s) - 1 THEN 0
    ELSE IF s.items[index] # 0 THEN 1
    ELSE Hangs

\* Mutation: the items are passed over with them.
MutStopsAtRemoved(s, index) ==
    LET next == {k \in index + 1 .. Capacity(s) - 1 : s.items[k] = 1} IN
    IF next = {} THEN Capacity(s) ELSE CHOOSE k \in next : \A l \in next : k <= l

\* The slot that hashset_iterator_next moves on to; the capacity if there is none
Advanced(s, index) ==
    LET next == {k \in index + 1 .. Capacity(s) - 1 : s.items[k] # 0} IN
    IF next = {} THEN Capacity(s) ELSE CHOOSE k \in next : \A l \in next : k <= l

\* hashset_iterator_next
Nexted(o) ==
    CASE hashset_iterator_has_next(o.set, o.index) = 0 -> o
      [] hashset_iterator_has_next(o.set, o.index) = 1 ->
             [o EXCEPT !.index = Advanced(o.set, o.index)]
      [] OTHER -> [o EXCEPT !.hangs = TRUE]

-----------------------------------------------------------------------------
\* obj.index: -1 until there is an iterator.  abs: slots that were in use when
\* it was made, slots it has stood on, and whether it has advanced.
ItrInit ==
    /\ subject = "iterator"
    /\ obj = [set |-> hashset_create, index |-> -1, hangs |-> FALSE]
    /\ abs = [since |-> {}, stood |-> {}, moved |-> FALSE]

StandsOn(o) ==
    Becomes(o, [since |-> IF obj.index >= 0 THEN abs.since
                          ELSE {k \in 0 .. Capacity(o.set) - 1 : o.set.items[k] # 0},
                stood |-> IF o.hangs THEN abs.stood ELSE abs.stood \cup {o.index},
                moved |-> abs.moved \/ o.index > 0])

\* Sets that grow are left to HashSet: here the table keeps its eight slots.
ItrAdd(v) ==
    /\ obj.set.nitems + 1 < Limit(obj.set)
    /\ Becomes([obj EXCEPT !.set = AddMember(@, v)], abs)

ItrRemove(v) ==
    /\ \E k \in 0 .. Capacity(obj.set) - 1 :
          /\ obj.set.items[k] = v
          /\ Becomes([obj EXCEPT !.set.items[k] = Deleted, !.set.nitems = @ - 1], abs)

hashset_iterator ==
    /\ obj.index = -1
    /\ LET o == [obj EXCEPT !.index = 0]
       IN StandsOn(IF obj.set.nitems > 0 THEN Nexted(o) ELSE o)

hashset_iterator_next ==
    /\ obj.index >= 0
    /\ StandsOn(Nexted(obj))

\* At the end of the slots the value is read from behind the table.
hashset_iterator_value ==
    /\ obj.index \in 0 .. Capacity(obj.set) - 1
    /\ StandsOn(IF obj.set.items[obj.index] = 0 THEN Nexted(obj) ELSE obj)

ItrNext ==
    /\ subject = "iterator"
    /\ ~obj.hangs
    /\ \/ \E v \in ItrItems : ItrAdd(v) \/ ItrRemove(v)
       \/ hashset_iterator
       \/ hashset_iterator_next
       \/ hashset_iterator_value

-----------------------------------------------------------------------------
\* An iterator stands on each slot that was in use when it was made, except
\* slot 0, which it passes over.  (It stands on the slots of removed items as well.)
\* Once advanced it never hangs: it stands on a slot in use or behind the last, and
\* removed items keep their slots in use.  One that stands on slot 0 hangs in the
\* first call if that slot is empty and the set is not.
ItrVisits ==
    subject = "iterator" =>
        /\ abs.since \cap (1 .. obj.index - 1) \subseteq abs.stood
        /\ abs.moved => ~obj.hangs
        /\ obj.hangs => obj.index = 0 /\ obj.set.items[0] = 0
=============================================================================
