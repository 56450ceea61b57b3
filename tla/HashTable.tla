----------------------------- MODULE HashTable ------------------------------
(***************************************************************************)
(* hashset/hashset.c: the table of a hash set, open-addressing, and the    *)
(* functions on it.                                                        *)
(*                                                                         *)
(* A slot holds 0 (never used), 1 (removed) or an item.  A search for v    *)
(* starts at the slot v hashes to and goes on in steps of prime_2, which   *)
(* is odd and so meets every slot of the table once before it repeats.     *)
(***************************************************************************)
EXTENDS Integers, FiniteSets, FiniteSetsExt

prime_1 == 73
prime_2 == 5009

\* Mutation: a removed item leaves an unused slot.
ClearedSlot == 0

\* A slot whose item was removed.
Deleted == 1

Free == {0, 1}

Capacity(s) == 2^s.nbits

\* The slot that a search for v looks at in its k-th step.
Slot(s, v, k) == (prime_1 * v + prime_2 * k) % Capacity(s)

\* The steps at which a search for v finds one of the values in stops.
Stops(s, v, stops) ==
    {k \in 0..Capacity(s) - 1 : s.items[Slot(s, v, k)] \in stops}

\* A search that never finds one of them goes round for ever.
Endless(s, v, stops) == Stops(s, v, stops) = {}

Landing(s, v, stops) == Slot(s, v, Min(Stops(s, v, stops)))

hashset_create ==
    [nbits |-> 3, items |-> [i \in 0..7 |-> 0], nitems |-> 0]

\* Mutation: the item is not compared with the ones on the way.
AddUnseen(s, v) ==
    LET i == Landing(s, v, Free)
    IN IF v \in Free THEN s ELSE [s EXCEPT !.items[i] = v, !.nitems = @ + 1]

\* hashset_add_member: the table afterwards.
AddMember(s, v) ==
    LET i == Landing(s, v, Free \cup {v})
    IN IF v \in Free \/ s.items[i] = v
       THEN s
       ELSE [s EXCEPT !.items[i] = v, !.nitems = @ + 1]

\* hashset_add_member: the value returned.
AddResult(s, v) ==
    IF v \in Free THEN -1
    ELSE IF s.items[Landing(s, v, Free \cup {v})] = v THEN 0
    ELSE 1

\* (size_t)((double)set->capacity * 0.85)
Limit(s) == (85 * Capacity(s)) \div 100

\* All slots of the old table, one after the other, are added to one of twice the
\* size.
Rehashed(s) ==
    LET set[ii \in 0..Capacity(s)] ==
            IF ii = 0 THEN [nbits  |-> s.nbits + 1,
                            items  |-> [i \in 0..2 * Capacity(s) - 1 |-> 0],
                            nitems |-> 0]
            ELSE AddMember(set[ii - 1], s.items[ii - 1])
    IN set[Capacity(s)]

maybe_rehash(s) == IF s.nitems >= Limit(s) THEN Rehashed(s) ELSE s
=============================================================================
