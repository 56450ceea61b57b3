------------------------------ MODULE HashSet ------------------------------
(***************************************************************************)
(* hashset/hashset.c: a set of pointers as an open-addressing table.  The  *)
(* controller collects in one the tests that kill a higher-order mutant.   *)
(***************************************************************************)
EXTENDS HashTable

CONSTANTS
    AddInputs,      \* the arguments of hashset_add
    RemoveInputs,   \* the arguments of hashset_remove
    QueryInputs,    \* the arguments of hashset_is_member
    MaxBits         \* bound on nbits: larger tables are not explored

ASSUME InputsAssumption ==
    /\ AddInputs \subseteq Nat
    /\ RemoveInputs \subseteq Nat \ {0, 1}
    /\ QueryInputs \subseteq Nat \ {0, 1}
    /\ MaxBits \in Nat /\ MaxBits >= 3

VARIABLES
    set,        \* *hashset_t: nbits, items and nitems
    ret,        \* the last call: operation, argument and value returned
    removed     \* history: 1 once an item has been removed

vars == <<set, ret, removed>>

-----------------------------------------------------------------------------
Init ==
    /\ set = hashset_create
    /\ ret = [op |-> "create", arg |-> 0, rv |-> 0]
    /\ removed = 0

\* A call that does not return: no other follows.
Loops == 2

Returning == ret.rv # Loops

Returns(op, v, rv) == ret' = [op |-> op, arg |-> v, rv |-> rv]

hashset_add(v) ==
    /\ Returning
    /\ LET s == maybe_rehash(AddMember(set, v))
       IN s.nbits <= MaxBits /\ set' = s
    /\ Returns("add", v, AddResult(set, v))
    /\ UNCHANGED removed

hashset_remove(v) ==
    /\ Returning
    /\ IF Endless(set, v, {0, v})
       THEN UNCHANGED <<set, removed>> /\ Returns("remove", v, Loops)
       ELSE LET i == Landing(set, v, {0, v})
            IN IF set.items[i] = v
               THEN /\ set' = [set EXCEPT !.items[i] = Deleted, !.nitems = @ - 1]
                    /\ removed' = 1
                    /\ Returns("remove", v, 1)
               ELSE UNCHANGED <<set, removed>> /\ Returns("remove", v, 0)

hashset_is_member(v) ==
    /\ Returning
    /\ UNCHANGED <<set, removed>>
    /\ Returns("is_member", v,
               IF Endless(set, v, {0, v}) THEN Loops
               ELSE IF set.items[Landing(set, v, {0, v})] = v THEN 1 ELSE 0)

Next ==
    \/ \E v \in AddInputs : hashset_add(v)
    \/ \E v \in RemoveInputs : hashset_remove(v)
    \/ \E v \in QueryInputs : hashset_is_member(v)

Spec == Init /\ [][Next]_vars

-----------------------------------------------------------------------------
(* Properties *)

Items == {set.items[i] : i \in DOMAIN set.items} \ Free

\* The table has the size its number of bits says, and holds only arguments.
TypeOK ==
    /\ set.nbits \in 3..MaxBits
    /\ set.items \in [0..Capacity(set) - 1 -> Free \cup AddInputs]
    /\ set.nitems \in 0..Capacity(set)
    /\ ret.rv \in {-1, 0, 1, Loops}
    /\ removed \in 0..1

\* nitems counts the used slots, and stays below the limit at which the table
\* grows: hashset_add always finds a free slot.
LoadCounted ==
    /\ set.nitems = Cardinality({i \in DOMAIN set.items : set.items[i] \notin Free})
    /\ set.nitems < Limit(set)

\* Every item in the table is found by a search: removing an item leaves no gap
\* in the way to another, and neither does the move to a larger table
\* ("check that 0xf00d is still reachable", hashset/test.c).  The table stays
\* well formed, and the load that makes it grow is counted right.
ItemsReachable ==
    /\ TypeOK /\ LoadCounted
    /\ \A v \in Items : ~Endless(set, v, {0, v}) /\ set.items[Landing(set, v, {0, v})] = v

SetSpec == INSTANCE AbstractSet WITH members <- Items, num <- set.nitems

\* As long as nothing is removed, which the controller never does, the table is
\* a set: what each call returns and hashset_num_items are as hashset.h says.
\* Afterwards no call affects another item, and hashset_is_member is right.
ImplementsSet == SetSpec!Spec
=============================================================================
