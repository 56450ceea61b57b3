---------------------------- MODULE AbstractSet ----------------------------
(***************************************************************************)
(* What a user of the hash set can rely on.  Until an item is removed, it  *)
(* is the set hashset.h describes: each call returns whether it changed,   *)
(* or found, the item, and items are counted.  After that, membership is   *)
(* still answered exactly and no other item is affected, but an item may   *)
(* be added or counted several times, and survive a removal.               *)
(* 0 and 1 cannot be members.                                              *)
(***************************************************************************)
EXTENDS Integers, FiniteSets

CONSTANTS AddInputs, RemoveInputs, QueryInputs

VARIABLES
    members,    \* the items in the set
    num,        \* hashset_num_items
    removed,    \* 1 once an item has been removed
    ret         \* the last call: operation, argument and value returned

vars == <<members, num, removed, ret>>

Init ==
    /\ members = {}
    /\ num = 0
    /\ removed = 0
    /\ ret = [op |-> "create", arg |-> 0, rv |-> 0]

Exact == removed = 0

Became(S) ==
    /\ members' = S
    /\ num' \in Nat
    /\ IF Exact THEN num' = Cardinality(S) ELSE num' >= Cardinality(S)

Returns(op, v, rv) == ret' = [op |-> op, arg |-> v, rv |-> rv]

Truth(cond) == IF cond THEN 1 ELSE 0

Add(v) ==
    /\ UNCHANGED removed
    /\ IF v \in {0, 1}
       THEN Became(members) /\ Returns("add", v, -1)
       ELSE /\ Became(members \cup {v})
            /\ \/ Returns("add", v, Truth(v \notin members))
               \/ ~Exact /\ Returns("add", v, 1)

Remove(v) ==
    /\ \/ Became(members \ {v})
       \/ ~Exact /\ Became(members)
    /\ removed' = IF v \in members THEN 1 ELSE removed
    /\ Returns("remove", v, Truth(v \in members))

IsMember(v) ==
    /\ UNCHANGED <<members, num, removed>>
    /\ Returns("is_member", v, Truth(v \in members))

Next ==
    \/ \E v \in AddInputs : Add(v)
    \/ \E v \in RemoveInputs : Remove(v)
    \/ \E v \in QueryInputs : IsMember(v)

Spec == Init /\ [][Next]_vars
=============================================================================
