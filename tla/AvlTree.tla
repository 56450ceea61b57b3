------------------------------- MODULE AvlTree -------------------------------
(***************************************************************************)
(* PUTs/05array-avl-tree-master: a balanced tree laid out in an array, the *)
(* children of slot i in 2i+1 and 2i+2.  Rotations move whole subtrees     *)
(* from slot to slot.  nodes holds the slots whose key is not NULL.        *)
(***************************************************************************)
EXTENDS Subject, Integers, FiniteSets

CONSTANTS
    AvlSize,    \* me->size after avltree_new: 40
    AvlKeys,    \* few enough that no slot beyond size is ever looked for
    AvlVals

child_l(idx) == idx * 2 + 1
child_r(idx) == idx * 2 + 2
avl_parent(idx) == (idx - 1) \div 2

avltree_new == [size |-> AvlSize, count |-> 0, nodes |-> <<>>]

EraseSlot(nodes, i) == [j \in DOMAIN nodes \ {i} |-> nodes[j]]

Store(nodes, i, n) == [j \in DOMAIN nodes \union {i} |-> IF j = i THEN n ELSE nodes[j]]

\* memcpy(&me->nodes[to], &me->nodes[from], sizeof(node_t))
Copy(nodes, from, to) ==
    IF from \in DOMAIN nodes THEN Store(nodes, to, nodes[from]) ELSE EraseSlot(nodes, to)

RECURSIVE height(_, _)
height(nodes, idx) ==
    IF idx >= AvlSize \/ idx \notin DOMAIN nodes THEN 0
    ELSE LET l == height(nodes, child_l(idx))
             r == height(nodes, child_r(idx))
         IN  1 + (IF l < r THEN r ELSE l)

RECURSIVE shift_up(_, _, _)
shift_up(nodes, idx, towards) ==
    IF idx \notin DOMAIN nodes THEN nodes
    ELSE LET moved == EraseSlot(Copy(nodes, idx, towards), idx)
             left  == shift_up(moved, child_l(idx), child_l(towards))
         IN  shift_up(left, child_r(idx), child_r(towards))

RECURSIVE shift_down(_, _, _)
shift_down(nodes, idx, towards) ==
    IF idx \notin DOMAIN nodes \/ idx >= AvlSize THEN nodes
    ELSE LET left  == shift_down(nodes, child_l(idx), child_l(towards))
             right == shift_down(left, child_r(idx), child_r(towards))
         IN  Copy(right, idx, towards)

avltree_rotate_right(nodes, idx) ==
    LET l == child_l(idx)
        r == child_r(idx)
        a == Copy(shift_down(nodes, r, child_r(r)), idx, r)
        b == EraseSlot(shift_down(a, child_r(l), child_l(r)), child_r(l))
    IN  shift_up(b, l, idx)

avltree_rotate_left(nodes, idx) ==
    LET p == avl_parent(idx)
        l == child_l(p)
        a == Copy(shift_down(nodes, l, child_l(l)), p, l)
        b == EraseSlot(shift_down(a, child_l(idx), child_r(l)), child_l(idx))
    IN  shift_up(b, idx, p)

Skew(nodes, idx) == height(nodes, child_l(idx)) - height(nodes, child_r(idx))

\* One turn of the loop of __rebalance: the code always rotates to the left,
\* whichever side is the higher one
RebalanceAt(nodes, idx) ==
    LET r    == child_r(idx)
        once == avltree_rotate_left(nodes, r)
    IN  IF Skew(nodes, idx) \in -1 .. 1 THEN nodes
        ELSE IF Skew(nodes, r) = -1 THEN once
        ELSE avltree_rotate_right(once, r)

RECURSIVE rebalance(_, _)
rebalance(nodes, idx) ==
    LET turned == RebalanceAt(nodes, idx)
    IN  IF idx = 0 THEN turned ELSE rebalance(turned, avl_parent(idx))

\* Where the loops of get, insert and remove stop: at the key, at an empty slot or
\* outside the array.  The tests compare so that smaller keys are on the left.
RECURSIVE Search(_, _, _)
Search(me, k, i) ==
    IF i >= me.size \/ i \notin DOMAIN me.nodes \/ me.nodes[i].key = k THEN i
    ELSE Search(me, k, IF k < me.nodes[i].key THEN child_l(i) ELSE child_r(i))

avltree_get(me, k) ==
    LET i == Search(me, k, 0) IN IF i \in DOMAIN me.nodes THEN me.nodes[i].val ELSE NULL

avltree_count(me) == me.count

Rebalanced(nodes, i) == IF i = 0 THEN nodes ELSE rebalance(nodes, avl_parent(i))

\* (A search that leaves the array would call __enlarge; AvlKeys excludes it.)
avltree_insert(me, k, v) ==
    LET i == Search(me, k, 0)
        n == Store(me.nodes, i, [key |-> k, val |-> v])
    IN  IF i \in DOMAIN me.nodes THEN [me EXCEPT !.nodes = n]
        ELSE [me EXCEPT !.nodes = Rebalanced(n, i), !.count = @ + 1]

\* __previous_ordered_node: -1 when there is no left child
RECURSIVE Rightmost(_, _, _)
Rightmost(nodes, i, prev) ==
    IF i >= AvlSize \/ i \notin DOMAIN nodes THEN prev
    ELSE Rightmost(nodes, child_r(i), i)

previous_ordered_node(nodes, idx) == Rightmost(nodes, child_l(idx), -1)

\* The nodes without slot i, before they are rebalanced
Removed(nodes, i) ==
    LET rep == previous_ordered_node(nodes, i)
    IN  IF rep = -1 THEN EraseSlot(nodes, i)
        ELSE shift_up(shift_up(nodes, child_l(rep), child_r(avl_parent(rep))), rep, i)

avltree_remove(me, k) ==
    LET i == Search(me, k, 0)
    IN  IF i \notin DOMAIN me.nodes THEN me
        ELSE [me EXCEPT !.nodes = Rebalanced(Removed(me.nodes, i), i), !.count = @ - 1]

\* the count is not reset
avltree_empty(me) == [me EXCEPT !.nodes = <<>>]

-----------------------------------------------------------------------------
(* Calls.  abs.lossy: a call met a case the code does not handle.            *)

\* All turns of __rebalance find the slot in balance, or its right side too high
\* on the outside, the only rotation that is right
RECURSIVE Handled(_, _)
Handled(nodes, idx) ==
    /\ Skew(nodes, idx) < -1 => Skew(nodes, child_r(idx)) = -1
    /\ Skew(nodes, idx) <= 1
    /\ idx # 0 => Handled(RebalanceAt(nodes, idx), avl_parent(idx))

InsertLossy(me, k) ==
    LET i == Search(me, k, 0)
    IN  /\ i \notin DOMAIN me.nodes \union {0}
        /\ ~Handled(Store(me.nodes, i, [key |-> k, val |-> NULL]), avl_parent(i))

RemoveLossy(me, k) ==
    LET i   == Search(me, k, 0)
        rep == previous_ordered_node(me.nodes, i)
    IN  /\ i \in DOMAIN me.nodes
        /\ \/ rep = -1 /\ child_r(i) \in DOMAIN me.nodes
           \/ rep # -1 /\ child_l(rep) \in DOMAIN me.nodes
           \/ i # 0 /\ ~Handled(Removed(me.nodes, i), avl_parent(i))

AvlInit ==
    /\ subject = "avl"
    /\ obj = avltree_new
    /\ abs = [map |-> <<>>, lossy |-> FALSE, emptied |-> FALSE]

AvlInsert ==
    \E k \in AvlKeys, v \in AvlVals :
        Becomes(avltree_insert(obj, k, v),
                [abs EXCEPT !.map = Store(@, k, v), !.lossy = InsertLossy(obj, k)])

AvlRemove ==
    \E k \in AvlKeys :
        Becomes(avltree_remove(obj, k),
                [abs EXCEPT !.map = EraseSlot(@, k), !.lossy = RemoveLossy(obj, k)])

AvlEmpty == 
    /\ ~abs.emptied
    /\ Becomes(avltree_empty(obj), [abs EXCEPT !.map = <<>>, !.emptied = TRUE])

AvlNext ==
    /\ subject = "avl"
    /\ ~abs.lossy
    /\ AvlInsert \/ AvlRemove \/ AvlEmpty

\* Through the rotations, which move whole subtrees between slots, the tree keeps
\* every key where a search finds it, with its last value, as long as no call met a
\* case the code leaves out: a slot out of balance other than to the outer right, the
\* removal of a node with a right child only, or of one whose predecessor has a child.
\* avltree_count is right until avltree_empty, which does not reset it.
AvlExact ==
    (subject = "avl" /\ ~abs.lossy) =>
        /\ \A k \in AvlKeys :
              avltree_get(obj, k) = IF k \in DOMAIN abs.map THEN abs.map[k] ELSE NULL
        /\ Cardinality(DOMAIN obj.nodes) = Cardinality(DOMAIN abs.map)
        /\ ~abs.emptied => avltree_count(obj) = Cardinality(DOMAIN abs.map)
=============================================================================
