------------------------------ MODULE SplayTree ------------------------------
(***************************************************************************)
(* PUTs/09splay-tree-master: a search tree that moves each key it is asked *)
(* for to the root.  Nodes are known by their keys; left and right are the *)
(* child pointers, 0 is NULL.  The second half of the module is            *)
(* PUTs/06pseudolru-master, which moves its items in the same way.         *)
(***************************************************************************)
EXTENDS Subject, Integers, FiniteSets, SequencesExt

CONSTANTS SplayKeys, SplayVals

splaytree_initalloc ==
    [root |-> NULL, count |-> 0,
     left |-> [k \in SplayKeys |-> NULL], right |-> [k \in SplayKeys |-> NULL],
     value |-> [k \in SplayKeys |-> NULL]]

\* *pa = child, where pa is the pointer of node g to p, or the root pointer
Link(t, g, p, child) ==
    IF g = NULL THEN [t EXCEPT !.root = child]
    ELSE IF t.left[g] = p THEN [t EXCEPT !.left[g] = child]
    ELSE [t EXCEPT !.right[g] = child]

\* __rotate_right and __rotate_left: child x of p takes the place of p below g
rotate_right(t, g, p) ==
    LET x == t.left[p]
        s == Link(t, g, p, x)
    IN  [s EXCEPT !.left[p] = t.right[x], !.right[x] = p]

rotate_left(t, g, p) ==
    LET x == t.right[p]
        s == Link(t, g, p, x)
    IN  [s EXCEPT !.right[p] = t.left[x], !.left[x] = p]

Rotate(t, g, p, x) == IF t.left[p] = x THEN rotate_right(t, g, p) ELSE rotate_left(t, g, p)

\* Nodes the recursion of __splay visits, from node n down to the key, or to the
\* last node before it falls off the tree
RECURSIVE Path(_, _, _)
Path(t, n, key) ==
    IF n = NULL THEN <<>>
    ELSE IF n = key THEN <<n>>
    ELSE <<n>> \o Path(t, IF n > key THEN t.left[n] ELSE t.right[n], key)

\* The way back of the recursion: two levels at a time (zig zig and zig zag both
\* rotate at the parent and then at the grandparent), or a single zig at the root
RECURSIVE Lift(_, _)
Lift(t, path) ==
    LET n == Len(path)
        x == path[n]
        p == path[n - 1]
        g == path[n - 2]
        top == IF n > 3 THEN path[n - 3] ELSE NULL
    IN  IF n = 1 THEN t
        ELSE IF n = 2 THEN Rotate(t, NULL, p, x)
        ELSE Lift(Rotate(Rotate(t, g, p, x), top, g, x), SubSeq(path, 1, n - 3) \o <<x>>)

\* __splay with update_if_not_found; the tree is not empty
splay(t, update_if_not_found, key) ==
    LET path == Path(t, t.root, key)
    IN  IF Last(path) = key \/ update_if_not_found THEN Lift(t, path) ELSE t

Splayed(t, key) == IF t.root = NULL THEN t ELSE splay(t, FALSE, key)

\* splaytree_get returns NULL exactly when the key does not become the root
splaytree_get(t, key) ==
    IF Splayed(t, key).root = key THEN t.value[key] ELSE NULL

splaytree_peek(t) == IF t.root = NULL THEN NULL ELSE t.value[t.root]

\* A new node above the root of a tree whose root is next to the key in order
NewRoot(t, key, val) ==
    LET r == t.root
        s == [t EXCEPT !.root = key, !.value[key] = val, !.count = @ + 1]
    IN  IF r = NULL THEN [s EXCEPT !.left[key] = NULL, !.right[key] = NULL]
        ELSE IF r > key
             THEN [s EXCEPT !.right[key] = r, !.left[key] = t.left[r], !.left[r] = NULL]
             ELSE [s EXCEPT !.left[key] = r, !.right[key] = t.right[r], !.right[r] = NULL]

\* The value of a key that is there already is not changed
splaytree_put(t, key, val) ==
    LET s == IF t.root = NULL THEN t ELSE splay(t, TRUE, key)
    IN  IF s.root = key THEN s ELSE NewRoot(s, key, val)

RECURSIVE Highest(_, _)
Highest(t, n) == IF t.right[n] = NULL THEN n ELSE Highest(t, t.right[n])

Forget(t, k) ==
    [t EXCEPT !.left[k] = NULL, !.right[k] = NULL, !.value[k] = NULL, !.count = @ - 1]

\* splaytree_remove without a left subtree
RemoveNoLeft(t, key) == Forget([t EXCEPT !.root = t.right[key]], key)

\* splaytree_remove with one: the node before left_highest loses its right pointer,
\* whether or not left_highest had a left subtree; that node is the root itself, which
\* loses its right subtree, when left_highest is its child, and then points to itself
RemoveWithLeft(t, key) ==
    LET h    == Highest(t, t.left[key])
        prev == IF h = t.left[key] THEN key
                ELSE CHOOSE n \in SplayKeys : t.right[n] = h
        cut  == [t EXCEPT !.right[prev] = NULL]
    IN  Forget([cut EXCEPT !.root = h, !.left[h] = cut.left[key],
                           !.right[h] = cut.right[key]], key)

splaytree_remove(t, key) ==
    LET s == Splayed(t, key)
    IN  IF s.root # key THEN s
        ELSE IF s.left[key] = NULL THEN RemoveNoLeft(s, key) ELSE RemoveWithLeft(s, key)

-----------------------------------------------------------------------------
(* What a tree of linked nodes stands for                                   *)

RECURSIVE InOrder(_, _)
InOrder(t, n) ==
    IF n = NULL THEN <<>> ELSE InOrder(t, t.left[n]) \o <<n>> \o InOrder(t, t.right[n])

Ascending(s) == \A i \in 1 .. Len(s) - 1 : s[i] < s[i + 1]

\* The nodes below the root are the keys of the map in order, counted, each with its value
StandsFor(t, map) ==
    LET keys == InOrder(t, t.root)
    IN  /\ Ascending(keys)
        /\ ToSet(keys) = DOMAIN map
        /\ t.count = Len(keys)
        /\ \A k \in DOMAIN map : t.value[k] = map[k]

\* put keeps the first value of a key
PutFirst(map, k, v) ==
    [j \in DOMAIN map \union {k} |-> IF j \in DOMAIN map THEN map[j] ELSE v]

Drop(map, k) == [j \in DOMAIN map \ {k} |-> map[j]]

-----------------------------------------------------------------------------
(* Calls.  abs.lossy: a removal found a left subtree whose highest node is   *)
(* its root or has a left child, the cases in which it loses nodes.          *)

Lossy(t, key) ==
    LET s == Splayed(t, key)
        h == Highest(s, s.left[key])
    IN  /\ s.root = key
        /\ s.left[key] # NULL
        /\ h = s.left[key] \/ s.left[h] # NULL

SplayInit ==
    /\ subject = "splay"
    /\ obj = splaytree_initalloc
    /\ abs = [map |-> <<>>, lossy |-> FALSE, asked |-> NULL]

SplayGet ==
    \E k \in SplayKeys :
        Becomes(Splayed(obj, k),
                [abs EXCEPT !.asked = IF k \in DOMAIN abs.map THEN k ELSE @])

SplayPut ==
    \E k \in SplayKeys, v \in SplayVals :
        Becomes(splaytree_put(obj, k, v),
                [abs EXCEPT !.map = PutFirst(@, k, v), !.asked = k])

SplayRemove ==
    \E k \in SplayKeys :
        Becomes(splaytree_remove(obj, k),
                [map   |-> Drop(abs.map, k),
                 lossy |-> Lossy(obj, k),
                 asked |-> IF k \in DOMAIN abs.map THEN NULL ELSE abs.asked])

SplayNext ==
    /\ subject = "splay"
    /\ ~abs.lossy
    /\ SplayGet \/ SplayPut \/ SplayRemove

\* "bring this value to the top": zig, zig zig and zig zag steps keep the tree a
\* search tree of the same keys and values, and the last key put or found is its
\* root, as long as no removal found a left subtree it does not relink.
SplayExact ==
    (subject = "splay" /\ ~abs.lossy) =>
        /\ StandsFor(obj, abs.map)
        /\ abs.asked # NULL => obj.root = abs.asked /\ splaytree_peek(obj) = abs.map[abs.asked]
        /\ \A k \in SplayKeys :
              splaytree_get(obj, k) = IF k \in DOMAIN abs.map THEN abs.map[k] ELSE NULL

-----------------------------------------------------------------------------
(***************************************************************************)
(* PUTs/06pseudolru-master: the splay tree with one more bit per node,     *)
(* which a search leaves pointing to the side it did not take.  Following  *)
(* the bits from the root leads to the item that is popped as the least    *)
(* recently used.  Unlike the splay tree, it relinks what a removal leaves.*)
(***************************************************************************)
LEFT == 0
RIGHT == 1

pseudolru_new == [tree |-> splaytree_initalloc, bit |-> [k \in SplayKeys |-> LEFT]]

\* The bits of the nodes that a search for key passes
Bits(me, key) ==
    LET passed == ToSet(Path(me.tree, me.tree.root, key)) \ {key}
    IN  [n \in SplayKeys |-> IF n \notin passed THEN me.bit[n]
                             ELSE IF n > key THEN RIGHT ELSE LEFT]

\* __splay
lru_splay(me, update_if_not_found, key) ==
    [tree |-> splay(me.tree, update_if_not_found, key), bit |-> Bits(me, key)]

LruSplayed(me, key) == IF me.tree.root = NULL THEN me ELSE lru_splay(me, FALSE, key)

pseudolru_get(me, key) ==
    IF LruSplayed(me, key).tree.root = key THEN me.tree.value[key] ELSE NULL

pseudolru_peek(me) == splaytree_peek(me.tree)

\* A new node has its bit to the left
pseudolru_put(me, key, val) ==
    LET s == IF me.tree.root = NULL THEN me ELSE lru_splay(me, TRUE, key)
    IN  IF s.tree.root = key THEN s
        ELSE [tree |-> NewRoot(s.tree, key, val), bit |-> [s.bit EXCEPT ![key] = LEFT]]

\* pseudolru_remove of the root when it has a left subtree
LruRelink(t, key) ==
    LET h    == Highest(t, t.left[key])
        prev == CHOOSE n \in SplayKeys : t.right[n] = h
        cut  == IF h = t.left[key] THEN t
                ELSE [t EXCEPT !.right[prev] = t.left[h], !.left[h] = t.left[key]]
    IN  Forget([cut EXCEPT !.root = h, !.right[h] = t.right[key]], key)

pseudolru_remove(me, key) ==
    LET s == LruSplayed(me, key)
        t == s.tree
    IN  IF t.root # key THEN s
        ELSE [s EXCEPT !.tree = IF t.left[key] = NULL THEN RemoveNoLeft(t, key)
                                ELSE LruRelink(t, key)]

\* The node the bits lead to
RECURSIVE get_lru(_, _)
get_lru(me, n) ==
    LET next == IF me.bit[n] = RIGHT THEN me.tree.right[n] ELSE me.tree.left[n]
    IN  IF next = NULL THEN n ELSE get_lru(me, next)

-----------------------------------------------------------------------------
(* Calls                                                                     *)

LruInit ==
    /\ subject = "lru"
    /\ obj = pseudolru_new
    /\ abs = [map |-> <<>>, asked |-> NULL]

LruGet ==
    \E k \in SplayKeys :
        Becomes(LruSplayed(obj, k),
                [abs EXCEPT !.asked = IF k \in DOMAIN abs.map THEN k ELSE @])

LruPut ==
    \E k \in SplayKeys, v \in SplayVals :
        Becomes(pseudolru_put(obj, k, v), [map |-> PutFirst(abs.map, k, v), asked |-> k])

LruRemove ==
    \E k \in SplayKeys :
        Becomes(pseudolru_remove(obj, k),
                [map   |-> Drop(abs.map, k),
                 asked |-> IF k \in DOMAIN abs.map THEN NULL ELSE abs.asked])

\* The tree may not be empty: the code takes the key of the node found
pseudolru_pop_lru ==
    /\ obj.tree.root # NULL
    /\ LET k == get_lru(obj, obj.tree.root)
       IN  Becomes(pseudolru_remove(obj, k), [map |-> Drop(abs.map, k), asked |-> NULL])

LruNext ==
    /\ subject = "lru"
    /\ LruGet \/ LruPut \/ LruRemove \/ pseudolru_pop_lru

\* Any sequence of puts, gets, removals and pops keeps the tree a search tree of
\* exactly the items put and not removed or popped, counted, with the last key put
\* or found at its root.
LruExact ==
    subject = "lru" =>
        /\ StandsFor(obj.tree, abs.map)
        /\ abs.asked # NULL =>
              obj.tree.root = abs.asked /\ pseudolru_peek(obj) = abs.map[abs.asked]
        /\ \A k \in SplayKeys :
              pseudolru_get(obj, k) = IF k \in DOMAIN abs.map THEN abs.map[k] ELSE NULL
=============================================================================
