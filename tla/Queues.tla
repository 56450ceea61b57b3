-------------------------------- MODULE Queues --------------------------------
(***************************************************************************)
(* The example programs that are queues: two of bytes in an array, and one *)
(* of items in a linked list.                                              *)
(***************************************************************************)
EXTENDS Subject, Integers, Sequences

(***************************************************************************)
(* PUTs/13cbuffer-master: a ring buffer whose memory is mapped twice in a  *)
(* row, so that data + i and data + i + size are the same byte.            *)
(* Callers offer and poll runs of bytes and poll no more than              *)
(* cbuf_usedspace says there is; behaviours end where head would leave the *)
(* two mappings, since no call ever wraps it.                              *)
(***************************************************************************)
CONSTANTS
    CbufOrder,   \* argument of cbuf_new
    CbufBytes    \* byte values

ASSUME CbufAssumption == CbufOrder \in Nat /\ CbufBytes \subseteq Nat

cbuf_new ==
    [size |-> 2 ^ CbufOrder, head |-> 0, tail |-> 0,
     data |-> [i \in 0 .. 2 ^ CbufOrder - 1 |-> NULL]]

cbuf_is_empty(me) == me.head = me.tail

cbuf_usedspace(me) ==
    IF me.head <= me.tail THEN me.tail - me.head
    ELSE me.size - (me.head - me.tail)

cbuf_unusedspace(me) == me.size - cbuf_usedspace(me)

\* memcpy to data + tail, through the mirror
Written(me, bytes) ==
    [i \in DOMAIN me.data |->
        LET at == {k \in DOMAIN bytes : (me.tail + k - 1) % me.size = i}
        IN  IF at = {} THEN me.data[i] ELSE bytes[CHOOSE k \in at : TRUE]]

WrapTail(me, t) == IF me.size < t THEN t % me.size ELSE t

cbuf_offer(me, bytes) ==
    IF cbuf_unusedspace(me) <= Len(bytes) THEN me
    ELSE [me EXCEPT !.data = Written(me, bytes),
                    !.tail = WrapTail(me, @ + Len(bytes))]

cbuf_poll(me, n) ==
    IF cbuf_is_empty(me) THEN me ELSE [me EXCEPT !.head = @ + n]

\* The n bytes cbuf_peek and cbuf_poll point to
cbuf_peek(me, n) == [i \in 1 .. n |-> me.data[(me.head + i - 1) % me.size]]

-----------------------------------------------------------------------------
\* abs.q: bytes offered and not polled.  abs.lapped: the tail wrapped round
\* while the head, which never wraps, was already past the end.
CbufInit ==
    /\ subject = "cbuffer"
    /\ obj = cbuf_new
    /\ abs = [q |-> <<>>, lapped |-> FALSE]

CbufOffer(bytes) ==
    LET new == cbuf_offer(obj, bytes)
        taken == Len(bytes) < cbuf_unusedspace(obj)
    IN  Becomes(new, [q |-> IF taken THEN abs.q \o bytes ELSE abs.q,
                      lapped |-> abs.lapped \/ (new.tail < obj.tail /\ obj.head > obj.size)])

CbufPoll(n) ==
    /\ n <= cbuf_usedspace(obj)
    /\ ~abs.lapped
    /\ obj.head + n <= 2 * obj.size
    /\ Becomes(cbuf_poll(obj, n), [abs EXCEPT !.q = SubSeq(@, n + 1, Len(@))])

CbufNext ==
    /\ subject = "cbuffer"
    /\ ~abs.lapped
    /\ \/ \E n \in 1 .. obj.size - 1 : \E b \in CbufBytes : CbufOffer([i \in 1 .. n |-> IF i = 1 THEN b ELSE 1])
       \/ \E n \in 1 .. obj.size - 1 : CbufPoll(n)

\* Until the head is lapped, the buffer is a queue: cbuf_usedspace counts the
\* bytes waiting, they are read back in order across the mirror, the buffer
\* never becomes completely full, and while the head is inside the first
\* mapping cbuf_is_empty is exact.
CbufFifo ==
    subject = "cbuffer" /\ ~abs.lapped =>
        /\ cbuf_usedspace(obj) = Len(abs.q)
        /\ Len(abs.q) < obj.size
        /\ cbuf_peek(obj, Len(abs.q)) = abs.q
        /\ obj.head <= obj.size => (cbuf_is_empty(obj) <=> abs.q = <<>>)

-----------------------------------------------------------------------------
(***************************************************************************)
(* PUTs/15bipbuffer-master: a buffer of two regions.  Region A is read;    *)
(* region B, at the start of the array, is filled once the room behind A   *)
(* is less than the room before it, and becomes A when A runs empty.       *)
(***************************************************************************)
CONSTANTS
    BipSize,     \* argument of bipbuf_new
    BipBytes     \* byte values

ASSUME BipAssumption == BipSize \in Nat /\ BipBytes \subseteq Nat

bipbuf_init ==
    [a_start |-> 0, a_end |-> 0, b_end |-> 0, b_inuse |-> FALSE,
     data |-> [i \in 0 .. BipSize - 1 |-> NULL]]

bipbuf_unused(me) ==
    IF me.b_inuse THEN me.a_start - me.b_end ELSE BipSize - me.a_end

bipbuf_used(me) == (me.a_end - me.a_start) + me.b_end

bipbuf_is_empty(me) == me.a_start = me.a_end

check_for_switch_to_b(me) ==
    IF BipSize - me.a_end < me.a_start - me.b_end
    THEN [me EXCEPT !.b_inuse = TRUE] ELSE me

Stored(data, at, bytes) ==
    [i \in DOMAIN data |-> IF i \in at .. at + Len(bytes) - 1
                           THEN bytes[i - at + 1] ELSE data[i]]

bipbuf_offer(me, bytes) ==
    IF bipbuf_unused(me) < Len(bytes) THEN me
    ELSE check_for_switch_to_b(
            IF me.b_inuse
            THEN [me EXCEPT !.data = Stored(@, me.b_end, bytes), !.b_end = @ + Len(bytes)]
            ELSE [me EXCEPT !.data = Stored(@, me.a_end, bytes), !.a_end = @ + Len(bytes)])

\* bipbuf_poll gives a pointer for these arguments, bipbuf_peek as well
Readable(me, n) == ~bipbuf_is_empty(me) /\ me.a_start + n <= BipSize

\* Mutation: region B is not taken over.
MutForgetsB(me, n) ==
    LET a == [me EXCEPT !.a_start = @ + n] IN
    IF ~Readable(me, n) THEN me
    ELSE check_for_switch_to_b(
            IF a.a_start # a.a_end THEN a
            ELSE [a EXCEPT !.a_start = 0, !.a_end = 0, !.b_end = 0, !.b_inuse = FALSE])

bipbuf_poll(me, n) ==
    LET a == [me EXCEPT !.a_start = @ + n] IN
    IF ~Readable(me, n) THEN me
    ELSE check_for_switch_to_b(
            IF a.a_start # a.a_end THEN a
            ELSE IF me.b_inuse
            THEN [a EXCEPT !.a_start = 0, !.a_end = me.b_end, !.b_end = 0, !.b_inuse = FALSE]
            ELSE [a EXCEPT !.a_start = 0, !.a_end = 0])

-----------------------------------------------------------------------------
\* abs.q: bytes offered and not polled.  abs.past: a caller was given more
\* bytes than region A holds (bipbuf_poll compares with the array's end only).
BipInit ==
    /\ subject = "bipbuffer"
    /\ obj = bipbuf_init
    /\ abs = [q |-> <<>>, past |-> FALSE]

BipOffer(bytes) ==
    Becomes(bipbuf_offer(obj, bytes),
            [abs EXCEPT !.q = IF bipbuf_unused(obj) < Len(bytes) THEN @ ELSE @ \o bytes])

BipPoll(n) ==
    /\ Readable(obj, n)
    /\ Becomes(bipbuf_poll(obj, n),
               [q |-> SubSeq(abs.q, n + 1, Len(abs.q)),
                past |-> abs.past \/ n > obj.a_end - obj.a_start])

BipNext ==
    /\ subject = "bipbuffer"
    /\ ~abs.past
    /\ \/ \E n \in 1 .. BipSize : \E b \in BipBytes : BipOffer([i \in 1 .. n |-> IF i = 1 THEN b ELSE 1])
       \/ \E n \in 1 .. BipSize : BipPoll(n)

\* As long as callers read no further than region A, the two regions do not
\* overlap, region A followed by region B are the bytes waiting in order, and
\* bipbuf_used and bipbuf_is_empty tell how many: the switch to B and the
\* replacement of A by B lose and reorder nothing.
BipFifo ==
    subject = "bipbuffer" /\ ~abs.past =>
        /\ bipbuf_used(obj) = Len(abs.q)
        /\ obj.b_inuse => obj.b_end <= obj.a_start
        /\ abs.q = [i \in 1 .. obj.a_end - obj.a_start |-> obj.data[obj.a_start + i - 1]]
                       \o [i \in 1 .. obj.b_end |-> obj.data[i - 1]]
        /\ bipbuf_is_empty(obj) <=> abs.q = <<>>

(***************************************************************************)
(* PUTs/14CLinkedListQueue: a queue of linked nodes with a tail pointer.   *)
(* Nodes are addresses 1 .. QueueNodes (bound: live nodes); malloc takes a *)
(* free one, and a freed node keeps its stale contents.                    *)
(***************************************************************************)
CONSTANTS
    QueueNodes,  \* bound: nodes alive at a time
    QueueItems   \* items; positive

ASSUME QueueAssumption == QueueNodes \in Nat \ {0} /\ QueueItems \subseteq Nat \ {0}

llqueue_new ==
    [head |-> NULL, tail |-> NULL, count |-> 0,
     next |-> [n \in 1 .. QueueNodes |-> NULL],
     item |-> [n \in 1 .. QueueNodes |-> NULL]]

\* The nodes met by following next from the head, NULL after the last
Walk(me) ==
    LET w[k \in 1 .. QueueNodes + 1] ==
            IF k = 1 THEN me.head
            ELSE IF w[k - 1] = NULL THEN NULL ELSE me.next[w[k - 1]]
    IN  w

Live(me) == {Walk(me)[k] : k \in 1 .. QueueNodes} \ {NULL}

llqueue_poll(me) ==
    IF me.head = NULL THEN me
    ELSE [me EXCEPT !.tail = IF @ = me.head THEN NULL ELSE @,
                    !.head = me.next[@], !.count = @ - 1]

llqueue_offer(me, item) ==
    LET node == CHOOSE n \in 1 .. QueueNodes : n \notin Live(me) IN
    [me EXCEPT !.item[node] = item,
               !.next = [n \in 1 .. QueueNodes |->
                            IF n = node THEN NULL
                            ELSE IF n = me.tail THEN node ELSE @[n]],
               !.head = IF @ = NULL THEN node ELSE @,
               !.tail = node, !.count = @ + 1]

\* Position of the first node whose item is one of items; 0 if there is none
Position(me, items) ==
    LET at == {k \in 1 .. QueueNodes : Walk(me)[k] # NULL /\ me.item[Walk(me)[k]] \in items}
    IN  IF at = {} THEN 0 ELSE CHOOSE k \in at : \A j \in at : k <= j

Unlink(me, prev, node) ==
    [me EXCEPT !.next[prev] = me.next[node],
               !.tail = IF @ = node THEN prev ELSE @,
               !.count = @ - 1]

\* The search loop that the two removal functions share
RemoveMatch(me, items) ==
    LET k == Position(me, items) IN
    IF k = 0 THEN me
    ELSE IF k = 1 THEN llqueue_poll(me)
    ELSE Unlink(me, Walk(me)[k - 1], Walk(me)[k])

llqueue_remove_item(me, item) == RemoveMatch(me, {item})

\* The items a comparison coarser than equality takes for item: same parity
Alike(item) == {x \in QueueItems : x % 2 = item % 2}

llqueue_remove_item_via_cmpfunction(me, item) == RemoveMatch(me, Alike(item))

llqueue_get_item_via_cmpfunction(me, item) ==
    LET k == Position(me, Alike(item)) IN
    IF k = 0 THEN NULL ELSE me.item[Walk(me)[k]]

-----------------------------------------------------------------------------
\* The first element that is one of items is taken out of the sequence q
Without(q, items) ==
    LET at == {k \in DOMAIN q : q[k] \in items}
        k == CHOOSE i \in at : \A j \in at : i <= j
    IN  IF at = {} THEN q ELSE SubSeq(q, 1, k - 1) \o SubSeq(q, k + 1, Len(q))

QueueInit == subject = "llqueue" /\ obj = llqueue_new /\ abs = <<>>

QueueOffer(item) ==
    /\ obj.count < QueueNodes
    /\ Becomes(llqueue_offer(obj, item), Append(abs, item))

QueuePoll == Becomes(llqueue_poll(obj), IF abs = <<>> THEN abs ELSE Tail(abs))

QueueRemove(item) ==
    Becomes(llqueue_remove_item(obj, item), Without(abs, {item}))

QueueRemoveLike(item) ==
    Becomes(llqueue_remove_item_via_cmpfunction(obj, item), Without(abs, Alike(item)))

QueueNext ==
    /\ subject = "llqueue"
    /\ \/ QueuePoll
       \/ \E i \in QueueItems : QueueOffer(i) \/ QueueRemove(i) \/ QueueRemoveLike(i)

\* After any calls the nodes linked from head are exactly count nodes, ending
\* at tail, and their items in order are those offered and not yet taken out;
\* a later offer therefore never loses the queue behind a stale tail.
QueueLinked ==
    subject = "llqueue" =>
        /\ obj.count = Len(abs)
        /\ \A k \in 1 .. QueueNodes :
              IF k <= Len(abs) THEN Walk(obj)[k] # NULL /\ obj.item[Walk(obj)[k]] = abs[k]
              ELSE Walk(obj)[k] = NULL
        /\ obj.tail = IF abs = <<>> THEN NULL ELSE Walk(obj)[Len(abs)]
        /\ \A i \in QueueItems :
              LET at == {k \in DOMAIN abs : abs[k] \in Alike(i)}
              IN  llqueue_get_item_via_cmpfunction(obj, i)
                     = IF at = {} THEN NULL ELSE abs[CHOOSE k \in at : \A j \in at : k <= j]
=============================================================================
