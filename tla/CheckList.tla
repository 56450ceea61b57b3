------------------------------ MODULE CheckList ------------------------------
(***************************************************************************)
(* libcheck/src/check_list.c: the growing array, with a cursor, that holds *)
(* the suites, test cases, fixtures and results.                           *)
(***************************************************************************)
EXTENDS Subject, Integers, Sequences

CONSTANTS
    LstVals,    \* elements
    LstMax      \* bound on the number of elements

LINIT == 1
LGROW == 2

\* data is a function on 0..max_elts-1, NULL where nothing was written.  abs: the
\* elements; loop: nothing was added since check_list_front, and seen is what the
\* loop has met.
LstInit ==
    /\ subject = "list"
    /\ obj = [n_elts |-> 0, max_elts |-> LINIT, current |-> -1, last |-> -1,
              data |-> [i \in 0..(LINIT - 1) |-> NULL], state |-> "ok"]
    /\ abs = [seq |-> <<>>, loop |-> FALSE, seen |-> <<>>]

Grown(o, m) ==
    [o EXCEPT !.max_elts = m, !.data = [i \in 0..(m - 1) |-> IF i \in DOMAIN o.data THEN o.data[i] ELSE NULL]]

\* Mutation: the array grows one element too late.
MutGrowLate(o) == IF o.n_elts > o.max_elts THEN Grown(o, o.max_elts * LGROW) ELSE o

maybe_grow(o) == IF o.n_elts >= o.max_elts THEN Grown(o, o.max_elts * LGROW) ELSE o

\* List g gets element v at index i of its (moved) array.  A write outside of the
\* array leaves nothing to be said about it.
Added(g, array, i, v) ==
    [n_elts |-> g.n_elts + 1, max_elts |-> g.max_elts, current |-> i, last |-> g.last + 1,
     data |-> [array EXCEPT ![i] = v],
     state |-> IF {i, g.n_elts} \subseteq DOMAIN array THEN "ok" ELSE "overrun"]

check_list_add_front(v) ==
    LET g == maybe_grow(obj)
        moved == [i \in DOMAIN g.data |-> IF i \in 1..g.n_elts THEN g.data[i - 1] ELSE g.data[i]]
    IN Becomes(Added(g, moved, 0, v), [seq |-> <<v>> \o abs.seq, loop |-> FALSE, seen |-> <<>>])

\* The cursor is left on the new element.
check_list_add_end(v) ==
    LET g == maybe_grow(obj)
    IN Becomes(Added(g, g.data, g.last + 1, v), [seq |-> Append(abs.seq, v), loop |-> FALSE, seen |-> <<>>])

check_list_at_end(o) == o.current = -1 \/ o.current > o.last

check_list_val(o) == IF check_list_at_end(o) THEN NULL ELSE o.data[o.current]

check_list_front ==
    Becomes([obj EXCEPT !.current = IF @ = -1 THEN @ ELSE 0], [abs EXCEPT !.loop = TRUE, !.seen = <<>>])

check_list_advance ==
    /\ ~check_list_at_end(obj)
    /\ Becomes([obj EXCEPT !.current = @ + 1], [abs EXCEPT !.seen = Append(@, check_list_val(obj))])

LstNext ==
    /\ subject = "list" /\ obj.state = "ok"
    /\ \/ \E v \in LstVals : Len(abs.seq) < LstMax /\ (check_list_add_front(v) \/ check_list_add_end(v))
       \/ check_list_front
       \/ check_list_advance

-----------------------------------------------------------------------------
\* The array holds the elements in order, whatever mix of additions at both ends
\* and growth has made it, and no write falls outside of it.
LstHolds ==
    subject = "list" => /\ obj.state = "ok"
                        /\ obj.n_elts = Len(abs.seq) /\ obj.last = obj.n_elts - 1
                        /\ \A i \in DOMAIN abs.seq : obj.data[i - 1] = abs.seq[i]

\* A loop from the front during which nothing is added meets the elements one after
\* the other, and has met all of them when it ends.  (An addition moves the cursor:
\* a loop that adds to its own list would skip elements or begin again.)
LstLoops ==
    subject = "list" /\ abs.loop => /\ abs.seen = SubSeq(abs.seq, 1, Len(abs.seen))
                                     /\ check_list_at_end(obj) => abs.seen = abs.seq
=============================================================================
