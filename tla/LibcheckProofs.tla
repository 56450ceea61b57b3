--------------------------- MODULE LibcheckProofs ----------------------------
(***************************************************************************)
(* libcheck. Its list holds what was added to it, in order, writes nothing *)
(* outside of its array, and is met in order by a loop, for any elements   *)
(* and any number of them.                                                 *)
(*                                                                         *)
(* punpack finds the messages of a test in their file, whatever their      *)
(* number, their lengths and the size of its buffer. PackInv says that the *)
(* file is the messages found, then the buffer, then the rest.             *)
(*                                                                         *)
(* A test case gives each of its tests the result that the test's end and  *)
(* its assertions call for, in whatever order the test, its timer and the  *)
(* runner take their steps, for any number of tests, signals and exit      *)
(* codes. CkInv ties what the runner will unpack from the messages to what *)
(* has happened in the test so far.                                        *)
(***************************************************************************)
EXTENDS LibcheckMC, WellFoundedInduction, TLAPS

Elts == LstVals \cup {NULL}

Arrays == UNION {[0..(m - 1) -> Elts] : m \in Nat}

\* A list: its array has room for its elements
IsList(o) ==
    /\ o \in [n_elts : Nat, max_elts : Nat, current : Int, last : Int, data : Arrays, state : {"ok"}]
    /\ o.max_elts > 0
    /\ o.n_elts <= o.max_elts
    /\ o.last = o.n_elts - 1
    /\ o.data \in [0..(o.max_elts - 1) -> Elts]

LstInv ==
    /\ subject = "list"
    /\ IsList(obj)
    /\ abs = [seq |-> abs.seq, loop |-> abs.loop, seen |-> abs.seen]
    /\ abs.seq \in Seq(LstVals)
    /\ obj.n_elts = Len(abs.seq)
    /\ \A i \in 1..Len(abs.seq) : obj.data[i - 1] = abs.seq[i]

-----------------------------------------------------------------------------

\* Growing leaves room for one more element and the elements where they are.
LEMMA GrowKeeps ==
    ASSUME NEW o, IsList(o)
    PROVE  LET g == maybe_grow(o)
           IN /\ IsList(g)
              /\ g.n_elts = o.n_elts
              /\ g.n_elts < g.max_elts
              /\ \A i \in 0..(o.n_elts - 1) : g.data[i] = o.data[i]
<1>1. CASE o.n_elts >= o.max_elts
  <2> DEFINE m == o.max_elts * LGROW
             d == [i \in 0..(m - 1) |-> IF i \in DOMAIN o.data THEN o.data[i] ELSE NULL]
  <2>1. maybe_grow(o) = [n_elts |-> o.n_elts, max_elts |-> m, current |-> o.current, last |-> o.last,
                         data |-> d, state |-> o.state]
    BY <1>1, Zenon DEF maybe_grow, Grown, IsList
  <2>2. m \in Nat /\ o.n_elts < m
    BY DEF IsList, LGROW
  <2>3. d \in [0..(m - 1) -> Elts] /\ \A i \in 0..(o.n_elts - 1) : d[i] = o.data[i]
    BY <2>2 DEF IsList, Elts
  <2>4. d \in Arrays
    BY <2>2, <2>3 DEF Arrays
  <2> HIDE DEF m, d
  <2> QED
    BY <2>1, <2>2, <2>3, <2>4 DEF IsList
<1>2. CASE ~(o.n_elts >= o.max_elts)
  BY <1>2 DEF maybe_grow, IsList
<1> QED
  BY <1>1, <1>2

\* check_list_create
LEMMA LstInitInv == LstInit => LstInv
<1> SUFFICES ASSUME LstInit PROVE LstInv
  OBVIOUS
<1> DEFINE d == [i \in 0..(LINIT - 1) |-> NULL]
<1>1. obj = [n_elts |-> 0, max_elts |-> LINIT, current |-> -1, last |-> -1, data |-> d, state |-> "ok"]
  BY DEF LstInit
<1>2. d \in [0..(LINIT - 1) -> Elts]
  BY DEF Elts
<1>3. d \in Arrays
  BY <1>2 DEF Arrays, LINIT
<1> HIDE DEF d
<1>4. IsList(obj)
  BY <1>1, <1>2, <1>3 DEF IsList, LINIT
<1> QED
  BY <1>1, <1>4 DEF LstInit, LstInv

\* An array with one element more than list g, which has room for it
LEMMA OneMore ==
    ASSUME NEW g, IsList(g), g.n_elts < g.max_elts,
           NEW d \in [0..(g.max_elts - 1) -> Elts], NEW cur \in Int
    PROVE  IsList([n_elts |-> g.n_elts + 1, max_elts |-> g.max_elts, current |-> cur,
                   last |-> g.last + 1, data |-> d, state |-> "ok"])
<1>1. d \in Arrays
  BY DEF Arrays, IsList
<1> QED
  BY <1>1 DEF IsList

\* check_list_add_end
LEMMA AddEndInv ==
    ASSUME LstInv, NEW v \in LstVals, check_list_add_end(v)
    PROVE  LstInv'
<1> DEFINE g == maybe_grow(obj)
           d == [g.data EXCEPT ![g.last + 1] = v]
<1>1. /\ IsList(g) /\ g.n_elts = obj.n_elts /\ g.n_elts < g.max_elts
      /\ \A i \in 0..(obj.n_elts - 1) : g.data[i] = obj.data[i]
  BY GrowKeeps DEF LstInv
<1>2. /\ obj' = Added(g, g.data, g.last + 1, v)
      /\ abs' = [seq |-> Append(abs.seq, v), loop |-> FALSE, seen |-> <<>>]
      /\ UNCHANGED subject
  BY DEF check_list_add_end, Becomes
<1> HIDE DEF g
<1>3. {g.last + 1, g.n_elts} \subseteq 0..(g.max_elts - 1) /\ DOMAIN g.data = 0..(g.max_elts - 1)
  BY <1>1 DEF IsList
<1>4. g.last + 1 \in 0..(g.max_elts - 1) /\ g.last + 1 \in Int
  BY <1>1 DEF IsList
<1>5. obj' = [n_elts |-> g.n_elts + 1, max_elts |-> g.max_elts, current |-> g.last + 1,
              last |-> g.last + 1, data |-> d, state |-> "ok"]
  BY <1>2, <1>3 DEF Added
<1>6. d \in [0..(g.max_elts - 1) -> Elts]
  BY <1>1, <1>3, <1>4 DEF IsList, Elts
<1>7. d[obj.n_elts] = v /\ \A i \in 0..(obj.n_elts - 1) : d[i] = obj.data[i]
  BY <1>1, <1>3, <1>4 DEF IsList
<1> HIDE DEF d
<1>8. IsList(obj')
  BY <1>1, <1>4, <1>5, <1>6, OneMore
<1>9. /\ abs'.seq = Append(abs.seq, v) /\ abs.seq \in Seq(LstVals) /\ abs'.seq \in Seq(LstVals)
      /\ Len(abs'.seq) = Len(abs.seq) + 1 /\ obj.n_elts = Len(abs.seq)
  BY <1>2 DEF LstInv
<1>10. ASSUME NEW i \in 1..Len(abs'.seq) PROVE obj'.data[i - 1] = abs'.seq[i]
  <2>1. CASE i = Len(abs.seq) + 1
    BY <2>1, <1>5, <1>7, <1>9
  <2>2. CASE i # Len(abs.seq) + 1
    <3>1. i \in 1..Len(abs.seq) /\ i - 1 \in 0..(obj.n_elts - 1)
      BY <2>2, <1>9
    <3> QED
      BY <3>1, <1>5, <1>7, <1>9 DEF LstInv
  <2> QED
    BY <2>1, <2>2
<1>11. abs' = [seq |-> abs'.seq, loop |-> abs'.loop, seen |-> abs'.seen]
  BY <1>2
<1>12. obj'.n_elts = Len(abs'.seq)
  BY <1>1, <1>5, <1>9
<1> QED
  BY <1>2, <1>8, <1>9, <1>10, <1>11, <1>12 DEF LstInv

\* check_list_add_front
LEMMA AddFrontInv ==
    ASSUME LstInv, NEW v \in LstVals, check_list_add_front(v)
    PROVE  LstInv'
<1> DEFINE g == maybe_grow(obj)
           s == [i \in DOMAIN g.data |-> IF i \in 1..g.n_elts THEN g.data[i - 1] ELSE g.data[i]]
           d == [s EXCEPT ![0] = v]
<1>1. /\ IsList(g) /\ g.n_elts = obj.n_elts /\ g.n_elts < g.max_elts
      /\ \A i \in 0..(obj.n_elts - 1) : g.data[i] = obj.data[i]
  BY GrowKeeps DEF LstInv
<1>2. /\ obj' = Added(g, s, 0, v)
      /\ abs' = [seq |-> <<v>> \o abs.seq, loop |-> FALSE, seen |-> <<>>]
      /\ UNCHANGED subject
  BY DEF check_list_add_front, Becomes
<1> HIDE DEF g
<1>3. DOMAIN g.data = 0..(g.max_elts - 1) /\ g.n_elts \in DOMAIN g.data /\ 0 \in DOMAIN g.data
  BY <1>1 DEF IsList
<1>4. s \in [0..(g.max_elts - 1) -> Elts]
  <2>1. ASSUME NEW i \in 0..(g.max_elts - 1)
        PROVE  (IF i \in 1..g.n_elts THEN g.data[i - 1] ELSE g.data[i]) \in Elts
    <3>1. i \in 1..g.n_elts => i - 1 \in 0..(g.max_elts - 1)
      BY <1>1 DEF IsList
    <3>2. g.data \in [0..(g.max_elts - 1) -> Elts]
      BY <1>1 DEF IsList
    <3> QED
      BY <3>1, <3>2, Zenon
  <2> QED
    BY <2>1, <1>3
<1>5. d \in [0..(g.max_elts - 1) -> Elts] /\ d[0] = v
      /\ \A i \in 1..obj.n_elts : d[i] = obj.data[i - 1]
  <2>1. d \in [0..(g.max_elts - 1) -> Elts] /\ d[0] = v
    BY <1>3, <1>4 DEF Elts
  <2>2. ASSUME NEW i \in 1..obj.n_elts PROVE d[i] = obj.data[i - 1]
    <3>1. i \in 0..(g.max_elts - 1) /\ i # 0 /\ i - 1 \in 0..(obj.n_elts - 1)
      BY <1>1 DEF IsList
    <3>2. d[i] = g.data[i - 1]
      BY <1>1, <1>3, <3>1
    <3> QED
      BY <1>1, <3>1, <3>2
  <2> QED
    BY <2>1, <2>2
<1>6. obj' = [n_elts |-> g.n_elts + 1, max_elts |-> g.max_elts, current |-> 0,
              last |-> g.last + 1, data |-> d, state |-> "ok"]
  BY <1>2, <1>3, Zenon DEF Added
<1> HIDE DEF d, s
<1>7. IsList(obj')
  BY <1>1, <1>5, <1>6, OneMore
<1>8. /\ abs'.seq = <<v>> \o abs.seq /\ abs.seq \in Seq(LstVals) /\ abs'.seq \in Seq(LstVals)
      /\ Len(abs'.seq) = Len(abs.seq) + 1 /\ obj.n_elts = Len(abs.seq)
      /\ abs'.seq[1] = v /\ \A i \in 1..Len(abs.seq) : abs'.seq[i + 1] = abs.seq[i]
  BY <1>2 DEF LstInv
<1>9. ASSUME NEW i \in 1..Len(abs'.seq) PROVE obj'.data[i - 1] = abs'.seq[i]
  <2>1. CASE i = 1
    BY <2>1, <1>5, <1>6, <1>8
  <2>2. CASE i # 1
    <3>1. i - 1 \in 1..obj.n_elts /\ i = (i - 1) + 1
      BY <2>2, <1>8
    <3>2. obj'.data[i - 1] = obj.data[(i - 1) - 1] /\ abs'.seq[i] = abs.seq[i - 1]
      BY <3>1, <1>5, <1>6, <1>8
    <3> QED
      BY <3>1, <3>2, <1>8 DEF LstInv
  <2> QED
    BY <2>1, <2>2
<1>10. abs' = [seq |-> abs'.seq, loop |-> abs'.loop, seen |-> abs'.seen]
  BY <1>2
<1>11. obj'.n_elts = Len(abs'.seq)
  BY <1>1, <1>6, <1>8
<1> QED
  BY <1>2, <1>7, <1>8, <1>9, <1>10, <1>11 DEF LstInv

\* The cursor moves; the list stays.
LEMMA CursorInv ==
    ASSUME LstInv, check_list_front \/ check_list_advance
    PROVE  LstInv'
<1>1. /\ obj' = [obj EXCEPT !.current = obj'.current] /\ obj'.current \in Int
      /\ abs' = [abs EXCEPT !.loop = abs'.loop, !.seen = abs'.seen]
      /\ UNCHANGED subject
  <2>1. CASE check_list_front
    BY <2>1 DEF check_list_front, Becomes, LstInv, IsList
  <2>2. CASE check_list_advance
    <3>1. obj' = [obj EXCEPT !.current = obj.current + 1] /\ UNCHANGED subject
          /\ abs' = [abs EXCEPT !.seen = Append(@, check_list_val(obj))]
      BY <2>2 DEF check_list_advance, Becomes
    <3>2. obj'.current = obj.current + 1 /\ obj.current \in Int
      BY <3>1 DEF LstInv, IsList
    <3>3. abs' = [abs EXCEPT !.loop = abs'.loop, !.seen = abs'.seen]
      BY <3>1, Zenon DEF LstInv
    <3> QED
      BY <3>1, <3>2, <3>3
  <2> QED
    BY <2>1, <2>2
<1>2. IsList(obj') /\ obj'.n_elts = obj.n_elts /\ obj'.data = obj.data
  BY <1>1 DEF LstInv, IsList
<1>3. abs'.seq = abs.seq /\ abs' = [seq |-> abs'.seq, loop |-> abs'.loop, seen |-> abs'.seen]
  BY <1>1, Zenon DEF LstInv
<1> QED
  BY <1>1, <1>2, <1>3 DEF LstInv

\* Nothing is called.
LEMMA LstStutters == LstInv /\ UNCHANGED subjectVars => LstInv'
  BY DEF LstInv, subjectVars

\* Every step of a list keeps its invariant.
LEMMA LstStep == LstInv /\ [LstNext]_subjectVars => LstInv'
  BY AddFrontInv, AddEndInv, CursorInv, LstStutters DEF LstNext

\* What the invariant says of the array
LEMMA LstInvHolds == LstInv => LstHolds
<1>1. LstInv => DOMAIN abs.seq = 1..Len(abs.seq)
  BY DEF LstInv
<1> QED
  BY <1>1 DEF LstInv, IsList, LstHolds

-----------------------------------------------------------------------------
(* Loops over a list *)

\* In a loop the cursor is behind the elements seen; it is -1 only in a list to
\* which nothing was ever added.
LoopInv ==
    /\ obj.current >= -1
    /\ obj.current = -1 => obj.n_elts = 0
    /\ abs.loop => /\ abs.seen \in Seq(LstVals)
                   /\ Len(abs.seen) <= Len(abs.seq)
                   /\ \A i \in 1 .. Len(abs.seen) : abs.seen[i] = abs.seq[i]
                   /\ Len(abs.seen) = IF obj.current = -1 THEN 0 ELSE obj.current

\* An addition leaves the cursor on the new element and ends the loop.
LEMMA AddLoop ==
    ASSUME LstInv, NEW v \in LstVals, check_list_add_front(v) \/ check_list_add_end(v)
    PROVE  LoopInv'
<1> DEFINE g == maybe_grow(obj)
<1>1. IsList(g)
  BY GrowKeeps DEF LstInv
<1>2. obj'.current \in {0, g.last + 1} /\ ~abs'.loop
  BY DEF check_list_add_front, check_list_add_end, Becomes, Added
<1> HIDE DEF g
<1>3. obj'.current \in Nat
  BY <1>1, <1>2 DEF IsList
<1> QED
  BY <1>2, <1>3 DEF LoopInv

\* check_list_front begins a loop.
LEMMA FrontLoop ==
    ASSUME LstInv, LoopInv, check_list_front
    PROVE  LoopInv'
<1>1. /\ obj' = [obj EXCEPT !.current = IF @ = -1 THEN @ ELSE 0]
      /\ abs' = [abs EXCEPT !.loop = TRUE, !.seen = <<>>]
  BY DEF check_list_front, Becomes
<1>2. obj'.current = (IF obj.current = -1 THEN -1 ELSE 0) /\ obj'.n_elts = obj.n_elts
  BY <1>1 DEF LstInv, IsList
<1>3. abs'.seen = <<>> /\ abs'.seq = abs.seq /\ abs.seq \in Seq(LstVals)
  BY <1>1 DEF LstInv
<1>4. Len(abs'.seen) = 0 /\ abs'.seen \in Seq(LstVals) /\ Len(abs'.seq) \in Nat
  BY <1>3
<1> QED
  BY <1>2, <1>3, <1>4 DEF LoopInv

\* check_list_advance passes over the next element.
LEMMA AdvanceLoop ==
    ASSUME LstInv, LoopInv, check_list_advance
    PROVE  LoopInv'
<1> DEFINE c == obj.current
           v == check_list_val(obj)
<1>1. /\ c # -1 /\ ~(c > obj.last)
      /\ obj' = [obj EXCEPT !.current = @ + 1]
      /\ abs' = [abs EXCEPT !.seen = Append(@, v)]
      /\ v = obj.data[c]
  BY DEF check_list_advance, check_list_at_end, check_list_val, Becomes
<1>2. c \in Nat /\ c < obj.n_elts /\ obj.n_elts = Len(abs.seq) /\ abs.seq \in Seq(LstVals)
  BY <1>1 DEF LstInv, IsList, LoopInv
<1>3. obj'.current = c + 1 /\ obj'.n_elts = obj.n_elts
  BY <1>1 DEF LstInv, IsList
<1>4. abs'.seq = abs.seq /\ abs'.loop = abs.loop /\ abs'.seen = Append(abs.seen, v)
  BY <1>1 DEF LstInv
<1>5. v = abs.seq[c + 1] /\ c + 1 \in 1 .. Len(abs.seq)
  <2>1. c + 1 \in 1 .. Len(abs.seq) /\ (c + 1) - 1 = c
    BY <1>2
  <2> QED
    BY <1>1, <2>1 DEF LstInv
<1>6. v \in LstVals
  BY <1>2, <1>5
<1> HIDE DEF c, v
<1>7. ASSUME abs.loop
      PROVE  /\ abs'.seen \in Seq(LstVals)
             /\ Len(abs'.seen) <= Len(abs'.seq)
             /\ \A i \in 1 .. Len(abs'.seen) : abs'.seen[i] = abs'.seq[i]
             /\ Len(abs'.seen) = c + 1
  <2>1. abs.seen \in Seq(LstVals) /\ Len(abs.seen) = c /\ \A i \in 1 .. Len(abs.seen) : abs.seen[i] = abs.seq[i]
    BY <1>1, <1>7 DEF LoopInv, c
  <2>2. /\ abs'.seen \in Seq(LstVals) /\ Len(abs'.seen) = c + 1 /\ abs'.seen[c + 1] = v
        /\ \A i \in 1 .. c : abs'.seen[i] = abs.seen[i]
    BY <1>2, <1>4, <1>6, <2>1
  <2>3. ASSUME NEW i \in 1 .. c + 1 PROVE abs'.seen[i] = abs'.seq[i]
    <3>1. CASE i = c + 1
      BY <1>4, <1>5, <2>2, <3>1
    <3>2. CASE i # c + 1
      BY <1>2, <1>4, <2>1, <2>2, <3>2
    <3> QED
      BY <3>1, <3>2
  <2> QED
    BY <1>2, <1>4, <2>2, <2>3
<1> QED
  BY <1>2, <1>3, <1>4, <1>7 DEF LoopInv

\* Sequences with the same elements are the same.
LEMMA SameSequence ==
    ASSUME NEW S, NEW s \in Seq(S), NEW t \in Seq(S), Len(s) = Len(t), \A i \in 1 .. Len(s) : s[i] = t[i]
    PROVE  s = t
OBVIOUS

\* What the invariants say of the elements seen
LEMMA LoopsInOrder ==
    ASSUME LstInv, LoopInv
    PROVE  LstLoops
<1> SUFFICES ASSUME abs.loop
             PROVE  /\ abs.seen = SubSeq(abs.seq, 1, Len(abs.seen))
                    /\ check_list_at_end(obj) => abs.seen = abs.seq
  BY DEF LstLoops
<1> DEFINE n == Len(abs.seen)
<1>1. /\ abs.seen \in Seq(LstVals) /\ abs.seq \in Seq(LstVals) /\ n \in Nat /\ Len(abs.seq) \in Nat
      /\ n <= Len(abs.seq) /\ \A i \in 1 .. n : abs.seen[i] = abs.seq[i]
  BY DEF LstInv, LoopInv
<1>2. abs.seen = SubSeq(abs.seq, 1, n)
  <2> DEFINE t == SubSeq(abs.seq, 1, n)
  <2>1. t \in Seq(LstVals) /\ Len(t) = n /\ \A i \in 1 .. n : t[i] = abs.seq[i]
    BY <1>1
  <2> HIDE DEF t
  <2>2. abs.seen = t
    BY <1>1, <2>1, SameSequence
  <2> QED
    BY <2>2 DEF t
<1>3. check_list_at_end(obj) => n = Len(abs.seq)
  BY <1>1 DEF check_list_at_end, LstInv, LoopInv, IsList
<1> QED
  BY <1>1, <1>2, <1>3, SameSequence

\* Every step of a list keeps what is known of the loop.
LEMMA LoopStep == LstInv /\ LoopInv /\ [LstNext]_subjectVars => LoopInv'
<1>1. LoopInv /\ UNCHANGED subjectVars => LoopInv'
  BY DEF LoopInv, subjectVars
<1> QED
  BY <1>1, AddLoop, FrontLoop, AdvanceLoop DEF LstNext

-----------------------------------------------------------------------------
(* Sequences *)

\* What \o gives
LEMMA Cat ==
    ASSUME NEW S, NEW s \in Seq(S), NEW t \in Seq(S)
    PROVE  /\ s \o t \in Seq(S) /\ Len(s \o t) = Len(s) + Len(t) /\ Len(s) \in Nat /\ Len(t) \in Nat
           /\ \A i \in 1 .. Len(s) : (s \o t)[i] = s[i]
           /\ \A i \in 1 .. Len(t) : (s \o t)[Len(s) + i] = t[i]
<1>1. s \o t \in Seq(S) /\ Len(s \o t) = Len(s) + Len(t) /\ Len(s) \in Nat /\ Len(t) \in Nat
  OBVIOUS
<1>2. \A i \in 1 .. Len(s) : (s \o t)[i] = s[i]
  OBVIOUS
<1>3. \A i \in 1 .. Len(t) : (s \o t)[Len(s) + i] = t[i]
  OBVIOUS
<1> QED
  BY <1>1, <1>2, <1>3

\* What SubSeq gives of the two parts of a sequence
LEMMA Parts ==
    ASSUME NEW S, NEW s \in Seq(S), NEW m \in 0 .. Len(s)
    PROVE  LET a == SubSeq(s, 1, m)
               b == SubSeq(s, m + 1, Len(s))
           IN  /\ a \in Seq(S) /\ Len(a) = m /\ \A i \in 1 .. m : a[i] = s[i]
               /\ b \in Seq(S) /\ Len(b) = Len(s) - m /\ \A i \in 1 .. Len(s) - m : b[i] = s[m + i]
               /\ s = a \o b
<1> DEFINE a == SubSeq(s, 1, m)
           b == SubSeq(s, m + 1, Len(s))
<1>1. a \in Seq(S) /\ Len(a) = m /\ \A i \in 1 .. m : a[i] = s[i]
  OBVIOUS
<1>2. b \in Seq(S) /\ Len(b) = Len(s) - m
  OBVIOUS
<1>3. \A i \in 1 .. Len(s) - m : b[i] = s[m + i]
  OBVIOUS
<1> HIDE DEF a, b
<1>4. /\ a \o b \in Seq(S) /\ Len(a \o b) = Len(s)
      /\ \A i \in 1 .. m : (a \o b)[i] = s[i]
      /\ \A i \in 1 .. Len(s) - m : (a \o b)[m + i] = s[m + i]
  <2>1. /\ a \o b \in Seq(S) /\ Len(a \o b) = Len(a) + Len(b)
        /\ \A i \in 1 .. Len(a) : (a \o b)[i] = a[i]
        /\ \A i \in 1 .. Len(b) : (a \o b)[Len(a) + i] = b[i]
    <3>1. a \in Seq(S) /\ b \in Seq(S)
      BY <1>1, <1>2, Zenon
    <3> QED
      BY <3>1, Cat
  <2>2. Len(a \o b) = Len(s)
    BY <1>1, <1>2, <2>1
  <2> QED
    BY <1>1, <1>2, <1>3, <2>1, <2>2, Zenon
<1>5. ASSUME NEW i \in 1 .. Len(s) PROVE (a \o b)[i] = s[i]
  <2>1. CASE i <= m
    BY <1>4, <2>1
  <2>2. CASE i > m
    <3>1. i - m \in 1 .. Len(s) - m /\ m + (i - m) = i
      BY <2>2
    <3> QED
      BY <1>4, <3>1, Zenon
  <2>3. i \in Nat /\ m \in Nat
    OBVIOUS
  <2>4. i <= m \/ i > m
    BY <2>3
  <2> QED
    BY <2>1, <2>2, <2>4, Zenon
<1>6. s = a \o b
  BY <1>4, <1>5, SameSequence, Zenon
<1> QED
  BY <1>1, <1>2, <1>3, <1>6, Zenon DEF a, b

\* \o is associative.
LEMMA CatAssoc ==
    ASSUME NEW S, NEW s \in Seq(S), NEW t \in Seq(S), NEW u \in Seq(S)
    PROVE  (s \o t) \o u = s \o (t \o u)
<1> DEFINE l == (s \o t) \o u
           r == s \o (t \o u)
<1>1. s \o t \in Seq(S) /\ t \o u \in Seq(S) /\ Len(s) \in Nat /\ Len(t) \in Nat /\ Len(u) \in Nat
      /\ Len(s \o t) = Len(s) + Len(t) /\ Len(t \o u) = Len(t) + Len(u)
  BY Cat
<1>2. l \in Seq(S) /\ r \in Seq(S) /\ Len(l) = Len(s) + Len(t) + Len(u) /\ Len(r) = Len(l)
  BY <1>1, Cat
<1>3. ASSUME NEW i \in 1 .. Len(l) PROVE l[i] = r[i]
  <2>1. CASE i <= Len(s)
    <3>1. i \in 1 .. Len(s) /\ i \in 1 .. Len(s \o t)
      BY <1>1, <2>1
    <3> QED
      BY <1>1, <3>1, Cat
  <2>2. CASE i > Len(s) /\ i <= Len(s) + Len(t)
    <3> DEFINE j == i - Len(s)
    <3>1. j \in 1 .. Len(t) /\ j \in 1 .. Len(t \o u) /\ i \in 1 .. Len(s \o t) /\ i = Len(s) + j
      BY <1>1, <1>2, <2>2
    <3> HIDE DEF j
    <3>2. l[i] = (s \o t)[i] /\ (s \o t)[i] = t[j] /\ r[i] = (t \o u)[j] /\ (t \o u)[j] = t[j]
      BY <1>1, <3>1, Cat
    <3> QED
      BY <3>2
  <2>3. CASE i > Len(s) + Len(t)
    <3> DEFINE j == i - Len(s)
               h == i - (Len(s) + Len(t))
    <3>1. j \in 1 .. Len(t \o u) /\ h \in 1 .. Len(u) /\ i = Len(s) + j /\ i = Len(s \o t) + h /\ j = Len(t) + h
      BY <1>1, <1>2, <2>3
    <3> HIDE DEF j, h
    <3>2. l[i] = u[h] /\ r[i] = (t \o u)[j] /\ (t \o u)[j] = u[h]
      BY <1>1, <3>1, Cat
    <3> QED
      BY <3>2
  <2> QED
    BY <1>1, <1>2, <2>1, <2>2, <2>3
<1> HIDE DEF l, r
<1>4. l = r
  BY <1>2, <1>3, SameSequence
<1> QED
  BY <1>4 DEF l, r

\* Two ways to cut a sequence in two
LEMMA Cuts ==
    ASSUME NEW S, NEW s \in Seq(S), NEW t \in Seq(S), NEW u \in Seq(S), NEW v \in Seq(S),
           s \o t = u \o v, Len(u) <= Len(s)
    PROVE  /\ SubSeq(s, 1, Len(u)) = u
           /\ v = SubSeq(s, Len(u) + 1, Len(s)) \o t
<1> DEFINE m == Len(u)
           a == SubSeq(s, 1, m)
           b == SubSeq(s, m + 1, Len(s))
<1>1. m \in 0 .. Len(s) /\ m \in Nat /\ Len(s) \in Nat /\ Len(t) \in Nat /\ Len(v) \in Nat
      /\ Len(s) + Len(t) = m + Len(v)
  <2>1. m \in Nat /\ Len(s) \in Nat /\ Len(t) \in Nat /\ Len(v) \in Nat
    BY Cat
  <2>2. Len(s \o t) = Len(s) + Len(t) /\ Len(u \o v) = m + Len(v)
    BY Cat
  <2> QED
    BY <2>1, <2>2
<1>2. /\ a \in Seq(S) /\ Len(a) = m /\ \A i \in 1 .. m : a[i] = s[i]
      /\ b \in Seq(S) /\ Len(b) = Len(s) - m /\ \A i \in 1 .. Len(s) - m : b[i] = s[m + i]
  BY <1>1, Parts
<1> HIDE DEF a, b
<1>3. \A i \in 1 .. m : a[i] = u[i]
  <2> TAKE i \in 1 .. m
  <2>1. i \in 1 .. Len(s)
    BY <1>1
  <2>2. (s \o t)[i] = s[i] /\ (u \o v)[i] = u[i]
    BY <2>1, Cat
  <2> QED
    BY <1>2, <2>2
<1>4. a = u
  BY <1>2, <1>3, SameSequence
<1>5. b \o t \in Seq(S) /\ Len(b \o t) = Len(v)
  BY <1>1, <1>2, Cat
<1>6. ASSUME NEW i \in 1 .. Len(v) PROVE v[i] = (b \o t)[i]
  <2>1. (u \o v)[m + i] = v[i]
    BY Cat
  <2>2. CASE i <= Len(s) - m
    <3>1. i \in 1 .. Len(b) /\ m + i \in 1 .. Len(s) /\ i \in 1 .. Len(s) - m
      BY <1>1, <1>2, <2>2
    <3>2. (s \o t)[m + i] = s[m + i] /\ (b \o t)[i] = b[i] /\ b[i] = s[m + i]
      BY <1>2, <3>1, Cat
    <3> QED
      BY <2>1, <3>2
  <2>3. CASE i > Len(s) - m
    <3> DEFINE h == i - (Len(s) - m)
    <3>1. h \in 1 .. Len(t) /\ m + i = Len(s) + h /\ i = Len(b) + h
      BY <1>1, <1>2, <2>3
    <3> HIDE DEF h
    <3>2. \A j \in 1 .. Len(t) : (s \o t)[Len(s) + j] = t[j]
      BY Cat
    <3>3. \A j \in 1 .. Len(t) : (b \o t)[Len(b) + j] = t[j]
      <4>1. b \in Seq(S)
        BY <1>2, Zenon
      <4> QED
        BY <4>1
    <3>4. (s \o t)[Len(s) + h] = t[h] /\ (b \o t)[Len(b) + h] = t[h]
      BY <3>1, <3>2, <3>3, Zenon
    <3> QED
      BY <2>1, <3>1, <3>4
  <2>4. i \in Nat /\ Len(s) - m \in Int
    BY <1>1
  <2>5. i <= Len(s) - m \/ i > Len(s) - m
    BY <2>4
  <2> QED
    BY <2>2, <2>3, <2>5, Zenon
<1>7. v = b \o t
  BY <1>5, <1>6, SameSequence, Zenon
<1> QED
  BY <1>4, <1>7 DEF a, b

\* The second parts of two cuts at the same place
LEMMA SameRest ==
    ASSUME NEW S, NEW s \in Seq(S), NEW t \in Seq(S), NEW u \in Seq(S), s \o t = s \o u
    PROVE  t = u
<1>1. Len(s) \in Nat /\ Len(t) \in Nat /\ Len(u) \in Nat /\ Len(s) + Len(t) = Len(s) + Len(u)
  <2>1. Len(s \o t) = Len(s) + Len(t) /\ Len(s \o u) = Len(s) + Len(u) /\ Len(s) \in Nat /\ Len(t) \in Nat /\ Len(u) \in Nat
    BY Cat
  <2> QED
    BY <2>1
<1>2. Len(t) = Len(u)
  BY <1>1
<1>3. \A i \in 1 .. Len(t) : t[i] = u[i]
  <2> TAKE i \in 1 .. Len(t)
  <2>1. (s \o t)[Len(s) + i] = t[i]
    BY Cat
  <2>2. (s \o u)[Len(s) + i] = u[i]
    BY <1>2, Cat
  <2> QED
    BY <2>1, <2>2
<1> QED
  BY <1>2, <1>3, SameSequence

-----------------------------------------------------------------------------
(* The messages of a test in their file *)

\* A non-empty set of natural numbers has a least element.
LEMMA LeastNumber ==
    ASSUME NEW T, T \subseteq Nat, T # {}
    PROVE  \E x \in T : \A y \in T : x <= y
<1> DEFINE R == OpToRel(<, Nat)
<1>1. IsWellFoundedOn(R, Nat)
  BY NatLessThanWellFounded, Zenon
<1>2. \A x, y \in Nat : x < y => <<x, y>> \in R
  BY DEF OpToRel
<1> HIDE DEF R
<1>3. PICK x \in T : \A y \in T : ~(<<y, x>> \in R)
  BY <1>1, WFMin, Zenon
<1>4. \A y \in T : ~(y < x)
  BY <1>2, <1>3, Zenon
<1>5. \A y \in T : x <= y
  BY <1>4
<1> QED
  BY <1>5

\* The first m messages can be packed.
LEMMA PacksUpTo ==
    ASSUME NEW lens, NEW m \in Nat
    PROVE  \E g : g = [i \in 0 .. m |-> IF i = 0 THEN <<>> ELSE g[i - 1] \o ppack(i, lens[i])]
<1> DEFINE F(g, k) == g = [i \in 0 .. k |-> IF i = 0 THEN <<>> ELSE g[i - 1] \o ppack(i, lens[i])]
           T == {k \in Nat : ~\E g : F(g, k)}
<1>1. ASSUME T # {} PROVE FALSE
  <2>1. PICK k \in T : \A y \in T : k <= y
    BY <1>1, LeastNumber, Zenon
  <2>2. k \in Nat /\ ~\E g : F(g, k)
    BY <2>1, Zenon
  <2>3. CASE k = 0
    <3> DEFINE g == [i \in 0 .. 0 |-> <<>>]
    <3>1. g = [i \in 0 .. 0 |-> IF i = 0 THEN <<>> ELSE g[i - 1] \o ppack(i, lens[i])]
      BY SMT
    <3> HIDE DEF g
    <3>2. F(g, k)
      BY <2>3, <3>1
    <3> QED
      BY <2>2, <3>2
  <2>4. CASE k # 0
    <3>1. k - 1 \in Nat /\ k - 1 \notin T
      <4>1. k - 1 \in Nat /\ ~(k <= k - 1)
        BY <2>2, <2>4
      <4> HIDE DEF T
      <4> QED
        BY <2>1, <4>1
    <3>2. PICK h : F(h, k - 1)
      BY <3>1, Zenon
    <3> DEFINE g == [i \in 0 .. k |-> IF i = k THEN h[k - 1] \o ppack(k, lens[k]) ELSE h[i]]
    <3>3. \A i \in 0 .. k - 1 : h[i] = IF i = 0 THEN <<>> ELSE h[i - 1] \o ppack(i, lens[i])
      BY <3>2, Zenon
    <3>4. ASSUME NEW i \in 0 .. k
          PROVE  g[i] = IF i = 0 THEN <<>> ELSE g[i - 1] \o ppack(i, lens[i])
      <4>1. CASE i = k
        <5>1. g[i] = h[k - 1] \o ppack(k, lens[k])
          BY <4>1, Zenon
        <5>2. k - 1 \in 0 .. k /\ k - 1 # k
          BY <2>2, <2>4
        <5>3. g[k - 1] = h[k - 1]
          BY <5>2
        <5> QED
          BY <2>4, <4>1, <5>1, <5>3, Zenon
      <4>2. CASE i # k
        <5>1. i \in 0 .. k - 1 /\ g[i] = h[i]
          BY <2>2, <4>2
        <5>2. i # 0 => i - 1 \in 0 .. k /\ i - 1 # k
          BY <2>2, <5>1
        <5>3. i # 0 => g[i - 1] = h[i - 1]
          BY <5>2
        <5> HIDE DEF g
        <5> QED
          BY <3>3, <5>1, <5>3
      <4> QED
        BY <4>1, <4>2
    <3>5. DOMAIN g = 0 .. k /\ g = [i \in 0 .. k |-> g[i]]
      OBVIOUS
    <3> HIDE DEF g
    <3>6. F(g, k)
      BY <3>4, <3>5, Zenon
    <3> QED
      BY <2>2, <3>6
  <2> QED
    BY <2>3, <2>4
<1>2. m \notin T
  BY <1>1, Zenon
<1> QED
  BY <1>2, Zenon

\* pack: each message lies behind the ones before.
LEMMA Packs ==
    ASSUME NEW lens, Len(lens) \in Nat
    PROVE  /\ Packing(lens)[0] = <<>>
           /\ \A i \in 1 .. Len(lens) : Packing(lens)[i] = Packing(lens)[i - 1] \o ppack(i, lens[i])
<1> DEFINE F(g) == g = [i \in 0 .. Len(lens) |-> IF i = 0 THEN <<>> ELSE g[i - 1] \o ppack(i, lens[i])]
           c == CHOOSE g : F(g)
<1>1. \E g : F(g)
  BY PacksUpTo, Zenon
<1>2. F(c)
  BY <1>1, Zenon
<1>3. Packing(lens) = c
  BY DEF Packing
<1> HIDE DEF c
<1>4. \A i \in 0 .. Len(lens) : c[i] = IF i = 0 THEN <<>> ELSE c[i - 1] \o ppack(i, lens[i])
  BY <1>2, Zenon
<1>5. 0 \in 0 .. Len(lens) /\ \A i \in 1 .. Len(lens) : i \in 0 .. Len(lens) /\ i # 0
  OBVIOUS
<1> QED
  BY <1>3, <1>4, <1>5, Zenon

Bytes == [msg : Nat, at : Nat, n : Nat]

\* The same for bytes
LEMMA BytesAssoc == \A s, t, u \in Seq(Bytes) : (s \o t) \o u = s \o (t \o u)
  BY CatAssoc

\* The two parts of a sequence of bytes
LEMMA BytesParts ==
    \A s \in Seq(Bytes) : \A m \in 0 .. Len(s) :
        /\ SubSeq(s, 1, m) \in Seq(Bytes) /\ Len(SubSeq(s, 1, m)) = m
        /\ SubSeq(s, m + 1, Len(s)) \in Seq(Bytes) /\ Len(SubSeq(s, m + 1, Len(s))) = Len(s) - m
        /\ s = SubSeq(s, 1, m) \o SubSeq(s, m + 1, Len(s))
<1> SUFFICES ASSUME NEW s \in Seq(Bytes), NEW m \in 0 .. Len(s)
             PROVE  /\ SubSeq(s, 1, m) \in Seq(Bytes) /\ Len(SubSeq(s, 1, m)) = m
                    /\ SubSeq(s, m + 1, Len(s)) \in Seq(Bytes) /\ Len(SubSeq(s, m + 1, Len(s))) = Len(s) - m
                    /\ s = SubSeq(s, 1, m) \o SubSeq(s, m + 1, Len(s))
  BY Zenon
<1>1. SubSeq(s, 1, m) \in Seq(Bytes) /\ Len(SubSeq(s, 1, m)) = m
  OBVIOUS
<1>2. SubSeq(s, m + 1, Len(s)) \in Seq(Bytes) /\ Len(SubSeq(s, m + 1, Len(s))) = Len(s) - m
  OBVIOUS
<1>3. s = SubSeq(s, 1, m) \o SubSeq(s, m + 1, Len(s))
  BY Parts, Zenon
<1> QED
  BY <1>1, <1>2, <1>3, Zenon

\* Two ways to cut a sequence of bytes in two
LEMMA BytesCuts ==
    ASSUME NEW s \in Seq(Bytes), NEW t \in Seq(Bytes), NEW u \in Seq(Bytes), NEW v \in Seq(Bytes),
           s \o t = u \o v, Len(u) <= Len(s)
    PROVE  SubSeq(s, 1, Len(u)) = u /\ v = SubSeq(s, Len(u) + 1, Len(s)) \o t
  BY Cuts, Zenon

\* A message and what of it upack looks at
LEMMA Packed ==
    ASSUME NEW i \in Nat, NEW n \in Nat
    PROVE  /\ ppack(i, n) \in Seq(Bytes) /\ Len(ppack(i, n)) = n
           /\ n > 0 => ppack(i, n)[1] = [msg |-> i, at |-> 1, n |-> n]
<1>1. \A j \in 1 .. n : [msg |-> i, at |-> j, n |-> n] \in Bytes
  BY DEF Bytes
<1> QED
  BY <1>1 DEF ppack

\* The file after each message is a sequence of bytes.
LEMMA FileTypes ==
    ASSUME NEW lens \in Seq(Nat), NEW m \in 0 .. Len(lens)
    PROVE  Packing(lens)[m] \in Seq(Bytes)
<1> DEFINE P == Packing(lens)
           T == {k \in 0 .. Len(lens) : P[k] \notin Seq(Bytes)}
<1>1. Len(lens) \in Nat /\ \A i \in 1 .. Len(lens) : lens[i] \in Nat
  OBVIOUS
<1>2. P[0] = <<>> /\ \A i \in 1 .. Len(lens) : P[i] = P[i - 1] \o ppack(i, lens[i])
  BY <1>1, Packs, Zenon
<1> HIDE DEF P
<1>3. ASSUME T # {} PROVE FALSE
  <2>1. PICK k \in T : \A y \in T : k <= y
    <3>1. T \subseteq Nat
      BY <1>1
    <3> QED
      BY <1>3, <3>1, LeastNumber, Zenon
  <2>2. k \in 0 .. Len(lens) /\ P[k] \notin Seq(Bytes)
    BY <2>1
  <2>3. k # 0
    <3>1. <<>> \in Seq(Bytes)
      OBVIOUS
    <3> QED
      BY <1>2, <2>2, <3>1, Zenon
  <2>4. k \in 1 .. Len(lens) /\ k - 1 \in 0 .. Len(lens) /\ ~(k <= k - 1) /\ k \in Nat
    BY <1>1, <2>2, <2>3
  <2>5. P[k - 1] \in Seq(Bytes)
    BY <2>1, <2>4
  <2>6. ppack(k, lens[k]) \in Seq(Bytes)
    BY <1>1, <2>4, Packed, Zenon
  <2>7. P[k - 1] \o ppack(k, lens[k]) \in Seq(Bytes)
    BY <2>5, <2>6, Cat
  <2> QED
    BY <1>2, <2>2, <2>4, <2>7, Zenon
<1> QED
  BY <1>3 DEF P

\* The file begins with each of the files before.
StartsWith(lens, k) == \E x \in Seq(Bytes) : PackedFile(lens) = Packing(lens)[k] \o x

\* pack: the file begins with each of the files before.
LEMMA FileBegins ==
    ASSUME NEW lens \in Seq(Nat), NEW m \in 0 .. Len(lens)
    PROVE  StartsWith(lens, m)
<1> DEFINE P == Packing(lens)
           n == Len(lens)
           T == {d \in 0 .. n : ~StartsWith(lens, n - d)}
<1>1. n \in Nat /\ \A i \in 1 .. n : lens[i] \in Nat
  OBVIOUS
<1>2. \A i \in 1 .. n : P[i] = P[i - 1] \o ppack(i, lens[i])
  BY <1>1, Packs, Zenon
<1>3. \A i \in 0 .. n : P[i] \in Seq(Bytes)
  BY FileTypes
<1>4. PackedFile(lens) = P[n]
  BY DEF PackedFile
<1> HIDE DEF P, n
<1>5. ASSUME T # {} PROVE FALSE
  <2>1. PICK d \in T : \A y \in T : d <= y
    <3>1. T \subseteq Nat
      BY <1>1
    <3> QED
      BY <1>5, <3>1, LeastNumber, Zenon
  <2>2. d \in 0 .. n /\ ~StartsWith(lens, n - d)
    BY <2>1
  <2>3. d # 0
    <3> SUFFICES ASSUME d = 0 PROVE FALSE
      OBVIOUS
    <3>1. n - d = n /\ n \in 0 .. n
      BY <1>1
    <3>2. <<>> \in Seq(Bytes) /\ P[n] = P[n] \o <<>>
      BY <1>3, <3>1
    <3>3. StartsWith(lens, n)
      BY <1>4, <3>2, Zenon DEF StartsWith, P
    <3> QED
      BY <2>2, <3>1, <3>3
  <2> DEFINE k == n - d
             q == ppack(k + 1, lens[k + 1])
  <2>4. /\ k \in 0 .. n /\ k + 1 \in 1 .. n /\ k + 1 \in 0 .. n /\ (k + 1) - 1 = k /\ k + 1 \in Nat
        /\ d - 1 \in 0 .. n /\ n - (d - 1) = k + 1 /\ ~(d <= d - 1)
    BY <1>1, <2>2, <2>3
  <2>5. StartsWith(lens, k + 1)
    <3>1. d - 1 \notin T
      <4> HIDE DEF T, k
      <4> QED
        BY <2>1, <2>4
    <3> QED
      BY <2>4, <3>1
  <2>6. PICK x \in Seq(Bytes) : P[n] = P[k + 1] \o x
    BY <1>4, <2>5 DEF StartsWith, P
  <2> HIDE DEF k
  <2>7. P[k + 1] = P[k] \o q /\ P[k] \in Seq(Bytes)
    BY <1>2, <1>3, <2>4, Zenon
  <2>8. q \in Seq(Bytes)
    BY <1>1, <2>4, Packed, Zenon
  <2> HIDE DEF q
  <2>9. q \o x \in Seq(Bytes) /\ P[n] = P[k] \o (q \o x)
    <3>1. q \o x \in Seq(Bytes)
      BY <2>8, Cat
    <3>2. (P[k] \o q) \o x = P[k] \o (q \o x)
      BY <2>7, <2>8, BytesAssoc, Zenon
    <3> QED
      BY <2>6, <2>7, <3>1, <3>2
  <2>10. StartsWith(lens, k)
    BY <1>4, <2>9, Zenon DEF StartsWith, P
  <2> QED
    BY <2>2, <2>10 DEF k
<1>6. n - m \in 0 .. n /\ n - (n - m) = m
  BY <1>1 DEF n
<1>7. n - m \notin T
  BY <1>5
<1> QED
  BY <1>6, <1>7

\* What is found and what is still in the buffer and in the file.  Unless all was
\* read, the buffer is full: it holds the whole of the next message, which is not
\* longer than half of it.
PackInv ==
    /\ subject = "pack"
    /\ obj = [buf |-> obj.buf, file |-> obj.file, nread |-> obj.nread]
    /\ abs = [lens |-> abs.lens, found |-> abs.found]
    /\ abs.lens \in Seq(MessageLengths)
    /\ obj.buf \in Seq(Bytes) /\ obj.file \in Seq(Bytes) /\ obj.nread \in Nat
    /\ abs.found \in Seq([msg : Nat, whole : BOOLEAN]) /\ Len(abs.found) <= Len(abs.lens)
    /\ \A i \in 1 .. Len(abs.found) : abs.found[i] = [msg |-> i, whole |-> TRUE]
    /\ PackedFile(abs.lens) = Packing(abs.lens)[Len(abs.found)] \o (obj.buf \o obj.file)
    /\ Len(obj.file) > 0 => obj.nread > 0 /\ Len(obj.buf) = CK_MAX_MSG_SIZE

\* Messages of any lengths that ppack accepts
PackSpec == (\E lens \in Seq(MessageLengths) : PackStart(lens)) /\ [][PackNext]_subjectVars

\* ppack: the lengths of the messages it accepts
LEMMA Lengths ==
    ASSUME NEW lens \in Seq(MessageLengths)
    PROVE  /\ lens \in Seq(Nat) /\ Len(lens) \in Nat
           /\ \A i \in 1 .. Len(lens) : lens[i] \in Nat /\ lens[i] > 0 /\ 2 * lens[i] <= CK_MAX_MSG_SIZE
<1>1. \A i \in 1 .. Len(lens) : lens[i] \in MessageLengths
  OBVIOUS
<1>2. \A n \in MessageLengths : n \in Nat /\ n > 0 /\ 2 * n <= CK_MAX_MSG_SIZE
  BY PackAssumption DEF MessageLengths
<1>3. lens \in Seq(Nat) /\ Len(lens) \in Nat
  BY <1>2
<1> QED
  BY <1>1, <1>2, <1>3

\* punpack's first read
LEMMA PackStartInv ==
    ASSUME NEW lens \in Seq(MessageLengths), PackStart(lens)
    PROVE  PackInv
<1> DEFINE file == PackedFile(lens)
           n0   == Smallest(CK_MAX_MSG_SIZE, Len(file))
           b    == SubSeq(file, 1, n0)
           r    == SubSeq(file, n0 + 1, Len(file))
<1>1. subject = "pack" /\ obj = [buf |-> b, file |-> r, nread |-> n0] /\ abs = [lens |-> lens, found |-> <<>>]
  BY DEF PackStart
<1>2. lens \in Seq(Nat) /\ Len(lens) \in Nat
  BY Lengths
<1>3. file \in Seq(Bytes) /\ file = Packing(lens)[Len(lens)]
  BY <1>2, FileTypes DEF PackedFile
<1> HIDE DEF file
<1>4. n0 \in 0 .. Len(file) /\ n0 <= CK_MAX_MSG_SIZE /\ (n0 < Len(file) => n0 = CK_MAX_MSG_SIZE)
  BY <1>3, PackAssumption DEF Smallest
<1> HIDE DEF n0
<1>5. b \in Seq(Bytes) /\ Len(b) = n0 /\ r \in Seq(Bytes) /\ Len(r) = Len(file) - n0 /\ file = b \o r
  <2>1. file \in Seq(Bytes) /\ n0 \in 0 .. Len(file)
    BY <1>3, <1>4
  <2> QED
    BY <2>1, BytesParts, Zenon
<1> HIDE DEF b, r
<1>6. Packing(lens)[0] = <<>>
  BY <1>2, Packs, Zenon
<1>7. b \o r \in Seq(Bytes)
  BY <1>5, Cat
<1>8. <<>> \o (b \o r) = b \o r
  BY <1>7
<1>9. Len(r) > 0 => n0 > 0 /\ n0 = CK_MAX_MSG_SIZE
  <2> SUFFICES ASSUME Len(r) > 0 PROVE n0 > 0 /\ n0 = CK_MAX_MSG_SIZE
    OBVIOUS
  <2>1. n0 < Len(file) /\ Len(file) > 0
    BY <1>3, <1>4, <1>5
  <2>2. Len(lens) # 0
    <3> SUFFICES ASSUME Len(lens) = 0 PROVE FALSE
      OBVIOUS
    <3>1. file = <<>>
      BY <1>3, <1>6
    <3> QED
      BY <2>1, <3>1
  <2>3. 1 \in 1 .. Len(lens)
    BY <1>2, <2>2
  <2>4. lens[1] \in Nat /\ lens[1] > 0 /\ 2 * lens[1] <= CK_MAX_MSG_SIZE
    BY <2>3, Lengths
  <2>5. CK_MAX_MSG_SIZE > 0
    BY <2>4, PackAssumption
  <2> QED
    BY <1>4, <2>1, <2>5
<1>10. n0 \in Nat
  BY <1>3, <1>4
<1>11. abs.found = <<>> /\ abs.lens = lens /\ obj.buf = b /\ obj.file = r /\ obj.nread = n0
  BY <1>1
<1>12. Len(abs.found) = 0 /\ abs.found \in Seq([msg : Nat, whole : BOOLEAN])
  BY <1>11
<1>13. PackedFile(abs.lens) = Packing(abs.lens)[Len(abs.found)] \o (obj.buf \o obj.file)
  BY <1>5, <1>6, <1>8, <1>11, <1>12, Zenon DEF file
<1>14. /\ obj = [buf |-> obj.buf, file |-> obj.file, nread |-> obj.nread]
       /\ abs = [lens |-> abs.lens, found |-> abs.found]
  BY <1>1
<1>15. Len(abs.found) <= Len(abs.lens) /\ \A i \in 1 .. Len(abs.found) : abs.found[i] = [msg |-> i, whole |-> TRUE]
  BY <1>2, <1>11, <1>12
<1> QED
  BY <1>1, <1>5, <1>9, <1>10, <1>11, <1>12, <1>13, <1>14, <1>15, Zenon DEF PackInv

\* Something is left: it begins with the next message.
LEMMA NextMessage ==
    ASSUME PackInv, Len(abs.found) < Len(abs.lens)
    PROVE  LET k == Len(abs.found)
               n == abs.lens[k + 1]
           IN  /\ k \in Nat /\ k + 1 \in 1 .. Len(abs.lens)
               /\ n \in Nat /\ n > 0 /\ 2 * n <= CK_MAX_MSG_SIZE
               /\ \E x \in Seq(Bytes) :
                     /\ obj.buf \o obj.file = ppack(k + 1, n) \o x
                     /\ PackedFile(abs.lens) = Packing(abs.lens)[k + 1] \o x
<1> DEFINE k == Len(abs.found)
           n == abs.lens[k + 1]
           P == Packing(abs.lens)
           q == ppack(k + 1, n)
           z == obj.buf \o obj.file
<1>1. k \in Nat /\ Len(abs.lens) \in Nat /\ abs.lens \in Seq(MessageLengths) /\ abs.lens \in Seq(Nat)
  BY Lengths DEF PackInv
<1>2. k + 1 \in 1 .. Len(abs.lens) /\ k \in 0 .. Len(abs.lens) /\ k + 1 \in 0 .. Len(abs.lens) /\ (k + 1) - 1 = k
  BY <1>1
<1>3. n \in Nat /\ n > 0 /\ 2 * n <= CK_MAX_MSG_SIZE
  BY <1>1, <1>2, Lengths
<1>4. z \in Seq(Bytes) /\ PackedFile(abs.lens) = P[k] \o z
  BY Cat DEF PackInv
<1>5. P[k + 1] = P[k] \o q
  BY <1>1, <1>2, Packs, Zenon
<1>6. P[k] \in Seq(Bytes)
  BY <1>1, <1>2, FileTypes
<1>7. q \in Seq(Bytes)
  <2>1. k + 1 \in Nat
    BY <1>1
  <2> QED
    BY <1>3, <2>1, Packed, Zenon
<1>8. PICK x \in Seq(Bytes) : PackedFile(abs.lens) = P[k + 1] \o x
  BY <1>1, <1>2, FileBegins, Zenon DEF StartsWith
<1> HIDE DEF P, q, z, n, k
<1>9. q \o x \in Seq(Bytes)
  BY <1>7, Cat
<1>10. (P[k] \o q) \o x = P[k] \o (q \o x)
  BY <1>6, <1>7, BytesAssoc, Zenon
<1>11. P[k] \o z = P[k] \o (q \o x)
  BY <1>4, <1>5, <1>8, <1>10
<1>12. z = q \o x
  BY <1>4, <1>6, <1>9, <1>11, SameRest, Zenon
<1> QED
  BY <1>1, <1>2, <1>3, <1>8, <1>12, Zenon DEF P, q, z, n, k

\* Lengths that add nothing
LEMMA NothingMore ==
    ASSUME NEW a \in Nat, NEW b \in Nat, NEW c \in Nat, NEW l, l = a + (b + c), l <= a
    PROVE  b = 0 /\ c = 0
OBVIOUS

\* When all messages have been found the buffer is empty.
LEMMA AllFound ==
    ASSUME PackInv, ~(Len(abs.found) < Len(abs.lens))
    PROVE  obj.buf = <<>> /\ obj.file = <<>> /\ Len(abs.found) = Len(abs.lens)
<1> DEFINE k == Len(abs.found)
           p == Packing(abs.lens)[k]
           z == obj.buf \o obj.file
<1>1. k \in Nat /\ Len(abs.lens) \in Nat /\ abs.lens \in Seq(Nat) /\ k = Len(abs.lens)
  BY Lengths DEF PackInv
<1>2. z \in Seq(Bytes) /\ Len(z) = Len(obj.buf) + Len(obj.file) /\ Len(obj.buf) \in Nat /\ Len(obj.file) \in Nat
  BY Cat DEF PackInv
<1>3. p \in Seq(Bytes)
  BY <1>1, FileTypes
<1>4. p = p \o z
  BY <1>1, Zenon DEF PackInv, PackedFile
<1> HIDE DEF p, z
<1>5. Len(p \o z) = Len(p) + Len(z) /\ Len(p) \in Nat
  BY <1>2, <1>3, Cat, Zenon
<1>6. Len(obj.buf) = 0 /\ Len(obj.file) = 0
  <2> DEFINE lp == Len(p)
             l  == Len(p \o z)
  <2>1. l <= lp
    <3>1. lp = l
      BY <1>4, Zenon
    <3>2. lp \in Nat
      BY <1>5
    <3> QED
      BY <3>1, <3>2
  <2>2. l = lp + (Len(obj.buf) + Len(obj.file)) /\ lp \in Nat
    BY <1>2, <1>5
  <2>3. Len(obj.buf) \in Nat /\ Len(obj.file) \in Nat
    BY <1>2
  <2> HIDE DEF lp, l
  <2> QED
    BY <2>1, <2>2, <2>3, NothingMore, Zenon
<1>7. obj.buf = <<>> /\ obj.file = <<>>
  BY <1>6 DEF PackInv
<1> QED
  BY <1>1, <1>7 DEF k

\* Buffer b and file f go on with a message and then with x.
GoesOn(b, f, i, n, x) == b \o f = ppack(i, n) \o x

\* The next message is in the buffer as a whole, and what lies behind it goes on with
\* the rest.
LEMMA InBuffer ==
    ASSUME NEW b \in Seq(Bytes), NEW f \in Seq(Bytes), NEW x \in Seq(Bytes), NEW i \in Nat, NEW n \in Nat, n > 0,
           GoesOn(b, f, i, n, x), Len(f) > 0 => n <= Len(b)
    PROVE  /\ n <= Len(b) /\ b[1] = [msg |-> i, at |-> 1, n |-> n]
           /\ upack(b) = [n |-> n, whole |-> TRUE]
           /\ x = SubSeq(b, n + 1, Len(b)) \o f
<1> DEFINE q == ppack(i, n)
<1>1. q \in Seq(Bytes) /\ Len(q) = n /\ q[1] = [msg |-> i, at |-> 1, n |-> n]
  BY Packed
<1>2. b \o f = q \o x
  BY DEF GoesOn
<1> HIDE DEF q
<1>3. n <= Len(b)
  <2>1. Len(b \o f) = Len(b) + Len(f) /\ Len(b) \in Nat /\ Len(f) \in Nat
    BY Cat
  <2>2. Len(q \o x) = n + Len(x) /\ Len(x) \in Nat
    BY <1>1, Cat, Zenon
  <2> QED
    BY <1>2, <2>1, <2>2
<1>4. SubSeq(b, 1, n) = q /\ x = SubSeq(b, n + 1, Len(b)) \o f
  BY <1>1, <1>2, <1>3, BytesCuts, Zenon
<1>5. b[1] = q[1]
  <2>1. Len(b) \in Nat /\ 1 \in 1 .. Len(b) /\ 1 \in 1 .. n
    BY <1>3
  <2>2. SubSeq(b, 1, n)[1] = b[1]
    BY <1>3, <2>1
  <2> QED
    BY <1>4, <2>2
<1>6. b[1].n = n /\ b[1].msg = i
  BY <1>1, <1>5
<1>7. upack(b) = [n |-> n, whole |-> TRUE]
  BY <1>3, <1>4, <1>6, Zenon DEF upack, q
<1> QED
  BY <1>1, <1>3, <1>4, <1>5, <1>7

\* read_buf takes a part of the file behind what is left in the buffer.
LEMMA Refilled ==
    ASSUME NEW r \in Seq(Bytes), NEW f \in Seq(Bytes), NEW m \in 0 .. Len(f)
    PROVE  LET b == r \o SubSeq(f, 1, m)
               g == SubSeq(f, m + 1, Len(f))
           IN  /\ b \in Seq(Bytes) /\ g \in Seq(Bytes) /\ Len(b) = Len(r) + m /\ Len(g) = Len(f) - m
               /\ b \o g = r \o f
<1> DEFINE a == SubSeq(f, 1, m)
           g == SubSeq(f, m + 1, Len(f))
<1>1. a \in Seq(Bytes) /\ Len(a) = m /\ g \in Seq(Bytes) /\ Len(g) = Len(f) - m /\ f = a \o g
  BY BytesParts, Zenon
<1> HIDE DEF a, g
<1>2. r \o a \in Seq(Bytes) /\ Len(r \o a) = Len(r) + m
  BY <1>1, Cat, Zenon
<1>3. (r \o a) \o g = r \o (a \o g)
  <2>1. a \in Seq(Bytes) /\ g \in Seq(Bytes)
    BY <1>1, Zenon
  <2> QED
    BY <2>1, BytesAssoc, Zenon
<1>4. (r \o a) \o g = r \o f
  BY <1>1, <1>3, Zenon
<1> QED
  BY <1>1, <1>2, <1>4, Zenon DEF a, g

\* punpack: one message, and the buffer is filled again.
LEMMA PackParseInv ==
    ASSUME PackInv, PackParse
    PROVE  PackInv'
<1> DEFINE k == Len(abs.found)
           n == abs.lens[k + 1]
           b == obj.buf
           f == obj.file
           P == Packing(abs.lens)
           r == SubSeq(b, n + 1, Len(b))
           m == IF obj.nread > 0 THEN Smallest(n, Len(f)) ELSE 0
           c == r \o SubSeq(f, 1, m)
           g == SubSeq(f, m + 1, Len(f))
<1>1. b # <<>> /\ b \in Seq(Bytes) /\ f \in Seq(Bytes) /\ obj.nread \in Nat
      /\ (Len(f) > 0 => obj.nread > 0 /\ Len(b) = CK_MAX_MSG_SIZE)
  BY DEF PackParse, PackInv
<1>2. k < Len(abs.lens)
  BY <1>1, AllFound
<1>3. /\ k \in Nat /\ k + 1 \in 1 .. Len(abs.lens) /\ n \in Nat /\ n > 0 /\ 2 * n <= CK_MAX_MSG_SIZE
      /\ \E x \in Seq(Bytes) : b \o f = ppack(k + 1, n) \o x /\ PackedFile(abs.lens) = P[k + 1] \o x
  BY <1>2, NextMessage, Zenon
<1>4. PICK x \in Seq(Bytes) : b \o f = ppack(k + 1, n) \o x /\ PackedFile(abs.lens) = P[k + 1] \o x
  BY <1>3, Zenon
<1>5. /\ n <= Len(b) /\ b[1] = [msg |-> k + 1, at |-> 1, n |-> n]
      /\ upack(b) = [n |-> n, whole |-> TRUE] /\ x = r \o f
  <2>1. k + 1 \in Nat
    BY <1>3
  <2> HIDE DEF b, f, n, k, P
  <2>2. Len(f) > 0 => n <= Len(b)
    BY <1>1, <1>3, PackAssumption
  <2>3. b \o f = ppack(k + 1, n) \o x
    BY <1>4
  <2> QED
    <3>1. b \in Seq(Bytes) /\ f \in Seq(Bytes) /\ n \in Nat /\ n > 0
      BY <1>1, <1>3
    <3> DEFINE i == k + 1
    <3>2. i \in Nat /\ GoesOn(b, f, i, n, x)
      BY <2>1, <2>3 DEF GoesOn
    <3> HIDE DEF i
    <3>3. /\ n <= Len(b) /\ b[1] = [msg |-> i, at |-> 1, n |-> n]
          /\ upack(b) = [n |-> n, whole |-> TRUE] /\ x = SubSeq(b, n + 1, Len(b)) \o f
      BY <2>2, <3>1, <3>2, InBuffer, Zenon
    <3> QED
      BY <3>3 DEF i
<1>6. /\ obj' = [buf |-> c, nread |-> IF obj.nread > 0 THEN m ELSE 0, file |-> g]
      /\ abs' = [abs EXCEPT !.found = Append(@, [msg |-> k + 1, whole |-> TRUE])]
      /\ subject' = subject
  <2>1. upack(obj.buf).n = n /\ upack(obj.buf).whole = TRUE /\ obj.buf[1].msg = k + 1
    <3> DEFINE u == upack(obj.buf)
               y == obj.buf[1]
               i == k + 1
    <3>1. u = [n |-> n, whole |-> TRUE] /\ y = [msg |-> i, at |-> 1, n |-> n]
      BY <1>5, Zenon
    <3> HIDE DEF u, y, i, n
    <3>2. u.n = n /\ u.whole = TRUE /\ y.msg = i
      BY <3>1
    <3> QED
      BY <3>2, Zenon DEF u, y, i
  <2> HIDE DEF n, k
  <2> QED
    BY <2>1, Zenon DEF PackParse, Becomes
<1>7. m \in 0 .. Len(f) /\ m <= n /\ (m < Len(f) => m = n /\ obj.nread > 0) /\ Len(f) \in Nat
  <2>1. Len(f) \in Nat
    BY <1>1
  <2> HIDE DEF n, f
  <2> QED
    BY <1>1, <1>3, <2>1 DEF Smallest
<1>8. r \in Seq(Bytes) /\ Len(r) = Len(b) - n /\ Len(b) \in Nat
  <2> HIDE DEF b, n
  <2>1. Len(b) \in Nat /\ n \in 0 .. Len(b)
    BY <1>1, <1>3, <1>5
  <2> QED
    BY <1>1, <2>1, BytesParts, Zenon
<1> HIDE DEF n, b, f, r, m, P
<1>9. c \in Seq(Bytes) /\ g \in Seq(Bytes) /\ Len(c) = Len(r) + m /\ Len(g) = Len(f) - m /\ c \o g = r \o f
  BY <1>1, <1>7, <1>8, Refilled, Zenon
<1> HIDE DEF c, g, k
<1>10. Len(g) > 0 => m > 0 /\ obj.nread > 0 /\ Len(c) = CK_MAX_MSG_SIZE
  <2> DEFINE lf == Len(f)
             lb == Len(b)
             lg == Len(g)
  <2>1. lg = lf - m /\ Len(c) = (lb - n) + m
    BY <1>8, <1>9, Zenon
  <2>2. /\ lf \in Nat /\ lb \in Nat /\ n \in Nat /\ n > 0 /\ m \in 0 .. lf
        /\ (m < lf => m = n /\ obj.nread > 0) /\ (lf > 0 => lb = CK_MAX_MSG_SIZE)
    BY <1>1, <1>3, <1>7, <1>8, Zenon
  <2> HIDE DEF lf, lb, lg
  <2>3. lg > 0 => m < lf /\ lf > 0
    BY <2>1, <2>2
  <2>4. m = n => (lb - n) + m = lb /\ m > 0
    BY <2>2
  <2> QED
    BY <2>1, <2>2, <2>3, <2>4, Zenon DEF lg
<1>11. /\ abs'.lens = abs.lens /\ abs'.found = Append(abs.found, [msg |-> k + 1, whole |-> TRUE])
       /\ abs' = [lens |-> abs'.lens, found |-> abs'.found]
  BY <1>6, Zenon DEF PackInv
<1>12. /\ abs'.found \in Seq([msg : Nat, whole : BOOLEAN]) /\ Len(abs'.found) = k + 1
       /\ \A i \in 1 .. k + 1 : abs'.found[i] = [msg |-> i, whole |-> TRUE]
  <2>1. /\ abs.found \in Seq([msg : Nat, whole : BOOLEAN]) /\ Len(abs.found) = k
        /\ \A i \in 1 .. k : abs.found[i] = [msg |-> i, whole |-> TRUE]
    BY DEF PackInv, k
  <2>2. [msg |-> k + 1, whole |-> TRUE] \in [msg : Nat, whole : BOOLEAN]
    BY <1>3
  <2> DEFINE e == [msg |-> k + 1, whole |-> TRUE]
  <2>3. abs'.found = Append(abs.found, e) /\ e \in [msg : Nat, whole : BOOLEAN]
    BY <1>11, <2>2
  <2> HIDE DEF e
  <2>4. /\ abs'.found \in Seq([msg : Nat, whole : BOOLEAN]) /\ Len(abs'.found) = k + 1
        /\ abs'.found[k + 1] = e /\ \A i \in 1 .. k : abs'.found[i] = abs.found[i]
    BY <1>3, <2>1, <2>3
  <2>5. \A i \in 1 .. k + 1 : i = k + 1 \/ i \in 1 .. k
    BY <1>3
  <2> QED
    BY <2>1, <2>4, <2>5, Zenon DEF e
<1>13. PackedFile(abs'.lens) = Packing(abs'.lens)[Len(abs'.found)] \o (c \o g)
  BY <1>4, <1>5, <1>9, <1>11, <1>12, Zenon DEF P
<1>14. obj'.buf = c /\ obj'.file = g /\ obj'.nread = (IF obj.nread > 0 THEN m ELSE 0)
       /\ obj' = [buf |-> obj'.buf, file |-> obj'.file, nread |-> obj'.nread]
  BY <1>6
<1>15. obj'.nread \in Nat /\ (Len(g) > 0 => obj'.nread > 0)
  BY <1>7, <1>10, <1>14
<1>16. subject' = "pack" /\ abs'.lens \in Seq(MessageLengths) /\ Len(abs'.found) <= Len(abs'.lens)
  <2>1. subject = "pack" /\ abs.lens \in Seq(MessageLengths)
    BY DEF PackInv
  <2>2. k + 1 <= Len(abs.lens)
    BY <1>3
  <2> QED
    BY <1>6, <1>11, <1>12, <2>1, <2>2
<1> QED
  BY <1>9, <1>10, <1>11, <1>12, <1>13, <1>14, <1>15, <1>16, Zenon DEF PackInv

\* Nothing is read.
LEMMA PackStutters ==
    ASSUME PackInv, UNCHANGED subjectVars
    PROVE  PackInv'
BY Zenon DEF PackInv, subjectVars

\* What the invariant says of the messages found
LEMMA PackInvHolds ==
    ASSUME PackInv
    PROVE  PackRoundTrip
<1>1. \A i \in DOMAIN abs.found : abs.found[i] = [msg |-> i, whole |-> TRUE]
  <2>1. abs.found \in Seq([msg : Nat, whole : BOOLEAN])
    BY DEF PackInv
  <2>2. DOMAIN abs.found = 1 .. Len(abs.found)
    BY <2>1
  <2> QED
    BY <2>2, Zenon DEF PackInv
<1>2. ASSUME obj.buf = <<>> PROVE Len(abs.found) = Len(abs.lens)
  <2>1. CASE Len(abs.found) < Len(abs.lens)
    <3> DEFINE k == Len(abs.found)
               n == abs.lens[k + 1]
               q == ppack(k + 1, n)
    <3>1. k + 1 \in Nat /\ n \in Nat /\ n > 0 /\ 2 * n <= CK_MAX_MSG_SIZE
      BY <2>1, NextMessage
    <3>2. PICK x \in Seq(Bytes) : obj.buf \o obj.file = q \o x
      BY <2>1, NextMessage, Zenon
    <3>3. q \in Seq(Bytes) /\ Len(q) = n
      BY <3>1, Packed, Zenon
    <3>4. Len(obj.buf) = 0 /\ obj.file \in Seq(Bytes) /\ obj.buf \in Seq(Bytes)
      BY <1>2 DEF PackInv
    <3>5. Len(obj.file) = 0
      <4>1. Len(obj.file) \in Nat /\ (Len(obj.file) > 0 => Len(obj.buf) = CK_MAX_MSG_SIZE)
        BY DEF PackInv
      <4> HIDE DEF k, n
      <4> QED
        BY <3>1, <3>4, <4>1, PackAssumption
    <3> HIDE DEF q, n, k
    <3>6. Len(obj.buf \o obj.file) = Len(obj.buf) + Len(obj.file)
      <4>1. obj.file \in Seq(Bytes) /\ obj.buf \in Seq(Bytes)
        BY <3>4, Zenon
      <4> QED
        BY <4>1
    <3>7. Len(q \o x) = n + Len(x) /\ Len(x) \in Nat
      BY <3>3, Cat, Zenon
    <3>8. n + Len(x) = 0
      BY <3>2, <3>4, <3>5, <3>6, <3>7
    <3> QED
      BY <3>1, <3>7, <3>8
  <2> QED
    BY <2>1, AllFound
<1> QED
  BY <1>1, <1>2 DEF PackRoundTrip

\* check_pack.c: punpack finds every message that ppack wrote, whole and in order,
\* for any size of its buffer, any number of messages and any lengths that ppack
\* accepts.
THEOREM MessagesFound == PackSpec => []PackRoundTrip
<1>1. (\E lens \in Seq(MessageLengths) : PackStart(lens)) => PackInv
  BY PackStartInv
<1>2. PackInv /\ [PackNext]_subjectVars => PackInv'
  BY PackParseInv, PackStutters DEF PackNext
<1>3. PackInv => PackRoundTrip
  BY PackInvHolds
<1> QED
  BY <1>1, <1>2, <1>3, PTL DEF PackSpec

-----------------------------------------------------------------------------
(* Test cases *)

IsASeq(s) == Len(s) \in Nat /\ s = [i \in 1 .. Len(s) |-> s[i]]

\* What has been received when a test in its own process has begun a phase
AtPhase(phase) ==
    [lastctx |-> phase, failctx |-> INVALID, msg |-> INVALID,
     test_file |-> IF phase = "setup" THEN INVALID ELSE "start", fixture_file |-> INVALID]

CkTypeOK ==
    /\ subject = "check"
    /\ obj = [fork |-> obj.fork, expected |-> obj.expected, allowed |-> obj.allowed, pc |-> obj.pc,
              t |-> obj.t, child |-> obj.child, phase |-> obj.phase, st |-> obj.st, gc |-> obj.gc,
              timer |-> obj.timer, alarm |-> obj.alarm, pipe |-> obj.pipe, results |-> obj.results,
              n_checked |-> obj.n_checked, n_failed |-> obj.n_failed, n_errors |-> obj.n_errors]
    /\ obj.fork \in BOOLEAN /\ obj.timer \in BOOLEAN /\ obj.gc \in BOOLEAN /\ obj.alarm \in BOOLEAN
    /\ obj.st = [sig |-> obj.st.sig, code |-> obj.st.code]
    /\ IsASeq(obj.pipe) /\ IsASeq(obj.results) /\ IsASeq(abs.log) /\ Len(abs.log) = Len(obj.results)
    /\ abs = [now |-> abs.now, log |-> abs.log, lost |-> abs.lost]
    /\ abs.now = [first |-> abs.now.first, killed |-> abs.now.killed, st |-> NoStat]
    /\ abs.now.first \in Phases \union {INVALID} /\ abs.now.killed \in BOOLEAN

\* How a test in a process of its own has ended
CkOver ==
    LET u == punpack(obj.pipe)
    IN  /\ u.msg = abs.now.first
        /\ abs.now.first # INVALID =>
              /\ obj.st = [sig |-> 0, code |-> 1] /\ ~abs.now.killed
              /\ u.lastctx = abs.now.first /\ LocByCtx(u, abs.now.first) = abs.now.first
        /\ abs.now.killed => obj.alarm /\ obj.st.sig = SIGKILL /\ obj.pc # "arm"

CkForked ==
    IF obj.fork
    THEN /\ obj.pc # "run"
         /\ obj.child \in {"none", "forked", "grouped"} => obj.pipe = <<>>
         /\ obj.child \in {"forked", "grouped"} \union Phases => abs.now = Fresh
         /\ obj.child \in Phases => punpack(obj.pipe) = AtPhase(obj.child)
         /\ obj.child = "over" => CkOver
         /\ obj.child \in {"none", "forked", "grouped", "over"} \union Phases
         /\ obj.pc = "reap" => obj.child = "over"
         /\ obj.timer => obj.pc \in {"wait", "reap"}
         /\ obj.pc \notin {"arm", "wait", "reap"} => obj.child = "none"
    ELSE obj.child = "none" /\ ~obj.timer /\ obj.pc \notin {"arm", "wait", "reap"}

\* A test in the runner's process
CkNoFork ==
    ~obj.fork /\ obj.pc = "run" =>
        /\ obj.phase \in Phases
        /\ punpack(obj.pipe).msg = abs.now.first
        /\ obj.phase # "teardown" => abs.now.first = INVALID

\* The result tr of a test that went as told by is
Settled(o, tr, is) ==
    IF o.fork
    THEN /\ tr.rtype = "PASS" => IF o.expected = 0 THEN is.st = [sig |-> 0, code |-> o.allowed]
                                 ELSE is.st.sig = o.expected /\ ~is.killed
         /\ is.killed => tr.rtype = "ERROR" /\ tr.msg = "timeout"
         /\ is.first # INVALID /\ o.expected = 0 /\ o.allowed # 1 =>
                tr.rtype = "FAILURE" /\ tr.msg = is.first /\ tr.ctx = is.first /\ tr.at = is.first
    ELSE /\ tr.rtype = (IF is.first = INVALID THEN "PASS" ELSE "FAILURE")
         /\ tr.msg = (IF is.first = INVALID THEN "Passed" ELSE is.first)

CkSettled == \A i \in 1 .. Len(obj.results) : Settled(obj, obj.results[i], abs.log[i])

CkInv == CkTypeOK /\ CkForked /\ CkNoFork /\ CkSettled /\ CkNoProcessLeft

-----------------------------------------------------------------------------

\* A sequence and one more element
LEMMA OneBehind ==
    ASSUME NEW s, IsASeq(s), NEW x
    PROVE  /\ IsASeq(Append(s, x)) /\ Len(Append(s, x)) = Len(s) + 1
           /\ Append(s, x)[Len(s) + 1] = x
           /\ \A i \in 1 .. Len(s) : Append(s, x)[i] = s[i]
           /\ DOMAIN s = 1 .. Len(s) /\ s \o <<x>> = Append(s, x)
           /\ Append(s, x) # <<>>
<1> DEFINE S == {s[i] : i \in 1 .. Len(s)} \union {x}
<1>1. s \in Seq(S) /\ x \in S
  BY DEF IsASeq
<1> HIDE DEF S
<1>2. /\ Append(s, x) \in Seq(S) /\ Len(Append(s, x)) = Len(s) + 1 /\ Len(s) \in Nat
      /\ Append(s, x)[Len(s) + 1] = x
      /\ \A i \in 1 .. Len(s) : Append(s, x)[i] = s[i]
      /\ DOMAIN s = 1 .. Len(s)
  BY <1>1
<1>3. s \o <<x>> = Append(s, x)
  BY <1>1
<1>4. \A q \in Seq(S) : IsASeq(q)
  BY DEF IsASeq
<1>5. Append(s, x) # <<>>
  BY <1>2
<1> QED
  BY <1>2, <1>3, <1>4, <1>5, Zenon

\* A sequence and two more elements
LEMMA TwoBehind ==
    ASSUME NEW s, IsASeq(s), NEW x, NEW y
    PROVE  s \o <<x, y>> = Append(Append(s, x), y) /\ IsASeq(Append(s, x))
<1> DEFINE S == {s[i] : i \in 1 .. Len(s)} \union {x, y}
<1>1. s \in Seq(S) /\ x \in S /\ y \in S
  BY DEF IsASeq
<1> HIDE DEF S
<1> QED
  BY <1>1, OneBehind

\* The answers of get_result, message by message
Unpacking(pipe, g) ==
    g = [n \in 0 .. Len(pipe) |->
            IF n = 0 THEN rcvmsg_create ELSE get_result(g[n - 1], pipe[n])]

\* The first m messages can be unpacked.
LEMMA UnpacksUpTo ==
    ASSUME NEW pipe, NEW m \in Nat
    PROVE  \E g : g = [n \in 0 .. m |-> IF n = 0 THEN rcvmsg_create ELSE get_result(g[n - 1], pipe[n])]
<1> DEFINE F(g, k) == g = [n \in 0 .. k |->
                              IF n = 0 THEN rcvmsg_create ELSE get_result(g[n - 1], pipe[n])]
           T == {k \in Nat : ~\E g : F(g, k)}
<1>1. ASSUME T # {} PROVE FALSE
  <2>1. PICK k \in T : \A y \in T : k <= y
    BY <1>1, LeastNumber, Zenon
  <2>2. k \in Nat /\ ~\E g : F(g, k)
    BY <2>1
  <2>3. CASE k = 0
    <3> DEFINE g == [n \in 0 .. 0 |-> rcvmsg_create]
    <3>1. g = [n \in 0 .. 0 |-> IF n = 0 THEN rcvmsg_create ELSE get_result(g[n - 1], pipe[n])]
      BY SMT
    <3> HIDE DEF g
    <3>2. F(g, k)
      BY <2>3, <3>1
    <3> QED
      BY <2>2, <3>2
  <2>4. CASE k # 0
    <3>1. k - 1 \in Nat /\ k - 1 \notin T
      <4>1. k - 1 \in Nat /\ ~(k <= k - 1)
        BY <2>2, <2>4
      <4> HIDE DEF T
      <4> QED
        BY <2>1, <4>1
    <3>2. PICK h : F(h, k - 1)
      BY <3>1
    <3> DEFINE g == [n \in 0 .. k |-> IF n = k THEN get_result(h[k - 1], pipe[k]) ELSE h[n]]
    <3>3. \A n \in 0 .. k - 1 : h[n] = IF n = 0 THEN rcvmsg_create ELSE get_result(h[n - 1], pipe[n])
      BY <3>2
    <3>4. ASSUME NEW n \in 0 .. k
          PROVE  g[n] = IF n = 0 THEN rcvmsg_create ELSE get_result(g[n - 1], pipe[n])
      <4>1. CASE n = k
        <5>1. g[n] = get_result(h[k - 1], pipe[k])
          BY <4>1
        <5>2. k - 1 \in 0 .. k /\ k - 1 # k
          BY <2>2, <2>4
        <5>3. g[k - 1] = h[k - 1]
          BY <5>2
        <5> QED
          BY <2>4, <4>1, <5>1, <5>3
      <4>2. CASE n # k
        <5>1. n \in 0 .. k - 1 /\ g[n] = h[n]
          BY <2>2, <4>2
        <5>2. n # 0 => n - 1 \in 0 .. k /\ n - 1 # k
          BY <2>2, <5>1
        <5>3. n # 0 => g[n - 1] = h[n - 1]
          BY <5>2
        <5> HIDE DEF g
        <5> QED
          BY <3>3, <5>1, <5>3
      <4> QED
        BY <4>1, <4>2
    <3>5. DOMAIN g = 0 .. k /\ g = [n \in 0 .. k |-> g[n]]
      OBVIOUS
    <3> HIDE DEF g
    <3>6. F(g, k)
      BY <3>4, <3>5, Zenon
    <3> QED
      BY <2>2, <3>6
  <2> QED
    BY <2>3, <2>4
<1>2. m \notin T
  BY <1>1
<1> QED
  BY <1>2

\* punpack is the last answer.
LEMMA Unpacked ==
    ASSUME NEW pipe, IsASeq(pipe)
    PROVE  \E g : Unpacking(pipe, g) /\ punpack(pipe) = g[Len(pipe)]
<1> DEFINE F(g) == g = [n \in 0 .. Len(pipe) |->
                           IF n = 0 THEN rcvmsg_create ELSE get_result(g[n - 1], pipe[n])]
           c == CHOOSE g : F(g)
<1>1. \E g : F(g)
  BY UnpacksUpTo, Zenon DEF IsASeq
<1>2. F(c)
  BY <1>1
<1>3. punpack(pipe) = c[Len(pipe)]
  BY DEF punpack
<1> HIDE DEF c
<1> QED
  BY <1>2, <1>3, Zenon DEF Unpacking

\* Two sequences that begin alike are unpacked alike so far.
LEMMA UnpackedAlike ==
    ASSUME NEW p, NEW q, NEW g, NEW h, Unpacking(p, g), Unpacking(q, h),
           Len(p) \in Nat, Len(q) \in Nat, Len(p) <= Len(q), \A i \in 1 .. Len(p) : p[i] = q[i],
           NEW m \in 0 .. Len(p)
    PROVE  g[m] = h[m]
<1> DEFINE T == {n \in Nat : n <= Len(p) /\ g[n] # h[n]}
<1>1. ASSUME T # {} PROVE FALSE
  <2>1. PICK k \in T : \A y \in T : k <= y
    BY <1>1, LeastNumber, Zenon
  <2>2. k \in Nat /\ k \in 0 .. Len(p) /\ k \in 0 .. Len(q) /\ g[k] # h[k]
    BY <2>1
  <2>3. CASE k = 0
    BY <2>2, <2>3 DEF Unpacking
  <2>4. CASE k # 0
    <3>1. k - 1 \in Nat /\ k - 1 <= Len(p) /\ k - 1 \notin T /\ k \in 1 .. Len(p)
      BY <2>1, <2>2, <2>4
    <3>2. g[k - 1] = h[k - 1] /\ p[k] = q[k]
      BY <3>1
    <3>3. g[k] = get_result(g[k - 1], p[k]) /\ h[k] = get_result(h[k - 1], q[k])
      BY <2>2, <2>4, Zenon DEF Unpacking
    <3> QED
      BY <2>2, <3>2, <3>3
  <2> QED
    BY <2>3, <2>4
<1> QED
  BY <1>1

\* What was unpacked before the last message, and that message, give the result.
LEMMA UnpackMore ==
    ASSUME NEW pipe, IsASeq(pipe), NEW m
    PROVE  punpack(Append(pipe, m)) = get_result(punpack(pipe), m)
<1> DEFINE q == Append(pipe, m)
<1>1. /\ IsASeq(q) /\ Len(q) = Len(pipe) + 1 /\ q[Len(pipe) + 1] = m
      /\ \A i \in 1 .. Len(pipe) : q[i] = pipe[i]
  BY OneBehind
<1> HIDE DEF q
<1>2. Len(pipe) \in Nat
  BY DEF IsASeq
<1>3. PICK g : Unpacking(pipe, g) /\ punpack(pipe) = g[Len(pipe)]
  BY Unpacked
<1>4. PICK h : Unpacking(q, h) /\ punpack(q) = h[Len(q)]
  BY <1>1, Unpacked
<1>5. Len(pipe) <= Len(q) /\ Len(q) \in Nat /\ Len(pipe) \in 0 .. Len(pipe)
  BY <1>1, <1>2
<1>6. g[Len(pipe)] = h[Len(pipe)]
  BY <1>1, <1>2, <1>3, <1>4, <1>5, UnpackedAlike
<1>7. h[Len(pipe) + 1] = get_result(h[(Len(pipe) + 1) - 1], q[Len(pipe) + 1])
  <2>1. Len(pipe) + 1 \in 0 .. Len(q) /\ Len(pipe) + 1 # 0
    BY <1>1, <1>2
  <2> QED
    BY <1>4, <2>1 DEF Unpacking
<1>8. (Len(pipe) + 1) - 1 = Len(pipe)
  BY <1>2
<1> QED
  BY <1>1, <1>3, <1>4, <1>6, <1>7, <1>8 DEF q

\* punpack of no messages
LEMMA UnpackNone == IsASeq(<<>>) /\ punpack(<<>>) = rcvmsg_create
<1>1. IsASeq(<<>>) /\ Len(<<>>) = 0
  BY DEF IsASeq
<1>2. PICK g : Unpacking(<<>>, g) /\ punpack(<<>>) = g[Len(<<>>)]
  BY <1>1, Unpacked
<1>3. g[0] = rcvmsg_create
  BY <1>1, <1>2 DEF Unpacking
<1> QED
  BY <1>1, <1>2, <1>3

\* What each kind of message does
LEMMA MessageRead ==
    ASSUME NEW r, NEW c
    PROVE  /\ get_result(r, Ctx(c)) = rcvmsg_update_ctx(r, c)
           /\ get_result(r, Loc(c)) = IF r.failctx = INVALID THEN rcvmsg_update_loc(r, c) ELSE r
           /\ get_result(r, Fail(c)) = IF r.msg = INVALID THEN [r EXCEPT !.msg = c, !.failctx = r.lastctx]
                                       ELSE r
<1>1. get_result(r, Ctx(c)) = rcvmsg_update_ctx(r, c)
  BY DEF get_result, Ctx
<1>2. get_result(r, Loc(c)) = IF r.failctx = INVALID THEN rcvmsg_update_loc(r, c) ELSE r
  BY DEF get_result, Loc
<1>3. get_result(r, Fail(c)) = IF r.msg = INVALID THEN [r EXCEPT !.msg = c, !.failctx = r.lastctx]
                               ELSE r
  BY DEF get_result, Fail
<1> QED
  BY <1>1, <1>2, <1>3

IsRcv(r) ==
    r = [lastctx |-> r.lastctx, failctx |-> r.failctx, msg |-> r.msg, test_file |-> r.test_file,
         fixture_file |-> r.fixture_file]

\* rcvmsg_create
LEMMA RcvMade ==
    ASSUME NEW a, NEW b, NEW c, NEW d, NEW e, NEW r,
           r = [lastctx |-> a, failctx |-> b, msg |-> c, test_file |-> d, fixture_file |-> e]
    PROVE  /\ IsRcv(r) /\ r.lastctx = a /\ r.failctx = b /\ r.msg = c /\ r.test_file = d
           /\ r.fixture_file = e
  BY DEF IsRcv

\* The fields after each kind of message
LEMMA FieldsRead ==
    ASSUME NEW r, IsRcv(r), NEW c
    PROVE  /\ rcvmsg_update_ctx(r, c) =
                [lastctx |-> c, failctx |-> r.failctx, msg |-> r.msg, test_file |-> r.test_file,
                 fixture_file |-> IF r.lastctx # INVALID THEN INVALID ELSE r.fixture_file]
           /\ rcvmsg_update_loc(r, c) =
                [lastctx |-> r.lastctx, failctx |-> r.failctx, msg |-> r.msg,
                 test_file |-> IF r.lastctx = "test" THEN c ELSE r.test_file,
                 fixture_file |-> IF r.lastctx = "test" THEN r.fixture_file ELSE c]
           /\ [r EXCEPT !.msg = c, !.failctx = r.lastctx] =
                [lastctx |-> r.lastctx, failctx |-> r.lastctx, msg |-> c, test_file |-> r.test_file,
                 fixture_file |-> r.fixture_file]
<1>1. rcvmsg_update_ctx(r, c) =
                [lastctx |-> c, failctx |-> r.failctx, msg |-> r.msg, test_file |-> r.test_file,
                 fixture_file |-> IF r.lastctx # INVALID THEN INVALID ELSE r.fixture_file]
  <2> DEFINE x == IF r.lastctx # INVALID THEN INVALID ELSE r.fixture_file
  <2>1. rcvmsg_update_ctx(r, c) = [r EXCEPT !.fixture_file = x, !.lastctx = c]
    BY DEF rcvmsg_update_ctx
  <2> HIDE DEF x
  <2>2. [r EXCEPT !.fixture_file = x, !.lastctx = c] =
                [lastctx |-> c, failctx |-> r.failctx, msg |-> r.msg, test_file |-> r.test_file,
                 fixture_file |-> x]
    <3> DEFINE q == [r EXCEPT !.fixture_file = x]
    <3>1. [r EXCEPT !.fixture_file = x, !.lastctx = c] = [q EXCEPT !.lastctx = c]
      OBVIOUS
    <3>2. q = [lastctx |-> r.lastctx, failctx |-> r.failctx, msg |-> r.msg, test_file |-> r.test_file,
               fixture_file |-> x]
      BY DEF IsRcv
    <3> HIDE DEF q
    <3> QED
      BY <3>1, <3>2
  <2> QED
    BY <2>1, <2>2 DEF x
<1>2. rcvmsg_update_loc(r, c) =
                [lastctx |-> r.lastctx, failctx |-> r.failctx, msg |-> r.msg,
                 test_file |-> IF r.lastctx = "test" THEN c ELSE r.test_file,
                 fixture_file |-> IF r.lastctx = "test" THEN r.fixture_file ELSE c]
  BY DEF rcvmsg_update_loc, IsRcv
<1>3. [r EXCEPT !.msg = c, !.failctx = r.lastctx] =
                [lastctx |-> r.lastctx, failctx |-> r.lastctx, msg |-> c, test_file |-> r.test_file,
                 fixture_file |-> r.fixture_file]
  <2> DEFINE x == r.lastctx
  <2> HIDE DEF x
  <2>1. [r EXCEPT !.msg = c, !.failctx = x] =
                [lastctx |-> r.lastctx, failctx |-> x, msg |-> c, test_file |-> r.test_file,
                 fixture_file |-> r.fixture_file]
    <3> DEFINE q == [r EXCEPT !.msg = c]
    <3>1. [r EXCEPT !.msg = c, !.failctx = x] = [q EXCEPT !.failctx = x]
      OBVIOUS
    <3>2. q = [lastctx |-> r.lastctx, failctx |-> r.failctx, msg |-> c, test_file |-> r.test_file,
               fixture_file |-> r.fixture_file]
      BY DEF IsRcv
    <3> HIDE DEF q
    <3> QED
      BY <3>1, <3>2
  <2> QED
    BY <2>1 DEF x
<1> QED
  BY <1>1, <1>2, <1>3

\* A context leaves the message, a location too, and only the first failure sets it.
LEMMA MessageKept ==
    ASSUME NEW r, IsRcv(r), NEW c
    PROVE  /\ IsRcv(rcvmsg_update_ctx(r, c)) /\ rcvmsg_update_ctx(r, c).msg = r.msg
           /\ IsRcv(rcvmsg_update_loc(r, c)) /\ rcvmsg_update_loc(r, c).msg = r.msg
           /\ IsRcv([r EXCEPT !.msg = c, !.failctx = r.lastctx])
           /\ [r EXCEPT !.msg = c, !.failctx = r.lastctx].msg = c
<1>1. IsRcv(rcvmsg_update_ctx(r, c)) /\ rcvmsg_update_ctx(r, c).msg = r.msg
  <2> DEFINE x == rcvmsg_update_ctx(r, c)
  <2>1. x = [lastctx |-> c, failctx |-> r.failctx, msg |-> r.msg, test_file |-> r.test_file,
             fixture_file |-> IF r.lastctx # INVALID THEN INVALID ELSE r.fixture_file]
    BY FieldsRead, Zenon
  <2> HIDE DEF x
  <2> QED
    BY <2>1 DEF IsRcv, x
<1>2. IsRcv(rcvmsg_update_loc(r, c)) /\ rcvmsg_update_loc(r, c).msg = r.msg
  <2> DEFINE x == rcvmsg_update_loc(r, c)
  <2>1. x = [lastctx |-> r.lastctx, failctx |-> r.failctx, msg |-> r.msg,
             test_file |-> IF r.lastctx = "test" THEN c ELSE r.test_file,
             fixture_file |-> IF r.lastctx = "test" THEN r.fixture_file ELSE c]
    BY FieldsRead, Zenon
  <2> HIDE DEF x
  <2> QED
    BY <2>1 DEF IsRcv, x
<1>3. /\ IsRcv([r EXCEPT !.msg = c, !.failctx = r.lastctx])
      /\ [r EXCEPT !.msg = c, !.failctx = r.lastctx].msg = c
  <2> DEFINE x == [r EXCEPT !.msg = c, !.failctx = r.lastctx]
  <2>1. x = [lastctx |-> r.lastctx, failctx |-> r.lastctx, msg |-> c, test_file |-> r.test_file,
             fixture_file |-> r.fixture_file]
    BY FieldsRead, Zenon
  <2> HIDE DEF x
  <2>2. IsRcv(x) /\ x.msg = c
    BY <2>1 DEF IsRcv
  <2> QED
    BY <2>2 DEF x
<1> QED
  BY <1>1, <1>2, <1>3

\* The messages a phase begins with
LEMMA PhaseBegins ==
    ASSUME NEW pipe, IsASeq(pipe), NEW next \in Phases,
           IF next = "setup" THEN punpack(pipe) = rcvmsg_create
           ELSE \E ph \in {"setup", "test"} : After(ph) = next /\ punpack(pipe) = AtPhase(ph)
    PROVE  IsASeq(pipe \o Begins(next)) /\ punpack(pipe \o Begins(next)) = AtPhase(next)
<1> DEFINE u == punpack(pipe)
           c == Append(pipe, Ctx(next))
<1>1. IsRcv(u) /\ IsASeq(c) /\ punpack(c) = rcvmsg_update_ctx(u, next)
  <2>1. IsRcv(u)
    BY DEF IsRcv, rcvmsg_create, AtPhase
  <2>2. IsASeq(c)
    BY OneBehind
  <2>3. punpack(c) = get_result(u, Ctx(next))
    BY UnpackMore
  <2> QED
    BY <2>1, <2>2, <2>3, MessageRead, Zenon
<1> HIDE DEF u, c
<1>2. punpack(c) = [lastctx |-> next, failctx |-> u.failctx, msg |-> u.msg, test_file |-> u.test_file,
                    fixture_file |-> IF u.lastctx # INVALID THEN INVALID ELSE u.fixture_file]
  BY <1>1, FieldsRead, Zenon
<1>3. CASE next = "setup"
  <2>1. pipe \o Begins(next) = c
    BY <1>3, OneBehind DEF c, Begins
  <2>2. u = rcvmsg_create
    BY <1>3 DEF u
  <2> QED
    BY <1>1, <1>2, <1>3, <2>1, <2>2, Zenon DEF rcvmsg_create, AtPhase
<1>4. CASE next = "test"
  <2>1. u = AtPhase("setup")
    BY <1>4 DEF u, After
  <2>2. punpack(c) = [lastctx |-> "test", failctx |-> INVALID, msg |-> INVALID, test_file |-> INVALID,
                      fixture_file |-> INVALID]
    BY <1>2, <1>4, <2>1 DEF AtPhase
  <2>3. pipe \o Begins(next) = Append(c, Loc("start"))
    BY <1>4, TwoBehind DEF c, Begins
  <2>4. punpack(Append(c, Loc("start"))) = get_result(punpack(c), Loc("start")) /\ IsASeq(Append(c, Loc("start")))
    BY <1>1, UnpackMore, OneBehind
  <2>5. IsRcv(punpack(c)) /\ punpack(c).failctx = INVALID /\ punpack(c).lastctx = "test"
    BY <2>2 DEF IsRcv
  <2>6. get_result(punpack(c), Loc("start")) = rcvmsg_update_loc(punpack(c), "start")
    BY <2>5, MessageRead, Zenon
  <2>7. rcvmsg_update_loc(punpack(c), "start") = AtPhase("test")
    <3>1. /\ punpack(c).msg = INVALID /\ punpack(c).test_file = INVALID
          /\ punpack(c).fixture_file = INVALID
      BY <2>2, RcvMade
    <3>2. rcvmsg_update_loc(punpack(c), "start") =
                [lastctx |-> punpack(c).lastctx, failctx |-> punpack(c).failctx, msg |-> punpack(c).msg,
                 test_file |-> IF punpack(c).lastctx = "test" THEN "start" ELSE punpack(c).test_file,
                 fixture_file |-> IF punpack(c).lastctx = "test" THEN punpack(c).fixture_file
                                  ELSE "start"]
      BY <2>5, FieldsRead, Zenon
    <3> QED
      BY <2>5, <3>1, <3>2 DEF AtPhase
  <2> QED
    BY <1>4, <2>3, <2>4, <2>6, <2>7, Zenon
<1>5. CASE next = "teardown"
  <2>1. u = AtPhase("test")
    BY <1>5 DEF u, After
  <2>2. pipe \o Begins(next) = c
    BY <1>5, OneBehind DEF c, Begins
  <2> QED
    BY <1>1, <1>2, <1>5, <2>1, <2>2, Zenon DEF AtPhase
<1> QED
  BY <1>3, <1>4, <1>5 DEF Phases

\* The messages of a failed assertion
LEMMA PhaseFails ==
    ASSUME NEW pipe, IsASeq(pipe), NEW ph \in Phases, punpack(pipe) = AtPhase(ph)
    PROVE  LET q == pipe \o <<Loc(ph), Fail(ph)>>
               u == punpack(q)
           IN  IsASeq(q) /\ u.msg = ph /\ u.lastctx = ph /\ LocByCtx(u, ph) = ph
<1> DEFINE a == Append(pipe, Loc(ph))
           q == Append(a, Fail(ph))
           r == punpack(pipe)
<1>1. pipe \o <<Loc(ph), Fail(ph)>> = q /\ IsASeq(a) /\ IsASeq(q)
  BY TwoBehind, OneBehind
<1>2. punpack(a) = get_result(r, Loc(ph)) /\ punpack(q) = get_result(punpack(a), Fail(ph))
  BY <1>1, UnpackMore
<1> HIDE DEF a, q
<1>3. IsRcv(r) /\ r.failctx = INVALID /\ r.lastctx = ph /\ r.msg = INVALID
  BY DEF AtPhase, IsRcv
<1>4. punpack(a) = rcvmsg_update_loc(r, ph)
  BY <1>2, <1>3, MessageRead, Zenon
<1> HIDE DEF r
<1>5. punpack(a) = [lastctx |-> ph, failctx |-> INVALID, msg |-> INVALID,
                    test_file |-> IF ph = "test" THEN ph ELSE r.test_file,
                    fixture_file |-> IF ph = "test" THEN r.fixture_file ELSE ph]
  <2>1. rcvmsg_update_loc(r, ph) =
                [lastctx |-> r.lastctx, failctx |-> r.failctx, msg |-> r.msg,
                 test_file |-> IF r.lastctx = "test" THEN ph ELSE r.test_file,
                 fixture_file |-> IF r.lastctx = "test" THEN r.fixture_file ELSE ph]
    BY <1>3, FieldsRead, Zenon
  <2> QED
    BY <1>3, <1>4, <2>1
<1>6. /\ IsRcv(punpack(a)) /\ punpack(a).msg = INVALID /\ punpack(a).lastctx = ph
      /\ punpack(a).test_file = (IF ph = "test" THEN ph ELSE r.test_file)
      /\ punpack(a).fixture_file = (IF ph = "test" THEN r.fixture_file ELSE ph)
  BY <1>5, RcvMade
<1>7. punpack(q) = [lastctx |-> ph, failctx |-> ph, msg |-> ph, test_file |-> punpack(a).test_file,
                    fixture_file |-> punpack(a).fixture_file]
  <2> DEFINE v == punpack(a)
  <2> HIDE DEF v
  <2>1. IsRcv(v) /\ v.msg = INVALID /\ v.lastctx = ph
    BY <1>6 DEF v
  <2>2. get_result(v, Fail(ph)) = [v EXCEPT !.msg = ph, !.failctx = v.lastctx]
    BY <2>1, MessageRead, Zenon
  <2>3. [v EXCEPT !.msg = ph, !.failctx = v.lastctx] =
                [lastctx |-> v.lastctx, failctx |-> v.lastctx, msg |-> ph, test_file |-> v.test_file,
                 fixture_file |-> v.fixture_file]
    BY <2>1, FieldsRead, Zenon
  <2> QED
    BY <1>2, <2>1, <2>2, <2>3 DEF v
<1>8. /\ punpack(q).msg = ph /\ punpack(q).lastctx = ph
      /\ punpack(q).test_file = punpack(a).test_file
      /\ punpack(q).fixture_file = punpack(a).fixture_file
  BY <1>7, RcvMade
<1>9. LocByCtx(punpack(q), ph) = ph
  BY <1>6, <1>8 DEF LocByCtx
<1> QED
  BY <1>1, <1>8, <1>9, Zenon

\* An unpacked result has its fields.
LEMMA UnpackIsRcv ==
    ASSUME NEW pipe, IsASeq(pipe)
    PROVE  IsRcv(punpack(pipe))
<1>1. PICK g : Unpacking(pipe, g) /\ punpack(pipe) = g[Len(pipe)]
  BY Unpacked
<1>2. Len(pipe) \in Nat
  BY DEF IsASeq
<1> DEFINE T == {n \in Nat : n <= Len(pipe) /\ ~IsRcv(g[n])}
<1>3. ASSUME T # {} PROVE FALSE
  <2>1. PICK k \in T : \A y \in T : k <= y
    BY <1>3, LeastNumber, Zenon
  <2>2. k \in Nat /\ k \in 0 .. Len(pipe) /\ ~IsRcv(g[k])
    BY <1>2, <2>1
  <2>3. CASE k = 0
    <3>1. g[k] = rcvmsg_create
      BY <1>1, <2>2, <2>3 DEF Unpacking
    <3>2. IsRcv(rcvmsg_create)
      BY DEF IsRcv, rcvmsg_create
    <3> QED
      BY <2>2, <3>1, <3>2
  <2>4. CASE k # 0
    <3>1. k - 1 \in Nat /\ k - 1 <= Len(pipe) /\ ~(k <= k - 1)
      BY <1>2, <2>2, <2>4
    <3>2. k - 1 \notin T
      BY <2>1, <3>1
    <3>3. IsRcv(g[k - 1])
      BY <3>1, <3>2
    <3>4. g[k] = get_result(g[k - 1], pipe[k])
      BY <1>1, <2>2, <2>4 DEF Unpacking
    <3> DEFINE r == g[k - 1]
               m == pipe[k]
    <3> HIDE DEF r, m
    <3>5. IsRcv(r) => IsRcv(get_result(r, m))
      <4> SUFFICES ASSUME IsRcv(r) PROVE IsRcv(get_result(r, m))
        OBVIOUS
      <4>1. \/ get_result(r, m) = rcvmsg_update_ctx(r, m.v)
            \/ get_result(r, m) = rcvmsg_update_loc(r, m.v)
            \/ get_result(r, m) = [r EXCEPT !.msg = m.v, !.failctx = r.lastctx]
            \/ get_result(r, m) = r
        BY DEF get_result
      <4> DEFINE c == m.v
      <4> HIDE DEF c
      <4>2. /\ IsRcv(rcvmsg_update_ctx(r, c)) /\ IsRcv(rcvmsg_update_loc(r, c))
            /\ IsRcv([r EXCEPT !.msg = c, !.failctx = r.lastctx])
        BY MessageKept, Zenon
      <4> QED
        BY <4>1, <4>2 DEF c
    <3> QED
      BY <2>2, <3>3, <3>4, <3>5 DEF r, m
  <2> QED
    BY <2>3, <2>4
<1> QED
  BY <1>1, <1>2, <1>3

\* A test in the runner's process: the first failure is the one that is kept.
LEMMA RunnerPipe ==
    ASSUME NEW pipe, IsASeq(pipe), NEW ph
    PROVE  /\ IsASeq(pipe \o Begins("teardown"))
           /\ punpack(pipe \o Begins("teardown")).msg = punpack(pipe).msg
           /\ IsASeq(pipe \o <<Loc(ph), Fail(ph)>>)
           /\ punpack(pipe \o <<Loc(ph), Fail(ph)>>).msg =
                IF punpack(pipe).msg = INVALID THEN ph ELSE punpack(pipe).msg
<1> DEFINE r == punpack(pipe)
<1>1. IsRcv(r)
  BY UnpackIsRcv
<1>2. IsASeq(pipe \o Begins("teardown")) /\ punpack(pipe \o Begins("teardown")).msg = r.msg
  <2>1. pipe \o Begins("teardown") = Append(pipe, Ctx("teardown")) /\ IsASeq(Append(pipe, Ctx("teardown")))
    BY OneBehind DEF Begins
  <2>2. punpack(Append(pipe, Ctx("teardown"))) = get_result(r, Ctx("teardown"))
    BY UnpackMore
  <2>3. get_result(r, Ctx("teardown")) = rcvmsg_update_ctx(r, "teardown")
    BY MessageRead, Zenon
  <2> HIDE DEF r
  <2>4. rcvmsg_update_ctx(r, "teardown").msg = r.msg
    BY <1>1, MessageKept, Zenon
  <2> QED
    BY <2>1, <2>2, <2>3, <2>4, Zenon
<1>3. /\ IsASeq(pipe \o <<Loc(ph), Fail(ph)>>)
      /\ punpack(pipe \o <<Loc(ph), Fail(ph)>>).msg = IF r.msg = INVALID THEN ph ELSE r.msg
  <2> DEFINE a == Append(pipe, Loc(ph))
             v == punpack(a)
  <2>1. pipe \o <<Loc(ph), Fail(ph)>> = Append(a, Fail(ph)) /\ IsASeq(a) /\ IsASeq(Append(a, Fail(ph)))
    BY TwoBehind, OneBehind
  <2>2. v = get_result(r, Loc(ph))
    BY UnpackMore
  <2> HIDE DEF a
  <2>3. punpack(Append(a, Fail(ph))) = get_result(v, Fail(ph))
    BY <2>1, UnpackMore
  <2> HIDE DEF r, v
  <2>4. get_result(r, Loc(ph)) = IF r.failctx = INVALID THEN rcvmsg_update_loc(r, ph) ELSE r
    BY MessageRead, Zenon
  <2>5. IsRcv(v) /\ v.msg = r.msg
    <3>1. IsRcv(rcvmsg_update_loc(r, ph)) /\ rcvmsg_update_loc(r, ph).msg = r.msg
      BY <1>1, MessageKept, Zenon
    <3> QED
      BY <1>1, <2>2, <2>4, <3>1
  <2>6. get_result(v, Fail(ph)) = IF v.msg = INVALID THEN [v EXCEPT !.msg = ph, !.failctx = v.lastctx] ELSE v
    BY MessageRead, Zenon
  <2>7. get_result(v, Fail(ph)).msg = IF v.msg = INVALID THEN ph ELSE v.msg
    <3> DEFINE w == [v EXCEPT !.msg = ph, !.failctx = v.lastctx]
    <3>1. w.msg = ph
      BY <2>5, MessageKept, Zenon
    <3> HIDE DEF w
    <3>2. get_result(v, Fail(ph)) = IF v.msg = INVALID THEN w ELSE v
      BY <2>6 DEF w
    <3> QED
      BY <3>1, <3>2
  <2> QED
    BY <2>1, <2>3, <2>5, <2>7, Zenon
<1> QED
  BY <1>2, <1>3

\* The first messages of a test in the runner's process
LEMMA RunnerBegins ==
    /\ IsASeq(<<Ctx("setup")>>) /\ punpack(<<Ctx("setup")>>).msg = INVALID
    /\ IsASeq(Begins("test")) /\ punpack(Begins("test")).msg = INVALID
<1> DEFINE a == Append(<<>>, Ctx("setup"))
           t == Append(<<>>, Ctx("test"))
           b == Append(t, Loc("start"))
<1>1. a = <<Ctx("setup")>> /\ b = Begins("test")
  <2>1. \A x : Append(<<>>, x) = <<x>>
    OBVIOUS
  <2>2. ASSUME NEW x, NEW y PROVE Append(<<x>>, y) = <<x, y>>
    <3> DEFINE S == {x, y}
    <3>1. <<x>> \in Seq(S) /\ <<x, y>> \in Seq(S) /\ y \in S /\ Len(<<x>>) = 1 /\ Len(<<x, y>>) = 2
      OBVIOUS
    <3>2. <<x, y>>[1] = x /\ <<x, y>>[2] = y /\ <<x>>[1] = x
      OBVIOUS
    <3> DEFINE s == <<x>>
               q == <<x, y>>
    <3> HIDE DEF S, s, q
    <3>3. Append(s, y) \in Seq(S) /\ Len(Append(s, y)) = 2 /\ Append(s, y)[1] = x /\ Append(s, y)[2] = y
      BY <3>1, <3>2 DEF s
    <3>4. Len(q) = 2 /\ q \in Seq(S) /\ q[1] = x /\ q[2] = y
      BY <3>1, <3>2 DEF q
    <3>5. \A i \in 1 .. 2 : Append(s, y)[i] = q[i]
      BY <3>3, <3>4
    <3>6. Append(s, y) = q
      BY <3>3, <3>4, <3>5
    <3> QED
      BY <3>6 DEF s, q
  <2>3. Begins("test") = <<Ctx("test"), Loc("start")>>
    BY DEF Begins
  <2> QED
    BY <2>1, <2>2, <2>3
<1>2. IsASeq(a) /\ IsASeq(t) /\ IsASeq(b)
  BY UnpackNone, OneBehind, Zenon
<1>3. punpack(a) = rcvmsg_update_ctx(rcvmsg_create, "setup") /\ punpack(t) = rcvmsg_update_ctx(rcvmsg_create, "test")
  <2>1. punpack(a) = get_result(rcvmsg_create, Ctx("setup")) /\ punpack(t) = get_result(rcvmsg_create, Ctx("test"))
    BY UnpackNone, UnpackMore, Zenon
  <2>2. /\ get_result(rcvmsg_create, Ctx("setup")) = rcvmsg_update_ctx(rcvmsg_create, "setup")
        /\ get_result(rcvmsg_create, Ctx("test")) = rcvmsg_update_ctx(rcvmsg_create, "test")
    BY MessageRead, Zenon
  <2> QED
    BY <2>1, <2>2
<1>4. punpack(b) = get_result(punpack(t), Loc("start"))
  BY <1>2, UnpackMore
<1>5. IsRcv(rcvmsg_create) /\ rcvmsg_create.msg = INVALID
  BY DEF IsRcv, rcvmsg_create
<1>6. punpack(a).msg = INVALID /\ punpack(t).msg = INVALID /\ IsRcv(punpack(t))
  <2>1. /\ rcvmsg_update_ctx(rcvmsg_create, "setup").msg = INVALID
        /\ IsRcv(rcvmsg_update_ctx(rcvmsg_create, "test"))
        /\ rcvmsg_update_ctx(rcvmsg_create, "test").msg = INVALID
    BY <1>5, MessageKept, Zenon
  <2> QED
    BY <1>3, <2>1
<1>7. punpack(b) = IF punpack(t).failctx = INVALID THEN rcvmsg_update_loc(punpack(t), "start") ELSE punpack(t)
  BY <1>4, MessageRead, Zenon
<1> HIDE DEF a, b, t
<1>8. punpack(b).msg = INVALID
  <2> DEFINE v == punpack(t)
  <2> HIDE DEF v
  <2>1. IsRcv(v) /\ v.msg = INVALID
    BY <1>6 DEF v
  <2>2. rcvmsg_update_loc(v, "start").msg = v.msg
    BY <2>1, MessageKept, Zenon
  <2> QED
    BY <1>7, <2>1, <2>2 DEF v
<1> QED
  BY <1>1, <1>2, <1>6, <1>8

\* A result is added.
LEMMA ResultAdded ==
    ASSUME CkTypeOK, CkSettled, NEW tr, NEW is, Settled(obj, tr, is),
           obj'.fork = obj.fork, obj'.expected = obj.expected, obj'.allowed = obj.allowed,
           obj'.results = Append(obj.results, tr), abs'.log = Append(abs.log, is)
    PROVE  /\ CkSettled' /\ IsASeq(obj'.results) /\ IsASeq(abs'.log)
           /\ Len(abs'.log) = Len(obj'.results)
<1> DEFINE n == Len(obj.results)
<1>1. /\ n \in Nat /\ Len(obj'.results) = n + 1 /\ Len(abs'.log) = n + 1
      /\ IsASeq(obj'.results) /\ IsASeq(abs'.log)
      /\ obj'.results[n + 1] = tr /\ abs'.log[n + 1] = is
      /\ \A i \in 1 .. n : obj'.results[i] = obj.results[i] /\ abs'.log[i] = abs.log[i]
  BY OneBehind DEF CkTypeOK, IsASeq
<1> HIDE DEF n
<1>2. \A a, b : Settled(obj', a, b) <=> Settled(obj, a, b)
  BY DEF Settled
<1>3. \A i \in 1 .. n + 1 : i \in 1 .. n \/ i = n + 1
  BY <1>1
<1>4. \A i \in 1 .. n + 1 : Settled(obj', obj'.results[i], abs'.log[i])
  BY <1>1, <1>2, <1>3 DEF CkSettled, n
<1> QED
  BY <1>1, <1>4 DEF CkSettled

\* A step that adds no result
LEMMA ResultsKept ==
    ASSUME CkSettled, obj'.fork = obj.fork, obj'.expected = obj.expected, obj'.allowed = obj.allowed,
           obj'.results = obj.results, abs'.log = abs.log
    PROVE  CkSettled'
<1>1. \A a, b : Settled(obj', a, b) <=> Settled(obj, a, b)
  BY DEF Settled
<1> QED
  BY <1>1 DEF CkSettled

\* timer_create and timer_settime
LEMMA ArmTimerInv ==
    ASSUME CkInv, ArmTimer
    PROVE  CkInv'
<1> USE DEF CkInv
<1>1. /\ obj' = [fork |-> obj.fork, expected |-> obj.expected, allowed |-> obj.allowed, pc |-> "wait",
                  t |-> obj.t, child |-> obj.child, phase |-> obj.phase, st |-> obj.st, gc |-> obj.gc,
                  timer |-> TRUE, alarm |-> FALSE, pipe |-> obj.pipe, results |-> obj.results,
                  n_checked |-> obj.n_checked, n_failed |-> obj.n_failed, n_errors |-> obj.n_errors]
      /\ abs' = abs /\ subject' = subject
  BY Zenon DEF ArmTimer, Becomes, CkTypeOK
<1>2. /\ obj'.fork = obj.fork /\ obj'.expected = obj.expected /\ obj'.allowed = obj.allowed
      /\ obj'.pc = "wait" /\ obj'.child = obj.child /\ obj'.phase = obj.phase
      /\ obj'.st = obj.st /\ obj'.gc = obj.gc /\ obj'.timer = TRUE /\ obj'.alarm = FALSE
      /\ obj'.pipe = obj.pipe /\ obj'.results = obj.results
  BY <1>1
<1>3. CkTypeOK'
  BY <1>1, <1>2 DEF CkTypeOK
<1>4. CkForked'
  BY <1>1, <1>2 DEF CkForked, CkOver, ArmTimer, CkTypeOK
<1>5. CkNoFork'
  BY <1>1, <1>2 DEF CkNoFork, CkForked, ArmTimer
<1>6. CkSettled'
  BY <1>1, <1>2, ResultsKept
<1>7. CkNoProcessLeft'
  BY <1>1, <1>2 DEF CkNoProcessLeft, CkForked, ArmTimer
<1> QED
  BY <1>3, <1>4, <1>5, <1>6, <1>7

\* setpgid
LEMMA SetpgidInv ==
    ASSUME CkInv, setpgid
    PROVE  CkInv'
<1> USE DEF CkInv
<1>1. /\ obj' = [fork |-> obj.fork, expected |-> obj.expected, allowed |-> obj.allowed, pc |-> obj.pc,
                  t |-> obj.t, child |-> "grouped", phase |-> obj.phase, st |-> obj.st, gc |-> obj.gc,
                  timer |-> obj.timer, alarm |-> obj.alarm, pipe |-> obj.pipe, results |-> obj.results,
                  n_checked |-> obj.n_checked, n_failed |-> obj.n_failed, n_errors |-> obj.n_errors]
      /\ abs' = abs /\ subject' = subject
  BY DEF setpgid, Becomes, CkTypeOK
<1>2. /\ obj'.fork = obj.fork /\ obj'.expected = obj.expected /\ obj'.allowed = obj.allowed
      /\ obj'.pc = obj.pc /\ obj'.child = "grouped" /\ obj'.phase = obj.phase
      /\ obj'.st = obj.st /\ obj'.gc = obj.gc /\ obj'.timer = obj.timer
      /\ obj'.alarm = obj.alarm /\ obj'.pipe = obj.pipe /\ obj'.results = obj.results
  BY <1>1
<1>3. CkTypeOK'
  BY <1>1, <1>2 DEF CkTypeOK
<1>4. CkForked'
  BY <1>1, <1>2 DEF CkForked, setpgid, Phases
<1>5. CkNoFork'
  BY <1>1, <1>2 DEF CkNoFork, CkForked, setpgid
<1>6. CkSettled'
  BY <1>1, <1>2, ResultsKept
<1>7. CkNoProcessLeft'
  BY <1>1, <1>2 DEF CkNoProcessLeft, CkForked, setpgid
<1> QED
  BY <1>3, <1>4, <1>5, <1>6, <1>7

\* The test forks.
LEMMA CheckForkInv ==
    ASSUME CkInv, check_fork
    PROVE  CkInv'
<1> USE DEF CkInv
<1>1. /\ obj' = [fork |-> obj.fork, expected |-> obj.expected, allowed |-> obj.allowed, pc |-> obj.pc,
                  t |-> obj.t, child |-> obj.child, phase |-> obj.phase, st |-> obj.st, gc |-> TRUE,
                  timer |-> obj.timer, alarm |-> obj.alarm, pipe |-> obj.pipe, results |-> obj.results,
                  n_checked |-> obj.n_checked, n_failed |-> obj.n_failed, n_errors |-> obj.n_errors]
      /\ abs' = abs /\ subject' = subject
  BY Zenon DEF check_fork, Becomes, CkTypeOK
<1>2. /\ obj'.fork = obj.fork /\ obj'.expected = obj.expected /\ obj'.allowed = obj.allowed
      /\ obj'.pc = obj.pc /\ obj'.child = obj.child /\ obj'.phase = obj.phase
      /\ obj'.st = obj.st /\ obj'.gc = TRUE /\ obj'.timer = obj.timer
      /\ obj'.alarm = obj.alarm /\ obj'.pipe = obj.pipe /\ obj'.results = obj.results
  BY <1>1
<1>3. CkTypeOK'
  BY <1>1, <1>2, Zenon DEF CkTypeOK
<1>4. CkForked'
  BY <1>1, <1>2 DEF CkForked, CkOver, check_fork, Phases
<1>5. CkNoFork'
  BY <1>1, <1>2 DEF CkNoFork, CkForked, check_fork
<1>6. CkSettled'
  BY <1>1, <1>2, ResultsKept
<1>7. CkNoProcessLeft'
  BY <1>1, <1>2 DEF CkNoProcessLeft, CkForked, check_fork
<1> QED
  BY <1>3, <1>4, <1>5, <1>6, <1>7

\* The runner sees the test's end.
LEMMA WaitpidInv ==
    ASSUME CkInv, waitpid
    PROVE  CkInv'
<1> USE DEF CkInv
<1>1. /\ obj' = [fork |-> obj.fork, expected |-> obj.expected, allowed |-> obj.allowed, pc |-> "reap",
                  t |-> obj.t, child |-> obj.child, phase |-> obj.phase, st |-> obj.st, gc |-> obj.gc,
                  timer |-> obj.timer, alarm |-> obj.alarm, pipe |-> obj.pipe, results |-> obj.results,
                  n_checked |-> obj.n_checked, n_failed |-> obj.n_failed, n_errors |-> obj.n_errors]
      /\ abs' = abs /\ subject' = subject
  BY DEF waitpid, Becomes, CkTypeOK
<1>2. /\ obj'.fork = obj.fork /\ obj'.expected = obj.expected /\ obj'.allowed = obj.allowed
      /\ obj'.pc = "reap" /\ obj'.child = obj.child /\ obj'.phase = obj.phase
      /\ obj'.st = obj.st /\ obj'.gc = obj.gc /\ obj'.timer = obj.timer
      /\ obj'.alarm = obj.alarm /\ obj'.pipe = obj.pipe /\ obj'.results = obj.results
  BY <1>1
<1>3. CkTypeOK'
  BY <1>1, <1>2 DEF CkTypeOK
<1>4. CkForked'
  BY <1>1, <1>2 DEF CkForked, CkOver, waitpid, Phases
<1>5. CkNoFork'
  BY <1>1, <1>2 DEF CkNoFork, CkForked, waitpid
<1>6. CkSettled'
  BY <1>1, <1>2, ResultsKept
<1>7. CkNoProcessLeft'
  BY <1>1, <1>2 DEF CkNoProcessLeft, CkForked, waitpid
<1> QED
  BY <1>3, <1>4, <1>5, <1>6, <1>7

\* The runner ends.
LEMMA RunnerDiesInv ==
    ASSUME CkInv, RunnerDies
    PROVE  CkInv'
<1> USE DEF CkInv
<1>1. /\ obj' = [fork |-> obj.fork, expected |-> obj.expected, allowed |-> obj.allowed, pc |-> "died",
                  t |-> obj.t, child |-> obj.child, phase |-> obj.phase, st |-> obj.st, gc |-> obj.gc,
                  timer |-> obj.timer, alarm |-> obj.alarm, pipe |-> obj.pipe, results |-> obj.results,
                  n_checked |-> obj.n_checked, n_failed |-> obj.n_failed, n_errors |-> obj.n_errors]
      /\ abs' = abs /\ subject' = subject
  BY DEF RunnerDies, Becomes, CkTypeOK
<1>2. /\ obj'.fork = obj.fork /\ obj'.expected = obj.expected /\ obj'.allowed = obj.allowed
      /\ obj'.pc = "died" /\ obj'.child = obj.child /\ obj'.phase = obj.phase
      /\ obj'.st = obj.st /\ obj'.gc = obj.gc /\ obj'.timer = obj.timer
      /\ obj'.alarm = obj.alarm /\ obj'.pipe = obj.pipe /\ obj'.results = obj.results
  BY <1>1
<1>3. CkTypeOK'
  BY <1>1, <1>2 DEF CkTypeOK
<1>4. CkForked'
  BY <1>1, <1>2 DEF CkForked, CkOver, RunnerDies, Phases
<1>5. CkNoFork'
  BY <1>1, <1>2 DEF CkNoFork, CkForked, RunnerDies
<1>6. CkSettled'
  BY <1>1, <1>2, ResultsKept
<1>7. CkNoProcessLeft'
  BY <1>1, <1>2 DEF CkNoProcessLeft, CkForked, RunnerDies
<1> QED
  BY <1>3, <1>4, <1>5, <1>6, <1>7

\* The unchecked teardowns
LEMMA TeardownInv ==
    ASSUME CkInv, UncheckedTeardown
    PROVE  CkInv'
<1> USE DEF CkInv
<1>1. /\ obj' = [fork |-> obj.fork, expected |-> obj.expected, allowed |-> obj.allowed, pc |-> "end",
                  t |-> obj.t, child |-> obj.child, phase |-> obj.phase, st |-> obj.st, gc |-> obj.gc,
                  timer |-> obj.timer, alarm |-> obj.alarm, pipe |-> obj.pipe, results |-> obj.results,
                  n_checked |-> obj.n_checked, n_failed |-> obj.n_failed, n_errors |-> obj.n_errors]
      /\ abs' = abs /\ subject' = subject
  BY DEF UncheckedTeardown, Becomes, CkTypeOK
<1>2. /\ obj'.fork = obj.fork /\ obj'.expected = obj.expected /\ obj'.allowed = obj.allowed
      /\ obj'.pc = "end" /\ obj'.child = obj.child /\ obj'.phase = obj.phase
      /\ obj'.st = obj.st /\ obj'.gc = obj.gc /\ obj'.timer = obj.timer
      /\ obj'.alarm = obj.alarm /\ obj'.pipe = obj.pipe /\ obj'.results = obj.results
  BY <1>1
<1>3. CkTypeOK'
  BY <1>1, <1>2 DEF CkTypeOK
<1>4. CkForked'
  BY <1>1, <1>2 DEF CkForked, CkOver, UncheckedTeardown, Phases
<1>5. CkNoFork'
  BY <1>1, <1>2 DEF CkNoFork, CkForked, UncheckedTeardown
<1>6. CkSettled'
  BY <1>1, <1>2, ResultsKept
<1>7. CkNoProcessLeft'
  BY <1>1, <1>2 DEF CkNoProcessLeft, CkForked, UncheckedTeardown
<1> QED
  BY <1>3, <1>4, <1>5, <1>6, <1>7

\* The checked setups begin.
LEMMA CheckedSetupInv ==
    ASSUME CkInv, tcase_run_checked_setup
    PROVE  CkInv'
<1> USE DEF CkInv
<1>0. obj.child = "grouped" /\ obj.fork /\ obj.pipe = <<>> /\ abs.now = Fresh
  BY DEF tcase_run_checked_setup, CkForked
<1> DEFINE q == obj.pipe \o Begins("setup")
<1>a. IsASeq(q) /\ punpack(q) = AtPhase("setup")
  <2>1. punpack(obj.pipe) = rcvmsg_create /\ IsASeq(obj.pipe)
    BY <1>0, UnpackNone
  <2> QED
    BY <2>1, PhaseBegins DEF Phases
<1>1. /\ obj' = [fork |-> obj.fork, expected |-> obj.expected, allowed |-> obj.allowed, pc |-> obj.pc,
                  t |-> obj.t, child |-> "setup", phase |-> obj.phase, st |-> obj.st, gc |-> obj.gc,
                  timer |-> obj.timer, alarm |-> obj.alarm, pipe |-> q, results |-> obj.results,
                  n_checked |-> obj.n_checked, n_failed |-> obj.n_failed, n_errors |-> obj.n_errors]
      /\ abs' = abs /\ subject' = subject
  BY Zenon DEF tcase_run_checked_setup, Becomes, CkTypeOK
<1> HIDE DEF q
<1>2. /\ obj'.fork = obj.fork /\ obj'.expected = obj.expected /\ obj'.allowed = obj.allowed
      /\ obj'.pc = obj.pc /\ obj'.child = "setup" /\ obj'.phase = obj.phase
      /\ obj'.st = obj.st /\ obj'.gc = obj.gc /\ obj'.timer = obj.timer
      /\ obj'.alarm = obj.alarm /\ obj'.pipe = q /\ obj'.results = obj.results
  BY <1>1
<1>3. CkTypeOK'
  BY <1>1, <1>2, <1>a DEF CkTypeOK
<1>4. CkForked'
  BY <1>0, <1>1, <1>2, <1>a, Zenon DEF CkForked, Phases
<1>5. CkNoFork'
  BY <1>0, <1>2 DEF CkNoFork
<1>6. CkSettled'
  BY <1>1, <1>2, ResultsKept
<1>7. CkNoProcessLeft'
  BY <1>1, <1>2 DEF CkNoProcessLeft
<1> QED
  BY <1>3, <1>4, <1>5, <1>6, <1>7

\* A phase of a test in its own process is over.
LEMMA ChildPassesInv ==
    ASSUME CkInv, ChildPasses
    PROVE  CkInv'
<1> USE DEF CkInv
<1>0. /\ obj.child \in Phases /\ obj.fork /\ abs.now = Fresh /\ punpack(obj.pipe) = AtPhase(obj.child)
      /\ IsASeq(obj.pipe) /\ obj.pc # "reap"
  BY DEF ChildPasses, CkForked, CkTypeOK, Phases
<1>a. CASE obj.child = "teardown"
  <2>1. /\ obj' = [fork |-> obj.fork, expected |-> obj.expected, allowed |-> obj.allowed, pc |-> obj.pc,
                    t |-> obj.t, child |-> "over", phase |-> obj.phase, st |-> [sig |-> 0, code |-> 0],
                    gc |-> obj.gc, timer |-> obj.timer, alarm |-> obj.alarm, pipe |-> obj.pipe,
                    results |-> obj.results, n_checked |-> obj.n_checked, n_failed |-> obj.n_failed,
                    n_errors |-> obj.n_errors]
        /\ abs' = abs /\ subject' = subject
    <3> DEFINE ended == [sig |-> 0, code |-> 0]
               o == [obj EXCEPT !.child = "over"]
               p == [o EXCEPT !.st = ended]
    <3>1. obj' = p /\ abs' = abs /\ subject' = subject
      BY <1>a DEF ChildPasses, Over, Becomes
    <3> HIDE DEF ended
    <3>2. o = [fork |-> obj.fork, expected |-> obj.expected, allowed |-> obj.allowed, pc |-> obj.pc,
               t |-> obj.t, child |-> "over", phase |-> obj.phase, st |-> obj.st,
               gc |-> obj.gc, timer |-> obj.timer, alarm |-> obj.alarm, pipe |-> obj.pipe,
               results |-> obj.results, n_checked |-> obj.n_checked, n_failed |-> obj.n_failed,
               n_errors |-> obj.n_errors]
      BY DEF CkTypeOK
    <3> HIDE DEF o
    <3>3. p = [fork |-> obj.fork, expected |-> obj.expected, allowed |-> obj.allowed, pc |-> obj.pc,
               t |-> obj.t, child |-> "over", phase |-> obj.phase, st |-> ended,
               gc |-> obj.gc, timer |-> obj.timer, alarm |-> obj.alarm, pipe |-> obj.pipe,
               results |-> obj.results, n_checked |-> obj.n_checked, n_failed |-> obj.n_failed,
               n_errors |-> obj.n_errors]
      BY <3>2
    <3> QED
      BY <3>1, <3>3 DEF ended
  <2>2. /\ obj'.fork = obj.fork /\ obj'.expected = obj.expected /\ obj'.allowed = obj.allowed
        /\ obj'.pc = obj.pc /\ obj'.child = "over" /\ obj'.phase = obj.phase
        /\ obj'.st = [sig |-> 0, code |-> 0] /\ obj'.gc = obj.gc /\ obj'.timer = obj.timer
        /\ obj'.alarm = obj.alarm /\ obj'.pipe = obj.pipe /\ obj'.results = obj.results
    BY <2>1
  <2>3. CkTypeOK'
    BY <2>1, <2>2 DEF CkTypeOK
  <2>4. CkForked'
    <3>1. CkOver'
      <4>1. punpack(obj'.pipe).msg = INVALID
        <5>1. AtPhase(obj.child).msg = INVALID
          BY DEF AtPhase
        <5> QED
          BY <1>0, <2>2, <5>1, Zenon
      <4>2. abs'.now.first = INVALID /\ abs'.now.killed = FALSE
        <5>1. Fresh.first = INVALID /\ Fresh.killed = FALSE
          BY DEF Fresh
        <5> QED
          BY <1>0, <2>1, <5>1, Zenon
      <4> QED
        BY <4>1, <4>2, Zenon DEF CkOver
    <3> QED
      BY <1>0, <2>1, <2>2, <3>1, Zenon DEF CkForked, Phases
  <2>5. CkNoFork'
    BY <1>0, <2>2, Zenon DEF CkNoFork
  <2>6. CkSettled'
    BY <2>1, <2>2, ResultsKept
  <2>7. CkNoProcessLeft'
    BY <2>1, <2>2 DEF CkNoProcessLeft
  <2> QED
    BY <2>3, <2>4, <2>5, <2>6, <2>7
<1>b. CASE obj.child # "teardown"
  <2> DEFINE next == After(obj.child)
             q == obj.pipe \o Begins(next)
  <2>a. next \in {"test", "teardown"} /\ next \in Phases /\ obj.child \in {"setup", "test"}
    BY <1>0, <1>b DEF After, Phases
  <2>b. IsASeq(q) /\ punpack(q) = AtPhase(next)
    <3> HIDE DEF q
    <3>1. \E ph \in {"setup", "test"} : After(ph) = next /\ punpack(obj.pipe) = AtPhase(ph)
      BY <1>0, <2>a
    <3>2. next # "setup"
      BY <2>a
    <3> HIDE DEF next
    <3> QED
      BY <1>0, <2>a, <3>1, <3>2, PhaseBegins DEF q
  <2>1. /\ obj' = [fork |-> obj.fork, expected |-> obj.expected, allowed |-> obj.allowed, pc |-> obj.pc,
                    t |-> obj.t, child |-> next, phase |-> obj.phase, st |-> obj.st, gc |-> obj.gc,
                    timer |-> obj.timer, alarm |-> obj.alarm, pipe |-> q, results |-> obj.results,
                    n_checked |-> obj.n_checked, n_failed |-> obj.n_failed, n_errors |-> obj.n_errors]
        /\ abs' = abs /\ subject' = subject
    BY <1>b, Zenon DEF ChildPasses, Becomes, CkTypeOK
  <2> HIDE DEF q, next
  <2>2. /\ obj'.fork = obj.fork /\ obj'.expected = obj.expected /\ obj'.allowed = obj.allowed
        /\ obj'.pc = obj.pc /\ obj'.child = next /\ obj'.phase = obj.phase /\ obj'.st = obj.st
        /\ obj'.gc = obj.gc /\ obj'.timer = obj.timer /\ obj'.alarm = obj.alarm /\ obj'.pipe = q
        /\ obj'.results = obj.results
    BY <2>1
  <2>3. CkTypeOK'
    BY <2>1, <2>2, <2>b DEF CkTypeOK
  <2>4. CkForked'
    BY <1>0, <2>1, <2>2, <2>a, <2>b, Zenon DEF CkForked, Phases
  <2>5. CkNoFork'
    BY <1>0, <2>2 DEF CkNoFork
  <2>6. CkSettled'
    BY <2>1, <2>2, ResultsKept
  <2>7. CkNoProcessLeft'
    BY <2>1, <2>2, <2>a DEF CkNoProcessLeft
  <2> QED
    BY <2>3, <2>4, <2>5, <2>6, <2>7
<1> QED
  BY <1>a, <1>b

\* The fields of a test that nothing has happened to, and of the messages of a running phase.
LEMMA FreshFields ==
    Fresh.first = INVALID /\ ~Fresh.killed /\ Fresh.st = NoStat
BY DEF Fresh

LEMMA AtPhaseFields ==
    \A phase : AtPhase(phase).msg = INVALID /\ AtPhase(phase).lastctx = phase
BY DEF AtPhase

\* An assertion of a test in its own process fails.
LEMMA ChildFailsInv ==
    ASSUME CkInv, ChildFails
    PROVE  CkInv'
<1> USE DEF CkInv
<1>0. /\ obj.child \in Phases /\ obj.fork /\ abs.now = Fresh /\ punpack(obj.pipe) = AtPhase(obj.child)
      /\ IsASeq(obj.pipe) /\ obj.pc # "reap" /\ obj.child # INVALID
  BY DEF ChildFails, CkForked, CkTypeOK, Phases, INVALID
<1> DEFINE q == obj.pipe \o <<Loc(obj.child), Fail(obj.child)>>
           now == [first |-> obj.child, killed |-> abs.now.killed, st |-> NoStat]
<1>a. /\ IsASeq(q) /\ punpack(q).msg = obj.child /\ punpack(q).lastctx = obj.child
      /\ LocByCtx(punpack(q), obj.child) = obj.child
  BY <1>0, PhaseFails
<1>b. abs = [now |-> Fresh, log |-> abs.log, lost |-> abs.lost]
  BY <1>0 DEF CkTypeOK
<1>c. /\ obj' = Over([obj EXCEPT !.pipe = q], 0, 1) /\ subject' = subject
      /\ abs' = [abs EXCEPT !.now.first = obj.child]
  BY DEF ChildFails, Becomes
<1> HIDE DEF q
<1>1. /\ obj' = [fork |-> obj.fork, expected |-> obj.expected, allowed |-> obj.allowed, pc |-> obj.pc,
                  t |-> obj.t, child |-> "over", phase |-> obj.phase, st |-> [sig |-> 0, code |-> 1],
                  gc |-> obj.gc, timer |-> obj.timer, alarm |-> obj.alarm, pipe |-> q,
                  results |-> obj.results, n_checked |-> obj.n_checked, n_failed |-> obj.n_failed,
                  n_errors |-> obj.n_errors]
      /\ abs' = [now |-> now, log |-> abs.log, lost |-> abs.lost] /\ subject' = subject
  <2>1. abs' = [now |-> now, log |-> abs.log, lost |-> abs.lost]
    <3>1. abs' = [abs EXCEPT !.now = [abs.now EXCEPT !.first = obj.child]]
      BY <1>c
    <3>2. [abs.now EXCEPT !.first = obj.child] = now
      BY DEF CkTypeOK
    <3> HIDE DEF now
    <3>3. [abs EXCEPT !.now = now] = [now |-> now, log |-> abs.log, lost |-> abs.lost]
      BY <1>b
    <3> QED
      BY <3>1, <3>2, <3>3
  <2> QED
    BY <1>c, <2>1, Zenon DEF Over, CkTypeOK
<1>2. /\ obj'.fork = obj.fork /\ obj'.expected = obj.expected /\ obj'.allowed = obj.allowed
      /\ obj'.pc = obj.pc /\ obj'.child = "over" /\ obj'.phase = obj.phase
      /\ obj'.st = [sig |-> 0, code |-> 1] /\ obj'.gc = obj.gc /\ obj'.timer = obj.timer
      /\ obj'.alarm = obj.alarm /\ obj'.pipe = q /\ obj'.results = obj.results
  BY <1>1
<1>d. abs'.now = now /\ abs'.log = abs.log /\ now.first = obj.child /\ ~now.killed
  <2>1. abs' = [now |-> now, log |-> abs.log, lost |-> abs.lost]
    BY <1>1, Zenon
  <2>2. now.first = obj.child /\ now.killed = abs.now.killed
    BY Zenon
  <2> HIDE DEF now
  <2>3. abs'.now = now /\ abs'.log = abs.log
    BY <2>1
  <2> QED
    BY <1>0, <2>2, <2>3, FreshFields, Zenon
<1>3. CkTypeOK'
  BY <1>0, <1>1, <1>2, <1>a, <1>d, Zenon DEF CkTypeOK
<1>4. CkForked'
  <2>1. CkOver'
    BY <1>0, <1>2, <1>a, <1>d DEF CkOver
  <2> QED
    BY <1>0, <1>2, <2>1, Zenon DEF CkForked, Phases
<1>5. CkNoFork'
  BY <1>0, <1>2, Zenon DEF CkNoFork
<1>6. CkSettled'
  BY <1>2, <1>d, ResultsKept
<1>7. CkNoProcessLeft'
  BY <1>1, <1>2 DEF CkNoProcessLeft
<1> QED
  BY <1>3, <1>4, <1>5, <1>6, <1>7

\* A test in its own process exits or is hit by a signal.
LEMMA ChildEndsInv ==
    ASSUME CkInv, ChildEnds
    PROVE  CkInv'
<1> USE DEF CkInv
<1>0. /\ obj.child \in Phases /\ obj.fork /\ abs.now = Fresh /\ punpack(obj.pipe) = AtPhase(obj.child)
      /\ IsASeq(obj.pipe) /\ obj.pc # "reap"
  BY DEF ChildEnds, CkForked, CkTypeOK, Phases
<1>a. \E g, c : Becomes(Over(obj, g, c), abs)
  BY DEF ChildEnds
<1>b. PICK g, c : Becomes(Over(obj, g, c), abs)
  BY <1>a
<1>1. /\ obj' = [fork |-> obj.fork, expected |-> obj.expected, allowed |-> obj.allowed, pc |-> obj.pc,
                  t |-> obj.t, child |-> "over", phase |-> obj.phase, st |-> [sig |-> g, code |-> c],
                  gc |-> obj.gc, timer |-> obj.timer, alarm |-> obj.alarm, pipe |-> obj.pipe,
                  results |-> obj.results, n_checked |-> obj.n_checked, n_failed |-> obj.n_failed,
                  n_errors |-> obj.n_errors]
      /\ abs' = abs /\ subject' = subject
  BY <1>b, Zenon DEF Over, Becomes, CkTypeOK
<1>2. /\ obj'.fork = obj.fork /\ obj'.expected = obj.expected /\ obj'.allowed = obj.allowed
      /\ obj'.pc = obj.pc /\ obj'.child = "over" /\ obj'.phase = obj.phase
      /\ obj'.st = [sig |-> g, code |-> c] /\ obj'.gc = obj.gc /\ obj'.timer = obj.timer
      /\ obj'.alarm = obj.alarm /\ obj'.pipe = obj.pipe /\ obj'.results = obj.results
  BY <1>1
<1>3. CkTypeOK'
  BY <1>1, <1>2 DEF CkTypeOK
<1>4. CkForked'
  <2>1. CkOver'
    <3>1. abs'.now.first = INVALID /\ ~abs'.now.killed
      BY <1>0, <1>1, FreshFields, Zenon
    <3>2. punpack(obj'.pipe).msg = INVALID
      <4>1. obj'.pipe = obj.pipe /\ punpack(obj.pipe) = AtPhase(obj.child)
        BY <1>0, <1>2, Zenon
      <4>2. punpack(obj'.pipe) = AtPhase(obj.child)
        BY <4>1
      <4> QED
        BY <4>2, AtPhaseFields, Zenon
    <3> QED
      BY <3>1, <3>2 DEF CkOver
  <2> QED
    BY <1>0, <1>1, <1>2, <2>1, Zenon DEF CkForked, Phases
<1>5. CkNoFork'
  BY <1>0, <1>2, Zenon DEF CkNoFork
<1>6. CkSettled'
  BY <1>1, <1>2, ResultsKept
<1>7. CkNoProcessLeft'
  BY <1>1, <1>2 DEF CkNoProcessLeft
<1> QED
  BY <1>3, <1>4, <1>5, <1>6, <1>7

\* The timer goes off.
LEMMA AlarmInv ==
    ASSUME CkInv, sig_handler
    PROVE  CkInv'
<1> USE DEF CkInv
<1>0. obj.timer /\ obj.fork /\ obj.pc \in {"wait", "reap"} /\ IsASeq(obj.pipe)
  BY DEF sig_handler, CkForked, CkTypeOK
<1>a. CASE obj.child \in Phases \union {"grouped"}
  <2>a. /\ abs.now = Fresh /\ punpack(obj.pipe).msg = INVALID /\ obj.pc = "wait"
    <3>1. abs.now = Fresh /\ obj.pc = "wait"
      BY <1>0, <1>a DEF CkForked, Phases
    <3>2. CASE obj.child \in Phases
      <4>1. punpack(obj.pipe) = AtPhase(obj.child)
        BY <1>0, <3>2 DEF CkForked
      <4> QED
        BY <3>1, <4>1, AtPhaseFields, Zenon
    <3>3. CASE obj.child = "grouped"
      BY <1>0, <3>3, UnpackNone DEF CkForked, rcvmsg_create
    <3> QED
      BY <1>a, <3>1, <3>2, <3>3
  <2> DEFINE yes == TRUE
             no == FALSE
             now == [first |-> abs.now.first, killed |-> yes, st |-> NoStat]
             o1 == [obj EXCEPT !.timer = no]
             o == [o1 EXCEPT !.alarm = yes]
             st == [sig |-> SIGKILL, code |-> 0]
             p1 == [o EXCEPT !.child = "over"]
             p == [p1 EXCEPT !.st = st]
  <2>b. /\ obj' = [p EXCEPT !.gc = no] /\ subject' = subject
        /\ abs' = [abs EXCEPT !.now = [abs.now EXCEPT !.killed = yes]]
    <3>1. Becomes([Over([obj EXCEPT !.timer = FALSE, !.alarm = TRUE], SIGKILL, 0) EXCEPT !.gc = FALSE],
                  [abs EXCEPT !.now.killed = TRUE])
      BY <1>a DEF sig_handler, Phases, Becomes
    <3>2. Over([obj EXCEPT !.timer = FALSE, !.alarm = TRUE], SIGKILL, 0) = p
      BY DEF Over
    <3>3. [abs EXCEPT !.now.killed = TRUE] = [abs EXCEPT !.now = [abs.now EXCEPT !.killed = yes]]
      OBVIOUS
    <3> QED
      BY <3>1, <3>2, <3>3, Zenon DEF Becomes
  <2> HIDE DEF yes, no, st
  <2>c. abs' = [now |-> now, log |-> abs.log, lost |-> abs.lost]
    <3>2. [abs.now EXCEPT !.killed = yes] = now
      BY DEF CkTypeOK
    <3> HIDE DEF now
    <3>3. [abs EXCEPT !.now = now] = [now |-> now, log |-> abs.log, lost |-> abs.lost]
      BY DEF CkTypeOK
    <3> QED
      BY <2>b, <3>2, <3>3
  <2>d1. o1 = [fork |-> obj.fork, expected |-> obj.expected, allowed |-> obj.allowed, pc |-> obj.pc,
             t |-> obj.t, child |-> obj.child, phase |-> obj.phase, st |-> obj.st, gc |-> obj.gc,
             timer |-> no, alarm |-> obj.alarm, pipe |-> obj.pipe, results |-> obj.results,
             n_checked |-> obj.n_checked, n_failed |-> obj.n_failed, n_errors |-> obj.n_errors]
    BY DEF CkTypeOK
  <2> HIDE DEF o1
  <2>d. o = [fork |-> obj.fork, expected |-> obj.expected, allowed |-> obj.allowed, pc |-> obj.pc,
            t |-> obj.t, child |-> obj.child, phase |-> obj.phase, st |-> obj.st, gc |-> obj.gc,
            timer |-> no, alarm |-> yes, pipe |-> obj.pipe, results |-> obj.results,
            n_checked |-> obj.n_checked, n_failed |-> obj.n_failed, n_errors |-> obj.n_errors]
    BY <2>d1
  <2> HIDE DEF o
  <2>e1. p1 = [fork |-> obj.fork, expected |-> obj.expected, allowed |-> obj.allowed, pc |-> obj.pc,
             t |-> obj.t, child |-> "over", phase |-> obj.phase, st |-> obj.st, gc |-> obj.gc,
             timer |-> no, alarm |-> yes, pipe |-> obj.pipe, results |-> obj.results,
             n_checked |-> obj.n_checked, n_failed |-> obj.n_failed, n_errors |-> obj.n_errors]
    BY <2>d
  <2> HIDE DEF p1
  <2>e. p = [fork |-> obj.fork, expected |-> obj.expected, allowed |-> obj.allowed, pc |-> obj.pc,
            t |-> obj.t, child |-> "over", phase |-> obj.phase, st |-> st, gc |-> obj.gc,
            timer |-> no, alarm |-> yes, pipe |-> obj.pipe, results |-> obj.results,
            n_checked |-> obj.n_checked, n_failed |-> obj.n_failed, n_errors |-> obj.n_errors]
    BY <2>e1
  <2> HIDE DEF p, now
  <2>1. /\ obj' = [fork |-> obj.fork, expected |-> obj.expected, allowed |-> obj.allowed, pc |-> obj.pc,
                    t |-> obj.t, child |-> "over", phase |-> obj.phase, st |-> st, gc |-> no,
                    timer |-> no, alarm |-> yes, pipe |-> obj.pipe, results |-> obj.results,
                    n_checked |-> obj.n_checked, n_failed |-> obj.n_failed, n_errors |-> obj.n_errors]
        /\ abs' = [now |-> now, log |-> abs.log, lost |-> abs.lost] /\ subject' = subject
    BY <2>b, <2>c, <2>e, Zenon
  <2>2. /\ obj'.fork = obj.fork /\ obj'.expected = obj.expected /\ obj'.allowed = obj.allowed
        /\ obj'.pc = obj.pc /\ obj'.child = "over" /\ obj'.phase = obj.phase
        /\ obj'.st = [sig |-> SIGKILL, code |-> 0] /\ obj'.gc = FALSE /\ obj'.timer = FALSE
        /\ obj'.alarm = TRUE /\ obj'.pipe = obj.pipe /\ obj'.results = obj.results
    BY <2>1 DEF yes, no, st
  <2>f. abs'.now = now /\ abs'.log = abs.log /\ now.first = INVALID /\ now.killed
    <3>1. now.first = abs.now.first /\ now.killed
      BY Zenon DEF now, yes
    <3>2. abs'.now = now /\ abs'.log = abs.log
      BY <2>c
    <3> QED
      BY <2>a, <3>1, <3>2, FreshFields, Zenon
  <2>3. CkTypeOK'
    BY <2>1, <2>2, <2>f, Zenon DEF CkTypeOK, now, yes, no, st
  <2>4. CkForked'
    <3>1. CkOver'
      <4>1. punpack(obj'.pipe).msg = INVALID
        BY <2>a, <2>2, Zenon
      <4>2. obj'.st.sig = SIGKILL
        BY <2>2
      <4> QED
        BY <2>a, <2>2, <2>f, <4>1, <4>2, Zenon DEF CkOver
    <3> QED
      BY <1>0, <2>2, <3>1, <2>a, Zenon DEF CkForked, Phases
  <2>5. CkNoFork'
    BY <1>0, <2>2 DEF CkNoFork
  <2>6. CkSettled'
    BY <2>2, <2>f, ResultsKept
  <2>7. CkNoProcessLeft'
    BY <2>1, <2>2 DEF CkNoProcessLeft
  <2> QED
    BY <2>3, <2>4, <2>5, <2>6, <2>7
<1>b. CASE obj.child = "forked"
  <2>a. /\ obj' = [obj EXCEPT !.timer = FALSE, !.alarm = TRUE] /\ subject' = subject
        /\ abs' = [abs EXCEPT !.lost = TRUE]
    BY <1>b DEF sig_handler, Becomes, Phases
  <2>1. /\ obj' = [fork |-> obj.fork, expected |-> obj.expected, allowed |-> obj.allowed, pc |-> obj.pc,
                    t |-> obj.t, child |-> obj.child, phase |-> obj.phase, st |-> obj.st, gc |-> obj.gc,
                    timer |-> FALSE, alarm |-> TRUE, pipe |-> obj.pipe, results |-> obj.results,
                    n_checked |-> obj.n_checked, n_failed |-> obj.n_failed, n_errors |-> obj.n_errors]
        /\ abs' = [now |-> abs.now, log |-> abs.log, lost |-> TRUE] /\ subject' = subject
    BY <2>a, Zenon DEF CkTypeOK
  <2>2. /\ obj'.fork = obj.fork /\ obj'.expected = obj.expected /\ obj'.allowed = obj.allowed
        /\ obj'.pc = obj.pc /\ obj'.child = obj.child /\ obj'.phase = obj.phase
        /\ obj'.st = obj.st /\ obj'.gc = obj.gc /\ obj'.timer = FALSE /\ obj'.alarm = TRUE
        /\ obj'.pipe = obj.pipe /\ obj'.results = obj.results
    BY <2>1
  <2>b. abs'.now = abs.now /\ abs'.log = abs.log
    BY <2>1
  <2>3. CkTypeOK'
    BY <2>1, <2>2, <2>b DEF CkTypeOK
  <2>4. CkForked'
    BY <1>0, <1>b, <2>2, <2>b DEF CkForked, Phases
  <2>5. CkNoFork'
    BY <1>0, <2>2, Zenon DEF CkNoFork
  <2>6. CkSettled'
    BY <2>2, <2>b, ResultsKept
  <2>7. CkNoProcessLeft'
    BY <2>1, <2>2 DEF CkNoProcessLeft
  <2> QED
    BY <2>3, <2>4, <2>5, <2>6, <2>7
<1>c. CASE obj.child \notin Phases \union {"grouped", "forked"}
  <2>a. /\ obj' = [[obj EXCEPT !.timer = FALSE, !.alarm = TRUE] EXCEPT !.gc = FALSE] /\ subject' = subject
        /\ abs' = abs
    BY <1>c DEF sig_handler, Becomes
  <2>1. /\ obj' = [fork |-> obj.fork, expected |-> obj.expected, allowed |-> obj.allowed, pc |-> obj.pc,
                    t |-> obj.t, child |-> obj.child, phase |-> obj.phase, st |-> obj.st, gc |-> FALSE,
                    timer |-> FALSE, alarm |-> TRUE, pipe |-> obj.pipe, results |-> obj.results,
                    n_checked |-> obj.n_checked, n_failed |-> obj.n_failed, n_errors |-> obj.n_errors]
        /\ abs' = abs /\ subject' = subject
    BY <2>a, Zenon DEF CkTypeOK
  <2>2. /\ obj'.fork = obj.fork /\ obj'.expected = obj.expected /\ obj'.allowed = obj.allowed
        /\ obj'.pc = obj.pc /\ obj'.child = obj.child /\ obj'.phase = obj.phase
        /\ obj'.st = obj.st /\ obj'.gc = FALSE /\ obj'.timer = FALSE /\ obj'.alarm = TRUE
        /\ obj'.pipe = obj.pipe /\ obj'.results = obj.results
    BY <2>1
  <2>3. CkTypeOK'
    BY <2>1, <2>2 DEF CkTypeOK
  <2>4. CkForked'
    <3>1. obj.child = "over" => CkOver'
      BY <1>0, <2>1, <2>2, Zenon DEF CkForked, CkOver
    <3> QED
      BY <1>0, <1>c, <2>1, <2>2, <3>1, Zenon DEF CkForked, Phases
  <2>5. CkNoFork'
    BY <1>0, <2>2 DEF CkNoFork
  <2>6. CkSettled'
    BY <2>1, <2>2, ResultsKept
  <2>7. CkNoProcessLeft'
    BY <2>1, <2>2 DEF CkNoProcessLeft
  <2> QED
    BY <2>3, <2>4, <2>5, <2>6, <2>7
<1> QED
  BY <1>a, <1>b, <1>c

\* The verdict of set_fork_info on a test that is over
LEMMA ForkVerdict ==
    ASSUME CkTypeOK, CkOver, obj.fork
    PROVE  Settled(obj, set_fork_info(Received(obj), obj.st, obj.expected, obj.allowed, obj.alarm),
                   [abs.now EXCEPT !.st = obj.st])
<1> DEFINE u == punpack(obj.pipe)
           R == Received(obj)
           tr == set_fork_info(R, obj.st, obj.expected, obj.allowed, obj.alarm)
           is == [abs.now EXCEPT !.st = obj.st]
<1>1. R = [ctx |-> R.ctx, msg |-> R.msg, at |-> R.at, rtype |-> R.rtype]
  BY DEF Received, construct_test_result
<1>2. R.msg = u.msg /\ (u.msg # INVALID => R.ctx = u.lastctx /\ R.at = LocByCtx(u, u.lastctx))
  BY DEF Received, construct_test_result
<1>3. is.first = abs.now.first /\ is.killed = abs.now.killed /\ is.st = obj.st
  BY DEF CkTypeOK
<1> HIDE DEF R, is, u
<1>4. /\ u.msg = abs.now.first
      /\ abs.now.first # INVALID => /\ obj.st = [sig |-> 0, code |-> 1] /\ ~abs.now.killed
                                    /\ u.lastctx = abs.now.first
                                    /\ LocByCtx(u, abs.now.first) = abs.now.first
      /\ abs.now.killed => obj.alarm /\ obj.st.sig = SIGKILL
  BY DEF CkOver, u
<1>5. \A y : [R EXCEPT !.rtype = y] = [ctx |-> R.ctx, msg |-> R.msg, at |-> R.at, rtype |-> y]
  BY <1>1
<1>6. \A x, y : [R EXCEPT !.rtype = y, !.msg = x] = [ctx |-> R.ctx, msg |-> x, at |-> R.at, rtype |-> y]
  <2> SUFFICES ASSUME NEW x, NEW y
               PROVE  [R EXCEPT !.rtype = y, !.msg = x] = [ctx |-> R.ctx, msg |-> x, at |-> R.at, rtype |-> y]
    BY Zenon
  <2> DEFINE q == [R EXCEPT !.rtype = y]
  <2>1. q = [ctx |-> R.ctx, msg |-> R.msg, at |-> R.at, rtype |-> y]
    BY <1>5
  <2>2. [R EXCEPT !.rtype = y, !.msg = x] = [q EXCEPT !.msg = x]
    OBVIOUS
  <2> HIDE DEF q
  <2>3. [q EXCEPT !.msg = x] = [ctx |-> R.ctx, msg |-> x, at |-> R.at, rtype |-> y]
    BY <2>1
  <2> QED
    BY <2>2, <2>3
<1>7. \/ /\ obj.st.sig # 0 /\ obj.st.sig = obj.expected /\ ~obj.alarm
         /\ tr = [ctx |-> R.ctx, msg |-> "Passed", at |-> R.at, rtype |-> "PASS"]
      \/ /\ obj.st.sig # 0 /\ (obj.st.sig # obj.expected \/ obj.alarm)
         /\ tr = [ctx |-> R.ctx, msg |-> IF obj.alarm THEN "timeout" ELSE "signal", at |-> R.at,
                  rtype |-> "ERROR"]
      \/ /\ obj.st.sig = 0 /\ obj.expected = 0 /\ obj.st.code = obj.allowed
         /\ tr = [ctx |-> R.ctx, msg |-> "Passed", at |-> R.at, rtype |-> "PASS"]
      \/ /\ obj.st.sig = 0 /\ obj.expected = 0 /\ obj.st.code # obj.allowed
         /\ tr = IF R.msg = INVALID THEN [ctx |-> R.ctx, msg |-> "exit", at |-> R.at, rtype |-> "ERROR"]
                 ELSE [ctx |-> R.ctx, msg |-> R.msg, at |-> R.at, rtype |-> "FAILURE"]
      \/ /\ obj.st.sig = 0 /\ obj.expected # 0
         /\ tr = [ctx |-> R.ctx, msg |-> "exit", at |-> R.at, rtype |-> "FAILURE"]
  <2>1. CASE obj.st.sig # 0 /\ obj.st.sig = obj.expected /\ ~obj.alarm
    BY <1>6, <2>1, Zenon DEF set_fork_info
  <2>2. CASE obj.st.sig # 0 /\ (obj.st.sig # obj.expected \/ obj.alarm)
    <3>1. tr = [R EXCEPT !.rtype = "ERROR", !.msg = IF obj.alarm THEN "timeout" ELSE "signal"]
      BY <2>2 DEF set_fork_info
    <3> QED
      BY <1>6, <2>2, <3>1, Zenon
  <2>3. CASE obj.st.sig = 0 /\ obj.expected = 0 /\ obj.st.code = obj.allowed
    BY <1>6, <2>3, Zenon DEF set_fork_info
  <2>4. CASE obj.st.sig = 0 /\ obj.expected = 0 /\ obj.st.code # obj.allowed
    <3>1. tr = IF R.msg = INVALID THEN [R EXCEPT !.rtype = "ERROR", !.msg = "exit"]
               ELSE [R EXCEPT !.rtype = "FAILURE"]
      BY <2>4 DEF set_fork_info
    <3> QED
      BY <1>5, <1>6, <2>4, <3>1, Zenon
  <2>5. CASE obj.st.sig = 0 /\ obj.expected # 0
    <3>1. tr = [R EXCEPT !.rtype = "FAILURE", !.msg = "exit"]
      BY <2>5 DEF set_fork_info
    <3> QED
      BY <1>6, <2>5, <3>1, Zenon
  <2> QED
    BY <2>1, <2>2, <2>3, <2>4, <2>5, Zenon
<1> HIDE DEF tr
<1>8. tr.rtype = "PASS" => IF obj.expected = 0 THEN is.st = [sig |-> 0, code |-> obj.allowed]
                           ELSE is.st.sig = obj.expected /\ ~is.killed
  <2>1. CASE obj.st.sig # 0 /\ obj.st.sig = obj.expected /\ ~obj.alarm
    BY <1>3, <1>4, <2>1, Zenon
  <2>2. CASE obj.st.sig = 0 /\ obj.expected = 0 /\ obj.st.code = obj.allowed
    BY <1>3, <2>2 DEF CkTypeOK
  <2>3. CASE \/ tr = [ctx |-> R.ctx, msg |-> IF obj.alarm THEN "timeout" ELSE "signal", at |-> R.at,
                       rtype |-> "ERROR"]
             \/ tr = [ctx |-> R.ctx, msg |-> "exit", at |-> R.at, rtype |-> "ERROR"]
             \/ tr = [ctx |-> R.ctx, msg |-> R.msg, at |-> R.at, rtype |-> "FAILURE"]
             \/ tr = [ctx |-> R.ctx, msg |-> "exit", at |-> R.at, rtype |-> "FAILURE"]
    BY <2>3
  <2> QED
    BY <1>7, <2>1, <2>2, <2>3, Zenon
<1>9. is.killed => tr.rtype = "ERROR" /\ tr.msg = "timeout"
  <2>1. SUFFICES ASSUME is.killed
                 PROVE  tr.rtype = "ERROR" /\ tr.msg = "timeout"
    BY Zenon
  <2>2. obj.alarm /\ obj.st.sig # 0
    <3>1. SIGKILL # 0
      BY DEF SIGKILL
    <3> QED
      BY <1>3, <1>4, <2>1, <3>1, Zenon
  <2>3. tr = [ctx |-> R.ctx, msg |-> "timeout", at |-> R.at, rtype |-> "ERROR"]
    BY <1>7, <2>2, Zenon
  <2> QED
    BY <2>3, Zenon
<1>10. is.first # INVALID /\ obj.expected = 0 /\ obj.allowed # 1 =>
          tr.rtype = "FAILURE" /\ tr.msg = is.first /\ tr.ctx = is.first /\ tr.at = is.first
  BY <1>2, <1>3, <1>4, <1>7
<1>11. Settled(obj, tr, is)
  BY <1>8, <1>9, <1>10 DEF Settled
<1> QED
  BY <1>11 DEF tr, is, R
IsObj(o) ==
    o = [fork |-> o.fork, expected |-> o.expected, allowed |-> o.allowed, pc |-> o.pc,
         t |-> o.t, child |-> o.child, phase |-> o.phase, st |-> o.st, gc |-> o.gc,
         timer |-> o.timer, alarm |-> o.alarm, pipe |-> o.pipe, results |-> o.results,
         n_checked |-> o.n_checked, n_failed |-> o.n_failed, n_errors |-> o.n_errors]

\* A result changes the counters and the list of results.
LEMMA AddFailure ==
    ASSUME NEW o, IsObj(o), NEW tr
    PROVE  LET p == srunner_add_failure(o, tr)
           IN  /\ IsObj(p)
               /\ p.fork = o.fork /\ p.expected = o.expected /\ p.allowed = o.allowed
               /\ p.pc = o.pc /\ p.child = o.child /\ p.phase = o.phase /\ p.st = o.st
               /\ p.gc = o.gc /\ p.timer = o.timer /\ p.alarm = o.alarm /\ p.pipe = o.pipe
               /\ p.results = Append(o.results, tr)
<1> DEFINE rs == Append(o.results, tr)
           nc == o.n_checked + 1
           nf == IF tr.rtype = "FAILURE" THEN o.n_failed + 1 ELSE o.n_failed
           ne == IF tr.rtype = "ERROR" THEN o.n_errors + 1 ELSE o.n_errors
           a == [o EXCEPT !.results = rs]
           b == [a EXCEPT !.n_checked = nc]
           c == [b EXCEPT !.n_failed = nf]
           p == [c EXCEPT !.n_errors = ne]
<1>1. /\ a.n_checked = o.n_checked /\ b.n_failed = o.n_failed /\ c.n_errors = o.n_errors
  BY DEF IsObj
<1>2. srunner_add_failure(o, tr) = p
  BY <1>1 DEF srunner_add_failure
<1> HIDE DEF rs, nc, nf, ne
<1>3. a = [fork |-> o.fork, expected |-> o.expected, allowed |-> o.allowed, pc |-> o.pc,
           t |-> o.t, child |-> o.child, phase |-> o.phase, st |-> o.st, gc |-> o.gc,
           timer |-> o.timer, alarm |-> o.alarm, pipe |-> o.pipe, results |-> rs,
           n_checked |-> o.n_checked, n_failed |-> o.n_failed, n_errors |-> o.n_errors]
  BY DEF IsObj
<1> HIDE DEF a
<1>4. b = [fork |-> o.fork, expected |-> o.expected, allowed |-> o.allowed, pc |-> o.pc,
           t |-> o.t, child |-> o.child, phase |-> o.phase, st |-> o.st, gc |-> o.gc,
           timer |-> o.timer, alarm |-> o.alarm, pipe |-> o.pipe, results |-> rs,
           n_checked |-> nc, n_failed |-> o.n_failed, n_errors |-> o.n_errors]
  BY <1>3
<1> HIDE DEF b
<1>5. c = [fork |-> o.fork, expected |-> o.expected, allowed |-> o.allowed, pc |-> o.pc,
           t |-> o.t, child |-> o.child, phase |-> o.phase, st |-> o.st, gc |-> o.gc,
           timer |-> o.timer, alarm |-> o.alarm, pipe |-> o.pipe, results |-> rs,
           n_checked |-> nc, n_failed |-> nf, n_errors |-> o.n_errors]
  BY <1>4
<1> HIDE DEF c
<1>6. p = [fork |-> o.fork, expected |-> o.expected, allowed |-> o.allowed, pc |-> o.pc,
           t |-> o.t, child |-> o.child, phase |-> o.phase, st |-> o.st, gc |-> o.gc,
           timer |-> o.timer, alarm |-> o.alarm, pipe |-> o.pipe, results |-> rs,
           n_checked |-> nc, n_failed |-> nf, n_errors |-> ne]
  BY <1>5
<1> HIDE DEF p
<1>7. /\ IsObj(p)
      /\ p.fork = o.fork /\ p.expected = o.expected /\ p.allowed = o.allowed
      /\ p.pc = o.pc /\ p.child = o.child /\ p.phase = o.phase /\ p.st = o.st
      /\ p.gc = o.gc /\ p.timer = o.timer /\ p.alarm = o.alarm /\ p.pipe = o.pipe
      /\ p.results = rs
  BY <1>6 DEF IsObj
<1> QED
  BY <1>2, <1>7 DEF rs

\* The result of a test in its own process is received.
LEMMA ReceiveInv ==
    ASSUME CkInv, receive_result_info_fork
    PROVE  CkInv'
<1> USE DEF CkInv
<1>0. obj.pc = "reap" /\ obj.fork /\ obj.child = "over" /\ CkOver
  BY DEF receive_result_info_fork, CkForked, CkTypeOK
<1>o. IsObj(obj)
  BY DEF CkTypeOK, IsObj
<1> DEFINE no == FALSE
           o1 == [obj EXCEPT !.timer = no]
           o2 == [o1 EXCEPT !.gc = no]
           o3 == [o2 EXCEPT !.child = "none"]
           o4 == [o3 EXCEPT !.pipe = <<>>]
           o == [o4 EXCEPT !.pc = "next"]
           d == [o EXCEPT !.pc = "died"]
           tr == set_fork_info(Received(obj), obj.st, obj.expected, obj.allowed, obj.alarm)
           is == [abs.now EXCEPT !.st = obj.st]
<1>a. \/ obj' = d /\ abs' = abs /\ subject' = subject
      \/ /\ obj' = srunner_add_failure(o, tr) /\ subject' = subject
         /\ abs' = [abs EXCEPT !.log = Append(abs.log, is)]
  BY DEF receive_result_info_fork, Becomes
<1>b. Settled(obj, tr, is)
  BY <1>0, ForkVerdict
<1> HIDE DEF no, tr, is
<1>x1. o1 = [fork |-> obj.fork, expected |-> obj.expected, allowed |-> obj.allowed, pc |-> obj.pc,
             t |-> obj.t, child |-> obj.child, phase |-> obj.phase, st |-> obj.st, gc |-> obj.gc,
             timer |-> no, alarm |-> obj.alarm, pipe |-> obj.pipe, results |-> obj.results,
             n_checked |-> obj.n_checked, n_failed |-> obj.n_failed, n_errors |-> obj.n_errors]
  BY <1>o DEF IsObj
<1> HIDE DEF o1
<1>x2. o2 = [fork |-> obj.fork, expected |-> obj.expected, allowed |-> obj.allowed, pc |-> obj.pc,
             t |-> obj.t, child |-> obj.child, phase |-> obj.phase, st |-> obj.st, gc |-> no,
             timer |-> no, alarm |-> obj.alarm, pipe |-> obj.pipe, results |-> obj.results,
             n_checked |-> obj.n_checked, n_failed |-> obj.n_failed, n_errors |-> obj.n_errors]
  BY <1>x1
<1> HIDE DEF o2
<1>x3. o3 = [fork |-> obj.fork, expected |-> obj.expected, allowed |-> obj.allowed, pc |-> obj.pc,
             t |-> obj.t, child |-> "none", phase |-> obj.phase, st |-> obj.st, gc |-> no,
             timer |-> no, alarm |-> obj.alarm, pipe |-> obj.pipe, results |-> obj.results,
             n_checked |-> obj.n_checked, n_failed |-> obj.n_failed, n_errors |-> obj.n_errors]
  BY <1>x2
<1> HIDE DEF o3
<1>x4. o4 = [fork |-> obj.fork, expected |-> obj.expected, allowed |-> obj.allowed, pc |-> obj.pc,
             t |-> obj.t, child |-> "none", phase |-> obj.phase, st |-> obj.st, gc |-> no,
             timer |-> no, alarm |-> obj.alarm, pipe |-> <<>>, results |-> obj.results,
             n_checked |-> obj.n_checked, n_failed |-> obj.n_failed, n_errors |-> obj.n_errors]
  BY <1>x3
<1> HIDE DEF o4
<1>d. o = [fork |-> obj.fork, expected |-> obj.expected, allowed |-> obj.allowed, pc |-> "next",
             t |-> obj.t, child |-> "none", phase |-> obj.phase, st |-> obj.st, gc |-> no,
             timer |-> no, alarm |-> obj.alarm, pipe |-> <<>>, results |-> obj.results,
             n_checked |-> obj.n_checked, n_failed |-> obj.n_failed, n_errors |-> obj.n_errors]
  BY <1>x4
<1> HIDE DEF o
<1>e. d = [fork |-> obj.fork, expected |-> obj.expected, allowed |-> obj.allowed, pc |-> "died",
           t |-> obj.t, child |-> "none", phase |-> obj.phase, st |-> obj.st, gc |-> no,
           timer |-> no, alarm |-> obj.alarm, pipe |-> <<>>, results |-> obj.results,
           n_checked |-> obj.n_checked, n_failed |-> obj.n_failed, n_errors |-> obj.n_errors]
  BY <1>d
<1> HIDE DEF d
<1>f. CASE obj' = d /\ abs' = abs /\ subject' = subject
  <2>1. /\ obj'.fork = obj.fork /\ obj'.expected = obj.expected /\ obj'.allowed = obj.allowed
        /\ obj'.pc = "died" /\ obj'.child = "none" /\ obj'.phase = obj.phase /\ obj'.st = obj.st
        /\ obj'.gc = no /\ obj'.timer = no /\ obj'.alarm = obj.alarm /\ obj'.pipe = <<>>
        /\ obj'.results = obj.results
    BY <1>e, <1>f
  <2>2. obj'.timer = FALSE /\ obj'.gc = FALSE
    BY <2>1 DEF no
  <2>3. CkTypeOK'
    BY <1>e, <1>f, <2>1, <2>2, UnpackNone, Zenon DEF CkTypeOK
  <2>4. CkForked'
    BY <1>0, <2>1, <2>2 DEF CkForked, Phases
  <2>5. CkNoFork'
    BY <1>0, <2>1 DEF CkNoFork
  <2>6. CkSettled'
    BY <1>f, <2>1, ResultsKept
  <2>7. CkNoProcessLeft'
    BY <2>2 DEF CkNoProcessLeft
  <2> QED
    BY <2>3, <2>4, <2>5, <2>6, <2>7
<1>g. CASE /\ obj' = srunner_add_failure(o, tr) /\ subject' = subject
           /\ abs' = [abs EXCEPT !.log = Append(abs.log, is)]
  <2>a. IsObj(o)
    BY <1>d DEF IsObj
  <2>b. /\ IsObj(obj')
        /\ obj'.fork = o.fork /\ obj'.expected = o.expected /\ obj'.allowed = o.allowed
        /\ obj'.pc = o.pc /\ obj'.child = o.child /\ obj'.phase = o.phase /\ obj'.st = o.st
        /\ obj'.gc = o.gc /\ obj'.timer = o.timer /\ obj'.alarm = o.alarm
        /\ obj'.pipe = o.pipe /\ obj'.results = Append(o.results, tr)
    BY <1>g, <2>a, AddFailure
  <2>1. /\ obj'.fork = obj.fork /\ obj'.expected = obj.expected /\ obj'.allowed = obj.allowed
        /\ obj'.pc = "next" /\ obj'.child = "none" /\ obj'.st = obj.st /\ obj'.timer = no
        /\ obj'.gc = no /\ obj'.alarm = obj.alarm /\ obj'.pipe = <<>>
        /\ obj'.results = Append(obj.results, tr)
    BY <1>d, <2>b, Zenon
  <2>2. obj'.timer = FALSE /\ obj'.gc = FALSE
    BY <2>1 DEF no
  <2>c. /\ abs' = [now |-> abs.now, log |-> Append(abs.log, is), lost |-> abs.lost]
        /\ abs'.now = abs.now /\ abs'.log = Append(abs.log, is)
    BY <1>g, Zenon DEF CkTypeOK
  <2>d. /\ CkSettled' /\ IsASeq(obj'.results) /\ IsASeq(abs'.log)
        /\ Len(abs'.log) = Len(obj'.results)
    BY <1>b, <2>1, <2>c, ResultAdded, Zenon
  <2>3. CkTypeOK'
    BY <1>g, <2>b, <2>1, <2>2, <2>c, <2>d, UnpackNone, Zenon DEF CkTypeOK, IsObj
  <2>4. CkForked'
    BY <1>0, <2>1, <2>2 DEF CkForked, Phases
  <2>5. CkNoFork'
    BY <1>0, <2>1 DEF CkNoFork
  <2>6. CkSettled'
    BY <2>d
  <2>7. CkNoProcessLeft'
    BY <2>2 DEF CkNoProcessLeft
  <2> QED
    BY <2>3, <2>4, <2>5, <2>6, <2>7
<1> QED
  BY <1>a, <1>f, <1>g

\* The next test begins, or there is none.
LEMMA NextTestInv ==
    ASSUME CkInv, NextTest
    PROVE  CkInv'
<1> USE DEF CkInv
<1>0. obj.pc = "next" /\ obj.child = "none" /\ ~obj.timer /\ IsObj(obj)
  BY DEF NextTest, CkForked, CkTypeOK, IsObj
<1> DEFINE no == FALSE
           t == obj.t + 1
           d == [obj EXCEPT !.pc = "teardown"]
           f1 == [obj EXCEPT !.t = t]
           f2 == [f1 EXCEPT !.pc = "arm"]
           f3 == [f2 EXCEPT !.child = "forked"]
           f == [f3 EXCEPT !.st = NoStat]
           r2 == [f1 EXCEPT !.pc = "run"]
           r3 == [r2 EXCEPT !.phase = "setup"]
           r == [r3 EXCEPT !.pipe = <<Ctx("setup")>>]
<1>a. /\ obj' = IF obj.t = CkTests THEN d ELSE IF obj.fork THEN f ELSE r
      /\ abs' = [abs EXCEPT !.now = Fresh, !.lost = no] /\ subject' = subject
  BY DEF NextTest, Becomes
<1> HIDE DEF no, t, d, f, f1, f2, f3, r, r2, r3
<1>b. abs' = [now |-> Fresh, log |-> abs.log, lost |-> no] /\ abs'.now = Fresh /\ abs'.log = abs.log
  BY <1>a, Zenon DEF CkTypeOK
<1>c. /\ Fresh = [first |-> Fresh.first, killed |-> Fresh.killed, st |-> NoStat]
      /\ Fresh.first = INVALID /\ Fresh.killed = FALSE
  BY DEF Fresh
<1>d. CASE obj' = d
  <2>0. d = [fork |-> obj.fork, expected |-> obj.expected, allowed |-> obj.allowed,
              pc |-> "teardown", t |-> obj.t, child |-> obj.child, phase |-> obj.phase,
              st |-> obj.st, gc |-> obj.gc, timer |-> obj.timer, alarm |-> obj.alarm,
              pipe |-> obj.pipe, results |-> obj.results, n_checked |-> obj.n_checked,
              n_failed |-> obj.n_failed, n_errors |-> obj.n_errors]
    BY <1>0 DEF IsObj, d
  <2>1. /\ obj'.fork = obj.fork /\ obj'.expected = obj.expected /\ obj'.allowed = obj.allowed
        /\ obj'.pc = "teardown" /\ obj'.child = obj.child /\ obj'.phase = obj.phase
        /\ obj'.st = obj.st /\ obj'.gc = obj.gc /\ obj'.timer = obj.timer
        /\ obj'.alarm = obj.alarm /\ obj'.pipe = obj.pipe /\ obj'.results = obj.results
    BY <2>0, <1>d
  <2>2. IsObj(obj')
    BY <2>0, <1>d DEF IsObj
  <2>3. CkTypeOK'
    BY <1>a, <1>b, <1>c, <2>1, <2>2, Zenon DEF CkTypeOK, IsObj
  <2>4. CkForked'
    BY <1>0, <1>b, <2>1, Zenon DEF CkForked, Phases
  <2>5. CkNoFork'
    BY <2>1 DEF CkNoFork
  <2>6. CkSettled'
    BY <1>b, <2>1, ResultsKept
  <2>7. CkNoProcessLeft'
    BY <1>0, <1>a, <2>1 DEF CkNoProcessLeft
  <2> QED
    BY <2>3, <2>4, <2>5, <2>6, <2>7
<1>e. CASE obj.fork /\ obj' = f
  <2> USE DEF f1, f2, f3, f
  <2>x1. f1 = [fork |-> obj.fork, expected |-> obj.expected, allowed |-> obj.allowed, pc |-> obj.pc,
               t |-> t, child |-> obj.child, phase |-> obj.phase, st |-> obj.st, gc |-> obj.gc,
               timer |-> obj.timer, alarm |-> obj.alarm, pipe |-> obj.pipe, results |-> obj.results,
               n_checked |-> obj.n_checked, n_failed |-> obj.n_failed, n_errors |-> obj.n_errors]
    BY <1>0 DEF IsObj
  <2> HIDE DEF f1
  <2>x2. f2 = [fork |-> obj.fork, expected |-> obj.expected, allowed |-> obj.allowed, pc |-> "arm",
               t |-> t, child |-> obj.child, phase |-> obj.phase, st |-> obj.st, gc |-> obj.gc,
               timer |-> obj.timer, alarm |-> obj.alarm, pipe |-> obj.pipe, results |-> obj.results,
               n_checked |-> obj.n_checked, n_failed |-> obj.n_failed, n_errors |-> obj.n_errors]
    BY <2>x1
  <2> HIDE DEF f2
  <2>x3. f3 = [fork |-> obj.fork, expected |-> obj.expected, allowed |-> obj.allowed, pc |-> "arm",
               t |-> t, child |-> "forked", phase |-> obj.phase, st |-> obj.st, gc |-> obj.gc,
               timer |-> obj.timer, alarm |-> obj.alarm, pipe |-> obj.pipe, results |-> obj.results,
               n_checked |-> obj.n_checked, n_failed |-> obj.n_failed, n_errors |-> obj.n_errors]
    BY <2>x2
  <2> HIDE DEF f3
  <2>0. f = [fork |-> obj.fork, expected |-> obj.expected, allowed |-> obj.allowed, pc |-> "arm",
               t |-> t, child |-> "forked", phase |-> obj.phase, st |-> NoStat, gc |-> obj.gc,
               timer |-> obj.timer, alarm |-> obj.alarm, pipe |-> obj.pipe, results |-> obj.results,
               n_checked |-> obj.n_checked, n_failed |-> obj.n_failed, n_errors |-> obj.n_errors]
    BY <2>x3
  <2> HIDE DEF f
  <2>1. /\ obj'.fork = obj.fork /\ obj'.expected = obj.expected /\ obj'.allowed = obj.allowed
        /\ obj'.pc = "arm" /\ obj'.child = "forked" /\ obj'.phase = obj.phase
        /\ obj'.st = NoStat /\ obj'.gc = obj.gc /\ obj'.timer = obj.timer
        /\ obj'.alarm = obj.alarm /\ obj'.pipe = obj.pipe /\ obj'.results = obj.results
    BY <2>0, <1>e, Zenon
  <2>2. IsObj(obj')
    BY <2>0, <1>e, Zenon DEF IsObj
  <2>3. CkTypeOK'
    BY <1>a, <1>b, <1>c, <2>1, <2>2, Zenon DEF CkTypeOK, IsObj, NoStat
  <2>4. CkForked'
    BY <1>0, <1>b, <1>e, <2>1, Zenon DEF CkForked, Phases
  <2>5. CkNoFork'
    BY <2>1 DEF CkNoFork
  <2>6. CkSettled'
    BY <1>b, <2>1, ResultsKept
  <2>7. CkNoProcessLeft'
    BY <1>0, <1>a, <2>1 DEF CkNoProcessLeft
  <2> QED
    BY <2>3, <2>4, <2>5, <2>6, <2>7
<1>f. CASE ~obj.fork /\ obj' = r
  <2> USE DEF f1, r2, r3, r
  <2>x1. f1 = [fork |-> obj.fork, expected |-> obj.expected, allowed |-> obj.allowed, pc |-> obj.pc,
               t |-> t, child |-> obj.child, phase |-> obj.phase, st |-> obj.st, gc |-> obj.gc,
               timer |-> obj.timer, alarm |-> obj.alarm, pipe |-> obj.pipe, results |-> obj.results,
               n_checked |-> obj.n_checked, n_failed |-> obj.n_failed, n_errors |-> obj.n_errors]
    BY <1>0 DEF IsObj
  <2> HIDE DEF f1
  <2>x2. r2 = [fork |-> obj.fork, expected |-> obj.expected, allowed |-> obj.allowed, pc |-> "run",
               t |-> t, child |-> obj.child, phase |-> obj.phase, st |-> obj.st, gc |-> obj.gc,
               timer |-> obj.timer, alarm |-> obj.alarm, pipe |-> obj.pipe, results |-> obj.results,
               n_checked |-> obj.n_checked, n_failed |-> obj.n_failed, n_errors |-> obj.n_errors]
    BY <2>x1
  <2> HIDE DEF r2
  <2>x3. r3 = [fork |-> obj.fork, expected |-> obj.expected, allowed |-> obj.allowed, pc |-> "run",
               t |-> t, child |-> obj.child, phase |-> "setup", st |-> obj.st, gc |-> obj.gc,
               timer |-> obj.timer, alarm |-> obj.alarm, pipe |-> obj.pipe, results |-> obj.results,
               n_checked |-> obj.n_checked, n_failed |-> obj.n_failed, n_errors |-> obj.n_errors]
    BY <2>x2
  <2> HIDE DEF r3
  <2>0. r = [fork |-> obj.fork, expected |-> obj.expected, allowed |-> obj.allowed, pc |-> "run",
               t |-> t, child |-> obj.child, phase |-> "setup", st |-> obj.st, gc |-> obj.gc,
               timer |-> obj.timer, alarm |-> obj.alarm, pipe |-> <<Ctx("setup")>>,
               results |-> obj.results, n_checked |-> obj.n_checked, n_failed |-> obj.n_failed,
               n_errors |-> obj.n_errors]
    BY <2>x3
  <2> HIDE DEF r
  <2>1. /\ obj'.fork = obj.fork /\ obj'.expected = obj.expected /\ obj'.allowed = obj.allowed
        /\ obj'.pc = "run" /\ obj'.child = obj.child /\ obj'.phase = "setup" /\ obj'.st = obj.st
        /\ obj'.gc = obj.gc /\ obj'.timer = obj.timer /\ obj'.alarm = obj.alarm
        /\ obj'.pipe = <<Ctx("setup")>> /\ obj'.results = obj.results
    BY <2>0, <1>f
  <2>2. IsObj(obj')
    BY <2>0, <1>f DEF IsObj
  <2>3. CkTypeOK'
    BY <1>a, <1>b, <1>c, <2>1, <2>2, RunnerBegins, Zenon DEF CkTypeOK, IsObj
  <2>4. CkForked'
    BY <1>0, <1>f, <2>1, Zenon DEF CkForked, Phases
  <2>5. CkNoFork'
    BY <1>b, <1>c, <2>1, RunnerBegins DEF CkNoFork, Phases
  <2>6. CkSettled'
    BY <1>b, <2>1, ResultsKept
  <2>7. CkNoProcessLeft'
    BY <1>0, <1>a, <2>1 DEF CkNoProcessLeft
  <2> QED
    BY <2>3, <2>4, <2>5, <2>6, <2>7
<1> QED
  BY <1>a, <1>d, <1>e, <1>f

\* The verdict of set_nofork_info
LEMMA RunnerVerdict ==
    ASSUME NEW o, NEW R, R = [ctx |-> R.ctx, msg |-> R.msg, at |-> R.at, rtype |-> R.rtype], ~o.fork,
           NEW is, is.first = R.msg
    PROVE  Settled(o, set_nofork_info(R), is)
<1> DEFINE q == [R EXCEPT !.rtype = "PASS"]
           p == [q EXCEPT !.msg = "Passed"]
           f == [R EXCEPT !.rtype = "FAILURE"]
<1>1. set_nofork_info(R) = IF R.msg = INVALID THEN p ELSE f
  BY DEF set_nofork_info
<1>2. q = [ctx |-> R.ctx, msg |-> R.msg, at |-> R.at, rtype |-> "PASS"]
  OBVIOUS
<1>3. f = [ctx |-> R.ctx, msg |-> R.msg, at |-> R.at, rtype |-> "FAILURE"]
  OBVIOUS
<1> HIDE DEF q, f
<1>4. p = [ctx |-> R.ctx, msg |-> "Passed", at |-> R.at, rtype |-> "PASS"]
  BY <1>2
<1> HIDE DEF p
<1> QED
  BY <1>1, <1>3, <1>4 DEF Settled

\* The result of a test in the runner's process
LEMMA FinishedInv ==
    ASSUME CkInv, ~obj.fork, NEW o, IsObj(o), o.fork = obj.fork, o.expected = obj.expected,
           o.allowed = obj.allowed, o.child = obj.child, o.st = obj.st, o.gc = obj.gc,
           o.timer = obj.timer, o.alarm = obj.alarm, o.results = obj.results,
           NEW truth, truth.first = punpack(o.pipe).msg, Finished(o, truth)
    PROVE  CkInv'
<1> USE DEF CkInv
<1> DEFINE R == Received(o)
           tr == set_nofork_info(R)
           a == [o EXCEPT !.pipe = <<>>]
           b == [a EXCEPT !.phase = INVALID]
           c == [b EXCEPT !.pc = "next"]
<1>1. /\ obj' = srunner_add_failure(c, tr) /\ subject' = subject
      /\ abs' = [abs EXCEPT !.log = Append(abs.log, truth)]
  BY DEF Finished, Becomes
<1>2. Settled(obj, tr, truth)
  <2>1. R = [ctx |-> R.ctx, msg |-> R.msg, at |-> R.at, rtype |-> R.rtype] /\ R.msg = punpack(o.pipe).msg
    BY Zenon DEF Received, construct_test_result
  <2> HIDE DEF R
  <2> QED
    BY <2>1, RunnerVerdict
<1> HIDE DEF tr
<1>3. a = [fork |-> o.fork, expected |-> o.expected, allowed |-> o.allowed, pc |-> o.pc,
           t |-> o.t, child |-> o.child, phase |-> o.phase, st |-> o.st, gc |-> o.gc,
           timer |-> o.timer, alarm |-> o.alarm, pipe |-> <<>>, results |-> o.results,
           n_checked |-> o.n_checked, n_failed |-> o.n_failed, n_errors |-> o.n_errors]
  BY DEF IsObj
<1> HIDE DEF a
<1>4. b = [fork |-> o.fork, expected |-> o.expected, allowed |-> o.allowed, pc |-> o.pc,
           t |-> o.t, child |-> o.child, phase |-> INVALID, st |-> o.st, gc |-> o.gc,
           timer |-> o.timer, alarm |-> o.alarm, pipe |-> <<>>, results |-> o.results,
           n_checked |-> o.n_checked, n_failed |-> o.n_failed, n_errors |-> o.n_errors]
  BY <1>3
<1> HIDE DEF b
<1>5. c = [fork |-> o.fork, expected |-> o.expected, allowed |-> o.allowed, pc |-> "next",
           t |-> o.t, child |-> o.child, phase |-> INVALID, st |-> o.st, gc |-> o.gc,
           timer |-> o.timer, alarm |-> o.alarm, pipe |-> <<>>, results |-> o.results,
           n_checked |-> o.n_checked, n_failed |-> o.n_failed, n_errors |-> o.n_errors]
  BY <1>4
<1> HIDE DEF c
<1>6. IsObj(c)
  BY <1>5 DEF IsObj
<1>7. /\ IsObj(obj')
      /\ obj'.fork = c.fork /\ obj'.expected = c.expected /\ obj'.allowed = c.allowed
      /\ obj'.pc = c.pc /\ obj'.child = c.child /\ obj'.phase = c.phase /\ obj'.st = c.st
      /\ obj'.gc = c.gc /\ obj'.timer = c.timer /\ obj'.alarm = c.alarm
      /\ obj'.pipe = c.pipe /\ obj'.results = Append(c.results, tr)
  BY <1>1, <1>6, AddFailure
<1>8. /\ obj'.fork = obj.fork /\ obj'.expected = obj.expected /\ obj'.allowed = obj.allowed
      /\ obj'.pc = "next" /\ obj'.child = obj.child /\ obj'.st = obj.st /\ obj'.timer = obj.timer
      /\ obj'.gc = obj.gc /\ obj'.alarm = obj.alarm /\ obj'.pipe = <<>>
      /\ obj'.results = Append(obj.results, tr)
  BY <1>5, <1>7, Zenon
<1>9. /\ abs' = [now |-> abs.now, log |-> Append(abs.log, truth), lost |-> abs.lost]
      /\ abs'.now = abs.now /\ abs'.log = Append(abs.log, truth)
  BY <1>1, Zenon DEF CkTypeOK
<1>10. /\ CkSettled' /\ IsASeq(obj'.results) /\ IsASeq(abs'.log)
       /\ Len(abs'.log) = Len(obj'.results)
  BY <1>2, <1>8, <1>9, ResultAdded, Zenon
<1>11. CkTypeOK'
  BY <1>1, <1>7, <1>8, <1>9, <1>10, UnpackNone, Zenon DEF CkTypeOK, IsObj
<1>12. CkForked' /\ CkNoFork' /\ CkNoProcessLeft'
  BY <1>1, <1>8 DEF CkForked, CkNoFork, CkNoProcessLeft
<1> QED
  BY <1>10, <1>11, <1>12

\* The unchecked setups are run.
LEMMA UncheckedSetupInv ==
    ASSUME CkInv, NEW fails \in BOOLEAN, UncheckedSetup(fails)
    PROVE  CkInv'
<1> USE DEF CkInv
<1>0. obj.pc = "setup" /\ obj.child = "none" /\ ~obj.timer
  BY DEF UncheckedSetup, CkForked
<1>o. IsObj(obj)
  BY DEF CkTypeOK, IsObj
<1>a. CASE ~fails
  <2>1. /\ obj' = [fork |-> obj.fork, expected |-> obj.expected, allowed |-> obj.allowed, pc |-> "next",
                    t |-> obj.t, child |-> obj.child, phase |-> obj.phase, st |-> obj.st, gc |-> obj.gc,
                    timer |-> obj.timer, alarm |-> obj.alarm, pipe |-> obj.pipe, results |-> obj.results,
                    n_checked |-> obj.n_checked, n_failed |-> obj.n_failed, n_errors |-> obj.n_errors]
        /\ abs' = abs /\ subject' = subject
    BY <1>a DEF UncheckedSetup, Becomes, CkTypeOK
  <2>2. /\ obj'.fork = obj.fork /\ obj'.expected = obj.expected /\ obj'.allowed = obj.allowed
        /\ obj'.pc = "next" /\ obj'.child = obj.child /\ obj'.phase = obj.phase
        /\ obj'.st = obj.st /\ obj'.gc = obj.gc /\ obj'.timer = obj.timer
        /\ obj'.alarm = obj.alarm /\ obj'.pipe = obj.pipe /\ obj'.results = obj.results
    BY <2>1
  <2>3. CkTypeOK'
    BY <2>1, <2>2, Zenon DEF CkTypeOK
  <2>4. CkForked'
    BY <1>0, <2>1, <2>2, Zenon DEF CkForked, Phases
  <2>5. CkNoFork'
    BY <2>2, Zenon DEF CkNoFork
  <2>6. CkSettled'
    BY <2>1, <2>2, ResultsKept
  <2>7. CkNoProcessLeft'
    BY <2>1, <2>2 DEF CkNoProcessLeft
  <2> QED
    BY <2>3, <2>4, <2>5, <2>6, <2>7
<1>b. CASE fails
  <2> DEFINE R == [ctx |-> "setup", msg |-> "setup", at |-> "setup", rtype |-> INVALID]
             tr == set_nofork_info(R)
             is == [Fresh EXCEPT !.first = "setup"]
             c == [obj EXCEPT !.pc = "end"]
  <2>a. /\ obj' = srunner_add_failure(c, tr) /\ subject' = subject
        /\ abs' = [abs EXCEPT !.log = Append(abs.log, is)]
    BY <1>b DEF UncheckedSetup, Becomes
  <2>b. Settled(obj, tr, is)
    <3>1. tr = [R EXCEPT !.rtype = "FAILURE"]
      BY DEF set_nofork_info, INVALID
    <3>2. tr = [ctx |-> "setup", msg |-> "setup", at |-> "setup", rtype |-> "FAILURE"]
      BY <3>1
    <3>3. is.first = "setup" /\ is.killed = FALSE
      BY DEF Fresh
    <3> HIDE DEF tr, is
    <3> QED
      BY <3>2, <3>3 DEF Settled, INVALID
  <2> HIDE DEF tr, is
  <2>c. c = [fork |-> obj.fork, expected |-> obj.expected, allowed |-> obj.allowed, pc |-> "end",
            t |-> obj.t, child |-> obj.child, phase |-> obj.phase, st |-> obj.st, gc |-> obj.gc,
            timer |-> obj.timer, alarm |-> obj.alarm, pipe |-> obj.pipe, results |-> obj.results,
            n_checked |-> obj.n_checked, n_failed |-> obj.n_failed, n_errors |-> obj.n_errors]
    BY <1>o DEF IsObj
  <2> HIDE DEF c
  <2>d. IsObj(c)
    BY <2>c DEF IsObj
  <2>e. /\ IsObj(obj')
        /\ obj'.fork = c.fork /\ obj'.expected = c.expected /\ obj'.allowed = c.allowed
        /\ obj'.pc = c.pc /\ obj'.child = c.child /\ obj'.phase = c.phase /\ obj'.st = c.st
        /\ obj'.gc = c.gc /\ obj'.timer = c.timer /\ obj'.alarm = c.alarm
        /\ obj'.pipe = c.pipe /\ obj'.results = Append(c.results, tr)
    BY <2>a, <2>d, AddFailure
  <2>1. /\ obj'.fork = obj.fork /\ obj'.expected = obj.expected /\ obj'.allowed = obj.allowed
        /\ obj'.pc = "end" /\ obj'.child = obj.child /\ obj'.st = obj.st /\ obj'.timer = obj.timer
        /\ obj'.gc = obj.gc /\ obj'.alarm = obj.alarm /\ obj'.pipe = obj.pipe
        /\ obj'.results = Append(obj.results, tr)
    BY <2>c, <2>e, Zenon
  <2>2. /\ abs' = [now |-> abs.now, log |-> Append(abs.log, is), lost |-> abs.lost]
        /\ abs'.now = abs.now /\ abs'.log = Append(abs.log, is)
    BY <2>a, Zenon DEF CkTypeOK
  <2>f. /\ CkSettled' /\ IsASeq(obj'.results) /\ IsASeq(abs'.log)
        /\ Len(abs'.log) = Len(obj'.results)
    BY <2>b, <2>1, <2>2, ResultAdded, Zenon
  <2>3. CkTypeOK'
    BY <2>a, <2>e, <2>1, <2>2, <2>f, Zenon DEF CkTypeOK, IsObj
  <2>4. CkForked'
    BY <1>0, <2>1, Zenon DEF CkForked, Phases
  <2>5. CkNoFork'
    BY <2>1 DEF CkNoFork
  <2>6. CkSettled'
    BY <2>f
  <2>7. CkNoProcessLeft'
    BY <2>a, <2>1 DEF CkNoProcessLeft
  <2> QED
    BY <2>3, <2>4, <2>5, <2>6, <2>7
<1> QED
  BY <1>a, <1>b

\* A phase of a test in the runner's process is over.
LEMMA NoforkPassesInv ==
    ASSUME CkInv, NoforkPasses
    PROVE  CkInv'
<1> USE DEF CkInv
<1>0. /\ obj.pc = "run" /\ ~obj.fork /\ obj.child = "none" /\ ~obj.timer /\ obj.phase \in Phases
      /\ punpack(obj.pipe).msg = abs.now.first /\ IsASeq(obj.pipe)
      /\ obj.phase # "teardown" => abs.now.first = INVALID
  BY DEF NoforkPasses, CkForked, CkNoFork, CkTypeOK
<1>a. CASE obj.phase = "setup"
  <2> DEFINE q == Begins("test")
  <2>a. IsASeq(q) /\ punpack(q).msg = INVALID
    BY RunnerBegins
  <2>1. /\ obj' = [fork |-> obj.fork, expected |-> obj.expected, allowed |-> obj.allowed, pc |-> obj.pc,
                    t |-> obj.t, child |-> obj.child, phase |-> "test", st |-> obj.st, gc |-> obj.gc,
                    timer |-> obj.timer, alarm |-> obj.alarm, pipe |-> q, results |-> obj.results,
                    n_checked |-> obj.n_checked, n_failed |-> obj.n_failed, n_errors |-> obj.n_errors]
        /\ abs' = abs /\ subject' = subject
    BY <1>a, Zenon DEF NoforkPasses, Becomes, CkTypeOK
  <2> HIDE DEF q
  <2>2. /\ obj'.fork = obj.fork /\ obj'.expected = obj.expected /\ obj'.allowed = obj.allowed
        /\ obj'.pc = obj.pc /\ obj'.child = obj.child /\ obj'.phase = "test" /\ obj'.st = obj.st
        /\ obj'.gc = obj.gc /\ obj'.timer = obj.timer /\ obj'.alarm = obj.alarm /\ obj'.pipe = q
        /\ obj'.results = obj.results
    BY <2>1, Zenon
  <2>3. CkTypeOK'
    BY <2>1, <2>2, <2>a, Zenon DEF CkTypeOK
  <2>4. CkForked'
    BY <1>0, <2>2, Zenon DEF CkForked
  <2>5. CkNoFork'
    BY <1>0, <1>a, <2>1, <2>2, <2>a, Zenon DEF CkNoFork, Phases
  <2>6. CkSettled'
    BY <2>1, <2>2, ResultsKept, Zenon
  <2>7. CkNoProcessLeft'
    BY <2>1, <2>2 DEF CkNoProcessLeft
  <2> QED
    BY <2>3, <2>4, <2>5, <2>6, <2>7
<1>b. CASE obj.phase = "test"
  <2> DEFINE q == obj.pipe \o Begins("teardown")
  <2>a. IsASeq(q) /\ punpack(q).msg = punpack(obj.pipe).msg
    BY <1>0, RunnerPipe, Zenon
  <2>1. /\ obj' = [fork |-> obj.fork, expected |-> obj.expected, allowed |-> obj.allowed, pc |-> obj.pc,
                    t |-> obj.t, child |-> obj.child, phase |-> "teardown", st |-> obj.st, gc |-> obj.gc,
                    timer |-> obj.timer, alarm |-> obj.alarm, pipe |-> q, results |-> obj.results,
                    n_checked |-> obj.n_checked, n_failed |-> obj.n_failed, n_errors |-> obj.n_errors]
        /\ abs' = abs /\ subject' = subject
    BY <1>b, Zenon DEF NoforkPasses, Becomes, CkTypeOK
  <2> HIDE DEF q
  <2>2. /\ obj'.fork = obj.fork /\ obj'.expected = obj.expected /\ obj'.allowed = obj.allowed
        /\ obj'.pc = obj.pc /\ obj'.child = obj.child /\ obj'.phase = "teardown"
        /\ obj'.st = obj.st /\ obj'.gc = obj.gc /\ obj'.timer = obj.timer
        /\ obj'.alarm = obj.alarm /\ obj'.pipe = q /\ obj'.results = obj.results
    BY <2>1
  <2>3. CkTypeOK'
    BY <2>1, <2>2, <2>a, Zenon DEF CkTypeOK
  <2>4. CkForked'
    BY <1>0, <2>2, Zenon DEF CkForked
  <2>5. CkNoFork'
    BY <1>0, <1>b, <2>1, <2>2, <2>a, Zenon DEF CkNoFork, Phases
  <2>6. CkSettled'
    BY <2>1, <2>2, ResultsKept
  <2>7. CkNoProcessLeft'
    BY <2>1, <2>2 DEF CkNoProcessLeft
  <2> QED
    BY <2>3, <2>4, <2>5, <2>6, <2>7
<1>c. CASE obj.phase = "teardown"
  <2>1. Finished(obj, abs.now)
    BY <1>c DEF NoforkPasses
  <2>2. IsObj(obj)
    BY DEF CkTypeOK, IsObj
  <2> QED
    BY <1>0, <2>1, <2>2, FinishedInv, Zenon
<1> QED
  BY <1>0, <1>a, <1>b, <1>c DEF Phases

\* An assertion of a test in the runner's process fails.
LEMMA NoforkFailsInv ==
    ASSUME CkInv, NoforkFails
    PROVE  CkInv'
<1> USE DEF CkInv
<1>0. /\ obj.pc = "run" /\ ~obj.fork /\ obj.child = "none" /\ ~obj.timer /\ obj.phase \in Phases
      /\ punpack(obj.pipe).msg = abs.now.first /\ IsASeq(obj.pipe)
  BY DEF NoforkFails, CkForked, CkNoFork, CkTypeOK
<1> DEFINE q == obj.pipe \o <<Loc(obj.phase), Fail(obj.phase)>>
           o == [obj EXCEPT !.pipe = q]
           first == IF abs.now.first = INVALID THEN obj.phase ELSE abs.now.first
           truth == [abs.now EXCEPT !.first = first]
<1>a. \/ obj.phase = "setup" /\ Finished(o, truth)
      \/ /\ obj.phase # "setup" /\ subject' = subject
         /\ obj' = [o EXCEPT !.phase = "teardown", !.pipe = o.pipe \o Begins("teardown")]
         /\ abs' = [abs EXCEPT !.now = truth]
  BY DEF NoforkFails, Becomes
<1>b. IsASeq(q) /\ punpack(q).msg = first
  BY <1>0, RunnerPipe
<1>c. first \in Phases
  BY <1>0, Zenon DEF CkTypeOK
<1> HIDE DEF q, first
<1>d. o = [fork |-> obj.fork, expected |-> obj.expected, allowed |-> obj.allowed, pc |-> obj.pc,
           t |-> obj.t, child |-> obj.child, phase |-> obj.phase, st |-> obj.st, gc |-> obj.gc,
           timer |-> obj.timer, alarm |-> obj.alarm, pipe |-> q, results |-> obj.results,
           n_checked |-> obj.n_checked, n_failed |-> obj.n_failed, n_errors |-> obj.n_errors]
  BY DEF CkTypeOK
<1> HIDE DEF o
<1>e. truth = [first |-> first, killed |-> abs.now.killed, st |-> NoStat]
  BY DEF CkTypeOK
<1> HIDE DEF truth
<1>f. IsObj(o)
  BY <1>d DEF IsObj
<1>g. truth.first = first /\ truth.killed = abs.now.killed
  BY <1>e
<1>h. CASE obj.phase = "setup" /\ Finished(o, truth)
  <2>1. /\ o.fork = obj.fork /\ o.expected = obj.expected /\ o.allowed = obj.allowed
        /\ o.pc = obj.pc /\ o.child = obj.child /\ o.phase = obj.phase /\ o.st = obj.st
        /\ o.gc = obj.gc /\ o.timer = obj.timer /\ o.alarm = obj.alarm /\ o.pipe = q
        /\ o.results = obj.results
    BY <1>d
  <2>2. truth.first = punpack(o.pipe).msg
    BY <1>b, <1>g, <2>1
  <2> QED
    BY <1>0, <1>f, <1>h, <2>1, <2>2, FinishedInv, Zenon
<1>i. CASE /\ obj.phase # "setup" /\ subject' = subject
           /\ obj' = [o EXCEPT !.phase = "teardown", !.pipe = o.pipe \o Begins("teardown")]
           /\ abs' = [abs EXCEPT !.now = truth]
  <2> DEFINE p == q \o Begins("teardown")
             a == [o EXCEPT !.phase = "teardown"]
  <2>a. IsASeq(p) /\ punpack(p).msg = first
    BY <1>b, RunnerPipe, Zenon
  <2>b. obj' = [a EXCEPT !.pipe = p]
    BY <1>d, <1>i
  <2>c. a = [fork |-> obj.fork, expected |-> obj.expected, allowed |-> obj.allowed, pc |-> obj.pc,
            t |-> obj.t, child |-> obj.child, phase |-> "teardown", st |-> obj.st, gc |-> obj.gc,
            timer |-> obj.timer, alarm |-> obj.alarm, pipe |-> q, results |-> obj.results,
            n_checked |-> obj.n_checked, n_failed |-> obj.n_failed, n_errors |-> obj.n_errors]
    BY <1>d
  <2> HIDE DEF a, p
  <2>d. abs' = [now |-> truth, log |-> abs.log, lost |-> abs.lost] /\ abs'.now = truth /\ abs'.log = abs.log
    BY <1>i DEF CkTypeOK
  <2>1. obj' = [fork |-> obj.fork, expected |-> obj.expected, allowed |-> obj.allowed, pc |-> obj.pc,
             t |-> obj.t, child |-> obj.child, phase |-> "teardown", st |-> obj.st, gc |-> obj.gc,
             timer |-> obj.timer, alarm |-> obj.alarm, pipe |-> p, results |-> obj.results,
             n_checked |-> obj.n_checked, n_failed |-> obj.n_failed, n_errors |-> obj.n_errors]
    BY <2>b, <2>c
  <2>2. /\ obj'.fork = obj.fork /\ obj'.expected = obj.expected /\ obj'.allowed = obj.allowed
        /\ obj'.pc = obj.pc /\ obj'.child = obj.child /\ obj'.phase = "teardown"
        /\ obj'.st = obj.st /\ obj'.gc = obj.gc /\ obj'.timer = obj.timer
        /\ obj'.alarm = obj.alarm /\ obj'.pipe = p /\ obj'.results = obj.results
    BY <2>1
  <2>e. IsObj(obj')
    BY <2>1 DEF IsObj
  <2>3. CkTypeOK'
    <3>1. /\ abs'.now = [first |-> abs'.now.first, killed |-> abs'.now.killed, st |-> NoStat]
          /\ abs'.now.first \in Phases \union {INVALID} /\ abs'.now.killed \in BOOLEAN
      BY <1>c, <1>e, <1>g, <2>d, Zenon DEF CkTypeOK
    <3>2. abs' = [now |-> abs'.now, log |-> abs'.log, lost |-> abs'.lost]
      BY <2>d
    <3> QED
      BY <1>i, <2>2, <2>a, <2>d, <2>e, <3>1, <3>2, Zenon DEF CkTypeOK, IsObj
  <2>4. CkForked'
    BY <1>0, <2>2, Zenon DEF CkForked
  <2>5. CkNoFork'
    BY <1>0, <1>g, <2>2, <2>a, <2>d DEF CkNoFork, Phases
  <2>6. CkSettled'
    BY <2>2, <2>d, ResultsKept
  <2>7. CkNoProcessLeft'
    BY <1>i, <2>2 DEF CkNoProcessLeft
  <2> QED
    BY <2>3, <2>4, <2>5, <2>6, <2>7
<1> QED
  BY <1>a, <1>h, <1>i

\* A test case begins.
LEMMA CkInitInv == CkInit => CkInv
<1> SUFFICES ASSUME CkInit
             PROVE  CkInv
  OBVIOUS
<1>1. PICK fork \in BOOLEAN, sig \in CkSignals, ex \in CkExits :
          obj = [fork |-> fork, expected |-> sig, allowed |-> ex, pc |-> "setup", t |-> 0,
                 child |-> "none", phase |-> INVALID, st |-> NoStat, gc |-> FALSE, timer |-> FALSE,
                 alarm |-> FALSE, pipe |-> <<>>, results |-> <<>>, n_checked |-> 0, n_failed |-> 0,
                 n_errors |-> 0]
  BY Zenon DEF CkInit
<1>2. /\ obj.fork \in BOOLEAN /\ obj.pc = "setup" /\ obj.child = "none" /\ obj.gc = FALSE
      /\ obj.timer = FALSE /\ obj.alarm = FALSE /\ obj.pipe = <<>> /\ obj.results = <<>> /\ obj.st = NoStat
  BY <1>1
<1>3. IsObj(obj)
  BY <1>1 DEF IsObj
<1>4. /\ abs = [now |-> Fresh, log |-> <<>>, lost |-> FALSE] /\ abs.now = Fresh /\ abs.log = <<>>
      /\ subject = "check" /\ abs = [now |-> abs.now, log |-> abs.log, lost |-> abs.lost]
  BY DEF CkInit
<1>5. /\ Fresh = [first |-> Fresh.first, killed |-> Fresh.killed, st |-> NoStat]
      /\ Fresh.first = INVALID /\ Fresh.killed = FALSE /\ NoStat = [sig |-> NoStat.sig, code |-> NoStat.code]
  BY DEF Fresh, NoStat
<1>6. CkTypeOK
  BY <1>2, <1>3, <1>4, <1>5, UnpackNone, Zenon DEF CkTypeOK, IsObj
<1>7. CkForked /\ CkNoFork /\ CkNoProcessLeft
  BY <1>2 DEF CkForked, CkNoFork, CkNoProcessLeft, Phases
<1>8. CkSettled
  BY <1>2 DEF CkSettled
<1> QED
  BY <1>6, <1>7, <1>8 DEF CkInv

\* Nothing happens.
LEMMA CkStutters ==
    ASSUME CkInv, UNCHANGED subjectVars
    PROVE  CkInv'
<1>1. obj' = obj /\ abs' = abs /\ subject' = subject
  BY DEF subjectVars
<1>2. CkTypeOK' /\ CkForked' /\ CkNoFork' /\ CkNoProcessLeft'
  BY <1>1, Zenon DEF CkInv, CkTypeOK, CkForked, CkOver, CkNoFork, CkNoProcessLeft
<1>3. CkSettled'
  BY <1>1, ResultsKept DEF CkInv
<1> QED
  BY <1>2, <1>3 DEF CkInv

\* Every step of the runner, the timer and the test's process keeps the invariant.
LEMMA CkStep == CkInv /\ [CkNext]_subjectVars => CkInv'
<1> SUFFICES ASSUME CkInv, [CkNext]_subjectVars
             PROVE  CkInv'
  OBVIOUS
<1>1. CASE UNCHANGED subjectVars
  BY <1>1, CkStutters
<1>2. CASE \E fails \in BOOLEAN : UncheckedSetup(fails)
  BY <1>2, UncheckedSetupInv
<1>3. CASE NextTest
  BY <1>3, NextTestInv
<1>4. CASE ArmTimer
  BY <1>4, ArmTimerInv
<1>5. CASE waitpid
  BY <1>5, WaitpidInv
<1>6. CASE receive_result_info_fork
  BY <1>6, ReceiveInv
<1>7. CASE NoforkPasses
  BY <1>7, NoforkPassesInv
<1>8. CASE NoforkFails
  BY <1>8, NoforkFailsInv
<1>9. CASE UncheckedTeardown
  BY <1>9, TeardownInv
<1>10. CASE sig_handler
  BY <1>10, AlarmInv
<1>11. CASE setpgid
  BY <1>11, SetpgidInv
<1>12. CASE tcase_run_checked_setup
  BY <1>12, CheckedSetupInv
<1>13. CASE ChildPasses
  BY <1>13, ChildPassesInv
<1>14. CASE ChildFails
  BY <1>14, ChildFailsInv
<1>15. CASE ChildEnds
  BY <1>15, ChildEndsInv
<1>16. CASE check_fork
  BY <1>16, CheckForkInv
<1>17. CASE RunnerDies
  BY <1>17, RunnerDiesInv
<1> QED
  BY <1>1, <1>2, <1>3, <1>4, <1>5, <1>6, <1>7, <1>8, <1>9, <1>10, <1>11, <1>12, <1>13, <1>14, <1>15,
     <1>16, <1>17 DEF CkNext, CkRunner, CkTimer

\* What the invariant says of the results
LEMMA CkHolds == CkInv => CkTestsSettled
<1> SUFFICES ASSUME CkInv
             PROVE  CkTestsSettled
  OBVIOUS
<1>1. DOMAIN obj.results = 1 .. Len(obj.results)
  BY DEF CkInv, CkTypeOK, IsASeq
<1>2. \A i \in DOMAIN obj.results : Settled(obj, obj.results[i], abs.log[i])
  BY <1>1 DEF CkInv, CkSettled
<1>3. CkVerdict
  BY <1>2, Zenon DEF CkVerdict, Settled
<1>4. CkNoforkVerdict
  BY <1>2 DEF CkNoforkVerdict, Settled
<1> QED
  BY <1>3, <1>4 DEF CkInv, CkTestsSettled

-----------------------------------------------------------------------------
(* The library *)

LibInv ==
    /\ subject \in {"check", "pack", "list"}
    /\ subject = "check" => CkInv
    /\ subject = "pack" => PackInv
    /\ subject = "list" => LstInv /\ LoopInv

\* Messages of two lengths at most, as a behaviour of the library has them
LEMMA PackInitInv == PackInit => PackInv
<1> SUFFICES ASSUME PackInit PROVE PackInv
  OBVIOUS
<1>1. PICK k \in 0 .. PackMessages, n \in MessageLengths : \E lens \in [1 .. k -> {1, n}] : PackStart(lens)
  BY DEF PackInit
<1>2. PICK lens \in [1 .. k -> {1, n}] : PackStart(lens)
  BY <1>1
<1>3. 1 \in MessageLengths /\ k \in Nat
  BY <1>1, PackAssumption DEF MessageLengths
<1>4. lens \in Seq(MessageLengths)
  BY <1>2, <1>3
<1> QED
  BY <1>2, <1>4, PackStartInv

\* A behaviour of the library begins.
LEMMA LibInit == Init => LibInv
<1>1. CkInit => LibInv
  BY CkInitInv, Zenon DEF LibInv, CkInit
<1>2. PackInit => LibInv
  BY PackInitInv, Zenon DEF LibInv, PackInv
<1>3. LstInit => LibInv
  BY LstInitInv DEF LibInv, LstInit, LoopInv
<1> QED
  BY <1>1, <1>2, <1>3 DEF Init

\* A step of the library
LEMMA LibStep == LibInv /\ [Next]_subjectVars => LibInv'
<1> SUFFICES ASSUME LibInv, [Next]_subjectVars PROVE LibInv'
  OBVIOUS
<1>1. CASE CkNext
  <2>1. subject = "check"
    BY <1>1 DEF CkNext, CkRunner, CkTimer
  <2>2. CkInv'
    BY <1>1, <2>1, CkStep DEF LibInv
  <2>3. subject' = "check"
    BY <2>2 DEF CkInv, CkTypeOK
  <2> QED
    BY <2>2, <2>3 DEF LibInv
<1>2. CASE PackNext
  <2>1. PackInv'
    BY <1>2, PackParseInv DEF LibInv, PackNext
  <2> QED
    BY <2>1 DEF LibInv, PackInv
<1>3. CASE LstNext
  <2>1. LstInv /\ LoopInv
    BY <1>3 DEF LibInv, LstNext
  <2>2. LstInv' /\ LoopInv'
    BY <1>3, <2>1, LstStep, LoopStep
  <2> QED
    BY <2>2 DEF LibInv, LstInv
<1>4. CASE UNCHANGED subjectVars
  <2>1. subject' = subject
    BY <1>4 DEF subjectVars
  <2> QED
    BY <1>4, <2>1, CkStutters, PackStutters, LstStep, LoopStep DEF LibInv
<1> QED
  BY <1>1, <1>2, <1>3, <1>4 DEF Next

\* Whatever the number of tests, the signals and exit codes, and the order in which
\* the runner, the test's process, the processes it forks and the timer of
\* tcase_run_tfun_fork take their steps: every test has the result that its own end
\* and its first failed assertion call for, in a process of its own
\* (set_fork_info) or in the runner's (set_nofork_info), and a test with a result
\* leaves no process behind.
THEOREM TestsSettled == Spec => []CkTestsSettled
<1>1. LibInv => CkTestsSettled
  <2>1. CASE subject = "check"
    BY <2>1, CkHolds DEF LibInv
  <2>2. CASE subject # "check"
    BY <2>2 DEF CkTestsSettled, CkVerdict, CkNoforkVerdict, CkNoProcessLeft
  <2> QED
    BY <2>1, <2>2
<1> QED
  BY <1>1, LibInit, LibStep, PTL DEF Spec

\* The array of check_list.c holds the elements in order, and no write falls
\* outside of it.
THEOREM ListHolds == Spec => []LstHolds
<1>1. LibInv => LstHolds
  BY LstInvHolds DEF LibInv, LstHolds
<1> QED
  BY <1>1, LibInit, LibStep, PTL DEF Spec

\* check_pack.c and check_list.c: what is put in is met again, all of it and in
\* order, the messages of a test by punpack and the elements of a list by a loop.
THEOREM ReadsInOrder == Spec => []ReadInOrder
<1>1. LibInv => ReadInOrder
  <2>1. LibInv => PackRoundTrip
    BY PackInvHolds DEF LibInv, PackRoundTrip
  <2>2. LibInv => LstLoops
    BY LoopsInOrder DEF LibInv, LstLoops
  <2> QED
    BY <2>1, <2>2 DEF ReadInOrder
<1> QED
  BY <1>1, LibInit, LibStep, PTL DEF Spec
=============================================================================
