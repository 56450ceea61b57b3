-------------------------- MODULE ContainerProofs --------------------------
(***************************************************************************)
(* Theorems about the example programs that are sequences: the bip buffer, *)
(* the ring buffer, the linked queue and the array list.  Each has an      *)
(* invariant that says where the items of the abstract sequence lie in     *)
(* memory; every call keeps it, and the property that model checking       *)
(* evaluates on small instances follows from it.                           *)
(***************************************************************************)
EXTENDS Queues, FixedArrayList, FiniteSetTheorems, TLAPS

(***************************************************************************)
(* The bip buffer.                                                         *)
(***************************************************************************)
\* bipbuf_offer of any bytes and bipbuf_poll of any number of them.
BipCalls ==
    /\ subject = "bipbuffer"
    /\ ~abs.past
    /\ \/ \E bytes \in Seq(Nat) : BipOffer(bytes)
       \/ \E n \in Nat : BipPoll(n)

BipSpec == BipInit /\ [][BipCalls]_subjectVars

BipBuffers ==
    [a_start : Nat, a_end : Nat, b_end : Nat, b_inuse : BOOLEAN, data : [0 .. BipSize - 1 -> Nat]]

BipTypeOK ==
    /\ obj \in BipBuffers
    /\ abs \in [q : Seq(Nat), past : BOOLEAN]

\* The bytes waiting are those of region A and then those of region B.
InRegions(start, end, b, data, q) ==
    /\ Len(q) = (end - start) + b
    /\ \A i \in 1 .. end - start : q[i] = data[start + i - 1]
    /\ \A i \in 1 .. b : q[(end - start) + i] = data[i - 1]

\* The same of a buffer.
Regions(me, q) == InRegions(me.a_start, me.a_end, me.b_end, me.data, q)

\* Region A lies in the array, region B before it; only an empty buffer has an
\* empty region A, and B is not in use then.
BipPlaces(me) ==
    /\ me.a_start <= me.a_end /\ me.a_end <= BipSize
    /\ IF me.b_inuse THEN me.b_end <= me.a_start ELSE me.b_end = 0
    /\ me.a_start = me.a_end => me.a_start = 0 /\ ~me.b_inuse

\* The invariant of the bip buffer, until a caller reads past region A.
BipInv ==
    /\ BipTypeOK
    /\ ~abs.past => BipPlaces(obj) /\ Regions(obj, abs.q)

\* check_for_switch_to_b changes nothing but b_inuse.
LEMMA SwitchIs ==
    ASSUME NEW me \in BipBuffers
    PROVE  LET s == check_for_switch_to_b(me) IN
           /\ s \in BipBuffers
           /\ s.a_start = me.a_start /\ s.a_end = me.a_end /\ s.b_end = me.b_end /\ s.data = me.data
           /\ s.b_inuse = (me.b_inuse \/ BipSize - me.a_end < me.a_start - me.b_end)
<1>1. CASE BipSize - me.a_end < me.a_start - me.b_end
  BY <1>1, Zenon DEF check_for_switch_to_b, BipBuffers
<1>2. CASE ~(BipSize - me.a_end < me.a_start - me.b_end)
  BY <1>2 DEF check_for_switch_to_b, BipBuffers
<1>3. QED BY <1>1, <1>2

\* The switch to region B moves no byte.
LEMMA SwitchKeeps ==
    ASSUME NEW me \in BipBuffers,
           NEW q \in Seq(Nat), BipPlaces(me), Regions(me, q)
    PROVE  LET s == check_for_switch_to_b(me) IN
           /\ s \in BipBuffers
           /\ BipPlaces(s) /\ Regions(s, q)
<1> DEFINE s == check_for_switch_to_b(me)
<1>1. /\ s \in BipBuffers
      /\ s.a_start = me.a_start /\ s.a_end = me.a_end /\ s.b_end = me.b_end /\ s.data = me.data
      /\ s.b_inuse = (me.b_inuse \/ BipSize - me.a_end < me.a_start - me.b_end)
  BY SwitchIs
<1> HIDE DEF s
<1>2. me.a_start \in Nat /\ me.a_end \in Nat /\ me.b_end \in Nat /\ me.b_inuse \in BOOLEAN
  BY DEF BipBuffers
<1>3. BipPlaces(s)
  BY <1>1, <1>2, BipAssumption DEF BipPlaces
<1>4. Regions(s, q)
  BY <1>1 DEF Regions
<1>5. QED BY <1>1, <1>3, <1>4 DEF s

\* A function on 1 .. n is a sequence.
LEMMA IsASeq ==
    \A n \in Nat : \A f \in [1 .. n -> Nat] : f \in Seq(Nat) /\ Len(f) = n
OBVIOUS

\* The parts of two sequences joined.
LEMMA Joined ==
    \A s, t \in Seq(Nat) :
        /\ s \o t \in Seq(Nat) /\ Len(s \o t) = Len(s) + Len(t)
        /\ \A i \in 1 .. Len(s) : (s \o t)[i] = s[i]
        /\ \A i \in 1 .. Len(t) : (s \o t)[Len(s) + i] = t[i]
OBVIOUS

\* Sequences with the same elements are equal.
LEMMA SeqEqual ==
    ASSUME NEW s \in Seq(Nat), NEW t \in Seq(Nat), Len(s) = Len(t),
           \A i \in 1 .. Len(s) : s[i] = t[i]
    PROVE  s = t
OBVIOUS

\* memcpy into the array.
LEMMA StoredIs ==
    ASSUME NEW data \in [0 .. BipSize - 1 -> Nat], NEW at \in Nat, NEW bytes \in Seq(Nat)
    PROVE  /\ Stored(data, at, bytes) \in [0 .. BipSize - 1 -> Nat]
           /\ \A i \in 0 .. BipSize - 1 :
                Stored(data, at, bytes)[i] =
                    IF i \in at .. at + Len(bytes) - 1 THEN bytes[i - at + 1] ELSE data[i]
<1>1. \A i \in 0 .. BipSize - 1 : i \in at .. at + Len(bytes) - 1 => bytes[i - at + 1] \in Nat
  BY BipAssumption
<1>2. QED BY <1>1 DEF Stored

\* Bytes stored behind region B, or behind A when B is not in use.
LEMMA StoredBehindB ==
    ASSUME NEW start \in Nat, NEW end \in Nat, NEW b \in Nat, NEW n \in Nat,
           start <= end, end <= BipSize, b + n <= start,
           NEW data, NEW new, NEW q \in Seq(Nat), NEW bytes \in Seq(Nat), Len(bytes) = n,
           InRegions(start, end, b, data, q),
           \A i \in 0 .. BipSize - 1 :
               new[i] = IF i \in b .. b + n - 1 THEN bytes[i - b + 1] ELSE data[i]
    PROVE  InRegions(start, end, b + n, new, q \o bytes)
<1> DEFINE a == end - start
<1>0. a \in Nat /\ Len(q) = a + b /\ BipSize \in Nat
  BY BipAssumption DEF InRegions
<1>1. /\ Len(q \o bytes) = a + (b + n)
      /\ \A i \in 1 .. a + b : (q \o bytes)[i] = q[i]
      /\ \A i \in 1 .. n : (q \o bytes)[(a + b) + i] = bytes[i]
  <2>1. /\ Len(q \o bytes) = Len(q) + Len(bytes)
        /\ \A i \in 1 .. Len(q) : (q \o bytes)[i] = q[i]
        /\ \A i \in 1 .. Len(bytes) : (q \o bytes)[Len(q) + i] = bytes[i]
    BY Joined, Zenon
  <2>2. Len(q) + Len(bytes) = a + (b + n)
    BY <1>0
  <2>3. Len(q) = a + b /\ Len(bytes) = n
    BY <1>0, Zenon
  <2>4. QED BY <2>1, <2>2, <2>3, Zenon
<1>2. ASSUME NEW i \in 1 .. a PROVE (q \o bytes)[i] = new[start + i - 1]
  <2>1. start + i - 1 \in 0 .. BipSize - 1 /\ start + i - 1 \notin b .. b + n - 1 /\ i \in 1 .. a + b
    BY <1>0
  <2>2. QED BY <2>1, <1>1 DEF InRegions
<1>3. ASSUME NEW i \in 1 .. b + n PROVE (q \o bytes)[a + i] = new[i - 1]
  <2>0. i - 1 \in 0 .. BipSize - 1 /\ (i <= b \/ i > b)
    BY <1>0
  <2>1. CASE i <= b
    <3>1. i - 1 \notin b .. b + n - 1 /\ i \in 1 .. b /\ a + i \in 1 .. a + b
      BY <2>1, <1>0
    <3>2. QED BY <2>0, <3>1, <1>1, Zenon DEF InRegions
  <2>2. CASE i > b
    <3>1. i - 1 \in b .. b + n - 1 /\ i - b \in 1 .. n /\ (a + b) + (i - b) = a + i
          /\ (i - 1) - b + 1 = i - b
      BY <2>2, <1>0
    <3>2. (q \o bytes)[(a + b) + (i - b)] = bytes[i - b]
      BY <3>1, <1>1, Zenon
    <3>3. QED BY <2>0, <3>1, <3>2, Zenon
  <2>3. QED BY <2>0, <2>1, <2>2, Zenon
<1>4. QED BY <1>1, <1>2, <1>3, Zenon DEF InRegions

\* Bytes stored behind region A come last as long as B is empty.
LEMMA StoredBehindA ==
    ASSUME NEW start \in Nat, NEW end \in Nat, NEW n \in Nat,
           start <= end, end + n <= BipSize,
           NEW data, NEW new, NEW q \in Seq(Nat), NEW bytes \in Seq(Nat), Len(bytes) = n,
           InRegions(start, end, 0, data, q),
           \A i \in 0 .. BipSize - 1 :
               new[i] = IF i \in end .. end + n - 1 THEN bytes[i - end + 1] ELSE data[i]
    PROVE  InRegions(start, end + n, 0, new, q \o bytes)
<1> DEFINE a == end - start
<1>0. a \in Nat /\ Len(q) = a /\ BipSize \in Nat /\ (end + n) - start = a + n
  BY BipAssumption DEF InRegions
<1>1. /\ Len(q \o bytes) = a + n
      /\ \A i \in 1 .. a : (q \o bytes)[i] = q[i]
      /\ \A i \in 1 .. n : (q \o bytes)[a + i] = bytes[i]
  <2>1. /\ Len(q \o bytes) = Len(q) + Len(bytes)
        /\ \A i \in 1 .. Len(q) : (q \o bytes)[i] = q[i]
        /\ \A i \in 1 .. Len(bytes) : (q \o bytes)[Len(q) + i] = bytes[i]
    BY Joined, Zenon
  <2>2. QED BY <1>0, <2>1, Zenon
<1>2. ASSUME NEW i \in 1 .. a + n PROVE (q \o bytes)[i] = new[start + i - 1]
  <2>0. start + i - 1 \in 0 .. BipSize - 1
    BY <1>0
  <2>1. CASE i <= a
    <3>1. start + i - 1 \notin end .. end + n - 1 /\ i \in 1 .. a
      BY <2>1, <1>0
    <3>2. QED BY <2>0, <3>1, <1>1 DEF InRegions
  <2>2. CASE i > a
    <3>1. start + i - 1 \in end .. end + n - 1 /\ i - a \in 1 .. n /\ a + (i - a) = i
          /\ (start + i - 1) - end + 1 = i - a
      BY <2>2, <1>0
    <3>2. (q \o bytes)[a + (i - a)] = bytes[i - a]
      BY <3>1, <1>1, Zenon
    <3>3. QED BY <2>0, <3>1, <3>2, Zenon
  <2>3. QED BY <2>1, <2>2, <1>0
<1> HIDE DEF a
<1>3. Len(q \o bytes) = ((end + n) - start) + 0
  BY <1>0, <1>1
<1>4. \A i \in 1 .. (end + n) - start : (q \o bytes)[i] = new[start + i - 1]
  BY <1>0, <1>2, Zenon
<1>5. 1 .. 0 = {}
  OBVIOUS
<1>6. QED BY <1>3, <1>4, <1>5, Zenon DEF InRegions

\* What BipInv says of the state, with a name for every part.
LEMMA BipParts ==
    ASSUME BipInv, ~abs.past
    PROVE  /\ obj.a_start \in Nat /\ obj.a_end \in Nat /\ obj.b_end \in Nat
           /\ obj.b_inuse \in BOOLEAN /\ obj.data \in [0 .. BipSize - 1 -> Nat]
           /\ abs.q \in Seq(Nat) /\ BipPlaces(obj)
           /\ InRegions(obj.a_start, obj.a_end, obj.b_end, obj.data, abs.q)
BY DEF BipInv, BipTypeOK, BipBuffers, Regions

\* bipbuf_offer: bytes that do not fit change nothing, others come last.
LEMMA OfferKeeps ==
    ASSUME BipInv, ~abs.past, NEW bytes \in Seq(Nat), BipOffer(bytes)
    PROVE  BipInv'
<1> DEFINE n == Len(bytes)
<1>0. n \in Nat
  OBVIOUS
<1>1. CASE bipbuf_unused(obj) < n
  <2>1. obj' = obj /\ abs' = abs
    BY <1>1 DEF BipOffer, Becomes, bipbuf_offer, BipInv, BipTypeOK
  <2>2. QED BY <2>1 DEF BipInv, BipTypeOK, BipPlaces, Regions, InRegions
<1>2. CASE ~(bipbuf_unused(obj) < n)
  <2> DEFINE dataB == Stored(obj.data, obj.b_end, bytes)
             dataA == Stored(obj.data, obj.a_end, bytes)
             me == IF obj.b_inuse
                   THEN [obj EXCEPT !.data = dataB, !.b_end = @ + n]
                   ELSE [obj EXCEPT !.data = dataA, !.a_end = @ + n]
             q == abs.q \o bytes
  <2>1. obj' = check_for_switch_to_b(me) /\ abs' = [abs EXCEPT !.q = q]
    BY <1>2 DEF BipOffer, Becomes, bipbuf_offer
  <2>2. /\ dataB \in [0 .. BipSize - 1 -> Nat]
        /\ \A i \in 0 .. BipSize - 1 :
              dataB[i] = IF i \in obj.b_end .. obj.b_end + n - 1
                         THEN bytes[i - obj.b_end + 1] ELSE obj.data[i]
    BY BipParts, StoredIs, Zenon
  <2>3. /\ dataA \in [0 .. BipSize - 1 -> Nat]
        /\ \A i \in 0 .. BipSize - 1 :
              dataA[i] = IF i \in obj.a_end .. obj.a_end + n - 1
                         THEN bytes[i - obj.a_end + 1] ELSE obj.data[i]
    BY BipParts, StoredIs, Zenon
  <2> HIDE DEF dataA, dataB, n
  <2>a. obj \in BipBuffers /\ obj.b_end + n \in Nat /\ obj.a_end + n \in Nat
    BY <1>0, BipParts DEF BipInv, BipTypeOK
  <2>4. me \in BipBuffers /\ BipPlaces(me) /\ Regions(me, q)
    <3>1. CASE obj.b_inuse
      <4>1. /\ me.a_start = obj.a_start /\ me.a_end = obj.a_end /\ me.b_end = obj.b_end + n
            /\ me.data = dataB /\ me.b_inuse = TRUE /\ me \in BipBuffers
        BY <2>2, <2>a, <3>1, Zenon DEF BipBuffers
      <4>2. obj.b_end + n <= obj.a_start
        BY <1>0, <1>2, <3>1, BipParts DEF bipbuf_unused
      <4> HIDE DEF me
      <4>3. BipPlaces(me)
        BY <1>0, <3>1, <4>1, <4>2, BipParts DEF BipPlaces
      <4>4. InRegions(obj.a_start, obj.a_end, obj.b_end + n, dataB, q)
        BY <1>0, <2>2, <4>2, BipParts, StoredBehindB, Zenon DEF BipPlaces, n
      <4>5. QED BY <4>1, <4>3, <4>4 DEF Regions
    <3>2. CASE ~obj.b_inuse
      <4>1. /\ me.a_start = obj.a_start /\ me.a_end = obj.a_end + n /\ me.b_end = 0
            /\ me.data = dataA /\ me.b_inuse = FALSE /\ me \in BipBuffers
        BY <2>3, <2>a, <3>2, BipParts, Zenon DEF BipPlaces, BipBuffers
      <4>2. obj.a_end + n <= BipSize /\ obj.b_end = 0
        BY <1>0, <1>2, <3>2, BipParts, BipAssumption DEF bipbuf_unused, BipPlaces
      <4> HIDE DEF me
      <4>3. BipPlaces(me)
        BY <1>0, <3>2, <4>1, <4>2, BipParts DEF BipPlaces
      <4>4. InRegions(obj.a_start, obj.a_end + n, 0, dataA, q)
        BY <1>0, <2>3, <4>2, BipParts, StoredBehindA, Zenon DEF BipPlaces, n
      <4>5. QED BY <4>1, <4>3, <4>4 DEF Regions
    <3>3. QED BY <3>1, <3>2
  <2>5. q \in Seq(Nat)
    BY BipParts
  <2> HIDE DEF me, q
  <2>6. abs'.q = q /\ abs' \in [q : Seq(Nat), past : BOOLEAN]
    BY <2>1, <2>5, Zenon DEF BipInv, BipTypeOK
  <2>7. QED BY <2>1, <2>4, <2>5, <2>6, SwitchKeeps DEF BipInv, BipTypeOK
<1>3. QED BY <1>1, <1>2

\* The first n bytes are taken from region A.
LEMMA TakenFromA ==
    ASSUME NEW start \in Nat, NEW end \in Nat, NEW b \in Nat, NEW n \in Nat,
           start + n <= end, NEW data, NEW q \in Seq(Nat), InRegions(start, end, b, data, q)
    PROVE  InRegions(start + n, end, b, data, SubSeq(q, n + 1, Len(q)))
<1> DEFINE a == end - start
           r == SubSeq(q, n + 1, Len(q))
<1>0. a \in Nat /\ n <= a /\ Len(q) = a + b /\ end - (start + n) = a - n
  BY DEF InRegions
<1>1. Len(r) = (a - n) + b /\ \A i \in 1 .. (a - n) + b : r[i] = q[n + i]
  BY <1>0
<1> HIDE DEF r
<1>2. ASSUME NEW i \in 1 .. a - n PROVE r[i] = data[(start + n) + i - 1]
  <2>1. n + i \in 1 .. a /\ i \in 1 .. (a - n) + b /\ start + (n + i) - 1 = (start + n) + i - 1
    BY <1>0
  <2>2. QED BY <2>1, <1>1, Zenon DEF InRegions
<1>3. ASSUME NEW i \in 1 .. b PROVE r[(a - n) + i] = data[i - 1]
  <2>1. (a - n) + i \in 1 .. (a - n) + b /\ n + ((a - n) + i) = a + i
    BY <1>0
  <2>2. QED BY <2>1, <1>1, Zenon DEF InRegions
<1> HIDE DEF a
<1>4. QED BY <1>0, <1>1, <1>2, <1>3 DEF InRegions, r

\* bipbuf_poll: A shrinks from the front, and B becomes A when A runs empty.
LEMMA PollKeeps ==
    ASSUME BipInv, ~abs.past, NEW n \in Nat, BipPoll(n)
    PROVE  BipInv'
<1> DEFINE a == [obj EXCEPT !.a_start = @ + n]
           me == IF a.a_start # a.a_end THEN a
                 ELSE IF obj.b_inuse
                 THEN [a EXCEPT !.a_start = 0, !.a_end = obj.b_end, !.b_end = 0, !.b_inuse = FALSE]
                 ELSE [a EXCEPT !.a_start = 0, !.a_end = 0]
           q == SubSeq(abs.q, n + 1, Len(abs.q))
<1>0. Readable(obj, n) /\ obj.a_start # obj.a_end
  BY DEF BipPoll, Readable, bipbuf_is_empty
<1>1. obj' = check_for_switch_to_b(me)
  BY <1>0 DEF BipPoll, Becomes, bipbuf_poll
<1>2. abs' = [q |-> q, past |-> abs.past \/ n > obj.a_end - obj.a_start]
  BY DEF BipPoll, Becomes
<1>3. q \in Seq(Nat)
  BY BipParts
<1>4. me \in BipBuffers
  <2>0. obj \in BipBuffers /\ obj.a_start + n \in Nat
    BY BipParts DEF BipInv, BipTypeOK
  <2>1. a \in BipBuffers
    BY <2>0 DEF BipBuffers
  <2> HIDE DEF a
  <2>2. QED BY <2>1, BipParts, Zenon DEF BipBuffers
<1>5. ASSUME n <= obj.a_end - obj.a_start PROVE BipPlaces(me) /\ Regions(me, q)
  <2>1. InRegions(obj.a_start + n, obj.a_end, obj.b_end, obj.data, q)
    BY <1>5, BipParts, TakenFromA
  <2>2. CASE obj.a_start + n # obj.a_end
    <3>1. /\ me.a_start = obj.a_start + n /\ me.a_end = obj.a_end /\ me.b_end = obj.b_end
          /\ me.data = obj.data /\ me.b_inuse = obj.b_inuse
      BY <2>2 DEF BipInv, BipTypeOK, BipBuffers
    <3> HIDE DEF me, q
    <3>2. BipPlaces(me)
      BY <1>0, <1>5, <2>2, <3>1, BipParts, BipAssumption DEF BipPlaces
    <3>3. QED BY <2>1, <3>1, <3>2 DEF Regions
  <2>3. CASE obj.a_start + n = obj.a_end
    <3>1. /\ me.a_start = 0 /\ me.a_end = obj.b_end /\ me.b_end = 0
          /\ me.data = obj.data /\ me.b_inuse = FALSE
      BY <2>3 DEF BipInv, BipTypeOK, BipPlaces, BipBuffers
    <3> HIDE DEF me, q
    <3>2. BipPlaces(me)
      BY <2>3, <3>1, BipParts, BipAssumption DEF BipPlaces
    <3>3. InRegions(0, obj.b_end, 0, obj.data, q)
      <4>1. /\ obj.b_end \in Nat /\ obj.a_end - (obj.a_start + n) = 0
            /\ \A i \in 1 .. obj.b_end : 0 + i = i /\ 0 + i - 1 = i - 1
        BY <2>3, BipParts
      <4>2. /\ Len(q) = 0 + obj.b_end
            /\ \A i \in 1 .. obj.b_end : q[0 + i] = obj.data[i - 1]
        BY <2>1, <4>1 DEF InRegions
      <4>3. QED BY <4>1, <4>2 DEF InRegions
    <3>4. QED BY <3>1, <3>2, <3>3 DEF Regions
  <2>4. QED BY <2>2, <2>3
<1> HIDE DEF me, q
<1>6. abs'.q = q /\ (abs'.past <=> n > obj.a_end - obj.a_start)
  BY <1>2, Zenon
<1>7. abs' \in [q : Seq(Nat), past : BOOLEAN]
  BY <1>2, <1>3 DEF BipInv, BipTypeOK
<1>8. ~abs'.past => n <= obj.a_end - obj.a_start
  <2>1. obj.a_end - obj.a_start \in Int
    BY BipParts
  <2>2. QED BY <1>6, <2>1
<1>9. QED BY <1>1, <1>3, <1>4, <1>5, <1>6, <1>7, <1>8, SwitchKeeps, SwitchIs DEF BipInv, BipTypeOK

\* bipbuf_new gives an empty buffer.
LEMMA BipStart == BipInit => BipInv
<1> SUFFICES ASSUME BipInit PROVE BipInv
  OBVIOUS
<1>1. obj = bipbuf_init /\ abs = [q |-> <<>>, past |-> FALSE]
  BY DEF BipInit
<1>2. <<>> \in Seq(Nat) /\ Len(<<>>) = 0
  OBVIOUS
<1>3. QED BY <1>1, <1>2, BipAssumption
       DEF BipInv, BipTypeOK, BipBuffers, BipPlaces, Regions, InRegions, BipBuffers, bipbuf_init, NULL

\* BipFifo holds in the states of the invariant.
LEMMA BipExact == BipInv => BipFifo
<1> SUFFICES ASSUME BipInv, ~abs.past
             PROVE  /\ bipbuf_used(obj) = Len(abs.q)
                    /\ obj.b_inuse => obj.b_end <= obj.a_start
                    /\ abs.q = [i \in 1 .. obj.a_end - obj.a_start |-> obj.data[obj.a_start + i - 1]]
                                 \o [i \in 1 .. obj.b_end |-> obj.data[i - 1]]
                    /\ bipbuf_is_empty(obj) <=> abs.q = <<>>
  BY Zenon DEF BipFifo
<1> DEFINE n == obj.a_end - obj.a_start
           x == [i \in 1 .. n |-> obj.data[obj.a_start + i - 1]]
           y == [i \in 1 .. obj.b_end |-> obj.data[i - 1]]
<1>0. n \in Nat /\ Len(abs.q) = n + obj.b_end /\ abs.q \in Seq(Nat)
  BY BipParts DEF BipPlaces, InRegions
<1>1. /\ \A i \in 1 .. n : abs.q[i] = obj.data[obj.a_start + i - 1]
      /\ \A i \in 1 .. obj.b_end : abs.q[n + i] = obj.data[i - 1]
  BY BipParts DEF InRegions
<1>2. x \in Seq(Nat) /\ Len(x) = n
  <2>1. \A i \in 1 .. n : obj.data[obj.a_start + i - 1] \in Nat
    <3>1. \A i \in 1 .. n : obj.a_start + i - 1 \in 0 .. BipSize - 1
      <4>1. /\ obj.a_start \in Nat /\ obj.a_end \in Nat /\ obj.a_end <= BipSize /\ BipSize \in Nat
        BY BipParts, BipAssumption DEF BipPlaces
      <4>2. QED BY <4>1
    <3>2. QED BY <3>1, BipParts, Zenon
  <2>2. QED BY <1>0, <2>1, IsASeq
<1>3. y \in Seq(Nat) /\ Len(y) = obj.b_end
  <2>1. \A i \in 1 .. obj.b_end : obj.data[i - 1] \in Nat
    <3>1. \A i \in 1 .. obj.b_end : i - 1 \in 0 .. BipSize - 1
      BY BipParts, BipAssumption DEF BipPlaces
    <3>2. QED BY <3>1, BipParts, Zenon
  <2>2. QED BY BipParts, <2>1, IsASeq, Zenon
<1>4. abs.q = x \o y
  <2>1. /\ \A i \in 1 .. n : x[i] = obj.data[obj.a_start + i - 1]
        /\ \A i \in 1 .. obj.b_end : y[i] = obj.data[i - 1]
        /\ obj.b_end \in Nat
    BY BipParts
  <2> HIDE DEF x, y, n
  <2>2. /\ x \o y \in Seq(Nat) /\ Len(x \o y) = n + obj.b_end
        /\ \A i \in 1 .. n : (x \o y)[i] = x[i]
        /\ \A i \in 1 .. obj.b_end : (x \o y)[n + i] = y[i]
    <3>1. /\ x \o y \in Seq(Nat) /\ Len(x \o y) = Len(x) + Len(y)
          /\ \A i \in 1 .. Len(x) : (x \o y)[i] = x[i]
          /\ \A i \in 1 .. Len(y) : (x \o y)[Len(x) + i] = y[i]
      BY <1>2, <1>3, Joined, Zenon
    <3>2. QED BY <1>2, <1>3, <3>1
  <2>3. ASSUME NEW i \in 1 .. n + obj.b_end PROVE abs.q[i] = (x \o y)[i]
    <3>1. CASE i <= n
      BY <1>0, <1>1, <3>1, <2>1, <2>2
    <3>2. CASE i > n
      <4>1. i - n \in 1 .. obj.b_end /\ n + (i - n) = i
        BY <3>2, <1>0, <2>1
      <4>2. abs.q[n + (i - n)] = obj.data[(i - n) - 1] /\ y[i - n] = obj.data[(i - n) - 1]
        BY <4>1, <1>1, <2>1, Zenon
      <4>3. (x \o y)[n + (i - n)] = y[i - n]
        BY <4>1, <2>2, Zenon
      <4>4. QED BY <4>1, <4>2, <4>3, Zenon
    <3>3. i <= n \/ i > n
      BY <1>0, <2>1
    <3>4. QED BY <3>1, <3>2, <3>3, Zenon
  <2>4. QED BY <1>0, <2>2, <2>3, SeqEqual, Zenon
<1>5. bipbuf_is_empty(obj) <=> abs.q = <<>>
  <2>1. abs.q = <<>> <=> Len(abs.q) = 0
    BY <1>0
  <2>2. QED BY <1>0, <2>1, BipParts DEF BipPlaces, bipbuf_is_empty
<1>6. QED BY <1>0, <1>4, <1>5, BipParts DEF bipbuf_used, BipPlaces

\* Every call of the model is one of BipCalls.
LEMMA BipCovers == BipInv /\ BipNext => BipCalls
<1> SUFFICES ASSUME BipInv, BipNext PROVE BipCalls
  OBVIOUS
<1>1. ASSUME NEW n \in 1 .. BipSize, NEW b \in BipBytes,
             BipOffer([i \in 1 .. n |-> IF i = 1 THEN b ELSE 1])
      PROVE  BipCalls
  <2>1. [i \in 1 .. n |-> IF i = 1 THEN b ELSE 1] \in Seq(Nat)
    BY BipAssumption, IsASeq
  <2>2. QED BY <1>1, <2>1 DEF BipCalls, BipNext
<1>2. ASSUME NEW n \in 1 .. BipSize, BipPoll(n) PROVE BipCalls
  BY <1>2, BipAssumption DEF BipCalls, BipNext
<1>3. QED BY <1>1, <1>2, Zenon DEF BipNext

\* For every array size and every sequence of bipbuf_offer and bipbuf_poll calls,
\* of any bytes and any length, that does not read past region A: the regions do
\* not overlap, hold the bytes waiting in order, and bipbuf_used and
\* bipbuf_is_empty are exact.
THEOREM BipInOrder == BipSpec => []BipFifo
<1>1. BipInv /\ [BipCalls]_subjectVars => BipInv'
  <2>1. ASSUME BipInv, BipCalls PROVE BipInv'
    BY <2>1, OfferKeeps, PollKeeps DEF BipCalls
  <2>2. ASSUME BipInv, UNCHANGED subjectVars PROVE BipInv'
    BY <2>2 DEF subjectVars, BipInv, BipTypeOK, BipPlaces, Regions, InRegions
  <2>3. QED BY <2>1, <2>2
<1>2. QED BY <1>1, BipStart, BipExact, PTL DEF BipSpec

(***************************************************************************)
(* The ring buffer.                                                        *)
(***************************************************************************)
\* cbuf_offer of any bytes and cbuf_poll of any number of them.
CbufCalls ==
    /\ subject = "cbuffer"
    /\ ~abs.lapped
    /\ \/ \E bytes \in Seq(Nat) : CbufOffer(bytes)
       \/ \E n \in Nat : CbufPoll(n)

CbufSpec == CbufInit /\ [][CbufCalls]_subjectVars

CbufSize == 2 ^ CbufOrder

Rings == [size : {CbufSize}, head : Nat, tail : Nat, data : [0 .. CbufSize - 1 -> Nat]]

\* Byte i of q lies i - 1 behind head, round the ring.
InRing(head, data, q) == \A i \in 1 .. Len(q) : q[i] = data[(head + i - 1) % CbufSize]

\* How far the tail is ahead of the head; it may have gone round once more.
CbufPlaces(head, tail, used) ==
    /\ tail <= CbufSize /\ used < CbufSize /\ head <= 2 * CbufSize
    /\ IF head <= tail THEN used = tail - head ELSE used = CbufSize - (head - tail)
    /\ tail = 0 => head = 0

\* The invariant of the ring, until the tail has lapped the head.
CbufInv ==
    /\ obj \in Rings
    /\ abs \in [q : Seq(Nat), lapped : BOOLEAN]
    /\ ~abs.lapped => /\ CbufPlaces(obj.head, obj.tail, Len(abs.q))
                      /\ InRing(obj.head, obj.data, abs.q)

\* cbuf_new's size is positive.
LEMMA RingSize == CbufSize \in Nat \ {0}
<1> DEFINE n == CbufOrder
<1>1. IsFiniteSet(1 .. n) /\ Cardinality(1 .. n) = n
  BY CbufAssumption, FS_Interval
<1>2. IsFiniteSet(SUBSET (1 .. n)) /\ Cardinality(SUBSET (1 .. n)) = 2 ^ n
  BY <1>1, FS_SUBSET, Zenon
<1>3. 2 ^ n \in Nat
  BY <1>2, FS_CardinalityType
<1>4. 2 ^ n # 0
  <2>1. {} \in SUBSET (1 .. n)
    OBVIOUS
  <2>2. SUBSET (1 .. n) # {}
    BY <2>1, Zenon
  <2>3. QED BY <1>2, <2>2, FS_EmptySet, Zenon
<1>5. QED BY <1>3, <1>4 DEF CbufSize

\* A multiple of M.
LEMMA Multiple ==
    ASSUME NEW M \in Nat \ {0}, NEW w \in Int
    PROVE  (w >= 1 => w * M >= M) /\ (w <= -1 => w * M <= -M)
OBVIOUS

\* What \div and % give.
LEMMA Division ==
    ASSUME NEW M \in Nat \ {0}, NEW x \in Int
    PROVE  x \div M \in Int /\ x % M \in 0 .. M - 1 /\ x = (x \div M) * M + (x % M)
OBVIOUS

\* The remainder is the only number below M that differs by a multiple of M.
LEMMA Remainder ==
    ASSUME NEW M \in Nat \ {0}, NEW x \in Int, NEW i \in 0 .. M - 1, NEW z \in Int, x = i + z * M
    PROVE  x % M = i
<1> DEFINE q == x \div M
           r == x % M
<1>1. q \in Int /\ r \in 0 .. M - 1 /\ x = q * M + r
  BY Division
<1> HIDE DEF q, r
<1>2. (z - q) * M = r - i
  BY <1>1
<1>3. z - q \in Int /\ (z - q >= 1 \/ z - q <= -1 \/ z - q = 0)
  BY <1>1
<1>4. z - q = 0
  BY <1>1, <1>2, <1>3, Multiple
<1>5. r = i
  BY <1>1, <1>2, <1>4
<1>6. QED BY <1>5 DEF r

\* The place of a byte on the ring.
At(x) == x % CbufSize

\* One round further is the same place, less than one round is another one, and
\* from a place in the first round it is the place itself.
LEMMA Places ==
    ASSUME NEW x \in Nat
    PROVE  /\ At(x) \in 0 .. CbufSize - 1
           /\ At(x + CbufSize) = At(x)
           /\ \A d \in 1 .. CbufSize - 1 : At(x + d) # At(x)
           /\ x < CbufSize => At(x) = x
<1> DEFINE M == CbufSize
           c == x \div M
           r == x % M
<1>0. M \in Nat \ {0}
  BY RingSize
<1>1. c \in Int /\ r \in 0 .. M - 1 /\ x = c * M + r
  BY <1>0, Division
<1> HIDE DEF M, c, r
<1>2. (x + M) % M = r
  <2>1. x + M = r + (c + 1) * M
    BY <1>0, <1>1
  <2>2. c + 1 \in Int /\ x + M \in Int
    BY <1>0, <1>1
  <2>3. QED BY <1>0, <1>1, <2>1, <2>2, Remainder
<1>3. ASSUME NEW d \in 1 .. M - 1 PROVE (x + d) % M # r
  <2>1. CASE r + d < M
    <3>1. r + d \in 0 .. M - 1 /\ x + d \in Int /\ x + d = (r + d) + c * M
      BY <1>0, <1>1, <2>1
    <3>2. (x + d) % M = r + d
      BY <1>0, <1>1, <3>1, Remainder
    <3>3. QED BY <1>0, <1>1, <3>2
  <2>2. CASE r + d >= M
    <3>1. r + d - M \in 0 .. M - 1 /\ x + d \in Int /\ x + d = (r + d - M) + (c + 1) * M
          /\ c + 1 \in Int
      BY <1>0, <1>1, <2>2
    <3>2. (x + d) % M = r + d - M
      BY <1>0, <3>1, Remainder
    <3>3. QED BY <1>0, <1>1, <3>2
  <2>3. QED BY <1>0, <1>1, <2>1, <2>2
<1>4. ASSUME x < M PROVE x % M = x
  <2>1. x \in 0 .. M - 1 /\ x = x + 0 * M
    BY <1>0, <1>4
  <2>2. QED BY <1>0, <2>1, Remainder
<1>5. QED BY <1>1, <1>2, <1>3, <1>4 DEF At, M, r

\* The bytes written through the mirror lie one behind the other round the ring,
\* and no other place changes.
LEMMA WrittenIs ==
    ASSUME NEW me \in Rings, NEW bytes \in Seq(Nat), Len(bytes) < CbufSize
    PROVE  /\ Written(me, bytes) \in [0 .. CbufSize - 1 -> Nat]
           /\ \A k \in 1 .. Len(bytes) : Written(me, bytes)[At(me.tail + k - 1)] = bytes[k]
           /\ \A i \in 0 .. CbufSize - 1 :
                (\A k \in 1 .. Len(bytes) : At(me.tail + k - 1) # i)
                    => Written(me, bytes)[i] = me.data[i]
<1> DEFINE n == Len(bytes)
           at(i) == {k \in 1 .. n : At(me.tail + k - 1) = i}
           w == Written(me, bytes)
<1>1. me.size = CbufSize /\ me.tail \in Nat /\ me.data \in [0 .. CbufSize - 1 -> Nat]
      /\ DOMAIN me.data = 0 .. CbufSize - 1
  BY DEF Rings
<1>2. n \in Nat /\ DOMAIN bytes = 1 .. n /\ \A k \in 1 .. n : bytes[k] \in Nat
  OBVIOUS
<1>3. w = [i \in 0 .. CbufSize - 1 |->
              IF at(i) = {} THEN me.data[i] ELSE bytes[CHOOSE k \in at(i) : TRUE]]
  BY <1>1, <1>2 DEF Written, At
<1>4. \A i : at(i) # {} => (CHOOSE k \in at(i) : TRUE) \in at(i)
  OBVIOUS
<1>5. w \in [0 .. CbufSize - 1 -> Nat]
  <2>1. \A i \in 0 .. CbufSize - 1 :
           (IF at(i) = {} THEN me.data[i] ELSE bytes[CHOOSE k \in at(i) : TRUE]) \in Nat
    BY <1>1, <1>2, <1>4, Zenon
  <2>2. QED BY <1>3, <2>1, Zenon
<1>6. ASSUME NEW k \in 1 .. n PROVE w[At(me.tail + k - 1)] = bytes[k]
  <2>1. me.tail + k - 1 \in Nat
    BY <1>1, <1>2
  <2>2. At(me.tail + k - 1) \in 0 .. CbufSize - 1
    BY <2>1, Places
  <2>3. ASSUME NEW j \in 1 .. n, At(me.tail + j - 1) = At(me.tail + k - 1) PROVE j = k
    <3>1. ASSUME NEW u \in 1 .. n, NEW v \in 1 .. n, u < v
          PROVE  At(me.tail + u - 1) # At(me.tail + v - 1)
      <4>1. v - u \in 1 .. CbufSize - 1 /\ me.tail + u - 1 \in Nat
            /\ (me.tail + u - 1) + (v - u) = me.tail + v - 1
        <5>1. n < CbufSize /\ CbufSize \in Nat /\ me.tail \in Nat /\ n \in Nat
          BY <1>1, <1>2, RingSize
        <5> HIDE DEF n, at, w
        <5>2. QED BY <3>1, <5>1
      <4>2. At((me.tail + u - 1) + (v - u)) # At(me.tail + u - 1)
        BY <4>1, Places, Zenon
      <4>3. QED BY <4>1, <4>2
    <3>2. j < k \/ k < j \/ j = k
      BY <1>2
    <3>3. QED BY <2>3, <3>1, <3>2
  <2>4. at(At(me.tail + k - 1)) = {k}
    BY <2>3
  <2>5. (CHOOSE j \in {k} : TRUE) = k
    OBVIOUS
  <2> HIDE DEF at, w
  <2>6. QED BY <1>3, <2>2, <2>4, <2>5, Zenon
<1>7. ASSUME NEW i \in 0 .. CbufSize - 1, \A k \in 1 .. n : At(me.tail + k - 1) # i
      PROVE  w[i] = me.data[i]
  <2>1. at(i) = {}
    BY <1>7
  <2> HIDE DEF at, w
  <2>2. QED BY <1>3, <2>1
<1>8. QED BY <1>5, <1>6, <1>7

\* What CbufInv says of the state, with a name for every part.
LEMMA CbufParts ==
    ASSUME CbufInv, ~abs.lapped
    PROVE  /\ obj \in Rings /\ obj.size = CbufSize /\ obj.head \in Nat /\ obj.tail \in Nat
           /\ obj.data \in [0 .. CbufSize - 1 -> Nat]
           /\ abs.q \in Seq(Nat) /\ Len(abs.q) \in Nat
           /\ CbufPlaces(obj.head, obj.tail, Len(abs.q))
           /\ InRing(obj.head, obj.data, abs.q)
           /\ cbuf_usedspace(obj) = Len(abs.q)
BY DEF CbufInv, Rings, CbufPlaces, cbuf_usedspace

\* The tail is where the byte after the last one waiting belongs.
LEMMA TailAt ==
    ASSUME NEW head \in Nat, NEW tail \in Nat, NEW used \in Nat, CbufPlaces(head, tail, used)
    PROVE  \A k \in Nat : At(tail + k) = At((head + used) + k)
<1> SUFFICES ASSUME NEW k \in Nat PROVE At(tail + k) = At((head + used) + k)
  OBVIOUS
<1>1. CASE head <= tail
  <2>1. head + used + k = tail + k
    BY <1>1 DEF CbufPlaces
  <2>2. QED BY <2>1
<1>2. CASE ~(head <= tail)
  <2>1. head + used + k = (tail + k) + CbufSize /\ tail + k \in Nat
    BY <1>2, RingSize DEF CbufPlaces
  <2>2. QED BY <2>1, Places
<1>3. QED BY <1>1, <1>2

\* Bytes written at the tail come after those waiting.
LEMMA RingGrows ==
    ASSUME NEW head \in Nat, NEW tail \in Nat, NEW data, NEW new,
           NEW q \in Seq(Nat), NEW bytes \in Seq(Nat), CbufPlaces(head, tail, Len(q)),
           Len(q) + Len(bytes) < CbufSize, InRing(head, data, q),
           \A k \in 1 .. Len(bytes) : new[At(tail + k - 1)] = bytes[k],
           \A i \in 0 .. CbufSize - 1 :
               (\A k \in 1 .. Len(bytes) : At(tail + k - 1) # i) => new[i] = data[i]
    PROVE  InRing(head, new, q \o bytes)
<1> DEFINE u == Len(q)
           n == Len(bytes)
<1>0. u \in Nat /\ n \in Nat /\ CbufSize \in Nat
  BY RingSize
<1>1. /\ Len(q \o bytes) = u + n
      /\ \A i \in 1 .. u : (q \o bytes)[i] = q[i]
      /\ \A i \in 1 .. n : (q \o bytes)[u + i] = bytes[i]
  BY Joined, Zenon
<1>2. ASSUME NEW k \in 1 .. n PROVE At(tail + k - 1) = At(head + (u + k) - 1)
  <2>1. k - 1 \in Nat /\ tail + (k - 1) = tail + k - 1 /\ head + u + (k - 1) = head + (u + k) - 1
    BY <1>0
  <2>2. At(tail + (k - 1)) = At(head + u + (k - 1))
    <3>1. u \in Nat /\ k - 1 \in Nat /\ CbufPlaces(head, tail, u)
      BY <1>0, <2>1
    <3> HIDE DEF u
    <3>2. \A j \in Nat : At(tail + j) = At((head + u) + j)
      BY <3>1, TailAt
    <3>3. QED BY <3>1, <3>2, Zenon
  <2>3. QED BY <2>1, <2>2
<1> HIDE DEF u, n
<1>3. ASSUME NEW i \in 1 .. u PROVE (q \o bytes)[i] = new[At(head + i - 1)]
  <2>0. head + i - 1 \in Nat
    BY <1>0
  <2>1. ASSUME NEW k \in 1 .. n PROVE At(tail + k - 1) # At(head + i - 1)
    <3>1. u + k - i \in 1 .. CbufSize - 1 /\ (head + i - 1) + (u + k - i) = head + (u + k) - 1
      BY <1>0 DEF u, n
    <3>2. At((head + i - 1) + (u + k - i)) # At(head + i - 1)
      BY <2>0, <3>1, Places
    <3>3. QED BY <1>2, <3>1, <3>2
  <2>2. At(head + i - 1) \in 0 .. CbufSize - 1
    BY <2>0, Places
  <2>3. new[At(head + i - 1)] = data[At(head + i - 1)]
    BY <2>1, <2>2, Zenon DEF n
  <2>4. q[i] = data[At(head + i - 1)]
    BY DEF InRing, At, u
  <2>5. QED BY <1>1, <2>3, <2>4, Zenon
<1>4. ASSUME NEW i \in u + 1 .. u + n PROVE (q \o bytes)[i] = new[At(head + i - 1)]
  <2>1. i - u \in 1 .. n /\ u + (i - u) = i
    BY <1>0
  <2>2. (q \o bytes)[u + (i - u)] = bytes[i - u]
    BY <1>1, <2>1, Zenon
  <2>3. new[At(tail + (i - u) - 1)] = bytes[i - u]
    BY <2>1 DEF n
  <2>4. At(tail + (i - u) - 1) = At(head + (u + (i - u)) - 1)
    BY <1>2, <2>1
  <2>5. QED BY <2>1, <2>2, <2>3, <2>4, Zenon
<1>5. \A i \in 1 .. u + n : i \in 1 .. u \/ i \in u + 1 .. u + n
  BY <1>0
<1>6. QED BY <1>1, <1>3, <1>4, <1>5, Zenon DEF InRing, At

\* Where the tail comes after n more bytes.
LEMMA TailMoves ==
    ASSUME NEW head \in Nat, NEW tail \in Nat, NEW used \in Nat, NEW n \in Nat,
           CbufPlaces(head, tail, used), used + n < CbufSize,
           NEW t, t = (IF CbufSize < tail + n THEN At(tail + n) ELSE tail + n),
           ~(t < tail /\ head > CbufSize)
    PROVE  CbufPlaces(head, t, used + n)
<1>0. CbufSize \in Nat \ {0}
  BY RingSize
<1>1. CASE CbufSize < tail + n
  <2>1. tail + n - CbufSize \in Nat /\ tail + n - CbufSize < CbufSize
        /\ (tail + n - CbufSize) + CbufSize = tail + n
    BY <1>0, <1>1 DEF CbufPlaces
  <2>2. At(tail + n) = tail + n - CbufSize
    <3>1. /\ At((tail + n - CbufSize) + CbufSize) = At(tail + n - CbufSize)
          /\ At(tail + n - CbufSize) = tail + n - CbufSize
      BY <2>1, Places
    <3>2. QED BY <2>1, <3>1
  <2>3. t = tail + n - CbufSize
    BY <1>1, <2>2
  <2>4. QED BY <1>0, <1>1, <2>3 DEF CbufPlaces
<1>2. CASE ~(CbufSize < tail + n)
  BY <1>0, <1>2 DEF CbufPlaces
<1>3. QED BY <1>1, <1>2

\* cbuf_offer: bytes that do not fit change nothing, others come last.
LEMMA CbufOfferKeeps ==
    ASSUME CbufInv, ~abs.lapped, NEW bytes \in Seq(Nat), CbufOffer(bytes)
    PROVE  CbufInv'
<1> DEFINE n == Len(bytes)
           u == Len(abs.q)
<1>0. n \in Nat /\ u \in Nat /\ CbufSize \in Nat \ {0}
  BY RingSize, CbufParts
<1>1. cbuf_unusedspace(obj) = CbufSize - u
  BY CbufParts DEF cbuf_unusedspace
<1>2. CASE ~(n < cbuf_unusedspace(obj))
  <2>1. cbuf_offer(obj, bytes) = obj
    BY <1>0, <1>1, <1>2 DEF cbuf_offer
  <2>2. obj' = obj /\ abs' = [q |-> abs.q, lapped |-> abs.lapped \/ (obj.tail < obj.tail /\ obj.head > obj.size)]
    BY <1>2, <2>1 DEF CbufOffer, Becomes
  <2>3. abs'.q = abs.q /\ abs' \in [q : Seq(Nat), lapped : BOOLEAN]
    BY <2>2, CbufParts DEF CbufInv
  <2>4. QED BY <2>2, <2>3, CbufParts DEF CbufInv
<1>3. CASE n < cbuf_unusedspace(obj)
  <2> DEFINE t == WrapTail(obj, obj.tail + n)
             w == Written(obj, bytes)
             q == abs.q \o bytes
  <2>1. u + n < CbufSize /\ ~(cbuf_unusedspace(obj) <= n)
    BY <1>0, <1>1, <1>3
  <2>2. cbuf_offer(obj, bytes) = [obj EXCEPT !.data = w, !.tail = t]
    BY <2>1 DEF cbuf_offer
  <2>3. t = (IF CbufSize < obj.tail + n THEN At(obj.tail + n) ELSE obj.tail + n) /\ t \in Nat
    <3>1. obj.tail + n \in Nat
      BY <1>0, CbufParts
    <3>2. At(obj.tail + n) \in Nat
      <4>1. At(obj.tail + n) \in 0 .. CbufSize - 1
        BY <3>1, Places, Zenon
      <4>2. QED BY <4>1, <1>0
    <3>3. QED BY <3>1, <3>2, CbufParts DEF WrapTail, At
  <2>4. /\ w \in [0 .. CbufSize - 1 -> Nat]
        /\ \A k \in 1 .. n : w[At(obj.tail + k - 1)] = bytes[k]
        /\ \A i \in 0 .. CbufSize - 1 :
              (\A k \in 1 .. n : At(obj.tail + k - 1) # i) => w[i] = obj.data[i]
    <3>1. n < CbufSize
      BY <1>0, <2>1
    <3>2. QED BY <3>1, CbufParts, WrittenIs
  <2> HIDE DEF t, w
  <2>5. /\ obj' \in Rings /\ obj'.head = obj.head /\ obj'.tail = t /\ obj'.data = w
    <3>1. obj' = [obj EXCEPT !.data = w, !.tail = t]
      BY <2>2 DEF CbufOffer, Becomes
    <3>2. QED BY <2>3, <2>4, <3>1, CbufParts, Zenon DEF Rings
  <2>6. /\ abs' = [q |-> q, lapped |-> t < obj.tail /\ obj.head > CbufSize]
    <3>1. cbuf_offer(obj, bytes).tail = t
      BY <2>2, CbufParts DEF Rings
    <3>2. QED BY <1>3, <3>1, CbufParts, Zenon DEF CbufOffer, Becomes
  <2>7. q \in Seq(Nat) /\ Len(q) = u + n
    BY CbufParts, Joined, Zenon
  <2>8. InRing(obj.head, w, q)
    <3>1. obj.head \in Nat /\ obj.tail \in Nat /\ abs.q \in Seq(Nat)
          /\ CbufPlaces(obj.head, obj.tail, Len(abs.q)) /\ InRing(obj.head, obj.data, abs.q)
      BY CbufParts
    <3>2. QED BY <2>1, <2>4, <3>1, RingGrows, Zenon
  <2>9. (~(t < obj.tail /\ obj.head > CbufSize)) => CbufPlaces(obj.head, t, u + n)
    BY <1>0, <2>1, <2>3, CbufParts, TailMoves, Zenon
  <2> HIDE DEF q, u, n
  <2>10. abs'.q = q /\ (abs'.lapped <=> t < obj.tail /\ obj.head > CbufSize)
         /\ abs' \in [q : Seq(Nat), lapped : BOOLEAN]
    BY <2>6, <2>7, Zenon
  <2>11. QED BY <2>5, <2>7, <2>8, <2>9, <2>10 DEF CbufInv
<1>4. QED BY <1>2, <1>3

\* cbuf_poll: the head moves, which is the only field it changes.
LEMMA CbufPollKeeps ==
    ASSUME CbufInv, ~abs.lapped, NEW n \in Nat, CbufPoll(n)
    PROVE  CbufInv'
<1> DEFINE u == Len(abs.q)
           q == SubSeq(abs.q, n + 1, u)
<1>0. u \in Nat /\ CbufSize \in Nat \ {0} /\ n <= u /\ obj.head + n <= 2 * CbufSize
  BY RingSize, CbufParts DEF CbufPoll
<1>1. obj' = cbuf_poll(obj, n) /\ abs' = [abs EXCEPT !.q = q]
  BY DEF CbufPoll, Becomes
<1>2. q \in Seq(Nat) /\ Len(q) = u - n /\ \A i \in 1 .. u - n : q[i] = abs.q[n + i]
  <2>1. abs.q \in Seq(Nat)
    BY CbufParts
  <2>2. QED BY <1>0, <2>1
<1>3. obj' \in Rings /\ obj'.head = obj.head + n /\ obj'.tail = obj.tail /\ obj'.data = obj.data
  <2>1. CASE cbuf_is_empty(obj)
    <3>1. u = 0
      BY <2>1, CbufParts DEF cbuf_is_empty, CbufPlaces
    <3>2. n = 0 /\ obj.head + n = obj.head
      BY <1>0, <3>1, CbufParts
    <3>3. QED BY <1>1, <2>1, <3>2, CbufParts DEF cbuf_poll
  <2>2. CASE ~cbuf_is_empty(obj)
    <3>1. obj.head + n \in Nat
      BY CbufParts
    <3>2. QED BY <1>1, <2>2, <3>1, CbufParts, Zenon DEF cbuf_poll, Rings
  <2>3. QED BY <2>1, <2>2
<1>4. abs'.q = q /\ abs' \in [q : Seq(Nat), lapped : BOOLEAN]
  BY <1>1, <1>2, Zenon DEF CbufInv
<1>5. CbufPlaces(obj.head + n, obj.tail, u - n)
  <2>1. obj.head \in Nat /\ obj.tail \in Nat /\ CbufPlaces(obj.head, obj.tail, u)
    BY CbufParts
  <2> HIDE DEF u
  <2>2. QED BY <1>0, <2>1 DEF CbufPlaces
<1>6. InRing(obj.head + n, obj.data, q)
  <2>1. ASSUME NEW i \in 1 .. u - n
        PROVE  q[i] = obj.data[((obj.head + n) + i - 1) % CbufSize]
    <3>1. n + i \in 1 .. u /\ obj.head + (n + i) - 1 = (obj.head + n) + i - 1
      <4>1. obj.head \in Nat
        BY CbufParts
      <4> HIDE DEF u
      <4>2. QED BY <1>0, <4>1
    <3>2. abs.q[n + i] = obj.data[(obj.head + (n + i) - 1) % CbufSize]
      BY <3>1, CbufParts DEF InRing
    <3>3. QED BY <1>2, <3>1, <3>2, Zenon
  <2> HIDE DEF q, u
  <2>2. QED BY <1>2, <2>1 DEF InRing
<1> HIDE DEF q, u
<1>7. QED BY <1>2, <1>3, <1>4, <1>5, <1>6 DEF CbufInv

\* cbuf_new gives an empty ring.
LEMMA CbufStart == CbufInit => CbufInv
<1> SUFFICES ASSUME CbufInit PROVE CbufInv
  OBVIOUS
<1>1. obj = [size |-> CbufSize, head |-> 0, tail |-> 0, data |-> [i \in 0 .. CbufSize - 1 |-> 0]]
      /\ abs = [q |-> <<>>, lapped |-> FALSE]
  BY DEF CbufInit, cbuf_new, CbufSize, NULL
<1>2. <<>> \in Seq(Nat) /\ Len(<<>>) = 0
  OBVIOUS
<1>3. CbufPlaces(0, 0, 0)
  BY RingSize DEF CbufPlaces
<1>4. obj \in Rings /\ abs \in [q : Seq(Nat), lapped : BOOLEAN]
  BY <1>1, <1>2 DEF Rings
<1>5. obj.head = 0 /\ obj.tail = 0 /\ abs.q = <<>>
  BY <1>1
<1>6. InRing(0, obj.data, <<>>)
  BY <1>2 DEF InRing
<1>7. QED BY <1>2, <1>3, <1>4, <1>5, <1>6 DEF CbufInv

\* CbufFifo holds in the states of the invariant.
LEMMA CbufExact == CbufInv => CbufFifo
<1> SUFFICES ASSUME CbufInv, ~abs.lapped
             PROVE  /\ cbuf_usedspace(obj) = Len(abs.q)
                    /\ Len(abs.q) < obj.size
                    /\ cbuf_peek(obj, Len(abs.q)) = abs.q
                    /\ obj.head <= obj.size => (cbuf_is_empty(obj) <=> abs.q = <<>>)
  BY DEF CbufFifo
<1>1. cbuf_usedspace(obj) = Len(abs.q) /\ Len(abs.q) < obj.size
  BY CbufParts DEF CbufPlaces
<1>2. cbuf_peek(obj, Len(abs.q)) = abs.q
  <2>1. abs.q = [i \in 1 .. Len(abs.q) |-> abs.q[i]]
    BY CbufParts
  <2>2. cbuf_peek(obj, Len(abs.q)) = [i \in 1 .. Len(abs.q) |-> obj.data[(obj.head + i - 1) % CbufSize]]
    BY CbufParts DEF cbuf_peek
  <2>3. \A i \in 1 .. Len(abs.q) : abs.q[i] = obj.data[(obj.head + i - 1) % CbufSize]
    BY CbufParts DEF InRing
  <2>4. QED BY <2>1, <2>2, <2>3, Zenon
<1>3. ASSUME obj.head <= obj.size PROVE cbuf_is_empty(obj) <=> abs.q = <<>>
  <2>1. abs.q = <<>> <=> Len(abs.q) = 0
    BY CbufParts
  <2>2. QED BY <1>3, <2>1, CbufParts, RingSize DEF cbuf_is_empty, CbufPlaces
<1>4. QED BY <1>1, <1>2, <1>3

\* Every call of the model is one of CbufCalls.
LEMMA CbufCovers == CbufInv /\ CbufNext => CbufCalls
<1> SUFFICES ASSUME CbufInv, CbufNext PROVE CbufCalls
  OBVIOUS
<1>0. obj.size \in Nat
  BY RingSize DEF CbufInv, Rings
<1>1. ASSUME NEW n \in 1 .. obj.size - 1, NEW b \in CbufBytes,
             CbufOffer([i \in 1 .. n |-> IF i = 1 THEN b ELSE 1])
      PROVE  CbufCalls
  <2>1. [i \in 1 .. n |-> IF i = 1 THEN b ELSE 1] \in Seq(Nat)
    BY <1>0, CbufAssumption, IsASeq
  <2>2. QED BY <1>1, <2>1 DEF CbufCalls, CbufNext
<1>2. ASSUME NEW n \in 1 .. obj.size - 1, CbufPoll(n) PROVE CbufCalls
  BY <1>0, <1>2 DEF CbufCalls, CbufNext
<1>3. QED BY <1>1, <1>2, Zenon DEF CbufNext

\* For every order given to cbuf_new and every sequence of cbuf_offer and
\* cbuf_poll calls, of any bytes and any length, until the head is lapped:
\* cbuf_usedspace counts the bytes waiting, they are read in order across the
\* mirror, and the ring never becomes full.
THEOREM CbufInOrder == CbufSpec => []CbufFifo
<1>1. CbufInv /\ [CbufCalls]_subjectVars => CbufInv'
  <2>1. ASSUME CbufInv, CbufCalls PROVE CbufInv'
    BY <2>1, CbufOfferKeeps, CbufPollKeeps DEF CbufCalls
  <2>2. ASSUME CbufInv, UNCHANGED subjectVars PROVE CbufInv'
    BY <2>2 DEF subjectVars, CbufInv, CbufPlaces, InRing
  <2>3. QED BY <2>1, <2>2
<1>2. QED BY <1>1, CbufStart, CbufExact, PTL DEF CbufSpec

(***************************************************************************)
(* The array list.                                                         *)
(***************************************************************************)
ListSpec == ListInit /\ [][ListNext]_subjectVars

\* A list whose slots in use are counted.
Tidy(me) ==
    /\ me \in [array : [0 .. me.arraySize - 1 -> Nat], arraySize : Nat, count : Nat,
               aborted : {FALSE}]
    /\ me.count = Cardinality(Used(me))

\* What a list holds, by index.
Contents(me) == [i \in Used(me) |-> me.array[i]]

\* The invariant of the list, until an item is left behind by farraylist_clear.
ListInv ==
    ~abs.stale =>
        /\ Tidy(obj)
        /\ abs \in [at : {Contents(obj)}, stale : {FALSE}]

\* A non-empty set of natural numbers has a least element.
LEMMA LeastOne ==
    ASSUME NEW T, T \subseteq Nat, T # {}
    PROVE  \E x \in T : \A y \in T : x <= y
<1> DEFINE R == OpToRel(<, Nat)
<1>1. IsWellFoundedOn(R, Nat)
  BY NatLessThanWellFounded, Zenon
<1>2. \A x, y \in Nat : x < y => <<x, y>> \in R
  BY DEF OpToRel
<1> HIDE DEF R
<1>3. PICK x \in T : \A y \in T : ~(<<y, x>> \in R)
  BY <1>1, WFMin, Zenon
<1>4. \A y \in T : ~(y < x)
  BY <1>2, <1>3, Zenon
<1>5. QED BY <1>4

\* The parts of a list, and that its slots in use are finitely many.
LEMMA TidyParts ==
    ASSUME NEW me, Tidy(me)
    PROVE  /\ me.arraySize \in Nat /\ me.array \in [0 .. me.arraySize - 1 -> Nat]
           /\ DOMAIN me.array = 0 .. me.arraySize - 1
           /\ me.count \in Nat /\ me.aborted = FALSE /\ me.count = Cardinality(Used(me))
           /\ Used(me) \subseteq 0 .. me.arraySize - 1 /\ IsFiniteSet(Used(me))
           /\ \A i : i \in Used(me) <=> i \in 0 .. me.arraySize - 1 /\ me.array[i] # 0
           /\ me = [array |-> me.array, arraySize |-> me.arraySize, count |-> me.count,
                    aborted |-> FALSE]
<1>1. /\ me.arraySize \in Nat /\ me.array \in [0 .. me.arraySize - 1 -> Nat]
      /\ DOMAIN me.array = 0 .. me.arraySize - 1
      /\ me.count \in Nat /\ me.aborted = FALSE /\ me.count = Cardinality(Used(me))
      /\ me = [array |-> me.array, arraySize |-> me.arraySize, count |-> me.count,
               aborted |-> FALSE]
  BY Zenon DEF Tidy
<1>2. \A i : i \in Used(me) <=> i \in 0 .. me.arraySize - 1 /\ me.array[i] # 0
  BY <1>1 DEF Used, NULL
<1>3. Used(me) \subseteq 0 .. me.arraySize - 1
  BY <1>2
<1>4. IsFiniteSet(Used(me))
  <2>1. IsFiniteSet(0 .. me.arraySize - 1)
    BY <1>1, FS_Interval
  <2>2. QED BY <1>3, <2>1, FS_Subset, Zenon
<1>5. QED BY <1>1, <1>2, <1>3, <1>4

\* ensurecap makes room for idx and moves no item.
LEMMA EnsureKeeps ==
    ASSUME NEW me, Tidy(me), NEW idx \in Nat
    PROVE  LET e == ensurecap(me, idx) IN
           /\ Tidy(e) /\ Used(e) = Used(me) /\ e.count = me.count /\ idx < e.arraySize
           /\ me.arraySize <= e.arraySize
           /\ \A i \in 0 .. e.arraySize - 1 :
                 e.array[i] = IF i < me.arraySize THEN me.array[i] ELSE 0
<1>0. /\ me.arraySize \in Nat /\ me.array \in [0 .. me.arraySize - 1 -> Nat]
      /\ me.count \in Nat /\ me.aborted = FALSE /\ me.count = Cardinality(Used(me))
      /\ \A i : i \in Used(me) <=> i \in 0 .. me.arraySize - 1 /\ me.array[i] # 0
      /\ me = [array |-> me.array, arraySize |-> me.arraySize, count |-> me.count,
               aborted |-> FALSE]
  BY TidyParts, Zenon
<1>1. CASE me.count < me.arraySize /\ idx < me.arraySize
  <2>1. ensurecap(me, idx) = me
    BY <1>1 DEF ensurecap
  <2>2. \A i \in 0 .. me.arraySize - 1 : i < me.arraySize
    BY <1>0
  <2>3. QED BY <1>0, <1>1, <2>1, <2>2
<1>2. CASE ~(me.count < me.arraySize /\ idx < me.arraySize)
  <2> DEFINE n == NewSize(me, idx)
             a == [i \in 0 .. n - 1 |-> IF i < me.arraySize THEN me.array[i] ELSE 0]
             e == ensurecap(me, idx)
  <2>1. n \in Nat /\ idx < n /\ me.arraySize <= n
    <3> DEFINE m == me.arraySize
    <3>1. m \in Nat /\ n = IF idx >= m * 2 THEN idx + 1 ELSE m * 2
      BY <1>0 DEF NewSize
    <3> HIDE DEF m, n
    <3>2. n \in Nat /\ idx < n /\ m <= n
      BY <3>1
    <3>3. QED BY <3>2 DEF m
  <2> HIDE DEF n
  <2>2. e = [array |-> a, arraySize |-> n, count |-> me.count, aborted |-> FALSE]
    <3>1. e = [me EXCEPT !.array = a, !.arraySize = n, !.aborted = FALSE]
      BY <1>0, <1>2, Zenon DEF ensurecap, n, NULL
    <3>2. QED BY <1>0, <3>1, Zenon
  <2>3. a \in [0 .. n - 1 -> Nat]
    <3>1. \A i \in 0 .. n - 1 : i < me.arraySize => i \in 0 .. me.arraySize - 1
      BY <1>0, <2>1
    <3>2. QED BY <1>0, <3>1
  <2>4. \A i \in 0 .. n - 1 : a[i] = IF i < me.arraySize THEN me.array[i] ELSE 0
    OBVIOUS
  <2> HIDE DEF a, e
  <2>5. e.array = a /\ e.arraySize = n /\ e.count = me.count /\ e.aborted = FALSE
        /\ DOMAIN e.array = 0 .. n - 1
    BY <2>2, <2>3
  <2>6. Used(e) = Used(me)
    <3>1. \A i : i \in Used(e) <=> i \in 0 .. n - 1 /\ a[i] # 0
      BY <2>5 DEF Used, NULL
    <3>2. \A i : i \in 0 .. me.arraySize - 1 <=> i \in 0 .. n - 1 /\ i < me.arraySize
      BY <1>0, <2>1
    <3>3. \A i : i \in Used(e) <=> i \in Used(me)
      BY <1>0, <2>4, <3>1, <3>2
    <3>4. QED BY <3>3, Zenon
  <2>7. Tidy(e)
    BY <1>0, <2>1, <2>2, <2>3, <2>5, <2>6 DEF Tidy
  <2>8. QED BY <2>1, <2>4, <2>5, <2>6, <2>7 DEF e
<1>3. QED BY <1>1, <1>2

\* The assignments of farraylist_insert.
PutAt(me, item, idx) ==
    [me EXCEPT !.array[idx] = item, !.count = IF me.array[idx] = NULL THEN @ + 1 ELSE @]

\* What an item put at idx changes.
LEMMA PutKeeps ==
    ASSUME NEW me, Tidy(me), NEW idx \in 0 .. me.arraySize - 1, NEW item \in Nat \ {0}
    PROVE  LET new == PutAt(me, item, idx) IN
           /\ Tidy(new) /\ Used(new) = Used(me) \cup {idx} /\ new.array[idx] = item
           /\ \A i \in Used(me) \ {idx} : new.array[i] = me.array[i]
<1> DEFINE a == [me.array EXCEPT ![idx] = item]
           c == IF me.array[idx] = 0 THEN me.count + 1 ELSE me.count
           new == PutAt(me, item, idx)
<1>0. /\ me.arraySize \in Nat /\ me.array \in [0 .. me.arraySize - 1 -> Nat]
      /\ me.count \in Nat /\ me.aborted = FALSE /\ me.count = Cardinality(Used(me))
      /\ IsFiniteSet(Used(me)) /\ Used(me) \subseteq 0 .. me.arraySize - 1
      /\ \A i : i \in Used(me) <=> i \in 0 .. me.arraySize - 1 /\ me.array[i] # 0
      /\ me = [array |-> me.array, arraySize |-> me.arraySize, count |-> me.count,
               aborted |-> FALSE]
  BY TidyParts, Zenon
<1>1. new = [array |-> a, arraySize |-> me.arraySize, count |-> c, aborted |-> FALSE]
  <2>1. new = [me EXCEPT !.array = a, !.count = c]
    BY <1>0 DEF NULL, PutAt
  <2> HIDE DEF new, a, c
  <2>2. QED BY <1>0, <2>1, Zenon
<1>2. a \in [0 .. me.arraySize - 1 -> Nat] /\ c \in Nat
  BY <1>0
<1>3. a[idx] = item /\ \A i \in 0 .. me.arraySize - 1 : i # idx => a[i] = me.array[i]
  BY <1>0
<1> HIDE DEF a, new
<1>4. new.array = a /\ new.arraySize = me.arraySize /\ new.count = c
      /\ DOMAIN new.array = 0 .. me.arraySize - 1
  BY <1>1, <1>2
<1>5. Used(new) = Used(me) \cup {idx}
  <2>1. \A i : i \in Used(new) <=> i \in 0 .. me.arraySize - 1 /\ a[i] # 0
    BY <1>4 DEF Used, NULL
  <2>2. \A i : i \in Used(new) <=> i \in Used(me) \/ i = idx
    BY <1>0, <1>3, <2>1
  <2>3. QED BY <2>2
<1>6. c = Cardinality(Used(new))
  <2>1. idx \in Used(me) <=> me.array[idx] # 0
    BY <1>0
  <2>2. Cardinality(Used(me) \cup {idx})
           = IF idx \in Used(me) THEN Cardinality(Used(me)) ELSE Cardinality(Used(me)) + 1
    BY <1>0, FS_AddElement, Zenon
  <2>3. QED BY <1>0, <1>5, <2>1, <2>2
<1> HIDE DEF c
<1>7. Tidy(new)
  BY <1>0, <1>1, <1>2, <1>4, <1>6 DEF Tidy
<1>8. \A i \in Used(me) \ {idx} : new.array[i] = me.array[i]
  BY <1>0, <1>3, <1>4
<1>9. QED BY <1>3, <1>4, <1>5, <1>7, <1>8 DEF new

\* farraylist_insert, for a list with enough room or too little.
LEMMA InsertKeeps ==
    ASSUME NEW me, Tidy(me), NEW idx \in Nat, NEW item \in Nat \ {0}
    PROVE  LET new == farraylist_insert(me, item, idx) IN
           /\ Tidy(new) /\ Used(new) = Used(me) \cup {idx} /\ new.array[idx] = item
           /\ \A i \in Used(me) \ {idx} : new.array[i] = me.array[i]
<1> DEFINE e == ensurecap(me, idx)
           new == PutAt(e, item, idx)
<1>1. /\ Tidy(e) /\ Used(e) = Used(me) /\ idx < e.arraySize /\ me.arraySize <= e.arraySize
      /\ \A i \in 0 .. e.arraySize - 1 :
            e.array[i] = IF i < me.arraySize THEN me.array[i] ELSE 0
  BY EnsureKeeps
<1> HIDE DEF e
<1>2. /\ me.arraySize \in Nat /\ e.arraySize \in Nat /\ e.aborted = FALSE
      /\ Used(me) \subseteq 0 .. me.arraySize - 1
  BY <1>1, TidyParts, Zenon
<1>3. idx \in 0 .. e.arraySize - 1
  BY <1>1, <1>2
<1>4. farraylist_insert(me, item, idx) = new
  BY <1>2 DEF farraylist_insert, e, PutAt
<1>5. /\ Tidy(new) /\ Used(new) = Used(e) \cup {idx} /\ new.array[idx] = item
      /\ \A i \in Used(e) \ {idx} : new.array[i] = e.array[i]
  BY <1>1, <1>3, PutKeeps
<1> HIDE DEF new
<1>6. \A i \in Used(me) : e.array[i] = me.array[i]
  <2>1. \A i \in 0 .. me.arraySize - 1 : i \in 0 .. e.arraySize - 1 /\ i < me.arraySize
    BY <1>1, <1>2
  <2>2. QED BY <1>1, <1>2, <2>1
<1>7. QED BY <1>1, <1>4, <1>5, <1>6

\* An item put at idx into a list that stands for at, as the history records it.
LEMMA PutRecorded ==
    ASSUME NEW me, NEW new, NEW idx, NEW item,
           Used(new) = Used(me) \cup {idx}, new.array[idx] = item,
           \A i \in Used(me) \ {idx} : new.array[i] = me.array[i]
    PROVE  Put(Contents(me), idx, item) = Contents(new)
<1> DEFINE at == Contents(me)
<1>1. DOMAIN at = Used(me) /\ \A i \in Used(me) : at[i] = me.array[i]
  BY DEF Contents
<1>2. Put(at, idx, item) = [i \in Used(new) |-> IF i = idx THEN item ELSE at[i]]
  BY <1>1 DEF Put
<1>3. \A i \in Used(new) : (IF i = idx THEN item ELSE at[i]) = new.array[i]
  BY <1>1
<1> HIDE DEF at
<1>4. QED BY <1>2, <1>3 DEF at, Contents

\* The slot farraylist_add takes is free, or the first behind a full array.
LEMMA FreeSlotIs ==
    ASSUME NEW me, Tidy(me)
    PROVE  /\ FreeSlot(me) \in Nat /\ FreeSlot(me) \notin Used(me)
           /\ IF Used(me) = DOMAIN me.array THEN FreeSlot(me) = me.arraySize
              ELSE FreeSlot(me) \in 0 .. me.arraySize - 1
<1> DEFINE free == DOMAIN me.array \ Used(me)
<1>0. /\ me.arraySize \in Nat /\ DOMAIN me.array = 0 .. me.arraySize - 1
      /\ me.count = Cardinality(Used(me)) /\ Used(me) \subseteq 0 .. me.arraySize - 1
  BY TidyParts, Zenon
<1>1. CASE free = {}
  <2>1. Used(me) = 0 .. me.arraySize - 1 /\ Used(me) = DOMAIN me.array
    BY <1>0, <1>1, Zenon
  <2>2. Cardinality(0 .. me.arraySize - 1) = me.arraySize
    <3>1. Cardinality(0 .. me.arraySize - 1)
             = IF 0 > me.arraySize - 1 THEN 0 ELSE (me.arraySize - 1) - 0 + 1
      <4>1. 0 \in Int /\ me.arraySize - 1 \in Int
        BY <1>0
      <4>2. QED BY <4>1, FS_Interval, Zenon
    <3>2. QED BY <1>0, <3>1
  <2>3. FreeSlot(me) = me.arraySize
    BY <1>0, <1>1, <2>1, <2>2 DEF FreeSlot
  <2>4. me.arraySize \notin 0 .. me.arraySize - 1
    BY <1>0
  <2>5. QED BY <1>0, <2>1, <2>3, <2>4
<1>2. CASE free # {}
  <2>1. free \subseteq Nat
    BY <1>0
  <2>2. \E i \in free : \A j \in free : i <= j
    BY <1>2, <2>1, LeastOne, Zenon
  <2>3. FreeSlot(me) = CHOOSE i \in free : \A j \in free : i <= j
    BY <1>2 DEF FreeSlot
  <2>4. FreeSlot(me) \in free
    BY <2>2, <2>3, Zenon
  <2>5. QED BY <1>0, <2>1, <2>4
<1>3. QED BY <1>1, <1>2

\* farraylist_add takes that slot.
LEMMA AddKeeps ==
    ASSUME NEW me, Tidy(me), NEW item \in Nat \ {0}
    PROVE  LET new == farraylist_add(me, item)
               idx == FreeSlot(me)
           IN  /\ Tidy(new) /\ Used(new) = Used(me) \cup {idx} /\ new.array[idx] = item
               /\ \A i \in Used(me) \ {idx} : new.array[i] = me.array[i]
<1> DEFINE idx == FreeSlot(me)
           e == IF Used(me) = DOMAIN me.array THEN ensurecap(me, idx) ELSE me
<1>0. /\ me.arraySize \in Nat /\ Used(me) \subseteq 0 .. me.arraySize - 1
      /\ \A i : i \in Used(me) <=> i \in 0 .. me.arraySize - 1 /\ me.array[i] # 0
  BY TidyParts, Zenon
<1>1. /\ idx \in Nat /\ idx \notin Used(me)
      /\ IF Used(me) = DOMAIN me.array THEN idx = me.arraySize ELSE idx \in 0 .. me.arraySize - 1
  BY FreeSlotIs
<1>a. farraylist_add(me, item) =
         IF e.aborted THEN e
         ELSE IF e.array[idx] # NULL THEN [e EXCEPT !.aborted = TRUE]
         ELSE farraylist_insert(e, item, idx)
  BY DEF farraylist_add
<1> HIDE DEF idx
<1>2. /\ Tidy(e) /\ Used(e) = Used(me) /\ e.array[idx] = 0
      /\ \A i \in Used(me) : e.array[i] = me.array[i]
  <2>1. CASE Used(me) = DOMAIN me.array
    <3>1. /\ Tidy(e) /\ Used(e) = Used(me) /\ idx < e.arraySize /\ me.arraySize <= e.arraySize
          /\ \A i \in 0 .. e.arraySize - 1 :
                e.array[i] = IF i < me.arraySize THEN me.array[i] ELSE 0
      BY <1>1, <2>1, EnsureKeeps
    <3> HIDE DEF e
    <3>2. e.arraySize \in Nat
      BY <3>1, TidyParts, Zenon
    <3>3. idx \in 0 .. e.arraySize - 1 /\ ~(idx < me.arraySize)
      BY <1>0, <1>1, <2>1, <3>1, <3>2
    <3>4. \A i \in 0 .. me.arraySize - 1 : i \in 0 .. e.arraySize - 1 /\ i < me.arraySize
      BY <1>0, <3>1, <3>2
    <3>5. QED BY <1>0, <3>1, <3>3, <3>4
  <2>2. CASE Used(me) # DOMAIN me.array
    BY <1>0, <1>1, <2>2
  <2>3. QED BY <2>1, <2>2
<1> HIDE DEF e
<1>3. e.aborted = FALSE
  BY <1>2, TidyParts, Zenon
<1>4. farraylist_add(me, item) = farraylist_insert(e, item, idx)
  BY <1>a, <1>2, <1>3 DEF NULL
<1> DEFINE new == farraylist_insert(e, item, idx)
<1>5. /\ Tidy(new) /\ Used(new) = Used(e) \cup {idx} /\ new.array[idx] = item
      /\ \A i \in Used(e) \ {idx} : new.array[i] = e.array[i]
  BY <1>1, <1>2, InsertKeeps
<1> HIDE DEF new
<1>6. /\ Tidy(new) /\ Used(new) = Used(me) \cup {idx} /\ new.array[idx] = item
      /\ \A i \in Used(me) \ {idx} : new.array[i] = me.array[i]
  BY <1>2, <1>5
<1>7. QED BY <1>4, <1>6 DEF new, idx

\* farraylist_remove of a slot in use.
LEMMA RemoveKeeps ==
    ASSUME NEW me, Tidy(me), NEW idx \in Used(me)
    PROVE  LET new == farraylist_remove(me, idx) IN
           /\ Tidy(new) /\ Used(new) = Used(me) \ {idx}
           /\ \A i \in Used(me) \ {idx} : new.array[i] = me.array[i]
<1> DEFINE a == [me.array EXCEPT ![idx] = 0]
           new == farraylist_remove(me, idx)
<1>0. /\ me.arraySize \in Nat /\ me.array \in [0 .. me.arraySize - 1 -> Nat]
      /\ me.count \in Nat /\ me.aborted = FALSE /\ me.count = Cardinality(Used(me))
      /\ IsFiniteSet(Used(me)) /\ Used(me) \subseteq 0 .. me.arraySize - 1
      /\ \A i : i \in Used(me) <=> i \in 0 .. me.arraySize - 1 /\ me.array[i] # 0
      /\ me = [array |-> me.array, arraySize |-> me.arraySize, count |-> me.count,
               aborted |-> FALSE]
  BY TidyParts, Zenon
<1>1. Cardinality(Used(me) \ {idx}) = Cardinality(Used(me)) - 1 /\ IsFiniteSet(Used(me) \ {idx})
  BY <1>0, FS_RemoveElement, Zenon
<1>2. me.count - 1 \in Nat
  BY <1>0, <1>1, FS_CardinalityType
<1>3. idx \in 0 .. me.arraySize - 1 /\ me.array[idx] # 0 /\ probecheck(me, idx)
  BY <1>0 DEF probecheck
<1>4. new = [array |-> a, arraySize |-> me.arraySize, count |-> me.count - 1, aborted |-> FALSE]
  <2>1. new = [me EXCEPT !.array = a, !.count = me.count - 1]
    BY <1>0, <1>3 DEF farraylist_remove, NULL
  <2> HIDE DEF new, a
  <2>2. QED BY <1>0, <2>1, Zenon
<1>5. /\ a \in [0 .. me.arraySize - 1 -> Nat] /\ a[idx] = 0
      /\ \A i \in 0 .. me.arraySize - 1 : i # idx => a[i] = me.array[i]
  BY <1>0, <1>3
<1> HIDE DEF a, new
<1>6. new.array = a /\ new.arraySize = me.arraySize /\ new.count = me.count - 1
      /\ DOMAIN new.array = 0 .. me.arraySize - 1
  BY <1>4, <1>5
<1>7. Used(new) = Used(me) \ {idx}
  <2>1. \A i : i \in Used(new) <=> i \in 0 .. me.arraySize - 1 /\ a[i] # 0
    BY <1>6 DEF Used, NULL
  <2>2. \A i : i \in Used(new) <=> i \in Used(me) /\ i # idx
    BY <1>0, <1>5, <2>1
  <2>3. QED BY <2>2
<1>8. Tidy(new)
  BY <1>0, <1>1, <1>2, <1>4, <1>5, <1>6, <1>7, Zenon DEF Tidy
<1>9. \A i \in Used(me) \ {idx} : new.array[i] = me.array[i]
  BY <1>0, <1>5, <1>6
<1>10. QED BY <1>7, <1>8, <1>9 DEF new

\* farraylist_clear, when no item is left behind.
LEMMA ClearKeeps ==
    ASSUME NEW me, Tidy(me), Used(farraylist_clear(me)) = {}
    PROVE  Tidy(farraylist_clear(me))
<1> DEFINE a == [i \in DOMAIN me.array |-> IF i < me.count THEN NULL ELSE me.array[i]]
           new == farraylist_clear(me)
<1>0. /\ me.arraySize \in Nat /\ me.array \in [0 .. me.arraySize - 1 -> Nat]
      /\ DOMAIN me.array = 0 .. me.arraySize - 1 /\ me.aborted = FALSE
      /\ me = [array |-> me.array, arraySize |-> me.arraySize, count |-> me.count,
               aborted |-> FALSE]
  BY TidyParts, Zenon
<1>1. a \in [0 .. me.arraySize - 1 -> Nat]
  BY <1>0 DEF NULL
<1>2. new = [array |-> a, arraySize |-> me.arraySize, count |-> 0, aborted |-> FALSE]
  <2>1. new = [me EXCEPT !.array = a, !.count = 0]
    BY <1>0, Zenon DEF farraylist_clear
  <2> HIDE DEF new, a
  <2>2. QED BY <1>0, <2>1, Zenon
<1> HIDE DEF a
<1>3. Cardinality(Used(new)) = 0
  BY FS_EmptySet
<1> HIDE DEF new
<1>4. Tidy(new)
  BY <1>0, <1>1, <1>2, <1>3 DEF Tidy
<1>5. QED BY <1>4 DEF new

\* Every call on the list keeps the invariant.
LEMMA ListInvKept ==
    ASSUME ListInv, ListNext
    PROVE  ListInv'
<1>0. /\ Tidy(obj) /\ abs.at = Contents(obj) /\ abs.stale = FALSE
      /\ abs = [at |-> abs.at, stale |-> FALSE]
  BY Zenon DEF ListInv, ListNext
<1>1. ASSUME NEW item \in ListItems, NEW idx \in Nat, ListInsert(item, idx) PROVE ListInv'
  <2>1. item \in Nat \ {0}
    BY ListAssumption
  <2>2. obj' = farraylist_insert(obj, item, idx) /\ abs' = [at |-> Put(abs.at, idx, item), stale |-> FALSE]
    BY <1>0, <1>1, Zenon DEF ListInsert, Becomes
  <2>3. /\ Tidy(obj') /\ Used(obj') = Used(obj) \cup {idx} /\ obj'.array[idx] = item
        /\ \A i \in Used(obj) \ {idx} : obj'.array[i] = obj.array[i]
    BY <1>0, <2>1, <2>2, InsertKeeps
  <2>4. Put(abs.at, idx, item) = Contents(obj')
    <3>1. Put(Contents(obj), idx, item) = Contents(obj')
      BY <2>3, PutRecorded
    <3>2. QED BY <1>0, <3>1
  <2>5. QED BY <2>2, <2>3, <2>4 DEF ListInv
<1>2. ASSUME NEW item \in ListItems, ListAdd(item) PROVE ListInv'
  <2>1. item \in Nat \ {0}
    BY ListAssumption
  <2> DEFINE idx == FreeSlot(obj)
  <2>2. obj' = farraylist_add(obj, item) /\ abs' = [at |-> Put(abs.at, idx, item), stale |-> FALSE]
    BY <1>0, <1>2, Zenon DEF ListAdd, Becomes
  <2>3. /\ Tidy(obj') /\ Used(obj') = Used(obj) \cup {idx} /\ obj'.array[idx] = item
        /\ \A i \in Used(obj) \ {idx} : obj'.array[i] = obj.array[i]
    BY <1>0, <2>1, <2>2, AddKeeps
  <2> HIDE DEF idx
  <2>4. Put(abs.at, idx, item) = Contents(obj')
    <3>1. Put(Contents(obj), idx, item) = Contents(obj')
      BY <2>3, PutRecorded
    <3>2. QED BY <1>0, <3>1
  <2>5. QED BY <2>2, <2>3, <2>4 DEF ListInv
<1>3. ASSUME NEW idx \in Nat, ListRemove(idx) PROVE ListInv'
  <2> DEFINE at == [i \in DOMAIN abs.at \ {idx} |-> abs.at[i]]
  <2>1. obj' = farraylist_remove(obj, idx) /\ abs' = [at |-> at, stale |-> FALSE]
    BY <1>0, <1>3, Zenon DEF ListRemove, Becomes
  <2>2. at = [i \in Used(obj) \ {idx} |-> obj.array[i]]
    BY <1>0 DEF Contents
  <2> HIDE DEF at
  <2>3. CASE ~probecheck(obj, idx)
    <3>1. obj' = obj
      BY <2>1, <2>3 DEF farraylist_remove
    <3>2. idx \notin Used(obj)
      <4>1. obj.arraySize \in Nat /\ Used(obj) \subseteq 0 .. obj.arraySize - 1
        BY <1>0, TidyParts, Zenon
      <4>2. QED BY <2>3, <4>1 DEF probecheck
    <3>3. Used(obj) \ {idx} = Used(obj)
      BY <3>2
    <3>4. QED BY <1>0, <2>1, <2>2, <3>1, <3>3 DEF ListInv, Contents
  <2>4. CASE probecheck(obj, idx)
    <3>1. obj.array[idx] # 0
      BY <1>3, <2>4 DEF ListRemove, farraylist_get, NULL
    <3>2. idx \in Used(obj)
      <4>1. obj.arraySize \in Nat
            /\ \A i : i \in Used(obj) <=> i \in 0 .. obj.arraySize - 1 /\ obj.array[i] # 0
        BY <1>0, TidyParts, Zenon
      <4>2. idx \in 0 .. obj.arraySize - 1
        BY <2>4, <4>1 DEF probecheck
      <4>3. QED BY <3>1, <4>1, <4>2
    <3>3. /\ Tidy(obj') /\ Used(obj') = Used(obj) \ {idx}
          /\ \A i \in Used(obj) \ {idx} : obj'.array[i] = obj.array[i]
      BY <1>0, <2>1, <3>2, RemoveKeeps
    <3>4. at = Contents(obj')
      BY <2>2, <3>3 DEF Contents
    <3>5. QED BY <2>1, <3>3, <3>4 DEF ListInv
  <2>5. QED BY <2>3, <2>4
<1>4. ASSUME ListClear PROVE ListInv'
  <2>1. obj' = farraylist_clear(obj)
        /\ abs' = [at |-> [i \in {} |-> NULL], stale |-> Used(farraylist_clear(obj)) # {}]
    BY <1>0, <1>4 DEF ListClear, Becomes
  <2>2. CASE Used(farraylist_clear(obj)) = {}
    <3>1. Tidy(obj') /\ Used(obj') = {}
      BY <1>0, <2>1, <2>2, ClearKeeps
    <3>2. [i \in {} |-> NULL] = Contents(obj')
      BY <3>1 DEF Contents
    <3>3. abs' = [at |-> [i \in {} |-> NULL], stale |-> FALSE]
      BY <2>1, <2>2, Zenon
    <3>4. QED BY <3>1, <3>2, <3>3 DEF ListInv
  <2>3. CASE Used(farraylist_clear(obj)) # {}
    BY <2>1, <2>3, Zenon DEF ListInv
  <2>4. QED BY <2>2, <2>3
<1>5. \A idx \in 0 .. ListMaxIndex : idx \in Nat
  BY ListAssumption
<1>6. QED BY <1>1, <1>2, <1>3, <1>4, <1>5 DEF ListNext

\* farraylist_new gives an empty list.
LEMMA ListStart == ListInit => ListInv
<1> SUFFICES ASSUME ListInit PROVE ListInv
  OBVIOUS
<1>1. /\ obj = [array |-> [i \in 0 .. ListCapacity - 1 |-> 0], arraySize |-> ListCapacity,
                count |-> 0, aborted |-> FALSE]
      /\ abs = [at |-> [i \in {} |-> NULL], stale |-> FALSE]
  BY DEF ListInit, farraylist_new, NULL
<1>2. Used(obj) = {}
  BY <1>1 DEF Used, NULL
<1>3. Cardinality(Used(obj)) = 0
  BY <1>2, FS_EmptySet
<1>4. Tidy(obj)
  BY <1>1, <1>3, ListAssumption DEF Tidy
<1>5. [i \in {} |-> NULL] = Contents(obj)
  BY <1>2 DEF Contents
<1>6. QED BY <1>1, <1>4, <1>5 DEF ListInv

\* ListKeepsItems holds in the states of the invariant.
LEMMA ListExact == ListInv => ListKeepsItems
<1> SUFFICES ASSUME ListInv, ~abs.stale
             PROVE  /\ ~obj.aborted
                    /\ DOMAIN abs.at = Used(obj)
                    /\ \A i \in DOMAIN abs.at : farraylist_get(obj, i) = abs.at[i]
                    /\ obj.count = Cardinality(DOMAIN abs.at)
                    /\ DOMAIN obj.array = 0 .. obj.arraySize - 1
  BY DEF ListKeepsItems
<1>1. Tidy(obj) /\ abs.at = Contents(obj)
  BY Zenon DEF ListInv
<1>2. /\ obj.arraySize \in Nat /\ DOMAIN obj.array = 0 .. obj.arraySize - 1
      /\ obj.aborted = FALSE /\ obj.count = Cardinality(Used(obj))
      /\ Used(obj) \subseteq 0 .. obj.arraySize - 1
  BY <1>1, TidyParts, Zenon
<1>3. \A i \in 0 .. obj.arraySize - 1 : probecheck(obj, i)
  BY <1>2 DEF probecheck
<1>4. QED BY <1>1, <1>2, <1>3 DEF farraylist_get, Contents

\* For every initial capacity and every sequence of farraylist calls: an item
\* stays at the index it was put at until it is removed, through every growth of
\* the array, and count is the number of slots in use.
THEOREM ListKeepsPlaces == ListSpec => []ListKeepsItems
<1>1. ListInv /\ [ListNext]_subjectVars => ListInv'
  <2>1. ASSUME ListInv, UNCHANGED subjectVars PROVE ListInv'
    BY <2>1, Zenon DEF subjectVars, ListInv, Tidy, Used, Contents
  <2>2. QED BY <2>1, ListInvKept
<1>2. QED BY <1>1, ListStart, ListExact, PTL DEF ListSpec

(***************************************************************************)
(* The linked queue.                                                       *)
(***************************************************************************)
QueueSpec == QueueInit /\ [][QueueNext]_subjectVars

LinkedQueues ==
    [head : 0 .. QueueNodes, tail : 0 .. QueueNodes, count : Nat,
     next : [1 .. QueueNodes -> 0 .. QueueNodes], item : [1 .. QueueNodes -> Nat]]

\* w are the nodes of q, from the first to the last.
Chained(me, q, w) ==
    /\ me \in LinkedQueues /\ q \in Seq(Nat)
    /\ Len(q) <= QueueNodes /\ me.count = Len(q)
    /\ w \in [1 .. Len(q) -> 1 .. QueueNodes]
    /\ \A j, k \in 1 .. Len(q) : w[j] = w[k] => j = k
    /\ me.head = IF Len(q) = 0 THEN 0 ELSE w[1]
    /\ me.tail = IF Len(q) = 0 THEN 0 ELSE w[Len(q)]
    /\ \A k \in 1 .. Len(q) : me.next[w[k]] = IF k = Len(q) THEN 0 ELSE w[k + 1]
    /\ \A k \in 1 .. Len(q) : me.item[w[k]] = q[k]

\* The invariant of the queue: its nodes form a chain from head to tail.
QueueInv == \E w : Chained(obj, abs, w)

\* Walk goes through the nodes and stays at NULL.
LEMMA WalkIs ==
    ASSUME NEW me, NEW q, NEW w, Chained(me, q, w)
    PROVE  \A k \in 1 .. QueueNodes + 1 : Walk(me)[k] = IF k <= Len(q) THEN w[k] ELSE 0
<1> DEFINE c == Len(q)
           D == 1 .. QueueNodes + 1
           F(f) == f = [k \in D |-> IF k = 1 THEN me.head
                                    ELSE IF f[k - 1] = 0 THEN 0 ELSE me.next[f[k - 1]]]
           g == [k \in D |-> IF k <= c THEN w[k] ELSE 0]
           f == CHOOSE h : F(h)
<1>0. /\ QueueNodes \in Nat \ {0} /\ c \in Nat /\ c <= QueueNodes /\ w \in [1 .. c -> 1 .. QueueNodes]
      /\ me.head = IF c = 0 THEN 0 ELSE w[1]
      /\ \A k \in 1 .. c : me.next[w[k]] = IF k = c THEN 0 ELSE w[k + 1]
  BY QueueAssumption DEF Chained
<1>1. \A k \in D : g[k] = IF k <= c THEN w[k] ELSE 0
  OBVIOUS
<1>a. \A k \in D : k \in Nat /\ k >= 1 /\ (k <= c => k \in 1 .. c)
  BY <1>0
<1>b. \A k \in D : k # 1 => k - 1 \in D /\ (k - 1 <= c => k - 1 \in 1 .. c)
  BY <1>0
<1>c. \A k \in D : k # 1 => (k - 1) + 1 = k /\ (k - 1 = c <=> ~(k <= c) /\ k - 1 <= c)
  BY <1>0
<1>d. 1 \in D /\ (1 <= c <=> c # 0) /\ \A k \in 1 .. c : w[k] # 0
  BY <1>0
<1> HIDE DEF D, g, c
\* The node after the one at place k - 1.
<1>2. ASSUME NEW k \in D, k # 1
      PROVE  g[k] = IF g[k - 1] = 0 THEN 0 ELSE me.next[g[k - 1]]
  <2>1. k - 1 \in D /\ (k - 1 <= c => k - 1 \in 1 .. c) /\ (k - 1) + 1 = k
        /\ (k - 1 = c <=> ~(k <= c) /\ k - 1 <= c)
    BY <1>2, <1>b, <1>c
  <2>2. CASE k - 1 <= c
    <3>1. g[k - 1] = w[k - 1] /\ w[k - 1] # 0
      BY <1>1, <1>d, <2>1, <2>2
    <3>2. me.next[w[k - 1]] = IF k - 1 = c THEN 0 ELSE w[k]
      <4>1. me.next[w[k - 1]] = IF k - 1 = c THEN 0 ELSE w[(k - 1) + 1]
        BY <1>0, <2>1, <2>2
      <4>2. QED BY <2>1, <4>1
    <3>3. g[k] = IF k - 1 = c THEN 0 ELSE w[k]
      BY <1>1, <2>1, <2>2
    <3>4. QED BY <3>1, <3>2, <3>3
  <2>3. CASE ~(k - 1 <= c)
    <3>1. g[k - 1] = 0
      BY <1>1, <2>1, <2>3
    <3>2. ~(k <= c)
      BY <1>0, <1>a, <2>3
    <3>3. g[k] = 0
      BY <1>1, <3>2
    <3>4. QED BY <3>1, <3>3
  <2>4. QED BY <2>2, <2>3
<1>3. g[1] = me.head
  BY <1>0, <1>1, <1>d
<1>4. F(g)
  <2>1. g = [k \in D |-> g[k]]
    BY DEF g
  <2>2. \A k \in D : g[k] = IF k = 1 THEN me.head
                            ELSE IF g[k - 1] = 0 THEN 0 ELSE me.next[g[k - 1]]
    BY <1>2, <1>3
  <2>3. QED BY <2>1, <2>2, Zenon
<1>5. F(f)
  BY <1>4, Zenon
<1>6. Walk(me) = f
  BY DEF Walk, NULL, D
<1> HIDE DEF f
<1>7. \A k \in D : f[k] = IF k = 1 THEN me.head
                          ELSE IF f[k - 1] = 0 THEN 0 ELSE me.next[f[k - 1]]
  BY <1>5, Zenon
<1> DEFINE T == {k \in D : f[k] # g[k]}
<1>8. ASSUME T # {} PROVE FALSE
  <2>1. T \subseteq Nat
    BY <1>a
  <2>2. PICK k \in T : \A y \in T : k <= y
    BY <1>8, <2>1, LeastOne, Zenon
  <2>3. k \in D /\ f[k] # g[k]
    BY <2>2
  <2>4. k # 1
    BY <1>3, <1>7, <1>d, <2>3
  <2>5. k - 1 \in D /\ ~(k <= k - 1)
    <3>1. k \in Nat
      BY <1>a, <2>3
    <3>2. ~(k <= k - 1)
      BY <3>1
    <3>3. QED BY <1>b, <2>3, <2>4, <3>2
  <2>6. f[k - 1] = g[k - 1]
    BY <2>2, <2>5
  <2>7. QED BY <1>2, <1>7, <2>3, <2>4, <2>6
<1>9. \A k \in D : f[k] = g[k]
  BY <1>8
<1>10. QED BY <1>1, <1>6, <1>9 DEF D, c

\* What Chained says, with a name for every part.
LEMMA ChainParts ==
    ASSUME NEW me, NEW q, NEW w, Chained(me, q, w)
    PROVE  /\ me \in LinkedQueues /\ q \in Seq(Nat) /\ Len(q) \in Nat /\ QueueNodes \in Nat \ {0}
           /\ me.head \in 0 .. QueueNodes /\ me.tail \in 0 .. QueueNodes /\ me.count \in Nat
           /\ me.next \in [1 .. QueueNodes -> 0 .. QueueNodes]
           /\ me.item \in [1 .. QueueNodes -> Nat]
           /\ Len(q) <= QueueNodes /\ me.count = Len(q)
           /\ w \in [1 .. Len(q) -> 1 .. QueueNodes]
           /\ \A k \in 1 .. Len(q) : w[k] \in 1 .. QueueNodes /\ w[k] # 0
           /\ \A j, k \in 1 .. Len(q) : w[j] = w[k] => j = k
           /\ me.head = IF Len(q) = 0 THEN 0 ELSE w[1]
           /\ me.tail = IF Len(q) = 0 THEN 0 ELSE w[Len(q)]
           /\ \A k \in 1 .. Len(q) : me.next[w[k]] = IF k = Len(q) THEN 0 ELSE w[k + 1]
           /\ \A k \in 1 .. Len(q) : me.item[w[k]] = q[k]
<1>1. QueueNodes \in Nat \ {0}
  BY QueueAssumption
<1>2. /\ me \in LinkedQueues /\ q \in Seq(Nat)
      /\ w \in [1 .. Len(q) -> 1 .. QueueNodes]
  BY DEF Chained
<1>3. /\ me.head \in 0 .. QueueNodes /\ me.tail \in 0 .. QueueNodes /\ me.count \in Nat
      /\ me.next \in [1 .. QueueNodes -> 0 .. QueueNodes]
      /\ me.item \in [1 .. QueueNodes -> Nat]
  BY <1>2 DEF LinkedQueues
<1>4. Len(q) \in Nat /\ \A k \in 1 .. Len(q) : w[k] \in 1 .. QueueNodes /\ w[k] # 0
  BY <1>1, <1>2
<1>5. QED BY <1>1, <1>2, <1>3, <1>4, Zenon DEF Chained

\* The nodes Walk meets are those of the queue; one more is free.
LEMMA LiveIs ==
    ASSUME NEW me, NEW q, NEW w, Chained(me, q, w)
    PROVE  Live(me) = {w[k] : k \in 1 .. Len(q)}
<1>0. /\ QueueNodes \in Nat /\ Len(q) \in Nat /\ Len(q) <= QueueNodes
      /\ \A k \in 1 .. Len(q) : w[k] # 0
  BY ChainParts
<1>1. \A k \in 1 .. QueueNodes : Walk(me)[k] = IF k <= Len(q) THEN w[k] ELSE 0
  <2>1. \A k \in 1 .. QueueNodes : k \in 1 .. QueueNodes + 1
    BY <1>0
  <2>2. QED BY <2>1, WalkIs
<1>2. \A k \in 1 .. QueueNodes : k <= Len(q) => k \in 1 .. Len(q)
  BY <1>0
<1>3. \A k \in 1 .. Len(q) : k \in 1 .. QueueNodes /\ k <= Len(q)
  BY <1>0
<1>4. \A n : n \in Live(me) <=> \E k \in 1 .. Len(q) : n = w[k]
  <2>1. \A n : n \in Live(me) <=> n # 0 /\ \E k \in 1 .. QueueNodes : n = Walk(me)[k]
    BY DEF Live, NULL
  <2>2. QED BY <1>0, <1>1, <1>2, <1>3, <2>1
<1>5. QED BY <1>4

\* A queue of fewer items than nodes leaves malloc a node.
LEMMA NodeLeft ==
    ASSUME NEW me, NEW q, NEW w, Chained(me, q, w), Len(q) < QueueNodes
    PROVE  \E n \in 1 .. QueueNodes : n \notin Live(me)
<1> DEFINE S == 1 .. Len(q)
           N == 1 .. QueueNodes
<1>0. QueueNodes \in Nat /\ Len(q) \in Nat /\ w \in [S -> N]
  BY ChainParts
<1>1. SUFFICES ASSUME \A n \in N : n \in Live(me) PROVE FALSE
  OBVIOUS
<1>2. \A n \in N : \E k \in S : w[k] = n
  BY <1>1, LiveIs
<1>3. w \in Surjection(S, N)
  BY <1>0, <1>2 DEF Surjection
<1>4. IsFiniteSet(S) /\ Cardinality(S) = Len(q) /\ Cardinality(N) = QueueNodes
  <2>0. 1 \in Int /\ Len(q) \in Int /\ QueueNodes \in Int
    BY <1>0
  <2>1. IsFiniteSet(S) /\ Cardinality(S) = IF 1 > Len(q) THEN 0 ELSE Len(q) - 1 + 1
    BY <2>0, FS_Interval, Zenon
  <2>2. Cardinality(N) = IF 1 > QueueNodes THEN 0 ELSE QueueNodes - 1 + 1
    BY <2>0, FS_Interval, Zenon
  <2> HIDE DEF S, N
  <2>3. QED BY <1>0, <2>1, <2>2
<1> HIDE DEF S, N
<1>5. Cardinality(N) <= Cardinality(S)
  BY <1>3, <1>4, FS_Surjection
<1>6. QED BY <1>0, <1>4, <1>5

\* llqueue_offer links the free node it takes behind the last one.
LEMMA OfferLinks ==
    ASSUME NEW me, NEW q, NEW w, Chained(me, q, w), Len(q) < QueueNodes, NEW i \in Nat
    PROVE  \E v : Chained(llqueue_offer(me, i), Append(q, i), v)
<1> DEFINE c == Len(q)
           n == CHOOSE m \in 1 .. QueueNodes : m \notin Live(me)
           v == [j \in 1 .. c + 1 |-> IF j <= c THEN w[j] ELSE n]
           r == llqueue_offer(me, i)
           p == Append(q, i)
<1>0. /\ me \in LinkedQueues /\ q \in Seq(Nat) /\ c \in Nat /\ QueueNodes \in Nat \ {0}
      /\ me.head \in 0 .. QueueNodes /\ me.tail \in 0 .. QueueNodes
      /\ me.next \in [1 .. QueueNodes -> 0 .. QueueNodes]
      /\ me.item \in [1 .. QueueNodes -> Nat]
      /\ c < QueueNodes /\ me.count = c
      /\ \A k \in 1 .. c : w[k] \in 1 .. QueueNodes /\ w[k] # 0
      /\ \A j, k \in 1 .. c : w[j] = w[k] => j = k
      /\ me.head = IF c = 0 THEN 0 ELSE w[1]
      /\ me.tail = IF c = 0 THEN 0 ELSE w[c]
      /\ \A k \in 1 .. c : me.next[w[k]] = IF k = c THEN 0 ELSE w[k + 1]
      /\ \A k \in 1 .. c : me.item[w[k]] = q[k]
  <2>1. /\ me \in LinkedQueues /\ q \in Seq(Nat) /\ c \in Nat /\ QueueNodes \in Nat \ {0}
        /\ me.head \in 0 .. QueueNodes /\ me.tail \in 0 .. QueueNodes
        /\ me.next \in [1 .. QueueNodes -> 0 .. QueueNodes]
        /\ me.item \in [1 .. QueueNodes -> Nat]
        /\ c < QueueNodes /\ me.count = c
    BY ChainParts
  <2>2. /\ \A k \in 1 .. c : w[k] \in 1 .. QueueNodes /\ w[k] # 0
        /\ \A j, k \in 1 .. c : w[j] = w[k] => j = k
        /\ me.head = IF c = 0 THEN 0 ELSE w[1]
        /\ me.tail = IF c = 0 THEN 0 ELSE w[c]
    BY ChainParts
  <2>3. /\ \A k \in 1 .. c : me.next[w[k]] = IF k = c THEN 0 ELSE w[k + 1]
        /\ \A k \in 1 .. c : me.item[w[k]] = q[k]
    BY ChainParts
  <2> HIDE DEF c
  <2>4. QED BY <2>1, <2>2, <2>3, Zenon
<1>1. n \in 1 .. QueueNodes /\ n \notin Live(me)
  BY NodeLeft, Zenon
<1>2. \A k \in 1 .. c : w[k] # n
  BY <1>1, LiveIs
<1>3. /\ p \in Seq(Nat) /\ Len(p) = c + 1
      /\ \A k \in 1 .. c + 1 : p[k] = IF k <= c THEN q[k] ELSE i
  BY <1>0
<1>4. r = [head |-> IF me.head = 0 THEN n ELSE me.head, tail |-> n, count |-> me.count + 1,
           next |-> [m \in 1 .. QueueNodes |->
                        IF m = n THEN 0 ELSE IF m = me.tail THEN n ELSE me.next[m]],
           item |-> [me.item EXCEPT ![n] = i]]
  <2>1. me = [head |-> me.head, tail |-> me.tail, count |-> me.count,
              next |-> me.next, item |-> me.item]
    BY <1>0 DEF LinkedQueues
  <2>2. r = [me EXCEPT !.item[n] = i,
                       !.next = [m \in 1 .. QueueNodes |->
                                    IF m = n THEN 0 ELSE IF m = me.tail THEN n ELSE @[m]],
                       !.head = IF @ = 0 THEN n ELSE @,
                       !.tail = n, !.count = @ + 1]
    BY DEF llqueue_offer, NULL
  <2> HIDE DEF n, r
  <2>3. QED BY <2>1, <2>2, Zenon
<1> HIDE DEF n, r, p, c
<1>5. /\ r.head = (IF me.head = 0 THEN n ELSE me.head) /\ r.tail = n /\ r.count = c + 1
      /\ r.next = [m \in 1 .. QueueNodes |->
                      IF m = n THEN 0 ELSE IF m = me.tail THEN n ELSE me.next[m]]
      /\ r.item = [me.item EXCEPT ![n] = i]
  BY <1>0, <1>4
<1>6. r.next \in [1 .. QueueNodes -> 0 .. QueueNodes] /\ r.item \in [1 .. QueueNodes -> Nat]
  BY <1>0, <1>1, <1>5
<1>7. r \in LinkedQueues
  <2>1. (IF me.head = 0 THEN n ELSE me.head) \in 0 .. QueueNodes /\ n \in 0 .. QueueNodes
        /\ me.count + 1 \in Nat
    BY <1>0, <1>1
  <2>2. QED BY <1>4, <1>5, <1>6, <2>1 DEF LinkedQueues
<1>8. \A j \in 1 .. c + 1 : v[j] = IF j <= c THEN w[j] ELSE n
  OBVIOUS
<1>a. /\ \A j \in 1 .. c + 1 : (j <= c <=> j \in 1 .. c) /\ (~(j <= c) <=> j = c + 1)
      /\ \A j \in 1 .. c : j + 1 \in 1 .. c + 1 /\ (j + 1 <= c <=> j # c) /\ j # c + 1
      /\ 1 \in 1 .. c + 1 /\ c + 1 \in 1 .. c + 1 /\ (1 <= c <=> c # 0) /\ (c # 0 => c \in 1 .. c)
      /\ c + 1 # 0 /\ (1 = c + 1 <=> c = 0) /\ ~(c + 1 <= c)
  BY <1>0
<1>9. v \in [1 .. c + 1 -> 1 .. QueueNodes]
  <2>1. \A j \in 1 .. c + 1 : (IF j <= c THEN w[j] ELSE n) \in 1 .. QueueNodes
    BY <1>0, <1>1, <1>a, Zenon
  <2>2. QED BY <2>1, Zenon
<1> HIDE DEF v
<1>10. \A j, k \in 1 .. c + 1 : v[j] = v[k] => j = k
  <2>1. ASSUME NEW j \in 1 .. c + 1, NEW k \in 1 .. c + 1, v[j] = v[k]
        PROVE  j = k
    <3>1. CASE j \in 1 .. c /\ k \in 1 .. c
      <4>1. w[j] = w[k]
        BY <1>8, <1>a, <2>1, <3>1, Zenon
      <4>2. QED BY <1>0, <3>1, <4>1, Zenon
    <3>2. CASE j \in 1 .. c /\ k = c + 1
      BY <1>2, <1>8, <1>a, <2>1, <3>2, Zenon
    <3>3. CASE j = c + 1 /\ k \in 1 .. c
      BY <1>2, <1>8, <1>a, <2>1, <3>3, Zenon
    <3>4. CASE j = c + 1 /\ k = c + 1
      BY <3>4
    <3>5. QED BY <1>a, <3>1, <3>2, <3>3, <3>4, Zenon
  <2>2. QED BY <2>1
<1>11. r.head = v[1] /\ r.tail = v[c + 1]
  <2>1. v[1] = (IF 1 <= c THEN w[1] ELSE n) /\ v[c + 1] = (IF c + 1 <= c THEN w[c + 1] ELSE n)
    BY <1>8, <1>a, Zenon
  <2>2. v[c + 1] = n /\ (c = 0 => v[1] = n) /\ (c # 0 => v[1] = w[1])
    BY <2>1, <1>a, Zenon
  <2>3. (c = 0 => me.head = 0) /\ (c # 0 => me.head = w[1] /\ w[1] # 0)
    <3>1. c # 0 => 1 \in 1 .. c
      BY <1>0
    <3>2. QED BY <1>0, <3>1, Zenon
  <2>4. QED BY <1>5, <2>2, <2>3, Zenon
<1>12. \A j \in 1 .. c + 1 : r.next[v[j]] = IF j = c + 1 THEN 0 ELSE v[j + 1]
  <2> SUFFICES ASSUME NEW j \in 1 .. c + 1
               PROVE  r.next[v[j]] = IF j = c + 1 THEN 0 ELSE v[j + 1]
    OBVIOUS
  <2>1. CASE j = c + 1
    <3>1. v[j] = n
      BY <1>8, <1>a, <2>1
    <3>2. QED BY <1>1, <1>5, <2>1, <3>1
  <2>2. CASE j # c + 1
    <3>1. j \in 1 .. c /\ v[j] = w[j] /\ w[j] # n /\ w[j] \in 1 .. QueueNodes
      BY <1>0, <1>2, <1>8, <1>a, <2>2
    <3>2. r.next[w[j]] = IF w[j] = me.tail THEN n ELSE me.next[w[j]]
      BY <1>5, <3>1
    <3>3. w[j] = me.tail <=> j = c
      <4>1. c # 0
        BY <1>0, <3>1
      <4>2. me.tail = w[c] /\ c \in 1 .. c
        BY <1>0, <1>a, <4>1, Zenon
      <4>3. w[j] = w[c] => j = c
        BY <1>0, <3>1, <4>2
      <4>4. QED BY <4>2, <4>3
    <3>4. v[j + 1] = IF j = c THEN n ELSE w[j + 1]
      BY <1>8, <1>a, <3>1
    <3>5. QED BY <1>0, <2>2, <3>1, <3>2, <3>3, <3>4
  <2>3. QED BY <2>1, <2>2
<1>13. \A j \in 1 .. c + 1 : r.item[v[j]] = p[j]
  <2> SUFFICES ASSUME NEW j \in 1 .. c + 1
               PROVE  r.item[v[j]] = p[j]
    OBVIOUS
  <2>1. CASE j = c + 1
    BY <1>0, <1>1, <1>3, <1>5, <1>8, <1>a, <2>1
  <2>2. CASE j # c + 1
    <3>1. j \in 1 .. c /\ j <= c /\ v[j] = w[j] /\ w[j] # n /\ w[j] \in 1 .. QueueNodes
      BY <1>0, <1>2, <1>8, <1>a, <2>2, Zenon
    <3>2. r.item[w[j]] = me.item[w[j]]
      BY <1>0, <1>5, <3>1
    <3>3. me.item[w[j]] = q[j] /\ p[j] = q[j]
      BY <1>0, <1>3, <3>1, Zenon
    <3>4. QED BY <3>1, <3>2, <3>3, Zenon
  <2>3. QED BY <2>1, <2>2
<1>14. c + 1 <= QueueNodes
  BY <1>0
<1>15. Chained(r, p, v)
  <2> DEFINE l == Len(p)
  <2>1. l = c + 1
    BY <1>3
  <2> HIDE DEF l
  <2>2. /\ r \in LinkedQueues /\ p \in Seq(Nat) /\ l <= QueueNodes /\ r.count = l
        /\ v \in [1 .. l -> 1 .. QueueNodes]
        /\ \A j, k \in 1 .. l : v[j] = v[k] => j = k
    BY <1>3, <1>5, <1>7, <1>9, <1>10, <1>14, <2>1, Zenon
  <2>3. /\ r.head = IF l = 0 THEN 0 ELSE v[1]
        /\ r.tail = IF l = 0 THEN 0 ELSE v[l]
        /\ \A k \in 1 .. l : r.next[v[k]] = IF k = l THEN 0 ELSE v[k + 1]
        /\ \A k \in 1 .. l : r.item[v[k]] = p[k]
    BY <1>11, <1>12, <1>13, <1>a, <2>1, Zenon
  <2>4. QED BY <2>2, <2>3, Zenon DEF Chained, l
<1>16. QED BY <1>15 DEF r, p

\* The node at place k goes, as the first one or from behind its predecessor.
Shorter(q, p, k) ==
    /\ p \in Seq(Nat) /\ Len(p) = Len(q) - 1
    /\ \A j \in 1 .. Len(p) : p[j] = IF j < k THEN q[j] ELSE q[j + 1]

\* llqueue_poll and the unlinking of the two removal functions keep the chain.
LEMMA CutLinks ==
    ASSUME NEW me, NEW q, NEW w, Chained(me, q, w), NEW k \in 1 .. Len(q),
           NEW p, Shorter(q, p, k)
    PROVE  \E v : Chained(IF k = 1 THEN llqueue_poll(me) ELSE Unlink(me, w[k - 1], w[k]), p, v)
<1> DEFINE c == Len(q)
           v == [j \in 1 .. c - 1 |-> IF j < k THEN w[j] ELSE w[j + 1]]
           r == IF k = 1 THEN llqueue_poll(me) ELSE Unlink(me, w[k - 1], w[k])
<1>0. /\ me \in LinkedQueues /\ q \in Seq(Nat) /\ c \in Nat /\ QueueNodes \in Nat \ {0}
      /\ me.head \in 0 .. QueueNodes /\ me.tail \in 0 .. QueueNodes
      /\ me.next \in [1 .. QueueNodes -> 0 .. QueueNodes]
      /\ me.item \in [1 .. QueueNodes -> Nat]
      /\ c <= QueueNodes /\ me.count = c
      /\ \A j \in 1 .. c : w[j] \in 1 .. QueueNodes /\ w[j] # 0
      /\ \A j, l \in 1 .. c : w[j] = w[l] => j = l
      /\ me.head = IF c = 0 THEN 0 ELSE w[1]
      /\ me.tail = IF c = 0 THEN 0 ELSE w[c]
      /\ \A j \in 1 .. c : me.next[w[j]] = IF j = c THEN 0 ELSE w[j + 1]
      /\ \A j \in 1 .. c : me.item[w[j]] = q[j]
  <2>1. /\ me \in LinkedQueues /\ q \in Seq(Nat) /\ c \in Nat /\ QueueNodes \in Nat \ {0}
        /\ me.head \in 0 .. QueueNodes /\ me.tail \in 0 .. QueueNodes
        /\ me.next \in [1 .. QueueNodes -> 0 .. QueueNodes]
        /\ me.item \in [1 .. QueueNodes -> Nat]
        /\ c <= QueueNodes /\ me.count = c
    BY ChainParts
  <2>2. /\ \A j \in 1 .. c : w[j] \in 1 .. QueueNodes /\ w[j] # 0
        /\ \A j, l \in 1 .. c : w[j] = w[l] => j = l
        /\ me.head = IF c = 0 THEN 0 ELSE w[1]
        /\ me.tail = IF c = 0 THEN 0 ELSE w[c]
    BY ChainParts
  <2>3. /\ \A j \in 1 .. c : me.next[w[j]] = IF j = c THEN 0 ELSE w[j + 1]
        /\ \A j \in 1 .. c : me.item[w[j]] = q[j]
    BY ChainParts
  <2>4. QED BY <2>1, <2>2, <2>3, Zenon
<1>1. /\ p \in Seq(Nat) /\ Len(p) = c - 1
      /\ \A j \in 1 .. c - 1 : p[j] = IF j < k THEN q[j] ELSE q[j + 1]
  BY DEF Shorter
<1>2. \A j \in 1 .. c - 1 : v[j] = IF j < k THEN w[j] ELSE w[j + 1]
  OBVIOUS
<1> HIDE DEF c, r
<1>3. /\ k \in 1 .. c /\ k \in Nat /\ c \in Nat /\ QueueNodes \in Nat /\ c # 0 /\ 1 \in 1 .. c
      /\ c \in 1 .. c /\ c - 1 \in Nat /\ c - 1 <= QueueNodes /\ (k # 1 => k - 1 \in 1 .. c /\ k - 1 # k /\ k - 1 < k)
  <2>1. k \in 1 .. c /\ c \in Nat /\ QueueNodes \in Nat /\ c <= QueueNodes
    BY <1>0 DEF c
  <2>2. QED BY <2>1
<1>a. \A j \in 1 .. c - 1 : /\ j \in 1 .. c /\ j + 1 \in 1 .. c /\ j \in Nat /\ j # j + 1
                            /\ (j # c - 1 => j + 1 \in 1 .. c - 1)
                            /\ (j = c - 1 <=> j + 1 = c) /\ j # c
  <2>1. c \in Nat
    BY <1>0
  <2>2. QED BY <2>1
<1>4. \A j \in 1 .. c - 1 : v[j] \in 1 .. QueueNodes
  BY <1>0, <1>2, <1>a, Zenon
<1>5. v \in [1 .. c - 1 -> 1 .. QueueNodes]
  BY <1>4
<1>6. \A j, l \in 1 .. c - 1 : v[j] = v[l] => j = l
  <2> SUFFICES ASSUME NEW j \in 1 .. c - 1, NEW l \in 1 .. c - 1, v[j] = v[l] PROVE j = l
    OBVIOUS
  <2> DEFINE a == IF j < k THEN j ELSE j + 1
             b == IF l < k THEN l ELSE l + 1
  <2>1. v[j] = w[a] /\ v[l] = w[b] /\ a \in 1 .. c /\ b \in 1 .. c
    BY <1>2, <1>a
  <2>2. a = b
    BY <1>0, <2>1, Zenon
  <2>3. j \in Nat /\ l \in Nat
    BY <1>a
  <2>4. QED BY <1>3, <2>2, <2>3
<1> HIDE DEF v
\* The record that results, and where its chain ends.
<1>7. CASE k = 1
  <2>1. me.head = w[1] /\ w[1] # 0 /\ me.tail = w[c]
    BY <1>0, <1>3
  <2>2. r = [head |-> me.next[w[1]], tail |-> IF w[c] = w[1] THEN 0 ELSE w[c],
             count |-> me.count - 1, next |-> me.next, item |-> me.item]
    BY <1>0, <1>7, <2>1, Zenon DEF r, llqueue_poll, LinkedQueues, NULL
  <2>3. /\ r.head = me.next[w[1]] /\ r.tail = (IF w[c] = w[1] THEN 0 ELSE w[c])
        /\ r.count = c - 1 /\ r.next = me.next /\ r.item = me.item
    BY <1>0, <2>2
  <2>4. w[c] = w[1] <=> c = 1
    BY <1>0, <1>3, Zenon
  <2>5. r.head \in 0 .. QueueNodes /\ r.tail \in 0 .. QueueNodes /\ r.count \in Nat
    <3>1. w[1] \in 1 .. QueueNodes /\ w[c] \in 1 .. QueueNodes
      BY <1>0, <1>3
    <3>2. w[c] \in 0 .. QueueNodes /\ 0 \in 0 .. QueueNodes
      BY <1>0, <3>1
    <3>3. me.next[w[1]] \in 0 .. QueueNodes
      BY <1>0, <3>1, Zenon
    <3>4. (IF w[c] = w[1] THEN 0 ELSE w[c]) \in 0 .. QueueNodes
      BY <3>2, Zenon
    <3>5. QED BY <1>3, <2>3, <3>3, <3>4, Zenon
  <2>6. r \in LinkedQueues
    <3>1. /\ me.next[w[1]] \in 0 .. QueueNodes
          /\ (IF w[c] = w[1] THEN 0 ELSE w[c]) \in 0 .. QueueNodes /\ me.count - 1 \in Nat
      BY <1>0, <2>3, <2>5
    <3>2. QED BY <1>0, <2>2, <3>1, Zenon DEF LinkedQueues
  <2>b. \A j \in 1 .. c - 1 : ~(j < k)
    BY <1>7, <1>a
  <2>c. \A j \in 1 .. c - 1 : v[j] = w[j + 1]
    BY <1>2, <2>b
  <2>d. /\ (c = 1 <=> c - 1 = 0) /\ (c # 1 => 1 \in 1 .. c - 1 /\ c - 1 \in 1 .. c - 1)
        /\ (c - 1) + 1 = c
    <3>1. c \in Nat /\ c # 0
      BY <1>0, <1>3
    <3>2. QED BY <3>1
  <2>7. r.head = IF c - 1 = 0 THEN 0 ELSE v[1]
    <3>1. me.next[w[1]] = IF 1 = c THEN 0 ELSE w[1 + 1]
      BY <1>0, <1>3, Zenon
    <3>2. QED BY <2>3, <2>c, <2>d, <3>1, Zenon
  <2>8. r.tail = IF c - 1 = 0 THEN 0 ELSE v[c - 1]
    BY <2>3, <2>4, <2>c, <2>d
  <2>9. \A j \in 1 .. c - 1 : r.next[v[j]] = IF j = c - 1 THEN 0 ELSE v[j + 1]
    <3>1. \A j \in 1 .. c - 1 :
             me.next[w[j + 1]] = IF j + 1 = c THEN 0 ELSE w[(j + 1) + 1]
      BY <1>0, <1>a, Zenon
    <3>2. QED BY <1>a, <2>3, <2>c, <3>1, Zenon
  <2>10. \A j \in 1 .. c - 1 : r.item[v[j]] = p[j]
    <3>1. \A j \in 1 .. c - 1 : me.item[w[j + 1]] = q[j + 1]
      BY <1>0, <1>a, Zenon
    <3>2. QED BY <1>1, <2>3, <2>b, <2>c, <3>1, Zenon
  <2>11. Chained(r, p, v)
    <3> DEFINE l == Len(p)
    <3>1. l = c - 1
      BY <1>1
    <3> HIDE DEF l
    <3>2. /\ r \in LinkedQueues /\ p \in Seq(Nat) /\ l <= QueueNodes /\ r.count = l
          /\ v \in [1 .. l -> 1 .. QueueNodes]
          /\ \A i, j \in 1 .. l : v[i] = v[j] => i = j
      BY <1>1, <1>3, <1>5, <1>6, <2>3, <2>6, <3>1, Zenon
    <3>3. /\ r.head = IF l = 0 THEN 0 ELSE v[1]
          /\ r.tail = IF l = 0 THEN 0 ELSE v[l]
          /\ \A j \in 1 .. l : r.next[v[j]] = IF j = l THEN 0 ELSE v[j + 1]
          /\ \A j \in 1 .. l : r.item[v[j]] = p[j]
      BY <2>7, <2>8, <2>9, <2>10, <3>1, Zenon
    <3>4. QED BY <3>2, <3>3, Zenon DEF Chained, l
  <2>12. QED BY <2>11 DEF r
<1>8. CASE k # 1
  <2>1. w[k - 1] \in 1 .. QueueNodes /\ w[k] \in 1 .. QueueNodes /\ me.tail = w[c]
    BY <1>0, <1>3, <1>8, Zenon
  <2>2. r = [head |-> me.head, tail |-> IF w[c] = w[k] THEN w[k - 1] ELSE w[c],
             count |-> me.count - 1, next |-> [me.next EXCEPT ![w[k - 1]] = me.next[w[k]]],
             item |-> me.item]
    BY <1>0, <1>8, <2>1, Zenon DEF r, Unlink, LinkedQueues
  <2>3. /\ r.head = me.head /\ r.tail = (IF w[c] = w[k] THEN w[k - 1] ELSE w[c])
        /\ r.count = c - 1 /\ r.next = [me.next EXCEPT ![w[k - 1]] = me.next[w[k]]]
        /\ r.item = me.item
    BY <1>0, <2>2
  <2>4. w[c] = w[k] <=> c = k
    BY <1>0, <1>3, Zenon
  <2>5. r \in LinkedQueues
    <3>1. /\ me.next[w[k]] \in 0 .. QueueNodes /\ me.count - 1 \in Nat
          /\ (IF w[c] = w[k] THEN w[k - 1] ELSE w[c]) \in 0 .. QueueNodes
      <4>1. me.next[w[k]] \in 0 .. QueueNodes /\ me.count - 1 \in Nat
        BY <1>0, <1>3, <2>1, Zenon
      <4>2. w[c] \in 1 .. QueueNodes
        BY <1>0, <1>3, Zenon
      <4>3. w[c] \in 0 .. QueueNodes /\ w[k - 1] \in 0 .. QueueNodes
        BY <1>3, <2>1, <4>2
      <4>4. QED BY <4>1, <4>3
    <3>2. [me.next EXCEPT ![w[k - 1]] = me.next[w[k]]] \in [1 .. QueueNodes -> 0 .. QueueNodes]
      BY <1>0, <3>1, Zenon
    <3>3. QED BY <1>0, <2>2, <3>1, <3>2, Zenon DEF LinkedQueues
  <2>b. /\ c - 1 # 0 /\ 1 \in 1 .. c - 1 /\ c - 1 \in 1 .. c - 1 /\ 1 < k /\ (c - 1) + 1 = c
        /\ (c = k => c - 1 < k) /\ (c # k => ~(c - 1 < k))
    <3>1. c \in Nat /\ k \in Nat /\ k # 1 /\ k >= 1 /\ k <= c
      BY <1>3, <1>8, <1>0
    <3>2. QED BY <3>1
  <2>6. r.head = v[1]
    BY <1>0, <1>2, <1>3, <2>3, <2>b, Zenon
  <2>7. r.tail = v[c - 1]
    BY <1>2, <2>3, <2>4, <2>b, Zenon
  <2>8. \A j \in 1 .. c - 1 : r.next[v[j]] = IF j = c - 1 THEN 0 ELSE v[j + 1]
    <3> SUFFICES ASSUME NEW j \in 1 .. c - 1
                 PROVE  r.next[v[j]] = IF j = c - 1 THEN 0 ELSE v[j + 1]
      OBVIOUS
    <3>0. j \in Nat /\ j \in 1 .. c /\ j + 1 \in 1 .. c
      BY <1>a
    <3>1. CASE j = k - 1
      <4>1. j < k /\ j + 1 = k /\ ~(k < k)
        BY <1>3, <3>0, <3>1
      <4>2. v[j] = w[k - 1]
        BY <1>2, <3>1, <4>1, Zenon
      <4>3. r.next[v[j]] = me.next[w[k]]
        <5>1. me.next \in [1 .. QueueNodes -> 0 .. QueueNodes]
          BY <1>0, Zenon
        <5>2. [me.next EXCEPT ![w[k - 1]] = me.next[w[k]]][w[k - 1]] = me.next[w[k]]
          BY <2>1, <5>1, Zenon
        <5>3. QED BY <2>3, <4>2, <5>2, Zenon
      <4>4. me.next[w[k]] = IF k = c THEN 0 ELSE w[k + 1]
        BY <1>0, <1>3, Zenon
      <4>5. j # c - 1 => v[j + 1] = w[k + 1]
        BY <1>2, <1>a, <4>1
      <4>6. j = c - 1 <=> k = c
        BY <1>a, <4>1, Zenon
      <4>7. QED BY <4>3, <4>4, <4>5, <4>6
    <3>2. CASE j < k - 1
      <4>1. j < k /\ j + 1 < k /\ j # c - 1 /\ j # c /\ j # k - 1
        BY <1>3, <3>0, <3>2
      <4>2. v[j] = w[j] /\ v[j + 1] = w[j + 1]
        BY <1>2, <1>a, <4>1, Zenon
      <4>3. w[j] # w[k - 1]
        BY <1>0, <1>3, <1>8, <3>0, <4>1, Zenon
      <4>4. r.next[w[j]] = me.next[w[j]]
        BY <1>0, <2>3, <3>0, <4>3, Zenon
      <4>5. me.next[w[j]] = w[j + 1]
        BY <1>0, <3>0, <4>1, Zenon
      <4>6. QED BY <4>1, <4>2, <4>4, <4>5, Zenon
    <3>3. CASE ~(j < k)
      <4>1. ~(j + 1 < k) /\ j + 1 # k - 1
        BY <1>3, <3>0, <3>3
      <4>2. v[j] = w[j + 1] /\ (j # c - 1 => v[j + 1] = w[(j + 1) + 1])
        BY <1>2, <1>a, <3>3, <4>1, Zenon
      <4>3. w[j + 1] # w[k - 1]
        BY <1>0, <1>3, <1>8, <3>0, <4>1, Zenon
      <4>4. r.next[w[j + 1]] = me.next[w[j + 1]]
        BY <1>0, <2>3, <3>0, <4>3, Zenon
      <4>5. me.next[w[j + 1]] = IF j + 1 = c THEN 0 ELSE w[(j + 1) + 1]
        BY <1>0, <3>0, Zenon
      <4>6. QED BY <1>a, <4>2, <4>4, <4>5
    <3>4. j = k - 1 \/ j < k - 1 \/ ~(j < k)
      BY <1>3, <3>0
    <3>5. QED BY <3>1, <3>2, <3>3, <3>4, Zenon
  <2>9. \A j \in 1 .. c - 1 : r.item[v[j]] = p[j]
    <3>1. \A j \in 1 .. c - 1 : me.item[w[j]] = q[j] /\ me.item[w[j + 1]] = q[j + 1]
      BY <1>0, <1>a, Zenon
    <3>2. QED BY <1>1, <1>2, <2>3, <3>1, Zenon
  <2>10. Chained(r, p, v)
    <3> DEFINE l == Len(p)
    <3>1. l = c - 1
      BY <1>1
    <3> HIDE DEF l
    <3>2. /\ r \in LinkedQueues /\ p \in Seq(Nat) /\ l <= QueueNodes /\ r.count = l
          /\ v \in [1 .. l -> 1 .. QueueNodes]
          /\ \A i, j \in 1 .. l : v[i] = v[j] => i = j
      BY <1>1, <1>3, <1>5, <1>6, <2>3, <2>5, <3>1, Zenon
    <3>3. /\ r.head = IF l = 0 THEN 0 ELSE v[1]
          /\ r.tail = IF l = 0 THEN 0 ELSE v[l]
          /\ \A j \in 1 .. l : r.next[v[j]] = IF j = l THEN 0 ELSE v[j + 1]
          /\ \A j \in 1 .. l : r.item[v[j]] = p[j]
      BY <2>6, <2>7, <2>8, <2>9, <2>b, <3>1, Zenon
    <3>4. QED BY <3>2, <3>3, Zenon DEF Chained, l
  <2>11. QED BY <2>10 DEF r
<1>9. QED BY <1>7, <1>8

\* The search meets the first element that matches.
LEMMA PositionIs ==
    ASSUME NEW me, NEW q, NEW w, Chained(me, q, w), NEW items
    PROVE  LET at == {k \in DOMAIN q : q[k] \in items}
           IN  Position(me, items) = IF at = {} THEN 0 ELSE CHOOSE k \in at : \A j \in at : k <= j
<1> DEFINE at == {k \in DOMAIN q : q[k] \in items}
           there == {k \in 1 .. QueueNodes : Walk(me)[k] # NULL /\ me.item[Walk(me)[k]] \in items}
<1>0. /\ q \in Seq(Nat) /\ Len(q) \in Nat /\ QueueNodes \in Nat /\ Len(q) <= QueueNodes
      /\ \A k \in 1 .. Len(q) : w[k] # 0 /\ me.item[w[k]] = q[k]
  BY ChainParts
<1>1. \A k \in 1 .. QueueNodes : Walk(me)[k] = IF k <= Len(q) THEN w[k] ELSE 0
  <2>1. \A k \in 1 .. QueueNodes : k \in 1 .. QueueNodes + 1
    BY <1>0
  <2>2. QED BY <2>1, WalkIs
<1>2. /\ DOMAIN q = 1 .. Len(q)
      /\ \A k \in 1 .. QueueNodes : k <= Len(q) => k \in 1 .. Len(q)
      /\ \A k \in 1 .. Len(q) : k \in 1 .. QueueNodes /\ k <= Len(q)
  BY <1>0
<1>3. \A k : k \in there <=> k \in at
  BY <1>0, <1>1, <1>2 DEF NULL
<1>4. there = at
  BY <1>3
<1>5. Position(me, items)
        = IF there = {} THEN 0 ELSE CHOOSE k \in there : \A j \in there : k <= j
  BY DEF Position
<1> HIDE DEF at, there
<1>6. Position(me, items) = IF at = {} THEN 0 ELSE CHOOSE k \in at : \A j \in at : k <= j
  BY <1>4, <1>5
<1>7. QED BY <1>6 DEF at

\* The first match is a match.
LEMMA FirstOf ==
    ASSUME NEW q \in Seq(Nat), NEW items, {k \in DOMAIN q : q[k] \in items} # {}
    PROVE  LET at == {k \in DOMAIN q : q[k] \in items}
           IN  (CHOOSE k \in at : \A j \in at : k <= j) \in at
<1> DEFINE at == {k \in DOMAIN q : q[k] \in items}
<1>1. at \subseteq Nat
  OBVIOUS
<1>2. \E k \in at : \A j \in at : k <= j
  BY <1>1, LeastOne, Zenon
<1> HIDE DEF at
<1>3. (CHOOSE k \in at : \A j \in at : k <= j) \in at
  BY <1>2, Zenon
<1>4. QED BY <1>3 DEF at

\* A sequence without its element k.
LEMMA TakenOut ==
    ASSUME NEW q \in Seq(Nat), NEW k \in 1 .. Len(q)
    PROVE  Shorter(q, SubSeq(q, 1, k - 1) \o SubSeq(q, k + 1, Len(q)), k)
<1> DEFINE a == SubSeq(q, 1, k - 1)
           b == SubSeq(q, k + 1, Len(q))
<1>1. Len(q) \in Nat /\ k \in Nat /\ k >= 1 /\ k <= Len(q)
  OBVIOUS
<1>2. a \in Seq(Nat) /\ Len(a) = k - 1 /\ \A j \in 1 .. k - 1 : a[j] = q[j]
  BY <1>1
<1>3. b \in Seq(Nat) /\ Len(b) = Len(q) - k /\ \A j \in 1 .. Len(q) - k : b[j] = q[k + j]
  BY <1>1
<1> HIDE DEF a, b
<1>4. a \o b \in Seq(Nat) /\ Len(a \o b) = Len(q) - 1
  <2>0. a \in Seq(Nat) /\ b \in Seq(Nat)
    BY <1>2, <1>3
  <2>1. a \o b \in Seq(Nat) /\ Len(a \o b) = Len(a) + Len(b)
    BY <2>0, Joined
  <2>2. QED BY <1>1, <1>2, <1>3, <2>1
<1>5. ASSUME NEW j \in 1 .. Len(q) - 1
      PROVE  (a \o b)[j] = IF j < k THEN q[j] ELSE q[j + 1]
  <2>1. (a \o b)[j] = IF j <= Len(a) THEN a[j] ELSE b[j - Len(a)]
    <3>1. a \in Seq(Nat) /\ b \in Seq(Nat) /\ j \in 1 .. Len(a) + Len(b)
      BY <1>1, <1>2, <1>3
    <3>2. QED BY <3>1, Joined
  <2>2. CASE j < k
    <3>1. j \in 1 .. k - 1 /\ j <= Len(a)
      BY <1>1, <1>2, <2>2
    <3>2. QED BY <1>2, <2>1, <2>2, <3>1, Zenon
  <2>3. CASE ~(j < k)
    <3>1. ~(j <= Len(a)) /\ j - Len(a) \in 1 .. Len(q) - k /\ k + (j - Len(a)) = j + 1
      BY <1>1, <1>2, <2>3
    <3>2. QED BY <1>3, <2>1, <2>3, <3>1, Zenon
  <2>4. QED BY <2>2, <2>3, Zenon
<1>6. QED BY <1>4, <1>5, Zenon DEF Shorter, a, b

\* llqueue_remove_item and llqueue_remove_item_via_cmpfunction.
LEMMA RemoveLinks ==
    ASSUME NEW me, NEW q, NEW w, Chained(me, q, w), NEW items
    PROVE  \E v : Chained(RemoveMatch(me, items), Without(q, items), v)
<1> DEFINE at == {k \in DOMAIN q : q[k] \in items}
           k == CHOOSE i \in at : \A j \in at : i <= j
<1>0. q \in Seq(Nat) /\ Len(q) \in Nat /\ QueueNodes \in Nat /\ Len(q) <= QueueNodes
  BY ChainParts
<1>1. Position(me, items) = IF at = {} THEN 0 ELSE k
  BY PositionIs
<1>2. CASE at = {}
  <2>1. RemoveMatch(me, items) = me /\ Without(q, items) = q
    BY <1>1, <1>2 DEF RemoveMatch, Without
  <2>2. QED BY <2>1
<1>3. CASE at # {}
  <2>1. k \in at
    BY <1>0, <1>3, FirstOf, Zenon
  <2>2. k \in 1 .. Len(q)
    <3>1. k \in DOMAIN q
      BY <2>1
    <3>2. QED BY <1>0, <3>1
  <2>3. Position(me, items) = k
    BY <1>1, <1>3
  <2>4. Without(q, items) = SubSeq(q, 1, k - 1) \o SubSeq(q, k + 1, Len(q))
    BY <1>3, Zenon DEF Without
  <2> HIDE DEF k, at
  <2>5. k # 0 /\ (k # 1 => k \in 1 .. QueueNodes + 1 /\ k - 1 \in 1 .. QueueNodes + 1 /\ k <= Len(q)
                           /\ k - 1 <= Len(q))
    BY <1>0, <2>2
  <2>6. k # 1 => Walk(me)[k] = w[k] /\ Walk(me)[k - 1] = w[k - 1]
    BY <2>5, WalkIs
  <2>7. RemoveMatch(me, items)
          = IF k = 1 THEN llqueue_poll(me) ELSE Unlink(me, w[k - 1], w[k])
    BY <2>3, <2>5, <2>6 DEF RemoveMatch
  <2>8. Shorter(q, Without(q, items), k)
    BY <1>0, <2>2, <2>4, TakenOut
  <2>9. \E v : Chained(IF k = 1 THEN llqueue_poll(me) ELSE Unlink(me, w[k - 1], w[k]),
                       Without(q, items), v)
    BY <2>2, <2>8, CutLinks
  <2>10. QED BY <2>7, <2>9
<1>4. QED BY <1>2, <1>3

\* llqueue_poll, of an empty queue as well.
LEMMA PollLinks ==
    ASSUME NEW me, NEW q, NEW w, Chained(me, q, w)
    PROVE  \E v : Chained(llqueue_poll(me), IF q = <<>> THEN q ELSE Tail(q), v)
<1>0. /\ q \in Seq(Nat) /\ Len(q) \in Nat /\ (q = <<>> <=> Len(q) = 0)
      /\ me.head = IF Len(q) = 0 THEN 0 ELSE w[1]
  BY ChainParts
<1>1. CASE q = <<>>
  <2>1. llqueue_poll(me) = me
    BY <1>0, <1>1 DEF llqueue_poll, NULL
  <2>2. QED BY <1>1, <2>1
<1>2. CASE q # <<>>
  <2>1. 1 \in 1 .. Len(q)
    BY <1>0, <1>2
  <2>2. Shorter(q, Tail(q), 1)
    BY <1>0, <1>2 DEF Shorter
  <2>3. \E v : Chained(IF 1 = 1 THEN llqueue_poll(me) ELSE Unlink(me, w[1 - 1], w[1]), Tail(q), v)
    BY <2>1, <2>2, CutLinks
  <2>4. QED BY <1>2, <2>3
<1>3. QED BY <1>1, <1>2

\* llqueue_new gives an empty queue.
LEMMA QueueStart == QueueInit => QueueInv
<1> SUFFICES ASSUME QueueInit PROVE QueueInv
  OBVIOUS
<1>0. QueueNodes \in Nat \ {0}
  BY QueueAssumption
<1>1. abs = <<>> /\ obj = llqueue_new
  BY DEF QueueInit
<1>2. Chained(obj, abs, <<>>)
  BY <1>0, <1>1 DEF Chained, LinkedQueues, llqueue_new, NULL
<1>3. QED BY <1>2 DEF QueueInv

\* QueueLinked holds in the states of the invariant.
LEMMA QueueExact == QueueInv => QueueLinked
<1> SUFFICES ASSUME QueueInv PROVE QueueLinked
  OBVIOUS
<1>1. PICK w : Chained(obj, abs, w)
  BY DEF QueueInv
<1>0. /\ abs \in Seq(Nat) /\ Len(abs) \in Nat /\ QueueNodes \in Nat /\ Len(abs) <= QueueNodes
      /\ obj.count = Len(abs) /\ (abs = <<>> <=> Len(abs) = 0)
      /\ \A k \in 1 .. Len(abs) : w[k] # 0 /\ obj.item[w[k]] = abs[k]
      /\ obj.tail = IF Len(abs) = 0 THEN 0 ELSE w[Len(abs)]
  <2>1. abs \in Seq(Nat)
    BY <1>1 DEF Chained
  <2>2. abs = <<>> <=> Len(abs) = 0
    BY <2>1
  <2>3. QED BY <1>1, <2>1, <2>2, ChainParts
<1>2. \A k \in 1 .. QueueNodes : Walk(obj)[k] = IF k <= Len(abs) THEN w[k] ELSE 0
  <2>1. \A k \in 1 .. QueueNodes : k \in 1 .. QueueNodes + 1
    BY <1>0
  <2>2. QED BY <1>1, <2>1, WalkIs
<1>3. /\ \A k \in 1 .. QueueNodes : k <= Len(abs) => k \in 1 .. Len(abs)
      /\ \A k \in 1 .. Len(abs) : k \in 1 .. QueueNodes /\ k <= Len(abs)
      /\ Len(abs) # 0 => Len(abs) \in 1 .. Len(abs)
      /\ DOMAIN abs = 1 .. Len(abs)
  BY <1>0
<1>4. \A k \in 1 .. QueueNodes :
         IF k <= Len(abs) THEN Walk(obj)[k] # NULL /\ obj.item[Walk(obj)[k]] = abs[k]
         ELSE Walk(obj)[k] = NULL
  BY <1>0, <1>2, <1>3 DEF NULL
<1>5. obj.tail = IF abs = <<>> THEN NULL ELSE Walk(obj)[Len(abs)]
  BY <1>0, <1>2, <1>3 DEF NULL
<1>6. ASSUME NEW i \in QueueItems
      PROVE  LET at == {k \in DOMAIN abs : abs[k] \in Alike(i)}
             IN  llqueue_get_item_via_cmpfunction(obj, i)
                    = IF at = {} THEN NULL ELSE abs[CHOOSE k \in at : \A j \in at : k <= j]
  <2> DEFINE at == {k \in DOMAIN abs : abs[k] \in Alike(i)}
             k == CHOOSE l \in at : \A j \in at : l <= j
  <2>1. Position(obj, Alike(i)) = IF at = {} THEN 0 ELSE k
    BY <1>1, PositionIs
  <2>2. CASE at = {}
    BY <2>1, <2>2 DEF llqueue_get_item_via_cmpfunction
  <2>3. CASE at # {}
    <3>1. k \in at
      BY <1>0, <2>3, FirstOf, Zenon
    <3>2. k \in 1 .. Len(abs)
      BY <1>3, <3>1
    <3> HIDE DEF at, k
    <3>3. k # 0 /\ Walk(obj)[k] = w[k] /\ obj.item[w[k]] = abs[k]
      BY <1>0, <1>2, <1>3, <3>2
    <3>4. llqueue_get_item_via_cmpfunction(obj, i) = abs[k]
      BY <2>1, <2>3, <3>3 DEF llqueue_get_item_via_cmpfunction
    <3>5. QED BY <2>3, <3>4 DEF at, k
  <2>4. QED BY <2>2, <2>3
<1>7. QED BY <1>0, <1>4, <1>5, <1>6, Zenon DEF QueueLinked

\* For every number of nodes and every sequence of calls, removals from the
\* front, the middle and the end among them: the nodes linked from head are the
\* items waiting in order, tail is the last of them, and
\* llqueue_get_item_via_cmpfunction gives the first match.
THEOREM QueueStaysLinked == QueueSpec => []QueueLinked
<1>1. QueueInit => QueueInv
  BY QueueStart
<1>2. QueueInv /\ [QueueNext]_subjectVars => QueueInv'
  <2> SUFFICES ASSUME QueueInv, [QueueNext]_subjectVars PROVE QueueInv'
    OBVIOUS
  <2>0. PICK w : Chained(obj, abs, w)
    BY DEF QueueInv
  <2>1. CASE UNCHANGED subjectVars
    BY <2>1, Zenon DEF QueueInv, Chained, LinkedQueues, subjectVars
  <2>2. CASE QueuePoll
    <3>1. obj' = llqueue_poll(obj) /\ abs' = IF abs = <<>> THEN abs ELSE Tail(abs)
      BY <2>2 DEF QueuePoll, Becomes
    <3>2. \E v : Chained(obj', abs', v)
      BY <2>0, <3>1, PollLinks
    <3>3. QED BY <3>2, Zenon DEF QueueInv, Chained
  <2>3. ASSUME NEW i \in QueueItems, QueueOffer(i) PROVE QueueInv'
    <3>1. obj' = llqueue_offer(obj, i) /\ abs' = Append(abs, i) /\ obj.count < QueueNodes
      BY <2>3 DEF QueueOffer, Becomes
    <3>2. Len(abs) < QueueNodes /\ i \in Nat
      BY <2>0, <3>1, ChainParts, QueueAssumption
    <3>3. \E v : Chained(obj', abs', v)
      BY <2>0, <3>1, <3>2, OfferLinks
    <3>4. QED BY <3>3, Zenon DEF QueueInv, Chained
  <2>4. ASSUME NEW i \in QueueItems, NEW items,
               Becomes(RemoveMatch(obj, items), Without(abs, items))
        PROVE  QueueInv'
    <3>1. obj' = RemoveMatch(obj, items) /\ abs' = Without(abs, items)
      BY <2>4 DEF Becomes
    <3>2. \E v : Chained(obj', abs', v)
      BY <2>0, <3>1, RemoveLinks
    <3>3. QED BY <3>2, Zenon DEF QueueInv, Chained
  <2>5. ASSUME NEW i \in QueueItems, QueueRemove(i) PROVE QueueInv'
    BY <2>4, <2>5 DEF QueueRemove, llqueue_remove_item
  <2>6. ASSUME NEW i \in QueueItems, QueueRemoveLike(i) PROVE QueueInv'
    BY <2>4, <2>6 DEF QueueRemoveLike, llqueue_remove_item_via_cmpfunction
  <2>7. QED BY <2>1, <2>2, <2>3, <2>5, <2>6 DEF QueueNext
<1>3. QueueInv => QueueLinked
  BY QueueExact
<1>4. QED BY <1>1, <1>2, <1>3, PTL DEF QueueSpec
=============================================================================
