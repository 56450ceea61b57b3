--------------------------- MODULE HashSetProofs ----------------------------
(***************************************************************************)
(* The hash set, for tables of any size.                                   *)
(*                                                                         *)
(* A search goes on in steps of prime_2, which is odd and so has an        *)
(* inverse modulo a power of two (HasInverse): it meets every slot of the  *)
(* table (Meets). An item therefore can be found as long as it lies on its *)
(* own way and no unused slot comes before it (Reaches). Adding an item,   *)
(* removing one and moving all of them to a larger table keep that, and    *)
(* keep the count of the used slots below the load at which the table      *)
(* grows (SetInv).                                                         *)
(*                                                                         *)
(* A call that returns is one of the abstract set. A search ends if there  *)
(* is an unused slot; there is one as long as at most one slot is marked   *)
(* removed, which is so where only one item is ever removed (OneGap).      *)
(*                                                                         *)
(* The iterator of the set passes over no slot in use (ItrInv).            *)
(***************************************************************************)
EXTENDS HashSet, HashSetIterator, FiniteSetTheorems, TLAPS

-----------------------------------------------------------------------------
(* Powers of two *)

\* A non-empty set of natural numbers has a least element.
LEMMA LeastNumber ==
    ASSUME NEW T, T \subseteq Nat, T # {}
    PROVE  \E x \in T : \A y \in T : x <= y
<1> DEFINE R == OpToRel(<, Nat)
<1>1. IsWellFoundedOn(R, Nat)
  BY NatLessThanWellFounded, Zenon
<1>2. \A x, y \in Nat : x < y => <<x, y>> \in R
  BY DEF OpToRel
<1> HIDE DEF R
<1>3. PICK x \in T : \A y \in T : ~(<<y, x>> \in R)
  BY <1>1, WFMin, Zenon
<1>4. \A y \in T : ~(y < x)
  BY <1>2, <1>3, Zenon
<1>5. \A y \in T : x <= y
  BY <1>4
<1> QED
  BY <1>5

\* A power of two is the number of subsets of a set.
LEMMA Power ==
    ASSUME NEW n \in Nat
    PROVE  2^n = Cardinality(SUBSET (1 .. n)) /\ IsFiniteSet(SUBSET (1 .. n)) /\ 2^n \in Nat \ {0}
<1> DEFINE S == 1 .. n
<1>1. IsFiniteSet(S) /\ Cardinality(S) = n
  BY FS_Interval
<1> HIDE DEF S
<1>2. IsFiniteSet(SUBSET S) /\ Cardinality(SUBSET S) = 2^n
  BY <1>1, FS_SUBSET
<1>3. SUBSET S # {}
  OBVIOUS
<1>4. 2^n \in Nat \ {0}
  BY <1>2, <1>3, FS_EmptySet, FS_CardinalityType
<1> QED
  BY <1>2, <1>4 DEF S

\* hashset_create and maybe_rehash: one more bit doubles the capacity.
LEMMA Doubled ==
    ASSUME NEW n \in Nat
    PROVE  2^(n + 1) = 2 * 2^n
<1> DEFINE A == SUBSET (1 .. n)
           e == n + 1
           B == {T \cup {e} : T \in A}
           f == [T \in A |-> T \cup {e}]
<1>1. IsFiniteSet(A) /\ Cardinality(A) = 2^n /\ 2^n \in Nat
  BY Power
<1>2. 2^(n + 1) = Cardinality(SUBSET (1 .. n + 1))
  BY Power
<1>3. SUBSET (1 .. n + 1) = A \cup B
  <2>1. ASSUME NEW T \in SUBSET (1 .. n + 1) PROVE T \in A \cup B
    <3>1. CASE e \in T
      <4>1. T \ {e} \in A /\ T = (T \ {e}) \cup {e}
        BY <3>1
      <4> QED
        BY <4>1, Zenon
    <3>2. CASE e \notin T
      BY <3>2
    <3> QED
      BY <3>1, <3>2
  <2>2. ASSUME NEW T \in A \cup B PROVE T \in SUBSET (1 .. n + 1)
    <3>1. CASE T \in A
      BY <3>1
    <3>2. CASE T \in B
      <4>1. PICK U \in A : T = U \cup {e}
        BY <3>2
      <4>2. U \subseteq 1 .. n + 1 /\ e \in 1 .. n + 1
        OBVIOUS
      <4> QED
        BY <4>1, <4>2
    <3> QED
      BY <2>2, <3>1, <3>2
  <2> QED
    BY <2>1, <2>2, Zenon
<1>4. A \cap B = {}
  <2>1. \A T \in A : e \notin T
    OBVIOUS
  <2>2. \A T \in B : e \in T
    OBVIOUS
  <2> QED
    BY <2>1, <2>2
<1>5. f \in Bijection(A, B)
  <2>1. f \in [A -> B]
    OBVIOUS
  <2>2. ASSUME NEW T \in A, NEW U \in A, f[T] = f[U] PROVE T = U
    <3>1. T \cup {e} = U \cup {e} /\ e \notin T /\ e \notin U
      BY <2>2
    <3> QED
      BY <3>1
  <2>3. \A U \in B : \E T \in A : f[T] = U
    OBVIOUS
  <2> HIDE DEF f, A, B
  <2>4. f \in Injection(A, B)
    BY <2>1, <2>2 DEF Injection, IsInjective
  <2>5. f \in Surjection(A, B)
    BY <2>1, <2>3 DEF Surjection
  <2> QED
    BY <2>4, <2>5 DEF Bijection
<1> HIDE DEF A, B, f, e
<1>6. IsFiniteSet(B) /\ Cardinality(B) = 2^n
  BY <1>1, <1>5, FS_Bijection DEF ExistsBijection
<1>7. Cardinality(A \cup B) = 2^n + 2^n - Cardinality({})
  BY <1>1, <1>4, <1>6, FS_Union
<1> QED
  BY <1>1, <1>2, <1>3, <1>7, FS_EmptySet

\* a multiple of M
LEMMA AtLeastOnce ==
    ASSUME NEW M \in Nat \ {0}, NEW w \in Int
    PROVE  (w >= 1 => w * M >= M) /\ (w <= -1 => w * M <= -M)
  OBVIOUS

\* What \div and % give.
LEMMA Division ==
    ASSUME NEW M \in Nat \ {0}, NEW x \in Int
    PROVE  x \div M \in Int /\ x % M \in 0 .. M - 1 /\ x = (x \div M) * M + (x % M)
  OBVIOUS

\* The remainder is the only number below M that differs by a multiple of M.
LEMMA Remainder ==
    ASSUME NEW M \in Nat \ {0}, NEW x \in Int, NEW i \in 0 .. M - 1, NEW z \in Int, x = i + z * M
    PROVE  x % M = i
<1> DEFINE q == x \div M
           r == x % M
<1>1. q \in Int /\ r \in 0 .. M - 1 /\ x = q * M + r
  BY Division
<1> HIDE DEF q, r
<1>2. (z - q) * M = r - i
  BY <1>1
<1>3. z - q \in Int /\ (z - q >= 1 \/ z - q <= -1 \/ z - q = 0)
  BY <1>1
<1>4. z - q = 0
  BY <1>1, <1>2, <1>3, AtLeastOnce
<1>5. r = i
  BY <1>1, <1>2, <1>4
<1> QED
  BY <1>5 DEF r

\* prime_2 is odd: it has an inverse modulo each power of two.
Invertible(m) == \E u, q \in Nat : 5009 * u = q * 2^m + 1

\* prime_2 is odd: it has an inverse modulo the capacity.
LEMMA HasInverse ==
    ASSUME NEW n \in Nat
    PROVE  Invertible(n)
<1> DEFINE T == {m \in Nat : ~Invertible(m)}
<1>1. ASSUME T # {} PROVE FALSE
  <2>1. PICK m \in T : \A y \in T : m <= y
    BY <1>1, LeastNumber, Zenon
  <2>2. m \in Nat /\ ~Invertible(m)
    BY <2>1
  <2>3. m # 0
    <3>1. 2^0 = 1
      BY SMT
    <3>2. 5009 * 1 = 5008 * 2^0 + 1
      BY <3>1
    <3>3. Invertible(0)
      BY <3>2 DEF Invertible
    <3> QED
      BY <2>2, <3>3
  <2>4. m - 1 \in Nat /\ m - 1 \notin T
    <3>1. m - 1 \in Nat /\ ~(m <= m - 1)
      BY <2>2, <2>3
    <3> HIDE DEF T
    <3> QED
      BY <2>1, <3>1
  <2> DEFINE h == 2^(m - 1)
  <2>5. PICK u, q \in Nat : 5009 * u = q * h + 1
    BY <2>4 DEF Invertible
  <2>6. h \in Nat /\ 2^m = 2 * h
    <3>1. (m - 1) + 1 = m
      BY <2>2
    <3> DEFINE l == m - 1
    <3>2. l \in Nat
      BY <2>4
    <3> HIDE DEF l
    <3>3. 2^(l + 1) = 2 * 2^l /\ 2^l \in Nat
      BY <3>2, Doubled, Power, Zenon
    <3> QED
      BY <3>1, <3>3 DEF l
  <2> HIDE DEF h
  <2>7. PICK r \in Nat : q = 2 * r \/ q = 2 * r + 1
    <3>1. q \div 2 \in Nat /\ (q = 2 * (q \div 2) \/ q = 2 * (q \div 2) + 1)
      BY SMT
    <3> QED
      BY <3>1
  <2>8. CASE q = 2 * r
    <3>1. 5009 * u = r * 2^m + 1
      BY <2>5, <2>6, <2>8
    <3> QED
      BY <2>2, <3>1 DEF Invertible
  <2>9. CASE q = 2 * r + 1
    <3>1. 5009 * (u + h) = (r + 2505) * 2^m + 1
      BY <2>5, <2>6, <2>9
    <3> DEFINE a == u + h
               b == r + 2505
    <3>2. a \in Nat /\ b \in Nat /\ 5009 * a = b * 2^m + 1
      BY <2>6, <3>1
    <3> HIDE DEF a, b
    <3> QED
      BY <2>2, <3>2 DEF Invertible
  <2> QED
    BY <2>7, <2>8, <2>9
<1>2. n \notin T
  BY <1>1
<1> QED
  BY <1>2

\* A search in a table of 2^n slots meets slot i.
Met(n, v, i) == \E k \in 0 .. 2^n - 1 : (73 * v + 5009 * k) % 2^n = i

\* The search for v meets slot i.
LEMMA Meets ==
    ASSUME NEW n \in Nat, NEW v \in Nat, NEW i \in 0 .. 2^n - 1
    PROVE  Met(n, v, i)
<1> DEFINE M == 2^n
<1>1. M \in Nat \ {0}
  BY Power
<1>2. PICK u, q \in Nat : 5009 * u = q * M + 1
  <2>1. Invertible(n)
    BY HasInverse
  <2> QED
    BY <2>1, Zenon DEF Invertible
<1> HIDE DEF M
<1> DEFINE d == i + 73 * (v * (M - 1))
           t == (u * d) \div M
           k == (u * d) % M
<1>3. i \in 0 .. M - 1
  BY DEF M
<1>4. d \in Nat /\ d = i + 73 * (v * M) - 73 * v
  <2>1. M - 1 \in Nat
    BY <1>1
  <2>2. v * (M - 1) \in Nat
    BY <2>1
  <2>3. v * (M - 1) = v * M - v /\ v * M \in Nat
    BY <1>1
  <2> QED
    BY <1>3, <2>2, <2>3
<1> HIDE DEF d
<1>5. u * d \in Int
  BY <1>4
<1>6. t \in Int /\ k \in 0 .. M - 1 /\ u * d = t * M + k
  <2> DEFINE x == u * d
  <2> HIDE DEF x
  <2>1. x \div M \in Int /\ x % M \in 0 .. M - 1 /\ x = (x \div M) * M + (x % M)
    BY <1>1, <1>5, Division, Zenon DEF x
  <2> QED
    BY <2>1 DEF x
<1> HIDE DEF t, k
<1>7. 5009 * k = d + (q * d - 5009 * t) * M
  <2>1. 5009 * (u * d) = (5009 * u) * d
    BY <1>4
  <2>2. (5009 * u) * d = (q * M) * d + d
    BY <1>1, <1>2, <1>4
  <2>3. 5009 * (t * M + k) = (5009 * t) * M + 5009 * k
    BY <1>1, <1>6
  <2>4. (q * M) * d = (q * d) * M
    BY <1>1, <1>4
  <2>5. (q * d) * M - (5009 * t) * M = (q * d - 5009 * t) * M
    BY <1>1, <1>4, <1>6
  <2>6. q * d \in Int /\ (q * d) * M \in Int /\ (5009 * t) * M \in Int
    BY <1>1, <1>4, <1>6
  <2> QED
    BY <1>1, <1>4, <1>6, <2>1, <2>2, <2>3, <2>4, <2>5, <2>6
<1> DEFINE y == q * d - 5009 * t
           z == 73 * v + y
           x == 73 * v + 5009 * k
<1>8. y \in Int /\ z \in Int /\ x \in Int
  BY <1>4, <1>6
<1> HIDE DEF y
<1>9. x = i + z * M
  <2>1. z * M = 73 * (v * M) + y * M
    BY <1>1, <1>8
  <2>2. 5009 * k = d + y * M
    BY <1>7 DEF y
  <2>3. v * M \in Int /\ y * M \in Int
    BY <1>1, <1>8
  <2> DEFINE a == v * M
             b == y * M
             c == z * M
  <2>4. c = 73 * a + b /\ 5009 * k = d + b /\ a \in Int /\ b \in Int /\ d = i + 73 * a - 73 * v
    BY <1>4, <2>1, <2>2, <2>3
  <2> HIDE DEF a, b, c
  <2>5. x = i + c
    BY <1>3, <1>4, <1>6, <2>4
  <2> QED
    BY <2>5 DEF c
<1> HIDE DEF x, z
<1>10. x % M = i
  BY <1>1, <1>3, <1>8, <1>9, Remainder
<1> QED
  BY <1>6, <1>10 DEF M, x, Met

-----------------------------------------------------------------------------
(* The table *)

Slots(s) == 0 .. Capacity(s) - 1

Used(s) == {i \in Slots(s) : s.items[i] \notin Free}

ItemsOf(s) == {s.items[i] : i \in Used(s)}

IsSet(s) ==
    /\ s = [nbits |-> s.nbits, items |-> s.items, nitems |-> s.nitems]
    /\ s.nbits \in Nat /\ s.nbits >= 3
    /\ s.items \in [Slots(s) -> Nat]

\* A search for v meets no unused slot in its first k steps.
Way(s, v, k) == \A j \in 0 .. k - 1 : s.items[Slot(s, v, j)] # 0

\* An item lies on its own way.
Reaches(s) ==
    \A i \in Used(s) : \E k \in Slots(s) : Slot(s, s.items[i], k) = i /\ Way(s, s.items[i], k)

Good(s) == IsSet(s) /\ Reaches(s) /\ s.nitems = Cardinality(Used(s))

NoGap(s) == \A i \in Slots(s) : s.items[i] # Deleted

Distinct(s) == \A i, j \in Used(s) : s.items[i] = s.items[j] => i = j

\* The steps of a search stay in the table and meet all of it.
LEMMA TableSize ==
    ASSUME NEW s, IsSet(s)
    PROVE  /\ Capacity(s) \in Nat /\ Capacity(s) >= 8
           /\ \A v, k \in Nat : Slot(s, v, k) \in Slots(s)
           /\ \A v \in Nat : \A i \in Slots(s) : \E k \in Slots(s) : Slot(s, v, k) = i
           /\ IsFiniteSet(Slots(s)) /\ Cardinality(Slots(s)) = Capacity(s)
<1> DEFINE n == s.nbits
           M == 2^n
<1>1. n \in Nat /\ n >= 3 /\ Capacity(s) = M
  BY DEF IsSet, Capacity
<1> HIDE DEF n
<1>2. M \in Nat \ {0} /\ M = Cardinality(SUBSET (1 .. n)) /\ IsFiniteSet(SUBSET (1 .. n))
  BY <1>1, Power
<1>3. M >= 8
  <2>1. 2^3 = 8
    BY SMT
  <2>2. 2^3 = Cardinality(SUBSET (1 .. 3))
    BY Power, Zenon
  <2>3. SUBSET (1 .. 3) \in SUBSET (SUBSET (1 .. n))
    BY <1>1
  <2>4. Cardinality(SUBSET (1 .. 3)) <= Cardinality(SUBSET (1 .. n))
    BY <1>2, <2>3, FS_Subset
  <2> QED
    BY <1>2, <2>1, <2>2, <2>4
<1>4. ASSUME NEW v \in Nat, NEW k \in Nat PROVE Slot(s, v, k) \in Slots(s)
  <2> DEFINE x == prime_1 * v + prime_2 * k
  <2>1. x \in Int
    BY DEF prime_1, prime_2
  <2> HIDE DEF x
  <2>2. x % M \in 0 .. M - 1
    BY <1>2, <2>1, Division, Zenon
  <2> QED
    BY <1>1, <2>2 DEF Slot, Slots, x
<1>5. ASSUME NEW v \in Nat, NEW i \in Slots(s) PROVE \E k \in Slots(s) : Slot(s, v, k) = i
  <2>1. i \in 0 .. 2^n - 1
    BY <1>1 DEF Slots
  <2>2. PICK k \in 0 .. 2^n - 1 : (73 * v + 5009 * k) % 2^n = i
    <3>1. Met(n, v, i)
      BY <1>1, <2>1, Meets
    <3> QED
      BY <3>1, Zenon DEF Met
  <2>3. Slot(s, v, k) = (73 * v + 5009 * k) % 2^n
    BY <1>1 DEF Slot, prime_1, prime_2
  <2> QED
    BY <1>1, <2>2, <2>3 DEF Slots
<1> HIDE DEF M
<1>6. IsFiniteSet(0 .. M - 1) /\ Cardinality(0 .. M - 1) = M
  <2>1. 0 \in Int /\ M - 1 \in Int /\ ~(0 > M - 1) /\ (M - 1) - 0 + 1 = M
    BY <1>2
  <2> QED
    BY <2>1, FS_Interval
<1> QED
  BY <1>1, <1>2, <1>3, <1>4, <1>5, <1>6, Zenon DEF Slots

\* Where a search that ends does so
LEMMA Lands ==
    ASSUME NEW s, IsSet(s), NEW v \in Nat, NEW stops, ~Endless(s, v, stops)
    PROVE  \E k \in Slots(s) : /\ Landing(s, v, stops) = Slot(s, v, k)
                              /\ Slot(s, v, k) \in Slots(s)
                              /\ s.items[Slot(s, v, k)] \in stops
                              /\ \A j \in 0 .. k - 1 : s.items[Slot(s, v, j)] \notin stops
<1> DEFINE S == Stops(s, v, stops)
           k == Min(S)
<1>1. S # {} /\ S \subseteq Nat /\ S \subseteq Slots(s) /\ \A j \in S : s.items[Slot(s, v, j)] \in stops
  <2>1. Slots(s) \subseteq Nat
    BY TableSize DEF Slots
  <2>2. S # {}
    BY DEF Endless
  <2>3. S = {j \in Slots(s) : s.items[Slot(s, v, j)] \in stops}
    BY DEF Stops, Slots
  <2> HIDE DEF S
  <2> QED
    BY <2>1, <2>2, <2>3
<1>2. \A j \in Slots(s) : s.items[Slot(s, v, j)] \in stops => j \in S
  BY DEF Stops, Slots
<1>3. Landing(s, v, stops) = Slot(s, v, k)
  BY DEF Landing
<1>4. k = CHOOSE x \in S : \A y \in S : x =< y
  BY DEF Min
<1> HIDE DEF S, k
<1>5. \E x \in S : \A y \in S : x <= y
  BY <1>1, LeastNumber, Zenon
<1>6. k \in S /\ \A y \in S : k <= y
  BY <1>4, <1>5
<1>7. k \in Nat /\ k \in Slots(s)
  BY <1>1, <1>6
<1>8. ASSUME NEW j \in 0 .. k - 1 PROVE s.items[Slot(s, v, j)] \notin stops
  <2>1. j \in Slots(s) /\ ~(k <= j)
    BY <1>7, <1>8, TableSize DEF Slots
  <2> QED
    BY <1>2, <1>6, <2>1
<1> QED
  BY <1>1, <1>3, <1>6, <1>7, <1>8, TableSize, Zenon

\* A search ends if there is something to find.
LEMMA Ends ==
    ASSUME NEW s, IsSet(s), NEW v \in Nat, NEW stops, NEW i \in Slots(s), s.items[i] \in stops
    PROVE  ~Endless(s, v, stops)
<1>1. PICK k \in Slots(s) : Slot(s, v, k) = i
  BY TableSize
<1>2. k \in Stops(s, v, stops)
  BY <1>1 DEF Stops, Slots
<1> QED
  BY <1>2 DEF Endless

\* What is in the table is found.
LEMMA Found ==
    ASSUME NEW s, Good(s), NEW v \in ItemsOf(s)
    PROVE  v \in Nat \ Free /\ ~Endless(s, v, {0, v}) /\ s.items[Landing(s, v, {0, v})] = v
<1>1. PICK i \in Used(s) : s.items[i] = v
  BY DEF ItemsOf
<1>2. i \in Slots(s) /\ v \notin Free /\ v \in Nat /\ IsSet(s)
  BY <1>1 DEF Used, Good, IsSet
<1>3. ~Endless(s, v, {0, v})
  BY <1>1, <1>2, Ends
<1>4. PICK k \in Slots(s) : Slot(s, v, k) = i /\ Way(s, v, k)
  BY <1>1 DEF Good, Reaches
<1>5. PICK l \in Slots(s) : /\ Landing(s, v, {0, v}) = Slot(s, v, l)
                            /\ s.items[Slot(s, v, l)] \in {0, v}
                            /\ \A j \in 0 .. l - 1 : s.items[Slot(s, v, j)] \notin {0, v}
  BY <1>2, <1>3, Lands
<1>6. k \in Int /\ l \in Int /\ 0 <= k /\ 0 <= l
  BY <1>2, TableSize DEF Slots
<1>7. ~(k < l)
  <2>1. k < l => k \in 0 .. l - 1
    BY <1>6
  <2> QED
    BY <1>1, <1>4, <1>5, <2>1
<1>8. CASE l < k
  <2>1. l \in 0 .. k - 1
    BY <1>6, <1>8
  <2> QED
    BY <1>2, <1>3, <1>4, <1>5, <2>1 DEF Way
<1>9. CASE l = k
  BY <1>1, <1>2, <1>3, <1>4, <1>5, <1>9
<1> QED
  BY <1>6, <1>7, <1>8, <1>9

\* What is found is in the table.
LEMMA IsThere ==
    ASSUME NEW s, IsSet(s), NEW v \in Nat \ Free, NEW stops, ~Endless(s, v, stops),
           s.items[Landing(s, v, stops)] = v
    PROVE  v \in ItemsOf(s)
<1>1. Landing(s, v, stops) \in Slots(s)
  BY Lands
<1> QED
  BY <1>1 DEF ItemsOf, Used

\* There is room for an item.
LEMMA HasFree ==
    ASSUME NEW s, Good(s), s.nitems < Capacity(s)
    PROVE  \E i \in Slots(s) : s.items[i] \in Free
<1> SUFFICES ASSUME \A i \in Slots(s) : s.items[i] \notin Free PROVE FALSE
  OBVIOUS
<1>1. Used(s) = Slots(s)
  BY DEF Used
<1>2. Cardinality(Slots(s)) = Capacity(s) /\ Capacity(s) \in Nat
  BY TableSize DEF Good
<1> QED
  BY <1>1, <1>2 DEF Good

Put(s, i, v) == [nbits |-> s.nbits, items |-> [s.items EXCEPT ![i] = v], nitems |-> s.nitems + 1]

\* An item put at the end of its way
LEMMA PutGood ==
    ASSUME NEW s, Good(s), NEW v \in Nat \ Free, NEW k \in Slots(s), NEW i \in Slots(s),
           i = Slot(s, v, k), s.items[i] \in Free,
           \A j \in 0 .. k - 1 : s.items[Slot(s, v, j)] \notin Free
    PROVE  LET t == Put(s, i, v)
           IN  /\ Good(t) /\ t.nbits = s.nbits /\ t.nitems = s.nitems + 1
               /\ Slots(t) = Slots(s) /\ Used(t) = Used(s) \cup {i} /\ i \notin Used(s)
               /\ ItemsOf(t) = ItemsOf(s) \cup {v}
               /\ t.items[i] = v /\ \A j \in Slots(s) : j # i => t.items[j] = s.items[j]
               /\ \A w, j : Slot(t, w, j) = Slot(s, w, j)
<1> DEFINE t == Put(s, i, v)
<1>1. t.nbits = s.nbits /\ t.items = [s.items EXCEPT ![i] = v] /\ t.nitems = s.nitems + 1
  BY DEF Put
<1>2. t = [nbits |-> t.nbits, items |-> t.items, nitems |-> t.nitems]
  BY DEF Put
<1> HIDE DEF t
<1>3. IsSet(s) /\ s.nbits \in Nat /\ s.nbits >= 3 /\ s.items \in [Slots(s) -> Nat]
  BY DEF Good, IsSet
<1>4. Capacity(t) = Capacity(s) /\ Slots(t) = Slots(s) /\ \A w, j : Slot(t, w, j) = Slot(s, w, j)
  BY <1>1 DEF Capacity, Slots, Slot
<1>5. t.items[i] = v /\ \A j \in Slots(s) : j # i => t.items[j] = s.items[j]
  BY <1>1, <1>3
<1>6. IsSet(t)
  BY <1>1, <1>2, <1>3, <1>4 DEF IsSet
<1>7. Used(t) = Used(s) \cup {i} /\ i \notin Used(s)
  BY <1>4, <1>5 DEF Used
<1>8. IsFiniteSet(Used(s)) /\ Cardinality(Used(s)) \in Nat
  <2>1. Used(s) \in SUBSET Slots(s) /\ IsFiniteSet(Slots(s))
    BY <1>3, TableSize DEF Used
  <2> QED
    BY <2>1, FS_Subset, FS_CardinalityType
<1>9. t.nitems = Cardinality(Used(t))
  <2>1. Cardinality(Used(s) \cup {i}) = Cardinality(Used(s)) + 1
    BY <1>7, <1>8, FS_AddElement, Zenon
  <2> QED
    BY <1>1, <1>7, <2>1 DEF Good
<1>10. \A j \in Slots(s) : s.items[j] # 0 => t.items[j] # 0
  <2>1. v # 0
    BY DEF Free
  <2> QED
    BY <1>5, <2>1
<1>11. ASSUME NEW w \in Nat, NEW l \in Slots(s), Way(s, w, l) PROVE Way(t, w, l)
  <2> SUFFICES ASSUME NEW j \in 0 .. l - 1 PROVE t.items[Slot(s, w, j)] # 0
    BY <1>4 DEF Way
  <2>1. j \in Nat
    BY <1>3, TableSize DEF Slots
  <2>2. Slot(s, w, j) \in Slots(s)
    BY <1>3, <2>1, TableSize
  <2> QED
    BY <1>10, <1>11, <2>2 DEF Way
<1>12. Way(s, v, k)
  BY DEF Way, Free
<1>13. Reaches(t)
  <2> SUFFICES ASSUME NEW h \in Used(t)
               PROVE  \E l \in Slots(t) : Slot(t, t.items[h], l) = h /\ Way(t, t.items[h], l)
    BY DEF Reaches
  <2>1. CASE h = i
    BY <1>4, <1>5, <1>11, <1>12, <2>1
  <2>2. CASE h # i
    <3>1. h \in Used(s) /\ h \in Slots(s) /\ t.items[h] = s.items[h] /\ s.items[h] \in Nat
      BY <1>3, <1>5, <1>7, <2>2 DEF Used
    <3>2. PICK l \in Slots(s) : Slot(s, s.items[h], l) = h /\ Way(s, s.items[h], l)
      BY <3>1 DEF Good, Reaches
    <3> QED
      BY <1>4, <1>11, <3>1, <3>2
  <2> QED
    BY <2>1, <2>2
<1>14. ItemsOf(t) = ItemsOf(s) \cup {v}
  <2>1. \A j \in Used(s) : j # i /\ j \in Slots(s)
    BY <1>7 DEF Used
  <2>2. \A j \in Used(s) : t.items[j] = s.items[j]
    BY <1>5, <2>1
  <2> QED
    BY <1>5, <1>7, <2>2 DEF ItemsOf
<1>15. Good(t)
  BY <1>6, <1>9, <1>13 DEF Good
<1> QED
  BY <1>1, <1>4, <1>5, <1>7, <1>14, <1>15 DEF t

\* hashset_add_member does nothing, or puts the item at the end of its way.
LEMMA AddCases ==
    ASSUME NEW s, Good(s), s.nitems < Capacity(s), NEW v \in Nat
    PROVE  \/ v \in Free /\ AddMember(s, v) = s /\ AddResult(s, v) = -1
           \/ v \notin Free /\ v \in ItemsOf(s) /\ AddMember(s, v) = s /\ AddResult(s, v) = 0
           \/ /\ v \notin Free /\ AddResult(s, v) = 1
              /\ \E k \in Slots(s) : /\ AddMember(s, v) = Put(s, Slot(s, v, k), v)
                                     /\ Slot(s, v, k) \in Slots(s)
                                     /\ s.items[Slot(s, v, k)] \in Free
                                     /\ \A j \in 0 .. k - 1 : s.items[Slot(s, v, j)] \notin Free \cup {v}
<1>1. CASE v \in Free
  BY <1>1 DEF AddMember, AddResult
<1>2. CASE v \notin Free
  <2> DEFINE stops == Free \cup {v}
             i == Landing(s, v, stops)
  <2>1. IsSet(s) /\ ~Endless(s, v, stops)
    <3>1. PICK j \in Slots(s) : s.items[j] \in Free
      BY HasFree
    <3>2. s.items[j] \in stops /\ IsSet(s)
      BY <3>1 DEF Good
    <3> HIDE DEF stops
    <3> QED
      BY <3>2, Ends
  <2>2. PICK k \in Slots(s) : /\ i = Slot(s, v, k) /\ Slot(s, v, k) \in Slots(s)
                              /\ s.items[Slot(s, v, k)] \in stops
                              /\ \A j \in 0 .. k - 1 : s.items[Slot(s, v, j)] \notin stops
    <3> HIDE DEF stops
    <3> QED
      BY <2>1, Lands
  <2>3. AddMember(s, v) = (IF s.items[i] = v THEN s ELSE [s EXCEPT !.items[i] = v, !.nitems = @ + 1])
    BY <1>2 DEF AddMember
  <2>4. AddResult(s, v) = IF s.items[i] = v THEN 0 ELSE 1
    BY <1>2 DEF AddResult
  <2> HIDE DEF i
  <2>5. CASE s.items[i] = v
    <3>1. v \in ItemsOf(s)
      BY <1>2, <2>2, <2>5 DEF ItemsOf, Used
    <3> QED
      BY <1>2, <2>3, <2>4, <2>5, <3>1
  <2>6. CASE s.items[i] # v
    <3>1. s.items[i] \in Free
      BY <2>2, <2>6
    <3>2. AddMember(s, v) = Put(s, i, v)
      BY <2>1, <2>3, <2>6, Zenon DEF Put, IsSet
    <3> QED
      BY <1>2, <2>2, <2>4, <2>6, <3>1, <3>2
  <2> QED
    BY <2>5, <2>6
<1> QED
  BY <1>1, <1>2

\* nitems counts the items, some of them perhaps twice.
LEMMA Counts ==
    ASSUME NEW s, Good(s)
    PROVE  /\ IsFiniteSet(ItemsOf(s)) /\ Cardinality(ItemsOf(s)) \in Nat /\ s.nitems \in Nat
           /\ Cardinality(ItemsOf(s)) <= s.nitems
           /\ Distinct(s) => Cardinality(ItemsOf(s)) = s.nitems
<1> DEFINE U == Used(s)
           I == ItemsOf(s)
           f == [i \in U |-> s.items[i]]
<1>1. IsFiniteSet(U) /\ Cardinality(U) \in Nat /\ s.nitems = Cardinality(U)
  <2>1. Used(s) \in SUBSET Slots(s) /\ IsFiniteSet(Slots(s))
    BY TableSize DEF Used, Good
  <2> QED
    BY <2>1, FS_Subset, FS_CardinalityType DEF Good
<1>2. f \in [U -> I] /\ \A y \in I : \E x \in U : f[x] = y
  BY DEF ItemsOf
<1>3. Distinct(s) => \A x, y \in U : f[x] = f[y] => x = y
  BY DEF Distinct
<1> HIDE DEF U, I, f
<1>4. f \in Surjection(U, I)
  BY <1>2 DEF Surjection
<1>5. Distinct(s) => f \in Injection(U, I)
  BY <1>2, <1>3 DEF Injection, IsInjective
<1>6. /\ IsFiniteSet(I) /\ Cardinality(I) <= Cardinality(U)
      /\ Cardinality(I) = Cardinality(U) <=> f \in Injection(U, I)
  BY <1>1, <1>4, FS_Surjection
<1>7. Cardinality(I) \in Nat
  BY <1>6, FS_CardinalityType
<1> QED
  BY <1>1, <1>5, <1>6, <1>7 DEF I

\* If no item has been removed, the end of an item's way is the item.
LEMMA NewItem ==
    ASSUME NEW s, Good(s), NoGap(s), NEW v \in Nat \ Free, NEW k \in Slots(s), Slot(s, v, k) \in Slots(s),
           s.items[Slot(s, v, k)] \in Free,
           \A j \in 0 .. k - 1 : s.items[Slot(s, v, j)] \notin Free \cup {v}
    PROVE  v \notin ItemsOf(s)
<1> SUFFICES ASSUME v \in ItemsOf(s) PROVE FALSE
  OBVIOUS
<1>1. PICK h \in Used(s) : s.items[h] = v
  BY DEF ItemsOf
<1>2. PICK l \in Slots(s) : Slot(s, v, l) = h /\ Way(s, v, l)
  BY <1>1 DEF Good, Reaches
<1>3. k \in Int /\ l \in Int /\ 0 <= k /\ 0 <= l
  BY TableSize DEF Slots, Good
<1>4. s.items[Slot(s, v, k)] = 0
  BY DEF NoGap, Free, Deleted
<1>5. ~(l < k)
  <2>1. l < k => l \in 0 .. k - 1
    BY <1>3
  <2> QED
    BY <1>1, <1>2, <2>1
<1>6. l # k
  BY <1>1, <1>2
<1>7. k \in 0 .. l - 1
  BY <1>3, <1>5, <1>6
<1> QED
  BY <1>2, <1>4, <1>7 DEF Way

\* hashset_add_member
LEMMA AddGood ==
    ASSUME NEW s, Good(s), s.nitems < Capacity(s), NEW v \in Nat
    PROVE  LET t == AddMember(s, v)
           IN  /\ Good(t) /\ t.nbits = s.nbits /\ Slots(t) = Slots(s)
               /\ ItemsOf(t) = ItemsOf(s) \cup ({v} \ Free)
               /\ t.nitems = s.nitems \/ t.nitems = s.nitems + 1
               /\ \A i \in Slots(s) : t.items[i] = s.items[i] \/ t.items[i] = v
               /\ NoGap(s) => NoGap(t)
               /\ NoGap(s) /\ Distinct(s) => Distinct(t) /\ (AddResult(s, v) = 1 => v \notin ItemsOf(s))
<1> DEFINE t == AddMember(s, v)
<1>1. CASE t = s /\ (v \in Free \/ v \in ItemsOf(s)) /\ AddResult(s, v) # 1
  <2>1. ItemsOf(s) = ItemsOf(s) \cup ({v} \ Free)
    BY <1>1
  <2> HIDE DEF t
  <2> QED
    BY <1>1, <2>1 DEF t
<1>2. CASE /\ v \notin Free /\ AddResult(s, v) = 1
           /\ \E k \in Slots(s) : /\ t = Put(s, Slot(s, v, k), v)
                                  /\ Slot(s, v, k) \in Slots(s)
                                  /\ s.items[Slot(s, v, k)] \in Free
                                  /\ \A j \in 0 .. k - 1 : s.items[Slot(s, v, j)] \notin Free \cup {v}
  <2> HIDE DEF t
  <2>1. PICK k \in Slots(s) : /\ t = Put(s, Slot(s, v, k), v)
                              /\ Slot(s, v, k) \in Slots(s)
                              /\ s.items[Slot(s, v, k)] \in Free
                              /\ \A j \in 0 .. k - 1 : s.items[Slot(s, v, j)] \notin Free \cup {v}
    BY <1>2
  <2> DEFINE i == Slot(s, v, k)
  <2>2. /\ t = Put(s, i, v) /\ i \in Slots(s) /\ s.items[i] \in Free /\ v \in Nat \ Free
        /\ \A j \in 0 .. k - 1 : s.items[Slot(s, v, j)] \notin Free
    BY <1>2, <2>1
  <2>3. /\ Good(t) /\ t.nbits = s.nbits /\ t.nitems = s.nitems + 1
        /\ Slots(t) = Slots(s) /\ Used(t) = Used(s) \cup {i} /\ i \notin Used(s)
        /\ ItemsOf(t) = ItemsOf(s) \cup {v}
        /\ t.items[i] = v /\ \A j \in Slots(s) : j # i => t.items[j] = s.items[j]
    BY <2>2, PutGood
  <2>4. NoGap(s) => v \notin ItemsOf(s)
    BY <2>1, <2>2, NewItem
  <2> HIDE DEF i
  <2>5. NoGap(s) => NoGap(t)
    <3>1. v # Deleted
      BY <2>2 DEF Free, Deleted
    <3> QED
      BY <2>3, <3>1 DEF NoGap
  <2>6. \A j \in Used(s) : t.items[j] = s.items[j]
    BY <2>3 DEF Used
  <2>7. NoGap(s) /\ Distinct(s) => Distinct(t)
    <3> SUFFICES ASSUME Distinct(s), v \notin ItemsOf(s), NEW x \in Used(t), NEW y \in Used(t),
                        t.items[x] = t.items[y]
                 PROVE  x = y
      BY <2>4 DEF Distinct
    <3>1. \A j \in Used(s) : t.items[j] # v
      BY <2>6 DEF ItemsOf
    <3> QED
      BY <2>3, <2>6, <3>1 DEF Distinct
  <2>8. ItemsOf(s) \cup {v} = ItemsOf(s) \cup ({v} \ Free)
    BY <2>2
  <2>9. \A j \in Slots(s) : t.items[j] = s.items[j] \/ t.items[j] = v
    BY <2>3
  <2> QED
    BY <2>3, <2>4, <2>5, <2>7, <2>8, <2>9 DEF t
<1>3. -1 # 1 /\ 0 # 1
  OBVIOUS
<1> HIDE DEF t
<1> QED
  BY <1>1, <1>2, <1>3, AddCases, Zenon DEF t

-----------------------------------------------------------------------------
(* maybe_rehash *)

Emptied(s) == [nbits  |-> s.nbits + 1,
               items  |-> [i \in 0 .. 2 * Capacity(s) - 1 |-> 0],
               nitems |-> 0]

\* g[n] is the new table when the first n slots of s have been moved to it.
Moving(s, g, m) ==
    g = [ii \in 0 .. m |-> IF ii = 0 THEN Emptied(s) ELSE AddMember(g[ii - 1], s.items[ii - 1])]

\* maybe_rehash: the tables it passes through, one for each slot moved
LEMMA MovesUpTo ==
    ASSUME NEW s, NEW m \in Nat
    PROVE  \E g : Moving(s, g, m)
<1> DEFINE T == {k \in Nat : ~\E g : Moving(s, g, k)}
<1>1. ASSUME T # {} PROVE FALSE
  <2>1. PICK k \in T : \A y \in T : k <= y
    BY <1>1, LeastNumber, Zenon
  <2>2. k \in Nat /\ ~\E g : Moving(s, g, k)
    BY <2>1
  <2>3. CASE k = 0
    <3> DEFINE g == [ii \in 0 .. 0 |-> Emptied(s)]
    <3>1. g = [ii \in 0 .. 0 |-> IF ii = 0 THEN Emptied(s) ELSE AddMember(g[ii - 1], s.items[ii - 1])]
      BY SMT
    <3> HIDE DEF g
    <3>2. Moving(s, g, k)
      BY <2>3, <3>1 DEF Moving
    <3> QED
      BY <2>2, <3>2
  <2>4. CASE k # 0
    <3>1. k - 1 \in Nat /\ k - 1 \notin T
      <4>1. k - 1 \in Nat /\ ~(k <= k - 1)
        BY <2>2, <2>4
      <4> HIDE DEF T
      <4> QED
        BY <2>1, <4>1
    <3>2. PICK h : Moving(s, h, k - 1)
      BY <3>1
    <3> DEFINE g == [ii \in 0 .. k |-> IF ii = k THEN AddMember(h[k - 1], s.items[k - 1]) ELSE h[ii]]
    <3>3. \A ii \in 0 .. k - 1 : h[ii] = IF ii = 0 THEN Emptied(s) ELSE AddMember(h[ii - 1], s.items[ii - 1])
      BY <3>2 DEF Moving
    <3>4. ASSUME NEW ii \in 0 .. k
          PROVE  g[ii] = IF ii = 0 THEN Emptied(s) ELSE AddMember(g[ii - 1], s.items[ii - 1])
      <4>1. CASE ii = k
        <5>1. g[ii] = AddMember(h[k - 1], s.items[k - 1])
          BY <4>1
        <5>2. k - 1 \in 0 .. k /\ k - 1 # k
          BY <2>2, <2>4
        <5>3. g[k - 1] = h[k - 1]
          BY <5>2
        <5> QED
          BY <2>4, <4>1, <5>1, <5>3
      <4>2. CASE ii # k
        <5>1. ii \in 0 .. k - 1 /\ g[ii] = h[ii]
          BY <2>2, <4>2
        <5>2. ii # 0 => ii - 1 \in 0 .. k /\ ii - 1 # k
          BY <2>2, <5>1
        <5>3. ii # 0 => g[ii - 1] = h[ii - 1]
          BY <5>2
        <5> HIDE DEF g
        <5> QED
          BY <3>3, <5>1, <5>3
      <4> QED
        BY <4>1, <4>2
    <3>5. DOMAIN g = 0 .. k /\ g = [ii \in 0 .. k |-> g[ii]]
      OBVIOUS
    <3> HIDE DEF g
    <3>6. Moving(s, g, k)
      BY <3>4, <3>5, Zenon DEF Moving
    <3> QED
      BY <2>2, <3>6
  <2> QED
    BY <2>3, <2>4
<1>2. m \notin T
  BY <1>1
<1> QED
  BY <1>2

\* maybe_rehash returns the last of these tables.
LEMMA RehashMoves ==
    ASSUME NEW s, IsSet(s)
    PROVE  \E g : Moving(s, g, Capacity(s)) /\ Rehashed(s) = g[Capacity(s)]
<1> DEFINE F(g) == g = [ii \in 0 .. Capacity(s) |->
                            IF ii = 0 THEN [nbits  |-> s.nbits + 1,
                                            items  |-> [i \in 0 .. 2 * Capacity(s) - 1 |-> 0],
                                            nitems |-> 0]
                            ELSE AddMember(g[ii - 1], s.items[ii - 1])]
           c == CHOOSE g : F(g)
<1>1. \A g : Moving(s, g, Capacity(s)) <=> F(g)
  BY DEF Moving, Emptied
<1>2. \E g : F(g)
  <2>1. Capacity(s) \in Nat
    BY TableSize
  <2> HIDE DEF F
  <2> QED
    BY <1>1, <2>1, MovesUpTo
<1>3. F(c)
  BY <1>2, Zenon
<1>4. Rehashed(s) = c[Capacity(s)]
  BY DEF Rehashed
<1> HIDE DEF c
<1> QED
  BY <1>1, <1>3, <1>4, Zenon

\* The new table before anything is moved
LEMMA EmptiedGood ==
    ASSUME NEW s, IsSet(s)
    PROVE  LET t == Emptied(s)
           IN  /\ Good(t) /\ t.nbits = s.nbits + 1 /\ t.nitems = 0 /\ NoGap(t) /\ Distinct(t)
               /\ ItemsOf(t) = {} /\ Capacity(t) = 2 * Capacity(s)
<1> DEFINE t == Emptied(s)
<1>1. s.nbits \in Nat /\ s.nbits >= 3
  BY DEF IsSet
<1>2. t.nbits = s.nbits + 1 /\ t.items = [i \in 0 .. 2 * Capacity(s) - 1 |-> 0] /\ t.nitems = 0
  BY DEF Emptied
<1>3. t = [nbits |-> t.nbits, items |-> t.items, nitems |-> t.nitems]
  BY DEF Emptied
<1> HIDE DEF t
<1>4. Capacity(t) = 2 * Capacity(s)
  BY <1>1, <1>2, Doubled DEF Capacity
<1>5. Slots(t) = 0 .. 2 * Capacity(s) - 1
  BY <1>4 DEF Slots
<1>6. t.items \in [Slots(t) -> Nat] /\ \A i \in Slots(t) : t.items[i] = 0
  BY <1>2, <1>5
<1>7. IsSet(t)
  BY <1>1, <1>2, <1>3, <1>6 DEF IsSet
<1>8. Used(t) = {} /\ ItemsOf(t) = {}
  BY <1>6 DEF Used, ItemsOf, Free
<1>9. NoGap(t)
  BY <1>6 DEF NoGap, Deleted
<1>10. Good(t) /\ Distinct(t)
  BY <1>2, <1>7, <1>8, FS_EmptySet DEF Good, Reaches, Distinct
<1> QED
  BY <1>2, <1>4, <1>8, <1>9, <1>10 DEF t

\* What has been moved so far
Moved(s, t, n) ==
    /\ Good(t) /\ t.nbits = s.nbits + 1 /\ t.nitems <= n /\ NoGap(t) /\ Distinct(t)
    /\ ItemsOf(t) = {s.items[j] : j \in 0 .. n - 1} \ Free

\* maybe_rehash: what the first n moves have brought to the new table
LEMMA MovesAll ==
    ASSUME NEW s, Good(s), NEW g, Moving(s, g, Capacity(s)), NEW n \in 0 .. Capacity(s)
    PROVE  Moved(s, g[n], n)
<1> DEFINE C == Capacity(s)
           T == {k \in 0 .. C : ~Moved(s, g[k], k)}
<1>1. C \in Nat /\ C >= 8 /\ IsSet(s) /\ s.items \in [Slots(s) -> Nat] /\ Slots(s) = 0 .. C - 1
      /\ s.nbits \in Nat
  BY TableSize DEF Good, IsSet, Slots
<1>2. \A k \in 0 .. C : g[k] = IF k = 0 THEN Emptied(s) ELSE AddMember(g[k - 1], s.items[k - 1])
  BY Zenon DEF Moving
<1> HIDE DEF C
<1>3. ASSUME T # {} PROVE FALSE
  <2>1. PICK k \in T : \A y \in T : k <= y
    <3>1. T \subseteq Nat
      BY <1>1
    <3> HIDE DEF T
    <3> QED
      BY <1>3, <3>1, LeastNumber, Zenon
  <2>2. k \in 0 .. C /\ ~Moved(s, g[k], k)
    BY <2>1
  <2>3. CASE k = 0
    <3>1. g[k] = Emptied(s)
      BY <1>2, <2>2, <2>3
    <3>2. {s.items[j] : j \in 0 .. k - 1} \ Free = {}
      BY <2>3
    <3>3. Moved(s, g[k], k)
      BY <1>1, <2>3, <3>1, <3>2, EmptiedGood DEF Moved
    <3> QED
      BY <2>2, <3>3
  <2>4. CASE k # 0
    <3> DEFINE l == k - 1
               t == g[l]
               v == s.items[l]
    <3>1. l \in 0 .. C /\ l \in 0 .. C - 1 /\ ~(k <= l) /\ k = l + 1 /\ l \in Nat
      BY <1>1, <2>2, <2>4
    <3>2. l \notin T
      <4> HIDE DEF T, l
      <4> QED
        BY <2>1, <3>1
    <3>3. Moved(s, t, l)
      BY <3>1, <3>2
    <3>4. g[k] = AddMember(t, v)
      BY <1>2, <2>2, <2>4
    <3>5. v \in Nat
      BY <1>1, <3>1
    <3> HIDE DEF t, v, l
    <3>6. Capacity(t) = 2 * C
      <4>1. t.nbits = s.nbits + 1
        BY <3>3 DEF Moved
      <4> QED
        BY <1>1, <4>1, Doubled DEF Capacity, C
    <3>7. Good(t) /\ t.nitems \in Nat /\ t.nitems <= l
      BY <3>3, Counts DEF Moved
    <3>8. t.nitems < Capacity(t)
      BY <1>1, <3>1, <3>6, <3>7
    <3> DEFINE u == AddMember(t, v)
    <3> HIDE DEF u
    <3>9. /\ Good(u) /\ u.nbits = t.nbits
          /\ ItemsOf(u) = ItemsOf(t) \cup ({v} \ Free)
          /\ u.nitems = t.nitems \/ u.nitems = t.nitems + 1
          /\ NoGap(t) => NoGap(u)
          /\ NoGap(t) /\ Distinct(t) => Distinct(u)
      BY <3>5, <3>7, <3>8, AddGood DEF u
    <3>10. {s.items[j] : j \in 0 .. k - 1} = {s.items[j] : j \in 0 .. l - 1} \cup {v}
      <4>1. 0 .. k - 1 = (0 .. l - 1) \cup {l}
        BY <3>1
      <4> QED
        BY <4>1 DEF v
    <3>11. ItemsOf(u) = {s.items[j] : j \in 0 .. k - 1} \ Free
      BY <3>3, <3>9, <3>10 DEF Moved
    <3>12. u.nitems <= k
      BY <3>1, <3>7, <3>9
    <3>13. Moved(s, u, k)
      BY <3>3, <3>9, <3>11, <3>12 DEF Moved
    <3> QED
      BY <2>2, <3>4, <3>13 DEF u
  <2> QED
    BY <2>3, <2>4
<1>4. n \notin T
  BY <1>3
<1> QED
  BY <1>4 DEF C

\* maybe_rehash: the new table holds the same items, each once.
LEMMA RehashGood ==
    ASSUME NEW s, Good(s)
    PROVE  LET t == Rehashed(s)
           IN  /\ Good(t) /\ t.nbits = s.nbits + 1 /\ Capacity(t) = 2 * Capacity(s)
               /\ NoGap(t) /\ Distinct(t) /\ ItemsOf(t) = ItemsOf(s)
               /\ t.nitems = Cardinality(ItemsOf(s)) /\ t.nitems <= s.nitems
<1> DEFINE t == Rehashed(s)
           C == Capacity(s)
<1>1. C \in Nat /\ IsSet(s) /\ s.nbits \in Nat
  BY TableSize DEF Good, IsSet
<1>2. PICK g : Moving(s, g, C) /\ t = g[C]
  BY <1>1, RehashMoves
<1> HIDE DEF t
<1>3. Moved(s, t, C)
  <2>1. C \in 0 .. C
    BY <1>1
  <2> QED
    BY <1>2, <2>1, MovesAll
<1>4. ItemsOf(s) = {s.items[j] : j \in 0 .. C - 1} \ Free
  BY DEF ItemsOf, Used, Slots
<1>5. ItemsOf(t) = ItemsOf(s) /\ Good(t) /\ NoGap(t) /\ Distinct(t) /\ t.nbits = s.nbits + 1
  BY <1>3, <1>4 DEF Moved
<1>6. Capacity(t) = 2 * C
  BY <1>1, <1>5, Doubled DEF Capacity
<1>7. t.nitems = Cardinality(ItemsOf(s)) /\ t.nitems <= s.nitems
  <2>1. t.nitems = Cardinality(ItemsOf(t))
    BY <1>5, Counts
  <2>2. Cardinality(ItemsOf(s)) <= s.nitems
    BY Counts
  <2> QED
    BY <1>5, <2>1, <2>2
<1> QED
  BY <1>5, <1>6, <1>7 DEF t

-----------------------------------------------------------------------------
(* The calls *)

\* The load at which a table grows leaves it two free slots, and is not reached by
\* what moves to a table of twice the size.
LEMMA LimitFacts ==
    ASSUME NEW s, IsSet(s)
    PROVE  /\ Limit(s) \in Nat /\ Limit(s) <= Capacity(s) - 2
           /\ \A t : Capacity(t) = 2 * Capacity(s) => Limit(t) \in Nat /\ Limit(s) < Limit(t)
<1> DEFINE C == Capacity(s)
<1>1. C \in Nat /\ C >= 8
  BY TableSize
<1>2. Limit(s) = (85 * C) \div 100 /\ \A t : Capacity(t) = 2 * C => Limit(t) = (85 * (2 * C)) \div 100
  BY DEF Limit
<1> HIDE DEF C
<1>3. (85 * C) \div 100 \in Nat /\ (85 * C) \div 100 <= C - 2
  BY <1>1
<1>4. (85 * (2 * C)) \div 100 \in Nat /\ (85 * C) \div 100 < (85 * (2 * C)) \div 100
  BY <1>1
<1> QED
  BY <1>2, <1>3, <1>4 DEF C

\* hashset_add: what it does to the table
LEMMA AddOutcome ==
    ASSUME NEW s, Good(s), s.nitems < Limit(s), NEW v \in Nat
    PROVE  LET t == maybe_rehash(AddMember(s, v))
           IN  /\ Good(t) /\ t.nitems < Limit(t) /\ t.nbits >= s.nbits
               /\ ItemsOf(t) = ItemsOf(s) \cup ({v} \ Free)
               /\ NoGap(s) /\ Distinct(s) =>
                      NoGap(t) /\ Distinct(t) /\ (AddResult(s, v) = 1 => v \notin ItemsOf(s))
               /\ t = AddMember(s, v) \/ (NoGap(t) /\ Distinct(t))
<1> DEFINE a == AddMember(s, v)
           t == maybe_rehash(a)
<1>1. IsSet(s) /\ Limit(s) \in Nat /\ Limit(s) <= Capacity(s) - 2 /\ Capacity(s) \in Nat /\ s.nitems \in Nat
  BY LimitFacts, TableSize, Counts, Zenon DEF Good
<1>2. s.nitems < Capacity(s)
  BY <1>1
<1> HIDE DEF a
<1>3. /\ Good(a) /\ a.nbits = s.nbits
      /\ ItemsOf(a) = ItemsOf(s) \cup ({v} \ Free)
      /\ a.nitems = s.nitems \/ a.nitems = s.nitems + 1
      /\ NoGap(s) => NoGap(a)
      /\ NoGap(s) /\ Distinct(s) => Distinct(a) /\ (AddResult(s, v) = 1 => v \notin ItemsOf(s))
  BY <1>2, AddGood DEF a
<1>4. Limit(a) = Limit(s) /\ Capacity(a) = Capacity(s) /\ a.nbits \in Nat /\ IsSet(a)
  BY <1>3 DEF Limit, Capacity, Good, IsSet
<1>5. CASE a.nitems >= Limit(a)
  <2> DEFINE r == Rehashed(a)
  <2>1. t = r
    BY <1>5 DEF maybe_rehash
  <2> HIDE DEF r, t
  <2>2. /\ Good(r) /\ r.nbits = a.nbits + 1 /\ Capacity(r) = 2 * Capacity(a)
        /\ NoGap(r) /\ Distinct(r) /\ ItemsOf(r) = ItemsOf(a) /\ r.nitems <= a.nitems
    BY <1>3, RehashGood DEF r
  <2>3. r.nitems \in Nat /\ r.nitems <= Limit(s)
    BY <1>1, <1>3, <2>2, Counts
  <2>4. Limit(r) \in Nat /\ Limit(a) < Limit(r)
    BY <1>4, <2>2, LimitFacts
  <2>5. r.nitems < Limit(r) /\ r.nbits >= s.nbits
    BY <1>1, <1>3, <1>4, <2>2, <2>3, <2>4
  <2> QED
    BY <1>3, <2>1, <2>2, <2>5 DEF t, a
<1>6. CASE ~(a.nitems >= Limit(a))
  <2>1. t = a
    BY <1>6 DEF maybe_rehash
  <2>2. a.nitems < Limit(a) /\ a.nbits >= s.nbits
    BY <1>1, <1>3, <1>4, <1>6
  <2> HIDE DEF t
  <2> QED
    BY <1>3, <2>1, <2>2 DEF t, a
<1> QED
  BY <1>5, <1>6

Taken(s, i) == [nbits |-> s.nbits, items |-> [s.items EXCEPT ![i] = Deleted], nitems |-> s.nitems - 1]

\* hashset_remove: what it does to the table
LEMMA TakeGood ==
    ASSUME NEW s, Good(s), NEW i \in Used(s)
    PROVE  LET t == Taken(s, i)
           IN  /\ Good(t) /\ t.nbits = s.nbits /\ t.nitems = s.nitems - 1
               /\ Slots(t) = Slots(s) /\ Used(t) = Used(s) \ {i} /\ Limit(t) = Limit(s)
               /\ t.items[i] = Deleted /\ \A j \in Slots(s) : j # i => t.items[j] = s.items[j]
               /\ ItemsOf(t) = ItemsOf(s) \/ ItemsOf(t) = ItemsOf(s) \ {s.items[i]}
               /\ (\A j \in Used(s) : s.items[j] = s.items[i] => j = i) => s.items[i] \notin ItemsOf(t)
               /\ \A w, j : Slot(t, w, j) = Slot(s, w, j)
<1> DEFINE t == Taken(s, i)
<1>1. t.nbits = s.nbits /\ t.items = [s.items EXCEPT ![i] = Deleted] /\ t.nitems = s.nitems - 1
  BY DEF Taken
<1>2. t = [nbits |-> t.nbits, items |-> t.items, nitems |-> t.nitems]
  BY DEF Taken
<1> HIDE DEF t
<1>3. IsSet(s) /\ s.nbits \in Nat /\ s.nbits >= 3 /\ s.items \in [Slots(s) -> Nat] /\ i \in Slots(s)
  BY DEF Good, IsSet, Used
<1>4. Capacity(t) = Capacity(s) /\ Slots(t) = Slots(s) /\ Limit(t) = Limit(s)
      /\ \A w, j : Slot(t, w, j) = Slot(s, w, j)
  BY <1>1 DEF Capacity, Slots, Slot, Limit
<1>5. t.items[i] = Deleted /\ \A j \in Slots(s) : j # i => t.items[j] = s.items[j]
  BY <1>1, <1>3
<1>6. IsSet(t)
  BY <1>1, <1>2, <1>3, <1>4 DEF IsSet, Deleted
<1>7. Used(t) = Used(s) \ {i}
  BY <1>4, <1>5 DEF Used, Deleted, Free
<1>8. IsFiniteSet(Used(s)) /\ Cardinality(Used(s)) \in Nat
  <2>1. Used(s) \in SUBSET Slots(s) /\ IsFiniteSet(Slots(s))
    BY <1>3, TableSize DEF Used
  <2> QED
    BY <2>1, FS_Subset, FS_CardinalityType
<1>9. t.nitems = Cardinality(Used(t))
  <2>1. Cardinality(Used(s) \ {i}) = Cardinality(Used(s)) - 1
    BY <1>8, FS_RemoveElement
  <2> QED
    BY <1>1, <1>7, <2>1 DEF Good
<1>10. \A j \in Slots(s) : s.items[j] # 0 => t.items[j] # 0
  <2>1. Deleted # 0
    BY DEF Deleted
  <2> QED
    BY <1>5, <2>1
<1>11. ASSUME NEW w \in Nat, NEW l \in Slots(s), Way(s, w, l) PROVE Way(t, w, l)
  <2> SUFFICES ASSUME NEW j \in 0 .. l - 1 PROVE t.items[Slot(s, w, j)] # 0
    BY <1>4 DEF Way
  <2>1. j \in Nat
    BY <1>3, TableSize DEF Slots
  <2>2. Slot(s, w, j) \in Slots(s)
    BY <1>3, <2>1, TableSize
  <2> QED
    BY <1>10, <1>11, <2>2 DEF Way
<1>12. \A h \in Used(t) : h \in Used(s) /\ h # i /\ h \in Slots(s) /\ t.items[h] = s.items[h]
  BY <1>5, <1>7 DEF Used
<1>13. Reaches(t)
  <2> SUFFICES ASSUME NEW h \in Used(t)
               PROVE  \E l \in Slots(t) : Slot(t, t.items[h], l) = h /\ Way(t, t.items[h], l)
    BY DEF Reaches
  <2>1. h \in Used(s) /\ t.items[h] = s.items[h] /\ s.items[h] \in Nat
    BY <1>3, <1>12
  <2>2. PICK l \in Slots(s) : Slot(s, s.items[h], l) = h /\ Way(s, s.items[h], l)
    BY <2>1 DEF Good, Reaches
  <2> QED
    BY <1>4, <1>11, <2>1, <2>2
<1>14. ItemsOf(t) = ItemsOf(s) \/ ItemsOf(t) = ItemsOf(s) \ {s.items[i]}
  <2>1. ItemsOf(t) = {s.items[j] : j \in Used(s) \ {i}}
    BY <1>7, <1>12 DEF ItemsOf
  <2> QED
    BY <2>1, Zenon DEF ItemsOf
<1>15. (\A j \in Used(s) : s.items[j] = s.items[i] => j = i) => s.items[i] \notin ItemsOf(t)
  BY <1>12 DEF ItemsOf
<1>16. Good(t)
  BY <1>6, <1>9, <1>13 DEF Good
<1> QED
  BY <1>1, <1>4, <1>5, <1>7, <1>14, <1>15, <1>16, Zenon DEF t

-----------------------------------------------------------------------------
(* One item at a time is removed *)

Once(s, v) == \A i, j \in Used(s) : s.items[i] = v /\ s.items[j] = v => i = j

\* d is the first free slot that a search for v meets.
FirstFree(s, v, d) ==
    \E k \in Slots(s) : Slot(s, v, k) = d /\ \A j \in 0 .. k - 1 : s.items[Slot(s, v, j)] \notin Free

\* Where only one item is ever removed, it leaves at most one removed slot, to
\* which it returns when it is added again.
OneGap(s) ==
    /\ \A d, e \in Slots(s) : s.items[d] = Deleted /\ s.items[e] = Deleted => d = e
    /\ \A v \in RemoveInputs :
          /\ Once(s, v)
          /\ \A d \in Slots(s) : s.items[d] = Deleted => v \notin ItemsOf(s) /\ FirstFree(s, v, d)

\* A table without removed slots and without doubles
LEMMA NoneRemoved ==
    ASSUME NEW s, NoGap(s), Distinct(s)
    PROVE  OneGap(s)
BY DEF NoGap, Distinct, OneGap, Once

\* There is an unused slot, and so every search ends.
LEMMA SearchEnds ==
    ASSUME NEW s, Good(s), OneGap(s), s.nitems < Limit(s), NEW v \in Nat
    PROVE  ~Endless(s, v, {0, v})
<1> DEFINE D == {d \in Slots(s) : s.items[d] = Deleted}
<1>1. IsSet(s) /\ IsFiniteSet(Slots(s)) /\ Cardinality(Slots(s)) = Capacity(s) /\ Capacity(s) \in Nat
  BY TableSize DEF Good
<1>2. IsFiniteSet(D) /\ Cardinality(D) \in Nat /\ Cardinality(D) <= 1
  <2>1. CASE D = {}
    BY <2>1, FS_EmptySet
  <2>2. CASE D # {}
    <3>1. PICK d \in D : TRUE
      BY <2>2
    <3>2. D = {d}
      BY <3>1 DEF OneGap
    <3>3. IsFiniteSet({d}) /\ Cardinality({d}) = 1
      BY FS_Singleton, Zenon
    <3> QED
      BY <3>2, <3>3
  <2> QED
    BY <2>1, <2>2
<1>3. IsFiniteSet(Used(s)) /\ Cardinality(Used(s)) \in Nat
  <2>1. Used(s) \in SUBSET Slots(s)
    BY DEF Used
  <2> QED
    BY <1>1, <2>1, FS_Subset, FS_CardinalityType
<1>4. Cardinality(Used(s) \cup D) <= Cardinality(Used(s)) + Cardinality(D)
  <2>1. /\ Cardinality(Used(s) \cup D) = Cardinality(Used(s)) + Cardinality(D) - Cardinality(Used(s) \cap D)
        /\ Cardinality(Used(s) \cap D) \in Nat
    <3>1. IsFiniteSet(Used(s) \cap D)
      BY <1>3, FS_Intersection
    <3> HIDE DEF D
    <3> QED
      BY <1>2, <1>3, <3>1, FS_Union, FS_CardinalityType
  <2> HIDE DEF D
  <2> QED
    BY <1>2, <1>3, <2>1
<1>5. Cardinality(Used(s) \cup D) # Capacity(s)
  <2>1. Cardinality(Used(s)) < Limit(s) /\ Limit(s) \in Nat /\ Limit(s) <= Capacity(s) - 2
    BY <1>1, LimitFacts DEF Good
  <2> HIDE DEF D
  <2>2. IsFiniteSet(Used(s) \cup D)
    BY <1>2, <1>3, FS_Union, Zenon
  <2>3. Cardinality(Used(s) \cup D) \in Nat
    BY <2>2, FS_CardinalityType
  <2> QED
    BY <1>1, <1>2, <1>3, <1>4, <2>1, <2>3
<1>6. Used(s) \cup D # Slots(s)
  BY <1>1, <1>5
<1>7. PICK i \in Slots(s) : i \notin Used(s) /\ i \notin D
  BY <1>6 DEF Used
<1>8. s.items[i] \in {0, v}
  BY <1>7 DEF Used, Free, Deleted
<1> QED
  BY <1>1, <1>8, Ends

\* hashset_add_member keeps at most one removed slot.
LEMMA AddKeepsOne ==
    ASSUME NEW s, Good(s), s.nitems < Capacity(s), OneGap(s), NEW w \in Nat
    PROVE  OneGap(AddMember(s, w))
<1>1. CASE AddMember(s, w) = s
  BY <1>1
<1>2. CASE AddMember(s, w) # s
  <2>1. PICK k \in Slots(s) : /\ AddMember(s, w) = Put(s, Slot(s, w, k), w)
                              /\ Slot(s, w, k) \in Slots(s)
                              /\ s.items[Slot(s, w, k)] \in Free
                              /\ \A j \in 0 .. k - 1 : s.items[Slot(s, w, j)] \notin Free \cup {w}
    BY <1>2, AddCases
  <2>2. w \in Nat \ Free
    BY <1>2, AddCases
  <2> DEFINE i == Slot(s, w, k)
             t == Put(s, i, w)
  <2>3. \A j \in 0 .. k - 1 : s.items[Slot(s, w, j)] \notin Free
    BY <2>1
  <2> HIDE DEF t
  <2>4. /\ Slots(t) = Slots(s) /\ Used(t) = Used(s) \cup {i} /\ i \notin Used(s)
        /\ ItemsOf(t) = ItemsOf(s) \cup {w}
        /\ t.items[i] = w /\ \A j \in Slots(s) : j # i => t.items[j] = s.items[j]
        /\ \A x, j : Slot(t, x, j) = Slot(s, x, j)
    BY <2>1, <2>2, <2>3, PutGood DEF t
  <2>5. i \in Slots(s) /\ s.items[i] \in Free /\ Used(s) \subseteq Slots(s)
    BY <2>1 DEF Used
  <2>6. \A d \in Slots(t) : t.items[d] = Deleted => d # i /\ d \in Slots(s) /\ s.items[d] = Deleted
    BY <2>2, <2>4 DEF Free, Deleted
  <2>7. \A j \in Slots(s) : s.items[j] \notin Free => t.items[j] \notin Free
    BY <2>4, <2>5
  <2>8. ASSUME NEW v \in RemoveInputs, NEW d \in Slots(t), t.items[d] = Deleted
        PROVE  v \notin ItemsOf(t) /\ FirstFree(t, v, d)
    <3>1. d # i /\ d \in Slots(s) /\ s.items[d] = Deleted /\ v \notin ItemsOf(s)
      BY <2>6, <2>8 DEF OneGap
    <3>2. PICK l \in Slots(s) : Slot(s, v, l) = d /\ \A j \in 0 .. l - 1 : s.items[Slot(s, v, j)] \notin Free
      BY <3>1 DEF OneGap, FirstFree
    <3>3. \A j \in 0 .. l - 1 : Slot(s, v, j) \in Slots(s)
      <4>1. v \in Nat /\ l \in Nat /\ IsSet(s)
        BY InputsAssumption, TableSize DEF Good, Slots
      <4> QED
        BY <4>1, TableSize
    <3>4. FirstFree(t, v, d)
      BY <2>4, <2>7, <3>2, <3>3 DEF FirstFree
    <3>5. v # w
      <4> SUFFICES ASSUME v = w PROVE FALSE
        OBVIOUS
      <4>1. k \in Nat /\ l \in Nat
        BY TableSize DEF Good, Slots
      <4>2. ~(k < l)
        BY <2>5, <3>2, <4>1
      <4>3. ~(l < k)
        BY <2>3, <3>1, <3>2, <4>1 DEF Free, Deleted
      <4>4. k = l
        BY <4>1, <4>2, <4>3
      <4> QED
        BY <3>1, <3>2, <4>4
    <3> QED
      BY <2>4, <3>1, <3>4, <3>5
  <2>9. ASSUME NEW v \in RemoveInputs
        PROVE  Once(t, v)
    <3>1. CASE v = w
      <4>1. v \notin ItemsOf(s)
        <5>1. CASE NoGap(s)
          BY <2>1, <2>2, <3>1, <5>1, NewItem
        <5>2. CASE ~NoGap(s)
          BY <5>2 DEF NoGap, OneGap
        <5> QED
          BY <5>1, <5>2
      <4>2. \A j \in Used(t) : t.items[j] = v => j = i
        BY <2>4, <2>5, <4>1 DEF ItemsOf
      <4> QED
        BY <4>2 DEF Once
    <3>2. CASE v # w
      <4>1. \A j \in Used(t) : t.items[j] = v => j \in Used(s) /\ s.items[j] = v
        BY <2>4, <2>5, <3>2
      <4> QED
        BY <4>1 DEF Once, OneGap
    <3> QED
      BY <3>1, <3>2
  <2>10. OneGap(t)
    BY <2>6, <2>8, <2>9 DEF OneGap
  <2> QED
    BY <2>1, <2>10 DEF t
<1> QED
  BY <1>1, <1>2

\* hashset_remove of the only item that is ever removed
LEMMA TakeKeepsOne ==
    ASSUME NEW s, Good(s), OneGap(s), NEW v \in RemoveInputs, \A w \in RemoveInputs : w = v,
           NEW k \in Slots(s), NEW i \in Used(s), i = Slot(s, v, k), s.items[i] = v,
           \A j \in 0 .. k - 1 : s.items[Slot(s, v, j)] \notin {0, v}
    PROVE  OneGap(Taken(s, i))
<1> DEFINE t == Taken(s, i)
<1> HIDE DEF t
<1>1. /\ Slots(t) = Slots(s) /\ Used(t) = Used(s) \ {i}
      /\ t.items[i] = Deleted /\ \A j \in Slots(s) : j # i => t.items[j] = s.items[j]
      /\ (\A j \in Used(s) : s.items[j] = s.items[i] => j = i) => s.items[i] \notin ItemsOf(t)
      /\ \A w, j : Slot(t, w, j) = Slot(s, w, j)
  BY TakeGood DEF t
<1>2. i \in Slots(s) /\ v \in ItemsOf(s) /\ v \in Nat
  BY InputsAssumption DEF Used, ItemsOf
<1>3. NoGap(s)
  BY <1>2 DEF OneGap, NoGap
<1>4. \A d \in Slots(t) : t.items[d] = Deleted => d = i
  BY <1>1, <1>3 DEF NoGap
<1>5. Once(s, v)
  BY DEF OneGap
<1>6. v \notin ItemsOf(t)
  BY <1>1, <1>5 DEF Once
<1>7. Once(t, v)
  BY <1>6 DEF Once, ItemsOf
<1>8. FirstFree(t, v, i)
  <2>1. ASSUME NEW j \in 0 .. k - 1 PROVE t.items[Slot(s, v, j)] \notin Free
    <3>1. j \in Nat
      BY TableSize DEF Good, Slots
    <3>2. Slot(s, v, j) \in Slots(s)
      BY <1>2, <3>1, TableSize DEF Good
    <3>3. s.items[Slot(s, v, j)] \notin Free /\ s.items[Slot(s, v, j)] # v
      BY <1>3, <3>2 DEF NoGap, Free, Deleted
    <3> QED
      BY <1>1, <3>2, <3>3
  <2> QED
    BY <1>1, <2>1 DEF FirstFree
<1>9. OneGap(t)
  BY <1>4, <1>6, <1>7, <1>8 DEF OneGap
<1> QED
  BY <1>9 DEF t

-----------------------------------------------------------------------------
(* The specification *)

\* The inductive invariant.  Every item lies on its own way and no unused slot
\* comes before it on it, nitems counts the used slots and stays below the load at
\* which the table grows, and before the first removal there is no removed slot
\* and no item twice.
SetInv ==
    /\ Good(set) /\ set.nbits <= MaxBits
    /\ ItemsOf(set) \subseteq AddInputs
    /\ set.nitems < Limit(set)
    /\ ret.rv \in {-1, 0, 1, Loops} /\ removed \in {0, 1}
    /\ removed = 0 => NoGap(set) /\ Distinct(set)

\* What each call that returns does to the abstract set is right.
CallsRight == [][ret'.rv # Loops => SetSpec!Next]_vars

\* The items of the table
LEMMA ItemsAre ==
    ASSUME NEW s, IsSet(s)
    PROVE  {s.items[i] : i \in DOMAIN s.items} \ Free = ItemsOf(s)
BY DEF IsSet, ItemsOf, Used

\* The count of a call that leaves S in the table
LEMMA BecomesCounted ==
    ASSUME NEW S, Items' = S, set'.nitems \in Nat, Cardinality(S) \in Nat, Cardinality(S) <= set'.nitems,
           removed = 0 => set'.nitems = Cardinality(S)
    PROVE  SetSpec!Became(S)
<1>1. set'.nitems >= Cardinality(S)
  OBVIOUS
<1>2. SetSpec!Cardinality(S) = Cardinality(S)
  BY DEF SetSpec!Cardinality, Cardinality, SetSpec!IsFiniteSet, IsFiniteSet
<1> QED
  BY <1>1, <1>2 DEF SetSpec!Became, SetSpec!Exact

\* hashset_create
LEMMA SetInit == Init => SetInv /\ OneGap(set) /\ SetSpec!Init
<1> SUFFICES ASSUME Init PROVE SetInv /\ OneGap(set) /\ SetSpec!Init
  OBVIOUS
<1>1. set = [nbits |-> 3, items |-> [i \in 0 .. 7 |-> 0], nitems |-> 0]
  BY DEF Init, hashset_create
<1>2. 2^3 = 8
  BY SMT
<1>3. Capacity(set) = 8 /\ Slots(set) = 0 .. 7 /\ Limit(set) = 6
  BY <1>1, <1>2 DEF Capacity, Slots, Limit
<1>4. IsSet(set)
  BY <1>1, <1>3 DEF IsSet
<1>5. \A i \in Slots(set) : set.items[i] = 0
  BY <1>1, <1>3
<1>6. Used(set) = {} /\ ItemsOf(set) = {}
  BY <1>5 DEF Used, ItemsOf, Free
<1>7. Good(set)
  BY <1>1, <1>4, <1>6, FS_EmptySet DEF Good, Reaches
<1>8. NoGap(set) /\ Distinct(set)
  BY <1>5, <1>6 DEF NoGap, Distinct, Deleted
<1>9. Items = {}
  BY <1>4, <1>6, ItemsAre DEF Items
<1>10. SetInv
  BY <1>1, <1>3, <1>6, <1>7, <1>8, InputsAssumption DEF SetInv, Init
<1>11. SetSpec!Init
  BY <1>1, <1>9 DEF SetSpec!Init, Init
<1> QED
  BY <1>8, <1>10, <1>11, NoneRemoved

\* hashset_add
LEMMA AddStep ==
    ASSUME SetInv, NEW v \in AddInputs, hashset_add(v)
    PROVE  SetInv' /\ SetSpec!Add(v) /\ (OneGap(set) => OneGap(set)') /\ ret'.rv # Loops
<1> DEFINE t == maybe_rehash(AddMember(set, v))
<1>1. /\ set' = t /\ t.nbits <= MaxBits /\ removed' = removed
      /\ ret' = [op |-> "add", arg |-> v, rv |-> AddResult(set, v)]
  BY DEF hashset_add, Returns
<1> HIDE DEF t
<1>2. v \in Nat /\ Good(set) /\ set.nitems < Limit(set) /\ removed \in {0, 1}
      /\ (removed = 0 => NoGap(set) /\ Distinct(set))
  BY InputsAssumption DEF SetInv
<1>3. IsSet(set) /\ set.nitems < Capacity(set)
  <2>1. IsSet(set) /\ Limit(set) \in Nat /\ Limit(set) <= Capacity(set) - 2 /\ Capacity(set) \in Nat /\ set.nitems \in Nat
    BY <1>2, LimitFacts, TableSize, Counts, Zenon DEF Good
  <2> QED
    BY <1>2, <2>1
<1>4. /\ Good(t) /\ t.nitems < Limit(t)
      /\ ItemsOf(t) = ItemsOf(set) \cup ({v} \ Free)
      /\ NoGap(set) /\ Distinct(set) =>
             NoGap(t) /\ Distinct(t) /\ (AddResult(set, v) = 1 => v \notin ItemsOf(set))
      /\ t = AddMember(set, v) \/ (NoGap(t) /\ Distinct(t))
  BY <1>2, AddOutcome DEF t
<1>5. \/ v \in Free /\ AddResult(set, v) = -1
      \/ v \notin Free /\ v \in ItemsOf(set) /\ AddResult(set, v) = 0
      \/ v \notin Free /\ AddResult(set, v) = 1
  BY <1>2, <1>3, AddCases
<1>6. ret'.rv \in {-1, 0, 1}
  BY <1>1, <1>5
<1>7. SetInv'
  <2>1. ItemsOf(t) \subseteq AddInputs
    BY <1>4 DEF SetInv
  <2> QED
    BY <1>1, <1>2, <1>4, <1>6, <2>1 DEF SetInv
<1>8. OneGap(set) => OneGap(t)
  BY <1>2, <1>3, <1>4, AddKeepsOne, NoneRemoved
<1>9. Items = ItemsOf(set) /\ Items' = ItemsOf(t)
  BY <1>1, <1>3, <1>4, ItemsAre, Zenon DEF Items, Good
<1>10. SetSpec!Became(Items \cup ({v} \ Free))
  <2>1. t.nitems \in Nat /\ Cardinality(ItemsOf(t)) <= t.nitems /\ Cardinality(ItemsOf(t)) \in Nat
        /\ (removed = 0 => t.nitems = Cardinality(ItemsOf(t)))
    BY <1>2, <1>4, Counts
  <2> QED
    BY <1>1, <1>4, <1>9, <2>1, BecomesCounted
<1>11. SetSpec!Add(v)
  <2>1. CASE v \in Free
    <3>1. Items \cup ({v} \ Free) = Items
      BY <2>1
    <3> QED
      BY <1>1, <1>5, <1>10, <2>1, <3>1, Zenon DEF SetSpec!Add, SetSpec!Returns, Free
  <2>2. CASE v \notin Free
    <3>1. Items \cup ({v} \ Free) = Items \cup {v}
      BY <2>2
    <3>2. \/ SetSpec!Returns("add", v, SetSpec!Truth(v \notin Items))
          \/ ~SetSpec!Exact /\ SetSpec!Returns("add", v, 1)
      BY <1>1, <1>2, <1>4, <1>5, <1>9, <2>2 DEF SetSpec!Returns, SetSpec!Truth, SetSpec!Exact
    <3> QED
      BY <1>1, <1>10, <2>2, <3>1, <3>2 DEF SetSpec!Add, Free
  <2> QED
    BY <2>1, <2>2
<1> QED
  BY <1>1, <1>6, <1>7, <1>8, <1>11 DEF Loops

\* hashset_remove
LEMMA RemoveStep ==
    ASSUME SetInv, NEW v \in RemoveInputs, hashset_remove(v)
    PROVE  /\ SetInv' /\ (ret'.rv # Loops => SetSpec!Remove(v))
           /\ OneGap(set) => ret'.rv # Loops
           /\ OneGap(set) /\ (\A w \in RemoveInputs : w = v) => OneGap(set)'
<1>1. /\ v \in Nat \ Free /\ Good(set) /\ IsSet(set) /\ set.nitems < Limit(set) /\ removed \in {0, 1}
      /\ (removed = 0 => NoGap(set) /\ Distinct(set)) /\ ItemsOf(set) \subseteq AddInputs
  BY InputsAssumption DEF SetInv, Good, Free
<1>2. Items = ItemsOf(set)
  BY <1>1, ItemsAre DEF Items
<1>3. OneGap(set) => ~Endless(set, v, {0, v})
  BY <1>1, SearchEnds
<1>4. CASE Endless(set, v, {0, v})
  <2>1. set' = set /\ removed' = removed /\ ret' = [op |-> "remove", arg |-> v, rv |-> Loops]
    BY <1>4 DEF hashset_remove, Returns
  <2> QED
    BY <1>3, <1>4, <2>1 DEF SetInv
<1>5. CASE ~Endless(set, v, {0, v})
  <2> DEFINE i == Landing(set, v, {0, v})
  <2>1. PICK k \in Slots(set) : /\ i = Slot(set, v, k) /\ i \in Slots(set)
                                /\ \A j \in 0 .. k - 1 : set.items[Slot(set, v, j)] \notin {0, v}
    BY <1>1, <1>5, Lands
  <2>2. set.items[i] = v <=> v \in ItemsOf(set)
    BY <1>1, <1>5, Found, IsThere
  <2>3. \/ /\ set.items[i] = v /\ removed' = 1 /\ ret' = [op |-> "remove", arg |-> v, rv |-> 1]
           /\ set' = [set EXCEPT !.items[i] = Deleted, !.nitems = @ - 1]
        \/ /\ set.items[i] # v /\ removed' = removed /\ ret' = [op |-> "remove", arg |-> v, rv |-> 0]
           /\ set' = set
    BY <1>5 DEF hashset_remove, Returns
  <2> HIDE DEF i
  <2>4. CASE set.items[i] = v
    <3> DEFINE t == Taken(set, i)
    <3>1. set' = t
      BY <1>1, <2>3, <2>4, Zenon DEF Taken, IsSet
    <3>2. i \in Used(set)
      BY <1>1, <2>1, <2>4 DEF Used
    <3> HIDE DEF t
    <3>3. /\ Good(t) /\ t.nbits = set.nbits /\ t.nitems = set.nitems - 1 /\ Limit(t) = Limit(set)
          /\ ItemsOf(t) = ItemsOf(set) \/ ItemsOf(t) = ItemsOf(set) \ {v}
          /\ (\A j \in Used(set) : set.items[j] = v => j = i) => v \notin ItemsOf(t)
      <4>0. Good(set)
        BY <1>1
      <4>1. /\ Good(t) /\ t.nbits = set.nbits /\ t.nitems = set.nitems - 1 /\ Limit(t) = Limit(set)
        BY <4>0, <3>2, TakeGood, Zenon DEF t
      <4>2. ItemsOf(t) = ItemsOf(set) \/ ItemsOf(t) = ItemsOf(set) \ {set.items[i]}
        BY <4>0, <3>2, TakeGood DEF t
      <4>3. (\A j \in Used(set) : set.items[j] = set.items[i] => j = i)
               => set.items[i] \notin ItemsOf(t)
        BY <4>0, <3>2, TakeGood, Zenon DEF t
      <4> QED
        BY <2>4, <4>1, <4>2, <4>3, Zenon
    <3>4. t.nitems < Limit(t)
      <4>1. Limit(set) \in Nat /\ set.nitems \in Nat /\ set.nitems < Limit(set)
        BY <1>1, LimitFacts, Counts, Zenon
      <4> DEFINE limit == Limit(set)
                 n == set.nitems
      <4> HIDE DEF limit, n
      <4>2. n - 1 < limit
        BY <4>1 DEF limit, n
      <4> QED
        BY <3>3, <4>2, Zenon DEF limit, n
    <3>5. SetInv'
      <4>1. ItemsOf(t) \subseteq AddInputs
        BY <1>1, <3>3
      <4>2. t.nbits <= MaxBits
        BY <3>3, Zenon DEF SetInv
      <4>3. ret'.rv \in {-1, 0, 1, Loops} /\ removed' \in {0, 1} /\ removed' # 0
        <5>1. removed' = 1 /\ ret' = [op |-> "remove", arg |-> v, rv |-> 1]
          BY <2>3, <2>4, Zenon
        <5> QED
          BY <5>1
      <4> QED
        BY <3>1, <3>3, <3>4, <4>1, <4>2, <4>3, Zenon DEF SetInv
    <3>6. OneGap(set) /\ (\A w \in RemoveInputs : w = v) => OneGap(t)
      BY <1>1, <2>1, <2>4, <3>2, TakeKeepsOne DEF t
    <3>7. Items' = ItemsOf(t)
      BY <3>1, <3>3, ItemsAre DEF Items, Good
    <3>8. t.nitems \in Nat /\ Cardinality(ItemsOf(t)) <= t.nitems /\ Cardinality(ItemsOf(t)) \in Nat
      BY <3>3, Counts
    <3>9. removed = 0 => v \notin ItemsOf(t) /\ t.nitems = Cardinality(ItemsOf(t))
      <4> SUFFICES ASSUME removed = 0
                   PROVE  v \notin ItemsOf(t) /\ t.nitems = Cardinality(ItemsOf(t))
        OBVIOUS
      <4>1. v \notin ItemsOf(t)
        BY <1>1, <2>4, <3>2, <3>3 DEF Distinct
      <4>2. ItemsOf(t) = ItemsOf(set) \ {v} /\ v \in ItemsOf(set)
        BY <2>2, <2>4, <3>3, <4>1
      <4>3. Cardinality(ItemsOf(set)) = set.nitems /\ IsFiniteSet(ItemsOf(set)) /\ set.nitems \in Nat
        BY <1>1, Counts
      <4>4. Cardinality(ItemsOf(set) \ {v}) = Cardinality(ItemsOf(set)) - 1
        BY <4>2, <4>3, FS_RemoveElement, Zenon
      <4> QED
        BY <3>3, <4>1, <4>2, <4>3, <4>4
    <3>10. ItemsOf(t) = ItemsOf(set) \ {v} \/ (removed # 0 /\ ItemsOf(t) = ItemsOf(set))
      BY <3>3, <3>9
    <3>11. SetSpec!Remove(v)
      <4>1. SetSpec!Became(Items \ {v}) \/ (~SetSpec!Exact /\ SetSpec!Became(Items))
        <5>1. SetSpec!Became(ItemsOf(t))
          BY <3>1, <3>7, <3>8, <3>9, BecomesCounted
        <5> QED
          BY <1>2, <3>10, <5>1 DEF SetSpec!Exact
      <4>2. v \in Items /\ removed' = 1 /\ SetSpec!Returns("remove", v, 1)
        BY <1>2, <2>2, <2>3, <2>4 DEF SetSpec!Returns
      <4> QED
        BY <4>1, <4>2 DEF SetSpec!Remove, SetSpec!Truth
    <3> QED
      BY <2>3, <2>4, <3>1, <3>5, <3>6, <3>11 DEF Loops
  <2>5. CASE set.items[i] # v
    <3>1. removed' = removed /\ ret' = [op |-> "remove", arg |-> v, rv |-> 0] /\ set' = set
      BY <2>3, <2>5
    <3>2. SetInv'
      BY <1>1, <3>1 DEF SetInv
    <3>3. Items' = Items /\ v \notin Items
      BY <1>2, <2>2, <2>5, <3>1, Zenon DEF Items
    <3>4. SetSpec!Became(Items)
      BY <1>1, <1>2, <3>1, <3>3, Counts, BecomesCounted
    <3>5. Items \ {v} = Items
      BY <3>3
    <3>6. SetSpec!Remove(v)
      BY <3>1, <3>3, <3>4, <3>5 DEF SetSpec!Remove, SetSpec!Truth, SetSpec!Returns
    <3> QED
      BY <3>1, <3>2, <3>6 DEF Loops
  <2> QED
    BY <2>4, <2>5
<1> QED
  BY <1>4, <1>5

\* hashset_is_member
LEMMA IsMemberStep ==
    ASSUME SetInv, NEW v \in QueryInputs, hashset_is_member(v)
    PROVE  /\ SetInv' /\ (ret'.rv # Loops => SetSpec!IsMember(v))
           /\ OneGap(set) => OneGap(set)' /\ ret'.rv # Loops
<1>1. v \in Nat \ Free /\ Good(set) /\ IsSet(set) /\ set.nitems < Limit(set)
  BY InputsAssumption DEF SetInv, Good, Free
<1>2. Items = ItemsOf(set)
  BY <1>1, ItemsAre DEF Items
<1>3. OneGap(set) => ~Endless(set, v, {0, v})
  BY <1>1, SearchEnds
<1> DEFINE rv == IF Endless(set, v, {0, v}) THEN Loops
                 ELSE IF set.items[Landing(set, v, {0, v})] = v THEN 1 ELSE 0
<1>4. set' = set /\ removed' = removed /\ ret' = [op |-> "is_member", arg |-> v, rv |-> rv]
  BY DEF hashset_is_member, Returns
<1>5. IF Endless(set, v, {0, v}) THEN rv = Loops ELSE rv = IF v \in Items THEN 1 ELSE 0
  BY <1>1, <1>2, Found, IsThere
<1>6. Items' = Items
  BY <1>4 DEF Items
<1> HIDE DEF rv
<1>7. SetInv'
  BY <1>4, <1>5 DEF SetInv
<1>8. rv # Loops => SetSpec!IsMember(v)
  BY <1>4, <1>5, <1>6 DEF SetSpec!IsMember, SetSpec!Returns, SetSpec!Truth
<1>9. OneGap(set) => rv # Loops
  BY <1>3, <1>5 DEF Loops
<1> QED
  BY <1>4, <1>7, <1>8, <1>9

\* Every call keeps the invariant and, if it returns, is one of the abstract set;
\* and every call returns where at most one item is ever removed.
LEMMA SetStep ==
    ASSUME SetInv, Next
    PROVE  /\ SetInv' /\ (ret'.rv # Loops => SetSpec!Next)
           /\ OneGap(set) /\ (\A v, w \in RemoveInputs : v = w) => OneGap(set)' /\ ret'.rv # Loops
<1>1. CASE \E v \in AddInputs : hashset_add(v)
  <2>1. PICK v \in AddInputs : hashset_add(v)
    BY <1>1
  <2> QED
    BY <2>1, AddStep DEF SetSpec!Next
<1>2. CASE \E v \in RemoveInputs : hashset_remove(v)
  <2>1. PICK v \in RemoveInputs : hashset_remove(v)
    BY <1>2
  <2> QED
    BY <2>1, RemoveStep DEF SetSpec!Next
<1>3. CASE \E v \in QueryInputs : hashset_is_member(v)
  <2>1. PICK v \in QueryInputs : hashset_is_member(v)
    BY <1>3
  <2> QED
    BY <2>1, IsMemberStep DEF SetSpec!Next
<1> QED
  BY <1>1, <1>2, <1>3 DEF Next

\* Nothing is called.
LEMMA SetStutters ==
    ASSUME SetInv, UNCHANGED vars
    PROVE  SetInv' /\ (OneGap(set) => OneGap(set)') /\ UNCHANGED SetSpec!vars
BY DEF SetInv, vars, SetSpec!vars, Items

\* hashset.c: what the invariant says of searches and of the load
LEMMA SetInvHolds ==
    ASSUME SetInv
    PROVE  ItemsReachable
<1>1. Good(set) /\ IsSet(set) /\ Items = ItemsOf(set)
  BY ItemsAre DEF SetInv, Good, Items
<1>2. \A v \in Items : ~Endless(set, v, {0, v}) /\ set.items[Landing(set, v, {0, v})] = v
  BY <1>1, Found, Zenon
<1>3. LoadCounted
  BY <1>1 DEF LoadCounted, SetInv, Good, Used, IsSet
<1>4. TypeOK
  <2>1. Limit(set) \in Nat /\ Limit(set) <= Capacity(set) - 2 /\ Capacity(set) \in Nat /\ set.nitems \in Nat
    BY <1>1, LimitFacts, TableSize, Counts, Zenon
  <2>2. set.nitems \in 0 .. Capacity(set)
    BY <2>1 DEF SetInv
  <2>3. \A i \in Slots(set) : set.items[i] \in Free \cup AddInputs
    BY DEF SetInv, ItemsOf, Used
  <2>4. set.items \in [0 .. Capacity(set) - 1 -> Free \cup AddInputs]
    BY <1>1, <2>3, Zenon DEF IsSet, Slots
  <2>5. set.nbits \in 3 .. MaxBits
    BY <1>1, InputsAssumption DEF SetInv, IsSet
  <2>6. ret.rv \in {-1, 0, 1, Loops} /\ removed \in 0 .. 1
    BY DEF SetInv
  <2> QED
    BY <2>2, <2>4, <2>5, <2>6 DEF TypeOK
<1> QED
  BY <1>2, <1>3, <1>4 DEF ItemsReachable

\* hashset.c: for any arguments, any number of calls and tables of any size, the
\* table stays well formed, hashset_num_items counts its used slots and stays
\* below the load at which the table grows, and every item is found by a search,
\* after removals and after moves to a larger table alike.
THEOREM SetItemsReachable == Spec => []ItemsReachable
<1>1. Init => SetInv
  BY SetInit
<1>2. SetInv /\ [Next]_vars => SetInv'
  BY SetStep, SetStutters
<1>3. SetInv => ItemsReachable
  BY SetInvHolds
<1> QED
  BY <1>1, <1>2, <1>3, PTL DEF Spec

\* hashset.c: every call of hashset_add, hashset_remove and hashset_is_member that
\* returns, returns and does what the abstract set says.
THEOREM SetCallsRight == Spec => CallsRight
<1>1. Init => SetInv
  BY SetInit
<1>2. SetInv /\ [Next]_vars => SetInv'
  BY SetStep, SetStutters
<1>3. SetInv /\ [Next]_vars => [ret'.rv # Loops => SetSpec!Next]_vars
  BY SetStep
<1> QED
  BY <1>1, <1>2, <1>3, PTL DEF Spec, CallsRight

\* hashset.c: where at most one item is ever removed (the controller removes none)
\* every call returns and the hash set implements the abstract set.
THEOREM SetImplemented ==
    ASSUME \A v, w \in RemoveInputs : v = w
    PROVE  Spec => ImplementsSet
<1>1. Init => SetInv /\ OneGap(set) /\ SetSpec!Init
  BY SetInit
<1>2. SetInv /\ OneGap(set) /\ [Next]_vars => SetInv' /\ OneGap(set)'
  BY SetStep, SetStutters
<1>3. SetInv /\ OneGap(set) /\ [Next]_vars => [SetSpec!Next]_(SetSpec!vars)
  BY SetStep, SetStutters
<1> QED
  BY <1>1, <1>2, <1>3, PTL DEF Spec, ImplementsSet, SetSpec!Spec

-----------------------------------------------------------------------------
(* The iterator of the hash set *)

ItrSpec == ItrInit /\ [][ItrNext]_subjectVars

\* The slots that are or were in use; a removed item leaves its slot so.
InUse(s) == {k \in 0 .. 7 : s.items[k] # 0}

IsTable(s) ==
    /\ s = [nbits |-> 3, items |-> s.items, nitems |-> s.nitems]
    /\ s.items = [i \in 0 .. 7 |-> s.items[i]]

IsItr(o) ==
    /\ o = [set |-> o.set, index |-> o.index, hangs |-> o.hangs]
    /\ IsTable(o.set) /\ o.hangs \in BOOLEAN

\* Where an iterator stands: on slot 0 until it advances, then on a slot in use or
\* behind the last.
ItrStands ==
    /\ obj.index \in -1 .. 8
    /\ obj.index >= 0 /\ ~obj.hangs => obj.index \in abs.stood
    /\ obj.index > 0 => abs.moved
    /\ abs.moved => obj.index = 8 \/ obj.index \in InUse(obj.set) \ {0}
    /\ obj.hangs => obj.index = 0 /\ obj.set.items[0] = 0

ItrInv ==
    /\ subject = "iterator" /\ IsItr(obj)
    /\ abs = [since |-> abs.since, stood |-> abs.stood, moved |-> abs.moved] /\ abs.moved \in BOOLEAN
    /\ abs.since \subseteq InUse(obj.set)
    /\ abs.since \cap (1 .. obj.index - 1) \subseteq abs.stood
    /\ ItrStands

\* A table of the iterator's walk has eight slots.
LEMMA EightSlots ==
    ASSUME NEW s, IsTable(s)
    PROVE  Capacity(s) = 8
<1>1. s.nbits = 3
  BY DEF IsTable
<1>2. Capacity(s) = 2^3
  BY <1>1 DEF Capacity
<1>3. 2^3 = 8
  BY SMT
<1> QED
  BY <1>2, <1>3

\* The next slot in use
LEMMA Advances ==
    ASSUME NEW s, IsTable(s), NEW index \in 0 .. 7
    PROVE  LET j == Advanced(s, index)
           IN  /\ j \in index + 1 .. 8 /\ (j = 8 \/ j \in InUse(s))
               /\ \A k \in index + 1 .. j - 1 : k \notin InUse(s)
<1> DEFINE next == {k \in index + 1 .. 7 : s.items[k] # 0}
           j == Advanced(s, index)
<1>1. j = IF next = {} THEN 8 ELSE CHOOSE k \in next : \A l \in next : k <= l
  <2>1. Capacity(s) = 8 /\ Capacity(s) - 1 = 7
    BY EightSlots
  <2> QED
    BY <2>1 DEF Advanced
<1> HIDE DEF j
<1>2. CASE next = {}
  BY <1>1, <1>2 DEF InUse, j
<1>3. CASE next # {}
  <2>1. next \subseteq Nat
    OBVIOUS
  <2>2. \E k \in next : \A l \in next : k <= l
    <3> HIDE DEF next
    <3> QED
      BY <1>3, <2>1, LeastNumber, Zenon
  <2>3. j \in next /\ \A l \in next : j <= l
    <3> HIDE DEF next
    <3> QED
      BY <1>1, <1>3, <2>2
  <2>4. j \in index + 1 .. 7 /\ s.items[j] # 0
    BY <2>3
  <2>5. ASSUME NEW k \in index + 1 .. j - 1 PROVE k \notin InUse(s)
    <3>1. k \in index + 1 .. 7 /\ k < j
      BY <2>4, <2>5
    <3>2. k \notin next
      BY <2>3, <2>4, <3>1
    <3> QED
      BY <3>1, <3>2 DEF InUse
  <2> QED
    BY <2>4, <2>5 DEF InUse, j
<1> QED
  BY <1>2, <1>3

\* hashset_iterator_next stays, moves to the next slot in use, or hangs.
LEMMA NextsTo ==
    ASSUME NEW o, IsItr(o), ~o.hangs, o.index \in 0 .. 8
    PROVE  LET p == Nexted(o)
           IN  /\ IsItr(p) /\ p.set = o.set /\ p.index \in o.index .. 8
               /\ ~p.hangs => /\ p.index # o.index => p.index = 8 \/ p.index \in InUse(o.set)
                             /\ \A k \in o.index + 1 .. p.index - 1 : k \notin InUse(o.set)
               /\ p.hangs => p.index = o.index /\ o.index < 7 /\ o.set.items[o.index] = 0
<1> DEFINE j == Advanced(o.set, o.index)
           yes == TRUE
           a == [o EXCEPT !.index = j]
           h == [o EXCEPT !.hangs = yes]
<1>1. Capacity(o.set) = 8 /\ Capacity(o.set) - 1 = 7 /\ IsTable(o.set)
  BY EightSlots DEF IsItr
<1>2. \/ Nexted(o) = o
      \/ Nexted(o) = a /\ o.index < 7
      \/ Nexted(o) = h /\ o.index < 7 /\ o.set.items[o.index] = 0
  <2> DEFINE r == hashset_iterator_has_next(o.set, o.index)
  <2>1. r = 0 \/ (r = 1 /\ o.index < 7) \/ (r = 2 /\ o.index < 7 /\ o.set.items[o.index] = 0)
    BY <1>1 DEF hashset_iterator_has_next, Hangs
  <2>2. /\ r = 0 => Nexted(o) = o
        /\ r = 1 => Nexted(o) = a
        /\ r = 2 => Nexted(o) = h
    <3> HIDE DEF r, j
    <3> QED
      BY DEF Nexted, r, j
  <2> HIDE DEF r, a, h
  <2> QED
    BY <2>1, <2>2
<1>3. o.index < 7 => /\ j \in o.index + 1 .. 8 /\ (j = 8 \/ j \in InUse(o.set))
                     /\ \A k \in o.index + 1 .. j - 1 : k \notin InUse(o.set)
  BY <1>1, Advances
<1> HIDE DEF j, yes
<1>4. a = [set |-> o.set, index |-> j, hangs |-> o.hangs]
  BY DEF IsItr
<1>5. h = [set |-> o.set, index |-> o.index, hangs |-> yes]
  BY DEF IsItr
<1> HIDE DEF a, h
<1>6. IsItr(a) /\ a.set = o.set /\ a.index = j /\ ~a.hangs
  BY <1>4 DEF IsItr
<1>7. h.set = o.set /\ h.index = o.index /\ h.hangs = yes /\ h = [set |-> h.set, index |-> h.index, hangs |-> h.hangs]
  BY <1>5
<1>8. IsItr(h) /\ h.hangs
  BY <1>1, <1>7, Zenon DEF IsItr, yes
<1>9. CASE Nexted(o) = o
  BY <1>9
<1>10. CASE Nexted(o) = a /\ o.index < 7
  BY <1>3, <1>6, <1>10
<1>11. CASE Nexted(o) = h /\ o.index < 7 /\ o.set.items[o.index] = 0
  BY <1>7, <1>8, <1>11
<1> QED
  BY <1>2, <1>9, <1>10, <1>11, Zenon

\* hashset_iterator_create on a new set
LEMMA ItrInitInv == ItrInit => ItrInv
<1> SUFFICES ASSUME ItrInit PROVE ItrInv
  OBVIOUS
<1> DEFINE s == hashset_create
<1>1. s = [nbits |-> 3, items |-> [i \in 0 .. 7 |-> 0], nitems |-> 0]
  BY DEF hashset_create
<1>2. IsTable(s)
  BY <1>1 DEF IsTable
<1> HIDE DEF s
<1>3. obj = [set |-> s, index |-> -1, hangs |-> FALSE] /\ subject = "iterator"
  BY DEF ItrInit, s
<1>4. obj.set = s /\ obj.index = -1 /\ obj.hangs = FALSE
  BY <1>3
<1>5. abs = [since |-> {}, stood |-> {}, moved |-> FALSE]
  BY DEF ItrInit
<1>6. abs.since = {} /\ abs.stood = {} /\ abs.moved = FALSE
  BY <1>5
<1>7. IsItr(obj)
  BY <1>2, <1>3, <1>4 DEF IsItr
<1>8. ItrStands
  BY <1>4, <1>6 DEF ItrStands
<1> QED
  BY <1>3, <1>5, <1>6, <1>7, <1>8 DEF ItrInv

\* Items come and go: no slot that is in use becomes unused.
LEMMA TableChanges ==
    ASSUME ItrInv, ~obj.hangs, NEW s, IsTable(s), InUse(obj.set) \subseteq InUse(s),
           obj' = [obj EXCEPT !.set = s], abs' = abs, subject' = subject
    PROVE  ItrInv'
<1>1. obj' = [set |-> s, index |-> obj.index, hangs |-> obj.hangs]
  BY DEF ItrInv, IsItr
<1>2. obj'.set = s /\ obj'.index = obj.index /\ obj'.hangs = obj.hangs
  BY <1>1
<1>3. IsItr(obj')
  BY <1>1, <1>2 DEF ItrInv, IsItr
<1>4. ItrStands'
  BY <1>2 DEF ItrInv, ItrStands
<1> QED
  BY <1>2, <1>3, <1>4 DEF ItrInv

\* hashset_add before and during a walk
LEMMA ItrAddInv ==
    ASSUME ItrInv, ~obj.hangs, NEW v, ItrAdd(v)
    PROVE  ItrInv'
<1> DEFINE s == obj.set
           i == Landing(s, v, Free \cup {v})
           n == s.nitems + 1
           items == [s.items EXCEPT ![i] = v]
           a == [s EXCEPT !.items = items]
           b == [a EXCEPT !.nitems = n]
           t == AddMember(s, v)
<1>1. obj' = [obj EXCEPT !.set = t] /\ abs' = abs /\ subject' = subject
  BY DEF ItrAdd, Becomes
<1>2. IsTable(s)
  BY DEF ItrInv, IsItr
<1>3. a.nitems = s.nitems
  BY <1>2 DEF IsTable
<1>4. t = s \/ (t = b /\ v # 0)
  BY <1>3 DEF AddMember, Free
<1> HIDE DEF t, i, n, s
<1>5. /\ items = [k \in 0 .. 7 |-> items[k]]
      /\ v # 0 => \A k \in 0 .. 7 : s.items[k] # 0 => items[k] # 0
  BY <1>2 DEF IsTable
<1> HIDE DEF items
<1>6. a = [nbits |-> 3, items |-> items, nitems |-> s.nitems]
  BY <1>2 DEF IsTable
<1> HIDE DEF a
<1>7. b = [nbits |-> 3, items |-> items, nitems |-> n]
  BY <1>6
<1> HIDE DEF b
<1>8. b.items = items /\ IsTable(b)
  BY <1>5, <1>7 DEF IsTable
<1>9. IsTable(t) /\ InUse(s) \subseteq InUse(t)
  BY <1>2, <1>4, <1>5, <1>8 DEF InUse
<1> QED
  BY <1>1, <1>9, TableChanges DEF s

\* hashset_remove before and during a walk
LEMMA ItrRemoveInv ==
    ASSUME ItrInv, ~obj.hangs, NEW v, ItrRemove(v)
    PROVE  ItrInv'
<1> DEFINE s == obj.set
           n == s.nitems - 1
<1>1. IsTable(s) /\ IsItr(obj)
  BY DEF ItrInv, IsItr
<1>2. PICK k \in 0 .. Capacity(s) - 1 :
          Becomes([obj EXCEPT !.set.items[k] = Deleted, !.set.nitems = @ - 1], abs)
  BY Zenon DEF ItrRemove
<1> DEFINE items == [s.items EXCEPT ![k] = 1]
           a == [s EXCEPT !.items = items]
           b == [a EXCEPT !.nitems = n]
           o == [obj EXCEPT !.set = a]
<1>3. o = [set |-> a, index |-> obj.index, hangs |-> obj.hangs]
  BY <1>1 DEF IsItr
<1>4. o.set = a /\ a.nitems = s.nitems
  BY <1>1, <1>3 DEF IsTable
<1>5. obj' = [o EXCEPT !.set = b] /\ abs' = abs /\ subject' = subject
  BY <1>2, <1>4 DEF Becomes, Deleted
<1> HIDE DEF n, s
<1>6. /\ items = [l \in 0 .. 7 |-> items[l]]
      /\ \A l \in 0 .. 7 : s.items[l] # 0 => items[l] # 0
  BY <1>1 DEF IsTable
<1> HIDE DEF items
<1>7. a = [nbits |-> 3, items |-> items, nitems |-> s.nitems]
  BY <1>1 DEF IsTable
<1> HIDE DEF a, o
<1>8. b = [nbits |-> 3, items |-> items, nitems |-> n]
  BY <1>7
<1> HIDE DEF b
<1>9. b.items = items /\ IsTable(b)
  BY <1>6, <1>8 DEF IsTable
<1>10. InUse(s) \subseteq InUse(b)
  BY <1>6, <1>9 DEF InUse
<1>11. obj' = [obj EXCEPT !.set = b]
  <2>1. obj' = [set |-> b, index |-> obj.index, hangs |-> obj.hangs]
    BY <1>3, <1>5
  <2> QED
    BY <1>1, <2>1 DEF IsItr
<1> QED
  BY <1>5, <1>9, <1>10, <1>11, TableChanges, Zenon DEF s

\* The iterator stands where a call leaves it.
LEMMA StandsOnInv ==
    ASSUME ItrInv, ~obj.hangs, NEW p, StandsOn(p), IsItr(p), p.set = obj.set,
           NEW from, from = (IF obj.index = -1 THEN 0 ELSE obj.index), p.index \in from .. 8,
           ~p.hangs => /\ p.index # from => p.index = 8 \/ p.index \in InUse(obj.set)
                       /\ \A k \in from + 1 .. p.index - 1 : k \notin InUse(obj.set),
           p.hangs => p.index = from /\ from < 7 /\ obj.set.items[from] = 0
    PROVE  ItrInv'
<1> DEFINE since == IF obj.index >= 0 THEN abs.since ELSE {k \in 0 .. Capacity(p.set) - 1 : p.set.items[k] # 0}
           stood == IF p.hangs THEN abs.stood ELSE abs.stood \cup {p.index}
           moved == abs.moved \/ p.index > 0
<1>1. obj' = p /\ abs' = [since |-> since, stood |-> stood, moved |-> moved] /\ subject' = subject
  BY Zenon DEF StandsOn, Becomes
<1>2. Capacity(p.set) - 1 = 7
  BY EightSlots DEF IsItr
<1>3. since = IF obj.index >= 0 THEN abs.since ELSE InUse(obj.set)
  BY <1>2 DEF InUse
<1>4. moved \in BOOLEAN /\ (moved <=> abs.moved \/ p.index > 0)
  OBVIOUS
<1> HIDE DEF since, stood, moved
<1>5. abs'.since = since /\ abs'.stood = stood /\ abs'.moved = moved
  BY <1>1
<1>6. obj.index \in -1 .. 8 /\ from \in 0 .. 8 /\ (obj.index # -1 => from = obj.index)
  BY DEF ItrInv, ItrStands
<1>7. p.hangs \in BOOLEAN /\ p.index \in 0 .. 8
  BY <1>6 DEF IsItr
<1>8. since \subseteq InUse(obj.set)
  BY <1>3 DEF ItrInv
<1>9. since \cap (1 .. p.index - 1) \subseteq stood
  <2> SUFFICES ASSUME NEW k \in since, k \in 1 .. p.index - 1
               PROVE  k \in stood
    OBVIOUS
  <2>1. CASE p.hangs
    <3>1. p.index = from /\ from # 0 /\ obj.index = from
      BY <1>6, <1>7, <2>1
    <3>2. k \in abs.since /\ k \in 1 .. obj.index - 1
      BY <1>3, <1>6, <3>1
    <3> QED
      BY <2>1, <3>2 DEF ItrInv, stood
  <2>2. CASE ~p.hangs
    <3>1. k \in InUse(obj.set)
      BY <1>8
    <3>2. k <= from
      BY <1>6, <1>7, <2>2, <3>1
    <3>3. obj.index = from /\ k \in abs.since
      BY <1>3, <1>6, <1>7, <3>2
    <3>4. k = obj.index => k \in abs.stood
      BY <1>6, <3>2, <3>3, SMTT(40) DEF ItrInv, ItrStands
    <3>5. k # obj.index => k \in abs.stood
      BY <1>6, <3>2, <3>3 DEF ItrInv
    <3> QED
      BY <2>2, <3>4, <3>5 DEF stood
  <2> QED
    BY <1>7, <2>1, <2>2
<1>10. abs.moved => obj.index = 8 \/ obj.index \in InUse(obj.set) \ {0}
  BY DEF ItrInv, ItrStands
<1>11. obj.index > 0 => abs.moved
  BY DEF ItrInv, ItrStands
<1>12. moved => p.index = 8 \/ p.index \in InUse(obj.set) \ {0}
  <2> SUFFICES ASSUME moved
               PROVE  p.index = 8 \/ p.index \in InUse(obj.set) \ {0}
    OBVIOUS
  <2>1. CASE p.index = from
    <3>1. abs.moved /\ obj.index = from
      BY <1>4, <1>6, <1>7, <1>10, <1>11, <2>1, SMTT(40) DEF InUse
    <3> QED
      BY <1>10, <2>1, <3>1
  <2>2. CASE p.index # from
    BY <1>6, <1>7, <2>2
  <2> QED
    BY <2>1, <2>2
<1>13. p.hangs => p.index = 0 /\ obj.set.items[0] = 0
  <2> SUFFICES ASSUME p.hangs
               PROVE  from = 0
    BY <1>6
  <2>1. CASE obj.index > 0
    <3>1. obj.index \in InUse(obj.set)
      BY <1>6, <1>10, <1>11, <2>1
    <3> QED
      BY <1>6, <2>1, <3>1 DEF InUse
  <2>2. CASE ~(obj.index > 0)
    BY <1>6, <2>2
  <2> QED
    BY <2>1, <2>2
<1>14. ItrStands'
  <2>1. obj'.index \in -1 .. 8
    BY <1>1, <1>7
  <2>2. obj'.index >= 0 /\ ~obj'.hangs => obj'.index \in abs'.stood
    BY <1>1, <1>5, Zenon DEF stood
  <2>3. obj'.index > 0 => abs'.moved
    BY <1>1, <1>4, <1>5
  <2>4. abs'.moved => obj'.index = 8 \/ obj'.index \in InUse(obj'.set) \ {0}
    BY <1>1, <1>5, <1>12
  <2>5. obj'.hangs => obj'.index = 0 /\ obj'.set.items[0] = 0
    BY <1>1, <1>13
  <2> QED
    BY <2>1, <2>2, <2>3, <2>4, <2>5 DEF ItrStands
<1>15. abs' = [since |-> abs'.since, stood |-> abs'.stood, moved |-> abs'.moved]
  BY <1>1, <1>5
<1> QED
  BY <1>1, <1>4, <1>5, <1>8, <1>9, <1>14, <1>15 DEF ItrInv

\* The three calls of the iterator
LEMMA IteratorInv ==
    ASSUME ItrInv, ~obj.hangs, hashset_iterator \/ hashset_iterator_next \/ hashset_iterator_value
    PROVE  ItrInv'
<1>0. IsItr(obj) /\ obj.index \in -1 .. 8
  BY DEF ItrInv, ItrStands
<1>1. CASE hashset_iterator
  <2> DEFINE o == [obj EXCEPT !.index = 0]
             p == IF obj.set.nitems > 0 THEN Nexted(o) ELSE o
  <2>1. StandsOn(p) /\ obj.index = -1
    BY <1>1 DEF hashset_iterator
  <2>2. o = [set |-> obj.set, index |-> 0, hangs |-> obj.hangs]
    BY <1>0 DEF IsItr
  <2> HIDE DEF o
  <2>3. IsItr(o) /\ o.set = obj.set /\ o.index = 0 /\ ~o.hangs /\ o.index \in 0 .. 8
    BY <1>0, <2>2 DEF IsItr
  <2>4. /\ IsItr(p) /\ p.set = obj.set /\ p.index \in 0 .. 8
        /\ ~p.hangs => /\ p.index # 0 => p.index = 8 \/ p.index \in InUse(obj.set)
                      /\ \A k \in 0 + 1 .. p.index - 1 : k \notin InUse(obj.set)
        /\ p.hangs => p.index = 0 /\ 0 < 7 /\ obj.set.items[0] = 0
    <3>1. CASE p = o
      <4> HIDE DEF p
      <4> QED
        BY <2>3, <3>1
    <3>2. CASE p = Nexted(o)
      <4> HIDE DEF p
      <4> QED
        BY <2>3, <3>2, NextsTo
    <3> QED
      BY <3>1, <3>2, Zenon
  <2> HIDE DEF p
  <2> QED
    BY <2>1, <2>4, StandsOnInv
<1>2. ASSUME NEW p, p = obj \/ p = Nexted(obj), StandsOn(p), obj.index \in 0 .. 8
      PROVE  ItrInv'
  <2>1. /\ IsItr(p) /\ p.set = obj.set /\ p.index \in obj.index .. 8
        /\ ~p.hangs => /\ p.index # obj.index => p.index = 8 \/ p.index \in InUse(obj.set)
                      /\ \A k \in obj.index + 1 .. p.index - 1 : k \notin InUse(obj.set)
        /\ p.hangs => p.index = obj.index /\ obj.index < 7 /\ obj.set.items[obj.index] = 0
    <3>1. CASE p = obj
      BY <1>0, <1>2, <3>1
    <3>2. CASE p = Nexted(obj)
      BY <1>0, <1>2, <3>2, NextsTo
    <3> QED
      BY <1>2, <3>1, <3>2, Zenon
  <2>2. obj.index = (IF obj.index = -1 THEN 0 ELSE obj.index)
    BY <1>2
  <2> QED
    BY <1>2, <2>1, <2>2, StandsOnInv
<1>3. CASE hashset_iterator_next
  <2>1. StandsOn(Nexted(obj)) /\ obj.index \in 0 .. 8
    BY <1>0, <1>3 DEF hashset_iterator_next
  <2> QED
    BY <1>2, <2>1
<1>4. CASE hashset_iterator_value
  <2> DEFINE p == IF obj.set.items[obj.index] = 0 THEN Nexted(obj) ELSE obj
  <2>1. StandsOn(p)
    BY <1>4 DEF hashset_iterator_value
  <2>2. obj.index \in 0 .. 8
    <3>1. Capacity(obj.set) = 8
      BY <1>0, EightSlots DEF IsItr
    <3> QED
      BY <1>4, <3>1 DEF hashset_iterator_value
  <2>3. p = obj \/ p = Nexted(obj)
    OBVIOUS
  <2> HIDE DEF p
  <2> QED
    BY <1>2, <2>1, <2>2, <2>3
<1> QED
  BY <1>1, <1>3, <1>4

\* Nothing is called.
LEMMA ItrStutters ==
    ASSUME ItrInv, UNCHANGED subjectVars
    PROVE  ItrInv'
<1>1. obj' = obj /\ abs' = abs /\ subject' = subject
  BY DEF subjectVars
<1>2. ItrStands'
  BY <1>1 DEF ItrInv, ItrStands
<1> QED
  BY <1>1, <1>2 DEF ItrInv, IsItr

\* Whatever items are added and removed between the calls: an iterator of a table
\* of eight slots stands on each slot that was in use when it was made, but
\* slot 0; once advanced it never hangs, and it hangs only at an empty slot 0.
THEOREM IteratorVisits == ItrSpec => []ItrVisits
<1>1. ItrInv /\ [ItrNext]_subjectVars => ItrInv'
  BY ItrAddInv, ItrRemoveInv, IteratorInv, ItrStutters DEF ItrNext
<1>2. ItrInv => ItrVisits
  BY DEF ItrInv, ItrStands, ItrVisits, InUse
<1> QED
  BY <1>1, <1>2, ItrInitInv, PTL DEF ItrSpec
=============================================================================
