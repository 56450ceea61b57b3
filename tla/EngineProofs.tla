---------------------------- MODULE EngineProofs ----------------------------
(***************************************************************************)
(* Parts of the engine around the evaluation of a mutant.                  *)
(*                                                                         *)
(* startprogram and startMake leave no child behind and tell how it ended, *)
(* for any time limit and any exit codes.  Neither is inductive: what is   *)
(* returned in the end depends on what the child's state records of its    *)
(* end, and on a kill coming only after the last poll.  SupInv says so.    *)
(*                                                                         *)
(* What run.sh saves with a program is its own, and what the controller    *)
(* measures is the original, wherever either is ended and started again    *)
(* (RunInv).                                                               *)
(*                                                                         *)
(* The search for higher-order mutants (HOMs) stays in its arrays,         *)
(* evaluates what it combines and ends without a result, or with those of  *)
(* its last round, for any first-order mutants (FOMs) and lines.  HomInv   *)
(* counts the partners a round has tried and the failures so far.          *)
(*                                                                         *)
(* The statistics of gstats.xml have a section of their own at the end.    *)
(***************************************************************************)
EXTENDS HomSearch, Supervisor, EngineRuns, GStats, TLAPS

-----------------------------------------------------------------------------
(* generateSubsumingHOMs *)

HomSpec == HomInit /\ [][HomNext]_subjectVars

\* Partners of the first FOM that the round has tried
Tried(o) == IF o.r < o.at THEN o.at - 1 ELSE o.at

\* The FOMs of a HOM of this round
IsHom(o, f) ==
    /\ f \in Seq(Foms(o)) /\ 2 <= Len(f) /\ Len(f) <= Tried(o) + 1
    /\ \A i, j \in 1 .. Len(f) : f[i] = f[j] => i = j
    /\ f[1] = o.r
    /\ \A i \in 2 .. Len(f) : f[i] < o.at

HomTypeOK ==
    /\ subject = "homsearch"
    /\ obj = [n |-> obj.n, line |-> obj.line, killers |-> obj.killers, log |-> obj.log, r |-> obj.r,
              at |-> obj.at, optimum |-> obj.optimum, no_new_optimum |-> obj.no_new_optimum,
              hom_list_counter |-> obj.hom_list_counter, hom_list_size |-> obj.hom_list_size,
              ended |-> obj.ended]
    /\ obj.n \in Nat \ {0} /\ obj.r \in Foms(obj) /\ obj.at \in 0 .. obj.n
    /\ DOMAIN obj.line = Foms(obj)
    /\ obj.no_new_optimum \in Nat /\ obj.hom_list_counter \in Nat /\ obj.hom_list_size \in Nat \ {0}
    /\ obj.ended \in BOOLEAN
    /\ abs = [tmp |-> abs.tmp, built |-> abs.built, ran |-> abs.ran] /\ abs.ran \in BOOLEAN

HomArrays ==
    /\ obj.hom_list_counter <= obj.hom_list_size
    /\ obj.optimum = NoHom \/ IsHom(obj, obj.optimum.foms)

\* Every round begins with less than 2 n failures.
HomCounted ==
    /\ obj.log = NoLog => obj.hom_list_counter = 0 /\ obj.optimum = NoHom
    /\ \/ obj.no_new_optimum < 2 * obj.n
       \/ obj.hom_list_counter + obj.no_new_optimum <= 2 * obj.n - 1 + Tried(obj)
    /\ obj.ended => obj.at = obj.n /\ obj.no_new_optimum >= 2 * obj.n

\* While every script was started: the search has a log before it can end, or it
\* has not begun, or the lines seen in the first round are all one line, or all are.
HomRan ==
    abs.ran =>
        \/ obj.log # NoLog /\ obj.no_new_optimum < 2 * obj.n
        \/ obj.log = NoLog
           /\ \/ obj.at = obj.n /\ obj.no_new_optimum = 0
              \/ /\ \A x \in Foms(obj) : x < obj.at => obj.line[x] = obj.line[obj.r]
                 /\ obj.no_new_optimum <= obj.at
              \/ \A x, y \in Foms(obj) : obj.line[x] = obj.line[y]

HomInv == HomTypeOK /\ HomArrays /\ HomCredited /\ HomCounted /\ HomRan

\* The array of HOMs that the search allocates has room.
LEMMA PowerOfTwo ==
    ASSUME NEW n \in 1 .. 30
    PROVE  2^n \in Nat \ {0}
<1> DEFINE p(m) == 2^m
<1>1. \/ n = 1 \/ n = 2 \/ n = 3 \/ n = 4 \/ n = 5 \/ n = 6 \/ n = 7 \/ n = 8 \/ n = 9 \/ n = 10
      \/ n = 11 \/ n = 12 \/ n = 13 \/ n = 14 \/ n = 15 \/ n = 16 \/ n = 17 \/ n = 18 \/ n = 19
      \/ n = 20 \/ n = 21 \/ n = 22 \/ n = 23 \/ n = 24 \/ n = 25 \/ n = 26 \/ n = 27 \/ n = 28
      \/ n = 29 \/ n = 30
  OBVIOUS
<1>2. /\ p(1) > 0 /\ p(2) > 0 /\ p(3) > 0 /\ p(4) > 0 /\ p(5) > 0 /\ p(6) > 0 /\ p(7) > 0
      /\ p(8) > 0 /\ p(9) > 0 /\ p(10) > 0 /\ p(11) > 0 /\ p(12) > 0 /\ p(13) > 0 /\ p(14) > 0
      /\ p(15) > 0 /\ p(16) > 0 /\ p(17) > 0 /\ p(18) > 0 /\ p(19) > 0 /\ p(20) > 0 /\ p(21) > 0
      /\ p(22) > 0 /\ p(23) > 0 /\ p(24) > 0 /\ p(25) > 0 /\ p(26) > 0 /\ p(27) > 0 /\ p(28) > 0
      /\ p(29) > 0 /\ p(30) > 0
  OBVIOUS
<1>3. p(n) \in Int
  OBVIOUS
<1> HIDE DEF p
<1>4. p(n) \in Nat \ {0}
  BY <1>1, <1>2, <1>3
<1> QED
  BY <1>4 DEF p

\* The search begins with an empty list of HOMs.
LEMMA HomInitInv == HomInit => HomInv
<1> SUFFICES ASSUME HomInit PROVE HomInv
  OBVIOUS
<1>1. PICK n \in HomFoms : \E line \in [0 .. n - 1 -> HomLines], killers \in [0 .. n - 1 -> HomKillers] :
          obj = [n |-> n, line |-> line, killers |-> killers, log |-> NoLog, r |-> 0, at |-> n,
                 optimum |-> NoHom, no_new_optimum |-> 0,
                 hom_list_counter |-> 0, hom_list_size |-> 2^n, ended |-> FALSE]
  BY Zenon DEF HomInit
<1>2. n \in Nat \ {0} /\ 2^n \in Nat \ {0}
  <2>1. n \in 1 .. 30
    BY HomFomsAssumption
  <2>2. 2^n \in Nat \ {0}
    BY <2>1, PowerOfTwo, Zenon
  <2> QED
    BY <2>1, <2>2
<1>3. /\ obj.n = n /\ DOMAIN obj.line = 0 .. n - 1 /\ obj.log = NoLog /\ obj.r = 0 /\ obj.at = n
      /\ obj.optimum = NoHom /\ obj.no_new_optimum = 0 /\ obj.hom_list_counter = 0
      /\ obj.hom_list_size = 2^n /\ obj.ended = FALSE
  BY <1>1
<1>4. abs = [tmp |-> <<>>, built |-> <<>>, ran |-> TRUE] /\ subject = "homsearch"
  BY Zenon DEF HomInit
<1>5. HomTypeOK
  BY <1>1, <1>2, <1>3, <1>4 DEF HomTypeOK, Foms
<1> QED
  BY <1>2, <1>3, <1>4, <1>5 DEF HomInv, HomArrays, HomCredited, HomCounted, HomRan

\* A round begins, or the search ends.
LEMMA NextRoundInv ==
    ASSUME HomInv, NextRound, ~obj.ended
    PROVE  HomInv'
<1> USE DEF HomInv
<1>0. obj.n \in Nat /\ obj.at = obj.n /\ obj.no_new_optimum \in Nat /\ obj.hom_list_counter \in Nat
  BY Zenon DEF HomTypeOK, NextRound
<1>1. CASE obj.no_new_optimum < obj.n * 2
  <2>1. PICK r \in Foms(obj) : Becomes([obj EXCEPT !.r = r, !.at = 0, !.optimum = NoHom], abs)
    BY <1>1, Zenon DEF NextRound
  <2>2. /\ obj' = [n |-> obj.n, line |-> obj.line, killers |-> obj.killers, log |-> obj.log, r |-> r,
              at |-> 0, optimum |-> NoHom, no_new_optimum |-> obj.no_new_optimum,
              hom_list_counter |-> obj.hom_list_counter, hom_list_size |-> obj.hom_list_size,
              ended |-> obj.ended]
        /\ abs' = abs /\ subject' = subject
    BY <2>1, Zenon DEF Becomes, HomTypeOK
  <2>3. /\ obj'.n = obj.n /\ obj'.line = obj.line /\ obj'.log = obj.log /\ obj'.r = r /\ obj'.at = 0
        /\ obj'.optimum = NoHom /\ obj'.no_new_optimum = obj.no_new_optimum
        /\ obj'.hom_list_counter = obj.hom_list_counter /\ obj'.hom_list_size = obj.hom_list_size
        /\ obj'.ended = obj.ended /\ Foms(obj') = Foms(obj)
    BY <2>2, Zenon DEF Foms
  <2>4. HomTypeOK' /\ HomArrays' /\ HomCredited'
    BY <2>2, <2>3, <1>0 DEF HomTypeOK, HomArrays, HomCredited
  <2>5. HomCounted'
    BY <1>0, <1>1, <2>3 DEF HomCounted
  <2>6. HomRan'
    <3> SUFFICES ASSUME abs.ran, obj.log = NoLog
                 PROVE  \/ \A x \in Foms(obj) : x < 0 => obj.line[x] = obj.line[r]
                           /\ obj.no_new_optimum <= 0
                        \/ \A x, y \in Foms(obj) : obj.line[x] = obj.line[y]
      BY <1>0, <1>1, <2>2, <2>3 DEF HomRan, Foms
    <3>1. \A x \in Foms(obj) : x < obj.n
      BY <1>0 DEF Foms
    <3> QED
      BY <1>0, <3>1 DEF HomRan, Foms
  <2> QED
    BY <2>4, <2>5, <2>6
<1>2. CASE ~(obj.no_new_optimum < obj.n * 2)
  <2>2. /\ obj' = [n |-> obj.n, line |-> obj.line, killers |-> obj.killers, log |-> obj.log, r |-> obj.r,
              at |-> obj.at, optimum |-> obj.optimum, no_new_optimum |-> obj.no_new_optimum,
              hom_list_counter |-> obj.hom_list_counter, hom_list_size |-> obj.hom_list_size,
              ended |-> TRUE]
        /\ abs' = abs /\ subject' = subject
    BY <1>2 DEF NextRound, Becomes, HomTypeOK
  <2>3. /\ obj'.n = obj.n /\ obj'.line = obj.line /\ obj'.log = obj.log /\ obj'.r = obj.r /\ obj'.at = obj.at
        /\ obj'.optimum = obj.optimum /\ obj'.no_new_optimum = obj.no_new_optimum
        /\ obj'.hom_list_counter = obj.hom_list_counter /\ obj'.hom_list_size = obj.hom_list_size
        /\ obj'.ended = TRUE /\ Foms(obj') = Foms(obj) /\ Tried(obj') = Tried(obj)
    BY <2>2, Zenon DEF Foms, Tried
  <2>4. HomTypeOK' /\ HomCredited'
    BY <2>2, <2>3, <1>0, Zenon DEF HomTypeOK, HomCredited
  <2>5. HomArrays'
    BY <2>3, Zenon DEF HomArrays, IsHom
  <2>6. HomCounted'
    BY <1>0, <1>2, <2>3 DEF HomCounted
  <2>7. HomRan'
    <3>1. abs'.ran = abs.ran
      BY <2>2
    <3> SUFFICES ASSUME abs.ran PROVE HomRan'
      BY <3>1, Zenon DEF HomRan
    <3> QED
      BY <2>3 DEF HomRan
  <2> QED
    BY <2>4, <2>5, <2>6, <2>7
<1> QED
  BY <1>1, <1>2

\* The HOM of the round stays one when the round goes on.
LEMMA StillHom ==
    ASSUME NEW o, NEW q, NEW f, IsHom(o, f), q.n = o.n, q.r = o.r, q.at = o.at + 1,
           o.n \in Nat, o.r \in Nat, o.at \in Nat
    PROVE  IsHom(q, f) /\ Tried(q) >= Tried(o) /\ Tried(o) \in Int /\ Tried(q) \in Int
<1>1. Foms(q) = Foms(o)
  BY DEF Foms
<1>2. Tried(q) >= Tried(o) /\ Tried(o) \in Int /\ Tried(q) \in Int
  BY DEF Tried
<1>3. f \in Seq(Foms(q)) /\ 2 <= Len(f) /\ Len(f) <= Tried(q) + 1 /\ Len(f) \in Nat
  BY <1>1, <1>2 DEF IsHom
<1>4. ASSUME NEW i \in 2 .. Len(f) PROVE f[i] < q.at
  <2>1. f[i] \in Foms(o) /\ f[i] < o.at
    BY <1>3 DEF IsHom
  <2>2. f[i] \in Int
    BY <2>1 DEF Foms
  <2> QED
    BY <2>1, <2>2
<1> QED
  BY <1>2, <1>3, <1>4 DEF IsHom

\* "Make sure that we do not combine the same FOMs"
LEMMA SkipInv ==
    ASSUME HomInv, SkipItself, ~obj.ended
    PROVE  HomInv'
<1> USE DEF HomInv
<1>0. /\ obj.n \in Nat /\ obj.at = obj.r /\ obj.at \in Nat /\ obj.at < obj.n /\ obj.r \in Foms(obj)
      /\ obj.no_new_optimum \in Nat /\ obj.hom_list_counter \in Nat
  BY DEF HomTypeOK, SkipItself, Partners, Foms
<1>2. /\ obj' = [n |-> obj.n, line |-> obj.line, killers |-> obj.killers, log |-> obj.log, r |-> obj.r,
            at |-> obj.at + 1, optimum |-> obj.optimum, no_new_optimum |-> obj.no_new_optimum,
            hom_list_counter |-> obj.hom_list_counter, hom_list_size |-> obj.hom_list_size,
            ended |-> obj.ended]
      /\ abs' = abs /\ subject' = subject
  BY DEF SkipItself, Becomes, HomTypeOK
<1>3. /\ obj'.n = obj.n /\ obj'.line = obj.line /\ obj'.log = obj.log /\ obj'.r = obj.r
      /\ obj'.at = obj.at + 1
      /\ obj'.optimum = obj.optimum /\ obj'.no_new_optimum = obj.no_new_optimum
      /\ obj'.hom_list_counter = obj.hom_list_counter /\ obj'.hom_list_size = obj.hom_list_size
      /\ obj'.ended = obj.ended /\ Foms(obj') = Foms(obj) /\ Tried(obj') = Tried(obj)
  BY <1>0, <1>2 DEF Foms, Tried
<1>4. HomTypeOK' /\ HomCredited'
  <2>1. obj.at + 1 \in 0 .. obj.n
    BY <1>0
  <2> QED
    BY <2>1, <1>2, <1>3, Zenon DEF HomTypeOK, HomCredited
<1>5. HomArrays'
  <2>1. obj.optimum = NoHom \/ IsHom(obj', obj.optimum.foms)
    BY <1>0, <1>3, StillHom DEF HomArrays
  <2> QED
    BY <1>3, <2>1 DEF HomArrays
<1>6. HomCounted'
  BY <1>3 DEF HomCounted
<1>7. HomRan'
  <2>1. \A x \in Foms(obj) : x < obj.at + 1 => x < obj.at \/ x = obj.r
    BY <1>0 DEF Foms
  <2> QED
    BY <1>0, <1>2, <1>3, <2>1 DEF HomRan
<1> QED
  BY <1>4, <1>5, <1>6, <1>7
\* The next HOM: the FOMs of the round's best one, or its first FOM, and one more.
LEMMA CombinedOk ==
    ASSUME HomTypeOK, HomArrays, obj.at \in Partners(obj),
           NEW q, q.n = obj.n, q.r = obj.r, q.at = obj.at + 1
    PROVE  /\ IsHom(q, Combined(obj)) /\ Combined(obj) # <<>>
           /\ obj.optimum = NoHom => Combined(obj) = <<obj.r, obj.at>>
<1> DEFINE f == Combined(obj)
<1>0. /\ obj.n \in Nat /\ obj.at \in Nat /\ obj.r \in Nat /\ obj.r < obj.n /\ obj.at < obj.n
      /\ obj.at # obj.r /\ obj.at \in Foms(obj) /\ obj.r \in Foms(obj)
  BY DEF HomTypeOK, Partners, Foms
<1>1. Foms(q) = Foms(obj)
  BY DEF Foms
<1>2. CASE obj.optimum = NoHom
  <2>1. f = <<obj.r, obj.at>>
    BY <1>2 DEF Combined
  <2>2. f \in Seq(Foms(q)) /\ Len(f) = 2 /\ f[1] = obj.r /\ f[2] = obj.at
    BY <1>0, <1>1, <2>1
  <2>3. 2 <= Tried(q) + 1
    BY <1>0 DEF Tried
  <2> HIDE DEF f
  <2>4. \A i \in 1 .. Len(f) : i = 1 \/ i = 2
    BY <2>2
  <2>5. \A i, j \in 1 .. Len(f) : f[i] = f[j] => i = j
    BY <1>0, <2>2, <2>4
  <2>6. \A i \in 2 .. Len(f) : f[i] < q.at
    <3>1. \A i \in 2 .. Len(f) : i = 2
      BY <2>2
    <3> QED
      BY <1>0, <2>2, <3>1
  <2>7. IsHom(q, f)
    BY <2>2, <2>3, <2>5, <2>6 DEF IsHom
  <2> QED
    BY <2>1, <2>2, <2>7 DEF f
<1>3. CASE obj.optimum # NoHom
  <2> DEFINE g == obj.optimum.foms
  <2>1. f = Append(g, obj.at) /\ IsHom(obj, g)
    BY <1>3 DEF Combined, HomArrays
  <2> HIDE DEF f, g
  <2>2. /\ g \in Seq(Foms(obj)) /\ Len(g) \in Nat /\ 2 <= Len(g) /\ Len(g) <= Tried(obj) + 1
    BY <2>1 DEF IsHom
  <2>3. /\ f \in Seq(Foms(q)) /\ Len(f) = Len(g) + 1 /\ f[Len(g) + 1] = obj.at
        /\ \A i \in 1 .. Len(g) : f[i] = g[i]
    BY <1>0, <1>1, <2>1, <2>2
  <2>4. Len(f) <= Tried(q) + 1 /\ 2 <= Len(f)
    BY <1>0, <2>2, <2>3 DEF Tried
  <2>5. \A i \in 1 .. Len(g) : f[i] # obj.at /\ f[i] \in Int
    <3>1. ASSUME NEW i \in 1 .. Len(g) PROVE f[i] # obj.at /\ f[i] \in Int
      <4>1. g[i] \in Foms(obj) /\ f[i] = g[i]
        BY <2>2, <2>3
      <4>2. g[i] \in Int
        BY <4>1 DEF Foms
      <4>3. CASE i = 1
        BY <1>0, <2>1, <4>1, <4>2, <4>3 DEF IsHom
      <4>4. CASE i # 1
        <5>1. i \in 2 .. Len(g)
          BY <2>2, <4>4
        <5>2. g[i] < obj.at
          BY <2>1, <5>1 DEF IsHom
        <5> QED
          BY <1>0, <4>1, <4>2, <5>2
      <4> QED
        BY <4>3, <4>4
    <3> QED
      BY <3>1
  <2>6. \A i \in 1 .. Len(f) : i \in 1 .. Len(g) \/ i = Len(g) + 1
    BY <2>2, <2>3
  <2>7. \A i, j \in 1 .. Len(g) : g[i] = g[j] => i = j
    BY <2>1 DEF IsHom
  <2>8. \A i, j \in 1 .. Len(f) : f[i] = f[j] => i = j
    BY <2>3, <2>5, <2>6, <2>7
  <2>9. ASSUME NEW i \in 2 .. Len(f) PROVE f[i] < q.at
    <3>1. CASE i = Len(g) + 1
      BY <1>0, <2>3, <3>1
    <3>2. CASE i # Len(g) + 1
      <4>1. i \in 2 .. Len(g) /\ i \in 1 .. Len(g)
        BY <2>2, <2>3, <3>2
      <4>2. g[i] < obj.at /\ f[i] = g[i] /\ f[i] \in Int
        BY <2>1, <2>3, <2>5, <4>1 DEF IsHom
      <4> QED
        BY <1>0, <4>2
    <3> QED
      BY <3>1, <3>2
  <2>10. f[1] = q.r
    <3>1. 1 \in 1 .. Len(g)
      BY <2>2
    <3> QED
      BY <2>1, <2>3, <3>1 DEF IsHom
  <2>11. IsHom(q, f) /\ f # <<>>
    BY <2>3, <2>4, <2>8, <2>9, <2>10 DEF IsHom
  <2> QED
    BY <1>3, <2>11 DEF f
<1> QED
  BY <1>2, <1>3

\* hom_list has room for one more.
LEMMA HasRoom ==
    ASSUME NEW k \in Nat, NEW m \in Nat \ {0}, k <= m
    PROVE  LET s == IF k = m THEN 2 * m ELSE m
           IN  s \in Nat \ {0} /\ k <= s /\ k + 1 <= s
  OBVIOUS

\* What one round of the for loop leaves: log is hom_dir.log, h the HOM that was
\* evaluated, if one was.
LEMMA CombineLeaves ==
    ASSUME HomTypeOK, HomArrays, NEW execs \in BOOLEAN, Combine(execs)
    PROVE  LET foms == Combined(obj)
               log  == IF execs THEN combineFOM(obj, foms) ELSE obj.log
               size == IF obj.hom_list_counter = obj.hom_list_size THEN 2 * obj.hom_list_size
                       ELSE obj.hom_list_size
           IN  /\ obj' = [n |-> obj.n, line |-> obj.line, killers |-> obj.killers, log |-> log,
                          r |-> obj.r, at |-> obj.at + 1, optimum |-> obj'.optimum,
                          no_new_optimum |-> obj'.no_new_optimum,
                          hom_list_counter |-> obj'.hom_list_counter, hom_list_size |-> size,
                          ended |-> obj.ended]
               /\ subject' = subject
               /\ \/ /\ log = NoLog /\ obj'.optimum = obj.optimum
                     /\ obj'.hom_list_counter = obj.hom_list_counter
                     /\ obj'.no_new_optimum = IF obj.optimum = NoHom THEN obj.no_new_optimum + 1
                                              ELSE obj.no_new_optimum
                     /\ abs' = [tmp |-> abs.tmp, built |-> abs.built, ran |-> abs.ran /\ execs]
                  \/ /\ log # NoLog /\ obj'.no_new_optimum = obj.no_new_optimum
                     /\ obj'.hom_list_counter = obj.hom_list_counter + 1
                     /\ (obj'.optimum = obj.optimum /\ obj.optimum # NoHom) \/ obj'.optimum.foms = foms
                     /\ abs' = [tmp |-> IF execs THEN foms ELSE <<>>, built |-> log,
                                ran |-> abs.ran /\ execs]
<1> DEFINE foms == Combined(obj)
           log == IF execs THEN combineFOM(obj, foms) ELSE obj.log
           size == IF obj.hom_list_counter = obj.hom_list_size THEN 2 * obj.hom_list_size
                   ELSE obj.hom_list_size
           o == [obj EXCEPT !.log = log]
<1>1. \/ log = NoLog /\ Becomes(NoFitness(o), [abs EXCEPT !.ran = abs.ran /\ execs])
      \/ /\ log # NoLog
         /\ \E k \in 0 .. HomTests :
               Becomes(Evaluated(o, [foms |-> foms, kills |-> k]),
                       [tmp |-> IF execs THEN foms ELSE <<>>, built |-> log, ran |-> abs.ran /\ execs])
  BY DEF Combine
<1> HIDE DEF foms, log
<1>2. o = [n |-> obj.n, line |-> obj.line, killers |-> obj.killers, log |-> log, r |-> obj.r,
           at |-> obj.at, optimum |-> obj.optimum, no_new_optimum |-> obj.no_new_optimum,
           hom_list_counter |-> obj.hom_list_counter, hom_list_size |-> obj.hom_list_size,
           ended |-> obj.ended]
  BY DEF HomTypeOK
<1> HIDE DEF o
<1>3. Doubled(o) = [n |-> obj.n, line |-> obj.line, killers |-> obj.killers, log |-> log, r |-> obj.r,
           at |-> obj.at, optimum |-> obj.optimum, no_new_optimum |-> obj.no_new_optimum,
           hom_list_counter |-> obj.hom_list_counter, hom_list_size |-> size, ended |-> obj.ended]
  BY <1>2 DEF Doubled
<1> HIDE DEF size
<1>4. CASE log = NoLog /\ Becomes(NoFitness(o), [abs EXCEPT !.ran = abs.ran /\ execs])
  <2> DEFINE nno == IF obj.optimum = NoHom THEN obj.no_new_optimum + 1 ELSE obj.no_new_optimum
  <2>1. NoFitness(o) = [n |-> obj.n, line |-> obj.line, killers |-> obj.killers, log |-> log, r |-> obj.r,
           at |-> obj.at + 1, optimum |-> obj.optimum, no_new_optimum |-> nno,
           hom_list_counter |-> obj.hom_list_counter, hom_list_size |-> size, ended |-> obj.ended]
    <3> DEFINE d == Doubled(o)
    <3>1. o.optimum = obj.optimum
      BY <1>2, Zenon
    <3>2. NoFitness(o) = [d EXCEPT !.at = d.at + 1, !.no_new_optimum =
                             IF o.optimum = NoHom THEN d.no_new_optimum + 1 ELSE d.no_new_optimum]
      BY DEF NoFitness
    <3> HIDE DEF d
    <3>3. d.at = obj.at /\ d.no_new_optimum = obj.no_new_optimum
      BY <1>3 DEF d
    <3>4. NoFitness(o) = [d EXCEPT !.at = obj.at + 1, !.no_new_optimum = nno]
      BY <3>1, <3>2, <3>3
    <3> HIDE DEF nno
    <3>5. d = [n |-> obj.n, line |-> obj.line, killers |-> obj.killers, log |-> log, r |-> obj.r,
               at |-> obj.at, optimum |-> obj.optimum, no_new_optimum |-> obj.no_new_optimum,
               hom_list_counter |-> obj.hom_list_counter, hom_list_size |-> size, ended |-> obj.ended]
      BY <1>3, Zenon DEF d
    <3> QED
      BY <3>4, <3>5, Zenon
  <2>2. obj' = NoFitness(o) /\ subject' = subject /\ abs' = [abs EXCEPT !.ran = abs.ran /\ execs]
    BY <1>4 DEF Becomes
  <2>3. abs' = [tmp |-> abs.tmp, built |-> abs.built, ran |-> abs.ran /\ execs]
    BY <2>2 DEF HomTypeOK
  <2> HIDE DEF nno
  <2>4. obj'.optimum = obj.optimum /\ obj'.hom_list_counter = obj.hom_list_counter
        /\ obj'.no_new_optimum = nno
    BY <2>1, <2>2
  <2> QED
    BY <1>4, <2>1, <2>2, <2>3, <2>4, Zenon DEF foms, log, size, nno
<1>5. ASSUME log # NoLog, NEW k \in 0 .. HomTests,
             Becomes(Evaluated(o, [foms |-> foms, kills |-> k]),
                     [tmp |-> IF execs THEN foms ELSE <<>>, built |-> log, ran |-> abs.ran /\ execs])
      PROVE  /\ obj' = [n |-> obj.n, line |-> obj.line, killers |-> obj.killers, log |-> log,
                          r |-> obj.r, at |-> obj.at + 1, optimum |-> obj'.optimum,
                          no_new_optimum |-> obj'.no_new_optimum,
                          hom_list_counter |-> obj'.hom_list_counter, hom_list_size |-> size,
                          ended |-> obj.ended]
             /\ subject' = subject
             /\ log # NoLog /\ obj'.no_new_optimum = obj.no_new_optimum
             /\ obj'.hom_list_counter = obj.hom_list_counter + 1
             /\ (obj'.optimum = obj.optimum /\ obj.optimum # NoHom) \/ obj'.optimum.foms = foms
             /\ abs' = [tmp |-> IF execs THEN foms ELSE <<>>, built |-> log, ran |-> abs.ran /\ execs]
  <2> DEFINE h == [foms |-> foms, kills |-> k]
             best == Optimum(o, h)
  <2>1. o.optimum = obj.optimum
    BY <1>2, Zenon
  <2>2. (best = obj.optimum /\ obj.optimum # NoHom) \/ best.foms = foms
    BY <2>1, Zenon DEF Optimum
  <2> HIDE DEF best
  <2>3. Evaluated(o, h) = [n |-> obj.n, line |-> obj.line, killers |-> obj.killers, log |-> log, r |-> obj.r,
           at |-> obj.at + 1, optimum |-> best, no_new_optimum |-> obj.no_new_optimum,
           hom_list_counter |-> obj.hom_list_counter + 1, hom_list_size |-> size, ended |-> obj.ended]
    <3> DEFINE d == Doubled(o)
    <3>1. Evaluated(o, h) = [d EXCEPT !.at = d.at + 1, !.hom_list_counter = d.hom_list_counter + 1,
                                      !.optimum = best]
      BY DEF Evaluated, best
    <3> HIDE DEF d, h
    <3>2. d.at = obj.at /\ d.hom_list_counter = obj.hom_list_counter
      BY <1>3 DEF d
    <3>3. Evaluated(o, h) = [d EXCEPT !.at = obj.at + 1, !.hom_list_counter = obj.hom_list_counter + 1,
                                      !.optimum = best]
      BY <3>1, <3>2
    <3>4. d = [n |-> obj.n, line |-> obj.line, killers |-> obj.killers, log |-> log, r |-> obj.r,
               at |-> obj.at, optimum |-> obj.optimum, no_new_optimum |-> obj.no_new_optimum,
               hom_list_counter |-> obj.hom_list_counter, hom_list_size |-> size, ended |-> obj.ended]
      BY <1>3, Zenon DEF d
    <3> QED
      BY <3>3, <3>4, Zenon
  <2>4. obj' = Evaluated(o, h) /\ subject' = subject
        /\ abs' = [tmp |-> IF execs THEN foms ELSE <<>>, built |-> log, ran |-> abs.ran /\ execs]
    BY <1>5, Zenon DEF Becomes
  <2>5. obj'.optimum = best /\ obj'.hom_list_counter = obj.hom_list_counter + 1
        /\ obj'.no_new_optimum = obj.no_new_optimum
    BY <2>3, <2>4
  <2> QED
    BY <1>5, <2>2, <2>3, <2>4, <2>5, Zenon
<1> QED
  BY <1>1, <1>4, <1>5, Zenon DEF foms, log, size

\* FOMs that change different lines do not clash.
LEMMA NoClash ==
    ASSUME NEW o, NEW q, NEW f, IsHom(q, f), q.n = o.n, DOMAIN o.line = Foms(o), IsInjective(o.line)
    PROVE  ~Clash(o.line, f)
<1>1. Foms(q) = Foms(o)
  BY DEF Foms
<1>2. f \in Seq(Foms(o)) /\ DOMAIN f = 1 .. Len(f)
  BY <1>1 DEF IsHom
<1>3. \A a \in DOMAIN f : f[a] \in Foms(o)
  BY <1>2
<1>4. \A a, b \in DOMAIN f : f[a] = f[b] => a = b
  BY <1>2 DEF IsHom
<1> QED
  BY <1>3, <1>4 DEF Clash, IsInjective

\* One HOM and one partner more leave the room there was.
LEMMA OneMore ==
    ASSUME NEW a \in Nat, NEW c \in Nat, NEW m \in Nat, NEW k \in Nat,
           a < 2 * m \/ c + a <= 2 * m - 1 + k
    PROVE  a < 2 * m \/ (c + 1) + a <= 2 * m - 1 + (k + 1)
OBVIOUS

LEMMA CombineInv ==
    ASSUME HomInv, NEW execs \in BOOLEAN, Combine(execs), ~obj.ended
    PROVE  HomInv'
<1> DEFINE foms == Combined(obj)
           log == IF execs THEN combineFOM(obj, foms) ELSE obj.log
           size == IF obj.hom_list_counter = obj.hom_list_size THEN 2 * obj.hom_list_size
                   ELSE obj.hom_list_size
           failed == /\ log = NoLog /\ obj'.optimum = obj.optimum
                     /\ obj'.hom_list_counter = obj.hom_list_counter
                     /\ obj'.no_new_optimum = IF obj.optimum = NoHom THEN obj.no_new_optimum + 1
                                              ELSE obj.no_new_optimum
                     /\ abs' = [tmp |-> abs.tmp, built |-> abs.built, ran |-> abs.ran /\ execs]
           found == /\ log # NoLog /\ obj'.no_new_optimum = obj.no_new_optimum
                    /\ obj'.hom_list_counter = obj.hom_list_counter + 1
                    /\ (obj'.optimum = obj.optimum /\ obj.optimum # NoHom) \/ obj'.optimum.foms = foms
                    /\ abs' = [tmp |-> IF execs THEN foms ELSE <<>>, built |-> log,
                               ran |-> abs.ran /\ execs]
<1> USE DEF HomInv
<1>1. /\ obj' = [n |-> obj.n, line |-> obj.line, killers |-> obj.killers, log |-> log,
                 r |-> obj.r, at |-> obj.at + 1, optimum |-> obj'.optimum,
                 no_new_optimum |-> obj'.no_new_optimum,
                 hom_list_counter |-> obj'.hom_list_counter, hom_list_size |-> size,
                 ended |-> obj.ended]
      /\ subject' = subject
      /\ failed \/ found
  BY CombineLeaves, Zenon
<1>2. log = IF execs /\ ~Clash(obj.line, foms) THEN foms ELSE obj.log
  BY DEF combineFOM
<1> HIDE DEF log, foms, size, failed, found
<1>3. /\ obj'.n = obj.n /\ obj'.line = obj.line /\ obj'.log = log /\ obj'.r = obj.r
      /\ obj'.at = obj.at + 1 /\ obj'.hom_list_size = size /\ obj'.ended = obj.ended
      /\ Foms(obj') = Foms(obj)
  BY <1>1 DEF Foms
<1>4. /\ obj.n \in Nat /\ obj.at \in Nat /\ obj.r \in Nat /\ obj.at < obj.n /\ obj.at # obj.r
      /\ obj.r < obj.n /\ obj.no_new_optimum \in Nat /\ obj.hom_list_counter \in Nat
      /\ obj.hom_list_size \in Nat \ {0} /\ obj.hom_list_counter <= obj.hom_list_size
      /\ obj.at \in Partners(obj) /\ obj.at \in Foms(obj) /\ obj.r \in Foms(obj) /\ obj.n > 0
      /\ abs.ran \in BOOLEAN /\ ~obj.ended
  BY DEF Combine, HomTypeOK, Partners, Foms, HomArrays
<1>5. size \in Nat \ {0} /\ obj.hom_list_counter <= size /\ obj.hom_list_counter + 1 <= size
  BY <1>4, HasRoom DEF size
<1>6. IsHom(obj', foms) /\ foms # <<>> /\ (obj.optimum = NoHom => foms = <<obj.r, obj.at>>)
  BY <1>3, <1>4, CombinedOk DEF foms
<1>7. Tried(obj') = Tried(obj) + 1 /\ Tried(obj) \in Nat
  BY <1>3, <1>4 DEF Tried
<1>8. (abs'.ran <=> abs.ran /\ execs) /\ abs'.ran \in BOOLEAN
      /\ abs' = [tmp |-> abs'.tmp, built |-> abs'.built, ran |-> abs'.ran]
  <2>1. CASE failed
    BY <2>1, <1>4, Zenon DEF failed
  <2>2. CASE found
    BY <2>2, <1>4 DEF found
  <2> QED
    BY <1>1, <2>1, <2>2, Zenon
<1>9. HomTypeOK'
  <2>1. obj'.no_new_optimum \in Nat /\ obj'.hom_list_counter \in Nat
    BY <1>1, <1>4 DEF failed, found
  <2>2. obj.at + 1 \in 0 .. obj.n
    BY <1>4
  <2> QED
    BY <1>1, <1>3, <1>4, <1>5, <1>8, <2>1, <2>2, Zenon DEF HomTypeOK
<1>10. HomArrays'
  <2>1. obj.optimum = NoHom \/ IsHom(obj', obj.optimum.foms)
    BY <1>3, <1>4, StillHom DEF HomArrays
  <2>2. CASE failed
    BY <1>3, <1>5, <2>1, <2>2 DEF failed, HomArrays
  <2>3. CASE found
    BY <1>3, <1>5, <1>6, <2>1, <2>3, Zenon DEF found, HomArrays
  <2> QED
    BY <1>1, <2>2, <2>3
<1>11. HomCredited'
  <2>1. CASE failed
    BY <1>3, <2>1, Zenon DEF failed, HomCredited, HomTypeOK
  <2>2. CASE found
    <3> SUFFICES ASSUME IsInjective(obj.line), abs'.tmp # <<>> PROVE abs'.built = abs'.tmp
      BY <1>3 DEF HomCredited
    <3>1. abs'.tmp = (IF execs THEN foms ELSE <<>>) /\ abs'.built = log
      BY <2>2 DEF found
    <3>2. execs /\ abs'.tmp = foms
      BY <3>1
    <3>3. ~Clash(obj.line, foms)
      BY <1>3, <1>6, NoClash, Zenon DEF HomTypeOK
    <3> QED
      BY <1>2, <3>1, <3>2, <3>3
  <2> QED
    BY <1>1, <2>1, <2>2
<1>12. HomCounted'
  <2>1. CASE failed
    <3>1. obj.log = NoLog /\ log = NoLog
      BY <1>2, <1>6, <2>1, Zenon DEF failed, NoLog
    <3>2. obj.hom_list_counter = 0 /\ obj.optimum = NoHom
      BY <3>1 DEF HomCounted
    <3>3. obj'.no_new_optimum = obj.no_new_optimum + 1 /\ obj'.hom_list_counter = 0 /\ obj'.optimum = NoHom
      BY <2>1, <3>2, Zenon DEF failed
    <3> QED
      BY <1>3, <1>4, <1>7, <3>2, <3>3 DEF HomCounted
  <2>2. CASE found
    <3>1. /\ obj'.log # NoLog /\ obj'.no_new_optimum = obj.no_new_optimum
          /\ obj'.hom_list_counter = obj.hom_list_counter + 1
      BY <1>3, <2>2, Zenon DEF found
    <3>2. \/ obj.no_new_optimum < 2 * obj.n
          \/ obj.hom_list_counter + obj.no_new_optimum <= 2 * obj.n - 1 + Tried(obj)
      BY Zenon DEF HomCounted
    <3>3. \/ obj'.no_new_optimum < 2 * obj.n
          \/ obj'.hom_list_counter + obj'.no_new_optimum <= 2 * obj.n - 1 + Tried(obj')
      <4>1. \/ obj.no_new_optimum < 2 * obj.n
            \/ (obj.hom_list_counter + 1) + obj.no_new_optimum <= 2 * obj.n - 1 + (Tried(obj) + 1)
        BY <1>4, <1>7, <3>2, OneMore, Zenon
      <4> QED
        BY <1>7, <3>1, <4>1, Zenon
    <3> QED
      BY <1>3, <1>4, <3>1, <3>3, Zenon DEF HomCounted
  <2> QED
    BY <1>1, <2>1, <2>2
<1>13. HomRan'
  <2> SUFFICES ASSUME abs.ran, execs PROVE HomRan'
    BY <1>8, Zenon DEF HomRan
  <2>1. CASE obj.log # NoLog
    <3>1. log # NoLog /\ obj.no_new_optimum < 2 * obj.n
      BY <1>2, <1>6, <2>1, Zenon DEF HomRan, NoLog
    <3>2. obj'.no_new_optimum = obj.no_new_optimum
      BY <1>1, <3>1, Zenon DEF failed, found
    <3> QED
      BY <1>3, <3>1, <3>2, Zenon DEF HomRan
  <2>2. CASE obj.log = NoLog
    <3>1. obj.optimum = NoHom /\ foms = <<obj.r, obj.at>>
      BY <1>6, <2>2 DEF HomCounted
    <3>2. Clash(obj.line, foms) <=> obj.line[obj.r] = obj.line[obj.at]
      <4>1. DOMAIN foms = {1, 2} /\ foms[1] = obj.r /\ foms[2] = obj.at
        BY <3>1
      <4> QED
        BY <4>1 DEF Clash
    <3>3. \/ /\ \A x \in Foms(obj) : x < obj.at => obj.line[x] = obj.line[obj.r]
             /\ obj.no_new_optimum <= obj.at
          \/ \A x, y \in Foms(obj) : obj.line[x] = obj.line[y]
      BY <1>4, <2>2 DEF HomRan
    <3>4. CASE Clash(obj.line, foms)
      <4>1. log = NoLog
        BY <1>2, <2>2, <3>4
      <4>2. obj'.no_new_optimum = obj.no_new_optimum + 1
        BY <1>1, <3>1, <4>1, Zenon DEF failed, found
      <4>3. \A x \in Foms(obj) : x < obj.at + 1 => x < obj.at \/ x = obj.at
        BY <1>4 DEF Foms
      <4> QED
        BY <1>3, <1>4, <3>2, <3>3, <3>4, <4>1, <4>2, <4>3, SMTT(40) DEF HomRan
    <3>5. CASE ~Clash(obj.line, foms)
      <4>1. log # NoLog
        BY <1>2, <1>6, <3>5, Zenon DEF NoLog
      <4>2. obj'.no_new_optimum = obj.no_new_optimum
        BY <1>1, <4>1, Zenon DEF failed, found
      <4>3. obj.no_new_optimum <= obj.at
        BY <1>4, <3>2, <3>3, <3>5, Zenon
      <4> QED
        BY <1>3, <1>4, <4>1, <4>2, <4>3 DEF HomRan
    <3> QED
      BY <3>4, <3>5
  <2> QED
    BY <2>1, <2>2
<1> QED
  BY <1>9, <1>10, <1>11, <1>12, <1>13

LEMMA HomStutters == HomInv /\ UNCHANGED subjectVars => HomInv'
<1> SUFFICES ASSUME HomInv, UNCHANGED subjectVars
             PROVE  HomInv'
  OBVIOUS
<1>1. obj' = obj /\ abs' = abs /\ subject' = subject
  BY DEF subjectVars
<1>2. HomTypeOK' /\ HomCredited' /\ HomCounted' /\ HomRan'
  BY <1>1, Zenon DEF HomInv, HomTypeOK, HomCredited, HomCounted, HomRan, Foms, Tried
<1>3. HomArrays'
  BY <1>1, Zenon DEF HomInv, HomArrays, Foms, Tried, IsHom
<1> QED
  BY <1>2, <1>3 DEF HomInv

\* Every step of generateSubsumingHOMs keeps HomInv.
LEMMA HomStepInv == HomInv /\ [HomNext]_subjectVars => HomInv'
BY NextRoundInv, SkipInv, CombineInv, HomStutters DEF HomNext, HomStep

\* What HomInv says of the arrays, of the programs evaluated and of the end.
LEMMA HomHolds == HomInv => HomSound
<1>1. HomInv => HomWellFormed
  <2> SUFFICES ASSUME HomInv
               PROVE  /\ obj.hom_list_counter <= obj.hom_list_size
                      /\ LET f == obj.optimum.foms IN
                            f # <<>> => Len(f) \in 2 .. obj.n /\ IsInjective(f) /\ f[1] = obj.r
    BY DEF HomWellFormed
  <2>1. obj.hom_list_counter <= obj.hom_list_size
    BY DEF HomInv, HomArrays
  <2> DEFINE f == obj.optimum.foms
  <2>2. ASSUME f # <<>> PROVE Len(f) \in 2 .. obj.n /\ IsInjective(f) /\ f[1] = obj.r
    <3>1. IsHom(obj, f)
      BY <2>2 DEF HomInv, HomArrays, NoHom
    <3> HIDE DEF f
    <3>2. obj.n \in Nat /\ obj.r \in 0 .. obj.n - 1 /\ obj.at \in 0 .. obj.n
      BY Zenon DEF HomInv, HomTypeOK, Foms
    <3>3. Tried(obj) + 1 <= obj.n
      BY <3>2 DEF Tried
    <3>4. DOMAIN f = 1 .. Len(f) /\ Len(f) \in Nat
      BY <3>1 DEF IsHom
    <3>5. Len(f) \in 2 .. obj.n
      BY <3>1, <3>2, <3>3, <3>4 DEF IsHom, Tried
    <3> QED
      BY <3>1, <3>4, <3>5 DEF IsHom, IsInjective
  <2> QED
    BY <2>1, <2>2
<1>2. HomInv => HomEndsFruitless
  <2> SUFFICES ASSUME HomInv, obj.ended
               PROVE  /\ abs.ran => obj.hom_list_counter = 0
                      /\ obj.hom_list_counter > 0 => obj.hom_list_counter <= obj.n - 2
    BY DEF HomEndsFruitless
  <2>1. /\ obj.n \in Nat /\ obj.r \in 0 .. obj.n - 1 /\ obj.hom_list_counter \in Nat
        /\ obj.no_new_optimum \in Nat
    BY Zenon DEF HomInv, HomTypeOK, Foms
  <2>2. obj.at = obj.n /\ obj.no_new_optimum >= 2 * obj.n
    BY DEF HomInv, HomCounted
  <2>3. Tried(obj) = obj.n - 1
    BY <2>1, <2>2 DEF Tried
  <2>4. obj.hom_list_counter + obj.no_new_optimum <= 2 * obj.n - 1 + (obj.n - 1)
    BY <2>1, <2>2, <2>3 DEF HomInv, HomCounted
  <2>5. abs.ran => obj.log = NoLog
    BY <2>1, <2>2 DEF HomInv, HomRan
  <2>6. abs.ran => obj.hom_list_counter = 0
    BY <2>5 DEF HomInv, HomCounted
  <2> QED
    BY <2>1, <2>2, <2>4, <2>6
<1>3. HomInv => HomCredited
  BY DEF HomInv
<1> QED
  BY <1>1, <1>2, <1>3, Zenon DEF HomSound

\* HomInv holds from the first call on.
LEMMA HomInvariant == HomSpec => []HomInv
BY HomInitInv, HomStepInv, PTL DEF HomSpec

\* generateSubsumingHOMs writes inside hom_list and FOMutants, evaluates the program
\* it combined if its FOMs change different lines, and ends without a HOM where
\* combineFOM.sh could always be started, and else with those of its last round.
THEOREM HomSearchSound == HomSpec => []HomSound
BY HomInvariant, HomHolds, PTL

-----------------------------------------------------------------------------
(* startprogram and startMake *)

SupSpec == SupInit /\ [][SupNext]_subjectVars

Children == {"none", "forked", "program", "twin", "exited", "signalled", "reaped"}

SupTypeOK ==
    /\ subject = "supervisor"
    /\ obj \in [fun : {"startprogram", "startMake"}, pc : {"poll", "reap", "done"}, i : Int,
                child : Children, code : SupCodes \cup {0}, ret : SupCodes \cup {0, TimedOut, NoStatus}]
    /\ abs \in [end : {"alive", "exit", "signal", "timeout"}, twin : BOOLEAN]

\* Where the child is, as the call and the history see it
SupPlaced ==
    /\ obj.child = "reaped" => obj.pc = "done"
    /\ obj.pc = "done" => obj.child \in {"reaped", "none"}
    /\ obj.pc = "reap" => obj.i + 1 = SupPolls /\ obj.child # "none"
    /\ obj.child \in {"none", "forked", "program", "twin"} => abs.end = "alive"
    /\ obj.child = "exited" => abs.end = "exit"
    /\ obj.child = "signalled" => abs.end \in {"signal", "timeout"}
    /\ obj.child = "reaped" => abs.end # "alive"
    /\ abs.end = "timeout" => obj.pc # "poll"

SupInv == SupTypeOK /\ SupPlaced /\ SupTellsEnd

-----------------------------------------------------------------------------
LEMMA SupInitInv == SupInit => SupInv
  BY DEF SupInit, SupInv, SupTypeOK, SupPlaced, SupTellsEnd, Children, NoStatus, TimedOut

\* The child's own steps
LEMMA SupChildInv ==
    ASSUME SupInv, SupExec \/ SupChildEnds \/ SupKilled
    PROVE  SupInv'
<1> USE DEF SupInv, SupTypeOK, SupPlaced, SupTellsEnd, Children, NoStatus, TimedOut, Becomes
<1>1. CASE SupExec
  BY <1>1, Zenon DEF SupExec
<1>2. CASE SupChildEnds
  <2>1. obj.child \in {"program", "twin"} /\ subject' = subject
    BY <1>2, Zenon DEF SupChildEnds
  <2>2. PICK child, code, end :
           /\ \/ child = "exited" /\ code \in SupCodes /\ end = "exit"
              \/ child = "signalled" /\ code = obj.code /\ end = "signal"
           /\ obj' = [fun |-> obj.fun, pc |-> obj.pc, i |-> obj.i, child |-> child, code |-> code, ret |-> obj.ret]
           /\ abs' = [end |-> end, twin |-> abs.twin]
    <3>1. ASSUME NEW c \in SupCodes,
                 Becomes([obj EXCEPT !.child = "exited", !.code = c], [abs EXCEPT !.end = "exit"])
          PROVE  /\ obj' = [fun |-> obj.fun, pc |-> obj.pc, i |-> obj.i, child |-> "exited", code |-> c,
                            ret |-> obj.ret]
                 /\ abs' = [end |-> "exit", twin |-> abs.twin]
      BY <3>1, Zenon
    <3>2. ASSUME Becomes([obj EXCEPT !.child = "signalled"], [abs EXCEPT !.end = "signal"])
          PROVE  /\ obj' = [fun |-> obj.fun, pc |-> obj.pc, i |-> obj.i, child |-> "signalled",
                            code |-> obj.code, ret |-> obj.ret]
                 /\ abs' = [end |-> "signal", twin |-> abs.twin]
      BY <3>2
    <3> QED
      BY <1>2, <3>1, <3>2, Zenon DEF SupChildEnds
  <2>3. /\ obj'.fun = obj.fun /\ obj'.pc = obj.pc /\ obj'.i = obj.i /\ obj'.child = child /\ obj'.code = code
        /\ obj'.ret = obj.ret /\ abs'.end = end /\ abs'.twin = abs.twin
    BY <2>2
  <2>4. SupTypeOK'
    BY <2>1, <2>2
  <2>5. SupPlaced'
    BY <2>1, <2>2, <2>3
  <2>6. SupTellsEnd'
    BY <2>1, <2>2, <2>3
  <2> QED
    BY <2>4, <2>5, <2>6
<1>3. CASE SupKilled
  BY <1>3 DEF SupKilled, Alive
<1> QED
  BY <1>1, <1>2, <1>3

\* The controller's steps
LEMMA SupControllerInv ==
    ASSUME SupInv, SupPoll \/ SupReap
    PROVE  SupInv'
<1> USE DEF SupInv, SupTypeOK, SupPlaced, Children, NoStatus, TimedOut, Becomes
<1>1. CASE SupPoll
  <2>1. CASE obj.child = "none"
    <3>1. PICK rv \in (IF obj.fun = "startprogram" THEN {0} ELSE SupCodes \cup {NoStatus}) :
                 Becomes(Returned(obj, rv), abs)
      BY <1>1, <2>1 DEF SupPoll
    <3>2. /\ obj' = [fun |-> obj.fun, pc |-> "done", i |-> obj.i, child |-> obj.child, code |-> obj.code,
                     ret |-> rv]
          /\ abs' = abs /\ subject' = subject
      BY <3>1, Zenon DEF Returned
    <3>3. rv \in SupCodes \cup {0, NoStatus} /\ (obj.fun = "startprogram" => rv = 0)
      BY <3>1
    <3>4. SupTypeOK' /\ SupPlaced'
      BY <2>1, <3>2, <3>3
    <3>5. SupTellsEnd'
      BY <2>1, <3>2, <3>3 DEF SupTellsEnd
    <3> QED
      BY <3>4, <3>5
  <2>2. CASE obj.child \in {"exited", "signalled"}
    <3>1. /\ obj' = [fun |-> obj.fun, pc |-> "done", i |-> obj.i, child |-> "reaped", code |-> obj.code,
                     ret |-> ExitStatus(obj)]
          /\ UNCHANGED <<abs, subject>>
      <4> DEFINE rv == ExitStatus(obj)
                 o == Returned(obj, rv)
      <4>1. obj' = [o EXCEPT !.child = "reaped"] /\ UNCHANGED <<abs, subject>>
        BY <1>1, <2>2, Zenon DEF SupPoll
      <4> HIDE DEF rv
      <4>2. o = [fun |-> obj.fun, pc |-> "done", i |-> obj.i, child |-> obj.child, code |-> obj.code, ret |-> rv]
        <5> DEFINE p == [obj EXCEPT !.pc = "done"]
        <5>1. o = [p EXCEPT !.ret = rv]
          BY DEF Returned
        <5>2. p = [fun |-> obj.fun, pc |-> "done", i |-> obj.i, child |-> obj.child, code |-> obj.code, ret |-> obj.ret]
          OBVIOUS
        <5> HIDE DEF p, o
        <5> QED
          BY <5>1, <5>2
      <4> HIDE DEF o
      <4> QED
        BY <4>1, <4>2 DEF rv
    <3>2. ExitStatus(obj) \in SupCodes \cup {0, TimedOut, NoStatus}
      BY DEF ExitStatus
    <3>3. obj.pc = "poll"
      BY <1>1 DEF SupPoll
    <3>4. SupTypeOK' /\ SupPlaced'
      BY <2>2, <3>1, <3>2, <3>3
    <3>5. SupTellsEnd'
      BY <2>2, <3>1, <3>3 DEF SupTellsEnd, ExitStatus
    <3> QED
      BY <3>4, <3>5
  <2>3. CASE obj.child \notin {"none", "exited", "signalled"}
    BY <1>1, <2>3 DEF SupPoll, SupTellsEnd
  <2> QED
    BY <2>1, <2>2, <2>3
<1>2. CASE SupReap
  <2>1. /\ obj' = [fun |-> obj.fun, pc |-> "done", i |-> obj.i, child |-> "reaped", code |-> obj.code,
                   ret |-> TimedOut]
        /\ UNCHANGED <<abs, subject>>
    BY <1>2, Zenon DEF SupReap, Returned
  <2>2. obj.pc = "reap" /\ ~Alive
    BY <1>2 DEF SupReap
  <2>3. SupTypeOK' /\ SupPlaced'
    BY <2>1, <2>2 DEF Alive
  <2>4. SupTellsEnd'
    BY <2>1, <2>2 DEF SupTellsEnd
  <2> QED
    BY <2>3, <2>4
<1> QED
  BY <1>1, <1>2

LEMMA SupStutters == SupInv /\ UNCHANGED subjectVars => SupInv'
  BY DEF SupInv, SupTypeOK, SupPlaced, SupTellsEnd, subjectVars

LEMMA SupInvariant == SupSpec => []SupInv
<1>1. SupInv /\ [SupNext]_subjectVars => SupInv'
  BY SupChildInv, SupControllerInv, SupStutters DEF SupNext, SupController, SupKernel
<1> QED
  BY <1>1, SupInitInv, PTL DEF SupSpec

\* No child outlives the call of startprogram or startMake that forked it, and the
\* value that the call returns tells how the child ended.
THEOREM Supervised == SupSpec => []SupervisedEnd
<1>1. SupInv => SupervisedEnd
  BY DEF SupInv, SupPlaced, SupNoChildLeft, SupervisedEnd
<1> QED
  BY <1>1, SupInvariant, PTL
-----------------------------------------------------------------------------
(* One run after another *)

RunSpec == (DrvInit \/ StInit) /\ [][DrvNext \/ StNext]_subjectVars

\* The results are those of program s.
AreOf(s, results) == \A r \in results : r[1] = DrvSubjects[s]

DrvIsObj(o) ==
    o = [at |-> o.at, todo |-> o.todo, gstats |-> o.gstats,
         mutation_out |-> o.mutation_out, single |-> o.single, saved |-> o.saved,
         skip |-> o.skip, busy |-> o.busy]

DrvTypeOK ==
    /\ subject = "driver" /\ DrvIsObj(obj)
    /\ obj.at \in Nat /\ obj.skip \in Nat /\ obj.busy \in BOOLEAN /\ obj.skip <= obj.at
    /\ obj.busy => obj.skip < obj.at /\ obj.at <= Len(DrvSubjects)
    /\ obj.saved = [s \in DOMAIN DrvSubjects |-> obj.saved[s]]
    /\ abs = [s \in DOMAIN DrvSubjects |-> abs[s]]

\* While a program is run: the statistics are those of its completed runs, and all
\* that is gathered comes from it.
DrvAtWork ==
    obj.busy => /\ obj.gstats = IF abs[obj.at] = {} THEN Missing ELSE abs[obj.at]
                /\ abs[obj.at] \subseteq obj.single
                /\ AreOf(obj.at, obj.single) /\ AreOf(obj.at, abs[obj.at])
                /\ obj.mutation_out = Missing \/ AreOf(obj.at, obj.mutation_out)

DrvToCome == \A s \in DOMAIN DrvSubjects : s > obj.at => abs[s] = {}

DrvInv == DrvTypeOK /\ DrvAtWork /\ DrvToCome /\ DrvOwnResults

\* What does not exist is no result of a program.
LEMMA NotMissing ==
    ASSUME NEW s \in DOMAIN DrvSubjects, NEW results, AreOf(s, results)
    PROVE  results # Missing
<1>1. <<"missing", "missing">> \in Missing /\ <<"missing", "missing">>[1] = "missing"
  BY DEF Missing
<1> QED
  BY <1>1, DriverAssumption DEF AreOf

LEMMA DrvInitInv == DrvInit => DrvInv
<1> SUFFICES ASSUME DrvInit PROVE DrvInv
  OBVIOUS
<1>1. PICK skip \in DrvSkip, gstats \in {Missing, {Old}}, out \in {Missing, {Old}} :
          obj = [at |-> skip, todo |-> {}, gstats |-> gstats, mutation_out |-> out, single |-> {},
                 saved |-> [s \in DOMAIN DrvSubjects |-> [out |-> {Old}, gstats |-> {Old}]],
                 skip |-> skip, busy |-> FALSE]
  BY Zenon DEF DrvInit
<1>2. /\ obj.at = skip /\ obj.skip = skip /\ obj.busy = FALSE
      /\ obj.saved = [s \in DOMAIN DrvSubjects |-> [out |-> {Old}, gstats |-> {Old}]]
  BY <1>1
<1>3. DrvIsObj(obj)
  BY <1>1 DEF DrvIsObj
<1>4. abs = [s \in DOMAIN DrvSubjects |-> {}] /\ subject = "driver" /\ skip \in Nat
  BY DriverAssumption DEF DrvInit
<1>5. DrvTypeOK
  <2>1. /\ obj.saved = [s \in DOMAIN DrvSubjects |-> obj.saved[s]]
        /\ abs = [s \in DOMAIN DrvSubjects |-> abs[s]]
    BY <1>2, <1>4
  <2>2. obj.at = skip /\ obj.skip = skip
    BY <1>2
  <2>3. obj.busy = FALSE
    BY <1>2
  <2>4. obj.at \in Nat /\ obj.skip \in Nat /\ obj.skip <= obj.at
    BY <1>4, <2>2
  <2>5. obj.busy \in BOOLEAN /\ ~obj.busy
    BY <2>3, Zenon
  <2> QED
    BY <1>3, <1>4, <2>1, <2>4, <2>5 DEF DrvTypeOK
<1>6. DrvAtWork /\ DrvToCome
  BY <1>2, <1>4 DEF DrvAtWork, DrvToCome
<1>7. DrvOwnResults
  BY <1>2, <1>4, DriverAssumption DEF DrvOwnResults
<1> QED
  BY <1>5, <1>6, <1>7 DEF DrvInv

\* A program begins.
LEMMA StartSubjectInv ==
    ASSUME DrvInv, StartSubject
    PROVE  DrvInv'
<1> USE DEF DrvInv
<1>0. /\ obj.busy = FALSE /\ obj.at < Len(DrvSubjects) /\ Len(DrvSubjects) \in Nat
      /\ DOMAIN DrvSubjects = 1 .. Len(DrvSubjects) /\ obj.at \in Nat /\ obj.skip \in Nat
      /\ obj.skip <= obj.at
  BY DriverAssumption DEF StartSubject, DrvTypeOK
<1> DEFINE n == obj.at + 1
           yes == TRUE
           a == [obj EXCEPT !.at = n]
           b == [a EXCEPT !.todo = DrvConfigs]
           c == [b EXCEPT !.busy = yes]
           d == [c EXCEPT !.mutation_out = Missing]
           e == [d EXCEPT !.gstats = Missing]
           f == [e EXCEPT !.single = {}]
<1>a. obj' = f /\ abs' = abs /\ subject' = subject
  BY DEF StartSubject, Becomes, Started
<1> HIDE DEF n, yes
<1>o. DrvIsObj(obj)
  BY DEF DrvTypeOK
<1>x1. a = [at |-> n, todo |-> obj.todo, gstats |-> obj.gstats,
            mutation_out |-> obj.mutation_out, single |-> obj.single, saved |-> obj.saved,
            skip |-> obj.skip, busy |-> obj.busy]
  BY <1>o DEF DrvIsObj
<1> HIDE DEF a
<1>x2. b = [at |-> n, todo |-> DrvConfigs, gstats |-> obj.gstats,
            mutation_out |-> obj.mutation_out, single |-> obj.single, saved |-> obj.saved,
            skip |-> obj.skip, busy |-> obj.busy]
  BY <1>x1
<1> HIDE DEF b
<1>x3. c = [at |-> n, todo |-> DrvConfigs, gstats |-> obj.gstats,
            mutation_out |-> obj.mutation_out, single |-> obj.single, saved |-> obj.saved,
            skip |-> obj.skip, busy |-> yes]
  BY <1>x2
<1> HIDE DEF c
<1>x4. d = [at |-> n, todo |-> DrvConfigs, gstats |-> obj.gstats, mutation_out |-> Missing,
            single |-> obj.single, saved |-> obj.saved, skip |-> obj.skip, busy |-> yes]
  BY <1>x3
<1> HIDE DEF d
<1>x5. e = [at |-> n, todo |-> DrvConfigs, gstats |-> Missing, mutation_out |-> Missing,
            single |-> obj.single, saved |-> obj.saved, skip |-> obj.skip, busy |-> yes]
  BY <1>x4
<1> HIDE DEF e
<1>b. f = [at |-> n, todo |-> DrvConfigs, gstats |-> Missing, mutation_out |-> Missing,
           single |-> {}, saved |-> obj.saved, skip |-> obj.skip, busy |-> yes]
  BY <1>x5
<1> HIDE DEF f

<1>1. /\ obj'.at = n /\ obj'.todo = DrvConfigs /\ obj'.gstats = Missing
      /\ obj'.mutation_out = Missing /\ obj'.single = {} /\ obj'.saved = obj.saved
      /\ obj'.skip = obj.skip /\ obj'.busy = yes
  BY <1>a, <1>b
<1>2. DrvIsObj(obj')
  BY <1>a, <1>b DEF DrvIsObj
<1>3. obj'.at = obj.at + 1 /\ obj'.busy = TRUE
  BY <1>1 DEF n, yes
<1>4. n \in DOMAIN DrvSubjects /\ abs[n] = {} /\ n > obj.at
  BY <1>0 DEF n, DrvToCome
<1>5. DrvTypeOK'
  BY <1>0, <1>1, <1>2, <1>3, <1>a DEF DrvTypeOK
<1>6. DrvAtWork'
  BY <1>1, <1>3, <1>4, <1>a DEF DrvAtWork, AreOf
<1>7. DrvToCome'
  BY <1>0, <1>1, <1>3, <1>a DEF DrvToCome
<1>8. DrvOwnResults'
  <2> SUFFICES ASSUME NEW s \in DOMAIN DrvSubjects
               PROVE  IF s <= obj'.skip \/ s > obj'.at \/ (s = obj'.at /\ obj'.busy)
                      THEN obj'.saved[s] = [out |-> {Old}, gstats |-> {Old}]
                      ELSE /\ obj'.saved[s].gstats = (IF abs'[s] = {} THEN Missing ELSE abs'[s])
                           /\ abs'[s] \subseteq obj'.saved[s].out
                           /\ \A r \in obj'.saved[s].out : r[1] = DrvSubjects[s]
    BY Zenon DEF DrvOwnResults
  <2>1. s <= obj'.skip \/ s > obj'.at \/ (s = obj'.at /\ obj'.busy) <=>
            s <= obj.skip \/ s > obj.at \/ (s = obj.at /\ obj.busy)
    BY <1>0, <1>1, <1>3
  <2>2. obj'.saved = obj.saved /\ abs' = abs /\ subject = "driver"
    BY <1>1, <1>a DEF DrvTypeOK
  <2> QED
    BY <2>1, <2>2, Zenon DEF DrvOwnResults
<1> QED
  BY <1>5, <1>6, <1>7, <1>8

\* The controller is run: what it leaves is the program's.
LEMMA WorkedInv ==
    ASSUME DrvInv, obj.busy, NEW more, NEW todo, NEW out, NEW gstats, NEW single,
           AreOf(obj.at, more), more \subseteq single, obj.single \subseteq single,
           AreOf(obj.at, single), out = Missing \/ AreOf(obj.at, out),
           gstats = (IF abs[obj.at] \cup more = {} THEN Missing ELSE abs[obj.at] \cup more),
           abs' = [abs EXCEPT ![obj.at] = abs[obj.at] \cup more], subject' = subject,
           obj' = [at |-> obj.at, todo |-> todo, gstats |-> gstats, mutation_out |-> out,
                  single |-> single, saved |-> obj.saved, skip |-> obj.skip, busy |-> obj.busy]
    PROVE  DrvInv'
<1> USE DEF DrvInv
<1>0. /\ obj.at \in DOMAIN DrvSubjects /\ Len(DrvSubjects) \in Nat
      /\ DOMAIN DrvSubjects = 1 .. Len(DrvSubjects) /\ obj.at \in Nat /\ obj.skip \in Nat
      /\ obj.skip < obj.at
  BY DriverAssumption DEF DrvTypeOK
<1>1. /\ obj'.at = obj.at /\ obj'.todo = todo /\ obj'.gstats = gstats
      /\ obj'.mutation_out = out /\ obj'.single = single /\ obj'.saved = obj.saved
      /\ obj'.skip = obj.skip /\ obj'.busy = obj.busy
  OBVIOUS
<1>2. DrvIsObj(obj')
  BY DEF DrvIsObj
<1>3. /\ abs' = [s \in DOMAIN DrvSubjects |-> abs'[s]] /\ abs'[obj.at] = abs[obj.at] \cup more
      /\ \A s \in DOMAIN DrvSubjects : s # obj.at => abs'[s] = abs[s]
  BY <1>0, Zenon DEF DrvTypeOK
<1>4. DrvTypeOK'
  BY <1>1, <1>2, <1>3, Zenon DEF DrvTypeOK
<1>5. DrvAtWork'
  BY <1>1, <1>3, Zenon DEF DrvAtWork, AreOf
<1>6. DrvToCome'
  BY <1>0, <1>1, <1>3 DEF DrvToCome
<1>7. DrvOwnResults'
  <2> SUFFICES ASSUME NEW s \in DOMAIN DrvSubjects
               PROVE  IF s <= obj.skip \/ s > obj.at \/ (s = obj.at /\ obj.busy)
                      THEN obj.saved[s] = [out |-> {Old}, gstats |-> {Old}]
                      ELSE /\ obj.saved[s].gstats = (IF abs'[s] = {} THEN Missing ELSE abs'[s])
                           /\ abs'[s] \subseteq obj.saved[s].out
                           /\ \A r \in obj.saved[s].out : r[1] = DrvSubjects[s]
    BY <1>1, Zenon DEF DrvOwnResults
  <2>1. CASE s = obj.at
    BY <2>1, Zenon DEF DrvOwnResults, DrvTypeOK
  <2>2. CASE s # obj.at
    BY <1>3, <2>2, Zenon DEF DrvOwnResults, DrvTypeOK
  <2> QED
    BY <2>1, <2>2, Zenon
<1> QED
  BY <1>4, <1>5, <1>6, <1>7

\* The controller completes a configuration, stops at once, or is ended before it
\* has written statistics.
LEMMA RunControllerInv ==
    ASSUME DrvInv, NEW c \in DrvConfigs, RunController(c)
    PROVE  DrvInv'
<1>0. /\ obj.busy /\ obj.at \in DOMAIN DrvSubjects /\ DrvAtWork /\ DrvIsObj(obj) /\ subject = "driver"
      /\ abs = [s \in DOMAIN DrvSubjects |-> abs[s]]
  BY DriverAssumption DEF DrvInv, DrvTypeOK, RunController
<1> DEFINE r == <<DrvSubjects[obj.at], c>>
           todo == obj.todo \ {c}
           o == [obj EXCEPT !.todo = todo]
           st == Statistics(o, r)
           m == [o EXCEPT !.mutation_out = {r}]
           w == [m EXCEPT !.gstats = st]
           old == IF obj.mutation_out = Missing THEN {} ELSE obj.mutation_out
<1>1. \/ Becomes(Gathered(w), [abs EXCEPT ![obj.at] = abs[obj.at] \cup {r}])
      \/ Becomes(Gathered(o), abs)
      \/ Becomes(Gathered(m), abs)
  BY DEF RunController
<1>2. AreOf(obj.at, {r}) /\ {r} # Missing
  <2>1. r[1] = DrvSubjects[obj.at]
    OBVIOUS
  <2> HIDE DEF r
  <2>2. AreOf(obj.at, {r})
    BY <2>1 DEF AreOf
  <2> QED
    BY <1>0, <2>2, NotMissing
<1> HIDE DEF r, todo, st
<1>o. DrvIsObj(obj)
  BY <1>0
<1>3. o = [at |-> obj.at, todo |-> todo, gstats |-> obj.gstats,
           mutation_out |-> obj.mutation_out, single |-> obj.single, saved |-> obj.saved,
           skip |-> obj.skip, busy |-> obj.busy]
  BY <1>o DEF DrvIsObj
<1> HIDE DEF o
<1>4. m = [at |-> obj.at, todo |-> todo, gstats |-> obj.gstats, mutation_out |-> {r},
           single |-> obj.single, saved |-> obj.saved, skip |-> obj.skip, busy |-> obj.busy]
  BY <1>3
<1> HIDE DEF m
<1>5. w = [at |-> obj.at, todo |-> todo, gstats |-> st, mutation_out |-> {r},
           single |-> obj.single, saved |-> obj.saved, skip |-> obj.skip, busy |-> obj.busy]
  BY <1>4
<1> HIDE DEF w
<1>6. st = abs[obj.at] \cup {r}
  <2>1. o.gstats = obj.gstats
    BY <1>3
  <2>2. abs[obj.at] # {} => abs[obj.at] # Missing
    BY <1>0, NotMissing DEF DrvAtWork
  <2> QED
    BY <1>0, <2>1, <2>2 DEF st, Statistics, DrvAtWork
<1>7. old \subseteq {} \cup old /\ AreOf(obj.at, old)
  BY <1>0 DEF DrvAtWork, AreOf
<1>8. CASE Becomes(Gathered(w), [abs EXCEPT ![obj.at] = abs[obj.at] \cup {r}])
  <2>1. Gathered(w) = [w EXCEPT !.single = obj.single \cup {r}]
    BY <1>2, <1>5 DEF Gathered
  <2>2. obj' = [at |-> obj.at, todo |-> todo, gstats |-> st, mutation_out |-> {r},
                single |-> obj.single \cup {r}, saved |-> obj.saved, skip |-> obj.skip,
                busy |-> obj.busy]
    BY <1>5, <1>8, <2>1, Zenon DEF Becomes
  <2>3. AreOf(obj.at, obj.single \cup {r})
    BY <1>0, <1>2 DEF AreOf, DrvAtWork
  <2>4. /\ abs' = [abs EXCEPT ![obj.at] = abs[obj.at] \cup {r}] /\ subject' = subject
        /\ st = (IF abs[obj.at] \cup {r} = {} THEN Missing ELSE abs[obj.at] \cup {r})
    BY <1>6, <1>8 DEF Becomes
  <2> QED
    BY <1>0, <1>2, <2>2, <2>3, <2>4, WorkedInv, Zenon
<1>9. ASSUME NEW out, out = obj.mutation_out \/ out = {r}, subject' = subject, abs' = abs,
             NEW single, single = obj.single \cup old \/ single = obj.single \cup {r},
             obj' = [at |-> obj.at, todo |-> todo, gstats |-> obj.gstats, mutation_out |-> out,
                    single |-> single, saved |-> obj.saved, skip |-> obj.skip, busy |-> obj.busy]
      PROVE  DrvInv'
  <2>1. abs' = [abs EXCEPT ![obj.at] = abs[obj.at] \cup {}]
    BY <1>0, <1>9
  <2>2. obj.gstats = (IF abs[obj.at] \cup {} = {} THEN Missing ELSE abs[obj.at] \cup {})
    BY <1>0 DEF DrvAtWork
  <2>3. out = Missing \/ AreOf(obj.at, out)
    BY <1>0, <1>2, <1>9 DEF DrvAtWork
  <2>4. AreOf(obj.at, single) /\ obj.single \subseteq single /\ AreOf(obj.at, {})
    BY <1>0, <1>2, <1>7, <1>9 DEF DrvAtWork, AreOf
  <2> QED
    BY <1>0, <1>9, <2>1, <2>2, <2>3, <2>4, WorkedInv
<1>10. CASE Becomes(Gathered(o), abs)
  <2>1. Gathered(o) = [o EXCEPT !.single = obj.single \cup old]
    BY <1>3 DEF Gathered
  <2> HIDE DEF old
  <2>2. obj' = [at |-> obj.at, todo |-> todo, gstats |-> obj.gstats,
                mutation_out |-> obj.mutation_out, single |-> obj.single \cup old,
                saved |-> obj.saved, skip |-> obj.skip, busy |-> obj.busy]
    BY <1>3, <1>10, <2>1 DEF Becomes
  <2> QED
    BY <1>9, <1>10, <2>2 DEF Becomes
<1>11. CASE Becomes(Gathered(m), abs)
  <2>1. Gathered(m) = [m EXCEPT !.single = obj.single \cup {r}]
    BY <1>2, <1>4 DEF Gathered
  <2>2. obj' = [at |-> obj.at, todo |-> todo, gstats |-> obj.gstats, mutation_out |-> {r},
                single |-> obj.single \cup {r}, saved |-> obj.saved, skip |-> obj.skip,
                busy |-> obj.busy]
    BY <1>4, <1>11, <2>1 DEF Becomes
  <2> QED
    BY <1>9, <1>11, <2>2 DEF Becomes
<1> QED
  BY <1>1, <1>8, <1>10, <1>11

\* The results of a program are saved.
LEMMA SaveResultsInv ==
    ASSUME DrvInv, SaveResults
    PROVE  DrvInv'
<1> USE DEF DrvInv
<1>0. /\ obj.busy /\ obj.at \in DOMAIN DrvSubjects /\ Len(DrvSubjects) \in Nat /\ obj.at \in Nat
      /\ DOMAIN DrvSubjects = 1 .. Len(DrvSubjects) /\ obj.skip \in Nat /\ obj.skip < obj.at
  BY DriverAssumption DEF SaveResults, DrvTypeOK
<1> DEFINE no == FALSE
           it == [out |-> obj.single, gstats |-> obj.gstats]
           saved == [obj.saved EXCEPT ![obj.at] = it]
           a == [obj EXCEPT !.busy = no]
           b == [a EXCEPT !.saved = saved]
<1>o. DrvIsObj(obj)
  BY DEF DrvTypeOK
<1>a. a.saved = obj.saved
  BY <1>o DEF DrvIsObj
<1>b. obj' = b /\ abs' = abs /\ subject' = subject
  BY <1>a DEF SaveResults, Becomes
<1>c. saved[obj.at] = it /\ \A s \in DOMAIN DrvSubjects : s # obj.at => saved[s] = obj.saved[s]
  BY <1>0 DEF DrvTypeOK
<1>d. saved = [s \in DOMAIN DrvSubjects |-> saved[s]]
  BY <1>0, Zenon DEF DrvTypeOK
<1>e. it.out = obj.single /\ it.gstats = obj.gstats
  OBVIOUS
<1> HIDE DEF no, it, saved
<1>x1. a = [at |-> obj.at, todo |-> obj.todo, gstats |-> obj.gstats,
            mutation_out |-> obj.mutation_out, single |-> obj.single, saved |-> obj.saved,
            skip |-> obj.skip, busy |-> no]
  BY <1>o DEF DrvIsObj
<1> HIDE DEF a
<1>f. b = [at |-> obj.at, todo |-> obj.todo, gstats |-> obj.gstats,
           mutation_out |-> obj.mutation_out, single |-> obj.single, saved |-> saved,
           skip |-> obj.skip, busy |-> no]
  BY <1>x1
<1> HIDE DEF b

<1>1. /\ obj'.at = obj.at /\ obj'.todo = obj.todo /\ obj'.gstats = obj.gstats
      /\ obj'.mutation_out = obj.mutation_out /\ obj'.single = obj.single
      /\ obj'.saved = saved /\ obj'.skip = obj.skip /\ obj'.busy = no
  BY <1>b, <1>f
<1>2. DrvIsObj(obj') /\ obj'.busy = FALSE
  BY <1>b, <1>f DEF DrvIsObj, no
<1>3. DrvTypeOK'
  BY <1>0, <1>1, <1>2, <1>b, <1>d, Zenon DEF DrvTypeOK
<1>4. DrvAtWork' /\ DrvToCome'
  BY <1>1, <1>2, <1>b DEF DrvAtWork, DrvToCome
<1>5. DrvOwnResults'
  <2> SUFFICES ASSUME NEW s \in DOMAIN DrvSubjects
               PROVE  IF s <= obj.skip \/ s > obj.at
                      THEN saved[s] = [out |-> {Old}, gstats |-> {Old}]
                      ELSE /\ saved[s].gstats = (IF abs[s] = {} THEN Missing ELSE abs[s])
                           /\ abs[s] \subseteq saved[s].out
                           /\ \A r \in saved[s].out : r[1] = DrvSubjects[s]
    BY <1>1, <1>2, <1>b, Zenon DEF DrvOwnResults
  <2>1. CASE s = obj.at
    <3>1. ~(s <= obj.skip) /\ ~(s > obj.at)
      BY <1>0, <2>1
    <3>2. saved[s].out = obj.single /\ saved[s].gstats = obj.gstats
      BY <1>c, <1>e, <2>1, Zenon
    <3> QED
      BY <1>0, <2>1, <3>1, <3>2, Zenon DEF DrvAtWork, AreOf
  <2>2. CASE s # obj.at
    <3>1. s <= obj.skip \/ s > obj.at \/ (s = obj.at /\ obj.busy) <=> s <= obj.skip \/ s > obj.at
      BY <2>2
    <3>2. saved[s] = obj.saved[s]
      BY <1>c, <2>2
    <3>3. subject = "driver"
      BY DEF DrvTypeOK
    <3> QED
      BY <3>1, <3>2, <3>3, Zenon DEF DrvOwnResults
  <2> QED
    BY <2>1, <2>2
<1> QED
  BY <1>3, <1>4, <1>5

-----------------------------------------------------------------------------
IsCopy(c) == c = [code |-> c.code, lib |-> c.lib]

\* Where the controller is, in a configuration it accepted: a copy is made only of
\* the program as it is, and has the engine's library while mutants are injected.
StInv ==
    /\ subject = "startup"
    /\ obj = [cfg |-> obj.cfg, pc |-> obj.pc, copy |-> obj.copy, runs |-> obj.runs]
    /\ abs = [root |-> abs.root, baseline |-> abs.baseline]
    /\ IsCopy(obj.copy) /\ IsCopy(abs.root)
    /\ obj.cfg \in Configs
    /\ obj.pc \notin {"start", "ended"} => processConfigFile(obj.cfg)
    /\ obj.pc = "copy" => obj.copy = NoCopy
    /\ obj.cfg.place = "elsewhere" =>
          /\ abs.root = Original
          /\ obj.pc = "measure" => obj.copy = Original
          /\ obj.pc \in {"library", "mutate"} => abs.baseline = Original
    /\ obj.pc = "mutate" /\ obj.copy # NoCopy /\ obj.cfg.testingFramework = "cutest" =>
          obj.copy.lib # "own"

LEMMA StInitInv == StInit => StInv
<1> SUFFICES ASSUME StInit PROVE StInv
  OBVIOUS
<1>1. PICK c \in Configs :
          obj = [cfg |-> c, pc |-> "start", copy |-> IF c.place = "here" THEN Original ELSE NoCopy, runs |-> 1]
  BY DEF StInit
<1> DEFINE copy == IF c.place = "here" THEN Original ELSE NoCopy
<1>2. IsCopy(Original) /\ IsCopy(NoCopy) /\ IsCopy(copy)
  BY DEF IsCopy, Original, NoCopy
<1> HIDE DEF copy
<1>3. obj = [cfg |-> c, pc |-> "start", copy |-> copy, runs |-> 1]
  BY <1>1 DEF copy
<1>4. obj.cfg = c /\ obj.pc = "start" /\ obj.copy = copy
  BY <1>3
<1>5. abs = [root |-> Original, baseline |-> NoCopy] /\ abs.root = Original /\ subject = "startup"
  BY DEF StInit
<1> QED
  BY <1>2, <1>3, <1>4, <1>5 DEF StInv

\* The fields after a step
LEMMA StAt ==
    ASSUME StInv, NEW pc, NEW copy, At(pc, copy)
    PROVE  /\ obj' = [cfg |-> obj.cfg, pc |-> pc, copy |-> copy, runs |-> obj.runs]
           /\ obj'.cfg = obj.cfg /\ obj'.pc = pc /\ obj'.copy = copy /\ subject' = subject
           /\ abs' = [root |-> abs'.root, baseline |-> abs'.baseline] /\ abs'.baseline = abs.baseline
           /\ abs'.root = IF obj.cfg.place = "here" THEN copy ELSE abs.root
<1> DEFINE root == IF obj.cfg.place = "here" THEN copy ELSE abs.root
           a == [obj EXCEPT !.pc = pc]
<1>1. obj' = [a EXCEPT !.copy = copy] /\ abs' = [abs EXCEPT !.root = root] /\ subject' = subject
  BY DEF At
<1>2. a = [cfg |-> obj.cfg, pc |-> pc, copy |-> obj.copy, runs |-> obj.runs]
  BY DEF StInv
<1> HIDE DEF a, root
<1>3. obj' = [cfg |-> obj.cfg, pc |-> pc, copy |-> copy, runs |-> obj.runs]
  BY <1>1, <1>2
<1>4. abs' = [root |-> root, baseline |-> abs.baseline]
  BY <1>1 DEF StInv
<1>5. obj'.cfg = obj.cfg /\ obj'.pc = pc /\ obj'.copy = copy
  BY <1>3
<1>6. abs' = [root |-> abs'.root, baseline |-> abs'.baseline] /\ abs'.baseline = abs.baseline /\ abs'.root = root
  BY <1>4
<1> QED
  BY <1>1, <1>3, <1>5, <1>6, Zenon DEF root

LEMMA StStep ==
    ASSUME StInv, StNext
    PROVE  StInv'
<1> USE DEF StInv
<1>0. IsCopy(NoCopy) /\ IsCopy(Original) /\ NoCopy # Original
  BY DEF IsCopy, NoCopy, Original
<1>1. CASE Configure
  <2> DEFINE pc == IF processConfigFile(obj.cfg) THEN "clean" ELSE "ended"
  <2>1. At(pc, obj.copy) /\ obj.pc = "start"
    BY <1>1 DEF Configure
  <2>2. pc \in {"clean", "ended"} /\ (pc = "clean" => processConfigFile(obj.cfg))
    OBVIOUS
  <2> HIDE DEF pc
  <2>3. /\ obj' = [cfg |-> obj.cfg, pc |-> pc, copy |-> obj.copy, runs |-> obj.runs]
        /\ obj'.cfg = obj.cfg /\ obj'.pc = pc /\ obj'.copy = obj.copy /\ subject' = subject
        /\ abs' = [root |-> abs'.root, baseline |-> abs'.baseline] /\ abs'.baseline = abs.baseline
        /\ abs'.root = IF obj.cfg.place = "here" THEN obj.copy ELSE abs.root
    BY <2>1, StAt
  <2> QED
    BY <2>2, <2>3
<1>2. CASE CleanUp
  <2>1. At("copy", NoCopy) /\ obj.pc = "clean"
    BY <1>2 DEF CleanUp
  <2>2. /\ obj' = [cfg |-> obj.cfg, pc |-> "copy", copy |-> NoCopy, runs |-> obj.runs]
        /\ obj'.cfg = obj.cfg /\ obj'.pc = "copy" /\ obj'.copy = NoCopy /\ subject' = subject
        /\ abs' = [root |-> abs'.root, baseline |-> abs'.baseline] /\ abs'.baseline = abs.baseline
        /\ abs'.root = IF obj.cfg.place = "here" THEN NoCopy ELSE abs.root
    BY <2>1, StAt
  <2> QED
    BY <1>0, <2>1, <2>2
<1>3. CASE CopyPut
  <2>1. At("measure", abs.root) /\ obj.pc = "copy"
    BY <1>3 DEF CopyPut
  <2>2. /\ obj' = [cfg |-> obj.cfg, pc |-> "measure", copy |-> abs.root, runs |-> obj.runs]
        /\ obj'.cfg = obj.cfg /\ obj'.pc = "measure" /\ obj'.copy = abs.root /\ subject' = subject
        /\ abs' = [root |-> abs'.root, baseline |-> abs'.baseline] /\ abs'.baseline = abs.baseline
        /\ abs'.root = IF obj.cfg.place = "here" THEN abs.root ELSE abs.root
    BY <2>1, StAt
  <2> QED
    BY <2>1, <2>2
<1>4. CASE MeasurePut
  <2>1. /\ obj' = [cfg |-> obj.cfg, pc |-> "library", copy |-> obj.copy, runs |-> obj.runs]
        /\ abs' = [root |-> abs.root, baseline |-> obj.copy] /\ subject' = subject /\ obj.pc = "measure"
    BY <1>4 DEF MeasurePut
  <2>2. obj'.cfg = obj.cfg /\ obj'.pc = "library" /\ obj'.copy = obj.copy
    BY <2>1
  <2>3. /\ abs'.root = abs.root /\ abs'.baseline = obj.copy
        /\ abs' = [root |-> abs'.root, baseline |-> abs'.baseline]
    BY <2>1
  <2> QED
    BY <2>1, <2>2, <2>3
<1>5. CASE ReplaceLibrary
  <2> DEFINE lib == EngineLibrary(obj.cfg)
             copy == IF obj.copy = NoCopy THEN NoCopy ELSE [obj.copy EXCEPT !.lib = lib]
  <2>1. At("mutate", copy) /\ obj.pc = "library"
    BY <1>5 DEF ReplaceLibrary
  <2>2. obj.cfg.testingFramework = "cutest" => lib # "own"
    BY <2>1 DEF processConfigFile, EngineLibrary
  <2> HIDE DEF lib
  <2>3. [obj.copy EXCEPT !.lib = lib] = [code |-> obj.copy.code, lib |-> lib]
    BY DEF IsCopy
  <2>4. IsCopy(copy) /\ (copy # NoCopy => copy.lib = lib)
    BY <1>0, <2>3 DEF IsCopy
  <2> HIDE DEF copy
  <2>5. /\ obj' = [cfg |-> obj.cfg, pc |-> "mutate", copy |-> copy, runs |-> obj.runs]
        /\ obj'.cfg = obj.cfg /\ obj'.pc = "mutate" /\ obj'.copy = copy /\ subject' = subject
        /\ abs' = [root |-> abs'.root, baseline |-> abs'.baseline] /\ abs'.baseline = abs.baseline
        /\ abs'.root = IF obj.cfg.place = "here" THEN copy ELSE abs.root
    BY <2>1, StAt
  <2> QED
    BY <2>1, <2>2, <2>4, <2>5
<1>6. CASE InjectMutants
  <2> DEFINE code == IF obj.copy.code = "original" THEN "mutated" ELSE "original"
             copy == [obj.copy EXCEPT !.code = code]
  <2>1. At("mutate", copy) /\ obj.pc = "mutate" /\ obj.copy # NoCopy
    BY <1>6 DEF InjectMutants
  <2> HIDE DEF code
  <2>2. copy = [code |-> code, lib |-> obj.copy.lib]
    BY DEF IsCopy
  <2> HIDE DEF copy
  <2>3. IsCopy(copy) /\ copy.lib = obj.copy.lib
    BY <2>2 DEF IsCopy
  <2>4. /\ obj' = [cfg |-> obj.cfg, pc |-> "mutate", copy |-> copy, runs |-> obj.runs]
        /\ obj'.cfg = obj.cfg /\ obj'.pc = "mutate" /\ obj'.copy = copy /\ subject' = subject
        /\ abs' = [root |-> abs'.root, baseline |-> abs'.baseline] /\ abs'.baseline = abs.baseline
        /\ abs'.root = IF obj.cfg.place = "here" THEN copy ELSE abs.root
    BY <2>1, StAt
  <2> QED
    BY <2>1, <2>3, <2>4
<1>7. CASE EndRun
  <2>1. At("ended", NoCopy)
    BY <1>7 DEF EndRun
  <2>2. /\ obj' = [cfg |-> obj.cfg, pc |-> "ended", copy |-> NoCopy, runs |-> obj.runs]
        /\ obj'.cfg = obj.cfg /\ obj'.pc = "ended" /\ obj'.copy = NoCopy /\ subject' = subject
        /\ abs' = [root |-> abs'.root, baseline |-> abs'.baseline] /\ abs'.baseline = abs.baseline
        /\ abs'.root = IF obj.cfg.place = "here" THEN NoCopy ELSE abs.root
    BY <2>1, StAt
  <2> QED
    BY <1>0, <2>2
<1>8. CASE Restart
  <2> DEFINE runs == obj.runs + 1
             a == [obj EXCEPT !.pc = "start"]
  <2>1. obj' = [a EXCEPT !.runs = runs] /\ abs' = abs /\ subject' = subject
    <3>1. a.runs = obj.runs
      OBVIOUS
    <3> QED
      BY <1>8, <3>1 DEF Restart
  <2> HIDE DEF runs
  <2>2. a = [cfg |-> obj.cfg, pc |-> "start", copy |-> obj.copy, runs |-> obj.runs]
    OBVIOUS
  <2> HIDE DEF a
  <2>3. obj' = [cfg |-> obj.cfg, pc |-> "start", copy |-> obj.copy, runs |-> runs]
    BY <2>1, <2>2
  <2>4. obj'.cfg = obj.cfg /\ obj'.pc = "start" /\ obj'.copy = obj.copy
    BY <2>3
  <2> QED
    BY <2>1, <2>3, <2>4, Zenon
<1> QED
  BY <1>1, <1>2, <1>3, <1>4, <1>5, <1>6, <1>7, <1>8, Zenon DEF StNext

RunInv == DrvInv \/ StInv

LEMMA RunStutters ==
    ASSUME RunInv, UNCHANGED subjectVars
    PROVE  RunInv'
<1>1. obj' = obj /\ abs' = abs /\ subject' = subject
  BY DEF subjectVars
<1>2. DrvInv => DrvInv'
  BY <1>1, Zenon DEF DrvInv, DrvTypeOK, DrvIsObj, DrvAtWork, AreOf, DrvToCome, DrvOwnResults
<1>3. StInv => StInv'
  BY <1>1 DEF StInv
<1> QED
  BY <1>2, <1>3 DEF RunInv

\* Whatever programs and configurations run.sh is given, wherever the controller
\* stops and however often the user ends it and starts it again: the statistics
\* saved with a program are those of its own completed runs, the baseline of a
\* program outside the engine's directory is measured on the program as it is, and
\* a project for CuTest has the engine's test library while its mutants are run.
THEOREM RunsAreIndependent == RunSpec => []RunsIndependent
<1>1. DrvInit \/ StInit => RunInv
  BY DrvInitInv, StInitInv DEF RunInv
<1>2. RunInv /\ [DrvNext \/ StNext]_subjectVars => RunInv'
  <2> SUFFICES ASSUME RunInv, [DrvNext \/ StNext]_subjectVars
               PROVE  RunInv'
    OBVIOUS
  <2>1. CASE UNCHANGED subjectVars
    BY <2>1, RunStutters
  <2>2. CASE DrvNext
    <3>1. DrvInv
      BY <2>2 DEF DrvNext, RunInv, StInv
    <3> QED
      BY <2>2, <3>1, StartSubjectInv, RunControllerInv, SaveResultsInv DEF DrvNext, RunInv
  <2>3. CASE StNext
    <3>1. StInv
      BY <2>3 DEF StNext, RunInv, DrvInv, DrvTypeOK
    <3> QED
      BY <2>3, <3>1, StStep DEF RunInv
  <2> QED
    BY <2>1, <2>2, <2>3
<1>3. RunInv => RunsIndependent
  <2>1. DrvInv => RunsIndependent
    BY DEF DrvInv, DrvTypeOK, RunsIndependent, StBaselineFresh, StReports
  <2>2. StInv => RunsIndependent
    BY DEF StInv, RunsIndependent, StBaselineFresh, StReports, DrvOwnResults
  <2> QED
    BY <2>1, <2>2 DEF RunInv
<1> QED
  BY <1>1, <1>2, <1>3, PTL DEF RunSpec

(***************************************************************************)
(* The counters in gstats.xml add up, its ratios are defined and it loses  *)
(* no mutant, for any operators, any number of mutants and any             *)
(* interleaving with crashes and commands.                                 *)
(*                                                                         *)
(* The three properties are about the file only, and not inductive: the    *)
(* file is written from the document in memory.  Each of the invariants    *)
(* (IInv, RInv, HInv) says the same of both.                               *)
(***************************************************************************)
IInv ==
    /\ TypeOK
    /\ \A op \in Operators : AddsUp(doc.count[op])
    /\ OperatorsAddUp

One(keys) == [k \in Counters |-> IF k \in keys THEN 1 ELSE 0]

\* The key sets that one call of genResultsFOM may increment.
Classes ==
    {{"generated_mutants", "failed_injection"}}
    \cup {{"generated_mutants"} \cup DeviationKeys(deviates) \cup KilledKeys(ve, deviates) :
             ve \in BOOLEAN, deviates \in BOOLEAN}
    \cup {{"generated_mutants"} \cup DeviationKeys(deviates) \cup SurvivedKeys(ve, deviates) :
             ve \in BOOLEAN, deviates \in BOOLEAN}

-----------------------------------------------------------------------------
LEMMA CounterNames ==
    /\ "generated_mutants" \in Counters /\ "failed_injection" \in Counters
    /\ "killed_by_tests" \in Counters /\ "killed_SD" \in Counters
    /\ "killed_WD" \in Counters /\ "killed_WD_VE" \in Counters
    /\ "killed_WD_CFD" \in Counters /\ "equivalent_mutants" \in Counters
    /\ "survived_SD" \in Counters /\ "survived_WD" \in Counters
    /\ "survived_WD_VE" \in Counters /\ "survived_WD_CFD" \in Counters
    /\ "cfg_deviation_raw" \in Counters /\ "damage_raw" \in Counters
BY DEF Counters

\* The counters of a single mutant of any class add up.
LEMMA OneAddsUp ==
    ASSUME NEW keys \in Classes
    PROVE  AddsUp(One(keys))
<1>1. CASE keys = {"generated_mutants", "failed_injection"}
  BY <1>1, CounterNames DEF AddsUp, One
<1>2. ASSUME NEW ve \in BOOLEAN, NEW deviates \in BOOLEAN,
             keys = {"generated_mutants"} \cup DeviationKeys(deviates) \cup KilledKeys(ve, deviates)
      PROVE  AddsUp(One(keys))
  <2>1. CASE ve /\ deviates
    BY <1>2, <2>1, CounterNames DEF AddsUp, One, DeviationKeys, KilledKeys
  <2>2. CASE ve /\ ~deviates
    BY <1>2, <2>2, CounterNames DEF AddsUp, One, DeviationKeys, KilledKeys
  <2>3. CASE ~ve /\ deviates
    BY <1>2, <2>3, CounterNames DEF AddsUp, One, DeviationKeys, KilledKeys
  <2>4. CASE ~ve /\ ~deviates
    BY <1>2, <2>4, CounterNames DEF AddsUp, One, DeviationKeys, KilledKeys
  <2>5. QED BY <2>1, <2>2, <2>3, <2>4
<1>3. ASSUME NEW ve \in BOOLEAN, NEW deviates \in BOOLEAN,
             keys = {"generated_mutants"} \cup DeviationKeys(deviates) \cup SurvivedKeys(ve, deviates)
      PROVE  AddsUp(One(keys))
  <2>1. CASE ve /\ deviates
    BY <1>3, <2>1, CounterNames DEF AddsUp, One, DeviationKeys, SurvivedKeys
  <2>2. CASE ve /\ ~deviates
    BY <1>3, <2>2, CounterNames DEF AddsUp, One, DeviationKeys, SurvivedKeys
  <2>3. CASE ~ve /\ deviates
    BY <1>3, <2>3, CounterNames DEF AddsUp, One, DeviationKeys, SurvivedKeys
  <2>4. CASE ~ve /\ ~deviates
    BY <1>3, <2>4, CounterNames DEF AddsUp, One, DeviationKeys, SurvivedKeys
  <2>5. QED BY <2>1, <2>2, <2>3, <2>4
<1>4. QED BY <1>1, <1>2, <1>3 DEF Classes

\* Two vectors of counters that add up have a sum that does.
LEMMA SumAddsUp ==
    ASSUME NEW c \in [Counters -> Nat], NEW d \in [Counters -> Nat],
           AddsUp(c), AddsUp(d)
    PROVE  AddsUp([k \in Counters |-> c[k] + d[k]])
<1> DEFINE s == [k \in Counters |-> c[k] + d[k]]
<1>1. \A k \in Counters : s[k] = c[k] + d[k] /\ c[k] \in Nat /\ d[k] \in Nat
  OBVIOUS
<1> HIDE DEF s
<1>2. s["generated_mutants"] =
          s["failed_injection"] + s["killed_by_tests"]
          + s["equivalent_mutants"] + s["survived_SD"] + s["survived_WD"]
  BY <1>1, CounterNames DEF AddsUp
<1>3. s["survived_WD"] = s["survived_WD_VE"] + s["survived_WD_CFD"]
  BY <1>1, CounterNames DEF AddsUp
<1>4. s["killed_WD"] = s["killed_WD_VE"] + s["killed_WD_CFD"]
  BY <1>1, CounterNames DEF AddsUp
<1>5. s["killed_SD"] + s["killed_WD"] <= s["killed_by_tests"]
  BY <1>1, CounterNames DEF AddsUp
<1>6. AddsUp(s) BY <1>2, <1>3, <1>4, <1>5 DEF AddsUp
<1>7. QED BY <1>6 DEF s

\* What Bump does to a document.
LEMMA BumpAddsUp ==
    ASSUME NEW d \in Documents, NEW op \in Operators, NEW keys \in Classes,
           \A o \in Operators : AddsUp(d.count[o])
    PROVE  /\ Bump(d, op, keys) \in Documents
           /\ \A o \in Operators : AddsUp(Bump(d, op, keys).count[o])
<1> DEFINE b == [k \in Counters |-> IF k \in keys THEN d.count[op][k] + 1 ELSE d.count[op][k]]
<1>1. d.count[op] \in [Counters -> Nat]
  BY DEF Documents
<1>2. b = [k \in Counters |-> d.count[op][k] + One(keys)[k]]
  BY <1>1 DEF One
<1>3. One(keys) \in [Counters -> Nat]
  BY DEF One
<1>4. AddsUp(b)
  BY <1>1, <1>2, <1>3, OneAddsUp, SumAddsUp
<1>5. b \in [Counters -> Nat]
  BY <1>1
<1>6. Bump(d, op, keys) = [d EXCEPT !.count[op] = b]
  BY DEF Bump
<1> HIDE DEF b
<1>7. Bump(d, op, keys) \in Documents
  BY <1>5, <1>6, Zenon DEF Documents
<1>8. Bump(d, op, keys).count = [d.count EXCEPT ![op] = b]
  BY <1>6 DEF Documents
<1>9. d.count \in [Operators -> [Counters -> Nat]]
  BY DEF Documents
<1>10. \A o \in Operators : AddsUp(Bump(d, op, keys).count[o])
  BY <1>4, <1>8, <1>9
<1>11. QED BY <1>7, <1>10

\* A new document adds up.
LEMMA EmptyAddsUp ==
    /\ Empty \in Documents
    /\ \A op \in Operators : AddsUp(Empty.count[op])
<1>1. Empty \in Documents
  BY DEF Empty, Documents
<1>2. ASSUME NEW op \in Operators PROVE AddsUp(Empty.count[op])
  <2>1. Empty.count = [o \in Operators |-> [c \in Counters |-> 0]]
    BY Zenon DEF Empty
  <2>2. Empty.count[op] = [c \in Counters |-> 0]
    BY <2>1
  <2>3. \A c \in Counters : Empty.count[op][c] = 0
    BY <2>2
  <2> QED
    BY <2>3, CounterNames DEF AddsUp
<1>3. QED BY <1>1, <1>2, Zenon

\* The damage is not one of the counters that add up.
LEMMA ChargedAddsUp ==
    ASSUME NEW d \in Documents, owed \in [Operators -> Nat],
           \A op \in Operators : AddsUp(d.count[op])
    PROVE  /\ Charged(d) \in Documents
           /\ \A op \in Operators : AddsUp(Charged(d).count[op])
<1> DEFINE c == [op \in Operators |->
                  [d.count[op] EXCEPT !["damage_raw"] = @ + owed[op]]]
<1>1. d.count \in [Operators -> [Counters -> Nat]]
  BY DEF Documents
<1>2. c \in [Operators -> [Counters -> Nat]]
  BY <1>1, CounterNames
<1>3. Charged(d) = [d EXCEPT !.count = c]
  BY DEF Charged
<1>4. ASSUME NEW op \in Operators
      PROVE  AddsUp(c[op])
  <2>1. \A k \in Counters : k # "damage_raw" => c[op][k] = d.count[op][k]
    BY <1>1
  <2>2. QED BY <2>1, CounterNames, Zenon DEF AddsUp
<1> HIDE DEF c
<1>5. Charged(d) \in Documents
  BY <1>2, <1>3 DEF Documents
<1>6. Charged(d).count = c
  BY <1>3 DEF Documents
<1>7. QED BY <1>4, <1>5, <1>6

\* The derived statistics leave the counters alone.
LEMMA DerivedAddsUp ==
    ASSUME NEW d \in Documents,
           \A op \in Operators : AddsUp(d.count[op])
    PROVE  /\ generate_derived_stats(d) \in Documents
           /\ generate_derived_stats(d).count = d.count
<1> DEFINE Q == (Nat \X Nat) \cup {Unset}
           r == [op \in Operators |->
                   IF \A k \in Counters : d.count[op][k] = 0
                   THEN d.ratio[op]
                   ELSE DerivedOf(d.count[op], d.ratio[op])]
<1>1. d.count \in [Operators -> [Counters -> Nat]] /\ d.ratio \in [Operators -> [Ratios -> Q]]
  BY DEF Documents
<1>2. ASSUME NEW n \in Nat, NEW g \in Nat, NEW old \in Q
      PROVE  Ratio(n, g, old) \in Q
  BY <1>2 DEF Ratio
<1>3. ASSUME NEW n \in Nat, NEW m \in Nat
      PROVE  Immunity(n, m) \in Q
  BY <1>3 DEF Immunity
<1>4. ASSUME NEW op \in Operators
      PROVE  DerivedOf(d.count[op], d.ratio[op]) \in [Ratios -> Q]
  <2> DEFINE count == d.count[op]
             old   == d.ratio[op]
             D     == DerivedOf(count, old)
  <2>1. count \in [Counters -> Nat] /\ old \in [Ratios -> Q]
    BY <1>1
  <2>2. AddsUp(count)
    OBVIOUS
  <2> HIDE DEF count, old
  <2>3. count["generated_mutants"] - count["failed_injection"] \in Nat
    BY <2>1, <2>2, CounterNames DEF AddsUp
  <2>4. \A k \in Ratios : old[k] \in Q
    BY <2>1
  <2>5. /\ "damage" \in Ratios /\ "fragilty" \in Ratios /\ "average_CFD" \in Ratios
        /\ "infectiveness" \in Ratios
    BY DEF Ratios
  <2>6. \A k \in Counters : count[k] \in Nat
    BY <2>1
  <2>7. Ratio(count["damage_raw"], count["generated_mutants"], old["damage"]) \in Q
    BY <1>2, <2>4, <2>5, <2>6, CounterNames
  <2>8. Ratio(count["killed_by_tests"], count["generated_mutants"], old["fragilty"]) \in Q
    BY <1>2, <2>4, <2>5, <2>6, CounterNames
  <2>9. Ratio(count["cfg_deviation_raw"], count["generated_mutants"], old["average_CFD"]) \in Q
    BY <1>2, <2>4, <2>5, <2>6, CounterNames
  <2>10. Immunity(count["survived_WD_VE"], count["killed_WD_VE"]) \in Q
    BY <1>3, <2>6, CounterNames
  <2>11. Immunity(count["survived_WD_CFD"], count["killed_WD_CFD"]) \in Q
    BY <1>3, <2>6, CounterNames
  <2>12. (IF count["failed_injection"] = 0 \/ count["generated_mutants"] = 0
          THEN old["infectiveness"]
          ELSE <<count["generated_mutants"] - count["failed_injection"],
                 count["generated_mutants"]>>) \in Q
    BY <2>3, <2>4, <2>5, <2>6, CounterNames
  <2> HIDE DEF Q
  <2>13. D \in [Ratios -> Q]
    BY <2>7, <2>8, <2>9, <2>10, <2>11, <2>12 DEF DerivedOf, Ratios
  <2>14. QED BY <2>13 DEF count, old
<1>5. r \in [Operators -> [Ratios -> Q]]
  BY <1>1, <1>4
<1>6. generate_derived_stats(d) = [d EXCEPT !.ratio = r]
  BY DEF generate_derived_stats
<1> HIDE DEF r
<1>7. QED BY <1>5, <1>6 DEF Documents

-----------------------------------------------------------------------------
LEMMA InitHolds == Init => IInv
<1>1. ASSUME Init PROVE TypeOK
  BY <1>1, EmptyAddsUp DEF Init, TypeOK, Phases, Jobs, Unused
<1>2. ASSUME Init PROVE \A op \in Operators : AddsUp(doc.count[op])
  BY <1>2, EmptyAddsUp DEF Init
<1>3. ASSUME Init PROVE OperatorsAddUp
  BY <1>3 DEF Init, OperatorsAddUp
<1>4. QED BY <1>1, <1>2, <1>3 DEF IInv

\* A file that is read gives a document that adds up.
LEMMA ParsedAddsUp ==
    ASSUME IInv
    PROVE  /\ Parsed(disk) \in Documents
           /\ \A op \in Operators : AddsUp(Parsed(disk).count[op])
           /\ Recreated(disk) \in [Operators -> [mutants : Nat, run : Nat, failed : Nat]]
<1>1. CASE disk \in {Absent, Torn}
  BY <1>1, EmptyAddsUp DEF Parsed, Recreated, Unused
<1>2. CASE disk \notin {Absent, Torn}
  BY <1>2 DEF IInv, TypeOK, OperatorsAddUp, Parsed, Recreated
<1>3. QED BY <1>1, <1>2

LEMMA OpenHolds ==
    ASSUME IInv, open_GStats,
           phase' \in Phases, job' \in Jobs, UNCHANGED <<mutants, owed, disturbed>>
    PROVE  IInv'
<1>1. TypeOK'
  BY ParsedAddsUp DEF IInv, TypeOK, open_GStats
<1>2. (\A op \in Operators : AddsUp(doc.count[op]))'
  BY ParsedAddsUp, Zenon DEF open_GStats, AddsUp
<1>3. OperatorsAddUp'
  BY ParsedAddsUp, Zenon DEF open_GStats, OperatorsAddUp, AddsUp
<1>4. QED BY <1>1, <1>2, <1>3 DEF IInv

\* While the file is written it is Torn, and the new document adds up.
LEMMA StartFlushHolds ==
    ASSUME IInv, NEW d \in Documents, \A op \in Operators : AddsUp(d.count[op]),
           StartFlush(d), UNCHANGED <<job, disturbed>>, mutants' \in Nat,
           owed' \in [Operators -> Nat],
           history' \in [Operators -> [mutants : Nat, run : Nat, failed : Nat]]
    PROVE  IInv'
<1>1. TypeOK'
  BY DEF IInv, TypeOK, StartFlush, Phases
<1>2. (\A op \in Operators : AddsUp(doc.count[op]))'
  BY DEF StartFlush, AddsUp
<1>3. OperatorsAddUp'
  BY DEF StartFlush, OperatorsAddUp
<1>4. QED BY <1>1, <1>2, <1>3, Zenon DEF IInv

LEMMA MutantHolds ==
    ASSUME IInv, NEW op \in Operators, genResultsFOM(op)
    PROVE  IInv'
<1>1. /\ doc \in Documents /\ mutants' \in Nat /\ UNCHANGED <<job, disturbed>>
      /\ owed \in [Operators -> Nat]
      /\ \A o \in Operators : AddsUp(doc.count[o])
  BY DEF genResultsFOM, IInv, TypeOK
<1>2. ASSUME NEW run \in Nat, NEW failed \in Nat, Log(op, run, failed)
      PROVE  history' \in [Operators -> [mutants : Nat, run : Nat, failed : Nat]]
  BY <1>2 DEF Log, IInv, TypeOK
<1>3. ASSUME NEW keys \in Classes, StartFlush(Bump(doc, op, keys)),
             NEW run \in Nat, NEW failed \in Nat, Log(op, run, failed),
             owed' \in [Operators -> Nat]
      PROVE  IInv'
  <2>1. /\ Bump(doc, op, keys) \in Documents
        /\ \A o \in Operators : AddsUp(Bump(doc, op, keys).count[o])
    BY <1>1, <1>3, BumpAddsUp
  <2>2. history' \in [Operators -> [mutants : Nat, run : Nat, failed : Nat]]
    BY <1>2, <1>3
  <2>3. QED BY <1>1, <1>3, <2>1, <2>2, StartFlushHolds
<1>4. Suite \in Nat
  BY GStatsAssumption
<1>5. CASE /\ StartFlush(Bump(doc, op, {"generated_mutants", "failed_injection"}))
           /\ Log(op, 0, 0)
           /\ UNCHANGED owed
  <2>1. {"generated_mutants", "failed_injection"} \in Classes
    BY DEF Classes
  <2>2. 0 \in Nat /\ owed' \in [Operators -> Nat]
    BY <1>1, <1>5
  <2>3. QED BY <1>3, <1>5, <2>1, <2>2, Zenon
<1>6. ASSUME NEW ve \in BOOLEAN, NEW deviates \in BOOLEAN, NEW failed \in 1..Suite,
             NEW result \in 0..1,
             StartFlush(Bump(doc, op, {"generated_mutants"} \cup DeviationKeys(deviates)
                                      \cup KilledKeys(ve, deviates))),
             Log(op, Suite, failed),
             owed' = [owed EXCEPT ![op] = IF failed < Suite THEN @ + result ELSE @]
      PROVE  IInv'
  <2>1. owed' \in [Operators -> Nat]
    BY <1>1, <1>6
  <2>2. {"generated_mutants"} \cup DeviationKeys(deviates) \cup KilledKeys(ve, deviates) \in Classes
    BY DEF Classes
  <2>3. failed \in Nat
    BY <1>4
  <2>4. QED BY <1>3, <1>4, <1>6, <2>1, <2>2, <2>3
<1>7. ASSUME NEW ve \in BOOLEAN, NEW deviates \in BOOLEAN, NEW result \in 0..1,
             StartFlush(Bump(doc, op, {"generated_mutants"} \cup DeviationKeys(deviates)
                                      \cup SurvivedKeys(ve, deviates))),
             Log(op, Suite, 0),
             owed' = [owed EXCEPT ![op] = @ + result]
      PROVE  IInv'
  <2>1. owed' \in [Operators -> Nat]
    BY <1>1, <1>7
  <2>2. {"generated_mutants"} \cup DeviationKeys(deviates) \cup SurvivedKeys(ve, deviates) \in Classes
    BY DEF Classes
  <2>3. QED BY <1>3, <1>4, <1>7, <2>1, <2>2
<1>8. QED BY <1>5, <1>6, <1>7, Zenon DEF genResultsFOM

LEMMA EndFlushHolds ==
    ASSUME IInv, EndFlush
    PROVE  IInv'
<1>1. disk' \in {doc, Absent, Torn}
  BY DEF EndFlush, FlushedFile
<1>2. /\ phase' \in Phases /\ job' \in Jobs /\ mutants' \in Nat
      /\ owed' \in [Operators -> Nat]
  BY DEF EndFlush, IInv, TypeOK, Phases, Jobs
<1>3. UNCHANGED <<doc, history, disturbed>>
  BY DEF EndFlush
<1>4. TypeOK'
  BY <1>1, <1>2, <1>3 DEF IInv, TypeOK
<1>5. (\A op \in Operators : AddsUp(doc.count[op]))'
  BY <1>3 DEF IInv, AddsUp
<1>6. OperatorsAddUp'
  BY <1>1, <1>3, <1>5 DEF OperatorsAddUp, AddsUp
<1>7. QED BY <1>4, <1>5, <1>6 DEF IInv

LEMMA StopHolds ==
    ASSUME IInv, Stop
    PROVE  IInv'
<1>1. TypeOK'
  BY EmptyAddsUp DEF Stop, IInv, TypeOK, Phases, Jobs
<1>2. (\A op \in Operators : AddsUp(doc.count[op]))'
  BY EmptyAddsUp DEF Stop, AddsUp
<1>3. OperatorsAddUp'
  BY Zenon DEF Stop, IInv, OperatorsAddUp, AddsUp
<1>4. QED BY <1>1, <1>2, <1>3 DEF IInv

LEMMA CommandHolds ==
    ASSUME IInv, Collect \/ clear_GStats
    PROVE  IInv'
<1>1. UNCHANGED <<doc, phase, job, mutants, owed>>
  BY DEF Collect, clear_GStats
<1>2. disk' \in {Parsed(disk), Absent}
  BY DEF Collect, clear_GStats
<1>3. history' \in [Operators -> [mutants : Nat, run : Nat, failed : Nat]]
  BY ParsedAddsUp DEF Collect, clear_GStats, Unused
<1>4. disturbed' \in 0..1
  BY DEF Collect, clear_GStats, Disturbs, IInv, TypeOK
<1>5. TypeOK'
  BY <1>1, <1>2, <1>3, <1>4, ParsedAddsUp DEF IInv, TypeOK
<1>6. (\A op \in Operators : AddsUp(doc.count[op]))'
  BY <1>1 DEF IInv, AddsUp
<1>7. OperatorsAddUp'
  BY <1>2, ParsedAddsUp DEF OperatorsAddUp, AddsUp
<1>8. QED BY <1>5, <1>6, <1>7 DEF IInv

LEMMA SummaryHolds ==
    ASSUME IInv, calculate_average_damage \/ Aggregate \/ Derive
    PROVE  IInv'
<1>1. /\ doc \in Documents /\ owed \in [Operators -> Nat] /\ mutants \in Nat
      /\ \A op \in Operators : AddsUp(doc.count[op])
      /\ history \in [Operators -> [mutants : Nat, run : Nat, failed : Nat]]
  BY DEF IInv, TypeOK
<1>2. UNCHANGED <<job, mutants, owed, history, disturbed>>
  BY DEF calculate_average_damage, Aggregate, Derive
<1>3. CASE calculate_average_damage
  BY <1>1, <1>2, <1>3, ChargedAddsUp, StartFlushHolds DEF calculate_average_damage
<1>4. CASE Aggregate
  BY <1>1, <1>2, <1>4, StartFlushHolds DEF Aggregate
<1>5. CASE Derive
  BY <1>1, <1>2, <1>5, DerivedAddsUp, StartFlushHolds DEF Derive
<1>6. QED BY <1>3, <1>4, <1>5

LEMMA StepHolds == IInv /\ [Next]_vars => IInv'
<1> SUFFICES ASSUME IInv, [Next]_vars PROVE IInv'
  OBVIOUS
<1>1. CASE Start
  <2>1. phase' \in Phases /\ job' \in Jobs /\ UNCHANGED <<mutants, owed, disturbed>>
    BY <1>1 DEF Start, IInv, TypeOK, Phases
  <2>2. CASE open_GStats
    BY <2>1, <2>2, OpenHolds
  <2>3. CASE UNCHANGED <<disk, doc, history>>
    BY <2>1, <2>3, Zenon DEF IInv, TypeOK, OperatorsAddUp, AddsUp
  <2>4. QED BY <1>1, <2>2, <2>3 DEF Start
<1>2. ASSUME NEW j \in Jobs, Open(j) PROVE IInv'
  BY <1>2, OpenHolds DEF Open, Phases
<1>3. ASSUME NEW op \in Operators, genResultsFOM(op) PROVE IInv'
  BY <1>3, MutantHolds
<1>4. CASE UNCHANGED vars
  BY <1>4, Zenon DEF vars, IInv, TypeOK, OperatorsAddUp, AddsUp
<1>5. QED
  BY <1>1, <1>2, <1>3, <1>4, SummaryHolds, EndFlushHolds, StopHolds, CommandHolds
     DEF Next

\* The variables of the statistics have their types in every run.
THEOREM StatisticsTyped == Spec => []TypeOK
<1>1. IInv => TypeOK
  BY DEF IInv
<1>2. QED BY InitHolds, StepHolds, <1>1, PTL DEF Spec

\* Whatever the operators, the suite and the number of mutants, and wherever
\* the controller is killed or a command comes in between, a gstats.xml that
\* can be read assigns every generated mutant to exactly one class: open_GStats,
\* genResultsFOM and the summaries keep the counters together.
THEOREM StatisticsAddUp == Spec => []OperatorsAddUp
<1>1. IInv => OperatorsAddUp
  BY DEF IInv
<1>2. QED BY InitHolds, StepHolds, <1>1, PTL DEF Spec

-----------------------------------------------------------------------------
(* The derived statistics.  A ratio that is kept from an earlier flush must  *)
(* still be one, and the deviations must not outnumber the mutants, so the   *)
(* invariant is about whole documents, in memory and in the file.            *)

Sane(r, q) == q # Unset => q[2] > 0 /\ (r # "damage" => q[1] <= q[2])

Sound(d) ==
    \A op \in Operators :
        /\ d.count[op]["cfg_deviation_raw"] <= d.count[op]["generated_mutants"]
        /\ \A r \in Ratios : Sane(r, d.ratio[op][r])

RInv == Sound(doc) /\ (disk \notin {Absent, Torn} => Sound(disk))

LEMMA EmptySound == Sound(Empty)
<1>1. ASSUME NEW op \in Operators
      PROVE  /\ Empty.count[op]["cfg_deviation_raw"] = 0
             /\ Empty.count[op]["generated_mutants"] = 0
             /\ \A r \in Ratios : Empty.ratio[op][r] = Unset
  BY CounterNames DEF Empty
<1>2. QED BY <1>1 DEF Sound, Sane

LEMMA BumpSound ==
    ASSUME NEW d \in Documents, NEW op \in Operators, NEW keys,
           "generated_mutants" \in keys, Sound(d)
    PROVE  Sound(Bump(d, op, keys))
<1> DEFINE b == [k \in Counters |-> IF k \in keys THEN d.count[op][k] + 1 ELSE d.count[op][k]]
           e == Bump(d, op, keys)
<1>1. d.count \in [Operators -> [Counters -> Nat]]
  BY DEF Documents
<1>2. e = [d EXCEPT !.count[op] = b]
  BY DEF Bump
<1>3. b["generated_mutants"] = d.count[op]["generated_mutants"] + 1
  BY CounterNames
<1>4. b["cfg_deviation_raw"] <= d.count[op]["cfg_deviation_raw"] + 1
  BY <1>1, CounterNames
<1>5. b["cfg_deviation_raw"] \in Nat
  BY <1>1, CounterNames
<1> HIDE DEF b, e
<1>6. e.count = [d.count EXCEPT ![op] = b] /\ e.ratio = d.ratio
  BY <1>2 DEF Documents
<1>7. b["cfg_deviation_raw"] <= b["generated_mutants"]
  <2>1. d.count[op]["cfg_deviation_raw"] <= d.count[op]["generated_mutants"]
    BY DEF Sound
  <2>2. d.count[op]["cfg_deviation_raw"] \in Nat /\ d.count[op]["generated_mutants"] \in Nat
    BY <1>1, CounterNames
  <2>3. QED BY <1>3, <1>4, <1>5, <2>1, <2>2
<1>8. ASSUME NEW o \in Operators
      PROVE  e.count[o]["cfg_deviation_raw"] <= e.count[o]["generated_mutants"]
  BY <1>1, <1>6, <1>7 DEF Sound
<1>9. Sound(e)
  BY <1>6, <1>8 DEF Sound
<1>10. QED BY <1>9 DEF e

LEMMA ChargedSound ==
    ASSUME NEW d \in Documents, Sound(d)
    PROVE  Sound(Charged(d))
<1> DEFINE c == [op \in Operators |->
                  [d.count[op] EXCEPT !["damage_raw"] = @ + owed[op]]]
           e == Charged(d)
<1>1. d.count \in [Operators -> [Counters -> Nat]]
  BY DEF Documents
<1>2. \A op \in Operators, k \in Counters : k # "damage_raw" => c[op][k] = d.count[op][k]
  BY <1>1
<1>3. e = [d EXCEPT !.count = c]
  BY DEF Charged
<1> HIDE DEF c, e
<1>4. e.count = c /\ e.ratio = d.ratio
  BY <1>3 DEF Documents
<1>5. Sound(e)
  BY <1>2, <1>4, CounterNames DEF Sound
<1>6. QED BY <1>5 DEF e

LEMMA DerivedSound ==
    ASSUME NEW d \in Documents, Sound(d), \A op \in Operators : AddsUp(d.count[op])
    PROVE  Sound(generate_derived_stats(d))
<1> DEFINE r == [op \in Operators |->
                   IF \A k \in Counters : d.count[op][k] = 0
                   THEN d.ratio[op]
                   ELSE DerivedOf(d.count[op], d.ratio[op])]
           e == generate_derived_stats(d)
<1>1. d.count \in [Operators -> [Counters -> Nat]]
  BY DEF Documents
<1>2. ASSUME NEW k \in Ratios, NEW n \in Nat, NEW g \in Nat, k = "damage" \/ n <= g,
             NEW old, Sane(k, old)
      PROVE  Sane(k, Ratio(n, g, old))
  BY <1>2 DEF Ratio, Sane
<1>3. ASSUME NEW k \in Ratios, NEW n \in Nat, NEW m \in Nat
      PROVE  Sane(k, Immunity(n, m))
  BY <1>3 DEF Immunity, Sane
<1>4. ASSUME NEW op \in Operators, NEW k \in Ratios
      PROVE  Sane(k, DerivedOf(d.count[op], d.ratio[op])[k])
  <2> DEFINE count == d.count[op]
             old   == d.ratio[op]
             g     == count["generated_mutants"]
             D     == DerivedOf(count, old)
  <2>1. \A c \in Counters : count[c] \in Nat
    BY <1>1
  <2>2. AddsUp(count) /\ count["cfg_deviation_raw"] <= g /\ \A q \in Ratios : Sane(q, old[q])
    BY DEF Sound
  <2>3. /\ D["damage"] = Ratio(count["damage_raw"], g, old["damage"])
        /\ D["fragilty"] = Ratio(count["killed_by_tests"], g, old["fragilty"])
        /\ D["average_CFD"] = Ratio(count["cfg_deviation_raw"], g, old["average_CFD"])
        /\ D["infectiveness"] = IF count["failed_injection"] = 0 \/ g = 0
                                THEN old["infectiveness"]
                                ELSE <<g - count["failed_injection"], g>>
        /\ D["valgrind_immunity"] = Immunity(count["survived_WD_VE"], count["killed_WD_VE"])
        /\ D["CFD_immunity"] = Immunity(count["survived_WD_CFD"], count["killed_WD_CFD"])
    BY Zenon DEF DerivedOf
  <2> HIDE DEF count, old, D
  <2>4. count["killed_by_tests"] <= g
    BY <2>1, <2>2, CounterNames DEF AddsUp
  <2>5. g \in Nat /\ count["failed_injection"] \in Nat
    BY <2>1, CounterNames
  <2> HIDE DEF g
  <2>6. ASSUME k = "damage" PROVE Sane(k, D[k])
    BY <1>2, <2>1, <2>2, <2>3, <2>5, <2>6, CounterNames, Zenon
  <2>7. ASSUME k = "fragilty" PROVE Sane(k, D[k])
    BY <1>2, <2>1, <2>2, <2>3, <2>4, <2>5, <2>7, CounterNames
  <2>8. ASSUME k = "average_CFD" PROVE Sane(k, D[k])
    BY <1>2, <2>1, <2>2, <2>3, <2>5, <2>8, CounterNames
  <2>9. ASSUME k = "infectiveness" PROVE Sane(k, D[k])
    BY <2>2, <2>3, <2>5, <2>9 DEF Sane
  <2>10. ASSUME k = "valgrind_immunity" PROVE Sane(k, D[k])
    BY <1>3, <2>1, <2>3, <2>10, CounterNames, Zenon
  <2>11. ASSUME k = "CFD_immunity" PROVE Sane(k, D[k])
    BY <1>3, <2>1, <2>3, <2>11, CounterNames, Zenon
  <2>12. Sane(k, D[k])
    BY <2>6, <2>7, <2>8, <2>9, <2>10, <2>11 DEF Ratios
  <2>13. QED BY <2>12 DEF D, count, old
<1>5. \A op \in Operators, k \in Ratios : Sane(k, r[op][k])
  <2>1. \A op \in Operators, k \in Ratios : Sane(k, d.ratio[op][k])
    BY DEF Sound
  <2>2. \A op \in Operators : r[op] = d.ratio[op] \/ r[op] = DerivedOf(d.count[op], d.ratio[op])
    OBVIOUS
  <2> HIDE DEF r
  <2>3. QED BY <1>4, <2>1, <2>2
<1>6. e = [d EXCEPT !.ratio = r]
  BY DEF generate_derived_stats
<1> HIDE DEF r, e
<1>7. e.count = d.count /\ e.ratio = r
  BY <1>6 DEF Documents
<1>8. Sound(e)
  BY <1>5, <1>7 DEF Sound
<1>9. QED BY <1>8 DEF e

\* Whatever a step does, the new document and file are among these.
LEMMA DocumentsMade ==
    ASSUME IInv, RInv, [Next]_vars
    PROVE  /\ doc' = doc \/ Sound(doc')
           /\ disk' \in {disk, doc, Parsed(disk), Absent, Torn}
<1>1. Sound(Parsed(disk))
  BY EmptySound DEF RInv, Parsed
<1>2. doc \in Documents /\ Sound(doc) /\ \A op \in Operators : AddsUp(doc.count[op])
  BY DEF IInv, TypeOK, RInv
<1>3. ASSUME NEW op \in Operators, genResultsFOM(op)
      PROVE  Sound(doc') /\ disk' = Torn
  <2>1. PICK keys : "generated_mutants" \in keys /\ StartFlush(Bump(doc, op, keys))
    BY <1>3, Zenon DEF genResultsFOM
  <2>2. QED BY <1>2, <2>1, BumpSound DEF StartFlush
<1>4. CASE calculate_average_damage \/ Aggregate \/ Derive
  BY <1>2, <1>4, ChargedSound, DerivedSound
     DEF calculate_average_damage, Aggregate, Derive, StartFlush
<1>5. CASE Start \/ \E j \in Jobs : Open(j)
  BY <1>1, <1>5 DEF Start, Open, open_GStats
<1>6. CASE EndFlush
  BY <1>6 DEF EndFlush, FlushedFile
<1>7. CASE Stop \/ Collect \/ clear_GStats
  BY <1>7, EmptySound DEF Stop, Collect, clear_GStats
<1>8. CASE UNCHANGED vars
  BY <1>8 DEF vars
<1>9. QED BY <1>3, <1>4, <1>5, <1>6, <1>7, <1>8 DEF Next

LEMMA SoundStep == IInv /\ RInv /\ [Next]_vars => RInv'
<1> SUFFICES ASSUME IInv, RInv, [Next]_vars PROVE RInv'
  OBVIOUS
<1>1. Sound(doc')
  BY DocumentsMade DEF RInv
<1>2. disk' \notin {Absent, Torn} => Sound(disk')
  BY DocumentsMade, EmptySound DEF RInv, Parsed
<1>3. Sound(doc)' <=> Sound(doc')
  BY DEF Sound, Sane
<1>4. Sound(disk)' <=> Sound(disk')
  BY DEF Sound, Sane
<1>5. QED BY <1>1, <1>2, <1>3, <1>4 DEF RInv

\* Every derived statistic in a gstats.xml that can be read was divided by a
\* count that was there, and all but the damage lie between 0 and 1, whatever
\* the operators and wherever the controller is killed or the file is cleared
\* under it: generate_derived_stats divides only what it has found.
THEOREM StatisticsDefined == Spec => []RatiosDefined
<1>1. Init => RInv
  BY EmptySound DEF Init, RInv
<1>2. RInv => RatiosDefined
  BY Zenon DEF RInv, Sound, Sane, RatiosDefined
<1>3. QED BY <1>1, <1>2, InitHolds, StepHolds, SoundStep, PTL DEF Spec

-----------------------------------------------------------------------------
(* What the file knows.  The document in memory is the one in the file from  *)
(* the time it is opened until it is written, and what the mutants of the    *)
(* current source are yet to be charged is part of the account.              *)

None == [op \in Operators |-> 0]

\* The damage that is neither in the document nor given up.
Due ==
    IF job = "mutant" \/ (job = "damage" /\ phase # "saving") THEN owed ELSE None

Match(d, h, due) ==
    \A op \in Operators :
        /\ d.count[op]["generated_mutants"] = h[op].mutants
        /\ d.count[op]["killed_by_tests"] <= h[op].failed
        /\ d.count[op]["damage_raw"] + due[op] <= d.count[op]["generated_mutants"]

HInv ==
    disturbed = 0 =>
        /\ disk \notin {Absent, Torn} => Match(disk, history, Due)
        /\ disk \in {Absent, Torn} /\ phase \in {"idle", "closed"} => Due = None
        /\ phase \in {"open", "saving"} => Match(doc, history, Due)
        /\ phase = "open" => disk = doc
        /\ phase = "saving" => disk = Torn
        /\ phase = "idle" => owed = None /\ job = "mutant"

Histories == [Operators -> [mutants : Nat, run : Nat, failed : Nat]]

LEMMA EmptyMatches == Match(Empty, Unused, None)
<1>1. ASSUME NEW op \in Operators
      PROVE  /\ Empty.count[op]["generated_mutants"] = 0
             /\ Empty.count[op]["killed_by_tests"] = 0
             /\ Empty.count[op]["damage_raw"] = 0
             /\ Unused[op].mutants = 0 /\ Unused[op].failed = 0 /\ None[op] = 0
  BY CounterNames DEF Empty, Unused, None
<1>2. QED BY <1>1 DEF Match

\* Only the counters matter.
LEMMA MatchCounts ==
    ASSUME NEW d, NEW e, NEW h, NEW due, e.count = d.count, Match(d, h, due)
    PROVE  Match(e, h, due)
BY Zenon DEF Match

LEMMA BumpMatches ==
    ASSUME NEW d \in Documents, NEW op \in Operators, NEW keys,
           "generated_mutants" \in keys, "damage_raw" \notin keys,
           NEW h \in Histories, NEW due \in [Operators -> Nat], Match(d, h, due),
           NEW run \in Nat, NEW failed \in Nat, "killed_by_tests" \in keys => failed > 0,
           NEW x \in Nat, x <= due[op] + 1
    PROVE  Match(Bump(d, op, keys),
                 [h EXCEPT ![op] = [mutants |-> h[op].mutants + 1, run |-> h[op].run + run,
                                    failed |-> h[op].failed + failed]],
                 [due EXCEPT ![op] = x])
<1> DEFINE b == [k \in Counters |-> IF k \in keys THEN d.count[op][k] + 1 ELSE d.count[op][k]]
           e == Bump(d, op, keys)
           g == [h EXCEPT ![op] = [mutants |-> h[op].mutants + 1, run |-> h[op].run + run,
                                   failed |-> h[op].failed + failed]]
           f == [due EXCEPT ![op] = x]
<1>1. d.count \in [Operators -> [Counters -> Nat]]
  BY DEF Documents
<1>2. e.count = [d.count EXCEPT ![op] = b]
  <2>1. e = [d EXCEPT !.count[op] = b]
    BY DEF Bump
  <2> HIDE DEF b, e
  <2>2. QED BY <2>1 DEF Documents
<1>3. /\ b["generated_mutants"] = d.count[op]["generated_mutants"] + 1
      /\ b["damage_raw"] = d.count[op]["damage_raw"]
      /\ "killed_by_tests" \in keys => b["killed_by_tests"] = d.count[op]["killed_by_tests"] + 1
      /\ "killed_by_tests" \notin keys => b["killed_by_tests"] = d.count[op]["killed_by_tests"]
  <2>1. \A k \in Counters : b[k] = IF k \in keys THEN d.count[op][k] + 1 ELSE d.count[op][k]
    OBVIOUS
  <2> HIDE DEF b
  <2>2. QED BY <2>1, CounterNames, Zenon
<1>4. /\ d.count[op]["generated_mutants"] \in Nat /\ d.count[op]["damage_raw"] \in Nat
      /\ d.count[op]["killed_by_tests"] \in Nat
  BY <1>1, CounterNames
<1>5. /\ g[op].mutants = h[op].mutants + 1 /\ g[op].failed = h[op].failed + failed
      /\ h[op].mutants \in Nat /\ h[op].failed \in Nat
      /\ \A o \in Operators : o # op => g[o] = h[o]
  BY DEF Histories
<1>6. f[op] = x /\ \A o \in Operators : o # op => f[o] = due[o]
  OBVIOUS
<1> HIDE DEF b, e, f, g
<1>7. /\ d.count[op]["generated_mutants"] = h[op].mutants
      /\ d.count[op]["killed_by_tests"] <= h[op].failed
      /\ d.count[op]["damage_raw"] + due[op] <= d.count[op]["generated_mutants"]
  BY DEF Match
<1>8. /\ b["generated_mutants"] = g[op].mutants
      /\ b["killed_by_tests"] <= g[op].failed
      /\ b["damage_raw"] + f[op] <= b["generated_mutants"]
  <2> DEFINE gen == d.count[op]["generated_mutants"]
             raw == d.count[op]["damage_raw"]
             kill == d.count[op]["killed_by_tests"]
             m == h[op].mutants
             fails == h[op].failed
             owing == due[op]
  <2>1. /\ gen \in Nat /\ raw \in Nat /\ kill \in Nat /\ m \in Nat /\ fails \in Nat /\ owing \in Nat
        /\ gen = m /\ kill <= fails /\ raw + owing <= gen /\ x <= owing + 1
    BY <1>4, <1>5, <1>7, Zenon
  <2>2. /\ b["generated_mutants"] = gen + 1 /\ b["damage_raw"] = raw
        /\ ("killed_by_tests" \in keys /\ b["killed_by_tests"] = kill + 1)
            \/ b["killed_by_tests"] = kill
        /\ g[op].mutants = m + 1 /\ g[op].failed = fails + failed /\ f[op] = x
    BY <1>3, <1>5, <1>6, Zenon
  <2> HIDE DEF gen, raw, kill, m, fails, owing
  <2>3. gen + 1 = m + 1 /\ kill <= fails + failed /\ raw + x <= gen + 1
    BY <2>1
  <2>4. "killed_by_tests" \in keys => kill + 1 <= fails + failed
    BY <2>1
  <2>5. QED BY <2>2, <2>3, <2>4, Zenon
<1>9. ASSUME NEW o \in Operators
      PROVE  /\ e.count[o]["generated_mutants"] = g[o].mutants
             /\ e.count[o]["killed_by_tests"] <= g[o].failed
             /\ e.count[o]["damage_raw"] + f[o] <= e.count[o]["generated_mutants"]
  <2>1. CASE o = op
    BY <1>1, <1>2, <1>8, <2>1, Zenon
  <2>2. CASE o # op
    <3>1. e.count[o] = d.count[o] /\ g[o] = h[o] /\ f[o] = due[o]
      BY <1>1, <1>2, <1>5, <1>6, <2>2, Zenon
    <3>2. QED BY <3>1 DEF Match
  <2>3. QED BY <2>1, <2>2, Zenon
<1>10. Match(e, g, f)
  BY <1>9, Zenon DEF Match
<1>11. QED BY <1>10 DEF e, f, g

LEMMA ChargedMatches ==
    ASSUME NEW d \in Documents, NEW h, owed \in [Operators -> Nat], Match(d, h, owed)
    PROVE  Match(Charged(d), h, None)
<1> DEFINE c == [op \in Operators |->
                  [d.count[op] EXCEPT !["damage_raw"] = @ + owed[op]]]
           e == Charged(d)
<1>1. d.count \in [Operators -> [Counters -> Nat]]
  BY DEF Documents
<1>2. \A op \in Operators :
          /\ c[op]["generated_mutants"] = d.count[op]["generated_mutants"]
          /\ c[op]["killed_by_tests"] = d.count[op]["killed_by_tests"]
          /\ c[op]["damage_raw"] = d.count[op]["damage_raw"] + owed[op]
          /\ d.count[op]["damage_raw"] \in Nat /\ owed[op] \in Nat
  BY <1>1, CounterNames, Zenon
<1>3. e = [d EXCEPT !.count = c]
  BY DEF Charged
<1> HIDE DEF c, e
<1>4. e.count = c
  BY <1>3 DEF Documents
<1>5. ASSUME NEW op \in Operators
      PROVE  c[op]["damage_raw"] + None[op] = d.count[op]["damage_raw"] + owed[op]
  BY <1>2 DEF None
<1>6. Match(e, h, None)
  BY <1>2, <1>4, <1>5 DEF Match
<1>7. QED BY <1>6 DEF e

\* HInv of the next state, with the prime on the variables.
LEMMA AccountAfter ==
    ASSUME disk' \notin {Absent, Torn} => Match(disk', history', Due'),
           disk' \in {Absent, Torn} /\ phase' \in {"idle", "closed"} => Due' = None,
           phase' \in {"open", "saving"} => Match(doc', history', Due'),
           phase' = "open" => disk' = doc',
           phase' = "saving" => disk' = Torn,
           phase' = "idle" => owed' = None /\ job' = "mutant"
    PROVE  HInv'
<1>1. Match(disk, history, Due)' <=> Match(disk', history', Due')
  BY DEF Match
<1>2. Match(doc, history, Due)' <=> Match(doc', history', Due')
  BY Zenon DEF Match
<1>3. None' = None
  BY DEF None
<1>4. QED BY <1>1, <1>2, <1>3 DEF HInv

\* open_GStats: what is read is in the file, and matches.
LEMMA OpenAccounts ==
    ASSUME IInv, HInv, disturbed = 0, phase \in {"idle", "closed"}, open_GStats,
           phase' \in {"closed", "open"}, Due' = Due
    PROVE  HInv'
<1>1. disk' \notin {Absent, Torn} /\ doc' = disk'
  <2>1. Parsed(disk) \in Documents
    BY ParsedAddsUp
  <2>2. QED BY <2>1, FileAssumption DEF open_GStats
<1>2. Match(disk', history', Due')
  <2>1. CASE disk \in {Absent, Torn}
    BY <2>1, EmptyMatches DEF open_GStats, Parsed, Recreated, HInv
  <2>2. CASE disk \notin {Absent, Torn}
    BY <2>2 DEF open_GStats, Parsed, Recreated, HInv
  <2>3. QED BY <2>1, <2>2
<1>3. QED BY <1>1, <1>2, AccountAfter

\* A flush begins with a document that matches.
LEMMA FlushAccounts ==
    ASSUME NEW d, StartFlush(d), Match(d, history', Due')
    PROVE  HInv'
<1>1. phase' = "saving" /\ doc' = d /\ disk' = Torn
  BY DEF StartFlush
<1>2. QED BY <1>1, AccountAfter

LEMMA MutantAccounts ==
    ASSUME IInv, HInv, disturbed = 0, NEW op \in Operators, genResultsFOM(op)
    PROVE  HInv'
<1>1. job = "mutant" /\ job' = "mutant" /\ phase = "open"
  BY Zenon DEF genResultsFOM, StartFlush
<1>2. Due = owed /\ Due' = owed'
  BY <1>1 DEF Due
<1>3. /\ doc \in Documents /\ owed \in [Operators -> Nat] /\ history \in Histories
      /\ Match(doc, history, owed) /\ Suite \in Nat
  BY <1>1, <1>2, GStatsAssumption DEF HInv, IInv, TypeOK, Histories
<1>4. ASSUME NEW keys, "generated_mutants" \in keys, "damage_raw" \notin keys,
             NEW run \in Nat, NEW failed \in Nat, "killed_by_tests" \in keys => failed > 0,
             NEW x \in Nat, x <= owed[op] + 1,
             StartFlush(Bump(doc, op, keys)), Log(op, run, failed), owed' = [owed EXCEPT ![op] = x]
      PROVE  HInv'
  <2>1. history' = [history EXCEPT ![op] = [mutants |-> history[op].mutants + 1,
                                            run |-> history[op].run + run,
                                            failed |-> history[op].failed + failed]]
    BY <1>4 DEF Log
  <2>2. Match(Bump(doc, op, keys), history', owed')
    BY <1>3, <1>4, <2>1, BumpMatches, Zenon
  <2>3. QED BY <1>2, <1>4, <2>2, FlushAccounts, Zenon
<1>5. ASSUME StartFlush(Bump(doc, op, {"generated_mutants", "failed_injection"})),
             Log(op, 0, 0), UNCHANGED owed
      PROVE  HInv'
  <2> DEFINE keys == {"generated_mutants", "failed_injection"}
             x == owed[op]
  <2>1. owed' = [owed EXCEPT ![op] = x] /\ x \in Nat /\ x <= owed[op] + 1
    BY <1>3, <1>5
  <2>2. "generated_mutants" \in keys /\ "damage_raw" \notin keys /\ "killed_by_tests" \notin keys
    OBVIOUS
  <2>3. StartFlush(Bump(doc, op, keys))
    BY <1>5
  <2> HIDE DEF x, keys
  <2>4. QED BY <1>4, <1>5, <2>1, <2>2, <2>3, Zenon
<1>6. ASSUME NEW ve \in BOOLEAN, NEW deviates \in BOOLEAN, NEW failed \in 1..Suite,
             NEW result \in 0..1,
             StartFlush(Bump(doc, op, {"generated_mutants"} \cup DeviationKeys(deviates)
                                      \cup KilledKeys(ve, deviates))),
             Log(op, Suite, failed),
             owed' = [owed EXCEPT ![op] = IF failed < Suite THEN @ + result ELSE @]
      PROVE  HInv'
  <2> DEFINE keys == {"generated_mutants"} \cup DeviationKeys(deviates) \cup KilledKeys(ve, deviates)
             x == IF failed < Suite THEN owed[op] + result ELSE owed[op]
  <2>1. "generated_mutants" \in keys /\ "damage_raw" \notin keys
    BY DEF DeviationKeys, KilledKeys
  <2>2. failed \in Nat /\ failed > 0
    BY <1>3
  <2>3. x \in Nat /\ x <= owed[op] + 1 /\ owed' = [owed EXCEPT ![op] = x]
    BY <1>3, <1>6
  <2> HIDE DEF x
  <2>4. StartFlush(Bump(doc, op, keys))
    BY <1>6
  <2> HIDE DEF keys
  <2>5. QED BY <1>3, <1>4, <1>6, <2>1, <2>2, <2>3, <2>4, Zenon
<1>7. ASSUME NEW ve \in BOOLEAN, NEW deviates \in BOOLEAN, NEW result \in 0..1,
             StartFlush(Bump(doc, op, {"generated_mutants"} \cup DeviationKeys(deviates)
                                      \cup SurvivedKeys(ve, deviates))),
             Log(op, Suite, 0),
             owed' = [owed EXCEPT ![op] = @ + result]
      PROVE  HInv'
  <2> DEFINE keys == {"generated_mutants"} \cup DeviationKeys(deviates) \cup SurvivedKeys(ve, deviates)
             x == owed[op] + result
  <2>1. "generated_mutants" \in keys /\ "damage_raw" \notin keys /\ "killed_by_tests" \notin keys
    BY DEF DeviationKeys, SurvivedKeys
  <2>2. x \in Nat /\ x <= owed[op] + 1 /\ owed' = [owed EXCEPT ![op] = x]
    BY <1>3, <1>7
  <2> HIDE DEF x
  <2>3. StartFlush(Bump(doc, op, keys))
    BY <1>7
  <2> HIDE DEF keys
  <2>4. QED BY <1>3, <1>4, <1>7, <2>1, <2>2, <2>3, Zenon
<1>8. QED BY <1>5, <1>6, <1>7, Zenon DEF genResultsFOM

LEMMA SummaryAccounts ==
    ASSUME IInv, HInv, disturbed = 0, calculate_average_damage \/ Aggregate \/ Derive
    PROVE  HInv'
<1>1. /\ doc \in Documents /\ owed \in [Operators -> Nat]
      /\ \A op \in Operators : AddsUp(doc.count[op])
      /\ UNCHANGED <<job, mutants, owed, history, disturbed>>
  BY DEF IInv, TypeOK, calculate_average_damage, Aggregate, Derive
<1>2. phase = "open" /\ phase' = "saving" /\ Match(doc, history, Due)
  BY Zenon DEF calculate_average_damage, Aggregate, Derive, StartFlush, HInv
<1>3. CASE calculate_average_damage
  <2>1. job = "damage" /\ StartFlush(Charged(doc))
    BY <1>3 DEF calculate_average_damage
  <2>2. Due = owed /\ Due' = None
    BY <1>1, <1>2, <2>1 DEF Due, None
  <2>3. QED BY <1>1, <1>2, <2>1, <2>2, ChargedMatches, FlushAccounts
<1>4. CASE Aggregate \/ Derive
  <2>1. job \in {"aggregate", "derived"}
    BY <1>4 DEF Aggregate, Derive
  <2>2. Due' = Due
    BY <1>1, <2>1 DEF Due, None
  <2>3. PICK d : StartFlush(d) /\ d.count = doc.count
    BY <1>1, <1>4, DerivedAddsUp DEF Aggregate, Derive
  <2>4. QED BY <1>1, <1>2, <2>2, <2>3, MatchCounts, FlushAccounts
<1>5. QED BY <1>3, <1>4

LEMMA EndFlushAccounts ==
    ASSUME IInv, HInv, disturbed = 0, EndFlush
    PROVE  HInv'
<1>1. /\ phase = "saving" /\ disk = Torn /\ Match(doc, history, Due)
      /\ UNCHANGED <<doc, history, disturbed>> /\ doc \in Documents
  BY DEF EndFlush, HInv, IInv, TypeOK
<1>2. disk' = doc /\ disk' \notin {Absent, Torn}
  BY <1>1, FileAssumption, GStatsAssumption DEF EndFlush, FlushedFile
<1>3. Due' = Due \/ Due' = None
  BY <1>1 DEF EndFlush, Due, None
<1>4. Match(doc, history, None)
  <2>1. ASSUME NEW op \in Operators
        PROVE  doc.count[op]["damage_raw"] + None[op] <= doc.count[op]["generated_mutants"]
    <3>1. doc.count[op]["damage_raw"] + Due[op] <= doc.count[op]["generated_mutants"]
      BY <1>1, Zenon DEF Match
    <3>2. Due[op] \in Nat /\ None[op] = 0
      BY DEF IInv, TypeOK, Due, None
    <3>3. doc.count[op]["damage_raw"] \in Nat /\ doc.count[op]["generated_mutants"] \in Nat
      BY <1>1, CounterNames DEF Documents
    <3>4. QED BY <3>1, <3>2, <3>3
  <2>2. QED BY <1>1, <2>1, Zenon DEF Match
<1>5. Match(disk', history', Due')
  BY <1>1, <1>2, <1>3, <1>4
<1>6. phase' \in {"closed", "open"}
  BY DEF EndFlush
<1>7. QED BY <1>1, <1>2, <1>5, <1>6, AccountAfter

LEMMA StopAccounts ==
    ASSUME IInv, HInv, disturbed = 0, Stop
    PROVE  HInv'
<1>1. /\ phase' = "idle" /\ job' = "mutant" /\ owed' = None
      /\ UNCHANGED <<disk, history>>
  BY DEF Stop, None
<1>2. Due' = None
  BY <1>1 DEF Due
<1>3. ASSUME disk \notin {Absent, Torn} PROVE Match(disk, history, None)
  <2>1. Match(disk, history, Due) /\ disk \in Documents
    BY <1>3 DEF HInv, IInv, TypeOK
  <2>2. ASSUME NEW op \in Operators
        PROVE  disk.count[op]["damage_raw"] + None[op] <= disk.count[op]["generated_mutants"]
    <3>1. disk.count[op]["damage_raw"] + Due[op] <= disk.count[op]["generated_mutants"]
      BY <2>1 DEF Match
    <3>2. Due[op] \in Nat /\ None[op] = 0
      BY DEF IInv, TypeOK, Due, None
    <3>3. disk.count[op]["damage_raw"] \in Nat /\ disk.count[op]["generated_mutants"] \in Nat
      BY <2>1, CounterNames DEF Documents
    <3>4. QED BY <3>1, <3>2, <3>3
  <2>3. QED BY <2>1, <2>2 DEF Match
<1>4. QED BY <1>1, <1>2, <1>3, AccountAfter

\* A command that does not disturb a running controller finds it idle, or
\* leaves the file as it is.
LEMMA CommandAccounts ==
    ASSUME IInv, HInv, disturbed = 0, Collect \/ clear_GStats, disturbed' = 0
    PROVE  HInv'
<1>1. /\ UNCHANGED <<doc, phase, job, mutants, owed>> /\ Due' = Due
      /\ phase = "idle" \/ disk' = disk
  BY DEF Collect, clear_GStats, Disturbs, Due, None
<1>2. \/ disk' = Parsed(disk) /\ history' = Recreated(disk)
      \/ disk' = Absent /\ history' = Unused
  BY DEF Collect, clear_GStats
<1>3. disk \in {Absent, Torn} \/ history' = history \/ (phase = "idle" /\ disk' = Absent)
  BY <1>1, <1>2 DEF Recreated
<1>4. Parsed(disk) \notin {Absent, Torn}
  BY ParsedAddsUp, FileAssumption
<1>5. CASE phase = "idle"
  <2>1. Due = None
    BY <1>5 DEF HInv, Due
  <2>2. disk' \notin {Absent, Torn} => Match(disk', history', Due')
    BY <1>1, <1>2, <2>1, EmptyMatches DEF Parsed, Recreated, HInv
  <2>3. QED BY <1>1, <1>5, <2>1, <2>2, AccountAfter DEF HInv
<1>6. CASE phase # "idle"
  <2>1. disk' = disk
    BY <1>1, <1>6
  <2>2. CASE disk \in {Absent, Torn}
    <3>1. disk = Absent
      BY <1>2, <1>4, <2>1, <2>2
    <3>2. phase = "closed"
      <4>1. phase \in Phases /\ doc \in Documents
        BY DEF IInv, TypeOK
      <4>2. QED BY <1>6, <3>1, <4>1, FileAssumption, GStatsAssumption DEF HInv, Phases
    <3>3. QED BY <1>1, <2>1, <3>1, <3>2, AccountAfter, Zenon DEF HInv
  <2>3. CASE disk \notin {Absent, Torn}
    BY <1>1, <1>3, <1>6, <2>1, <2>3, AccountAfter DEF HInv
  <2>4. QED BY <2>2, <2>3
<1>7. QED BY <1>5, <1>6

LEMMA AccountStep == IInv /\ HInv /\ [Next]_vars => HInv'
<1> SUFFICES ASSUME IInv, HInv, [Next]_vars, disturbed' = 0 PROVE HInv'
  BY DEF HInv
<1>1. disturbed = 0
  <2>1. CASE Start \/ Stop \/ EndFlush \/ UNCHANGED vars
    BY <2>1, Zenon DEF Start, Stop, EndFlush, vars
  <2>2. CASE (\E j \in Jobs : Open(j)) \/ (\E op \in Operators : genResultsFOM(op))
    BY <2>2, Zenon DEF Open, genResultsFOM
  <2>3. CASE calculate_average_damage \/ Aggregate \/ Derive
    BY <2>3, Zenon DEF calculate_average_damage, Aggregate, Derive
  <2>4. CASE Collect \/ clear_GStats
    <3>1. \A file : Disturbs(file) \in {1, disturbed}
      BY DEF Disturbs
    <3>2. disturbed' \in {1, disturbed}
      BY <2>4, <3>1, Zenon DEF Collect, clear_GStats
    <3>3. QED BY <3>2
  <2>5. QED BY <2>1, <2>2, <2>3, <2>4, Zenon DEF Next
<1>2. CASE Start
  <2>1. /\ phase = "idle" /\ phase' = "closed" /\ UNCHANGED <<job, owed>>
        /\ owed = None /\ job = "mutant"
    BY <1>1, <1>2 DEF Start, HInv
  <2>2. Due' = Due /\ Due = None
    BY <2>1 DEF Due
  <2>3. CASE open_GStats
    BY <1>1, <2>1, <2>2, <2>3, OpenAccounts
  <2>4. CASE UNCHANGED <<disk, doc, history>>
    BY <1>1, <2>1, <2>2, <2>4, AccountAfter DEF HInv
  <2>5. QED BY <1>2, <2>3, <2>4 DEF Start
<1>3. ASSUME NEW j \in Jobs, Open(j) PROVE HInv'
  <2>1. phase = "closed" /\ phase' = "open" /\ open_GStats
    BY <1>3 DEF Open
  <2>2. Due' = Due
    BY <1>3 DEF Open, Due, None
  <2>3. QED BY <1>1, <2>1, <2>2, OpenAccounts
<1>4. ASSUME NEW op \in Operators, genResultsFOM(op) PROVE HInv'
  BY <1>1, <1>4, MutantAccounts
<1>5. CASE UNCHANGED vars
  <2>1. Due' = Due
    BY <1>5 DEF vars, Due, None
  <2>2. QED BY <1>1, <1>5, <2>1, AccountAfter, Zenon DEF HInv, vars
<1>6. QED
  BY <1>1, <1>2, <1>3, <1>4, <1>5, SummaryAccounts, EndFlushAccounts, StopAccounts,
     CommandAccounts DEF Next

\* Unless a command changes the file of a running controller, a gstats.xml that
\* can be read has counted every mutant evaluated since it was created, has
\* charged damage to no more mutants than that, and calls killed only mutants
\* that failed a test: for any operators and any number of runs of the
\* controller, killed wherever they may be.
THEOREM StatisticsRemember == Spec => []HistoryKept
<1>1. Init => HInv
  BY DEF Init, HInv, Due, None
<1>2. IInv /\ HInv => HistoryKept
  <2> SUFFICES ASSUME IInv, HInv, disturbed = 0, disk \notin {Absent, Torn}, NEW op \in Operators
               PROVE  /\ disk.count[op]["generated_mutants"] = history[op].mutants
                      /\ disk.count[op]["damage_raw"] <= disk.count[op]["generated_mutants"]
                      /\ disk.count[op]["killed_by_tests"] <= history[op].failed
    BY DEF HistoryKept
  <2>1. Match(disk, history, Due) /\ disk \in Documents
    BY DEF HInv, IInv, TypeOK
  <2>2. Due[op] \in Nat
    BY DEF IInv, TypeOK, Due, None
  <2>3. disk.count[op]["damage_raw"] \in Nat /\ disk.count[op]["generated_mutants"] \in Nat
    BY <2>1, CounterNames DEF Documents
  <2>4. QED BY <2>1, <2>2, <2>3 DEF Match
<1>3. QED BY <1>1, <1>2, InitHolds, StepHolds, AccountStep, PTL DEF Spec
=============================================================================
