----------------------------- MODULE HomSearch ------------------------------
(***************************************************************************)
(* controller.c, generateSubsumingHOMs and genHOMFitness, with the script  *)
(* combineFOM.sh they run: non-trivial first-order mutants (FOMs) are      *)
(* combined to higher-order mutants (HOMs), greedily around a random one,  *)
(* until no combination has been found too often.  The call is commented   *)
(* out in process_source_file.                                             *)
(***************************************************************************)
EXTENDS Subject, Integers, Sequences, FiniteSets, FiniteSetsExt, Functions

CONSTANTS
    HomFoms,       \* values of non_trivial_FOM_count
    HomLines,      \* lines that FOMs mutate
    HomKillers,    \* values of killed_by_tests_count
    HomTests,      \* tests of the suite
    HomMaxList     \* bound on hom_list_counter

\* The search is entered with FOMs only; 1 << n is an int.
ASSUME HomFomsAssumption == HomFoms \subseteq 1 .. 30

ASSUME HomListAssumption == HomMaxList \in Nat

Foms(o) == 0 .. o.n - 1

\* No HOM: optimum_hom before the first evaluation
NoHom == [foms |-> <<>>, kills |-> 0]

\* A directory without hom_dir.log
NoLog == <<>>

\* combineFOM.sh exits before it writes hom_dir.log if two FOMs change one line.
Clash(line, foms) ==
    \E a, b \in DOMAIN foms : a # b /\ line[foms[a]] = line[foms[b]]

\* Mutation: the log of the first combination is kept.
MutFirstLogStays(o, foms) ==
    IF Clash(o.line, foms) \/ o.log # NoLog THEN o.log ELSE foms

\* HOM/hom_dir.log names the HOM that was built last; one that could not be
\* built leaves it as it was.
combineFOM(o, foms) == IF Clash(o.line, foms) THEN o.log ELSE foms

\* hashset_num_items: the set holds the addresses of the entries of
\* killed_by_tests, so a test that kills two of the FOMs is counted twice.
KilledSet(o, foms) == MapThenSumSet(LAMBDA m : o.killers[foms[m]], DOMAIN foms)

\* fitness = (kills / tests) / (killed set / tests)
Fitness(o, h) == <<h.kills, KilledSet(o, h.foms)>>

Fitter(a, b) == a[1] * b[2] > b[1] * a[2]

BetweenZeroAndOne(a) == 0 < a[1] /\ a[1] < a[2]

-----------------------------------------------------------------------------
\* obj.at: FOM whose turn it is in the for loop, n between two rounds.
\* abs: the HOM evaluated last, the FOMs of the source that was built for it, and
\* whether combineFOM.sh could be started every time.
HomInit ==
    /\ subject = "homsearch"
    /\ \E n \in HomFoms : \E line \in [0 .. n - 1 -> HomLines], killers \in [0 .. n - 1 -> HomKillers] :
          obj = [n |-> n, line |-> line, killers |-> killers, log |-> NoLog, r |-> 0, at |-> n,
                 optimum |-> NoHom, no_new_optimum |-> 0,
                 hom_list_counter |-> 0, hom_list_size |-> 2^n, ended |-> FALSE]
    /\ abs = [tmp |-> <<>>, built |-> <<>>, ran |-> TRUE]

\* "Make sure that we do not combine the same FOMs"
Partners(o) == Foms(o) \ {o.r}

\* The FOMs of the next HOM
Combined(o) ==
    IF o.optimum = NoHom THEN <<o.r, o.at>> ELSE Append(o.optimum.foms, o.at)

NextRound ==
    /\ obj.at = obj.n
    /\ IF obj.no_new_optimum < obj.n * 2
       THEN \E r \in Foms(obj) :
              Becomes([obj EXCEPT !.r = r, !.at = 0, !.optimum = NoHom], abs)
       ELSE Becomes([obj EXCEPT !.ended = TRUE], abs)

SkipItself ==
    /\ obj.at \in Foms(obj) \ Partners(obj)
    /\ Becomes([obj EXCEPT !.at = @ + 1], abs)

Optimum(o, h) ==
    IF \/ o.optimum = NoHom
       \/ /\ BetweenZeroAndOne(Fitness(o, h))
          /\ Fitter(Fitness(o, h), Fitness(o, o.optimum))
    THEN h ELSE o.optimum

\* hom_list doubles when it is full, even if nothing is added
Doubled(o) ==
    IF o.hom_list_counter = o.hom_list_size
    THEN [o EXCEPT !.hom_list_size = 2 * @] ELSE o

\* genHOMFitness gives -1: there is no hom_dir.log.
NoFitness(o) ==
    [Doubled(o) EXCEPT !.at = @ + 1, !.no_new_optimum = IF o.optimum = NoHom THEN @ + 1 ELSE @]

\* The HOM named in hom_dir.log was built and failed kills tests.
Evaluated(o, h) ==
    [Doubled(o) EXCEPT !.at = @ + 1, !.hom_list_counter = @ + 1, !.optimum = Optimum(o, h)]

\* A round of the for loop.  The argument vector of the script has no
\* terminating NULL, so execvp may also fail: hom_dir.log is not touched then.
Combine(execs) ==
    /\ obj.at \in Partners(obj)
    /\ LET foms == Combined(obj)
           log  == IF execs THEN combineFOM(obj, foms) ELSE obj.log
           o    == [obj EXCEPT !.log = log]
           ran  == abs.ran /\ execs
       IN IF log = NoLog THEN Becomes(NoFitness(o), [abs EXCEPT !.ran = ran])
          ELSE /\ obj.hom_list_counter < HomMaxList
               /\ \E k \in 0 .. HomTests :
                     Becomes(Evaluated(o, [foms |-> foms, kills |-> k]),
                             [tmp |-> IF execs THEN foms ELSE <<>>, built |-> log, ran |-> ran])

HomStep ==
    /\ subject = "homsearch"
    /\ ~obj.ended
    /\ NextRound \/ SkipItself \/ \E execs \in BOOLEAN : Combine(execs)

HomNext == HomStep

\* The controller is a running process.
HomFairness == WF_subjectVars(HomStep)

-----------------------------------------------------------------------------
\* A HOM is made of different FOMs, the random one first, and of no more than
\* FOMutants has room for; hom_list never overflows.
HomWellFormed ==
    subject = "homsearch" =>
        /\ obj.hom_list_counter <= obj.hom_list_size
        /\ LET f == obj.optimum.foms IN
             f # <<>> => /\ Len(f) \in 2 .. obj.n
                         /\ IsInjective(f)
                         /\ f[1] = obj.r

\* When all FOMs change different lines, the program evaluated for a HOM is the
\* one that combines its FOMs.  Where two share a line, combineFOM.sh gives up and
\* the HOM in hom_dir.log from an earlier combination is evaluated in its place.
HomCredited ==
    subject = "homsearch" /\ IsInjective(obj.line) /\ abs.tmp # <<>> => abs.built = abs.tmp

\* The search ends only if it never built a HOM, provided combineFOM.sh could be
\* started: once hom_dir.log exists every round has an optimum, no_new_optimum
\* stands still, and the loop goes on.  Where the script could not be started
\* sometimes, the rounds may run out while the first HOMs are built: those of a
\* search that ends are of its last round, which failed to build some before.
HomEndsFruitless ==
    subject = "homsearch" /\ obj.ended =>
        /\ abs.ran => obj.hom_list_counter = 0
        /\ obj.hom_list_counter > 0 => obj.hom_list_counter <= obj.n - 2

\* If all FOMs change one line no HOM can be built, and a search over two FOMs or
\* more ends.  (Over one it does not: no_new_optimum is not even reached.)
HomGivesUp ==
    subject = "homsearch" /\ obj.n > 1 /\ Cardinality(Range(obj.line)) = 1
        ~> subject = "homsearch" /\ obj.ended

\* The search for higher-order mutants stays within its arrays, evaluates what it
\* combines, and ends only without a result or while it builds the first.
HomSound == HomWellFormed /\ HomCredited /\ HomEndsFruitless
=============================================================================
