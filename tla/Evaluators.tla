----------------------------- MODULE Evaluators -----------------------------
(***************************************************************************)
(* The two measurements a mutant is charged with beside its tests.         *)
(*                                                                         *)
(* CFGEval.c and GenCFGBranches.sh: how often each branch of the program   *)
(* was taken is extracted from the gcov file into a file of branches,      *)
(* which is compared line by line with the one of the original program.    *)
(*                                                                         *)
(* valgrindEval.c, evaluate_error_nodes: an error that Valgrind reports is *)
(* located by the functions of its stack, down to the one that runs the    *)
(* test, written one after another into a buffer of 128 bytes.             *)
(***************************************************************************)
EXTENDS Subject, Integers, Sequences, FiniteSets, SequencesExt

CONSTANTS
    CfgTaken,      \* how often a branch is taken
    CfgMaxLines,   \* bound on the branches of a file
    VgNames,       \* lengths of the names of functions
    VgMaxFrames,   \* bound on the frames of a stack
    VgMaxNodes     \* bound on the error nodes of one unique value

-----------------------------------------------------------------------------
(* The branches *)

\* "never executed" leaves taken_count at its initial value.
CfgLines == CfgTaken \cup {-1}

\* A file, or its absence
NoFile == [there |-> FALSE, lines |-> <<>>]

CfgFile(lines) == [there |-> TRUE, lines |-> lines]

CfgSeqs == UNION {[1 .. n -> CfgLines] : n \in 0 .. CfgMaxLines}

\* A fraction; the code returns a double
calculateCFGBranchDeviation(f1, f2) ==
    LET n   == IF Len(f1.lines) < Len(f2.lines) THEN Len(f1.lines) ELSE Len(f2.lines)
        dev[i \in 0 .. n] ==
            IF i = 0 THEN 0 ELSE dev[i - 1] + (IF f1.lines[i] # f2.lines[i] THEN 1 ELSE 0)
    IN IF ~f1.there /\ ~f2.there THEN <<0, 1>>
       ELSE IF f1.there # f2.there \/ Len(f1.lines) # Len(f2.lines) THEN <<1, 1>>
       ELSE IF n = 0 THEN <<0, 1>>
       ELSE <<dev[n], n>>

\* Mutation: without a gcov file the old file is removed.
MutTruncates(old, gcov) == gcov

\* GenCFGBranches.sh with a file name: without a gcov file nothing is written,
\* and the file of an earlier mutant stays.
GenCFGBranches(old, gcov) == IF gcov.there THEN gcov ELSE old

-----------------------------------------------------------------------------
\* obj.put: mutation_out/PUT/<name>.c.gcov.branches; obj.out: the file of the
\* mutants.  abs.gcov: what the mutant evaluated last produced; abs.before: the last
\* gcov file of a mutant before it.
CfgInit ==
    /\ subject = "cfg"
    /\ \E put \in {CfgFile(s) : s \in CfgSeqs} \cup {NoFile} :
          obj = [put |-> put, out |-> NoFile, deviation |-> <<0, 1>>]
    /\ abs = [gcov |-> NoFile, before |-> NoFile]

\* A mutant was built: its tests ran to the end and wrote coverage, or did not.
CfgMutant(gcov) ==
    LET out == GenCFGBranches(obj.out, gcov) IN
    Becomes([obj EXCEPT !.out = out, !.deviation = calculateCFGBranchDeviation(obj.put, out)],
            [gcov |-> gcov, before |-> IF abs.gcov.there THEN abs.gcov ELSE abs.before])

CfgNext ==
    /\ subject = "cfg"
    /\ \E gcov \in {CfgFile(s) : s \in CfgSeqs} \cup {NoFile} : CfgMutant(gcov)

-----------------------------------------------------------------------------
\* The deviation against a file: the share of branches whose counts differ, all of
\* them when the files have different numbers of branches or one is missing.
Deviates(f, d) ==
    LET differ == {i \in DOMAIN obj.put.lines : i \notin DOMAIN f.lines \/ f.lines[i] # obj.put.lines[i]} IN
    IF obj.put.there /\ f.there /\ Len(f.lines) = Len(obj.put.lines)
    THEN d[1] * Len(f.lines) = d[2] * Cardinality(differ)
    ELSE d = (IF obj.put.there \/ f.there THEN <<1, 1>> ELSE <<0, 1>>)

\* A mutant with coverage is charged with its own deviation from the original
\* program, whatever mutants came before it.
CfgMeasuresOwn ==
    subject = "cfg" /\ abs.gcov.there => Deviates(abs.gcov, obj.deviation)

\* A mutant without coverage is charged with the deviation of the last one before
\* it that had some: the old file of branches is compared again.
CfgMeasuresLast ==
    subject = "cfg" /\ ~abs.gcov.there /\ abs.before.there => Deviates(abs.before, obj.deviation)

-----------------------------------------------------------------------------
(* The locations of errors *)

max_location_size == 128
Separator == 4          \* strlen(" :: ")

\* The frame of the test runner; the names of other functions are their lengths.
CuTestRun == 9

VgLen(loc) == FoldLeft(LAMBDA n, f : n + f, 0, loc) + Separator * (IF loc = <<>> THEN 0 ELSE Len(loc) - 1)

-----------------------------------------------------------------------------
\* obj.fw: testing_framework; obj.left: error nodes still to come; obj.stack,
\* obj.loc: the frames left in the current one, and its location.
\* abs: the whole of the current stack.
VgStacks == UNION {[1 .. n -> VgNames \cup {CuTestRun}] : n \in 0 .. VgMaxFrames}

VgInit ==
    /\ subject = "valgrind"
    /\ \E nodes \in 1 .. VgMaxNodes, fw \in {1, 2} :
          obj = [fw |-> fw, left |-> nodes, stack |-> <<>>, loc |-> <<>>]
    /\ abs = <<>>

NextErrorNode(stack) ==
    /\ obj.left > 0 /\ obj.stack = <<>>
    /\ Becomes([obj EXCEPT !.left = @ - 1, !.stack = stack, !.loc = <<>>], stack)

\* A name that does not fit is left out (the buffer is enlarged, but nothing is
\* appended); the ones after it may fit.
Located(loc, fn) ==
    IF VgLen(loc) + Separator + fn + 1 > max_location_size THEN loc ELSE Append(loc, fn)

\* For CuTest the stack ends at the frame of the test runner.
NextFrame ==
    /\ obj.stack # <<>>
    /\ LET fn == Head(obj.stack) IN
       IF obj.fw = 1 /\ fn = CuTestRun
       THEN Becomes([obj EXCEPT !.stack = <<>>], abs)
       ELSE Becomes([obj EXCEPT !.stack = Tail(@), !.loc = Located(@, fn)], abs)

VgNext ==
    /\ subject = "valgrind"
    /\ (\E s \in VgStacks : NextErrorNode(s)) \/ NextFrame

-----------------------------------------------------------------------------
\* The frames of the stack that concern the program under test
Concern == IF obj.fw = 1 /\ Contains(abs, CuTestRun)
           THEN SubSeq(abs, 1, SelectInSeq(abs, LAMBDA f : f = CuTestRun) - 1) ELSE abs

\* A location fits its buffer.  Once a stack is read, it lists all frames above the
\* test runner if they fit, and otherwise some of them in their order.
VgLocated ==
    subject = "valgrind" =>
        /\ VgLen(obj.loc) < max_location_size
        /\ obj.stack = <<>> =>
             IF VgLen(Concern) + (IF Len(Concern) = 1 THEN Separator ELSE 0) < max_location_size
             THEN obj.loc = Concern
             ELSE \E keep \in SUBSET DOMAIN Concern :
                      obj.loc = [k \in 1 .. Cardinality(keep) |-> Concern[SetToSortSeq(keep, <)[k]]]
=============================================================================
