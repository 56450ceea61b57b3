----------------------------- MODULE EngineRuns ------------------------------
(***************************************************************************)
(* What passes from one run of the engine to the next: the files that      *)
(* run.sh gathers, and the copy of the program that the controller finds.  *)
(***************************************************************************)
EXTENDS Subject, Integers, Sequences

(***************************************************************************)
(* run.sh: the controller is run for each configuration of each example    *)
(* program, and the results are gathered in the directory of the program.  *)
(***************************************************************************)
CONSTANTS
    DrvSubjects,   \* subjectList.txt
    DrvConfigs,    \* configurations config.single*.cfg of a program
    DrvSkip        \* values of the second argument less one: programs to skip

\* The programs have names, none of which is the one that stands for no file here.
ASSUME DriverAssumption ==
    /\ DrvSubjects \in Seq(STRING)
    /\ \A s \in DOMAIN DrvSubjects : DrvSubjects[s] # "missing"
    /\ DrvSkip \subseteq Nat

\* Results are the pairs of program and configuration they come from; the result
\* of an earlier run of the script is
Old == <<"old", "old">>

\* A file or directory that does not exist
Missing == {<<"missing", "missing">>}

\* obj.at: 0 before the first program; obj.todo: configurations still to run.
\* abs: the configurations of this program that the controller completed.
DrvInit ==
    /\ subject = "driver"
    /\ \E skip \in DrvSkip, gstats, out \in {Missing, {Old}} :
          obj = [at |-> skip, todo |-> {}, gstats |-> gstats, mutation_out |-> out,
                 single |-> {}, saved |-> [s \in DOMAIN DrvSubjects |-> [out |-> {Old}, gstats |-> {Old}]],
                 skip |-> skip, busy |-> FALSE]
    /\ abs = [s \in DOMAIN DrvSubjects |-> {}]

\* The old results are removed before the first configuration.
Started(o) ==
    [o EXCEPT !.at = @ + 1, !.todo = DrvConfigs, !.busy = TRUE,
              !.mutation_out = Missing, !.gstats = Missing, !.single = {}]

StartSubject ==
    /\ ~obj.busy
    /\ obj.at < Len(DrvSubjects)
    /\ Becomes(Started(obj), abs)

\* The controller replaces mutation_out and adds to gstats.xml; or it stops at a
\* configuration it cannot read, or is ended before it has written statistics.
Statistics(o, r) == IF o.gstats = Missing THEN {r} ELSE o.gstats \cup {r}

Gathered(o) ==
    [o EXCEPT !.single = @ \cup (IF o.mutation_out = Missing THEN {} ELSE o.mutation_out)]

RunController(c) ==
    /\ obj.busy
    /\ c \in obj.todo
    /\ LET r == <<DrvSubjects[obj.at], c>>
           o == [obj EXCEPT !.todo = @ \ {c}]
       IN \/ Becomes(Gathered([o EXCEPT !.mutation_out = {r}, !.gstats = Statistics(o, r)]),
                     [abs EXCEPT ![obj.at] = @ \cup {r}])
          \/ Becomes(Gathered(o), abs)
          \/ Becomes(Gathered([o EXCEPT !.mutation_out = {r}]), abs)

\* rm -f the statistics saved before, then cp gstats.xml, which may not exist
SaveResults ==
    /\ obj.busy
    /\ obj.todo = {}
    /\ Becomes([obj EXCEPT !.busy = FALSE,
                           !.saved[obj.at] = [out |-> obj.single, gstats |-> obj.gstats]], abs)

DrvNext ==
    /\ subject = "driver"
    /\ StartSubject \/ (\E c \in DrvConfigs : RunController(c)) \/ SaveResults

-----------------------------------------------------------------------------
\* The statistics saved with a program are those of its own completed runs, all of
\* them and no others: neither another program's nor an earlier script's; and a
\* program that is skipped keeps what it had.
DrvOwnResults ==
    subject = "driver" =>
        \A s \in DOMAIN DrvSubjects :
            IF s <= obj.skip \/ s > obj.at \/ (s = obj.at /\ obj.busy)
            THEN obj.saved[s] = [out |-> {Old}, gstats |-> {Old}]
            ELSE /\ obj.saved[s].gstats = (IF abs[s] = {} THEN Missing ELSE abs[s])
                 /\ abs[s] \subseteq obj.saved[s].out
                 /\ \A r \in obj.saved[s].out : r[1] = DrvSubjects[s]

-----------------------------------------------------------------------------
(***************************************************************************)
(* controller.c, processConfigFile and what main does before and after the *)
(* mutants: the program under test is copied into the engine's directory,  *)
(* measured as it is, and given the engine's version of its test library.  *)
(* The user may end the controller at any moment and start it again.       *)
(***************************************************************************)
CONSTANT StMaxRuns     \* bound on the times the controller is started

\* A configuration file.  place: whether sourceRootDir is in the engine's own
\* directory; lib: the setting for the test library is there.
Configs ==
    [readable : BOOLEAN, sourceRootDir : BOOLEAN, executablePath : BOOLEAN, source : BOOLEAN,
     place : {"here", "elsewhere"}, testingFramework : {"none", "cutest", "libcheck", "other"},
     lib : BOOLEAN, CuTestVersion : {1, 2}]

\* The settings that do not matter once one is missing are left at one value.
Sensible(c) ==
    /\ ~(c.readable /\ c.sourceRootDir /\ c.executablePath /\ c.source)
          => c.testingFramework = "cutest" /\ c.lib /\ c.CuTestVersion = 1
    /\ ~c.readable => c.sourceRootDir /\ c.executablePath /\ c.source
    /\ c.testingFramework # "cutest" => c.CuTestVersion = 1

\* processConfigFile gives a configuration, not NULL
processConfigFile(c) ==
    /\ c.readable /\ c.sourceRootDir /\ c.executablePath /\ c.source
    /\ c.testingFramework \in {"cutest", "libcheck"}
    /\ c.testingFramework = "cutest" => c.lib

-----------------------------------------------------------------------------
\* A copy of the program: its code, and its test library ("own", or the file of
\* the engine it was replaced by).  abs.baseline: the copy the baseline was measured
\* on; abs.root: the program at sourceRootDir.
Original == [code |-> "original", lib |-> "own"]
NoCopy == [code |-> "none", lib |-> "none"]

StInit ==
    /\ subject = "startup"
    /\ \E c \in Configs :
          /\ Sensible(c)
          /\ obj = [cfg |-> c, pc |-> "start", copy |-> IF c.place = "here" THEN Original ELSE NoCopy,
                    runs |-> 1]
    /\ abs = [root |-> Original, baseline |-> NoCopy]

\* sourceRootDir in the engine's directory is the copy.
At(pc, copy) ==
    /\ obj' = [obj EXCEPT !.pc = pc, !.copy = copy]
    /\ abs' = [abs EXCEPT !.root = IF obj.cfg.place = "here" THEN copy ELSE @]
    /\ UNCHANGED subject

Configure ==
    /\ obj.pc = "start"
    /\ At(IF processConfigFile(obj.cfg) THEN "clean" ELSE "ended", obj.copy)

\* Mutation: a copy that is there is kept.
MutNoCleanUp ==
    /\ obj.pc = "clean"
    /\ At("copy", obj.copy)

\* cleanUp(copy_put): "Remove the copy of the program under test if it exists due to
\* an execution terminated by the user"
CleanUp ==
    /\ obj.pc = "clean"
    /\ At("copy", NoCopy)

\* cp -r: into a copy that is there the program is put as a subdirectory.
CopyPut ==
    /\ obj.pc = "copy"
    /\ At("measure", IF obj.copy = NoCopy THEN abs.root ELSE obj.copy)

\* The PUT is made, its branches and its Valgrind errors are recorded.
MeasurePut ==
    /\ obj.pc = "measure"
    /\ obj' = [obj EXCEPT !.pc = "library"]
    /\ abs' = [abs EXCEPT !.baseline = obj.copy]
    /\ UNCHANGED subject

\* The file that replaces the test library.  Without the setting that says where it
\* is, its path is uninitialised: NULL, or one outside of the program.
EngineLibrary(c) ==
    IF ~c.lib THEN "own"
    ELSE IF c.testingFramework = "libcheck" THEN "check.c"
    ELSE IF c.CuTestVersion = 1 THEN "CuTest.forked.c"
    ELSE "CuTest.forked2.c"

\* Nothing is copied into a program that is not there.
ReplaceLibrary ==
    /\ obj.pc = "library"
    /\ At("mutate", IF obj.copy = NoCopy THEN NoCopy
                    ELSE [obj.copy EXCEPT !.lib = EngineLibrary(obj.cfg)])

\* Mutants are injected into the copy; the original source is put back at the end
\* of each file.
InjectMutants ==
    /\ obj.pc = "mutate" /\ obj.copy # NoCopy
    /\ At("mutate", [obj.copy EXCEPT !.code = IF @ = "original" THEN "mutated" ELSE "original"])

EndRun ==
    /\ obj.pc = "mutate" /\ obj.copy.code # "mutated"
    /\ At("ended", NoCopy)

\* The controller ends, of itself or because the user ends it, and is started again.
Restart ==
    /\ obj.runs < StMaxRuns
    /\ obj' = [obj EXCEPT !.pc = "start", !.runs = @ + 1]
    /\ UNCHANGED <<abs, subject>>

StNext ==
    /\ subject = "startup"
    /\ \/ Configure \/ CleanUp \/ CopyPut \/ MeasurePut \/ ReplaceLibrary
       \/ InjectMutants \/ EndRun \/ Restart

-----------------------------------------------------------------------------
\* The baseline is measured on the program as it is, with its own test library,
\* even if a controller was ended while a mutant was in place: only a program in the
\* engine's own directory is not (it is removed, or measured as it was left).
StBaselineFresh ==
    subject = "startup" /\ obj.pc \in {"library", "mutate"} /\ obj.cfg.place = "elsewhere" =>
        abs.baseline = Original

\* While mutants are evaluated a project for CuTest has the test library that
\* reports kills to the engine: a configuration that leads to its own one is refused.
\* (One for libcheck is not: it must be built with the modified library already.)
StReports ==
    subject = "startup" /\ obj.pc = "mutate" /\ obj.copy # NoCopy
        /\ obj.cfg.testingFramework = "cutest" => obj.copy.lib # "own"

-----------------------------------------------------------------------------
\* Nothing of an earlier run enters a later one: neither the statistics of another
\* program, nor a mutant that an ended controller left in place, nor the project's
\* own test library where the engine needs to hear of kills.
RunsIndependent == DrvOwnResults /\ StBaselineFresh /\ StReports
=============================================================================
