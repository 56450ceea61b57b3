----------------------------- MODULE SourceWalk -----------------------------
(***************************************************************************)
(* controller.c, main's loop over the configured sources and               *)
(* process_source_directory.  The walk changes the working directory of    *)
(* the process as it goes, while the names of the files it finds are       *)
(* looked up, and the scripts of the engine are started, relative to it.   *)
(***************************************************************************)
EXTENDS Subject, Integers, Sequences, FiniteSets, SequencesExt

CONSTANTS
    WalkTree,      \* the copy of the program: directory |-> names of its entries
    WalkSources,   \* possible values of the setting "source"
    WalkCopy       \* name of the copy in the engine's directory

\* Paths are sequences of names.  The engine's own directory, where main starts:
Home == <<>>

IsDir(path) == path \in DOMAIN WalkTree

\* The files that are mutated have names that end in ".c".
IsC(path) == Last(path) \in {"a.c", "b.c"}

Below(path) == {p \in DOMAIN WalkTree : IsPrefix(path, p)}

CFiles(path) ==
    IF ~IsDir(path) THEN {path}
    ELSE {Append(d, n) : d \in Below(path), n \in {"a.c", "b.c"}}
            \cap UNION {{Append(d, n) : n \in WalkTree[d]} : d \in Below(path)}

-----------------------------------------------------------------------------
\* obj.stack: the calls of process_source_directory, innermost first, each with
\* the entries readdir has still to give.  obj.out: mutation_out/<name>, the
\* files that mutants were generated from.  abs: the files processed, in order,
\* the files mutants of which were injected into each, and the files for which
\* GenCFGBranches.sh could be started.
WalkInit ==
    /\ subject = "walk"
    /\ \E s \in WalkSources, denied \in {{}} \cup {{d} : d \in DOMAIN WalkTree} :
          /\ obj = [cwd |-> Home, todo |-> s, stack |-> <<>>, out |-> [n \in {"a.c", "b.c"} |-> {}],
                    denied |-> denied, copy |-> TRUE, ended |-> FALSE]
          /\ abs = [sources |-> s, done |-> <<>>, injected |-> {}, scripted |-> {}]

\* process_source_file: the mutants go to a directory named after the file only,
\* and inject_mutations injects all that are there.
MutantsGenerated(o, file) == [o EXCEPT !.out[Last(file)] = @ \cup {file}]

process_source_file(o, file) ==
    LET m == MutantsGenerated(o, file) IN
    Becomes(m, [abs EXCEPT !.done = Append(@, file),
                           !.injected = @ \cup {<<file, g>> : g \in m.out[Last(file)]},
                           !.scripted = IF m.cwd = Home THEN @ \cup {file} ELSE @])

\* opendir may fail: the directory is passed over, and chdir not called.
Enter(o, dir) ==
    IF dir \in o.denied THEN o
    ELSE [o EXCEPT !.cwd = dir, !.stack = <<[dir |-> dir, rest |-> WalkTree[dir]]>> \o @]

NextSourceEntry ==
    /\ obj.stack = <<>> /\ obj.todo # <<>>
    /\ LET path == <<WalkCopy>> \o Head(obj.todo)
           o    == [obj EXCEPT !.todo = Tail(@)]
       IN IF IsDir(path) THEN Becomes(Enter(o, path), abs)
          ELSE process_source_file(o, path)

\* lstat is given the name only, and so looks in the working directory.
ReadEntry(name) ==
    /\ obj.stack # <<>>
    /\ name \in Head(obj.stack).rest
    /\ LET o    == [obj EXCEPT !.stack[1].rest = @ \ {name}]
           path == Append(Head(obj.stack).dir, name)
       IN CASE IsDir(Append(obj.cwd, name)) -> Becomes(Enter(o, path), abs)
            [] ~IsDir(Append(obj.cwd, name)) /\ IsC(path) -> process_source_file(o, path)
            [] OTHER -> Becomes(o, abs)

\* Mutation: chdir("..") is not called.
MutStays(o) == [o EXCEPT !.stack = Tail(@)]

\* chdir(".."): the working directory is the parent of the directory walked
Leave(o) == [o EXCEPT !.stack = Tail(@), !.cwd = Front(@)]

CloseDirectory ==
    /\ obj.stack # <<>>
    /\ Head(obj.stack).rest = {}
    /\ Becomes(Leave(obj), abs)

\* cleanUp(copy_put): rm -rf of a name in the working directory
RemoveCopy ==
    /\ obj.stack = <<>> /\ obj.todo = <<>> /\ ~obj.ended
    /\ Becomes([obj EXCEPT !.ended = TRUE, !.copy = (obj.cwd # Home)], abs)

WalkNext ==
    /\ subject = "walk"
    /\ \/ NextSourceEntry
       \/ \E name \in UNION {WalkTree[d] : d \in DOMAIN WalkTree} : ReadEntry(name)
       \/ CloseDirectory
       \/ RemoveCopy

-----------------------------------------------------------------------------
Sources == {<<WalkCopy>> \o s : s \in Range(abs.sources)}

\* While a directory is read it is the working directory, so lstat is asked about
\* the entries of this directory, at every depth and after every return.
WalkInDir ==
    subject = "walk" /\ obj.stack # <<>> => obj.cwd = Head(obj.stack).dir

\* When all is readable, the walk processes each C file of the configured sources
\* and nothing else, and a file as often as sources name it.
WalkExact ==
    subject = "walk" /\ obj.ended /\ obj.denied = {} =>
        /\ Range(abs.done) = UNION {CFiles(s) : s \in Sources}
        /\ Len(abs.done) = FoldLeft(LAMBDA n, s : n + Cardinality(CFiles(<<WalkCopy>> \o s)),
                                    0, abs.sources)

\* A file is injected with mutants of its own, unless a file of the same name in
\* another directory was processed before: mutation_out/<name> is shared then.
WalkOwnMutants ==
    subject = "walk" => \A p \in abs.injected : Last(p[1]) = Last(p[2])

\* The walk ends in the parent of the last directory it walked, which is the
\* engine's own only for the root of the program.  After any other the copy is not
\* removed; and while a directory is walked GenCFGBranches.sh, named without a
\* path, is not found, so no file of a directory has its branches extracted.
WalkLeavesHome ==
    subject = "walk" /\ obj.ended =>
        LET walked == SelectSeq(abs.sources, LAMBDA s : LET d == <<WalkCopy>> \o s
                                                       IN IsDir(d) /\ d \notin obj.denied)
        IN /\ obj.copy <=> walked # <<>> /\ Last(walked) # <<>>
           /\ abs.scripted \subseteq Sources

\* The walk processes the configured sources, each with mutants of its own, however
\* files and directories are named and nested, and wherever it ends.
WalkSound == WalkInDir /\ WalkExact /\ WalkOwnMutants /\ WalkLeavesHome
=============================================================================
