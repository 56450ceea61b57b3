----------------------------- MODULE Supervisor -----------------------------
(***************************************************************************)
(* controller.c, startprogram and startMake: a program is run in a child   *)
(* process, which the controller polls every 100 ms and kills when its     *)
(* time is up.                                                             *)
(***************************************************************************)
EXTENDS Subject, Integers

CONSTANTS
    SupPolls,   \* WAIT_MAX_IN_MS / SLEEP_UNIT_IN_MS: 2000, for make 3000
    SupCodes    \* exit codes of programs; WEXITSTATUS is in 0 .. 255

TimedOut == 2
NoStatus == -1   \* what both return for a child that a signal ended

\* obj.child: "none" (fork failed), "forked", "program" (execvp succeeded),
\* "twin" (execvp failed: the child goes on as a controller), "exited",
\* "signalled", "reaped".  abs: how the child's life ended, and its exit code.
SupInit ==
    /\ subject = "supervisor"
    /\ \E f \in {"startprogram", "startMake"}, c \in {"forked", "none"} :
          obj = [fun |-> f, pc |-> "poll", i |-> 0, child |-> c, code |-> 0, ret |-> NoStatus]
    /\ abs = [end |-> "alive", twin |-> FALSE]

Alive == obj.child \in {"forked", "program", "twin"}

SupExec ==
    /\ obj.child = "forked"
    /\ \/ Becomes([obj EXCEPT !.child = "program"], abs)
       \/ Becomes([obj EXCEPT !.child = "twin"], [abs EXCEPT !.twin = TRUE])

\* The program or the second controller ends: by exit or by a signal
SupChildEnds ==
    /\ obj.child \in {"program", "twin"}
    /\ \/ \E c \in SupCodes : Becomes([obj EXCEPT !.child = "exited", !.code = c],
                                      [abs EXCEPT !.end = "exit"])
       \/ Becomes([obj EXCEPT !.child = "signalled"], [abs EXCEPT !.end = "signal"])

\* The kernel delivers SIGKILL.
SupKilled ==
    /\ obj.pc = "reap"
    /\ Alive
    /\ Becomes([obj EXCEPT !.child = "signalled"], [abs EXCEPT !.end = "timeout"])

Returned(o, rv) == [o EXCEPT !.pc = "done", !.ret = rv]

\* What the status waitpid filled in amounts to
ExitStatus(o) == IF o.child = "exited" THEN o.code ELSE NoStatus

\* Mutation: the polls are not counted to their limit.
MutOnePollMore ==
    /\ obj.pc = "poll"
    /\ IF obj.child \in {"exited", "signalled"}
       THEN Becomes([Returned(obj, ExitStatus(obj)) EXCEPT !.child = "reaped"], abs)
       ELSE Becomes([obj EXCEPT !.i = (@ + 1) % SupPolls], abs)

\* Mutation: the child is not waited for after the limit.
MutNoReap ==
    /\ obj.pc = "poll"
    /\ CASE obj.child = "none" -> Becomes(Returned(obj, 0), abs)
         [] obj.child \in {"exited", "signalled"} ->
              Becomes([Returned(obj, ExitStatus(obj)) EXCEPT !.child = "reaped"], abs)
         [] OTHER -> Becomes(IF obj.i + 1 = SupPolls THEN Returned(obj, TimedOut)
                             ELSE [obj EXCEPT !.i = @ + 1], abs)

\* waitpid(pid, &status, WNOHANG).  Without a child it fails; startprogram then
\* decodes the 0 that status was set to, startMake an uninitialised variable.
SupPoll ==
    /\ obj.pc = "poll"
    /\ CASE obj.child = "none" ->
              \E rv \in (IF obj.fun = "startprogram" THEN {0} ELSE SupCodes \cup {NoStatus}) :
                  Becomes(Returned(obj, rv), abs)
         [] obj.child \in {"exited", "signalled"} ->
              Becomes([Returned(obj, ExitStatus(obj)) EXCEPT !.child = "reaped"], abs)
         [] OTHER -> Becomes(IF obj.i + 1 = SupPolls THEN [obj EXCEPT !.pc = "reap"]
                             ELSE [obj EXCEPT !.i = @ + 1], abs)

\* waitpid(pid, &status, 0) after the kill: the status is not looked at
SupReap ==
    /\ obj.pc = "reap"
    /\ ~Alive
    /\ Becomes([Returned(obj, TimedOut) EXCEPT !.child = "reaped"], abs)

SupController == subject = "supervisor" /\ (SupPoll \/ SupReap)

SupKernel == subject = "supervisor" /\ SupKilled

SupNext ==
    \/ SupController
    \/ SupKernel
    \/ subject = "supervisor" /\ (SupExec \/ SupChildEnds)

\* The kernel runs the controller, and ends a process that is sent SIGKILL.
SupFairness == WF_subjectVars(SupController) /\ WF_subjectVars(SupKernel)

-----------------------------------------------------------------------------
\* A child never outlives the call that forked it: whatever the race between
\* its end and the time limit, it is reaped before startprogram or startMake
\* returns.  In particular the second controller that a failed execvp leaves in
\* the child is over when the first one goes on.
SupNoChildLeft ==
    subject = "supervisor" /\ obj.pc = "done" => obj.child \in {"reaped", "none"}

\* The value returned tells how the child ended: for a child killed at the limit
\* it is 2 (runMake takes 2 for a runtime error), for one ended by a signal -1.
\* A program that ends between the last poll and the kill counts as timed out.
SupTellsEnd ==
    subject = "supervisor" /\ obj.pc = "done" /\ obj.child # "none" =>
        /\ abs.end = "timeout" => obj.ret = TimedOut
        /\ abs.end = "exit" => obj.ret \in {obj.code, TimedOut}
        /\ abs.end = "signal" => obj.ret \in {NoStatus, TimedOut}
        /\ obj.i + 1 < SupPolls => obj.ret = (IF abs.end = "exit" THEN obj.code ELSE NoStatus)

\* Whatever the child does, the call returns.
SupReturns == subject = "supervisor" ~> (subject = "supervisor" /\ obj.pc = "done")

\* startprogram and startMake leave no child behind and tell how it ended.
SupervisedEnd == SupNoChildLeft /\ SupTellsEnd
=============================================================================
