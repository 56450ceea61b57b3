------------------------------ MODULE CheckRun -------------------------------
(***************************************************************************)
(* libcheck/src/check_run.c and check_msg.c: a test case is run, each test *)
(* in a process of its own or in the runner's.  What a test does is sent   *)
(* as messages through a temporary file, which the runner reads when the   *)
(* test is over; a timer ends a test that takes too long.                  *)
(***************************************************************************)
EXTENDS Subject, Integers, Sequences

CONSTANTS
    CkTests,       \* tests of the test case
    CkSignals,     \* signals a test may be expected to raise (0: none)
    CkExits,       \* values of allowed_exit_value, and codes of exit
    CkMaxMsgs      \* bound on the messages of a test

SIGKILL == 9
SIGSEGV == 11

INVALID == "none"       \* CK_CTX_INVALID; also no message and no location

Ctx(c)  == [k |-> "ctx", v |-> c]
Loc(c)  == [k |-> "loc", v |-> c]
Fail(c) == [k |-> "fail", v |-> c]

-----------------------------------------------------------------------------
\* punpack: the messages are folded into an RcvMsg.
rcvmsg_create ==
    [lastctx |-> INVALID, failctx |-> INVALID, msg |-> INVALID, test_file |-> INVALID,
     fixture_file |-> INVALID]

rcvmsg_update_ctx(r, ctx) ==
    [r EXCEPT !.fixture_file = IF r.lastctx # INVALID THEN INVALID ELSE @, !.lastctx = ctx]

rcvmsg_update_loc(r, file) ==
    IF r.lastctx = "test" THEN [r EXCEPT !.test_file = file] ELSE [r EXCEPT !.fixture_file = file]

get_result(r, m) ==
    CASE m.k = "ctx" -> rcvmsg_update_ctx(r, m.v)
      [] m.k = "loc" -> IF r.failctx = INVALID THEN rcvmsg_update_loc(r, m.v) ELSE r
      [] m.k = "fail" /\ r.msg = INVALID -> [r EXCEPT !.msg = m.v, !.failctx = r.lastctx]
      [] OTHER -> r

punpack(pipe) ==
    LET rmsg[n \in 0..Len(pipe)] == IF n = 0 THEN rcvmsg_create ELSE get_result(rmsg[n - 1], pipe[n])
    IN rmsg[Len(pipe)]

LocByCtx(r, ctx) == IF ctx = "test" THEN r.test_file ELSE r.fixture_file

construct_test_result(r, waserror) ==
    LET ctx == IF r.msg # INVALID \/ waserror THEN r.lastctx
               ELSE IF r.lastctx = "setup" THEN "setup" ELSE "test"
    IN [ctx |-> ctx, msg |-> r.msg, at |-> LocByCtx(r, ctx), rtype |-> INVALID]

set_nofork_info(tr) ==
    IF tr.msg = INVALID THEN [tr EXCEPT !.rtype = "PASS", !.msg = "Passed"] ELSE [tr EXCEPT !.rtype = "FAILURE"]

\* A wait status: the signal, or 0 and the exit code
waserror(st, expected) ==
    IF st.sig # 0 THEN st.sig # expected ELSE st.code # 0

set_fork_info(tr, st, expected, allowed, alarm) ==
    CASE st.sig # 0 /\ st.sig = expected /\ ~alarm -> [tr EXCEPT !.rtype = "PASS", !.msg = "Passed"]
      [] st.sig # 0 /\ (st.sig # expected \/ alarm) ->
            [tr EXCEPT !.rtype = "ERROR", !.msg = IF alarm THEN "timeout" ELSE "signal"]
      [] st.sig = 0 /\ expected = 0 /\ st.code = allowed -> [tr EXCEPT !.rtype = "PASS", !.msg = "Passed"]
      [] st.sig = 0 /\ expected = 0 /\ st.code # allowed ->
            IF tr.msg = INVALID THEN [tr EXCEPT !.rtype = "ERROR", !.msg = "exit"]
            ELSE [tr EXCEPT !.rtype = "FAILURE"]
      [] OTHER -> [tr EXCEPT !.rtype = "FAILURE", !.msg = "exit"]

-----------------------------------------------------------------------------
\* obj.child: "none", "forked" (not yet in a group of its own), "grouped", a phase,
\* "over";
\* obj.gc: a process that the test has forked is alive.  obj.phase: where a test in
\* the runner's process is.  abs.now: the truth about the test: its first failed
\* assertion and whether the alarm killed it; abs.log: that of the tests with a
\* result; abs.lost: the alarm went off before the test had its process group.
NoStat == [sig |-> 0, code |-> 0]
Fresh == [first |-> INVALID, killed |-> FALSE, st |-> NoStat]

CkInit ==
    /\ subject = "check"
    /\ \E fork \in BOOLEAN, sig \in CkSignals, ex \in CkExits :
          obj = [fork |-> fork, expected |-> sig, allowed |-> ex, pc |-> "setup", t |-> 0,
                 child |-> "none", phase |-> INVALID, st |-> NoStat, gc |-> FALSE, timer |-> FALSE,
                 alarm |-> FALSE, pipe |-> <<>>, results |-> <<>>, n_checked |-> 0, n_failed |-> 0,
                 n_errors |-> 0]
    /\ abs = [now |-> Fresh, log |-> <<>>, lost |-> FALSE]

srunner_add_failure(o, tr) ==
    [o EXCEPT !.results = Append(@, tr), !.n_checked = @ + 1,
              !.n_failed = IF tr.rtype = "FAILURE" THEN @ + 1 ELSE @,
              !.n_errors = IF tr.rtype = "ERROR" THEN @ + 1 ELSE @]

\* receive_test_result: the file is read and replaced by an empty one.
Received(o) == construct_test_result(punpack(o.pipe), o.fork /\ waserror(o.st, o.expected))

\* srunner_run_unchecked_setup, in the runner's process.  A failed assertion is one
\* result, and no test of the case is run.
UncheckedSetup(fails) ==
    /\ obj.pc = "setup"
    /\ LET tr == set_nofork_info([ctx |-> "setup", msg |-> "setup", at |-> "setup", rtype |-> INVALID])
       IN Becomes(IF fails THEN srunner_add_failure([obj EXCEPT !.pc = "end"], tr)
                  ELSE [obj EXCEPT !.pc = "next"],
                  IF fails THEN [abs EXCEPT !.log = Append(@, [Fresh EXCEPT !.first = "setup"])] ELSE abs)

NextTest ==
    /\ obj.pc = "next"
    /\ Becomes(IF obj.t = CkTests THEN [obj EXCEPT !.pc = "teardown"]
               ELSE IF obj.fork
               THEN [obj EXCEPT !.t = @ + 1, !.pc = "arm", !.child = "forked", !.st = NoStat]
               ELSE [obj EXCEPT !.t = @ + 1, !.pc = "run", !.phase = "setup", !.pipe = <<Ctx("setup")>>],
               [abs EXCEPT !.now = Fresh, !.lost = FALSE])

\* timer_create and timer_settime
ArmTimer ==
    /\ obj.pc = "arm"
    /\ Becomes([obj EXCEPT !.pc = "wait", !.alarm = FALSE, !.timer = TRUE], abs)

-----------------------------------------------------------------------------
\* The test's process
Phases == {"setup", "test", "teardown"}

\* What is sent when a phase begins; START_TEST calls tcase_fn_start.
Begins(phase) == IF phase = "test" THEN <<Ctx("test"), Loc("start")>> ELSE <<Ctx(phase)>>

After(phase) == IF phase = "setup" THEN "test" ELSE "teardown"

setpgid ==
    /\ obj.child = "forked"
    /\ Becomes([obj EXCEPT !.child = "grouped"], abs)

tcase_run_checked_setup ==
    /\ obj.child = "grouped"
    /\ Becomes([obj EXCEPT !.child = "setup", !.pipe = @ \o Begins("setup")], abs)

Over(o, sig, code) == [o EXCEPT !.child = "over", !.st = [sig |-> sig, code |-> code]]

ChildPasses ==
    /\ obj.child \in Phases
    /\ IF obj.child = "teardown" THEN Becomes(Over(obj, 0, 0), abs)
       ELSE Becomes([obj EXCEPT !.child = After(@), !.pipe = @ \o Begins(After(obj.child))], abs)

\* _ck_assert_failed in a process of its own
ChildFails ==
    /\ obj.child \in Phases
    /\ Becomes(Over([obj EXCEPT !.pipe = @ \o <<Loc(obj.child), Fail(obj.child)>>], 0, 1),
               [abs EXCEPT !.now.first = obj.child])

ChildEnds ==
    /\ obj.child \in Phases
    /\ \/ \E c \in CkExits : Becomes(Over(obj, 0, c), abs)
       \/ Becomes(Over(obj, SIGSEGV, 0), abs)
       \/ Becomes(Over(obj, SIGKILL, 0), abs)

check_fork ==
    /\ obj.child = "test" /\ ~obj.gc
    /\ Becomes([obj EXCEPT !.gc = TRUE], abs)

\* Mutation: the alarm is only noted.
MutOnlyNoted ==
    /\ obj.timer
    /\ Becomes([obj EXCEPT !.timer = FALSE, !.alarm = TRUE], abs)

\* The timer: sig_handler kills the process group, which the test makes itself.
sig_handler ==
    /\ obj.timer
    /\ LET o == [obj EXCEPT !.timer = FALSE, !.alarm = TRUE]
       IN CASE obj.child \in Phases \union {"grouped"} ->
                Becomes([Over(o, SIGKILL, 0) EXCEPT !.gc = FALSE], [abs EXCEPT !.now.killed = TRUE])
            [] obj.child = "forked" -> Becomes(o, [abs EXCEPT !.lost = TRUE])
            [] OTHER -> Becomes([o EXCEPT !.gc = FALSE], abs)

-----------------------------------------------------------------------------
waitpid ==
    /\ obj.pc = "wait" /\ obj.child = "over"
    /\ Becomes([obj EXCEPT !.pc = "reap"], abs)

\* Mutation: the group is not killed.
MutNoKillpg ==
    /\ obj.pc = "reap"
    /\ LET tr == set_fork_info(Received(obj), obj.st, obj.expected, obj.allowed, obj.alarm)
           o  == [obj EXCEPT !.timer = FALSE, !.child = "none", !.pipe = <<>>, !.pc = "next"]
       IN Becomes(srunner_add_failure(o, tr), [abs EXCEPT !.log = Append(@, [abs.now EXCEPT !.st = obj.st])])

\* timer_delete, killpg and receive_result_info_fork.  A test that was killed
\* before it sent anything ends the runner.
receive_result_info_fork ==
    /\ obj.pc = "reap"
    /\ LET tr == set_fork_info(Received(obj), obj.st, obj.expected, obj.allowed, obj.alarm)
           o  == [obj EXCEPT !.timer = FALSE, !.gc = FALSE, !.child = "none", !.pipe = <<>>, !.pc = "next"]
       IN IF punpack(obj.pipe).lastctx = INVALID THEN Becomes([o EXCEPT !.pc = "died"], abs)
          ELSE Becomes(srunner_add_failure(o, tr),
                       [abs EXCEPT !.log = Append(@, [abs.now EXCEPT !.st = obj.st])])

\* tcase_run_tfun_nofork.  A failed assertion jumps to the end of the phase; one in
\* a teardown jumps back behind the test, and the teardowns are run once more.
Finished(o, truth) ==
    Becomes(srunner_add_failure([o EXCEPT !.pipe = <<>>, !.phase = INVALID, !.pc = "next"],
                                set_nofork_info(Received(o))),
            [abs EXCEPT !.log = Append(@, truth)])

NoforkPasses ==
    /\ obj.pc = "run"
    /\ CASE obj.phase = "setup" -> Becomes([obj EXCEPT !.phase = "test", !.pipe = Begins("test")], abs)
         [] obj.phase = "test"  -> Becomes([obj EXCEPT !.phase = "teardown", !.pipe = @ \o Begins("teardown")], abs)
         [] OTHER -> Finished(obj, abs.now)

NoforkFails ==
    /\ obj.pc = "run" /\ Len(obj.pipe) < CkMaxMsgs
    /\ LET o     == [obj EXCEPT !.pipe = @ \o <<Loc(obj.phase), Fail(obj.phase)>>]
           truth == [abs.now EXCEPT !.first = IF @ = INVALID THEN obj.phase ELSE @]
       IN IF obj.phase = "setup" THEN Finished(o, truth)
          ELSE Becomes([o EXCEPT !.phase = "teardown", !.pipe = @ \o Begins("teardown")],
                       [abs EXCEPT !.now = truth])

\* A test in the runner's process that exits or is hit by a signal ends the runner,
\* as does an assertion that fails in an unchecked teardown: by exit(1), or by a
\* jump into a function that has returned.
RunnerDies ==
    /\ obj.pc \in {"run", "teardown"}
    /\ Becomes([obj EXCEPT !.pc = "died"], abs)

UncheckedTeardown ==
    /\ obj.pc = "teardown"
    /\ Becomes([obj EXCEPT !.pc = "end"], abs)

CkRunner ==
    /\ subject = "check"
    /\ \/ \E fails \in BOOLEAN : UncheckedSetup(fails)
       \/ NextTest \/ ArmTimer \/ waitpid \/ receive_result_info_fork
       \/ NoforkPasses \/ NoforkFails \/ UncheckedTeardown

CkTimer == subject = "check" /\ sig_handler

CkNext ==
    \/ CkRunner
    \/ CkTimer
    \/ subject = "check" /\ (setpgid \/ tcase_run_checked_setup \/ ChildPasses \/ ChildFails \/ ChildEnds \/ check_fork \/ RunnerDies)

\* The runner is a process that runs, and an armed timer goes off.
CkFairness == WF_subjectVars(CkRunner) /\ WF_subjectVars(CkTimer)

-----------------------------------------------------------------------------
\* A test in a process of its own passes only if it raised the signal it should, of
\* itself, or exited as allowed.  One that the alarm killed is an error, even where
\* SIGKILL is expected.  A failed assertion is a failure, reported with the phase
\* and the place of the first one, unless the allowed exit value is the 1 that a
\* failed assertion exits with, or a signal is expected.
CkVerdict ==
    subject = "check" /\ obj.fork =>
        \A i \in DOMAIN obj.results :
            LET tr == obj.results[i]
                is == abs.log[i]
            IN /\ tr.rtype = "PASS" => IF obj.expected = 0 THEN is.st = [sig |-> 0, code |-> obj.allowed]
                                       ELSE is.st.sig = obj.expected /\ ~is.killed
               /\ is.killed => tr.rtype = "ERROR" /\ tr.msg = "timeout"
               /\ is.first # INVALID /\ obj.expected = 0 /\ obj.allowed # 1 =>
                      tr.rtype = "FAILURE" /\ tr.msg = is.first /\ tr.ctx = is.first /\ tr.at = is.first

\* In the runner's process a test fails exactly if an assertion did, and the
\* message is that of the first.  (Phase and place are those of the teardown.)
CkNoforkVerdict ==
    subject = "check" /\ ~obj.fork =>
        \A i \in DOMAIN obj.results :
            /\ obj.results[i].rtype = (IF abs.log[i].first = INVALID THEN "PASS" ELSE "FAILURE")
            /\ obj.results[i].msg = (IF abs.log[i].first = INVALID THEN "Passed" ELSE abs.log[i].first)

\* When a test has its result, no process that it forked is left: none can write to
\* the file of the next one.
CkNoProcessLeft == subject = "check" /\ obj.child = "none" => ~obj.gc

\* A test that hangs is ended by its alarm, if it had its process group by then.
CkTestEnds ==
    subject = "check" /\ obj.pc = "wait" ~> subject = "check" /\ (obj.pc # "wait" \/ abs.lost)

\* Every test has the result that its own end and assertions call for, in a process
\* of its own or in the runner's, and leaves nothing running behind.
CkTestsSettled == CkVerdict /\ CkNoforkVerdict /\ CkNoProcessLeft
=============================================================================
