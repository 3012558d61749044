------------------------------ MODULE Sandbox ------------------------------
(***************************************************************************)
(* apex/_rsi_sandbox.py and apex/_rsi_scope.py: one evaluation of an RSI   *)
(* candidate.  The controller starts one process, which checks its parent, *)
(* asks to die with it, becomes systemd-run, the verifier and Bubblewrap   *)
(* by exec, and runs the candidate in a PID namespace; the controller      *)
(* reads the output until its end, a limit or a deadline.                  *)
(*                                                                         *)
(* systemd-run, Bubblewrap and the kernel are external: a scope may or may *)
(* not have its limits, and the processes of a PID namespace die some time *)
(* after the Bubblewrap process that anchors them.  Output is counted in   *)
(* units; of the text on stderr only its beginning matters.                *)
(***************************************************************************)
EXTENDS Naturals

CONSTANTS
  Limit,     \* policy.output_bytes
  MaxOutput  \* bound of the model: the most the processes write

ASSUME SandboxAssumption == Limit \in Nat /\ MaxOutput \in Nat

VARIABLES
  controller,  \* where run() stands in the controller, or "dead"
  outer,       \* the process Popen started, by what it executes
  limits,      \* "applied" once the kernel enforces the limits on it
  code,        \* returncode of that process
  main,        \* the candidate: its exit code once it exited
  helper,      \* a process of the candidate beside it
  stderr,      \* how the text on stderr begins
  written,     \* output written in all
  got,         \* total of _capture
  deadline     \* "ahead" or "passed"

vars == <<controller, outer, limits, code, main, helper, stderr, written, got, deadline>>

Stages == {"none", "launch", "checked", "armed", "scope", "verify", "bwrap", "candidate"}
Ended == {"exited", "killed"}

\* The process runs and asked to be killed with its parent.
Armed == outer \in {"armed", "scope", "verify", "bwrap", "candidate"}

\* Candidate code can run.
Inside == main = "running" \/ helper = "running"

\* Every variable keeps its type, and run() never buffers more than the limit and
\* one byte, whatever the candidate writes.
TypeOK ==
  /\ controller \in {"idle", "reading", "waiting", "killing", "reaping", "result", "failed", "dead"}
  /\ outer \in Stages \cup Ended \cup {"exiting"}
  /\ limits \in {"missing", "applied"}
  /\ code \in {"none", "0", "1", "125", "-9"}
  /\ main \in {"none", "running", "0", "1", "-9"}
  /\ helper \in {"none", "running"} /\ deadline \in {"ahead", "passed"}
  /\ stderr \in {"nothing", "banner", "banner_bwrap", "banner_text", "text"}
  /\ written \in 0..MaxOutput /\ got \in 0..(Limit + 1)

-----------------------------------------------------------------------------
\* apex/_rsi_scope.py

\* The process ends by itself: its pipes close, then it can be waited for.
Exit(c) == outer' = "exiting" /\ code' = c

\* It wrote an error message, behind whatever stderr holds, and ends.
Fail(c) ==
  /\ Exit(c)
  /\ written < MaxOutput /\ written' = written + 1
  /\ stderr' = IF stderr = "nothing" THEN "text" ELSE stderr

\* getppid() is the parent named in the configuration.
LaunchChecksParent ==
  /\ outer = "launch"
  /\ IF controller = "dead"
     THEN Fail("125")
     ELSE outer' = "checked" /\ UNCHANGED <<code, stderr, written>>
  /\ UNCHANGED <<controller, limits, main, helper, got, deadline>>

\* prctl(PR_SET_PDEATHSIG, SIGKILL)
Arm ==
  /\ outer = "checked"
  /\ outer' = "armed"
  /\ UNCHANGED <<controller, limits, code, main, helper, stderr, written, got, deadline>>

\* MUTANT of StillParent: the parent is not asked for a second time.
StillParentUnchecked == TRUE

\* os.getppid() == parent, after prctl: a parent that died before it sent no signal.
StillParent == controller # "dead"

\* Launch becomes systemd-run --scope.
EnterScope ==
  /\ outer = "armed"
  /\ IF StillParent
     THEN outer' = "scope" /\ UNCHANGED <<code, stderr, written>>
     ELSE Fail("125")
  /\ UNCHANGED <<controller, limits, main, helper, got, deadline>>

\* systemd-run creates the scope, or reports that it cannot; it may also write
\* a warning or leave a limit out.
ScopeStarts ==
  /\ outer = "scope"
  /\ \/ /\ outer' = "verify"
        /\ limits' \in {"missing", "applied"}
        /\ \/ UNCHANGED <<stderr, written>>
           \/ written < MaxOutput /\ written' = written + 1 /\ stderr' = "text"
        /\ UNCHANGED code
     \/ Fail("1") /\ UNCHANGED limits
  /\ UNCHANGED <<controller, main, helper, got, deadline>>

\* MUTANT of Verified: the verifier does not read the limits back.
VerifiedUnread == TRUE

\* cpu.max, memory.max, memory.swap.max, pids.max and memory.oom.group
Verified == limits = "applied"

\* The verifier writes the banner and becomes Bubblewrap, unless execve fails and
\* its error follows the banner; or a check, a limit of its own or the banner
\* fails, of which it only writes the error.
Verify ==
  /\ outer = "verify"
  /\ \/ /\ Verified
        /\ outer' = "bwrap"
        /\ written < MaxOutput /\ written' = written + 1
        /\ stderr' = IF stderr = "nothing" THEN "banner" ELSE stderr
        /\ UNCHANGED code
     \/ /\ Verified
        /\ Exit("125")
        /\ written + 1 < MaxOutput /\ written' = written + 2
        /\ stderr' = IF stderr = "nothing" THEN "banner_text" ELSE stderr
     \/ Fail("125")
  /\ UNCHANGED <<controller, limits, main, helper, got, deadline>>

-----------------------------------------------------------------------------
\* Bubblewrap, the candidate and the kernel

\* Text behind the banner: an error of Bubblewrap begins with its name.
After(text) == IF stderr = "banner" THEN text ELSE stderr

\* The namespaces and mounts are set up and the candidate starts, or not.
BwrapStarts ==
  /\ outer = "bwrap"
  /\ \/ /\ outer' = "candidate" /\ main' = "running"
        /\ UNCHANGED <<code, stderr, written>>
     \/ /\ Exit("1")
        /\ written < MaxOutput /\ written' = written + 1
        /\ stderr' = After("banner_bwrap")
        /\ UNCHANGED main
  /\ UNCHANGED <<controller, limits, helper, got, deadline>>

\* The candidate, or what it left behind, writes to stdout or stderr.
CandidateWrites ==
  /\ Inside
  /\ written < MaxOutput /\ written' = written + 1
  /\ stderr' \in {stderr, After("banner_text"), After("banner_bwrap")}
  /\ UNCHANGED <<controller, outer, limits, code, main, helper, got, deadline>>

CandidateSpawns ==
  /\ main = "running" /\ helper = "none"
  /\ helper' = "running"
  /\ UNCHANGED <<controller, outer, limits, code, main, stderr, written, got, deadline>>

HelperExits ==
  /\ helper = "running"
  /\ helper' = "none"
  /\ UNCHANGED <<controller, outer, limits, code, main, stderr, written, got, deadline>>

\* Bubblewrap passes the exit code of the candidate on.
CandidateExits ==
  /\ outer = "candidate" /\ main = "running"
  /\ \E c \in {"0", "1"} : main' = c /\ Exit(c)
  /\ UNCHANGED <<controller, limits, helper, stderr, written, got, deadline>>

\* The kernel kills the whole cgroup when its memory runs out.
OutOfMemory ==
  /\ limits = "applied" /\ outer \in {"bwrap", "candidate"}
  /\ outer' = "killed" /\ code' = "-9"
  /\ main' = IF main = "running" THEN "-9" ELSE main
  /\ helper' = "none"
  /\ UNCHANGED <<controller, limits, stderr, written, got, deadline>>

\* The PID namespace goes down with the Bubblewrap process.
Teardown ==
  /\ outer \in Ended \cup {"exiting"} /\ Inside
  /\ main' = IF main = "running" THEN "-9" ELSE main
  /\ helper' = "none"
  /\ UNCHANGED <<controller, outer, limits, code, stderr, written, got, deadline>>

\* The process that ended becomes one that can be waited for.
Zombie ==
  /\ outer = "exiting"
  /\ outer' = "exited"
  /\ UNCHANGED <<controller, limits, code, main, helper, stderr, written, got, deadline>>

-----------------------------------------------------------------------------
\* apex/_rsi_sandbox.py

\* A missing program or directory, or Popen fails.
Refuse ==
  /\ controller = "idle"
  /\ controller' = "failed"
  /\ UNCHANGED <<outer, limits, code, main, helper, stderr, written, got, deadline>>

Launch ==
  /\ controller = "idle"
  /\ controller' = "reading" /\ outer' = "launch"
  /\ UNCHANGED <<limits, code, main, helper, stderr, written, got, deadline>>

\* MUTANT of ReadSize: at the limit os.read is asked for nothing, which looks
\* like the end of the stream.
ReadSizeExact == Limit - got

\* MUTANT of ReadSize: a read is not bounded by what the limit leaves.
ReadSizeFixed == MaxOutput

\* min(65536, limit - total + 1)
ReadSize == Limit + 1 - got

\* No process holds the pipes any more, and they are empty; os.read also returns
\* nothing when nothing is asked for.
AtEnd ==
  \/ outer \in Ended \cup {"exiting"} /\ ~Inside /\ got = written
  \/ ReadSize = 0

Read ==
  /\ controller = "reading"
  /\ \E n \in 1..ReadSize :
       /\ n <= written - got
       /\ got' = got + n
       /\ controller' = IF got' > Limit THEN "killing" ELSE "reading"
  /\ UNCHANGED <<outer, limits, code, main, helper, stderr, written, deadline>>

EndOfOutput ==
  /\ controller = "reading" /\ AtEnd
  /\ controller' = "waiting"
  /\ UNCHANGED <<outer, limits, code, main, helper, stderr, written, got, deadline>>

\* MUTANT of TimeOut: the deadline bounds only the wait for the exit code.
TimeOutWaiting ==
  /\ controller = "waiting" /\ deadline = "passed" /\ outer \notin Ended
  /\ controller' = "killing"
  /\ UNCHANGED <<outer, limits, code, main, helper, stderr, written, got, deadline>>

\* TimeoutExpired: in the reading loop, or of process.wait.
TimeOut ==
  /\ controller = "reading" \/ (controller = "waiting" /\ outer \notin Ended)
  /\ deadline = "passed"
  /\ controller' = "killing"
  /\ UNCHANGED <<outer, limits, code, main, helper, stderr, written, got, deadline>>

\* Any other exception, KeyboardInterrupt among them.
Interrupted ==
  /\ controller \in {"reading", "waiting"}
  /\ controller' = "killing"
  /\ UNCHANGED <<outer, limits, code, main, helper, stderr, written, got, deadline>>

\* MUTANT of KillGroup: only the wait is given up.
KillGroupNot ==
  /\ controller = "killing"
  /\ controller' = "reaping"
  /\ UNCHANGED <<outer, limits, code, main, helper, stderr, written, got, deadline>>

\* os.killpg(process.pid, SIGKILL)
KillGroup ==
  /\ controller = "killing"
  /\ controller' = "reaping"
  /\ IF outer \in Ended \cup {"exiting"}
     THEN UNCHANGED <<outer, code>>
     ELSE outer' = "killed" /\ code' = "-9"
  /\ UNCHANGED <<limits, main, helper, stderr, written, got, deadline>>

\* process.wait(), and the exception goes on.
Reap ==
  /\ controller = "reaping" /\ outer \in Ended
  /\ controller' = "failed"
  /\ UNCHANGED <<outer, limits, code, main, helper, stderr, written, got, deadline>>

\* MUTANT of Isolated: the exit code alone decides.
IsolatedByCode == code # "125"

\* The checks behind process.wait.
Isolated ==
  /\ stderr \in {"banner", "banner_text", "banner_bwrap"}
  /\ ~(code # "0" /\ stderr = "banner_bwrap")

Return ==
  /\ controller = "waiting" /\ outer \in Ended
  /\ controller' = IF Isolated THEN "result" ELSE "failed"
  /\ UNCHANGED <<outer, limits, code, main, helper, stderr, written, got, deadline>>

\* The controller is killed, at any time; who asked for it dies with it.
ControllerDies ==
  /\ controller \notin {"idle", "result", "failed", "dead"}
  /\ controller' = "dead"
  /\ IF Armed THEN outer' = "killed" /\ code' = "-9" ELSE UNCHANGED <<outer, code>>
  /\ UNCHANGED <<limits, main, helper, stderr, written, got, deadline>>

DeadlinePasses ==
  /\ controller # "idle" /\ deadline = "ahead"
  /\ deadline' = "passed"
  /\ UNCHANGED <<controller, outer, limits, code, main, helper, stderr, written, got>>

-----------------------------------------------------------------------------

Init ==
  /\ controller = "idle" /\ outer = "none" /\ limits = "missing"
  /\ code = "none" /\ main = "none" /\ helper = "none"
  /\ stderr = "nothing" /\ written = 0 /\ got = 0 /\ deadline = "ahead"

\* What run() does by itself, while its process lives.
Controller == Read \/ EndOfOutput \/ TimeOut \/ KillGroup \/ Reap \/ Return

\* What the kernel does by itself.
Kernel == Teardown \/ Zombie \/ DeadlinePasses

\* What the process that is started does before it depends on others.
Startup == LaunchChecksParent \/ Arm \/ EnterScope

Candidate == CandidateWrites \/ CandidateSpawns \/ HelperExits \/ CandidateExits

Next ==
  \/ Refuse \/ Launch \/ Controller \/ Interrupted \/ ControllerDies
  \/ Startup \/ ScopeStarts \/ Verify \/ BwrapStarts
  \/ Candidate \/ OutOfMemory \/ Kernel

Spec == Init /\ [][Next]_vars

\* Nothing is assumed of systemd-run, the verifier, Bubblewrap or the candidate.
Fairness ==
  /\ WF_vars(Read \/ EndOfOutput \/ Return) /\ WF_vars(TimeOut)
  /\ WF_vars(KillGroup) /\ WF_vars(Reap)
  /\ WF_vars(Teardown) /\ WF_vars(Zombie) /\ WF_vars(DeadlinePasses)
  /\ WF_vars(Startup)

FairSpec == Spec /\ Fairness

-----------------------------------------------------------------------------
\* Properties

\* However the death of the controller falls between the checks and prctl, no
\* candidate outlives it: the process it leaves has not passed its second
\* check, or is gone, and takes the PID namespace along.
Tethered ==
  controller = "dead" =>
    /\ outer \in {"launch", "checked", "armed", "exiting"} \cup Ended
    /\ Inside => outer \in Ended \cup {"exiting"}

\* An evaluation that gives a result gives all of the output, within the limit,
\* of processes that have all ended; and exit code 0 is the candidate's own (a
\* code other than 0 need not be: 125 may be that of the verifier).
ResultIsWhole ==
  controller = "result" =>
    /\ got = written /\ got <= Limit
    /\ ~Inside /\ limits = "applied"
    /\ code = "0" => main = "0"

\* An evaluation ends and nothing of it survives, also one of a candidate that
\* never exits, that leaves processes behind which hold the pipes, or whose
\* start-up hangs; and if the controller is killed, its candidate goes too.
EvaluationEnds ==
  controller = "reading" ~>
    controller \in {"result", "failed", "dead"} /\ outer \in Ended /\ ~Inside

=============================================================================
