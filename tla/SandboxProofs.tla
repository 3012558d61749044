--------------------------- MODULE SandboxProofs ---------------------------
(***************************************************************************)
(* Sandbox: an inductive invariant, for every output limit, and what       *)
(* follows from it.                                                        *)
(***************************************************************************)
EXTENDS Sandbox, TLAPS

Early == outer \in {"none", "launch", "checked", "armed", "scope", "verify"}
Bannered == stderr \in {"banner", "banner_text", "banner_bwrap"}

\* Before Bubblewrap there is no candidate and no banner; from then on the
\* limits are enforced.
StagesOK ==
  /\ Early => main = "none" /\ helper = "none" /\ ~Bannered
  /\ outer = "bwrap" => main = "none" /\ helper = "none" /\ limits = "applied"
  /\ outer = "candidate" => main = "running"
  /\ Inside \/ Bannered => limits = "applied"
  /\ code = "0" => main = "0"

\* What the controller has read, and the process it reads from.
ReadingOK ==
  /\ got <= written
  /\ controller \in {"idle", "reading", "waiting", "result"} => got <= Limit
  /\ controller = "idle" => outer = "none"
  /\ controller \in {"reading", "killing", "reaping"} => outer # "none"
  /\ controller \in {"waiting", "result"} =>
       got = written /\ ~Inside /\ outer \in Ended \cup {"exiting"}
  /\ controller = "result" => limits = "applied"

SandboxInv == TypeOK /\ StagesOK /\ ReadingOK /\ Tethered

LEMMA SandboxInit == Init => SandboxInv
BY SandboxAssumption
DEF Init, SandboxInv, TypeOK, StagesOK, ReadingOK, Tethered, Early, Bannered, Inside, Ended, Stages

\* The process that is started, up to Bubblewrap.
LEMMA StartupKeeps ==
  SandboxInv /\ (Startup \/ ScopeStarts \/ Verify \/ BwrapStarts) => SandboxInv'
<1> SUFFICES ASSUME SandboxInv, Startup \/ ScopeStarts \/ Verify \/ BwrapStarts
             PROVE  SandboxInv'
  OBVIOUS
<1> USE SandboxAssumption
    DEF SandboxInv, TypeOK, StagesOK, ReadingOK, Tethered, Early, Bannered, Inside, Ended, Stages
<1>1. CASE LaunchChecksParent
  BY <1>1 DEF LaunchChecksParent, Fail, Exit
<1>2. CASE Arm
  BY <1>2 DEF Arm
<1>3. CASE EnterScope
  BY <1>3 DEF EnterScope, StillParent, Fail, Exit
<1>4. CASE ScopeStarts
  BY <1>4 DEF ScopeStarts, Fail, Exit
<1>5. CASE Verify
  BY <1>5 DEF Verify, Verified, Fail, Exit
<1>6. CASE BwrapStarts
  BY <1>6 DEF BwrapStarts, After, Exit
<1> QED
  BY <1>1, <1>2, <1>3, <1>4, <1>5, <1>6 DEF Startup

\* The candidate and the kernel.
LEMMA InsideKeeps ==
  SandboxInv /\ (Candidate \/ OutOfMemory \/ Kernel) => SandboxInv'
<1> SUFFICES ASSUME SandboxInv, Candidate \/ OutOfMemory \/ Kernel
             PROVE  SandboxInv'
  OBVIOUS
<1> USE SandboxAssumption
    DEF SandboxInv, TypeOK, StagesOK, ReadingOK, Tethered, Early, Bannered, Inside, Ended, Stages
<1>1. CASE CandidateWrites
  BY <1>1 DEF CandidateWrites, After
<1>2. CASE CandidateSpawns
  BY <1>2 DEF CandidateSpawns
<1>3. CASE HelperExits
  BY <1>3 DEF HelperExits
<1>4. CASE CandidateExits
  BY <1>4 DEF CandidateExits, Exit
<1>5. CASE OutOfMemory
  BY <1>5 DEF OutOfMemory
<1>6. CASE Teardown
  BY <1>6 DEF Teardown
<1>7. CASE Zombie
  BY <1>7 DEF Zombie
<1>8. CASE DeadlinePasses
  BY <1>8 DEF DeadlinePasses
<1> QED
  BY <1>1, <1>2, <1>3, <1>4, <1>5, <1>6, <1>7, <1>8 DEF Candidate, Kernel

\* run(), and what ends it.
LEMMA ControllerKeeps ==
  SandboxInv /\ (Refuse \/ Launch \/ Controller \/ Interrupted \/ ControllerDies) => SandboxInv'
<1> SUFFICES ASSUME SandboxInv, Refuse \/ Launch \/ Controller \/ Interrupted \/ ControllerDies
             PROVE  SandboxInv'
  OBVIOUS
<1> USE SandboxAssumption
    DEF SandboxInv, TypeOK, StagesOK, ReadingOK, Tethered, Early, Bannered, Inside, Ended, Stages
<1>1. CASE Refuse \/ Launch
  BY <1>1 DEF Refuse, Launch
<1>2. CASE Read
  BY <1>2 DEF Read, ReadSize
<1>3. CASE EndOfOutput
  BY <1>3 DEF EndOfOutput, AtEnd, ReadSize
<1>4. CASE TimeOut \/ Interrupted
  BY <1>4 DEF TimeOut, Interrupted
<1>5. CASE KillGroup
  BY <1>5 DEF KillGroup
<1>6. CASE Reap
  BY <1>6 DEF Reap
<1>7. CASE Return
  BY <1>7 DEF Return, Isolated
<1>8. CASE ControllerDies
  BY <1>8 DEF ControllerDies, Armed
<1> QED
  BY <1>1, <1>2, <1>3, <1>4, <1>5, <1>6, <1>7, <1>8 DEF Controller

LEMMA SandboxNext == SandboxInv /\ [Next]_vars => SandboxInv'
<1>1. SandboxInv /\ UNCHANGED vars => SandboxInv'
  BY DEF vars, SandboxInv, TypeOK, StagesOK, ReadingOK, Tethered, Early, Bannered, Inside
<1> QED
  BY <1>1, StartupKeeps, InsideKeeps, ControllerKeeps DEF Next

\* The invariant holds in every reachable state.
LEMMA SandboxInvariant == Spec => []SandboxInv
BY SandboxInit, SandboxNext, PTL DEF Spec

\* Types, and the bound on what run() buffers, for every limit.
THEOREM SandboxTyped == Spec => []TypeOK
<1>1. SandboxInv => TypeOK
  BY DEF SandboxInv
<1> QED
  BY <1>1, SandboxInvariant, PTL

\* No candidate outlives its controller.
THEOREM TetheredHolds == Spec => []Tethered
<1>1. SandboxInv => Tethered
  BY DEF SandboxInv
<1> QED
  BY <1>1, SandboxInvariant, PTL

\* A result has the whole output, within the limit, and the candidate's exit code.
THEOREM ResultIsWholeHolds == Spec => []ResultIsWhole
<1>1. SandboxInv => ResultIsWhole
  BY DEF SandboxInv, ReadingOK, StagesOK, ResultIsWhole
<1> QED
  BY <1>1, SandboxInvariant, PTL

=============================================================================
