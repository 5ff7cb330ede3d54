------------------------------ MODULE FixLoop ------------------------------
(***************************************************************************)
(* The fix stage (core/agents/fix-loop/orchestrator.ts, runFixV2): a        *)
(* bounded loop of an investigator, a planner and an executor, an audit of  *)
(* what the executor did, a repair loop when only the repro test fails, and *)
(* one advisory critic.  The executor's tools act on three copies of the    *)
(* code: the working tree, its HEAD and the branch on GitHub.  With the     *)
(* local driver the sandbox runs the working tree, with the GitHub Actions  *)
(* driver it runs the branch.                                               *)
(*                                                                         *)
(* The code is the set of files whose content differs from the baseline.    *)
(* The language model is free: it may call any tool, in any order.          *)
(***************************************************************************)
EXTENDS ToolRegistry, Descent

CONSTANTS
  Tests,         \* files under a test root: write_test, revise_test
  New,           \* those of them that the repository does not have yet
  InScope,       \* files evaluateScope allows; the plans agree on them
  Vetoed,        \* dependency and license files
  Secret,        \* files whose edit looks like a credential
  ReproGreen,    \* the codes on which the repro test passes
  TestsGreen,    \* the codes on which the test suite passes
  Drivers,       \* sandbox drivers to consider
  MaxIterations,
  TokenRounds,   \* token budget, in allocations of one iteration
  MaxRepairs     \* MAX_FIX_REPAIR_ROUNDS

ASSUME FixAssumption ==
  /\ Tool = {"apply_patch", "revert_file", "write_test", "commit_and_push",
             "run_repro", "run_tests", "done", "abandon"}
  /\ New \subseteq Tests /\ Tests \subseteq File
  /\ InScope \subseteq File /\ Tests \subseteq InScope
  /\ Vetoed \subseteq File /\ Secret \subseteq File
  /\ ReproGreen \subseteq SUBSET File /\ TestsGreen \subseteq SUBSET File
  /\ Drivers \subseteq {"local", "gha"}
  /\ MaxIterations \in Nat /\ TokenRounds \in Nat /\ MaxRepairs \in Nat

VARIABLES
  driver,
  worktree, head, remote,  \* the code in the working tree, at HEAD, on GitHub
  commits,                 \* HEAD, as the number of commits since iterationStartHead
  audit,                   \* what is read in the executor's transcript
  iteration,
  startCode,               \* history: working tree and HEAD as the iteration began
  stage,
  round, additionalChangedFiles,  \* of the repair loop
  winner,                  \* files the winning iteration changed
  status

code == <<worktree, head, remote, commits>>
begun == <<driver, startCode>>
repair == <<round, additionalChangedFiles>>
vars == <<registry, audit, begun, code, iteration, stage, repair, winner, status>>

Sandbox == {"run_repro", "run_tests"}
Mutations == {"apply_patch", "revert_file", "write_test"}  \* write_test or revise_test
FixTools == Mutations \cup Sandbox \cup {"commit_and_push", "done", "abandon"}

\* The successful entries of the transcript as far as a gate or the audit tells
\* them apart: the turn of the last mutation and of the last green run of each
\* kind (-1: none), whether the last patch is followed by a push, whether the
\* sandbox ran, the files changed and the commits pushed.
Entries == [mutation : Int, green : [Sandbox -> Int], patch : {"none", "made", "pushed"},
            ran : BOOLEAN, changed : SUBSET File, pushed : SUBSET Nat]
NoEntries == [mutation |-> -1, green |-> [t \in Sandbox |-> -1], patch |-> "none",
              ran |-> FALSE, changed |-> {}, pushed |-> {}]

TypeOK ==
  /\ TypeOKRegistry
  /\ driver \in Drivers
  /\ worktree \subseteq File /\ head \subseteq File /\ remote \subseteq File
  /\ commits \in Nat
  /\ audit \in Entries
  /\ iteration \in Nat
  /\ startCode \subseteq File
  /\ stage \in {"start", "plan", "execute", "repair", "critic", "over"}
  /\ round \in Nat
  /\ additionalChangedFiles \subseteq File /\ winner \subseteq File
  /\ status \in {"running", "fix_failed", "fix_approved", "critic_rejected",
                 "head_drift", "thrown"}

Init ==
  /\ RegistryInit
  /\ driver \in Drivers
  /\ worktree = {} /\ head = {} /\ remote = {}
  /\ commits = 0
  /\ audit = NoEntries
  /\ iteration = 1
  /\ startCode = {}
  /\ stage = "start"
  /\ round = 0 /\ additionalChangedFiles = {} /\ winner = {}
  /\ status = "running"

-----------------------------------------------------------------------------
(* The tools of the executor.                                              *)

CallOf(tool, file, step, ok) ==
  [tool |-> tool, file |-> file, stage |-> step, ok |-> ok, green |-> FALSE, sha |-> 0]

\* The entry a call leaves, and the end of the call.
Record(s, call) ==
  /\ Finish(s, call.tool)
  /\ audit' =
       IF ~call.ok THEN audit ELSE
       [mutation |-> IF call.tool \in Mutations THEN turn ELSE audit.mutation,
        green |-> [t \in Sandbox |->
                     IF call.tool = t /\ call.green THEN turn ELSE audit.green[t]],
        patch |-> IF call.tool = "apply_patch" THEN "made"
                  ELSE IF call.tool = "commit_and_push" /\ audit.patch = "made" THEN "pushed"
                  ELSE audit.patch,
        ran |-> audit.ran \/ call.tool \in Sandbox,
        changed |-> IF call.tool \in Mutations \ {"revert_file"}
                    THEN audit.changed \cup {call.file} ELSE audit.changed,
        pushed |-> IF call.tool = "commit_and_push"
                   THEN audit.pushed \cup {call.sha} ELSE audit.pushed]

RequireCommitBeforeSandbox == audit.patch # "made"
AbandonGate == audit.patch # "none" /\ audit.pushed # {} /\ audit.ran

\* Of two patches to a file the second may find the hypothesis consumed: the
\* file has changed and the call fails.
HypothesisTaken(f) ==
  \E s \in Slot : /\ inFlight[s] # Idle
                 /\ inFlight[s].tool = "apply_patch" /\ inFlight[s].file = f
                 /\ inFlight[s].ok

\* An edit may restore the content of the baseline, but no tool deletes a file.
Edited(f) == {worktree \cup {f}} \cup {worktree \ {g} : g \in {f} \ New}

\* The gate, the search and the write are synchronous: the tree changes as the
\* call is dispatched.  A call that the gate or the scope refuses or whose
\* oldText is not found changes nothing and is not ok.
ApplyPatch(s, f) ==
  \E ok \in BOOLEAN, new \in {worktree} \cup Edited(f) :
    /\ f \in New => f \in worktree
    /\ ok \/ new = worktree \/ HypothesisTaken(f)
    /\ Dispatch(s, CallOf("apply_patch", f, "end", ok))
    /\ worktree' = new
    /\ UNCHANGED <<head, remote, commits, audit>>

WriteTest(s, f) ==
  \E new \in Edited(f) :
    /\ f \in Tests
    /\ Dispatch(s, CallOf("write_test", f, "end", TRUE))
    /\ worktree' = new
    /\ UNCHANGED <<head, remote, commits, audit>>

\* The tools that wait: for git, for the sandbox.
Start(s, tool, file) ==
  /\ tool \in Sandbox => RequireCommitBeforeSandbox
  /\ Dispatch(s, CallOf(tool, file, "run", TRUE))
  /\ UNCHANGED <<code, audit>>

Terminal(s, tool) ==
  /\ tool = "abandon" => AbandonGate
  /\ Dispatch(s, CallOf(tool, NoFile, "end", TRUE))
  /\ UNCHANGED <<code, audit>>

\* `git checkout HEAD -- file`, whose exit code is ignored: an untracked file
\* stays as it is.
RevertFile(s, call) ==
  /\ call.stage = "run" /\ call.tool = "revert_file"
  /\ worktree' = IF call.file \in New THEN worktree
                 ELSE (worktree \ {call.file}) \cup (head \cap {call.file})
  /\ Record(s, [call EXCEPT !.ok = TRUE])
  /\ UNCHANGED <<head, remote, commits>>

\* `git diff --name-only HEAD`: an untracked file is not listed.
Uncommitted == {f \in File \ New : (f \in worktree) # (f \in head)}

Commit(s, call) ==
  /\ call.stage = "run" /\ call.tool = "commit_and_push"
  /\ Uncommitted # {}
  /\ head' = worktree \ New
  /\ commits' = commits + 1
  /\ Progress(s, [call EXCEPT !.stage = "push", !.sha = commits + 1])
  /\ UNCHANGED <<worktree, remote, audit>>

NothingToCommit(s, call) ==
  /\ call.stage = "run" /\ call.tool = "commit_and_push"
  /\ Uncommitted = {}
  /\ Record(s, [call EXCEPT !.ok = FALSE])
  /\ UNCHANGED code

\* A push that is refused leaves the commit.
Push(s, call) ==
  \E ok \in BOOLEAN :
    /\ call.stage = "push" /\ call.tool = "commit_and_push"
    /\ Record(s, [call EXCEPT !.ok = ok])
    /\ remote' = IF ok THEN head ELSE remote
    /\ UNCHANGED <<worktree, head, commits>>

SandboxCode == IF driver = "local" THEN worktree ELSE remote
GreenCodes(tool) == IF tool = "run_repro" THEN ReproGreen ELSE TestsGreen

\* A dispatch that fails is not ok, whatever the code.
RunSandbox(s, call) ==
  \E ok \in BOOLEAN :
    /\ call.stage = "run" /\ call.tool \in Sandbox
    /\ Record(s, [call EXCEPT !.ok = ok, !.green = SandboxCode \in GreenCodes(call.tool)])
    /\ UNCHANGED code

Work(s) ==
  LET call == inFlight[s] IN
  /\ call # Idle
  /\ \/ RevertFile(s, call)
     \/ Commit(s, call) \/ NothingToCommit(s, call) \/ Push(s, call)
     \/ RunSandbox(s, call)
     \/ call.stage = "end" /\ Record(s, call) /\ UNCHANGED code

\* An error of the model that is retried goes on with the same registry: no step.
Executor ==
  /\ stage = "execute"
  /\ \/ \E s \in Slot, f \in File :
          ApplyPatch(s, f) \/ WriteTest(s, f) \/ Start(s, "revert_file", f)
     \/ \E s \in Slot, tool \in Sandbox \cup {"commit_and_push"} : Start(s, tool, NoFile)
     \/ \E s \in Slot, tool \in {"done", "abandon"} : Terminal(s, tool)
     \/ \E s \in Slot : Work(s)
     \/ BeginTurn /\ UNCHANGED <<code, audit>>
  /\ UNCHANGED <<begun, iteration, stage, repair, winner, status>>

-----------------------------------------------------------------------------
(* The loop.                                                               *)

\* The registry and the transcript go with the executor that used them.
EndOfExecutor == FreshRegistry /\ audit' = NoEntries

\* Mutant of NextIteration: the iterations are not counted.
NextIterationSame ==
  /\ stage' = "start"
  /\ UNCHANGED iteration
  /\ round' = 0 /\ additionalChangedFiles' = {}
  /\ EndOfExecutor
  /\ UNCHANGED <<begun, winner, status>>

NextIteration ==
  /\ stage' = "start"
  /\ iteration' = iteration + 1
  /\ round' = 0 /\ additionalChangedFiles' = {}
  /\ EndOfExecutor
  /\ UNCHANGED <<begun, winner, status>>

Win(files) ==
  /\ stage' = "critic"
  /\ winner' = files
  /\ EndOfExecutor
  /\ UNCHANGED <<begun, iteration, repair, status>>

Begin ==
  /\ stage = "start"
  /\ iteration <= MaxIterations /\ iteration <= TokenRounds
  /\ stage' = "plan"
  /\ commits' = 0
  /\ startCode' = worktree \cup head
  /\ UNCHANGED <<worktree, head, remote>>
  /\ UNCHANGED <<registry, audit, driver, iteration, repair, winner, status>>

OutOfIterations ==
  /\ stage = "start"
  /\ iteration > MaxIterations \/ iteration > TokenRounds
  /\ stage' = "over"
  /\ status' = "fix_failed"
  /\ UNCHANGED <<registry, audit, begun, code, iteration, repair, winner>>

\* Investigator and planner: both read, neither changes the code.
Planned ==
  /\ stage = "plan"
  /\ stage' = "execute"
  /\ UNCHANGED <<registry, audit, begun, code, iteration, repair, winner, status>>

NoNotesOrPlan ==
  /\ stage = "plan"
  /\ NextIteration
  /\ UNCHANGED code

\* The model stops without `done`, the turns are used up, or the provider fails
\* for good, be it after `done`.
ExecutorFailed ==
  /\ stage = "execute" /\ Quiet
  /\ NextIteration
  /\ UNCHANGED code

\* Mutant of GreenEvidence: a run in the turn of the last mutation counts.
GreenEvidenceSameTurn(tool) == audit.green[tool] >= audit.mutation

\* computeGreenEvidence: green after the turn of the last mutation.
GreenEvidence(tool) == audit.green[tool] > audit.mutation

NoHeadDrift == commits = 0 \/ commits \in audit.pushed
ScopeOk(files) == files \subseteq InScope

PromisePassed ==
  GreenEvidence("run_repro") /\ GreenEvidence("run_tests") /\ NoHeadDrift /\ ScopeOk(audit.changed)
Repairable == ~GreenEvidence("run_repro") /\ audit.changed # {}

ExecutorDone ==
  /\ stage = "execute" /\ Quiet /\ terminated = "done"
  /\ \/ PromisePassed /\ Win(audit.changed)
     \/ /\ Repairable
        /\ stage' = "repair"
        /\ UNCHANGED <<registry, audit, begun, iteration, repair, winner, status>>
     \/ ~PromisePassed /\ ~Repairable /\ NextIteration
  /\ UNCHANGED code

\* A round of the repair agent: it rewrites files of the working tree.
Rewrite(files) ==
  /\ files # {} /\ files \cap New \subseteq worktree
  /\ \E new \in SUBSET files :
       files \cap New \subseteq new /\ worktree' = (worktree \ files) \cup new
  /\ UNCHANGED <<head, remote, commits, driver>>

StillRed(files) ==
  /\ SandboxCode' \notin ReproGreen
  /\ round' = round + 1
  /\ additionalChangedFiles' = additionalChangedFiles \cup files
  /\ UNCHANGED <<registry, audit, begun, iteration, stage, winner, status>>

RepairWins(all) == SandboxCode' \in TestsGreen /\ NoHeadDrift /\ ScopeOk(all)

\* Mutant of RepairedGreen: scope is evaluated on the executor's files only.
RepairedGreenUnscoped(files) ==
  /\ SandboxCode' \in ReproGreen
  /\ \/ RepairWins(audit.changed) /\ Win(audit.changed)
     \/ ~RepairWins(audit.changed) /\ NextIteration

RepairedGreen(files) ==
  LET all == audit.changed \cup additionalChangedFiles \cup files IN
  /\ SandboxCode' \in ReproGreen
  /\ \/ RepairWins(all) /\ Win(all)
     \/ ~RepairWins(all) /\ NextIteration

RepairRound ==
  /\ stage = "repair" /\ round < MaxRepairs
  /\ \E files \in SUBSET File :
       Rewrite(files) /\ (StillRed(files) \/ RepairedGreen(files))

\* Abandoned, out of rounds, or nothing to rewrite.
RepairGivesUp ==
  /\ stage = "repair"
  /\ NextIteration
  /\ UNCHANGED code

\* A rewrite out of the module or a failed dispatch: no handler in the stage.
RepairThrows ==
  /\ stage = "repair" /\ round < MaxRepairs
  /\ stage' = "over"
  /\ status' = "thrown"
  /\ EndOfExecutor
  /\ \E files \in SUBSET File : Rewrite(files)
  /\ UNCHANGED <<begun, iteration, repair, winner>>

StructuralVeto == winner \cap Vetoed # {} \/ Uncommitted \cap worktree \cap Secret # {}

\* The critic's verdict is advisory, but a sha it approves must be HEAD.
Verdict ==
  /\ stage = "critic"
  /\ stage' = "over"
  /\ \/ status' = "head_drift"
     \/ status' = "critic_rejected"  \* a veto, or the diff could not be read
     \/ ~StructuralVeto /\ status' = "fix_approved"
  /\ UNCHANGED <<registry, audit, begun, code, iteration, repair, winner>>

Next ==
  \/ Begin \/ OutOfIterations \/ Planned \/ NoNotesOrPlan
  \/ Executor \/ ExecutorFailed \/ ExecutorDone
  \/ RepairRound \/ RepairGivesUp \/ RepairThrows
  \/ Verdict

\* A call to a language model, a sandbox or git ends, with a result or an
\* error: each is made with a timeout.
Spec == Init /\ [][Next]_vars /\ WF_vars(Next)

-----------------------------------------------------------------------------

\* The finished code is what passed (computeGreenEvidence's comment): where
\* the sandbox runs the working tree, an approved fix is a working tree on
\* which both the repro test and the suite pass, however the calls of a turn
\* interleave and whether the executor or the repair loop finished it.
GreenIsCurrent ==
  status = "fix_approved" /\ driver = "local" =>
    worktree \in ReproGreen /\ worktree \in TestsGreen

\* scope_ok, as far as it reaches: the iteration that wins adds no edit outside
\* the agreed scope, be it the executor's or the repair agent's.
NothingNewOutOfScope ==
  status = "fix_approved" => worktree \ startCode \subseteq InScope

\* What the stage may still do: iterations, stages of one, rounds of repair, turns
\* of the executor, and the steps of the calls of a turn, of which none begins
\* once one has finished.
StagesLeft == [start |-> 4, plan |-> 3, execute |-> 2, repair |-> 1, critic |-> 0, over |-> 0]
IterationsLeft ==
  <<IF stage = "over" THEN 0 ELSE 1, MaxIterations + 1 - iteration, StagesLeft[stage],
    MaxRepairs - round, MaxTurns - turn, IF currentTurnCalls THEN 0 ELSE 1>>
StepsLeft(s) ==
  IF inFlight[s] = Idle THEN (IF currentTurnCalls THEN 0 ELSE 3)
  ELSE IF inFlight[s].stage = "run" THEN 2 ELSE 1
CallsGoOn ==
  /\ \A s \in Slot : StepsLeft(s)' <= StepsLeft(s)
  /\ \E s \in Slot : StepsLeft(s)' < StepsLeft(s)

\* No failure, retry or repair gives the stage back what it has used up: nothing
\* but a new turn lets the model call again, nothing but a new iteration takes
\* the stage back, and there are finitely many of each.
NoIterationForFree ==
  [][\/ Below(IterationsLeft', IterationsLeft)
     \/ IterationsLeft' = IterationsLeft /\ CallsGoOn]_vars

\* The loop is bounded: the stage comes to a verdict.
Decides == <>(status # "running")
=============================================================================
