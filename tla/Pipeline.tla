------------------------------ MODULE Pipeline ------------------------------
(***************************************************************************)
(* The pipeline of an issue (bin/run-pipeline.ts, runPipelineImpl), from    *)
(* the trigger to the draft pull request, and what it does to three copies  *)
(* of the code: the working directory of the issue (local-workspace.ts),    *)
(* its branch on the fork, and the pull request opened from that branch.    *)
(*                                                                         *)
(* The claim of RunClaim keeps the pipelines of an issue apart, so there is *)
(* one at a time; but they share directory and branch, and two activities   *)
(* outlive their pipeline and go on there: a reproduction that timed out    *)
(* and the watcher of a pull request's checks.                              *)
(*                                                                         *)
(* OSA_FIX_ONLY, a debugging mode without a reproduction, is left out.      *)
(***************************************************************************)
EXTENDS Integers, FiniteSets

CONSTANTS
  Configs,      \* deployments: mail configured, sandbox_runner gha, foreign upstream
  MaxRuns,
  MaxUpstream,  \* bounds the versions of upstream's default branch
  MaxRounds,    \* rounds of a reproduction
  MaxRetries    \* manifest.max_retries

ASSUME PipelineAssumption ==
  /\ Configs \subseteq [live : BOOLEAN, gha : BOOLEAN, upstreamPr : BOOLEAN]
  /\ MaxRuns \in Nat /\ MaxUpstream \in Nat /\ MaxRounds \in Nat
  /\ MaxRetries \in Nat \ {0}

VARIABLES
  conf,      \* the deployment
  upstream,  \* version of upstream's default branch
  remote,    \* the branch on the fork
  ws,        \* the working directory
  stage,
  run,       \* what the pipeline knows of itself
  pr,        \* its pull request, as it was opened
  prOpen,    \* whether a pull request from the branch is open
  zombies,   \* pipelines whose reproduction timed out and goes on
  watchers   \* pipelines whose pull request is being watched

vars == <<conf, upstream, remote, ws, stage, run, pr, prOpen, zombies, watchers>>
background == <<zombies, watchers>>

\* What a pipeline may add to the code: the workflows it installs, the repro
\* test, other files of its repro and sandbox runs, a tracked edit of the fix
\* that is committed, one that is not, a new test file, generated code, docs
\* and the watcher's lint.
Kinds == {"workflows", "repro", "scratch", "fix", "repair", "test", "build", "docs", "lint"}
FixKinds == {"fix", "repair", "test"}
Edits == Kinds \X (1 .. MaxRuns)
Own(kinds) == kinds \X {run.n}

\* A tree sits on a version of upstream, takes every file nobody edited from a
\* version, and has edits.
Trees == [onto : 0 .. MaxUpstream, files : 0 .. MaxUpstream, edits : SUBSET Edits]
TreeAt(v) == [onto |-> v, files |-> v, edits |-> {}]
With(tree, edits) == [tree EXCEPT !.edits = @ \cup edits]

NoTree == [onto |-> -1, files |-> -1, edits |-> {}]
NoPr == [run |-> 0, route |-> "none", tree |-> NoTree, passed |-> {},
         verified |-> NoTree, alone |-> FALSE]
NoRun == [n |-> 0, route |-> "none", pm |-> FALSE, rounds |-> 0, failures |-> 0,
          passed |-> {}, verified |-> NoTree, alone |-> FALSE, told |-> FALSE,
          result |-> "none"]

Routes == {"docs", "feature", "bug"}
\* haltAndEmail's statuses are one, "halted".
Results == {"none", "commented", "skipped", "halted", "max-retries-exceeded",
            "fix-failed", "pr-opened", "thrown", "killed"}
Stages == {"idle", "triage", "fork", "install", "checkout", "docs", "design", "build",
           "retry", "repro", "commit", "fix", "verify", "squash", "review", "pr"}

TypeOK ==
  /\ conf \in Configs
  /\ upstream \in 0 .. MaxUpstream
  /\ remote \in Trees \cup {NoTree}
  /\ ws \in [head : Trees \cup {NoTree}, dirty : SUBSET Edits, loose : SUBSET Edits,
             seen : BOOLEAN, linear : BOOLEAN]
  /\ stage \in Stages
  /\ run \in [n : 0 .. MaxRuns, route : Routes \cup {"none"}, pm : BOOLEAN,
              rounds : 0 .. MaxRounds, failures : 0 .. MaxRetries, passed : SUBSET Edits,
              verified : Trees \cup {NoTree}, alone : BOOLEAN, told : BOOLEAN,
              result : Results]
  /\ pr \in [run : 0 .. MaxRuns, route : Routes \cup {"none"}, tree : Trees \cup {NoTree},
             passed : SUBSET Edits, verified : Trees \cup {NoTree}, alone : BOOLEAN]
  /\ prOpen \in BOOLEAN
  /\ zombies \subseteq 1 .. MaxRuns /\ watchers \subseteq 1 .. MaxRuns

Init ==
  /\ conf \in Configs
  /\ upstream = 0
  /\ remote = NoTree
  /\ ws = [head |-> NoTree, dirty |-> {}, loose |-> {}, seen |-> FALSE, linear |-> TRUE]
  /\ stage = "idle"
  /\ run = NoRun
  /\ pr = NoPr /\ prOpen = FALSE
  /\ zombies = {} /\ watchers = {}

-----------------------------------------------------------------------------
(* The working directory.  dirty are the edits of tracked files that are in *)
(* no commit, loose the files git does not know; seen says that the branch  *)
(* is what was last fetched or pushed, linear that HEAD descends from that. *)

\* A push may always fail; it is refused unless it is a fast-forward.
Push(dir, ok) ==
  /\ ok => dir.seen /\ dir.linear
  /\ ws' = dir
  /\ remote' = IF ok THEN dir.head ELSE remote

\* --force-with-lease: refused unless the branch is as last seen; in a clone of
\* one branch, which has no tracking ref to compare with, always.
ForcePush(dir, ok) ==
  /\ ok => dir.seen
  /\ ws' = [dir EXCEPT !.linear = @ \/ ok]
  /\ remote' = IF ok THEN dir.head ELSE remote

\* commitPaths: the edits and nothing else.
CommitPaths(dir, edits) == [dir EXCEPT !.head = With(@, edits)]

\* commitAll: `git add -A`.
CommitAll(dir) ==
  [dir EXCEPT !.head = With(@, dir.dirty \cup dir.loose), !.dirty = {}, !.loose = {}]

\* resetWorkingTree: `git reset --hard`, `git clean -fd`.
Clean(dir) == [dir EXCEPT !.dirty = {}, !.loose = {}]

-----------------------------------------------------------------------------
(* Beginning and end of a pipeline.                                        *)

Goto(s) == stage' = s
Ends(result, told) ==
  /\ stage' = "idle"
  /\ run' = [NoRun EXCEPT !.n = run.n, !.result = result, !.told = told]

Trigger ==
  /\ stage = "idle" /\ run.n < MaxRuns
  /\ Goto("triage")
  /\ run' = [NoRun EXCEPT !.n = run.n + 1, !.alone = zombies = {} /\ watchers = {}]
  /\ pr' = NoPr
  /\ UNCHANGED <<conf, upstream, remote, ws, prOpen, background>>

\* The maintainer is mailed what triage has to say; a mail that fails throws.
Triage ==
  /\ stage = "triage"
  /\ \/ Ends("commented", conf.live)
     \/ \E route \in Routes, pm \in BOOLEAN :
          /\ route = "docs" => ~pm
          /\ IF pm /\ ~conf.live
             THEN Ends("skipped", FALSE)
             ELSE Goto("fork") /\ run' = [run EXCEPT !.route = route, !.pm = pm]
  /\ UNCHANGED <<conf, upstream, remote, ws, pr, prOpen, background>>

\* What the stages await may throw, but for those that catch it.  The server
\* logs it.
Throws ==
  /\ stage \in {"triage", "fork", "checkout", "docs", "design", "retry", "repro",
                "commit", "fix", "pr"}
  /\ Ends("thrown", FALSE)
  /\ UNCHANGED <<conf, upstream, remote, ws, pr, prOpen, background>>

\* The fork is synced and the branch created or reset on it.
ForkAndBranch ==
  /\ stage = "fork"
  /\ remote' = TreeAt(upstream)
  /\ ws' = [ws EXCEPT !.seen = FALSE]
  /\ Goto(IF conf.gha THEN "install" ELSE "checkout")
  /\ UNCHANGED <<conf, upstream, run, pr, prOpen, background>>

InstallWorkflows ==
  /\ stage = "install"
  /\ remote' \in {remote, With(remote, Own({"workflows"}))}
  /\ Goto("checkout")
  /\ UNCHANGED <<conf, upstream, ws, run, pr, prOpen, background>>

\* `git reset --hard origin/branch` keeps the files git does not know.
Checkout ==
  /\ stage = "checkout"
  /\ ws' = [ws EXCEPT !.head = remote, !.dirty = {}, !.seen = TRUE, !.linear = TRUE]
  /\ Goto(CASE run.route = "docs" -> "docs"
            [] run.route = "feature" -> IF run.pm THEN "design" ELSE "build"
            [] OTHER -> "repro")
  /\ UNCHANGED <<conf, upstream, remote, run, pr, prOpen, background>>

\* The mail conversations of the design and of its scope.
DesignAgreed ==
  /\ stage = "design"
  /\ Goto(IF run.route = "feature" THEN "build" ELSE "fix")
  /\ UNCHANGED <<conf, upstream, remote, ws, run, pr, prOpen, background>>

-----------------------------------------------------------------------------
(* Docs and features: generated files, committed and pushed.               *)

\* Mutant of Generated: everything in the directory is committed.
GeneratedAll(kind) == CommitAll([ws EXCEPT !.loose = @ \cup Own({kind})])

\* LocalForkCommitter.commitChanges.
Generated(kind) == CommitPaths(ws, Own({kind}))

\* Without mail there is no generator: the docs path throws.
Docs ==
  /\ stage = "docs" /\ conf.live
  /\ Push(Generated("docs"), TRUE)
  /\ Goto("squash")
  /\ UNCHANGED <<conf, upstream, run, pr, prOpen, background>>

\* Nothing generated, a failed push, or a failed eval of what was pushed, which
\* leaves files of the sandbox behind.
BuildFails ==
  /\ stage = "build"
  /\ \/ UNCHANGED <<ws, remote>>
     \/ \E ok \in BOOLEAN, loose \in SUBSET Own({"scratch"}) :
          Push([Generated("build") EXCEPT !.loose = @ \cup loose], ok)
  /\ Goto("retry")
  /\ UNCHANGED <<conf, upstream, run, pr, prOpen, background>>

BuildPasses ==
  /\ stage = "build"
  /\ \E loose \in SUBSET Own({"scratch"}) :
       Push([Generated("build") EXCEPT !.loose = @ \cup loose], TRUE)
  /\ Goto("verify")
  /\ UNCHANGED <<conf, upstream, run, pr, prOpen, background>>

\* With mail the failures are recorded.  Without, the input of the last attempt
\* is searched for the failures it quotes, and it quotes the latest alone.
FailuresKnown == IF conf.live THEN run.failures + 1 ELSE run.failures

\* handleMaxRetriesExceeded: one mail and one label, each best effort; without
\* mail a line in the log.
OutOfRetries == Ends("max-retries-exceeded", conf.live)

\* Mutant of Retry: the failure is not recorded.
RetryUnrecorded ==
  /\ stage = "retry"
  /\ IF FailuresKnown >= MaxRetries
     THEN OutOfRetries
     ELSE /\ Goto("build")
          /\ UNCHANGED run
  /\ UNCHANGED <<conf, upstream, remote, ws, pr, prOpen, background>>

Retry ==
  /\ stage = "retry"
  /\ IF FailuresKnown >= MaxRetries
     THEN OutOfRetries
     ELSE /\ Goto("build")
          /\ run' = [run EXCEPT !.failures = IF conf.live THEN @ + 1 ELSE 1]
  /\ UNCHANGED <<conf, upstream, remote, ws, pr, prOpen, background>>

-----------------------------------------------------------------------------
(* Bugs: reproduction and fix.                                             *)

\* A candidate is written; on gha the directory is flushed to the branch.
Candidate(n, ok) ==
  LET dir == [ws EXCEPT !.loose = @ \cup {<<"scratch", n>>}] IN
  IF conf.gha THEN Push(CommitAll(dir), ok) ELSE ws' = dir /\ UNCHANGED remote

ReproRound ==
  /\ stage = "repro" /\ run.rounds < MaxRounds
  /\ \E ok \in BOOLEAN : Candidate(run.n, ok)
  /\ run' = [run EXCEPT !.rounds = @ + 1]
  /\ UNCHANGED <<conf, upstream, stage, pr, prOpen, background>>

Reproduced ==
  /\ stage = "repro" /\ run.rounds > 0
  /\ Goto("commit")
  /\ UNCHANGED <<conf, upstream, remote, ws, run, pr, prOpen, background>>

\* Mutant: the run is given up without a mail.
HaltAndEmailSilent ==
  /\ ws' \in {ws, Clean(ws)}
  /\ Ends("halted", FALSE)
  /\ UNCHANGED <<conf, upstream, remote, pr, prOpen, watchers>>

\* haltAndEmail: the reset is best effort; a mail that fails is not repeated.
HaltAndEmail ==
  /\ ws' \in {ws, Clean(ws)}
  /\ Ends("halted", conf.live)
  /\ UNCHANGED <<conf, upstream, remote, pr, prOpen, watchers>>

\* Credentials, API or sandbox missing, not reproduced, fixed already.
ReproHalts ==
  /\ stage = "repro"
  /\ HaltAndEmail
  /\ UNCHANGED zombies

\* The race is lost, but nothing stops the loser.
ReproTimesOut ==
  /\ stage = "repro"
  /\ HaltAndEmail
  /\ zombies' = zombies \cup {run.n}

\* Mutant of CommitRepro: a push that fails is not noticed.
CommitReproUnpushed ==
  /\ stage = "commit"
  /\ \E ok \in BOOLEAN :
       /\ Push(CommitPaths(Clean(ws), Own({"repro"})), ok)
       /\ Goto(IF run.pm THEN "design" ELSE "fix")
       /\ UNCHANGED run
  /\ UNCHANGED <<conf, upstream, pr, prOpen, background>>

\* The test is committed alone, and pushed.
CommitRepro ==
  /\ stage = "commit"
  /\ \E ok \in BOOLEAN :
       /\ Push(CommitPaths(Clean(ws), Own({"repro"})), ok)
       /\ IF ok
          THEN Goto(IF run.pm THEN "design" ELSE "fix") /\ UNCHANGED run
          ELSE Ends("thrown", FALSE)
  /\ UNCHANGED <<conf, upstream, pr, prOpen, background>>

\* What the fix stage (FixLoop) leaves: commits, pushed or not, tracked edits
\* without a commit, as a repair makes them, and test files git does not know.
FixLeaves(made, ok) ==
  Push([ws EXCEPT !.head = With(@, made \cap Own({"fix"})),
                  !.dirty = @ \cup (made \cap Own({"repair"})),
                  !.loose = @ \cup (made \cap Own({"test"}))], ok)

\* The tests passed in the directory, or on the branch.
FixApproved ==
  /\ stage = "fix"
  /\ \E made \in SUBSET Own(FixKinds), ok \in BOOLEAN :
       /\ FixLeaves(made, ok)
       /\ run' = [run EXCEPT !.passed = IF conf.gha THEN remote'.edits \cap Own(FixKinds)
                                        ELSE made]
  /\ Goto("verify")
  /\ UNCHANGED <<conf, upstream, pr, prOpen, background>>

\* Mailed for review if HEAD has moved, as a failure if not.
FixFailed ==
  /\ stage = "fix"
  /\ \E made \in SUBSET Own(FixKinds), ok \in BOOLEAN : FixLeaves(made, ok)
  /\ Ends("max-retries-exceeded", conf.live)
  /\ UNCHANGED <<conf, upstream, pr, prOpen, background>>

-----------------------------------------------------------------------------
(* From an approved change to a pull request.                              *)

\* The gate is for gha; where the sandbox cannot be had it is open.
VerifySkipped ==
  /\ stage = "verify"
  /\ IF conf.gha THEN \E ok \in BOOLEAN : Push(CommitAll(ws), ok)
     ELSE UNCHANGED <<ws, remote>>
  /\ run' = [run EXCEPT !.verified = NoTree]
  /\ Goto("squash")
  /\ UNCHANGED <<conf, upstream, pr, prOpen, background>>

\* Mutant of VerifyPasses: the branch is tested before the flush.
VerifyPassesEarly ==
  /\ stage = "verify" /\ conf.gha
  /\ Push(CommitAll(ws), TRUE)
  /\ run' = [run EXCEPT !.verified = remote]
  /\ Goto("squash")
  /\ UNCHANGED <<conf, upstream, pr, prOpen, background>>

\* The directory is flushed to the branch and the branch tested.
VerifyPasses ==
  /\ stage = "verify" /\ conf.gha
  /\ Push(CommitAll(ws), TRUE)
  /\ run' = [run EXCEPT !.verified = remote']
  /\ Goto("squash")
  /\ UNCHANGED <<conf, upstream, pr, prOpen, background>>

\* A feature is built again; a bug's pipeline ends.
VerifyFails ==
  /\ stage = "verify" /\ conf.gha
  /\ Push(CommitAll(ws), TRUE)
  /\ IF run.route = "feature"
     THEN Goto("retry") /\ UNCHANGED run
     ELSE Ends("max-retries-exceeded", conf.live)
  /\ UNCHANGED <<conf, upstream, pr, prOpen, background>>

\* `git reset --soft upstream/main`: the files stay as they are.
Squashed(dir) == [dir EXCEPT !.head.onto = upstream, !.linear = FALSE]

\* Failures, of the fetch or of the push, are logged.
Squash ==
  /\ stage = "squash"
  /\ \/ UNCHANGED <<ws, remote>>
     \/ conf.upstreamPr /\ \E ok \in BOOLEAN : ForcePush(Squashed(ws), ok)
  /\ Goto(IF conf.live THEN "review" ELSE "pr")
  /\ UNCHANGED <<conf, upstream, run, pr, prOpen, background>>

\* ReplyGate has the gate.  The maintainer is asked, was asked, or mail fails.
Review ==
  /\ stage = "review"
  /\ \/ Goto("pr") /\ UNCHANGED run
     \/ Ends("fix-failed", TRUE)
  /\ UNCHANGED <<conf, upstream, remote, ws, pr, prOpen, background>>

\* One pull request is open from a branch at a time: the next is refused.
CreatePr ==
  /\ stage = "pr" /\ ~prOpen
  /\ pr' = [run |-> run.n, route |-> run.route, tree |-> remote, passed |-> run.passed,
            verified |-> run.verified, alone |-> run.alone]
  /\ prOpen' = TRUE
  /\ watchers' = watchers \cup {run.n}
  /\ Ends("pr-opened", conf.live /\ run.route = "bug")
  /\ UNCHANGED <<conf, upstream, remote, ws, zombies>>

Work ==
  \/ Triage \/ Throws \/ ForkAndBranch \/ InstallWorkflows \/ Checkout
  \/ Docs \/ BuildFails \/ BuildPasses \/ Retry
  \/ ReproRound \/ Reproduced \/ ReproHalts \/ ReproTimesOut \/ CommitRepro
  \/ FixApproved \/ FixFailed
  \/ VerifySkipped \/ VerifyPasses \/ VerifyFails \/ Squash \/ CreatePr

-----------------------------------------------------------------------------
(* What goes on beside the pipeline.                                       *)

\* A reproduction that timed out goes on in the directory, or ends.
ZombieRound ==
  \E n \in zombies :
    /\ \E ok \in BOOLEAN : Candidate(n, ok)
    /\ UNCHANGED <<conf, upstream, stage, run, pr, prOpen, background>>

ZombieEnds ==
  \E n \in zombies :
    /\ zombies' = zombies \ {n}
    /\ UNCHANGED <<conf, upstream, remote, ws, stage, run, pr, prOpen, watchers>>

\* commitAmendAndPush: the linter's edits and every tracked edit there is, in a
\* commit that is on the branch already, or in one that was never pushed.
Amended(dir, edits) ==
  [dir EXCEPT !.head = With(@, dir.dirty \cup edits), !.dirty = {},
              !.linear = @ /\ dir.head # remote]

WatcherAmends ==
  \E n \in watchers, ok \in BOOLEAN :
    /\ ForcePush(Amended(ws, {<<"lint", n>>}), ok)
    /\ UNCHANGED <<conf, upstream, stage, run, pr, prOpen, background>>

WatcherEnds ==
  \E n \in watchers :
    /\ watchers' = watchers \ {n}
    /\ UNCHANGED <<conf, upstream, remote, ws, stage, run, pr, prOpen, zombies>>

UpstreamMoves ==
  /\ upstream < MaxUpstream
  /\ upstream' = upstream + 1
  /\ UNCHANGED <<conf, remote, ws, stage, run, pr, prOpen, background>>

PrCloses ==
  /\ prOpen /\ prOpen' = FALSE
  /\ UNCHANGED <<conf, upstream, remote, ws, stage, run, pr, background>>

\* The process is killed; the directory stays.
Crash ==
  /\ Goto("idle")
  /\ run' = IF stage = "idle" THEN run ELSE [NoRun EXCEPT !.n = run.n, !.result = "killed"]
  /\ zombies' = {} /\ watchers' = {}
  /\ UNCHANGED <<conf, upstream, remote, ws, pr, prOpen>>

Next ==
  \/ Trigger \/ Work \/ DesignAgreed \/ Review
  \/ ZombieRound \/ ZombieEnds \/ WatcherAmends \/ WatcherEnds
  \/ UpstreamMoves \/ PrCloses \/ Crash

\* A step of a pipeline ends: each is made with a timeout.  The human who is
\* asked for a design or a review need not answer.
Spec == Init /\ [][Next]_vars /\ WF_vars(Work)

-----------------------------------------------------------------------------

\* The verification gate: what a pull request holds is what the gate tested,
\* whatever the squash, its failures, upstream and a review of any length do
\* after it, if nothing of an earlier pipeline is still at work.
ShippedIsVerified ==
  pr.run > 0 /\ conf.gha /\ pr.alone /\ pr.verified # NoTree =>
    /\ pr.tree.edits = pr.verified.edits
    /\ pr.tree.files = pr.verified.files

\* commitPaths (local-fork-deps.ts): with the local driver a pull request holds
\* nothing of another pipeline, though their directory is never cleaned between
\* them and one may have been killed at any point.
LocalPrIsOwn ==
  pr.run > 0 /\ ~conf.gha /\ pr.alone => \A e \in pr.tree.edits : e[2] = pr.run

\* The pull request of a bug holds the repro test of its own pipeline and, on
\* gha, every edit that made it pass, though the squash rewrites the branch,
\* its failures go unnoticed and others commit in the directory.
PrCarriesWork ==
  pr.run > 0 /\ pr.route = "bug" =>
    /\ <<"repro", pr.run>> \in pr.tree.edits
    /\ conf.gha => pr.passed \subseteq pr.tree.edits

\* README: a pipeline that gets stuck mails the maintainer instead of failing
\* silently.  So do all that return without a pull request, if mail is set up.
StuckRunsTold ==
  stage = "idle" /\ conf.live
    /\ run.result \notin {"none", "pr-opened", "thrown", "killed"} => run.told

\* Where failures are recorded, retries and verification come to an end: the
\* pipeline ends or waits for a human.
LiveRunsEnd ==
  conf.live /\ stage \notin {"idle", "design", "review"}
    ~> stage \in {"idle", "design", "review"}

\* README: "a draft PR with the fix".
PrHasFix == pr.run > 0 => pr.passed \subseteq pr.tree.edits
=============================================================================
