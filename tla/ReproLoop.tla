----------------------------- MODULE ReproLoop -----------------------------
(***************************************************************************)
(* The repro stage of a pipeline: a semantic search seeds the analyst, the  *)
(* analyst leaves a dossier, a test is assembled or taken from the dossier, *)
(* the builder writes it, pushes it, installs and runs it, has a repair     *)
(* agent change it after a failure of the wrong kind, and accepts it when   *)
(* it fails twice; an oracle looks at the runs, and the pipeline commits    *)
(* the test or halts (core/agents/run-v2.ts, core/agents/analyst,           *)
(* core/agents/repro-loop-v2, bin/run-pipeline.ts).                         *)
(*                                                                         *)
(* The sandbox runs the files of the workspace, or on GitHub Actions those  *)
(* of the branch, as of the last flush that got through.  The pipeline      *)
(* stops waiting for the stage after a while; the stage goes on.            *)
(***************************************************************************)
EXTENDS Dossier, Integers, Sequences, Descent

CONSTANTS
  MaxRounds,      \* MAX_REPAIR_ROUNDS
  Evidence,       \* bound: the arguments models emit to record_evidence
  Replays         \* the dossiers of earlier runs an operator replays

ASSUME ReproAssumption ==
  /\ MaxRounds \in Nat \ {0, 1}
  /\ Evidence \subseteq Argument /\ Replays \subseteq Body /\ None \notin Body \cup Seed

TestFile == {"entry", "helper"}
Driver == {"local", "gha"}
Exit == {"pass", "fail", "wrong", "broken"}  \* wrong: fails, does not say what is expected
Version == 0..MaxRounds                      \* 0: as the branch had it before the stage

VARIABLES
  conf,     \* driver, fixOnly (OSA_FIX_ONLY), old: the test files the branch has already
  pc,
  seed,     \* of the semantic search
  body,     \* of the latest snapshot of the dossier, until a test is chosen
  mine,     \* that snapshot was recorded in this run
  trial,    \* expects: an output is expected; criteria: of the oracle
  wanted,   \* [test file]: currentFiles, by the round they were written in
  tree,     \* [test file]: the workspace
  head,     \* [test file]: the last local commit
  branch,   \* [test file]: the fork's branch
  flushed,  \* the last flush got through
  round,
  repairs,  \* repairRounds
  runs,     \* of the current round
  reject,   \* builderRejectStage
  status,   \* of the stage
  halt      \* what the pipeline did with it

vars == <<conf, pc, seed, body, mine, trial, wanted, tree, head, branch, flushed,
          round, repairs, runs, reject, status, halt>>
files == <<wanted, tree, head, branch, flushed>>
loop == <<round, repairs, runs, reject>>
known == <<conf, seed, body, mine>>

-----------------------------------------------------------------------------
Place == {"search", "load", "probe", "analyst", "retry", "assemble", "builder", "write",
          "flush", "install", "run1", "run2", "tie", "weigh", "oracle", "stage", "commit", "done"}
Reject == {"no_candidate", "credentials", "precondition_unknown", "write_test_failed",
           "pip_install_failed", "sandbox_error", "run_repro_pass", "expected_output_absent",
           "run_repro_flaky", "repair_exhausted"}
Status == {"reproduced", "not_reproduced", "credentials_required", "api_unavailable", "quota"}
Halted == {"not_runnable", "fixed", "credentials", "api", "error"}
Trial == [expects : BOOLEAN, criteria : SUBSET {"suspect_path", "precondition"}]
RunOf == [exit : Exit, fresh : BOOLEAN]      \* fresh: it ran the files as written

TypeOK ==
  /\ conf \in [driver : Driver, fixOnly : BOOLEAN, old : SUBSET TestFile]
  /\ pc \in Place /\ seed \in Seed \cup {None} /\ body \in Body \cup {None} /\ mine \in BOOLEAN
  /\ trial \in Trial
  /\ {wanted, tree, head, branch} \subseteq [TestFile -> Version]
  /\ flushed \in BOOLEAN
  /\ round \in 0..MaxRounds /\ repairs \in Nat
  /\ runs \in Seq(RunOf) /\ Len(runs) <= 3
  /\ reject \in Reject \cup {"none"} /\ status \in Status \cup {"none"}
  /\ halt \in Halted \cup {"none", "committed"}

Untouched == [f \in TestFile |-> 0]

Init ==
  /\ conf \in [driver : Driver, fixOnly : BOOLEAN, old : SUBSET TestFile]
  /\ pc = IF conf.fixOnly THEN "stage" ELSE "search"
  /\ seed = None /\ body = None /\ mine = FALSE
  /\ trial = [expects |-> FALSE, criteria |-> {}]
  /\ wanted = Untouched /\ tree = Untouched /\ head = Untouched /\ branch = Untouched
  /\ flushed = FALSE
  /\ round = 0 /\ repairs = 0 /\ runs = <<>> /\ reject = "none"
  /\ status = IF conf.fixOnly THEN "reproduced" ELSE "none"
  /\ halt = "none"

Has(v, f) == v[f] # 0 \/ f \in conf.old

-----------------------------------------------------------------------------
(* The search, the dossier of an earlier run, and the analyst *)

\* Only the gha driver searches; a search that finds no file or no symbol leaves
\* no seed.
Found == {None} \cup {s \in Seed : conf.driver = "gha"}

\* Nor does one that fails.
Search ==
  /\ pc = "search" /\ pc' = "load"
  /\ seed' \in Found
  /\ UNCHANGED <<conf, body, mine, trial, files, loop, status, halt>>

\* A dossier that cannot be read is no dossier.
Load ==
  /\ pc = "load"
  /\ body' \in Replays \cup {None}
  /\ pc' = IF body' = None THEN "probe" ELSE "assemble"
  /\ UNCHANGED <<conf, seed, mine, trial, files, loop, status, halt>>

\* Every route of the model is probed before the analyst starts.
Ends(s) == pc' = "stage" /\ status' = s

Probe ==
  /\ pc = "probe"
  /\ \/ pc' = "analyst" /\ UNCHANGED status
     \/ Ends("api_unavailable")
  /\ UNCHANGED <<known, trial, files, loop, halt>>

RecordsAll(a) == body' = Recorded(a, seed) /\ mine' = TRUE /\ pc' = "assemble"

\* An analyst that recorded nothing gets one more conversation, unless it gave
\* up or the model failed; the message of a failure may name a quota.
NothingRecorded ==
  /\ \/ pc = "analyst" /\ pc' = "retry" /\ UNCHANGED status
     \/ Ends("not_reproduced")
     \/ Ends("quota")
  /\ UNCHANGED <<body, mine>>

Investigate ==
  /\ pc \in {"analyst", "retry"}
  /\ \/ (\E a \in Evidence : RecordsAll(a)) /\ UNCHANGED status
     \/ NothingRecorded
  /\ UNCHANGED <<conf, seed, trial, files, loop, halt>>

-----------------------------------------------------------------------------
(* The test *)

Assemble ==
  /\ pc = "assemble" /\ pc' = "builder"
  /\ \E llm \in LlmAnswer, throws \in BOOLEAN :
       LET assembled == ~throws /\ Assembled(body, llm)
       IN /\ body' = IF assembled THEN Injected(body) ELSE body
          /\ trial' = [trial EXCEPT !.criteria = Criteria(body, assembled)]
  /\ UNCHANGED <<conf, seed, mine, files, loop, status, halt>>

Rejected(stage) == reject' = stage /\ pc' = "oracle"

\* Nothing but the candidate and the oracle's criteria is read from here on.
Forget == body' = None /\ seed' = None /\ mine' = FALSE

\* The first objection to what a snapshot offers; a precondition it claims to
\* satisfy must be one of the snapshot's.
Objection(b) ==
  LET c == Chosen(b)
  IN IF c = None THEN "no_candidate"
     ELSE IF c.creds THEN "credentials"
     ELSE IF c.satisfies /\ b.precondition = "none" THEN "precondition_unknown"
     ELSE IF c.files = None THEN "no_candidate" ELSE "none"

\* The analyst's files need not hold the entry point.
Harness ==
  {[f \in TestFile |-> IF f \in F THEN 1 ELSE 0] : F \in (SUBSET TestFile) \ {{}}}

BuilderStarts ==
  /\ pc = "builder" /\ Forget
  /\ \/ Objection(body) # "none" /\ Rejected(Objection(body)) /\ UNCHANGED <<trial, wanted>>
     \/ /\ Objection(body) = "none" /\ wanted' \in Harness
        /\ trial' = [trial EXCEPT !.expects = Chosen(body).files.expects]
        /\ pc' = "write" /\ UNCHANGED reject
  /\ UNCHANGED <<conf, tree, head, branch, flushed, round, repairs, runs, status, halt>>

-----------------------------------------------------------------------------
(* The builder's rounds *)

\* git checkout of HEAD, which on gha is what was last committed for a run: a
\* file that is not in it stays.
Reverted(v) == [f \in TestFile |-> IF Has(head, f) THEN head[f] ELSE v[f]]

NextRound ==
  IF round + 1 < MaxRounds THEN pc' = "write" /\ UNCHANGED reject
  ELSE Rejected("repair_exhausted")

\* Mutant: a repair that is not counted.
AppliedUncounted ==
  /\ pc' = "write" /\ UNCHANGED <<wanted, round, repairs, reject>>

\* The repair agent changes any of the files, may add one, or only the installs.
Applied ==
  /\ repairs < MaxRounds - 1
  /\ repairs' = repairs + 1 /\ round' = round + 1
  /\ \E F \in SUBSET TestFile :
       wanted' = [f \in TestFile |-> IF f \in F THEN repairs + 2 ELSE wanted[f]]
  /\ NextRound

\* It abandons, fails, has no key, or is not asked any more.
GivenUp(stage) ==
  /\ repairs' = IF repairs < MaxRounds - 1 THEN repairs + 1 ELSE repairs
  /\ Rejected(stage) /\ UNCHANGED <<wanted, round>>

Repair(stage) ==
  \/ Applied /\ UNCHANGED tree
  \/ GivenUp(stage) /\ tree' = Reverted(tree)

Goto(place) == pc' = place /\ UNCHANGED <<wanted, tree, round, repairs, reject>>

\* A round starts with the files of the last one reverted, and no run.
Write ==
  /\ pc = "write" /\ runs' = <<>>
  /\ tree' = [f \in TestFile |-> IF wanted[f] # 0 THEN wanted[f] ELSE Reverted(tree)[f]]
  /\ pc' = "flush"
  /\ UNCHANGED <<known, trial, wanted, head, branch, flushed, round, repairs, reject, status, halt>>

\* A path outside the test roots: the files before it are written.
WriteFails ==
  /\ pc = "write" /\ runs' = <<>>
  /\ \E F \in SUBSET TestFile :
       LET written == [f \in TestFile |-> IF f \in F /\ wanted[f] # 0 THEN wanted[f] ELSE Reverted(tree)[f]]
       IN \/ Applied /\ tree' = written
          \/ /\ GivenUp("write_test_failed")
             /\ tree' = Reverted(written)
  /\ UNCHANGED <<known, trial, head, branch, flushed, status, halt>>

\* The push commits every file of the workspace.  A failure is swallowed: the
\* commit or the push may have been made all the same.
Flush ==
  /\ pc = "flush" /\ pc' = "install"
  /\ \/ conf.driver = "local" /\ flushed' = TRUE /\ UNCHANGED <<head, branch>>
     \/ conf.driver = "gha" /\ flushed' = TRUE /\ head' = tree /\ branch' = tree
     \/ /\ conf.driver = "gha" /\ flushed' = FALSE
        /\ head' \in {head, tree} /\ branch' \in {branch, head'}
  /\ UNCHANGED <<known, trial, wanted, tree, loop, status, halt>>

Install ==
  /\ pc = "install"
  /\ \/ Goto("run1")
     \/ Repair("pip_install_failed")
     \/ Repair("sandbox_error")
  /\ UNCHANGED <<known, trial, head, branch, flushed, runs, status, halt>>

\* What a run sees, and how it may exit: pytest cannot collect an absent file.
View == IF conf.driver = "local" THEN tree ELSE branch
Fresh == \A f \in TestFile : wanted[f] # 0 => View[f] = wanted[f]
Outcome == [exit : IF Has(View, "entry") THEN Exit ELSE {"broken"}, fresh : {Fresh}]

Throws(stage) == Repair(stage) /\ UNCHANGED runs

Run1 ==
  /\ pc = "run1"
  /\ \/ Throws("sandbox_error")
     \/ \E r \in Outcome :
          /\ runs' = <<r>>
          /\ \/ r.exit = "pass" /\ Repair("run_repro_pass")
             \/ r.exit = "broken" /\ Repair("expected_output_absent")
             \/ r.exit = "wrong" /\ trial.expects /\ Repair("expected_output_absent")
             \/ (r.exit = "fail" \/ (r.exit = "wrong" /\ ~trial.expects)) /\ Goto("run2")
  /\ UNCHANGED <<known, trial, head, branch, flushed, status, halt>>

Fails(r) == r.exit # "pass"

\* The second run, and the third when they disagree, may fail for any reason.
Run2 ==
  /\ pc = "run2"
  /\ \/ Throws("sandbox_error")
     \/ \E r \in Outcome :
          /\ runs' = Append(runs, r)
          /\ Goto(IF Fails(r) THEN "weigh" ELSE "tie")
  /\ UNCHANGED <<known, trial, head, branch, flushed, status, halt>>

Tie ==
  /\ pc = "tie"
  /\ \/ Rejected("sandbox_error") /\ tree' = Reverted(tree) /\ UNCHANGED runs
     \/ \E r \in Outcome : runs' = Append(runs, r) /\ pc' = "weigh" /\ UNCHANGED <<tree, reject>>
  /\ UNCHANGED <<known, trial, wanted, head, branch, flushed, round, repairs, status, halt>>

Failing == Cardinality({i \in DOMAIN runs : Fails(runs[i])})

\* Mutant: one failing run is enough.
WeighOne ==
  /\ pc = "weigh"
  /\ Failing >= 1 /\ Goto("oracle")
  /\ UNCHANGED <<known, trial, head, branch, flushed, runs, status, halt>>

\* Outputs are cut before they are searched again: the expected one may be gone.
Weigh ==
  /\ pc = "weigh"
  /\ \/ Failing < 2 /\ Rejected("run_repro_flaky") /\ tree' = Reverted(tree)
        /\ UNCHANGED <<wanted, round, repairs>>
     \/ Failing >= 2 /\ trial.expects /\ Repair("expected_output_absent")
     \/ Failing >= 2 /\ Goto("oracle")
  /\ UNCHANGED <<known, trial, head, branch, flushed, runs, status, halt>>

-----------------------------------------------------------------------------
(* The oracle, the pipeline's halts and the commit *)

\* missed: criteria the runs or the text do not meet; ast: the text shows no
\* call of a suspect.
Oracle ==
  /\ pc = "oracle"
  /\ \/ /\ reject = "none"
        /\ \E missed \in SUBSET trial.criteria, ast \in BOOLEAN :
             Ends(IF missed = {} /\ ast THEN "reproduced" ELSE "not_reproduced")
     \/ reject = "credentials" /\ Ends("credentials_required")
     \/ reject \notin {"none", "credentials"} /\ Ends("not_reproduced")
  /\ UNCHANGED <<known, trial, files, loop, halt>>

HaltOf ==
  CASE status = "credentials_required" -> "credentials"
    [] status \in {"api_unavailable", "quota"} -> "api"
    [] status = "not_reproduced" /\ reject = "run_repro_pass" -> "fixed"
    [] OTHER -> "not_runnable"

\* Mutant: any test left in the workspace is committed.
StageAnyTest ==
  /\ pc = "stage" /\ halt = "none"
  /\ \/ Has(tree, "entry") /\ pc' = "commit" /\ UNCHANGED halt
     \/ ~Has(tree, "entry") /\ pc' = "done" /\ halt' = HaltOf
  /\ UNCHANGED <<known, trial, files, loop, status>>

\* The entry point is read back from the workspace.
Stage ==
  /\ pc = "stage"
  /\ \/ /\ halt = "none" /\ status = "reproduced" /\ Has(tree, "entry")
        /\ pc' = "commit" /\ UNCHANGED halt
     \/ /\ halt = "none" /\ ~(status = "reproduced" /\ Has(tree, "entry"))
        /\ pc' = "done" /\ halt' = HaltOf
     \/ halt # "none" /\ pc' = "done" /\ UNCHANGED halt
  /\ UNCHANGED <<known, trial, files, loop, status>>

\* The workspace is reset to its last commit, the entry point written again,
\* committed alone and pushed; a push that fails ends the pipeline.
Commit ==
  /\ pc = "commit" /\ pc' = "done"
  /\ LET clean == [head EXCEPT !["entry"] = tree["entry"]]
     IN /\ tree' = clean /\ head' = clean
        /\ \/ branch' = clean /\ halt' = "committed"
           \/ UNCHANGED branch /\ halt' = "error"
  /\ UNCHANGED <<known, trial, wanted, flushed, loop, status>>

\* The pipeline stops waiting, mails and ends; the stage does not.
Timeout ==
  /\ ~conf.fixOnly /\ pc \notin {"commit", "done"} /\ halt = "none"
  /\ halt' = "not_runnable"
  /\ UNCHANGED <<known, pc, trial, files, loop, status>>

Step ==
  \/ Search \/ Load \/ Probe \/ Investigate \/ Assemble \/ BuilderStarts
  \/ Write \/ WriteFails \/ Flush \/ Install \/ Run1 \/ Run2 \/ Tie \/ Weigh
  \/ Oracle \/ Stage \/ Commit

Next == Step \/ Timeout
Spec == Init /\ [][Next]_vars

\* Every call of the stage returns or throws: the sandbox's and the models' own
\* timeouts see to it.  Nothing makes the stage's timer go off first.
FairSpec == Spec /\ WF_vars(Step)

-----------------------------------------------------------------------------
(* Properties *)

\* A test the stage commits failed twice as it is committed: the runs of an
\* earlier version, or of another round, do not count.  Only a flush that did
\* not get through may have had the sandbox run something else.
ReproducedTwice ==
  halt = "committed" /\ ~conf.fixOnly =>
    /\ Failing >= 2
    /\ wanted["entry"] # 0 => branch["entry"] = wanted["entry"]
    /\ flushed => \A i \in DOMAIN runs : runs[i].fresh

\* A rejection names what happened in the round it ends, and the rounds are never
\* used up without one: the repair agent is asked at most once less than there
\* are rounds.  The pipeline tells the issue that it is fixed on main only if the
\* last run of the test passed.
NamedRejection ==
  /\ repairs < MaxRounds /\ reject # "repair_exhausted"
  /\ reject = "run_repro_flaky" => Len(runs) = 3 /\ Failing = 1
  /\ halt = "fixed" => Len(runs) = 1 /\ runs[1].exit = "pass"

\* The dossier the analyst leaves only suspects files of the repository, whether
\* it named them or took them from the index of the search.
SuspectsExist == mine => body.files \cup body.symbols \subseteq Repo

\* How far the stage is from its end, and a round from its own.
Ahead ==
  [search |-> 11, load |-> 10, probe |-> 9, analyst |-> 8, retry |-> 7, assemble |-> 6, builder |-> 5,
   write |-> 4, flush |-> 4, install |-> 4, run1 |-> 4, run2 |-> 4, tie |-> 4, weigh |-> 4,
   oracle |-> 3, stage |-> 2, commit |-> 1, done |-> 0]
WithinRound == [write |-> 6, flush |-> 5, install |-> 4, run1 |-> 3, run2 |-> 2, tie |-> 1, weigh |-> 0]

RoundsLeft ==
  <<Ahead[pc], MaxRounds - round, IF pc \in DOMAIN WithinRound THEN WithinRound[pc] ELSE 0,
    IF halt = "none" THEN 1 ELSE 0>>

\* No failure, repair or retry takes the stage back without using up a round, and
\* no round is used up that there is not, also when nobody waits any more.
NoRoundForFree == [][Below(RoundsLeft', RoundsLeft)]_vars

\* Whatever fails, and whether or not the pipeline still waits, the stage comes
\* to its end.
Decides == <>(pc = "done" /\ halt # "none")

\* What the stage promises: a verdict on the failures of one version of a test.
Promise == INSTANCE ReproTrial WITH
  trusted <- conf.fixOnly,
  failures <- IF pc = "write" THEN 0 ELSE Failing,
  verdict <- IF halt = "none" THEN "open" ELSE IF halt = "committed" THEN "accepted" ELSE "rejected"
IsATrial == Promise!Spec
=============================================================================
