# A verification project for oss-support-agent

oss-support-agent takes a labelled GitHub issue, reproduces the bug in a test,
writes a fix, verifies it and opens a draft pull request, asking humans by mail
on the way.  Most of what can go wrong in it is not in any one function: it is
in webhooks that overtake each other, in mail that is answered after a restart,
in tool calls that run beside each other, in jobs on GitHub Actions that cannot
be told apart, and in a working directory that outlives the pipeline it belongs
to.  This directory models those parts in TLA+, checks them with TLC on small
instances, and proves what matters most for all instances with TLAPS.

Paths are relative to the repository's root; `P` is `bin/run-pipeline.ts`.

    tlc -workers 2 -config Pipeline.cfg MCPipeline     model-checks one run
    tlapm PipelineProofs.tla                           checks one module's proofs

Contents: 1 the system; 2 the modules; 3 the runs; 4 fairness and deadlock;
5 the proofs; 6 what the models show of the code; 7 abstractions; 8 what is
not modelled; 9 what would come next.


## 1. The system

One Node process (`bin/server.ts`) receives GitHub and mail webhooks.  Node
runs one callback at a time, so code between two `await`s is atomic, and every
`await` is a place where any other callback may run.  A pipeline is a promise
nobody awaits: it runs for hours or days beside others, in the process's
memory, and dies with it.  What survives are files (or a gist), a SQLite
database, a git working directory per issue, and GitHub.

    GitHub webhook --> onboarding of a new repository (once)
                   \-> claim of a run --> pipeline ---> fork, branch, pull request
                       (server.ts)        (P)  |  \---> working directory (git)
                            |                  |-----> repro stage, fix stage
    mail webhook --> reply waiter / mailbox <--|          |  agents, tools
                 \-> human-in-the-loop inbox   |          v
                       ^                       |     sandbox session (GitHub Actions)
    osa-admin (a process of its own)           \---> CI watcher of the pull request

| component (source) | state | operations | what is hard | what makes it correct | module |
|---|---|---|---|---|---|
| **Run claims** `bin/server.ts`, `bin/clients/{state,gist-state}-store*.ts` | a record per issue: status, instance, time; in files or in a cache flushed to a gist | webhook, acquireRun, completeRun, pruneOldRuns, flush; boot, crash | an await between guard and claim; takeover after 6 h; two processes in a rolling deploy; lost PATCHes; colliding keys | at most one pipeline per issue, no claim leaked, a dead claim expires, the gist catches up | RunClaim |
| **Onboarding** `core/agents/introspection*.ts`, `core/adapter-loader.ts`, `core/introspection-email-loop.ts` | drafts, the stored conversation, two files, labels, one introspection in flight | gather, draft, mail, revise, approve, write, label, roll back, load | several deliveries at once; two files written one after the other; a crash or a failure in between | only what the PM approved is in place, all of it or nothing unless the disk or the process fails | Onboarding |
| **Human-in-the-loop inbox** `core/agents/hitl/*`, `bin/osa-admin.ts` | a SQLite row per question: status, message, reply, action | create, supersede, ingest (awaits a model), resume, expiry sweep, forced action | replays; two replies in the model at once; two OS processes on one row; crash between commit and use | one open question per attempt, one resume per answer, an accepted reply is decided | HitlInbox, OneShotQuestion |
| **Reply waiter, mailbox, review gate** `core/introspection-email-loop.ts`, `core/resend-mail.ts`, `bin/clients/{resend-real,state-stores}.ts`, P | waiters by address (memory), mailbox and pending records by run id, approvals by issue (stored) | wait, reply, resolve; design, scope and review conversations | restart between question and answer; double encoding and truncation of addresses; two runs of an issue | no pull request without a human's word on it; a refusal that a review hears stands | ReplyGate |
| **Design and scope conversations** P, `core/pm-email-loop.ts`, `core/issue-sweep.ts`, `core/gmail-mcp.ts` | thread, decisions, open questions (memory and stored), the sweep | brief, reply, follow-up, approval; scope mail, scope reply | lists that travel through store, model and mail; replies between two waits; prose parsed by overlapping patterns | nothing closed is asked again, nothing decided is lost; the scope is what was written | DesignTalk |
| **Tool registry, agent loop** `core/agents/tools/*`, `core/agents/agent-loop.ts`, `core/agents/adapters/*`, `core/llm/v2/client.ts` | transcript, budgets, calls in flight, routes | dispatch (guards), execute, record; turns; failover, corrective and forced retries | calls of a turn run concurrently and guards see finished ones only; one registry over several tries | what the audit reads is what happened; budgets hold; an abandon is heard; the agent ends | ToolRegistry, AgentLoop |
| **Repro stage** `core/agents/repro-loop-v2/*`, `core/agents/analyst/*`, `core/agents/run-v2.ts` | dossier, test files in four places, runs of the round | seed, analyse, assemble, write, flush, install, run twice, tie-break, repair, oracle, commit | runs of another version; failures that are swallowed; a timeout that abandons a promise | what is committed failed twice as it is | ReproLoop, Dossier, ReproTrial |
| **Sandbox sessions, verification gate** `core/sandbox-session.ts`, `bin/clients/github-actions.ts`, `core/agents/{regression-guard,usability}.ts` | phase results (cached when ok), installs to replay, runs on GitHub | branch, workflow, dispatch, find the run, poll, read, compare | which run a dispatch started; a cached phase that no longer holds; a container that starts empty | the result read is of the run dispatched, on the code pushed | SandboxSession |
| **Fix stage** `core/agents/fix-loop/*` | working tree, HEAD, branch, transcript, iteration, repair round | investigate, plan, execute, audit, repair, critic | evidence that is older than the last edit; leftovers of failed iterations | an approved fix passes both tests; it stays in scope; the stage ends | FixLoop |
| **Pipeline, retry loop** P, `core/retry-loop.ts` | the stage, attempts, what was verified | triage, fork, repro, fix, build, verify, squash, review, PR | abandoned work that goes on; failures logged and passed over; upstream moves | what is shipped was verified, is the pipeline's own, and holds the work; a stuck run is told | Pipeline |
| **Fork manager, git workspace** `core/fork-manager.ts`, `bin/clients/{local-workspace,local-fork-deps,github-rest}.ts` | branch, HEAD, index, untracked files | create or reset branch, checkout, commit, push (with lease), squash | a directory that is reset but not cleaned; a lease against a stale remote | pushes lose nothing, a reset branch is the right one | Pipeline, FixLoop, CiWatch |
| **CI watcher**, two versions `core/ci-check-watcher.ts`, `core/agents/ci-check-watcher.ts` | head sha, failed checks, what was fixed and told, deadline | poll, triage, lint, amend, force-push | amends a directory another pipeline may use; repairs, amends and pushes that fail | nobody's work is pushed over; what counts as fixed is in the branch; no failure gets lost; it ends | CiWatch |
| Run state machine, webhook router, multi-repo | - | - | - | nothing in bin/ uses them | - |
| Hypotheses, mail composition, observability, manifests, helpers, tooling | none that outlives a call | - | - | see section 8 | - |

`PROJECT.json` lists the sources of every component, every hazard at its line,
and for every definition the lines it models.


## 2. The modules

Each specification has an `MC` module of its instance for TLC; eight have a
`Proofs` module.  Variables and actions carry the names of the code's fields and
functions where there are any.

**RunClaim** - the claim on an issue.  `disk` is the files or the gist,
`cache`, `queued`, `inflight` the namespace of a gist-backed process and its
`writeQueue`.  A process is one incarnation between boot and crash.  `Webhook`
is a handler up to `await loadAdapter`; `Acquire` what runs from there without
another await (`acquireRun`, and the pipeline is spawned); `AdapterFails` its
failure; `Complete` the `.then` and `.catch` of the pipeline with
`completeRun`; `FlushStart`, `FlushDone`, `FlushFail` one link of the chain.
`Boot` prunes; `Crash` loses all but `disk`.  Storage keys go through
`SafeKey`, which need not be injective, as the code's `safeKey` is not.

**Onboarding** - an issue of a repository without an adapter.  `Receive`,
`Require`, `Check` are the handler and the loader; `Introspect` joins the
introspection in flight (`inFlightByRepo`) or starts one; `Gather` to `Revise`
its conversation, `Look` to `RemoveAdapter` its activation with the rollback,
one disk operation each; `Restart` is a process that dies and is started again.
Drafts are numbered, so that a manifest and an adapter of different drafts are
told apart.  A write that fails leaves nothing, all or a part of its file
(`DiskFails`, `Written`), a crash may leave a part of the one that was being
written (`Left`); a part is `Torn`, and a loader may or may not get through it.

**HitlInbox** - the row of a question, with the compare-and-swap of
`transition()`.  `Ask` is `create`, `Supersede` is `supersedeOpenForAttempt`,
with `asking` the questions between the two statements; `Accept` is
`ingestInboundEmail` up to the model call, `Decide` the rest, whose swap may
fail unnoticed; `ReadToResume` and `Resume` are a caller of `resumePipeline`
with the snapshot it read; `SweepSelect`, `SweepUpdate` the two statements of
`expireDue`; `AdminRead`, `AdminWrite` `set-action`.  The last two pairs run in
another OS process, so they are two steps each.  When a row is due is left open:
a sweep selects any open rows.

**OneShotQuestion** - what the inbox promises of a question: it is put once and
then closes what was open of its attempt (`CloseOthers`), unless its asker dies
first (`Leave`), is decided once, handed on at most once as it was decided, and
stays closed.  HitlInbox implements it: `AsksOnce` is
`Promise!Spec` under the mapping at the end of HitlInbox (`Stage`, `Decision`,
`HandedOn`), where storing a reply, failing a swap or losing one mean nothing,
and a row the operator forces is out of the promise.

**ReplyGate** - the way of a mail.  A pipeline's three conversations over the
waiter: `pending` is `IntrospectionReplyWaiter.pending`, by address; `mailbox`
and `record` are by run id, raw or as parsed from an address, which are
different keys; `approval` has an age.  `Wait` is `waitForEmailReply` with
`mailbox.take`; `OnReply` is the webhook with `resolveByRunId`; `Look`,
`AskReview`, `Approve`, `Reject` are `sendPrePrReviewEmail`; `Restart` loses
the waiters and the pipelines.  `verdict` is the latest word on an issue's pull
request, noted where the webhook hears it (`Note`), whether or not a review does.  `Encode` and `Reencode` are parameters, so that
truncated addresses and addresses that change under a second encoding are
covered too.

**DesignTalk** - what is said in it.  `thread`, `known` (decisions and open
questions) and `stored` are the three places the conversation is kept.  A reply
approves or not; it decides some questions, by lines that `extractDecisions`
takes for decisions, and names some, by the words `isQuestionResolved` looks
for: neither implies the other, and naming is what closes a question.  `Hear` is
`processReply`; `Save` stores the lists a follow-up was `drafted` with, and
`ReadBack` is the loop taking its lists from the store;
`FollowUp`, `ModelFollowUp`, `FallbackFollowUp` the two generators; `Confirmed`
is `parseScopeReply` case by case; `worked` are the issues the agents are given.

**ToolRegistry**, **FixLoop**, **AgentLoop** - the agents.  ToolRegistry is the
dispatch of calls for an agent that changes the code: `Dispatch` evaluates the
guards, `Finish` is the `finally` that counts a call, `BeginTurn` is
`onStepFinish`.  FixLoop EXTENDS it with the executor's tools, each in the steps
between which other calls of the turn can run, and with the loop around it:
`Begin`, `Planned`, `ExecutorDone` (the completion promise of
`computeGreenEvidence`, head drift and scope), `RepairRound`, `Verdict`.  The
code is the set of files that differ from the baseline, in three copies:
`worktree`, `head`, `remote`.  The local driver runs the first, the GitHub
Actions driver the last.  AgentLoop is the same registry for the agents that
only read, under what FixLoop takes as one step: steps, tries, routes, the
corrective retry after an answer nobody can parse and the forced one of the
analyst.  The model behind an agent is free: it may call any tool in any order.

**SandboxSession** - a call of a session from `Begin` to its result: branch
phase, workflow phase, `Dispatch`, `Appears` and the search of `waitForRun`,
`waitForWorkflowRun`, artifact and logs.  `runs` is what GitHub knows; GitHub
lists a run late, loses an answer, and rounds `created_at` to a second, which is
`TicksPerSecond` ticks.  A session serves an agent, the semantic search, or the
verification gate, whose regression guard compares two of its calls.

**Dossier**, **ReproLoop**, **ReproTrial** - the repro stage.  Dossier has the
pure part: what `record_evidence` makes of the arguments a model emits, and what
the assembler and the oracle read of it.  ReproLoop EXTENDS it with the stage, a
step for each await: search, load, probe, analyst, assembler, builder (write,
flush, install, two runs, tie-break, repair), oracle, and the pipeline's commit
or halt.  A test file has a version, the round it was written in, in four
places: `wanted`, `tree`, `head`, `branch`.  `Timeout` is the pipeline's,
after which the stage goes on unseen.  ReproTrial is the abstract specification:
one test on trial, failures counted from its last change, accepted after two.
ReproLoop implements it: `IsATrial` is `Promise!Spec` under the mapping at the
end of ReproLoop, checked by TLC and proved.

**Pipeline** - runPipelineImpl over three copies of the code: `ws`, the
directory of the issue (HEAD, tracked edits without a commit in `dirty`,
untracked files in `loose`), `remote`, the branch on the fork, and `pr`, the
pull request as it was opened.  A tree is a version of upstream it sits on, the
version its untouched files have, and a set of edits, each named by its kind
and the pipeline that made it.  An action is a stage; the fix stage leaves any
combination of what FixLoop lets it leave (`FixLeaves`), the review what
ReplyGate lets it decide (`Review`).  `ZombieRound` is a reproduction that lost
its race with the timeout and goes on; `WatcherAmends` the CI watcher.

**Descent** - why a bounded loop ends: `Below` is the descent of a tuple of
numbers whose weightiest comes first.  AgentLoop (`TriesLeft`), ReproLoop
(`RoundsLeft`) and FixLoop (`IterationsLeft`, and for the calls of a turn
`StepsLeft`) each say what they have left, and that no step gives it back.

**CiWatch** - the watcher, in both versions (`version`).  `Poll`, `Fetch`,
`Try`/`Tell`, `Fix`, `Amend`, `Push`, `Counts` are a round; beside it
`HumanPush`, and the two halves of a later pipeline's `ensureCheckedOut`,
`OtherFetches` and `OtherChecksOut`, between which a lease protects a commit
that HEAD does not contain.  A commit is what linters would complain of in it
and whose work it holds.  `Fix` may leave any complaints behind, also new ones:
its commands may fail unseen, and what suits one linter another complains of.
What is looked at afterwards is `Cleared`; `Blind` are the checks of whose
complaints that verification sees nothing: a format check, a linter whose
configuration does not load.  `unpushed` remembers a push that failed.

How they compose: Onboarding ends where RunClaim begins, with a loaded adapter
and a spawned pipeline.  RunClaim keeps the pipelines of an issue apart, so
Pipeline's `Trigger` waits for the last one to end (that this fails after six
hours is RunClaim's, not repeated there).  Pipeline takes the repro stage, the
fix stage, the verification gate, the gate and the watcher as steps; ReproLoop,
FixLoop, SandboxSession, ReplyGate and CiWatch open those steps up, and
AgentLoop and Dossier open up the steps of ReproLoop and FixLoop in turn.
DesignTalk takes the way of a mail from ReplyGate as one step, `Deliver`.
HitlInbox stands by itself: no production caller ingests into it yet.


## 3. The runs

Every bound is named in the constants of its module.

| run | instance | states | shows |
|---|---|---|---|
| RunClaim | 1 issue, 2 processes of which one has an instance id, 2 pipelines, files or gist, overlapping deploys, failing PATCHes, clock 0..2, stale after 1 | 550 k | `ExclusiveUnlessOverdue`, `NoLeakedClaim`, `QuiescentDurable`, `DeadClaimExpires` |
| Onboarding | 3 deliveries, 1 revision, a manifest by hand or not, 1 crash | 91 k | `OnlyApproved`, `WholeOrNothing`, `EveryEventAnswered` |
| HitlInbox | 2 questions of an attempt, one of which the operator forces once, 2 replies of which one may come twice, 2 ingests and 2 resumes at once, sweep, 1 crash | 417 k | `ResumeOnce`, `HeardIsStored`, `AsksOnce`, `ReplyDecided` |
| ReplyGate | 2 pipelines of an issue, 3 conversations each, all under one address, 2 replies, 1 redelivery, 1 restart, approvals that age; symmetric in the pipelines | 469 k | `OpenedOnWord`, `ApprovalIsLastWord` |
| DesignTalk | 2 questions, 2 replies before an approval, 3 issues, both generators | 762 k | `ClosedStaysClosed`, `DesignHasDecisions`, `ScopeAsWritten`, `TalkEnds` |
| AgentLoop | 3 agents, 2 calls per answer, 5 calls of which 2 are reserved, 4 steps, 2 routes | 59 k | `BudgetHolds`, `AbandonHeard`, `NoTryForFree`, `AgentEnds` |
| SandboxSession | 1 session of 3 kinds of owner, 2 calls at once, 2 runs, 1 edit, 1 package, 2 ticks per second | 317 k | `OwnRun`, `OwedIsKept`, `CallsReturn` |
| ReproLoop | 3 source files of which 2 exist, 3 rounds, both drivers, with and without seed and replay, OSA_FIX_ONLY | 968 k | `ReproducedTwice`, `Decides`, `IsATrial` |
| FixLoop | 2 files, 2 concurrent calls in a turn, 3 turns, 2 iterations with repair, both drivers | 431 k | `GreenIsCurrent`, `NothingNewOutOfScope`, `Decides`, `NoIterationForFree` |
| Pipeline | 2 pipelines, 5 deployments, upstream moves once, 1 repro round, 2 retries | 785 k | `ShippedIsVerified`, `LocalPrIsOwn`, `PrCarriesWork`, `StuckRunsTold`, `LiveRunsEnd` |
| CiWatch | both versions, 2 checks a linter repairs of which the verification sees 1, 2 amended commits, or 1 and 1 commit of the maintainer, 1 later pipeline | 1.1 M | `FixedIsPushed`, `EveryFailureTold`, `HumanWorkKept`, `WatchEnds` |
| PipelineFix | 1 pipeline, local driver with mail | - | violation of `PrHasFix` |

No run checks what another check already covers: TLAPS proves each module's type
invariant (`TypeCorrect`, `OnboardTypeCorrect`, `AgentTypeCorrect`; for
DesignTalk it is `TalkTypes`, a part of `TalkInv`), and `OneOpenPerAttempt`,
which for the rows no operator forces is also part of `AsksOnce`.

Why the bounds are enough to meet the cases:

- *RunClaim.* Exclusion needs two pipelines to fail.  A clock of 0..2 with a
  staleness of 1 lets a claim be fresh, stale, taken over and stale again (a
  claim is only made when the clock can still reach its staleness, so that
  liveness is not vacuous).  Two processes are a deploy; two queued writes are a
  write that waits behind a PATCH.  Colliding keys, a third pipeline and longer
  clocks are left to the proof.
- *Onboarding.* The first delivery introspects, the second joins it, the third
  comes after it ended or failed and starts another; one revision makes a draft
  an earlier one; a crash falls into any step, a disk that fails into any other.
- *HitlInbox.* Two questions are needed to supersede, two replies to one of them
  for the race in the model; a message accepted twice (`MaxTimes`) is a replay
  of an overwritten one.  `MaxResumes` lets the operator force one of the
  questions, once: the promise is about the other, which it leaves alone.
- *ReplyGate.* Two pipelines of one issue share the approval.  With one address
  for all conversations a reply may wake a wait of its own conversation or of
  any other, or meet none.  Two replies are a yes and the refusal after it, or one for
  the wait it wakes and one for the wait it misses; a redelivery meets every
  state of the waiter (registered, between two waits, gone); one restart loses
  it.  Other encodings are left to the proof, which is for all of them.
- *DesignTalk.* A decision that is lost, or a question that comes back, needs a
  reply, a follow-up, and another reply; with two questions a reply decides one
  and names the other.  Three issues are the primary one, one the mail lists and
  one it does or does not list.
- *AgentLoop.* Two calls of one answer overrun a budget together; a reserve
  smaller than the total has a before and an after; with two routes a failed try
  has a next one and a last one; four steps are longer than the budget minus its
  reserve.
- *SandboxSession.* Two calls and two runs are what it takes to read another's
  run; two ticks per second let a run be created in the second of a dispatch but
  before it.
- *ReproLoop.* Three rounds hold a rejection, a repair, and a repair after it;
  suspects are in the repository, out of it, or absent.
- *FixLoop.* An edit that overlaps a test run needs two slots; an edit before
  and after evidence needs three turns; evidence that survives needs two
  iterations.  Two files tell a fix from a side effect.  `Overlapping`
  constrains the run: calls overlap in the first iteration on the local driver
  and come one by one elsewhere, since overlap in a second iteration meets
  nothing new (a registry lives for one iteration), and `GreenIsCurrent` claims
  nothing on the other driver.
- *Pipeline.* What an earlier pipeline leaves is one bit per kind of edit, so a
  second pipeline meets everything a third would; upstream moving once already
  makes the base stale.
- *CiWatch.* Two checks a linter repairs spoil each other, and the second may be
  counted after the push of the first has failed; one is seen by the
  verification and one is not, and the latter sounds like a test's, which makes
  it one for the humans at first.  Two amends are a push that failed and the one
  after it.  `OneKindInACrowd` constrains the run: once the maintainer or another
  pipeline takes part, the linters have complaints of one kind, since
  `FixedIsPushed` is about a watcher that is alone, and whose work a push takes
  away does not depend on what the linters say.

The proofs remove these bounds for every invariant, for every action property
and for both refinements; what stays bounded are the liveness properties.
`PrHasFix`, which the code violates, has a run only.


## 4. Fairness and deadlock

- RunClaim: weak fairness of `Tick` only.  Time passes; pipelines, webhooks,
  crashes and the network owe nothing.
- Onboarding: weak fairness of each delivery's own steps (requests, models and
  the disk answer or fail) and of the PM's answer while a conversation waits:
  the wait has no timeout, so `EveryEventAnswered` is a statement under that
  assumption.  The process may crash, after which a delivery counts as lost.
- HitlInbox: weak fairness of `Decide`.  The call of the model returns or
  fails, and the code after the await runs (`reply-ingest.ts` catches the
  failure).  Nobody owes a reply, a resume or a sweep.
- DesignTalk: weak fairness of the pipeline, of delivery, and of a maintainer
  who in the end approves and answers about the scope; again no timeout would
  end the wait.  What `TalkEnds` shows is that a reply lost between two waits, a
  follow-up of any kind or a failed mail leaves the conversation able to end.
- AgentLoop, ReproLoop, FixLoop: weak fairness of the step.  Calls of models,
  sandboxes and git carry timeouts, so a stage does not stop by itself.
- SandboxSession: weak fairness of `Tick` and of each call's own steps; GitHub
  owes nothing.
- Pipeline: weak fairness of `Work`, the steps of the pipeline itself.
  `DesignAgreed` and `Review` are left out: no human need answer, and
  `LiveRunsEnd` counts waiting for one as an end.
- CiWatch: weak fairness of the watcher's steps and of the deadline; checks may
  hang for ever.

Deadlock is checked in the Pipeline run, where a crash is always possible and
a deadlock would be a mistake of the model.  The other systems stop by nature:
a bounded number of pipelines, mails, calls or iterations is used up, or the
stage is over; their configurations say `CHECK_DEADLOCK FALSE`.


## 5. The proofs

Each `Proofs` module proves the type invariant of its module (`TypeCorrect`) and
the theorems below for every value of the constants that satisfies the ASSUMEs
of the module, which TLC evaluates in the runs.  Three of them host a second
module beside their own: HitlInboxProofs has Onboarding, the other place where a
person's answer decides; ReproLoopProofs has AgentLoop, whose agents work in
that stage; CiWatchProofs has DesignTalk, the other conversation about a change.

**RunClaimProofs.** `ClaimExclusive`: ExclusiveUnlessOverdue.  The invariant is
`IInv == TypeOK /\ OneUp /\ LiveIsUp /\ ClaimsHeld`.  Exclusion alone is not
inductive: a record could say anything.  `ClaimsHeld` ties the two together: as
long as no pipeline of a key has outlived its bound, a live one has its record
under the key, running, under its instance and dated from its start, so
`acquireRun` refuses.  `OneUp` (files: one process at a time) is needed because
the files are shared, `LiveIsUp` because a crash ends what it must.  Overdue is
stable, which carries the exception through the steps.  `RestIsDurable`
(QuiescentDurable): when nothing waits behind a PATCH, it carries the cache
(`ChainEnds`), since the content is taken when the write starts and every save
queues one more; that a process boots idle is `DownIsIdle`, and that what it
pruned is queued makes the boot no exception.  `ClaimsAreReleased`
(NoLeakedClaim): every running record, on disk, in a cache or in flight, names a
started pipeline of its own key (`AllKeyed`), though issues may share keys and
tables travel between processes; so the end of a pipeline, which rewrites
whatever is under its key, can leave no running record of it in its process's
view.

**HitlInboxProofs.** `AtMostOneOpen` (OneOpenPerAttempt): of the questions whose
caller has closed the older ones, at most one of an attempt is open.  Only `Ask`
opens a question, and the call owes the closing (`asking`) until `Supersede`;
every other step leaves a row closed that was closed, which needs that the swaps
test the row's present status and not the one read before the await.  `ResumedOnce`: a row that was resumed is "resumed" and no step but the
operator's leads out of it.  `HeardAsStored` (HeardIsStored): a row that is
mapped, resumed or expired keeps its answer (`SettledKeeps`), so a snapshot taken
before the commit still says what the row says (`HeldIsStored`).

`InboxAsksOnce` (AsksOnce) is the refinement, with a lemma for each kind of step
that means something: `Ask` is the abstract `Put`, `Supersede` `CloseOthers`, a
crash `Leave`, a swap to "mapped" `Decide`, the commit of a resume `HandOn`, a
sweep `Expire`, the operator's write `Force`; all else is a stutter (`OthersMeanNothing`).  Beside `HeldIsStored` it needs
`Belongs`: a stored reply is a message to its entry, a row that waits for a
decision has one, and an entry that was never asked is in no sweep and in no
hand - without which an expiry would be an abstract step from "unasked".

*Onboarding.*  `ApprovedOnly` (OnlyApproved) and `WhollyActivated`
(WholeOrNothing), with `OnboardTypeCorrect`.  Neither is inductive: a file that
is written is safe only because of what its writer holds.  `OnboardInv` says
that only the introspection in flight is past `Gather` (`OneAtATime`), that from
`Look` to its end it holds a draft the PM approved (`HoldsApproved`) and the
files are exactly as far as its place says (`FilesInStep`), that a handler loads
only what was approved (`LoadsApproved`), and that outside of these places both
files are there or none, as long as the disk and the process have not failed
(`AtRest`).  `Fit` is what may be in place: what the PM approved and, once a
write has failed or the process has died, a part of it.

**ReplyGateProofs.** `WaiterTable`: nobody waits without being registered and
nobody is registered without waiting, under any encoding of addresses.
`LastWord` (ApprovalIsLastWord) holds under any encoding too: the latest word on
an issue, as the webhook heard it, is a yes, or was not heard by any review, or
is in the hands of one that has yet to heed it (`Unheeded`), as long as an
approval is on file.  It needs that no reply is heard between a review's answer
and its verdict (`ReviewsRead`), and that no pending record is under an address
key, so that `resolveByRunId` never finds one - the same fact by which a late
approval is lost (section 6).  `GateOpensOnWord` (OpenedOnWord) holds for every
encoding, truncated addresses included: a reply is heard by whoever waits under
the address its own address leads to (`RepliesFindTheirAddress`), so what opens
a gate is a yes to the address of a review of its issue, or a wait that another
conversation under its address held, or a failed mail.  `GateOpensOnReview` is
its corollary under `AddressesIntact`, that no two conversations share an
address and an address is stable under a second encoding: there the yes is to a
review of that issue.

**FixLoopProofs.** `FinishedCodePassed` (GreenIsCurrent).  An edit changes the
tree when its call is dispatched but reaches the transcript when the call is
recorded, so the natural claim "evidence newer than the last recorded edit is
of the present tree" is false while calls are in flight.  The invariant says:
green evidence is of the present tree *or* an edit is pending, and no evidence
is newer than the present turn; a recorded edit then makes the evidence stale.
When the turn is quiet nothing is pending.  `WinnerInScope`
(NothingNewOutOfScope) uses the same accounting: every file touched since the
iteration began is in the transcript's changed files or pending.

`EveryIterationCosts` (NoIterationForFree) is the safety half of `Decides`:
every step of the stage takes `IterationsLeft` down, or leaves it and takes a
call of the turn on.  Its numbers are the end of the stage, iterations, stages,
rounds of repair, turns, and whether a call of the turn has finished; that last
one closes the turn to new calls, so `StepsLeft` cannot go up again within a
turn.  A turn has finitely many slots, so no behaviour goes down for ever; that
the next step is taken at all is fairness, and stays with TLC.  Besides the
types it needs `Within`: an iteration under way is one the configuration allows.

**SandboxSessionProofs.** `UndisturbedCallReadsItsRun` (OwnRun) and
`UndisturbedCallRunsWhatIsOwed` (OwedIsKept).  The invariant (`Fine`, per call)
says that a run older than the second of a dispatch cannot be matched, and that
of the runs that can be matched only the call's own was created by a dispatch
made since: `alone` is lost the moment somebody else dispatches the same
workflow.  `Created` bounds what a run can contain by when it was created, which
with `FlushedBelow` (nothing is reported as flushed that is not on the branch)
gives the code, and with the replayed installs the packages.

**ReproLoopProofs.** `CommittedWasReproduced` (ReproducedTwice),
`StageIsATrial` (IsATrial), and facts no run checks: `SuspectsAreReal` (a
dossier recorded in this run suspects only files of the repository) and
`RejectionsAreNamed` (a rejection names what happened in the round it ends), and
`EveryRoundCosts`, below.
`IInv` is the conjunction of `Rounds` (the runs are of the present round),
`Tried` (each place knows which runs there are), `Written` (what is wanted, in
the tree and on the branch agree as far as the place has come), `Reasons` and
`Verdicts`.  The refinement has one lemma per kind of step: writing a test is
the abstract `Change`, a failing run `Fail`, the commit `Accept`, a halt
`Refuse`, all else a stutter; it needs the invariant because the abstract
`Accept` asks for two failures the concrete step only implies.

`EveryRoundCosts` (NoRoundForFree): a step of the stage takes it nearer to its
end, or to the next round, or on within the round, or it is the timeout
(`RoundsLeft`).  A failed write, install, run or weighing leads back through a
repair, and a repair is made in a new round or the rounds are over
(`RepairLeads`).

*AgentLoop.*  `BudgetKept` (BudgetHolds), `AbandonIsHeard` (AbandonHeard) and
`EveryTryCosts` (NoTryForFree), with `AgentTypeCorrect`.  That the calls that ran
stay near the budget is inductive only with those in flight: they were let in on
a count below the total, at most the width of an answer at once (`InBudget`), and
what ran is what was counted, over all tries of a registry (`Counted`).  An
abandon is heard because the registry keeps it whatever try it was made in
(`AbandonKept`) and an agent has an outcome exactly when it is over
(`OverAtOnce`).  `TriesLeft` counts conversations, the correction, routes, steps
and calls: the forced retry resets the correction, the route and the steps and
is weightier than they, and a failover resets the steps only.

**PipelineProofs.** `TypeInv` adds to the types that what is built on is a
tree.  `WorkCarried` (PrCarriesWork): every step between checkout and pull
request leaves HEAD and branch with at least the edits they had (`PastExtends`),
and the branch is never ahead of the directory (`Behind`), so a push, forced or
not, never takes an edit away; what a stage had pushed is still there when the
pull request is opened.  `OwnWorkOnly` (LocalPrIsOwn) and `ShippedAsVerified`
(ShippedIsVerified) rest on `Alone`: if nothing of an earlier pipeline was at
work when this one began, nothing is until it ends, since only its own end
starts a zombie or a watcher.  Then HEAD and branch hold its own edits only -
the leftovers of others stay untracked and local commits name their paths - and
from verification on the files and edits of the branch do not change, squash or
no squash.  `StuckTold` (StuckRunsTold) is a fact on each way out.

**CiWatchProofs.** `FailuresTold` (EveryFailureTold): while a round lasts, each
failure is told of, still to come, or at hand, unless a push was made
(`RoundInv`); a watcher gives up only at the end of a round without a push.
`WorkKept` (HumanWorkKept): what the lease protects is in HEAD, but between
another pipeline's fetch and its checkout (`LeaseCovers`), so an accepted push
contains what it replaces.  `FixedPushed` (FixedIsPushed): `Repaired` says that
between a repair and its push the files have nothing left of the check at hand
that the verification sees, that HEAD has no other complaints than the files when
it is about to be pushed, and that HEAD is the branch at every other time, unless
a push failed before, the maintainer pushed or another pipeline came.

*DesignTalk.*  `NotReopened` (ClosedStaysClosed), `DesignComplete`
(DesignHasDecisions) and `ScopeTaken` (ScopeAsWritten), of one invariant,
`TalkInv`.  The three read the history of a conversation, which no single mail
holds: `Remembered` says of everything said before that the lists in force -
those a follow-up was drafted with, then those stored, then those read back
(`InForce`) - account for it: its decisions are among theirs, and what it closed
is not among their open questions (`AccountedFor`).  A follow-up asks only what
these leave open, so it asks nothing again, and the agreed design has every
decision.  `NothingSaidYet` keeps the conversations about design and about scope apart;
`ScopeSaid` says that the scope is set by one reply and none after it.

*Only model-checked.* Liveness (`DeadClaimExpires`, `EveryEventAnswered`,
`ReplyDecided`, `TalkEnds`, `AgentEnds`, `CallsReturn`, both `Decides`,
`LiveRunsEnd`, `WatchEnds`): fairness and ENABLED are beyond the prover.  Of
`AgentEnds` and both `Decides` it proves that no step goes back; that a step is
taken while one is left, and that a descent ends, which is induction over data,
stay with TLC.


## 6. What the models show of the code

One disagreement with the repository's own words has a run of its own,
`PipelineFix`: with the local driver nothing commits what the fix stage left
uncommitted (a repair round, new test files), and the pull request lacks it.

The others were met while reading and modelling.  The models have the behaviour;
no run is spent on it.

*Claims and mail*

- `completeRun` rewrites whatever record is under the key.  A pipeline that
  outlived six hours (a review may take days) completes its successor's claim,
  and a third pipeline starts beside the second.
- `safeKey` maps `o/x.y#1` and `o/x_y#1` to one key: the second issue is refused
  as already running.
- An address is cut at 63 characters (`resend-mail.ts:56`).  Runs with long
  names share an address between their conversations; a reply to one is then
  taken for another, and the second wait is refused, which the review gate takes
  as approval.  The run ReplyGate is an instance; `OpenedOnWord` says on what
  grounds the gate then opens.
- A pending review is filed under the raw run id and looked up under the one
  parsed from the address (`state-stores.ts:299`); after a restart a yes is lost,
  though the record is written "so a reply that arrives after a restart can
  resolve the gate" (P:2181).  A refusal that comes then is lost as well: it is
  stored where no run looks, an earlier approval of the issue stays on file, and
  the next run skips the gate.  `ApprovalIsLastWord` is therefore about the
  refusals a review hears (`missed` marks the others).
- A reply that comes between two waits goes to the mailbox under the encoded id
  and is looked for under the raw one: it is lost, in all conversations.
- A second reply overwrites `inbound_message_id`, so that a replay of the first
  is mapped again, though `inbox-store.ts:5` says replays are prevented.
- The expiry sweep updates by id alone and overwrites an answer that came
  between its two statements.
- With two replies in the model at once, the first to return decides under the
  text of the second.
- An answer that is committed as resumed before a crash never reaches the
  dossier.  Nothing in `bin/` wires `ingestInboundEmail` or `resumePipeline`.
- A question is created and its older siblings are closed in two statements:
  between them two questions of an attempt are open, and a caller that dies there
  leaves them so.
- A pipeline that throws is logged (`server.ts:240`), and nobody is mailed.

*Onboarding*

- A crash, or a disk that fails, between the two writes leaves a manifest
  without an adapter.  From then on `writeAdapterFiles` refuses ("never
  overwrite"), and every delivery mails the PM a draft that cannot be used; the
  same holds for a manifest an operator wrote by hand.  A crash within the
  rollback leaves an adapter without a manifest: every delivery then fails with
  500.  A crash after the adapter was written leaves a repository without its
  labels.  A write that fails, or a crash in one, may leave a part of a file,
  which nobody removes: a part of an adapter is loaded by the next delivery and
  is an error at best.
- A delivery between writing and labelling starts a pipeline with files that the
  failure of the labels rolls back under it.
- A failure of the labels also drops the PM's approval; that, a failed write and
  a failed mail are told to nobody.
- An approval of an earlier draft that arrives after a revision was mailed
  activates the revision.  Revised drafts are neither compiled nor validated.

*Design and scope*

- The scope a sweep agrees on is not worked on: `extraConfirmedNumbers` is set
  after the confirmed issues were loaded, and nothing reads it again (P:3076-3112),
  although the sweep "Returns the list of confirmed issue numbers to feed into
  fix/build agents."
- "Yes" or "Option 2" is taken for a decision, whatever it is about
  (`pm-email-loop.ts:475-502`), and closes no question, since it has none of its
  words (507-537); the follow-up lists the question as still unresolved, though
  it "Never restates resolved decisions" (line 9).  The other way round, a
  question that a reply only mentions, in a question of its own or in the mail
  quoted below, is closed undecided.  `ClosedStaysClosed` is about what is closed.
- What an approving mail decides is dropped; decisions are only ever added;
  quoted mail is parsed like the reply; what a model returns as open or resolved
  is taken as it is, and `ClosedStaysClosed` speaks of the program's own
  generator.
- Scope replies whose words `ScopeAsWritten` does not cover: "all except 201" is
  all, "142 and 156, not 201" drops all three, "only the primary issue" confirms
  every issue of high confidence.
- The conversation stored for a lost run is neither resumed nor deleted.

*Agents and fix stage*

- The calls of one answer are let in on one count: with three calls in an answer
  a reserve of two is used up by reads, although it is there to "Reserve the
  last N tool calls for terminal/finalization tools"; at the end of the total,
  `abandon` is refused with the message "Emit abandon."
- The cap on model turns is of a registry, but a try that fails over starts
  again on step one: the cap named per registry is one per try.
- An executor whose `done` was accepted and whose next request fails counts as
  an error (`fix-loop/orchestrator.ts:209`).
- A fix may contain edits of an earlier, failed iteration that are out of
  scope: the tree is not reset between iterations and the audit looks at the
  winning one (`fix-loop/orchestrator.ts:236`).
- After a write_test, revise_test or revert_file the remote sandbox may run the
  branch as it was (`tools/index.ts:158`): `GreenIsCurrent` speaks of the local
  driver, and on gha `ShippedIsVerified` of the gate that follows.

*Repro stage and sandbox*

- A flush that fails is swallowed (`builder.ts:298`), and the cached branch phase
  does not push again: the sandbox runs the test as the branch had it, and its
  failures count.  Hence the exception in `ReproducedTwice`.
- The second of the two runs may fail for any reason.  On gha the exit code is
  that of the first command of the batch that fails, replayed installs included:
  an infrastructure failure counts as a failure of an assembled test, which
  expects no output.
- New test files of a rejected round stay in the tree.  With the local driver
  the entry file is committed without its helpers, though P:4106 says "Commit
  ONLY the verified repro file (clean) and push."
- A repair that is given up after a run that passed ends as "already fixed on
  main".  Test files given as a bare array pass the schema and are dropped
  (`note-meta.ts:109`).  A suspect that exists but lies beyond the seed's limit
  is dropped as missing (`note-meta.ts:185`).
- `pickCassette` never finds a cassette, because nothing fills
  `existingCassettes`; the lifecycle template is never used.
- Two calls that dispatch one workflow within one search cannot be told apart:
  `OwnRun` is about the others.  The guard compares two branches by two such
  calls at once; both may read the same run (`regression-guard.ts:309`).  Any
  difference of output counts as a regression, a failure of the infrastructure
  as none.
- The guard's and the usability check's workflow files are not among
  `.github/workflows` of this repository.

*Pipeline, git and watcher*

- The clone is of a single branch (`local-workspace.ts:200`).  The working
  branch then has no tracking ref, git refuses each `--force-with-lease` without
  a value as stale, and a push without a refspec for lack of an upstream branch.
  The squash stays local, the pull request shows the whole history of the
  branch, and the watcher never gets a repair out.  The models let these pushes
  succeed or fail (`tracked` in CiWatch), which covers both.
- The squash soft-resets to upstream as it is now, keeping the files of the
  version the fork was synced to; if upstream moved and the push gets through,
  the one commit takes its changes back.
- `autoFixLint` passes over the failure of `ruff check --fix` and of `ruff
  format`, and takes every output of `ruff check --no-fix` without "Found" for
  clean (`ci-check-watcher.ts:198-211`): a format check, or a configuration that
  does not load, counts as fixed with nothing repaired.  autopep8 (line 217) may
  bring complaints of another linter.  Hence `Blind` in `FixedIsPushed`.
- After a push that failed, the next repair of the round finds nothing staged
  (`core/ci-check-watcher.ts:236`), and its check is counted as fixed with nothing
  pushed; the round ends as one that made a fix, and that head is polled until
  the deadline.  Hence `unpushed` in `FixedIsPushed`.
- Checks are registered one by one: a watcher may call a pull request passed on
  the first.
  The second version drops ruff's output and so always reports a clean file.
- The result of the watcher is logged, though P:4702 speaks of a mail.
- Without mail deps the build loop counts attempts in a text that quotes one,
  so that `max_retries` above 1 is never reached (P:3321-3334).
- A re-trigger resets the branch an open pull request was made from.
- On gha the directory is flushed with `git add -A`: files other pipelines left
  behind get into the branch; hence `LocalPrIsOwn` speaks of the local driver.
- After a squash that failed, the diff shown in the review is of `HEAD~1..HEAD`,
  which is not the whole change (P:4607).
- `combinedRetryContext` drops earlier attempts when a failure's text repeats.


## 7. Abstractions

- Texts are who wrote them, or what functions test in them: a reply is its
  message, or the questions it decides and quotes; a suspect is its file; a
  check is its name.  Where a search through a text matters (an approval keyword
  in the quoted question) there is a value for it (`"quoting"`).
- Answers of language models, of maintainers and of GitHub are choices.
- RunClaim: signatures and event parsing are `Accepts`; several records of a
  namespace are one table, as the PATCH writes them.
- FixLoop: `git diff`, `add` and `commit` of one call are one step, though they
  are three processes; reads and notes of an agent are no steps.  Of the repair
  agent, what it rewrites and whether the tests pass.
- AgentLoop: caps per tier and per tool have the form of the total; provider
  errors are one; a route is a number.
- SandboxSession: the clock of GitHub and of the process are one; polling is a
  step per tick; a batch of commands is its last kind and the packages before it.
- ReproLoop: a stage of a model is one step with any result; the analyst's
  arguments are a small set of evidence that meets every branch of Dossier.
- Onboarding: one repository; the content of a draft is its number, and a part
  of one is not told from a part of another.
- HitlInbox: the time at which a question expires is not kept, as a sweep may
  come at any time; what is not due yet is a sweep that does not select it.
- DesignTalk, ReplyGate: what is written to a store is there when it is read; a
  store that fails is RunClaim's.
- ReproLoop: a revert takes back what was not committed.  The candidates of an
  attempt that appends to a file are not told apart from those that write it.
- Pipeline: a stage is one step, except for the rounds of a reproduction; so
  others act between stages and rounds, not within one.  One pipeline of an
  issue runs at a time.  `alone` is decided at the trigger.  haltAndEmail's
  statuses are one.  A failed mail of a halt counts as told: the code tries once.
- CiWatch: the deadline is an event, as the length of a poll means nothing to
  the properties; the log of a job is whether a version is pinned in it.
- History, written for the properties and never read by a guard: `verdict` in
  ReplyGate, `cut` in HitlInbox, `unpushed` in CiWatch, `startCode` in FixLoop, `passed`, `verified`, `alone`, `told` and
  `pr` in Pipeline, `resumes` and `times` in HitlInbox (read by a bound only),
  `approved` and `spoiled` in Onboarding, `talk` and `scopeWord` in DesignTalk,
  `flushed` and `alone` in SandboxSession.


## 8. What is not modelled

- *Code that nothing in `bin/` runs:* the run state machine and webhook router
  (`core/orchestrator`, `core/webhook`), multi-repo runs, the prober, executor,
  critic and verified state of the repro loop, `setupDependencies` and the
  cancelling of a run in a session, the polling of the Gmail watcher, the resume
  functions of the mail loops, `bootstrapWatchedRepos`, the consumed tokens of
  the inbox.  A model of them would show nothing of the running system.  (The
  second CI watcher is modelled: it shares its steps with the first.)
- *Nothing in them is a behaviour over time:* composition and formatting of
  mail, requests to language models and the parsing of their answers,
  observability (written, never read), manifests and credentials (read once;
  what they decide is a constant), text and path helpers, the hypotheses carried
  between attempts, offline tooling and evaluations.
- *Left out of modelled parts:* HTTP plumbing and signatures, listing and
  reading of files, REST calls on labels, the local sandbox beyond what it runs
  on, what a usability check exercises.


## 9. What would come next

- The descents of CiWatch, whose rounds are bounded only once the deadline has
  passed, and of Pipeline, whose measure has the retries of `retry-loop.ts`
  before its stages.
- An abstract claim (a lock with a lease) that RunClaim implements between
  takeovers, and that Pipeline's repro and fix stages are what ReproLoop and
  FixLoop leave, as refinements.
- SandboxSession under FixLoop, in place of its `RunSandbox` on gha.
