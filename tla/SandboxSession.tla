--------------------------- MODULE SandboxSession ---------------------------
(***************************************************************************)
(* A SandboxSession runs commands on GitHub Actions: it pushes the branch,  *)
(* probes the workflow file, dispatches the workflow, looks for the run it  *)
(* started among the runs of that workflow, waits for it and reads what it  *)
(* left (core/sandbox-session.ts, bin/clients/github-actions.ts,            *)
(* core/agents/adapters/sandbox-gh-actions.ts).  The verification gate is a *)
(* caller: its regression guard runs one test command on two branches at    *)
(* once (core/agents/regression-guard.ts, core/agents/usability.ts).        *)
(*                                                                         *)
(* All sessions, of all pipelines, share the workflow files of one          *)
(* repository.  A dispatch answers without the id of the run, so the run is *)
(* found by the second it was created in.  A container starts empty: what   *)
(* was installed in one run is installed again in the next.                 *)
(***************************************************************************)
EXTENDS Integers

CONSTANTS
  Session,
  Slot,         \* calls a session can have in flight
  Profiles,     \* the kinds of calls an owner of a session makes
  Pkg,          \* packages an agent installs
  NoRun,
  TicksPerSecond,
  AppearWait,   \* ticks a call looks for its run (waitForRun, at most 3 min)
  RunWait,      \* ticks it waits for the end (timeoutMins)
  MaxRuns,      \* bound: runs GitHub starts, below the ten of a page
  MaxEdits,     \* bound: versions of a workspace
  MaxTime       \* bound: the clock stops, waits still expire

Recipe == {"repro", "pip"}
Compared == {"fork", "upstream"}
Kind == Recipe \cup Compared \cup {"search", "usability"}
Call == Session \X Slot
RunId == 1..MaxRuns

VARIABLES
  uses,      \* [session]: the kinds of calls its owner makes
  now,
  runs,      \* [run id]: what GitHub knows of a run
  remote,    \* [session]: version of the files on the branch
  flushed,   \* history, [session]: the version last reported as flushed
  phase,     \* [session][phase]: phaseResults
  ready,     \* [session]: preDispatchReady of the adapter
  installs,  \* [session]: replayInstallCommands
  call,      \* [call]: a call in flight
  verdict    \* [session]: of the regression guard

vars == <<uses, now, runs, remote, flushed, phase, ready, installs, call, verdict>>

-----------------------------------------------------------------------------
Workflow(k) ==
  CASE k \in Recipe -> "sandbox.yml"
    [] k \in Compared -> "regression-test.yml"
    [] k = "search" -> "semantic-search.yml"
    [] k = "usability" -> "usability-test.yml"

Code == 0..MaxEdits
Exit == {"pass", "fail"}
Run == [kind : Kind, branch : Session \cup {"main"}, pkgs : SUBSET Pkg,
        created : Int, code : Code \cup {-1},
        exit : Exit \cup {"none"}]
ASSUME SandboxAssumption ==
  /\ Profiles \subseteq SUBSET Kind
  /\ NoRun \notin RunId \cup Run /\ "main" \notin Session
  /\ TicksPerSecond \in Nat \ {0} /\ AppearWait \in Nat /\ RunWait \in Nat
  /\ MaxRuns \in Nat /\ MaxEdits \in Nat /\ MaxTime \in Nat

Open == {"begin", "probe", "assert", "posting", "listing", "waiting"}
Ended == {"ok", "timeout", "failed"}

\* pkgs: what is installed, cutoff: createdAfter, left: ticks left of a wait,
\* run: the run found.  History: own, the run that was started; alone, no other
\* dispatch of the workflow meanwhile; owed, what was flushed and installed when
\* the call began.
CallState ==
  [at : Open \cup Ended \cup {"idle"}, kind : Kind, pkgs : SUBSET Pkg,
   cutoff : Nat, left : Nat, run : RunId \cup {NoRun},
   own : RunId \cup {NoRun}, alone : BOOLEAN,
   owed : [code : Code, pkgs : SUBSET Pkg]]

Idle ==
  [at |-> "idle", kind |-> "repro", pkgs |-> {}, cutoff |-> 0, left |-> 0,
   run |-> NoRun, own |-> NoRun, alone |-> FALSE, owed |-> [code |-> 0, pkgs |-> {}]]

TypeOK ==
  /\ uses \in [Session -> Profiles] /\ now \in Nat
  /\ runs \in [RunId -> Run \cup {NoRun}]
  /\ remote \in [Session -> Code] /\ flushed \in [Session -> Code]
  /\ phase \in [Session -> [{"branch", "workflow"} -> {"none", "ok", "failed"}]]
  /\ ready \in [Session -> BOOLEAN]
  /\ installs \in [Session -> SUBSET Pkg]
  /\ call \in [Call -> CallState]
  /\ verdict \in [Session -> {"none", "same", "differs", "not run"}]

\* The constructor has rejected a workflow repository that is the target's.
Init ==
  /\ uses \in [Session -> Profiles] /\ now = 0
  /\ runs = [r \in RunId |-> NoRun]
  /\ remote = [s \in Session |-> 0] /\ flushed = [s \in Session |-> 0]
  /\ phase = [s \in Session |-> [p \in {"branch", "workflow"} |-> "none"]]
  /\ ready = [s \in Session |-> FALSE]
  /\ installs = [s \in Session |-> {}]
  /\ call = [c \in Call |-> Idle]
  /\ verdict = [s \in Session |-> "none"]

At(c) == call[c].at
KindOf(c) == call[c].kind
Goto(c, place) == call' = [call EXCEPT ![c].at = place]

\* A call that ends without a result: the caller is told, the guard waits for
\* both of its calls.
After(c, how) ==
  IF KindOf(c) \in Compared THEN [Idle EXCEPT !.at = how, !.kind = KindOf(c)] ELSE Idle
Drop(c, how) == call' = [call EXCEPT ![c] = After(c, how)]

Record(s, p, result) == phase' = [phase EXCEPT ![s][p] = result]

\* A timestamp of GitHub is in whole seconds, createdAfter in milliseconds.
SecondOf(t) == t - (t % TicksPerSecond)

-----------------------------------------------------------------------------
(* The caller: an agent's tool calls, which may be several in a turn, the   *)
(* semantic search, the gate.                                               *)

\* ensureReadyForDispatch is skipped when it has succeeded since the last flush;
\* the usability agent relies on the branch phase of the gate.
FirstStep(s, k) ==
  IF k = "usability" THEN "probe"
  ELSE IF k \in Recipe /\ ready[s] THEN "assert" ELSE "begin"

\* Bound: calls begin while there are runs to be had.
MoreRuns == \E r \in RunId : runs[r] = NoRun

\* An agent's tool call, through the adapter.
AgentAsks(k, ps) == k \in Recipe /\ (k = "pip" <=> ps # {})

\* runSemanticWorkflow.
SearchAsks(k, ps) == k = "search" /\ ps = {}

\* runUsabilityAgent, which the gate begins when the guard is through.
UsabilityAsks(s, k, ps) == k = "usability" /\ ps = {} /\ verdict[s] # "none"

Begin(c, k, ps) ==
  LET s == c[1]
  IN  /\ At(c) = "idle" /\ MoreRuns /\ k \in uses[s]
      /\ AgentAsks(k, ps) \/ SearchAsks(k, ps) \/ UsabilityAsks(s, k, ps)
      /\ call' = [call EXCEPT ![c] =
           [Idle EXCEPT !.at = FirstStep(s, k), !.kind = k,
                        !.pkgs = ps,
                        !.owed = [code |-> flushed[s], pkgs |-> installs[s]]]]
      /\ UNCHANGED <<uses, now, runs, remote, flushed, phase, ready, installs, verdict>>

\* Faulty: the flush goes through the cached branch phase.
FlushCached(s) ==
  /\ remote[s] < MaxEdits /\ \E k \in Recipe : k \in uses[s]
  /\ ready' = [ready EXCEPT ![s] = FALSE]
  /\ flushed' = [flushed EXCEPT ![s] = @ + 1]
  /\ remote' = [remote EXCEPT ![s] = IF phase[s]["branch"] = "ok" THEN @ ELSE @ + 1]
  /\ UNCHANGED <<uses, now, runs, phase, installs, call, verdict>>

\* The agent writes files and has them flushed (flushWorkspaceToBranch); a push
\* that fails is thrown to it.
Flush(s) ==
  /\ remote[s] < MaxEdits /\ \E k \in Recipe : k \in uses[s]
  /\ ready' = [ready EXCEPT ![s] = FALSE]
  /\ \/ /\ remote' = [remote EXCEPT ![s] = @ + 1]
        /\ flushed' = [flushed EXCEPT ![s] = @ + 1]
     \/ UNCHANGED <<remote, flushed>>
  /\ UNCHANGED <<uses, now, runs, phase, installs, call, verdict>>

\* The caller has its result.
Return(c) ==
  /\ At(c) \in Ended
  /\ KindOf(c) \in Compared => verdict[c[1]] # "none"
  /\ call' = [call EXCEPT ![c] = Idle]
  /\ UNCHANGED <<uses, now, runs, remote, flushed, phase, ready, installs, verdict>>

-----------------------------------------------------------------------------
(* The phases before a dispatch.                                            *)

\* verifyAndPushBranch: a success is cached; a branch that is pushed but not
\* confirmed counts as a failure.  What it pushes was reported by no flush.
VerifyBranch(c) ==
  LET s == c[1]
  IN  /\ At(c) = "begin"
      /\ \/ phase[s]["branch"] = "ok" /\ Goto(c, "probe") /\ UNCHANGED phase
         \/ /\ phase[s]["branch"] # "ok"
            /\ \/ Record(s, "branch", "ok") /\ Goto(c, "probe")
               \/ Record(s, "branch", "failed") /\ Drop(c, "failed")
      /\ UNCHANGED <<uses, now, runs, remote, flushed, ready, installs, verdict>>

\* verifyWorkflowReachability: one result for all workflow files.
VerifyWorkflow(c) ==
  LET s == c[1]
  IN  /\ At(c) = "probe"
      /\ \/ /\ Record(s, "workflow", "ok") /\ Goto(c, "assert")
            /\ ready' = [ready EXCEPT ![s] = @ \/ KindOf(c) \in Recipe]
         \/ Record(s, "workflow", "failed") /\ Drop(c, "failed") /\ UNCHANGED ready
      /\ UNCHANGED <<uses, now, runs, remote, flushed, installs, verdict>>

\* assertPhaseSucceeded.
Asserted(c) == \A p \in {"branch", "workflow"} : phase[c[1]][p] = "ok"

\* buildInstallReplayCommands: the batch of a recipe begins with the installs
\* so far.
Batch(c) == call[c].pkgs \cup (IF KindOf(c) \in Recipe THEN installs[c[1]] ELSE {})

\* The moment before the request.
Prepare(c) ==
  /\ At(c) = "assert"
  /\ IF Asserted(c)
       THEN call' = [call EXCEPT ![c].at = "posting", ![c].cutoff = now,
                                 ![c].pkgs = Batch(c), ![c].alone = TRUE]
       ELSE Drop(c, "failed")
  /\ UNCHANGED <<uses, now, runs, remote, flushed, phase, ready, installs, verdict>>

-----------------------------------------------------------------------------
(* Dispatching and waiting.                                                 *)

Fail(c, how) ==
  /\ Drop(c, how)
  /\ UNCHANGED <<uses, now, runs, remote, flushed, phase, ready, installs, verdict>>

NewRun(c) ==
  [kind |-> KindOf(c), branch |-> IF KindOf(c) = "upstream" THEN "main" ELSE c[1],
   pkgs |-> call[c].pkgs, created |-> SecondOf(now),
   code |-> -1, exit |-> "none"]

\* A dispatch of c disturbs d, if d may still take the new run for its own.
Disturbs(c, d) ==
  /\ d # c /\ At(d) \in {"posting", "listing"}
  /\ Workflow(KindOf(d)) = Workflow(KindOf(c))

\* GitHub accepts the dispatch, which takes a tick; its answer may be lost.
Post(c, r) ==
  /\ At(c) = "posting" /\ now < MaxTime
  /\ runs[r] = NoRun /\ \A q \in RunId : q < r => runs[q] # NoRun
  /\ now' = now + 1
  /\ runs' = [runs EXCEPT ![r] = NewRun(c)]
  /\ \E lost \in BOOLEAN :
       call' = [d \in Call |->
         IF d # c THEN [call[d] EXCEPT !.alone = @ /\ ~Disturbs(c, d)]
         ELSE IF lost THEN After(c, "failed")
         ELSE [call[c] EXCEPT !.at = "listing", !.left = AppearWait, !.own = r]]
  /\ UNCHANGED <<uses, remote, flushed, phase, ready, installs, verdict>>

\* 404, 422, or anything else.
PostFails(c) == At(c) = "posting" /\ Fail(c, "failed")

\* Faulty: whatever run of the workflow is newest.
CandidatesAnyTime(c) ==
  {r \in RunId : runs[r] # NoRun /\ Workflow(runs[r].kind) = Workflow(KindOf(c))}

\* getWorkflowRun compares nothing but the workflow and the time.
Candidates(c) ==
  {r \in RunId : /\ runs[r] # NoRun
                 /\ Workflow(runs[r].kind) = Workflow(KindOf(c))
                 /\ runs[r].created >= call[c].cutoff}

\* It takes the newest of those GitHub lists, which may be any of them: a run
\* may take a minute or more to appear.
List(c) ==
  /\ At(c) = "listing" /\ call[c].left > 0
  /\ \E r \in Candidates(c) :
       call' = [call EXCEPT ![c].at = "waiting", ![c].run = r,
                            ![c].left = RunWait, ![c].cutoff = 0]
  /\ UNCHANGED <<uses, now, runs, remote, flushed, phase, ready, installs, verdict>>

\* Polls that find nothing change nothing, until the wait is over.
ListEnds(c) == At(c) = "listing" /\ call[c].left = 0 /\ Fail(c, "failed")

\* Faulty: it waits as long as the run is alive.
PollEndsLate(c) ==
  /\ At(c) = "waiting" /\ call[c].left = 0
  /\ runs[call[c].run].exit # "none"
  /\ Fail(c, "timeout")

\* The run goes on: nobody cancels it.
PollEnds(c) == At(c) = "waiting" /\ call[c].left = 0 /\ Fail(c, "timeout")

\* A poll that is answered with an error is caught nowhere in the session.
PollThrows(c) == At(c) \in {"listing", "waiting"} /\ Fail(c, "failed")

\* The exit code is that of the first command that failed, a replayed install
\* included; without an artifact it is what the conclusion says.
ExitCode(c) == IF runs[call[c].run].exit = "pass" THEN 0 ELSE 1

Read(c) ==
  /\ At(c) = "waiting" /\ call[c].left > 0
  /\ runs[call[c].run].exit # "none"
  /\ call' = [call EXCEPT ![c].at = "ok", ![c].left = 0]
  /\ installs' = IF KindOf(c) = "pip" /\ ExitCode(c) = 0
                   THEN [installs EXCEPT ![c[1]] = @ \cup call[c].pkgs] ELSE installs
  /\ UNCHANGED <<uses, now, runs, remote, flushed, phase, ready, verdict>>

\* The logs cannot be read, or the artifact is malformed.
ReadFails(c) ==
  /\ At(c) = "waiting" /\ call[c].left > 0
  /\ runs[call[c].run].exit # "none"
  /\ Fail(c, "failed")

-----------------------------------------------------------------------------
(* The regression guard of the verification gate.                           *)

Guarded(s, k, code) ==
  [Idle EXCEPT !.at = "posting", !.kind = k, !.cutoff = now, !.alone = TRUE,
               !.owed.code = code]

\* The branch is pushed, the workflow probed, both dispatches begin at once.
GuardBegins(c, d) ==
  LET s == c[1]
  IN  /\ s = d[1] /\ c # d /\ Compared \subseteq uses[s]
      /\ verdict[s] = "none" /\ At(c) = "idle" /\ At(d) = "idle"
      /\ phase' = [phase EXCEPT ![s]["branch"] = "ok", ![s]["workflow"] = "ok"]
      /\ call' = [call EXCEPT ![c] = Guarded(s, "fork", flushed[s]),
                              ![d] = Guarded(s, "upstream", 0)]
      /\ UNCHANGED <<uses, now, runs, remote, flushed, ready, installs, verdict>>

\* Whatever fails in the gate does not block the pull request.
GuardFails(s) ==
  /\ Compared \subseteq uses[s] /\ verdict[s] = "none"
  /\ \A a \in Slot : At(<<s, a>>) = "idle"
  /\ verdict' = [verdict EXCEPT ![s] = "not run"]
  /\ \/ Record(s, "branch", "failed")
     \/ phase' = [phase EXCEPT ![s]["branch"] = "ok", ![s]["workflow"] = "failed"]
  /\ UNCHANGED <<uses, now, runs, remote, flushed, ready, installs, call>>

\* diffOutputs: time-outs, exit codes, outputs.  Two results of one run, or two
\* time-outs, are equal.
Diff(c, d) ==
  {v \in {"same", "differs"} :
     /\ v = "same" => At(c) = At(d) /\ (At(c) = "ok" => ExitCode(c) = ExitCode(d))
     /\ v = "differs" => At(c) # At(d) \/ call[c].run # call[d].run}

Compare(c, d) ==
  LET s == c[1]
  IN  /\ s = d[1] /\ KindOf(c) = "fork" /\ KindOf(d) = "upstream"
      /\ {At(c), At(d)} \subseteq {"ok", "timeout"}
      /\ verdict[s] = "none"
      /\ \E v \in Diff(c, d) : verdict' = [verdict EXCEPT ![s] = v]
      /\ UNCHANGED <<uses, now, runs, remote, flushed, phase, ready, installs, call>>

\* Promise.all rejects; the other call goes on.
GuardThrows(c) ==
  /\ KindOf(c) \in Compared /\ At(c) = "failed"
  /\ verdict[c[1]] = "none"
  /\ verdict' = [verdict EXCEPT ![c[1]] = "not run"]
  /\ UNCHANGED <<uses, now, runs, remote, flushed, phase, ready, installs, call>>

-----------------------------------------------------------------------------
(* GitHub and the clock.                                                    *)

\* The job clones the branch and runs the batch up to the first command that
\* fails, which may be a replayed install; it may also fail beside the commands,
\* or before it has cloned anything.
Job(r, e) ==
  /\ runs[r] # NoRun /\ runs[r].exit = "none"
  /\ \E cloned \in BOOLEAN :
       /\ e = "pass" => cloned
       /\ runs' = [runs EXCEPT ![r].exit = e,
                     ![r].code = IF ~cloned THEN -1
                                 ELSE IF runs[r].branch = "main" THEN 0
                                 ELSE remote[runs[r].branch]]
  /\ UNCHANGED <<uses, now, remote, flushed, phase, ready, installs, call, verdict>>

Tick ==
  /\ now < MaxTime \/ \E c \in Call : call[c].left > 0
  /\ now' = IF now < MaxTime THEN now + 1 ELSE now
  /\ call' = [c \in Call |-> [call[c] EXCEPT !.left = IF @ > 0 THEN @ - 1 ELSE 0]]
  /\ UNCHANGED <<uses, runs, remote, flushed, phase, ready, installs, verdict>>

CallStep(c) ==
  \/ VerifyBranch(c) \/ VerifyWorkflow(c) \/ Prepare(c)
  \/ (\E r \in RunId : Post(c, r)) \/ PostFails(c)
  \/ List(c) \/ ListEnds(c) \/ PollEnds(c) \/ Read(c) \/ ReadFails(c)

Next ==
  \/ \E c \in Call :
       \/ \E k \in Kind, ps \in SUBSET Pkg : Begin(c, k, ps)
       \/ CallStep(c) \/ PollThrows(c) \/ Return(c) \/ GuardThrows(c)
       \/ \E d \in Call : GuardBegins(c, d) \/ Compare(c, d)
  \/ \E s \in Session : Flush(s) \/ GuardFails(s)
  \/ \E r \in RunId, e \in Exit : Job(r, e)
  \/ Tick

Spec == Init /\ [][Next]_vars

\* Time passes and the process runs; GitHub owes nothing.
FairSpec == Spec /\ WF_vars(Tick) /\ \A c \in Call : WF_vars(CallStep(c))

-----------------------------------------------------------------------------
(* Properties.                                                              *)

\* A call during whose dispatch nobody else dispatched the same workflow reads
\* the result of the run it started, and not of an earlier one that was given up
\* or listed late (getWorkflowRun, waitForRun).
OwnRun ==
  \A c \in Call : At(c) = "ok" /\ call[c].alone => call[c].run = call[c].own

\* Such a result is of code at least as new as what was on the branch when the
\* call began, if the job got as far as cloning it, and the batch installed
\* every package whose installation had been reported before
\* (flushWorkspaceToBranch, recordReplayInstallCommand).
OwedIsKept ==
  \A c \in Call : At(c) = "ok" /\ call[c].alone /\ KindOf(c) \in Recipe =>
    /\ runs[call[c].run].code = -1 \/ runs[call[c].run].code >= call[c].owed.code
    /\ call[c].owed.pkgs \subseteq runs[call[c].run].pkgs

\* Every call comes back, whatever becomes of its run (waitForRun and
\* waitForWorkflowRun are bounded).
CallsReturn == \A c \in Call : At(c) \in Open ~> At(c) \notin Open

=============================================================================
