------------------------------- MODULE CiWatch -------------------------------
(***************************************************************************)
(* The watcher of a pull request's checks: core/ci-check-watcher.ts, which *)
(* bin/run-pipeline.ts starts behind an opened pull request and forgets,   *)
(* and core/agents/ci-check-watcher.ts, a second version that nothing      *)
(* calls yet.  It polls the check runs of the head commit, repairs what a  *)
(* linter can repair, amends the commit in the pipeline's directory and    *)
(* force-pushes it, until the checks pass or there is nothing left to do.  *)
(*                                                                         *)
(* Beside it the maintainer pushes to the branch, and a later pipeline of  *)
(* the issue takes the same directory.  Each answer of GitHub is a choice. *)
(***************************************************************************)
EXTENDS Integers, Sequences, SequencesExt

CONSTANTS
  Check,      \* the names of checks
  Linters,    \* by version, those that name a linter (isAutoFixable, isLintCheck)
  Blind,      \* those with complaints the verification does not list: a format
              \* check, a linter whose configuration does not load
  Manual,     \* those isManualOnlyCheck finds a word in; a name may be in both
  MaxHuman,   \* bound: commits of the maintainer
  MaxAmends   \* bound: amended commits

ASSUME ChecksAssumption ==
  /\ Linters \in [{"core", "agents"} -> SUBSET Check]
  /\ Blind \subseteq Check /\ Manual \subseteq Check
  /\ MaxHuman \in Nat /\ MaxAmends \in Nat

VARIABLES
  version,    \* which of the two it is: "core" or "agents"
  tracked,    \* git knows the branch's remote-tracking ref, which a lease needs
  commits,    \* the commits of the branch so far; a sha is an index
  remote,     \* the branch on GitHub, the head of the pull request
  local, tree,  \* the directory: HEAD, and what is left to repair in the files
  seen,       \* the directory's refs/remotes/origin/<branch>
  other,      \* the later pipeline's ensureCheckedOut: "no", "fetched", "done"
  place,      \* where the watcher is
  sha,        \* the head it read
  failed,     \* the checks that failed in this round
  todo,       \* those of them it has still to go through
  check,      \* the one it is at
  pushed,     \* madeAFix, pushedFix
  fixed,      \* autoFixed, autoFixedChecks
  told,       \* requiresHuman, manualActionNeeded
  attempted,  \* attemptedFixes ("agents")
  late,       \* the deadline has passed
  outcome,
  unpushed    \* history: a push has failed, and none has succeeded since

github == <<commits, remote>>
dir == <<local, tree, seen, other>>
lists == <<fixed, told, attempted>>
round == <<sha, failed, todo, check, pushed>>
vars == <<version, tracked, github, dir, place, round, lists, late, outcome, unpushed>>

Fixable == Linters[version]
NoCheck == "no check"
\* What the linters would complain of, and whose work it holds.
Commit(left, work) == [left |-> left, work |-> work]
Humans == UNION {commits[s].work : s \in DOMAIN commits}

TypeOK ==
  /\ version \in DOMAIN Linters /\ tracked \in BOOLEAN
  /\ commits \in Seq([left : SUBSET Fixable, work : SUBSET (1 .. MaxHuman)])
  /\ {remote, local, seen, sha} \subseteq DOMAIN commits
  /\ tree \subseteq Fixable
  /\ other \in {"no", "fetched", "done"}
  /\ place \in {"poll", "fetch", "triage", "fix", "amend", "push", "over"}
  /\ todo \subseteq failed /\ failed \subseteq Check /\ check \in Check \cup {NoCheck}
  /\ fixed \subseteq Fixable /\ told \subseteq Check /\ attempted \subseteq Fixable
  /\ pushed \in BOOLEAN /\ late \in BOOLEAN /\ unpushed \in BOOLEAN
  /\ outcome \in {"open", "passed", "gave up", "timed out", "error"}
  /\ (outcome = "open") = (place # "over")

\* What was opened is what the directory holds.
Init ==
  /\ version \in DOMAIN Linters /\ tracked \in BOOLEAN
  /\ tree \in SUBSET Fixable
  /\ commits = <<Commit(tree, {})>>
  /\ remote = 1 /\ local = 1 /\ seen = 1 /\ other = "no"
  /\ place = "poll" /\ sha = 1 /\ failed = {} /\ todo = {} /\ check = NoCheck /\ pushed = FALSE
  /\ fixed = {} /\ told = {} /\ attempted = {}
  /\ late = FALSE /\ outcome = "open" /\ unpushed = FALSE

-----------------------------------------------------------------------------
(* A poll.  Every way to wait leads back to it.                            *)

Goto(p) == place' = p /\ UNCHANGED outcome
Ends(how) == place' = "over" /\ outcome' = how

\* Mutant: nobody looks at the clock.
PollForever ==
  /\ place = "poll"
  /\ Goto("fetch") /\ sha' = remote
  /\ UNCHANGED <<version, tracked, github, dir, failed, todo, check, pushed, lists, late, unpushed>>

\* The deadline, then the head of the pull request.  If it cannot be read, one
\* version waits, and of the other the error ends it.
Poll ==
  /\ place = "poll"
  /\ \/ late /\ Ends("timed out") /\ UNCHANGED sha
     \/ ~late /\ Goto("fetch") /\ sha' = remote
     \/ ~late /\ version = "core" /\ Ends("error") /\ UNCHANGED sha
  /\ UNCHANGED <<version, tracked, github, dir, failed, todo, check, pushed, lists, late, unpushed>>

\* What GitHub has of that commit, be it still the head or not: no check run yet,
\* or one that is not completed; all good, which a linter's is only if there is
\* nothing left; or some bad, as any may be.  It registers them one by one: the
\* watcher takes those there are for all.
Fetch ==
  /\ place = "fetch"
  /\ \/ Goto("poll") /\ UNCHANGED <<failed, todo, pushed>>
     \/ Check \ commits[sha].left # {} /\ Ends("passed") /\ UNCHANGED <<failed, todo, pushed>>
     \/ \E bad \in (SUBSET Check) \ {{}} :
          failed' = bad /\ todo' = bad /\ pushed' = FALSE /\ Goto("triage")
  /\ UNCHANGED <<version, tracked, github, dir, sha, check, lists, late, unpushed>>

-----------------------------------------------------------------------------
(* The failing checks, one after the other.                                *)

\* The second version tries a check once, and one that also sounds like a manual
\* one only when it has told of it before.
Tries(c) ==
  /\ c \in Fixable
  /\ version = "agents" => c \notin attempted /\ (c \in Manual => c \in told)

Tell(c) ==
  /\ ~Tries(c)
  /\ told' = told \cup {c} /\ Goto("triage") /\ UNCHANGED <<check, attempted>>

Try(c) ==
  /\ Tries(c)
  /\ check' = c /\ Goto("fix") /\ UNCHANGED told
  /\ attempted' = IF version = "agents" THEN attempted \cup {c} ELSE attempted

\* The log does not tell the linter's version: one version of the watcher leaves
\* the check to the humans, the other takes whichever linter is installed.
NoVersion(c) ==
  /\ Tries(c) /\ version = "core"
  /\ told' = told \cup {c} /\ Goto("triage") /\ UNCHANGED <<check, attempted>>

\* Mutant: a check that was tried before is passed over without a word.
TriageOnce ==
  /\ place = "triage"
  /\ \E c \in todo :
       /\ todo' = todo \ {c}
       /\ \/ c \notin attempted /\ (Tell(c) \/ Try(c) \/ NoVersion(c))
          \/ c \in attempted /\ Goto("triage") /\ UNCHANGED <<check, told, attempted>>
  /\ UNCHANGED <<version, tracked, github, dir, sha, failed, pushed, fixed, late, unpushed>>

Triage ==
  /\ place = "triage"
  /\ \E c \in todo : todo' = todo \ {c} /\ (Tell(c) \/ Try(c) \/ NoVersion(c))
  /\ UNCHANGED <<version, tracked, github, dir, sha, failed, pushed, fixed, late, unpushed>>

\* After a push it waits for the new runs; if none was made it gives up.
TriageEnds ==
  /\ place = "triage" /\ todo = {}
  /\ IF pushed THEN Goto("poll") ELSE Ends("gave up")
  /\ UNCHANGED <<version, tracked, github, dir, round, lists, late, unpushed>>

GivesUp == told' = told \cup {check} /\ Goto("triage") /\ UNCHANGED <<pushed, fixed, attempted>>
Counts == fixed' = fixed \cup {check} /\ pushed' = TRUE /\ Goto("triage") /\ UNCHANGED <<told, attempted>>

\* Mutant: what is left after the repair is not looked at.
FixUnverified ==
  /\ place = "fix"
  /\ tree' \in SUBSET Fixable
  /\ Goto("amend") /\ UNCHANGED <<pushed, lists>>
  /\ UNCHANGED <<version, tracked, github, local, seen, other, sha, failed, todo, check, late, unpushed>>

\* The linter is asked again.  The second version drops its answer, and looks for
\* it in the text of the error; the first takes whatever does not speak of
\* complaints found for clean.
Cleared == version = "core" /\ check \notin Blind => check \notin tree'

\* The linter is installed and rewrites the files.  Nobody looks whether it did:
\* it may repair this check's complaints or others', all or none, and what suits
\* one linter another may complain of.
Fix ==
  /\ place = "fix"
  /\ \/ GivesUp /\ UNCHANGED tree
     \/ /\ tree' \in SUBSET Fixable
        /\ \/ ~Cleared /\ GivesUp
           \/ Cleared /\ Goto("amend") /\ UNCHANGED <<pushed, lists>>
  /\ UNCHANGED <<version, tracked, github, local, seen, other, sha, failed, todo, check, late, unpushed>>

\* add -u, commit --amend: also what an earlier failure left in the files.  With
\* nothing to commit one version is done and the other amends all the same.
Amend ==
  /\ place = "amend"
  /\ \/ GivesUp /\ UNCHANGED <<commits, local>>      \* git fails
     \/ /\ version = "core" /\ tree = commits[local].left
        /\ Counts /\ UNCHANGED <<commits, local>>
     \/ /\ version = "agents" \/ tree # commits[local].left
        /\ Len(commits) <= MaxHuman + MaxAmends
        /\ commits' = Append(commits, Commit(tree, commits[local].work))
        /\ local' = Len(commits')
        /\ Goto("push") /\ UNCHANGED <<pushed, lists>>
  /\ UNCHANGED <<version, tracked, remote, tree, seen, other, sha, failed, todo, check, late, unpushed>>

\* Mutant: --force.
PushForced ==
  /\ place = "push"
  /\ \/ GivesUp /\ unpushed' = TRUE /\ UNCHANGED <<remote, seen>>
     \/ Counts /\ unpushed' = FALSE /\ remote' = local /\ seen' = local
  /\ UNCHANGED <<version, tracked, commits, local, tree, other, sha, failed, todo, check, late>>

\* --force-with-lease: only onto what the directory knows of the branch.
Push ==
  /\ place = "push"
  /\ \/ GivesUp /\ unpushed' = TRUE /\ UNCHANGED <<remote, seen>>
     \/ /\ tracked /\ seen = remote
        /\ Counts /\ unpushed' = FALSE /\ remote' = local /\ seen' = local
  /\ UNCHANGED <<version, tracked, commits, local, tree, other, sha, failed, todo, check, late>>

-----------------------------------------------------------------------------
(* The others.                                                             *)

watcher == <<place, round, lists, outcome, unpushed>>

\* The maintainer pushes to the branch.
HumanPush ==
  /\ \E n \in 1 .. MaxHuman, left \in SUBSET Fixable :
       /\ Humans = 1 .. n - 1
       /\ commits' = Append(commits, Commit(left, commits[remote].work \cup {n}))
  /\ remote' = Len(commits')
  /\ UNCHANGED <<version, tracked, dir, watcher, late>>

\* ensureCheckedOut of a later pipeline: fetch, then checkout and reset.
OtherFetches ==
  /\ other = "no" /\ other' = "fetched" /\ seen' = remote
  /\ UNCHANGED <<version, tracked, github, local, tree, watcher, late>>

OtherChecksOut ==
  /\ other = "fetched" /\ other' = "done"
  /\ local' = seen /\ tree' = commits[seen].left
  /\ UNCHANGED <<version, tracked, github, seen, watcher, late>>

Deadline ==
  /\ ~late /\ late' = TRUE
  /\ UNCHANGED <<version, tracked, github, dir, watcher>>

-----------------------------------------------------------------------------
Watch == Poll \/ Fetch \/ Triage \/ TriageEnds \/ Fix \/ Amend \/ Push
Others == HumanPush \/ OtherFetches \/ OtherChecksOut

Next == Watch \/ Others \/ Deadline

\* Requests and linters come back and time passes; checks may hang for ever.
Spec == Init /\ [][Next]_vars /\ WF_vars(Watch) /\ WF_vars(Deadline)

-----------------------------------------------------------------------------
(* Properties *)

\* The maintainer's commits are never pushed over (--force-with-lease), unless a
\* later pipeline of the issue stands between its fetch and its checkout: the
\* lease then holds for a commit the directory's HEAD does not contain.
HumanWorkKept ==
  [][commits[remote].work \subseteq commits'[remote'].work \/ other = "fetched"]_vars

\* A check that comes to be counted as fixed is repaired in the commit of the
\* directory, and that commit is the branch, whatever repairs, amends and pushes
\* failed before (autoFixed of the version in use).  Not meant: complaints the
\* verification does not list; a push that failed before this one or a commit of
\* the maintainer, which leave the branch apart from the directory; another
\* pipeline in the directory.
FixedIsPushed ==
  [][version = "core" /\ other = "no" =>
       \A c \in fixed' \ fixed :
         /\ c \in Blind \/ c \notin commits'[local'].left
         /\ remote' = local' \/ unpushed \/ Humans # {}]_vars

\* No failure gets lost between the rounds: a watcher that gives up has told of
\* each check that failed last, those it once counted as fixed included.
EveryFailureTold ==
  outcome = "gave up" => failed # {} /\ failed \subseteq told

\* It ends, though repairs that do not clear a check, checks that hang and
\* requests that fail all lead back to the poll.
WatchEnds == <>(place = "over")
=============================================================================
