--------------------------- MODULE PipelineProofs ---------------------------
(***************************************************************************)
(* Invariants of Pipeline, for any deployments, any number of pipelines,   *)
(* versions of upstream, rounds and retries.                               *)
(***************************************************************************)
EXTENDS Pipeline, TLAPS

Dirs == [head : Trees \cup {NoTree}, dirty : SUBSET Edits, loose : SUBSET Edits,
         seen : BOOLEAN, linear : BOOLEAN]

\* The stages in which the directory is that of the pipeline's branch.
Past == Stages \ {"idle", "triage", "fork", "install", "checkout"}

-----------------------------------------------------------------------------
(* Types.  A tree that is built on is a tree.                              *)

Started == stage # "idle" => run.n \in 1 .. MaxRuns
CheckedOut == stage \in Past \/ zombies # {} \/ watchers # {} => ws.head \in Trees
Branched == stage \notin {"idle", "triage", "fork"} => remote \in Trees
TypeInv == TypeOK /\ Started /\ CheckedOut /\ Branched

\* A pipeline's own edits are edits.
LEMMA OwnEdits ==
  ASSUME run.n \in 1 .. MaxRuns, NEW kinds \in SUBSET Kinds
  PROVE  /\ Own(kinds) \subseteq Edits
         /\ \A e \in Own(kinds) : e[2] = run.n
BY DEF Own, Edits

\* With adds edits to a tree and changes nothing else.
LEMMA WithTree ==
  ASSUME NEW tree \in Trees, NEW edits \in SUBSET Edits
  PROVE  /\ With(tree, edits) \in Trees
         /\ With(tree, edits).edits = tree.edits \cup edits
         /\ With(tree, edits).files = tree.files
         /\ With(tree, edits).onto = tree.onto
BY DEF With, Trees

\* Directories stay directories.
LEMMA DirTypes ==
  ASSUME NEW dir \in Dirs, dir.head \in Trees, NEW edits \in SUBSET Edits
  PROVE  /\ CommitPaths(dir, edits) \in Dirs /\ CommitPaths(dir, edits).head \in Trees
         /\ CommitAll(dir) \in Dirs /\ CommitAll(dir).head \in Trees
         /\ CommitPaths(dir, edits).head = With(dir.head, edits)
         /\ CommitAll(dir).head = With(dir.head, dir.dirty \cup dir.loose)
<1>1. With(dir.head, edits) \in Trees /\ With(dir.head, dir.dirty \cup dir.loose) \in Trees
  BY WithTree DEF Dirs
<1> QED
  BY <1>1 DEF CommitPaths, CommitAll, Dirs

\* A push, forced or not, changes the branch to the head of the directory or
\* not at all.
LEMMA PushEffect ==
  ASSUME NEW dir, NEW ok, Push(dir, ok)
  PROVE  ws' = dir /\ remote' \in {remote, dir.head}
BY Zenon DEF Push

\* A forced push leaves the branch as it was or as HEAD is.
LEMMA ForcePushEffect ==
  ASSUME NEW dir \in Dirs, NEW ok \in BOOLEAN, ForcePush(dir, ok)
  PROVE  ws' \in Dirs /\ ws'.head = dir.head /\ remote' \in {remote, dir.head}
<1>1. ws' = [dir EXCEPT !.linear = @ \/ ok] /\ remote' \in {remote, dir.head}
  BY Zenon DEF ForcePush
<1>2. (dir.linear \/ ok) \in BOOLEAN
  OBVIOUS
<1> QED
  BY <1>1, <1>2 DEF Dirs

\* A step that commits in the directory, if anything, and pushes, if it can.
Extends ==
  /\ ws' \in Dirs /\ ws'.head \in Trees
  /\ ws.head.edits \subseteq ws'.head.edits
  /\ ws'.head.files = ws.head.files
  /\ remote' \in {remote, ws'.head}

\* A round of a reproduction is one, and pushes what it commits or commits
\* nothing.
LEMMA CandidateExtends ==
  ASSUME ws \in Dirs, ws.head \in Trees, NEW n \in 1 .. MaxRuns, NEW ok, Candidate(n, ok)
  PROVE  Extends /\ (~conf.gha => ws'.head = ws.head)
<1> DEFINE dir == [ws EXCEPT !.loose = @ \cup {<<"scratch", n>>}]
<1>1. <<"scratch", n>> \in Edits
  BY DEF Edits, Kinds
<1>2. dir \in Dirs /\ dir.head = ws.head
  BY <1>1 DEF Dirs
<1> HIDE DEF dir
<1>3. \/ conf.gha /\ Push(CommitAll(dir), ok)
      \/ ws' = dir /\ UNCHANGED remote
  BY Zenon DEF Candidate, dir
<1>4. CASE conf.gha /\ Push(CommitAll(dir), ok)
  <2>1. ws' = CommitAll(dir) /\ remote' \in {remote, CommitAll(dir).head}
    BY <1>4, PushEffect
  <2>2. /\ CommitAll(dir) \in Dirs /\ CommitAll(dir).head \in Trees
        /\ CommitAll(dir).head = With(ws.head, dir.dirty \cup dir.loose)
    BY <1>2, DirTypes
  <2>3. dir.dirty \cup dir.loose \in SUBSET Edits
    BY <1>2 DEF Dirs
  <2> QED
    BY <1>4, <2>1, <2>2, <2>3, WithTree DEF Extends
<1>5. CASE ws' = dir /\ UNCHANGED remote
  BY <1>2, <1>5 DEF Extends
<1> QED
  BY <1>3, <1>4, <1>5

\* So is a push of everything in the directory.
LEMMA CommitAllExtends ==
  ASSUME ws \in Dirs, ws.head \in Trees, NEW ok, Push(CommitAll(ws), ok)
  PROVE  Extends
<1>1. ws' = CommitAll(ws) /\ remote' \in {remote, CommitAll(ws).head}
  BY PushEffect
<1>2. /\ CommitAll(ws) \in Dirs /\ CommitAll(ws).head \in Trees
      /\ CommitAll(ws).head = With(ws.head, ws.dirty \cup ws.loose)
  BY DirTypes
<1>3. ws.dirty \cup ws.loose \in SUBSET Edits
  BY DEF Dirs
<1> QED
  BY <1>1, <1>2, <1>3, WithTree DEF Extends

\* And of a commit of a pipeline's own edits, whatever loose files it leaves.
LEMMA CommitPathsExtends ==
  ASSUME ws \in Dirs, ws.head \in Trees, NEW dir \in Dirs, dir.head = ws.head,
         NEW edits \in SUBSET Edits, NEW loose \in SUBSET Edits, NEW ok,
         Push([CommitPaths(dir, edits) EXCEPT !.loose = @ \cup loose], ok)
  PROVE  Extends /\ ws'.head.edits = ws.head.edits \cup edits
<1> DEFINE new == [CommitPaths(dir, edits) EXCEPT !.loose = @ \cup loose]
<1>1. /\ CommitPaths(dir, edits) \in Dirs /\ CommitPaths(dir, edits).head \in Trees
      /\ CommitPaths(dir, edits).head = With(ws.head, edits)
  BY DirTypes
<1>2. new \in Dirs /\ new.head = With(ws.head, edits)
  BY <1>1 DEF Dirs
<1> HIDE DEF new
<1>3. ws' = new /\ remote' \in {remote, new.head}
  BY PushEffect DEF new
<1> QED
  BY <1>1, <1>2, <1>3, WithTree DEF Extends

\* What the fix stage leaves.
LEMMA FixLeavesExtends ==
  ASSUME ws \in Dirs, ws.head \in Trees, run.n \in 1 .. MaxRuns,
         NEW made \in SUBSET Own(FixKinds), NEW ok, FixLeaves(made, ok)
  PROVE  Extends /\ ws'.head.edits \subseteq ws.head.edits \cup Own(FixKinds)
<1> DEFINE head == With(ws.head, made \cap Own({"fix"}))
           new == [ws EXCEPT !.head = With(@, made \cap Own({"fix"})),
                             !.dirty = @ \cup (made \cap Own({"repair"})),
                             !.loose = @ \cup (made \cap Own({"test"}))]
<1>1. made \in SUBSET Edits
  BY OwnEdits DEF FixKinds, Kinds
<1>2. /\ head \in Trees /\ head.files = ws.head.files
      /\ head.edits = ws.head.edits \cup (made \cap Own({"fix"}))
  BY <1>1, WithTree
<1> HIDE DEF head
<1>3. new \in Dirs /\ new.head = head
  BY <1>1, <1>2 DEF Dirs, head
<1> HIDE DEF new
<1>4. ws' = new /\ remote' \in {remote, new.head}
  BY PushEffect DEF FixLeaves, new
<1> QED
  BY <1>2, <1>3, <1>4 DEF Extends

\* And so is what the watcher of a pull request amends.
LEMMA AmendExtends ==
  ASSUME ws \in Dirs, ws.head \in Trees, NEW n \in 1 .. MaxRuns, NEW ok \in BOOLEAN,
         ForcePush(Amended(ws, {<<"lint", n>>}), ok)
  PROVE  Extends
<1> DEFINE head == With(ws.head, ws.dirty \cup {<<"lint", n>>})
           new == Amended(ws, {<<"lint", n>>})
           linear == ws.linear /\ ws.head # remote
<1>1. ws.dirty \cup {<<"lint", n>>} \in SUBSET Edits
  BY DEF Dirs, Edits, Kinds
<1>2. /\ head \in Trees /\ head.files = ws.head.files
      /\ ws.head.edits \subseteq head.edits
  BY <1>1, WithTree
<1>3. new = [ws EXCEPT !.head = head, !.dirty = {}, !.linear = linear]
  BY Zenon DEF Amended
<1>4. linear \in BOOLEAN
  OBVIOUS
<1> HIDE DEF head, new, linear
<1>5. new \in Dirs /\ new.head = head
  BY <1>2, <1>3, <1>4 DEF Dirs
<1>6. ws' \in Dirs /\ ws'.head = new.head /\ remote' \in {remote, new.head}
  BY <1>5, ForcePushEffect DEF new
<1> QED
  BY <1>2, <1>5, <1>6 DEF Extends

\* A step of a pipeline in its directory, whoever makes it, extends it; and on
\* the local driver, if nothing of an earlier pipeline is at work there, it
\* commits edits of this pipeline alone.
Modest ==
  ~conf.gha /\ zombies = {} /\ watchers = {} =>
    ws'.head.edits \subseteq ws.head.edits \cup Own(Kinds)

\* Past the checkout a step adds to HEAD and branch; where nobody else is at work,
\* only edits of its own.
LEMMA PastExtends ==
  ASSUME TypeInv, [Next]_vars, stage \in Past
  PROVE  Extends /\ Modest
<1> USE DEF Modest
<1>0. /\ ws \in Dirs /\ ws.head \in Trees /\ run.n \in 1 .. MaxRuns
      /\ zombies \subseteq 1 .. MaxRuns /\ watchers \subseteq 1 .. MaxRuns
  BY DEF TypeInv, TypeOK, Dirs, Started, CheckedOut, Past
<1>1. ASSUME NEW kinds \in SUBSET Kinds
      PROVE  Own(kinds) \subseteq Own(Kinds) /\ Own(kinds) \in SUBSET Edits
  BY <1>0, <1>1, OwnEdits DEF Own
<1>2. CASE ws'.head = ws.head /\ ws' \in Dirs /\ UNCHANGED remote
  BY <1>0, <1>2 DEF Extends
<1>3. CASE UNCHANGED <<ws, remote>>
  BY <1>0, <1>2, <1>3
<1>4. ASSUME NEW kind \in Kinds, NEW loose \in SUBSET Own({"scratch"}), NEW ok \in BOOLEAN,
             Push([Generated(kind) EXCEPT !.loose = @ \cup loose], ok)
      PROVE  Extends /\ Modest
  <2>1. /\ Own({kind}) \subseteq Own(Kinds) /\ Own({kind}) \in SUBSET Edits
        /\ loose \in SUBSET Edits
    BY <1>1, <1>4 DEF Kinds
  <2>2. Extends /\ ws'.head.edits = ws.head.edits \cup Own({kind})
    BY <1>0, <1>4, <2>1, CommitPathsExtends DEF Generated
  <2> QED
    BY <2>1, <2>2
<1>5. CASE Docs
  <2>1. Push(Generated("docs"), TRUE)
    BY <1>5 DEF Docs
  <2>2. Generated("docs") \in Dirs
    BY <1>0, <1>1, DirTypes DEF Generated, Kinds
  <2>3. [Generated("docs") EXCEPT !.loose = @ \cup {}] = Generated("docs")
    BY <2>2 DEF Dirs
  <2>4. Push([Generated("docs") EXCEPT !.loose = @ \cup {}], TRUE)
    BY <2>1, <2>3, Zenon
  <2> QED
    BY <1>4, <2>4 DEF Kinds
<1>6. CASE BuildFails
  BY <1>3, <1>4, <1>6 DEF BuildFails, Kinds
<1>7. CASE BuildPasses
  BY <1>4, <1>7 DEF BuildPasses, Kinds
<1>8. CASE ReproRound
  BY <1>0, <1>8, CandidateExtends DEF ReproRound
<1>9. CASE ReproHalts \/ ReproTimesOut
  <2>1. ws' \in {ws, Clean(ws)} /\ UNCHANGED remote
    BY <1>9 DEF ReproHalts, ReproTimesOut, HaltAndEmail
  <2>2. Clean(ws) \in Dirs /\ Clean(ws).head = ws.head
    BY <1>0 DEF Clean, Dirs
  <2> QED
    BY <1>0, <1>2, <2>1, <2>2
<1>10. CASE CommitRepro
  <2>1. PICK ok \in BOOLEAN : Push(CommitPaths(Clean(ws), Own({"repro"})), ok)
    BY <1>10 DEF CommitRepro
  <2>2. Clean(ws) \in Dirs /\ Clean(ws).head = ws.head
    BY <1>0 DEF Clean, Dirs
  <2>3. Own({"repro"}) \in SUBSET Edits /\ Own({"repro"}) \subseteq Own(Kinds)
    BY <1>1 DEF Kinds
  <2>4. CommitPaths(Clean(ws), Own({"repro"})) \in Dirs
    BY <1>0, <2>2, <2>3, DirTypes
  <2>5. [CommitPaths(Clean(ws), Own({"repro"})) EXCEPT !.loose = @ \cup {}]
          = CommitPaths(Clean(ws), Own({"repro"}))
    BY <2>4 DEF Dirs
  <2>6. Push([CommitPaths(Clean(ws), Own({"repro"})) EXCEPT !.loose = @ \cup {}], ok)
    BY <2>1, <2>5, Zenon
  <2>7. Extends /\ ws'.head.edits = ws.head.edits \cup Own({"repro"})
    BY <1>0, <2>2, <2>3, <2>6, CommitPathsExtends
  <2> QED
    BY <2>3, <2>7
<1>11. CASE FixApproved \/ FixFailed
  <2>1. PICK made \in SUBSET Own(FixKinds), ok \in BOOLEAN : FixLeaves(made, ok)
    BY <1>11 DEF FixApproved, FixFailed
  <2>2. Own(FixKinds) \subseteq Own(Kinds)
    BY <1>1 DEF FixKinds, Kinds
  <2> QED
    BY <1>0, <2>1, <2>2, FixLeavesExtends
<1>12. CASE VerifySkipped
  <2>1. \/ conf.gha /\ \E ok \in BOOLEAN : Push(CommitAll(ws), ok)
        \/ UNCHANGED <<ws, remote>>
    BY <1>12, Zenon DEF VerifySkipped
  <2> QED
    BY <1>0, <1>3, <2>1, CommitAllExtends
<1>13. CASE VerifyPasses \/ VerifyFails
  BY <1>0, <1>13, CommitAllExtends DEF VerifyPasses, VerifyFails
<1>14. CASE Squash
  <2>1. ASSUME NEW ok \in BOOLEAN, ForcePush(Squashed(ws), ok) PROVE Extends /\ Modest
    <3>1. /\ Squashed(ws) \in Dirs /\ Squashed(ws).head \in Trees
          /\ Squashed(ws).head.edits = ws.head.edits
          /\ Squashed(ws).head.files = ws.head.files
      BY <1>0 DEF TypeInv, TypeOK, Squashed, Dirs, Trees
    <3>2. /\ ws' \in Dirs /\ ws'.head = Squashed(ws).head
          /\ remote' \in {remote, Squashed(ws).head}
      BY <2>1, <3>1, ForcePushEffect
    <3> QED
      BY <3>1, <3>2 DEF Extends
  <2> QED
    BY <1>3, <1>14, <2>1 DEF Squash
<1>15. CASE ZombieRound
  BY <1>0, <1>15, CandidateExtends DEF ZombieRound
<1>16. CASE WatcherAmends
  BY <1>0, <1>16, AmendExtends DEF WatcherAmends
<1>17. CASE Trigger \/ Triage \/ ForkAndBranch \/ InstallWorkflows \/ Checkout
  BY <1>17 DEF Trigger, Triage, ForkAndBranch, InstallWorkflows, Checkout, Past
<1>18. CASE Throws \/ Retry \/ Reproduced \/ CreatePr \/ DesignAgreed \/ Review
  BY <1>3, <1>18 DEF Throws, Retry, OutOfRetries, Reproduced, CreatePr, DesignAgreed, Review
<1>19. CASE ZombieEnds \/ WatcherEnds \/ UpstreamMoves \/ PrCloses \/ Crash \/ UNCHANGED vars
  BY <1>3, <1>19 DEF ZombieEnds, WatcherEnds, UpstreamMoves, PrCloses, Crash, vars
<1> QED
  BY <1>5, <1>6, <1>7, <1>8, <1>9, <1>10, <1>11, <1>12, <1>13, <1>14, <1>15, <1>16, <1>17, <1>18,
     <1>19, Zenon DEF Next, Work

RunTypes ==
  [n : 0 .. MaxRuns, route : Routes \cup {"none"}, pm : BOOLEAN, rounds : 0 .. MaxRounds,
   failures : 0 .. MaxRetries, passed : SUBSET Edits, verified : Trees \cup {NoTree},
   alone : BOOLEAN, told : BOOLEAN, result : Results]

\* However it ends, a pipeline leaves nothing behind in the run but its number.
LEMMA EndTypes ==
  ASSUME run \in RunTypes, NEW result \in Results, NEW told \in BOOLEAN, Ends(result, told)
  PROVE  /\ stage' = "idle" /\ run' \in RunTypes
         /\ run'.n = run.n /\ run'.passed = {} /\ run'.verified = NoTree
         /\ run'.alone = FALSE /\ run'.result = result /\ run'.told = told
<1>1. run' = [NoRun EXCEPT !.n = run.n, !.result = result, !.told = told] /\ stage' = "idle"
  BY DEF Ends
<1>2. run' = [n |-> run.n, route |-> "none", pm |-> FALSE, rounds |-> 0, failures |-> 0,
              passed |-> {}, verified |-> NoTree, alone |-> FALSE, told |-> told,
              result |-> result]
  BY <1>1, Zenon DEF NoRun
<1>3. 0 \in 0 .. MaxRounds /\ 0 \in 0 .. MaxRetries
  BY PipelineAssumption
<1>4. run.n \in 0 .. MaxRuns
  BY DEF RunTypes
<1>5. run' \in RunTypes
  BY <1>2, <1>3, <1>4 DEF RunTypes, Routes
<1>6. /\ run'.n = run.n /\ run'.passed = {} /\ run'.verified = NoTree
      /\ run'.result = result
  BY <1>2
<1>7. run'.alone = FALSE
  BY <1>2
<1>8. run'.told = told
  BY <1>2, Zenon
<1> QED
  BY <1>1, <1>5, <1>6, <1>7, <1>8

\* The types, and that what is built on is a tree.
LEMMA TypeInvInit == Init => TypeInv
<1> SUFFICES ASSUME Init PROVE TypeInv
  OBVIOUS
<1>1. run \in RunTypes
  BY PipelineAssumption DEF Init, NoRun, RunTypes, Routes, Results
<1>2. pr \in [run : 0 .. MaxRuns, route : Routes \cup {"none"}, tree : Trees \cup {NoTree},
              passed : SUBSET Edits, verified : Trees \cup {NoTree}, alone : BOOLEAN]
  BY PipelineAssumption DEF Init, NoPr, Routes
<1>3. ws \in Dirs
  BY DEF Init, Dirs
<1>4. /\ conf \in Configs /\ upstream \in 0 .. MaxUpstream /\ remote \in Trees \cup {NoTree}
      /\ stage \in Stages /\ zombies \subseteq 1 .. MaxRuns /\ watchers \subseteq 1 .. MaxRuns
  BY PipelineAssumption DEF Init, Stages
<1>5. prOpen \in BOOLEAN
  BY DEF Init
<1>6. TypeOK
  BY <1>1, <1>2, <1>3, <1>4, <1>5, Zenon DEF TypeOK, RunTypes, Dirs
<1> QED
  BY <1>6 DEF Init, TypeInv, Started, CheckedOut, Branched, Past

\* One step keeps the types, and what is built on a tree.
LEMMA TypeInvStep == TypeInv /\ [Next]_vars => TypeInv'
<1> SUFFICES ASSUME TypeInv, [Next]_vars PROVE TypeInv'
  OBVIOUS
<1> USE DEF TypeInv, Started, CheckedOut, Branched, Past
<1> DEFINE PrTypes == [run : 0 .. MaxRuns, route : Routes \cup {"none"}, tree : Trees \cup {NoTree},
                       passed : SUBSET Edits, verified : Trees \cup {NoTree}, alone : BOOLEAN]
<1>0. /\ conf \in Configs /\ upstream \in 0 .. MaxUpstream /\ remote \in Trees \cup {NoTree}
      /\ ws \in Dirs /\ stage \in Stages /\ run \in RunTypes
      /\ pr \in PrTypes
      /\ prOpen \in BOOLEAN /\ zombies \subseteq 1 .. MaxRuns /\ watchers \subseteq 1 .. MaxRuns
  BY Zenon DEF TypeOK, Dirs, RunTypes
<1>t. ASSUME conf' \in Configs, upstream' \in 0 .. MaxUpstream, remote' \in Trees \cup {NoTree},
             ws' \in Dirs, stage' \in Stages, run' \in RunTypes, pr' \in PrTypes,
             prOpen' \in BOOLEAN, zombies' \subseteq 1 .. MaxRuns, watchers' \subseteq 1 .. MaxRuns
      PROVE  TypeOK'
  BY <1>t, Zenon DEF TypeOK, Dirs, RunTypes
<1> HIDE DEF PrTypes
<1>1. CASE UNCHANGED vars
  BY <1>1 DEF vars, TypeOK
<1>2. CASE Trigger
  <2> DEFINE alone == zombies = {} /\ watchers = {}
  <2>1. run' = [n |-> run.n + 1, route |-> "none", pm |-> FALSE, rounds |-> 0,
                failures |-> 0, passed |-> {}, verified |-> NoTree, alone |-> alone,
                told |-> FALSE, result |-> "none"]
    BY <1>2, Zenon DEF Trigger, NoRun
  <2>2. alone \in BOOLEAN
    OBVIOUS
  <2>3. run.n + 1 \in 1 .. MaxRuns
    BY <1>2, <1>0, PipelineAssumption DEF Trigger, RunTypes
  <2> HIDE DEF alone
  <2>4. run' \in RunTypes /\ run'.n = run.n + 1
    BY <2>1, <2>2, <2>3, PipelineAssumption DEF RunTypes, Routes, Results
  <2>5. pr' \in PrTypes
    BY <1>2, PipelineAssumption DEF Trigger, NoPr, PrTypes, Routes
  <2> QED
    BY <2>3, <2>4, <2>5, <1>2, <1>0, <1>t DEF Trigger, Goto, background, Stages
<1>3. CASE Triage
  <2>1. \/ Ends("commented", conf.live)
        \/ Ends("skipped", FALSE)
        \/ \E route \in Routes, pm \in BOOLEAN :
             Goto("fork") /\ run' = [run EXCEPT !.route = route, !.pm = pm]
    BY <1>3, Zenon DEF Triage
  <2>2. /\ stage' \in Stages /\ run' \in RunTypes
        /\ stage' # "idle" => stage' = "fork" /\ run'.n = run.n
    <3>0. conf.live \in BOOLEAN
      BY <1>0, PipelineAssumption
    <3>1. CASE Ends("commented", conf.live)
      BY <3>0, <3>1, <1>0, EndTypes DEF Results, Stages
    <3>2. CASE Ends("skipped", FALSE)
      BY <3>2, <1>0, EndTypes DEF Results, Stages
    <3>3. ASSUME NEW route \in Routes, NEW pm \in BOOLEAN,
                 Goto("fork"), run' = [run EXCEPT !.route = route, !.pm = pm]
          PROVE  stage' = "fork" /\ run' \in RunTypes /\ run'.n = run.n
      BY <3>3, <1>0 DEF Goto, RunTypes
    <3> QED
      BY <2>1, <3>1, <3>2, <3>3 DEF Stages
  <2> QED
    BY <2>2, <1>3, <1>0, <1>t DEF Triage, background
<1>4. CASE Throws
  <2>1. stage' = "idle" /\ run' \in RunTypes
    BY <1>4, <1>0, EndTypes DEF Throws, Results
  <2> QED
    BY <2>1, <1>4, <1>0, <1>t DEF Throws, background, Stages
<1>5. CASE ForkAndBranch
  <2>1. TreeAt(upstream) \in Trees
    BY <1>0 DEF TreeAt, Trees
  <2>2. ws' \in Dirs /\ ws'.head = ws.head
    BY <1>5, <1>0 DEF ForkAndBranch, Dirs
  <2> QED
    BY <2>1, <2>2, <1>5, <1>0, <1>t DEF ForkAndBranch, Goto, background, Stages
<1>6. CASE InstallWorkflows
  <2>1. With(remote, Own({"workflows"})) \in Trees
    BY <1>6, OwnEdits, WithTree DEF InstallWorkflows, Kinds
  <2> QED
    BY <2>1, <1>6, <1>0, <1>t DEF InstallWorkflows, Goto, background, Stages
<1>7. CASE Checkout
  <2>1. ws' \in Dirs /\ ws'.head = remote
    BY <1>7, <1>0 DEF Checkout, Dirs
  <2> QED
    BY <2>1, <1>7, <1>0, <1>t DEF Checkout, Goto, background, Stages
<1>8. CASE DesignAgreed
  <2>1. stage' \in Stages /\ UNCHANGED <<conf, upstream, remote, ws, run, pr, prOpen, zombies, watchers>>
    BY <1>8 DEF DesignAgreed, Goto, Stages, background
  <2> QED
    BY <2>1, <1>8, <1>0, <1>t DEF DesignAgreed, Goto, Stages
<1>9. CASE Docs
  <2>1. Extends
    BY <1>9, <1>0, PastExtends DEF Docs, Next, Work
  <2> QED
    BY <2>1, <1>9, <1>0, <1>t DEF Docs, Extends, Goto, background, Stages
<1>10. CASE BuildFails
  <2>1. Extends
    BY <1>10, <1>0, PastExtends DEF BuildFails, Next, Work
  <2> QED
    BY <2>1, <1>10, <1>0, <1>t DEF BuildFails, Extends, Goto, background, Stages
<1>11. CASE BuildPasses
  <2>1. Extends
    BY <1>11, <1>0, PastExtends DEF BuildPasses, Next, Work
  <2> QED
    BY <2>1, <1>11, <1>0, <1>t DEF BuildPasses, Extends, Goto, background, Stages
<1>12. CASE Retry
  <2>0. conf.live \in BOOLEAN
    BY <1>0, PipelineAssumption
  <2>1. \/ Ends("max-retries-exceeded", conf.live)
        \/ Goto("build") /\ FailuresKnown < MaxRetries
             /\ run' = [run EXCEPT !.failures = IF conf.live THEN @ + 1 ELSE 1]
    <3>1. FailuresKnown \in Nat
      BY <1>0, <2>0 DEF FailuresKnown, RunTypes
    <3>2. FailuresKnown >= MaxRetries \/ FailuresKnown < MaxRetries
      BY <3>1, PipelineAssumption
    <3> QED
      BY <3>2, <1>12 DEF Retry, OutOfRetries
  <2>2. stage' \in Stages /\ run' \in RunTypes /\ (stage' # "idle" => run'.n = run.n)
    <3>1. CASE Ends("max-retries-exceeded", conf.live)
      BY <3>1, <2>0, <1>0, EndTypes DEF Results, Stages
    <3>2. CASE Goto("build") /\ FailuresKnown < MaxRetries
             /\ run' = [run EXCEPT !.failures = IF conf.live THEN @ + 1 ELSE 1]
      <4> DEFINE f == IF conf.live THEN run.failures + 1 ELSE 1
      <4>1. run' = [run EXCEPT !.failures = f] /\ stage' = "build"
        BY <3>2, <1>0 DEF Goto, RunTypes
      <4>2. f \in 0 .. MaxRetries
        BY <3>2, <2>0, <1>0, PipelineAssumption DEF FailuresKnown, RunTypes
      <4> HIDE DEF f
      <4> QED
        BY <4>1, <4>2, <1>0 DEF RunTypes, Stages
    <3> QED
      BY <2>1, <3>1, <3>2
  <2> QED
    BY <2>2, <1>12, <1>0, <1>t DEF Retry, OutOfRetries, background
<1>13. CASE ReproRound
  <2>1. Extends
    BY <1>13, <1>0, PastExtends DEF ReproRound, Next, Work
  <2>2. run' \in RunTypes /\ run'.n = run.n
    BY <1>13, <1>0, PipelineAssumption DEF ReproRound, RunTypes
  <2> QED
    BY <2>1, <2>2, <1>13, <1>0, <1>t DEF ReproRound, Extends, background
<1>14. CASE Reproduced
  <2>1. stage' \in Stages /\ UNCHANGED <<conf, upstream, remote, ws, run, pr, prOpen, zombies, watchers>>
    BY <1>14 DEF Reproduced, Goto, Stages, background
  <2> QED
    BY <2>1, <1>14, <1>0, <1>t DEF Reproduced, Goto, Stages
<1>15. CASE ReproHalts
  <2>0. conf.live \in BOOLEAN
    BY <1>0, PipelineAssumption
  <2>1. stage' = "idle" /\ run' \in RunTypes
    BY <2>0, <1>15, <1>0, EndTypes DEF ReproHalts, HaltAndEmail, Results
  <2>2. Extends
    BY <1>15, <1>0, PastExtends DEF ReproHalts, Next, Work
  <2> QED
    BY <2>1, <2>2, <1>15, <1>0, <1>t DEF ReproHalts, HaltAndEmail, Extends, Stages
<1>16. CASE ReproTimesOut
  <2>0. conf.live \in BOOLEAN
    BY <1>0, PipelineAssumption
  <2>1. stage' = "idle" /\ run' \in RunTypes
    BY <2>0, <1>16, <1>0, EndTypes DEF ReproTimesOut, HaltAndEmail, Results
  <2>2. Extends
    BY <1>16, <1>0, PastExtends DEF ReproTimesOut, Next, Work
  <2> QED
    BY <2>1, <2>2, <1>16, <1>0, <1>t DEF ReproTimesOut, HaltAndEmail, Extends, Stages
<1>17. CASE CommitRepro
  <2>1. PICK ok \in BOOLEAN :
          /\ Push(CommitPaths(Clean(ws), Own({"repro"})), ok)
          /\ IF ok
             THEN Goto(IF run.pm THEN "design" ELSE "fix") /\ UNCHANGED run
             ELSE Ends("thrown", FALSE)
    BY <1>17 DEF CommitRepro
  <2>2. Extends
    BY <1>17, <1>0, PastExtends DEF CommitRepro, Next, Work
  <2>3. stage' \in Stages /\ run' \in RunTypes /\ (stage' # "idle" => run'.n = run.n)
    <3>1. CASE (stage' = "design" \/ stage' = "fix") /\ UNCHANGED run
      BY <3>1, <1>0 DEF Stages
    <3>2. CASE Ends("thrown", FALSE)
      BY <3>2, <1>0, EndTypes DEF Results, Stages
    <3> QED
      BY <2>1, <3>1, <3>2, Zenon DEF Goto
  <2> QED
    BY <2>2, <2>3, <1>17, <1>0, <1>t DEF CommitRepro, Extends, background
<1>18. CASE FixApproved
  <2>1. PICK made \in SUBSET Own(FixKinds), ok \in BOOLEAN :
          /\ FixLeaves(made, ok)
          /\ run' = [run EXCEPT !.passed = IF conf.gha THEN remote'.edits \cap Own(FixKinds)
                                           ELSE made]
    BY <1>18 DEF FixApproved
  <2>2. Extends
    BY <1>18, <1>0, PastExtends DEF FixApproved, Next, Work
  <2>3. run' \in RunTypes /\ run'.n = run.n
    <3> DEFINE passed == IF conf.gha THEN remote'.edits \cap Own(FixKinds) ELSE made
    <3>1. passed \subseteq Own(FixKinds) /\ Own(FixKinds) \subseteq Edits
      BY <1>18, OwnEdits DEF FixApproved, FixKinds, Kinds
    <3> HIDE DEF passed
    <3>2. run' = [run EXCEPT !.passed = passed]
      BY <2>1, Zenon DEF passed
    <3> QED
      BY <3>1, <3>2, <1>0 DEF RunTypes
  <2> QED
    BY <2>2, <2>3, <1>18, <1>0, <1>t DEF FixApproved, Extends, Goto, background, Stages
<1>19. CASE FixFailed
  <2>1. Extends
    BY <1>19, <1>0, PastExtends DEF FixFailed, Next, Work
  <2>2. conf.live \in BOOLEAN
    BY <1>0, PipelineAssumption
  <2>3. stage' = "idle" /\ run' \in RunTypes
    BY <2>2, <1>19, <1>0, EndTypes DEF FixFailed, Results
  <2> QED
    BY <2>1, <2>3, <1>19, <1>0, <1>t DEF FixFailed, Extends, background, Stages
<1>20. CASE VerifySkipped
  <2>1. Extends
    BY <1>20, <1>0, PastExtends DEF VerifySkipped, Next, Work
  <2>2. run' \in RunTypes /\ run'.n = run.n
    BY <1>20, <1>0 DEF VerifySkipped, RunTypes
  <2> QED
    BY <2>1, <2>2, <1>20, <1>0, <1>t DEF VerifySkipped, Extends, Goto, background, Stages
<1>21. CASE VerifyPasses
  <2>1. Extends
    BY <1>21, <1>0, PastExtends DEF VerifyPasses, Next, Work
  <2>2. remote' \in Trees
    BY <2>1, <1>21 DEF VerifyPasses, Extends
  <2>3. run' \in RunTypes /\ run'.n = run.n
    BY <2>2, <1>21, <1>0 DEF VerifyPasses, RunTypes
  <2> QED
    BY <2>1, <2>3, <1>21, <1>0, <1>t DEF VerifyPasses, Extends, Goto, background, Stages
<1>22. CASE VerifyFails
  <2>1. Extends
    BY <1>22, <1>0, PastExtends DEF VerifyFails, Next, Work
  <2>2. conf.live \in BOOLEAN
    BY <1>0, PipelineAssumption
  <2>3. stage' \in Stages /\ run' \in RunTypes /\ (stage' # "idle" => run'.n = run.n)
    BY <2>2, <1>22, <1>0, EndTypes DEF VerifyFails, Goto, Results, Stages
  <2> QED
    BY <2>1, <2>3, <1>22, <1>0, <1>t DEF VerifyFails, Extends, background
<1>23. CASE Squash
  <2>1. Extends
    BY <1>23, <1>0, PastExtends DEF Squash, Next, Work
  <2>2. stage' \in {"review", "pr"}
    BY <1>23, Zenon DEF Squash, Goto
  <2> QED
    BY <2>1, <2>2, <1>23, <1>0, <1>t DEF Squash, Extends, background, Stages
<1>24. CASE Review
  <2>1. stage' \in Stages /\ run' \in RunTypes /\ (stage' # "idle" => run'.n = run.n)
    BY <1>24, <1>0, EndTypes DEF Review, Goto, Results, Stages
  <2> QED
    BY <2>1, <1>24, <1>0, <1>t DEF Review, background
<1>25. CASE CreatePr
  <2>1. (conf.live /\ run.route = "bug") \in BOOLEAN
    OBVIOUS
  <2>2. stage' = "idle" /\ run' \in RunTypes
    BY <2>1, <1>25, <1>0, EndTypes DEF CreatePr, Results
  <2>3. pr' \in PrTypes
    BY <1>25, <1>0 DEF CreatePr, PrTypes, RunTypes
  <2>4. prOpen' \in BOOLEAN /\ watchers' \subseteq 1 .. MaxRuns
    BY <1>25, <1>0 DEF CreatePr
  <2> QED
    BY <2>2, <2>3, <2>4, <1>25, <1>0, <1>t DEF CreatePr, Stages
<1>26. CASE ZombieRound
  <2>1. Extends
    BY <1>26, <1>0, CandidateExtends DEF ZombieRound
  <2> QED
    BY <2>1, <1>26, <1>0, <1>t DEF ZombieRound, Extends, background
<1>27. CASE ZombieEnds
  BY <1>27, <1>0, <1>t DEF ZombieEnds
<1>28. CASE WatcherAmends
  <2>1. PICK n \in watchers, ok \in BOOLEAN :
          ForcePush(Amended(ws, {<<"lint", n>>}), ok)
    BY <1>28 DEF WatcherAmends
  <2>2. Extends
    BY <2>1, <1>0, AmendExtends
  <2> QED
    BY <2>2, <1>28, <1>0, <1>t DEF WatcherAmends, Extends, background
<1>29. CASE WatcherEnds
  BY <1>29, <1>0, <1>t DEF WatcherEnds
<1>30. CASE UpstreamMoves
  <2>1. upstream' \in 0 .. MaxUpstream
    BY <1>30, <1>0, PipelineAssumption DEF UpstreamMoves
  <2> QED
    BY <2>1, <1>30, <1>0, <1>t DEF UpstreamMoves, background
<1>31. CASE PrCloses
  <2>1. prOpen' \in BOOLEAN
    BY <1>31 DEF PrCloses
  <2> QED
    BY <2>1, <1>31, <1>0, <1>t DEF PrCloses, background
<1>32. CASE Crash
  <2>1. run' \in RunTypes
    <3>1. CASE UNCHANGED run
      BY <3>1, <1>0
    <3>2. CASE run' = [NoRun EXCEPT !.n = run.n, !.result = "killed"]
      <4>1. run' = [n |-> run.n, route |-> "none", pm |-> FALSE, rounds |-> 0,
                    failures |-> 0, passed |-> {}, verified |-> NoTree, alone |-> FALSE,
                    told |-> FALSE, result |-> "killed"]
        BY <3>2, Zenon DEF NoRun
      <4>2. run.n \in 0 .. MaxRuns
        BY <1>0 DEF RunTypes
      <4> QED
        BY <4>1, <4>2, PipelineAssumption DEF RunTypes, Routes, Results
    <3> QED
      BY <3>1, <3>2, <1>32, Zenon DEF Crash
  <2> QED
    BY <2>1, <1>32, <1>0, <1>t DEF Crash, Goto, Stages
<1> QED
  BY <1>1, <1>2, <1>3, <1>4, <1>5, <1>6, <1>7, <1>8, <1>9, <1>10, <1>11, <1>12, <1>13, <1>14,
     <1>15, <1>16, <1>17, <1>18, <1>19, <1>20, <1>21, <1>22, <1>23, <1>24, <1>25, <1>26, <1>27,
     <1>28, <1>29, <1>30, <1>31, <1>32, Zenon DEF Next, Work

\* They hold in every state.
LEMMA TypeInvariant == Spec => []TypeInv
BY TypeInvInit, TypeInvStep, PTL DEF Spec

\* Every variable keeps its type, whatever the deployment, upstream, failures
\* and crashes (all of bin/run-pipeline.ts that is modelled).
THEOREM TypeCorrect == Spec => []TypeOK
BY TypeInvariant, PTL DEF TypeInv

-----------------------------------------------------------------------------
(* What a step does to the run.                                            *)

Ended == stage' = "idle" /\ run'.passed = {} /\ run'.verified = NoTree /\ ~run'.alone
Kept ==
  /\ run'.n = run.n /\ run'.passed = run.passed /\ run'.verified = run.verified
  /\ run'.alone = run.alone
  /\ stage # "triage" => run'.route = run.route
  /\ stage' = "idle" => stage = "idle"

\* What one step can do to the record of the run.
LEMMA RunEffect ==
  ASSUME TypeInv, [Next]_vars
  PROVE  Ended \/ Kept \/ Trigger \/ FixApproved \/ VerifySkipped \/ VerifyPasses
<1>0. run \in RunTypes /\ conf.live \in BOOLEAN
  <2>1. run \in RunTypes /\ conf \in Configs
    BY Zenon DEF TypeInv, TypeOK, RunTypes
  <2> QED
    BY <2>1, PipelineAssumption
<1>1. ASSUME NEW result \in Results, NEW told \in BOOLEAN, Ends(result, told) PROVE Ended
  BY <1>0, <1>1, EndTypes DEF Ended
<1>2. CASE UNCHANGED run /\ (stage' = "idle" => stage = "idle")
  BY <1>2 DEF Kept
<1>3. CASE Triage
  <2>1. \/ Ends("commented", conf.live)
        \/ Ends("skipped", FALSE)
        \/ \E route \in Routes, pm \in BOOLEAN :
             Goto("fork") /\ run' = [run EXCEPT !.route = route, !.pm = pm]
    BY <1>3, Zenon DEF Triage
  <2>2. ASSUME NEW route \in Routes, NEW pm \in BOOLEAN,
               Goto("fork"), run' = [run EXCEPT !.route = route, !.pm = pm]
        PROVE  Kept
    BY <1>0, <1>3, <2>2 DEF Goto, Kept, RunTypes, Triage
  <2> QED
    BY <1>0, <1>1, <2>1, <2>2 DEF Results
<1>4. CASE Retry
  <2>1. \/ Ends("max-retries-exceeded", conf.live)
        \/ stage' = "build" /\ run' = [run EXCEPT !.failures = IF conf.live THEN @ + 1 ELSE 1]
    BY <1>4, Zenon DEF Retry, OutOfRetries, Goto
  <2>2. CASE stage' = "build" /\ run' = [run EXCEPT !.failures = IF conf.live THEN @ + 1 ELSE 1]
    <3> DEFINE f == IF conf.live THEN run.failures + 1 ELSE 1
    <3>1. run' = [run EXCEPT !.failures = f] /\ stage' = "build"
      BY <1>0, <2>2 DEF RunTypes
    <3> HIDE DEF f
    <3> QED
      BY <1>0, <3>1 DEF Kept, RunTypes
  <2> QED
    BY <1>0, <1>1, <2>1, <2>2 DEF Results
<1>5. CASE ReproRound
  BY <1>0, <1>5 DEF ReproRound, Kept, RunTypes
<1>6. CASE CommitRepro
  <2>1. \/ (stage' = "design" \/ stage' = "fix") /\ UNCHANGED run
        \/ Ends("thrown", FALSE)
    BY <1>6, Zenon DEF CommitRepro, Goto
  <2> QED
    BY <1>1, <1>2, <2>1 DEF Results
<1>7. CASE Throws \/ ReproHalts \/ ReproTimesOut \/ FixFailed \/ CreatePr
  <2>1. (conf.live /\ run.route = "bug") \in BOOLEAN
    OBVIOUS
  <2> QED
    BY <1>0, <1>1, <1>7, <2>1
       DEF Throws, ReproHalts, ReproTimesOut, HaltAndEmail, FixFailed, CreatePr, Results
<1>8. CASE VerifyFails
  BY <1>0, <1>1, <1>2, <1>8 DEF VerifyFails, Goto, Results
<1>9. CASE Review
  BY <1>1, <1>2, <1>9 DEF Review, Goto, Results
<1>10. CASE Squash
  BY <1>2, <1>10, Zenon DEF Squash, Goto
<1>11. CASE Checkout
  BY <1>2, <1>11 DEF Checkout, Goto
<1>12. CASE ForkAndBranch \/ InstallWorkflows \/ DesignAgreed \/ Docs \/ BuildFails \/ BuildPasses
            \/ Reproduced
  BY <1>2, <1>12
     DEF ForkAndBranch, InstallWorkflows, DesignAgreed, Docs, BuildFails, BuildPasses, Reproduced, Goto
<1>13. CASE ZombieRound \/ ZombieEnds \/ WatcherAmends \/ WatcherEnds \/ UpstreamMoves \/ PrCloses
            \/ UNCHANGED vars
  BY <1>2, <1>13
     DEF ZombieRound, ZombieEnds, WatcherAmends, WatcherEnds, UpstreamMoves, PrCloses, vars
<1>14. CASE Crash
  <2>1. CASE stage = "idle"
    BY <1>2, <1>14, <2>1 DEF Crash, Goto
  <2>2. CASE stage # "idle"
    <3>1. run' = [n |-> run.n, route |-> "none", pm |-> FALSE, rounds |-> 0,
                  failures |-> 0, passed |-> {}, verified |-> NoTree, alone |-> FALSE,
                  told |-> FALSE, result |-> "killed"]
      BY <1>14, <2>2, Zenon DEF Crash, NoRun
    <3>2. stage' = "idle"
      BY <1>14 DEF Crash, Goto
    <3>3. run'.alone = FALSE
      BY <3>1
    <3>4. run'.passed = {} /\ run'.verified = NoTree
      BY <3>1
    <3> QED
      BY <3>2, <3>3, <3>4 DEF Ended
  <2> QED
    BY <2>1, <2>2
<1> QED
  BY <1>3, <1>4, <1>5, <1>6, <1>7, <1>8, <1>9, <1>10, <1>11, <1>12, <1>13, <1>14, Zenon
     DEF Next, Work

\* Outside of the directory's stages nothing enters them but a checkout.
LEMMA Enters ==
  ASSUME TypeInv, [Next]_vars, stage \notin Past, stage' \in Past
  PROVE  Checkout
<1>1. CASE Trigger \/ ForkAndBranch \/ InstallWorkflows
  BY <1>1 DEF Trigger, ForkAndBranch, InstallWorkflows, Goto, Past
<1>2. CASE Triage
  <2>1. stage' = "idle" \/ stage' = "fork"
    BY <1>2, Zenon DEF Triage, Ends, Goto
  <2> QED
    BY <2>1 DEF Past
<1>3. CASE Throws \/ Crash
  BY <1>3 DEF Throws, Crash, Ends, Goto, Past
<1>4. CASE stage' = stage
  BY <1>4
<1>5. CASE ZombieRound \/ ZombieEnds \/ WatcherAmends \/ WatcherEnds \/ UpstreamMoves \/ PrCloses
           \/ UNCHANGED vars
  BY <1>4, <1>5
     DEF ZombieRound, ZombieEnds, WatcherAmends, WatcherEnds, UpstreamMoves, PrCloses, vars
<1>6. stage \in {"idle", "triage", "fork", "install", "checkout"}
  BY DEF TypeInv, TypeOK, Past
<1>7. ASSUME DesignAgreed \/ Docs \/ BuildFails \/ BuildPasses \/ Retry \/ ReproRound \/ Reproduced
             \/ ReproHalts \/ ReproTimesOut \/ CommitRepro
      PROVE  FALSE
  BY <1>6, <1>7
     DEF DesignAgreed, Docs, BuildFails, BuildPasses, Retry, OutOfRetries, ReproRound, Reproduced, ReproHalts,
         ReproTimesOut, CommitRepro
<1>8. ASSUME FixApproved \/ FixFailed \/ VerifySkipped \/ VerifyPasses \/ VerifyFails \/ Squash
             \/ Review \/ CreatePr
      PROVE  FALSE
  BY <1>6, <1>8
     DEF FixApproved, FixFailed, VerifySkipped, VerifyPasses, VerifyFails, Squash, Review, CreatePr
<1> QED
  BY <1>1, <1>2, <1>3, <1>5, <1>7, <1>8, Zenon DEF Next, Work

\* Only a pull request that is opened or a pipeline that starts changes pr.
LEMMA PrEffect ==
  ASSUME [Next]_vars
  PROVE  CreatePr \/ pr' = NoPr \/ pr' = pr
BY Zenon DEF Next, Work, vars, background, Trigger, Triage, Throws, ForkAndBranch, InstallWorkflows,
   Checkout, DesignAgreed, Docs, BuildFails, BuildPasses, Retry, OutOfRetries, ReproRound, Reproduced, ReproHalts,
   ReproTimesOut, HaltAndEmail, CommitRepro, FixApproved, FixFailed, VerifySkipped, VerifyPasses,
   VerifyFails, Squash, Review, ZombieRound, ZombieEnds, WatcherAmends, WatcherEnds, UpstreamMoves,
   PrCloses, Crash

\* The deployment does not change.
LEMMA ConfEffect ==
  ASSUME [Next]_vars
  PROVE  conf' = conf
BY Zenon DEF Next, Work, vars, background, Trigger, Triage, Throws, ForkAndBranch, InstallWorkflows,
   Checkout, DesignAgreed, Docs, BuildFails, BuildPasses, Retry, OutOfRetries, ReproRound, Reproduced, ReproHalts,
   ReproTimesOut, HaltAndEmail, CommitRepro, FixApproved, FixFailed, VerifySkipped, VerifyPasses,
   VerifyFails, Squash, Review, CreatePr, ZombieRound, ZombieEnds, WatcherAmends, WatcherEnds,
   UpstreamMoves, PrCloses, Crash

-----------------------------------------------------------------------------
(* A pull request carries the work of its pipeline.  From the checkout on   *)
(* the branch is never ahead of the directory, so that every push, forced   *)
(* or not and by whomever, only adds to it: what was on the branch once is  *)
(* there when the pull request is opened.                                   *)

Behind == stage \in Past => remote.edits \subseteq ws.head.edits

PassedPushed ==
  conf.gha => IF stage \in Past THEN run.passed \subseteq remote.edits ELSE run.passed = {}

Routed ==
  /\ stage \in {"build", "retry"} => run.route = "feature"
  /\ stage = "docs" => run.route = "docs"

Reproducing == {"design", "fix", "verify", "squash", "review", "pr"}

Late == {"squash", "review", "pr"}

ReproPushed ==
  run.route = "bug" /\ stage \in Reproducing => <<"repro", run.n>> \in remote.edits

CarriedInv == TypeInv /\ Behind /\ Routed /\ PassedPushed /\ ReproPushed /\ PrCarriesWork

\* The branch only grows.
LEMMA Grows ==
  ASSUME TypeInv, Behind, [Next]_vars, stage \in Past
  PROVE  remote.edits \subseteq remote'.edits /\ remote'.edits \subseteq ws'.head.edits
BY PastExtends DEF Extends, Behind

\* Where a stage leads.
StageEffect ==
  \/ stage' = stage \/ stage' = "idle"
  \/ stage \notin Past /\ stage' \notin Past
  \/ Checkout
  \/ CommitRepro
  \/ stage = "design" /\ run.route = "feature" /\ stage' = "build"
  \/ stage = "design" /\ stage' = "fix"
  \/ stage \in {"build", "retry"} /\ stage' \in {"build", "retry", "verify"}
  \/ stage = "docs" /\ stage' = "squash"
  \/ stage = "repro" /\ stage' = "commit"
  \/ stage = "verify" /\ run.route = "feature" /\ stage' = "retry"
  \/ stage = "fix" /\ stage' = "verify"
  \/ stage = "verify" /\ stage' = "squash"
  \/ stage \in Late /\ stage' \in Late

\* Where one step can lead, from each group of stages.
LEMMA Stagewise ==
  ASSUME TypeInv, [Next]_vars
  PROVE  StageEffect
<1> USE DEF StageEffect, Late
<1>1. CASE stage \notin Past
  BY <1>1, Enters
<1>2. CASE stage \in Past
  <2>1. CASE Throws \/ ReproHalts \/ ReproTimesOut \/ FixFailed \/ CreatePr \/ Crash
    BY <2>1 DEF Throws, ReproHalts, ReproTimesOut, HaltAndEmail, FixFailed, CreatePr, Crash, Ends, Goto
  <2>2. CASE Trigger \/ Triage \/ ForkAndBranch \/ InstallWorkflows \/ Checkout
    BY <1>2, <2>2 DEF Trigger, Triage, ForkAndBranch, InstallWorkflows, Checkout, Past
  <2>3. CASE DesignAgreed
    BY <2>3 DEF DesignAgreed, Goto
  <2>4. CASE Docs \/ BuildFails \/ BuildPasses \/ Reproduced
    BY <2>4 DEF Docs, BuildFails, BuildPasses, Reproduced, Goto
  <2>5. CASE Retry
    BY <2>5, Zenon DEF Retry, OutOfRetries, Ends, Goto
  <2>6. CASE ReproRound
    BY <2>6 DEF ReproRound
  <2>7. CASE FixApproved \/ VerifySkipped \/ VerifyPasses
    BY <2>7 DEF FixApproved, VerifySkipped, VerifyPasses, Goto, Reproducing
  <2>8. CASE VerifyFails
    BY <2>8, Zenon DEF VerifyFails, Ends, Goto
  <2>9. CASE Squash
    <3>1. stage = "squash" /\ stage' \in {"review", "pr"}
      BY <2>9, Zenon DEF Squash, Goto
    <3> QED
      BY <3>1 DEF Reproducing
  <2>10. CASE Review
    BY <2>10 DEF Review, Ends, Goto, Reproducing
  <2>11. CASE CommitRepro
    BY <2>11
  <2>12. CASE ZombieRound \/ ZombieEnds \/ WatcherAmends \/ WatcherEnds \/ UpstreamMoves \/ PrCloses
              \/ UNCHANGED vars
    BY <2>12 DEF ZombieRound, ZombieEnds, WatcherAmends, WatcherEnds, UpstreamMoves, PrCloses, vars
  <2> QED
    BY <2>1, <2>2, <2>3, <2>4, <2>5, <2>6, <2>7, <2>8, <2>9, <2>10, <2>11, <2>12, Zenon
       DEF Next, Work
<1> QED
  BY <1>1, <1>2

\* A pipeline in its directory stays there until it ends.
LEMMA StaysPast ==
  ASSUME TypeInv, [Next]_vars, stage \in Past
  PROVE  stage' \in Past \/ stage' = "idle"
<1>1. CASE CommitRepro
  <2>1. stage' \in {"design", "fix", "idle"}
    BY <1>1, Zenon DEF CommitRepro, Ends, Goto
  <2> QED
    BY <2>1 DEF Past, Stages
<1>2. CASE ~CommitRepro
  BY <1>2, Stagewise DEF StageEffect, Late, Checkout, Reproducing, Past, Stages
<1> QED
  BY <1>1, <1>2

\* A step that ends no pipeline and starts none keeps its number and, after
\* triage, its route.
LEMMA RunOfStep ==
  ASSUME TypeInv, [Next]_vars, stage \in Past, stage' # "idle"
  PROVE  run'.n = run.n /\ run'.route = run.route
<1>1. run \in RunTypes
  BY Zenon DEF TypeInv, TypeOK, RunTypes
<1>2. CASE FixApproved
  <2> DEFINE f(made) == IF conf.gha THEN remote'.edits \cap Own(FixKinds) ELSE made
  <2>1. PICK made \in SUBSET Own(FixKinds) : run' = [run EXCEPT !.passed = f(made)]
    BY <1>2, Zenon DEF FixApproved
  <2> HIDE DEF f
  <2> QED
    BY <1>1, <2>1 DEF RunTypes
<1>3. CASE VerifySkipped \/ VerifyPasses
  BY <1>1, <1>3 DEF VerifySkipped, VerifyPasses, RunTypes
<1>4. CASE Trigger
  BY <1>4 DEF Trigger, Past
<1> QED
  BY <1>2, <1>3, <1>4, RunEffect DEF Ended, Kept, Past

\* Only a feature is built, and only docs are written for a docs issue.
LEMMA RoutedStep ==
  ASSUME TypeInv, Routed, [Next]_vars
  PROVE  Routed'
<1>1. CASE Checkout
  BY <1>1 DEF Checkout, Goto, Routed
<1>2. CASE stage' \in Past /\ stage \in Past
  <2>1. run'.route = run.route
    BY <1>2, RunOfStep DEF Past
  <2>2. StageEffect
    BY Stagewise
  <2>3. CASE CommitRepro
    <3>1. stage' \in {"design", "fix", "idle"}
      BY <2>3, Zenon DEF CommitRepro, Ends, Goto
    <3> QED
      BY <3>1 DEF Routed
  <2>4. ~Checkout
    BY <1>2 DEF Checkout, Past
  <2> QED
    BY <1>2, <2>1, <2>2, <2>3, <2>4 DEF StageEffect, Late, Routed, Reproducing, Past
<1>3. CASE stage' \notin Past
  BY <1>3 DEF Routed, Past, Stages
<1> QED
  BY <1>1, <1>2, <1>3, Enters

\* A bug's pipeline has committed and pushed its test before its fix.
LEMMA EntersReproducing ==
  ASSUME TypeInv, Routed, [Next]_vars, stage \notin Reproducing, stage' \in Reproducing,
         run'.route = "bug"
  PROVE  CommitRepro
<1>1. CASE Checkout
  BY <1>1 DEF Checkout, Goto, Reproducing
<1>2. CASE ~Checkout /\ stage \notin Past
  BY <1>2, Enters DEF Past, Reproducing, Stages
<1>3. CASE stage \in Past
  <2>1. run'.route = run.route
    BY <1>3, RunOfStep DEF Reproducing
  <2>2. StageEffect
    BY Stagewise
  <2>3. ~Checkout
    BY <1>3 DEF Checkout, Past
  <2> QED
    BY <1>3, <2>1, <2>2, <2>3 DEF StageEffect, Late, Routed, Reproducing, Past, Stages
<1> QED
  BY <1>1, <1>2, <1>3

\* A test that is pushed is on the branch.
LEMMA ReproOnBranch ==
  ASSUME TypeInv, CommitRepro, stage' \in Reproducing
  PROVE  <<"repro", run.n>> \in remote'.edits
<1>1. CommitPaths(Clean(ws), Own({"repro"})).head = With(ws.head, Own({"repro"}))
  <2>1. ws \in Dirs
    BY DEF TypeInv, TypeOK, Dirs
  <2> QED
    BY <2>1 DEF CommitPaths, Clean, Dirs
<1>2. With(ws.head, Own({"repro"})).edits = ws.head.edits \cup Own({"repro"})
  <2>1. ws.head \in Trees /\ run.n \in 1 .. MaxRuns
    BY DEF TypeInv, CheckedOut, Started, CommitRepro, Past, Stages
  <2> QED
    BY <2>1, OwnEdits, WithTree DEF Kinds
<1>3. Push(CommitPaths(Clean(ws), Own({"repro"})), TRUE)
  <2>1. PICK ok \in BOOLEAN :
          /\ Push(CommitPaths(Clean(ws), Own({"repro"})), ok)
          /\ IF ok
             THEN Goto(IF run.pm THEN "design" ELSE "fix") /\ UNCHANGED run
             ELSE Ends("thrown", FALSE)
    BY DEF CommitRepro
  <2>2. ok = TRUE
    BY <2>1 DEF Ends, Reproducing
  <2> QED
    BY <2>1, <2>2, Zenon
<1>4. remote' = CommitPaths(Clean(ws), Own({"repro"})).head
  BY <1>3 DEF Push
<1> QED
  BY <1>1, <1>2, <1>4 DEF Own

\* The pull request of a bug holds its own repro test and, on gha, every edit
\* that made it pass, whatever rewrites the branch and whoever else commits in
\* the directory: squash, watchers, timed-out reproductions (CreatePr).
THEOREM WorkCarried == Spec => []PrCarriesWork
<1>1. Init => CarriedInv
  BY TypeInvInit DEF Init, CarriedInv, Behind, Routed, PassedPushed, ReproPushed, PrCarriesWork,
     Past, Reproducing, NoRun, NoPr
<1>2. CarriedInv /\ [Next]_vars => CarriedInv'
  <2> SUFFICES ASSUME CarriedInv, [Next]_vars PROVE CarriedInv'
    OBVIOUS
  <2>0. TypeInv /\ Behind /\ Routed /\ PassedPushed /\ ReproPushed /\ PrCarriesWork
    BY DEF CarriedInv
  <2>1. TypeInv' /\ Routed'
    BY <2>0, TypeInvStep, RoutedStep
  <2>2. conf' = conf
    BY ConfEffect
  <2>3. Behind'
    <3>1. CASE stage \in Past
      BY <2>0, <3>1, Grows DEF Behind
    <3>2. CASE Checkout
      <4>1. ws'.head = remote
        BY <2>0, <3>2 DEF Checkout, TypeInv, TypeOK
      <4> QED
        BY <3>2, <4>1 DEF Checkout, Behind
    <3> QED
      BY <2>0, <3>1, <3>2, Enters DEF Behind
  <2>4. PassedPushed'
    <3>1. CASE Ended
      BY <3>1 DEF Ended, PassedPushed, Past
    <3>2. CASE Trigger
      <4>1. run'.passed = {}
        BY <3>2 DEF Trigger, NoRun
      <4>2. stage' = "triage"
        BY <3>2 DEF Trigger, Goto
      <4> QED
        BY <4>1, <4>2 DEF PassedPushed, Past
    <3>3. CASE FixApproved
      <4>1. PICK made \in SUBSET Own(FixKinds) :
              run' = [run EXCEPT !.passed = IF conf.gha THEN remote'.edits \cap Own(FixKinds)
                                            ELSE made]
        BY <3>3 DEF FixApproved
      <4>2. run \in RunTypes
        BY <2>0, Zenon DEF TypeInv, TypeOK, RunTypes
      <4>3. conf.gha => run'.passed \subseteq remote'.edits
        BY <4>1, <4>2 DEF RunTypes
      <4>4. stage' \in Past
        BY <3>3 DEF FixApproved, Goto, Past, Stages
      <4> QED
        BY <2>2, <4>3, <4>4 DEF PassedPushed
    <3>4. CASE Kept \/ VerifySkipped \/ VerifyPasses
      <4>1. run'.passed = run.passed
        <5>1. run \in RunTypes
          BY <2>0, Zenon DEF TypeInv, TypeOK, RunTypes
        <5> QED
          BY <3>4, <5>1 DEF Kept, VerifySkipped, VerifyPasses, RunTypes
      <4>2. CASE stage \in Past
        <5>1. stage' \in Past
          BY <2>0, <3>4, <4>2, StaysPast DEF Kept, VerifySkipped, VerifyPasses, Goto, Past, Stages
        <5> QED
          BY <2>0, <2>2, <4>1, <4>2, <5>1, Grows DEF PassedPushed
      <4>3. CASE stage \notin Past
        BY <2>0, <2>2, <4>1, <4>3 DEF PassedPushed
      <4> QED
        BY <4>2, <4>3
    <3> QED
      BY <2>0, <3>1, <3>2, <3>3, <3>4, RunEffect
  <2>5. ReproPushed'
    <3> SUFFICES ASSUME run'.route = "bug", stage' \in Reproducing
                 PROVE  <<"repro", run'.n>> \in remote'.edits
      BY DEF ReproPushed
    <3>1. CASE stage \in Reproducing
      <4>1. stage \in Past /\ stage' # "idle"
        BY <3>1 DEF Reproducing, Past, Stages
      <4>2. run'.n = run.n /\ run'.route = run.route
        BY <2>0, <4>1, RunOfStep
      <4> QED
        BY <2>0, <3>1, <4>1, <4>2, Grows DEF ReproPushed
    <3>2. CASE stage \notin Reproducing
      <4>1. CommitRepro
        BY <2>0, <3>2, EntersReproducing
      <4>2. run'.n = run.n
        BY <2>0, <4>1, RunOfStep DEF CommitRepro, Past, Stages, Reproducing
      <4> QED
        BY <2>0, <4>1, <4>2, ReproOnBranch
    <3> QED
      BY <3>1, <3>2
  <2>6. PrCarriesWork'
    <3>1. CASE CreatePr
      <4>1. /\ pr'.run = run.n /\ pr'.route = run.route /\ pr'.tree = remote
            /\ pr'.passed = run.passed
        BY <3>1 DEF CreatePr
      <4>2. stage = "pr"
        BY <3>1 DEF CreatePr
      <4> QED
        BY <2>0, <2>2, <4>1, <4>2
           DEF PrCarriesWork, ReproPushed, PassedPushed, Reproducing, Past, Stages
    <3>2. CASE pr' = NoPr
      BY <3>2 DEF NoPr, PrCarriesWork
    <3>3. CASE pr' = pr
      BY <2>0, <2>2, <3>3 DEF PrCarriesWork
    <3> QED
      BY <3>1, <3>2, <3>3, PrEffect
  <2> QED
    BY <2>1, <2>3, <2>4, <2>5, <2>6 DEF CarriedInv
<1> QED
  BY <1>1, <1>2, PTL DEF Spec, CarriedInv

-----------------------------------------------------------------------------
(* A pipeline that is alone.  If nothing of an earlier one was at work when *)
(* it started, nothing is until it ends: only what the pipeline itself      *)
(* commits reaches directory and branch.                                   *)

Alone == run.alone => stage # "idle" /\ zombies = {} /\ watchers = {}

\* No run has begun.
LEMMA AloneInit == Init => Alone
BY DEF Init, Alone, NoRun

\* Only the end of a pipeline adds to what goes on beside one.
LEMMA BackgroundEffect ==
  ASSUME [Next]_vars
  PROVE  \/ zombies' \subseteq zombies /\ watchers' \subseteq watchers
         \/ ReproTimesOut \/ CreatePr
<1>1. CASE UNCHANGED <<zombies, watchers>>
  BY <1>1
<1>2. CASE ReproHalts
  BY <1>2, <1>1 DEF ReproHalts, HaltAndEmail
<1>3. CASE ZombieEnds \/ WatcherEnds \/ Crash
  BY <1>3 DEF ZombieEnds, WatcherEnds, Crash
<1>4. CASE Trigger \/ Triage \/ Throws \/ ForkAndBranch \/ InstallWorkflows \/ Checkout
           \/ DesignAgreed \/ Docs \/ BuildFails \/ BuildPasses \/ Retry \/ ReproRound \/ Reproduced
  BY <1>1, <1>4, Zenon
     DEF Trigger, Triage, Throws, ForkAndBranch, InstallWorkflows, Checkout, DesignAgreed, Docs,
         BuildFails, BuildPasses, Retry, ReproRound, Reproduced, background
<1>5. CASE CommitRepro \/ FixApproved \/ FixFailed \/ VerifySkipped \/ VerifyPasses \/ VerifyFails
           \/ Squash \/ Review \/ ZombieRound \/ WatcherAmends \/ UpstreamMoves \/ PrCloses
           \/ UNCHANGED vars
  BY <1>1, <1>5, Zenon
     DEF CommitRepro, FixApproved, FixFailed, VerifySkipped, VerifyPasses, VerifyFails, Squash,
         Review, ZombieRound, WatcherAmends, UpstreamMoves, PrCloses, vars, background
<1> QED
  BY <1>2, <1>3, <1>4, <1>5, Zenon DEF Next, Work

\* Whoever is alone after a step was so before, or has just started.
LEMMA AloneBefore ==
  ASSUME TypeInv, Alone, [Next]_vars, run'.alone
  PROVE  \/ Trigger
         \/ /\ run.alone /\ run'.n = run.n /\ stage' # "idle"
            /\ zombies' = {} /\ watchers' = {}
<1>1. run \in RunTypes
  BY Zenon DEF TypeInv, TypeOK, RunTypes
<1>2. CASE FixApproved
  <2> DEFINE f(made) == IF conf.gha THEN remote'.edits \cap Own(FixKinds) ELSE made
  <2>1. PICK made \in SUBSET Own(FixKinds) : run' = [run EXCEPT !.passed = f(made)]
    BY <1>2, Zenon DEF FixApproved
  <2> HIDE DEF f
  <2>2. run'.n = run.n /\ run'.alone = run.alone
    BY <1>1, <2>1 DEF RunTypes
  <2> QED
    BY <1>2, <2>2, BackgroundEffect DEF Alone, FixApproved, Goto, ReproTimesOut, CreatePr
<1>3. CASE VerifySkipped \/ VerifyPasses
  <2>1. run'.n = run.n /\ run'.alone = run.alone
    BY <1>1, <1>3 DEF RunTypes, VerifySkipped, VerifyPasses
  <2> QED
    BY <1>3, <2>1, BackgroundEffect
       DEF Alone, VerifySkipped, VerifyPasses, Goto, ReproTimesOut, CreatePr
<1>4. CASE Kept
  <2>1. run.alone /\ stage # "idle" /\ zombies = {} /\ watchers = {}
    BY <1>4 DEF Alone, Kept
  <2>2. stage' # "idle" /\ run'.n = run.n
    BY <1>4, <2>1 DEF Kept
  <2>3. ~ReproTimesOut /\ ~CreatePr
    BY <2>2 DEF ReproTimesOut, CreatePr, HaltAndEmail, Ends
  <2> QED
    BY <2>1, <2>2, <2>3, BackgroundEffect
<1> QED
  BY <1>2, <1>3, <1>4, RunEffect DEF Ended

\* A run that began alone stays alone to its end.
LEMMA AloneStep == TypeInv /\ Alone /\ [Next]_vars => Alone'
<1> SUFFICES ASSUME TypeInv, Alone, [Next]_vars, run'.alone
             PROVE  stage' # "idle" /\ zombies' = {} /\ watchers' = {}
  BY DEF Alone
<1>1. CASE Trigger
  <2>1. run'.alone = (zombies = {} /\ watchers = {})
    <3> DEFINE alone == zombies = {} /\ watchers = {}
    <3>1. run' = [n |-> run.n + 1, route |-> "none", pm |-> FALSE, rounds |-> 0,
                  failures |-> 0, passed |-> {}, verified |-> NoTree, alone |-> alone,
                  told |-> FALSE, result |-> "none"]
      BY <1>1, Zenon DEF Trigger, NoRun
    <3> HIDE DEF alone
    <3>2. run'.alone = alone
      BY <3>1, Zenon
    <3> QED
      BY <3>2, Zenon DEF alone
  <2> QED
    BY <1>1, <2>1 DEF Trigger, Goto, background
<1> QED
  BY <1>1, AloneBefore

\* Before its checkout, a pipeline that is alone and its branch.
LEMMA EarlySteps ==
  ASSUME TypeInv, [Next]_vars, stage \notin Past, zombies = {}, watchers = {},
         stage' \notin {"idle", "triage", "fork"}
  PROVE  ForkAndBranch \/ InstallWorkflows \/ Checkout \/ (stage' = stage /\ remote' = remote)
<1>1. CASE stage' \in Past
  BY <1>1, Enters
<1>2. CASE stage' \notin Past
  <2>1. stage \in {"idle", "triage", "fork", "install", "checkout"}
    BY DEF TypeInv, TypeOK, Past
  <2>2. CASE Trigger \/ Triage
    <3>1. stage' \in {"idle", "triage", "fork"}
      BY <2>2, Zenon DEF Trigger, Triage, Ends, Goto
    <3> QED
      BY <3>1
  <2>3. CASE Throws \/ Crash
    BY <2>3 DEF Throws, Crash, Ends, Goto
  <2>4. ASSUME DesignAgreed \/ Docs \/ BuildFails \/ BuildPasses \/ Retry \/ ReproRound \/ Reproduced
               \/ ReproHalts \/ ReproTimesOut \/ CommitRepro
        PROVE  FALSE
    BY <2>1, <2>4
       DEF DesignAgreed, Docs, BuildFails, BuildPasses, Retry, OutOfRetries, ReproRound, Reproduced, ReproHalts,
           ReproTimesOut, CommitRepro
  <2>5. ASSUME FixApproved \/ FixFailed \/ VerifySkipped \/ VerifyPasses \/ VerifyFails \/ Squash
               \/ Review \/ CreatePr
        PROVE  FALSE
    BY <2>1, <2>5
       DEF FixApproved, FixFailed, VerifySkipped, VerifyPasses, VerifyFails, Squash, Review, CreatePr
  <2>6. ~ZombieRound /\ ~ZombieEnds /\ ~WatcherAmends /\ ~WatcherEnds
    BY DEF ZombieRound, ZombieEnds, WatcherAmends, WatcherEnds
  <2>7. CASE UpstreamMoves \/ PrCloses \/ UNCHANGED vars
    BY <2>7 DEF UpstreamMoves, PrCloses, vars
  <2> QED
    BY <2>2, <2>3, <2>4, <2>5, <2>6, <2>7, Zenon DEF Next, Work
<1> QED
  BY <1>1, <1>2

OwnOnly ==
  ~conf.gha /\ run.alone =>
    /\ stage \notin {"idle", "triage", "fork"} => \A e \in remote.edits : e[2] = run.n
    /\ stage \in Past => \A e \in ws.head.edits : e[2] = run.n

\* Alone, a run puts only edits of its own on HEAD and branch.
LEMMA OwnOnlyStep == TypeInv /\ Alone /\ OwnOnly /\ [Next]_vars => OwnOnly'
<1> SUFFICES ASSUME TypeInv, Alone, OwnOnly, [Next]_vars, ~conf.gha, run'.alone
             PROVE  /\ stage' \notin {"idle", "triage", "fork"} =>
                         \A e \in remote'.edits : e[2] = run'.n
                    /\ stage' \in Past => \A e \in ws'.head.edits : e[2] = run'.n
  BY ConfEffect DEF OwnOnly
<1>1. CASE Trigger
  BY <1>1 DEF Trigger, Goto, Past
<1>2. CASE ~Trigger
  <2>1. run.alone /\ run'.n = run.n /\ stage # "idle" /\ zombies = {} /\ watchers = {}
    BY <1>2, AloneBefore DEF Alone
  <2>2. run.n \in 1 .. MaxRuns
    BY <2>1 DEF TypeInv, Started
  <2>3. CASE stage \in Past
    <3>1. Extends /\ ws'.head.edits \subseteq ws.head.edits \cup Own(Kinds)
      BY <2>1, <2>3, PastExtends DEF Modest
    <3>2. \A e \in Own(Kinds) : e[2] = run.n
      BY <2>2, OwnEdits
    <3>3. \A e \in remote.edits \cup ws.head.edits : e[2] = run.n
      BY <2>1, <2>3 DEF OwnOnly, Past
    <3> QED
      BY <2>1, <3>1, <3>2, <3>3 DEF Extends
  <2>4. CASE stage \notin Past /\ stage' \notin {"idle", "triage", "fork"}
    <3>1. CASE ForkAndBranch
      <4>1. remote'.edits = {} /\ stage' \notin Past
        BY <3>1 DEF ForkAndBranch, TreeAt, Goto, Past
      <4> QED
        BY <4>1
    <3>2. CASE InstallWorkflows
      <4>1. \A e \in Own({"workflows"}) : e[2] = run.n
        BY <2>2, OwnEdits DEF Kinds
      <4>2. remote \in Trees /\ Own({"workflows"}) \in SUBSET Edits
        BY <2>2, <3>2, OwnEdits DEF InstallWorkflows, TypeInv, Branched, Kinds
      <4>3. remote'.edits \subseteq remote.edits \cup Own({"workflows"})
        BY <3>2, <4>2, WithTree DEF InstallWorkflows
      <4>4. stage' \notin Past
        BY <3>2 DEF InstallWorkflows, Goto, Past
      <4> QED
        BY <2>1, <3>2, <4>1, <4>3, <4>4 DEF OwnOnly, InstallWorkflows
    <3>3. CASE Checkout
      <4>1. ws'.head = remote
        BY <3>3 DEF Checkout, TypeInv, TypeOK
      <4> QED
        BY <2>1, <3>3, <4>1 DEF Checkout, OwnOnly
    <3>4. CASE stage' = stage /\ remote' = remote
      BY <2>1, <2>4, <3>4 DEF OwnOnly
    <3> QED
      BY <2>1, <2>4, <3>1, <3>2, <3>3, <3>4, EarlySteps
  <2>5. CASE stage' \in {"idle", "triage", "fork"}
    BY <2>5 DEF Past
  <2> QED
    BY <2>3, <2>4, <2>5
<1> QED
  BY <1>1, <1>2

\* With the local driver the pull request of a pipeline that was alone holds
\* edits of that pipeline only, whatever killed pipelines left in the directory
\* (commitPaths, resetWorkingTree).
THEOREM OwnWorkOnly == Spec => []LocalPrIsOwn
<1> DEFINE Inv == TypeInv /\ Alone /\ OwnOnly /\ LocalPrIsOwn
<1>1. Init => Inv
  BY TypeInvInit, AloneInit DEF Init, OwnOnly, LocalPrIsOwn, NoRun, NoPr, Past
<1>2. Inv /\ [Next]_vars => Inv'
  <2> SUFFICES ASSUME TypeInv, Alone, OwnOnly, LocalPrIsOwn, [Next]_vars PROVE Inv'
    OBVIOUS
  <2>1. TypeInv' /\ Alone' /\ OwnOnly'
    BY TypeInvStep, AloneStep, OwnOnlyStep
  <2>2. LocalPrIsOwn'
    <3>0. conf' = conf
      BY ConfEffect
    <3>1. CASE CreatePr
      <4>1. pr'.run = run.n /\ pr'.tree = remote /\ stage = "pr"
        BY <3>1 DEF CreatePr
      <4>2. pr'.alone = run.alone
        BY <3>1 DEF CreatePr
      <4> QED
        BY <3>0, <4>1, <4>2 DEF LocalPrIsOwn, OwnOnly
    <3>2. CASE pr' = NoPr
      BY <3>2 DEF NoPr, LocalPrIsOwn
    <3>3. CASE pr' = pr
      BY <3>0, <3>3 DEF LocalPrIsOwn
    <3> QED
      BY <3>1, <3>2, <3>3, PrEffect
  <2> QED
    BY <2>1, <2>2
<1> QED
  BY <1>1, <1>2, PTL DEF Spec

\* After the verification gate a pipeline that is alone commits nothing more.
LEMMA LateSteps ==
  ASSUME TypeInv, [Next]_vars, stage \in Late, zombies = {}, watchers = {}
  PROVE  ws'.head.edits = ws.head.edits
<1>1. CASE UNCHANGED ws
  BY <1>1
<1>2. CASE Squash
  <2>1. ws \in Dirs /\ ws.head \in Trees
    BY <1>2 DEF Squash, TypeInv, TypeOK, Dirs, CheckedOut, Past, Stages
  <2>2. ASSUME NEW ok \in BOOLEAN, ForcePush(Squashed(ws), ok)
        PROVE  ws'.head.edits = ws.head.edits
    <3>1. /\ Squashed(ws) \in Dirs /\ Squashed(ws).head.edits = ws.head.edits
      BY <2>1 DEF TypeInv, TypeOK, Squashed, Dirs, Trees
    <3> QED
      BY <2>2, <3>1, ForcePushEffect
  <2> QED
    BY <1>1, <1>2, <2>2 DEF Squash
<1>3. CASE Throws \/ Review \/ CreatePr \/ UpstreamMoves \/ PrCloses \/ Crash \/ UNCHANGED vars
  BY <1>1, <1>3, Zenon DEF Throws, Review, CreatePr, UpstreamMoves, PrCloses, Crash, vars
<1>4. ~ZombieRound /\ ~ZombieEnds /\ ~WatcherAmends /\ ~WatcherEnds
  BY DEF ZombieRound, ZombieEnds, WatcherAmends, WatcherEnds
<1>5. ASSUME Trigger \/ Triage \/ ForkAndBranch \/ InstallWorkflows \/ Checkout \/ DesignAgreed
             \/ Docs \/ BuildFails \/ BuildPasses \/ Retry
      PROVE  FALSE
  BY <1>5
     DEF Late, Trigger, Triage, ForkAndBranch, InstallWorkflows, Checkout, DesignAgreed, Docs,
         BuildFails, BuildPasses, Retry
<1>6. ASSUME ReproRound \/ Reproduced \/ ReproHalts \/ ReproTimesOut \/ CommitRepro \/ FixApproved
             \/ FixFailed \/ VerifySkipped \/ VerifyPasses \/ VerifyFails
      PROVE  FALSE
  BY <1>6
     DEF Late, ReproRound, Reproduced, ReproHalts, ReproTimesOut, CommitRepro, FixApproved, FixFailed,
         VerifySkipped, VerifyPasses, VerifyFails
<1> QED
  BY <1>2, <1>3, <1>4, <1>5, <1>6, Zenon DEF Next, Work

AsVerified ==
  run.verified # NoTree =>
    /\ stage \in Late
    /\ run.alone =>
         /\ ws.head.edits = run.verified.edits /\ remote.edits = run.verified.edits
         /\ ws.head.files = run.verified.files /\ remote.files = run.verified.files

\* Alone, a run changes nothing after it was verified.
LEMMA AsVerifiedStep == TypeInv /\ Alone /\ AsVerified /\ [Next]_vars => AsVerified'
<1> SUFFICES ASSUME TypeInv, Alone, AsVerified, [Next]_vars, run'.verified # NoTree
             PROVE  /\ stage' \in Late
                    /\ run'.alone =>
                         /\ ws'.head.edits = run'.verified.edits
                         /\ remote'.edits = run'.verified.edits
                         /\ ws'.head.files = run'.verified.files
                         /\ remote'.files = run'.verified.files
  BY DEF AsVerified
<1>1. run \in RunTypes
  BY Zenon DEF TypeInv, TypeOK, RunTypes
<1>2. ~Ended
  BY DEF Ended
<1>3. ~Trigger
  BY DEF Trigger, NoRun
<1>4. ~VerifySkipped
  BY <1>1 DEF VerifySkipped, RunTypes
<1>5. ~FixApproved
  <2> SUFFICES ASSUME FixApproved PROVE FALSE
    OBVIOUS
  <2> DEFINE f(made) == IF conf.gha THEN remote'.edits \cap Own(FixKinds) ELSE made
  <2>1. PICK made \in SUBSET Own(FixKinds) : run' = [run EXCEPT !.passed = f(made)]
    BY Zenon DEF FixApproved
  <2> HIDE DEF f
  <2>2. run'.verified = run.verified
    BY <1>1, <2>1 DEF RunTypes
  <2> QED
    BY <2>2 DEF AsVerified, FixApproved, Late
<1>6. CASE VerifyPasses
  <2>1. stage' = "squash" /\ run'.verified = remote'
    BY <1>1, <1>6 DEF VerifyPasses, Goto, RunTypes
  <2>2. remote' = ws'.head
    BY <1>6 DEF VerifyPasses, Push
  <2> QED
    BY <2>1, <2>2 DEF Late
<1>7. CASE Kept
  <2>1. run'.verified = run.verified /\ stage \in Late
    BY <1>7 DEF Kept, AsVerified
  <2>2. stage \in Past /\ stage # "idle"
    BY <2>1 DEF Late, Past, Stages
  <2>3. stage' \in Late
    <3>1. ~Checkout /\ ~CommitRepro /\ stage' # "idle"
      BY <1>7, <2>1, <2>2 DEF Late, Checkout, CommitRepro, Kept
    <3> QED
      BY <2>1, <2>2, <3>1, Stagewise DEF StageEffect, Late
  <2>4. ASSUME run'.alone
        PROVE  /\ ws'.head.edits = run'.verified.edits /\ remote'.edits = run'.verified.edits
               /\ ws'.head.files = run'.verified.files /\ remote'.files = run'.verified.files
    <3>1. run.alone /\ zombies = {} /\ watchers = {}
      BY <1>3, <2>4, AloneBefore DEF Alone
    <3>2. ws'.head.edits = ws.head.edits
      BY <2>1, <3>1, LateSteps
    <3>3. ws'.head.files = ws.head.files /\ remote' \in {remote, ws'.head}
      BY <2>2, PastExtends DEF Extends
    <3>4. /\ ws.head.edits = run.verified.edits /\ remote.edits = run.verified.edits
          /\ ws.head.files = run.verified.files /\ remote.files = run.verified.files
      BY <2>1, <3>1 DEF AsVerified
    <3> QED
      BY <2>1, <3>2, <3>3, <3>4
  <2> QED
    BY <2>3, <2>4
<1> QED
  BY <1>2, <1>3, <1>4, <1>5, <1>6, <1>7, RunEffect

\* What a pull request holds is what the verification gate tested, if its
\* pipeline was alone, however long the review took and whatever the squash, a
\* failure of it and upstream did meanwhile (runVerification, CreatePr).
THEOREM ShippedAsVerified == Spec => []ShippedIsVerified
<1> DEFINE Inv == TypeInv /\ Alone /\ AsVerified /\ ShippedIsVerified
<1>1. Init => Inv
  BY TypeInvInit, AloneInit DEF Init, AsVerified, ShippedIsVerified, NoRun, NoPr
<1>2. Inv /\ [Next]_vars => Inv'
  <2> SUFFICES ASSUME TypeInv, Alone, AsVerified, ShippedIsVerified, [Next]_vars PROVE Inv'
    OBVIOUS
  <2>1. TypeInv' /\ Alone' /\ AsVerified'
    BY TypeInvStep, AloneStep, AsVerifiedStep
  <2>2. ShippedIsVerified'
    <3>0. conf' = conf
      BY ConfEffect
    <3>1. CASE CreatePr
      <4>1. pr'.tree = remote /\ pr'.verified = run.verified
        BY <3>1 DEF CreatePr
      <4>2. pr'.alone = run.alone
        BY <3>1 DEF CreatePr
      <4> QED
        BY <4>1, <4>2 DEF ShippedIsVerified, AsVerified
    <3>2. CASE pr' = NoPr
      BY <3>2 DEF NoPr, ShippedIsVerified
    <3>3. CASE pr' = pr
      BY <3>0, <3>3 DEF ShippedIsVerified
    <3> QED
      BY <3>1, <3>2, <3>3, PrEffect
  <2> QED
    BY <2>1, <2>2
<1> QED
  BY <1>1, <1>2, PTL DEF Spec

-----------------------------------------------------------------------------
(* Whoever is stuck is told.                                               *)

\* How a pipeline of a deployment with mail ends, if it is not opened, thrown
\* or killed: with a mail.
LEMMA Outcomes ==
  ASSUME TypeInv, [Next]_vars, conf.live, stage' = "idle"
  PROVE  \/ run' = run /\ stage = "idle"
         \/ run'.result \in {"pr-opened", "thrown", "killed"}
         \/ run'.told
<1>0. run \in RunTypes
  BY Zenon DEF TypeInv, TypeOK, RunTypes
<1>1. ASSUME NEW result \in Results, NEW told \in BOOLEAN, Ends(result, told)
      PROVE  run'.result = result /\ run'.told = told
  BY <1>0, <1>1, EndTypes
<1>2. ASSUME NEW result \in Results, Ends(result, conf.live) PROVE run'.told
  <2>1. conf.live = TRUE
    <3>1. conf \in Configs
      BY DEF TypeInv, TypeOK
    <3> QED
      BY <3>1, PipelineAssumption
  <2>2. Ends(result, TRUE)
    BY <1>2, <2>1, Zenon
  <2>3. run'.told = TRUE
    BY <1>1, <2>2
  <2> QED
    BY <2>3, Zenon
<1>3. CASE Triage
  <2>1. Ends("commented", conf.live)
    BY <1>3, Zenon DEF Triage, Goto
  <2> QED
    BY <1>2, <2>1 DEF Results
<1>4. CASE Throws \/ CommitRepro
  <2>1. Ends("thrown", FALSE)
    BY <1>4, Zenon DEF Throws, CommitRepro, Goto
  <2> QED
    BY <1>1, <2>1 DEF Results
<1>5. CASE Retry \/ FixFailed \/ VerifyFails
  <2>1. Ends("max-retries-exceeded", conf.live)
    BY <1>5, Zenon DEF Retry, OutOfRetries, FixFailed, VerifyFails, Goto
  <2> QED
    BY <1>2, <2>1 DEF Results
<1>6. CASE ReproHalts \/ ReproTimesOut
  <2>1. Ends("halted", conf.live)
    BY <1>6, Zenon DEF ReproHalts, ReproTimesOut, HaltAndEmail
  <2> QED
    BY <1>2, <2>1 DEF Results
<1>7. CASE Review
  <2>1. Ends("fix-failed", TRUE)
    BY <1>7, Zenon DEF Review, Goto
  <2>2. run'.told = TRUE
    BY <1>1, <2>1 DEF Results
  <2> QED
    BY <2>2, Zenon
<1>8. CASE CreatePr
  <2>1. (conf.live /\ run.route = "bug") \in BOOLEAN
    OBVIOUS
  <2> QED
    BY <1>1, <1>8, <2>1 DEF CreatePr, Results
<1>9. CASE Crash
  <2>1. CASE stage = "idle"
    BY <1>9, <2>1 DEF Crash
  <2>2. CASE stage # "idle"
    <3>1. run' = [n |-> run.n, route |-> "none", pm |-> FALSE, rounds |-> 0,
                  failures |-> 0, passed |-> {}, verified |-> NoTree, alone |-> FALSE,
                  told |-> FALSE, result |-> "killed"]
      BY <1>9, <2>2, Zenon DEF Crash, NoRun
    <3> QED
      BY <3>1
  <2> QED
    BY <2>1, <2>2
<1>10. CASE ZombieRound \/ ZombieEnds \/ WatcherAmends \/ WatcherEnds \/ UpstreamMoves \/ PrCloses
            \/ UNCHANGED vars
  BY <1>10 DEF ZombieRound, ZombieEnds, WatcherAmends, WatcherEnds, UpstreamMoves, PrCloses, vars
<1>11. CASE Trigger \/ ForkAndBranch \/ InstallWorkflows \/ Checkout \/ DesignAgreed \/ Docs
            \/ BuildFails \/ BuildPasses \/ ReproRound \/ Reproduced \/ FixApproved \/ VerifySkipped
            \/ VerifyPasses \/ Squash
  <2>1. stage' # "idle"
    <3>1. CASE Checkout
      BY <3>1 DEF Checkout, Goto
    <3>2. CASE Squash
      BY <3>2, Zenon DEF Squash, Goto
    <3>3. CASE ReproRound
      BY <3>3 DEF ReproRound
    <3>4. CASE ForkAndBranch \/ DesignAgreed
      BY <3>4, Zenon DEF ForkAndBranch, DesignAgreed, Goto
    <3> QED
      BY <1>11, <3>1, <3>2, <3>3, <3>4
         DEF Trigger, InstallWorkflows, Docs, BuildFails, BuildPasses, Reproduced, FixApproved,
             VerifySkipped, VerifyPasses, Goto
  <2> QED
    BY <2>1
<1> QED
  BY <1>3, <1>4, <1>5, <1>6, <1>7, <1>8, <1>9, <1>10, <1>11, Zenon DEF Next, Work

\* README: a pipeline that is stuck mails the maintainer.  Every way to return
\* without a pull request does (haltAndEmail, runRetryLoop, the mails of the
\* fix stage and of the verification gate).
THEOREM StuckTold == Spec => []StuckRunsTold
<1>1. Init => StuckRunsTold
  BY DEF Init, StuckRunsTold, NoRun
<1>2. TypeInv /\ StuckRunsTold /\ [Next]_vars => StuckRunsTold'
  <2> SUFFICES ASSUME TypeInv, StuckRunsTold, [Next]_vars, stage' = "idle", conf'.live,
                      run'.result \notin {"none", "pr-opened", "thrown", "killed"}
               PROVE  run'.told
    BY DEF StuckRunsTold
  <2>1. conf' = conf
    BY ConfEffect
  <2>2. conf.live
    BY <2>1, Zenon
  <2>3. CASE run' = run /\ stage = "idle"
    <3>1. run.told
      BY <2>2, <2>3 DEF StuckRunsTold
    <3> QED
      BY <2>3, <3>1, Zenon
  <2> QED
    BY <2>2, <2>3, Outcomes
<1> QED
  BY <1>1, <1>2, TypeInvariant, PTL DEF Spec
=============================================================================
