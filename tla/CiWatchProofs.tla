---------------------------- MODULE CiWatchProofs ----------------------------
(***************************************************************************)
(* Proofs about the two parts of a run in which it deals with the          *)
(* maintainers: CiWatch, which watches the pull request, for any checks,   *)
(* linters and bounds (the types, the two safety invariants, and that      *)
(* nobody's work is pushed over); and DesignTalk, which settles the design *)
(* before, for any questions, issues and number of replies.                *)
(***************************************************************************)
EXTENDS CiWatch, DesignTalk, TLAPS

A_Commit == [left : SUBSET Fixable, work : SUBSET (1 .. MaxHuman)]

\* TypeOK in three parts: the commits, the watcher's lists, its control.
TypeGit ==
  /\ version \in DOMAIN Linters
  /\ commits \in Seq(A_Commit)
  /\ {remote, local, seen, sha} \subseteq DOMAIN commits
  /\ tree \subseteq Fixable
TypeLists ==
  /\ todo \subseteq failed /\ failed \subseteq Check /\ check \in Check \cup {NoCheck}
  /\ fixed \subseteq Fixable /\ told \subseteq Check /\ attempted \subseteq Fixable
TypeControl ==
  /\ tracked \in BOOLEAN /\ pushed \in BOOLEAN /\ late \in BOOLEAN /\ unpushed \in BOOLEAN
  /\ other \in {"no", "fetched", "done"}
  /\ place \in {"poll", "fetch", "triage", "fix", "amend", "push", "over"}
  /\ outcome \in {"open", "passed", "gave up", "timed out", "error"}
  /\ (outcome = "open") = (place # "over")

\* As long as no later pipeline takes the directory: between the repair and the
\* push the check at hand is repaired, as far as the verification sees, and what
\* is pushed is what the directory holds; and before and after, the branch is the
\* directory's HEAD, unless a push has failed or the maintainer has pushed.
Repaired ==
  version = "core" /\ other = "no" =>
    /\ place \in {"amend", "push"} => check \in Blind \/ check \notin tree
    /\ place = "push" => tree = commits[local].left
    /\ remote = local \/ place = "push" \/ unpushed \/ Humans # {}

\* What a lease protects is in HEAD, but between another's fetch and checkout.
LeaseCovers ==
  other # "fetched" => commits[seen].work \subseteq commits[local].work

\* A failure is told of, or still to come, or at hand, unless a push was made.
InHand == IF place \in {"fix", "amend", "push"} THEN {check} ELSE {}
RoundInv ==
  /\ place \in {"triage", "fix", "amend", "push"} =>
       failed # {} /\ (~pushed => failed \subseteq told \cup todo \cup InHand)
  /\ place \in {"fix", "amend", "push"} => check \in Fixable \cap Check
  /\ outcome = "gave up" => failed # {} /\ failed \subseteq told

\* What a version can repair are checks.
LEMMA LintersAreChecks == ASSUME version \in DOMAIN Linters PROVE Fixable \subseteq Check
  BY ChecksAssumption DEF Fixable

\* Appending to the commits moves none of them.
LEMMA AppendKeeps ==
  ASSUME NEW S, NEW s \in Seq(S), NEW x \in S
  PROVE  /\ Append(s, x) \in Seq(S)
         /\ Len(Append(s, x)) = Len(s) + 1
         /\ DOMAIN s \subseteq DOMAIN Append(s, x)
         /\ Len(s) + 1 \in DOMAIN Append(s, x)
         /\ \A i \in DOMAIN s : Append(s, x)[i] = s[i]
         /\ Append(s, x)[Len(s) + 1] = x
  OBVIOUS

-----------------------------------------------------------------------------
(* The types.                                                              *)

\* The watcher starts well typed.
LEMMA InitType == Init => TypeOK
<1> SUFFICES ASSUME Init PROVE TypeOK
  OBVIOUS
<1>1. commits \in Seq(A_Commit) /\ DOMAIN commits = {1}
  <2>1. Commit(tree, {}) \in A_Commit
    BY DEF Init, Commit, A_Commit
  <2> QED BY <2>1 DEF Init
<1> QED BY <1>1, LintersAreChecks DEF Init, TypeOK, A_Commit, NoCheck

\* The type invariant is that of the branch, of the lists and of the control.
LEMMA TypeParts == TypeOK <=> TypeGit /\ TypeLists /\ TypeControl
  BY DEF TypeOK, TypeGit, TypeLists, TypeControl, A_Commit

\* The same of the next state.
LEMMA TypePartsNext == TypeGit' /\ TypeLists' /\ TypeControl' => TypeOK'
  BY DEF TypeOK, TypeGit, TypeLists, TypeControl, A_Commit

\* A step of the watcher, as far as its control goes.
Moves ==
  /\ UNCHANGED <<tracked, other>> /\ late' \in BOOLEAN /\ pushed' \in BOOLEAN /\ unpushed' \in BOOLEAN
  /\ \/ /\ UNCHANGED outcome /\ place # "over"
        /\ place' \in {"poll", "fetch", "triage", "fix", "amend", "push"}
     \/ place' = "over" /\ outcome' \in {"passed", "gave up", "timed out", "error"}

\* A step that moves as the watcher does keeps the control in its type.
LEMMA ControlStep == TypeControl /\ Moves => TypeControl'
  BY DEF TypeControl, Moves

\* Reading the head keeps the types.
LEMMA PollType == TypeOK /\ Poll => TypeOK'
<1> SUFFICES ASSUME TypeOK, Poll PROVE TypeOK'
  OBVIOUS
<1>0. TypeGit /\ TypeLists /\ TypeControl /\ place # "over" /\ pushed' \in BOOLEAN
  BY TypeParts DEF Poll, TypeControl
<1>1. TypeGit'
  BY <1>0 DEF Poll, TypeGit, dir, github, Fixable, A_Commit
<1>2. TypeLists'
  BY <1>0 DEF Poll, TypeLists, lists, Fixable
<1>m. Moves
  BY <1>0 DEF Poll, dir, Goto, Ends, TypeControl, Moves
<1>3. TypeControl'
  BY <1>0, <1>m, ControlStep
<1> QED BY <1>1, <1>2, <1>3, TypePartsNext

\* Reading the check runs keeps the types.
LEMMA FetchType == TypeOK /\ Fetch => TypeOK'
<1> SUFFICES ASSUME TypeOK, Fetch PROVE TypeOK'
  OBVIOUS
<1>0. TypeGit /\ TypeLists /\ TypeControl /\ place # "over" /\ pushed' \in BOOLEAN
  BY TypeParts DEF Fetch, TypeControl
<1>1. TypeGit'
  BY <1>0 DEF Fetch, TypeGit, dir, github, Fixable, A_Commit
<1>2. TypeLists'
  BY <1>0 DEF Fetch, TypeLists, lists, Fixable
<1>m. Moves
  BY <1>0 DEF Fetch, dir, Goto, Ends, TypeControl, Moves
<1>3. TypeControl'
  BY <1>0, <1>m, ControlStep
<1> QED BY <1>1, <1>2, <1>3, TypePartsNext

\* Telling of a check, or trying it, keeps the types.
LEMMA TriageType == TypeOK /\ Triage => TypeOK'
<1> SUFFICES ASSUME TypeOK, Triage PROVE TypeOK'
  OBVIOUS
<1>0. /\ TypeGit /\ TypeLists /\ TypeControl /\ place # "over" /\ pushed' \in BOOLEAN
      /\ Fixable \subseteq Check
  BY TypeParts, LintersAreChecks DEF Triage, TypeControl, TypeGit
<1>a. PICK c \in todo : todo' = todo \ {c} /\ (Tell(c) \/ Try(c) \/ NoVersion(c))
  BY DEF Triage
<1>1. TypeGit'
  BY <1>0 DEF Triage, TypeGit, dir, github, Fixable, A_Commit
<1>2. TypeLists'
  BY <1>0, <1>a DEF Triage, Tell, Try, NoVersion, Tries, TypeLists, Fixable
<1>3. Goto("triage") \/ Goto("fix")
  BY <1>a DEF Tell, Try, NoVersion
<1>m. Moves
  BY <1>0, <1>3 DEF Triage, dir, Goto, TypeControl, Moves
<1>4. TypeControl'
  BY <1>0, <1>m, ControlStep
<1> QED BY <1>1, <1>2, <1>4, TypePartsNext

\* The end of a round keeps the types.
LEMMA TriageEndsType == TypeOK /\ TriageEnds => TypeOK'
<1> SUFFICES ASSUME TypeOK, TriageEnds PROVE TypeOK'
  OBVIOUS
<1>0. TypeGit /\ TypeLists /\ TypeControl /\ place # "over" /\ pushed' \in BOOLEAN
  BY TypeParts DEF TriageEnds, TypeControl, round
<1>1. TypeGit'
  BY <1>0 DEF TriageEnds, TypeGit, dir, github, round, Fixable, A_Commit
<1>2. TypeLists'
  BY <1>0 DEF TriageEnds, TypeLists, lists, round, Fixable
<1>3. Goto("poll") \/ Ends("gave up")
  BY DEF TriageEnds
<1>m. Moves
  BY <1>0, <1>3 DEF TriageEnds, dir, Goto, Ends, TypeControl, Moves
<1>4. TypeControl'
  BY <1>0, <1>m, ControlStep
<1> QED BY <1>1, <1>2, <1>4, TypePartsNext

\* A repair keeps the types.
LEMMA FixType == TypeOK /\ RoundInv /\ Fix => TypeOK'
<1> SUFFICES ASSUME TypeOK, RoundInv, Fix PROVE TypeOK'
  OBVIOUS
<1>0. /\ TypeGit /\ TypeLists /\ TypeControl /\ place # "over" /\ pushed' \in BOOLEAN
      /\ check \in Fixable \cap Check
  BY TypeParts DEF Fix, TypeControl, GivesUp, RoundInv
<1>1. TypeGit'
  BY <1>0 DEF Fix, TypeGit, github, Fixable, A_Commit
<1>2. TypeLists'
  BY <1>0 DEF Fix, GivesUp, TypeLists, lists, Fixable
<1>3. Goto("triage") \/ Goto("amend")
  BY DEF Fix, GivesUp
<1>m. Moves
  BY <1>0, <1>3 DEF Fix, Goto, TypeControl, Moves
<1>4. TypeControl'
  BY <1>0, <1>m, ControlStep
<1> QED BY <1>1, <1>2, <1>4, TypePartsNext

\* An amended commit is a commit.
LEMMA AmendType == TypeOK /\ RoundInv /\ Amend => TypeOK'
<1> SUFFICES ASSUME TypeOK, RoundInv, Amend PROVE TypeOK'
  OBVIOUS
<1>0. /\ TypeGit /\ TypeLists /\ TypeControl /\ place # "over"
      /\ check \in Fixable \cap Check
  BY TypeParts DEF Amend, RoundInv
<1>a. pushed' \in BOOLEAN
  BY <1>0 DEF Amend, TypeControl, GivesUp, Counts
<1>b. Commit(tree, commits[local].work) \in A_Commit
  <2>1. commits[local] \in A_Commit
    BY <1>0 DEF TypeGit
  <2> QED BY <1>0, <2>1 DEF TypeGit, Commit, A_Commit
<1>1. TypeGit'
  <2>1. CASE UNCHANGED <<commits, local>>
    BY <1>0, <2>1 DEF Amend, TypeGit, Fixable, A_Commit
  <2>2. CASE /\ commits' = Append(commits, Commit(tree, commits[local].work))
             /\ local' = Len(commits')
    BY <1>0, <1>b, <2>2, AppendKeeps DEF Amend, TypeGit, Fixable, A_Commit
  <2> QED BY <2>1, <2>2 DEF Amend
<1>2. TypeLists'
  BY <1>0 DEF Amend, GivesUp, Counts, TypeLists, lists, Fixable
<1>3. Goto("triage") \/ Goto("push")
  BY DEF Amend, GivesUp, Counts
<1>m. Moves
  BY <1>0, <1>a, <1>3 DEF Amend, Goto, TypeControl, Moves
<1>4. TypeControl'
  BY <1>0, <1>m, ControlStep
<1> QED BY <1>1, <1>2, <1>4, TypePartsNext

\* What is pushed is a commit of the directory.
LEMMA PushType == TypeOK /\ RoundInv /\ Push => TypeOK'
<1> SUFFICES ASSUME TypeOK, RoundInv, Push PROVE TypeOK'
  OBVIOUS
<1>0. /\ TypeGit /\ TypeLists /\ TypeControl /\ place # "over"
      /\ check \in Fixable \cap Check
  BY TypeParts DEF Push, RoundInv
<1>a. pushed' \in BOOLEAN
  BY <1>0 DEF Push, TypeControl, GivesUp, Counts
<1>1. TypeGit'
  BY <1>0 DEF Push, TypeGit, Fixable, A_Commit
<1>2. TypeLists'
  BY <1>0 DEF Push, GivesUp, Counts, TypeLists, Fixable
<1>3. Goto("triage")
  BY DEF Push, GivesUp, Counts
<1>m. Moves
  BY <1>0, <1>a, <1>3 DEF Push, Goto, TypeControl, Moves
<1>4. TypeControl'
  BY <1>0, <1>m, ControlStep
<1> QED BY <1>1, <1>2, <1>4, TypePartsNext

\* The maintainer's push adds a commit on top of the head and moves none.
LEMMA HumanPushKeeps ==
  ASSUME TypeOK, HumanPush
  PROVE  /\ TypeOK'
         /\ \A i \in DOMAIN commits : commits'[i] = commits[i]
         /\ commits[remote].work \subseteq commits'[remote'].work
<1>0. /\ TypeGit /\ TypeLists /\ TypeControl
      /\ UNCHANGED <<version, tracked, dir, watcher, late>>
  BY TypeParts DEF HumanPush
<1>1. PICK n \in 1 .. MaxHuman, left \in SUBSET Fixable :
        commits' = Append(commits, Commit(left, commits[remote].work \cup {n}))
  BY DEF HumanPush
<1>2. Commit(left, commits[remote].work \cup {n}) \in A_Commit
  <2>1. commits[remote] \in A_Commit
    BY <1>0 DEF TypeGit
  <2> QED BY <2>1 DEF Commit, A_Commit
<1>3. remote' = Len(commits) + 1
  BY <1>0, <1>1, <1>2, AppendKeeps DEF HumanPush, TypeGit
<1>4. TypeGit'
  <2>1. commits \in Seq(A_Commit) /\ A_Commit' = A_Commit /\ Fixable' = Fixable
    BY <1>0 DEF TypeGit, A_Commit, Fixable
  <2>2. commits' \in Seq(A_Commit) /\ DOMAIN commits \subseteq DOMAIN commits'
        /\ remote' \in DOMAIN commits'
    BY <1>1, <1>2, <1>3, <2>1, AppendKeeps
  <2>3. UNCHANGED <<version, local, seen, sha, tree>>
    BY <1>0 DEF dir, watcher, round
  <2> QED BY <1>0, <2>1, <2>2, <2>3 DEF TypeGit
<1>5. TypeLists'
  BY <1>0 DEF TypeLists, watcher, round, lists, Fixable
<1>6. TypeControl'
  BY <1>0 DEF TypeControl, watcher, round, dir
<1>7. commits'[remote'].work = commits[remote].work \cup {n}
  BY <1>0, <1>1, <1>2, <1>3, AppendKeeps DEF TypeGit, Commit
<1>8. \A i \in DOMAIN commits : commits'[i] = commits[i]
  BY <1>0, <1>1, <1>2, AppendKeeps DEF TypeGit
<1> QED BY <1>4, <1>5, <1>6, <1>7, <1>8, TypePartsNext

\* The later pipeline's checkout and the clock keep the types.
LEMMA OtherType == TypeOK /\ (OtherFetches \/ OtherChecksOut \/ Deadline) => TypeOK'
<1> SUFFICES ASSUME TypeOK, OtherFetches \/ OtherChecksOut \/ Deadline PROVE TypeOK'
  OBVIOUS
<1>0. TypeGit /\ TypeLists /\ TypeControl
  BY TypeParts
<1>1. CASE OtherFetches
  <2>1. TypeGit' /\ TypeLists'
    BY <1>0, <1>1 DEF OtherFetches, TypeGit, TypeLists, github, watcher, round, lists, Fixable, A_Commit
  <2>2. TypeControl'
    BY <1>0, <1>1 DEF OtherFetches, TypeControl, watcher, round
  <2> QED BY <2>1, <2>2, TypePartsNext
<1>2. CASE OtherChecksOut
  <2>0. commits[seen] \in A_Commit
    BY <1>0 DEF TypeGit
  <2>1. TypeGit'
    BY <1>0, <1>2, <2>0 DEF OtherChecksOut, TypeGit, github, watcher, round, Fixable, A_Commit
  <2>2. TypeLists'
    BY <1>0, <1>2 DEF OtherChecksOut, TypeLists, watcher, round, lists, Fixable
  <2>3. TypeControl'
    BY <1>0, <1>2 DEF OtherChecksOut, TypeControl, watcher, round
  <2> QED BY <2>1, <2>2, <2>3, TypePartsNext
<1>3. CASE Deadline
  <2>1. TypeGit' /\ TypeLists'
    BY <1>0, <1>3 DEF Deadline, TypeGit, TypeLists, github, dir, watcher, round, lists, Fixable, A_Commit
  <2>2. TypeControl'
    BY <1>0, <1>3 DEF Deadline, TypeControl, dir, watcher, round
  <2> QED BY <2>1, <2>2, TypePartsNext
<1> QED BY <1>1, <1>2, <1>3

\* So does a stutter.
LEMMA StutterType == TypeOK /\ UNCHANGED vars => TypeOK'
<1> SUFFICES ASSUME TypeOK, UNCHANGED vars PROVE TypeOK'
  OBVIOUS
<1>0. TypeGit /\ TypeLists /\ TypeControl
  BY TypeParts
<1>1. TypeGit' /\ TypeLists'
  BY <1>0 DEF vars, TypeGit, TypeLists, github, dir, round, lists, Fixable, A_Commit
<1>2. TypeControl'
  BY <1>0 DEF TypeControl, vars, dir, round
<1> QED BY <1>1, <1>2, TypePartsNext

-----------------------------------------------------------------------------
(* What a round knows of its failures.                                     *)

\* No step loses a failure of the round.
LEMMA RoundNext == TypeOK /\ RoundInv /\ [Next]_vars => RoundInv'
<1> SUFFICES ASSUME TypeOK, RoundInv, [Next]_vars PROVE RoundInv'
  OBVIOUS
<1>0. /\ TypeLists /\ TypeControl /\ Fixable \subseteq Check
      /\ Fixable' = Fixable
  BY TypeParts, LintersAreChecks
     DEF TypeGit, Next, Watch, Others, Poll, Fetch, Triage, TriageEnds, Fix, Amend, Push,
         HumanPush, OtherFetches, OtherChecksOut, Deadline, vars, Fixable
<1>1. CASE Poll
  BY <1>0, <1>1 DEF Poll, RoundInv, InHand, Goto, Ends, TypeControl, lists
<1>2. CASE Fetch
  <2>1. CASE Goto("poll")
    BY <1>0, <1>2, <2>1 DEF Fetch, RoundInv, InHand, Goto, TypeControl, lists
  <2>2. CASE Ends("passed")
    BY <1>0, <1>2, <2>2 DEF Fetch, RoundInv, InHand, Ends, TypeControl, lists
  <2>3. CASE \E bad \in (SUBSET Check) \ {{}} :
               failed' = bad /\ todo' = bad /\ pushed' = FALSE /\ Goto("triage")
    <3>1. failed' # {} /\ todo' = failed' /\ place' = "triage" /\ UNCHANGED <<outcome, told, check>>
      <4>1. PICK bad \in (SUBSET Check) \ {{}} :
                   failed' = bad /\ todo' = bad /\ pushed' = FALSE /\ Goto("triage")
        BY <2>3
      <4>2. UNCHANGED <<told, check>>
        BY <1>2 DEF Fetch, lists
      <4>3. bad # {}
        OBVIOUS
      <4> QED BY <4>1, <4>2, <4>3 DEF Goto
    <3>2. place = "fetch" /\ outcome = "open"
      BY <1>0, <1>2 DEF Fetch, TypeControl
    <3> QED BY <3>1, <3>2 DEF RoundInv, InHand
  <2> QED BY <1>2, <2>1, <2>2, <2>3 DEF Fetch
<1>3. CASE Triage
  <2>1. PICK c \in todo : todo' = todo \ {c} /\ (Tell(c) \/ Try(c) \/ NoVersion(c))
    BY <1>3 DEF Triage
  <2>2. CASE Tell(c) \/ NoVersion(c)
    BY <1>0, <1>3, <2>1, <2>2 DEF Triage, Tell, NoVersion, RoundInv, InHand, Goto, TypeControl
  <2>3. CASE Try(c)
    BY <1>0, <1>3, <2>1, <2>3 DEF Triage, Try, Tries, RoundInv, InHand, Goto, TypeControl
  <2> QED BY <2>1, <2>2, <2>3
<1>4. CASE TriageEnds
  BY <1>0, <1>4 DEF TriageEnds, RoundInv, InHand, Goto, Ends, TypeControl, lists, round
<1>5. CASE Fix
  BY <1>0, <1>5 DEF Fix, GivesUp, RoundInv, InHand, Goto, TypeControl, lists
<1>6. CASE Amend
  BY <1>0, <1>6 DEF Amend, GivesUp, Counts, RoundInv, InHand, Goto, TypeControl, lists
<1>7. CASE Push
  BY <1>0, <1>7 DEF Push, GivesUp, Counts, RoundInv, InHand, Goto, TypeControl
<1>8. CASE HumanPush \/ OtherFetches \/ OtherChecksOut \/ Deadline \/ UNCHANGED vars
  BY <1>0, <1>8 DEF HumanPush, OtherFetches, OtherChecksOut, Deadline, vars, watcher, round, lists,
                    RoundInv, InHand
<1> QED BY <1>1, <1>2, <1>3, <1>4, <1>5, <1>6, <1>7, <1>8 DEF Next, Watch, Others

\* The types and the round hold together.
LEMMA Inductive == TypeOK /\ RoundInv /\ [Next]_vars => TypeOK' /\ RoundInv'
  BY PollType, FetchType, TriageType, TriageEndsType, FixType, AmendType, PushType,
     HumanPushKeeps, OtherType, StutterType, RoundNext DEF Next, Watch, Others

\* Before the first round there is nothing to tell.
LEMMA RoundInit == Init => RoundInv
  BY DEF Init, RoundInv

\* The type invariant, of every version, any checks and linters, and any number of
\* commits of the watcher and of the maintainer.
THEOREM TypeCorrect == Spec => []TypeOK
<1>1. Init => TypeOK /\ RoundInv
  BY InitType, RoundInit
<1> QED BY <1>1, Inductive, PTL DEF Spec

\* A watcher that gives up has told of each check that failed last (the lists
\* requiresHuman and manualActionNeeded at its "nothing left to fix").
THEOREM FailuresTold == Spec => []EveryFailureTold
<1>1. Init => TypeOK /\ RoundInv
  BY InitType, RoundInit
<1>2. RoundInv => EveryFailureTold
  BY DEF RoundInv, EveryFailureTold
<1> QED BY <1>1, <1>2, Inductive, PTL DEF Spec

-----------------------------------------------------------------------------
(* The maintainer's work.                                                  *)

\* What was opened is what the directory holds.
LEMMA LeaseInit == Init => LeaseCovers
  BY DEF Init, LeaseCovers

\* Every step but another pipeline's fetch keeps what the lease protects in HEAD.
LEMMA LeaseNext == TypeOK /\ LeaseCovers /\ [Next]_vars => LeaseCovers'
<1> SUFFICES ASSUME TypeOK, LeaseCovers, [Next]_vars PROVE LeaseCovers'
  OBVIOUS
<1>0. TypeGit
  BY TypeParts
<1>1. CASE UNCHANGED <<commits, local, seen, other>>
  BY <1>1 DEF LeaseCovers
<1>2. CASE Amend /\ ~UNCHANGED <<commits, local>>
  <2>1. /\ commits' = Append(commits, Commit(tree, commits[local].work))
        /\ local' = Len(commits') /\ UNCHANGED <<seen, other>>
    BY <1>2 DEF Amend
  <2>2. Commit(tree, commits[local].work) \in A_Commit
    <3>1. commits[local] \in A_Commit
      BY <1>0 DEF TypeGit
    <3> QED BY <1>0, <3>1 DEF TypeGit, Commit, A_Commit
  <2>3. commits'[local'].work = commits[local].work /\ commits'[seen'] = commits[seen]
    BY <1>0, <2>1, <2>2, AppendKeeps DEF TypeGit, Commit
  <2> QED BY <2>1, <2>3 DEF LeaseCovers
<1>3. CASE Push
  BY <1>3 DEF Push, LeaseCovers
<1>4. CASE HumanPush
  <2>1. UNCHANGED <<seen, local, other>>
    BY <1>4 DEF HumanPush, dir
  <2>2. commits'[seen'] = commits[seen] /\ commits'[local'] = commits[local]
    BY <1>0, <1>4, <2>1, HumanPushKeeps DEF TypeGit
  <2> QED BY <2>1, <2>2 DEF LeaseCovers
<1>5. CASE OtherFetches
  BY <1>5 DEF OtherFetches, LeaseCovers
<1>6. CASE OtherChecksOut
  BY <1>6 DEF OtherChecksOut, LeaseCovers, github
<1> QED BY <1>1, <1>2, <1>3, <1>4, <1>5, <1>6
        DEF Next, Watch, Others, Poll, Fetch, Triage, TriageEnds, Fix, Amend, Deadline, vars, github, dir

\* A push that the lease lets through contains the work it replaces.
LEMMA WorkStep ==
  ASSUME TypeOK, LeaseCovers, [Next]_vars
  PROVE  commits[remote].work \subseteq commits'[remote'].work \/ other = "fetched"
<1>0. TypeGit
  BY TypeParts
<1>1. CASE UNCHANGED <<commits, remote>>
  BY <1>1
<1>2. CASE Amend /\ ~UNCHANGED <<commits, local>>
  <2>1. /\ commits' = Append(commits, Commit(tree, commits[local].work))
        /\ UNCHANGED remote
    BY <1>2 DEF Amend
  <2>2. Commit(tree, commits[local].work) \in A_Commit
    <3>1. commits[local] \in A_Commit
      BY <1>0 DEF TypeGit
    <3> QED BY <1>0, <3>1 DEF TypeGit, Commit, A_Commit
  <2>3. commits'[remote'] = commits[remote]
    BY <1>0, <2>1, <2>2, AppendKeeps DEF TypeGit
  <2> QED BY <2>3
<1>3. CASE Push
  BY <1>3 DEF Push, LeaseCovers
<1>4. CASE HumanPush
  BY <1>4, HumanPushKeeps
<1> QED BY <1>1, <1>2, <1>3, <1>4
        DEF Next, Watch, Others, Poll, Fetch, Triage, TriageEnds, Fix, Amend,
            OtherFetches, OtherChecksOut, Deadline, vars, github

\* Nobody's commits are pushed over (--force-with-lease of commitAmendAndPush and
\* amendAndPush), but between a later pipeline's fetch and its checkout.
THEOREM WorkKept == Spec => HumanWorkKept
<1>1. Init => TypeOK /\ RoundInv /\ LeaseCovers
  BY InitType, RoundInit, LeaseInit
<1>2. TypeOK /\ LeaseCovers /\ [Next]_vars =>
        [commits[remote].work \subseteq commits'[remote'].work \/ other = "fetched"]_vars
  BY WorkStep
<1> QED BY <1>1, <1>2, Inductive, LeaseNext, PTL DEF Spec, HumanWorkKept

-----------------------------------------------------------------------------
(* What counts as fixed.                                                   *)

\* At the start the branch is the directory's.
LEMMA RepairedInit == Init => Repaired
  BY DEF Init, Repaired

\* Commits are only added, so a commit of the maintainer stays.
LEMMA HumansStay ==
  ASSUME commits \in Seq(A_Commit), NEW c \in A_Commit, commits' = Append(commits, c)
  PROVE  Humans \subseteq Humans' /\ c.work \subseteq Humans'
<1>1. /\ \A i \in DOMAIN commits : i \in DOMAIN commits' /\ commits'[i] = commits[i]
      /\ Len(commits) + 1 \in DOMAIN commits' /\ commits'[Len(commits) + 1] = c
  BY AppendKeeps
<1> QED BY <1>1 DEF Humans

\* No step undoes this, as long as nobody else takes the directory.
LEMMA RepairedNext == TypeOK /\ Repaired /\ [Next]_vars => Repaired'
<1> SUFFICES ASSUME TypeOK, Repaired, [Next]_vars, version' = "core", other' = "no"
             PROVE  Repaired'
  BY DEF Repaired
<1>0. /\ TypeGit /\ version = "core" /\ other = "no"
      /\ place \in {"amend", "push"} => check \in Blind \/ check \notin tree
      /\ place = "push" => tree = commits[local].left
      /\ remote = local \/ place = "push" \/ unpushed \/ Humans # {}
  <2>1. version = "core" /\ other = "no"
    BY DEF Next, Watch, Others, Poll, Fetch, Triage, TriageEnds, Fix, Amend, Push,
           HumanPush, OtherFetches, OtherChecksOut, Deadline, vars, dir
  <2> QED BY <2>1, TypeParts DEF Repaired
<1>1. CASE UNCHANGED <<github, local, tree, unpushed>> /\ place # "push" /\ place' \notin {"amend", "push"}
  BY <1>0, <1>1 DEF Repaired, Humans, github
<1>2. CASE UNCHANGED <<github, local, tree, unpushed, place, check>>
  BY <1>0, <1>2 DEF Repaired, Humans, github
<1>3. CASE Fix
  <2>1. /\ UNCHANGED <<commits, remote, local, unpushed, check>> /\ place = "fix"
        /\ place' \in {"triage", "amend"}
        /\ place' = "amend" => check \in Blind \/ check \notin tree'
    BY <1>0, <1>3 DEF Fix, GivesUp, Cleared, Goto, lists, github
  <2> QED BY <1>0, <2>1 DEF Repaired, Humans
<1>4. CASE Amend
  <2>1. UNCHANGED <<tree, remote, check, unpushed>> /\ place = "amend"
    BY <1>4 DEF Amend
  <2>2. CASE place' = "triage" /\ UNCHANGED <<commits, local>>
    BY <1>0, <2>1, <2>2 DEF Repaired, Humans
  <2>3. CASE /\ commits' = Append(commits, Commit(tree, commits[local].work))
             /\ local' = Len(commits') /\ place' = "push"
    <3>1. commits[local] \in A_Commit
      BY <1>0 DEF TypeGit
    <3>2. Commit(tree, commits[local].work) \in A_Commit
      BY <1>0, <3>1 DEF TypeGit, Commit, A_Commit
    <3>3. commits'[local'].left = tree
      BY <1>0, <2>3, <3>2, AppendKeeps DEF TypeGit, Commit
    <3> QED BY <1>0, <2>1, <2>3, <3>3 DEF Repaired
  <2> QED BY <1>4, <2>2, <2>3 DEF Amend, GivesUp, Counts, Goto
<1>5. CASE Push
  <2>1. /\ UNCHANGED <<commits, local, tree>> /\ place' = "triage"
        /\ unpushed' \/ remote' = local'
    BY <1>5 DEF Push, GivesUp, Counts, Goto
  <2> QED BY <2>1 DEF Repaired
<1>6. CASE HumanPush
  <2>1. UNCHANGED <<local, tree, place, check, unpushed>>
    BY <1>6 DEF HumanPush, dir, watcher, round
  <2>2. commits'[local'] = commits[local]
    BY <1>0, <1>6, <2>1, HumanPushKeeps DEF TypeGit
  <2>3. Humans' # {}
    <3>1. PICK n \in 1 .. MaxHuman, left \in SUBSET Fixable :
            commits' = Append(commits, Commit(left, commits[remote].work \cup {n}))
      BY <1>6 DEF HumanPush
    <3>2. Commit(left, commits[remote].work \cup {n}) \in A_Commit
      <4>1. commits[remote] \in A_Commit
        BY <1>0 DEF TypeGit
      <4> QED BY <4>1 DEF Commit, A_Commit
    <3>3. n \in Commit(left, commits[remote].work \cup {n}).work
      BY DEF Commit
    <3> QED BY <1>0, <3>1, <3>2, <3>3, HumansStay DEF TypeGit
  <2> QED BY <1>0, <2>1, <2>2, <2>3 DEF Repaired
<1> QED BY <1>1, <1>2, <1>3, <1>4, <1>5, <1>6
        DEF Next, Watch, Others, Poll, Fetch, Triage, TriageEnds, Goto, Ends, Tell, Try, NoVersion,
            OtherFetches, OtherChecksOut, Deadline, vars, github, dir, lists, round, watcher

\* Only an amend without anything to commit, or a push, counts a check.
LEMMA FixedStep ==
  ASSUME TypeOK, Repaired, [Next]_vars, version = "core", other = "no", NEW c \in fixed' \ fixed
  PROVE  /\ c \in Blind \/ c \notin commits'[local'].left
         /\ remote' = local' \/ unpushed \/ Humans # {}
<1>0. /\ place \in {"amend", "push"} => check \in Blind \/ check \notin tree
      /\ place = "push" => tree = commits[local].left
      /\ remote = local \/ place = "push" \/ unpushed \/ Humans # {}
  BY DEF Repaired
<1>1. fixed' # fixed
  OBVIOUS
<1>2. CASE Amend
  <2>1. c = check /\ tree = commits[local].left /\ UNCHANGED <<commits, local, remote>> /\ place = "amend"
    BY <1>1, <1>2 DEF Amend, GivesUp, Counts, lists
  <2> QED BY <1>0, <2>1
<1>3. CASE Push
  <2>1. c = check /\ UNCHANGED <<commits, local>> /\ remote' = local' /\ place = "push"
    BY <1>1, <1>3 DEF Push, GivesUp, Counts
  <2> QED BY <1>0, <2>1
<1> QED BY <1>1, <1>2, <1>3
        DEF Next, Watch, Others, Poll, Fetch, Triage, TriageEnds, Fix, GivesUp, HumanPush,
            OtherFetches, OtherChecksOut, Deadline, vars, lists, watcher

\* autoFixed of core/ci-check-watcher.ts: what comes to be counted is repaired in
\* the commit, as far as the verification sees, and that commit is the branch,
\* unless an earlier push failed or others write.
THEOREM FixedPushed == Spec => FixedIsPushed
<1>1. Init => TypeOK /\ RoundInv /\ Repaired
  BY InitType, RoundInit, RepairedInit
<1>2. TypeOK /\ Repaired /\ [Next]_vars =>
        [version = "core" /\ other = "no" =>
           \A c \in fixed' \ fixed :
             /\ c \in Blind \/ c \notin commits'[local'].left
             /\ remote' = local' \/ unpushed \/ Humans # {}]_vars
  BY FixedStep
<1> QED BY <1>1, <1>2, Inductive, RepairedNext, PTL DEF Spec, FixedIsPushed

-----------------------------------------------------------------------------
(* The conversations about design and scope (DesignTalk).                   *)

\* Where the pipeline may be, in the conversation about the design and in the
\* one about the scope.
Designing == {"brief sent", "sent", "saved", "mailed", "waiting", "heard", "answering"}
Scoping == {"scope mailed", "scope waiting", "scope heard"}
Place == {"checked out", "scoring", "agreed"} \cup Designing \cup Scoping \cup Ended

Said == [by : {"agent", "human"}, asks : SUBSET Question,
         decides : SUBSET Question, names : SUBSET Question]

TalkTypes ==
  /\ at \in Place
  /\ known \in Lists /\ drafted \in Lists
  /\ at = "saved" => stored.lists \in Lists
  /\ talk \in Seq(Said)
  /\ at \in {"heard", "answering"} => got \in Answer
  /\ at \in Scoping => sweep \in Found

\* The lists the conversation has come to: those the loop holds, unless a reply
\* has been heard, a follow-up is being sent or its lists wait in the store.
InForce ==
  CASE at = "answering" -> [decisions |-> Resolved(got), questions |-> Unresolved(got)]
    [] at = "sent" -> drafted
    [] at = "saved" -> stored.lists
    [] OTHER -> known

\* What was said is accounted for in them: decided, so among the decisions;
\* named, or not asked, so not among the questions.
AccountedFor(said, held) ==
  /\ said.decides \subseteq held.decisions
  /\ said.names \cap held.questions = {}
  /\ said.by = "agent" => held.questions \subseteq said.asks

\* Nothing is said about the design before its brief and after the scope is
\* asked for; in between nothing of it is forgotten.
NothingSaidYet == at \in {"checked out", "scoring"} \cup Scoping => talk = <<>>
Remembered == ~model /\ at \in Designing => \A i \in 1..Len(talk) : AccountedFor(talk[i], InForce)

\* A scope reply wants no issue that it drops, and names none where it quotes;
\* it is taken once, as the last thing the pipeline is told.
WellSaid(r) == r \in ScopeAnswer /\ r.wants \cap r.drops = {} /\ (r.quotes => r.wants \cup r.drops = {})
ScopeSaid ==
  /\ post # NoReply /\ post \in ScopeAnswer => WellSaid(post)
  /\ at = "scope heard" => WellSaid(got)
  /\ scopeWord # NoReply => at = "working"

TalkInv ==
  /\ TalkTypes /\ NothingSaidYet /\ Remembered /\ ScopeSaid
  /\ ClosedStaysClosed /\ DesignHasDecisions /\ ScopeAsWritten

\* A reply about the design is none about the scope.
LEMMA AnswersDiffer == ASSUME NEW r \in Answer PROVE r \notin ScopeAnswer
BY DEF Answer, ScopeAnswer

\* Nothing has been said.
LEMMA SaidNothing == <<>> \in Seq(Said) /\ Len(<<>>) = 0
OBVIOUS

\* What is said more is said in the end.
LEMMA SaidMore ==
  ASSUME talk \in Seq(Said), NEW s \in Said, talk' = Append(talk, s)
  PROVE  /\ talk' \in Seq(Said) /\ Len(talk') = Len(talk) + 1 /\ Len(talk) \in Nat
         /\ talk'[Len(talk) + 1] = s
         /\ \A i \in 1..Len(talk) : talk'[i] = talk[i]
OBVIOUS

\* A follow-up is a mail, and a reply is heard, of their types.
LEMMA MailSaid == ASSUME NEW asks \in SUBSET Question PROVE Mail(asks) \in Said
BY DEF Mail, Said
LEMMA ReplySaid == ASSUME NEW r \in Answer 
  PROVE  /\ Heard(r) \in Said /\ Heard(r).by = "human"
         /\ Heard(r).decides = r.decides /\ Heard(r).names = r.names
BY DEF Heard, Said, Answer

\* To begin with nothing is listed.
LEMMA NothingListed == Nothing \in Lists
BY DEF Nothing, Lists

\* The steps in which something is said or learned about the design keep its types.
LEMMA TalkTypesStep ==
  ASSUME TalkTypes, [TalkNext]_talkVars PROVE TalkTypes'
<1> USE DEF Place, Designing, Scoping, Ended
<1>1. CASE Hydrate \/ NoDesignNeeded \/ Throws \/ Save \/ ReadBack \/ Wait
  <2>1. CASE Save
    BY <2>1, NothingListed DEF TalkTypes, Save, result, history
  <2>2. CASE ReadBack
    BY <2>2 DEF TalkTypes, ReadBack, result, history
  <2>3. CASE Hydrate \/ NoDesignNeeded \/ Throws \/ Wait
    BY <2>3 DEF TalkTypes, Hydrate, NoDesignNeeded, Throws, Wait, thinking, result, history
  <2> QED
    BY <1>1, <2>1, <2>2, <2>3
<1>2. CASE Brief
  <2>1. /\ at' = "brief sent" /\ talk' = Append(talk, Mail(Question))
        /\ known' = [decisions |-> {}, questions |-> Question] /\ drafted' = known'
    BY <1>2 DEF Brief, Send
  <2>2. known' \in Lists
    BY <2>1 DEF Lists
  <2> QED
    BY <2>1, <2>2, MailSaid, SaidMore DEF TalkTypes
<1>3. CASE Hear
  <2>1. /\ at = "heard" /\ got \in Answer /\ talk' = Append(talk, Heard(got))
    BY <1>3 DEF Hear, TalkTypes
  <2>2. talk' \in Seq(Said)
    BY <2>1, ReplySaid, SaidMore DEF TalkTypes
  <2>3. \/ at' = "agreed" /\ known' = Nothing
        \/ at' = "answering" /\ known' = known /\ got' = got
    BY <1>3 DEF Hear
  <2>4. known' \in Lists /\ drafted' \in Lists
    <3>1. drafted' = drafted
      BY <1>3 DEF Hear
    <3> QED
      BY <2>3, <3>1, NothingListed DEF TalkTypes
  <2> QED
    <3>1. CASE at' = "agreed"
      BY <2>2, <2>4, <3>1 DEF TalkTypes
    <3>2. CASE at' = "answering" /\ got' = got
      BY <2>1, <2>2, <2>4, <3>2 DEF TalkTypes
    <3> QED
      BY <2>3, <3>1, <3>2
<1>4. CASE FollowUp \/ ModelFollowUp \/ FallbackFollowUp
  <2>1. /\ at = "answering" /\ got \in Answer
    BY <1>4 DEF FollowUp, ModelFollowUp, FallbackFollowUp, Answers, TalkTypes
  <2>2. PICK asks \in SUBSET Question, held \in Lists : Answers(asks, held)
    <3>1. Resolved(got) \in SUBSET Question /\ Unresolved(got) \in SUBSET Question
      BY <2>1 DEF TalkTypes, Answer, Lists, Resolved, Unresolved
    <3>2. CASE FollowUp
      <4>1. [decisions |-> Resolved(got), questions |-> Unresolved(got)] \in Lists
        BY <3>1 DEF Lists
      <4> QED
        BY <3>1, <3>2, <4>1 DEF FollowUp
    <3>3. CASE ModelFollowUp
      BY <3>3 DEF ModelFollowUp, Lists
    <3>4. CASE FallbackFollowUp
      <4>1. [decisions |-> Resolved(got), questions |-> known.questions] \in Lists
        BY <3>1 DEF Lists, TalkTypes
      <4> QED
        BY <3>4, <4>1 DEF FallbackFollowUp
    <3> QED
      BY <1>4, <3>2, <3>3, <3>4
  <2>3. /\ at' = "sent" /\ talk' = Append(talk, Mail(asks))
        /\ drafted' = held /\ known' = known
    BY <2>2 DEF Answers, Send
  <2> QED
    BY <2>1, <2>2, <2>3, MailSaid, SaidMore DEF TalkTypes
<1>5. CASE NothingToAsk \/ ScopeMail \/ ScopeFails \/ HearScope
  <2>1. CASE ScopeMail
    BY <2>1, SaidNothing DEF TalkTypes, ScopeMail, thinking
  <2>2. CASE NothingToAsk \/ ScopeFails \/ HearScope
    BY <2>2 DEF TalkTypes, NothingToAsk, ScopeFails, HearScope, thinking, result, history
  <2> QED
    BY <1>5, <2>1, <2>2
<1>6. CASE Reply \/ Approve \/ ReplyScope
  BY <1>6 DEF TalkTypes, Reply, Approve, ReplyScope, thinking, result, history
<1>7. CASE Deliver
  BY <1>7 DEF TalkTypes, Deliver, thinking, result, history
<1>8. CASE Crash
  BY <1>8, NothingListed DEF TalkTypes, Crash, result, history
<1>9. CASE UNCHANGED talkVars
  BY <1>9 DEF TalkTypes, talkVars, thinking, result, history
<1> QED
  BY <1>1, <1>2, <1>3, <1>4, <1>5, <1>6, <1>7, <1>8, <1>9 DEF TalkNext, Pipeline

\* The steps that say nothing about the design leave what was said and decided.
LEMMA Silent ==
  ASSUME TalkInv, TalkTypes', UNCHANGED <<model, talk, design>>,
         at \in Designing /\ at' \in Designing => InForce' = InForce,
         at' \in Designing => at \in Designing,
         at' \in {"agreed", "working"} => at \in {"agreed", "working"} \/ talk = <<>>,
         NothingSaidYet'
  PROVE  Remembered' /\ ClosedStaysClosed' /\ DesignHasDecisions'
<1>1. Remembered'
  <2> SUFFICES ASSUME ~model, at' \in Designing, NEW i \in 1..Len(talk)
               PROVE  AccountedFor(talk[i], InForce)'
    BY DEF Remembered
  <2>1. AccountedFor(talk[i], InForce) /\ InForce' = InForce /\ talk' = talk
    BY DEF TalkInv, Remembered
  <2> QED
    BY <2>1 DEF AccountedFor
<1>2. ClosedStaysClosed'
  BY DEF TalkInv, ClosedStaysClosed
<1>3. DesignHasDecisions'
  BY DEF TalkInv, DesignHasDecisions
<1> QED
  BY <1>1, <1>2, <1>3

\* What has been said, and one thing more, is accounted for in lists that account
\* for each.
LEMMA AllAccounted ==
  ASSUME talk \in Seq(Said), NEW s \in Said, talk' = Append(talk, s), NEW held,
         \A i \in 1..Len(talk) : AccountedFor(talk[i], held), AccountedFor(s, held)
  PROVE  \A i \in 1..Len(talk') : AccountedFor(talk'[i], held)
BY SaidMore DEF AccountedFor

\* A mail that asks no more than what is open brings no question back.
LEMMA NothingBack ==
  ASSUME talk \in Seq(Said), NEW s \in Said, talk' = Append(talk, s), UNCHANGED model,
         ClosedStaysClosed,
         ~model /\ s.by = "agent" => \A i \in 1..Len(talk) :
           talk[i].names \cap s.asks = {} /\ (talk[i].by = "agent" => s.asks \subseteq talk[i].asks)
  PROVE  ClosedStaysClosed'
<1> SUFFICES ASSUME ~model, NEW i \in 1..Len(talk'), NEW j \in 1..Len(talk'),
                    i < j, talk'[j].by = "agent"
             PROVE  /\ talk'[i].names \cap talk'[j].asks = {}
                    /\ talk'[i].by = "agent" => talk'[j].asks \subseteq talk'[i].asks
  BY DEF ClosedStaysClosed
<1>1. /\ Len(talk') = Len(talk) + 1 /\ Len(talk) \in Nat /\ talk'[Len(talk) + 1] = s
      /\ \A k \in 1..Len(talk) : talk'[k] = talk[k]
  BY SaidMore
<1>2. i \in 1..Len(talk) /\ talk'[i] = talk[i]
  BY <1>1
<1>3. CASE j = Len(talk) + 1
  BY <1>1, <1>2, <1>3
<1>4. CASE j \in 1..Len(talk)
  BY <1>1, <1>2, <1>4 DEF ClosedStaysClosed
<1> QED
  BY <1>1, <1>3, <1>4

\* No step forgets a decision, brings a question back or loses a decision from
\* the design.
LEMMA TalkStep ==
  ASSUME TalkInv, TalkTypes', [TalkNext]_talkVars
  PROVE  NothingSaidYet' /\ Remembered' /\ ClosedStaysClosed' /\ DesignHasDecisions'
<1> USE DEF Place, Designing, Scoping, Ended
<1>1. CASE Hydrate \/ NoDesignNeeded \/ Throws \/ Save \/ ReadBack \/ Wait
  <2>1. NothingSaidYet'
    BY <1>1 DEF TalkInv, NothingSaidYet, Hydrate, NoDesignNeeded, Throws, Save, ReadBack, Wait,
                thinking, result, history
  <2>2. /\ UNCHANGED <<model, talk, design>>
        /\ at' \in Designing => at \in Designing
        /\ at' \in {"agreed", "working"} => at = "scoring"
    BY <1>1 DEF Hydrate, NoDesignNeeded, Throws, Save, ReadBack, Wait, thinking, result, history
  <2>3. at \in Designing /\ at' \in Designing => InForce' = InForce
    <3>1. CASE Save
      BY <3>1 DEF Save, InForce
    <3>2. CASE ReadBack
      BY <3>2 DEF ReadBack, InForce
    <3>3. CASE Wait
      BY <3>3 DEF Wait, InForce, thinking
    <3>4. CASE Hydrate \/ NoDesignNeeded \/ Throws
      BY <3>4 DEF Hydrate, NoDesignNeeded, Throws
    <3> QED
      BY <1>1, <3>1, <3>2, <3>3, <3>4
  <2> QED
    BY <2>1, <2>2, <2>3, Silent DEF TalkInv, NothingSaidYet
<1>2. CASE Brief
  <2>1. /\ at = "scoring" /\ at' = "brief sent" /\ talk' = Append(talk, Mail(Question))
        /\ known' = drafted' /\ drafted' = [decisions |-> {}, questions |-> Question]
    BY <1>2 DEF Brief, Send
  <2>0. talk = <<>>
    BY <2>1 DEF TalkInv, NothingSaidYet
  <2>2. talk \in Seq(Said) /\ Mail(Question) \in Said /\ model' = model
    BY <1>2, MailSaid DEF Brief, TalkInv, TalkTypes
  <2>3. InForce' = [decisions |-> {}, questions |-> Question]
    BY <2>1 DEF InForce, Resolved, Unresolved
  <2>4. AccountedFor(Mail(Question), [decisions |-> {}, questions |-> Question])
    BY DEF AccountedFor, Mail
  <2>5. \A i \in 1..Len(talk) : FALSE
    BY <2>0, SaidNothing
  <2>6. Remembered'
    <3>1. \A i \in 1..Len(talk') : AccountedFor(talk'[i], [decisions |-> {}, questions |-> Question])
      BY <2>1, <2>2, <2>4, <2>5, AllAccounted
    <3> QED
      BY <2>3, <3>1 DEF Remembered, AccountedFor
  <2>7. ClosedStaysClosed'
    BY <2>1, <2>2, <2>5, NothingBack DEF TalkInv
  <2> QED
    BY <2>1, <2>6, <2>7 DEF NothingSaidYet, DesignHasDecisions
<1>3. CASE Hear
  <2>1. /\ at = "heard" /\ got \in Answer /\ talk' = Append(talk, Heard(got)) /\ model' = model
    BY <1>3 DEF Hear, TalkInv, TalkTypes
  <2>2. talk \in Seq(Said) /\ Heard(got) \in Said
    BY <2>1, ReplySaid DEF TalkInv, TalkTypes
  <2>3. ~model => \A i \in 1..Len(talk) : AccountedFor(talk[i], known)
    BY <2>1 DEF TalkInv, Remembered, InForce
  <2>4. ClosedStaysClosed'
    BY <2>1, <2>2, ReplySaid, NothingBack DEF TalkInv
  <2>5. CASE got.approves
    <3>1. at' = "agreed" /\ design' = known.decisions
      BY <1>3, <2>5 DEF Hear, AgreedDesign
    <3>2. /\ Len(talk') = Len(talk) + 1 /\ Len(talk) \in Nat
          /\ \A i \in 1..Len(talk) : talk'[i] = talk[i]
      BY <2>1, <2>2, SaidMore
    <3>3. DesignHasDecisions'
      BY <2>1, <2>3, <3>1, <3>2 DEF DesignHasDecisions, AccountedFor
    <3> QED
      BY <2>4, <3>1, <3>3 DEF NothingSaidYet, Remembered
  <2>6. CASE ~got.approves
    <3>1. at' = "answering" /\ UNCHANGED <<known, got>>
      BY <1>3, <2>6 DEF Hear
    <3>2. InForce' = [decisions |-> Resolved(got), questions |-> Unresolved(got)]
      BY <3>1 DEF InForce, Resolved, Unresolved
    <3>3. AccountedFor(Heard(got), InForce')
      BY <2>1, <3>2, ReplySaid DEF AccountedFor, Resolved, Unresolved
    <3>4. ~model => \A i \in 1..Len(talk) : AccountedFor(talk[i], InForce')
      BY <2>3, <3>2 DEF AccountedFor, Resolved, Unresolved
    <3>5. ~model => \A i \in 1..Len(talk') : AccountedFor(talk'[i], InForce')
      BY <2>1, <2>2, <3>3, <3>4, AllAccounted
    <3>6. Remembered'
      BY <2>1, <3>5 DEF Remembered, AccountedFor
    <3> QED
      BY <2>4, <3>1, <3>6 DEF NothingSaidYet, DesignHasDecisions
  <2> QED
    BY <2>5, <2>6
<1>4. CASE FollowUp \/ ModelFollowUp \/ FallbackFollowUp
  <2>1. /\ at = "answering" /\ at' = "sent" /\ got \in Answer /\ model' = model
    BY <1>4 DEF FollowUp, ModelFollowUp, FallbackFollowUp, Answers, TalkInv, TalkTypes
  <2>2. NothingSaidYet' /\ DesignHasDecisions'
    BY <2>1 DEF NothingSaidYet, DesignHasDecisions
  <2>3. CASE model
    BY <2>1, <2>2, <2>3 DEF Remembered, ClosedStaysClosed
  <2>4. CASE ~model
    <3> DEFINE open == Unresolved(got)
               held == [decisions |-> Resolved(got), questions |-> open]
    <3>1. talk' = Append(talk, Mail(open)) /\ drafted' = held
      BY <1>4, <2>4 DEF FollowUp, ModelFollowUp, FallbackFollowUp, Answers, Send
    <3>2. talk \in Seq(Said) /\ Mail(open) \in Said
      <4>1. open \in SUBSET Question
        BY DEF TalkInv, TalkTypes, Lists, Unresolved
      <4> QED
        BY <4>1, MailSaid DEF TalkInv, TalkTypes
    <3>3. \A i \in 1..Len(talk) : AccountedFor(talk[i], held)
      BY <2>1, <2>4 DEF TalkInv, Remembered, InForce
    <3>4. AccountedFor(Mail(open), held)
      BY DEF AccountedFor, Mail
    <3>5. InForce' = held
      BY <2>1, <3>1 DEF InForce
    <3>6. \A i \in 1..Len(talk') : AccountedFor(talk'[i], held)
      BY <3>1, <3>2, <3>3, <3>4, AllAccounted
    <3>7. Remembered'
      BY <3>5, <3>6 DEF Remembered, AccountedFor
    <3>8. Mail(open).asks = open
      BY DEF Mail
    <3>9. ClosedStaysClosed'
      BY <2>1, <3>1, <3>2, <3>3, <3>8, NothingBack DEF TalkInv, AccountedFor
    <3> QED
      BY <2>2, <3>7, <3>9
  <2> QED
    BY <2>3, <2>4
<1>5. CASE NothingToAsk \/ ScopeFails \/ HearScope
  <2>1. NothingSaidYet'
    BY <1>5 DEF NothingSaidYet, NothingToAsk, ScopeFails, HearScope
  <2>2. /\ UNCHANGED <<model, talk, design>> /\ at' \notin Designing
        /\ at = "agreed" \/ talk = <<>>
    BY <1>5 DEF NothingToAsk, ScopeFails, HearScope, thinking, result, history, TalkInv, NothingSaidYet
  <2> QED
    BY <2>1, <2>2, Silent
<1>6. CASE ScopeMail
  <2>1. at' = "scope mailed" /\ talk' = <<>>
    BY <1>6 DEF ScopeMail
  <2>2. Len(talk') = 0
    BY <2>1, SaidNothing
  <2>3. ClosedStaysClosed'
    BY <2>2 DEF ClosedStaysClosed
  <2> QED
    BY <2>1, <2>3 DEF NothingSaidYet, Remembered, DesignHasDecisions
<1>7. CASE Reply \/ Approve \/ ReplyScope
  <2>1. UNCHANGED <<model, at, talk, design, known, got>>
    BY <1>7 DEF Reply, Approve, ReplyScope, thinking, result, history
  <2>2. UNCHANGED <<drafted, stored>>
    BY <1>7 DEF Reply, Approve, ReplyScope, thinking
  <2>3. InForce' = InForce /\ NothingSaidYet'
    BY <2>1, <2>2 DEF InForce, Resolved, Unresolved, TalkInv, NothingSaidYet
  <2> QED
    BY <2>1, <2>3, Silent
<1>8. CASE Deliver
  <2>1. UNCHANGED <<model, talk, design, known, drafted, stored>>
    BY <1>8 DEF Deliver, thinking, result, history
  <2>2. \/ at' = at /\ got' = got
        \/ at = "waiting" /\ at' = "heard"
        \/ at = "scope waiting" /\ at' = "scope heard"
    BY <1>8 DEF Deliver
  <2>3. NothingSaidYet'
    BY <2>1, <2>2 DEF TalkInv, NothingSaidYet
  <2>4. at \in Designing /\ at' \in Designing => InForce' = InForce
    <3>1. CASE at' = at /\ got' = got
      BY <2>1, <3>1 DEF InForce, Resolved, Unresolved
    <3>2. CASE at = "waiting" /\ at' = "heard"
      BY <2>1, <3>2 DEF InForce
    <3> QED
      BY <2>2, <3>1, <3>2
  <2>5. /\ at' \in Designing => at \in Designing
        /\ at' \in {"agreed", "working"} => at \in {"agreed", "working"}
    BY <2>2
  <2> QED
    BY <2>1, <2>3, <2>4, <2>5, Silent
<1>9. CASE Crash
  <2>1. UNCHANGED <<model, talk>> /\ at' = "lost"
    BY <1>9 DEF Crash, result, history
  <2> QED
    <3>1. NothingSaidYet' /\ Remembered' /\ DesignHasDecisions'
      BY <2>1 DEF NothingSaidYet, Remembered, DesignHasDecisions
    <3>2. ClosedStaysClosed'
      BY <2>1 DEF TalkInv, ClosedStaysClosed
    <3> QED
      BY <3>1, <3>2
<1>10. CASE UNCHANGED talkVars
  <2>1. UNCHANGED <<model, at, known, drafted, stored, got, talk, design>>
    BY <1>10 DEF talkVars, thinking, result, history
  <2>2. InForce' = InForce /\ NothingSaidYet'
    BY <2>1 DEF InForce, Resolved, Unresolved, TalkInv, NothingSaidYet
  <2> QED
    BY <2>1, <2>2, Silent
<1> QED
  BY <1>1, <1>2, <1>3, <1>4, <1>5, <1>6, <1>7, <1>8, <1>9, <1>10 DEF TalkNext, Pipeline

\* What is confirmed of a scope reply is what it says.
LEMMA ConfirmedAsSaid ==
  ASSUME NEW r, WellSaid(r), sweep \in Found, NEW issues \in Confirmed(r), ~r.quotes
  PROVE  LET confirmed == issues \cup {Primary} IN
         /\ r.all /\ r.drops = {} => confirmed = Listed
         /\ ~r.all /\ r.verb /\ r.wants # {} /\ r.wants \subseteq Listed =>
              confirmed = (r.wants \ r.drops) \cup {Primary}
         /\ ~r.all => r.drops \cap confirmed \subseteq {Primary}
<1>1. Primary \in Listed
  BY DEF Found, Listed
<1>2. CASE r.all
  BY <1>1, <1>2 DEF Confirmed
<1>3. CASE ~r.all /\ r.wants \cup r.drops = {}
  BY <1>3
<1>4. CASE ~r.all /\ r.wants # {} /\ r.drops = {}
  BY <1>4 DEF Confirmed
<1>5. CASE ~r.all /\ r.drops # {} /\ r.verb
  <2>1. issues = Mixed(r)
    BY <1>5 DEF Confirmed
  <2> QED
    BY <1>5, <2>1 DEF Mixed
<1>6. CASE ~r.all /\ r.drops # {} /\ ~r.verb
  BY <1>6 DEF Confirmed
<1> QED
  BY <1>2, <1>3, <1>4, <1>5, <1>6 DEF WellSaid, ScopeAnswer

\* No step confirms another scope than the reply names.
LEMMA ScopeStep ==
  ASSUME TalkInv, TalkTypes', [TalkNext]_talkVars
  PROVE  ScopeSaid' /\ ScopeAsWritten'
<1>1. CASE HearScope
  <2>1. /\ at = "scope heard" /\ at' = "working" /\ scopeWord' = got /\ UNCHANGED <<post, sweep>>
        /\ \E issues \in Confirmed(got) : scope' = issues \cup {Primary}
    BY <1>1 DEF HearScope
  <2>2. WellSaid(got) /\ sweep \in Found
    BY <2>1 DEF TalkInv, ScopeSaid, TalkTypes, Scoping
  <2>3. ScopeSaid'
    BY <2>1 DEF TalkInv, ScopeSaid
  <2>4. Listed' = Listed
    BY <2>1 DEF Listed
  <2>5. ScopeAsWritten'
    BY <2>1, <2>2, <2>4, ConfirmedAsSaid DEF ScopeAsWritten
  <2> QED
    BY <2>3, <2>5
<1>2. CASE Reply \/ Approve \/ ReplyScope
  <2>1. UNCHANGED <<at, got, scopeWord, scope, sweep>>
    BY <1>2 DEF Reply, Approve, ReplyScope, result, history
  <2>2. post' \in ScopeAnswer => WellSaid(post')
    <3>1. CASE ReplyScope
      BY <3>1 DEF ReplyScope, WellSaid
    <3>2. CASE Reply
      <4>1. PICK decides \in SUBSET Question, names \in SUBSET Question :
              post' = [approves |-> FALSE, decides |-> decides, names |-> names]
        BY <3>2 DEF Reply
      <4> QED
        BY <4>1 DEF ScopeAnswer
    <3>3. CASE Approve
      <4>1. PICK decides \in SUBSET Question : post' = [approves |-> TRUE, decides |-> decides, names |-> {}]
        BY <3>3 DEF Approve
      <4> QED
        BY <4>1 DEF ScopeAnswer
    <3> QED
      BY <1>2, <3>1, <3>2, <3>3
  <2> QED
    BY <2>1, <2>2 DEF TalkInv, ScopeSaid, ScopeAsWritten, Listed
<1>3. CASE Deliver
  <2>1. UNCHANGED <<scopeWord, scope, sweep>> /\ post # NoReply /\ post' = NoReply
    BY <1>3 DEF Deliver, result, history
  <2>2. \/ at' = at /\ got' = got
        \/ at = "waiting" /\ at' = "heard"
        \/ at = "scope waiting" /\ at' = "scope heard" /\ post \in ScopeAnswer /\ got' = post
    BY <1>3 DEF Deliver
  <2> QED
    BY <2>1, <2>2 DEF TalkInv, ScopeSaid, ScopeAsWritten, Listed
<1>4. CASE \/ Hydrate \/ NoDesignNeeded \/ Brief \/ Throws \/ Save \/ ReadBack \/ Wait \/ Hear
           \/ FollowUp \/ ModelFollowUp \/ FallbackFollowUp
           \/ NothingToAsk \/ ScopeMail \/ ScopeFails \/ Crash
  <2>1. at # "working" /\ at' # "scope heard" /\ UNCHANGED scopeWord /\ (post' = post \/ post' = NoReply)
    BY <1>4 DEF Hydrate, NoDesignNeeded, Brief, Throws, Save, ReadBack, Wait, Hear, FollowUp,
                ModelFollowUp, FallbackFollowUp, Answers, Send, NothingToAsk, ScopeMail, ScopeFails, Crash, Ended, result, history
  <2> QED
    BY <2>1 DEF TalkInv, ScopeSaid, ScopeAsWritten
<1>5. CASE UNCHANGED talkVars
  BY <1>5 DEF talkVars, thinking, result, history, TalkInv, ScopeSaid, ScopeAsWritten, Listed
<1> QED
  BY <1>1, <1>2, <1>3, <1>4, <1>5 DEF TalkNext, Pipeline

\* The invariant of both conversations.
LEMMA TalkInvHolds == TalkSpec => []TalkInv
<1>1. TalkInit => TalkInv
  <2> SUFFICES ASSUME TalkInit PROVE TalkInv
    OBVIOUS
  <2>1. at = "checked out" /\ talk = <<>> /\ known = Nothing /\ drafted = Nothing /\ post = NoReply /\ scopeWord = NoReply
    BY DEF TalkInit
  <2>2. TalkTypes
    BY <2>1, SaidNothing, NothingListed DEF TalkTypes, Place, Designing, Scoping, Ended
  <2>3. ClosedStaysClosed
    <3>1. Len(talk) = 0
      BY <2>1, SaidNothing
    <3>2. \A i \in 1..Len(talk) : FALSE
      BY <3>1
    <3> QED
      BY <3>2 DEF ClosedStaysClosed
  <2>4. NothingSaidYet /\ Remembered /\ ScopeSaid /\ DesignHasDecisions /\ ScopeAsWritten
    BY <2>1 DEF NothingSaidYet, Remembered, ScopeSaid, DesignHasDecisions, ScopeAsWritten, Designing
  <2> QED
    BY <2>2, <2>3, <2>4 DEF TalkInv
<1>2. TalkInv /\ [TalkNext]_talkVars => TalkInv'
  BY TalkTypesStep, TalkStep, ScopeStep DEF TalkInv
<1> QED
  BY <1>1, <1>2, PTL DEF TalkSpec

\* No follow-up of the program asks what an earlier reply has named or an earlier
\* mail has left out.
THEOREM NotReopened == TalkSpec => []ClosedStaysClosed
BY TalkInvHolds, PTL DEF TalkInv

\* The agreed design has every decision made before the approval.
THEOREM DesignComplete == TalkSpec => []DesignHasDecisions
BY TalkInvHolds, PTL DEF TalkInv

\* A scope reply in the words of the mail is taken at its word.
THEOREM ScopeTaken == TalkSpec => []ScopeAsWritten
BY TalkInvHolds, PTL DEF TalkInv
=============================================================================
