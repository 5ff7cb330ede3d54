--------------------------- MODULE FixLoopProofs ---------------------------
(***************************************************************************)
(* The fix stage, for any files, bounds and number of concurrent calls in a *)
(* turn: its invariants, and that its every step goes down the measure of   *)
(* what the stage has left.                                                *)
(***************************************************************************)
EXTENDS FixLoop, TLAPS

USE RegistryAssumption, FixAssumption

\* A new registry, and the transcript of no executor, are of their types.
LEMMA FreshTypes ==
  ASSUME EndOfExecutor
  PROVE  TypeOKRegistry' /\ audit' \in Entries
<1>1. NoEntries \in Entries
  <2>1. [t \in Sandbox |-> -1] \in [Sandbox -> Int]
    OBVIOUS
  <2> QED
    BY <2>1 DEF NoEntries, Entries
<1>2. TypeOKRegistry'
  BY DEF EndOfExecutor, FreshRegistry, TypeOKRegistry
<1> QED
  BY <1>1, <1>2 DEF EndOfExecutor

\* A tool that changes a file is called with the file, and a sandbox run is
\* recorded only by its own step.
Proper(call) == /\ call.tool \in Mutations => call.file \in File
                /\ call.stage = "end" => call.tool \notin Sandbox

\* Finishing a call, and noting its entry, keep the types.
LEMMA RecordTypes ==
  ASSUME TypeOKRegistry, audit \in Entries, NEW s \in Slot, NEW call \in Call,
         Proper(call), Record(s, call)
  PROVE  TypeOKRegistry' /\ audit' \in Entries
<1>1. TypeOKRegistry'
  <2>1. inFlight' \in [Slot -> Call \cup {Idle}]
    BY DEF Record, Finish, TypeOKRegistry
  <2> QED
    BY <2>1 DEF Record, Finish, TypeOKRegistry
<1>2. CASE ~call.ok
  BY <1>1, <1>2 DEF Record
<1>3. CASE call.ok
  <2> DEFINE m == IF call.tool \in Mutations THEN turn ELSE audit.mutation
             g == [t \in Sandbox |->
                     IF call.tool = t /\ call.green THEN turn ELSE audit.green[t]]
             p == IF call.tool = "apply_patch" THEN "made"
                  ELSE IF call.tool = "commit_and_push" /\ audit.patch = "made" THEN "pushed"
                  ELSE audit.patch
             r == audit.ran \/ call.tool \in Sandbox
             c == IF call.tool \in Mutations \ {"revert_file"}
                  THEN audit.changed \cup {call.file} ELSE audit.changed
             h == IF call.tool = "commit_and_push"
                  THEN audit.pushed \cup {call.sha} ELSE audit.pushed
  <2>1. audit' = [mutation |-> m, green |-> g, patch |-> p, ran |-> r,
                  changed |-> c, pushed |-> h]
    BY <1>3 DEF Record
  <2>2. m \in Int /\ g \in [Sandbox -> Int]
    BY DEF Entries, TypeOKRegistry
  <2>3. p \in {"none", "made", "pushed"}
    BY DEF Entries
  <2>4. r \in BOOLEAN
    BY DEF Entries
  <2>6. h \in SUBSET Nat
    BY DEF Entries, Call
  <2>5. c \in SUBSET File
    BY DEF Entries, Proper
  <2> HIDE DEF m, g, p, r, c, h
  <2>7. audit' \in Entries
    BY <2>1, <2>2, <2>3, <2>4, <2>5, <2>6 DEF Entries
  <2> QED
    BY <1>1, <2>7
<1> QED
  BY <1>2, <1>3 DEF Call

AllProper == \A s \in Slot : inFlight[s] # Idle => Proper(inFlight[s])

Typed == TypeOK /\ AllProper

\* What the tools make of the calls in flight.
LEMMA DispatchTypes ==
  ASSUME TypeOKRegistry, AllProper, NEW s \in Slot, NEW call \in Call,
         Proper(call), Dispatch(s, call) \/ Progress(s, call)
  PROVE  TypeOKRegistry' /\ AllProper'
<1>1. inFlight' = [inFlight EXCEPT ![s] = call]
  BY DEF Dispatch, Progress
<1>2. UNCHANGED <<turn, totalCalls, currentTurnCalls, previousTurnHadResult, terminated>>
  BY DEF Dispatch, Progress
<1>3. inFlight' \in [Slot -> Call \cup {Idle}]
  BY <1>1 DEF TypeOKRegistry
<1>4. TypeOKRegistry'
  BY <1>2, <1>3 DEF TypeOKRegistry
<1>5. AllProper'
  BY <1>1 DEF AllProper, Proper, TypeOKRegistry
<1> QED
  BY <1>4, <1>5

\* Recording a call leaves the calls in flight proper.
LEMMA RecordNames ==
  ASSUME TypeOKRegistry, AllProper, NEW s \in Slot, NEW call, Record(s, call)
  PROVE  AllProper'
BY DEF Record, Finish, AllProper, Proper, TypeOKRegistry

\* The calls the tools make.
LEMMA Calls ==
  ASSUME NEW tool \in FixTools, NEW f \in File \cup {NoFile},
         NEW step \in {"run", "push", "end"}, NEW ok \in BOOLEAN
  PROVE  CallOf(tool, f, step, ok) \in Call
BY DEF CallOf, Call, FixTools, Mutations, Sandbox

\* Edits stay within the files.
LEMMA EditTypes ==
  ASSUME NEW f \in File, worktree \subseteq File, NEW new \in {worktree} \cup Edited(f)
  PROVE  new \subseteq File
BY DEF Edited

\* A step of a call in flight keeps the types.
LEMMA WorkTypes ==
  ASSUME Typed, NEW s \in Slot, Work(s)
  PROVE  /\ TypeOKRegistry' /\ AllProper' /\ audit' \in Entries
         /\ worktree' \subseteq File /\ head' \subseteq File /\ remote' \subseteq File
         /\ commits' \in Nat
<1> DEFINE call == inFlight[s]
<1>1. call # Idle /\ call \in Call /\ Proper(call)
  BY DEF Work, Typed, TypeOK, TypeOKRegistry, AllProper
<1> USE DEF Typed, TypeOK
<1>2. ASSUME NEW c \in Call, Proper(c), Record(s, c)
      PROVE  TypeOKRegistry' /\ AllProper' /\ audit' \in Entries
  BY <1>2, RecordTypes, RecordNames
<1>3. ASSUME NEW ok \in BOOLEAN, NEW g \in BOOLEAN
      PROVE  /\ [call EXCEPT !.ok = ok] \in Call /\ Proper([call EXCEPT !.ok = ok])
             /\ [call EXCEPT !.ok = ok, !.green = g] \in Call
             /\ Proper([call EXCEPT !.ok = ok, !.green = g])
  BY <1>1 DEF Call, Proper
<1> HIDE DEF call
<1>4. CASE RevertFile(s, call)
  BY <1>1, <1>2, <1>3, <1>4 DEF RevertFile
<1>5. CASE Commit(s, call)
  <2> DEFINE n == commits + 1
  <2>1. n \in Nat
    OBVIOUS
  <2>2. Progress(s, [call EXCEPT !.stage = "push", !.sha = n])
    BY <1>5 DEF Commit
  <2> HIDE DEF n
  <2>3. [call EXCEPT !.stage = "push", !.sha = n] \in Call
    BY <1>1, <2>1 DEF Call
  <2>4. Proper([call EXCEPT !.stage = "push", !.sha = n])
    BY <1>1 DEF Call, Proper
  <2>5. TypeOKRegistry' /\ AllProper'
    BY <2>2, <2>3, <2>4, DispatchTypes
  <2> QED
    BY <1>5, <2>5 DEF Commit
<1>6. CASE NothingToCommit(s, call)
  BY <1>2, <1>3, <1>6 DEF NothingToCommit, code
<1>7. CASE Push(s, call)
  BY <1>2, <1>3, <1>7 DEF Push
<1>8. CASE RunSandbox(s, call)
  <2>1. (SandboxCode \in GreenCodes(call.tool)) \in BOOLEAN
    OBVIOUS
  <2>2. PICK ok \in BOOLEAN :
          /\ Record(s, [call EXCEPT !.ok = ok,
                                     !.green = SandboxCode \in GreenCodes(call.tool)])
          /\ UNCHANGED code
    BY <1>8 DEF RunSandbox
  <2> HIDE DEF SandboxCode, GreenCodes
  <2>3. PICK g \in BOOLEAN : Record(s, [call EXCEPT !.ok = ok, !.green = g])
    BY <2>1, <2>2, Zenon
  <2> QED
    BY <1>2, <1>3, <2>2, <2>3 DEF code
<1>9. CASE call.stage = "end" /\ Record(s, call) /\ UNCHANGED code
  BY <1>1, <1>2, <1>9 DEF code
<1> QED
  BY <1>4, <1>5, <1>6, <1>7, <1>8, <1>9 DEF Work, call

\* So does a step of the executor.
LEMMA ExecutorTypes ==
  ASSUME Typed, Executor
  PROVE  Typed'
<1>1. UNCHANGED <<begun, iteration, stage, repair, winner, status>>
  BY DEF Executor
<1> SUFFICES /\ TypeOKRegistry' /\ AllProper' /\ audit' \in Entries
             /\ worktree' \subseteq File /\ head' \subseteq File /\ remote' \subseteq File
             /\ commits' \in Nat
  BY <1>1 DEF Typed, TypeOK, begun, repair
<1> USE DEF Typed, TypeOK, code
<1>2. ASSUME NEW s \in Slot, NEW tool \in FixTools, NEW f \in File \cup {NoFile},
             NEW step \in {"run", "push", "end"}, NEW ok \in BOOLEAN,
             tool \in Mutations => f \in File, step = "end" => tool \notin Sandbox,
             Dispatch(s, CallOf(tool, f, step, ok))
      PROVE  TypeOKRegistry' /\ AllProper'
  <2>1. CallOf(tool, f, step, ok) \in Call
    BY Calls
  <2>2. Proper(CallOf(tool, f, step, ok))
    BY <1>2 DEF CallOf, Proper
  <2> QED
    BY <1>2, <2>1, <2>2, DispatchTypes
<1>3. ASSUME NEW s \in Slot, NEW f \in File, ApplyPatch(s, f) \/ WriteTest(s, f)
      PROVE  /\ TypeOKRegistry' /\ AllProper' /\ UNCHANGED <<head, remote, commits, audit>>
             /\ worktree' \subseteq File
  <2>1. \E tool \in {"apply_patch", "write_test"}, ok \in BOOLEAN,
           new \in {worktree} \cup Edited(f) :
          /\ Dispatch(s, CallOf(tool, f, "end", ok)) /\ worktree' = new
          /\ UNCHANGED <<head, remote, commits, audit>>
    BY <1>3 DEF ApplyPatch, WriteTest
  <2> QED
    BY <1>2, <2>1, EditTypes DEF FixTools, Mutations, Sandbox
<1>4. ASSUME NEW s \in Slot, NEW f \in File, Start(s, "revert_file", f)
      PROVE  TypeOKRegistry' /\ AllProper' /\ UNCHANGED <<code, audit>>
  BY <1>2, <1>4 DEF Start, FixTools, Mutations
<1>5. ASSUME NEW s \in Slot, NEW tool \in Sandbox \cup {"commit_and_push"}, Start(s, tool, NoFile)
      PROVE  TypeOKRegistry' /\ AllProper' /\ UNCHANGED <<code, audit>>
  BY <1>2, <1>5 DEF Start, FixTools, Mutations, Sandbox
<1>6. ASSUME NEW s \in Slot, NEW tool \in {"done", "abandon"}, Terminal(s, tool)
      PROVE  TypeOKRegistry' /\ AllProper' /\ UNCHANGED <<code, audit>>
  BY <1>2, <1>6 DEF Terminal, FixTools, Mutations, Sandbox
<1>7. ASSUME BeginTurn, UNCHANGED <<code, audit>>
      PROVE  TypeOKRegistry' /\ AllProper'
  <2>1. currentTurnCalls \in BOOLEAN
    BY DEF TypeOKRegistry
  <2>2. previousTurnHadResult' \in BOOLEAN /\ currentTurnCalls' \in BOOLEAN
    BY <1>7, <2>1, Zenon DEF BeginTurn
  <2>3. turn' \in Nat /\ UNCHANGED <<inFlight, totalCalls, terminated>>
    BY <1>7 DEF BeginTurn, TypeOKRegistry
  <2>4. TypeOKRegistry'
    BY <2>2, <2>3 DEF TypeOKRegistry
  <2> QED
    BY <2>3, <2>4 DEF AllProper, Proper
<1>8. CASE \E s \in Slot, f \in File :
             ApplyPatch(s, f) \/ WriteTest(s, f) \/ Start(s, "revert_file", f)
  <2> PICK s \in Slot, f \in File :
        ApplyPatch(s, f) \/ WriteTest(s, f) \/ Start(s, "revert_file", f)
    BY <1>8
  <2>1. CASE ApplyPatch(s, f) \/ WriteTest(s, f)
    BY <1>3, <2>1
  <2>2. CASE Start(s, "revert_file", f)
    BY <1>4, <2>2
  <2> QED
    BY <2>1, <2>2
<1>9. CASE \E s \in Slot, tool \in Sandbox \cup {"commit_and_push"} : Start(s, tool, NoFile)
  BY <1>5, <1>9
<1>10. CASE \E s \in Slot, tool \in {"done", "abandon"} : Terminal(s, tool)
  BY <1>6, <1>10
<1>11. CASE \E s \in Slot : Work(s)
  BY WorkTypes, <1>11
<1>12. CASE BeginTurn /\ UNCHANGED <<code, audit>>
  BY <1>7, <1>12
<1> QED
  BY <1>8, <1>9, <1>10, <1>11, <1>12 DEF Executor

\* And a step of the loop.
LEMMA LoopTypes ==
  ASSUME Typed, Next, ~Executor
  PROVE  Typed'
<1> USE DEF Typed, TypeOK, code, begun, repair
<1>1. ASSUME EndOfExecutor PROVE TypeOKRegistry' /\ AllProper' /\ audit' \in Entries
  BY <1>1, FreshTypes DEF EndOfExecutor, FreshRegistry, AllProper
<1>2. ASSUME UNCHANGED <<registry, audit>>
      PROVE  TypeOKRegistry' /\ AllProper' /\ audit' \in Entries
  BY <1>2 DEF registry, TypeOKRegistry, AllProper, Proper
<1>3. ASSUME NextIteration, worktree' \subseteq File, UNCHANGED <<head, remote, commits>> PROVE Typed'
  BY <1>1, <1>3 DEF NextIteration
<1>4. ASSUME NEW files \in SUBSET File, Win(files), worktree' \subseteq File,
             UNCHANGED <<head, remote, commits>>
      PROVE  Typed'
  BY <1>1, <1>4 DEF Win
<1>5. CASE Begin
  BY <1>2, <1>5 DEF Begin
<1>6. CASE OutOfIterations
  BY <1>2, <1>6 DEF OutOfIterations
<1>7. CASE Planned
  BY <1>2, <1>7 DEF Planned
<1>8. CASE NoNotesOrPlan
  BY <1>3, <1>8 DEF NoNotesOrPlan
<1>9. CASE ExecutorFailed
  BY <1>3, <1>9 DEF ExecutorFailed
<1>10. CASE ExecutorDone
  <2>1. audit.changed \in SUBSET File
    BY DEF Entries
  <2>2. CASE NextIteration
    BY <1>3, <1>10, <2>2 DEF ExecutorDone
  <2>3. CASE Win(audit.changed)
    BY <1>4, <1>10, <2>1, <2>3 DEF ExecutorDone
  <2>4. CASE stage' = "repair" /\ UNCHANGED <<registry, audit, begun, iteration, repair, winner, status>>
    BY <1>2, <1>10, <2>4 DEF ExecutorDone
  <2> QED
    BY <1>10, <2>2, <2>3, <2>4 DEF ExecutorDone
<1>11. ASSUME NEW files \in SUBSET File, Rewrite(files)
       PROVE  worktree' \subseteq File /\ UNCHANGED <<head, remote, commits, driver>>
  BY <1>11 DEF Rewrite
<1>12. CASE RepairRound
  <2> PICK files \in SUBSET File : Rewrite(files) /\ (StillRed(files) \/ RepairedGreen(files))
    BY <1>12 DEF RepairRound
  <2>1. CASE StillRed(files)
    BY <1>2, <1>11, <2>1 DEF StillRed
  <2>2. CASE RepairedGreen(files)
    <3>1. audit.changed \cup additionalChangedFiles \cup files \in SUBSET File
      BY DEF Entries
    <3> QED
      BY <1>3, <1>4, <1>11, <2>2, <3>1 DEF RepairedGreen
  <2> QED
    BY <2>1, <2>2
<1>13. CASE RepairGivesUp
  BY <1>3, <1>13 DEF RepairGivesUp
<1>14. CASE RepairThrows
  BY <1>1, <1>11, <1>14 DEF RepairThrows
<1>15. CASE Verdict
  BY <1>2, <1>15 DEF Verdict
<1> QED
  BY <1>5, <1>6, <1>7, <1>8, <1>9, <1>10, <1>12, <1>13, <1>14, <1>15 DEF Next

\* The stage starts well typed.
LEMMA InitTyped == Init => Typed
<1> SUFFICES ASSUME Init PROVE Typed
  OBVIOUS
<1>1. TypeOKRegistry /\ AllProper
  BY DEF Init, RegistryInit, TypeOKRegistry, AllProper
<1>2. audit \in Entries
  <2>1. [t \in Sandbox |-> -1] \in [Sandbox -> Int]
    OBVIOUS
  <2> QED
    BY <2>1 DEF Init, NoEntries, Entries
<1> QED
  BY <1>1, <1>2 DEF Init, Typed, TypeOK

\* One step keeps every variable in its type.
LEMMA StepTyped == Typed /\ [Next]_vars => Typed'
<1>1. Typed /\ UNCHANGED vars => Typed'
  BY DEF vars, registry, begun, code, repair, Typed, TypeOK, TypeOKRegistry, AllProper, Proper
<1> QED
  BY <1>1, ExecutorTypes, LoopTypes

\* Every variable keeps its type, whatever the language model calls.
THEOREM TypeCorrect == Spec => []TypeOK
<1>1. Init => Typed
  BY InitTyped
<1>2. Typed /\ [Next]_vars => Typed'
  BY StepTyped
<1>3. Typed => TypeOK
  BY DEF Typed
<1> QED
  BY <1>1, <1>2, <1>3, PTL DEF Spec

-----------------------------------------------------------------------------
(* An edit changes the tree when it is dispatched and reaches the           *)
(* transcript when it is recorded.  In between the evidence is stale and    *)
(* the file unaccounted for, and it is the call in flight that says so.     *)

Edits == {"apply_patch", "write_test"}
PendingOn(s, f) == inFlight[s] # Idle /\ inFlight[s].tool \in Edits
                   /\ inFlight[s].ok /\ inFlight[s].file = f
Pending == \E s \in Slot, f \in File : PendingOn(s, f)

\* What evidence says of the tree.
Current(t) == GreenEvidence(t) => Pending \/ worktree \in GreenCodes(t)
Turns == \A t \in Sandbox : audit.green[t] <= turn

EvidenceInv ==
  /\ stage \in {"start", "plan"} => audit = NoEntries
  /\ stage = "execute" => Turns
  /\ stage = "execute" /\ driver = "local" => \A t \in Sandbox : Current(t)
  /\ stage = "critic" /\ driver = "local" =>
       worktree \in ReproGreen /\ worktree \in TestsGreen
  /\ status = "fix_approved" => stage = "over"
  /\ GreenIsCurrent

\* A pending edit stays pending until it is recorded.
LEMMA StillPending ==
  ASSUME TypeOKRegistry, NEW s \in Slot, NEW w \in Slot, w # s, NEW f, NEW new,
         inFlight' = [inFlight EXCEPT ![s] = new], PendingOn(w, f)
  PROVE  PendingOn(w, f)'
BY DEF PendingOn, TypeOKRegistry

\* What the record of a call does to the evidence.
LEMMA RecordEvidence ==
  ASSUME Typed, Turns, NEW s \in Slot, NEW call \in Call, Record(s, call), NEW t \in Sandbox
  PROVE  /\ audit'.green[t] <= turn
         /\ GreenEvidence(t)' =>
              \/ call.tool = t /\ call.green /\ call.ok
              \/ GreenEvidence(t) /\ ~(call.ok /\ call.tool \in Mutations)
<1>1. audit.green[t] \in Int /\ audit.mutation \in Int /\ turn \in Nat
  BY DEF Typed, TypeOK, TypeOKRegistry, Entries
<1>2. audit.green[t] <= turn
  BY DEF Turns
<1>3. CASE ~call.ok
  BY <1>1, <1>2, <1>3 DEF Record, GreenEvidence
<1>4. CASE call.ok
  <2>1. audit'.mutation = IF call.tool \in Mutations THEN turn ELSE audit.mutation
    BY <1>4 DEF Record
  <2>2. audit'.green[t] = IF call.tool = t /\ call.green THEN turn ELSE audit.green[t]
    BY <1>4 DEF Record
  <2>3. Sandbox \cap Mutations = {}
    BY DEF Sandbox, Mutations
  <2> QED
    BY <1>1, <1>2, <1>4, <2>1, <2>2, <2>3 DEF GreenEvidence
<1> QED
  BY <1>3, <1>4 DEF Call

\* The finished code is what passed, as long as no edit is pending: a call goes on.
LEMMA WorkEvidence ==
  ASSUME Typed, Turns, driver = "local", \A t \in Sandbox : Current(t),
         NEW s \in Slot, Work(s), NEW t \in Sandbox
  PROVE  Current(t)'
<1> DEFINE call == inFlight[s]
<1>1. call # Idle /\ call \in Call /\ Proper(call)
  BY DEF Work, Typed, TypeOK, TypeOKRegistry, AllProper
<1>2. TypeOKRegistry /\ Current(t)
  BY DEF Typed, TypeOK
<1>3. ASSUME NEW new, inFlight' = [inFlight EXCEPT ![s] = new], Pending,
             call.tool \notin Edits \/ ~call.ok
      PROVE  Pending'
  <2>1. PICK w \in Slot, f \in File : PendingOn(w, f)
    BY <1>3 DEF Pending
  <2>2. w # s
    BY <1>3, <2>1 DEF PendingOn
  <2> QED
    BY <1>2, <1>3, <2>1, <2>2, StillPending DEF Pending
<1>4. ASSUME NEW c \in Call, Record(s, c), c.tool = call.tool,
             call.tool \notin Edits \/ c.ok = call.ok,
             ~(c.ok /\ c.tool \in Mutations) => UNCHANGED worktree,
             c.tool = t /\ c.green /\ c.ok => worktree \in GreenCodes(t)
      PROVE  Current(t)'
  <2>1. inFlight' = [inFlight EXCEPT ![s] = Idle]
    BY <1>4 DEF Record, Finish
  <2> SUFFICES ASSUME GreenEvidence(t)', ~Pending' PROVE worktree' \in GreenCodes(t)
    BY DEF Current, GreenCodes
  <2>2. \/ c.tool = t /\ c.green /\ c.ok
        \/ GreenEvidence(t) /\ ~(c.ok /\ c.tool \in Mutations)
    BY <1>4, RecordEvidence
  <2>3. Sandbox \cap Mutations = {} /\ Edits \subseteq Mutations
    BY DEF Sandbox, Mutations, Edits
  <2>4. UNCHANGED worktree
    BY <1>4, <2>2, <2>3
  <2>5. CASE c.tool = t /\ c.green /\ c.ok
    BY <1>4, <2>4, <2>5
  <2>6. CASE GreenEvidence(t) /\ ~(c.ok /\ c.tool \in Mutations)
    <3>1. ~Pending
      BY <1>3, <1>4, <2>1, <2>3, <2>6
    <3> QED
      BY <1>2, <2>4, <2>6, <3>1 DEF Current
  <2> QED
    BY <2>2, <2>5, <2>6
<1> HIDE DEF call
<1>5. ASSUME NEW ok \in BOOLEAN, NEW g \in BOOLEAN
      PROVE  /\ [call EXCEPT !.ok = ok] \in Call
             /\ [call EXCEPT !.ok = ok].tool = call.tool
             /\ [call EXCEPT !.ok = ok].ok = ok
             /\ [call EXCEPT !.ok = ok, !.green = g] \in Call
             /\ [call EXCEPT !.ok = ok, !.green = g].tool = call.tool
             /\ [call EXCEPT !.ok = ok, !.green = g].ok = ok
             /\ [call EXCEPT !.ok = ok, !.green = g].green = g
  BY <1>1 DEF Call
<1>6. CASE RevertFile(s, call)
  <2>1. call.tool = "revert_file" /\ Record(s, [call EXCEPT !.ok = TRUE])
    BY <1>6 DEF RevertFile
  <2>2. "revert_file" \in Mutations /\ "revert_file" \notin Edits /\ "revert_file" \notin Sandbox
    BY DEF Mutations, Edits, Sandbox
  <2> DEFINE c == [call EXCEPT !.ok = TRUE]
  <2>3. c \in Call /\ c.tool = call.tool /\ c.ok
    BY <1>1 DEF Call
  <2> HIDE DEF c
  <2>4. Record(s, c)
    BY <2>1 DEF c
  <2> QED
    BY <1>4, <2>1, <2>2, <2>3, <2>4
<1>7. CASE Commit(s, call)
  <2> DEFINE n == [call EXCEPT !.stage = "push", !.sha = commits + 1]
  <2>1. /\ inFlight' = [inFlight EXCEPT ![s] = n] /\ UNCHANGED <<audit, worktree>>
        /\ call.tool = "commit_and_push"
    BY <1>7 DEF Commit, Progress
  <2> HIDE DEF n
  <2>2. Pending => Pending'
    BY <1>3, <2>1 DEF Edits
  <2> QED
    BY <1>2, <2>1, <2>2 DEF Current, GreenEvidence, GreenCodes
<1>8. CASE NothingToCommit(s, call)
  <2>1. /\ call.tool = "commit_and_push" /\ Record(s, [call EXCEPT !.ok = FALSE])
        /\ UNCHANGED worktree
    BY <1>8 DEF NothingToCommit, code
  <2> QED
    BY <1>4, <1>5, <2>1 DEF Edits
<1>9. CASE Push(s, call)
  <2> PICK ok \in BOOLEAN : /\ call.tool = "commit_and_push" /\ Record(s, [call EXCEPT !.ok = ok])
                            /\ UNCHANGED worktree
    BY <1>9 DEF Push
  <2> QED
    BY <1>4, <1>5 DEF Edits, Sandbox
<1>10. CASE RunSandbox(s, call)
  <2> DEFINE seen == SandboxCode \in GreenCodes(call.tool)
  <2>1. PICK ok \in BOOLEAN : /\ call.tool \in Sandbox
                              /\ Record(s, [call EXCEPT !.ok = ok, !.green = seen])
                              /\ UNCHANGED worktree
    BY <1>10 DEF RunSandbox, code
  <2>2. seen => worktree \in GreenCodes(call.tool)
    BY DEF SandboxCode
  <2>3. seen \in BOOLEAN
    OBVIOUS
  <2> HIDE DEF seen
  <2>4. PICK g \in BOOLEAN : g = seen
    BY <2>3
  <2>5. Record(s, [call EXCEPT !.ok = ok, !.green = g])
    BY <2>1, <2>4
  <2>6. g => worktree \in GreenCodes(call.tool)
    BY <2>2, <2>4
  <2>7. Sandbox \cap Edits = {}
    BY DEF Sandbox, Edits
  <2> QED
    BY <1>4, <1>5, <2>1, <2>5, <2>6, <2>7
<1>11. CASE call.stage = "end" /\ Record(s, call) /\ UNCHANGED code
  <2>1. call.tool # t /\ UNCHANGED worktree
    BY <1>1, <1>11 DEF Proper, code
  <2>2. ~(call.ok /\ call.tool \in Mutations) => UNCHANGED worktree
    BY <2>1
  <2> QED
    BY <1>1, <1>4, <1>11, <2>1, <2>2
<1> QED
  BY <1>6, <1>7, <1>8, <1>9, <1>10, <1>11 DEF Work, call

\* A dispatch finds its slot idle, so it takes no pending edit away.
LEMMA DispatchKeeps ==
  ASSUME Typed, NEW s \in Slot, NEW call, Dispatch(s, call)
  PROVE  /\ \A w \in Slot, f \in File : PendingOn(w, f) => PendingOn(w, f)'
         /\ Pending => Pending'
<1>1. ASSUME NEW w \in Slot, NEW f \in File, PendingOn(w, f) PROVE PendingOn(w, f)'
  <2>1. w # s /\ inFlight' = [inFlight EXCEPT ![s] = call]
    BY <1>1 DEF Dispatch, PendingOn
  <2> QED
    BY <1>1, <2>1, StillPending DEF Typed, TypeOK
<1> QED
  BY <1>1 DEF Pending

\* An edit that changes the tree is pending, or meets another of its file that is.
LEMMA EditPends ==
  ASSUME Typed, NEW s \in Slot, NEW f \in File, ApplyPatch(s, f) \/ WriteTest(s, f)
  PROVE  /\ worktree' = worktree \/ \E w \in Slot : PendingOn(w, f)'
         /\ worktree' \subseteq worktree \cup {f}
         /\ \A w \in Slot, g \in File : PendingOn(w, g) => PendingOn(w, g)'
         /\ UNCHANGED <<head, remote, commits, audit, turn>>
<1>1. ASSUME NEW tool \in Edits, Dispatch(s, CallOf(tool, f, "end", TRUE))
      PROVE  PendingOn(s, f)'
  <2> DEFINE c == CallOf(tool, f, "end", TRUE)
  <2>1. c \in Call /\ c.tool \in Edits /\ c.ok /\ c.file = f
    BY Calls DEF CallOf, Edits, FixTools, Mutations
  <2>2. inFlight' = [inFlight EXCEPT ![s] = c]
    BY <1>1 DEF Dispatch
  <2> HIDE DEF c
  <2> QED
    BY <2>1, <2>2 DEF PendingOn, Typed, TypeOK, TypeOKRegistry
<1>2. CASE WriteTest(s, f)
  <2>1. Dispatch(s, CallOf("write_test", f, "end", TRUE))
    BY <1>2 DEF WriteTest
  <2>2. worktree' \subseteq worktree \cup {f} /\ UNCHANGED <<head, remote, commits, audit, turn>>
    BY <1>2 DEF WriteTest, Edited, Dispatch
  <2> QED
    BY <1>1, <2>1, <2>2, DispatchKeeps DEF Edits
<1>3. CASE ApplyPatch(s, f)
  <2> PICK ok \in BOOLEAN, new \in {worktree} \cup Edited(f) :
        /\ ok \/ new = worktree \/ HypothesisTaken(f)
        /\ Dispatch(s, CallOf("apply_patch", f, "end", ok))
        /\ worktree' = new /\ UNCHANGED <<head, remote, commits, audit>>
    BY <1>3 DEF ApplyPatch
  <2>1. worktree' \subseteq worktree \cup {f} /\ UNCHANGED turn
    BY DEF Edited, Dispatch
  <2>2. CASE ok
    <3>1. ok = TRUE
      BY <2>2
    <3>2. Dispatch(s, CallOf("apply_patch", f, "end", TRUE))
      BY <3>1
    <3> QED
      BY <1>1, <2>1, <3>2, DispatchKeeps DEF Edits
  <2>3. CASE new = worktree
    BY <2>1, <2>3, DispatchKeeps
  <2>4. CASE HypothesisTaken(f)
    <3>1. \E w \in Slot : PendingOn(w, f)
      BY <2>4 DEF HypothesisTaken, PendingOn, Edits
    <3> QED
      BY <2>1, <3>1, DispatchKeeps
  <2> QED
    BY <2>2, <2>3, <2>4
<1> QED
  BY <1>2, <1>3

\* The other steps that dispatch leave code and transcript alone.
LEMMA StartKeeps ==
  ASSUME Typed, NEW s \in Slot, NEW tool, NEW f, Start(s, tool, f) \/ Terminal(s, tool)
  PROVE  /\ UNCHANGED <<code, audit, turn>>
         /\ \A w \in Slot, g \in File : PendingOn(w, g) => PendingOn(w, g)'
         /\ Pending => Pending'
<1>1. \E c : Dispatch(s, c)
  BY DEF Start, Terminal
<1>2. UNCHANGED <<code, audit, turn>>
  BY DEF Start, Terminal, Dispatch
<1> QED
  BY <1>1, <1>2, DispatchKeeps

\* The transcript never gets ahead of the turn.
LEMMA ExecutorTurns ==
  ASSUME Typed, Turns, Executor
  PROVE  Turns'
<1> USE DEF Turns
<1>1. CASE UNCHANGED <<audit, turn>>
  BY <1>1
<1>2. ASSUME NEW s \in Slot, Work(s) PROVE Turns'
  <2> SUFFICES ASSUME NEW t \in Sandbox PROVE (audit.green[t] <= turn)'
    OBVIOUS
  <2> DEFINE call == inFlight[s]
  <2>1. call \in Call
    BY <1>2 DEF Work, Typed, TypeOK, TypeOKRegistry
  <2>2. CASE \E c \in Call : Record(s, c)
    <3> PICK c \in Call : Record(s, c)
      BY <2>2
    <3>1. audit'.green[t] <= turn
      BY RecordEvidence
    <3>2. UNCHANGED turn
      BY DEF Record, Finish
    <3> QED
      BY <3>1, <3>2
  <2>3. CASE Commit(s, call)
    BY <2>3 DEF Commit, Progress
  <2> HIDE DEF call
  <2>4. ASSUME NEW ok \in BOOLEAN, NEW g \in BOOLEAN
        PROVE [call EXCEPT !.ok = ok] \in Call /\ [call EXCEPT !.ok = ok, !.green = g] \in Call
    BY <2>1 DEF Call
  <2>5. CASE RunSandbox(s, call)
    <3>1. (SandboxCode \in GreenCodes(call.tool)) \in BOOLEAN
      OBVIOUS
    <3> HIDE DEF SandboxCode, GreenCodes
    <3>2. \E ok, g \in BOOLEAN : Record(s, [call EXCEPT !.ok = ok, !.green = g])
      BY <2>5, <3>1, Zenon DEF RunSandbox
    <3> QED
      BY <2>2, <2>4, <3>2
  <2>6. CASE RevertFile(s, call) \/ NothingToCommit(s, call) \/ Push(s, call)
    <3>1. \E ok \in BOOLEAN : Record(s, [call EXCEPT !.ok = ok])
      BY <2>6, Zenon DEF RevertFile, NothingToCommit, Push
    <3> QED
      BY <2>2, <2>4, <3>1
  <2>7. CASE Record(s, call)
    BY <2>1, <2>2, <2>7
  <2> QED
    BY <1>2, <2>3, <2>5, <2>6, <2>7 DEF Work, call
<1>3. CASE BeginTurn /\ UNCHANGED <<code, audit>>
  BY <1>3 DEF BeginTurn, Typed, TypeOK, TypeOKRegistry, Entries
<1> QED
  BY <1>1, <1>2, <1>3, EditPends, StartKeeps DEF Executor

\* The finished code is what passed, as long as no edit is pending.
LEMMA ExecutorEvidence ==
  ASSUME Typed, Turns, driver = "local", \A t \in Sandbox : Current(t),
         Executor, NEW t \in Sandbox
  PROVE  Current(t)'
<1>1. Current(t)
  OBVIOUS
<1>2. ASSUME UNCHANGED <<audit, worktree>>, Pending => Pending' PROVE Current(t)'
  BY <1>1, <1>2 DEF Current, GreenEvidence, GreenCodes
<1>3. ASSUME NEW s \in Slot, NEW f \in File, ApplyPatch(s, f) \/ WriteTest(s, f)
      PROVE  Current(t)'
  <2>1. CASE worktree' = worktree
    <3>1. Pending => Pending' /\ UNCHANGED audit
      BY <1>3, EditPends DEF Pending
    <3> QED
      BY <1>2, <1>3, <2>1, <3>1, EditPends
  <2>2. CASE \E w \in Slot : PendingOn(w, f)'
    BY <2>2 DEF Current, Pending
  <2> QED
    BY <1>3, <2>1, <2>2, EditPends
<1>4. ASSUME NEW s \in Slot, NEW tool, NEW f, Start(s, tool, f) \/ Terminal(s, tool)
      PROVE  Current(t)'
  BY <1>2, <1>4, StartKeeps DEF code
<1>5. CASE BeginTurn /\ UNCHANGED <<code, audit>>
  BY <1>2, <1>5 DEF BeginTurn, code, Pending, PendingOn
<1> QED
  BY <1>3, <1>4, <1>5, WorkEvidence DEF Executor

\* Green evidence at the end of an executor: nothing is in flight, so none is pending.
LEMMA QuietEvidence ==
  ASSUME Quiet, NEW t \in Sandbox, Current(t), GreenEvidence(t)
  PROVE  worktree \in GreenCodes(t)
BY DEF Quiet, Current, Pending, PendingOn

\* No step makes old evidence look like evidence of the present tree.
LEMMA EvidenceStep ==
  ASSUME Typed, EvidenceInv, Next
  PROVE  EvidenceInv'
<1> USE DEF EvidenceInv
<1>1. ASSUME NextIteration, stage # "over" PROVE EvidenceInv'
  BY <1>1 DEF NextIteration, EndOfExecutor, GreenIsCurrent
<1>2. ASSUME NEW files, Win(files), stage # "over",
             driver' = "local" => worktree' \in ReproGreen /\ worktree' \in TestsGreen
      PROVE  EvidenceInv'
  BY <1>2 DEF Win, begun, GreenIsCurrent
<1>3. CASE Begin
  BY <1>3 DEF Begin, GreenIsCurrent
<1>4. CASE OutOfIterations
  BY <1>4 DEF OutOfIterations, GreenIsCurrent
<1>5. CASE Planned
  <2>1. audit' = NoEntries /\ turn' \in Nat /\ stage' = "execute" /\ status' # "fix_approved"
    BY <1>5 DEF Planned, registry, Typed, TypeOK, TypeOKRegistry
  <2>2. \A t \in Sandbox : audit'.green[t] = -1 /\ audit'.mutation = -1
    BY <2>1 DEF NoEntries
  <2>3. Turns' /\ \A t \in Sandbox : Current(t)'
    BY <2>1, <2>2 DEF Turns, Current, GreenEvidence
  <2> QED
    BY <2>1, <2>3 DEF GreenIsCurrent
<1>6. CASE NoNotesOrPlan
  BY <1>1, <1>6 DEF NoNotesOrPlan
<1>7. CASE Executor
  <2>1. stage = "execute" /\ stage' = stage /\ driver' = driver /\ status' = status
    BY <1>7 DEF Executor, begun
  <2>2. Turns'
    BY <1>7, <2>1, ExecutorTurns
  <2>3. driver = "local" => \A t \in Sandbox : Current(t)'
    BY <1>7, <2>1, ExecutorEvidence
  <2> QED
    BY <2>1, <2>2, <2>3 DEF GreenIsCurrent
<1>8. CASE ExecutorFailed
  BY <1>1, <1>8 DEF ExecutorFailed
<1>9. CASE ExecutorDone
  <2>1. CASE PromisePassed /\ Win(audit.changed)
    <3>1. driver = "local" =>
            worktree \in GreenCodes("run_repro") /\ worktree \in GreenCodes("run_tests")
      BY <1>9, <2>1, QuietEvidence DEF ExecutorDone, PromisePassed, Sandbox
    <3>2. driver' = driver /\ worktree' = worktree
      BY <1>9, <2>1 DEF ExecutorDone, Win, begun, code
    <3> QED
      BY <1>2, <1>9, <2>1, <3>1, <3>2 DEF ExecutorDone, GreenCodes
  <2>2. CASE /\ stage' = "repair"
             /\ UNCHANGED <<registry, audit, begun, iteration, repair, winner, status>>
    BY <1>9, <2>2 DEF ExecutorDone, GreenIsCurrent
  <2> QED
    BY <1>1, <1>9, <2>1, <2>2 DEF ExecutorDone
<1>10. CASE RepairRound
  <2> PICK files \in SUBSET File : Rewrite(files) /\ (StillRed(files) \/ RepairedGreen(files))
    BY <1>10 DEF RepairRound
  <2>1. CASE StillRed(files)
    BY <1>10, <2>1 DEF RepairRound, StillRed, GreenIsCurrent
  <2>2. CASE RepairedGreen(files)
    <3>1. CASE NextIteration
      BY <1>1, <1>10, <3>1 DEF RepairRound
    <3>2. CASE \E all : RepairWins(all) /\ Win(all)
      <4>1. driver' = "local" => worktree' \in ReproGreen /\ worktree' \in TestsGreen
        BY <2>2, <3>2 DEF RepairedGreen, RepairWins, SandboxCode
      <4> QED
        BY <1>2, <1>10, <3>2, <4>1 DEF RepairRound
    <3> QED
      BY <2>2, <3>1, <3>2 DEF RepairedGreen
  <2> QED
    BY <2>1, <2>2
<1>11. CASE RepairGivesUp
  BY <1>1, <1>11 DEF RepairGivesUp
<1>12. CASE RepairThrows
  BY <1>12 DEF RepairThrows, GreenIsCurrent
<1>13. CASE Verdict
  BY <1>13 DEF Verdict, code, begun, GreenIsCurrent
<1> QED
  BY <1>3, <1>4, <1>5, <1>6, <1>7, <1>8, <1>9, <1>10, <1>11, <1>12, <1>13 DEF Next

\* An approved fix is the code that passed: where the sandbox runs the working
\* tree, computeGreenEvidence and the final run of the repair loop are enough,
\* for any number of concurrent calls in a turn.
THEOREM FinishedCodePassed == Spec => []GreenIsCurrent
<1> DEFINE IInv == Typed /\ EvidenceInv
<1>1. Init => EvidenceInv
  BY DEF Init, EvidenceInv, GreenIsCurrent
<1>2. IInv /\ [Next]_vars => IInv'
  <2>1. EvidenceInv /\ UNCHANGED vars => EvidenceInv'
    BY DEF vars, registry, begun, code, repair, EvidenceInv, Turns, Current,
           GreenEvidence, GreenCodes, Pending, PendingOn, GreenIsCurrent
  <2> QED
    BY <2>1, EvidenceStep, StepTyped
<1>3. IInv => GreenIsCurrent
  BY DEF EvidenceInv
<1>4. Init => Typed
  BY InitTyped
<1> QED
  BY <1>1, <1>2, <1>3, <1>4, PTL DEF Spec

-----------------------------------------------------------------------------
(* Every file an iteration has touched is known to the audit, or is about  *)
(* to be: an edit in flight will name it.                                  *)

Accounted(f) == f \in audit.changed \/ \E s \in Slot : PendingOn(s, f)
Touched == (worktree \cup head) \ startCode

ScopeInv ==
  /\ stage = "plan" => Touched = {}
  /\ stage = "execute" => \A f \in Touched : Accounted(f)
  /\ stage = "repair" => worktree \ startCode \subseteq audit.changed \cup additionalChangedFiles
  /\ stage = "critic" => worktree \ startCode \subseteq InScope
  /\ status = "fix_approved" => stage = "over"
  /\ NothingNewOutOfScope

\* What the record of a call tells the audit.
LEMMA RecordChanged ==
  ASSUME Typed, NEW s \in Slot, NEW call \in Call, Record(s, call)
  PROVE  /\ audit.changed \subseteq audit'.changed
         /\ call.ok /\ call.tool \in Edits => call.file \in audit'.changed
<1>1. CASE ~call.ok
  BY <1>1 DEF Record
<1>2. CASE call.ok
  <2>1. audit'.changed = IF call.tool \in Mutations \ {"revert_file"}
                         THEN audit.changed \cup {call.file} ELSE audit.changed
    BY <1>2 DEF Record
  <2>2. Edits \subseteq Mutations \ {"revert_file"}
    BY DEF Edits, Mutations
  <2> QED
    BY <2>1, <2>2
<1> QED
  BY <1>1, <1>2 DEF Call

\* A call that goes on keeps every file accounted for.
LEMMA WorkAccounts ==
  ASSUME Typed, NEW s \in Slot, Work(s), \A f \in Touched : Accounted(f),
         startCode' = startCode
  PROVE  (\A f \in Touched : Accounted(f))'
<1> DEFINE call == inFlight[s]
<1>1. call # Idle /\ call \in Call
  BY DEF Work, Typed, TypeOK, TypeOKRegistry
<1>2. TypeOKRegistry
  BY DEF Typed, TypeOK
<1>3. ASSUME NEW new, inFlight' = [inFlight EXCEPT ![s] = new],
             audit.changed \subseteq audit'.changed,
             call.ok /\ call.tool \in Edits => call.file \in audit'.changed,
             worktree' \cup head' \subseteq worktree \cup head
      PROVE  (\A f \in Touched : Accounted(f))'
  <2> SUFFICES ASSUME NEW f \in Touched' PROVE Accounted(f)'
    OBVIOUS
  <2>1. f \in Touched /\ Accounted(f)
    BY <1>3 DEF Touched
  <2>2. CASE f \in audit.changed
    BY <1>3, <2>2 DEF Accounted
  <2>3. CASE PendingOn(s, f)
    BY <1>3, <2>3 DEF Accounted, PendingOn
  <2>4. ASSUME NEW w \in Slot, w # s, PendingOn(w, f) PROVE Accounted(f)'
    BY <1>2, <1>3, <2>4, StillPending DEF Accounted
  <2> QED
    BY <2>1, <2>2, <2>3, <2>4 DEF Accounted
<1>4. ASSUME NEW c \in Call, Record(s, c), call.tool \in Edits => c = call,
             worktree' \cup head' \subseteq worktree \cup head
      PROVE  (\A f \in Touched : Accounted(f))'
  BY <1>1, <1>3, <1>4, RecordChanged DEF Record, Finish
<1> HIDE DEF call
<1>5. ASSUME NEW ok \in BOOLEAN, NEW g \in BOOLEAN
      PROVE [call EXCEPT !.ok = ok] \in Call /\ [call EXCEPT !.ok = ok, !.green = g] \in Call
  BY <1>1 DEF Call
<1>6. CASE RevertFile(s, call)
  <2>1. worktree' \cup head' \subseteq worktree \cup head /\ call.tool = "revert_file"
    BY <1>6 DEF RevertFile
  <2>2. \E ok \in BOOLEAN : Record(s, [call EXCEPT !.ok = ok])
    BY <1>6, Zenon DEF RevertFile
  <2> QED
    BY <1>4, <1>5, <2>1, <2>2 DEF Edits
<1>7. CASE Commit(s, call)
  <2> DEFINE n == [call EXCEPT !.stage = "push", !.sha = commits + 1]
  <2>1. /\ inFlight' = [inFlight EXCEPT ![s] = n] /\ UNCHANGED audit
        /\ worktree' \cup head' \subseteq worktree \cup head
        /\ call.tool = "commit_and_push"
    BY <1>7 DEF Commit, Progress
  <2> HIDE DEF n
  <2> QED
    BY <1>3, <2>1 DEF Edits
<1>8. CASE NothingToCommit(s, call) \/ Push(s, call)
  <2>1. /\ worktree' \cup head' \subseteq worktree \cup head
        /\ call.tool = "commit_and_push"
    BY <1>8 DEF NothingToCommit, Push, code
  <2>2. \E ok \in BOOLEAN : Record(s, [call EXCEPT !.ok = ok])
    BY <1>8, Zenon DEF NothingToCommit, Push
  <2> QED
    BY <1>4, <1>5, <2>1, <2>2 DEF Edits
<1>9. CASE RunSandbox(s, call)
  <2>1. worktree' \cup head' \subseteq worktree \cup head /\ call.tool \in Sandbox
    BY <1>9 DEF RunSandbox, code
  <2>2. (SandboxCode \in GreenCodes(call.tool)) \in BOOLEAN
    OBVIOUS
  <2> HIDE DEF SandboxCode, GreenCodes
  <2>3. \E ok, g \in BOOLEAN : Record(s, [call EXCEPT !.ok = ok, !.green = g])
    BY <1>9, <2>2, Zenon DEF RunSandbox
  <2> QED
    BY <1>4, <1>5, <2>1, <2>3 DEF Edits, Sandbox
<1>10. CASE call.stage = "end" /\ Record(s, call) /\ UNCHANGED code
  BY <1>1, <1>4, <1>10 DEF code
<1> QED
  BY <1>6, <1>7, <1>8, <1>9, <1>10 DEF Work, call

\* Every file a step of the executor touches is accounted for.
LEMMA ExecutorAccounts ==
  ASSUME Typed, Executor, \A f \in Touched : Accounted(f)
  PROVE  (\A f \in Touched : Accounted(f))'
<1>1. startCode' = startCode
  BY DEF Executor, begun
<1>2. ASSUME UNCHANGED <<code, audit>>,
             \A w \in Slot, g \in File : PendingOn(w, g) => PendingOn(w, g)'
      PROVE  (\A f \in Touched : Accounted(f))'
  BY <1>1, <1>2 DEF Touched, Accounted, code, Typed, TypeOK
<1>3. ASSUME NEW s \in Slot, NEW f \in File, ApplyPatch(s, f) \/ WriteTest(s, f)
      PROVE  (\A g \in Touched : Accounted(g))'
  <2> SUFFICES ASSUME NEW g \in Touched' PROVE Accounted(g)'
    OBVIOUS
  <2>1. g \in File
    BY <1>3, EditPends DEF Touched, Typed, TypeOK
  <2>2. CASE g \in Touched
    <3>1. Accounted(g) /\ audit' = audit
      BY <1>3, <2>2, EditPends
    <3> QED
      BY <1>3, <2>1, <3>1, EditPends DEF Accounted
  <2>3. CASE g \notin Touched
    <3>1. g = f /\ worktree' # worktree
      BY <1>1, <1>3, <2>3, EditPends DEF Touched
    <3> QED
      BY <1>3, <3>1, EditPends DEF Accounted
  <2> QED
    BY <2>2, <2>3
<1>4. ASSUME NEW s \in Slot, NEW tool, NEW f, Start(s, tool, f) \/ Terminal(s, tool)
      PROVE  (\A g \in Touched : Accounted(g))'
  BY <1>2, <1>4, StartKeeps
<1>5. CASE BeginTurn /\ UNCHANGED <<code, audit>>
  BY <1>2, <1>5 DEF BeginTurn, PendingOn
<1> QED
  BY <1>1, <1>3, <1>4, <1>5, WorkAccounts DEF Executor

\* The accounts stay complete from step to step.
LEMMA ScopeStep ==
  ASSUME Typed, ScopeInv, Next
  PROVE  ScopeInv'
<1> USE DEF ScopeInv
<1>1. ASSUME NextIteration, stage # "over" PROVE ScopeInv'
  BY <1>1 DEF NextIteration, NothingNewOutOfScope
<1>2. ASSUME NEW files, Win(files), stage # "over", worktree' \ startCode \subseteq InScope
      PROVE  ScopeInv'
  BY <1>2 DEF Win, begun, NothingNewOutOfScope
<1>3. CASE Begin
  BY <1>3 DEF Begin, Touched, NothingNewOutOfScope
<1>4. CASE OutOfIterations
  BY <1>4 DEF OutOfIterations, NothingNewOutOfScope
<1>5. CASE Planned
  <2>1. Touched' = {}
    BY <1>5 DEF Planned, Touched, code, begun
  <2> QED
    BY <1>5, <2>1 DEF Planned, NothingNewOutOfScope
<1>6. CASE NoNotesOrPlan
  BY <1>1, <1>6 DEF NoNotesOrPlan
<1>7. CASE Executor
  <2>1. stage = "execute" /\ stage' = stage /\ status' = status
    BY <1>7 DEF Executor
  <2> QED
    BY <1>7, <2>1, ExecutorAccounts DEF NothingNewOutOfScope
<1>8. CASE ExecutorFailed
  BY <1>1, <1>8 DEF ExecutorFailed
<1>9. CASE ExecutorDone
  <2>1. worktree \ startCode \subseteq audit.changed /\ UNCHANGED worktree
    <3>1. \A f : Accounted(f) => f \in audit.changed
      BY <1>9 DEF ExecutorDone, Quiet, Accounted, PendingOn
    <3> QED
      BY <1>9, <3>1 DEF ExecutorDone, Touched, code
  <2>2. CASE PromisePassed /\ Win(audit.changed)
    BY <1>2, <1>9, <2>1, <2>2 DEF ExecutorDone, PromisePassed, ScopeOk
  <2>3. CASE /\ stage' = "repair"
             /\ UNCHANGED <<registry, audit, begun, iteration, repair, winner, status>>
    BY <1>9, <2>1, <2>3 DEF ExecutorDone, begun, repair, NothingNewOutOfScope
  <2> QED
    BY <1>1, <1>9, <2>2, <2>3 DEF ExecutorDone
<1>10. CASE RepairRound
  <2> PICK files \in SUBSET File : Rewrite(files) /\ (StillRed(files) \/ RepairedGreen(files))
    BY <1>10 DEF RepairRound
  <2> DEFINE all == audit.changed \cup additionalChangedFiles \cup files
  <2>1. stage = "repair" /\ worktree' \ startCode \subseteq all
    BY <1>10 DEF RepairRound, Rewrite
  <2>2. CASE StillRed(files)
    BY <2>1, <2>2 DEF StillRed, begun, NothingNewOutOfScope
  <2>3. CASE RepairedGreen(files)
    <3>1. CASE RepairWins(all) /\ Win(all)
      BY <1>2, <2>1, <3>1 DEF RepairWins, ScopeOk
    <3>2. CASE NextIteration
      BY <1>1, <2>1, <3>2
    <3> QED
      BY <2>3, <3>1, <3>2 DEF RepairedGreen
  <2> QED
    BY <2>2, <2>3
<1>11. CASE RepairGivesUp
  BY <1>1, <1>11 DEF RepairGivesUp
<1>12. CASE RepairThrows
  BY <1>12 DEF RepairThrows, NothingNewOutOfScope
<1>13. CASE Verdict
  BY <1>13 DEF Verdict, code, begun, NothingNewOutOfScope
<1> QED
  BY <1>3, <1>4, <1>5, <1>6, <1>7, <1>8, <1>9, <1>10, <1>11, <1>12, <1>13 DEF Next

\* scope_ok, as far as it reaches: the audit of the iteration that wins sees
\* every file the iteration touched, so an approved fix adds nothing out of
\* scope to what it found, for any number of concurrent calls and of repairs.
THEOREM WinnerInScope == Spec => []NothingNewOutOfScope
<1> DEFINE IInv == Typed /\ ScopeInv
<1>1. Init => IInv
  BY InitTyped DEF Init, ScopeInv, NothingNewOutOfScope
<1>2. IInv /\ [Next]_vars => IInv'
  <2>1. ScopeInv /\ UNCHANGED vars => ScopeInv'
    BY DEF vars, registry, begun, code, repair, ScopeInv, Touched, Accounted, PendingOn,
           NothingNewOutOfScope
  <2> QED
    BY <2>1, ScopeStep, StepTyped
<1>3. IInv => NothingNewOutOfScope
  BY DEF ScopeInv
<1> QED
  BY <1>1, <1>2, <1>3, PTL DEF Spec

-----------------------------------------------------------------------------
(* Every step of the stage goes down, from an iteration to a call.          *)

\* An iteration under way is one of those the configuration allows.
Within ==
  stage \in {"plan", "execute", "repair"} => iteration <= MaxIterations

LEMMA WithinStep == Typed /\ Within /\ [Next]_vars => Within'
<1> SUFFICES ASSUME Typed, Within, [Next]_vars PROVE Within'
  OBVIOUS
<1>1. ASSUME NextIteration PROVE Within'
  BY <1>1 DEF NextIteration, Within
<1>2. ASSUME NEW files, Win(files) PROVE Within'
  BY <1>2 DEF Win, Within
<1>3. CASE Executor
  BY <1>3 DEF Executor, Within
<1>4. CASE Begin \/ OutOfIterations \/ Planned \/ Verdict \/ RepairThrows
  BY <1>4 DEF Begin, OutOfIterations, Planned, Verdict, RepairThrows, Within
<1>5. CASE NoNotesOrPlan \/ ExecutorFailed \/ RepairGivesUp
  BY <1>1, <1>5 DEF NoNotesOrPlan, ExecutorFailed, RepairGivesUp
<1>6. CASE ExecutorDone
  BY <1>1, <1>2, <1>6 DEF ExecutorDone, Within
<1>7. CASE RepairRound
  BY <1>1, <1>2, <1>7 DEF RepairRound, RepairedGreen, StillRed, Within
<1>8. CASE UNCHANGED vars
  BY <1>8 DEF vars, Within
<1> QED
  BY <1>3, <1>4, <1>5, <1>6, <1>7, <1>8 DEF Next

\* What comes down in one place, with all before it as they were, is below.
LEMMA BelowAt ==
  ASSUME NEW s, NEW t, NEW i \in DOMAIN t, s[i] \in Nat, s[i] < t[i], \A j \in 1 .. i - 1 : s[j] = t[j]
  PROVE  Below(s, t)
BY DEF Below

\* What the stage has left, written out.
LEMMA IterationsLeftAre ==
  /\ DOMAIN IterationsLeft = 1 .. 6
  /\ IterationsLeft[1] = (IF stage = "over" THEN 0 ELSE 1)
  /\ IterationsLeft[2] = MaxIterations + 1 - iteration
  /\ IterationsLeft[3] = StagesLeft[stage]
  /\ IterationsLeft[4] = MaxRepairs - round
  /\ IterationsLeft[5] = MaxTurns - turn
  /\ IterationsLeft[6] = (IF currentTurnCalls THEN 0 ELSE 1)
BY DEF IterationsLeft

\* The end of the stage, the next iteration, a later stage of one and a round
\* of repair are below.
LEMMA OverIsBelow == stage # "over" /\ stage' = "over" => Below(IterationsLeft', IterationsLeft)
<1> SUFFICES ASSUME stage # "over", stage' = "over" PROVE Below(IterationsLeft', IterationsLeft)
  OBVIOUS
<1>1. IterationsLeft'[1] = 0 /\ IterationsLeft[1] = 1
  BY DEF IterationsLeft
<1> QED
  BY <1>1, IterationsLeftAre, BelowAt

LEMMA NextIterationIsBelow ==
  ASSUME Typed, Within, stage \in {"plan", "execute", "repair"}, NextIteration
  PROVE  Below(IterationsLeft', IterationsLeft)
<1>1. iteration \in Nat /\ iteration <= MaxIterations /\ iteration' = iteration + 1 /\ stage' = "start"
  BY DEF Typed, TypeOK, Within, NextIteration
<1>2. MaxIterations + 1 - iteration' \in Nat /\ MaxIterations + 1 - iteration' < MaxIterations + 1 - iteration
  BY <1>1
<1>3. /\ IterationsLeft'[2] = MaxIterations + 1 - iteration'
      /\ IterationsLeft[2] = MaxIterations + 1 - iteration
      /\ \A j \in 1 .. 1 : IterationsLeft'[j] = IterationsLeft[j]
  BY <1>1 DEF IterationsLeft
<1> QED
  BY <1>2, <1>3, IterationsLeftAre, BelowAt

LEMMA LaterStageIsBelow ==
  ASSUME Typed, Typed', stage # "over", stage' # "over", iteration' = iteration,
         StagesLeft[stage'] < StagesLeft[stage]
  PROVE  Below(IterationsLeft', IterationsLeft)
<1>1. stage' \in {"start", "plan", "execute", "repair", "critic", "over"}
  BY DEF Typed, TypeOK
<1>2. StagesLeft[stage'] \in Nat
  BY <1>1 DEF StagesLeft
<1>3. /\ IterationsLeft'[3] = StagesLeft[stage'] /\ IterationsLeft[3] = StagesLeft[stage]
      /\ \A j \in 1 .. 2 : IterationsLeft'[j] = IterationsLeft[j]
  BY DEF IterationsLeft, StagesLeft
<1> QED
  BY <1>2, <1>3, IterationsLeftAre, BelowAt

LEMMA RepairIsBelow ==
  ASSUME Typed, stage = "repair", round < MaxRepairs, NEW files, StillRed(files)
  PROVE  Below(IterationsLeft', IterationsLeft)
<1>1. round \in Nat /\ round' = round + 1 /\ stage' = stage /\ iteration' = iteration
  BY DEF Typed, TypeOK, StillRed
<1>2. /\ IterationsLeft'[4] = MaxRepairs - round' /\ IterationsLeft[4] = MaxRepairs - round
      /\ \A j \in 1 .. 3 : IterationsLeft'[j] = IterationsLeft[j]
  BY <1>1 DEF IterationsLeft, StagesLeft
<1>3. MaxRepairs - round' \in Nat /\ MaxRepairs - round' < MaxRepairs - round
  BY <1>1
<1> QED
  BY <1>2, <1>3, IterationsLeftAre, BelowAt

-----------------------------------------------------------------------------
(* Within a turn: the calls.                                               *)

\* What the loop keeps while the executor works.
Kept == UNCHANGED <<stage, iteration, round>>

\* How a call goes on: it begins, it moves from its work to its push, it ends.
Onward(s, call) ==
  \/ inFlight[s] = Idle /\ ~currentTurnCalls /\ call # Idle
  \/ inFlight[s] # Idle /\ inFlight[s].stage = "run" /\ call # Idle /\ call.stage # "run"
  \/ inFlight[s] # Idle /\ currentTurnCalls /\ call = Idle

\* A call that goes on leaves the others where they are.
LEMMA CallGoesOn ==
  ASSUME TypeOKRegistry, Kept, UNCHANGED <<turn, currentTurnCalls>>,
         NEW s \in Slot, NEW call, inFlight' = [inFlight EXCEPT ![s] = call],
         Onward(s, call)
  PROVE  IterationsLeft' = IterationsLeft /\ CallsGoOn
<1>1. IterationsLeft' = IterationsLeft
  BY DEF Kept, IterationsLeft, StagesLeft
<1>2. inFlight'[s] = call /\ \A w \in Slot : w # s => inFlight'[w] = inFlight[w]
  BY DEF TypeOKRegistry
<1>3. \A w \in Slot : w # s => StepsLeft(w)' = StepsLeft(w)
  BY <1>2 DEF StepsLeft
<1>4. \A w \in Slot : StepsLeft(w) \in 0 .. 3 /\ StepsLeft(w)' \in 0 .. 3
  BY DEF StepsLeft
<1>5. StepsLeft(s)' < StepsLeft(s)
  BY <1>2 DEF Onward, StepsLeft
<1> QED
  BY <1>1, <1>3, <1>4, <1>5 DEF CallsGoOn

\* A call is dispatched before any of its turn has finished.
LEMMA DispatchGoesOn ==
  ASSUME TypeOKRegistry, Kept, NEW s \in Slot, NEW call \in Call, Dispatch(s, call)
  PROVE  IterationsLeft' = IterationsLeft /\ CallsGoOn
<1>1. /\ inFlight[s] = Idle /\ ~currentTurnCalls /\ call # Idle
      /\ inFlight' = [inFlight EXCEPT ![s] = call] /\ UNCHANGED <<turn, currentTurnCalls>>
  BY DEF Dispatch, EnforceGuards
<1> QED
  BY <1>1, CallGoesOn DEF Onward

\* The first of a turn that finishes ends the dispatching.
LEMMA FinishIsBelow ==
  ASSUME TypeOKRegistry, Kept, NEW s \in Slot, inFlight[s] # Idle, NEW tool, Finish(s, tool)
  PROVE  \/ Below(IterationsLeft', IterationsLeft)
         \/ IterationsLeft' = IterationsLeft /\ CallsGoOn
<1>1. /\ inFlight' = [inFlight EXCEPT ![s] = Idle] /\ currentTurnCalls' = TRUE /\ turn' = turn
  BY DEF Finish
<1>2. CASE currentTurnCalls
  <2>1. currentTurnCalls' = currentTurnCalls
    BY <1>1, <1>2 DEF TypeOKRegistry
  <2> QED
    BY <1>1, <1>2, <2>1, CallGoesOn DEF Onward
<1>3. CASE ~currentTurnCalls
  <2>1. IterationsLeft'[6] = 0 /\ IterationsLeft[6] = 1
    BY <1>1, <1>3 DEF IterationsLeft
  <2>2. \A j \in 1 .. 5 : IterationsLeft'[j] = IterationsLeft[j]
    BY <1>1 DEF IterationsLeft, Kept, StagesLeft
  <2> QED
    BY <2>1, <2>2, IterationsLeftAre, BelowAt
<1> QED
  BY <1>2, <1>3

\* So does every step of a call in flight.
LEMMA WorkGoesOn ==
  ASSUME Typed, Kept, NEW s \in Slot, Work(s)
  PROVE  \/ Below(IterationsLeft', IterationsLeft)
         \/ IterationsLeft' = IterationsLeft /\ CallsGoOn
<1>1. TypeOKRegistry /\ inFlight[s] # Idle /\ inFlight[s] \in Call
  BY DEF Typed, TypeOK, TypeOKRegistry, Work
<1>2. CASE Commit(s, inFlight[s])
  <2> PICK n : n = commits + 1
    OBVIOUS
  <2> PICK call : call = [inFlight[s] EXCEPT !.stage = "push", !.sha = n]
    OBVIOUS
  <2>1. inFlight[s].stage = "run" /\ Progress(s, call)
    BY <1>2 DEF Commit
  <2>2. n \in Nat
    BY DEF Typed, TypeOK
  <2>3. call.stage = "push" /\ call \in Call
    BY <1>1, <2>2 DEF Call
  <2>4. inFlight' = [inFlight EXCEPT ![s] = call] /\ UNCHANGED <<turn, currentTurnCalls>>
    BY <2>1 DEF Progress
  <2> QED
    BY <1>1, <2>1, <2>3, <2>4, CallGoesOn DEF Onward
<1>3. ASSUME NEW call, Record(s, call)
      PROVE  \/ Below(IterationsLeft', IterationsLeft)
             \/ IterationsLeft' = IterationsLeft /\ CallsGoOn
  BY <1>1, <1>3, FinishIsBelow DEF Record
<1> QED
  BY <1>2, <1>3 DEF Work, RevertFile, NothingToCommit, Push, RunSandbox

\* And every step of the executor.
LEMMA ExecutorGoesOn ==
  ASSUME Typed, Executor
  PROVE  \/ Below(IterationsLeft', IterationsLeft)
         \/ IterationsLeft' = IterationsLeft /\ CallsGoOn
<1>1. TypeOKRegistry /\ Kept
  BY DEF Typed, TypeOK, Executor, repair, Kept
<1>2. ASSUME NEW s \in Slot, NEW tool \in FixTools, NEW f \in File \cup {NoFile},
             NEW step \in {"run", "push", "end"}, NEW ok \in BOOLEAN,
             Dispatch(s, CallOf(tool, f, step, ok))
      PROVE  IterationsLeft' = IterationsLeft /\ CallsGoOn
  BY <1>1, <1>2, Calls, DispatchGoesOn
<1>3. CASE \E s \in Slot, f \in File : ApplyPatch(s, f) \/ WriteTest(s, f) \/ Start(s, "revert_file", f)
  BY <1>2, <1>3 DEF ApplyPatch, WriteTest, Start, FixTools, Mutations
<1>4. CASE \E s \in Slot, tool \in Sandbox \cup {"commit_and_push"} : Start(s, tool, NoFile)
  BY <1>2, <1>4 DEF Start, FixTools, Sandbox
<1>5. CASE \E s \in Slot, tool \in {"done", "abandon"} : Terminal(s, tool)
  BY <1>2, <1>5 DEF Terminal, FixTools
<1>6. CASE \E s \in Slot : Work(s)
  BY <1>1, <1>6, WorkGoesOn
<1>7. CASE BeginTurn
  <2>1. turn \in Nat /\ turn < MaxTurns /\ turn' = turn + 1
    BY <1>1, <1>7 DEF TypeOKRegistry, BeginTurn
  <2>2. MaxTurns - turn' \in Nat /\ MaxTurns - turn' < MaxTurns - turn
    BY <2>1
  <2>3. /\ IterationsLeft'[5] = MaxTurns - turn' /\ IterationsLeft[5] = MaxTurns - turn
        /\ \A j \in 1 .. 4 : IterationsLeft'[j] = IterationsLeft[j]
    BY <1>1 DEF IterationsLeft, Kept, StagesLeft
  <2> QED
    BY <2>2, <2>3, IterationsLeftAre, BelowAt
<1> QED
  BY <1>3, <1>4, <1>5, <1>6, <1>7 DEF Executor

\* No failure, retry or repair gives the stage back what it has used up, for any
\* number of iterations, of rounds of repair, of turns and of concurrent calls.
THEOREM EveryIterationCosts == Spec => NoIterationForFree
<1>1. Init => Typed /\ Within
  BY InitTyped DEF Init, Within
<1>2. Typed /\ Within /\ [Next]_vars => (Typed /\ Within)'
  BY StepTyped, WithinStep
<1>3. ASSUME Typed, Typed', Within, [Next]_vars
      PROVE  [\/ Below(IterationsLeft', IterationsLeft)
              \/ IterationsLeft' = IterationsLeft /\ CallsGoOn]_vars
  <2>1. CASE Executor
    BY <1>3, <2>1, ExecutorGoesOn
  <2>2. CASE OutOfIterations \/ RepairThrows \/ Verdict
    BY <2>2, OverIsBelow DEF OutOfIterations, RepairThrows, Verdict
  <2>3. CASE Begin \/ Planned
    BY <1>3, <2>3, LaterStageIsBelow DEF Begin, Planned, StagesLeft
  <2>4. CASE NoNotesOrPlan \/ ExecutorFailed \/ RepairGivesUp
    BY <1>3, <2>4, NextIterationIsBelow DEF NoNotesOrPlan, ExecutorFailed, RepairGivesUp
  <2>5. CASE ExecutorDone
    <3>1. CASE NextIteration
      BY <1>3, <2>5, <3>1, NextIterationIsBelow DEF ExecutorDone
    <3>2. CASE stage' \in {"repair", "critic"} /\ iteration' = iteration
      BY <1>3, <2>5, <3>2, LaterStageIsBelow DEF ExecutorDone, StagesLeft
    <3> QED
      BY <2>5, <3>1, <3>2 DEF ExecutorDone, Win
  <2>6. CASE RepairRound
    <3> PICK files \in SUBSET File : StillRed(files) \/ RepairedGreen(files)
      BY <2>6 DEF RepairRound
    <3>1. CASE StillRed(files)
      BY <1>3, <2>6, <3>1, RepairIsBelow DEF RepairRound
    <3>2. CASE NextIteration
      BY <1>3, <2>6, <3>2, NextIterationIsBelow DEF RepairRound
    <3>3. CASE stage' = "critic" /\ iteration' = iteration
      BY <1>3, <2>6, <3>3, LaterStageIsBelow DEF RepairRound, StagesLeft
    <3> QED
      BY <3>1, <3>2, <3>3 DEF RepairedGreen, Win
  <2>7. CASE UNCHANGED vars
    BY <2>7
  <2> QED
    BY <1>3, <2>1, <2>2, <2>3, <2>4, <2>5, <2>6, <2>7 DEF Next
<1> QED
  BY <1>1, <1>2, <1>3, PTL DEF Spec, NoIterationForFree
=============================================================================
