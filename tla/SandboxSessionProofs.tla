------------------------ MODULE SandboxSessionProofs ------------------------
(***************************************************************************)
(* What a call reads, for any number of sessions, calls and runs and any    *)
(* clock: the run it started, of the code and packages it was owed.         *)
(***************************************************************************)
EXTENDS SandboxSession, TLAPS

USE SandboxAssumption

\* Cutting a time to its second does not advance it.
LEMMA SecondBefore ==
  ASSUME NEW t \in Nat
  PROVE  SecondOf(t) \in Int /\ SecondOf(t) <= t
<1>1. t % TicksPerSecond \in 0..(TicksPerSecond - 1)
  OBVIOUS
<1> QED
  BY <1>1 DEF SecondOf

\* What was reported as flushed is on the branch.
FlushedBelow == \A s \in Session : flushed[s] <= remote[s]

Typed == TypeOK /\ FlushedBelow

\* An idle call is well typed.
LEMMA IdleTyped == 0 \in Code /\ Idle \in CallState
<1>1. 0 \in Code
  BY DEF Code
<1>2. Idle.kind \in Kind /\ Idle.at \in Open \cup Ended \cup {"idle"}
  BY DEF Idle, Kind, Recipe
<1>3. Idle.owed \in [code : Code, pkgs : SUBSET Pkg]
  BY <1>1 DEF Idle
<1> QED
  BY <1>1, <1>2, <1>3 DEF Idle, CallState

\* What is compared are numbers.
LEMMA Numbers ==
  ASSUME TypeOK
  PROVE  /\ now \in Int /\ RunWait \in Nat
         /\ \A s \in Session : flushed[s] \in Int /\ remote[s] \in Int
         /\ \A r \in RunId : runs[r] # NoRun => runs[r] \in Run /\ runs[r].created \in Int
<1>1. now \in Nat /\ RunWait \in Nat
  BY DEF TypeOK
<1>2. ASSUME NEW s \in Session PROVE flushed[s] \in Int /\ remote[s] \in Int
  <2>1. flushed[s] \in Code /\ remote[s] \in Code
    BY DEF TypeOK
  <2> QED
    BY <2>1 DEF Code
<1>3. ASSUME NEW r \in RunId, runs[r] # NoRun PROVE runs[r] \in Run /\ runs[r].created \in Int
  <2>1. runs[r] \in Run
    BY <1>3 DEF TypeOK
  <2> QED
    BY <2>1 DEF Run
<1> QED
  BY <1>1, <1>2, <1>3

\* A session starts well typed.
LEMMA InitTyped == Init => Typed
<1> SUFFICES ASSUME Init PROVE Typed
  OBVIOUS
<1> QED
  BY IdleTyped DEF Init, Typed, TypeOK, FlushedBelow

\* A call is of a kind.
LEMMA KindTyped == ASSUME TypeOK, NEW c \in Call PROVE call[c] \in CallState /\ KindOf(c) \in Kind
<1>1. call[c] \in CallState
  BY DEF TypeOK
<1> QED
  BY <1>1 DEF CallState, KindOf

\* A call that ends keeps its type.
LEMMA AfterTyped ==
  ASSUME TypeOK, NEW c \in Call, NEW how \in Ended
  PROVE  After(c, how) \in CallState
<1>1. KindOf(c) \in Kind
  BY KindTyped
<1>2. Idle \in CallState
  BY IdleTyped
<1>3. [Idle EXCEPT !.at = how, !.kind = KindOf(c)] \in CallState
  BY <1>1, <1>2 DEF CallState
<1> QED
  BY <1>2, <1>3 DEF After

\* A call that is dropped keeps its type.
LEMMA DropTyped ==
  ASSUME TypeOK, NEW c \in Call, NEW how \in Ended, Drop(c, how)
  PROVE  call' \in [Call -> CallState]
BY AfterTyped DEF Drop, TypeOK

\* A call that goes on keeps its type.
LEMMA GotoTyped ==
  ASSUME TypeOK, NEW c \in Call, NEW place \in Open, Goto(c, place)
  PROVE  call' \in [Call -> CallState]
<1>1. call[c] \in CallState
  BY DEF TypeOK
<1>2. [call[c] EXCEPT !.at = place] \in CallState
  BY <1>1 DEF CallState
<1>3. call' = [call EXCEPT ![c] = [call[c] EXCEPT !.at = place]]
  BY DEF Goto, TypeOK
<1> QED
  BY <1>2, <1>3 DEF TypeOK

\* A result of a phase is recorded as one.
LEMMA RecordTyped ==
  ASSUME TypeOK, NEW s \in Session, NEW p \in {"branch", "workflow"},
         NEW result \in {"ok", "failed"}, Record(s, p, result)
  PROVE  phase' \in [Session -> [{"branch", "workflow"} -> {"none", "ok", "failed"}]]
BY DEF Record, TypeOK

\* One step keeps the types, and nothing is reported that was not flushed.
LEMMA NextTyped == Typed /\ [Next]_vars => Typed'
<1> SUFFICES ASSUME Typed, [Next]_vars PROVE Typed'
  OBVIOUS
<1> USE DEF Typed, FlushedBelow
<1>a. TypeOK /\ 0 \in Code /\ \A c \in Call : c[1] \in Session
  BY DEF Code, Call
<1>1. ASSUME NEW c \in Call, NEW k \in Kind, NEW ps \in SUBSET Pkg, Begin(c, k, ps) PROVE Typed'
  <2>1. FirstStep(c[1], k) \in Open
    BY DEF FirstStep, Open
  <2>2. Idle \in CallState /\ [code |-> flushed[c[1]], pkgs |-> installs[c[1]]] \in [code : Code, pkgs : SUBSET Pkg]
    BY <1>a, IdleTyped DEF TypeOK
  <2>3. [Idle EXCEPT !.at = FirstStep(c[1], k), !.kind = k, !.pkgs = ps,
                     !.owed = [code |-> flushed[c[1]], pkgs |-> installs[c[1]]]] \in CallState
    BY <2>1, <2>2 DEF CallState
  <2> QED
    BY <1>a, <1>1, <2>3 DEF Begin, TypeOK
<1>2. ASSUME NEW c \in Call, VerifyBranch(c) PROVE Typed'
  <2>0. c[1] \in Session /\ "probe" \in Open /\ "failed" \in Ended
    BY <1>a DEF Open, Ended
  <2>1. phase' \in [Session -> [{"branch", "workflow"} -> {"none", "ok", "failed"}]]
    <3>1. \/ UNCHANGED phase \/ Record(c[1], "branch", "ok") \/ Record(c[1], "branch", "failed")
      BY <1>2 DEF VerifyBranch
    <3> QED
      BY <2>0, <3>1, <1>a, RecordTyped DEF TypeOK
  <2>2. call' \in [Call -> CallState]
    <3>1. Goto(c, "probe") \/ Drop(c, "failed")
      BY <1>2 DEF VerifyBranch
    <3> QED
      BY <2>0, <3>1, <1>a, DropTyped, GotoTyped
  <2> QED
    BY <1>2, <2>1, <2>2 DEF VerifyBranch, TypeOK
<1>3. ASSUME NEW c \in Call, VerifyWorkflow(c) PROVE Typed'
  <2>0. c[1] \in Session /\ "assert" \in Open /\ "failed" \in Ended
    BY <1>a DEF Open, Ended
  <2>1. phase' \in [Session -> [{"branch", "workflow"} -> {"none", "ok", "failed"}]]
    <3>1. Record(c[1], "workflow", "ok") \/ Record(c[1], "workflow", "failed")
      BY <1>3 DEF VerifyWorkflow
    <3> QED
      BY <2>0, <3>1, <1>a, RecordTyped
  <2>2. call' \in [Call -> CallState]
    <3>1. Goto(c, "assert") \/ Drop(c, "failed")
      BY <1>3 DEF VerifyWorkflow
    <3> QED
      BY <2>0, <3>1, <1>a, DropTyped, GotoTyped
  <2>3. ready' \in [Session -> BOOLEAN]
    <3>1. \/ UNCHANGED ready
          \/ ready' = [ready EXCEPT ![c[1]] = @ \/ KindOf(c) \in Recipe]
      BY <1>3 DEF VerifyWorkflow
    <3> QED
      BY <2>0, <3>1, <1>a DEF TypeOK
  <2> QED
    BY <1>3, <2>1, <2>2, <2>3 DEF VerifyWorkflow, TypeOK
<1>4. ASSUME NEW c \in Call, Prepare(c) PROVE Typed'
  <2>1. Batch(c) \in SUBSET Pkg
    <3>1. call[c].pkgs \in SUBSET Pkg
      BY <1>a, KindTyped DEF CallState
    <3> QED
      BY <1>a, <3>1 DEF Batch, TypeOK
  <2>2. call' \in [Call -> CallState]
    <3>1. CASE Drop(c, "failed")
      BY <1>a, <3>1, DropTyped DEF Ended
    <3>2. CASE call' = [call EXCEPT ![c].at = "posting", ![c].cutoff = now,
                                    ![c].pkgs = Batch(c), ![c].alone = TRUE]
      <4>1. call[c] \in CallState /\ now \in Nat
        BY <1>a DEF TypeOK
      <4>2. [call[c] EXCEPT !.at = "posting", !.cutoff = now, !.pkgs = Batch(c), !.alone = TRUE]
              \in CallState
        BY <2>1, <4>1 DEF CallState, Open
      <4>3. call' = [call EXCEPT ![c] =
              [call[c] EXCEPT !.at = "posting", !.cutoff = now, !.pkgs = Batch(c), !.alone = TRUE]]
        BY <3>2, <1>a DEF TypeOK
      <4> QED
        BY <1>a, <4>2, <4>3 DEF TypeOK
    <3> QED
      BY <1>4, <3>1, <3>2 DEF Prepare
  <2> QED
    BY <1>4, <2>2 DEF Prepare, TypeOK
<1>5. ASSUME NEW c \in Call, NEW how \in Ended, Fail(c, how) PROVE Typed'
  BY <1>a, <1>5, DropTyped DEF Fail, TypeOK
<1>6. ASSUME NEW c \in Call, NEW r \in RunId, Post(c, r) PROVE Typed'
  <2>1. NewRun(c) \in Run
    BY <1>a, SecondBefore DEF NewRun, TypeOK, CallState, KindOf, Run
  <2>2. After(c, "failed") \in CallState
    BY <1>a, AfterTyped DEF Ended
  <2>3. call' \in [Call -> CallState]
    <3> SUFFICES ASSUME NEW d \in Call PROVE call'[d] \in CallState
      BY <1>6 DEF Post
    <3>1. CASE d # c
      <4>1. call[d] \in CallState /\ (call[d].alone /\ ~Disturbs(c, d)) \in BOOLEAN
        BY <1>a, KindTyped DEF CallState
      <4>2. [call[d] EXCEPT !.alone = @ /\ ~Disturbs(c, d)] \in CallState
        BY <4>1 DEF CallState
      <4> QED
        BY <1>6, <3>1, <4>2 DEF Post
    <3>2. CASE d = c
      <4>1. call[c] \in CallState
        BY <1>a DEF TypeOK
      <4>2. [call[c] EXCEPT !.at = "listing", !.left = AppearWait, !.own = r] \in CallState
        BY <4>1 DEF CallState, Open
      <4> QED
        BY <1>6, <3>2, <4>2, <2>2 DEF Post
    <3> QED
      BY <3>1, <3>2
  <2>4. runs' \in [RunId -> Run \cup {NoRun}] /\ now' \in Nat
    <3>1. now' = now + 1 /\ runs' = [runs EXCEPT ![r] = NewRun(c)]
      BY <1>6 DEF Post
    <3>2. now \in Nat /\ runs \in [RunId -> Run \cup {NoRun}]
      BY <1>a DEF TypeOK
    <3> QED
      BY <2>1, <3>1, <3>2
  <2>5. UNCHANGED <<uses, remote, flushed, phase, ready, installs, verdict>>
    BY <1>6 DEF Post
  <2> QED
    BY <2>3, <2>4, <2>5 DEF TypeOK
<1>7. ASSUME NEW c \in Call, List(c) PROVE Typed'
  <2>1. PICK r \in RunId :
          call' = [call EXCEPT ![c].at = "waiting", ![c].run = r, ![c].left = RunWait, ![c].cutoff = 0]
    BY <1>7 DEF List, Candidates
  <2>2. [call[c] EXCEPT !.at = "waiting", !.run = r, !.left = RunWait, !.cutoff = 0] \in CallState
    <3>1. call[c] \in CallState /\ RunWait \in Nat /\ r \in RunId
      BY <1>a, KindTyped, Numbers
    <3> QED
      BY <3>1 DEF CallState, Open
  <2>3. call' = [call EXCEPT ![c] =
          [call[c] EXCEPT !.at = "waiting", !.run = r, !.left = RunWait, !.cutoff = 0]]
    BY <1>a, <2>1 DEF TypeOK
  <2>4. call' \in [Call -> CallState]
    BY <1>a, <2>2, <2>3 DEF TypeOK
  <2> QED
    BY <1>7, <2>4 DEF List, TypeOK
<1>8. ASSUME NEW c \in Call, Read(c) PROVE Typed'
  <2>1. [call[c] EXCEPT !.at = "ok", !.left = 0] \in CallState
    BY <1>a, KindTyped DEF CallState, Ended
  <2>2. call' = [call EXCEPT ![c] = [call[c] EXCEPT !.at = "ok", !.left = 0]]
    BY <1>a, <1>8 DEF Read, TypeOK
  <2>3. call' \in [Call -> CallState]
    BY <1>a, <2>1, <2>2 DEF TypeOK
  <2>4. call[c].pkgs \in SUBSET Pkg
    BY <1>a, KindTyped DEF CallState
  <2>5. installs' \in [Session -> SUBSET Pkg]
    BY <1>a, <1>8, <2>4 DEF Read, TypeOK
  <2> QED
    BY <1>8, <2>3, <2>5 DEF Read, TypeOK
<1>9. ASSUME NEW c \in Call, Return(c) PROVE Typed'
  <2>1. Idle \in CallState
    BY <1>a DEF Idle, CallState, Open, Ended, Kind, Recipe
  <2> QED
    BY <1>9, <2>1 DEF Return, TypeOK
<1>10. ASSUME NEW c \in Call, GuardThrows(c) PROVE Typed'
  BY <1>a, <1>10 DEF GuardThrows, TypeOK
<1>11. ASSUME NEW c \in Call, NEW d \in Call, GuardBegins(c, d) PROVE Typed'
  <2>1. Guarded(c[1], "fork", flushed[c[1]]) \in CallState /\ Guarded(c[1], "upstream", 0) \in CallState
    BY <1>a DEF Guarded, Idle, TypeOK, CallState, Open, Kind, Compared
  <2> QED
    BY <1>a, <1>11, <2>1 DEF GuardBegins, TypeOK
<1>12. ASSUME NEW c \in Call, NEW d \in Call, Compare(c, d) PROVE Typed'
  <2>1. Diff(c, d) \subseteq {"same", "differs"}
    BY DEF Diff
  <2> QED
    BY <1>a, <1>12, <2>1 DEF Compare, TypeOK
<1>13. ASSUME NEW s \in Session, Flush(s) PROVE Typed'
  <2>1. CASE UNCHANGED <<remote, flushed>>
    BY <1>13, <2>1 DEF Flush, TypeOK
  <2>2. CASE remote' = [remote EXCEPT ![s] = @ + 1] /\ flushed' = [flushed EXCEPT ![s] = @ + 1]
    <3>1. remote[s] \in Code /\ flushed[s] \in Code /\ flushed[s] <= remote[s] /\ remote[s] < MaxEdits
      BY <1>13 DEF Flush, TypeOK
    <3>2. remote[s] + 1 \in Code /\ flushed[s] + 1 \in Code /\ flushed[s] + 1 <= remote[s] + 1
      BY <3>1 DEF Code
    <3> QED
      BY <1>13, <2>2, <3>2 DEF Flush, TypeOK
  <2> QED
    BY <1>13, <2>1, <2>2 DEF Flush
<1>14. ASSUME NEW s \in Session, GuardFails(s) PROVE Typed'
  <2>1. phase' \in [Session -> [{"branch", "workflow"} -> {"none", "ok", "failed"}]]
    <3>1. \/ Record(s, "branch", "failed")
          \/ phase' = [phase EXCEPT ![s]["branch"] = "ok", ![s]["workflow"] = "failed"]
      BY <1>14 DEF GuardFails
    <3>2. CASE phase' = [phase EXCEPT ![s]["branch"] = "ok", ![s]["workflow"] = "failed"]
      BY <3>2 DEF TypeOK
    <3> QED
      BY <1>a, <3>1, <3>2, RecordTyped
  <2> QED
    BY <1>14, <2>1 DEF GuardFails, TypeOK
<1>15. ASSUME NEW r \in RunId, NEW e \in Exit, Job(r, e) PROVE Typed'
  <2>1. runs[r] \in Run
    BY <1>15 DEF Job, TypeOK
  <2>2. runs[r].branch # "main" => remote[runs[r].branch] \in Code
    BY <2>1 DEF TypeOK, Run
  <2>3. PICK v \in Code \cup {-1} : runs' = [runs EXCEPT ![r].exit = e, ![r].code = v]
    BY <1>a, <1>15, <2>2 DEF Job
  <2>4. [runs[r] EXCEPT !.exit = e, !.code = v] \in Run
    BY <2>1 DEF Run
  <2>5. runs' = [runs EXCEPT ![r] = [runs[r] EXCEPT !.exit = e, !.code = v]]
    BY <2>3 DEF TypeOK
  <2>6. runs' \in [RunId -> Run \cup {NoRun}]
    BY <2>4, <2>5 DEF TypeOK
  <2> QED
    BY <1>15, <2>6 DEF Job, TypeOK
<1>16. CASE Tick
  <2>1. call' \in [Call -> CallState]
    <3> SUFFICES ASSUME NEW c \in Call PROVE call'[c] \in CallState
      BY <1>16 DEF Tick
    <3>1. call[c] \in CallState
      BY DEF TypeOK
    <3>2. call'[c] = [call[c] EXCEPT !.left = IF @ > 0 THEN @ - 1 ELSE 0]
      BY <1>16 DEF Tick
    <3> QED
      BY <3>1, <3>2 DEF CallState
  <2>2. now' \in Nat
    <3>1. now \in Nat
      BY <1>a DEF TypeOK
    <3> QED
      BY <1>16, <3>1 DEF Tick
  <2> QED
    BY <1>16, <2>1, <2>2 DEF Tick, TypeOK
<1>17. CASE UNCHANGED vars
  BY <1>17 DEF vars, TypeOK
<1> QED
  BY <1>1, <1>2, <1>3, <1>4, <1>5, <1>6, <1>7, <1>8, <1>9, <1>10, <1>11, <1>12, <1>13,
     <1>14, <1>15, <1>16, <1>17
  DEF Next, CallStep, PostFails, ListEnds, PollEnds, PollThrows, ReadFails, Ended

\* Every value keeps its type, whatever GitHub answers.
THEOREM TypeCorrect == Spec => []TypeOK
<1>1. Typed => TypeOK
  BY DEF Typed
<1> QED
  BY <1>1, InitTyped, NextTyped, PTL DEF Spec

-----------------------------------------------------------------------------
(* What a call finds, and what is owed to it.                               *)

\* The clock has moved on since a run was created.
Created == \A r \in RunId : runs[r] # NoRun => runs[r].created < now

\* A call that is alone and has not found its run sees no other.
MineOf(c) ==
  At(c) \in {"posting", "listing"} /\ call[c].alone =>
    \A r \in Candidates(c) : At(c) = "listing" /\ r = call[c].own

FoundOf(c) == At(c) \in {"waiting", "ok"} /\ call[c].alone => call[c].run = call[c].own

\* What is owed to a call goes with it: into the session until the batch is put
\* together, into the batch until it is sent, then into the run.
OwedOf(c) ==
  KindOf(c) \in Recipe =>
    /\ At(c) \in Open \cup {"ok"} => call[c].owed.code <= flushed[c[1]]
    /\ At(c) \in {"begin", "probe", "assert"} => call[c].owed.pkgs \subseteq installs[c[1]]
    /\ At(c) = "posting" => call[c].owed.pkgs \subseteq call[c].pkgs
    /\ At(c) \in {"listing", "waiting", "ok"} =>
         /\ call[c].own \in RunId /\ runs[call[c].own] # NoRun
         /\ runs[call[c].own].branch = c[1]
         /\ call[c].owed.pkgs \subseteq runs[call[c].own].pkgs
         /\ \/ runs[call[c].own].code = -1
            \/ runs[call[c].own].code >= call[c].owed.code

Fine(c) == MineOf(c) /\ FoundOf(c) /\ OwedOf(c)

IInv == Typed /\ Created /\ \A c \in Call : Fine(c)

\* What a step leaves of a call, of the runs and of the sessions.
Same(d) ==
  /\ call'[d].at = call[d].at /\ call'[d].kind = call[d].kind
  /\ call'[d].pkgs = call[d].pkgs /\ call'[d].cutoff = call[d].cutoff
  /\ call'[d].run = call[d].run /\ call'[d].own = call[d].own
  /\ call'[d].alone = call[d].alone /\ call'[d].owed = call[d].owed

Gone(d) == call'[d].at \in {"idle", "timeout", "failed"}

Kept(r) ==
  /\ runs'[r] # NoRun <=> runs[r] # NoRun
  /\ runs[r] # NoRun =>
       /\ runs'[r].kind = runs[r].kind /\ runs'[r].created = runs[r].created
       /\ runs'[r].branch = runs[r].branch /\ runs'[r].pkgs = runs[r].pkgs
       /\ \/ runs'[r].code = runs[r].code \/ runs'[r].code = -1
          \/ runs[r].branch = "main"
          \/ runs[r].branch \in Session /\ runs'[r].code = remote[runs[r].branch]

RunsKept == \A r \in RunId : Kept(r)

Growing ==
  /\ now <= now'
  /\ \A s \in Session : flushed[s] <= flushed'[s] /\ installs[s] \subseteq installs'[s]

\* What runs contain stays bounded, if runs are kept and what is owed grows.
LEMMA FrameCreated == ASSUME Typed, Typed', Created, RunsKept, Growing PROVE Created'
<1>1. now \in Nat /\ now' \in Nat /\ \A r \in RunId : runs[r] # NoRun => runs[r].created \in Int
  BY DEF Typed, TypeOK, Run
<1> QED
  BY <1>1 DEF Created, RunsKept, Kept, Growing

\* A call nobody touches stays fine.
LEMMA FrameCall ==
  ASSUME Typed, Typed', RunsKept, Growing, NEW d \in Call, Same(d), Fine(d)
  PROVE  Fine(d)'
<1>1. d[1] \in Session
  BY DEF Call
<1>2. MineOf(d)'
  <2>1. Candidates(d)' = Candidates(d)
    BY DEF Candidates, RunsKept, Kept, Same, KindOf
  <2> QED
    BY <2>1 DEF MineOf, Fine, Same, At
<1>3. FoundOf(d)'
  BY DEF FoundOf, Fine, Same, At
<1>4. OwedOf(d)'
  <2> SUFFICES ASSUME KindOf(d) \in Recipe
               PROVE  OwedOf(d)'
    BY DEF Same, KindOf, OwedOf
  <2> DEFINE o == call[d].own
  <2>1. /\ call[d].owed.code \in Nat /\ flushed[d[1]] \in Nat /\ flushed'[d[1]] \in Nat
        /\ remote[d[1]] \in Nat /\ flushed[d[1]] <= remote[d[1]]
    <3>1. call[d] \in CallState
      BY KindTyped DEF Typed
    <3>2. call[d].owed.code \in Code
      BY <3>1 DEF CallState
    <3>3. MaxEdits \in Nat /\ flushed[d[1]] \in Code /\ remote[d[1]] \in Code
      BY <1>1 DEF Typed, TypeOK
    <3>4. flushed'[d[1]] \in Code
      BY <1>1 DEF Typed, TypeOK
    <3> QED
      BY <1>1, <3>2, <3>3, <3>4 DEF Typed, Code, FlushedBelow
  <2>2. At(d) \in Open \cup {"ok"} => call[d].owed.code <= flushed'[d[1]]
    BY <1>1, <2>1 DEF Fine, OwedOf, Growing
  <2>3. At(d) \in {"begin", "probe", "assert"} => call[d].owed.pkgs \subseteq installs'[d[1]]
    BY <1>1 DEF Fine, OwedOf, Growing
  <2>4. ASSUME At(d) \in {"listing", "waiting", "ok"}
        PROVE  /\ o \in RunId /\ runs'[o] # NoRun /\ runs'[o].branch = d[1]
               /\ call[d].owed.pkgs \subseteq runs'[o].pkgs
               /\ runs'[o].code = -1 \/ runs'[o].code >= call[d].owed.code
    <3>1. /\ o \in RunId /\ runs[o] # NoRun /\ runs[o].branch = d[1]
          /\ call[d].owed.pkgs \subseteq runs[o].pkgs
          /\ runs[o].code = -1 \/ runs[o].code >= call[d].owed.code
      BY <2>4 DEF Fine, OwedOf
    <3>2. Kept(o)
      BY <3>1 DEF RunsKept
    <3>3. runs'[o].code = remote[d[1]] => runs'[o].code >= call[d].owed.code
      BY <2>1, <2>4 DEF Fine, OwedOf, Open
    <3>4. runs[o].branch # "main"
      BY <1>1, <3>1
    <3> QED
      BY <3>1, <3>2, <3>3, <3>4 DEF Kept
  <2> QED
    BY <2>2, <2>3, <2>4 DEF Fine, OwedOf, Same, At, KindOf
<1> QED
  BY <1>2, <1>3, <1>4 DEF Fine

\* A call that has ended is fine.
LEMMA FrameGone == ASSUME NEW d \in Call, Gone(d) PROVE Fine(d)'
BY DEF Gone, Fine, MineOf, FoundOf, OwedOf, At, Open

\* Runs nobody touches are kept.
LEMMA FrameRuns == UNCHANGED runs => RunsKept
BY DEF RunsKept, Kept

\* What is owed grows if it stays.
LEMMA FrameGrowing == Typed /\ UNCHANGED <<now, flushed, installs>> => Growing
<1> SUFFICES ASSUME Typed, UNCHANGED <<now, flushed, installs>> PROVE Growing
  OBVIOUS
<1>1. now \in Int /\ \A s \in Session : flushed[s] \in Int
  BY Numbers DEF Typed
<1> QED
  BY <1>1 DEF Growing

\* A step of one call that creates no run is fine if what it leaves of that
\* call is fine.
LEMMA OneCall ==
  ASSUME IInv, Typed', RunsKept, Growing, NEW c \in Call,
         \A d \in Call \ {c} : call'[d] = call[d], Fine(c)'
  PROVE  IInv'
<1>1. Created'
  BY FrameCreated DEF IInv
<1>2. ASSUME NEW d \in Call PROVE Fine(d)'
  <2>1. CASE d = c
    BY <2>1
  <2>2. CASE d # c
    <3>1. Same(d)
      BY <2>2 DEF Same
    <3> QED
      BY <3>1, FrameCall DEF IInv
  <2> QED
    BY <2>1, <2>2
<1> QED
  BY <1>1, <1>2 DEF IInv

\* No call is in flight at the start.
LEMMA InitFine == Init => IInv
<1> SUFFICES ASSUME Init PROVE IInv
  OBVIOUS
<1>1. Typed
  BY InitTyped
<1>2. Created
  BY DEF Init, Created
<1>3. ASSUME NEW c \in Call PROVE Fine(c)
  <2>1. call[c].at = "idle"
    BY DEF Init, Idle
  <2> QED
    BY <2>1 DEF Fine, MineOf, FoundOf, OwedOf, At, Open
<1> QED
  BY <1>1, <1>2, <1>3 DEF IInv

\* Every call stays fine.
LEMMA NextFine == IInv /\ [Next]_vars => IInv'
<1> SUFFICES ASSUME IInv, [Next]_vars PROVE IInv'
  OBVIOUS
<1>t. Typed /\ TypeOK /\ Typed' /\ call \in [Call -> CallState] /\ \A c \in Call : c[1] \in Session
  BY NextTyped DEF IInv, Typed, TypeOK, Call
<1>g. UNCHANGED <<now, flushed, installs>> => Growing
  BY <1>t, FrameGrowing
<1>d. ASSUME NEW c \in Call, NEW how \in Ended \ {"ok"}, Drop(c, how),
             UNCHANGED <<now, runs, flushed, installs>>
      PROVE  IInv'
  <2>1. Gone(c)
    BY <1>t, <1>d DEF Drop, After, Idle, Gone, Ended
  <2>2. \A d \in Call \ {c} : call'[d] = call[d]
    BY <1>t, <1>d DEF Drop
  <2> QED
    BY <1>t, <1>g, <1>d, <2>1, <2>2, FrameGone, FrameRuns, OneCall
<1>1. ASSUME NEW c \in Call, NEW k \in Kind, NEW ps \in SUBSET Pkg, Begin(c, k, ps) PROVE IInv'
  <2>1. call' = [call EXCEPT ![c] = [Idle EXCEPT !.at = FirstStep(c[1], k), !.kind = k, !.pkgs = ps,
                   !.owed = [code |-> flushed[c[1]], pkgs |-> installs[c[1]]]]]
    BY <1>1 DEF Begin
  <2>2. /\ call'[c].at \in {"begin", "probe", "assert"}
        /\ call'[c].owed = [code |-> flushed[c[1]], pkgs |-> installs[c[1]]]
    BY <1>t, <2>1 DEF FirstStep, Idle
  <2>3. /\ flushed'[c[1]] = flushed[c[1]] /\ installs'[c[1]] = installs[c[1]]
        /\ flushed[c[1]] \in Int
    BY <1>1, <1>t, Numbers DEF Begin
  <2>4. Fine(c)'
    BY <2>2, <2>3 DEF Fine, MineOf, FoundOf, OwedOf, At, Open
  <2>5. \A d \in Call \ {c} : call'[d] = call[d]
    BY <1>t, <2>1
  <2> QED
    BY <1>1, <1>t, <1>g, <2>4, <2>5, FrameRuns, OneCall DEF Begin
<1>go. ASSUME NEW c \in Call, At(c) \in {"begin", "probe"}, NEW place \in {"probe", "assert"},
              Goto(c, place), UNCHANGED <<now, runs, flushed, installs>>
       PROVE  IInv'
  <2>1. call'[c] = [call[c] EXCEPT !.at = place] /\ call[c] \in CallState
    BY <1>t, <1>go DEF Goto
  <2>2. /\ call'[c].at = place /\ call'[c].kind = call[c].kind
        /\ call'[c].owed = call[c].owed
    BY <2>1 DEF CallState
  <2>3. OwedOf(c)
    BY DEF IInv, Fine
  <2>4. Fine(c)'
    BY <1>go, <2>2, <2>3 DEF Fine, MineOf, FoundOf, OwedOf, At, KindOf, Open
  <2>5. \A d \in Call \ {c} : call'[d] = call[d]
    BY <1>t, <1>go DEF Goto
  <2> QED
    BY <1>go, <1>t, <1>g, <2>4, <2>5, FrameRuns, OneCall
<1>2. ASSUME NEW c \in Call, VerifyBranch(c) PROVE IInv'
  <2>1. /\ At(c) = "begin" /\ UNCHANGED <<now, runs, flushed, installs>>
        /\ Goto(c, "probe") \/ Drop(c, "failed")
    BY <1>2 DEF VerifyBranch
  <2> QED
    BY <1>d, <1>go, <2>1 DEF Ended
<1>3. ASSUME NEW c \in Call, VerifyWorkflow(c) PROVE IInv'
  <2>1. /\ At(c) = "probe" /\ UNCHANGED <<now, runs, flushed, installs>>
        /\ Goto(c, "assert") \/ Drop(c, "failed")
    BY <1>3 DEF VerifyWorkflow
  <2> QED
    BY <1>d, <1>go, <2>1 DEF Ended
<1>4. ASSUME NEW c \in Call, Prepare(c) PROVE IInv'
  <2>0. UNCHANGED <<now, runs, flushed, installs>> /\ At(c) = "assert"
    BY <1>4 DEF Prepare
  <2>1. CASE Drop(c, "failed")
    BY <1>d, <2>0, <2>1 DEF Ended
  <2>2. CASE call' = [call EXCEPT ![c].at = "posting", ![c].cutoff = now,
                                  ![c].pkgs = Batch(c), ![c].alone = TRUE]
    <3>1. call'[c] = [call[c] EXCEPT !.at = "posting", !.cutoff = now, !.pkgs = Batch(c), !.alone = TRUE]
          /\ call[c] \in CallState
      BY <1>t, <2>2
    <3>2. /\ call'[c].at = "posting" /\ call'[c].cutoff = now /\ call'[c].pkgs = Batch(c)
          /\ call'[c].kind = call[c].kind /\ call'[c].owed = call[c].owed
      BY <3>1 DEF CallState
    <3>3. MineOf(c)'
      <4>1. Candidates(c)' = {}
        <5>1. ASSUME NEW r \in RunId, runs[r] # NoRun PROVE ~(runs[r].created >= now)
          <6>1. now \in Int /\ runs[r].created \in Int
            BY <1>t, <5>1, Numbers
          <6> QED
            BY <5>1, <6>1 DEF IInv, Created
        <5> QED
          BY <2>0, <3>2, <5>1 DEF Candidates
      <4> QED
        BY <4>1 DEF MineOf
    <3>4. OwedOf(c)'
      <4>1. OwedOf(c)
        BY DEF IInv, Fine
      <4> QED
        BY <2>0, <3>2, <4>1 DEF OwedOf, At, KindOf, Open, Batch
    <3>5. Fine(c)'
      BY <3>2, <3>3, <3>4 DEF Fine, FoundOf, At
    <3>6. \A d \in Call \ {c} : call'[d] = call[d]
      BY <1>t, <2>2
    <3> QED
      BY <1>t, <1>g, <2>0, <3>5, <3>6, FrameRuns, OneCall
  <2> QED
    BY <1>4, <2>1, <2>2 DEF Prepare
<1>6. ASSUME NEW c \in Call, NEW r \in RunId, Post(c, r) PROVE IInv'
  <2>1. /\ At(c) = "posting" /\ now < MaxTime /\ runs[r] = NoRun
        /\ now' = now + 1 /\ runs' = [runs EXCEPT ![r] = NewRun(c)]
        /\ UNCHANGED <<flushed, installs>>
    BY <1>6 DEF Post
  <2>2. /\ now \in Nat /\ NewRun(c) \in Run /\ NewRun(c).created <= now
        /\ NewRun(c).kind = KindOf(c) /\ NewRun(c).pkgs = call[c].pkgs /\ NewRun(c).code = -1
        /\ NewRun(c).branch = IF KindOf(c) = "upstream" THEN "main" ELSE c[1]
    <3>1. now \in Nat /\ call[c] \in CallState /\ KindOf(c) \in Kind
      BY <1>t, KindTyped DEF TypeOK
    <3> QED
      BY <1>t, <3>1, SecondBefore DEF NewRun, Run, CallState
  <2>3. NewRun(c) # NoRun /\ runs'[r] = NewRun(c) /\ \A q \in RunId \ {r} : runs'[q] = runs[q]
    <3>1. runs' \in [RunId -> Run \cup {NoRun}] /\ runs \in [RunId -> Run \cup {NoRun}]
      BY <1>t DEF Typed, TypeOK
    <3>2. NewRun(c) # NoRun
      BY <2>2
    <3> QED
      BY <2>1, <3>1, <3>2
  <2>4. Created'
    <3>1. \A q \in RunId : runs[q] # NoRun => runs[q].created \in Int
      BY <1>t DEF TypeOK, Run
    <3> QED
      BY <2>1, <2>2, <2>3, <3>1 DEF IInv, Created, Run
  <2>5. ASSUME NEW d \in Call, d # c PROVE Fine(d)'
    <3>1. call'[d] = [call[d] EXCEPT !.alone = @ /\ ~Disturbs(c, d)] /\ call[d] \in CallState
      BY <1>t, <1>6, <2>5 DEF Post
    <3>2. /\ call'[d].at = call[d].at /\ call'[d].kind = call[d].kind
          /\ call'[d].pkgs = call[d].pkgs /\ call'[d].cutoff = call[d].cutoff
          /\ call'[d].run = call[d].run /\ call'[d].own = call[d].own
          /\ call'[d].owed = call[d].owed
          /\ call'[d].alone => call[d].alone /\ ~Disturbs(c, d)
      BY <3>1 DEF CallState
    <3>3. Fine(d)
      BY DEF IInv
    <3>4. MineOf(d)'
      <4> SUFFICES ASSUME At(d) \in {"posting", "listing"}, call[d].alone, ~Disturbs(c, d),
                          NEW q \in RunId, q \in Candidates(d)'
                   PROVE  At(d) = "listing" /\ q = call[d].own
        BY <3>2 DEF MineOf, At, Candidates
      <4>1. Workflow(KindOf(d)) # Workflow(KindOf(c))
        BY <2>5 DEF Disturbs
      <4>2. q # r
        BY <2>2, <2>3, <3>2, <4>1 DEF Candidates, KindOf
      <4>3. q \in Candidates(d)
        BY <2>3, <3>2, <4>2 DEF Candidates, KindOf
      <4> QED
        BY <3>3, <4>3 DEF Fine, MineOf
    <3>5. FoundOf(d)'
      BY <3>2, <3>3 DEF Fine, FoundOf, At
    <3>6. OwedOf(d)'
      <4>1. OwedOf(d)
        BY <3>3 DEF Fine
      <4>2. At(d) \in {"listing", "waiting", "ok"} /\ KindOf(d) \in Recipe =>
              runs'[call[d].own] = runs[call[d].own]
        BY <2>1, <2>3, <4>1 DEF OwedOf
      <4> QED
        BY <2>1, <3>2, <4>1, <4>2 DEF OwedOf, At, KindOf
    <3> QED
      BY <3>4, <3>5, <3>6 DEF Fine
  <2>6. Fine(c)'
    <3>1. \/ call'[c] = After(c, "failed")
          \/ call'[c] = [call[c] EXCEPT !.at = "listing", !.left = AppearWait, !.own = r]
      BY <1>6 DEF Post
    <3>2. CASE call'[c] = After(c, "failed")
      <4>1. Gone(c)
        BY <3>2 DEF After, Idle, Gone
      <4> QED
        BY <4>1, FrameGone
    <3>3. CASE call'[c] = [call[c] EXCEPT !.at = "listing", !.left = AppearWait, !.own = r]
      <4>1. /\ call'[c].at = "listing" /\ call'[c].own = r /\ call'[c].kind = call[c].kind
            /\ call'[c].cutoff = call[c].cutoff /\ call'[c].alone = call[c].alone
            /\ call'[c].owed = call[c].owed
        BY <3>3, <1>t DEF CallState
      <4>2. MineOf(c) /\ OwedOf(c)
        BY DEF IInv, Fine
      <4>3. MineOf(c)'
        <5> SUFFICES ASSUME call[c].alone, NEW q \in RunId, q \in Candidates(c)', q # r
                     PROVE  FALSE
          BY <4>1 DEF MineOf, Candidates, At
        <5>1. q \in Candidates(c)
          BY <2>3, <4>1 DEF Candidates, KindOf
        <5> QED
          BY <2>1, <4>2, <5>1 DEF MineOf
      <4>4. OwedOf(c)'
        <5> SUFFICES ASSUME KindOf(c) \in Recipe PROVE OwedOf(c)'
          BY <4>1 DEF OwedOf, KindOf
        <5>1. NewRun(c).branch = c[1]
          BY <2>2 DEF Recipe
        <5>2. call[c].owed.pkgs \subseteq NewRun(c).pkgs /\ call[c].owed.code <= flushed[c[1]]
          BY <2>1, <2>2, <4>2 DEF OwedOf, Open
        <5> QED
          BY <2>1, <2>2, <2>3, <4>1, <5>1, <5>2 DEF OwedOf, At, Open
      <4>5. FoundOf(c)'
        BY <4>1 DEF FoundOf, At
      <4> QED
        BY <4>3, <4>4, <4>5 DEF Fine
    <3> QED
      BY <3>1, <3>2, <3>3
  <2> QED
    BY <1>t, <2>4, <2>5, <2>6 DEF IInv
<1>7. ASSUME NEW c \in Call, List(c) PROVE IInv'
  <2>1. PICK r \in Candidates(c) :
          call' = [call EXCEPT ![c].at = "waiting", ![c].run = r, ![c].left = RunWait, ![c].cutoff = 0]
    BY <1>7 DEF List
  <2>2. call'[c] = [call[c] EXCEPT !.at = "waiting", !.run = r, !.left = RunWait, !.cutoff = 0]
        /\ call[c] \in CallState /\ At(c) = "listing"
    BY <1>t, <1>7, <2>1 DEF List
  <2>3. /\ call'[c].at = "waiting" /\ call'[c].run = r /\ call'[c].own = call[c].own
        /\ call'[c].kind = call[c].kind /\ call'[c].alone = call[c].alone
        /\ call'[c].owed = call[c].owed
    BY <2>2 DEF CallState
  <2>4. MineOf(c) /\ OwedOf(c) /\ UNCHANGED <<now, runs, flushed, installs>>
    BY <1>7 DEF IInv, Fine, List
  <2>5. MineOf(c)' /\ FoundOf(c)'
    BY <2>2, <2>3, <2>4 DEF MineOf, FoundOf, At
  <2>6. OwedOf(c)'
    BY <2>2, <2>3, <2>4 DEF OwedOf, At, KindOf, Open
  <2>7. \A d \in Call \ {c} : call'[d] = call[d]
    BY <1>t, <2>1
  <2> QED
    BY <1>t, <1>g, <2>4, <2>5, <2>6, <2>7, FrameRuns, OneCall DEF Fine
<1>8. ASSUME NEW c \in Call, Read(c) PROVE IInv'
  <2>1. call' = [call EXCEPT ![c].at = "ok", ![c].left = 0] /\ At(c) = "waiting"
        /\ UNCHANGED <<now, runs, flushed>>
    BY <1>8 DEF Read
  <2>2. call'[c] = [call[c] EXCEPT !.at = "ok", !.left = 0] /\ call[c] \in CallState
    BY <1>t, <2>1
  <2>3. /\ call'[c].at = "ok" /\ call'[c].run = call[c].run /\ call'[c].own = call[c].own
        /\ call'[c].kind = call[c].kind /\ call'[c].alone = call[c].alone
        /\ call'[c].owed = call[c].owed
    BY <2>2 DEF CallState
  <2>4. FoundOf(c) /\ OwedOf(c)
    BY DEF IInv, Fine
  <2>5. MineOf(c)' /\ FoundOf(c)'
    BY <2>1, <2>3, <2>4 DEF MineOf, FoundOf, At
  <2>6. OwedOf(c)'
    BY <2>1, <2>3, <2>4 DEF OwedOf, At, KindOf, Open
  <2>7. \A d \in Call \ {c} : call'[d] = call[d]
    BY <1>t, <2>1
  <2>8. Growing
    <3>1. /\ now \in Int /\ \A s \in Session : flushed[s] \in Int
          /\ installs \in [Session -> SUBSET Pkg]
      BY <1>t, Numbers DEF TypeOK
    <3>2. \A s \in Session : installs[s] \subseteq installs'[s]
      BY <1>8, <3>1 DEF Read
    <3> QED
      BY <2>1, <3>1, <3>2 DEF Growing
  <2> QED
    BY <1>t, <2>1, <2>5, <2>6, <2>7, <2>8, FrameRuns, OneCall DEF Fine
<1>9. ASSUME NEW c \in Call, Return(c) PROVE IInv'
  <2>1. Gone(c) /\ \A d \in Call \ {c} : call'[d] = call[d]
    BY <1>9, <1>t DEF Return, Gone, Idle
  <2> QED
    BY <1>9, <1>t, <1>g, <2>1, FrameGone, FrameRuns, OneCall DEF Return
<1>all. ASSUME RunsKept, Growing, \A d \in Call : Same(d) PROVE IInv'
  BY <1>t, <1>all, FrameCreated, FrameCall DEF IInv
<1>q. ASSUME UNCHANGED <<now, runs, flushed, installs, call>> PROVE IInv'
  BY <1>g, <1>q, <1>all, FrameRuns DEF Same
<1>11. ASSUME NEW c \in Call, NEW d \in Call, GuardBegins(c, d) PROVE IInv'
  <2>1. /\ call' = [call EXCEPT ![c] = Guarded(c[1], "fork", flushed[c[1]]),
                                ![d] = Guarded(c[1], "upstream", 0)]
        /\ c # d /\ UNCHANGED <<now, runs, flushed, installs>>
    BY <1>11 DEF GuardBegins
  <2>2. ASSUME NEW x \in {c, d} PROVE Fine(x)'
    <3>1. /\ call'[x].at = "posting" /\ call'[x].cutoff = now
          /\ call'[x].kind \in {"fork", "upstream"}
      BY <1>t, <2>1, <2>2 DEF Guarded, Idle
    <3>2. Candidates(x)' = {}
      <4>1. ASSUME NEW r \in RunId, runs[r] # NoRun PROVE ~(runs[r].created >= now)
        <5>1. now \in Int /\ runs[r].created \in Int
          BY <1>t, <4>1, Numbers
        <5> QED
          BY <4>1, <5>1 DEF IInv, Created
      <4> QED
        BY <2>1, <3>1, <4>1 DEF Candidates
    <3> QED
      BY <3>1, <3>2 DEF Fine, MineOf, FoundOf, OwedOf, At, KindOf, Recipe
  <2>3. ASSUME NEW x \in Call \ {c, d} PROVE Fine(x)'
    <3>1. Same(x)
      BY <1>t, <2>1, <2>3 DEF Same
    <3> QED
      BY <3>1, <2>1, <1>t, <1>g, FrameCall, FrameRuns DEF IInv
  <2>4. Created'
    BY <2>1, <1>t, <1>g, FrameCreated, FrameRuns DEF IInv
  <2> QED
    BY <1>t, <2>2, <2>3, <2>4 DEF IInv
<1>13. ASSUME NEW s \in Session, Flush(s) PROVE IInv'
  <2>1. now \in Int /\ flushed \in [Session -> Code] /\ \A x \in Session : flushed[x] \in Int
    BY <1>t, Numbers DEF TypeOK
  <2>2. Growing
    BY <1>13, <2>1 DEF Flush, Growing
  <2> QED
    BY <1>13, <2>2, <1>all, FrameRuns DEF Flush, Same
<1>15. ASSUME NEW r \in RunId, NEW e \in Exit, Job(r, e) PROVE IInv'
  <2>1. runs[r] \in Run /\ runs[r] # NoRun /\ UNCHANGED <<now, flushed, installs, call>>
    BY <1>15, <1>t DEF Job, TypeOK
  <2>2. PICK v \in Code \cup {-1} :
          /\ runs' = [runs EXCEPT ![r].exit = e, ![r].code = v]
          /\ \/ v = -1
             \/ v = 0 /\ runs[r].branch = "main"
             \/ runs[r].branch # "main" /\ v = remote[runs[r].branch]
    <3>1. runs[r].branch # "main" => remote[runs[r].branch] \in Code
      BY <1>t, <2>1 DEF TypeOK, Run
    <3>2. 0 \in Code
      BY DEF Code
    <3>3. PICK cloned \in BOOLEAN :
            runs' = [runs EXCEPT ![r].exit = e,
                       ![r].code = IF ~cloned THEN -1
                                   ELSE IF runs[r].branch = "main" THEN 0
                                   ELSE remote[runs[r].branch]]
      BY <1>15 DEF Job
    <3> DEFINE w == IF ~cloned THEN -1
                    ELSE IF runs[r].branch = "main" THEN 0 ELSE remote[runs[r].branch]
    <3>4. /\ w \in Code \cup {-1}
          /\ \/ w = -1
             \/ w = 0 /\ runs[r].branch = "main"
             \/ runs[r].branch # "main" /\ w = remote[runs[r].branch]
      <4>1. CASE ~cloned
        <5>1. w = -1
          BY <4>1, Zenon
        <5> HIDE DEF w
        <5> QED
          BY <5>1
      <4>2. CASE cloned /\ runs[r].branch = "main"
        <5>1. w = 0
          BY <4>2, Zenon
        <5> HIDE DEF w
        <5> QED
          BY <3>2, <4>2, <5>1
      <4>3. CASE cloned /\ runs[r].branch # "main"
        BY <3>1, <4>3
      <4> QED
        BY <4>1, <4>2, <4>3
    <3>5. runs' = [runs EXCEPT ![r].exit = e, ![r].code = w]
      BY <3>3
    <3> HIDE DEF w
    <3> QED
      BY <3>4, <3>5
  <2>3. runs'[r] = [runs[r] EXCEPT !.exit = e, !.code = v] /\ \A q \in RunId \ {r} : runs'[q] = runs[q]
    BY <1>t, <2>2 DEF TypeOK
  <2>4. \A q \in RunId \ {r} : Kept(q)
    BY <2>3 DEF Kept
  <2>5. /\ runs'[r].kind = runs[r].kind /\ runs'[r].created = runs[r].created
        /\ runs'[r].branch = runs[r].branch /\ runs'[r].pkgs = runs[r].pkgs
        /\ runs'[r].code = v /\ runs'[r] \in Run
    BY <2>1, <2>3 DEF Run
  <2>6. Kept(r)
    BY <2>1, <2>2, <2>5 DEF Kept, Run
  <2>7. RunsKept
    BY <2>4, <2>6 DEF RunsKept
  <2> QED
    BY <2>1, <2>7, <1>g, <1>all DEF Same
<1>16. CASE Tick
  <2>1. ASSUME NEW d \in Call PROVE Same(d)
    <3>1. call[d] \in CallState /\ call'[d] = [call[d] EXCEPT !.left = IF @ > 0 THEN @ - 1 ELSE 0]
      BY <1>16, <1>t DEF Tick
    <3> QED
      BY <3>1 DEF Same, CallState
  <2>2. Growing
    BY <1>16, <1>t, Numbers DEF Tick, Growing
  <2> QED
    BY <1>16, <1>all, <2>1, <2>2, FrameRuns DEF Tick
<1>17. CASE UNCHANGED vars
  BY <1>17, <1>q DEF vars
<1>18. ASSUME NEW c \in Call, NEW d \in Call, Compare(c, d) PROVE IInv'
  BY <1>18, <1>q DEF Compare
<1>19. ASSUME NEW c \in Call, GuardThrows(c) PROVE IInv'
  BY <1>19, <1>q DEF GuardThrows
<1>20. ASSUME NEW s \in Session, GuardFails(s) PROVE IInv'
  BY <1>20, <1>q DEF GuardFails
<1>21. ASSUME NEW c \in Call, NEW how \in Ended \ {"ok"}, Fail(c, how) PROVE IInv'
  BY <1>21, <1>d DEF Fail
<1>22. {"failed", "timeout"} \subseteq Ended \ {"ok"}
  BY DEF Ended
<1>23. ASSUME NEW c \in Call, CallStep(c) \/ PollThrows(c) PROVE IInv'
  BY <1>2, <1>3, <1>4, <1>6, <1>7, <1>8, <1>21, <1>22, <1>23
  DEF CallStep, PostFails, ListEnds, PollEnds, PollThrows, ReadFails
<1> QED
  BY <1>1, <1>9, <1>11, <1>13, <1>15, <1>16, <1>17, <1>18, <1>19, <1>20, <1>23 DEF Next

\* The search for a run and the debts of a session stay as IInv says, whatever
\* GitHub lists and in which order calls interleave.
THEOREM Finding == Spec => []IInv
BY InitFine, NextFine, PTL DEF Spec

\* A call that nobody disturbed reads the run it started: listed late, given up
\* or alike, no other run is taken for it (getWorkflowRun, waitForRun).
THEOREM UndisturbedCallReadsItsRun == Spec => []OwnRun
<1>1. IInv => OwnRun
  BY DEF IInv, Fine, FoundOf, OwnRun
<1> QED
  BY <1>1, Finding, PTL

\* Such a call's result is of the flushed files and the reported installs, or
\* newer (flushWorkspaceToBranch, buildInstallReplayCommands).
THEOREM UndisturbedCallRunsWhatIsOwed == Spec => []OwedIsKept
<1>1. IInv => OwedIsKept
  BY DEF IInv, Fine, FoundOf, OwedOf, OwedIsKept
<1> QED
  BY <1>1, Finding, PTL
=============================================================================
