--------------------------- MODULE RunClaimProofs ---------------------------
(***************************************************************************)
(* Type correctness of RunClaim, and for any number of issues, processes   *)
(* and pipelines, and both backends: the exclusiveness of a claim, its     *)
(* release, and what the chain of writes leaves behind.                    *)
(***************************************************************************)
EXTENDS RunClaim, TLAPS, FiniteSetTheorems

USE DEF NoPatch

\* No step changes where runs are kept.
LEMMA BackendStep ==
  ASSUME Next PROVE backend' = backend
<1>1. ASSUME NEW p \in Proc, NEW s \in Slot, NEW rec, Save(p, s, rec) PROVE backend' = backend
  BY <1>1 DEF Save
<1>2. ASSUME NEW p \in Proc, NEW i \in Issue, Acquire(p, i) PROVE backend' = backend
  BY <1>2, StoreAssumption DEF Acquire, Refuse, Claim, Save, store
<1>3. ASSUME NEW r \in RunId, NEW o \in {"completed", "failed"}, Complete(r, o) PROVE backend' = backend
  BY <1>3 DEF Complete, Save
<1> QED
  BY <1>2, <1>3 DEF Next, Webhook, AdapterFails, FlushStart, FlushDone, FlushFail, Boot, Crash, Tick

\* Writing a record leaves the store well typed, in both backends.
LEMMA SaveType ==
  ASSUME TypeOK, NEW p \in Proc, NEW s \in Slot, NEW rec \in Record, Save(p, s, rec)
  PROVE  /\ disk' \in Table /\ cache' \in [Proc -> Table] /\ queued' \in [Proc -> Nat]
         /\ inflight' \in [Proc -> Table \cup {NoPatch}] /\ lossy' \in [Proc -> BOOLEAN]
         /\ backend' \in Backends
<1>1. CASE backend = "gist"
  <2>1. [cache[p] EXCEPT ![s] = rec] \in Table
    BY DEF TypeOK, Table
  <2>2. cache' = [cache EXCEPT ![p] = [cache[p] EXCEPT ![s] = rec]]
    BY <1>1 DEF Save, TypeOK
  <2> QED
    BY <1>1, <2>1, <2>2 DEF TypeOK, Save
<1>2. CASE backend # "gist"
  BY <1>2 DEF TypeOK, Save, Table
<1> QED
  BY <1>1, <1>2

\* What completeRun writes is a record.
LEMMA CompletedType ==
  ASSUME TypeOK, NEW rec \in Record \cup {NoRecord}, NEW outcome \in {"completed", "failed"}
  PROVE  Completed(rec, outcome) \in Record
  BY DEF TypeOK, Completed, Record, Id

\* What a process reads is a record or nothing.
LEMMA LoadType ==
  ASSUME TypeOK, NEW p \in Proc, NEW s \in Slot
  PROVE  Load(p, s) \in Record \cup {NoRecord}
  BY DEF TypeOK, Load, Table

\* Claiming an issue keeps every variable in its type.
LEMMA AcquireType ==
  ASSUME TypeOK, NEW p \in Proc, NEW i \in Issue, Acquire(p, i)
  PROVE  TypeOK'
<1>0. RepoOf[i] \in Repo
  BY StoreAssumption
<1>1. CASE Refuse(p, i)
  BY <1>0, <1>1 DEF TypeOK, Acquire, Refuse, store
<1>2. ASSUME NEW r \in RunId, Claim(p, i, r) PROVE TypeOK'
  <2>1. SafeKey[i] \in Slot
    BY StoreAssumption
  <2> DEFINE rec == [status |-> "running", inst |-> InstanceId[p], updatedAt |-> now, run |-> r]
  <2>2. rec \in Record
    BY DEF TypeOK, Record, Id
  <2>3. Save(p, SafeKey[i], rec)
    BY <1>2 DEF Claim
  <2> HIDE DEF rec
  <2>4. /\ disk' \in Table /\ cache' \in [Proc -> Table] /\ queued' \in [Proc -> Nat]
        /\ inflight' \in [Proc -> Table \cup {NoPatch}] /\ lossy' \in [Proc -> BOOLEAN]
        /\ backend' \in Backends
    BY <2>1, <2>2, <2>3, SaveType
  <2> DEFINE run == [st |-> "live", issue |-> i, proc |-> p, started |-> now, ended |-> now]
  <2>5. run \in Run
    BY DEF TypeOK, Run
  <2>6. runs' = [runs EXCEPT ![r] = run]
    BY <1>2 DEF Claim
  <2> HIDE DEF run
  <2>7. runs' \in [RunId -> Run \cup {Free}]
    BY <2>5, <2>6 DEF TypeOK
  <2>8. /\ loading' \in [Proc -> [Issue -> Nat]] /\ manifest' \subseteq Repo
        /\ UNCHANGED <<now, up, booted>>
    BY <1>0, <1>2 DEF TypeOK, Acquire, Claim
  <2> QED
    BY <2>4, <2>7, <2>8 DEF TypeOK
<1> QED
  BY <1>1, <1>2 DEF Acquire

\* Ending a pipeline keeps every variable in its type.
LEMMA CompleteType ==
  ASSUME TypeOK, NEW r \in RunId, NEW outcome \in {"completed", "failed"}, Complete(r, outcome)
  PROVE  TypeOK'
<1>1. runs[r] \in Run
  BY DEF TypeOK, Complete, IsLive, Free
<1> DEFINE p == runs[r].proc
           s == SafeKey[runs[r].issue]
<1>2. p \in Proc /\ s \in Slot
  BY <1>1, StoreAssumption DEF Run
<1>3. Completed(Load(p, s), outcome) \in Record
  BY <1>2, LoadType, CompletedType
<1>4. Save(p, s, Completed(Load(p, s), outcome))
  BY DEF Complete
<1>5. /\ disk' \in Table /\ cache' \in [Proc -> Table] /\ queued' \in [Proc -> Nat]
      /\ inflight' \in [Proc -> Table \cup {NoPatch}] /\ lossy' \in [Proc -> BOOLEAN]
      /\ backend' \in Backends
  <2> HIDE DEF p, s
  <2> QED BY <1>2, <1>3, <1>4, SaveType
<1>6. runs' = [runs EXCEPT ![r] = [[runs[r] EXCEPT !.st = outcome] EXCEPT !.ended = now]]
  BY DEF TypeOK, Complete
<1>7. runs' \in [RunId -> Run \cup {Free}]
  BY <1>1, <1>6 DEF TypeOK, Run
<1> QED
  BY <1>5, <1>7 DEF TypeOK, Complete

\* Pruning at boot yields a table again.
LEMMA PrunedType ==
  ASSUME NEW t \in Table PROVE Pruned(t) \in Table
  BY DEF Table, Pruned

\* A crash and a boot keep every variable in its type.
LEMMA LifeType ==
  ASSUME TypeOK, NEW p \in Proc, Boot(p) \/ Crash(p)
  PROVE  TypeOK'
<1>1. CASE Crash(p)
  <2>1. runs' \in [RunId -> Run \cup {Free}]
    <3> SUFFICES ASSUME NEW r \in RunId
                 PROVE  (IF IsLive(r) /\ runs[r].proc = p
                           THEN [runs[r] EXCEPT !.st = "lost", !.ended = now]
                           ELSE runs[r]) \in Run \cup {Free}
      BY <1>1 DEF Crash
    <3>1. runs[r] \in Run \cup {Free}
      BY DEF TypeOK
    <3>2. CASE runs[r] \in Run
      BY <3>2 DEF TypeOK, Run
    <3> QED
      BY <3>1, <3>2 DEF Free, IsLive
  <2>2. EmptyTable \in Table
    BY DEF EmptyTable, Table
  <2> QED
    BY <1>1, <2>1, <2>2 DEF TypeOK, Crash
<1>2. CASE Boot(p)
  <2>1. Cardinality({s \in Slot : Prunable(disk[s])}) \in Nat
    BY StoreAssumption, FS_Subset, FS_CardinalityType
  <2> DEFINE n == Cardinality({s \in Slot : Prunable(disk[s])})
             t == Pruned(disk)
  <2>2. t \in Table
    BY PrunedType DEF TypeOK
  <2> SUFFICES disk' \in Table /\ cache' \in [Proc -> Table] /\ queued' \in [Proc -> Nat]
    BY <1>2 DEF TypeOK, Boot
  <2>3. IF backend = "gist"
          THEN /\ cache' = [cache EXCEPT ![p] = t]
               /\ queued' = [queued EXCEPT ![p] = n]
               /\ UNCHANGED disk
          ELSE /\ disk' = t
               /\ UNCHANGED <<cache, queued>>
    BY <1>2 DEF Boot
  <2> HIDE DEF n, t
  <2> QED
    BY <2>1, <2>2, <2>3 DEF TypeOK, n
<1> QED
  BY <1>1, <1>2

\* One step keeps every variable in its type.
LEMMA TypeStep ==
  ASSUME TypeOK, Next PROVE TypeOK'
<1>2. ASSUME NEW p \in Proc, NEW i \in Issue, NEW e \in Event, Webhook(p, i, e) PROVE TypeOK'
  BY <1>2 DEF TypeOK, Webhook
<1>3. ASSUME NEW p \in Proc, NEW i \in Issue, AdapterFails(p, i) PROVE TypeOK'
  BY <1>3 DEF TypeOK, AdapterFails
<1>4. ASSUME NEW p \in Proc, NEW i \in Issue, Acquire(p, i) PROVE TypeOK'
  BY <1>4, AcquireType
<1>5. ASSUME NEW r \in RunId, NEW outcome \in {"completed", "failed"}, Complete(r, outcome)
      PROVE  TypeOK'
  BY <1>5, CompleteType
<1>6. ASSUME NEW p \in Proc, FlushStart(p) PROVE TypeOK'
  BY <1>6 DEF TypeOK, FlushStart
<1>7. ASSUME NEW p \in Proc, FlushDone(p) PROVE TypeOK'
  BY <1>7 DEF TypeOK, FlushDone
<1>8. ASSUME NEW p \in Proc, FlushFail(p) PROVE TypeOK'
  BY <1>8 DEF TypeOK, FlushFail
<1>9. ASSUME NEW p \in Proc, Boot(p) \/ Crash(p) PROVE TypeOK'
  BY <1>9, LifeType
<1>10. CASE Tick
  BY <1>10 DEF TypeOK, Tick
<1> QED
  BY <1>2, <1>3, <1>4, <1>5, <1>6, <1>7, <1>8, <1>9, <1>10 DEF Next

\* Every variable of RunClaim keeps its type: records are never malformed,
\* whatever the interleaving of handlers, pipelines, flushes and crashes.
THEOREM TypeCorrect == Spec => []TypeOK
<1>1. Init => TypeOK
  BY DEF Init, TypeOK, Table, EmptyTable
<1>2. TypeOK /\ [Next]_vars => TypeOK'
  BY TypeStep DEF vars, TypeOK
<1> QED
  BY <1>1, <1>2, PTL DEF Spec

-----------------------------------------------------------------------------
(* The record under a live pipeline's key is its own as long as no pipeline  *)
(* of the key outlived the staleness bound.                                  *)

OneUp == ~(backend = "gist" /\ Overlap) => \A p, q \in up : p = q
LiveIsUp == \A r \in RunId : IsLive(r) => runs[r].proc \in up

OwnClaim(p, s, r) ==
  LET rec == Load(p, s)
  IN  /\ rec # NoRecord
      /\ rec.status = "running"
      /\ rec.inst = InstanceId[p]
      /\ rec.updatedAt = runs[r].started

ClaimsHeld ==
  \A p \in Proc, s \in Slot :
    \/ Overdue(p, s)
    \/ /\ \A r1, r2 \in LiveAt(p, s) : r1 = r2
       /\ \A r \in LiveAt(p, s) : OwnClaim(p, s, r)

IInv == TypeOK /\ OneUp /\ LiveIsUp /\ ClaimsHeld

\* How one step changes a pipeline that has started: it keeps its identity,
\* and when it ends, it ends now.
Evolves(r) ==
  /\ runs'[r] # Free
  /\ runs'[r].proc = runs[r].proc /\ runs'[r].issue = runs[r].issue
  /\ runs'[r].started = runs[r].started
  /\ \/ runs'[r] = runs[r]
     \/ IsLive(r) /\ ~IsLive(r)' /\ runs'[r].ended = now

\* No step forgets or restarts a pipeline.
LEMMA RunsEvolve ==
  ASSUME TypeOK, Next, NEW r \in RunId, runs[r] # Free
  PROVE  Evolves(r)
<1>0. runs[r] \in Run
  BY DEF TypeOK
<1>1. CASE UNCHANGED runs
  BY <1>1 DEF Evolves
<1>2. ASSUME NEW p \in Proc, NEW i \in Issue, NEW q \in RunId, Claim(p, i, q) PROVE Evolves(r)
  BY <1>2 DEF Evolves, Claim, TypeOK
<1>3. ASSUME NEW q \in RunId, NEW outcome \in {"completed", "failed"}, Complete(q, outcome)
      PROVE  Evolves(r)
  <2>1. runs[q] \in Run /\ IsLive(q)
    BY <1>3 DEF Complete, TypeOK, IsLive, Free
  <2>2. runs' = [runs EXCEPT ![q] = [[runs[q] EXCEPT !.st = outcome] EXCEPT !.ended = now]]
    BY <1>3 DEF Complete, TypeOK
  <2>3. CASE q = r
    BY <1>0, <2>1, <2>2, <2>3 DEF Evolves, IsLive, TypeOK, Run, Free
  <2>4. CASE q # r
    BY <2>2, <2>4 DEF Evolves, TypeOK
  <2> QED
    BY <2>3, <2>4
<1>4. ASSUME NEW p \in Proc, Crash(p) PROVE Evolves(r)
  BY <1>0, <1>4 DEF Crash, Evolves, IsLive, Run, Free
<1> QED
  BY <1>1, <1>2, <1>3, <1>4
  DEF Next, Webhook, AdapterFails, Acquire, Refuse, store, FlushStart, FlushDone, FlushFail, Boot, Tick

\* Once a pipeline has outlived the bound, it has outlived it for good.
LEMMA OverdueStable ==
  ASSUME TypeOK, Next, NEW p \in Proc, NEW s \in Slot, Overdue(p, s)
  PROVE  Overdue(p, s)'
<1>1. PICK r \in RunId :
        /\ runs[r] # Free /\ runs[r].proc = p /\ SafeKey[runs[r].issue] = s
        /\ IF IsLive(r) THEN now - runs[r].started >= StaleAfter
                        ELSE runs[r].ended - runs[r].started >= StaleAfter
  BY DEF Overdue
<1>2. Evolves(r)
  BY <1>1, RunsEvolve
<1>3. now \in Nat /\ now' \in Nat /\ now' >= now
  <2>1. now' = now \/ now' = now + 1
    BY DEF Next, Webhook, AdapterFails, Acquire, Complete, FlushStart, FlushDone, FlushFail,
           Boot, Crash, Tick
  <2> QED
    BY <2>1 DEF TypeOK
<1>4. runs[r] \in Run /\ StaleAfter \in Nat
  BY <1>1, BoundAssumption DEF TypeOK
<1>5. runs'[r] # Free /\ runs'[r].proc = p /\ SafeKey[runs'[r].issue] = s
  BY <1>1, <1>2 DEF Evolves
<1>6. IF runs'[r].st = "live" THEN now' - runs'[r].started >= StaleAfter
                              ELSE runs'[r].ended - runs'[r].started >= StaleAfter
  BY <1>1, <1>2, <1>3, <1>4 DEF Evolves, IsLive, Run
<1> QED
  BY <1>5, <1>6 DEF Overdue, IsLive

\* A live pipeline whose record is its own makes a second trigger be refused,
\* unless it is overdue.
LEMMA OwnClaimHeld ==
  ASSUME TypeOK, NEW p \in Proc, NEW s \in Slot, ~Overdue(p, s),
         NEW r \in LiveAt(p, s), OwnClaim(p, s, r)
  PROVE  Held(Load(p, s), InstanceId[p])
<1>1. r \in RunId /\ runs[r] \in Run /\ runs[r] # Free /\ IsLive(r)
      /\ runs[r].proc = p /\ SafeKey[runs[r].issue] = s
  BY DEF LiveAt, IsLive, TypeOK, Free
<1>2. ~(now - runs[r].started >= StaleAfter)
  BY <1>1 DEF Overdue
<1>3. now - runs[r].started < StaleAfter
  BY <1>1, <1>2, BoundAssumption DEF TypeOK, Run
<1> QED
  BY <1>3 DEF OwnClaim, Held, SameInstance, IsFresh

\* No step forgets that at most one process runs where deploys do not overlap.
LEMMA OneUpStep ==
  ASSUME TypeOK, OneUp, Next PROVE OneUp'
<1>0. backend' = backend
  BY BackendStep
<1>1. CASE UNCHANGED up
  BY <1>0, <1>1 DEF OneUp
<1>2. ASSUME NEW p \in Proc, Boot(p) PROVE OneUp'
  BY <1>2 DEF OneUp, Boot
<1>3. ASSUME NEW p \in Proc, Crash(p) PROVE OneUp'
  BY <1>3 DEF OneUp, Crash
<1> QED
  BY <1>1, <1>2, <1>3
  DEF Next, Webhook, AdapterFails, Acquire, Complete, FlushStart, FlushDone, FlushFail, Tick

\* A pipeline lives only inside a process that runs.
LEMMA LiveIsUpStep ==
  ASSUME TypeOK, LiveIsUp, Next PROVE LiveIsUp'
<1> SUFFICES ASSUME NEW r \in RunId, IsLive(r)' PROVE (runs[r].proc \in up)'
  BY DEF LiveIsUp
<1>1. CASE runs[r] = Free
  <2>1. PICK p \in Proc, i \in Issue : Acquire(p, i) /\ \E q \in RunId : Claim(p, i, q) /\ q = r
    <3>1. runs'[r] # Free
      BY DEF IsLive, Free
    <3>2. ASSUME NEW q \in RunId, NEW o \in {"completed", "failed"}, Complete(q, o) PROVE FALSE
      <4>1. runs'[q].st = o
        BY <3>2 DEF Complete, TypeOK
      <4> QED
        BY <1>1, <3>1, <3>2, <4>1 DEF Complete, TypeOK, IsLive, Free
    <3>3. ASSUME NEW q \in Proc, Crash(q) PROVE FALSE
      BY <1>1, <3>1, <3>3 DEF Crash, IsLive, Free
    <3>4. PICK p \in Proc, i \in Issue : Acquire(p, i)
      BY <1>1, <3>1, <3>2, <3>3
      DEF Next, Webhook, AdapterFails, FlushStart, FlushDone, FlushFail, Boot, Tick
    <3>5. PICK q \in RunId : Claim(p, i, q)
      BY <1>1, <3>1, <3>4 DEF Acquire, Refuse, store
    <3>6. q = r
      BY <1>1, <3>1, <3>5 DEF Claim, TypeOK
    <3> QED
      BY <3>4, <3>5, <3>6
  <2> QED
    BY <2>1 DEF Acquire, Claim, TypeOK
<1>2. CASE runs[r] # Free
  <2>1. Evolves(r) /\ runs'[r] = runs[r] /\ IsLive(r)
    BY <1>2, RunsEvolve DEF Evolves, IsLive
  <2>2. runs[r].proc \in up
    BY <2>1 DEF LiveIsUp
  <2>3. ASSUME NEW p \in Proc, Crash(p) PROVE runs[r].proc # p
    <3>1. CASE runs[r].proc = p
      <4>1. runs[r] \in Run
        BY <1>2 DEF TypeOK
      <4>2. runs'[r].st = "lost"
        BY <2>1, <2>3, <3>1, <4>1 DEF Crash, Run
      <4> QED
        BY <2>1, <4>2 DEF IsLive
    <3> QED
      BY <3>1
  <2>4. up' = up \/ (\E p \in Proc : Boot(p)) \/ (\E p \in Proc : Crash(p))
    BY DEF Next, Webhook, AdapterFails, Acquire, Complete, FlushStart, FlushDone, FlushFail, Tick
  <2>5. runs[r].proc \in up'
    <3>1. ASSUME NEW p \in Proc, Boot(p) PROVE runs[r].proc \in up'
      BY <2>2, <3>1 DEF Boot
    <3>2. ASSUME NEW p \in Proc, Crash(p) PROVE runs[r].proc \in up'
      BY <2>2, <2>3, <3>2 DEF Crash
    <3> QED
      BY <2>2, <2>4, <3>1, <3>2
  <2> QED
    BY <2>1, <2>5
<1> QED
  BY <1>1, <1>2

\* One key of one process, with what it reads and its pipelines unchanged.
LEMMA ClaimKept ==
  ASSUME TypeOK, Next, NEW p \in Proc, NEW s \in Slot,
         Overdue(p, s) \/ (/\ \A r1, r2 \in LiveAt(p, s) : r1 = r2
                           /\ \A r \in LiveAt(p, s) : OwnClaim(p, s, r)),
         LiveAt(p, s)' \subseteq LiveAt(p, s),
         LiveAt(p, s)' = {} \/ Load(p, s)' = Load(p, s)
  PROVE  (Overdue(p, s) \/ (/\ \A r1, r2 \in LiveAt(p, s) : r1 = r2
                            /\ \A r \in LiveAt(p, s) : OwnClaim(p, s, r)))'
<1>1. CASE Overdue(p, s)
  BY <1>1, OverdueStable
<1>2. CASE LiveAt(p, s)' = {}
  BY <1>2
<1>3. CASE ~Overdue(p, s) /\ Load(p, s)' = Load(p, s)
  <2>1. ASSUME NEW r \in LiveAt(p, s)' PROVE OwnClaim(p, s, r)'
    <3>1. r \in LiveAt(p, s) /\ OwnClaim(p, s, r)
      BY <1>3, <2>1
    <3>2. r \in RunId /\ runs[r] # Free
      BY <3>1 DEF LiveAt, IsLive, Free
    <3>3. runs'[r].started = runs[r].started
      BY <3>2, RunsEvolve DEF Evolves
    <3> QED
      BY <1>3, <3>1, <3>3 DEF OwnClaim
  <2>2. \A r1, r2 \in LiveAt(p, s)' : r1 = r2
    BY <1>3
  <2> QED
    BY <2>1, <2>2
<1> QED
  BY <1>1, <1>2, <1>3

\* Only the writer's view of the written key changes, where one process runs.
LEMMA SaveElsewhere ==
  ASSUME TypeOK, OneUp, NEW p \in up, NEW s \in Slot, NEW rec \in Record, Save(p, s, rec),
         NEW q \in up, NEW t \in Slot, q # p \/ t # s
  PROVE  Load(q, t)' = Load(q, t)
<1>1. p \in Proc /\ q \in Proc
  BY DEF TypeOK
<1>2. CASE backend = "gist"
  BY <1>1, <1>2 DEF Save, Load, TypeOK, Table
<1>3. CASE backend # "gist"
  <2>1. q = p
    BY <1>3 DEF OneUp
  <2> QED
    BY <1>3, <2>1 DEF Save, Load, TypeOK, Table
<1> QED
  BY <1>2, <1>3

\* The writer reads back what it wrote.
LEMMA SaveHere ==
  ASSUME TypeOK, NEW p \in Proc, NEW s \in Slot, NEW rec, Save(p, s, rec)
  PROVE  Load(p, s)' = rec
<1>1. CASE backend = "gist"
  <2>1. cache' = [cache EXCEPT ![p] = [cache[p] EXCEPT ![s] = rec]]
    BY <1>1 DEF Save, TypeOK
  <2>2. cache'[p] = [cache[p] EXCEPT ![s] = rec]
    BY <2>1 DEF TypeOK
  <2>3. cache'[p][s] = rec
    BY <2>2 DEF TypeOK, Table
  <2> QED
    BY <1>1, <2>3 DEF Load, Save
<1>2. CASE backend # "gist"
  BY <1>2 DEF Save, Load, TypeOK, Table
<1> QED
  BY <1>1, <1>2

\* What ClaimsHeld says of one key of one process.
KeyHeld(p, s) ==
  \/ Overdue(p, s)
  \/ /\ \A r1, r2 \in LiveAt(p, s) : r1 = r2
     /\ \A r \in LiveAt(p, s) : OwnClaim(p, s, r)

\* acquireRun keeps every key's claim: it only grants a key nobody holds.
LEMMA ClaimStep ==
  ASSUME IInv, Next, NEW p \in Proc, NEW i \in Issue, NEW r \in RunId, Acquire(p, i), Claim(p, i, r)
  PROVE  ClaimsHeld'
<1> SUFFICES ASSUME NEW q \in Proc, NEW t \in Slot PROVE KeyHeld(q, t)'
  BY DEF ClaimsHeld, KeyHeld
<1> DEFINE s == SafeKey[i]
           rec == [status |-> "running", inst |-> InstanceId[p], updatedAt |-> now, run |-> r]
           run == [st |-> "live", issue |-> i, proc |-> p, started |-> now, ended |-> now]
<1>1. /\ p \in up /\ s \in Slot /\ rec \in Record /\ TypeOK /\ OneUp /\ KeyHeld(q, t)
      /\ rec # NoRecord /\ now' = now
  BY StoreAssumption DEF Acquire, IInv, TypeOK, Record, Id, ClaimsHeld, KeyHeld
<1>2. Save(p, s, rec) /\ runs' = [runs EXCEPT ![r] = run] /\ runs[r] = Free
  BY DEF Claim
<1>3. CASE q = p /\ t = s
  <2>1. CASE Overdue(q, t)
    BY <1>1, <2>1, OverdueStable DEF KeyHeld
  <2>2. CASE ~Overdue(q, t)
    <3>1. LiveAt(q, t) = {}
      BY <1>1, <1>3, <2>2, OwnClaimHeld DEF KeyHeld, Claim
    <3>2. LiveAt(q, t)' = {r}
      BY <1>2, <1>3, <3>1 DEF LiveAt, IsLive, IInv, TypeOK, Free
    <3>3. Load(q, t)' = rec
      BY <1>1, <1>2, <1>3, SaveHere
    <3>4. runs'[r].started = now
      BY <1>2 DEF IInv, TypeOK
    <3>5. OwnClaim(q, t, r)'
      BY <1>1, <1>3, <3>3, <3>4 DEF OwnClaim
    <3> QED
      BY <3>2, <3>5 DEF KeyHeld
  <2> QED
    BY <2>1, <2>2
<1>4. CASE q # p \/ t # s
  <2>1. LiveAt(q, t)' = LiveAt(q, t)
    BY <1>2, <1>4 DEF LiveAt, IsLive, IInv, TypeOK, Free
  <2>2. CASE q \in up
    <3>1. Load(q, t)' = Load(q, t)
      <4> HIDE DEF rec, s
      <4> QED BY <1>1, <1>2, <1>4, <2>2, SaveElsewhere
    <3> QED
      BY <1>1, <2>1, <3>1, ClaimKept DEF KeyHeld
  <2>3. CASE q \notin up
    <3>1. LiveAt(q, t) = {}
      BY <2>3 DEF LiveAt, IInv, LiveIsUp
    <3> QED
      BY <1>1, <2>1, <3>1, ClaimKept DEF KeyHeld
  <2> QED
    BY <2>2, <2>3
<1> QED
  BY <1>3, <1>4

\* completeRun keeps every key's claim: the only pipeline of a key that is
\* not overdue is the one that ends.
LEMMA CompleteStep ==
  ASSUME IInv, Next, NEW r \in RunId, NEW outcome \in {"completed", "failed"}, Complete(r, outcome)
  PROVE  ClaimsHeld'
<1> SUFFICES ASSUME NEW q \in Proc, NEW t \in Slot PROVE KeyHeld(q, t)'
  BY DEF ClaimsHeld, KeyHeld
<1> DEFINE p == runs[r].proc
           s == SafeKey[runs[r].issue]
           rec == Completed(Load(p, s), outcome)
<1>1. runs[r] \in Run /\ IsLive(r) /\ TypeOK /\ OneUp /\ KeyHeld(q, t)
  BY DEF IInv, TypeOK, Complete, IsLive, Free, ClaimsHeld, KeyHeld
<1>2. p \in Proc /\ s \in Slot /\ p \in up
  BY <1>1, StoreAssumption DEF Run, IInv, LiveIsUp
<1>3. rec \in Record /\ Save(p, s, rec)
  BY <1>1, <1>2, LoadType, CompletedType DEF Complete
<1>4. runs' = [runs EXCEPT ![r] = [[runs[r] EXCEPT !.st = outcome] EXCEPT !.ended = now]]
  BY <1>1 DEF Complete, TypeOK
<1>5. LiveAt(q, t)' = LiveAt(q, t) \ {r}
  BY <1>1, <1>4 DEF LiveAt, IsLive, TypeOK, Run
<1>6. CASE q = p /\ t = s
  <2>1. CASE Overdue(q, t)
    BY <1>1, <2>1, OverdueStable DEF KeyHeld
  <2>2. CASE ~Overdue(q, t)
    <3>1. LiveAt(q, t) = {r}
      BY <1>1, <1>6, <2>2 DEF KeyHeld, LiveAt
    <3> QED
      BY <1>5, <3>1 DEF KeyHeld
  <2> QED
    BY <2>1, <2>2
<1>7. CASE q # p \/ t # s
  <2>1. CASE q \in up
    <3>1. Load(q, t)' = Load(q, t)
      <4> HIDE DEF rec, s, p
      <4> QED BY <1>1, <1>2, <1>3, <1>7, <2>1, SaveElsewhere
    <3> QED
      BY <1>1, <1>5, <3>1, ClaimKept DEF KeyHeld
  <2>2. CASE q \notin up
    <3>1. LiveAt(q, t) = {}
      BY <2>2 DEF LiveAt, IInv, LiveIsUp
    <3> QED
      BY <1>1, <1>5, <3>1, ClaimKept DEF KeyHeld
  <2> QED
    BY <2>1, <2>2
<1> QED
  BY <1>6, <1>7

\* A boot and a crash keep every key's claim: neither runs under a live
\* pipeline of another process.
LEMMA LifeStep ==
  ASSUME IInv, Next, NEW p \in Proc, Boot(p) \/ Crash(p)
  PROVE  ClaimsHeld'
<1> SUFFICES ASSUME NEW q \in Proc, NEW t \in Slot PROVE KeyHeld(q, t)'
  BY DEF ClaimsHeld, KeyHeld
<1>1. TypeOK /\ KeyHeld(q, t)
  BY DEF IInv, ClaimsHeld, KeyHeld
<1>2. CASE Boot(p)
  <2>1. LiveAt(q, t)' = LiveAt(q, t)
    BY <1>2 DEF Boot, LiveAt, IsLive
  <2>2. CASE q \in up
    <3>1. q # p /\ backend = "gist"
      BY <1>2, <2>2 DEF Boot, IInv, TypeOK
    <3>2. cache' = [cache EXCEPT ![p] = Pruned(disk)]
      BY <1>2, <3>1 DEF Boot
    <3>3. Load(q, t)' = Load(q, t)
      BY <1>1, <1>2, <3>1, <3>2 DEF Boot, Load, TypeOK
    <3> QED
      BY <1>1, <2>1, <3>3, ClaimKept DEF KeyHeld
  <2>3. CASE q \notin up
    <3>1. LiveAt(q, t) = {}
      BY <2>3 DEF LiveAt, IInv, LiveIsUp
    <3> QED
      BY <1>1, <2>1, <3>1, ClaimKept DEF KeyHeld
  <2> QED
    BY <2>2, <2>3
<1>3. CASE Crash(p)
  <2>0. ASSUME NEW r \in RunId, IsLive(r)' PROVE runs'[r] = runs[r] /\ runs[r].proc # p
    <3>1. runs'[r] = IF IsLive(r) /\ runs[r].proc = p
                       THEN [runs[r] EXCEPT !.st = "lost", !.ended = now] ELSE runs[r]
      BY <1>3 DEF Crash
    <3>2. CASE runs[r] = Free
      <4>1. runs'[r] = Free
        BY <3>1, <3>2 DEF IsLive, Free
      <4> QED
        BY <2>0, <4>1 DEF IsLive, Free
    <3>3. CASE runs[r] \in Run
      BY <2>0, <3>1, <3>3 DEF IsLive, Run
    <3> QED
      BY <1>1, <3>2, <3>3 DEF TypeOK
  <2>1. LiveAt(q, t)' \subseteq LiveAt(q, t)
    BY <2>0 DEF LiveAt, IsLive
  <2>2. CASE q = p
    <3>1. LiveAt(q, t)' = {}
      BY <2>0, <2>2 DEF LiveAt
    <3> QED
      BY <1>1, <2>1, <3>1, ClaimKept DEF KeyHeld
  <2>3. CASE q # p
    <3>1. Load(q, t)' = Load(q, t)
      BY <1>3, <2>3 DEF Crash, Load, IInv, TypeOK
    <3> QED
      BY <1>1, <2>1, <3>1, ClaimKept DEF KeyHeld
  <2> QED
    BY <2>2, <2>3
<1> QED
  BY <1>2, <1>3

\* Every other step leaves what processes read and run alone.
LEMMA QuietStep ==
  ASSUME IInv, Next, UNCHANGED runs, \A q \in Proc, t \in Slot : Load(q, t)' = Load(q, t)
  PROVE  ClaimsHeld'
<1> SUFFICES ASSUME NEW q \in Proc, NEW t \in Slot PROVE KeyHeld(q, t)'
  BY DEF ClaimsHeld, KeyHeld
<1>1. TypeOK /\ KeyHeld(q, t)
  BY DEF IInv, ClaimsHeld, KeyHeld
<1>2. LiveAt(q, t)' = LiveAt(q, t)
  BY DEF LiveAt, IsLive
<1> QED
  BY <1>1, <1>2, ClaimKept DEF KeyHeld

\* IInv holds in every reachable state.
LEMMA Inductive == IInv /\ [Next]_vars => IInv'
<1> SUFFICES ASSUME IInv, [Next]_vars PROVE IInv'
  OBVIOUS
<1>1. CASE UNCHANGED vars
  BY <1>1 DEF vars, IInv, TypeOK, OneUp, LiveIsUp, IsLive, ClaimsHeld, Overdue, LiveAt, OwnClaim, Load
<1>2. CASE Next
  <2>1. TypeOK'
    BY <1>2, TypeStep DEF IInv
  <2>2. OneUp' /\ LiveIsUp'
    BY <1>2, OneUpStep, LiveIsUpStep DEF IInv
  <2>3. ClaimsHeld'
    <3>1. ASSUME NEW p \in Proc, NEW i \in Issue, NEW e \in Event, Webhook(p, i, e) PROVE ClaimsHeld'
      BY <1>2, <3>1, QuietStep DEF Webhook, Load
    <3>2. ASSUME NEW p \in Proc, NEW i \in Issue, AdapterFails(p, i) PROVE ClaimsHeld'
      BY <1>2, <3>2, QuietStep DEF AdapterFails, Load
    <3>3. ASSUME NEW p \in Proc, NEW i \in Issue, Acquire(p, i) PROVE ClaimsHeld'
      <4>1. CASE Refuse(p, i)
        BY <1>2, <4>1, QuietStep DEF Refuse, store, Load
      <4> QED
        BY <1>2, <3>3, <4>1, ClaimStep DEF Acquire
    <3>4. ASSUME NEW r \in RunId, NEW o \in {"completed", "failed"}, Complete(r, o) PROVE ClaimsHeld'
      BY <1>2, <3>4, CompleteStep
    <3>5. ASSUME NEW p \in Proc, FlushStart(p) \/ FlushDone(p) \/ FlushFail(p) PROVE ClaimsHeld'
      BY <1>2, <3>5, QuietStep DEF FlushStart, FlushDone, FlushFail, Load
    <3>6. ASSUME NEW p \in Proc, Boot(p) \/ Crash(p) PROVE ClaimsHeld'
      BY <1>2, <3>6, LifeStep
    <3>7. CASE Tick
      BY <1>2, <3>7, QuietStep DEF Tick, Load
    <3> QED
      BY <1>2, <3>1, <3>2, <3>3, <3>4, <3>5, <3>6, <3>7 DEF Next
  <2> QED
    BY <2>1, <2>2, <2>3 DEF IInv
<1> QED
  BY <1>1, <1>2

\* Nothing runs and nothing is claimed at the start.
LEMMA InitHolds == Init => IInv
<1> SUFFICES ASSUME Init PROVE IInv
  OBVIOUS
<1>1. TypeOK
  BY DEF Init, TypeOK, Table, EmptyTable
<1>2. \A r \in RunId : ~IsLive(r)
  BY DEF Init, IsLive, Free
<1> QED
  BY <1>1, <1>2 DEF Init, IInv, OneUp, LiveIsUp, ClaimsHeld, LiveAt

\* As long as no pipeline of an issue outlives the staleness bound, a process
\* never runs two pipelines of that issue: for every number of issues,
\* processes, crashes, deploys and failed gist writes.
THEOREM ClaimExclusive == Spec => []ExclusiveUnlessOverdue
<1>1. Init => IInv
  BY InitHolds
<1>2. IInv => ExclusiveUnlessOverdue
  BY DEF IInv, ClaimsHeld, ExclusiveUnlessOverdue
<1> QED
  BY <1>1, <1>2, Inductive, PTL DEF Spec

-----------------------------------------------------------------------------
(* The chain of writes of one process.                                      *)

\* A process that does not run writes nothing.
DownIsIdle ==
  \A p \in Proc \ up : queued[p] = 0 /\ inflight[p] = NoPatch /\ ~lossy[p]

\* Nobody else writes the gist of p.
Sole(p) == ~Overlap \/ booted = {p}

\* The last write of the chain has what the cache has.
ChainEnds(p) ==
  queued[p] = 0 =>
    /\ inflight[p] # NoPatch => inflight[p] = cache[p]
    /\ inflight[p] = NoPatch /\ ~lossy[p] => disk = cache[p]

Chained == backend = "gist" => \A p \in up : Sole(p) => ChainEnds(p)

\* No process comes up in the middle of a write.
LEMMA DownStep ==
  ASSUME TypeOK, LiveIsUp, DownIsIdle, Next PROVE DownIsIdle'
<1> SUFFICES ASSUME NEW q \in Proc, q \notin up'
             PROVE  queued'[q] = 0 /\ inflight'[q] = NoPatch /\ ~lossy'[q]
  BY DEF DownIsIdle
<1>1. ASSUME NEW p \in up, NEW s \in Slot, NEW rec, Save(p, s, rec), q \notin up
      PROVE  queued'[q] = 0 /\ inflight'[q] = NoPatch /\ ~lossy'[q]
  BY <1>1 DEF Save, DownIsIdle, TypeOK
<1>2. ASSUME NEW p \in Proc, NEW i \in Issue, Acquire(p, i)
      PROVE  queued'[q] = 0 /\ inflight'[q] = NoPatch /\ ~lossy'[q]
  <2>1. p \in up /\ q \notin up /\ SafeKey[i] \in Slot
    BY <1>2, StoreAssumption DEF Acquire
  <2>2. CASE Refuse(p, i)
    BY <2>1, <2>2 DEF Refuse, store, DownIsIdle
  <2>3. ASSUME NEW r \in RunId, Claim(p, i, r)
        PROVE  queued'[q] = 0 /\ inflight'[q] = NoPatch /\ ~lossy'[q]
    BY <1>1, <2>1, <2>3 DEF Claim
  <2> QED
    BY <1>2, <2>2, <2>3 DEF Acquire
<1>3. ASSUME NEW r \in RunId, NEW o \in {"completed", "failed"}, Complete(r, o)
      PROVE  queued'[q] = 0 /\ inflight'[q] = NoPatch /\ ~lossy'[q]
  <2>1. runs[r] \in Run /\ IsLive(r)
    BY <1>3 DEF Complete, TypeOK, IsLive, Free
  <2>2. runs[r].proc \in up /\ SafeKey[runs[r].issue] \in Slot /\ q \notin up
    BY <1>3, <2>1, StoreAssumption DEF Complete, LiveIsUp, Run
  <2> QED
    BY <1>1, <1>3, <2>2 DEF Complete
<1>4. ASSUME NEW p \in Proc, FlushStart(p) \/ FlushDone(p) \/ FlushFail(p)
      PROVE  queued'[q] = 0 /\ inflight'[q] = NoPatch /\ ~lossy'[q]
  BY <1>4 DEF FlushStart, FlushDone, FlushFail, DownIsIdle, TypeOK
<1>5. ASSUME NEW p \in Proc, Boot(p)
      PROVE  queued'[q] = 0 /\ inflight'[q] = NoPatch /\ ~lossy'[q]
  BY <1>5 DEF Boot, DownIsIdle, TypeOK
<1>6. ASSUME NEW p \in Proc, Crash(p)
      PROVE  queued'[q] = 0 /\ inflight'[q] = NoPatch /\ ~lossy'[q]
  BY <1>6 DEF Crash, DownIsIdle, TypeOK
<1>7. CASE UNCHANGED <<up, queued, inflight, lossy>>
  BY <1>7 DEF DownIsIdle
<1> QED
  BY <1>2, <1>3, <1>4, <1>5, <1>6, <1>7 DEF Next, Webhook, AdapterFails, Tick

\* Whoever runs beside a sole writer is the sole writer.
LEMMA SoleIsAlone ==
  ASSUME TypeOK, OneUp, NEW p \in up, NEW q \in up, Sole(p) PROVE p = q
  BY DEF Sole, OneUp, TypeOK

\* What a sole writer saves is queued.
LEMMA SaveChains ==
  ASSUME TypeOK, OneUp, NEW p \in up, NEW q \in up, NEW s \in Slot, NEW rec,
         Save(q, s, rec), Sole(p), backend = "gist"
  PROVE  ChainEnds(p)'
<1>1. p = q /\ p \in Proc
  BY SoleIsAlone DEF TypeOK
<1>2. queued'[p] = queued[p] + 1 /\ queued[p] \in Nat
  BY <1>1 DEF Save, TypeOK
<1> QED
  BY <1>2 DEF ChainEnds

\* A process that boots alone has in its cache what the gist has, but for the
\* records whose removal it has queued.
LEMMA BootChains ==
  ASSUME TypeOK, DownIsIdle, NEW p \in Proc, Boot(p), backend = "gist"
  PROVE  ChainEnds(p)'
<1> DEFINE old == {s \in Slot : Prunable(disk[s])}
<1>1. p \notin up /\ cache' = [cache EXCEPT ![p] = Pruned(disk)] /\ disk' = disk
      /\ queued' = [queued EXCEPT ![p] = Cardinality(old)] /\ UNCHANGED <<inflight, lossy>>
  BY DEF Boot, TypeOK
<1>2. inflight'[p] = NoPatch /\ cache'[p] = Pruned(disk) /\ queued'[p] = Cardinality(old)
  BY <1>1 DEF DownIsIdle, TypeOK
<1>3. CASE Cardinality(old) = 0
  <2>1. old = {}
    BY <1>3, StoreAssumption, FS_Subset, FS_EmptySet
  <2>2. Pruned(disk) = disk
    BY <2>1 DEF Pruned, TypeOK, Table
  <2> QED
    BY <1>1, <1>2, <2>2 DEF ChainEnds
<1>4. CASE Cardinality(old) # 0
  BY <1>2, <1>4 DEF ChainEnds
<1> QED
  BY <1>3, <1>4

\* Every step keeps a sole writer's chain complete.
LEMMA ChainStep ==
  ASSUME TypeOK, OneUp, LiveIsUp, DownIsIdle, Chained, Next PROVE Chained'
<1> SUFFICES ASSUME backend = "gist", NEW p \in up', Sole(p)' PROVE ChainEnds(p)'
  BY BackendStep DEF Chained
<1>1. ASSUME NEW q \in Proc, NEW i \in Issue, Acquire(q, i) PROVE ChainEnds(p)'
  <2>1. q \in up /\ p \in up /\ Sole(p) /\ SafeKey[i] \in Slot
    BY <1>1, StoreAssumption DEF Acquire, Sole
  <2>2. CASE Refuse(q, i)
    BY <2>1, <2>2 DEF Refuse, store, Chained, ChainEnds
  <2>3. ASSUME NEW r \in RunId, Claim(q, i, r) PROVE ChainEnds(p)'
    BY <2>1, <2>3, SaveChains DEF Claim
  <2> QED
    BY <1>1, <2>2, <2>3 DEF Acquire
<1>2. ASSUME NEW r \in RunId, NEW o \in {"completed", "failed"}, Complete(r, o) PROVE ChainEnds(p)'
  <2>1. runs[r] \in Run /\ IsLive(r)
    BY <1>2 DEF Complete, TypeOK, IsLive, Free
  <2>2. runs[r].proc \in up /\ SafeKey[runs[r].issue] \in Slot /\ p \in up /\ Sole(p)
    BY <1>2, <2>1, StoreAssumption DEF Complete, LiveIsUp, Run, Sole
  <2> QED
    BY <1>2, <2>2, SaveChains DEF Complete
<1>3. ASSUME NEW q \in Proc, FlushStart(q) \/ FlushDone(q) \/ FlushFail(q) PROVE ChainEnds(p)'
  <2>1. p \in up /\ q \in up /\ Sole(p) /\ p \in Proc
    BY <1>3 DEF FlushStart, FlushDone, FlushFail, Sole, TypeOK
  <2>2. p = q /\ ChainEnds(p)
    BY <2>1, SoleIsAlone DEF Chained
  <2>3. cache[p] \in Table /\ cache[p] # NoPatch
    BY <2>1, PatchAssumption DEF TypeOK
  <2>4. CASE FlushStart(p)
    BY <2>1, <2>3, <2>4 DEF FlushStart, ChainEnds, TypeOK
  <2>5. CASE FlushDone(p)
    BY <2>1, <2>2, <2>5 DEF FlushDone, ChainEnds, TypeOK
  <2>6. CASE FlushFail(p)
    BY <2>1, <2>2, <2>6 DEF FlushFail, ChainEnds, TypeOK
  <2> QED
    BY <1>3, <2>2, <2>4, <2>5, <2>6
<1>4. ASSUME NEW q \in Proc, Boot(q) PROVE ChainEnds(p)'
  <2>1. q = p
    BY <1>4 DEF Boot, Sole, TypeOK
  <2> QED
    BY <1>4, <2>1, BootChains
<1>5. ASSUME NEW q \in Proc, Crash(q) PROVE ChainEnds(p)'
  <2>1. p \in up /\ p # q /\ Sole(p) /\ p \in Proc
    BY <1>5 DEF Crash, Sole, TypeOK
  <2> QED
    BY <1>5, <2>1 DEF Crash, Chained, ChainEnds, TypeOK
<1>6. CASE UNCHANGED <<up, booted, disk, cache, queued, inflight, lossy>>
  BY <1>6 DEF Chained, ChainEnds, Sole
<1> QED
  BY <1>1, <1>2, <1>3, <1>4, <1>5, <1>6 DEF Next, Webhook, AdapterFails, Tick

\* The chain of writes loses no update: for any number of issues, pipelines and
\* queued writes, a gist with one writer that has come to rest after a write that
\* got through is the writer's cache.
THEOREM RestIsDurable == Spec => []QuiescentDurable
<1> DEFINE Inv == IInv /\ DownIsIdle /\ Chained
<1>1. Init => Inv
  BY InitHolds DEF Init, DownIsIdle, Chained
<1>2. Inv /\ [Next]_vars => Inv'
  <2>1. Inv /\ Next => DownIsIdle' /\ Chained'
    BY DownStep, ChainStep DEF IInv
  <2>2. Inv /\ UNCHANGED vars => DownIsIdle' /\ Chained'
    BY DEF vars, DownIsIdle, Chained, ChainEnds, Sole
  <2> QED
    BY <2>1, <2>2, Inductive
<1>3. Inv => QuiescentDurable
  BY DEF Chained, ChainEnds, Sole, QuiescentDurable
<1> QED
  BY <1>1, <1>2, <1>3, PTL DEF Spec

-----------------------------------------------------------------------------
(* Whose record it is.                                                      *)

\* A running record of a table names a pipeline of its key that has started.
Keyed(t) ==
  \A s \in Slot :
    t[s] # NoRecord /\ t[s].status = "running" =>
      t[s].run \in RunId /\ runs[t[s].run] # Free /\ SafeKey[runs[t[s].run].issue] = s

AllKeyed ==
  /\ Keyed(disk)
  /\ \A p \in Proc : Keyed(cache[p]) /\ (inflight[p] # NoPatch => Keyed(inflight[p]))

\* A pipeline was started by a process that has booted.
StartedByBooted == \A r \in RunId : runs[r] # Free => runs[r].proc \in booted

\* A running record of the process's own names a live pipeline.
Sound(p, s) ==
  LET rec == Load(p, s)
  IN  rec # NoRecord /\ rec.status = "running" /\ runs[rec.run].proc = p => IsLive(rec.run)

Leakless == \A p \in up, s \in Slot : Sound(p, s)

\* What a table says stays right, as pipelines keep their issue.
LEMMA KeyedStable ==
  ASSUME TypeOK, Next, NEW t \in Table, Keyed(t) PROVE Keyed(t)'
<1> SUFFICES ASSUME NEW s \in Slot, t[s] # NoRecord, t[s].status = "running"
             PROVE  t[s].run \in RunId /\ runs'[t[s].run] # Free /\ SafeKey[runs'[t[s].run].issue] = s
  BY DEF Keyed
<1>1. t[s].run \in RunId /\ runs[t[s].run] # Free /\ SafeKey[runs[t[s].run].issue] = s
  BY DEF Keyed
<1>2. Evolves(t[s].run)
  BY <1>1, RunsEvolve
<1> QED
  BY <1>1, <1>2 DEF Evolves

\* A record may be written under its pipeline's key.
LEMMA KeyedWrite ==
  ASSUME NEW t \in Table, Keyed(t)', NEW s \in Slot, NEW rec \in Record,
         rec.status = "running" =>
           rec.run \in RunId /\ runs'[rec.run] # Free /\ SafeKey[runs'[rec.run].issue] = s
  PROVE  Keyed([t EXCEPT ![s] = rec])'
  BY DEF Keyed, Table

\* Saving such a record keeps every table.
LEMMA SaveKeyed ==
  ASSUME TypeOK, Next, AllKeyed, NEW p \in Proc, NEW s \in Slot, NEW rec \in Record, Save(p, s, rec),
         rec.status = "running" =>
           rec.run \in RunId /\ runs'[rec.run] # Free /\ SafeKey[runs'[rec.run].issue] = s
  PROVE  AllKeyed'
<1>2. ASSUME NEW t \in Table, Keyed(t) PROVE Keyed(t)' /\ Keyed([t EXCEPT ![s] = rec])'
  BY <1>2, KeyedStable, KeyedWrite
<1>3. /\ disk \in Table /\ Keyed(disk)
      /\ \A q \in Proc : cache[q] \in Table /\ Keyed(cache[q])
                        /\ (inflight[q] # NoPatch => inflight[q] \in Table /\ Keyed(inflight[q]))
  BY DEF AllKeyed, TypeOK
<1>4. CASE backend = "gist"
  <2>1. disk' = disk /\ inflight' = inflight /\ cache' = [cache EXCEPT ![p] = [cache[p] EXCEPT ![s] = rec]]
    BY <1>4 DEF Save, TypeOK
  <2>2. ASSUME NEW q \in Proc PROVE Keyed(cache[q])'
    <3>1. cache'[q] = cache[q] \/ cache'[q] = [cache[q] EXCEPT ![s] = rec]
      BY <2>1 DEF TypeOK
    <3>2. PICK t \in Table : t = cache[q] /\ Keyed(t)
      BY <1>3
    <3>3. Keyed(t)' /\ Keyed([t EXCEPT ![s] = rec])'
      BY <1>2, <3>2
    <3>4. cache'[q] = t \/ cache'[q] = [t EXCEPT ![s] = rec]
      BY <3>1, <3>2
    <3> QED
      BY <3>3, <3>4 DEF Keyed
  <2>3. ASSUME NEW q \in Proc, inflight'[q] # NoPatch PROVE Keyed(inflight[q])'
    BY <1>2, <1>3, <2>1, <2>3 DEF Keyed
  <2>4. Keyed(disk)'
    BY <1>2, <1>3, <2>1 DEF Keyed
  <2> QED
    BY <2>2, <2>3, <2>4 DEF AllKeyed
<1>5. CASE backend # "gist"
  <2>1. disk' = [disk EXCEPT ![s] = rec] /\ inflight' = inflight /\ cache' = cache
    BY <1>5 DEF Save
  <2>2. Keyed(disk)'
    BY <1>2, <1>3, <2>1 DEF Keyed
  <2>3. ASSUME NEW q \in Proc PROVE Keyed(cache[q])' /\ (inflight'[q] # NoPatch => Keyed(inflight[q])')
    BY <1>2, <1>3, <2>1 DEF Keyed
  <2> QED
    BY <2>2, <2>3 DEF AllKeyed
<1> QED
  BY <1>4, <1>5

\* No record ever names a pipeline that was never started, or one of another key.
LEMMA AllKeyedStep ==
  ASSUME IInv, AllKeyed, Next PROVE AllKeyed'
<1> DEFINE sound == {t \in Table : Keyed(t)}
<1>0. TypeOK /\ LiveIsUp
  BY DEF IInv
<1>1. \A t \in sound : Keyed(t)'
  BY <1>0, KeyedStable
<1>2. /\ disk \in sound
      /\ \A q \in Proc : cache[q] \in sound /\ (inflight[q] # NoPatch => inflight[q] \in sound)
  BY <1>0 DEF AllKeyed, TypeOK
<1>2a. /\ \A t \in sound : Pruned(t) \in sound
      /\ EmptyTable \in sound
  BY PrunedType DEF Pruned, Keyed, EmptyTable, Table
<1> HIDE DEF sound
<1>3. ASSUME disk' \in sound,
             \A q \in Proc : cache'[q] \in sound /\ (inflight'[q] # NoPatch => inflight'[q] \in sound)
      PROVE  AllKeyed'
  <2>1. Keyed(disk)'
    BY <1>1, <1>3
  <2>2. ASSUME NEW q \in Proc PROVE Keyed(cache[q])'
    <3>1. PICK t \in sound : t = cache'[q]
      BY <1>3
    <3> QED
      BY <1>1, <3>1 DEF Keyed
  <2>3. ASSUME NEW q \in Proc, inflight'[q] # NoPatch PROVE Keyed(inflight[q])'
    <3>1. PICK t \in sound : t = inflight'[q]
      BY <1>3, <2>3
    <3> QED
      BY <1>1, <3>1 DEF Keyed
  <2> QED
    BY <2>1, <2>2, <2>3 DEF AllKeyed
<1>4. ASSUME NEW q \in Proc, NEW i \in Issue, Acquire(q, i) PROVE AllKeyed'
  <2>1. CASE Refuse(q, i)
    BY <1>2, <1>3, <2>1 DEF Refuse, store
  <2>2. ASSUME NEW r \in RunId, Claim(q, i, r) PROVE AllKeyed'
    <3> DEFINE rec == [status |-> "running", inst |-> InstanceId[q], updatedAt |-> now, run |-> r]
    <3>1. rec \in Record /\ SafeKey[i] \in Slot /\ Save(q, SafeKey[i], rec) /\ rec.run = r
      BY <1>0, <2>2, StoreAssumption DEF Claim, TypeOK, Record, Id
    <3>2. runs'[r] # Free /\ runs'[r].issue = i
      BY <1>0, <2>2 DEF Claim, TypeOK, Free
    <3> HIDE DEF rec
    <3> QED
      BY <1>0, <3>1, <3>2, SaveKeyed
  <2> QED
    BY <1>4, <2>1, <2>2 DEF Acquire
<1>5. ASSUME NEW r \in RunId, NEW o \in {"completed", "failed"}, Complete(r, o) PROVE AllKeyed'
  <2> DEFINE p == runs[r].proc
             s == SafeKey[runs[r].issue]
             rec == Completed(Load(p, s), o)
  <2>1. runs[r] \in Run
    BY <1>0, <1>5 DEF Complete, TypeOK, IsLive, Free
  <2>2. p \in Proc /\ s \in Slot
    BY <2>1, StoreAssumption DEF Run
  <2>3. Load(p, s) \in Record \cup {NoRecord} /\ rec \in Record /\ Save(p, s, rec)
    BY <1>0, <1>5, <2>2, LoadType, CompletedType DEF Complete
  <2>4. rec.status # "running"
    BY <2>3 DEF Completed, Record
  <2> HIDE DEF p, s, rec
  <2> QED
    BY <1>0, <2>2, <2>3, <2>4, SaveKeyed
<1>6. ASSUME NEW p \in Proc, FlushStart(p) \/ FlushDone(p) \/ FlushFail(p) PROVE AllKeyed'
  BY <1>0, <1>2, <1>3, <1>6 DEF FlushStart, FlushDone, FlushFail, TypeOK
<1>7. ASSUME NEW p \in Proc, Boot(p) PROVE AllKeyed'
  BY <1>0, <1>2, <1>3, <1>7, <1>2a DEF Boot, TypeOK
<1>8. ASSUME NEW p \in Proc, Crash(p) PROVE AllKeyed'
  BY <1>0, <1>2, <1>3, <1>8, <1>2a DEF Crash, TypeOK
<1>9. CASE UNCHANGED <<disk, cache, inflight>>
  BY <1>2, <1>3, <1>9
<1> QED
  BY <1>4, <1>5, <1>6, <1>7, <1>8, <1>9 DEF Next, Webhook, AdapterFails, Tick

\* A pipeline starts in a process that runs, and a process that ran has booted.
LEMMA StartedStep ==
  ASSUME TypeOK, StartedByBooted, Next PROVE StartedByBooted'
<1> SUFFICES ASSUME NEW r \in RunId, runs'[r] # Free PROVE runs'[r].proc \in booted'
  BY DEF StartedByBooted
<1>1. booted \subseteq booted'
  BY DEF Next, Webhook, AdapterFails, Acquire, Complete, FlushStart, FlushDone, FlushFail, Boot,
         Crash, Tick
<1>2. CASE runs[r] # Free
  BY <1>1, <1>2, RunsEvolve DEF Evolves, StartedByBooted
<1>3. CASE runs[r] = Free
  <2>1. PICK p \in up, i \in Issue, q \in RunId : Claim(p, i, q)
    <3>1. runs' # runs
      BY <1>3
    <3>2. ASSUME NEW q \in RunId, NEW o \in {"completed", "failed"}, Complete(q, o) PROVE FALSE
      BY <1>3, <3>2 DEF Complete, TypeOK, IsLive, Free
    <3>3. ASSUME NEW q \in Proc, Crash(q) PROVE FALSE
      <4>1. runs'[r] = IF IsLive(r) /\ runs[r].proc = q
                         THEN [runs[r] EXCEPT !.st = "lost", !.ended = now] ELSE runs[r]
        BY <3>3 DEF Crash
      <4>2. ~IsLive(r)
        BY <1>3 DEF IsLive, Free
      <4> QED
        BY <1>3, <4>1, <4>2
    <3>4. PICK p \in Proc, i \in Issue : Acquire(p, i)
      BY <3>1, <3>2, <3>3
      DEF Next, Webhook, AdapterFails, FlushStart, FlushDone, FlushFail, Boot, Tick
    <3> QED
      BY <3>1, <3>4 DEF Acquire, Refuse, store
  <2>2. q = r /\ runs'[r].proc = p
    BY <1>3, <2>1 DEF Claim, TypeOK
  <2> QED
    BY <1>1, <2>2 DEF TypeOK
<1> QED
  BY <1>2, <1>3

\* One key of one process, with what it reads unchanged and no pipeline ended
\* that it names.
LEMMA LeakKept ==
  ASSUME TypeOK, AllKeyed, Next, NEW p \in up, NEW s \in Slot, Leakless,
         Load(p, s)' = Load(p, s),
         \A r \in RunId : IsLive(r) /\ runs[r].proc = p /\ SafeKey[runs[r].issue] = s => IsLive(r)'
  PROVE  Sound(p, s)'
<1> DEFINE rec == Load(p, s)
<1> SUFFICES ASSUME rec # NoRecord, rec.status = "running", runs'[rec.run].proc = p
             PROVE  runs'[rec.run].st = "live"
  BY DEF Sound, IsLive
<1>1. p \in Proc
  BY DEF TypeOK
<1>2. rec.run \in RunId /\ runs[rec.run] # Free /\ SafeKey[runs[rec.run].issue] = s
  BY <1>1 DEF AllKeyed, Keyed, Load
<1>3. runs[rec.run].proc = p
  BY <1>2, RunsEvolve DEF Evolves
<1>4. IsLive(rec.run)
  BY <1>3 DEF Leakless, Sound
<1> HIDE DEF rec
<1> QED
  BY <1>2, <1>3, <1>4 DEF IsLive

\* A claim a process wrote is running only as long as its pipeline.
LEMMA LeakStep ==
  ASSUME IInv, AllKeyed, AllKeyed', StartedByBooted, Leakless, Next PROVE Leakless'
<1> SUFFICES ASSUME NEW q \in up', NEW t \in Slot PROVE Sound(q, t)'
  BY DEF Leakless
<1>0. TypeOK /\ OneUp /\ LiveIsUp
  BY DEF IInv
<1>1. ASSUME NEW p \in Proc, NEW i \in Issue, NEW r \in RunId, Acquire(p, i), Claim(p, i, r)
      PROVE  Sound(q, t)'
  <2> DEFINE s == SafeKey[i]
             rec == [status |-> "running", inst |-> InstanceId[p], updatedAt |-> now, run |-> r]
  <2>1. p \in up /\ q \in up /\ s \in Slot /\ rec \in Record /\ Save(p, s, rec) /\ rec.run = r
    BY <1>0, <1>1, StoreAssumption DEF Acquire, Claim, TypeOK, Record, Id
  <2>2. IsLive(r)' /\ \A x \in RunId : IsLive(x) => IsLive(x)'
    BY <1>0, <1>1 DEF Claim, IsLive, TypeOK
  <2> HIDE DEF rec, s
  <2>3. CASE q = p /\ t = s
    <3>1. Load(q, t)' = rec
      BY <1>0, <2>1, <2>3, SaveHere DEF TypeOK
    <3> QED
      BY <2>1, <2>2, <3>1 DEF Sound, IsLive
  <2>4. CASE q # p \/ t # s
    <3>1. Load(q, t)' = Load(q, t)
      BY <1>0, <2>1, <2>4, SaveElsewhere
    <3> QED
      BY <1>0, <2>1, <2>2, <3>1, LeakKept
  <2> QED
    BY <2>3, <2>4
<1>2. ASSUME NEW r \in RunId, NEW o \in {"completed", "failed"}, Complete(r, o) PROVE Sound(q, t)'
  <2> DEFINE p == runs[r].proc
             s == SafeKey[runs[r].issue]
             rec == Completed(Load(p, s), o)
  <2>1. runs[r] \in Run /\ IsLive(r)
    BY <1>0, <1>2 DEF Complete, TypeOK, IsLive, Free
  <2>2. p \in up /\ q \in up /\ p \in Proc /\ s \in Slot
    BY <1>0, <1>2, <2>1, StoreAssumption DEF Complete, LiveIsUp, Run
  <2>3. Load(p, s) \in Record \cup {NoRecord} /\ rec \in Record /\ Save(p, s, rec)
    BY <1>0, <1>2, <2>2, LoadType, CompletedType DEF Complete
  <2>4. rec.status # "running"
    BY <2>3 DEF Completed, Record
  <2>5. \A x \in RunId : IsLive(x) /\ x # r => IsLive(x)'
    BY <1>0, <1>2 DEF Complete, IsLive, TypeOK
  <2>6. CASE q = p /\ t = s
    <3> HIDE DEF rec, s, p
    <3>1. Load(q, t)' = rec
      BY <1>0, <2>2, <2>3, <2>6, SaveHere
    <3> QED
      BY <2>4, <3>1 DEF Sound
  <2>7. CASE q # p \/ t # s
    <3>1. \A x \in RunId : IsLive(x) /\ runs[x].proc = q /\ SafeKey[runs[x].issue] = t => IsLive(x)'
      BY <2>5, <2>7
    <3> HIDE DEF rec, s, p
    <3>2. Load(q, t)' = Load(q, t)
      BY <1>0, <2>2, <2>3, <2>7, SaveElsewhere
    <3> QED
      BY <1>0, <2>2, <3>1, <3>2, LeakKept
  <2> QED
    BY <2>6, <2>7
<1>3. ASSUME NEW p \in Proc, Boot(p) PROVE Sound(q, t)'
  <2>0. runs' = runs
    BY <1>3 DEF Boot
  <2>1. CASE q = p
    <3>1. q \notin booted /\ q \in Proc
      BY <1>3, <2>1 DEF Boot
    <3>2. \A x \in RunId : runs[x] # Free => runs'[x].proc # q
      BY <2>0, <3>1 DEF StartedByBooted
    <3>3. Keyed(disk)' /\ Keyed(cache[q])'
      BY <3>1 DEF AllKeyed
    <3>4. Load(q, t)' # NoRecord /\ Load(q, t)'.status = "running" =>
            Load(q, t)'.run \in RunId /\ runs'[Load(q, t)'.run] # Free
      BY <3>3 DEF Keyed, Load
    <3> QED
      BY <2>0, <3>2, <3>4 DEF Sound
  <2>2. CASE q # p
    <3>1. q \in up /\ backend = "gist" /\ q \in Proc
      BY <1>0, <1>3, <2>2 DEF Boot, TypeOK
    <3>2. Load(q, t)' = Load(q, t)
      BY <1>0, <1>3, <2>2, <3>1 DEF Boot, Load, TypeOK
    <3> QED
      BY <1>0, <2>0, <3>1, <3>2, LeakKept DEF IsLive
  <2> QED
    BY <2>1, <2>2
<1>4. ASSUME NEW p \in Proc, Crash(p) PROVE Sound(q, t)'
  <2>1. q \in up /\ q # p /\ q \in Proc
    BY <1>0, <1>4 DEF Crash, TypeOK
  <2>2. Load(q, t)' = Load(q, t)
    BY <1>0, <1>4, <2>1 DEF Crash, Load, TypeOK
  <2>3. \A x \in RunId : IsLive(x) /\ runs[x].proc = q => IsLive(x)'
    BY <1>4, <2>1 DEF Crash, IsLive
  <2> QED
    BY <1>0, <2>1, <2>2, <2>3, LeakKept
<1>5. ASSUME UNCHANGED <<up, runs>>, \A p \in Proc, s \in Slot : Load(p, s)' = Load(p, s)
      PROVE  Sound(q, t)'
  BY <1>0, <1>5, LeakKept DEF IsLive, TypeOK
<1>6. ASSUME NEW p \in Proc, NEW i \in Issue, Acquire(p, i) PROVE Sound(q, t)'
  <2>1. CASE Refuse(p, i)
    BY <1>5, <1>6, <2>1 DEF Acquire, Refuse, store, Load
  <2> QED
    BY <1>1, <1>6, <2>1 DEF Acquire
<1>7. ASSUME UNCHANGED <<up, runs, backend, disk, cache>> PROVE Sound(q, t)'
  BY <1>5, <1>7 DEF Load
<1>8. ASSUME NEW p \in Proc, FlushDone(p) PROVE Sound(q, t)'
  BY <1>5, <1>8 DEF FlushDone, Load
<1> QED
  BY <1>2, <1>3, <1>4, <1>6, <1>7, <1>8
  DEF Next, Webhook, AdapterFails, FlushStart, FlushFail, Tick

\* No process leaks its own claim: for any number of issues that share keys,
\* processes, crashes and writes, a running record that a process wrote and reads
\* names a pipeline of its that runs.
THEOREM ClaimsAreReleased == Spec => []NoLeakedClaim
<1> DEFINE Inv == IInv /\ AllKeyed /\ StartedByBooted /\ Leakless
<1>1. Init => Inv
  <2> SUFFICES ASSUME Init PROVE Inv
    OBVIOUS
  <2>1. AllKeyed
    BY DEF Init, AllKeyed, Keyed, EmptyTable
  <2>2. StartedByBooted /\ Leakless
    BY DEF Init, StartedByBooted, Leakless
  <2> QED
    BY <2>1, <2>2, InitHolds
<1>2. Inv /\ [Next]_vars => Inv'
  <2>1. Inv /\ Next => AllKeyed' /\ StartedByBooted'
    BY AllKeyedStep, StartedStep DEF IInv
  <2>2. Inv /\ Next => Leakless'
    BY <2>1, LeakStep
  <2>3. Inv /\ UNCHANGED vars => AllKeyed' /\ StartedByBooted' /\ Leakless'
    BY DEF vars, AllKeyed, Keyed, StartedByBooted, Leakless, Sound, IsLive, Load
  <2> QED
    BY <2>1, <2>2, <2>3, Inductive
<1>3. Inv => NoLeakedClaim
  BY DEF Leakless, Sound, NoLeakedClaim
<1> QED
  BY <1>1, <1>2, <1>3, PTL DEF Spec
=============================================================================
