------------------------------ MODULE RunClaim ------------------------------
(***************************************************************************)
(* The webhook server's claim on an issue: bin/server.ts turns a GitHub     *)
(* "issues" event into at most one background pipeline by acquiring a run   *)
(* record (bin/clients/state-stores.ts) that lives either in a JSON file or *)
(* in the in-memory cache of a gist (bin/clients/gist-state-store.ts).      *)
(*                                                                         *)
(* A process is one incarnation of the server between a boot and a crash or *)
(* redeploy.  Pipelines run concurrently inside a process and end in any    *)
(* order; nothing in the code stops one that has outlived its claim.        *)
(***************************************************************************)
EXTENDS Naturals, FiniteSets

CONSTANTS
  Issue,        \* issue identities, "owner/repo#n"
  Repo,         \* repositories
  RepoOf,       \* Issue -> Repo
  Slot,         \* storage keys
  SafeKey,      \* Issue -> Slot: safeKey() of the run key, not injective in general
  Proc,         \* server incarnations
  InstanceId,   \* Proc -> deploy instance id
  NoId,         \* the id of a process whose environment names no instance
  RunId,        \* pipelines started (a bound on their number)
  NoRun,        \* no run: a record completed without having been claimed
  NoRecord,     \* the key holds no record; no PATCH is in flight
  StaleAfter,   \* age at which a running record may be taken over (6 h)
  PruneAfter,   \* age at which boot removes a terminal record (30 days)
  MaxTime,      \* bound: the clock
  MaxLoading,   \* bound: webhook handlers of one issue awaiting loadAdapter
  MaxQueued,    \* bound: gist writes waiting in writeQueue
  LiveDeps,     \* mail and introspection are configured
  Backends,     \* where runs are kept: "file", or "gist" if GIST_ID is set
  Overlap,      \* with a gist, a new process may boot while the old one still runs
  GistFails     \* a PATCH of the gist may fail (it is logged, never retried)

ASSUME StoreAssumption ==
  /\ RepoOf \in [Issue -> Repo]
  /\ SafeKey \in [Issue -> Slot] /\ IsFiniteSet(Slot)
  /\ NoRun \notin RunId
  /\ NoRecord \notin [status : {"running", "completed", "failed"}, inst : {InstanceId[p] : p \in Proc} \cup {NoId},
                      updatedAt : Nat, run : RunId \cup {NoRun}]

ASSUME BoundAssumption ==
  /\ StaleAfter \in Nat \ {0} /\ PruneAfter \in Nat /\ MaxTime \in Nat
  /\ MaxLoading \in Nat /\ MaxQueued \in Nat
  /\ Backends \subseteq {"file", "gist"} /\ {LiveDeps, Overlap, GistFails} \subseteq BOOLEAN

VARIABLES
  backend,    \* as configured
  now,        \* the clock
  up,         \* processes running
  booted,     \* processes that ever ran
  manifest,   \* repositories with a manifest on disk
  loading,    \* [p][i]: handlers past their guards, awaiting loadAdapter
  runs,       \* the pipelines
  disk,       \* the durable store: the files, or the gist's content
  cache,      \* [p]: the in-memory map of a gist-backed process
  queued,     \* [p]: flushes chained on writeQueue, not yet started
  inflight,   \* [p]: the content of the PATCH in progress, if any
  lossy       \* [p]: a PATCH of p failed and none succeeded since

vars == <<now, up, booted, manifest, loading, runs, backend, disk, cache, queued, inflight, lossy>>
store == <<backend, disk, cache, queued, inflight, lossy>>

-----------------------------------------------------------------------------
Id == {InstanceId[p] : p \in Proc} \cup {NoId}
Record == [status : {"running", "completed", "failed"}, inst : Id, updatedAt : Nat, run : RunId \cup {NoRun}]
Table == [Slot -> Record \cup {NoRecord}]
EmptyTable == [s \in Slot |-> NoRecord]
NoPatch == NoRecord
\* The mark of an idle process is told from every content.
ASSUME PatchAssumption == NoPatch \notin Table
Free == [st |-> "free"]
Run == [st : {"live", "completed", "failed", "lost"}, issue : Issue, proc : Proc, started : Nat, ended : Nat]

Event == [action : {"opened", "labeled", "edited"}, trigger : BOOLEAN]

TypeOK ==
  /\ now \in Nat
  /\ up \subseteq booted /\ booted \subseteq Proc
  /\ manifest \subseteq Repo
  /\ loading \in [Proc -> [Issue -> Nat]]
  /\ runs \in [RunId -> Run \cup {Free}]
  /\ backend \in Backends
  /\ disk \in Table
  /\ cache \in [Proc -> Table]
  /\ queued \in [Proc -> Nat]
  /\ inflight \in [Proc -> Table \cup {NoPatch}]
  /\ lossy \in [Proc -> BOOLEAN]

IsLive(r) == runs[r].st = "live"
LiveAt(p, s) == {r \in RunId : IsLive(r) /\ runs[r].proc = p /\ SafeKey[runs[r].issue] = s}

-----------------------------------------------------------------------------
(* The two storage backends behind load() and save().                       *)

Load(p, s) == IF backend = "gist" THEN cache[p][s] ELSE disk[s]

\* A faulty save(), for comparison: nothing is scheduled while a PATCH runs.
SaveCoalesced(p, s, rec) ==
  IF backend = "gist"
    THEN /\ queued[p] < MaxQueued
         /\ cache' = [cache EXCEPT ![p][s] = rec]
         /\ queued' = IF inflight[p] = NoPatch THEN [queued EXCEPT ![p] = @ + 1] ELSE queued
         /\ UNCHANGED <<backend, disk, inflight, lossy>>
    ELSE /\ disk' = [disk EXCEPT ![s] = rec]
         /\ UNCHANGED <<backend, cache, queued, inflight, lossy>>

\* FileBackend writes the file before save() returns; GistNamespaceBackend
\* updates the map and chains one more flush of the whole namespace.
Save(p, s, rec) ==
  IF backend = "gist"
    THEN /\ queued[p] < MaxQueued
         /\ cache' = [cache EXCEPT ![p][s] = rec]
         /\ queued' = [queued EXCEPT ![p] = @ + 1]
         /\ UNCHANGED <<backend, disk, inflight, lossy>>
    ELSE /\ disk' = [disk EXCEPT ![s] = rec]
         /\ UNCHANGED <<backend, cache, queued, inflight, lossy>>

\* The next link of the writeQueue chain: the content is serialised here, not
\* when the write was scheduled.
FlushStart(p) ==
  /\ backend = "gist" /\ p \in up /\ queued[p] > 0 /\ inflight[p] = NoPatch
  /\ queued' = [queued EXCEPT ![p] = @ - 1]
  /\ inflight' = [inflight EXCEPT ![p] = cache[p]]
  /\ UNCHANGED <<now, backend, up, booted, manifest, loading, runs, disk, cache, lossy>>

FlushDone(p) ==
  /\ backend = "gist" /\ p \in up /\ inflight[p] # NoPatch
  /\ disk' = inflight[p]
  /\ inflight' = [inflight EXCEPT ![p] = NoPatch]
  /\ lossy' = [lossy EXCEPT ![p] = FALSE]
  /\ UNCHANGED <<now, backend, up, booted, manifest, loading, runs, cache, queued>>

FlushFail(p) ==
  /\ backend = "gist" /\ GistFails /\ p \in up /\ inflight[p] # NoPatch
  /\ inflight' = [inflight EXCEPT ![p] = NoPatch]
  /\ lossy' = [lossy EXCEPT ![p] = TRUE]
  /\ UNCHANGED <<now, backend, up, booted, manifest, loading, runs, disk, cache, queued>>

-----------------------------------------------------------------------------
(* The webhook handler.                                                     *)

\* An event that passes every early return before loadAdapter.  Without a
\* manifest the label is not looked at: the repository is onboarded first.
Accepts(i, e) ==
  /\ e.action \in {"opened", "labeled"}
  /\ RepoOf[i] \in manifest \/ LiveDeps
  /\ RepoOf[i] \in manifest => e.trigger

Webhook(p, i, e) ==
  /\ p \in up /\ Accepts(i, e)
  /\ loading[p][i] < MaxLoading
  /\ loading' = [loading EXCEPT ![p][i] = @ + 1]
  /\ UNCHANGED <<now, backend, up, booted, manifest, runs, disk, cache, queued, inflight, lossy>>

\* loadAdapter rejects, or leaves no manifest behind: 500, nothing claimed.
AdapterFails(p, i) ==
  /\ p \in up /\ loading[p][i] > 0
  /\ loading' = [loading EXCEPT ![p][i] = @ - 1]
  /\ UNCHANGED <<now, backend, up, booted, manifest, runs, disk, cache, queued, inflight, lossy>>

SameInstance(rec, id) == id = NoId \/ rec.inst = NoId \/ rec.inst = id
IsFreshForever(rec) == TRUE   \* faulty: no takeover
IsFresh(rec) == now - rec.updatedAt < StaleAfter

\* Faulty: the age test the wrong way round.
HeldOnceStale(rec, id) ==
  /\ rec # NoRecord
  /\ rec.status = "running"
  /\ SameInstance(rec, id)
  /\ ~IsFresh(rec)

\* acquireRun's refusal: the record is running, ours and fresh.
Held(rec, id) ==
  /\ rec # NoRecord
  /\ rec.status = "running"
  /\ SameInstance(rec, id)
  /\ IsFresh(rec)

Claim(p, i, r) ==
  /\ ~Held(Load(p, SafeKey[i]), InstanceId[p])
  /\ runs[r] = Free
  /\ Save(p, SafeKey[i], [status |-> "running", inst |-> InstanceId[p], updatedAt |-> now, run |-> r])
  /\ runs' = [runs EXCEPT ![r] =
                [st |-> "live", issue |-> i, proc |-> p, started |-> now, ended |-> now]]

Refuse(p, i) ==
  /\ Held(Load(p, SafeKey[i]), InstanceId[p])
  /\ UNCHANGED <<runs, store>>

\* loadAdapter resolves (the manifest now exists) and the rest of the handler
\* runs without another await: acquireRun, then the pipeline is spawned.
Acquire(p, i) ==
  /\ p \in up /\ loading[p][i] > 0
  /\ now + StaleAfter <= MaxTime        \* bound: every claim can still go stale
  /\ loading' = [loading EXCEPT ![p][i] = @ - 1]
  /\ manifest' = manifest \cup {RepoOf[i]}
  /\ Refuse(p, i) \/ \E r \in RunId : Claim(p, i, r)
  /\ UNCHANGED <<now, up, booted>>

\* The .then / .catch of runPipeline: completeRun rewrites whatever record is
\* under the key, without asking whether it is this run's.
Completed(rec, outcome) ==
  IF rec = NoRecord
    THEN [status |-> outcome, inst |-> NoId, updatedAt |-> now, run |-> NoRun]
    ELSE [rec EXCEPT !.status = outcome, !.updatedAt = now]

\* Faulty: the .catch that forgets to release.
CompleteOnSuccess(r, outcome) ==
  /\ IsLive(r)
  /\ LET p == runs[r].proc
         s == SafeKey[runs[r].issue]
     IN  IF outcome = "completed" THEN Save(p, s, Completed(Load(p, s), outcome)) ELSE UNCHANGED store
  /\ runs' = [runs EXCEPT ![r].st = outcome, ![r].ended = now]
  /\ UNCHANGED <<now, up, booted, manifest, loading>>

Complete(r, outcome) ==
  /\ IsLive(r)
  /\ LET p == runs[r].proc
         s == SafeKey[runs[r].issue]
     IN  Save(p, s, Completed(Load(p, s), outcome))
  /\ runs' = [runs EXCEPT ![r].st = outcome, ![r].ended = now]
  /\ UNCHANGED <<now, up, booted, manifest, loading>>

-----------------------------------------------------------------------------
(* Process life.                                                            *)

\* Pending handlers, running pipelines, the cache and unflushed writes die
\* with the process.
Crash(p) ==
  /\ p \in up
  /\ up' = up \ {p}
  /\ loading' = [loading EXCEPT ![p] = [i \in Issue |-> 0]]
  /\ runs' = [r \in RunId |-> IF IsLive(r) /\ runs[r].proc = p
                                THEN [runs[r] EXCEPT !.st = "lost", !.ended = now]
                                ELSE runs[r]]
  /\ cache' = [cache EXCEPT ![p] = EmptyTable]
  /\ queued' = [queued EXCEPT ![p] = 0]
  /\ inflight' = [inflight EXCEPT ![p] = NoPatch]
  /\ lossy' = [lossy EXCEPT ![p] = FALSE]
  /\ UNCHANGED <<now, backend, booted, manifest, disk>>

\* pruneOldRuns at startup.
Prunable(rec) ==
  rec # NoRecord /\ rec.status # "running" /\ now - rec.updatedAt > PruneAfter

Pruned(t) == [s \in Slot |-> IF Prunable(t[s]) THEN NoRecord ELSE t[s]]

Boot(p) ==
  /\ p \notin booted
  /\ up = {} \/ (backend = "gist" /\ Overlap)
  /\ up' = up \cup {p}
  /\ booted' = booted \cup {p}
  /\ IF backend = "gist"
       THEN /\ cache' = [cache EXCEPT ![p] = Pruned(disk)]
            /\ queued' = [queued EXCEPT ![p] = Cardinality({s \in Slot : Prunable(disk[s])})]
            /\ UNCHANGED disk
       ELSE /\ disk' = Pruned(disk)
            /\ UNCHANGED <<cache, queued>>
  /\ UNCHANGED <<now, backend, manifest, loading, runs, inflight, lossy>>

Tick ==
  /\ now < MaxTime
  /\ now' = now + 1
  /\ UNCHANGED <<backend, up, booted, manifest, loading, runs, disk, cache, queued, inflight, lossy>>

-----------------------------------------------------------------------------
Init ==
  /\ now = 0
  /\ up = {} /\ booted = {}
  /\ manifest \in SUBSET Repo
  /\ loading = [p \in Proc |-> [i \in Issue |-> 0]]
  /\ runs = [r \in RunId |-> Free]
  /\ backend \in Backends
  /\ disk = EmptyTable
  /\ cache = [p \in Proc |-> EmptyTable]
  /\ queued = [p \in Proc |-> 0]
  /\ inflight = [p \in Proc |-> NoPatch]
  /\ lossy = [p \in Proc |-> FALSE]

Next ==
  \/ \E p \in Proc, i \in Issue, e \in Event : Webhook(p, i, e)
  \/ \E p \in Proc, i \in Issue : AdapterFails(p, i) \/ Acquire(p, i)
  \/ \E r \in RunId, outcome \in {"completed", "failed"} : Complete(r, outcome)
  \/ \E p \in Proc : FlushStart(p) \/ FlushDone(p) \/ FlushFail(p)
  \/ \E p \in Proc : Boot(p) \/ Crash(p)
  \/ Tick

Spec == Init /\ [][Next]_vars

\* Time passes.  Pipelines, webhooks, crashes and the network owe nothing.
FairSpec == Spec /\ WF_vars(Tick)

-----------------------------------------------------------------------------
\* A run of slot s in p has outlived the staleness bound (it may be over).
Overdue(p, s) ==
  \E r \in RunId :
    /\ runs[r] # Free /\ runs[r].proc = p /\ SafeKey[runs[r].issue] = s
    /\ IF IsLive(r) THEN now - runs[r].started >= StaleAfter
                    ELSE runs[r].ended - runs[r].started >= StaleAfter

\* As long as no pipeline of an issue outlives the six hours of its claim, a
\* process never works on that issue with two pipelines at once: the trigger
\* that is answered "accepted" is the only one (server.ts, acquireRun).
ExclusiveUnlessOverdue ==
  \A p \in Proc, s \in Slot :
    Overdue(p, s) \/ \A r1, r2 \in LiveAt(p, s) : r1 = r2

\* A process leaks no claim of its own: a running record that one of its
\* pipelines wrote and that it would respect belongs to a pipeline that still
\* runs (the .then and the .catch of runPipeline both release it).
NoLeakedClaim ==
  \A p \in up, s \in Slot :
    LET rec == Load(p, s)
    IN  /\ rec # NoRecord /\ rec.status = "running" /\ SameInstance(rec, InstanceId[p])
        /\ runs[rec.run].proc = p
        => IsLive(rec.run)

\* The chained writeQueue loses no update: when nothing is queued or in
\* flight, and the last PATCH did not fail, the gist is the cache of the process
\* that writes it, as long as no second process overlaps.
QuiescentDurable ==
  backend = "gist" => \A p \in up :
    /\ ~Overlap \/ booted = {p}
    /\ queued[p] = 0 /\ inflight[p] = NoPatch /\ ~lossy[p]
    => disk = cache[p]

\* A pipeline that died with its process does not block its issue for good:
\* its record stops being respected by a process that stays up.
DeadClaimExpires ==
  \A p \in Proc, s \in Slot :
    (/\ p \in up /\ Held(Load(p, s), InstanceId[p])
     /\ ~IsLive(Load(p, s).run))
      ~> (p \notin up \/ ~Held(Load(p, s), InstanceId[p]) \/ LiveAt(p, s) # {})
=============================================================================
