----------------------------- MODULE Onboarding -----------------------------
(***************************************************************************)
(* An issue of a repository the harness does not know yet: the server has   *)
(* an adapter and a manifest drafted, mails the draft to the PM, revises it *)
(* as often as the PM asks, writes both files once the PM approves, makes   *)
(* the labels, loads the adapter and starts a pipeline (bin/server.ts,      *)
(* core/adapter-loader.ts, core/agents/introspection-orchestration.ts,      *)
(* core/introspection-email-loop.ts).                                       *)
(*                                                                         *)
(* The files and the stored state of the conversation outlive the process;  *)
(* the calls, the conversation and its waiter do not.  There is one         *)
(* repository: others share none of this.                                   *)
(***************************************************************************)
EXTENDS Integers

CONSTANTS
  Event,          \* deliveries of the issues webhook
  Nobody,
  MaxRevisions,   \* maxIterations of the conversation
  ByHand,         \* BOOLEAN: an operator may have written the manifest already
  MaxRestarts      \* bound

ASSUME OnboardingAssumption ==
  /\ Nobody \notin Event /\ ByHand \in BOOLEAN
  /\ MaxRevisions \in Nat /\ MaxRestarts \in Nat

\* Drafts are numbered in the order they are made; 0 is no draft or no file,
\* and a manifest an operator wrote is none of them, nor a file of which only a
\* part was written.
Draft == Nat
Operator == -1
Torn == -2

VARIABLES
  at,        \* [event]: where its handler is
  used,      \* [event]: the adapter it loaded, and the manifest its pipeline got
  inFlight,  \* inFlightByRepo: the event whose call runs the introspection
  holds,     \* [event]: the draft its introspection is about to write
  stored,    \* the conversation's stored state
  last,      \* the latest draft made
  manifest, adapter,   \* the files
  labels,    \* the repository's labels have been made
  approved,  \* history: the drafts the PM said yes to when they were the latest
  spoiled,   \* history: a disk operation failed
  restarts

onboardVars == <<at, used, inFlight, holds, stored, last, manifest, adapter, labels, approved, spoiled, restarts>>
disk == <<manifest, adapter>>
talk == <<stored, last, approved>>

-----------------------------------------------------------------------------
Introspecting == {"gathering", "drafting", "sending", "waiting", "revising", "looking", "writing",
                  "completing", "labeling", "unmanifest", "unadapt"}
Busy == Introspecting \cup {"joined", "loading", "checking"}
Answered == {"ignored", "error", "started"}

OnboardTypeOK ==
  /\ at \in [Event -> {"new", "lost"} \cup Busy \cup Answered]
  /\ used \in [Event -> [adapter : Draft \cup {Torn}, manifest : Draft \cup {Operator, Torn}]]
  /\ inFlight \in Event \cup {Nobody}
  /\ holds \in [Event -> Draft]
  /\ stored \in [draft : Draft, revisions : 0..MaxRevisions]
  /\ last \in Draft /\ approved \subseteq 1..last
  /\ manifest \in Draft \cup {Operator, Torn} /\ adapter \in Draft \cup {Torn}
  /\ labels \in BOOLEAN /\ spoiled \in BOOLEAN /\ restarts \in Nat

NoState == [draft |-> 0, revisions |-> 0]

OnboardInit ==
  /\ at = [e \in Event |-> "new"]
  /\ used = [e \in Event |-> [adapter |-> 0, manifest |-> 0]]
  /\ inFlight = Nobody /\ holds = [e \in Event |-> 0]
  /\ stored = NoState /\ last = 0
  /\ manifest \in {0} \cup {Operator : b \in {TRUE} \cap {ByHand}} /\ adapter = 0
  /\ labels = FALSE /\ approved = {} /\ spoiled = FALSE /\ restarts = 0

Goto(e, place) == at' = [at EXCEPT ![e] = place]

-----------------------------------------------------------------------------
(* The handler of the webhook and the loader of the adapter.                *)

\* With a manifest, only its trigger label starts anything; without one every
\* event does.
Receive(e) ==
  /\ at[e] = "new"
  /\ Goto(e, "loading") \/ (manifest # 0 /\ Goto(e, "ignored"))
  /\ UNCHANGED <<used, inFlight, holds, talk, disk, labels, spoiled, restarts>>

\* The module is required afresh; what is left of one need not compile.
Require(e) ==
  /\ at[e] = "loading" /\ adapter # 0
  /\ \/ Goto(e, "checking") /\ used' = [used EXCEPT ![e].adapter = adapter]
     \/ adapter = Torn /\ Goto(e, "error") /\ UNCHANGED used
  /\ UNCHANGED <<inFlight, holds, talk, disk, labels, spoiled, restarts>>

\* Mutant: every call runs an introspection of its own.
IntrospectAlways(e) ==
  /\ at[e] = "loading" /\ adapter = 0
  /\ inFlight' = e /\ Goto(e, "gathering")
  /\ UNCHANGED <<used, holds, talk, disk, labels, spoiled, restarts>>

\* Concurrent calls for a repository share one introspection.
Introspect(e) ==
  /\ at[e] = "loading" /\ adapter = 0
  /\ \/ inFlight # Nobody /\ Goto(e, "joined") /\ UNCHANGED inFlight
     \/ inFlight = Nobody /\ Goto(e, "gathering") /\ inFlight' = e
  /\ UNCHANGED <<used, holds, talk, disk, labels, spoiled, restarts>>

\* Its methods are tried, which takes a while; then the manifest is read again.
Check(e) ==
  /\ at[e] = "checking"
  /\ \/ Goto(e, "error") /\ UNCHANGED used
     \/ /\ manifest # 0 /\ Goto(e, "started")
        /\ used' = [used EXCEPT ![e].manifest = manifest]
  /\ UNCHANGED <<inFlight, holds, talk, disk, labels, spoiled, restarts>>

-----------------------------------------------------------------------------
(* runIntrospection.                                                        *)

\* The introspection is over for everybody who waits for it; those who joined
\* it find the adapter, or load it no more.
Over(e, place) ==
  /\ inFlight' = Nobody
  /\ at' = [x \in Event |-> IF x = e \/ at[x] = "joined" THEN place ELSE at[x]]

\* What fails before a draft is mailed is mailed to the PM instead, if it can be.
Fails(e) == Over(e, "error")

\* The signals come from a shallow clone.
Gather(e) ==
  /\ at[e] = "gathering"
  /\ \/ Goto(e, "drafting") /\ UNCHANGED inFlight
     \/ Fails(e)
  /\ UNCHANGED <<used, holds, talk, disk, labels, spoiled, restarts>>

\* The first draft must have a default class and compile.
MakeDraft(e) ==
  /\ at[e] = "drafting"
  /\ \/ last' = last + 1 /\ Goto(e, "sending") /\ UNCHANGED inFlight
     \/ Fails(e) /\ UNCHANGED last
  /\ UNCHANGED <<used, holds, stored, approved, disk, labels, spoiled, restarts>>

\* A draft is stored once it is mailed; a mail that cannot be sent ends the
\* introspection, and what is stored stays.
Mails(e, draft, revisions) ==
  \/ /\ stored' = [draft |-> draft, revisions |-> revisions]
     /\ Goto(e, "waiting") /\ UNCHANGED inFlight
  \/ Over(e, "error") /\ UNCHANGED stored

\* What is stored of an earlier conversation is overwritten.
SendDraft(e) ==
  /\ at[e] = "sending" /\ Mails(e, last, 0)
  /\ UNCHANGED <<used, holds, last, approved, disk, labels, spoiled, restarts>>

\* A reply reaches the waiter.  One that comes when nobody waits is put in a
\* mailbox, under its address, where nobody looks for it (see ReplyGate).
Approve(e) ==
  /\ at[e] = "waiting"
  /\ approved' = approved \cup {stored.draft}
  /\ stored' = NoState /\ holds' = [holds EXCEPT ![e] = stored.draft]
  /\ Goto(e, "looking")
  /\ UNCHANGED <<used, inFlight, last, disk, labels, spoiled, restarts>>

\* The last revision asked for ends the conversation; its state stays.
AskForChanges(e) ==
  /\ at[e] = "waiting"
  /\ \/ stored.revisions < MaxRevisions /\ Goto(e, "revising") /\ UNCHANGED inFlight
     \/ stored.revisions = MaxRevisions /\ Over(e, "error")
  /\ UNCHANGED <<used, holds, talk, disk, labels, spoiled, restarts>>

\* Mutant: the revisions are not counted.
ReviseUncounted(e) ==
  /\ at[e] = "revising"
  /\ last' = last /\ stored' = stored
  /\ Goto(e, "waiting")
  /\ UNCHANGED <<used, inFlight, holds, approved, disk, labels, spoiled, restarts>>

\* A model revises the draft, which nobody compiles, and it is mailed.
Revise(e) ==
  /\ at[e] = "revising"
  /\ \/ last' = last + 1 /\ Mails(e, last + 1, stored.revisions + 1)
     \/ Over(e, "error") /\ UNCHANGED <<stored, last>>
  /\ UNCHANGED <<used, holds, approved, disk, labels, spoiled, restarts>>

-----------------------------------------------------------------------------
(* Activation.                                                              *)

\* A disk operation that fails ends the introspection; nothing is undone, and of
\* the file that was being written there may be nothing, a part or all.
DiskFails(e) == Over(e, "error") /\ spoiled' = TRUE
Written(e) == {0, Torn, holds[e]}

\* Neither file is ever overwritten.
Look(e) ==
  /\ at[e] = "looking"
  /\ \/ manifest = 0 /\ adapter = 0 /\ Goto(e, "writing") /\ UNCHANGED inFlight
     \/ (manifest # 0 \/ adapter # 0) /\ Over(e, "error")
  /\ UNCHANGED <<used, holds, talk, disk, labels, spoiled, restarts>>

WriteManifest(e) ==
  /\ at[e] = "writing"
  /\ \/ manifest' = holds[e] /\ Goto(e, "completing") /\ UNCHANGED <<inFlight, spoiled>>
     \/ manifest' \in Written(e) /\ DiskFails(e)
  /\ UNCHANGED <<used, holds, talk, adapter, labels, restarts>>

WriteAdapter(e) ==
  /\ at[e] = "completing"
  /\ \/ adapter' = holds[e] /\ Goto(e, "labeling") /\ UNCHANGED <<inFlight, spoiled>>
     \/ adapter' \in Written(e) /\ DiskFails(e)
  /\ UNCHANGED <<used, holds, talk, manifest, labels, restarts>>

\* Mutant: a failure leaves the files where they are, without the manifest.
MakeLabelsHalf(e) ==
  /\ at[e] = "labeling"
  /\ \/ Over(e, "loading") /\ labels' = TRUE
     \/ Goto(e, "unadapt") /\ UNCHANGED <<inFlight, labels>>
  /\ UNCHANGED <<used, holds, talk, disk, spoiled, restarts>>

\* A failure rolls the files back, and the PM's approval with them.
MakeLabels(e) ==
  /\ at[e] = "labeling"
  /\ \/ Over(e, "loading") /\ labels' = TRUE
     \/ Goto(e, "unmanifest") /\ UNCHANGED <<inFlight, labels>>
  /\ UNCHANGED <<used, holds, talk, disk, spoiled, restarts>>

\* A file that cannot be removed stays, and the rollback goes on.
RemoveManifest(e) ==
  /\ at[e] = "unmanifest" /\ Goto(e, "unadapt")
  /\ \/ manifest' = 0 /\ UNCHANGED spoiled
     \/ UNCHANGED manifest /\ spoiled' = TRUE
  /\ UNCHANGED <<used, inFlight, holds, talk, adapter, labels, restarts>>

RemoveAdapter(e) ==
  /\ at[e] = "unadapt" /\ Over(e, "error")
  /\ \/ adapter' = 0 /\ UNCHANGED spoiled
     \/ UNCHANGED adapter /\ spoiled' = TRUE
  /\ UNCHANGED <<used, holds, talk, manifest, labels, restarts>>

\* What a crash may leave of a file: part of it if it was being written.
Left(file, place) == IF \E e \in Event : at[e] = place THEN {file, Torn} ELSE {file}

\* The process dies and is started again.
Restart ==
  /\ restarts < MaxRestarts /\ restarts' = restarts + 1
  /\ at' = [e \in Event |-> IF at[e] \in Busy THEN "lost" ELSE at[e]]
  /\ inFlight' = Nobody
  /\ manifest' \in Left(manifest, "writing") /\ adapter' \in Left(adapter, "completing")
  /\ UNCHANGED <<used, holds, talk, labels, spoiled>>

-----------------------------------------------------------------------------
Handles(e) ==
  \/ Receive(e) \/ Require(e) \/ Introspect(e) \/ Check(e)
  \/ Gather(e) \/ MakeDraft(e) \/ SendDraft(e) \/ Revise(e)
  \/ Look(e) \/ WriteManifest(e) \/ WriteAdapter(e)
  \/ MakeLabels(e) \/ RemoveManifest(e) \/ RemoveAdapter(e)

Answers(e) == Approve(e) \/ AskForChanges(e)

OnboardNext == (\E e \in Event : Handles(e) \/ Answers(e)) \/ Restart
OnboardSpec == OnboardInit /\ [][OnboardNext]_onboardVars

\* Requests, models and the disk answer; so does the PM, sooner or later, while
\* a conversation waits: no timeout would end it.
FairOnboardSpec == OnboardSpec /\ \A e \in Event : WF_onboardVars(Handles(e)) /\ WF_onboardVars(Answers(e))

-----------------------------------------------------------------------------
(* Properties *)

\* A draft the PM approved, or what a write that failed or a crash has left of it.
Fit == approved \cup (IF spoiled \/ restarts > 0 THEN {Torn} ELSE {})

\* Nothing is in place that the PM did not approve, and no pipeline starts with
\* it: the two files are never of different drafts, whatever failed, crashed or
\* ran at the same time.
OnlyApproved ==
  /\ adapter # 0 => adapter \in Fit /\ manifest \in (IF adapter = Torn THEN approved ELSE {0, adapter})
  /\ manifest \notin {0, Operator} => manifest \in Fit
  /\ \A e \in Event : at[e] = "started" => used[e].adapter \in Fit /\ used[e].manifest \in Fit

\* "rolls back newly written files when label activation fails"
\* (introspection-orchestration.test.ts:94): as long as the disk works and the
\* process lives, an introspection leaves both files and the labels, or no file.
WholeOrNothing ==
  inFlight = Nobody /\ ~spoiled /\ restarts = 0 =>
    /\ adapter # 0 => manifest = adapter /\ labels
    /\ adapter = 0 => manifest \in {0, Operator}

\* If the PM answers, every delivery is, or its process dies.
EveryEventAnswered == \A e \in Event : <>(at[e] \in Answered \cup {"lost"})
=============================================================================
