----------------------------- MODULE HitlInbox -----------------------------
(***************************************************************************)
(* The human-in-the-loop inbox (core/agents/hitl): a table of questions    *)
(* mailed to a human, whose status moves by compare-and-swap.  Four        *)
(* parties touch a row: the inbound webhook (reply-ingest.ts), which awaits *)
(* a model between accepting a reply and deciding on it; the pipeline that  *)
(* asks and resumes (resume-hook.ts); and two commands of osa-admin, which  *)
(* run in an operating-system process of their own on the same database.    *)
(*                                                                         *)
(* A reply's text, and the action the model reads in it, are both named by  *)
(* the message they come from.                                             *)
(***************************************************************************)
EXTENDS Naturals

CONSTANTS
  Entry,       \* questions
  Attempt,     \* pipeline attempts
  AttemptOf,   \* Entry -> Attempt
  Mid,         \* inbound messages, by Message-ID
  To,          \* Mid -> Entry: the entry named by the plus-address
  BlankMid,    \* the message without a Message-ID, if it is in Mid
  Nothing,     \* SQL NULL
  Admin,       \* what the operator wrote
  Ingest,      \* concurrent calls of ingestInboundEmail (a bound)
  Resumer,     \* concurrent calls of resumePipeline (a bound)
  MaxTimes,    \* bound: Mid -> deliveries of it that pass the guards
  MaxResumes,  \* bound: Entry -> resumes of it before the operator stops forcing it
  MaxCrashes   \* bound: crashes of the server

ASSUME RouteAssumption ==
  /\ AttemptOf \in [Entry -> Attempt]
  /\ To \in [Mid -> Entry]
  /\ Nothing \notin Mid \cup {Admin} /\ Admin \notin Mid
  /\ MaxTimes \in [Mid -> Nat] /\ MaxResumes \in [Entry -> Nat] /\ MaxCrashes \in Nat

VARIABLES
  status,     \* the row's status; "absent" before create()
  mid,        \* inbound_message_id
  reply,      \* stripped_reply: whose text it is
  action,     \* mapped_action: from whose text it was read
  ingest,     \* ingests awaiting the model
  resumer,    \* snapshots held by callers of resumePipeline
  heard,      \* the human_input evidence last appended for an entry
  resumes,    \* how many times an entry was resumed into the dossier
  sweep,      \* ids selected by expire-sweep, not yet updated
  admin,      \* what set-action read, before it writes
  forced,     \* history: entries whose action the operator set
  crashes,    \* how often the server has died
  times,      \* how often a message was accepted for mapping, which MaxTimes bounds
  asking,     \* questions created whose caller has yet to close their older siblings
  cut         \* history: those whose caller died before it did

vars == <<status, mid, reply, action, ingest, resumer, heard, resumes, sweep, admin,
          forced, crashes, times, asking, cut>>

-----------------------------------------------------------------------------
Status == {"sent", "reply_received", "mapped", "needs_clarification",
           "resumed", "superseded", "expired"}
Open == {"sent", "reply_received", "needs_clarification"}
Text == Mid \cup {Nothing, Admin}
Human == [decision : Text, hint : Text]
Idle == [idle |-> TRUE]

TypeOK ==
  /\ status \in [Entry -> Status \cup {"absent"}]
  /\ mid \in [Entry -> Mid \cup {Nothing}]
  /\ reply \in [Entry -> Text] /\ action \in [Entry -> Text]
  /\ ingest \in [Ingest -> [entry : Entry, mid : Mid] \cup {Idle}]
  /\ resumer \in [Resumer -> [entry : Entry, human : Human] \cup {Idle}]
  /\ heard \in [Entry -> Human]
  /\ resumes \in [Entry -> Nat]
  /\ sweep \subseteq Entry
  /\ admin \in [entry : Entry, from : Status] \cup {Idle}
  /\ forced \subseteq Entry
  /\ crashes \in Nat
  /\ times \in [Mid -> Nat]
  /\ asking \subseteq Entry /\ cut \subseteq Entry

Init ==
  /\ status = [e \in Entry |-> "absent"]
  /\ mid = [e \in Entry |-> Nothing]
  /\ reply = [e \in Entry |-> Nothing] /\ action = [e \in Entry |-> Nothing]
  /\ ingest = [g \in Ingest |-> Idle]
  /\ resumer = [r \in Resumer |-> Idle]
  /\ heard = [e \in Entry |-> [decision |-> Nothing, hint |-> Nothing]]
  /\ resumes = [e \in Entry |-> 0]
  /\ sweep = {}
  /\ admin = Idle
  /\ forced = {} /\ crashes = 0
  /\ times = [m \in Mid |-> 0]
  /\ asking = {} /\ cut = {}

-----------------------------------------------------------------------------
(* The pipeline asks: create(), then supersedeOpenForAttempt().  No caller  *)
(* of the two is in the repository: they are two statements, with whatever  *)
(* else happens between them, and a caller that dies closes nothing.        *)

Ask(e) ==
  /\ status[e] = "absent"
  /\ status' = [status EXCEPT ![e] = "sent"]
  /\ asking' = asking \cup {e}
  /\ UNCHANGED <<mid, reply, action, ingest, resumer, heard, resumes, sweep, admin, forced,
                 crashes, times, cut>>

\* Open siblings of the new decision point are closed.
Superseded(e, st) ==
  [x \in Entry |-> IF x # e /\ AttemptOf[x] = AttemptOf[e] /\ st[x] \in Open
                     THEN "superseded" ELSE st[x]]

Supersede(e) ==
  /\ e \in asking
  /\ status' = Superseded(e, status)
  /\ asking' = asking \ {e}
  /\ UNCHANGED <<mid, reply, action, ingest, resumer, heard, resumes, sweep, admin, forced,
                 crashes, times, cut>>

-----------------------------------------------------------------------------
(* ingestInboundEmail.                                                      *)

Duplicate(m) == m # BlankMid /\ \E e \in Entry : mid[e] = m

\* The UNIQUE index lets the update through.
Unique(e, m) == \A x \in Entry \ {e} : mid[x] # m

\* Faulty: a reply to a decided question is taken as well.
AcceptDecided(g, m) ==
  LET e == To[m]
  IN  /\ ingest[g] = Idle /\ times[m] < MaxTimes[m]
      /\ ~Duplicate(m) /\ Unique(e, m)
      /\ status[e] \in Open \cup {"mapped"}
      /\ status' = [status EXCEPT ![e] = "reply_received"]
      /\ mid' = [mid EXCEPT ![e] = m] /\ reply' = [reply EXCEPT ![e] = m]
      /\ ingest' = [ingest EXCEPT ![g] = [entry |-> e, mid |-> m]]
      /\ times' = [times EXCEPT ![m] = @ + 1]
      /\ UNCHANGED <<action, resumer, heard, resumes, sweep, admin, forced, crashes,
                     asking, cut>>

\* Up to the await: the replay check, the closed and decided statuses that
\* are answered without a change, and the compare-and-swap, whose expected
\* status was read in the same turn of the event loop.
Accept(g, m) ==
  LET e == To[m]
  IN  /\ ingest[g] = Idle
      /\ times[m] < MaxTimes[m]
      /\ ~Duplicate(m)
      /\ status[e] \in Open
      /\ Unique(e, m)
      /\ status' = [status EXCEPT ![e] = "reply_received"]
      /\ mid' = [mid EXCEPT ![e] = m]
      /\ reply' = [reply EXCEPT ![e] = m]
      /\ ingest' = [ingest EXCEPT ![g] = [entry |-> e, mid |-> m]]
      /\ times' = [times EXCEPT ![m] = @ + 1]
      /\ UNCHANGED <<action, resumer, heard, resumes, sweep, admin, forced, crashes,
                     asking, cut>>

\* Faulty: the update does not say which status it expects.
MappedUnchecked(e, m) ==
  status' = [status EXCEPT ![e] = "mapped"] /\ action' = [action EXCEPT ![e] = m]

\* The model read an expected action, with enough confidence.
Mapped(e, m) ==
  IF status[e] = "reply_received"
    THEN /\ status' = [status EXCEPT ![e] = "mapped"]
         /\ action' = [action EXCEPT ![e] = m]
    ELSE UNCHANGED <<status, action>>

\* Faulty: an unclear reply is dropped.
UnclearDropped(e, guess) == UNCHANGED <<status, action>>

\* It did not, or the call failed: an expected action is still noted down.
Unclear(e, guess) ==
  IF status[e] = "reply_received"
    THEN /\ status' = [status EXCEPT ![e] = "needs_clarification"]
         /\ action' = [action EXCEPT ![e] = guess]
    ELSE UNCHANGED <<status, action>>

\* After the await.  The result of the compare-and-swap is not looked at.
Decide(g) ==
  /\ ingest[g] # Idle
  /\ LET e == ingest[g].entry
         m == ingest[g].mid
     IN  Mapped(e, m) \/ \E guess \in {m, Nothing} : Unclear(e, guess)
  /\ ingest' = [ingest EXCEPT ![g] = Idle]
  /\ UNCHANGED <<mid, reply, resumer, heard, resumes, sweep, admin, forced, crashes, times,
                 asking, cut>>

-----------------------------------------------------------------------------
(* resumePipeline.  The caller hands it a row it has read.                  *)

ReadToResume(r, e) ==
  /\ resumer[r] = Idle
  /\ status[e] = "mapped" /\ action[e] # Nothing
  /\ resumer' = [resumer EXCEPT ![r] =
                   [entry |-> e, human |-> [decision |-> action[e], hint |-> reply[e]]]]
  /\ UNCHANGED <<status, mid, reply, action, ingest, heard, resumes, sweep, admin, forced,
                 crashes, times, asking, cut>>

\* The evidence is appended after the row has been committed: it is not when
\* there is no dossier to extend, and the process may die in between.
Tell(e, human) == heard' = [heard EXCEPT ![e] = human] \/ UNCHANGED heard

\* Faulty: no compare-and-swap.
ResumeUnchecked(r) ==
  /\ resumer[r] # Idle
  /\ LET e == resumer[r].entry
     IN  /\ status' = [status EXCEPT ![e] = "resumed"]
         /\ heard' = [heard EXCEPT ![e] = resumer[r].human]
         /\ resumes' = [resumes EXCEPT ![e] = @ + 1]
  /\ resumer' = [resumer EXCEPT ![r] = Idle]
  /\ UNCHANGED <<mid, reply, action, ingest, sweep, admin, forced, crashes, times, asking,
                 cut>>

Resume(r) ==
  /\ resumer[r] # Idle
  /\ LET e == resumer[r].entry
     IN  IF status[e] = "mapped"
           THEN /\ status' = [status EXCEPT ![e] = "resumed"]
                /\ Tell(e, resumer[r].human)
                /\ resumes' = [resumes EXCEPT ![e] = @ + 1]
           ELSE UNCHANGED <<status, heard, resumes>>
  /\ resumer' = [resumer EXCEPT ![r] = Idle]
  /\ UNCHANGED <<mid, reply, action, ingest, sweep, admin, forced, crashes, times, asking,
                 cut>>

\* The server dies: calls in progress are gone, the database stays.
Crash ==
  /\ crashes < MaxCrashes
  /\ crashes' = crashes + 1
  /\ ingest' = [g \in Ingest |-> Idle]
  /\ resumer' = [r \in Resumer |-> Idle]
  /\ asking' = {} /\ cut' = cut \cup asking
  /\ UNCHANGED <<status, mid, reply, action, heard, resumes, sweep, admin, forced, times>>

-----------------------------------------------------------------------------
(* osa-admin.                                                               *)

\* expireDue: a SELECT of the open rows past expires_at, which any of them may
\* be, then an UPDATE by id, outside any transaction.
SweepSelect ==
  /\ sweep = {}
  /\ \E Due \in (SUBSET {e \in Entry : status[e] \in Open}) \ {{}} : sweep' = Due
  /\ UNCHANGED <<status, mid, reply, action, ingest, resumer, heard, resumes, admin, forced,
                 crashes, times, asking, cut>>

SweepUpdate ==
  /\ sweep # {}
  /\ status' = [e \in Entry |-> IF e \in sweep THEN "expired" ELSE status[e]]
  /\ sweep' = {}
  /\ UNCHANGED <<mid, reply, action, ingest, resumer, heard, resumes, admin, forced,
                 crashes, times, asking, cut>>

\* set-action: read the row, then swap whatever status it had to "mapped".
AdminRead(e) ==
  /\ admin = Idle /\ status[e] # "absent"
  /\ resumes[e] < MaxResumes[e]
  /\ admin' = [entry |-> e, from |-> status[e]]
  /\ UNCHANGED <<status, mid, reply, action, ingest, resumer, heard, resumes, sweep,
                 forced, crashes, times, asking, cut>>

AdminWrite ==
  /\ admin # Idle
  /\ LET e == admin.entry
     IN  IF status[e] = admin.from
           THEN /\ status' = [status EXCEPT ![e] = "mapped"]
                /\ action' = [action EXCEPT ![e] = Admin]
                /\ reply' = [reply EXCEPT ![e] = Admin]
                /\ forced' = forced \cup {e}
           ELSE UNCHANGED <<status, action, reply, forced>>
  /\ admin' = Idle
  /\ UNCHANGED <<mid, ingest, resumer, heard, resumes, sweep, crashes, times, asking, cut>>

-----------------------------------------------------------------------------
Next ==
  \/ \E e \in Entry : Ask(e) \/ Supersede(e) \/ AdminRead(e)
  \/ \E g \in Ingest : Decide(g) \/ \E m \in Mid : Accept(g, m)
  \/ \E r \in Resumer : Resume(r) \/ \E e \in Entry : ReadToResume(r, e)
  \/ SweepSelect \/ SweepUpdate \/ AdminWrite
  \/ Crash

Spec == Init /\ [][Next]_vars

\* The model call returns or fails.  Nobody owes a reply, a resume or a sweep.
FairSpec == Spec /\ \A g \in Ingest : WF_vars(Decide(g))

-----------------------------------------------------------------------------
\* An answer enters the dossier once: whatever the replays, concurrent
\* resumes, sweeps and crashes, an entry is resumed at most once, unless the
\* operator forces it back to "mapped" (resume-hook.ts, transition).
ResumeOnce == \A e \in Entry \ forced : resumes[e] <= 1

\* Once its caller has closed them, a new decision point has no older sibling
\* open, and no late reply reopens one (supersedeOpenForAttempt against the step
\* after the await).
OneOpenPerAttempt ==
  \A e1, e2 \in Entry \ (asking \cup cut) :
    status[e1] \in Open /\ status[e2] \in Open /\ AttemptOf[e1] = AttemptOf[e2] => e1 = e2

\* What the dossier was told, if anything, is what the row says.
HeardIsStored ==
  \A e \in Entry \ forced :
    status[e] = "resumed" /\ heard[e].decision # Nothing =>
      heard[e] = [decision |-> action[e], hint |-> reply[e]]

\* An accepted reply does not stay undecided, unless the server dies.
ReplyDecided ==
  \A e \in Entry : status[e] = "reply_received" ~> (status[e] # "reply_received" \/ crashes > 0)

-----------------------------------------------------------------------------
(* What a row means to the pipeline that asks.                              *)

Stage(e) ==
  IF e \in forced THEN "forced"
  ELSE CASE status[e] = "absent" -> "unasked"
         [] status[e] \in Open -> "open"
         [] status[e] = "mapped" -> "decided"
         [] OTHER -> "closed"

Unheard == [decision |-> Nothing, hint |-> Nothing]
Decision(e) == IF Stage(e) = "decided" THEN [decision |-> action[e], hint |-> reply[e]] ELSE Unheard
HandedOn(e) == IF e \in forced THEN Unheard ELSE heard[e]

Promise == INSTANCE OneShotQuestion WITH
  Question <- Entry, Message <- Mid, None <- Nothing,
  state <- [e \in Entry |-> Stage(e)],
  answer <- [e \in Entry |-> Decision(e)],
  told <- [e \in Entry |-> HandedOn(e)],
  closing <- asking

\* The inbox implements OneShotQuestion: whatever replies, replays, sweeps,
\* concurrent resumes and crashes, a question is decided once, by a message to
\* it, handed on at most once as it was decided, and never reopened.
AsksOnce == Promise!Spec

=============================================================================
