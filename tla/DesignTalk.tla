----------------------------- MODULE DesignTalk -----------------------------
(***************************************************************************)
(* How a pipeline settles what it will build or fix: the mail conversation *)
(* with the maintainer about the design, up to an approval, and the one    *)
(* about its scope, which other open issues the same change should close   *)
(* (bin/run-pipeline.ts: runPMDesignLoop, runIssueSweepLoop;               *)
(* core/pm-email-loop.ts, core/issue-sweep.ts, core/gmail-mcp.ts).         *)
(*                                                                         *)
(* ReplyGate has the way of a reply through addresses, waiters and the     *)
(* mailbox; here a reply reaches a wait or, between two waits, is lost.    *)
(* This module has what is said: questions, decisions, the thread and what *)
(* is stored of it.                                                        *)
(***************************************************************************)
EXTENDS Naturals, Sequences, FiniteSets

CONSTANTS
  Question,    \* the open questions of the brief
  Issue,       \* issue numbers a scope reply can name
  Primary,     \* the issue of the run
  MaxReplies,  \* bound: replies about the design that do not approve
  NoReply, NoState

ASSUME TalkAssumption ==
  /\ IsFiniteSet(Question) /\ Question # {}
  /\ Primary \in Issue
  /\ MaxReplies \in Nat

\* What a reply about the design says: `decides', the questions settled by the
\* lines read as decisions; `names', those of which a word is in it, in such a
\* line, in another or in the mail quoted below.  A "Yes" decides and names
\* nothing; a question asked back names and decides nothing.
Answer == [approves : BOOLEAN, decides : SUBSET Question, names : SUBSET Question]

\* What a reply about the scope says: "all"; the numbers it wants and those it
\* does not, the former with a verb ("include", "keep") or bare; and whether
\* the question is quoted below it.
ScopeAnswer == [all : BOOLEAN, wants : SUBSET Issue, drops : SUBSET Issue,
                verb : BOOLEAN, quotes : BOOLEAN]

VARIABLES
  model,    \* the follow-ups are drafted by a language model
  at,       \* where the pipeline is
  thread,   \* the conversation, as held in memory and by the watcher
  known,    \* the decisions and the open questions, as the loop holds them
  drafted,  \* those of the follow-up being sent
  stored,   \* the thread and the lists, as stored
  got,      \* the reply in hand
  post,     \* the reply on its way
  written,  \* replies about the design written so far
  design,   \* the decisions of the agreed design
  sweep,    \* what the sweep found: very likely and maybe related
  scope,    \* the issues confirmed
  worked,   \* the issues the agents are given
  talk,     \* history: the mails sent and the replies heard about the design
  scopeWord \* history: the scope reply heard

thinking == <<thread, known, drafted, stored>>
result == <<design, sweep, scope, worked>>
history == <<talk, scopeWord>>
talkVars == <<model, at, thinking, got, post, written, result, history>>

Mail(asks) == [by |-> "agent", asks |-> asks, decides |-> {}, names |-> {}]
Heard(r) == [by |-> "human", asks |-> {}, decides |-> r.decides, names |-> r.names]
Lists == [decisions : SUBSET Question, questions : SUBSET Question]
Nothing == [decisions |-> {}, questions |-> {}]
Ended == {"working", "failed", "lost"}

TalkInit ==
  /\ model \in BOOLEAN
  /\ at = "checked out"
  /\ thread = <<>> /\ talk = <<>>
  /\ known = Nothing /\ drafted = Nothing
  /\ stored = NoState
  /\ got = NoReply /\ post = NoReply /\ written = 0
  /\ design = {}
  /\ sweep = [high |-> {}, maybe |-> {}]
  /\ scope = {} /\ worked = {}
  /\ scopeWord = NoReply

-----------------------------------------------------------------------------
(* The design conversation.                                                *)

\* The issues the agents get: the primary one and those of the scope, of which
\* there is none yet.
Hydrate ==
  /\ at = "checked out"
  /\ worked' = {Primary} \cup scope
  /\ at' = "scoring"
  /\ UNCHANGED <<model, thinking, got, post, written, design, sweep, scope, history>>

\* scoreDesign finds nothing to discuss.
NoDesignNeeded ==
  /\ at = "scoring"
  /\ at' = "agreed"
  /\ UNCHANGED <<model, thinking, got, post, written, result, history>>

\* sendAndTrack: the mail is appended to the thread it continues.
Send(mail) ==
  /\ thread' = Append(thread, mail)
  /\ talk' = Append(talk, mail)

\* sendDesignBrief; the loop draws up the questions of the brief for itself.
Brief ==
  /\ at = "scoring"
  /\ Send(Mail(Question))
  /\ drafted' = [decisions |-> {}, questions |-> Question]
  /\ known' = drafted'
  /\ at' = "brief sent"
  /\ UNCHANGED <<model, stored, got, post, written, result, scopeWord>>

\* What is awaited outside a `try' may throw: fetching the context, a mail.
Throws ==
  /\ at \in {"scoring", "answering"}
  /\ at' = "failed"
  /\ UNCHANGED <<model, thinking, got, post, written, result, history>>

\* saveThreadState, under the run's own name.
Save ==
  /\ \/ at = "brief sent" /\ at' = "mailed"
     \/ at = "sent" /\ at' = "saved"
  /\ stored' = [thread |-> thread, lists |-> drafted]
  /\ drafted' = Nothing
  /\ UNCHANGED <<model, thread, known, got, post, written, result, history>>

\* Mutant of ReadBack: the loop goes on with the lists it has.
ReadNothing ==
  /\ at = "saved"
  /\ at' = "mailed"
  /\ UNCHANGED <<model, thinking, got, post, written, result, history>>

\* After a follow-up the loop takes its lists from the store.
ReadBack ==
  /\ at = "saved"
  /\ known' = stored.lists
  /\ at' = "mailed"
  /\ UNCHANGED <<model, thread, drafted, stored, got, post, written, result, history>>

Wait ==
  /\ \/ at = "mailed" /\ at' = "waiting"
     \/ at = "scope mailed" /\ at' = "scope waiting"
  /\ UNCHANGED <<model, thinking, got, post, written, result, history>>

\* summarizeAgreedDesign: the brief, and the decisions so far.
AgreedDesign == known.decisions

\* Mutant of Hear: an approval is passed over while questions are open.
HearReluctant ==
  /\ at = "heard"
  /\ got' = NoReply
  /\ IF known.questions = {}
     THEN /\ design' = AgreedDesign /\ stored' = NoState
          /\ at' = "agreed"
     ELSE /\ at' = "mailed"
          /\ UNCHANGED <<stored, design>>
  /\ UNCHANGED <<model, thread, known, drafted, post, written, sweep, scope, worked, history>>

\* processReply.  An approval is looked for first: what else its mail decides is
\* not read.
Hear ==
  /\ at = "heard"
  /\ talk' = Append(talk, Heard(got))
  /\ IF got.approves
     THEN /\ design' = AgreedDesign
          /\ thread' = <<>> /\ known' = Nothing /\ stored' = NoState
          /\ got' = NoReply
          /\ at' = "agreed"
     ELSE /\ thread' = Append(thread, Heard(got))
          /\ at' = "answering"
          /\ UNCHANGED <<known, stored, got, design>>
  /\ UNCHANGED <<model, drafted, post, written, sweep, scope, worked, scopeWord>>

\* isQuestionResolved: a question is closed by its words, decided or not.  Of the
\* decisions kept from earlier replies none closes a question that is still
\* open: their words were in those replies.
Unresolved(r) == known.questions \ r.names

\* Mutant of Resolved: the decisions of the new reply replace the earlier ones.
ResolvedLast(r) == r.decides

\* extractDecisions; decisions are only ever added.
Resolved(r) == known.decisions \cup r.decides

\* The follow-up is sent; its lists are the generator's.
Answers(asks, lists) ==
  /\ at = "answering" /\ at' = "sent"
  /\ Send(Mail(asks))
  /\ drafted' = lists
  /\ got' = NoReply
  /\ UNCHANGED <<model, known, stored, post, written, result, scopeWord>>

\* HeuristicFollowUpGenerator.
FollowUp ==
  /\ ~model
  /\ Answers(Unresolved(got), [decisions |-> Resolved(got), questions |-> Unresolved(got)])

\* OpenRouterPMFollowUpGenerator: what the model returns is taken as it is.
ModelFollowUp ==
  /\ model
  /\ \E lists \in Lists : Answers(lists.questions, lists)

\* Its fallback asks no question, and closes none.
FallbackFollowUp ==
  /\ model
  /\ Answers({}, [decisions |-> Resolved(got), questions |-> known.questions])

-----------------------------------------------------------------------------
(* The scope conversation.                                                 *)

Listed == sweep.high \cup sweep.maybe

\* The issues cannot be listed, or none is related: nobody is asked.  The
\* confirmed list is the primary issue alone.
NothingToAsk ==
  /\ at = "agreed"
  /\ at' = "working"
  /\ UNCHANGED <<model, thinking, got, post, written, result, history>>

\* HeuristicIssueSweeper: each open issue scores high, low or not at all; the
\* primary one is put among the high ones.
Found == {f \in [high : SUBSET Issue, maybe : SUBSET Issue] :
            Primary \in f.high /\ f.high \cap f.maybe = {}}

ScopeMail ==
  /\ at = "agreed"
  /\ sweep' \in Found
  /\ sweep'.high \cup sweep'.maybe # {Primary}
  /\ at' = "scope mailed"
  /\ talk' = <<>>
  /\ UNCHANGED <<model, thinking, got, post, written, design, scope, worked, scopeWord>>

\* A mail that fails, or a second wait under the address, is caught: the primary
\* issue alone is worked on.
ScopeFails ==
  /\ at \in {"agreed", "scope mailed"}
  /\ at' = "working"
  /\ UNCHANGED <<model, thinking, got, post, written, result, history>>

\* parseMixedReply.
Mixed(r) == IF r.wants # {} THEN (r.wants \ r.drops) \cap Listed ELSE Listed \ r.drops

\* Mutant of Confirmed: the numbers to drop are taken for numbers to include.
ConfirmedAny(r) ==
  IF r.all THEN {Listed}
  ELSE IF r.quotes THEN SUBSET Listed
  ELSE IF (r.wants \cup r.drops) \cap Listed = {} THEN {sweep.high}
  ELSE {(r.wants \cup r.drops) \cap Listed}

\* parseScopeReply.  A quoted mail brings numbers and verbs of both kinds of
\* its own.  Without a verb for what it wants, a reply that drops something
\* drops every number it names.
Confirmed(r) ==
  IF r.all /\ ~r.quotes THEN {Listed}
  ELSE IF r.quotes THEN SUBSET Listed
  ELSE IF r.wants \cup r.drops = {} THEN {sweep.high}
  ELSE IF r.drops # {} THEN {IF r.verb THEN Mixed(r) ELSE Listed \ (r.wants \cup r.drops)}
  ELSE {IF r.wants \cap Listed # {} THEN r.wants \cap Listed ELSE sweep.high}

\* processScopeReply; the primary issue is added whatever the reply says.
HearScope ==
  /\ at = "scope heard"
  /\ \E issues \in Confirmed(got) : scope' = issues \cup {Primary}
  /\ scopeWord' = got
  /\ got' = NoReply
  /\ at' = "working"
  /\ UNCHANGED <<model, thinking, post, written, design, sweep, worked, talk>>

-----------------------------------------------------------------------------
(* The maintainer, the mail and the server.                                *)

\* A reply that does not approve, whatever the pipeline is doing.
Reply ==
  /\ talk # <<>> /\ at \notin Ended /\ post = NoReply
  /\ written < MaxReplies /\ written' = written + 1
  /\ \E decides, names \in SUBSET Question :
       post' = [approves |-> FALSE, decides |-> decides, names |-> names]
  /\ UNCHANGED <<model, at, thinking, got, result, history>>

\* An approval, written under a mail that waits for an answer.
Approve ==
  /\ at = "waiting" /\ post = NoReply
  /\ \E decides \in SUBSET Question :
       post' = [approves |-> TRUE, decides |-> decides, names |-> {}]
  /\ UNCHANGED <<model, at, thinking, got, written, result, history>>

ReplyScope ==
  /\ at \in {"scope mailed", "scope waiting"} /\ post = NoReply
  /\ post' \in ScopeAnswer
  /\ post'.wants \cap post'.drops = {}
  /\ post'.quotes => post'.wants \cup post'.drops = {}
  /\ UNCHANGED <<model, at, thinking, got, written, result, history>>

\* A reply that finds no wait is put where no wait looks for it.  A reply about
\* the design does not reach the wait for the scope.
Deliver ==
  /\ post # NoReply
  /\ \/ at = "waiting" /\ post \in Answer /\ at' = "heard" /\ got' = post
     \/ at = "scope waiting" /\ post \in ScopeAnswer /\ at' = "scope heard" /\ got' = post
     \/ /\ ~(at = "waiting" /\ post \in Answer)
        /\ ~(at = "scope waiting" /\ post \in ScopeAnswer)
        /\ UNCHANGED <<at, got>>
  /\ post' = NoReply
  /\ UNCHANGED <<model, thinking, written, result, history>>

\* The server stops; nothing resumes the conversation, and a reply on its way
\* finds nobody.
Crash ==
  /\ at \notin Ended
  /\ at' = "lost"
  /\ thread' = <<>> /\ got' = NoReply /\ post' = NoReply
  /\ known' = Nothing /\ drafted' = Nothing
  /\ UNCHANGED <<model, stored, written, result, history>>

Pipeline ==
  \/ Hydrate \/ NoDesignNeeded \/ Brief \/ Throws \/ Save \/ ReadBack \/ Wait \/ Hear
  \/ FollowUp \/ ModelFollowUp \/ FallbackFollowUp
  \/ NothingToAsk \/ ScopeMail \/ ScopeFails \/ HearScope

TalkNext == Pipeline \/ Reply \/ Approve \/ ReplyScope \/ Deliver \/ Crash

\* The maintainer in the end approves of the design and answers about the scope.
TalkSpec ==
  /\ TalkInit /\ [][TalkNext]_talkVars
  /\ WF_talkVars(Pipeline) /\ WF_talkVars(Deliver)
  /\ WF_talkVars(Approve) /\ WF_talkVars(ReplyScope)

-----------------------------------------------------------------------------
(* Correctness.                                                            *)

\* A question once closed stays closed, as long as the follow-ups are the
\* program's own: one whose words an earlier reply has used, or that an earlier
\* mail has left out, is asked by no later mail, across the store the loop reads
\* its lists back from.
ClosedStaysClosed ==
  ~model =>
    \A i, j \in 1..Len(talk) :
      i < j /\ talk[j].by = "agent" =>
        /\ talk[i].names \cap talk[j].asks = {}
        /\ talk[i].by = "agent" => talk[j].asks \subseteq talk[i].asks

\* The agreed design holds what each reply before the approval has decided,
\* however many mails ago.
DesignHasDecisions ==
  ~model /\ talk # <<>> /\ at \in {"agreed", "working"} =>
    \A i \in 1..(Len(talk) - 1) : talk[i].decides \subseteq design

\* A scope reply in the words the mail asks for is taken at its word: "all";
\* numbers; "include ... but drop ...", of the issues the mail lists.
ScopeAsWritten ==
  scopeWord # NoReply /\ ~scopeWord.quotes =>
    /\ scopeWord.all /\ scopeWord.drops = {} => scope = Listed
    /\ ~scopeWord.all /\ scopeWord.verb /\ scopeWord.wants # {} /\ scopeWord.wants \subseteq Listed =>
         scope = (scopeWord.wants \ scopeWord.drops) \cup {Primary}
    /\ ~scopeWord.all => scopeWord.drops \cap scope \subseteq {Primary}

\* A conversation ends: with an approval the maintainer keeps writing, unless
\* mail or the server fails.
TalkEnds == at = "mailed" ~> at \in Ended
=============================================================================
