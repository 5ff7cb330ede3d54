----------------------------- MODULE ReplyGate -----------------------------
(***************************************************************************)
(* A pipeline asks a human by mail, up to three times: to agree on a design *)
(* ("pm"), to confirm the scope ("sweep") and to let the pull request be    *)
(* opened ("review").  Each conversation has a run id of its own, whose     *)
(* encoding is the plus-suffix of the reply-to address; replies come back   *)
(* through the inbound webhook to a waiter, a mailbox and an approval store *)
(* (bin/run-pipeline.ts, core/introspection-email-loop.ts,                  *)
(* bin/clients/state-stores.ts).                                            *)
(*                                                                         *)
(* The waiter lives in the server's memory and dies with it, as do the      *)
(* pipelines; the mailbox and the approvals are stored.                     *)
(***************************************************************************)
EXTENDS Naturals

CONSTANTS
  Pipe,        \* pipelines, one per run id
  Issue,
  IssueOf,     \* Pipe -> Issue
  Addr,        \* plus-suffixes
  Encode,      \* Conv -> Addr: encodeRunIdForLocalPart of the conversation's id
  Reencode,    \* Addr -> Addr: the same function applied to its own result
  Nobody,      \* no pipeline waits under an address
  NoMail, NoIssue, NoApproval,
  HasGate,     \* the manifest names a PM: the review gate is used
  MaxReplies,  \* bound: replies a human writes in one conversation
  MaxAgain,    \* bound: redeliveries by the webhook sender
  MaxRestarts, \* bound
  MaxAge       \* age up to which an approval is honoured (7 days)

Kind == {"pm", "sweep", "review"}
Conv == Pipe \X Kind
Says == {"yes", "no", "quoting"}  \* quoting: a refusal above the quoted question
Mail == [conv : Conv, says : Says, n : 1..MaxReplies]
Key == ({"raw"} \X Conv) \cup ({"addr"} \X Addr)

ASSUME GateAssumption ==
  /\ IssueOf \in [Pipe -> Issue]
  /\ Encode \in [Conv -> Addr] /\ Reencode \in [Addr -> Addr]
  /\ Nobody \notin Pipe /\ NoMail \notin Mail /\ NoIssue \notin Issue
  /\ NoApproval \notin Nat
  /\ HasGate \in BOOLEAN
  /\ MaxReplies \in Nat /\ MaxAgain \in Nat /\ MaxRestarts \in Nat /\ MaxAge \in Nat

VARIABLES
  at,        \* where a pipeline is
  talk,      \* its latest conversation
  got,       \* the reply it last received
  why,       \* on what ground the gate let its pull request through
  pending,   \* [address]: the waiter
  mailbox,   \* [key]: the reply stored for lack of a waiter
  record,    \* [key]: the issue whose review a run id was asked for
  approval,  \* [issue]: age of the approval on file
  sent,      \* conversations whose mail went out
  post,      \* replies written
  heard,     \* replies the webhook has handled
  again,     \* redeliveries so far
  restarts,  \* restarts so far
  verdict    \* history, [issue]: the latest word on its pull request, as the
             \* webhook heard it, and whether it missed every review

pipe == <<at, talk, got, why>>
mailVars == <<sent, post, heard, again>>
vars == <<at, talk, got, why, pending, mailbox, record, approval,
          sent, post, heard, again, restarts, verdict>>

-----------------------------------------------------------------------------
Ended == {"cleared", "rejected", "failed", "lost"}
Talking == {"mailed", "waiting", "got"}
At == {"new", "working", "noticed", "sending"} \cup Talking \cup Ended
Ground == {"none", "no gate", "mail failed", "double wait", "cached", "reply"}
Word == [mail : Mail \cup {NoMail}, missed : BOOLEAN]

TypeOK ==
  /\ at \in [Pipe -> At] /\ talk \in [Pipe -> Kind \cup {"none"}]
  /\ got \in [Pipe -> Mail \cup {NoMail}] /\ why \in [Pipe -> Ground]
  /\ pending \in [Addr -> Pipe \cup {Nobody}]
  /\ mailbox \in [Key -> Mail \cup {NoMail}]
  /\ record \in [Key -> Issue \cup {NoIssue}]
  /\ approval \in [Issue -> Nat \cup {NoApproval}]
  /\ sent \subseteq Conv /\ post \subseteq Mail /\ heard \subseteq post
  /\ again \in Nat /\ restarts \in Nat
  /\ verdict \in [Issue -> Word]

Init ==
  /\ at = [p \in Pipe |-> "new"] /\ talk = [p \in Pipe |-> "none"]
  /\ got = [p \in Pipe |-> NoMail] /\ why = [p \in Pipe |-> "none"]
  /\ pending = [a \in Addr |-> Nobody]
  /\ mailbox = [k \in Key |-> NoMail]
  /\ record = [k \in Key |-> NoIssue]
  /\ approval = [i \in Issue |-> NoApproval]
  /\ sent = {} /\ post = {} /\ heard = {}
  /\ again = 0 /\ restarts = 0
  /\ verdict = [i \in Issue |-> [mail |-> NoMail, missed |-> FALSE]]

\* Storage keys.  safeKey rewrites the "/" and "#" of a raw run id to "_",
\* which encodeRunIdForLocalPart never leaves in an address.
RawKey(c) == <<"raw", c>>
AddrKey(a) == <<"addr", a>>

Goto(p, place) == at' = [at EXCEPT ![p] = place]

Clear(p, ground) ==
  /\ Goto(p, "cleared")
  /\ why' = [why EXCEPT ![p] = ground]

-----------------------------------------------------------------------------
(* The pipeline, between its mails.                                         *)

Start(p) ==
  /\ at[p] = "new"
  /\ Goto(p, "working")
  /\ UNCHANGED <<talk, got, why, pending, mailbox, record, approval, mailVars, restarts, verdict>>

\* Any other way for a pipeline to end.
Fail(p) ==
  /\ at[p] = "working"
  /\ Goto(p, "failed")
  /\ UNCHANGED <<talk, got, why, pending, mailbox, record, approval, mailVars, restarts, verdict>>

\* sendDesignBrief; a failure to send ends the pipeline.
Brief(p) ==
  /\ at[p] = "working" /\ talk[p] = "none"
  /\ talk' = [talk EXCEPT ![p] = "pm"]
  /\ \/ Goto(p, "mailed") /\ sent' = sent \cup {<<p, "pm">>}
     \/ Goto(p, "failed") /\ UNCHANGED sent
  /\ UNCHANGED <<got, why, pending, mailbox, record, approval, post, heard, again, restarts, verdict>>

\* The scope mail follows an agreed design, or one that needed no brief; when
\* there is nothing to ask, or anything fails, the primary issue is the scope.
ScopeMail(p) ==
  /\ at[p] = "working" /\ talk[p] \in {"none", "pm"}
  /\ talk' = [talk EXCEPT ![p] = "sweep"]
  /\ \/ Goto(p, "mailed") /\ sent' = sent \cup {<<p, "sweep">>}
     \/ UNCHANGED <<at, sent>>
  /\ UNCHANGED <<got, why, pending, mailbox, record, approval, post, heard, again, restarts, verdict>>

\* The notification names a base address without a run id: a reply to it is
\* acknowledged as "no-runid" and changes nothing.
Notify(p) ==
  /\ at[p] = "working" /\ talk[p] \in {"none", "sweep"}
  /\ Goto(p, "noticed")
  /\ UNCHANGED <<talk, got, why, pending, mailbox, record, approval, mailVars, restarts, verdict>>

-----------------------------------------------------------------------------
(* sendPrePrReviewEmail.                                                    *)

Valid(i) == approval[i] # NoApproval /\ approval[i] <= MaxAge

\* loadApproval drops an approval that is too old.
Look(p) ==
  LET i == IssueOf[p]
  IN  /\ at[p] = "noticed"
      /\ CASE ~HasGate -> Clear(p, "no gate") /\ UNCHANGED approval
           [] HasGate /\ Valid(i) -> Clear(p, "cached") /\ UNCHANGED approval
           [] OTHER -> /\ Goto(p, "sending") /\ UNCHANGED why
                       /\ approval' = [approval EXCEPT ![i] = NoApproval]
      /\ UNCHANGED <<talk, got, pending, mailbox, record, mailVars, restarts, verdict>>

AskReview(p) ==
  /\ at[p] = "sending"
  /\ Goto(p, "mailed")
  /\ talk' = [talk EXCEPT ![p] = "review"]
  /\ sent' = sent \cup {<<p, "review">>}
  /\ record' = [record EXCEPT ![RawKey(<<p, "review">>)] = IssueOf[p]]
  /\ UNCHANGED <<got, why, pending, mailbox, approval, post, heard, again, restarts, verdict>>

AskReviewFails(p) ==
  /\ at[p] = "sending"
  /\ Clear(p, "mail failed")
  /\ UNCHANGED <<talk, got, pending, mailbox, record, approval, mailVars, restarts, verdict>>

-----------------------------------------------------------------------------
(* IntrospectionReplyWaiter.                                                *)

\* What a rejected wait does to the pipeline: the review gate opens, the scope
\* question is dropped, the design loop throws.
Refused(p) ==
  CASE talk[p] = "review" -> Clear(p, "double wait")
    [] talk[p] = "sweep"  -> Goto(p, "working") /\ UNCHANGED why
    [] talk[p] = "pm"     -> Goto(p, "failed") /\ UNCHANGED why

\* waitForEmailReply: the waiters are kept by address, the mailbox by run id.
Wait(p) ==
  LET c == <<p, talk[p]>>
      a == Encode[c]
      stored == mailbox[RawKey(c)]
  IN  /\ at[p] = "mailed"
      /\ IF pending[a] # Nobody
           THEN Refused(p) /\ UNCHANGED <<got, pending, mailbox>>
           ELSE IF stored # NoMail
             THEN /\ Goto(p, "got")
                  /\ got' = [got EXCEPT ![p] = stored]
                  /\ mailbox' = [mailbox EXCEPT ![RawKey(c)] = NoMail]
                  /\ UNCHANGED <<why, pending>>
             ELSE /\ Goto(p, "waiting")
                  /\ pending' = [pending EXCEPT ![a] = p]
                  /\ UNCHANGED <<why, got, mailbox>>
      /\ UNCHANGED <<talk, record, approval, mailVars, restarts, verdict>>

\* resolveByRunId searches the whole body, the quoted question included.
ResolvePending(k, says) ==
  IF record[k] # NoIssue /\ says \in {"yes", "quoting"}
    THEN approval' = [approval EXCEPT ![record[k]] = 0]
    ELSE UNCHANGED approval

\* The history of the words on an issue, whoever takes them in: a reply is a
\* word on the issue whose review it wakes, and one to a review that nobody
\* waits for is a word that missed.
Note(m, p) ==
  LET wakes(i) == p # Nobody /\ talk[p] = "review" /\ IssueOf[p] = i
      meant(i) == m.conv[2] = "review" /\ IssueOf[m.conv[1]] = i
  IN  verdict' = [i \in Issue |-> IF wakes(i) \/ meant(i)
                                  THEN [mail |-> m, missed |-> ~wakes(i)]
                                  ELSE verdict[i]]

\* The run id parsed from the address is encoded once more to find the waiter.
OnReply(m) ==
  LET a == Encode[m.conv]
      p == pending[Reencode[a]]
  IN  /\ Note(m, p)
      /\ IF p = Nobody
           THEN /\ mailbox' = [mailbox EXCEPT ![AddrKey(a)] = m]
                /\ ResolvePending(AddrKey(a), m.says)
                /\ UNCHANGED <<at, got, pending>>
           ELSE /\ pending' = [pending EXCEPT ![Reencode[a]] = Nobody]
                /\ Goto(p, "got")
                /\ got' = [got EXCEPT ![p] = m]
                /\ UNCHANGED <<mailbox, approval>>

Reply(c, says) ==
  /\ c \in sent
  /\ \E n \in 1..MaxReplies :
       /\ \A m \in post : m.conv = c => m.n < n
       /\ n > 1 => \E m \in post : m.conv = c /\ m.n = n - 1
       /\ post' = post \cup {[conv |-> c, says |-> says, n |-> n]}
  /\ UNCHANGED <<pipe, pending, mailbox, record, approval, sent, heard, again, restarts, verdict>>

\* From the answer of a review to the verdict there is no await that leaves the
\* callback, so that no other reply is heard in between.
ReviewsRead == \A p \in Pipe : at[p] = "got" => talk[p] # "review"

Deliver(m) ==
  /\ m \in post \ heard
  /\ ReviewsRead
  /\ OnReply(m)
  /\ heard' = heard \cup {m}
  /\ UNCHANGED <<talk, why, record, sent, post, again, restarts>>

\* The webhook sender repeats a call; nothing in dispatchInbound notices.
Redeliver(m) ==
  /\ m \in heard /\ again < MaxAgain
  /\ ReviewsRead
  /\ OnReply(m)
  /\ again' = again + 1
  /\ UNCHANGED <<talk, why, record, sent, post, heard, restarts>>

-----------------------------------------------------------------------------
(* What the pipeline makes of a reply.                                      *)

\* processReply: without approval, a follow-up goes out and the loop waits
\* again.  Until it does, there is no waiter.
ReadDesign(p) ==
  /\ at[p] = "got" /\ talk[p] = "pm"
  /\ \/ got[p].says = "yes" /\ Goto(p, "working")
     \/ got[p].says # "yes" /\ Goto(p, "mailed")
     \/ got[p].says # "yes" /\ Goto(p, "failed")
  /\ UNCHANGED <<talk, got, why, pending, mailbox, record, approval, mailVars, restarts, verdict>>

ReadScope(p) ==
  /\ at[p] = "got" /\ talk[p] = "sweep"
  /\ Goto(p, "working")
  /\ UNCHANGED <<talk, got, why, pending, mailbox, record, approval, mailVars, restarts, verdict>>

\* Faulty: any reply approves; a refusal keeps the approval on file.
ApproveAny(p) ==
  /\ at[p] = "got" /\ talk[p] = "review"
  /\ Clear(p, "reply")
  /\ approval' = [approval EXCEPT ![IssueOf[p]] = 0]
  /\ UNCHANGED <<talk, got, pending, mailbox, record, mailVars, restarts, verdict>>
RejectKept(p) ==
  /\ at[p] = "got" /\ talk[p] = "review" /\ got[p].says # "yes"
  /\ Goto(p, "rejected")
  /\ UNCHANGED <<talk, got, why, pending, mailbox, record, approval, mailVars, restarts, verdict>>

Approve(p) ==
  /\ at[p] = "got" /\ talk[p] = "review" /\ got[p].says = "yes"
  /\ Clear(p, "reply")
  /\ approval' = [approval EXCEPT ![IssueOf[p]] = 0]
  /\ UNCHANGED <<talk, got, pending, mailbox, record, mailVars, restarts, verdict>>

Reject(p) ==
  /\ at[p] = "got" /\ talk[p] = "review" /\ got[p].says # "yes"
  /\ Goto(p, "rejected")
  /\ approval' = [approval EXCEPT ![IssueOf[p]] = NoApproval]
  /\ UNCHANGED <<talk, got, why, pending, mailbox, record, mailVars, restarts, verdict>>

-----------------------------------------------------------------------------
Restart ==
  /\ restarts < MaxRestarts
  /\ restarts' = restarts + 1
  /\ at' = [p \in Pipe |-> IF at[p] \in Ended \cup {"new"} THEN at[p] ELSE "lost"]
  /\ pending' = [a \in Addr |-> Nobody]
  /\ UNCHANGED <<talk, got, why, mailbox, record, approval, mailVars, verdict>>

Tick ==
  /\ \E i \in Issue : Valid(i)
  /\ approval' = [i \in Issue |-> IF Valid(i) THEN approval[i] + 1 ELSE approval[i]]
  /\ UNCHANGED <<pipe, pending, mailbox, record, mailVars, restarts, verdict>>

Next ==
  \/ \E p \in Pipe : \/ Start(p) \/ Fail(p) \/ Brief(p) \/ ScopeMail(p) \/ Notify(p)
                     \/ Look(p) \/ AskReview(p) \/ AskReviewFails(p) \/ Wait(p)
                     \/ ReadDesign(p) \/ ReadScope(p) \/ Approve(p) \/ Reject(p)
  \/ \E c \in Conv, says \in Says : Reply(c, says)
  \/ \E m \in Mail : Deliver(m) \/ Redeliver(m)
  \/ Restart \/ Tick

Spec == Init /\ [][Next]_vars

-----------------------------------------------------------------------------
\* No address loses its suffix to the cut, or its cut end to a second encoding.
AddressesIntact ==
  /\ \A c1, c2 \in Conv : Encode[c1] = Encode[c2] => c1 = c2
  /\ \A c \in Conv : Reencode[Encode[c]] = Encode[c]

\* The waiter table is exact: a pipeline that waits is registered under its
\* address, and no registration outlives its wait, so that no reply goes to a
\* pipeline that is elsewhere (waitForEmailReply, onReply).
WaitersExact ==
  /\ \A p \in Pipe : at[p] = "waiting" => pending[Encode[<<p, talk[p]>>]] = p
  /\ \A a \in Addr : pending[a] # Nobody =>
       at[pending[a]] = "waiting" /\ Encode[<<pending[a], talk[pending[a]]>>] = a

\* Behind the review gate a pull request is opened only on a human's yes that
\* was sent to the address of a review of that issue, or because mail failed, or
\* because another conversation that shares the address was being waited for.
\* Where no address is cut short, that is a yes to a review of that issue, and
\* never a reply to another question (sendPrePrReviewEmail).
OpenedOnWord ==
  HasGate => \A p \in Pipe : at[p] = "cleared" /\ why[p] # "mail failed" =>
    \/ \E m \in heard, q \in Pipe :
         /\ m.says = "yes" /\ Reencode[Encode[m.conv]] = Encode[<<q, "review">>]
         /\ IssueOf[q] = IssueOf[p] /\ <<q, "review">> \in sent
    \/ /\ why[p] = "double wait"
       /\ \E c \in sent \ {<<p, "review">>} : Encode[c] = Encode[<<p, "review">>]

\* A review of the issue was answered with m, and has not come to its verdict:
\* it reads the reply, or the process died as it did.
Unheeded(i, m) ==
  \E p \in Pipe : /\ IssueOf[p] = i /\ talk[p] = "review" /\ got[p] = m
                 /\ at[p] \in {"got", "lost"}

\* An approval that a later run finds on file was not taken back by a refusal
\* any review heard since, in whatever order two pipelines of the issue are
\* answered, repeated or restarted.  A refusal that misses every review, since
\* nobody was waiting, or that dies with its reader, takes nothing back.
ApprovalIsLastWord ==
  \A i \in Issue : approval[i] # NoApproval =>
    LET word == verdict[i]
    IN  word.mail.says = "yes" \/ word.missed \/ Unheeded(i, word.mail)
=============================================================================
