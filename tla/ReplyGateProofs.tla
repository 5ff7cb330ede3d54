-------------------------- MODULE ReplyGateProofs --------------------------
(***************************************************************************)
(* Invariants of ReplyGate, for any number of pipelines, issues, replies,  *)
(* redeliveries and restarts, and for every encoding of run ids.           *)
(***************************************************************************)
EXTENDS ReplyGate, TLAPS

USE GateAssumption

\* A pipeline that mailed a question is in a conversation.
Talks == \A p \in Pipe : at[p] \in Talking => talk[p] \in Kind

\* What a call of onReply leaves behind, as far as types go.
LEMMA OnReplyType ==
  ASSUME TypeOK, NEW m \in Mail, OnReply(m)
  PROVE  /\ at' \in [Pipe -> At] /\ got' \in [Pipe -> Mail \cup {NoMail}]
         /\ pending' \in [Addr -> Pipe \cup {Nobody}]
         /\ mailbox' \in [Key -> Mail \cup {NoMail}]
         /\ approval' \in [Issue -> Nat \cup {NoApproval}]
         /\ verdict' \in [Issue -> Word]
<1> DEFINE a == Encode[m.conv]
           b == Reencode[a]
<1>0. verdict' \in [Issue -> Word]
  <2> DEFINE wakes(i) == pending[b] # Nobody /\ talk[pending[b]] = "review" /\ IssueOf[pending[b]] = i
             meant(i) == m.conv[2] = "review" /\ IssueOf[m.conv[1]] = i
  <2>1. verdict' = [i \in Issue |-> IF wakes(i) \/ meant(i)
                                    THEN [mail |-> m, missed |-> ~wakes(i)]
                                    ELSE verdict[i]]
    BY DEF OnReply, Note
  <2>2. \A i \in Issue : (~wakes(i)) \in BOOLEAN
    OBVIOUS
  <2> HIDE DEF wakes, meant
  <2>3. \A i \in Issue : [mail |-> m, missed |-> ~wakes(i)] \in Word /\ verdict[i] \in Word
    BY <2>2 DEF TypeOK, Word
  <2> QED
    BY <2>1, <2>3
<1>1. a \in Addr /\ b \in Addr /\ AddrKey(a) \in Key
  BY DEF Mail, Key, AddrKey
<1>2. CASE pending[b] = Nobody
  <2>1. /\ mailbox' = [mailbox EXCEPT ![AddrKey(a)] = m]
        /\ ResolvePending(AddrKey(a), m.says)
        /\ UNCHANGED <<at, got, pending>>
    BY <1>2 DEF OnReply
  <2>2. approval' \in [Issue -> Nat \cup {NoApproval}]
    BY <1>1, <2>1 DEF TypeOK, ResolvePending
  <2> QED
    BY <1>0, <1>1, <2>1, <2>2 DEF TypeOK
<1>3. CASE pending[b] # Nobody
  <2>1. /\ pending' = [pending EXCEPT ![b] = Nobody]
        /\ at' = [at EXCEPT ![pending[b]] = "got"]
        /\ got' = [got EXCEPT ![pending[b]] = m]
        /\ UNCHANGED <<mailbox, approval>>
    BY <1>3 DEF OnReply, Goto
  <2> QED
    BY <1>0, <1>1, <1>3, <2>1 DEF TypeOK, At, Talking
<1> QED
  BY <1>0, <1>2, <1>3

\* What a call of waitForEmailReply leaves behind, as far as types go.
LEMMA WaitType ==
  ASSUME TypeOK, Talks, NEW p \in Pipe, Wait(p)
  PROVE  /\ at' \in [Pipe -> At] /\ why' \in [Pipe -> Ground]
         /\ got' \in [Pipe -> Mail \cup {NoMail}]
         /\ pending' \in [Addr -> Pipe \cup {Nobody}]
         /\ mailbox' \in [Key -> Mail \cup {NoMail}]
<1> DEFINE c == <<p, talk[p]>>
           a == Encode[c]
           stored == mailbox[RawKey(c)]
<1>0. /\ talk[p] \in Kind /\ a \in Addr
      /\ RawKey(c) \in Key /\ stored \in Mail \cup {NoMail}
  <2>1. talk[p] \in Kind
    BY DEF Talks, Talking, Wait
  <2>2. c \in Conv
    BY <2>1 DEF Conv
  <2>3. RawKey(c) \in Key
    BY <2>2 DEF Key, RawKey
  <2> QED
    BY <2>1, <2>2, <2>3 DEF TypeOK
<1> HIDE DEF a, stored
<1>1. CASE pending[a] # Nobody
  <2>1. Refused(p) /\ UNCHANGED <<got, pending, mailbox>>
    BY <1>1 DEF Wait, a
  <2>2. \/ Clear(p, "double wait")
        \/ (Goto(p, "working") \/ Goto(p, "failed")) /\ UNCHANGED why
    BY <2>1, <1>0 DEF Refused, Kind
  <2>3. at' \in [Pipe -> At] /\ why' \in [Pipe -> Ground]
    BY <2>2 DEF TypeOK, Clear, Goto, At, Ended, Ground
  <2> QED
    BY <2>1, <2>3 DEF TypeOK
<1>2. CASE pending[a] = Nobody /\ stored # NoMail
  <2>1. /\ at' = [at EXCEPT ![p] = "got"] /\ got' = [got EXCEPT ![p] = stored]
        /\ mailbox' = [mailbox EXCEPT ![RawKey(c)] = NoMail]
        /\ UNCHANGED <<why, pending>>
    BY <1>2 DEF Wait, Goto, a, stored
  <2> QED
    BY <1>0, <1>2, <2>1 DEF TypeOK, At, Talking
<1>3. CASE pending[a] = Nobody /\ stored = NoMail
  <2>1. /\ at' = [at EXCEPT ![p] = "waiting"]
        /\ pending' = [pending EXCEPT ![a] = p]
        /\ UNCHANGED <<why, got, mailbox>>
    BY <1>3 DEF Wait, Goto, a, stored
  <2> QED
    BY <1>0, <2>1 DEF TypeOK, At, Talking
<1> QED
  BY <1>1, <1>2, <1>3

\* One step keeps the types.
LEMMA TypeStep == TypeOK /\ Talks /\ [Next]_vars => TypeOK'
<1> SUFFICES ASSUME TypeOK, Talks, [Next]_vars PROVE TypeOK'
  OBVIOUS
<1> USE DEF Talking, At, Ended, Goto, mailVars, pipe
<1>1. ASSUME NEW p \in Pipe, Start(p) \/ Fail(p) \/ Notify(p) PROVE TypeOK'
  BY <1>1 DEF TypeOK, Start, Fail, Notify
<1>2. ASSUME NEW p \in Pipe, Brief(p) \/ ScopeMail(p) PROVE TypeOK'
  <2>1. /\ at' \in [Pipe -> At] /\ talk' \in [Pipe -> Kind \cup {"none"}] /\ sent' \subseteq Conv
    BY <1>2 DEF TypeOK, Brief, ScopeMail, Kind, Conv
  <2> QED
    BY <1>2, <2>1 DEF TypeOK, Brief, ScopeMail
<1>3. ASSUME NEW p \in Pipe, Look(p) PROVE TypeOK'
  <2>1. \/ Clear(p, "no gate") /\ UNCHANGED approval
        \/ Clear(p, "cached") /\ UNCHANGED approval
        \/ /\ Goto(p, "sending") /\ UNCHANGED why
           /\ approval' = [approval EXCEPT ![IssueOf[p]] = NoApproval]
    BY <1>3, Zenon DEF Look
  <2>2. at' \in [Pipe -> At] /\ why' \in [Pipe -> Ground] /\ approval' \in [Issue -> Nat \cup {NoApproval}]
    BY <2>1 DEF TypeOK, Clear, Ground
  <2> QED
    BY <1>3, <2>2 DEF TypeOK, Look
<1>4. ASSUME NEW p \in Pipe, AskReview(p) PROVE TypeOK'
  <2>1. RawKey(<<p, "review">>) \in Key /\ <<p, "review">> \in Conv
    BY DEF Key, RawKey, Conv, Kind
  <2> QED
    BY <1>4, <2>1 DEF TypeOK, AskReview, Kind
<1>5. ASSUME NEW p \in Pipe, AskReviewFails(p) PROVE TypeOK'
  BY <1>5 DEF TypeOK, AskReviewFails, Clear, Ground
<1>6. ASSUME NEW p \in Pipe, Wait(p) PROVE TypeOK'
  BY <1>6, WaitType DEF TypeOK, Wait
<1>7. ASSUME NEW p \in Pipe, ReadDesign(p) \/ ReadScope(p) PROVE TypeOK'
  <2>1. at' \in [Pipe -> At]
    BY <1>7 DEF TypeOK, ReadDesign, ReadScope
  <2>2. UNCHANGED <<talk, got, why, pending, mailbox, record, approval, sent, post, heard,
                    again, restarts, verdict>>
    BY <1>7 DEF ReadDesign, ReadScope
  <2> QED
    BY <2>1, <2>2 DEF TypeOK
<1>8. ASSUME NEW p \in Pipe, Approve(p) \/ Reject(p) PROVE TypeOK'
  <2>1. CASE Approve(p)
    BY <2>1 DEF TypeOK, Approve, Clear, Ground
  <2>2. CASE Reject(p)
    BY <2>2 DEF TypeOK, Reject
  <2> QED
    BY <1>8, <2>1, <2>2
<1>9. ASSUME NEW c \in Conv, NEW says \in Says, Reply(c, says) PROVE TypeOK'
  BY <1>9 DEF TypeOK, Reply, Mail
<1>10. ASSUME NEW m \in Mail, Deliver(m) \/ Redeliver(m) PROVE TypeOK'
  <2>1. OnReply(m)
    BY <1>10 DEF Deliver, Redeliver
  <2>2. heard' \subseteq post /\ again' \in Nat
    BY <1>10 DEF TypeOK, Deliver, Redeliver
  <2> QED
    BY <1>10, <2>1, <2>2, OnReplyType DEF TypeOK, Deliver, Redeliver
<1>11. CASE Restart
  BY <1>11 DEF TypeOK, Restart
<1>12. CASE Tick
  BY <1>12 DEF TypeOK, Tick, Valid
<1>13. CASE UNCHANGED vars
  BY <1>13 DEF TypeOK, vars
<1> QED
  BY <1>1, <1>2, <1>3, <1>4, <1>5, <1>6, <1>7, <1>8, <1>9, <1>10, <1>11, <1>12, <1>13 DEF Next

-----------------------------------------------------------------------------
(* How one step may move the pipelines and the waiters.                     *)

\* p goes to another place, neither from a wait nor into one.
Walks(p) ==
  /\ at[p] # "waiting"
  /\ \E x \in At \ {"waiting"}, k \in Kind \cup {"none"} :
       /\ at' = [at EXCEPT ![p] = x] /\ talk' = [talk EXCEPT ![p] = k]
       /\ x \in Talking => k \in Kind
  /\ pending' = pending

Registers(p) ==
  LET a == Encode[<<p, talk[p]>>]
  IN  /\ at[p] = "mailed" /\ pending[a] = Nobody
      /\ at' = [at EXCEPT ![p] = "waiting"] /\ pending' = [pending EXCEPT ![a] = p]
      /\ talk' = talk

Wakes(a) ==
  /\ pending[a] # Nobody
  /\ at' = [at EXCEPT ![pending[a]] = "got"] /\ pending' = [pending EXCEPT ![a] = Nobody]
  /\ talk' = talk

Moved ==
  \/ \E p \in Pipe : Walks(p) \/ Registers(p)
  \/ \E a \in Addr : Wakes(a)
  \/ Restart
  \/ UNCHANGED <<at, talk, pending>>

\* A pipeline that comes to wait finds its mail or registers.
LEMMA WaitMoves ==
  ASSUME TypeOK, Talks, NEW p \in Pipe, Wait(p)
  PROVE  Walks(p) \/ Registers(p)
<1> DEFINE c == <<p, talk[p]>>
           a == Encode[c]
           stored == mailbox[RawKey(c)]
<1>1. at[p] = "mailed" /\ talk[p] \in Kind /\ UNCHANGED talk
  BY DEF Wait, Talks, Talking
<1>2. talk' = [talk EXCEPT ![p] = talk[p]]
  BY <1>1 DEF TypeOK
<1>3. \A x \in At \ {"waiting"} : at' = [at EXCEPT ![p] = x] /\ pending' = pending => Walks(p)
  BY <1>1, <1>2 DEF Walks
<1>4. CASE pending[a] # Nobody
  <2>1. Refused(p) /\ pending' = pending
    BY <1>4 DEF Wait
  <2>2. \E x \in {"cleared", "working", "failed"} : at' = [at EXCEPT ![p] = x]
    BY <2>1, <1>1 DEF Refused, Clear, Goto, Kind
  <2> QED
    BY <2>1, <2>2, <1>3 DEF At, Ended
<1>5. CASE pending[a] = Nobody /\ stored # NoMail
  <2>1. at' = [at EXCEPT ![p] = "got"] /\ pending' = pending
    BY <1>5 DEF Wait, Goto
  <2> QED
    BY <2>1, <1>3 DEF At, Talking
<1>6. CASE pending[a] = Nobody /\ stored = NoMail
  <2>1. at' = [at EXCEPT ![p] = "waiting"] /\ pending' = [pending EXCEPT ![a] = p]
    BY <1>6 DEF Wait, Goto
  <2> QED
    BY <2>1, <1>1, <1>6 DEF Registers
<1> QED
  BY <1>4, <1>5, <1>6

\* A reply wakes the waiter of its address, or moves nobody.
LEMMA ReplyMoves ==
  ASSUME TypeOK, NEW m \in Mail, OnReply(m), UNCHANGED talk
  PROVE  Moved
<1> DEFINE a == Reencode[Encode[m.conv]]
<1>1. a \in Addr
  BY DEF Mail
<1>2. CASE pending[a] = Nobody
  BY <1>2 DEF OnReply, Moved
<1>3. CASE pending[a] # Nobody
  BY <1>1, <1>3 DEF OnReply, Goto, Moved, Wakes
<1> QED
  BY <1>2, <1>3

\* Every step moves the pipelines and the waiters in one of the ways of Moved.
LEMMA StepMoves == TypeOK /\ Talks /\ [Next]_vars => Moved
<1> SUFFICES ASSUME TypeOK, Talks, [Next]_vars PROVE Moved
  OBVIOUS
<1>0. ASSUME NEW p \in Pipe, NEW x \in At \ {"waiting"}, NEW k \in Kind \cup {"none"},
             at[p] # "waiting", at' = [at EXCEPT ![p] = x],
             talk' = [talk EXCEPT ![p] = k], pending' = pending, x \in Talking => k \in Kind
      PROVE  Moved
  BY <1>0 DEF Moved, Walks
<1>1. ASSUME NEW p \in Pipe, NEW x \in At \ Talking, at[p] # "waiting",
             at' = [at EXCEPT ![p] = x], talk' = talk, pending' = pending
      PROVE  Moved
  <2>1. talk' = [talk EXCEPT ![p] = talk[p]] /\ talk[p] \in Kind \cup {"none"}
    BY <1>1 DEF TypeOK
  <2> QED
    BY <1>0, <1>1, <2>1 DEF Talking
<1>2. ASSUME NEW p \in Pipe, Start(p) \/ Fail(p) \/ Notify(p) \/ ReadScope(p) PROVE Moved
  <2>1. \E x \in {"working", "failed", "noticed"} : at' = [at EXCEPT ![p] = x]
    BY <1>2 DEF Start, Fail, Notify, ReadScope, Goto
  <2>2. at[p] # "waiting" /\ UNCHANGED <<talk, pending>>
    BY <1>2 DEF Start, Fail, Notify, ReadScope
  <2> QED
    BY <2>1, <2>2, <1>1 DEF At, Ended, Talking
<1>3. ASSUME NEW p \in Pipe, Brief(p) \/ ScopeMail(p) PROVE Moved
  <2>1. at[p] = "working" /\ UNCHANGED pending
    BY <1>3 DEF Brief, ScopeMail
  <2>2. \E k \in Kind : talk' = [talk EXCEPT ![p] = k]
    BY <1>3 DEF Brief, ScopeMail, Kind
  <2>3. \E x \in {"mailed", "failed", "working"} : at' = [at EXCEPT ![p] = x]
    BY <1>3, <2>1 DEF Brief, ScopeMail, Goto, TypeOK
  <2> QED
    BY <2>1, <2>2, <2>3, <1>0 DEF At, Ended, Talking
<1>4. ASSUME NEW p \in Pipe, Look(p) PROVE Moved
  <2>1. Clear(p, "no gate") \/ Clear(p, "cached") \/ Goto(p, "sending")
    BY <1>4, Zenon DEF Look
  <2>2. at[p] = "noticed" /\ UNCHANGED <<talk, pending>>
    BY <1>4 DEF Look
  <2> QED
    BY <2>1, <2>2, <1>1 DEF Clear, Goto, At, Ended, Talking
<1>5. ASSUME NEW p \in Pipe, AskReview(p) PROVE Moved
  BY <1>5, <1>0 DEF AskReview, Goto, At, Talking, Kind
<1>6. ASSUME NEW p \in Pipe, AskReviewFails(p) \/ Approve(p) \/ Reject(p) PROVE Moved
  <2>1. \E x \in Ended : at' = [at EXCEPT ![p] = x]
    BY <1>6 DEF AskReviewFails, Approve, Reject, Clear, Goto, Ended
  <2>2. at[p] # "waiting" /\ UNCHANGED <<talk, pending>>
    BY <1>6 DEF AskReviewFails, Approve, Reject
  <2> QED
    BY <2>1, <2>2, <1>1 DEF At, Ended, Talking
<1>7. ASSUME NEW p \in Pipe, Wait(p) PROVE Moved
  BY <1>7, WaitMoves DEF Moved
<1>8. ASSUME NEW p \in Pipe, ReadDesign(p) PROVE Moved
  <2>1. at[p] = "got" /\ talk' = [talk EXCEPT ![p] = "pm"] /\ UNCHANGED pending
    BY <1>8 DEF ReadDesign, TypeOK
  <2>2. \E x \in {"working", "mailed", "failed"} : at' = [at EXCEPT ![p] = x]
    BY <1>8 DEF ReadDesign, Goto
  <2> QED
    BY <2>1, <2>2, <1>0 DEF At, Ended, Talking, Kind
<1>9. ASSUME NEW m \in Mail, Deliver(m) \/ Redeliver(m) PROVE Moved
  BY <1>9, ReplyMoves DEF Deliver, Redeliver
<1>10. ASSUME NEW c \in Conv, NEW says \in Says, Reply(c, says) PROVE Moved
  BY <1>10 DEF Reply, Moved, pipe
<1>11. CASE Restart
  BY <1>11 DEF Moved
<1>12. CASE Tick \/ UNCHANGED vars
  BY <1>12 DEF Moved, Tick, vars, pipe
<1> QED
  BY <1>2, <1>3, <1>4, <1>5, <1>6, <1>7, <1>8, <1>9, <1>10, <1>11, <1>12 DEF Next

\* A pipeline in a conversation has one of the kinds.
LEMMA TalksStep ==
  ASSUME TypeOK, Talks, WaitersExact, Moved
  PROVE  Talks'
<1>1. ASSUME NEW p \in Pipe, Walks(p) PROVE Talks'
  BY <1>1 DEF Walks, Talks, TypeOK
<1>2. ASSUME NEW p \in Pipe, Registers(p) PROVE Talks'
  BY <1>2 DEF Registers, Talks, TypeOK, Talking
<1>3. ASSUME NEW a \in Addr, Wakes(a) PROVE Talks'
  <2>1. pending[a] \in Pipe /\ at[pending[a]] = "waiting"
    <3>1. pending[a] # Nobody
      BY <1>3 DEF Wakes
    <3>2. pending[a] \in Pipe
      BY <3>1 DEF TypeOK
    <3>3. at[pending[a]] = "waiting"
      BY <3>1 DEF WaitersExact
    <3> QED
      BY <3>2, <3>3
  <2>2. at' = [at EXCEPT ![pending[a]] = "got"] /\ talk' = talk
    BY <1>3 DEF Wakes
  <2>3. \A q \in Pipe : at'[q] = at[q] \/ q = pending[a]
    BY <2>1, <2>2 DEF TypeOK
  <2>4. \A q \in Pipe : at'[q] \in Talking => at[q] \in Talking
    BY <2>1, <2>3 DEF Talking
  <2> QED
    BY <2>2, <2>4 DEF Talks
<1>4. CASE Restart
  BY <1>4 DEF Restart, Talks, TypeOK, Talking
<1>5. CASE UNCHANGED <<at, talk, pending>>
  BY <1>5 DEF Talks
<1> QED
  BY <1>1, <1>2, <1>3, <1>4, <1>5 DEF Moved

\* Whoever waits is registered, and nobody else.
LEMMA WaitersStep ==
  ASSUME TypeOK, Talks, WaitersExact, Moved
  PROVE  WaitersExact'
<1>0. \A q \in Pipe : at[q] = "waiting" => Encode[<<q, talk[q]>>] \in Addr
  <2> SUFFICES ASSUME NEW q \in Pipe, at[q] = "waiting" PROVE Encode[<<q, talk[q]>>] \in Addr
    OBVIOUS
  <2>1. <<q, talk[q]>> \in Conv
    BY DEF Talks, Talking, Conv
  <2> QED
    BY <2>1
<1>1. ASSUME NEW p \in Pipe, Walks(p) PROVE WaitersExact'
  <2>1. at[p] # "waiting" /\ pending' = pending
    BY <1>1 DEF Walks
  <2>2. PICK x \in At \ {"waiting"}, k \in Kind \cup {"none"} :
          at' = [at EXCEPT ![p] = x] /\ talk' = [talk EXCEPT ![p] = k]
    BY <1>1 DEF Walks
  <2>3. \A q \in Pipe : at'[q] = "waiting" <=> at[q] = "waiting"
    BY <2>1, <2>2 DEF TypeOK
  <2>4. \A q \in Pipe : at[q] = "waiting" => talk'[q] = talk[q]
    BY <2>1, <2>2 DEF TypeOK
  <2>5. \A a \in Addr : pending[a] # Nobody => pending[a] \in Pipe
    BY DEF TypeOK
  <2> QED
    BY <2>1, <2>3, <2>4, <2>5 DEF WaitersExact
<1>2. ASSUME NEW p \in Pipe, Registers(p) PROVE WaitersExact'
  <2> DEFINE a == Encode[<<p, talk[p]>>]
  <2>1. a \in Addr
    BY <1>2 DEF Registers, Talks, Talking, Conv
  <2>2. \A q \in Pipe : at[q] = "waiting" => q # p /\ Encode[<<q, talk[q]>>] # a
    BY <1>2 DEF Registers, WaitersExact
  <2> HIDE DEF a
  <2>3. /\ at' = [at EXCEPT ![p] = "waiting"] /\ pending' = [pending EXCEPT ![a] = p]
        /\ talk' = talk
    BY <1>2 DEF Registers, a
  <2>4. \A q \in Pipe : at'[q] = "waiting" => pending'[Encode[<<q, talk'[q]>>]] = q
    BY <1>0, <2>1, <2>2, <2>3 DEF WaitersExact, TypeOK, a
  <2>5. \A b \in Addr : pending'[b] # Nobody =>
          at'[pending'[b]] = "waiting" /\ Encode[<<pending'[b], talk'[pending'[b]]>>] = b
    BY <2>1, <2>2, <2>3 DEF WaitersExact, TypeOK, a
  <2> QED
    BY <2>4, <2>5 DEF WaitersExact
<1>3. ASSUME NEW a \in Addr, Wakes(a) PROVE WaitersExact'
  <2>1. /\ pending[a] \in Pipe /\ at[pending[a]] = "waiting"
        /\ Encode[<<pending[a], talk[pending[a]]>>] = a
    BY <1>3 DEF Wakes, TypeOK, WaitersExact
  <2>2. \A q \in Pipe : at'[q] = "waiting" =>
          /\ q # pending[a] /\ at[q] = "waiting" /\ Encode[<<q, talk'[q]>>] # a
          /\ pending[Encode[<<q, talk'[q]>>]] = q
    BY <1>3, <2>1 DEF Wakes, WaitersExact, TypeOK
  <2>3. \A q \in Pipe : at'[q] = "waiting" => pending'[Encode[<<q, talk'[q]>>]] = q
    BY <1>0, <1>3, <2>2 DEF Wakes, TypeOK
  <2>4. \A b \in Addr : pending'[b] # Nobody =>
          at'[pending'[b]] = "waiting" /\ Encode[<<pending'[b], talk'[pending'[b]]>>] = b
    BY <1>3, <2>1 DEF Wakes, WaitersExact, TypeOK
  <2> QED
    BY <2>3, <2>4 DEF WaitersExact
<1>4. CASE Restart
  BY <1>4 DEF Restart, WaitersExact, TypeOK, Ended
<1>5. CASE UNCHANGED <<at, talk, pending>>
  BY <1>5 DEF WaitersExact
<1> QED
  BY <1>1, <1>2, <1>3, <1>4, <1>5 DEF Moved

-----------------------------------------------------------------------------
\* The inductive invariant behind the types.  A reply wakes the pipeline found
\* in the waiter table, so the table must be exact for the types to hold.
Base == TypeOK /\ Talks /\ WaitersExact

\* Nobody waits at the start.
LEMMA BaseInit == Init => Base
  BY DEF Init, Base, TypeOK, Talks, WaitersExact, At, Ended, Talking, Ground, Word

\* The types, the conversations and the table of waiters hold together.
LEMMA BaseStep == Base /\ [Next]_vars => Base'
  BY TypeStep, StepMoves, TalksStep, WaitersStep DEF Base

\* The types of the waiter, the stores and the mails hold in every state.
THEOREM TypeCorrect == Spec => []TypeOK
<1>1. Base => TypeOK
  BY DEF Base
<1> QED
  BY <1>1, BaseInit, BaseStep, PTL DEF Spec

\* The waiter table is exact, whether or not encodings differ.
THEOREM WaiterTable == Spec => []WaitersExact
<1>1. Base => WaitersExact
  BY DEF Base
<1> QED
  BY <1>1, BaseInit, BaseStep, PTL DEF Spec

-----------------------------------------------------------------------------
(* What is known of the stores.                                             *)

\* What is stored under an address is never found under a run id.
NoRawMail == \A c \in Conv : mailbox[RawKey(c)] = NoMail
NoAddrRecord == \A a \in Addr : record[AddrKey(a)] = NoIssue

\* A raw key is not an address key.
LEMMA Keys ==
  ASSUME NEW c \in Conv, NEW a \in Addr
  PROVE  RawKey(c) \in Key /\ AddrKey(a) \in Key /\ RawKey(c) # AddrKey(a)
BY DEF RawKey, AddrKey, Key

\* No mail is ever put under a raw key.
LEMMA RawMailStep ==
  ASSUME Base, NoRawMail, [Next]_vars
  PROVE  NoRawMail'
<1>1. ASSUME NEW m \in Mail, OnReply(m) PROVE NoRawMail'
  <2> DEFINE a == Encode[m.conv]
  <2>1. a \in Addr
    BY DEF Mail
  <2>2. mailbox' = mailbox \/ mailbox' = [mailbox EXCEPT ![AddrKey(a)] = m]
    BY <1>1 DEF OnReply
  <2> QED
    BY <2>1, <2>2, Keys DEF NoRawMail, Base, TypeOK
<1>2. ASSUME NEW p \in Pipe, Wait(p) PROVE NoRawMail'
  <2>1. mailbox' = mailbox \/ mailbox' = [mailbox EXCEPT ![RawKey(<<p, talk[p]>>)] = NoMail]
    BY <1>2 DEF Wait
  <2> QED
    BY <2>1, Keys DEF NoRawMail, Base, TypeOK
<1>3. CASE UNCHANGED mailbox
  BY <1>3 DEF NoRawMail
<1> QED
  BY <1>1, <1>2, <1>3
  DEF Next, Start, Fail, Brief, ScopeMail, Notify, Look, AskReview, AskReviewFails, ReadDesign,
      ReadScope, Approve, Reject, Reply, Deliver, Redeliver, Restart, Tick, vars

\* No pending record is ever put under an address key.
LEMMA AddrRecordStep ==
  ASSUME Base, NoAddrRecord, [Next]_vars
  PROVE  NoAddrRecord'
<1>1. ASSUME NEW p \in Pipe, AskReview(p) PROVE NoAddrRecord'
  <2>1. <<p, "review">> \in Conv
    BY DEF Conv, Kind
  <2>2. record' = [record EXCEPT ![RawKey(<<p, "review">>)] = IssueOf[p]]
    BY <1>1 DEF AskReview
  <2> QED
    BY <2>1, <2>2, Keys DEF NoAddrRecord, Base, TypeOK
<1>2. CASE UNCHANGED record
  BY <1>2 DEF NoAddrRecord
<1> QED
  BY <1>1, <1>2
  DEF Next, Start, Fail, Brief, ScopeMail, Notify, Look, AskReviewFails, Wait, ReadDesign,
      ReadScope, Approve, Reject, Reply, Deliver, Redeliver, Restart, Tick, vars

\* Without a record under an address, only a review changes the approvals.
LEMMA ReplyKeepsApproval ==
  ASSUME Base, NoAddrRecord, NEW m \in Mail, OnReply(m)
  PROVE  approval' = approval
<1>1. Encode[m.conv] \in Addr
  BY DEF Mail
<1> QED
  BY <1>1 DEF OnReply, ResolvePending, NoAddrRecord

\* The reply a review is about to read is the latest word on its issue.
ReadsLatest ==
  \A p \in Pipe : at[p] = "got" /\ talk[p] = "review" => verdict[IssueOf[p]].mail = got[p]

\* What a pipeline that holds a review's reply, or died holding it, may not lose.
HoldsOn(p) ==
  talk[p] = "review" /\ at[p] \in {"got", "lost"} =>
    talk'[p] = talk[p] /\ got'[p] = got[p] /\ at'[p] \in {"got", "lost"}

\* A step that puts no approval on file and leaves every such pipeline its reply
\* leaves the last words as they are.
LEMMA WordsStand ==
  ASSUME ApprovalIsLastWord, verdict' = verdict, \A p \in Pipe : HoldsOn(p),
         \A i \in Issue : approval'[i] # NoApproval => approval[i] # NoApproval
  PROVE  ApprovalIsLastWord'
<1> SUFFICES ASSUME NEW i \in Issue, approval'[i] # NoApproval,
                    verdict[i].mail.says # "yes", ~verdict[i].missed
             PROVE  Unheeded(i, verdict[i].mail)'
  BY DEF ApprovalIsLastWord
<1>1. PICK p \in Pipe : /\ IssueOf[p] = i /\ talk[p] = "review" /\ got[p] = verdict[i].mail
                        /\ at[p] \in {"got", "lost"}
  BY DEF ApprovalIsLastWord, Unheeded
<1> QED
  BY <1>1 DEF HoldsOn, Unheeded

\* A reply that is heard becomes the word on the issues it speaks to: the review
\* it wakes has it in hand, and otherwise it missed.
LEMMA HearStep ==
  ASSUME Base, NoAddrRecord, ReadsLatest, ApprovalIsLastWord, NEW m \in Mail,
         ReviewsRead, OnReply(m), UNCHANGED talk
  PROVE  ReadsLatest' /\ ApprovalIsLastWord'
<1> DEFINE a == Reencode[Encode[m.conv]]
           p == pending[a]
           wakes(i) == p # Nobody /\ talk[p] = "review" /\ IssueOf[p] = i
           meant(i) == m.conv[2] = "review" /\ IssueOf[m.conv[1]] = i
<1>1. verdict' = [i \in Issue |-> IF wakes(i) \/ meant(i)
                                  THEN [mail |-> m, missed |-> ~wakes(i)] ELSE verdict[i]]
  BY DEF OnReply, Note
<1>2. approval' = approval
  BY ReplyKeepsApproval
<1>3. a \in Addr
  BY DEF Mail
<1>4. p # Nobody => /\ p \in Pipe /\ at[p] = "waiting"
                    /\ at' = [at EXCEPT ![p] = "got"] /\ got' = [got EXCEPT ![p] = m]
  <2> SUFFICES ASSUME p # Nobody PROVE /\ p \in Pipe /\ at[p] = "waiting"
                                       /\ at' = [at EXCEPT ![p] = "got"]
                                       /\ got' = [got EXCEPT ![p] = m]
    OBVIOUS
  <2>1. p \in Pipe
    BY <1>3 DEF Base, TypeOK
  <2>2. at[p] = "waiting"
    BY <1>3 DEF Base, WaitersExact
  <2>3. at' = [at EXCEPT ![p] = "got"] /\ got' = [got EXCEPT ![p] = m]
    BY DEF OnReply, Goto
  <2> QED
    BY <2>1, <2>2, <2>3
<1>5. p = Nobody => UNCHANGED <<at, got>>
  BY DEF OnReply
<1>6. /\ at \in [Pipe -> At] /\ got \in [Pipe -> Mail \cup {NoMail}]
      /\ \A q \in Pipe : IssueOf[q] \in Issue
  BY DEF Base, TypeOK
<1> HIDE DEF a, p
<1>7. ASSUME NEW q \in Pipe, q # p PROVE at'[q] = at[q] /\ got'[q] = got[q]
  BY <1>4, <1>5, <1>6, <1>7
<1>8. p # Nobody => at'[p] = "got" /\ got'[p] = m
  BY <1>4, <1>6
<1>9. ReadsLatest'
  <2> SUFFICES ASSUME NEW q \in Pipe, at'[q] = "got", talk[q] = "review"
               PROVE  verdict'[IssueOf[q]].mail = got'[q]
    BY DEF ReadsLatest
  <2>1. q = p
    BY <1>7 DEF ReviewsRead
  <2>2. p # Nobody
    BY <2>1
  <2>3. wakes(IssueOf[q])
    BY <2>1, <2>2
  <2>4. verdict'[IssueOf[q]].mail = m
    BY <1>1, <1>6, <2>3
  <2> QED
    BY <1>8, <2>1, <2>2, <2>4
<1>10. ApprovalIsLastWord'
  <2> SUFFICES ASSUME NEW i \in Issue, approval[i] # NoApproval,
                      verdict'[i].mail.says # "yes", ~verdict'[i].missed
               PROVE  Unheeded(i, verdict[i].mail)'
    BY <1>2 DEF ApprovalIsLastWord
  <2>1. CASE wakes(i)
    <3>1. verdict'[i].mail = m
      BY <1>1, <2>1
    <3> QED
      BY <1>4, <1>8, <2>1, <3>1 DEF Unheeded
  <2>2. CASE ~wakes(i)
    <3>1. ~meant(i)
      BY <1>1, <2>2
    <3>2. verdict'[i] = verdict[i]
      BY <1>1, <2>2, <3>1
    <3>3. PICK q \in Pipe : /\ IssueOf[q] = i /\ talk[q] = "review" /\ got[q] = verdict[i].mail
                            /\ at[q] \in {"got", "lost"}
      BY <3>2 DEF ApprovalIsLastWord, Unheeded
    <3>4. q # p
      BY <2>2, <3>3
    <3> QED
      BY <1>7, <3>2, <3>3, <3>4 DEF Unheeded
  <2> QED
    BY <2>1, <2>2
<1> QED
  BY <1>9, <1>10

\* Where a wait leads when no mail is under a raw key: never to a reply.
LEMMA WaitFindsNoMail ==
  ASSUME Base, NoRawMail, NEW p \in Pipe, Wait(p)
  PROVE  /\ at[p] = "mailed" /\ UNCHANGED <<talk, got>>
         /\ \E x \in {"cleared", "working", "failed", "waiting"} : at' = [at EXCEPT ![p] = x]
<1>1. /\ at[p] = "mailed" /\ talk[p] \in Kind /\ <<p, talk[p]>> \in Conv
  BY DEF Wait, Base, Talks, Talking, Conv
<1>2. mailbox[RawKey(<<p, talk[p]>>)] = NoMail
  BY <1>1 DEF NoRawMail
<1>3. UNCHANGED <<talk, got>> /\ (Refused(p) \/ Goto(p, "waiting"))
  BY <1>2 DEF Wait
<1> QED
  BY <1>1, <1>3 DEF Refused, Clear, Goto, Kind

\* A step of a pipeline that neither reads nor was killed leaves the others alone.
LEMMA PipeHoldsOn ==
  ASSUME Base, NEW p \in Pipe, at[p] \notin {"got", "lost"},
         \A q \in Pipe \ {p} : at'[q] = at[q] /\ talk'[q] = talk[q] /\ got'[q] = got[q]
  PROVE  \A q \in Pipe : HoldsOn(q)
BY DEF HoldsOn

\* Every step but a reply and a verdict leaves the words on an issue, and the
\* pipelines that hold one, as they are.
LEMMA OthersHoldOn ==
  ASSUME Base, NoRawMail, [Next]_vars,
         ~\E p \in Pipe : Approve(p) \/ Reject(p),
         ~\E m \in Mail : Deliver(m) \/ Redeliver(m)
  PROVE  /\ verdict' = verdict
         /\ \A p \in Pipe : HoldsOn(p)
         /\ \A p \in Pipe : at'[p] = "got" => at[p] = "got" /\ talk'[p] = talk[p] /\ got'[p] = got[p]
         /\ \A i \in Issue : approval'[i] # NoApproval => approval[i] # NoApproval
<1> DEFINE Goal ==
      /\ verdict' = verdict
      /\ \A p \in Pipe : HoldsOn(p)
      /\ \A p \in Pipe : at'[p] = "got" => at[p] = "got" /\ talk'[p] = talk[p] /\ got'[p] = got[p]
      /\ \A i \in Issue : approval'[i] # NoApproval => approval[i] # NoApproval
<1> SUFFICES Goal
  OBVIOUS
<1>0. /\ at \in [Pipe -> At] /\ talk \in [Pipe -> Kind \cup {"none"}]
      /\ approval \in [Issue -> Nat \cup {NoApproval}]
  BY DEF Base, TypeOK
<1>1. ASSUME NEW p \in Pipe, at[p] \notin {"got", "lost"} \/ (talk[p] # "review" /\ at[p] = "got"),
             verdict' = verdict, got' = got,
             at' = at \/ \E x \in At \ {"got"} : at' = [at EXCEPT ![p] = x],
             talk' = talk \/ (at[p] # "got" /\ \E k \in Kind : talk' = [talk EXCEPT ![p] = k]),
             approval' = approval \/ \E i \in Issue : approval' = [approval EXCEPT ![i] = NoApproval]
      PROVE  Goal
  <2>1. \A q \in Pipe \ {p} : at'[q] = at[q] /\ talk'[q] = talk[q]
    BY <1>0, <1>1
  <2>2. \A q \in Pipe : HoldsOn(q)
    BY <1>1, <2>1 DEF HoldsOn
  <2>3. at'[p] = "got" => at[p] = "got" /\ at' = at
    BY <1>0, <1>1
  <2>4. \A i \in Issue : approval'[i] # NoApproval => approval[i] # NoApproval
    BY <1>0, <1>1
  <2> QED
    BY <1>0, <1>1, <2>1, <2>2, <2>3, <2>4
<1> HIDE DEF Goal
<1>2. ASSUME NEW p \in Pipe, Start(p) \/ Fail(p) \/ Notify(p) \/ ReadScope(p) \/ ReadDesign(p)
      PROVE  Goal
  <2>1. \E x \in {"working", "failed", "noticed", "mailed"} : at' = [at EXCEPT ![p] = x]
    BY <1>2 DEF Start, Fail, Notify, ReadScope, ReadDesign, Goto
  <2>2. /\ at[p] \notin {"got", "lost"} \/ (talk[p] # "review" /\ at[p] = "got")
        /\ UNCHANGED <<verdict, got, talk, approval>>
    <3>1. CASE Start(p) \/ Fail(p) \/ Notify(p)
      BY <3>1 DEF Start, Fail, Notify
    <3>2. CASE ReadScope(p) \/ ReadDesign(p)
      BY <3>2 DEF ReadScope, ReadDesign
    <3> QED
      BY <1>2, <3>1, <3>2
  <2>3. \E x \in At \ {"got"} : at' = [at EXCEPT ![p] = x]
    BY <2>1 DEF At, Ended, Talking
  <2> QED
    BY <1>1, <2>2, <2>3
<1>3. ASSUME NEW p \in Pipe, Brief(p) \/ ScopeMail(p) \/ AskReview(p) PROVE Goal
  <2>1. /\ at[p] \in {"working", "sending"} /\ UNCHANGED <<verdict, got, approval>>
        /\ \E k \in Kind : talk' = [talk EXCEPT ![p] = k]
    BY <1>3 DEF Brief, ScopeMail, AskReview, Kind
  <2>2. at' = at \/ \E x \in {"mailed", "failed"} : at' = [at EXCEPT ![p] = x]
    BY <1>3 DEF Brief, ScopeMail, AskReview, Goto
  <2>3. at' = at \/ \E x \in At \ {"got"} : at' = [at EXCEPT ![p] = x]
    BY <2>2 DEF At, Ended, Talking
  <2> QED
    BY <1>1, <2>1, <2>3
<1>4. ASSUME NEW p \in Pipe, Look(p) PROVE Goal
  <2>1. \E x \in {"cleared", "sending"} : at' = [at EXCEPT ![p] = x]
    BY <1>4, Zenon DEF Look, Clear, Goto
  <2>2. approval' = approval \/ approval' = [approval EXCEPT ![IssueOf[p]] = NoApproval]
    BY <1>4, Zenon DEF Look
  <2>3. at[p] = "noticed" /\ UNCHANGED <<verdict, got, talk>>
    BY <1>4 DEF Look
  <2>4. \E x \in At \ {"got"} : at' = [at EXCEPT ![p] = x]
    BY <2>1 DEF At, Ended
  <2>5. approval' = approval \/ \E i \in Issue : approval' = [approval EXCEPT ![i] = NoApproval]
    BY <2>2
  <2> QED
    BY <1>1, <2>3, <2>4, <2>5
<1>5. ASSUME NEW p \in Pipe, AskReviewFails(p) PROVE Goal
  <2>1. at[p] = "sending" /\ UNCHANGED <<verdict, got, talk, approval>>
    BY <1>5 DEF AskReviewFails
  <2>2. \E x \in At \ {"got"} : at' = [at EXCEPT ![p] = x]
    BY <1>5 DEF AskReviewFails, Clear, Goto, At, Ended
  <2> QED
    BY <1>1, <2>1, <2>2
<1>6. ASSUME NEW p \in Pipe, Wait(p) PROVE Goal
  <2>1. UNCHANGED <<verdict, approval>>
    BY <1>6 DEF Wait
  <2>2. /\ at[p] = "mailed" /\ UNCHANGED <<talk, got>>
        /\ \E x \in {"cleared", "working", "failed", "waiting"} : at' = [at EXCEPT ![p] = x]
    BY <1>6, WaitFindsNoMail
  <2>3. \E x \in At \ {"got"} : at' = [at EXCEPT ![p] = x]
    BY <2>2 DEF At, Ended, Talking
  <2> QED
    BY <1>1, <2>1, <2>2, <2>3
<1> USE DEF Goal
<1>7. CASE Restart
  BY <1>0, <1>7 DEF Restart, HoldsOn, Ended
<1>8. CASE Tick
  BY <1>0, <1>8 DEF Tick, Valid, HoldsOn, pipe
<1>9. CASE UNCHANGED <<at, talk, got, verdict, approval>>
  BY <1>9 DEF HoldsOn
<1> QED
  BY <1>2, <1>3, <1>4, <1>5, <1>6, <1>7, <1>8, <1>9 DEF Next, Reply, vars, pipe

\* A verdict settles the latest word on its issue, and no other's.
LEMMA VerdictStep ==
  ASSUME Base, ReadsLatest, ApprovalIsLastWord, NEW p \in Pipe, Approve(p) \/ Reject(p)
  PROVE  ReadsLatest' /\ ApprovalIsLastWord'
<1>1. /\ at[p] = "got" /\ talk[p] = "review" /\ UNCHANGED <<verdict, talk, got>>
      /\ \E x \in {"cleared", "rejected"} : at' = [at EXCEPT ![p] = x]
      /\ verdict[IssueOf[p]].mail = got[p]
  BY DEF Approve, Reject, Clear, Goto, ReadsLatest
<1>2. \A q \in Pipe \ {p} : at'[q] = at[q]
  BY <1>1 DEF Base, TypeOK
<1>3. at'[p] # "got"
  BY <1>1 DEF Base, TypeOK
<1>4. ReadsLatest'
  BY <1>1, <1>2, <1>3 DEF ReadsLatest
<1>5. ASSUME NEW i \in Issue, approval'[i] # NoApproval,
             verdict[i].mail.says # "yes", ~verdict[i].missed
      PROVE  Unheeded(i, verdict[i].mail)'
  <2>1. i # IssueOf[p] /\ approval'[i] = approval[i]
    BY <1>1, <1>5 DEF Approve, Reject, Base, TypeOK
  <2>2. PICK q \in Pipe : /\ IssueOf[q] = i /\ talk[q] = "review" /\ got[q] = verdict[i].mail
                          /\ at[q] \in {"got", "lost"}
    BY <1>5, <2>1 DEF ApprovalIsLastWord, Unheeded
  <2> QED
    BY <1>1, <1>2, <2>1, <2>2 DEF Unheeded
<1>6. ApprovalIsLastWord'
  BY <1>1, <1>5 DEF ApprovalIsLastWord
<1> QED
  BY <1>4, <1>6

\* Every step leaves each approval the last word a review heard.
LEMMA LastWordStep ==
  ASSUME Base, NoRawMail, NoAddrRecord, ReadsLatest, ApprovalIsLastWord, [Next]_vars
  PROVE  ReadsLatest' /\ ApprovalIsLastWord'
<1>1. ASSUME NEW m \in Mail, Deliver(m) \/ Redeliver(m) PROVE ReadsLatest' /\ ApprovalIsLastWord'
  <2>1. ReviewsRead /\ OnReply(m) /\ UNCHANGED talk
    BY <1>1 DEF Deliver, Redeliver
  <2> QED
    BY <2>1, HearStep
<1>2. ASSUME NEW p \in Pipe, Approve(p) \/ Reject(p) PROVE ReadsLatest' /\ ApprovalIsLastWord'
  BY <1>2, VerdictStep
<1>3. CASE /\ ~\E p \in Pipe : Approve(p) \/ Reject(p)
           /\ ~\E m \in Mail : Deliver(m) \/ Redeliver(m)
  <2>1. /\ verdict' = verdict /\ \A p \in Pipe : HoldsOn(p)
        /\ \A p \in Pipe : at'[p] = "got" => at[p] = "got" /\ talk'[p] = talk[p] /\ got'[p] = got[p]
        /\ \A i \in Issue : approval'[i] # NoApproval => approval[i] # NoApproval
    BY <1>3, OthersHoldOn
  <2>2. ReadsLatest'
    BY <2>1 DEF ReadsLatest
  <2> QED
    BY <2>1, <2>2, WordsStand
<1> QED
  BY <1>1, <1>2, <1>3

\* No approval outlives a refusal that a review heard, whatever the addresses.
THEOREM LastWord == Spec => []ApprovalIsLastWord
<1> DEFINE I == Base /\ NoRawMail /\ NoAddrRecord /\ ReadsLatest /\ ApprovalIsLastWord
<1>1. Init => I
  <2> SUFFICES ASSUME Init PROVE I
    OBVIOUS
  <2>1. NoRawMail /\ NoAddrRecord
    BY Keys DEF Init, NoRawMail, NoAddrRecord, RawKey, AddrKey, Key
  <2> QED
    BY <2>1, BaseInit DEF Init, ReadsLatest, ApprovalIsLastWord
<1>2. I /\ [Next]_vars => I'
  BY BaseStep, RawMailStep, AddrRecordStep, LastWordStep
<1>3. I => ApprovalIsLastWord
  OBVIOUS
<1> QED
  BY <1>1, <1>2, <1>3, PTL DEF Spec

-----------------------------------------------------------------------------
\* What was heard stays heard.
LEMMA HeardGrows ==
  ASSUME [Next]_vars
  PROVE  heard \subseteq heard'
BY DEF Next, Start, Fail, Brief, ScopeMail, Notify, Look, AskReview, AskReviewFails, Wait, ReadDesign,
       ReadScope, Approve, Reject, Reply, Deliver, Redeliver, Restart, Tick, vars, mailVars

\* A reply in hand was heard, and was sent to the address of the conversation.
HeardMail ==
  \A p \in Pipe : at[p] = "got" =>
    got[p] \in heard /\ Reencode[Encode[got[p].conv]] = Encode[<<p, talk[p]>>]

\* Whoever talks has sent its question.
Asked == \A p \in Pipe : at[p] \in Talking => <<p, talk[p]>> \in sent

\* Somebody's yes came to the address of a review of the issue.
Yes(i) == \E m \in heard, q \in Pipe :
            /\ m.says = "yes" /\ Reencode[Encode[m.conv]] = Encode[<<q, "review">>]
            /\ IssueOf[q] = i /\ <<q, "review">> \in sent
Shared(p) == \E c \in sent \ {<<p, "review">>} : Encode[c] = Encode[<<p, "review">>]
Approved == \A i \in Issue : approval[i] # NoApproval => Yes(i)
Opened == \A p \in Pipe : at[p] = "cleared" /\ why[p] # "mail failed" =>
            Yes(IssueOf[p]) \/ (why[p] = "double wait" /\ Shared(p))

\* What was sent stays sent, so a word stays a word.
LEMMA WordsStay ==
  ASSUME [Next]_vars
  PROVE  /\ sent \subseteq sent'
         /\ \A i \in Issue : Yes(i) => Yes(i)'
         /\ \A p \in Pipe : Shared(p) => Shared(p)'
<1>1. sent \subseteq sent'
  BY DEF Next, Start, Fail, Brief, ScopeMail, Notify, Look, AskReview, AskReviewFails, Wait, ReadDesign,
         ReadScope, Approve, Reject, Reply, Deliver, Redeliver, Restart, Tick, vars, mailVars
<1> QED
  BY <1>1, HeardGrows DEF Yes, Shared

\* A step leaves the talks of the pipelines that did not move.
LEMMA TalksOn ==
  ASSUME Asked, [Next]_vars,
         \A q \in Pipe : at'[q] \in Talking =>
           \/ <<q, talk'[q]>> \in sent'
           \/ at[q] \in Talking /\ talk'[q] = talk[q]
  PROVE  Asked'
BY WordsStay DEF Asked

\* Nobody talks who has not asked.
LEMMA AskedStep ==
  ASSUME Base, Asked, [Next]_vars
  PROVE  Asked'
<1>0. /\ at \in [Pipe -> At] /\ talk \in [Pipe -> Kind \cup {"none"}]
  BY DEF Base, TypeOK
<1>1. ASSUME NEW p \in Pipe, NEW x \in At, at' = [at EXCEPT ![p] = x],
             x \in Talking => at[p] \in Talking, talk' = talk
      PROVE  Asked'
  BY <1>0, <1>1, TalksOn
<1>2. ASSUME NEW p \in Pipe, Start(p) \/ Fail(p) \/ Notify(p) \/ ReadScope(p) \/ ReadDesign(p)
      PROVE  Asked'
  <2>1. \/ \E x \in {"working", "failed", "noticed"} : at' = [at EXCEPT ![p] = x]
        \/ at[p] = "got" /\ at' = [at EXCEPT ![p] = "mailed"]
    BY <1>2 DEF Start, Fail, Notify, ReadScope, ReadDesign, Goto
  <2>2. talk' = talk
    BY <1>2 DEF Start, Fail, Notify, ReadScope, ReadDesign
  <2> QED
    BY <1>1, <2>1, <2>2 DEF At, Ended, Talking
<1>3. ASSUME NEW p \in Pipe, NEW k \in Kind,
             talk' = [talk EXCEPT ![p] = k],
             \/ at' = [at EXCEPT ![p] = "mailed"] /\ sent' = sent \cup {<<p, k>>}
             \/ at' = [at EXCEPT ![p] = "failed"]
             \/ at' = at /\ at[p] = "working"
      PROVE  Asked'
  BY <1>0, <1>3, TalksOn DEF Talking
<1>4. ASSUME NEW p \in Pipe, Brief(p) \/ ScopeMail(p) \/ AskReview(p) PROVE Asked'
  <2>1. CASE Brief(p)
    BY <1>3, <2>1 DEF Brief, Goto, Kind
  <2>2. CASE ScopeMail(p)
    BY <1>3, <2>2 DEF ScopeMail, Goto, Kind
  <2>3. CASE AskReview(p)
    BY <1>3, <2>3 DEF AskReview, Goto, Kind
  <2> QED
    BY <1>4, <2>1, <2>2, <2>3
<1>5. ASSUME NEW p \in Pipe, Look(p) PROVE Asked'
  <2>1. Clear(p, "no gate") \/ Clear(p, "cached") \/ Goto(p, "sending")
    BY <1>5, Zenon DEF Look
  <2>2. talk' = talk
    BY <1>5 DEF Look
  <2> QED
    BY <2>1, <2>2, <1>1 DEF Clear, Goto, At, Ended, Talking
<1>6. ASSUME NEW p \in Pipe, AskReviewFails(p) \/ Approve(p) \/ Reject(p) PROVE Asked'
  <2>1. talk' = talk /\ \E x \in {"cleared", "rejected"} : at' = [at EXCEPT ![p] = x]
    BY <1>6 DEF AskReviewFails, Approve, Reject, Clear, Goto
  <2> QED
    BY <2>1, <1>1 DEF At, Ended, Talking
<1>7. ASSUME NEW p \in Pipe, Wait(p) PROVE Asked'
  <2>1. at[p] = "mailed" /\ talk[p] \in Kind /\ talk' = talk
    BY <1>7 DEF Wait, Base, Talks, Talking
  <2>2. \E x \in {"cleared", "working", "failed", "waiting", "got"} : at' = [at EXCEPT ![p] = x]
    BY <1>7, <2>1 DEF Wait, Refused, Clear, Goto, Kind
  <2> QED
    BY <2>1, <2>2, <1>1 DEF At, Ended, Talking
<1>8. ASSUME NEW m \in Mail, Deliver(m) \/ Redeliver(m) PROVE Asked'
  <2> DEFINE p == pending[Reencode[Encode[m.conv]]]
  <2>1. OnReply(m) /\ talk' = talk /\ Reencode[Encode[m.conv]] \in Addr
    BY <1>8 DEF Deliver, Redeliver, Mail
  <2>2. at' = at \/ (p \in Pipe /\ at[p] = "waiting" /\ at' = [at EXCEPT ![p] = "got"])
    <3> SUFFICES ASSUME p # Nobody
                 PROVE  p \in Pipe /\ at[p] = "waiting" /\ at' = [at EXCEPT ![p] = "got"]
      BY <2>1 DEF OnReply
    <3>1. p \in Pipe
      BY <2>1 DEF Base, TypeOK
    <3>2. at[p] = "waiting"
      BY <2>1 DEF Base, WaitersExact
    <3>3. at' = [at EXCEPT ![p] = "got"]
      BY <2>1 DEF OnReply, Goto
    <3> QED
      BY <3>1, <3>2, <3>3
  <2> HIDE DEF p
  <2> QED
    BY <2>1, <2>2, <1>1, TalksOn DEF At, Talking
<1>9. CASE Restart
  BY <1>0, <1>9, TalksOn DEF Restart, Ended, Talking
<1>10. CASE UNCHANGED <<at, talk>>
  BY <1>10, TalksOn
<1> QED
  BY <1>2, <1>4, <1>5, <1>6, <1>7, <1>8, <1>9, <1>10 DEF Next, Reply, Tick, vars, pipe

\* A reply wakes the pipeline whose address it was sent to.
LEMMA RepliesFindTheirAddress ==
  ASSUME Base, HeardMail, NEW m \in Mail, OnReply(m), UNCHANGED talk,
         m \in heard', heard \subseteq heard'
  PROVE  HeardMail'
<1> DEFINE a == Reencode[Encode[m.conv]]
           p == pending[a]
<1>1. CASE p = Nobody
  <2>1. UNCHANGED <<at, got>>
    BY <1>1 DEF OnReply
  <2> QED
    BY <2>1 DEF HeardMail
<1>2. CASE p # Nobody
  <2>1. a \in Addr
    BY DEF Mail
  <2>2. p \in Pipe /\ Encode[<<p, talk[p]>>] = a
    BY <1>2, <2>1 DEF Base, TypeOK, WaitersExact
  <2>3. at' = [at EXCEPT ![p] = "got"] /\ got' = [got EXCEPT ![p] = m]
    BY <1>2 DEF OnReply, Goto
  <2> HIDE DEF p
  <2>4. got'[p] = m /\ \A q \in Pipe \ {p} : at'[q] = at[q] /\ got'[q] = got[q]
    BY <2>2, <2>3 DEF Base, TypeOK
  <2> QED
    BY <2>2, <2>4 DEF HeardMail
<1> QED
  BY <1>1, <1>2

\* The reply a pipeline holds was heard, and came to its address.
LEMMA HeardMailStep ==
  ASSUME Base, NoRawMail, HeardMail, [Next]_vars
  PROVE  HeardMail'
<1>0. heard \subseteq heard'
  BY HeardGrows
\* Nothing but a reply brings a pipeline to "got", and there it stays put.
<1>1. ASSUME \A q \in Pipe : at'[q] = "got" =>
               at[q] = "got" /\ talk'[q] = talk[q] /\ got'[q] = got[q]
      PROVE  HeardMail'
  BY <1>0, <1>1 DEF HeardMail
<1>2. ASSUME NEW p \in Pipe, Approve(p) \/ Reject(p) PROVE HeardMail'
  <2>1. \E x \in {"cleared", "rejected"} : at' = [at EXCEPT ![p] = x]
    BY <1>2 DEF Approve, Reject, Clear, Goto
  <2>2. UNCHANGED <<talk, got>>
    BY <1>2 DEF Approve, Reject
  <2> QED
    BY <2>1, <2>2, <1>1 DEF Base, TypeOK
<1>3. ASSUME NEW m \in Mail, Deliver(m) \/ Redeliver(m) PROVE HeardMail'
  <2>1. OnReply(m) /\ UNCHANGED talk /\ m \in heard'
    BY <1>3 DEF Deliver, Redeliver
  <2> QED
    BY <2>1, <1>0, RepliesFindTheirAddress
<1>4. CASE /\ ~\E p \in Pipe : Approve(p) \/ Reject(p)
           /\ ~\E m \in Mail : Deliver(m) \/ Redeliver(m)
  BY <1>1, <1>4, OthersHoldOn
<1> QED
  BY <1>2, <1>3, <1>4

\* An approval on file comes from a yes that was sent to a review of the issue.
LEMMA ApprovedStep ==
  ASSUME Base, NoRawMail, NoAddrRecord, HeardMail, Asked, Approved, [Next]_vars
  PROVE  Approved'
<1>0. \A i \in Issue : Yes(i) => Yes(i)'
  BY WordsStay
<1>1. ASSUME \A i \in Issue : approval'[i] # NoApproval => approval[i] # NoApproval PROVE Approved'
  BY <1>0, <1>1 DEF Approved
<1>2. ASSUME NEW p \in Pipe, Approve(p) PROVE Approved'
  <2>1. /\ got[p] \in heard /\ got[p].says = "yes" /\ <<p, "review">> \in sent
        /\ Reencode[Encode[got[p].conv]] = Encode[<<p, "review">>]
    BY <1>2 DEF Approve, HeardMail, Asked, Talking
  <2>2. Yes(IssueOf[p])
    BY <2>1 DEF Yes
  <2>3. approval' = [approval EXCEPT ![IssueOf[p]] = 0]
    BY <1>2 DEF Approve
  <2>4. \A i \in Issue : i # IssueOf[p] => approval'[i] = approval[i]
    BY <2>3 DEF Base, TypeOK
  <2> QED
    BY <1>0, <2>2, <2>4 DEF Approved
<1>3. ASSUME NEW p \in Pipe, Reject(p) PROVE Approved'
  <2>1. approval' = [approval EXCEPT ![IssueOf[p]] = NoApproval]
    BY <1>3 DEF Reject
  <2> QED
    BY <2>1, <1>1 DEF Base, TypeOK
<1>4. ASSUME NEW m \in Mail, Deliver(m) \/ Redeliver(m) PROVE Approved'
  BY <1>1, <1>4, ReplyKeepsApproval DEF Deliver, Redeliver
<1>5. CASE /\ ~\E p \in Pipe : Approve(p) \/ Reject(p)
           /\ ~\E m \in Mail : Deliver(m) \/ Redeliver(m)
  BY <1>1, <1>5, OthersHoldOn
<1> QED
  BY <1>2, <1>3, <1>4, <1>5

\* The gate opens on a word, because its mail failed, or because of a wait of
\* another conversation under its address.
LEMMA OpenedStep ==
  ASSUME HasGate, Base, NoRawMail, HeardMail, Asked, Approved, Opened, [Next]_vars
  PROVE  Opened'
<1>0. /\ \A i \in Issue : Yes(i) => Yes(i)'
      /\ \A p \in Pipe : Shared(p) => Shared(p)'
      /\ \A p \in Pipe : IssueOf[p] \in Issue
  BY WordsStay
<1>1. ASSUME \A q \in Pipe : at'[q] = "cleared" => at[q] = "cleared" /\ why'[q] = why[q]
      PROVE  Opened'
  BY <1>0, <1>1 DEF Opened
<1>2. ASSUME NEW p \in Pipe, UNCHANGED why,
             \E x \in At \ {"cleared"} : at' = [at EXCEPT ![p] = x]
      PROVE  Opened'
  BY <1>1, <1>2 DEF Base, TypeOK
<1>3. ASSUME NEW p \in Pipe, NEW ground, Clear(p, ground),
             \/ ground = "mail failed" \/ Yes(IssueOf[p])
             \/ ground = "double wait" /\ Shared(p)
      PROVE  Opened'
  <2>1. at' = [at EXCEPT ![p] = "cleared"] /\ why' = [why EXCEPT ![p] = ground]
    BY <1>3 DEF Clear, Goto
  <2>2. why'[p] = ground /\ \A q \in Pipe \ {p} : at'[q] = at[q] /\ why'[q] = why[q]
    BY <2>1 DEF Base, TypeOK
  <2>3. \A q \in Pipe \ {p} : at'[q] = "cleared" /\ why'[q] # "mail failed" =>
          Yes(IssueOf[q])' \/ (why'[q] = "double wait" /\ Shared(q)')
    BY <1>0, <2>2 DEF Opened
  <2>4. ground = "mail failed" \/ Yes(IssueOf[p])' \/ (ground = "double wait" /\ Shared(p)')
    BY <1>0, <1>3
  <2> QED
    BY <2>2, <2>3, <2>4 DEF Opened
<1>4. ASSUME NEW p \in Pipe,
             \/ Start(p) \/ Fail(p) \/ Notify(p) \/ Brief(p) \/ ReadDesign(p)
             \/ ReadScope(p) \/ Reject(p) \/ AskReview(p)
      PROVE  Opened'
  <2>1. UNCHANGED why
    BY <1>4 DEF Start, Fail, Notify, Brief, ReadDesign, ReadScope, Reject, AskReview
  <2>2. \E x \in {"working", "failed", "noticed", "mailed", "rejected"} : at' = [at EXCEPT ![p] = x]
    BY <1>4 DEF Start, Fail, Notify, Brief, ReadDesign, ReadScope, Reject, AskReview, Goto
  <2> QED
    BY <2>1, <2>2, <1>2 DEF At, Talking, Ended
<1>5. ASSUME NEW p \in Pipe, ScopeMail(p) PROVE Opened'
  <2>1. UNCHANGED why /\ (UNCHANGED at \/ at' = [at EXCEPT ![p] = "mailed"])
    BY <1>5 DEF ScopeMail, Goto
  <2> QED
    BY <2>1, <1>1, <1>2 DEF At, Talking
<1>6. ASSUME NEW p \in Pipe, Look(p) PROVE Opened'
  <2>1. \/ Valid(IssueOf[p]) /\ Clear(p, "cached")
        \/ Goto(p, "sending") /\ UNCHANGED why
    BY <1>6, Zenon DEF Look
  <2>2. CASE Valid(IssueOf[p]) /\ Clear(p, "cached")
    BY <1>0, <1>3, <2>2 DEF Valid, Approved
  <2>3. CASE Goto(p, "sending") /\ UNCHANGED why
    BY <2>3, <1>2 DEF Goto, At
  <2> QED
    BY <2>1, <2>2, <2>3
<1>7. ASSUME NEW p \in Pipe, AskReviewFails(p) PROVE Opened'
  BY <1>7, <1>3 DEF AskReviewFails
<1>8. ASSUME NEW p \in Pipe, Approve(p) PROVE Opened'
  <2>1. /\ got[p] \in heard /\ got[p].says = "yes" /\ <<p, "review">> \in sent
        /\ Reencode[Encode[got[p].conv]] = Encode[<<p, "review">>]
    BY <1>8 DEF Approve, HeardMail, Asked, Talking
  <2>2. Yes(IssueOf[p])
    BY <2>1 DEF Yes
  <2> QED
    BY <1>8, <2>2, <1>3 DEF Approve
<1>9. ASSUME NEW p \in Pipe, Wait(p) PROVE Opened'
  <2> DEFINE c == <<p, talk[p]>>
             q == pending[Encode[c]]
  <2>1. at[p] = "mailed" /\ c \in Conv /\ Encode[c] \in Addr /\ talk[p] \in Kind
    BY <1>9 DEF Wait, Base, Talks, Talking, Conv
  <2>2. CASE q = Nobody
    <3>1. UNCHANGED why /\ (Goto(p, "got") \/ Goto(p, "waiting"))
      BY <1>9, <2>2 DEF Wait
    <3> QED
      BY <3>1, <1>2 DEF Goto, At, Talking
  <2>3. CASE q # Nobody
    <3>1. q \in Pipe /\ at[q] = "waiting" /\ Encode[<<q, talk[q]>>] = Encode[c]
      BY <2>1, <2>3 DEF Base, TypeOK, WaitersExact
    <3>2. q # p /\ <<q, talk[q]>> \in sent
      BY <2>1, <3>1 DEF Asked, Talking
    <3>3. Refused(p)
      BY <1>9, <2>3 DEF Wait
    <3>4. CASE talk[p] = "review"
      <4>1. Clear(p, "double wait")
        BY <3>3, <3>4 DEF Refused
      <4>2. Shared(p)
        BY <3>1, <3>2, <3>4 DEF Shared
      <4> QED
        BY <1>3, <4>1, <4>2
    <3>5. CASE talk[p] # "review"
      <4>1. UNCHANGED why /\ (Goto(p, "working") \/ Goto(p, "failed"))
        BY <2>1, <3>3, <3>5 DEF Refused, Kind
      <4> QED
        BY <4>1, <1>2 DEF Goto, At, Ended
    <3> QED
      BY <3>4, <3>5
  <2> QED
    BY <2>2, <2>3
<1>10. ASSUME NEW m \in Mail, Deliver(m) \/ Redeliver(m) PROVE Opened'
  <2>1. OnReply(m) /\ UNCHANGED why
    BY <1>10 DEF Deliver, Redeliver
  <2>2. at' = at \/ at' = [at EXCEPT ![pending[Reencode[Encode[m.conv]]]] = "got"]
    BY <2>1 DEF OnReply, Goto
  <2> QED
    BY <2>1, <2>2, <1>1 DEF Base, TypeOK
<1>11. CASE Restart
  BY <1>11, <1>1 DEF Restart, Ended
<1>12. CASE UNCHANGED <<at, why>>
  BY <1>12, <1>1
<1> QED
  BY <1>4, <1>5, <1>6, <1>7, <1>8, <1>9, <1>10, <1>11, <1>12 DEF Next, Reply, Tick, vars, pipe

\* For every encoding of addresses, shared or changing ones included, the review
\* gate opens only on a yes that came to the address of a review of the issue,
\* because mail failed, or because of another wait under the same address.
THEOREM GateOpensOnWord == Spec => []OpenedOnWord
<1> DEFINE J == /\ Base /\ NoRawMail /\ NoAddrRecord /\ HeardMail /\ Asked /\ Approved
           I == J /\ (HasGate => Opened)
<1>1. Init => I
  <2> SUFFICES ASSUME Init PROVE I
    OBVIOUS
  <2>1. NoRawMail /\ NoAddrRecord
    BY Keys DEF Init, NoRawMail, NoAddrRecord, RawKey, AddrKey, Key
  <2>2. HeardMail /\ Asked /\ Approved /\ Opened
    BY DEF Init, HeardMail, Asked, Approved, Opened, Talking
  <2> QED
    BY <2>1, <2>2, BaseInit
<1>2. I /\ [Next]_vars => I'
  <2>1. J /\ [Next]_vars => J'
    BY BaseStep, RawMailStep, AddrRecordStep, HeardMailStep, AskedStep, ApprovedStep
  <2>2. ASSUME J, HasGate, Opened, [Next]_vars PROVE Opened'
    BY <2>2, OpenedStep
  <2> QED
    BY <2>1, <2>2, Zenon
<1>3. I => OpenedOnWord
  BY Zenon DEF OpenedOnWord, Opened, Yes, Shared
<1> QED
  BY <1>1, <1>2, <1>3, PTL DEF Spec

\* Where no address loses anything to the cut, that is a yes to a review of the
\* issue, and no gate opens on a double wait.
THEOREM GateOpensOnReview ==
  ASSUME AddressesIntact
  PROVE  Spec => [](HasGate => \A p \in Pipe : at[p] = "cleared" /\ why[p] # "mail failed" =>
                      \E m \in heard : /\ m.says = "yes" /\ m.conv[2] = "review"
                                       /\ IssueOf[m.conv[1]] = IssueOf[p])
<1> DEFINE Strict == HasGate => \A p \in Pipe : at[p] = "cleared" /\ why[p] # "mail failed" =>
                       \E m \in heard : /\ m.says = "yes" /\ m.conv[2] = "review"
                                        /\ IssueOf[m.conv[1]] = IssueOf[p]
<1>1. TypeOK /\ OpenedOnWord => Strict
  <2> SUFFICES ASSUME TypeOK, OpenedOnWord, HasGate, NEW p \in Pipe,
                      at[p] = "cleared", why[p] # "mail failed"
               PROVE  \E m \in heard : /\ m.says = "yes" /\ m.conv[2] = "review"
                                       /\ IssueOf[m.conv[1]] = IssueOf[p]
    OBVIOUS
  <2>1. \A q \in Pipe : <<q, "review">> \in Conv
    BY DEF Conv, Kind
  <2>2. ~\E c \in sent \ {<<p, "review">>} : Encode[c] = Encode[<<p, "review">>]
    BY <2>1 DEF TypeOK, AddressesIntact
  <2>3. PICK m \in heard, q \in Pipe :
          /\ m.says = "yes" /\ Reencode[Encode[m.conv]] = Encode[<<q, "review">>]
          /\ IssueOf[q] = IssueOf[p]
    BY <2>2 DEF OpenedOnWord
  <2>4. m.conv \in Conv
    <3>1. m \in Mail
      BY <2>3 DEF TypeOK
    <3> QED
      BY <3>1 DEF Mail
  <2>5. m.conv = <<q, "review">>
    BY <2>1, <2>3, <2>4 DEF AddressesIntact
  <2>6. <<q, "review">>[1] = q /\ <<q, "review">>[2] = "review"
    OBVIOUS
  <2> QED
    BY <2>3, <2>5, <2>6
<1> QED
  BY <1>1, TypeCorrect, GateOpensOnWord, PTL
=============================================================================
