-------------------------- MODULE HitlInboxProofs --------------------------
(***************************************************************************)
(* The two parts of the server in which a person's answer decides.         *)
(* HitlInbox, for any number of entries, messages and concurrent calls:    *)
(* its invariants, and that it implements OneShotQuestion.  And Onboarding, *)
(* for any number of deliveries, revisions and restarts.                   *)
(***************************************************************************)
EXTENDS HitlInbox, Onboarding, TLAPS

USE RouteAssumption

\* Every column keeps its type.
THEOREM TypeCorrect == Spec => []TypeOK
<1>1. Init => TypeOK
  BY DEF Init, TypeOK, Text, Human
<1>2. TypeOK /\ [Next]_vars => TypeOK'
  <2> SUFFICES ASSUME TypeOK, [Next]_vars PROVE TypeOK'
    OBVIOUS
  <2> USE DEF Status, Open, Text
  <2>1. ASSUME NEW e \in Entry, Ask(e) PROVE TypeOK'
    BY <2>1 DEF TypeOK, Ask
  <2>2. ASSUME NEW e \in Entry, Supersede(e) PROVE TypeOK'
    <3>1. Superseded(e, status) \in [Entry -> Status \cup {"absent"}]
      BY DEF TypeOK, Superseded
    <3> QED
      BY <2>2, <3>1 DEF TypeOK, Supersede
  <2>3. ASSUME NEW e \in Entry, AdminRead(e) PROVE TypeOK'
    BY <2>3 DEF TypeOK, AdminRead
  <2>4. ASSUME NEW g \in Ingest, Decide(g) PROVE TypeOK'
    <3>1. ingest[g] \in [entry : Entry, mid : Mid]
      BY <2>4 DEF TypeOK, Decide
    <3>2. \/ UNCHANGED <<status, action>>
          \/ \E st \in {"mapped", "needs_clarification"}, t \in Mid \cup {Nothing} :
               /\ status' = [status EXCEPT ![ingest[g].entry] = st]
               /\ action' = [action EXCEPT ![ingest[g].entry] = t]
      BY <2>4, <3>1 DEF Decide, Mapped, Unclear
    <3>3. status' \in [Entry -> Status \cup {"absent"}] /\ action' \in [Entry -> Text]
      BY <3>1, <3>2 DEF TypeOK
    <3> QED
      BY <2>4, <3>3 DEF TypeOK, Decide
  <2>5. ASSUME NEW g \in Ingest, NEW m \in Mid, Accept(g, m) PROVE TypeOK'
    BY <2>5 DEF TypeOK, Accept
  <2>6. ASSUME NEW r \in Resumer, Resume(r) PROVE TypeOK'
    <3>1. resumer[r] \in [entry : Entry, human : Human]
      BY <2>6 DEF TypeOK, Resume
    <3>2. /\ status' \in [Entry -> Status \cup {"absent"}]
          /\ heard' \in [Entry -> Human] /\ resumes' \in [Entry -> Nat]
      <4>1. CASE UNCHANGED <<status, heard, resumes>>
        BY <4>1 DEF TypeOK
      <4>2. CASE ~UNCHANGED <<status, heard, resumes>>
        <5> DEFINE e == resumer[r].entry
        <5>1. /\ status' = [status EXCEPT ![e] = "resumed"]
              /\ Tell(e, resumer[r].human)
              /\ resumes' = [resumes EXCEPT ![e] = @ + 1]
          BY <2>6, <4>2 DEF Resume
        <5>2. e \in Entry /\ resumer[r].human \in Human
          BY <3>1
        <5>3. heard' \in [Entry -> Human]
          <6>1. CASE heard' = [heard EXCEPT ![e] = resumer[r].human]
            BY <6>1, <5>2 DEF TypeOK
          <6>2. CASE UNCHANGED heard
            BY <6>2 DEF TypeOK
          <6> QED
            BY <5>1, <6>1, <6>2 DEF Tell
        <5>4. resumes' \in [Entry -> Nat]
          BY <5>1, <5>2 DEF TypeOK
        <5>5. status' \in [Entry -> Status \cup {"absent"}]
          BY <5>1, <5>2 DEF TypeOK
        <5> QED
          BY <5>3, <5>4, <5>5
      <4> QED
        BY <4>1, <4>2
    <3> QED
      BY <2>6, <3>2 DEF TypeOK, Resume
  <2>7. ASSUME NEW r \in Resumer, NEW e \in Entry, ReadToResume(r, e) PROVE TypeOK'
    BY <2>7 DEF TypeOK, ReadToResume, Human
  <2>8. CASE SweepSelect
    BY <2>8 DEF TypeOK, SweepSelect
  <2>9. CASE SweepUpdate
    BY <2>9 DEF TypeOK, SweepUpdate
  <2>10. CASE AdminWrite
    <3>1. admin \in [entry : Entry, from : Status]
      BY <2>10 DEF TypeOK, AdminWrite
    <3> QED
      BY <2>10, <3>1 DEF TypeOK, AdminWrite
  <2>11. CASE Crash
    BY <2>11 DEF TypeOK, Crash
  <2>12. CASE UNCHANGED vars
    BY <2>12 DEF TypeOK, vars
  <2> QED
    BY <2>1, <2>2, <2>3, <2>4, <2>5, <2>6, <2>7, <2>8, <2>9, <2>10, <2>11, <2>12 DEF Next
<1> QED
  BY <1>1, <1>2, PTL DEF Spec

-----------------------------------------------------------------------------
(* How one step may change one row's status.                                *)

\* A row becomes open only when it is asked, which leaves its siblings to be
\* closed, or when it was open before.
OpensOnly(e) ==
  status'[e] \in Open =>
    \/ status[e] \in Open
    \/ status[e] = "absent" /\ e \in asking'

\* No step opens a row any other way.
LEMMA Opening ==
  ASSUME TypeOK, Next, NEW e \in Entry
  PROVE  OpensOnly(e)
<1> USE DEF OpensOnly, Open
<1>1. ASSUME NEW x \in Entry, Ask(x) PROVE OpensOnly(e)
  BY <1>1 DEF TypeOK, Ask
<1>8. ASSUME NEW x \in Entry, Supersede(x) PROVE OpensOnly(e)
  BY <1>8 DEF Supersede, Superseded
<1>2. ASSUME NEW g \in Ingest, Decide(g) PROVE OpensOnly(e)
  BY <1>2 DEF TypeOK, Decide, Mapped, Unclear
<1>3. ASSUME NEW g \in Ingest, NEW m \in Mid, Accept(g, m) PROVE OpensOnly(e)
  BY <1>3 DEF TypeOK, Accept
<1>4. ASSUME NEW r \in Resumer, Resume(r) PROVE OpensOnly(e)
  BY <1>4 DEF TypeOK, Resume
<1>5. CASE SweepUpdate
  BY <1>5 DEF TypeOK, SweepUpdate
<1>6. CASE AdminWrite
  BY <1>6 DEF TypeOK, AdminWrite
<1>7. CASE UNCHANGED status
  BY <1>7
<1> QED
  BY <1>1, <1>2, <1>3, <1>4, <1>5, <1>6, <1>7, <1>8
  DEF Next, AdminRead, ReadToResume, SweepSelect, Crash

\* The older siblings of a question are forgotten only when they are closed.
LEMMA Owing ==
  ASSUME TypeOK, Next, NEW e \in Entry, e \in asking \cup cut, e \notin (asking \cup cut)'
  PROVE  \A x \in Entry \ {e} : AttemptOf[x] = AttemptOf[e] => status'[x] \notin Open
<1>1. Supersede(e)
  <2>1. PICK x \in Entry : Supersede(x)
    BY DEF Next, Ask, AdminRead, Decide, Accept, Resume, ReadToResume, SweepSelect,
           SweepUpdate, AdminWrite, Crash
  <2> QED
    BY <2>1 DEF Supersede
<1> QED
  BY <1>1 DEF Supersede, Superseded, Open

\* A late reply, a replay or an operator never leaves two open questions of
\* one attempt, once the older ones were closed.
THEOREM AtMostOneOpen == Spec => []OneOpenPerAttempt
<1>1. Init => OneOpenPerAttempt
  BY DEF Init, OneOpenPerAttempt, Open
<1>2. TypeOK /\ OneOpenPerAttempt /\ [Next]_vars => OneOpenPerAttempt'
  <2> SUFFICES ASSUME TypeOK, OneOpenPerAttempt, [Next]_vars,
                      NEW e1 \in Entry, NEW e2 \in Entry, e1 # e2,
                      e1 \notin (asking \cup cut)', e2 \notin (asking \cup cut)',
                      status'[e1] \in Open, status'[e2] \in Open, AttemptOf[e1] = AttemptOf[e2]
               PROVE  FALSE
    BY DEF OneOpenPerAttempt
  <2>1. CASE Next
    <3>1. OpensOnly(e1) /\ OpensOnly(e2)
      BY <2>1, Opening
    <3>2. status[e1] \in Open /\ status[e2] \in Open
      BY <3>1 DEF OpensOnly
    <3>3. e1 \notin asking \cup cut /\ e2 \notin asking \cup cut
      BY <2>1, Owing
    <3> QED
      BY <3>2, <3>3 DEF OneOpenPerAttempt
  <2>2. CASE UNCHANGED vars
    BY <2>2 DEF vars, OneOpenPerAttempt
  <2> QED
    BY <2>1, <2>2
<1> QED
  BY <1>1, <1>2, TypeCorrect, PTL DEF Spec

-----------------------------------------------------------------------------
\* An entry that was resumed and never forced is resumed or expired for good.
ResumedIsClosed ==
  \A e \in Entry \ forced :
    \/ resumes[e] = 0
    \/ resumes[e] = 1 /\ status[e] \in {"resumed", "expired"}

\* One step resumes an entry at most once, and only from "mapped".
LEMMA ResumeStep ==
  ASSUME TypeOK, ResumedIsClosed, Next PROVE ResumedIsClosed'
<1> SUFFICES ASSUME NEW e \in Entry, e \notin forced'
             PROVE  \/ resumes'[e] = 0
                    \/ resumes'[e] = 1 /\ status'[e] \in {"resumed", "expired"}
  BY DEF ResumedIsClosed
<1> USE DEF Open
<1>0. e \notin forced /\ (resumes[e] = 0 \/ (resumes[e] = 1 /\ status[e] \in {"resumed", "expired"}))
  <2>1. forced \subseteq forced'
    BY DEF Next, Ask, Supersede, AdminRead, Decide, Accept, Resume, ReadToResume,
           SweepSelect, SweepUpdate, AdminWrite, Crash
  <2> QED
    BY <2>1 DEF ResumedIsClosed
<1>1. ASSUME NEW x \in Entry, Ask(x) \/ Supersede(x) PROVE resumes' = resumes
             /\ (status[e] \in {"resumed", "expired"} => status'[e] = status[e])
  <2>1. CASE Ask(x)
    BY <2>1 DEF TypeOK, Ask
  <2>2. CASE Supersede(x)
    BY <2>2 DEF Supersede, Superseded
  <2> QED
    BY <1>1, <2>1, <2>2
<1>2. ASSUME NEW g \in Ingest, Decide(g) PROVE resumes' = resumes
             /\ (status[e] \in {"resumed", "expired"} => status'[e] = status[e])
  BY <1>2 DEF TypeOK, Decide, Mapped, Unclear
<1>3. ASSUME NEW g \in Ingest, NEW m \in Mid, Accept(g, m) PROVE resumes' = resumes
             /\ (status[e] \in {"resumed", "expired"} => status'[e] = status[e])
  BY <1>3 DEF TypeOK, Accept
<1>4. ASSUME NEW r \in Resumer, Resume(r)
      PROVE  \/ resumes'[e] = resumes[e] /\ status'[e] = status[e]
             \/ /\ status[e] = "mapped" /\ status'[e] = "resumed"
                /\ resumes'[e] = resumes[e] + 1
  BY <1>4 DEF TypeOK, Resume
<1>5. CASE SweepUpdate
  BY <1>0, <1>5 DEF TypeOK, SweepUpdate
<1>6. CASE AdminWrite
  <2>1. CASE status[admin.entry] = admin.from
    <3>1. forced' = forced \cup {admin.entry}
      BY <1>6, <2>1 DEF AdminWrite
    <3>2. status' = [status EXCEPT ![admin.entry] = "mapped"] /\ resumes' = resumes
      BY <1>6, <2>1 DEF AdminWrite
    <3> QED
      BY <1>0, <3>1, <3>2 DEF TypeOK
  <2>2. CASE status[admin.entry] # admin.from
    BY <1>0, <1>6, <2>2 DEF AdminWrite
  <2> QED
    BY <2>1, <2>2
<1>7. CASE UNCHANGED <<status, resumes>>
  BY <1>0, <1>7
<1> QED
  BY <1>0, <1>1, <1>2, <1>3, <1>4, <1>5, <1>6, <1>7
  DEF Next, AdminRead, ReadToResume, SweepSelect, Crash

\* A human's answer is appended to the dossier at most once, whatever the
\* replays, concurrent resumes, sweeps and crashes, unless the operator forces
\* the entry.
THEOREM ResumedOnce == Spec => []ResumeOnce
<1>1. Init => ResumedIsClosed
  BY DEF Init, ResumedIsClosed
<1>2. TypeOK /\ ResumedIsClosed /\ [Next]_vars => ResumedIsClosed'
  <2>1. TypeOK /\ ResumedIsClosed /\ Next => ResumedIsClosed'
    BY ResumeStep
  <2>2. ResumedIsClosed /\ UNCHANGED vars => ResumedIsClosed'
    BY DEF vars, ResumedIsClosed
  <2> QED
    BY <2>1, <2>2
<1>3. ResumedIsClosed => ResumeOnce
  <2> SUFFICES ASSUME ResumedIsClosed, NEW e \in Entry \ forced PROVE resumes[e] <= 1
    BY Zenon DEF ResumeOnce
  <2>1. resumes[e] = 0 \/ resumes[e] = 1
    BY DEF ResumedIsClosed
  <2> QED
    BY <2>1
<1> QED
  BY <1>1, <1>2, <1>3, TypeCorrect, PTL DEF Spec

-----------------------------------------------------------------------------
(* What the dossier is told.                                                *)

Final == {"resumed", "expired"}
Settled == Final \cup {"mapped"}
Row(e) == [decision |-> action[e], hint |-> reply[e]]

\* A settled row that nobody forces keeps its answer and stays settled.
Keeps(e) ==
  /\ status[e] \in Settled => status'[e] \in Settled /\ Row(e)' = Row(e)
  /\ status[e] \in Final => status'[e] \in Final

\* No step changes the answer of a settled row, but the operator's.
LEMMA SettledKeeps ==
  ASSUME TypeOK, Next, NEW e \in Entry, e \notin forced' PROVE Keeps(e)
<1> USE DEF Keeps, Settled, Final, Open, Row
<1>1. ASSUME NEW x \in Entry, Ask(x) \/ Supersede(x) PROVE Keeps(e)
  <2>1. CASE Ask(x)
    BY <2>1 DEF TypeOK, Ask
  <2>2. CASE Supersede(x)
    BY <2>2 DEF Supersede, Superseded
  <2> QED
    BY <1>1, <2>1, <2>2
<1>2. ASSUME NEW g \in Ingest, Decide(g) PROVE Keeps(e)
  BY <1>2 DEF TypeOK, Decide, Mapped, Unclear
<1>3. ASSUME NEW g \in Ingest, NEW m \in Mid, Accept(g, m) PROVE Keeps(e)
  BY <1>3 DEF TypeOK, Accept
<1>4. ASSUME NEW r \in Resumer, Resume(r) PROVE Keeps(e)
  BY <1>4 DEF TypeOK, Resume
<1>5. CASE SweepUpdate
  BY <1>5 DEF TypeOK, SweepUpdate
<1>6. CASE AdminWrite
  <2>1. CASE status[admin.entry] = admin.from
    <3>1. /\ forced' = forced \cup {admin.entry}
          /\ status' = [status EXCEPT ![admin.entry] = "mapped"]
          /\ action' = [action EXCEPT ![admin.entry] = Admin]
          /\ reply' = [reply EXCEPT ![admin.entry] = Admin]
      BY <1>6, <2>1 DEF AdminWrite
    <3> QED
      BY <3>1 DEF TypeOK
  <2>2. CASE status[admin.entry] # admin.from
    BY <1>6, <2>2 DEF AdminWrite
  <2> QED
    BY <2>1, <2>2
<1>7. CASE UNCHANGED <<status, action, reply>>
  BY <1>7
<1> QED
  BY <1>1, <1>2, <1>3, <1>4, <1>5, <1>6, <1>7
  DEF Next, AdminRead, ReadToResume, SweepSelect, Crash

\* Whoever is about to resume an entry holds what its settled row says, and what
\* was heard of it is what its final row says.
HeldIsStored ==
  \A e \in Entry \ forced :
    /\ \A r \in Resumer :
         resumer[r] # Idle /\ resumer[r].entry = e =>
           status[e] \in Settled /\ resumer[r].human = Row(e)
    /\ heard[e].decision # Nothing => status[e] \in Final /\ heard[e] = Row(e)

\* Every step keeps snapshots and dossier in accord with the rows.
LEMMA HeldStep ==
  ASSUME TypeOK, HeldIsStored, Next PROVE HeldIsStored'
<1> SUFFICES ASSUME NEW e \in Entry, e \notin forced'
             PROVE  /\ \A r \in Resumer :
                         resumer'[r] # Idle /\ resumer'[r].entry = e =>
                           status'[e] \in Settled /\ resumer'[r].human = Row(e)'
                    /\ heard'[e].decision # Nothing => status'[e] \in Final /\ heard'[e] = Row(e)'
  BY DEF HeldIsStored, Row
<1>1. e \notin forced
  BY DEF Next, Ask, Supersede, AdminRead, Decide, Accept, Resume, ReadToResume,
         SweepSelect, SweepUpdate, AdminWrite, Crash
<1>2. Keeps(e)
  BY SettledKeeps
<1>3. /\ \A r \in Resumer :
           resumer[r] # Idle /\ resumer[r].entry = e =>
             status[e] \in Settled /\ resumer[r].human = Row(e)
      /\ heard[e].decision # Nothing => status[e] \in Final /\ heard[e] = Row(e)
  BY <1>1 DEF HeldIsStored
<1>4. ASSUME NEW r \in Resumer, resumer'[r] # Idle, resumer'[r].entry = e
      PROVE  status'[e] \in Settled /\ resumer'[r].human = Row(e)'
  <2>1. CASE resumer'[r] = resumer[r]
    BY <1>2, <1>3, <1>4, <2>1 DEF Keeps, Settled
  <2>2. CASE resumer'[r] # resumer[r]
    <3>1. PICK q \in Resumer, x \in Entry : ReadToResume(q, x)
      BY <1>4, <2>2 DEF Next, Ask, Supersede, AdminRead, Decide, Accept, Resume,
                        SweepSelect, SweepUpdate, AdminWrite, Crash, TypeOK
    <3>2. q = r /\ resumer'[r] = [entry |-> x, human |-> Row(x)]
      BY <2>2, <3>1 DEF ReadToResume, TypeOK, Row
    <3>3. x = e /\ status[e] = "mapped"
      BY <1>4, <3>1, <3>2 DEF ReadToResume
    <3> QED
      BY <1>2, <3>2, <3>3 DEF Keeps, Settled
  <2> QED
    BY <2>1, <2>2
<1>5. ASSUME heard'[e].decision # Nothing
      PROVE  status'[e] \in Final /\ heard'[e] = Row(e)'
  <2>1. CASE heard'[e] = heard[e]
    BY <1>2, <1>3, <1>5, <2>1 DEF Keeps, Settled, Final
  <2>2. CASE heard'[e] # heard[e]
    <3>1. PICK r \in Resumer : Resume(r)
      BY <2>2 DEF Next, Ask, Supersede, AdminRead, Decide, Accept, ReadToResume,
                  SweepSelect, SweepUpdate, AdminWrite, Crash
    <3>2. resumer[r] # Idle /\ resumer[r].entry = e /\ status[e] = "mapped"
          /\ heard'[e] = resumer[r].human /\ status'[e] = "resumed"
      BY <2>2, <3>1 DEF Resume, Tell, TypeOK
    <3> QED
      BY <1>2, <1>3, <3>2 DEF Keeps, Settled, Final
  <2> QED
    BY <2>1, <2>2
<1> QED
  BY <1>4, <1>5

\* The dossier never holds a decision or a hint the row does not have: a snapshot
\* that is resumed is still what is stored, whatever replies, sweeps and crashes
\* came between the reading and the commit, unless the operator forces the entry.
THEOREM HeardAsStored == Spec => []HeardIsStored
<1>1. Init => HeldIsStored
  <2> SUFFICES ASSUME Init, NEW e \in Entry
               PROVE  /\ \A r \in Resumer : resumer[r] = Idle
                      /\ heard[e].decision = Nothing
    BY DEF HeldIsStored
  <2> QED
    BY DEF Init
<1>2. TypeOK /\ HeldIsStored /\ [Next]_vars => HeldIsStored'
  <2>1. TypeOK /\ HeldIsStored /\ Next => HeldIsStored'
    BY HeldStep
  <2>2. HeldIsStored /\ UNCHANGED vars => HeldIsStored'
    BY DEF vars, HeldIsStored, Row
  <2> QED
    BY <2>1, <2>2
<1>3. HeldIsStored => HeardIsStored
  BY DEF HeldIsStored, HeardIsStored, Row
<1> QED
  BY <1>1, <1>2, <1>3, TypeCorrect, PTL DEF Spec

-----------------------------------------------------------------------------
(* The promise (OneShotQuestion).                                           *)

\* What is stored of an entry, and of a message the model reads, was asked and
\* belongs to it.
Belongs ==
  /\ \A e \in Entry \ forced :
       /\ reply[e] # Nothing => reply[e] \in Mid /\ To[reply[e]] = e
       /\ status[e] = "reply_received" => reply[e] # Nothing
  /\ \A g \in Ingest : ingest[g] # Idle => To[ingest[g].mid] = ingest[g].entry
  /\ \A e \in Entry : status[e] = "absent" =>
       e \notin forced /\ e \notin sweep /\ (admin # Idle => admin.entry # e)

\* A row that is there stays, and the operator's entries stay forced.
LEMMA AskedForGood ==
  ASSUME TypeOK, Next, NEW e \in Entry
  PROVE  (status'[e] = "absent" => status[e] = "absent") /\ forced \subseteq forced'
<1>1. forced \subseteq forced'
  BY DEF Next, Ask, Supersede, AdminRead, Decide, Accept, Resume, ReadToResume,
         SweepSelect, SweepUpdate, AdminWrite, Crash
<1>2. status'[e] = "absent" => status[e] = "absent"
  <2>1. ASSUME NEW x \in Entry, Ask(x) \/ Supersede(x)
        PROVE status'[e] = "absent" => status[e] = "absent"
    <3>1. CASE Ask(x)
      BY <3>1 DEF TypeOK, Ask
    <3>2. CASE Supersede(x)
      BY <3>2 DEF Supersede, Superseded
    <3> QED
      BY <2>1, <3>1, <3>2
  <2>2. ASSUME NEW g \in Ingest, Decide(g) PROVE status'[e] = "absent" => status[e] = "absent"
    BY <2>2 DEF TypeOK, Decide, Mapped, Unclear
  <2>3. ASSUME NEW g \in Ingest, NEW m \in Mid, Accept(g, m)
        PROVE status'[e] = "absent" => status[e] = "absent"
    BY <2>3 DEF TypeOK, Accept
  <2>4. ASSUME NEW r \in Resumer, Resume(r) PROVE status'[e] = "absent" => status[e] = "absent"
    BY <2>4 DEF TypeOK, Resume
  <2>5. CASE SweepUpdate \/ AdminWrite
    BY <2>5 DEF TypeOK, SweepUpdate, AdminWrite
  <2>6. CASE UNCHANGED status
    BY <2>6
  <2> QED
    BY <2>1, <2>2, <2>3, <2>4, <2>5, <2>6
    DEF Next, AdminRead, ReadToResume, SweepSelect, Crash
<1> QED
  BY <1>1, <1>2

\* Every step keeps what is stored where it belongs.
LEMMA BelongsStep ==
  ASSUME TypeOK, Belongs, Next PROVE Belongs'
<1>1. ASSUME NEW e \in Entry, e \notin forced'
      PROVE  /\ reply'[e] # Nothing => reply'[e] \in Mid /\ To[reply'[e]] = e
             /\ status'[e] = "reply_received" => reply'[e] # Nothing
  <2>0. /\ reply[e] # Nothing => reply[e] \in Mid /\ To[reply[e]] = e
        /\ status[e] = "reply_received" => reply[e] # Nothing
    BY <1>1, AskedForGood DEF Belongs
  <2>1. ASSUME NEW x \in Entry, Ask(x) \/ Supersede(x)
        PROVE  reply'[e] = reply[e] /\ (status'[e] = "reply_received" => status[e] = "reply_received")
    <3>1. CASE Ask(x)
      BY <3>1 DEF TypeOK, Ask
    <3>2. CASE Supersede(x)
      BY <3>2 DEF Supersede, Superseded
    <3> QED
      BY <2>1, <3>1, <3>2
  <2>2. ASSUME NEW g \in Ingest, Decide(g)
        PROVE  reply'[e] = reply[e] /\ (status'[e] = "reply_received" => status[e] = "reply_received")
    BY <2>2 DEF TypeOK, Decide, Mapped, Unclear
  <2>3. ASSUME NEW g \in Ingest, NEW m \in Mid, Accept(g, m)
        PROVE  \/ reply'[e] = reply[e] /\ status'[e] = status[e]
               \/ reply'[e] = m /\ To[m] = e
    BY <2>3 DEF TypeOK, Accept
  <2>4. ASSUME NEW r \in Resumer, Resume(r)
        PROVE  reply'[e] = reply[e] /\ (status'[e] = "reply_received" => status[e] = "reply_received")
    BY <2>4 DEF TypeOK, Resume
  <2>5. CASE SweepUpdate
    BY <2>0, <2>5 DEF TypeOK, SweepUpdate
  <2>6. CASE AdminWrite
    <3>1. CASE status[admin.entry] = admin.from
      <4>1. /\ forced' = forced \cup {admin.entry}
            /\ status' = [status EXCEPT ![admin.entry] = "mapped"]
            /\ reply' = [reply EXCEPT ![admin.entry] = Admin]
        BY <2>6, <3>1 DEF AdminWrite
      <4> QED
        BY <1>1, <2>0, <4>1 DEF TypeOK
    <3>2. CASE status[admin.entry] # admin.from
      BY <2>0, <2>6, <3>2 DEF AdminWrite
    <3> QED
      BY <3>1, <3>2
  <2>7. CASE UNCHANGED <<status, reply>>
    BY <2>0, <2>7
  <2> QED
    BY <2>0, <2>1, <2>2, <2>3, <2>4, <2>5, <2>6, <2>7
    DEF Next, AdminRead, ReadToResume, SweepSelect, Crash
<1>2. ASSUME NEW g \in Ingest, ingest'[g] # Idle PROVE To[ingest'[g].mid] = ingest'[g].entry
  <2>1. CASE ingest'[g] = ingest[g]
    BY <1>2, <2>1 DEF Belongs
  <2>2. CASE ingest'[g] # ingest[g]
    <3>1. PICK h \in Ingest, m \in Mid : Accept(h, m)
      BY <1>2, <2>2 DEF Next, Ask, Supersede, AdminRead, Decide, Resume, ReadToResume,
                        SweepSelect, SweepUpdate, AdminWrite, Crash, TypeOK
    <3>2. ingest'[g] = [entry |-> To[m], mid |-> m]
      BY <2>2, <3>1 DEF Accept, TypeOK
    <3> QED
      BY <3>2
  <2> QED
    BY <2>1, <2>2
<1>3. ASSUME NEW e \in Entry, status'[e] = "absent"
      PROVE  e \notin forced' /\ e \notin sweep' /\ (admin' # Idle => admin'.entry # e)
  <2>1. /\ status[e] = "absent" /\ e \notin forced /\ e \notin sweep
        /\ (admin # Idle => admin.entry # e)
    BY <1>3, AskedForGood DEF Belongs
  <2>2. CASE SweepSelect
    BY <2>1, <2>2 DEF SweepSelect, Open
  <2>3. CASE AdminWrite
    BY <2>1, <2>3 DEF AdminWrite
  <2>4. ASSUME NEW x \in Entry, AdminRead(x)
        PROVE  UNCHANGED <<forced, sweep>> /\ admin'.entry # e
    <3>1. admin' = [entry |-> x, from |-> status[x]] /\ status[x] # "absent"
      BY <2>4 DEF AdminRead
    <3> QED
      BY <2>1, <2>4, <3>1 DEF AdminRead
  <2>5. CASE UNCHANGED <<forced, sweep, admin>> \/ (sweep' = {} /\ UNCHANGED <<forced, admin>>)
    BY <2>1, <2>5
  <2> QED
    BY <2>1, <2>2, <2>3, <2>4, <2>5
    DEF Next, Ask, Supersede, Decide, Accept, Resume, ReadToResume, SweepUpdate, Crash
<1> QED
  BY <1>1, <1>2, <1>3 DEF Belongs

-----------------------------------------------------------------------------
\* A step leaves what an entry means to the pipeline as it was.
Steady(e) == Stage(e)' = Stage(e) /\ Decision(e)' = Decision(e) /\ HandedOn(e)' = HandedOn(e)

\* A step that concerns one entry at most, seen from the pipeline.
LEMMA OneChanges ==
  ASSUME NEW e \in Entry, \A x \in Entry \ {e} : Steady(x)
  PROVE  /\ [x \in Entry |-> Stage(x)]' = [[x \in Entry |-> Stage(x)] EXCEPT ![e] = Stage(e)']
         /\ [x \in Entry |-> Decision(x)]' = [[x \in Entry |-> Decision(x)] EXCEPT ![e] = Decision(e)']
         /\ [x \in Entry |-> HandedOn(x)]' = [[x \in Entry |-> HandedOn(x)] EXCEPT ![e] = HandedOn(e)']
BY DEF Steady

\* One that concerns none is none to the pipeline.
LEMMA NoneChanges ==
  ASSUME \A x \in Entry : Steady(x), asking' = asking PROVE UNCHANGED Promise!questions
BY DEF Steady, Promise!questions

\* Where the row stays as it is, so does what it means.
LEMMA SameRow ==
  ASSUME NEW x \in Entry, status'[x] = status[x], action'[x] = action[x], reply'[x] = reply[x],
         heard'[x] = heard[x], x \in forced' <=> x \in forced
  PROVE  Steady(x)
BY DEF Steady, Stage, Decision, HandedOn, Unheard

\* What is forced, or open and stays open, means the same whatever is stored.
LEMMA SameStage ==
  ASSUME NEW x \in Entry, heard'[x] = heard[x], x \in forced' <=> x \in forced,
         x \in forced \/ (status[x] \in Open /\ status'[x] \in Open)
  PROVE  Steady(x)
BY DEF Steady, Stage, Decision, HandedOn, Unheard, Open

\* A question that is asked is open.
LEMMA AskPuts ==
  ASSUME TypeOK, Belongs, NEW e \in Entry, Ask(e) PROVE Promise!Put(e)
<1>1. /\ status[e] = "absent" /\ e \notin forced
      /\ status' = [status EXCEPT ![e] = "sent"] /\ asking' = asking \cup {e}
      /\ UNCHANGED <<action, reply, heard, forced>>
  BY DEF Ask, Belongs
<1>2. \A x \in Entry \ {e} : Steady(x)
  <2> SUFFICES ASSUME NEW x \in Entry, x # e PROVE Steady(x)
    OBVIOUS
  <2>1. status'[x] = status[x]
    BY <1>1
  <2> QED
    BY <1>1, <2>1, SameRow
<1>3. Stage(e) = "unasked" /\ Stage(e)' = "open"
  BY <1>1 DEF TypeOK, Stage, Open
<1>4. Decision(e)' = Decision(e) /\ HandedOn(e)' = HandedOn(e)
  BY <1>1, <1>3 DEF Decision, HandedOn, Unheard
<1>5. /\ [x \in Entry |-> Stage(x)]' = [[x \in Entry |-> Stage(x)] EXCEPT ![e] = "open"]
      /\ [x \in Entry |-> Decision(x)]' = [x \in Entry |-> Decision(x)]
      /\ [x \in Entry |-> HandedOn(x)]' = [x \in Entry |-> HandedOn(x)]
  BY <1>2, <1>3, <1>4, OneChanges
<1> QED
  BY <1>1, <1>3, <1>5 DEF Promise!Put

\* One whose caller goes on closes what is open of its attempt.
LEMMA SupersedeCloses ==
  ASSUME TypeOK, NEW e \in Entry, Supersede(e) PROVE Promise!CloseOthers(e)
<1>1. /\ e \in asking /\ asking' = asking \ {e}
      /\ UNCHANGED <<action, reply, heard, forced>>
  BY DEF Supersede
<1>2. ASSUME NEW x \in Entry
      PROVE  status'[x] = IF x # e /\ AttemptOf[x] = AttemptOf[e] /\ status[x] \in Open
                          THEN "superseded" ELSE status[x]
  BY <1>2 DEF Supersede, Superseded
<1>3. ASSUME NEW x \in Entry
      PROVE  /\ Stage(x)' = IF x # e /\ AttemptOf[x] = AttemptOf[e] /\ Stage(x) = "open"
                            THEN "closed" ELSE Stage(x)
             /\ Decision(x)' = Decision(x) /\ HandedOn(x)' = HandedOn(x)
  BY <1>1, <1>2 DEF Stage, Decision, HandedOn, Unheard, Open
<1> QED
  BY <1>1, <1>3 DEF Promise!CloseOthers

\* The model's reading of a reply decides its question, or leaves it as it is.
LEMMA DecideDecides ==
  ASSUME TypeOK, Belongs, NEW g \in Ingest, Decide(g)
  PROVE  (\E e \in Entry : Promise!Decide(e)) \/ UNCHANGED Promise!questions
<1>0. PICK e \in Entry, m \in Mid : ingest[g].entry = e /\ ingest[g].mid = m
  BY DEF TypeOK, Decide
<1>1. To[m] = e /\ UNCHANGED <<reply, heard, forced, asking>>
  BY <1>0 DEF Decide, Belongs
<1>2. \/ UNCHANGED <<status, action>>
      \/ /\ status[e] = "reply_received"
         /\ \/ status' = [status EXCEPT ![e] = "mapped"] /\ action' = [action EXCEPT ![e] = m]
            \/ \E t \in Mid \cup {Nothing} :
                 /\ status' = [status EXCEPT ![e] = "needs_clarification"]
                 /\ action' = [action EXCEPT ![e] = t]
  BY <1>0 DEF Decide, Mapped, Unclear
<1>3. CASE UNCHANGED <<status, action>>
  BY <1>1, <1>3, SameRow, NoneChanges
<1>4. CASE ~UNCHANGED <<status, action>>
  <2>1. /\ status[e] = "reply_received" /\ status'[e] \in {"mapped", "needs_clarification"}
        /\ \A x \in Entry \ {e} : status'[x] = status[x] /\ action'[x] = action[x]
    BY <1>1, <1>2, <1>4 DEF TypeOK
  <2>2. \A x \in Entry \ {e} : Steady(x)
    BY <1>1, <2>1, SameRow
  <2>3. CASE e \in forced \/ status'[e] = "needs_clarification"
    <3>1. Steady(e)
      BY <1>1, <2>1, <2>3, SameStage DEF Open
    <3> QED
      BY <1>1, <2>2, <3>1, NoneChanges
  <2>4. CASE e \notin forced /\ status'[e] = "mapped"
    <3>1. action'[e] = m /\ reply'[e] \in Mid /\ To[reply'[e]] = e
      BY <1>1, <1>2, <1>4, <2>1, <2>4 DEF TypeOK, Belongs
    <3>2. /\ Stage(e) = "open" /\ Stage(e)' = "decided"
          /\ Decision(e)' = [decision |-> m, hint |-> reply'[e]] /\ HandedOn(e)' = HandedOn(e)
      BY <1>1, <2>1, <2>4, <3>1 DEF Stage, Decision, HandedOn, Open
    <3>3. /\ [x \in Entry |-> Stage(x)]' = [[x \in Entry |-> Stage(x)] EXCEPT ![e] = "decided"]
          /\ [x \in Entry |-> Decision(x)]' =
               [[x \in Entry |-> Decision(x)] EXCEPT ![e] = [decision |-> m, hint |-> reply'[e]]]
          /\ [x \in Entry |-> HandedOn(x)]' = [x \in Entry |-> HandedOn(x)]
      BY <1>1, <2>2, <3>2, OneChanges
    <3> QED
      <4>1. [x \in Entry |-> Stage(x)][e] = "open"
        BY <3>2
      <4>2. \E i, n \in Mid :
              /\ To[i] = e /\ To[n] = e
              /\ [x \in Entry |-> Decision(x)]' =
                   [[x \in Entry |-> Decision(x)] EXCEPT ![e] = [decision |-> i, hint |-> n]]
        BY <1>1, <3>1, <3>3
      <4>3. Promise!Decide(e)
        BY <1>1, <3>3, <4>1, <4>2 DEF Promise!Decide
      <4> QED
        BY <4>3
  <2> QED
    BY <2>1, <2>3, <2>4
<1> QED
  BY <1>3, <1>4

\* A resume hands on what was decided, or finds the row no more as it was.
LEMMA ResumeHandsOn ==
  ASSUME TypeOK, HeldIsStored, NEW r \in Resumer, Resume(r)
  PROVE  (\E e \in Entry : Promise!HandOn(e)) \/ UNCHANGED Promise!questions
<1>0. PICK e \in Entry, human \in Human : resumer[r].entry = e /\ resumer[r].human = human
  BY DEF TypeOK, Resume
<1>1. UNCHANGED <<action, reply, forced, asking>>
  BY DEF Resume
<1>2. \/ UNCHANGED <<status, heard>>
      \/ /\ status[e] = "mapped" /\ status' = [status EXCEPT ![e] = "resumed"]
         /\ heard' = [heard EXCEPT ![e] = human] \/ heard' = heard
  BY <1>0 DEF Resume, Tell
<1>3. CASE UNCHANGED <<status, heard>>
  BY <1>1, <1>3, SameRow, NoneChanges
<1>4. e \notin forced => human = Row(e)
  BY <1>0 DEF HeldIsStored, Resume
<1>5. CASE ~UNCHANGED <<status, heard>>
  <2>1. /\ status[e] = "mapped" /\ status'[e] = "resumed"
        /\ heard'[e] = human \/ heard'[e] = heard[e]
        /\ \A x \in Entry \ {e} : status'[x] = status[x] /\ heard'[x] = heard[x]
    BY <1>1, <1>2, <1>5 DEF TypeOK
  <2>2. \A x \in Entry \ {e} : Steady(x)
    BY <1>1, <2>1, SameRow
  <2>3. CASE e \in forced
    <3>1. Steady(e)
      BY <1>1, <2>3 DEF Steady, Stage, Decision, HandedOn, Unheard
    <3> QED
      BY <1>1, <2>2, <3>1, NoneChanges
  <2>4. CASE e \notin forced
    <3>1. /\ Stage(e) = "decided" /\ Stage(e)' = "closed" /\ Decision(e)' = Unheard
          /\ HandedOn(e)' = Decision(e) \/ HandedOn(e)' = HandedOn(e)
      BY <1>1, <1>4, <2>1, <2>4 DEF Stage, Decision, HandedOn, Row, Open
    <3>2. /\ [x \in Entry |-> Stage(x)]' = [[x \in Entry |-> Stage(x)] EXCEPT ![e] = "closed"]
          /\ [x \in Entry |-> Decision(x)]' = [[x \in Entry |-> Decision(x)] EXCEPT ![e] = Unheard]
          /\ \/ [x \in Entry |-> HandedOn(x)]' = [[x \in Entry |-> HandedOn(x)] EXCEPT ![e] = Decision(e)]
             \/ [x \in Entry |-> HandedOn(x)]' = [x \in Entry |-> HandedOn(x)]
      BY <1>1, <2>2, <3>1, OneChanges
    <3> QED
      BY <1>1, <3>1, <3>2 DEF Promise!HandOn, Promise!NoAnswer, Unheard
  <2> QED
    BY <2>3, <2>4
<1> QED
  BY <1>3, <1>5

\* The sweep closes what it found, whatever has become of it.
LEMMA SweepExpires ==
  ASSUME TypeOK, Belongs, SweepUpdate
  PROVE  \E S \in SUBSET Entry : Promise!Expire(S)
<1> DEFINE S == sweep \ forced
<1>1. /\ S \in SUBSET Entry /\ UNCHANGED <<action, reply, heard, forced, asking>>
      /\ status' = [e \in Entry |-> IF e \in sweep THEN "expired" ELSE status[e]]
  BY DEF SweepUpdate, TypeOK
<1>2. ASSUME NEW q \in S PROVE Stage(q) \in {"open", "decided", "closed"}
  BY <1>1, <1>2 DEF Stage, Belongs
<1>3. ASSUME NEW q \in Entry
      PROVE  /\ Stage(q)' = IF q \in S THEN "closed" ELSE Stage(q)
             /\ Decision(q)' = IF q \in S THEN Unheard ELSE Decision(q)
             /\ HandedOn(q)' = HandedOn(q)
  BY <1>1 DEF Stage, Decision, HandedOn, Unheard, Open
<1> HIDE DEF S
<1> QED
  BY <1>1, <1>2, <1>3 DEF Promise!Expire, Promise!NoAnswer, Unheard

\* What the operator swaps is forced from then on.
LEMMA AdminForces ==
  ASSUME TypeOK, Belongs, AdminWrite
  PROVE  (\E e \in Entry : Promise!Force(e)) \/ UNCHANGED Promise!questions
<1>0. PICK e \in Entry : admin.entry = e
  BY DEF TypeOK, AdminWrite
<1>1. status[e] # "absent" /\ UNCHANGED <<heard, asking>>
  BY <1>0 DEF AdminWrite, Belongs
<1>2. CASE status[e] # admin.from
  BY <1>0, <1>1, <1>2, SameRow, NoneChanges DEF AdminWrite
<1>3. CASE status[e] = admin.from
  <2>1. /\ status' = [status EXCEPT ![e] = "mapped"] /\ action' = [action EXCEPT ![e] = Admin]
        /\ reply' = [reply EXCEPT ![e] = Admin] /\ forced' = forced \cup {e}
    BY <1>0, <1>3 DEF AdminWrite
  <2>2. \A x \in Entry \ {e} : Steady(x)
    <3> SUFFICES ASSUME NEW x \in Entry, x # e PROVE Steady(x)
      OBVIOUS
    <3>1. /\ status'[x] = status[x] /\ action'[x] = action[x] /\ reply'[x] = reply[x]
          /\ heard'[x] = heard[x] /\ (x \in forced' <=> x \in forced)
      BY <1>1, <2>1 DEF TypeOK
    <3> QED
      BY <3>1, SameRow
  <2>3. /\ Stage(e) # "unasked" /\ Stage(e)' = "forced"
        /\ Decision(e)' = Unheard /\ HandedOn(e)' = Unheard
    BY <1>1, <2>1 DEF Stage, Decision, HandedOn, Open
  <2>4. /\ [x \in Entry |-> Stage(x)]' = [[x \in Entry |-> Stage(x)] EXCEPT ![e] = "forced"]
        /\ [x \in Entry |-> Decision(x)]' = [[x \in Entry |-> Decision(x)] EXCEPT ![e] = Unheard]
        /\ [x \in Entry |-> HandedOn(x)]' = [[x \in Entry |-> HandedOn(x)] EXCEPT ![e] = Unheard]
    BY <1>1, <2>2, <2>3, OneChanges
  <2> QED
    BY <1>1, <2>3, <2>4 DEF Promise!Force, Promise!NoAnswer, Unheard
<1> QED
  BY <1>2, <1>3

\* A reply that is taken, a row that is read and a sweep that begins mean nothing
\* to the pipeline yet.
LEMMA OthersMeanNothing ==
  ASSUME TypeOK,
         \/ \E e \in Entry : AdminRead(e)
         \/ \E g \in Ingest, m \in Mid : Accept(g, m)
         \/ \E r \in Resumer, e \in Entry : ReadToResume(r, e)
         \/ SweepSelect
  PROVE  UNCHANGED Promise!questions
<1>1. ASSUME NEW g \in Ingest, NEW m \in Mid, Accept(g, m) PROVE \A x \in Entry : Steady(x)
  <2> SUFFICES ASSUME NEW x \in Entry PROVE Steady(x)
    OBVIOUS
  <2>1. UNCHANGED <<action, heard, forced>>
    BY <1>1 DEF Accept
  <2>2. CASE x = To[m]
    <3>1. status[x] \in Open /\ status'[x] = "reply_received"
      BY <1>1, <2>2 DEF Accept, TypeOK
    <3> QED
      BY <2>1, <3>1, SameStage DEF Open
  <2>3. CASE x # To[m]
    <3>1. status'[x] = status[x] /\ reply'[x] = reply[x]
      BY <1>1, <2>3 DEF Accept, TypeOK
    <3> QED
      BY <2>1, <3>1, SameRow
  <2> QED
    BY <2>2, <2>3
<1>2. ASSUME UNCHANGED <<status, action, reply, heard, forced>>
      PROVE  \A x \in Entry : Steady(x)
  BY <1>2, SameRow
<1>3. asking' = asking
  BY DEF AdminRead, Accept, ReadToResume, SweepSelect
<1>4. \A x \in Entry : Steady(x)
  BY <1>1, <1>2 DEF AdminRead, ReadToResume, SweepSelect
<1> QED
  BY <1>3, <1>4, NoneChanges

\* A crash of the server ends the calls that had older questions to close.
LEMMA CrashLeaves ==
  ASSUME Crash PROVE Promise!Leave
<1>1. /\ asking' = {} /\ UNCHANGED <<status, action, reply, heard, forced>>
  BY DEF Crash
<1>2. \A x \in Entry : Steady(x)
  BY <1>1, SameRow
<1> QED
  BY <1>1, <1>2 DEF Promise!Leave, Steady

\* The inbox keeps its promise, for any entries, attempts, messages, callers and
\* crashes: every step of it is a step of OneShotQuestion or none.
THEOREM InboxAsksOnce == Spec => AsksOnce
<1>1. Init => Promise!Init /\ Belongs /\ HeldIsStored
  <2> SUFFICES ASSUME Init PROVE Promise!Init /\ Belongs /\ HeldIsStored
    OBVIOUS
  <2>1. \A e \in Entry : Stage(e) = "unasked" /\ Decision(e) = Unheard /\ HandedOn(e) = Unheard
    <3> SUFFICES ASSUME NEW e \in Entry
                 PROVE  Stage(e) = "unasked" /\ Decision(e) = Unheard /\ HandedOn(e) = Unheard
      OBVIOUS
    <3>1. e \notin forced /\ status[e] = "absent" /\ heard[e] = Unheard
      BY DEF Init, Unheard
    <3>2. Stage(e) = "unasked"
      BY <3>1 DEF Stage, Open
    <3> QED
      BY <3>1, <3>2 DEF Decision, HandedOn
  <2>2. Promise!Init
    BY <2>1 DEF Init, Promise!Init, Promise!NoAnswer, Unheard
  <2>3. Belongs
    BY DEF Init, Belongs
  <2>4. HeldIsStored
    <3>1. \A e \in Entry : (\A r \in Resumer : resumer[r] = Idle) /\ heard[e].decision = Nothing
      BY DEF Init
    <3> QED
      BY <3>1 DEF HeldIsStored
  <2> QED
    BY <2>2, <2>3, <2>4
<1>2. TypeOK /\ Belongs /\ HeldIsStored /\ [Next]_vars => Belongs' /\ HeldIsStored'
  <2>1. TypeOK /\ Belongs /\ HeldIsStored /\ Next => Belongs' /\ HeldIsStored'
    BY BelongsStep, HeldStep
  <2>2. Belongs /\ HeldIsStored /\ UNCHANGED vars => Belongs' /\ HeldIsStored'
    BY DEF vars, Belongs, HeldIsStored, Row
  <2> QED
    BY <2>1, <2>2
<1>3. TypeOK /\ Belongs /\ HeldIsStored /\ [Next]_vars => [Promise!Next]_(Promise!questions)
  <2> SUFFICES ASSUME TypeOK, Belongs, HeldIsStored, [Next]_vars
               PROVE  Promise!Next \/ UNCHANGED Promise!questions
    OBVIOUS
  <2>1. CASE UNCHANGED vars
    BY <2>1, SameRow, NoneChanges DEF vars
  <2>2. CASE \E e \in Entry : Ask(e) \/ Supersede(e)
    BY <2>2, AskPuts, SupersedeCloses DEF Promise!Next
  <2>3. CASE \E g \in Ingest : Decide(g)
    BY <2>3, DecideDecides DEF Promise!Next
  <2>4. CASE \E r \in Resumer : Resume(r)
    BY <2>4, ResumeHandsOn DEF Promise!Next
  <2>5. CASE SweepUpdate
    BY <2>5, SweepExpires DEF Promise!Next
  <2>6. CASE AdminWrite
    BY <2>6, AdminForces DEF Promise!Next
  <2>7. CASE Crash
    BY <2>7, CrashLeaves DEF Promise!Next
  <2> QED
    BY <2>1, <2>2, <2>3, <2>4, <2>5, <2>6, <2>7, OthersMeanNothing DEF Next
<1> QED
  BY <1>1, <1>2, <1>3, TypeCorrect, PTL DEF Spec, AsksOnce, Promise!Spec

-----------------------------------------------------------------------------
(* The introspection of a new repository (Onboarding).                      *)

\* The places from which a handler puts files in place or takes them away.
Replacing == {"completing", "labeling", "unmanifest", "unadapt"}
Activating == {"looking", "writing"} \cup Replacing

\* Only one introspection runs: what it has found in the files and in the store
\* is still so when it comes to use it.
OneAtATime == \A e \in Event : at[e] \in Introspecting => inFlight = e

\* What is mailed, and answered, is a draft that was made; a revision is made
\* only as long as the conversation may go on.
DraftMailed ==
  \A e \in Event :
    /\ at[e] = "sending" => last >= 1
    /\ at[e] \in {"waiting", "revising"} => stored.draft \in 1..last
    /\ at[e] = "revising" => stored.revisions < MaxRevisions

\* What is put in place is what the PM said yes to.
HoldsApproved == \A e \in Event : at[e] \in Activating => holds[e] \in approved

\* How far the two files are, at each place of an activation.
FilesInStep ==
  \A e \in Event :
    /\ at[e] = "writing" => manifest = 0 /\ adapter = 0
    /\ at[e] = "completing" => manifest = holds[e] /\ adapter = 0
    /\ at[e] \in {"labeling", "unmanifest"} => manifest = holds[e] /\ adapter = holds[e]
    /\ at[e] = "unadapt" =>
         adapter = holds[e] /\ (manifest = 0 \/ (spoiled = TRUE /\ manifest = holds[e]))

\* The adapter a handler has loaded is fit, and stands beside a manifest
\* that no operator wrote.
LoadsApproved ==
  \A e \in Event : at[e] = "checking" => used[e].adapter \in Fit /\ manifest # Operator

\* Outside of an activation the files are both there, with the labels, or not at
\* all, as long as nothing has failed.
BothOrNone ==
  /\ adapter # 0 => manifest = adapter /\ labels = TRUE
  /\ adapter = 0 => manifest \in {0, Operator}
AtRest ==
  spoiled = FALSE /\ restarts = 0 /\ (\A e \in Event : at[e] \notin Replacing) => BothOrNone

OnboardInv ==
  /\ OnboardTypeOK /\ OneAtATime /\ DraftMailed /\ HoldsApproved
  /\ FilesInStep /\ LoadsApproved /\ OnlyApproved /\ AtRest

\* The steps of the handler that runs the introspection, and of the others.
IntrospectionStep(e) ==
  \/ Gather(e) \/ MakeDraft(e) \/ SendDraft(e) \/ Revise(e) \/ Approve(e) \/ AskForChanges(e)
  \/ Look(e) \/ WriteManifest(e) \/ WriteAdapter(e)
  \/ MakeLabels(e) \/ RemoveManifest(e) \/ RemoveAdapter(e)
LoadingStep(e) == Receive(e) \/ Require(e) \/ Introspect(e) \/ Check(e)

\* A handler that goes on moves nobody else.
LEMMA GoesOn ==
  ASSUME OnboardTypeOK, NEW e \in Event, NEW place \in Busy \cup Answered, Goto(e, place)
  PROVE  /\ at'[e] = place
         /\ \A x \in Event \ {e} : at'[x] = at[x]
         /\ at' \in [Event -> {"new", "lost"} \cup Busy \cup Answered]
BY DEF OnboardTypeOK, Goto, Busy, Answered

\* An introspection that is over takes those who joined it along.
LEMMA IsOver ==
  ASSUME OnboardTypeOK, NEW e \in Event, NEW place \in {"error", "loading"}, Over(e, place)
  PROVE  /\ at'[e] = place /\ inFlight' = Nobody
         /\ \A x \in Event \ {e} : at'[x] = at[x] \/ (at[x] = "joined" /\ at'[x] = place)
         /\ at' \in [Event -> {"new", "lost"} \cup Busy \cup Answered]
BY DEF OnboardTypeOK, Over, Busy, Answered

\* A step of the introspection moves its own handler, and others at most out of
\* their wait for it.
LEMMA IntrospectionMoves ==
  ASSUME OnboardTypeOK, NEW e \in Event, IntrospectionStep(e)
  PROVE  /\ at[e] \in Introspecting
         /\ \/ at'[e] \in Introspecting /\ UNCHANGED inFlight
            \/ at'[e] \in {"error", "loading"} /\ inFlight' = Nobody
         /\ \A x \in Event \ {e} :
              at'[x] = at[x] \/ (at[x] = "joined" /\ at'[x] \in {"error", "loading"})
         /\ at' \in [Event -> {"new", "lost"} \cup Busy \cup Answered]
         /\ UNCHANGED <<used, restarts>>
<1>1. /\ at[e] \in Introspecting /\ UNCHANGED <<used, restarts>>
      /\ \/ \E place \in Introspecting : Goto(e, place) /\ UNCHANGED inFlight
         \/ \E place \in {"error", "loading"} : Over(e, place)
  BY DEF IntrospectionStep, Introspecting, Gather, MakeDraft, SendDraft, Revise, Approve,
         AskForChanges, Look, WriteManifest, WriteAdapter, MakeLabels, RemoveManifest,
         RemoveAdapter, Fails, Mails, DiskFails
<1>2. Introspecting \subseteq Busy
  BY DEF Busy
<1> QED
  BY <1>1, <1>2, GoesOn, IsOver

\* While one handler introspects no other does, nor after its step.
LEMMA OthersAreElsewhere ==
  ASSUME OnboardTypeOK, OneAtATime, NEW e \in Event, IntrospectionStep(e)
  PROVE  \A x \in Event \ {e} : at[x] \notin Introspecting /\ at'[x] \notin Introspecting
<1>1. \A x \in Event \ {e} : at[x] \notin Introspecting
  BY IntrospectionMoves DEF OneAtATime
<1>2. "error" \notin Introspecting /\ "loading" \notin Introspecting
  BY DEF Introspecting
<1> QED
  BY <1>1, <1>2, IntrospectionMoves

\* What a step of the introspection does to the drafts and the files.
LEMMA IntrospectionWrites ==
  ASSUME OnboardInv, NEW e \in Event, IntrospectionStep(e)
  PROVE  /\ last' \in Draft /\ last <= last' /\ approved \subseteq approved' /\ approved' \subseteq 1..last'
         /\ stored' \in [draft : Draft, revisions : 0..MaxRevisions]
         /\ holds' \in [Event -> Draft]
         /\ manifest' \in {manifest, Torn} \cup {0, holds[e]} /\ adapter' \in {adapter, Torn} \cup {0, holds[e]}
<1> USE OnboardingAssumption
<1>0. /\ last \in Nat /\ approved \subseteq 1..last /\ holds \in [Event -> Nat]
      /\ stored \in [draft : Nat, revisions : 0..MaxRevisions]
      /\ DraftMailed
  BY DEF OnboardInv, OnboardTypeOK, Draft
<1>1. CASE Gather(e) \/ Look(e) \/ AskForChanges(e) \/ MakeLabels(e)
  <2>1. UNCHANGED <<last, approved, stored, holds, manifest, adapter>>
    BY <1>1 DEF Gather, Look, AskForChanges, MakeLabels, talk, disk
  <2> QED
    BY <1>0, <2>1 DEF Draft
<1>2. CASE MakeDraft(e)
  <2>1. UNCHANGED <<approved, stored, holds, manifest, adapter>> /\ last' \in {last, last + 1}
    BY <1>2 DEF MakeDraft, disk
  <2> QED
    BY <1>0, <2>1 DEF Draft
<1>3. CASE SendDraft(e)
  <2>1. UNCHANGED <<last, approved, holds, manifest, adapter>>
    BY <1>3 DEF SendDraft, disk
  <2>2. stored' = stored \/ stored' = [draft |-> last, revisions |-> 0]
    BY <1>3 DEF SendDraft, Mails
  <2> QED
    BY <1>0, <2>1, <2>2 DEF Draft
<1>4. CASE Revise(e)
  <2>1. UNCHANGED <<approved, holds, manifest, adapter>> /\ at[e] = "revising"
    BY <1>4 DEF Revise, disk
  <2>2. \/ UNCHANGED <<stored, last>>
        \/ last' = last + 1 /\ stored' = stored
        \/ last' = last + 1 /\ stored' = [draft |-> last + 1, revisions |-> stored.revisions + 1]
    BY <1>4 DEF Revise, Mails
  <2>3. stored.revisions + 1 \in 0..MaxRevisions
    BY <1>0, <2>1, OnboardingAssumption DEF DraftMailed, OnboardingAssumption
  <2> QED
    BY <1>0, <2>1, <2>2, <2>3 DEF Draft
<1>5. CASE Approve(e)
  <2>1. /\ UNCHANGED <<last, manifest, adapter>> /\ at[e] = "waiting"
        /\ approved' = approved \cup {stored.draft}
        /\ stored' = [draft |-> 0, revisions |-> 0] /\ holds' = [holds EXCEPT ![e] = stored.draft]
    BY <1>5 DEF Approve, NoState, disk
  <2>2. stored.draft \in 1..last
    BY <1>0, <2>1 DEF DraftMailed
  <2>3. stored' \in [draft : Draft, revisions : 0..MaxRevisions]
    BY <2>1, OnboardingAssumption DEF Draft, OnboardingAssumption
  <2>4. holds' \in [Event -> Draft] /\ approved' \subseteq 1..last'
    BY <1>0, <2>1, <2>2 DEF Draft
  <2> QED
    BY <1>0, <2>1, <2>3, <2>4 DEF Draft
<1>6. CASE WriteManifest(e) \/ WriteAdapter(e) \/ RemoveManifest(e) \/ RemoveAdapter(e)
  <2>1. /\ UNCHANGED <<last, approved, stored, holds>>
        /\ manifest' \in {manifest, Torn} \cup {0, holds[e]} /\ adapter' \in {adapter, Torn} \cup {0, holds[e]}
    BY <1>6 DEF WriteManifest, WriteAdapter, RemoveManifest, RemoveAdapter, DiskFails, Written, talk, disk
  <2> QED
    BY <1>0, <2>1 DEF Draft
<1> QED
  BY <1>1, <1>2, <1>3, <1>4, <1>5, <1>6 DEF IntrospectionStep

\* What is flagged of the labels and the disk is flagged TRUE or not at all.
LEMMA FlagsStep ==
  ASSUME labels \in BOOLEAN, spoiled \in BOOLEAN, [OnboardNext]_onboardVars
  PROVE  labels' \in BOOLEAN /\ spoiled' \in BOOLEAN
<1>1. labels' = labels \/ labels' = TRUE
  BY DEF OnboardNext, onboardVars, Handles, Answers, Receive, Require, Introspect, Check, Gather,
         MakeDraft, SendDraft, Revise, Approve, AskForChanges, Look, WriteManifest, WriteAdapter,
         MakeLabels, RemoveManifest, RemoveAdapter, Restart
<1>2. spoiled' = spoiled \/ spoiled' = TRUE
  BY DEF OnboardNext, onboardVars, Handles, Answers, Receive, Require, Introspect, Check, Gather,
         MakeDraft, SendDraft, Revise, Approve, AskForChanges, Look, WriteManifest, WriteAdapter,
         MakeLabels, RemoveManifest, RemoveAdapter, Restart, DiskFails
<1> QED
  BY <1>1, <1>2

\* A step of the introspection keeps the invariant.
LEMMA IntrospectionKeeps ==
  ASSUME OnboardInv, NEW e \in Event, IntrospectionStep(e), [OnboardNext]_onboardVars
  PROVE  OnboardInv'
<1>1. OnboardTypeOK'
  <2>1. /\ at' \in [Event -> {"new", "lost"} \cup Busy \cup Answered]
        /\ inFlight' \in Event \cup {Nobody} /\ UNCHANGED <<used, restarts>>
    BY IntrospectionMoves DEF OnboardInv, OnboardTypeOK
  <2>2. /\ holds' \in [Event -> Draft] /\ stored' \in [draft : Draft, revisions : 0..MaxRevisions]
        /\ last' \in Draft /\ approved' \subseteq 1..last'
    BY IntrospectionWrites
  <2>3. manifest' \in Draft \cup {Operator, Torn} /\ adapter' \in Draft \cup {Torn}
    <3>1. holds[e] \in Draft /\ 0 \in Draft /\ manifest \in Draft \cup {Operator, Torn}
          /\ adapter \in Draft \cup {Torn}
      BY DEF OnboardInv, OnboardTypeOK, Draft
    <3> QED
      BY <3>1, IntrospectionWrites
  <2>4. labels' \in BOOLEAN /\ spoiled' \in BOOLEAN
    BY FlagsStep DEF OnboardInv, OnboardTypeOK
  <2>5. /\ used \in [Event -> [adapter : Draft \cup {Torn}, manifest : Draft \cup {Operator, Torn}]]
        /\ restarts \in Nat
    BY DEF OnboardInv, OnboardTypeOK
  <2> QED
    BY <2>1, <2>2, <2>3, <2>4, <2>5 DEF OnboardTypeOK
<1>2. OneAtATime'
  <2>1. CASE at'[e] \in Introspecting /\ UNCHANGED inFlight
    BY <2>1, IntrospectionMoves, OthersAreElsewhere DEF OnboardInv, OneAtATime
  <2>2. CASE at'[e] \in {"error", "loading"}
    BY <2>2, OthersAreElsewhere DEF OnboardInv, OneAtATime, Introspecting
  <2> QED
    BY <2>1, <2>2, IntrospectionMoves DEF OnboardInv
<1>3. DraftMailed'
  <2>1. /\ at'[e] = "sending" => last' >= 1
        /\ at'[e] \in {"waiting", "revising"} => stored'.draft \in 1..last'
        /\ at'[e] = "revising" => stored'.revisions < MaxRevisions
    <3>0. /\ last \in Nat
          /\ at[e] = "sending" => last >= 1
          /\ at[e] \in {"waiting", "revising"} => stored.draft \in 1..last
      BY DEF OnboardInv, OnboardTypeOK, Draft, DraftMailed
    <3>1. CASE MakeDraft(e)
      <4>1. \/ at'[e] = "sending" /\ last' = last + 1
            \/ at'[e] = "error"
        BY <3>1, GoesOn, IsOver DEF MakeDraft, Fails, OnboardInv, Busy, Introspecting
      <4> QED
        BY <3>0, <4>1
    <3>2. CASE SendDraft(e) \/ Revise(e)
      <4>1. \/ /\ at'[e] = "waiting" /\ stored'.draft = last'
               /\ (last' = last /\ at[e] = "sending") \/ last' = last + 1
            \/ at'[e] = "error"
        BY <3>2, GoesOn, IsOver DEF SendDraft, Revise, Mails, OnboardInv, Busy, Introspecting
      <4> QED
        BY <3>0, <4>1
    <3>3. CASE AskForChanges(e)
      <4>1. \/ at'[e] = "revising" /\ stored.revisions < MaxRevisions
            \/ at'[e] = "error"
        BY <3>3, GoesOn, IsOver DEF AskForChanges, OnboardInv, Busy, Introspecting
      <4>2. at[e] = "waiting" /\ stored' = stored /\ last' = last
        BY <3>3 DEF AskForChanges, talk
      <4> QED
        BY <3>0, <4>1, <4>2
    <3>4. CASE \/ Gather(e) \/ Approve(e) \/ Look(e) \/ WriteManifest(e) \/ WriteAdapter(e)
               \/ MakeLabels(e) \/ RemoveManifest(e) \/ RemoveAdapter(e)
      <4>1. at'[e] \in {"drafting", "error", "loading"} \cup Activating
        BY <3>4, GoesOn, IsOver
           DEF Gather, Approve, Look, WriteManifest, WriteAdapter, MakeLabels, RemoveManifest,
               RemoveAdapter, Fails, DiskFails, OnboardInv, Busy, Introspecting, Activating, Replacing
      <4> QED
        BY <4>1 DEF Activating, Replacing
    <3> QED
      BY <3>1, <3>2, <3>3, <3>4 DEF IntrospectionStep
  <2>2. \A x \in Event \ {e} : at'[x] \notin {"sending", "waiting", "revising"}
    BY OthersAreElsewhere DEF OnboardInv, Introspecting
  <2> QED
    BY <2>1, <2>2 DEF DraftMailed
<1>4. HoldsApproved'
  <2>1. at'[e] \in Activating => holds'[e] \in approved'
    <3>1. CASE Approve(e)
      <4>1. holds' = [holds EXCEPT ![e] = stored.draft] /\ approved' = approved \cup {stored.draft}
        BY <3>1 DEF Approve
      <4> QED
        BY <4>1 DEF OnboardInv, OnboardTypeOK
    <3>2. CASE \/ Look(e) \/ WriteManifest(e) \/ WriteAdapter(e)
               \/ MakeLabels(e) \/ RemoveManifest(e) \/ RemoveAdapter(e)
      <4>1. at[e] \in Activating /\ UNCHANGED <<holds, approved>>
        BY <3>2 DEF Look, WriteManifest, WriteAdapter, MakeLabels, RemoveManifest, RemoveAdapter,
                    talk, Activating, Replacing
      <4> QED
        BY <4>1 DEF OnboardInv, HoldsApproved
    <3>3. CASE Gather(e) \/ MakeDraft(e) \/ SendDraft(e) \/ Revise(e) \/ AskForChanges(e)
      <4>1. at'[e] \in {"drafting", "sending", "waiting", "revising", "error"}
        BY <3>3, GoesOn, IsOver
           DEF Gather, MakeDraft, SendDraft, Revise, AskForChanges, Mails, Fails, OnboardInv, Busy,
               Introspecting
      <4> QED
        BY <4>1 DEF Activating, Replacing
    <3> QED
      BY <3>1, <3>2, <3>3 DEF IntrospectionStep
  <2>2. \A x \in Event \ {e} : at'[x] \notin Activating
    BY OthersAreElsewhere DEF OnboardInv, Introspecting, Activating, Replacing
  <2> QED
    BY <2>1, <2>2 DEF HoldsApproved
<1>5. FilesInStep'
  <2> DEFINE Way(x) ==
        /\ at[x] = "writing" => manifest = 0 /\ adapter = 0
        /\ at[x] = "completing" => manifest = holds[x] /\ adapter = 0
        /\ at[x] \in {"labeling", "unmanifest"} => manifest = holds[x] /\ adapter = holds[x]
        /\ at[x] = "unadapt" =>
             adapter = holds[x] /\ (manifest = 0 \/ (spoiled = TRUE /\ manifest = holds[x]))
  <2>0. Way(e)
    BY DEF OnboardInv, FilesInStep
  <2>1. Way(e)'
    <3>1. CASE Look(e)
      <4>1. (at'[e] = "writing" /\ manifest' = 0 /\ adapter' = 0) \/ at'[e] = "error"
        BY <3>1, GoesOn, IsOver DEF Look, OnboardInv, Busy, Introspecting, disk
      <4> QED
        BY <4>1
    <3>2. CASE WriteManifest(e)
      <4>1. \/ at'[e] = "completing" /\ manifest' = holds[e] /\ adapter' = adapter
            \/ at'[e] = "error"
        BY <3>2, GoesOn, IsOver DEF WriteManifest, DiskFails, OnboardInv, Busy, Introspecting
      <4>2. at[e] = "writing" /\ holds' = holds
        BY <3>2 DEF WriteManifest
      <4> QED
        BY <2>0, <4>1, <4>2
    <3>3. CASE WriteAdapter(e)
      <4>1. \/ at'[e] = "labeling" /\ adapter' = holds[e] /\ manifest' = manifest
            \/ at'[e] = "error"
        BY <3>3, GoesOn, IsOver DEF WriteAdapter, DiskFails, OnboardInv, Busy, Introspecting
      <4>2. at[e] = "completing" /\ holds' = holds
        BY <3>3 DEF WriteAdapter
      <4> QED
        BY <2>0, <4>1, <4>2
    <3>4. CASE MakeLabels(e)
      <4>1. at'[e] \in {"unmanifest", "loading"}
        BY <3>4, GoesOn, IsOver DEF MakeLabels, OnboardInv, Busy, Introspecting
      <4>2. at[e] = "labeling" /\ UNCHANGED <<manifest, adapter, holds>>
        BY <3>4 DEF MakeLabels, disk
      <4> QED
        BY <2>0, <4>1, <4>2
    <3>5. CASE RemoveManifest(e)
      <4>1. at'[e] = "unadapt"
        BY <3>5, GoesOn DEF RemoveManifest, OnboardInv, Busy, Introspecting
      <4>2. /\ at[e] = "unmanifest" /\ UNCHANGED <<adapter, holds>>
            /\ manifest' = 0 \/ (manifest' = manifest /\ spoiled' = TRUE)
        BY <3>5 DEF RemoveManifest
      <4> QED
        BY <2>0, <4>1, <4>2
    <3>6. CASE \/ Gather(e) \/ MakeDraft(e) \/ SendDraft(e) \/ Revise(e) \/ Approve(e)
               \/ AskForChanges(e) \/ RemoveAdapter(e)
      <4>1. at'[e] \in {"drafting", "sending", "waiting", "revising", "looking", "error"}
        BY <3>6, GoesOn, IsOver
           DEF Gather, MakeDraft, SendDraft, Revise, Approve, AskForChanges, RemoveAdapter, Mails,
               Fails, OnboardInv, Busy, Introspecting
      <4> QED
        BY <4>1
    <3> QED
      BY <3>1, <3>2, <3>3, <3>4, <3>5, <3>6 DEF IntrospectionStep
  <2>2. \A x \in Event \ {e} :
          at'[x] \notin {"writing", "completing", "labeling", "unmanifest", "unadapt"}
    BY OthersAreElsewhere DEF OnboardInv, Introspecting
  <2> QED
    BY <2>1, <2>2 DEF FilesInStep
<1>6. /\ approved \subseteq approved' /\ UNCHANGED used /\ Fit \subseteq Fit'
      /\ manifest' \in {manifest, Torn} \cup {0, holds[e]}
  <2>1. spoiled' = spoiled \/ spoiled' = TRUE
    BY DEF IntrospectionStep, Gather, MakeDraft, SendDraft, Revise, Approve, AskForChanges, Look,
           WriteManifest, WriteAdapter, MakeLabels, RemoveManifest, RemoveAdapter, DiskFails
  <2> QED
    BY <2>1, IntrospectionWrites, IntrospectionMoves DEF OnboardInv, Fit
<1>7. \A x \in Event : at'[x] \in {"checking", "started"} => at'[x] = at[x]
  <2>1. at'[e] \notin {"checking", "started"}
    BY IntrospectionMoves DEF OnboardInv, Introspecting
  <2> QED
    BY <2>1, IntrospectionMoves DEF OnboardInv
<1>8. LoadsApproved'
  <2>1. manifest # Operator => manifest' # Operator
    <3>1. holds[e] \in Nat
      BY DEF OnboardInv, OnboardTypeOK, Draft
    <3> QED
      BY <1>6, <3>1 DEF Operator, Torn
  <2> QED
    BY <1>6, <1>7, <2>1 DEF OnboardInv, LoadsApproved
<1>9. OnlyApproved'
  <2>1. \A x \in Event : at'[x] = "started" => used'[x].adapter \in Fit' /\ used'[x].manifest \in Fit'
    BY <1>6, <1>7 DEF OnboardInv, OnlyApproved
  <2> DEFINE Kept(m, a, ok, fit) == /\ a # 0 => a \in fit /\ m \in (IF a = Torn THEN ok ELSE {0, a})
                                    /\ m \notin {0, Operator} => m \in fit
  <2>2. Kept(manifest', adapter', approved', Fit')
    <3>0. Kept(manifest, adapter, approved', Fit')
      BY <1>6 DEF OnboardInv, OnlyApproved
    <3>1. CASE UNCHANGED <<manifest, adapter>>
      BY <3>0, <3>1
    <3>2. CASE WriteManifest(e)
      <4>1. at[e] = "writing" /\ adapter' = adapter /\ UNCHANGED <<approved, restarts>>
            /\ (manifest' = holds[e] \/ (manifest' \in {0, Torn, holds[e]} /\ spoiled' = TRUE))
        BY <3>2 DEF WriteManifest, DiskFails, Written, talk
      <4>2. holds[e] \in approved /\ adapter = 0
        BY <4>1 DEF OnboardInv, HoldsApproved, FilesInStep, Activating
      <4> QED
        BY <1>6, <4>1, <4>2 DEF Fit
    <3>3. CASE WriteAdapter(e)
      <4>1. at[e] = "completing" /\ manifest' = manifest /\ UNCHANGED <<approved, restarts>>
            /\ (adapter' = holds[e] \/ (adapter' \in {0, Torn, holds[e]} /\ spoiled' = TRUE))
        BY <3>3 DEF WriteAdapter, DiskFails, Written, talk
      <4>2. holds[e] \in approved /\ manifest = holds[e]
        BY <4>1 DEF OnboardInv, HoldsApproved, FilesInStep, Activating, Replacing
      <4> QED
        BY <1>6, <4>1, <4>2 DEF Fit
    <3>4. CASE RemoveManifest(e) \/ RemoveAdapter(e)
      <4>1. \/ manifest' \in {0, manifest} /\ adapter' = adapter
            \/ manifest' = manifest /\ adapter' \in {0, adapter}
        BY <3>4 DEF RemoveManifest, RemoveAdapter
      <4>2. adapter = holds[e] /\ holds[e] \in Nat
        BY <3>4 DEF RemoveManifest, RemoveAdapter, OnboardInv, OnboardTypeOK, FilesInStep, Draft
      <4>3. adapter # Torn
        BY <4>2 DEF Torn
      <4> QED
        BY <3>0, <4>1, <4>3
    <3>5. CASE ~(WriteManifest(e) \/ WriteAdapter(e) \/ RemoveManifest(e) \/ RemoveAdapter(e))
      <4>1. UNCHANGED <<manifest, adapter>>
        BY <3>5 DEF IntrospectionStep, Gather, MakeDraft, SendDraft, Revise, Approve, AskForChanges,
                    Look, MakeLabels, disk
      <4> QED
        BY <3>1, <4>1
    <3> QED
      BY <3>2, <3>3, <3>4, <3>5
  <2> QED
    BY <2>1, <2>2 DEF OnlyApproved
<1>10. AtRest'
  <2> SUFFICES ASSUME spoiled' = FALSE, restarts' = 0, \A x \in Event : at'[x] \notin Replacing
               PROVE  BothOrNone'
    BY DEF AtRest
  <2>0. holds[e] \in Nat /\ restarts = 0
    BY IntrospectionMoves DEF OnboardInv, OnboardTypeOK, Draft
  <2>1. CASE WriteManifest(e) \/ WriteAdapter(e) \/ RemoveManifest(e)
    <3>1. at'[e] \in Replacing \/ spoiled' = TRUE
      BY <2>1, GoesOn DEF WriteManifest, WriteAdapter, RemoveManifest, DiskFails, OnboardInv, Busy,
                          Introspecting, Replacing
    <3> QED
      BY <3>1
  <2>2. CASE MakeLabels(e)
    <3>1. at[e] = "labeling" /\ UNCHANGED <<manifest, adapter>>
      BY <2>2 DEF MakeLabels, disk
    <3>2. labels' = TRUE
      <4>1. Goto(e, "unmanifest") => at'[e] \in Replacing
        BY GoesOn DEF OnboardInv, Busy, Introspecting, Replacing
      <4> QED
        BY <2>2, <4>1 DEF MakeLabels
    <3>3. manifest = holds[e] /\ adapter = holds[e]
      BY <3>1 DEF OnboardInv, FilesInStep
    <3>4. holds[e] # 0
      BY <3>1 DEF OnboardInv, OnboardTypeOK, HoldsApproved, Activating, Replacing
    <3> QED
      BY <3>1, <3>2, <3>3, <3>4 DEF BothOrNone
  <2>3. CASE RemoveAdapter(e)
    <3>1. at[e] = "unadapt" /\ adapter' = 0 /\ manifest' = manifest /\ spoiled # TRUE
      BY <2>3 DEF RemoveAdapter
    <3>2. manifest = 0
      BY <3>1 DEF OnboardInv, FilesInStep
    <3> QED
      BY <3>1, <3>2 DEF BothOrNone
  <2>4. CASE \/ Gather(e) \/ MakeDraft(e) \/ SendDraft(e) \/ Revise(e) \/ Approve(e)
             \/ AskForChanges(e) \/ Look(e)
    <3>1. at[e] \notin Replacing /\ UNCHANGED <<manifest, adapter, labels, spoiled>>
      BY <2>4 DEF Gather, MakeDraft, SendDraft, Revise, Approve, AskForChanges, Look, disk, Replacing
    <3>2. \A x \in Event : at[x] \notin Replacing
      BY <3>1, OthersAreElsewhere DEF OnboardInv, Introspecting, Replacing
    <3>3. BothOrNone
      BY <2>0, <3>1, <3>2 DEF OnboardInv, AtRest
    <3> QED
      BY <3>1, <3>3 DEF BothOrNone
  <2> QED
    BY <2>1, <2>2, <2>3, <2>4 DEF IntrospectionStep
<1> QED
  BY <1>1, <1>2, <1>3, <1>4, <1>5, <1>8, <1>9, <1>10 DEF OnboardInv

\* So does a step of another handler: it changes no file, and finds an adapter
\* only where one was approved.
LEMMA LoadingKeeps ==
  ASSUME OnboardInv, NEW e \in Event, LoadingStep(e)
  PROVE  OnboardInv'
<1>1. /\ UNCHANGED <<holds, stored, last, approved, manifest, adapter, labels, spoiled, restarts>>
      /\ \A x \in Event \ {e} : at'[x] = at[x] /\ used'[x] = used[x]
      /\ at' \in [Event -> {"new", "lost"} \cup Busy \cup Answered]
  <2>1. UNCHANGED <<holds, stored, last, approved, manifest, adapter, labels, spoiled, restarts>>
    BY DEF LoadingStep, Receive, Require, Introspect, Check, talk, disk
  <2>2. \E place \in {"loading", "ignored", "checking", "joined", "gathering", "error", "started"} :
          Goto(e, place)
    BY DEF LoadingStep, Receive, Require, Introspect, Check
  <2>3. \A x \in Event \ {e} : used'[x] = used[x]
    BY DEF LoadingStep, Receive, Require, Introspect, Check, OnboardInv, OnboardTypeOK
  <2> QED
    BY <2>1, <2>2, <2>3, GoesOn DEF OnboardInv, Busy, Answered, Introspecting
<1>2. /\ at[e] \notin Introspecting
      /\ \/ at'[e] \notin Introspecting /\ inFlight' = inFlight
         \/ at'[e] = "gathering" /\ inFlight = Nobody /\ inFlight' = e
  BY GoesOn DEF LoadingStep, Receive, Require, Introspect, Check, OnboardInv, OnboardTypeOK,
                Busy, Answered, Introspecting
<1>3. /\ used' \in [Event -> [adapter : Draft \cup {Torn}, manifest : Draft \cup {Operator, Torn}]]
      /\ at'[e] = "checking" => adapter # 0 /\ used'[e].adapter = adapter
      /\ at'[e] = "started" => /\ at[e] = "checking" /\ used'[e].adapter = used[e].adapter
                               /\ manifest # 0 /\ used'[e].manifest = manifest
  <2>0. /\ used \in [Event -> [adapter : Draft \cup {Torn}, manifest : Draft \cup {Operator, Torn}]]
        /\ adapter \in Draft \cup {Torn} /\ manifest \in Draft \cup {Operator, Torn}
    BY DEF OnboardInv, OnboardTypeOK
  <2>1. CASE Receive(e) \/ Introspect(e)
    <3>1. used' = used /\ at'[e] \in {"loading", "ignored", "joined", "gathering"}
      BY <2>1, GoesOn DEF Receive, Introspect, OnboardInv, Busy, Answered, Introspecting
    <3> QED
      BY <2>0, <3>1
  <2>2. CASE Require(e)
    <3>1. \/ adapter # 0 /\ used' = [used EXCEPT ![e].adapter = adapter] /\ at'[e] = "checking"
          \/ used' = used /\ at'[e] = "error"
      BY <2>2, GoesOn DEF Require, OnboardInv, Busy, Answered
    <3> QED
      BY <2>0, <3>1
  <2>3. CASE Check(e)
    <3>1. \/ used' = used /\ at'[e] = "error"
          \/ /\ used' = [used EXCEPT ![e].manifest = manifest] /\ at'[e] = "started"
             /\ manifest # 0 /\ at[e] = "checking"
      BY <2>3, GoesOn DEF Check, OnboardInv, Answered
    <3> QED
      BY <2>0, <3>1
  <2> QED
    BY <2>1, <2>2, <2>3 DEF LoadingStep
<1>4. OnboardTypeOK'
  <2>1. inFlight' \in Event \cup {Nobody}
    BY <1>2 DEF OnboardInv, OnboardTypeOK
  <2>2. labels' \in BOOLEAN /\ spoiled' \in BOOLEAN
    BY <1>1 DEF OnboardInv, OnboardTypeOK
  <2>3. /\ holds' \in [Event -> Draft] /\ stored' \in [draft : Draft, revisions : 0..MaxRevisions]
        /\ last' \in Draft /\ approved' \subseteq 1..last'
        /\ manifest' \in Draft \cup {Operator, Torn} /\ adapter' \in Draft \cup {Torn} /\ restarts' \in Nat
    BY <1>1 DEF OnboardInv, OnboardTypeOK
  <2> QED
    BY <1>1, <1>3, <2>1, <2>2, <2>3 DEF OnboardTypeOK
<1>5. OneAtATime'
  <2>1. inFlight = Nobody => \A x \in Event : at[x] \notin Introspecting
    BY OnboardingAssumption DEF OnboardInv, OneAtATime, OnboardingAssumption
  <2> QED
    BY <1>1, <1>2, <2>1 DEF OnboardInv, OneAtATime
<1>6. at'[e] \notin {"sending", "waiting", "revising"} \cup Activating
  BY <1>2 DEF Introspecting, Activating, Replacing
<1>7. DraftMailed' /\ HoldsApproved' /\ FilesInStep'
  BY <1>1, <1>6 DEF OnboardInv, DraftMailed, HoldsApproved, FilesInStep, Activating, Replacing
<1>8. LoadsApproved' /\ OnlyApproved'
  <2>1. /\ adapter # 0 => adapter \in Fit /\ manifest \in (IF adapter = Torn THEN approved ELSE {0, adapter})
        /\ manifest \notin {0, Operator} => manifest \in Fit
        /\ adapter # 0 => manifest # Operator
        /\ Fit' = Fit
    BY <1>1 DEF OnboardInv, OnlyApproved, OnboardTypeOK, Operator, Torn, Draft, Fit
  <2>2. LoadsApproved'
    BY <1>1, <1>3, <2>1 DEF OnboardInv, LoadsApproved
  <2>3. at'[e] = "started" => used'[e].adapter \in Fit /\ used'[e].manifest \in Fit
    BY <1>3, <2>1 DEF OnboardInv, LoadsApproved
  <2> QED
    BY <1>1, <2>1, <2>2, <2>3 DEF OnboardInv, OnlyApproved
<1>9. AtRest'
  <2>1. (\A x \in Event : at'[x] \notin Replacing) => \A x \in Event : at[x] \notin Replacing
    BY <1>1, <1>2 DEF Introspecting, Replacing
  <2> QED
    BY <1>1, <2>1 DEF OnboardInv, AtRest, BothOrNone
<1> QED
  BY <1>4, <1>5, <1>7, <1>8, <1>9 DEF OnboardInv

\* A restart drops every call and leaves the store as it is; of the one file that
\* was being written it may leave a part.
LEMMA RestartKeeps ==
  ASSUME OnboardInv, Restart PROVE OnboardInv'
<1>1. /\ UNCHANGED <<used, holds, stored, last, approved, labels, spoiled>>
      /\ inFlight' = Nobody /\ restarts' = restarts + 1
  BY DEF Restart, talk
<1>2. /\ at' \in [Event -> {"new", "lost"} \cup Busy \cup Answered]
      /\ \A x \in Event : at'[x] \notin Busy /\ (at'[x] = at[x] \/ at'[x] = "lost")
  BY DEF Restart, OnboardInv, OnboardTypeOK, Busy, Answered, Introspecting
<1>3. restarts \in Nat
  BY DEF OnboardInv, OnboardTypeOK
<1>4. \/ UNCHANGED <<manifest, adapter>>
      \/ manifest = 0 /\ adapter = 0 /\ manifest' = Torn /\ adapter' = 0
      \/ adapter = 0 /\ adapter' = Torn /\ manifest' = manifest /\ manifest \in approved
  <2>1. manifest' = manifest \/ (manifest' = Torn /\ \E e \in Event : at[e] = "writing")
    BY DEF Restart, Left
  <2>2. adapter' = adapter \/ (adapter' = Torn /\ \E e \in Event : at[e] = "completing")
    BY DEF Restart, Left
  <2>3. ASSUME NEW e \in Event, at[e] = "writing"
        PROVE  manifest = 0 /\ adapter = 0 /\ \A x \in Event : at[x] # "completing"
    BY <2>3 DEF OnboardInv, OneAtATime, FilesInStep, Introspecting
  <2>4. ASSUME NEW e \in Event, at[e] = "completing"
        PROVE  adapter = 0 /\ manifest \in approved /\ \A x \in Event : at[x] # "writing"
    BY <2>4 DEF OnboardInv, OneAtATime, HoldsApproved, FilesInStep, Introspecting, Activating, Replacing
  <2>5. CASE \E e \in Event : at[e] = "writing"
    BY <2>1, <2>2, <2>3, <2>5
  <2>6. CASE \E e \in Event : at[e] = "completing"
    BY <2>1, <2>2, <2>4, <2>6
  <2> QED
    BY <2>1, <2>2, <2>5, <2>6
<1>5. OnboardTypeOK'
  <2>1. restarts' \in Nat
    BY <1>1, <1>3
  <2>2. manifest' \in Draft \cup {Operator, Torn} /\ adapter' \in Draft \cup {Torn}
    BY <1>4 DEF OnboardInv, OnboardTypeOK, Draft
  <2> QED
    BY <1>1, <1>2, <2>1, <2>2 DEF OnboardInv, OnboardTypeOK
<1>6. OneAtATime' /\ DraftMailed' /\ HoldsApproved' /\ FilesInStep' /\ LoadsApproved'
  BY <1>2 DEF OneAtATime, DraftMailed, HoldsApproved, FilesInStep, LoadsApproved, Busy, Introspecting,
              Activating, Replacing
<1>7. OnlyApproved'
  <2>1. Fit' = approved \cup {Torn} /\ Fit \subseteq Fit' /\ 0 # Torn
    BY <1>1, <1>3 DEF Fit, Torn
  <2>2. \A x \in Event : at'[x] = "started" => at[x] = "started"
    BY <1>2
  <2>3. /\ adapter' # 0 => /\ adapter' \in Fit'
                           /\ manifest' \in (IF adapter' = Torn THEN approved ELSE {0, adapter'})
        /\ manifest' \notin {0, Operator} => manifest' \in Fit'
    <3>1. /\ adapter # 0 => /\ adapter \in Fit
                            /\ manifest \in (IF adapter = Torn THEN approved ELSE {0, adapter})
          /\ manifest \notin {0, Operator} => manifest \in Fit
      BY DEF OnboardInv, OnlyApproved
    <3>2. CASE UNCHANGED <<manifest, adapter>>
      BY <2>1, <3>1, <3>2
    <3>3. CASE manifest' = Torn /\ adapter' = 0
      BY <2>1, <3>3
    <3>4. CASE adapter' = Torn /\ manifest' = manifest /\ manifest \in approved
      BY <2>1, <3>4
    <3> QED
      BY <1>4, <3>2, <3>3, <3>4
  <2> QED
    BY <1>1, <2>1, <2>2, <2>3 DEF OnboardInv, OnlyApproved
<1>8. AtRest'
  <2>1. restarts' # 0
    BY <1>1, <1>3
  <2> QED
    BY <2>1 DEF AtRest
<1> QED
  BY <1>5, <1>6, <1>7, <1>8 DEF OnboardInv

\* The invariant of an introspection.
LEMMA OnboardInvHolds == OnboardSpec => []OnboardInv
<1>1. OnboardInit => OnboardInv
  <2> SUFFICES ASSUME OnboardInit PROVE OnboardInv
    OBVIOUS
  <2>1. /\ at = [e \in Event |-> "new"] /\ inFlight = Nobody /\ holds = [e \in Event |-> 0]
        /\ used = [e \in Event |-> [adapter |-> 0, manifest |-> 0]]
        /\ stored = [draft |-> 0, revisions |-> 0] /\ last = 0
        /\ manifest \in {0, Operator} /\ adapter = 0 /\ approved = {} /\ restarts = 0
    BY DEF OnboardInit, NoState
  <2>2. labels \in BOOLEAN /\ spoiled \in BOOLEAN
    BY DEF OnboardInit
  <2>3. OnboardTypeOK
    <3>1. /\ at \in [Event -> {"new", "lost"} \cup Busy \cup Answered]
          /\ used \in [Event -> [adapter : Draft \cup {Torn}, manifest : Draft \cup {Operator, Torn}]]
          /\ inFlight \in Event \cup {Nobody} /\ holds \in [Event -> Draft]
      BY <2>1 DEF Draft
    <3>2. stored \in [draft : Draft, revisions : 0..MaxRevisions]
      BY <2>1, OnboardingAssumption DEF Draft, OnboardingAssumption
    <3>3. /\ last \in Draft /\ approved \subseteq 1..last
          /\ manifest \in Draft \cup {Operator, Torn} /\ adapter \in Draft \cup {Torn} /\ restarts \in Nat
      BY <2>1 DEF Draft
    <3> QED
      BY <2>2, <3>1, <3>2, <3>3 DEF OnboardTypeOK
  <2>4. OneAtATime /\ DraftMailed /\ HoldsApproved /\ FilesInStep /\ LoadsApproved
    BY <2>1 DEF OneAtATime, DraftMailed, HoldsApproved, FilesInStep, LoadsApproved, Introspecting,
                Activating, Replacing
  <2>5. OnlyApproved /\ AtRest
    <3>1. \A e \in Event : at[e] # "started"
      BY <2>1
    <3>2. OnlyApproved
      BY <2>1, <3>1 DEF OnlyApproved
    <3>3. AtRest
      BY <2>1 DEF AtRest, BothOrNone
    <3> QED
      BY <3>2, <3>3
  <2> QED
    BY <2>3, <2>4, <2>5 DEF OnboardInv
<1>2. OnboardInv /\ [OnboardNext]_onboardVars => OnboardInv'
  <2> SUFFICES ASSUME OnboardInv, [OnboardNext]_onboardVars PROVE OnboardInv'
    OBVIOUS
  <2>1. CASE UNCHANGED onboardVars
    BY <2>1 DEF onboardVars, OnboardInv, OnboardTypeOK, OneAtATime, DraftMailed, HoldsApproved,
                FilesInStep, LoadsApproved, OnlyApproved, Fit, AtRest, BothOrNone
  <2>2. ASSUME NEW e \in Event, Handles(e) \/ Answers(e) PROVE OnboardInv'
    <3>1. IntrospectionStep(e) \/ LoadingStep(e)
      BY <2>2 DEF Handles, Answers, IntrospectionStep, LoadingStep
    <3> QED
      BY <3>1, IntrospectionKeeps, LoadingKeeps
  <2> QED
    BY <2>1, <2>2, RestartKeeps DEF OnboardNext
<1> QED
  BY <1>1, <1>2, PTL DEF OnboardSpec

\* Every variable of the introspection keeps its type; what the PM has approved
\* are drafts that were made, and no conversation is revised too often.
THEOREM OnboardTypeCorrect == OnboardSpec => []OnboardTypeOK
BY OnboardInvHolds, PTL DEF OnboardInv

\* Whatever fails, restarts or runs at the same time, no file is in place, and
\* none is used by a pipeline, that is not a draft the PM approved, or what a
\* write that failed or a crash has left of one.
THEOREM ApprovedOnly == OnboardSpec => []OnlyApproved
BY OnboardInvHolds, PTL DEF OnboardInv

\* As long as the disk works and the process lives, an introspection leaves both
\* files and the labels, or nothing.
THEOREM WhollyActivated == OnboardSpec => []WholeOrNothing
<1>1. OnboardInv => WholeOrNothing
  <2> SUFFICES ASSUME OnboardInv, inFlight = Nobody, spoiled = FALSE, restarts = 0 PROVE BothOrNone
    BY DEF WholeOrNothing, BothOrNone, OnboardInv, OnboardTypeOK
  <2>1. \A e \in Event : at[e] \notin Introspecting
    BY OnboardingAssumption DEF OnboardInv, OneAtATime, OnboardingAssumption
  <2> QED
    BY <2>1 DEF OnboardInv, AtRest, Introspecting, Replacing
<1> QED
  BY <1>1, OnboardInvHolds, PTL
=============================================================================
