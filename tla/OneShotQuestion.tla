-------------------------- MODULE OneShotQuestion --------------------------
(***************************************************************************)
(* What the human-in-the-loop inbox promises a pipeline of its questions:   *)
(* a question is put once and then closes, unless the asker dies, what was  *)
(* open of the attempt; it is decided once, by a message that answers it;   *)
(* the decision is handed on at most once, as it was made; and what is      *)
(* closed stays closed.  Of a question the operator has forced it promises  *)
(* nothing.                                                                 *)
(***************************************************************************)
CONSTANTS Question, AttemptOf, Message, To, None

VARIABLES
  state,    \* [question]: "unasked", "open", "decided", "closed" or "forced"
  answer,   \* [question]: what it is decided to be, as long as it is to be handed on
  told,     \* [question]: what was handed on
  closing   \* questions put whose asker has yet to close the others of the attempt

questions == <<state, answer, told, closing>>

NoAnswer == [decision |-> None, hint |-> None]

Init ==
  /\ state = [q \in Question |-> "unasked"]
  /\ answer = [q \in Question |-> NoAnswer] /\ told = [q \in Question |-> NoAnswer]
  /\ closing = {}

Put(q) ==
  /\ state[q] = "unasked" /\ state' = [state EXCEPT ![q] = "open"]
  /\ closing' = closing \cup {q}
  /\ UNCHANGED <<answer, told>>

CloseOthers(q) ==
  /\ q \in closing /\ closing' = closing \ {q}
  /\ state' = [x \in Question |->
                 IF x # q /\ AttemptOf[x] = AttemptOf[q] /\ state[x] = "open" THEN "closed" ELSE state[x]]
  /\ UNCHANGED <<answer, told>>

\* The askers die.
Leave == closing' = {} /\ UNCHANGED <<state, answer, told>>

\* The decision is read from one message; the text kept with it may be another's.
Decide(q) ==
  /\ state[q] = "open" /\ state' = [state EXCEPT ![q] = "decided"]
  /\ \E m, n \in Message :
       /\ To[m] = q /\ To[n] = q
       /\ answer' = [answer EXCEPT ![q] = [decision |-> m, hint |-> n]]
  /\ UNCHANGED <<told, closing>>

\* The answer may get lost on its way.
HandOn(q) ==
  /\ state[q] = "decided" /\ state' = [state EXCEPT ![q] = "closed"]
  /\ answer' = [answer EXCEPT ![q] = NoAnswer]
  /\ told' = [told EXCEPT ![q] = answer[q]] \/ UNCHANGED told
  /\ UNCHANGED closing

Expire(S) ==
  /\ \A q \in S : state[q] \in {"open", "decided", "closed"}
  /\ state' = [q \in Question |-> IF q \in S THEN "closed" ELSE state[q]]
  /\ answer' = [q \in Question |-> IF q \in S THEN NoAnswer ELSE answer[q]]
  /\ UNCHANGED <<told, closing>>

Force(q) ==
  /\ state[q] # "unasked" /\ state' = [state EXCEPT ![q] = "forced"]
  /\ answer' = [answer EXCEPT ![q] = NoAnswer] /\ told' = [told EXCEPT ![q] = NoAnswer]
  /\ UNCHANGED closing

Next ==
  \/ \E q \in Question : Put(q) \/ CloseOthers(q) \/ Decide(q) \/ HandOn(q) \/ Force(q)
  \/ \E S \in SUBSET Question : Expire(S)
  \/ Leave

Spec == Init /\ [][Next]_questions
=============================================================================
