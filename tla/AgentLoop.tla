----------------------------- MODULE AgentLoop -----------------------------
(***************************************************************************)
(* The agents that only read (the analyst, the investigator and the planner *)
(* of a fix), as the agent loop drives them (core/agents/agent-loop.ts)     *)
(* over the routes of their model (core/llm/v2/client.ts) and under the     *)
(* budgets of their registry (core/agents/tools/index.ts).                  *)
(*                                                                         *)
(* A conversation with the model is a try: it ends with an answer of plain  *)
(* text, with its last step, or with an error.  An error of the provider    *)
(* starts a try on the next route, an answer nobody can parse one more      *)
(* round of tries, and an analyst that recorded nothing is asked again.     *)
(* All tries share one registry: its counts go on.                          *)
(*                                                                         *)
(* ToolRegistry has the calls of the agent that changes the code.  Here a   *)
(* call reads, records what the agent is for (record_evidence, the notes,   *)
(* the plan) or abandons.  The caps per tier and per tool have the form of  *)
(* the total; finishReason "length" is told from "stop" by nobody.          *)
(***************************************************************************)
EXTENDS Integers, Descent

CONSTANTS
  Agent,        \* agents of a run, of {"ANALYST", "FIX_INVESTIGATOR", "FIX_PLANNER"}
  Width,        \* bound: calls of one answer
  Total,        \* budgets.total
  Reserve,      \* finalizationReserve.calls
  MaxSteps,     \* maxTurns, the steps of one try
  MaxRoutes,    \* bound: keys times models
  ReadsNeeded   \* reads without which the abandon gate is shut

ASSUME AgentAssumption ==
  /\ Agent \subseteq {"ANALYST", "FIX_INVESTIGATOR", "FIX_PLANNER"}
  /\ Width \in Nat \ {0} /\ MaxSteps \in Nat \ {0} /\ MaxRoutes \in Nat \ {0}
  /\ Total \in Nat /\ Reserve \in Nat /\ Reserve <= Total /\ ReadsNeeded \in Nat

VARIABLES
  agent,
  routes,       \* routes of the deployment: one where Anthropic's key is set
  place,        \* the model is asked, its calls run, or the agent has ended
  talk,         \* the analyst's second conversation is forced
  corrected,    \* the loop has told the model of its mistake
  route, steps, \* of the try
  flight,       \* calls of the answer that run
  totalCalls,   \* of the registry
  ran,          \* calls that ran since the agent began
  reads,        \* reads that succeeded, up to ReadsNeeded
  recorded,
  abandoned,    \* registry.terminated
  outcome       \* AgentLoopResult.terminated

try == <<talk, corrected, route, steps>>
registry == <<flight, totalCalls, ran, reads, recorded, abandoned>>
agentVars == <<agent, routes, place, try, registry, outcome>>

Tool == {"read", "verdict", "abandon"}
Calls(f) == f["read"] + f["verdict"] + f["abandon"]
NoCalls == [tool \in Tool |-> 0]
Idle == Calls(flight) = 0

AgentTypeOK ==
  /\ agent \in Agent /\ routes \in 1 .. MaxRoutes
  /\ place \in {"ask", "act", "over"}
  /\ talk \in 1 .. 2 /\ corrected \in BOOLEAN /\ route \in 1 .. routes /\ steps \in 0 .. MaxSteps - 1
  /\ flight \in [Tool -> 0 .. Width] /\ Calls(flight) <= Width
  /\ totalCalls \in Nat /\ ran \in [Tool -> Nat] /\ reads \in 0 .. ReadsNeeded
  /\ recorded \in BOOLEAN /\ abandoned \in BOOLEAN
  /\ outcome \in {"none", "abandon", "finished", "error"}

AgentInit ==
  /\ agent \in Agent /\ routes \in 1 .. MaxRoutes
  /\ place = "ask"
  /\ talk = 1 /\ corrected = FALSE /\ route = 1 /\ steps = 0
  /\ flight = NoCalls /\ totalCalls = 0 /\ ran = NoCalls
  /\ reads = 0 /\ recorded = FALSE /\ abandoned = FALSE
  /\ outcome = "none"

-----------------------------------------------------------------------------
(* The registry *)

\* The analyst must have read; the others must also have recorded what they
\* would give up on.
AbandonGate == reads >= ReadsNeeded /\ (agent # "ANALYST" => recorded)

\* enforceGuards.  That two calls of an answer are not both stateful is checked
\* against those that have finished: there are none.
Admits(tool) ==
  /\ totalCalls < Total
  /\ tool = "read" => Total - totalCalls > Reserve
  /\ tool = "abandon" => AbandonGate

\* The calls of an answer are dispatched together, before any of them runs; one
\* that is refused is answered with the reason and not counted.
Answer ==
  /\ place = "ask" /\ place' = "act"
  /\ \E asked \in [Tool -> 0 .. Width] :
       /\ Calls(asked) \in 1 .. Width
       /\ flight' = [tool \in Tool |-> IF Admits(tool) THEN asked[tool] ELSE 0]
  /\ UNCHANGED <<agent, routes, try, totalCalls, ran, reads, recorded, abandoned, outcome>>

\* A call that throws counts as one that succeeds; abandon does not throw.
Finish(tool) ==
  /\ place = "act" /\ flight[tool] > 0
  /\ flight' = [flight EXCEPT ![tool] = @ - 1]
  /\ totalCalls' = totalCalls + 1
  /\ ran' = [ran EXCEPT ![tool] = @ + 1]
  /\ \E ok \in BOOLEAN :
       /\ tool = "abandon" => ok
       /\ reads' = IF ok /\ tool = "read" /\ reads < ReadsNeeded THEN reads + 1 ELSE reads
       /\ recorded' = (recorded \/ (ok /\ tool = "verdict"))
       /\ abandoned' = (abandoned \/ tool = "abandon")
  /\ UNCHANGED <<agent, routes, place, try, outcome>>

-----------------------------------------------------------------------------
(* The loop *)

Try(r) == place' = "ask" /\ route' = r /\ steps' = 0 /\ UNCHANGED outcome

\* An analyst whose tries ended without a verdict is asked once more, if it did
\* not abandon and the model was there.
AskAgain == talk' = 2 /\ corrected' = FALSE /\ Try(1)
Over(result) == place' = "over" /\ outcome' = result /\ UNCHANGED try

MayForce(result) == agent = "ANALYST" /\ talk = 1 /\ ~recorded /\ result # "abandon"

\* Mutant: an answer of plain text ends the try without a look at the registry.
HeardInStep == IF abandoned /\ place = "act" THEN "abandon" ELSE "finished"

\* onStepFinish, after every step.
Heard == IF abandoned THEN "abandon" ELSE "finished"

TalkEnds == IF MayForce(Heard) THEN AskAgain ELSE Over(Heard)

LastStep == steps + 1 = MaxSteps

\* The model does not hear that it has ended: it is asked again after abandon, as
\* after every other call.
StepEnds ==
  /\ place = "act" /\ Idle
  /\ IF LastStep
     THEN TalkEnds
     ELSE /\ place' = "ask" /\ steps' = steps + 1
          /\ UNCHANGED <<talk, corrected, route, outcome>>
  /\ UNCHANGED <<agent, routes, registry>>

TextEnds ==
  /\ place = "ask"
  /\ TalkEnds
  /\ UNCHANGED <<agent, routes, registry>>

\* Mutant: each route begins with budgets of its own.
ProviderFailsAfresh ==
  /\ place = "ask"
  /\ IF route < routes
     THEN /\ Try(route + 1) /\ totalCalls' = 0
          /\ UNCHANGED <<talk, corrected, flight, ran, reads, recorded, abandoned>>
     ELSE Over("error") /\ UNCHANGED registry
  /\ UNCHANGED <<agent, routes>>

\* Credits, rate limit, overload, timeout: the next route.  The prompt tells it
\* what was called, not what was answered.  The last failure is not corrected.
ProviderFails ==
  /\ place = "ask"
  /\ IF route < routes
     THEN Try(route + 1) /\ UNCHANGED <<talk, corrected>>
     ELSE Over("error")
  /\ UNCHANGED <<agent, routes, registry>>

\* Mutant: the mistake is told again and again.
AnswerUnreadableAgain ==
  /\ place = "ask"
  /\ Try(1) /\ UNCHANGED <<talk, corrected>>
  /\ UNCHANGED <<agent, routes, registry>>

\* An answer that cannot be parsed throws before any of its calls runs.  The model
\* is told once, on the first route again; the analyst is then asked again if it
\* was its verdict that could not be parsed.
AnswerUnreadable ==
  /\ place = "ask"
  /\ \/ ~corrected /\ corrected' = TRUE /\ Try(1) /\ UNCHANGED talk
     \/ corrected /\ Over("error")
     \/ corrected /\ MayForce("error") /\ AskAgain
  /\ UNCHANGED <<agent, routes, registry>>

AgentNext ==
  \/ Answer \/ (\E tool \in Tool : Finish(tool))
  \/ StepEnds \/ TextEnds \/ ProviderFails \/ AnswerUnreadable

\* A request to the model comes back, with an answer or an error.
AgentSpec == AgentInit /\ [][AgentNext]_agentVars /\ WF_agentVars(AgentNext)

-----------------------------------------------------------------------------

\* Whatever fails and however often the agent is started over, its calls stay
\* within the budget of its registry, but for the other calls of the answer that
\* reaches it: they were all let in on the count before the first of them.
BudgetHolds == Calls(ran) <= Total + Width - 1

\* The caller learns of an abandon whatever try it was made in, unless the model
\* fails; and the analyst that neither recorded nor abandoned was asked twice.
AbandonHeard ==
  /\ outcome = "abandon" => ran["abandon"] > 0
  /\ outcome = "finished" =>
       /\ ran["abandon"] = 0
       /\ agent = "ANALYST" => recorded \/ talk = 2

\* What the agent may still do: conversations, corrections, routes, steps, and
\* the calls of an answer.
TriesLeft ==
  <<IF place = "over" THEN 0 ELSE 1, 2 - talk, IF corrected THEN 0 ELSE 1, routes - route,
    MaxSteps - steps, IF place = "ask" THEN 1 ELSE 0, Calls(flight)>>

\* Nothing that starts the agent over gives it back what an earlier start took:
\* errors of the provider, answers nobody can parse and an analyst without a
\* verdict cannot follow each other for ever, in whatever order they come.
NoTryForFree == [][Below(TriesLeft', TriesLeft)]_agentVars

\* The agent ends, though each end of a try may start another.
AgentEnds == <>(place = "over")
=============================================================================
