---------------------------- MODULE ToolRegistry ----------------------------
(***************************************************************************)
(* The registry through which every agent of the repair pipeline calls its  *)
(* tools (core/agents/tools/registry.ts), as the agent loop drives it       *)
(* (core/agents/agent-loop.ts).  A turn is one answer of the language       *)
(* model: its tool calls run concurrently, and the turn ends when all have  *)
(* finished.  A guard is evaluated when a call is dispatched; the counts,   *)
(* the calls of the turn and the transcript grow when a call finishes.      *)
(*                                                                         *)
(* Only stateful tools are modelled: reads and notes pass no guard but the  *)
(* budgets.  The caps per tier and per tool have the form of the total.  A  *)
(* blocked call changes nothing (its transcript entry has ok = false, which *)
(* every reader skips), so it is no step.  What an agent's gates and audit  *)
(* read in the transcript is kept by the module of the agent.               *)
(***************************************************************************)
EXTENDS Integers

CONSTANTS
  Slot,      \* bound: calls of one turn
  Idle,      \* an unused slot
  Tool,      \* stateful tools of the agent
  File,      \* files of the repository
  NoFile,    \* a tool without a path
  Budget,    \* budgets.total
  MaxTurns   \* bound: turns of a registry over all its tries (opts.maxTurns is of one)

\* A call that is still to have its effect ("run", "push") or has had it as it
\* was dispatched ("end"), and what it reports: whether it is ok, whether a
\* sandbox run was green, the commit of a push.
Call == [tool : Tool, file : File \cup {NoFile}, stage : {"run", "push", "end"},
         ok : BOOLEAN, green : BOOLEAN, sha : Nat]

ASSUME RegistryAssumption ==
  /\ Idle \notin Call /\ NoFile \notin File
  /\ {"done", "abandon"} \subseteq Tool
  /\ Budget \in Nat /\ MaxTurns \in Nat

VARIABLES
  turn,
  inFlight,               \* [slot]: the call dispatched and not finished
  totalCalls,
  currentTurnCalls,       \* does the turn have finished calls?
  previousTurnHadResult,
  terminated              \* "no", or the terminal tool that ran last

registry == <<turn, inFlight, totalCalls, currentTurnCalls, previousTurnHadResult, terminated>>

TypeOKRegistry ==
  /\ turn \in Nat
  /\ inFlight \in [Slot -> Call \cup {Idle}]
  /\ totalCalls \in Nat
  /\ currentTurnCalls \in BOOLEAN
  /\ previousTurnHadResult \in BOOLEAN
  /\ terminated \in {"no", "done", "abandon"}

RegistryInit ==
  /\ turn = 0
  /\ inFlight = [s \in Slot |-> Idle]
  /\ totalCalls = 0
  /\ currentTurnCalls = FALSE
  /\ previousTurnHadResult = FALSE
  /\ terminated = "no"

\* A registry belongs to one agent run: the next run builds a new one.
FreshRegistry ==
  /\ turn' = 0
  /\ inFlight' = [s \in Slot |-> Idle]
  /\ totalCalls' = 0
  /\ currentTurnCalls' = FALSE
  /\ previousTurnHadResult' = FALSE
  /\ terminated' = "no"

Quiet == \A s \in Slot : inFlight[s] = Idle

\* The guards every call passes; toolGates and the abandon gate are the agent's.
EnforceGuards(tool) ==
  /\ totalCalls < Budget
  /\ ~currentTurnCalls  \* parallel_forbidden; done_in_same_turn follows from it
  /\ tool = "done" => previousTurnHadResult \/ turn <= 1

Dispatch(s, call) ==
  /\ inFlight[s] = Idle
  /\ turn < MaxTurns
  /\ EnforceGuards(call.tool)
  /\ inFlight' = [inFlight EXCEPT ![s] = call]
  /\ UNCHANGED <<turn, totalCalls, currentTurnCalls, previousTurnHadResult, terminated>>

\* The call goes on to its next step.
Progress(s, call) ==
  /\ inFlight' = [inFlight EXCEPT ![s] = call]
  /\ UNCHANGED <<turn, totalCalls, currentTurnCalls, previousTurnHadResult, terminated>>

\* The finally block of dispatch.
Finish(s, tool) ==
  /\ inFlight' = [inFlight EXCEPT ![s] = Idle]
  /\ totalCalls' = totalCalls + 1
  /\ currentTurnCalls' = TRUE
  /\ terminated' = IF tool \in {"done", "abandon"} THEN tool ELSE terminated
  /\ UNCHANGED <<turn, previousTurnHadResult>>

\* onStepFinish, after every call of the answer has finished.
BeginTurn ==
  /\ Quiet
  /\ turn < MaxTurns
  /\ turn' = turn + 1
  /\ previousTurnHadResult' = currentTurnCalls
  /\ currentTurnCalls' = FALSE
  /\ UNCHANGED <<inFlight, totalCalls, terminated>>
=============================================================================
