----------------------------- MODULE MCFixLoop -----------------------------
(* An instance of FixLoop for TLC.                                         *)
EXTENDS FixLoop, FiniteSets

CONSTANTS fix, side, a, b

\* The bug is gone when fix is edited; the suite passes unless side is, too.
FixRepairs == {c \in SUBSET File : fix \in c}
SideBreaks == {c \in SUBSET File : side \notin c}

\* Bound: the calls of a turn overlap in the first iteration on the local
\* sandbox; elsewhere they come one by one.
Overlapping ==
  \/ driver = "local" /\ iteration = 1
  \/ Cardinality({s \in Slot : inFlight[s] # Idle}) <= 1

=============================================================================
