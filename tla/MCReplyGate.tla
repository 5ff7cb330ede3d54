---------------------------- MODULE MCReplyGate ----------------------------
(* ReplyGate for TLC, where the ways of mail cross: a repository's name so    *)
(* long that the cut takes the time of the run and what names the             *)
(* conversation, so that all conversations share one address.                 *)
EXTENDS ReplyGate, FiniteSets, TLC

CONSTANTS p1, p2, i1

\* Both pipelines are runs of one issue: a re-trigger, or an overtaken claim.
SameIssue == p1 :> i1 @@ p2 :> i1

CutAddr == {"cut"}
Cut == [c \in Conv |-> "cut"]

\* The second encoding finds nothing to change.
Stable == [a \in Addr |-> a]

\* Two replies are enough for one to wake the wait of another conversation, or
\* for a refusal to follow a yes.
TwoReplies == Cardinality(post) <= 2

PipeSymmetry == Permutations(Pipe)
=============================================================================
