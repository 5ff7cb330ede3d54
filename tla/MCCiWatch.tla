----------------------------- MODULE MCCiWatch -----------------------------
(* CiWatch for TLC: two checks a linter repairs in both versions.  One is a   *)
(* format check, which the verification does not see, and whose name speaks   *)
(* of a test as well.                                                         *)
EXTENDS CiWatch

MCLinters == [v \in {"core", "agents"} |-> Check]

\* Bound: where others take part, the linters have one kind of complaint.  Two
\* kinds matter to what is counted, which is claimed of a watcher that is alone.
OneKindInACrowd ==
  Humans' # {} \/ other' # "no" =>
    commits'[1].left \cup commits'[remote'].left \cup commits'[local'].left \cup tree' \subseteq {"ruff"}
=============================================================================
