----------------------------- MODULE MCPipeline -----------------------------
(* Instances of Pipeline for TLC.                                          *)
EXTENDS Pipeline

\* With and without mail, on both drivers, the pull request going upstream; and
\* one whose fork is the upstream repository itself.
Deployments ==
  [live : BOOLEAN, gha : BOOLEAN, upstreamPr : {TRUE}]
    \cup {[live |-> FALSE, gha |-> FALSE, upstreamPr |-> FALSE]}

LocalWithMail == {[live |-> TRUE, gha |-> FALSE, upstreamPr |-> TRUE]}
=============================================================================
