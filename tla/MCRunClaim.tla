---------------------------- MODULE MCRunClaim ----------------------------
(* An instance of RunClaim for TLC.                                       *)
EXTENDS RunClaim, TLC

CONSTANTS i1, repoA, s1, p1, p2, idA

\* One issue, whose key is its own.
OneRepoOf == i1 :> repoA
OneSafeKey == i1 :> s1

\* The environment of the first process names its deploy, that of the second
\* does not.
OneId == p1 :> idA @@ p2 :> NoId
=============================================================================
