---------------------------- MODULE MCHitlInbox ----------------------------
(* An instance of HitlInbox for TLC.                                       *)
EXTENDS HitlInbox, TLC

CONSTANTS e1, e2, a1, m1, m2, g1, g2, r1, r2

\* Two questions of one attempt.
OneAttempt == e1 :> a1 @@ e2 :> a1

\* Two replies to the first question.
BothToFirst == m1 :> e1 @@ m2 :> e1

\* The first of them may come twice.
FirstTwice == m1 :> 2 @@ m2 :> 1

\* The operator forces the first question, until it was resumed.
ForceFirst == e1 :> 1 @@ e2 :> 0
=============================================================================
