----------------------------- MODULE ReproTrial -----------------------------
(***************************************************************************)
(* What the repro stage promises whoever reads its result: one test at a    *)
(* time is on trial, its runs are counted from the moment it was last       *)
(* changed, and it is accepted only when it failed at least twice.  An      *)
(* operator may vouch for a test instead (OSA_FIX_ONLY).  The trial may go  *)
(* on after the verdict: nobody looks at it any more.                       *)
(***************************************************************************)
EXTENDS Naturals

VARIABLES
  trusted,    \* an operator vouches for the test
  failures,   \* failing runs of the test as it is now
  verdict

trial == <<trusted, failures, verdict>>

Init == trusted \in BOOLEAN /\ failures = 0 /\ verdict = "open"

Change == failures' = 0 /\ UNCHANGED <<trusted, verdict>>
Fail == failures' = failures + 1 /\ UNCHANGED <<trusted, verdict>>

Accept ==
  /\ verdict = "open" /\ (failures >= 2 \/ trusted)
  /\ verdict' = "accepted" /\ UNCHANGED <<trusted, failures>>

Refuse ==
  verdict = "open" /\ verdict' = "rejected" /\ UNCHANGED <<trusted, failures>>

Next == Change \/ Fail \/ Accept \/ Refuse
Spec == Init /\ [][Next]_trial
=============================================================================
