------------------------------ MODULE Descent ------------------------------
(***************************************************************************)
(* Why a bounded loop ends.  What it has left is a tuple of numbers, the    *)
(* weightiest first: a step may raise a number if it brings one before it   *)
(* down, and what comes down stays a natural number, so no behaviour goes   *)
(* down for ever.                                                          *)
(***************************************************************************)
EXTENDS Integers

Below(s, t) ==
  \E i \in DOMAIN t : s[i] \in Nat /\ s[i] < t[i] /\ \A j \in 1 .. i - 1 : s[j] = t[j]
=============================================================================
