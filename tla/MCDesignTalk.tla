---------------------------- MODULE MCDesignTalk ----------------------------
(* DesignTalk for TLC: three issue numbers, one of which no mail lists or     *)
(* two of which a mail lists.                                                 *)
EXTENDS DesignTalk
=============================================================================
