---------------------------- MODULE MCReproLoop ----------------------------
(* Instances of ReproLoop for TLC.                                          *)
EXTENDS ReproLoop

CONSTANTS near, far, gone

\* Suspects in and out of the repository, with and without a seed; tests of every
\* kind, and none.
Suspects == {{}, {near}, {far, gone}}
Some ==
  [files : Suspects, symbols : Suspects, precondition : {"none", "marked"},
   oracle : {EmptySpec, [needles |-> {"span_attribute"}, markers |-> FALSE]},
   candidate : {None, [files |-> [expects |-> TRUE], creds |-> FALSE, satisfies |-> TRUE],
                [files |-> None, creds |-> FALSE, satisfies |-> FALSE],
                [files |-> [expects |-> FALSE], creds |-> TRUE, satisfies |-> FALSE]},
   reproFiles : {None, [expects |-> TRUE]}]
SomeEvidence == {a \in Some : a.files \in {{}, a.symbols} /\ (a.candidate # None => a.reproFiles = None)}

\* A dossier whose candidate the oracle may hold to its suspects, and one that
\* offers no test.
SomeReplays ==
  {[files |-> {near}, symbols |-> {near}, dropped |-> {}, confidence |-> "high",
    precondition |-> "marked", spec |-> [needles |-> {"span_attribute"}, markers |-> TRUE],
    candidate |-> c, reproFiles |-> None] :
     c \in {None, [files |-> [expects |-> TRUE], creds |-> FALSE, satisfies |-> TRUE]}}
=============================================================================
