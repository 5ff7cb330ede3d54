------------------------------ MODULE Dossier ------------------------------
(***************************************************************************)
(* What the analyst's record_evidence tool makes of the arguments a model   *)
(* emits, and what the test assembler and the builder read of the result    *)
(* (core/agents/tools/note-meta.ts, core/agents/analyst/dossier.ts,         *)
(* core/agents/analyst/candidate-repro.ts,                                  *)
(* core/agents/repro-loop-v2/test-assembler.ts).  Text is abstracted to     *)
(* what these functions test: a field that is absent or unusable, a path by *)
(* the place it points to, a suspect by its file.                           *)
(***************************************************************************)
EXTENDS FiniteSets

CONSTANTS
  Source,    \* the source files a suspect may be said to be in
  Repo,      \* those the repository has
  None       \* an absent record

ASSUME DossierAssumption == Repo \subseteq Source

-----------------------------------------------------------------------------
(* The files of a repro *)

\* The same files come as an object, or as a bare array of files.
RawFiles ==
  [shape : {"object", "array"}, some : BOOLEAN, entry : BOOLEAN,
   hypothesis : BOOLEAN, expects : BOOLEAN]

Files == [expects : BOOLEAN]
FilesOf(r) == [expects |-> r.expects]

\* Of a candidateRepro that carries an array reproFiles: a hypothesis that
\* names no file drops the files.
CandidateFiles(r) ==
  IF r # None /\ r.some /\ r.entry /\ r.hypothesis THEN FilesOf(r) ELSE None

\* Of the argument reproFiles: the tool accepts the array, the strict coercion
\* looks for an array inside the argument; a hypothesis is optional here.
ArgumentFiles(r) ==
  IF r # None /\ r.shape = "object" /\ r.some /\ r.entry THEN FilesOf(r) ELSE None

-----------------------------------------------------------------------------
(* The candidate repro *)

Mode == {"wrong_return", "unexpected_exception", "other"}

\* text: a whole test; call, mode, detail: what a template is rendered from,
\* detail the expected value or the exception; creds: it declares credentials
\* that are not set; satisfies: it names a precondition.
RawCandidate ==
  [path : {"none", "tests", "outside"}, text : BOOLEAN, call : BOOLEAN,
   mode : Mode, detail : BOOLEAN, creds : BOOLEAN, satisfies : BOOLEAN,
   files : RawFiles \cup {None}]

Rendered(r) == r.call /\ r.mode # "other" /\ r.detail

Candidate == [files : Files \cup {None}, creds : BOOLEAN, satisfies : BOOLEAN]

\* A candidate that cannot be parsed, or that leaves the test roots, is dropped
\* and the rest of the evidence is kept.
CandidateOf(r) ==
  IF r # None /\ r.path = "tests" /\ (r.text \/ Rendered(r))
    THEN [files |-> CandidateFiles(r.files), creds |-> r.creds, satisfies |-> r.satisfies]
    ELSE None

\* What the builder falls back to when there is only the argument reproFiles.
Promoted(files) == [files |-> files, creds |-> FALSE, satisfies |-> FALSE]

-----------------------------------------------------------------------------
(* Preconditions and the oracle's assertions *)

\* A precondition without a condition is dropped; its markers come from the
\* ways to satisfy it.
RawPrecondition == [condition : BOOLEAN, marked : BOOLEAN]
Precondition == {"none", "plain", "marked"}
PreconditionOf(r) ==
  IF r = None \/ ~r.condition THEN "none" ELSE IF r.marked THEN "marked" ELSE "plain"

Needle == {"symbol", "span_attribute"}
OracleSpec == [needles : SUBSET Needle, markers : BOOLEAN]
EmptySpec == [needles |-> {}, markers |-> FALSE]

\* An empty specification counts as none, and is derived from the suspects and
\* the preconditions.
Derived(symbols, precondition) ==
  [needles |-> {n \in {"symbol"} : symbols # {}}, markers |-> precondition = "marked"]
SpecOf(r, symbols, precondition) ==
  IF r = EmptySpec THEN Derived(symbols, precondition) ELSE r

-----------------------------------------------------------------------------
(* Suspects *)

Seed ==
  {s \in [files : SUBSET Source, symbols : SUBSET Source, confidence : {"low", "high"}] :
     s.symbols # {} /\ s.symbols \subseteq s.files}

\* The analyst of a run with a seed reads the files of the seed only.
Readable(seed) == IF seed = None THEN Repo ELSE Repo \cap seed.files

\* What is left of the arguments once each is coerced on its own.
Argument ==
  [files : SUBSET Source, symbols : SUBSET Source,
   precondition : {PreconditionOf(r) : r \in RawPrecondition \cup {None}},
   oracle : OracleSpec,
   candidate : {CandidateOf(r) : r \in RawCandidate \cup {None}},
   reproFiles : {ArgumentFiles(r) : r \in RawFiles \cup {None}}]

Body ==
  [files : SUBSET Source, symbols : SUBSET Source, dropped : SUBSET Source,
   confidence : {"none", "low", "high"}, precondition : Precondition,
   spec : OracleSpec, candidate : Candidate \cup {None},
   reproFiles : Files \cup {None}]

\* The seed stands in for an analyst who named no suspect, its confidence with it.
Named(a, seed) == a.files # {} \/ a.symbols # {} \/ seed = None
NamedFiles(a, seed) == IF Named(a, seed) THEN a.files ELSE seed.files
NamedSymbols(a, seed) == IF Named(a, seed) THEN a.symbols ELSE seed.symbols

\* A suspect the analyst's workspace cannot read is dropped.
Missing(paths, seed) == paths \ Readable(seed)

\* The tool record_evidence: the snapshot it appends.
Recorded(a, seed) ==
  LET symbols == NamedSymbols(a, seed)
      files == IF NamedFiles(a, seed) = {} THEN symbols ELSE NamedFiles(a, seed)
      missing == Missing(files \cup symbols, seed)
  IN [files |-> files \ missing,
      symbols |-> symbols \ missing,
      dropped |-> missing,
      confidence |-> IF Named(a, seed) THEN "none" ELSE seed.confidence,
      precondition |-> a.precondition,
      spec |-> SpecOf(a.oracle, symbols \ missing, a.precondition),
      candidate |-> a.candidate,
      reproFiles |-> a.reproFiles]

-----------------------------------------------------------------------------
(* What the rest of the stage reads of a snapshot *)

\* The recorded conversations among the repository's tests: fingerprintTestInfra
\* begins with none, and nothing ever adds one.
Cassettes == {}

\* What comes of asking the model for a test (generateTestWithLlm): only a text
\* with a test_repro is one.
LlmAnswer == {"failed", "no test", "test"}

\* One of the suspect symbols drives the test, whatever package it is of.
HasSuspect(b) == b.symbols # {}

\* The assembler's templates: a cassette for a span attribute, else a function
\* of the suspect, unless only span attributes are asserted.
Lifecycle(b) == "span_attribute" \in b.spec.needles /\ Cassettes # {}
FunctionLevel(b) == "symbol" \in b.spec.needles \/ "span_attribute" \notin b.spec.needles

Assembled(b, llm) ==
  HasSuspect(b) /\ (llm = "test" \/ Lifecycle(b) \/ FunctionLevel(b))

\* The assembled test replaces the analyst's candidate in the snapshot.
Injected(b) ==
  [b EXCEPT !.candidate = [files |-> [expects |-> FALSE], creds |-> FALSE, satisfies |-> FALSE],
            !.reproFiles = [expects |-> FALSE]]

\* What the builder builds.
Chosen(b) ==
  IF b.candidate # None THEN b.candidate
  ELSE IF b.reproFiles # None THEN Promoted(b.reproFiles) ELSE None

\* A needle missing from the runs' output counts only when a confidence is known
\* and not low; a marker missing from the test always does.
NeedlesCount(b) == b.spec.needles # {} /\ b.confidence = "high"
MarkersCount(b) == b.spec.markers

\* The criteria of the oracle a candidate may fail, besides the syntax of the
\* test: none of the dossier's for an assembled test.
Criteria(b, assembled) ==
  IF assembled THEN {}
  ELSE {c \in {"suspect_path", "precondition"} :
          \/ c = "suspect_path" /\ NeedlesCount(b)
          \/ c = "precondition" /\ MarkersCount(b)}
=============================================================================
