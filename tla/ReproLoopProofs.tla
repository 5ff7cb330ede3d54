--------------------------- MODULE ReproLoopProofs ---------------------------
(***************************************************************************)
(* The repro stage, for any set of source files, any evidence and any bound *)
(* on the rounds: what it commits failed twice as it is committed, what it  *)
(* says of a rejection is so, it implements the trial of ReproTrial, and    *)
(* its every step uses up what the stage has left.  And AgentLoop, for any  *)
(* budgets: the loop of a model and its tools by which the agents of that   *)
(* stage, and of the one before, find their way.                           *)
(***************************************************************************)
EXTENDS ReproLoop, AgentLoop, FiniteSetTheorems, TLAPS

USE ReproAssumption, DossierAssumption

-----------------------------------------------------------------------------
(* How many of the runs fail *)

FailingOf(s) == Cardinality({i \in DOMAIN s : Fails(s[i])})

\* The count of failures is a function of the runs.
LEMMA FailingIs == Failing = FailingOf(runs)
BY DEF Failing, FailingOf

\* No run, no failure.
LEMMA FailingNone == FailingOf(<<>>) = 0
<1>1. {i \in DOMAIN <<>> : Fails(<<>>[i])} = {}
  OBVIOUS
<1> QED
  BY <1>1, FS_EmptySet DEF FailingOf

\* One more run adds at most itself to the failing ones.
LEMMA FailingAppend ==
  ASSUME NEW s \in Seq(RunOf), NEW r \in RunOf
  PROVE  /\ FailingOf(s) \in Nat
         /\ FailingOf(Append(s, r)) = IF Fails(r) THEN FailingOf(s) + 1 ELSE FailingOf(s)
<1> DEFINE F == {i \in DOMAIN s : Fails(s[i])}
<1> DEFINE G == {i \in DOMAIN Append(s, r) : Fails(Append(s, r)[i])}
<1>1. Len(s) \in Nat /\ DOMAIN s = 1..Len(s) /\ DOMAIN Append(s, r) = 1..(Len(s) + 1)
  OBVIOUS
<1>2. IsFiniteSet(F)
  <2>1. IsFiniteSet(1..Len(s))
    BY <1>1, FS_Interval
  <2>2. F \subseteq 1..Len(s)
    BY <1>1
  <2> QED
    BY <2>1, <2>2, FS_Subset
<1>3. Cardinality(F) \in Nat
  BY <1>2, FS_CardinalityType
<1>4. \A i \in 1..Len(s) : Append(s, r)[i] = s[i]
  BY <1>1
<1>5. Append(s, r)[Len(s) + 1] = r
  BY <1>1
<1>6. G = IF Fails(r) THEN F \cup {Len(s) + 1} ELSE F
  BY <1>1, <1>4, <1>5
<1>7. Len(s) + 1 \notin F
  BY <1>1
<1>8. Cardinality(F \cup {Len(s) + 1}) = Cardinality(F) + 1
  BY <1>2, <1>7, FS_AddElement
<1> QED
  BY <1>3, <1>6, <1>8 DEF FailingOf

\* The count is a number.
LEMMA FailingNat == ASSUME NEW s \in Seq(RunOf) PROVE FailingOf(s) \in Nat
<1>1. [exit |-> "pass", fresh |-> TRUE] \in RunOf
  BY DEF RunOf, Exit
<1> QED
  BY <1>1, FailingAppend

-----------------------------------------------------------------------------
(* The dossier *)

\* What a model emits is coerced to fields of the right kinds.
LEMMA CoercedTyped ==
  /\ \A r \in RawCandidate \cup {None} : CandidateOf(r) \in Candidate \cup {None}
  /\ \A r \in RawFiles \cup {None} : ArgumentFiles(r) \in Files \cup {None}
  /\ \A r \in RawPrecondition \cup {None} : PreconditionOf(r) \in Precondition
<1>1. ASSUME NEW r \in RawFiles, NEW b \in BOOLEAN, r.expects = b PROVE FilesOf(r) \in Files
  BY <1>1 DEF FilesOf, Files
<1>2. \A r \in RawFiles : FilesOf(r) \in Files
  BY DEF FilesOf, Files, RawFiles
<1>3. \A r \in RawFiles \cup {None} : ArgumentFiles(r) \in Files \cup {None}
  BY <1>2 DEF ArgumentFiles
<1>4. \A r \in RawFiles \cup {None} : CandidateFiles(r) \in Files \cup {None}
  BY <1>2 DEF CandidateFiles
<1>5. ASSUME NEW r \in RawCandidate PROVE CandidateOf(r) \in Candidate \cup {None}
  <2>1. r.files \in RawFiles \cup {None} /\ r.creds \in BOOLEAN /\ r.satisfies \in BOOLEAN
    BY DEF RawCandidate
  <2>2. CandidateFiles(r.files) \in Files \cup {None}
    BY <1>4, <2>1
  <2>3. [files |-> CandidateFiles(r.files), creds |-> r.creds, satisfies |-> r.satisfies] \in Candidate
    BY <2>1, <2>2 DEF Candidate
  <2> QED
    BY <2>3 DEF CandidateOf
<1>6. CandidateOf(None) = None
  BY DEF CandidateOf
<1> QED
  BY <1>3, <1>5, <1>6 DEF PreconditionOf, Precondition

\* What is recorded is a dossier, and suspects only files that exist.
LEMMA RecordedTyped ==
  ASSUME NEW a \in Argument, NEW s \in Seed \cup {None}
  PROVE  /\ Recorded(a, s) \in Body
         /\ Recorded(a, s).files \cup Recorded(a, s).symbols \subseteq Repo
<1>1. /\ a.files \subseteq Source /\ a.symbols \subseteq Source
      /\ a.precondition \in Precondition /\ a.oracle \in OracleSpec
      /\ a.candidate \in Candidate \cup {None} /\ a.reproFiles \in Files \cup {None}
  BY CoercedTyped DEF Argument
<1>2. s # None => s.files \subseteq Source /\ s.symbols \subseteq Source /\ s.confidence \in {"low", "high"}
  BY DEF Seed
<1>3. ~Named(a, s) => s # None
  BY DEF Named
<1>4. NamedFiles(a, s) \subseteq Source /\ NamedSymbols(a, s) \subseteq Source
  BY <1>1, <1>2, <1>3 DEF NamedFiles, NamedSymbols
<1> DEFINE called == NamedSymbols(a, s)
<1> DEFINE named == IF NamedFiles(a, s) = {} THEN called ELSE NamedFiles(a, s)
<1> DEFINE missing == Missing(named \cup called, s)
<1> DEFINE conf0 == IF Named(a, s) THEN "none" ELSE s.confidence
<1> DEFINE spec0 == SpecOf(a.oracle, called \ missing, a.precondition)
<1>5. named \subseteq Source /\ called \subseteq Source /\ missing \subseteq Source
  BY <1>4 DEF Missing
<1>6. named \ missing \subseteq Repo /\ called \ missing \subseteq Repo
  BY DEF Missing, Readable
<1>7. conf0 \in {"none", "low", "high"}
  BY <1>2, <1>3
<1>8. Derived(called \ missing, a.precondition) \in OracleSpec
  BY DEF Derived, OracleSpec, Needle
<1>9. spec0 \in OracleSpec
  BY <1>1, <1>8 DEF SpecOf
<1>10. Recorded(a, s) = [files |-> named \ missing, symbols |-> called \ missing,
                         dropped |-> missing, confidence |-> conf0,
                         precondition |-> a.precondition, spec |-> spec0,
                         candidate |-> a.candidate, reproFiles |-> a.reproFiles]
  BY DEF Recorded
<1> HIDE DEF called, named, missing, conf0, spec0
<1> QED
  BY <1>1, <1>5, <1>6, <1>7, <1>9, <1>10 DEF Body

\* An assembled test makes a dossier again, of the same suspects.
LEMMA InjectedTyped ==
  ASSUME NEW b \in Body
  PROVE  /\ Injected(b) \in Body
         /\ Injected(b).files = b.files /\ Injected(b).symbols = b.symbols
<1> DEFINE c == [files |-> [expects |-> FALSE], creds |-> FALSE, satisfies |-> FALSE]
<1>1. [expects |-> FALSE] \in Files /\ c \in Candidate
  BY DEF Files, Candidate
<1>2. Injected(b) = [b EXCEPT !.candidate = c, !.reproFiles = [expects |-> FALSE]]
  BY DEF Injected
<1> HIDE DEF c
<1> QED
  BY <1>1, <1>2 DEF Body

\* Without an objection there is a candidate with files to write.
LEMMA ChosenTyped ==
  ASSUME NEW b \in Body, Objection(b) = "none"
  PROVE  Chosen(b).files.expects \in BOOLEAN
<1>1. Chosen(b) # None /\ Chosen(b).files # None
  BY DEF Objection
<1>2. CASE b.candidate # None
  <2>1. b.candidate \in Candidate /\ Chosen(b) = b.candidate
    BY <1>2 DEF Body, Chosen
  <2>2. b.candidate.files \in Files
    BY <1>1, <2>1 DEF Candidate
  <2> QED
    BY <2>1, <2>2 DEF Files
<1>3. CASE b.candidate = None
  <2>1. b.reproFiles \in Files /\ Chosen(b) = Promoted(b.reproFiles)
    BY <1>1, <1>3 DEF Body, Chosen
  <2>2. Chosen(b).files = b.reproFiles
    BY <2>1 DEF Promoted
  <2> QED
    BY <2>1, <2>2 DEF Files
<1> QED
  BY <1>2, <1>3

\* The oracle asks for what it can look at.
LEMMA CriteriaTyped ==
  ASSUME NEW b, NEW a \in BOOLEAN
  PROVE  Criteria(b, a) \subseteq {"suspect_path", "precondition"}
BY DEF Criteria

-----------------------------------------------------------------------------
(* The inductive invariant *)

Before == {"search", "load", "probe", "analyst", "retry", "assemble", "builder"}
Trying == {"flush", "install", "run1", "run2", "tie", "weigh"}
After == {"oracle", "stage", "commit", "done"}

\* The runs that are being weighed, or were, in favour of the test.
Running == pc \in {"run2", "tie", "weigh"} \/ (pc = "oracle" /\ reject = "none")
Accepted == status = "reproduced" /\ ~conf.fixOnly

Snapshots ==
  /\ pc \in Before \ {"assemble", "builder"} => ~mine
  /\ pc \in {"assemble", "builder"} => body # None
  /\ SuspectsExist

\* A round is a repair that was applied.
Rounds == round <= repairs /\ repairs < MaxRounds /\ reject # "repair_exhausted"

Tried ==
  /\ pc \in {"flush", "install", "run1"} \/ pc \in Before => runs = <<>>
  /\ pc = "run2" => Len(runs) = 1 /\ Failing = 1
  /\ pc = "tie" => Len(runs) = 2 /\ Failing = 1
  /\ pc = "weigh" => (Len(runs) = 2 /\ Failing = 2) \/ (Len(runs) = 3 /\ Failing >= 1)
  /\ (pc = "oracle" /\ reject = "none") \/ Accepted => Failing >= 2

Reasons ==
  /\ reject # "none" => pc \in After
  /\ reject = "run_repro_flaky" => Len(runs) = 3 /\ Failing = 1
  /\ reject = "run_repro_pass" => Len(runs) = 1 /\ runs[1].exit = "pass"

Verdicts ==
  /\ status # "none" => pc \in After \ {"oracle"}
  /\ Accepted => reject = "none"
  /\ conf.fixOnly => status = "reproduced" /\ pc \in After \ {"oracle"}
  /\ pc = "commit" => halt = "none" /\ status = "reproduced"
  /\ halt = "committed" => pc = "done" /\ status = "reproduced"
  /\ halt = "fixed" => pc = "done" /\ reject = "run_repro_pass"

\* The workspace has the test as it is wanted, the sandbox too once a flush got
\* through, and it ran that.
Written ==
  /\ pc \in Trying \/ (pc = "oracle" /\ reject = "none") \/ (Accepted /\ pc # "done") =>
       \A f \in TestFile : wanted[f] # 0 => tree[f] = wanted[f]
  /\ flushed /\ pc \in Trying \ {"flush"} => Fresh
  /\ flushed /\ (Running \/ Accepted) => \A i \in DOMAIN runs : runs[i].fresh
  /\ halt = "committed" /\ ~conf.fixOnly =>
       (wanted["entry"] # 0 => branch["entry"] = wanted["entry"])

IInv == TypeOK /\ Snapshots /\ Rounds /\ Tried /\ Reasons /\ Verdicts /\ Written

\* The invariant holds at the start, with and without OSA_FIX_ONLY.
LEMMA InitIInv == Init => IInv
<1> SUFFICES ASSUME Init PROVE IInv
  OBVIOUS
<1>1. Failing = 0
  BY FailingIs, FailingNone DEF Init
<1>2. TypeOK
  <2>1. 0 \in Version /\ 0 \in 0..MaxRounds /\ Untouched \in [TestFile -> Version]
    BY DEF Version, Untouched
  <2>2. pc \in Place /\ status \in Status \cup {"none"}
    BY DEF Init, Place, Status
  <2>3. trial \in Trial
    BY DEF Init, Trial
  <2>4. runs \in Seq(RunOf) /\ Len(runs) <= 3
    BY DEF Init
  <2> QED
    BY <2>1, <2>2, <2>3, <2>4 DEF Init, TypeOK
<1>3. Snapshots /\ Rounds
  BY DEF Init, Snapshots, Rounds, SuspectsExist, Before
<1>4. Tried
  BY <1>1 DEF Init, Tried, Before, Accepted
<1>5. Reasons /\ Verdicts
  BY DEF Init, Reasons, Verdicts, After, Accepted
<1>6. Written
  BY DEF Init, Written, Running, Accepted, Trying, Untouched
<1> QED
  BY <1>2, <1>3, <1>4, <1>5, <1>6 DEF IInv

-----------------------------------------------------------------------------
(* Before there is a test *)

\* Steps that only find out what to test.
Finding == Search \/ Load \/ Probe \/ Investigate \/ Assemble

\* The search and the analyst keep the types and the snapshots.
LEMMA FindingTyped ==
  ASSUME TypeOK, Snapshots, Finding
  PROVE  TypeOK' /\ Snapshots'
<1>1. CASE Search
  BY <1>1 DEF Search, Found, TypeOK, Snapshots, SuspectsExist, Before, Place, files, loop
<1>2. CASE Load
  BY <1>2 DEF Load, TypeOK, Snapshots, SuspectsExist, Before, Place, files, loop
<1>3. CASE Probe
  BY <1>3 DEF Probe, Ends, TypeOK, Snapshots, SuspectsExist, Before, Place, Status, files, loop, known
<1>4. CASE Investigate
  <2>1. CASE \E a \in Evidence : RecordsAll(a)
    <3>1. PICK a \in Argument : RecordsAll(a)
      BY <2>1
    <3>2. body' = Recorded(a, seed) /\ mine' = TRUE /\ pc' = "assemble"
      BY <3>1 DEF RecordsAll
    <3>3. body' \in Body /\ body'.files \cup body'.symbols \subseteq Repo
      BY <3>2, RecordedTyped DEF TypeOK
    <3>4. status' = status \/ NothingRecorded
      BY <1>4 DEF Investigate
    <3>5. status' \in Status \cup {"none"}
      BY <3>4 DEF NothingRecorded, Ends, Status, TypeOK
    <3> QED
      BY <1>4, <3>2, <3>3, <3>5 DEF Investigate, TypeOK, Snapshots, SuspectsExist, Before, Place, files, loop
  <2>2. CASE NothingRecorded
    BY <1>4, <2>2 DEF Investigate, NothingRecorded, Ends, TypeOK, Snapshots, SuspectsExist, Before, Place, Status, files, loop
  <2> QED
    BY <1>4, <2>1, <2>2 DEF Investigate
<1>5. CASE Assemble
  <2>1. PICK llm \in LlmAnswer, throws \in BOOLEAN :
          LET assembled == ~throws /\ Assembled(body, llm)
          IN /\ body' = IF assembled THEN Injected(body) ELSE body
             /\ trial' = [trial EXCEPT !.criteria = Criteria(body, assembled)]
    BY <1>5 DEF Assemble
  <2> DEFINE assembled == ~throws /\ Assembled(body, llm)
  <2>2. assembled \in BOOLEAN
    BY DEF Assembled, HasSuspect, Lifecycle, FunctionLevel
  <2>3. body \in Body
    BY <1>5 DEF Assemble, TypeOK, Snapshots
  <2>4. body' \in Body /\ body'.files = body.files /\ body'.symbols = body.symbols
    BY <2>1, <2>3, InjectedTyped
  <2>5. trial' = [trial EXCEPT !.criteria = Criteria(body, assembled)]
    BY <2>1
  <2>6. Criteria(body, assembled) \subseteq {"suspect_path", "precondition"}
    BY <2>2, CriteriaTyped
  <2>7. trial' \in Trial
    BY <2>5, <2>6 DEF TypeOK, Trial
  <2> QED
    BY <1>5, <2>3, <2>4, <2>7 DEF Assemble, TypeOK, Snapshots, SuspectsExist, Before, Place, files, loop
<1> QED
  BY <1>1, <1>2, <1>3, <1>4, <1>5 DEF Finding

\* They leave the files, the runs and the repairs alone.
LEMMA FindingKeeps ==
  ASSUME IInv, Finding
  PROVE  /\ pc \in Before \ {"builder"} /\ pc' \in Before \cup {"stage"} /\ status' # "reproduced"
         /\ (pc' # "stage" => status' = "none")
         /\ UNCHANGED <<conf, files, loop, halt>>
<1>1. status = "none" /\ status # "reproduced"
  BY DEF IInv, Verdicts, Finding, After, Search, Load, Probe, Investigate, Assemble
<1>2. CASE Search \/ Load \/ Assemble
  BY <1>1, <1>2 DEF Search, Load, Assemble, Before, files, loop
<1>3. CASE Probe
  BY <1>1, <1>3 DEF Probe, Ends, known, Before, files, loop
<1>4. CASE Investigate
  BY <1>1, <1>4 DEF Investigate, NothingRecorded, RecordsAll, Ends, Before, files, loop
<1> QED
  BY <1>2, <1>3, <1>4 DEF Finding

\* The search and the analyst keep the invariant.
LEMMA FindingStep == IInv /\ Finding => IInv'
<1> SUFFICES ASSUME IInv, Finding PROVE IInv'
  OBVIOUS
<1>1. TypeOK' /\ Snapshots'
  BY FindingTyped DEF IInv
<1>2. /\ pc \in Before \ {"builder"} /\ pc' \in Before \cup {"stage"} /\ status' # "reproduced"
      /\ (pc' # "stage" => status' = "none")
      /\ UNCHANGED <<conf, files, loop, halt>>
  BY FindingKeeps
<1>3. ~Accepted' /\ Rounds'
  BY <1>2 DEF Accepted, IInv, Rounds, loop
<1>4. Failing' = Failing
  BY <1>2 DEF Failing, loop
<1>5. Tried' /\ Reasons'
  BY <1>2, <1>3, <1>4 DEF IInv, Tried, Reasons, Before, After, loop
<1>6. Verdicts'
  BY <1>2, <1>3 DEF IInv, Verdicts, Before, After, loop, Accepted
<1>7. Written'
  BY <1>2, <1>3 DEF IInv, Written, Verdicts, Reasons, Running, Before, After, Trying, files, loop
<1> QED
  BY <1>1, <1>3, <1>5, <1>6, <1>7 DEF IInv

-----------------------------------------------------------------------------
(* The builder's rounds *)

\* Reverted files are files of some round.
LEMMA RevertedTyped ==
  ASSUME TypeOK, NEW v \in [TestFile -> Version] PROVE Reverted(v) \in [TestFile -> Version]
BY DEF TypeOK, Reverted

\* A repair starts a new round or ends the stage, and is counted.
LEMMA RepairOutcome ==
  ASSUME TypeOK, Rounds, NEW stage \in Reject, stage # "repair_exhausted",
         Applied \/ GivenUp(stage)
  PROVE  /\ wanted' \in [TestFile -> Version]
         /\ round' \in 0..MaxRounds /\ repairs' \in Nat /\ Rounds'
         /\ reject' \in Reject \cup {"none"}
         /\ \/ pc' = "write" /\ reject' = reject
            \/ pc' = "oracle" /\ reject' = stage
<1>1. round \in Nat /\ repairs \in Nat /\ MaxRounds \in Nat /\ round <= repairs /\ repairs < MaxRounds
  BY DEF TypeOK, Rounds
<1>2. CASE Applied
  <2>1. round + 1 < MaxRounds
    BY <1>1, <1>2 DEF Applied
  <2>2. pc' = "write" /\ reject' = reject
    BY <1>2, <2>1 DEF Applied, NextRound
  <2>3. repairs + 2 \in Version
    BY <1>1, <1>2 DEF Applied, Version
  <2>4. wanted' \in [TestFile -> Version]
    BY <1>2, <2>3 DEF Applied, TypeOK
  <2> QED
    BY <1>1, <1>2, <2>1, <2>2, <2>4 DEF Applied, TypeOK, Rounds
<1>3. CASE GivenUp(stage)
  <2>1. wanted' = wanted /\ round' = round /\ reject' = stage /\ pc' = "oracle"
    BY <1>3 DEF GivenUp, Rejected
  <2>2. repairs' \in Nat /\ round <= repairs' /\ repairs' < MaxRounds
    BY <1>1, <1>3 DEF GivenUp
  <2> QED
    BY <1>1, <2>1, <2>2 DEF TypeOK, Rounds
<1> QED
  BY <1>2, <1>3

\* While a test is being built nothing is decided.
LEMMA BuildingKeeps ==
  ASSUME IInv, pc \in {"write"} \cup Trying, UNCHANGED <<known, trial, status, halt>>
  PROVE  /\ ~conf.fixOnly /\ status = "none" /\ ~Accepted /\ ~Accepted'
         /\ reject = "none" /\ halt # "committed" /\ halt # "fixed"
         /\ halt' # "committed" /\ halt' # "fixed"
<1>1. ~(pc \in After)
  BY DEF After, Trying
<1> QED
  BY <1>1 DEF IInv, Verdicts, Reasons, Accepted, After, known

\* A step that ends in a new round, or gives up for a reason that is so.
LEMMA RepairStep ==
  ASSUME IInv, pc \in {"write"} \cup Trying, UNCHANGED <<known, trial, head, branch, flushed, status, halt>>,
         NEW stage \in Reject, stage # "repair_exhausted", stage # "run_repro_flaky",
         Applied \/ GivenUp(stage), tree' \in [TestFile -> Version],
         runs' \in Seq(RunOf), Len(runs') <= 3,
         stage = "run_repro_pass" => Len(runs') = 1 /\ runs'[1].exit = "pass"
  PROVE  IInv'
<1>1. /\ ~conf.fixOnly /\ status = "none" /\ ~Accepted /\ ~Accepted'
      /\ reject = "none" /\ halt # "committed" /\ halt # "fixed"
      /\ halt' # "committed" /\ halt' # "fixed"
  BY BuildingKeeps
<1>2. /\ wanted' \in [TestFile -> Version]
      /\ round' \in 0..MaxRounds /\ repairs' \in Nat /\ Rounds'
      /\ reject' \in Reject \cup {"none"}
      /\ \/ pc' = "write" /\ reject' = reject
         \/ pc' = "oracle" /\ reject' = stage
  BY RepairOutcome DEF IInv
<1>3. TypeOK'
  BY <1>2 DEF IInv, TypeOK, Place, known
<1>4. Snapshots'
  BY <1>2 DEF IInv, Snapshots, SuspectsExist, Before, Trying, known
<1>5. stage # "none"
  BY DEF Reject
<1>6. Tried' /\ Reasons'
  BY <1>1, <1>2, <1>5 DEF Tried, Reasons, Before, After
<1>7. Verdicts'
  BY <1>1, <1>2, <1>5 DEF IInv, Verdicts, Before, After, known
<1>8. Written'
  BY <1>1, <1>2, <1>5 DEF Written, Running, Trying, known
<1> QED
  BY <1>2, <1>3, <1>4, <1>6, <1>7, <1>8 DEF IInv

\* A step that goes on to the next place of the round.
LEMMA GoesOn ==
  ASSUME IInv, pc \in {"write"} \cup Trying, UNCHANGED <<known, trial, status, halt>>,
         UNCHANGED <<wanted, round, repairs, reject>>,
         pc' \in Trying \cup {"oracle"},
         tree' \in [TestFile -> Version], head' \in [TestFile -> Version],
         branch' \in [TestFile -> Version], flushed' \in BOOLEAN,
         runs' \in Seq(RunOf), Len(runs') <= 3,
         pc' \in {"flush", "install", "run1"} => runs' = <<>>,
         pc' = "run2" => Len(runs') = 1 /\ Failing' = 1,
         pc' = "tie" => Len(runs') = 2 /\ Failing' = 1,
         pc' = "weigh" => (Len(runs') = 2 /\ Failing' = 2) \/ (Len(runs') = 3 /\ Failing' >= 1),
         pc' = "oracle" => Failing' >= 2,
         \A f \in TestFile : wanted[f] # 0 => tree'[f] = wanted[f],
         flushed' /\ pc' \in Trying \ {"flush"} => Fresh',
         flushed' => \A i \in DOMAIN runs' : runs'[i].fresh
  PROVE  IInv'
<1>1. /\ ~conf.fixOnly /\ status = "none" /\ ~Accepted /\ ~Accepted'
      /\ reject = "none" /\ halt # "committed" /\ halt # "fixed"
      /\ halt' # "committed" /\ halt' # "fixed"
  BY BuildingKeeps
<1>2. pc' \in Place
  BY DEF Trying, Place
<1>3. TypeOK'
  BY <1>2 DEF IInv, TypeOK, known
<1>4. Snapshots' /\ Rounds'
  BY DEF IInv, Snapshots, Rounds, SuspectsExist, Before, Trying, known
<1>5. Tried' /\ Reasons'
  BY <1>1 DEF Tried, Reasons, Before, After, Trying
<1>6. Verdicts'
  BY <1>1 DEF IInv, Verdicts, Before, After, Trying, known
<1>7. Written'
  BY <1>1 DEF Written, Running, Trying, known
<1> QED
  BY <1>3, <1>4, <1>5, <1>6, <1>7 DEF IInv

\* What a place of the round knows of the files and of the runs.
LEMMA InRound ==
  ASSUME IInv, pc \in Trying
  PROVE  /\ tree \in [TestFile -> Version] /\ head \in [TestFile -> Version]
         /\ branch \in [TestFile -> Version] /\ flushed \in BOOLEAN
         /\ runs \in Seq(RunOf) /\ Len(runs) <= 3
         /\ \A f \in TestFile : wanted[f] # 0 => tree[f] = wanted[f]
         /\ flushed /\ pc # "flush" => Fresh
         /\ flushed /\ Running => \A i \in DOMAIN runs : runs[i].fresh
BY DEF IInv, TypeOK, Written

\* A run is fresh exactly if the sandbox has the files as written.
LEMMA OutcomeIs ==
  ASSUME NEW r \in Outcome
  PROVE  r \in RunOf /\ r.fresh = Fresh
<1>1. Fresh \in BOOLEAN
  BY DEF Fresh
<1>2. "broken" \in Exit
  BY DEF Exit
<1>3. r.exit \in Exit /\ r.fresh = Fresh /\ r = [exit |-> r.exit, fresh |-> r.fresh]
  BY <1>2 DEF Outcome
<1> QED
  BY <1>1, <1>3 DEF RunOf

\* The builder starts a round without runs.
LEMMA BuilderStartsStep == IInv /\ BuilderStarts => IInv'
<1> SUFFICES ASSUME IInv, BuilderStarts PROVE IInv'
  OBVIOUS
<1>1. /\ ~conf.fixOnly /\ status = "none" /\ reject = "none" /\ body \in Body /\ runs = <<>>
      /\ halt # "committed" /\ halt # "fixed"
  BY DEF IInv, BuilderStarts, Snapshots, TypeOK, Verdicts, Reasons, Tried, After, Before
<1>2. UNCHANGED <<conf, tree, head, branch, flushed, round, repairs, runs, status, halt>>
  BY DEF BuilderStarts
<1>3. ~Accepted /\ ~Accepted'
  BY <1>1, <1>2 DEF Accepted
<1>4. Snapshots'
  BY DEF BuilderStarts, Forget, Snapshots, SuspectsExist, Rejected, Before
<1>5. body' \in Body \cup {None} /\ seed' \in Seed \cup {None} /\ mine' \in BOOLEAN
  BY DEF BuilderStarts, Forget
<1>6. CASE Objection(body) # "none" /\ Rejected(Objection(body)) /\ UNCHANGED <<trial, wanted>>
  <2>1. Objection(body) \in Reject /\ Objection(body) \notin {"repair_exhausted", "run_repro_flaky", "run_repro_pass"}
    BY <1>6 DEF Objection, Reject
  <2>2. pc' = "oracle" /\ reject' = Objection(body)
    BY <1>6 DEF Rejected
  <2>3. TypeOK'
    BY <1>2, <1>5, <1>6, <2>1, <2>2 DEF IInv, TypeOK, Place
  <2>4. Rounds' /\ Reasons'
    BY <1>2, <2>1, <2>2 DEF IInv, Rounds, Reasons, After
  <2>5. Tried' /\ Verdicts'
    BY <1>1, <1>2, <1>3, <1>6, <2>2 DEF IInv, Tried, Verdicts, Before, After
  <2>6. Written'
    BY <1>1, <1>2, <1>3, <1>6, <2>2 DEF Written, Running, Trying
  <2> QED
    BY <1>4, <2>3, <2>4, <2>5, <2>6 DEF IInv
<1>7. CASE /\ Objection(body) = "none" /\ wanted' \in Harness
           /\ trial' = [trial EXCEPT !.expects = Chosen(body).files.expects]
           /\ pc' = "write" /\ UNCHANGED reject
  <2>1. trial' \in Trial
    BY <1>1, <1>7, ChosenTyped DEF IInv, TypeOK, Trial
  <2>2. wanted' \in [TestFile -> Version]
    BY <1>7 DEF Harness, Version
  <2>3. TypeOK'
    BY <1>2, <1>5, <1>7, <2>1, <2>2 DEF IInv, TypeOK, Place
  <2>4. Rounds' /\ Reasons'
    BY <1>1, <1>2, <1>7 DEF IInv, Rounds, Reasons, After
  <2>5. Tried' /\ Verdicts'
    BY <1>1, <1>2, <1>3, <1>7 DEF IInv, Tried, Verdicts, Before, After
  <2>6. Written'
    BY <1>1, <1>2, <1>3, <1>7 DEF Written, Running, Trying
  <2> QED
    BY <1>4, <2>3, <2>4, <2>5, <2>6 DEF IInv
<1> QED
  BY <1>6, <1>7 DEF BuilderStarts

\* Writing makes the tree what is wanted, or is refused.
LEMMA WriteStep == IInv /\ (Write \/ WriteFails) => IInv'
<1> SUFFICES ASSUME IInv, Write \/ WriteFails PROVE IInv'
  OBVIOUS
<1>0. /\ pc = "write" /\ runs' = <<>> /\ runs' \in Seq(RunOf) /\ Len(runs') = 0
      /\ wanted \in [TestFile -> Version] /\ tree \in [TestFile -> Version]
      /\ Reverted(tree) \in [TestFile -> Version]
      /\ TypeOK
  <2>1. TypeOK /\ Reverted(tree) \in [TestFile -> Version]
    BY RevertedTyped DEF IInv, TypeOK
  <2>2. pc = "write" /\ runs' = <<>>
    BY DEF Write, WriteFails
  <2> QED
    BY <2>1, <2>2 DEF TypeOK
<1>1. CASE Write
  <2>1. tree' \in [TestFile -> Version]
    BY <1>0, <1>1 DEF Write
  <2>2. \A f \in TestFile : wanted[f] # 0 => tree'[f] = wanted[f]
    BY <1>1 DEF Write
  <2>3. pc' = "flush" /\ pc' \in Trying
    BY <1>1 DEF Write, Trying
  <2>4. head' \in [TestFile -> Version] /\ branch' \in [TestFile -> Version] /\ flushed' \in BOOLEAN
    BY <1>0, <1>1 DEF Write, TypeOK
  <2>5. UNCHANGED <<known, trial, status, halt>> /\ UNCHANGED <<wanted, round, repairs, reject>>
    BY <1>1 DEF Write
  <2> QED
    BY <1>0, <2>1, <2>2, <2>3, <2>4, <2>5, GoesOn
<1>2. CASE WriteFails
  <2>1. PICK F \in SUBSET TestFile :
          LET written == [f \in TestFile |-> IF f \in F /\ wanted[f] # 0 THEN wanted[f] ELSE Reverted(tree)[f]]
          IN \/ Applied /\ tree' = written
             \/ /\ GivenUp("write_test_failed")
                /\ tree' = Reverted(written)
    BY <1>2 DEF WriteFails
  <2> DEFINE written == [f \in TestFile |-> IF f \in F /\ wanted[f] # 0 THEN wanted[f] ELSE Reverted(tree)[f]]
  <2>2. written \in [TestFile -> Version] /\ 0 \in Version
    BY <1>0 DEF Version
  <2>3. \/ Applied /\ tree' = written
        \/ GivenUp("write_test_failed") /\ tree' = Reverted(written)
    BY <2>1
  <2> HIDE DEF written
  <2>4. tree' \in [TestFile -> Version] /\ (Applied \/ GivenUp("write_test_failed"))
    BY <1>0, <2>2, <2>3, RevertedTyped
  <2>5. UNCHANGED <<known, trial, head, branch, flushed, status, halt>>
    BY <1>2 DEF WriteFails
  <2>6. "write_test_failed" \in Reject
    BY DEF Reject
  <2> QED
    BY <1>0, <2>4, <2>5, <2>6, RepairStep
<1> QED
  BY <1>1, <1>2

\* A repair after a step that ran the test or not.
LEMMA RepairTakes ==
  ASSUME IInv, pc \in Trying, UNCHANGED <<known, trial, head, branch, flushed, status, halt>>,
         NEW stage \in Reject, stage # "repair_exhausted", stage # "run_repro_flaky",
         Repair(stage), runs' \in Seq(RunOf), Len(runs') <= 3,
         stage = "run_repro_pass" => Len(runs') = 1 /\ runs'[1].exit = "pass"
  PROVE  IInv'
<1>1. tree' \in [TestFile -> Version]
  BY RevertedTyped, InRound DEF Repair, IInv, TypeOK
<1>2. Applied \/ GivenUp(stage)
  BY DEF Repair
<1> QED
  BY <1>1, <1>2, RepairStep

\* A flush that gets through makes the branch what the tree is.
LEMMA FlushStep == IInv /\ Flush => IInv'
<1> SUFFICES ASSUME IInv, Flush PROVE IInv'
  OBVIOUS
<1>0. pc = "flush" /\ pc \in Trying /\ pc' = "install" /\ pc' \in Trying /\ runs = <<>>
  BY DEF Flush, Trying, IInv, Tried
<1>1. UNCHANGED <<known, trial, status, halt>> /\ UNCHANGED <<wanted, round, repairs, reject>>
      /\ UNCHANGED <<wanted, tree, runs, conf>>
  BY DEF Flush, loop, known
<1>2. /\ head' \in [TestFile -> Version] /\ branch' \in [TestFile -> Version] /\ flushed' \in BOOLEAN
      /\ tree' \in [TestFile -> Version]
  BY <1>0, <1>1, InRound DEF Flush
<1>3. \A f \in TestFile : wanted[f] # 0 => tree'[f] = wanted[f]
  BY <1>0, <1>1, InRound
<1>4. flushed' => View' = tree'
  BY <1>1 DEF Flush, View
<1>5. flushed' => Fresh'
  BY <1>1, <1>3, <1>4 DEF Fresh
<1>6. runs' = <<>> /\ runs' \in Seq(RunOf) /\ Len(runs') = 0
  BY <1>0, <1>1
<1> QED
  BY <1>0, <1>1, <1>2, <1>3, <1>5, <1>6, GoesOn

\* Installing touches no file.
LEMMA InstallStep == IInv /\ Install => IInv'
<1> SUFFICES ASSUME IInv, Install PROVE IInv'
  OBVIOUS
<1>0. pc = "install" /\ pc \in Trying /\ runs = <<>> /\ runs' = <<>>
  BY DEF Install, Trying, IInv, Tried
<1>1. UNCHANGED <<known, trial, head, branch, flushed, status, halt>>
  BY DEF Install
<1>2. CASE Goto("run1")
  <2>1. pc' = "run1" /\ pc' \in Trying /\ UNCHANGED <<wanted, round, repairs, reject>> /\ UNCHANGED <<wanted, tree, conf>>
    BY <1>1, <1>2 DEF Goto, Trying, known
  <2>2. Fresh' = Fresh
    BY <1>1, <2>1 DEF Fresh, View
  <2> QED
    BY <1>0, <1>1, <2>1, <2>2, InRound, GoesOn
<1>3. "pip_install_failed" \in Reject /\ "sandbox_error" \in Reject
  BY DEF Reject
<1>4. runs' \in Seq(RunOf) /\ Len(runs') <= 3
  BY <1>0
<1>5. CASE Repair("pip_install_failed")
  BY <1>0, <1>1, <1>3, <1>4, <1>5, RepairTakes
<1>6. CASE Repair("sandbox_error")
  BY <1>0, <1>1, <1>3, <1>4, <1>6, RepairTakes
<1> QED
  BY <1>2, <1>5, <1>6 DEF Install

\* A run that leaves the round where it is, and what is known of the files.
LEMMA RunAppended ==
  ASSUME IInv, pc \in Trying \ {"flush", "install"}, NEW r \in Outcome, Len(runs) < 3,
         pc = "run1" \/ Running,
         runs' = Append(runs, r), UNCHANGED <<wanted, tree, head, branch, flushed, conf>>
  PROVE  /\ runs' \in Seq(RunOf) /\ Len(runs') = Len(runs) + 1
         /\ Failing' = (IF Fails(r) THEN Failing + 1 ELSE Failing)
         /\ Fresh' = Fresh /\ (flushed' => Fresh')
         /\ (flushed' => \A i \in DOMAIN runs' : runs'[i].fresh)
<1>1. r \in RunOf /\ r.fresh = Fresh
  BY OutcomeIs
<1>2. runs \in Seq(RunOf) /\ (flushed => Fresh)
  BY InRound
<1>3. Failing' = FailingOf(runs') /\ Failing = FailingOf(runs)
  BY DEF Failing, FailingOf
<1>4. Fresh' = Fresh
  BY DEF Fresh, View
<1>5. pc = "run1" => runs = <<>>
  BY DEF IInv, Tried
<1>6. flushed => \A i \in DOMAIN runs : runs[i].fresh
  BY <1>5, InRound
<1>7. runs' \in Seq(RunOf) /\ Len(runs') = Len(runs) + 1
  BY <1>1, <1>2
<1>8. ASSUME flushed, NEW i \in DOMAIN runs' PROVE runs'[i].fresh
  <2>1. CASE i = Len(runs) + 1
    <3>1. runs'[i] = r
      BY <1>1, <1>2, <2>1
    <3>2. r.fresh
      BY <1>1, <1>2, <1>8, Zenon
    <3> QED
      BY <3>1, <3>2
  <2>2. CASE i # Len(runs) + 1
    <3>1. i \in DOMAIN runs /\ runs'[i] = runs[i]
      BY <1>1, <1>2, <1>8, <2>2
    <3> QED
      BY <1>6, <1>8, <3>1
  <2> QED
    BY <2>1, <2>2
<1> QED
  BY <1>1, <1>2, <1>3, <1>4, <1>7, <1>8, FailingAppend

\* After the first run there is one, and it failed if a second follows.
LEMMA Run1Step == IInv /\ Run1 => IInv'
<1> SUFFICES ASSUME IInv, Run1 PROVE IInv'
  OBVIOUS
<1>0. pc = "run1" /\ pc \in Trying \ {"flush", "install"} /\ runs = <<>> /\ Len(runs) = 0 /\ Failing = 0
  BY FailingIs, FailingNone DEF Run1, Trying, IInv, Tried
<1>1. UNCHANGED <<known, trial, head, branch, flushed, status, halt>> /\ UNCHANGED conf
  BY DEF Run1, known
<1>2. "sandbox_error" \in Reject /\ "run_repro_pass" \in Reject /\ "expected_output_absent" \in Reject
  BY DEF Reject
<1>3. CASE Throws("sandbox_error")
  BY <1>0, <1>1, <1>2, <1>3, RepairTakes DEF Throws
<1>4. ASSUME NEW r \in Outcome, runs' = <<r>>,
             \/ r.exit = "pass" /\ Repair("run_repro_pass")
             \/ r.exit = "broken" /\ Repair("expected_output_absent")
             \/ r.exit = "wrong" /\ trial.expects /\ Repair("expected_output_absent")
             \/ (r.exit = "fail" \/ (r.exit = "wrong" /\ ~trial.expects)) /\ Goto("run2")
      PROVE IInv'
  <2>0. r \in RunOf
    BY OutcomeIs
  <2>1. runs' \in Seq(RunOf) /\ Len(runs') = 1 /\ runs'[1] = r /\ runs' = Append(runs, r)
    BY <1>0, <1>4, <2>0
  <2>2. CASE r.exit = "pass" /\ Repair("run_repro_pass")
    BY <1>0, <1>1, <1>2, <2>1, <2>2, RepairTakes
  <2>3. CASE Repair("expected_output_absent")
    BY <1>0, <1>1, <1>2, <2>1, <2>3, RepairTakes
  <2>4. CASE (r.exit = "fail" \/ (r.exit = "wrong" /\ ~trial.expects)) /\ Goto("run2")
    <3>1. pc' = "run2" /\ pc' \in Trying /\ UNCHANGED <<wanted, round, repairs, reject>> /\ UNCHANGED <<wanted, tree>>
      BY <2>4 DEF Goto, Trying
    <3>2. Fails(r)
      BY <2>4 DEF Fails
    <3>3. Failing' = Failing + 1 /\ (flushed' => Fresh') /\ (flushed' => \A i \in DOMAIN runs' : runs'[i].fresh)
      BY <1>0, <1>1, <2>1, <3>1, <3>2, RunAppended
    <3> QED
      BY <1>0, <1>1, <2>1, <3>1, <3>3, InRound, GoesOn
  <2> QED
    BY <1>4, <2>2, <2>3, <2>4
<1> QED
  BY <1>3, <1>4 DEF Run1

\* After the second run there are two failures, or one and a tie.
LEMMA Run2Step == IInv /\ Run2 => IInv'
<1> SUFFICES ASSUME IInv, Run2 PROVE IInv'
  OBVIOUS
<1>0. pc = "run2" /\ pc \in Trying \ {"flush", "install"} /\ Len(runs) = 1 /\ Failing = 1 /\ Running
  BY DEF Run2, Trying, IInv, Tried, Running
<1>1. UNCHANGED <<known, trial, head, branch, flushed, status, halt>> /\ UNCHANGED conf
  BY DEF Run2, known
<1>2. "sandbox_error" \in Reject
  BY DEF Reject
<1>3. CASE Throws("sandbox_error")
  BY <1>0, <1>1, <1>2, <1>3, RepairTakes, InRound DEF Throws
<1>4. ASSUME NEW r \in Outcome, runs' = Append(runs, r),
             Goto(IF Fails(r) THEN "weigh" ELSE "tie")
      PROVE IInv'
  <2>1. pc' = (IF Fails(r) THEN "weigh" ELSE "tie") /\ pc' \in Trying
        /\ UNCHANGED <<wanted, round, repairs, reject>> /\ UNCHANGED <<wanted, tree>>
    BY <1>4 DEF Goto, Trying
  <2>2. /\ runs' \in Seq(RunOf) /\ Len(runs') = Len(runs) + 1
        /\ Failing' = (IF Fails(r) THEN Failing + 1 ELSE Failing)
        /\ (flushed' => Fresh')
        /\ (flushed' => \A i \in DOMAIN runs' : runs'[i].fresh)
    BY <1>0, <1>1, <1>4, <2>1, RunAppended
  <2>3. \/ pc' = "weigh" /\ Failing' = 2
        \/ pc' = "tie" /\ Len(runs') = 2 /\ Failing' = 1
    BY <1>0, <2>1, <2>2
  <2> QED
    BY <1>0, <1>1, <2>1, <2>2, <2>3, InRound, GoesOn
<1> QED
  BY <1>3, <1>4 DEF Run2

\* A stage that rejects without asking for a repair.
LEMMA RejectStep ==
  ASSUME IInv, pc \in Trying, UNCHANGED <<known, trial, wanted, head, branch, flushed, round, repairs, runs, status, halt>>,
         NEW stage \in Reject, stage # "repair_exhausted", stage # "run_repro_pass",
         stage = "run_repro_flaky" => Len(runs) = 3 /\ Failing = 1,
         Rejected(stage), tree' = Reverted(tree)
  PROVE  IInv'
<1>1. /\ ~conf.fixOnly /\ status = "none" /\ ~Accepted /\ ~Accepted'
      /\ reject = "none" /\ halt # "committed" /\ halt # "fixed"
      /\ halt' # "committed" /\ halt' # "fixed"
  BY BuildingKeeps
<1>2. pc' = "oracle" /\ reject' = stage /\ stage # "none"
  BY DEF Rejected, Reject
<1>3. tree' \in [TestFile -> Version]
  BY RevertedTyped DEF IInv, TypeOK
<1>4. TypeOK'
  BY <1>2, <1>3 DEF IInv, TypeOK, Place, known
<1>5. Snapshots' /\ Rounds'
  BY <1>2 DEF IInv, Snapshots, Rounds, SuspectsExist, Before, Trying, known
<1>6. Failing' = Failing
  BY DEF Failing
<1>7. Tried' /\ Reasons'
  BY <1>1, <1>2, <1>6 DEF Tried, Reasons, Before, After
<1>8. Verdicts'
  BY <1>1, <1>2 DEF IInv, Verdicts, Before, After, known
<1>9. Written'
  BY <1>1, <1>2 DEF Written, Running, Trying, known
<1> QED
  BY <1>4, <1>5, <1>7, <1>8, <1>9 DEF IInv

\* A tie is broken by a third run.
LEMMA TieStep == IInv /\ Tie => IInv'
<1> SUFFICES ASSUME IInv, Tie PROVE IInv'
  OBVIOUS
<1>0. pc = "tie" /\ pc \in Trying \ {"flush", "install"} /\ Len(runs) = 2 /\ Failing = 1 /\ Running
  BY DEF Tie, Trying, IInv, Tried, Running
<1>1. UNCHANGED <<known, trial, wanted, head, branch, flushed, round, repairs, status, halt>> /\ UNCHANGED conf
  BY DEF Tie, known
<1>2. "sandbox_error" \in Reject
  BY DEF Reject
<1>3. CASE Rejected("sandbox_error") /\ tree' = Reverted(tree) /\ UNCHANGED runs
  BY <1>0, <1>1, <1>2, <1>3, RejectStep
<1>4. ASSUME NEW r \in Outcome, runs' = Append(runs, r), pc' = "weigh", UNCHANGED <<tree, reject>>
      PROVE IInv'
  <2>1. pc' \in Trying /\ UNCHANGED <<wanted, round, repairs, reject>> /\ UNCHANGED <<wanted, tree>>
    BY <1>1, <1>4 DEF Trying
  <2>2. /\ runs' \in Seq(RunOf) /\ Len(runs') = Len(runs) + 1
        /\ Failing' = (IF Fails(r) THEN Failing + 1 ELSE Failing)
        /\ (flushed' => Fresh')
        /\ (flushed' => \A i \in DOMAIN runs' : runs'[i].fresh)
    BY <1>0, <1>1, <1>4, <2>1, RunAppended
  <2>3. Len(runs') = 3 /\ Failing' >= 1
    BY <1>0, <2>2
  <2> QED
    BY <1>0, <1>1, <1>4, <2>1, <2>2, <2>3, InRound, GoesOn
<1> QED
  BY <1>3, <1>4 DEF Tie

\* Weighing the runs keeps the invariant.
LEMMA WeighStep == IInv /\ Weigh => IInv'
<1> SUFFICES ASSUME IInv, Weigh PROVE IInv'
  OBVIOUS
<1>0. pc = "weigh" /\ pc \in Trying \ {"flush", "install"} /\ Running
      /\ ((Len(runs) = 2 /\ Failing = 2) \/ (Len(runs) = 3 /\ Failing >= 1))
  BY DEF Weigh, Trying, IInv, Tried, Running
<1>1. UNCHANGED <<known, trial, head, branch, flushed, runs, status, halt>> /\ UNCHANGED conf
  BY DEF Weigh, known
<1>2. "run_repro_flaky" \in Reject /\ "expected_output_absent" \in Reject
  BY DEF Reject
<1>3. Failing \in Nat
  BY FailingIs, FailingNat, InRound, <1>0
<1>4. CASE Failing < 2 /\ Rejected("run_repro_flaky") /\ tree' = Reverted(tree) /\ UNCHANGED <<wanted, round, repairs>>
  <2>1. Len(runs) = 3 /\ Failing = 1
    BY <1>0, <1>3, <1>4
  <2> QED
    BY <1>0, <1>1, <1>2, <1>4, <2>1, RejectStep
<1>5. CASE Repair("expected_output_absent")
  BY <1>0, <1>1, <1>2, <1>5, RepairTakes, InRound
<1>6. CASE Failing >= 2 /\ Goto("oracle")
  <2>1. pc' = "oracle" /\ UNCHANGED <<wanted, round, repairs, reject>> /\ UNCHANGED <<wanted, tree>>
    BY <1>6 DEF Goto
  <2>2. Failing' = Failing /\ Fresh' = Fresh
    BY <1>1, <2>1 DEF Failing, Fresh, View
  <2> QED
    BY <1>0, <1>1, <1>6, <2>1, <2>2, InRound, GoesOn DEF Trying
<1> QED
  BY <1>4, <1>5, <1>6 DEF Weigh

\* So the builder keeps the invariant.
LEMMA BuildingStep ==
  IInv /\ (BuilderStarts \/ Write \/ WriteFails \/ Flush \/ Install \/ Run1 \/ Run2 \/ Tie \/ Weigh) => IInv'
BY BuilderStartsStep, WriteStep, FlushStep, InstallStep, Run1Step, Run2Step, TieStep, WeighStep

-----------------------------------------------------------------------------
(* The oracle, the pipeline's halts and the commit *)

\* The oracle changes the status, not the runs.
LEMMA OracleStep == IInv /\ Oracle => IInv'
<1> SUFFICES ASSUME IInv, Oracle PROVE IInv'
  OBVIOUS
<1>0. pc = "oracle" /\ ~conf.fixOnly /\ status = "none" /\ halt # "committed" /\ halt # "fixed"
  BY DEF Oracle, IInv, Verdicts, After
<1>1. UNCHANGED <<known, trial, files, loop, halt>> /\ UNCHANGED <<conf, runs, wanted, tree, branch, flushed, reject, body, mine>>
  BY DEF Oracle, known, files, loop
<1>2. /\ pc' = "stage" /\ status' \in Status
      /\ (status' = "reproduced" => reject = "none")
  BY DEF Oracle, Ends, Status
<1>3. Failing' = Failing
  BY <1>1 DEF Failing
<1>4. TypeOK' /\ Rounds'
  BY <1>1, <1>2 DEF IInv, TypeOK, Rounds, Place, known, files, loop
<1>5. Snapshots' /\ Reasons'
  BY <1>0, <1>1, <1>2, <1>3 DEF IInv, Snapshots, SuspectsExist, Reasons, Before, After
<1>6. Tried'
  BY <1>0, <1>1, <1>2, <1>3 DEF IInv, Tried, Before, Accepted
<1>7. Verdicts'
  BY <1>0, <1>1, <1>2 DEF IInv, Verdicts, After, Accepted
<1>8. Written'
  BY <1>0, <1>1, <1>2 DEF IInv, Written, Running, Accepted, Trying
<1> QED
  BY <1>4, <1>5, <1>6, <1>7, <1>8 DEF IInv

\* What is halted on is never a commit, and says fixed only of a test that passed.
LEMMA HaltOfIs ==
  /\ HaltOf \in Halted
  /\ HaltOf = "fixed" => reject = "run_repro_pass" /\ status = "not_reproduced"
BY DEF HaltOf, Halted

\* A halt is decided on what the stage returned.
LEMMA StageStep == IInv /\ Stage => IInv'
<1> SUFFICES ASSUME IInv, Stage PROVE IInv'
  OBVIOUS
<1>0. pc = "stage" /\ halt # "committed" /\ halt # "fixed"
  BY DEF Stage, IInv, Verdicts
<1>1. UNCHANGED <<known, trial, files, loop, status>> /\ UNCHANGED <<conf, runs, wanted, tree, branch, flushed, reject, body, mine>>
  BY DEF Stage, known, files, loop
<1>2. \/ pc' = "commit" /\ halt' = halt /\ halt = "none" /\ status = "reproduced"
      \/ pc' = "done" /\ halt' = HaltOf
      \/ pc' = "done" /\ halt' = halt
  BY DEF Stage
<1>3. Failing' = Failing /\ Accepted' = Accepted
  BY <1>1 DEF Failing, Accepted
<1>4. pc' \in Place /\ halt' \in Halted \cup {"none", "committed"} /\ halt' # "committed"
      /\ (halt' = "fixed" => pc' = "done" /\ reject = "run_repro_pass")
  BY <1>0, <1>2, HaltOfIs DEF IInv, TypeOK, Place, Halted
<1>5. TypeOK' /\ Rounds'
  BY <1>1, <1>4 DEF IInv, TypeOK, Rounds, known, files, loop
<1>6. Snapshots' /\ Reasons' /\ Tried'
  BY <1>0, <1>1, <1>2, <1>3 DEF IInv, Snapshots, SuspectsExist, Reasons, Tried, Before, After
<1>7. Verdicts'
  BY <1>0, <1>1, <1>2, <1>3, <1>4 DEF IInv, Verdicts, After
<1>8. Written'
  BY <1>0, <1>1, <1>2, <1>3, <1>4 DEF IInv, Written, Running, Trying
<1> QED
  BY <1>5, <1>6, <1>7, <1>8 DEF IInv

\* Only a reproduced test is committed.
LEMMA CommitStep == IInv /\ Commit => IInv'
<1> SUFFICES ASSUME IInv, Commit PROVE IInv'
  OBVIOUS
<1>0. pc = "commit" /\ pc' = "done" /\ halt = "none" /\ status = "reproduced"
  BY DEF Commit, IInv, Verdicts
<1>1. UNCHANGED <<known, trial, wanted, flushed, loop, status>> /\ UNCHANGED <<conf, runs, reject, body, mine>>
  BY DEF Commit, known, loop
<1> DEFINE clean == [head EXCEPT !["entry"] = tree["entry"]]
<1>2. clean \in [TestFile -> Version] /\ clean["entry"] = tree["entry"]
  BY DEF IInv, TypeOK, TestFile
<1>3. /\ tree' = clean /\ head' = clean
      /\ (branch' = clean /\ halt' = "committed") \/ (branch' = branch /\ halt' = "error")
  BY DEF Commit
<1> HIDE DEF clean
<1>4. Failing' = Failing /\ Accepted' = Accepted
  BY <1>1 DEF Failing, Accepted
<1>5. pc' \in Place /\ halt' \in {"committed", "error"} /\ halt' \in Halted \cup {"committed"}
  BY <1>0, <1>3 DEF Place, Halted
<1>6. branch' \in [TestFile -> Version]
  BY <1>2, <1>3 DEF IInv, TypeOK
<1>7. TypeOK' /\ Rounds'
  BY <1>1, <1>2, <1>3, <1>5, <1>6 DEF IInv, TypeOK, Rounds, known, loop
<1>8. Snapshots' /\ Reasons' /\ Tried'
  BY <1>0, <1>1, <1>4 DEF IInv, Snapshots, SuspectsExist, Reasons, Tried, Before, After
<1>9. Verdicts'
  BY <1>0, <1>1, <1>4, <1>5 DEF IInv, Verdicts, After
<1>10. Written'
  <2>1. Accepted => (wanted["entry"] # 0 => tree["entry"] = wanted["entry"])
    BY <1>0 DEF IInv, Written, TestFile
  <2>2. halt' = "committed" /\ ~conf.fixOnly => (wanted["entry"] # 0 => branch'["entry"] = wanted["entry"])
    BY <1>0, <1>2, <1>3, <2>1 DEF Accepted
  <2>3. flushed /\ Accepted => \A i \in DOMAIN runs : runs[i].fresh
    BY DEF IInv, Written
  <2>4. ~Running'
    BY <1>0 DEF Running
  <2> QED
    BY <1>0, <1>1, <1>4, <2>2, <2>3, <2>4 DEF Written, Trying
<1> QED
  BY <1>7, <1>8, <1>9, <1>10 DEF IInv

\* A stage given up on goes on, but commits nothing.
LEMMA TimeoutStep == IInv /\ Timeout => IInv'
<1> SUFFICES ASSUME IInv, Timeout PROVE IInv'
  OBVIOUS
<1>1. UNCHANGED <<known, pc, trial, files, loop, status>> /\ UNCHANGED <<conf, runs, wanted, tree, branch, flushed, reject, body, mine>>
  BY DEF Timeout, known, files, loop
<1>2. halt' = "not_runnable" /\ pc \notin {"commit", "done"}
  BY DEF Timeout
<1>3. Failing' = Failing /\ Accepted' = Accepted /\ Fresh' = Fresh /\ Running' = Running
  BY <1>1 DEF Failing, Accepted, Fresh, View, Running
<1>4. TypeOK' /\ Rounds'
  BY <1>1, <1>2 DEF IInv, TypeOK, Rounds, Halted, known, files, loop
<1>5. Snapshots' /\ Reasons' /\ Tried' /\ Verdicts'
  BY <1>1, <1>2, <1>3 DEF IInv, Snapshots, SuspectsExist, Reasons, Tried, Verdicts
<1>6. Written'
  BY <1>1, <1>2, <1>3 DEF IInv, Written
<1> QED
  BY <1>4, <1>5, <1>6 DEF IInv

\* A stutter keeps the invariant.
LEMMA StutterStep == IInv /\ UNCHANGED vars => IInv'
<1> SUFFICES ASSUME IInv, UNCHANGED vars PROVE IInv'
  OBVIOUS
<1>1. Failing' = Failing /\ Accepted' = Accepted /\ Fresh' = Fresh /\ Running' = Running
  BY DEF Failing, Accepted, Fresh, View, Running, vars
<1> QED
  BY <1>1 DEF vars, IInv, TypeOK, Snapshots, SuspectsExist, Rounds, Reasons, Tried, Verdicts, Written

\* The invariant is inductive.
LEMMA NextIInv == IInv /\ [Next]_vars => IInv'
BY FindingStep, BuildingStep, OracleStep, StageStep, CommitStep, TimeoutStep, StutterStep
   DEF Next, Step, Finding

-----------------------------------------------------------------------------
(* The theorems *)

\* It holds in every state.
LEMMA Invariance == Spec => []IInv
<1>1. Init => IInv
  BY InitIInv
<1>2. IInv /\ [Next]_vars => IInv'
  BY NextIInv
<1> QED
  BY <1>1, <1>2, PTL DEF Spec

\* Every state of the stage is well typed: no round beyond the bound, never more
\* than three runs of a test.
THEOREM TypeCorrect == Spec => []TypeOK
<1>1. IInv => TypeOK
  BY DEF IInv
<1> QED
  BY <1>1, Invariance, PTL

\* The dossier an analyst records never suspects a file the repository lacks.
THEOREM SuspectsAreReal == Spec => []SuspectsExist
<1>1. IInv => SuspectsExist
  BY DEF IInv, Snapshots
<1> QED
  BY <1>1, Invariance, PTL

\* A rejection tells what happened in the round that ended the stage, within the
\* bound on the repairs.
THEOREM RejectionsAreNamed == Spec => []NamedRejection
<1>1. IInv => NamedRejection
  BY DEF IInv, NamedRejection, Rounds, Reasons, Verdicts
<1> QED
  BY <1>1, Invariance, PTL

\* What is committed without an operator's word failed twice as it is committed.
THEOREM CommittedWasReproduced == Spec => []ReproducedTwice
<1>1. IInv => ReproducedTwice
  BY DEF IInv, ReproducedTwice, Verdicts, Tried, Written, Accepted
<1> QED
  BY <1>1, Invariance, PTL

-----------------------------------------------------------------------------
(* The trial that is implemented *)

Failures == IF pc = "write" THEN 0 ELSE Failing
Verdict == IF halt = "none" THEN "open" ELSE IF halt = "committed" THEN "accepted" ELSE "rejected"

\* A step that leaves the verdict: it changes the test, or one run fails.
Weighs == Failures' = 0 \/ Failures' = Failures \/ Failures' = Failures + 1

\* A step that adds at most one failure is a step of the trial.
LEMMA WeighsIsATrial ==
  ASSUME Weighs, UNCHANGED <<conf, halt>>
  PROVE  [Promise!Next]_(Promise!trial)
<1>1. Verdict' = Verdict
  BY DEF Verdict
<1>2. CASE Failures' = 0
  BY <1>1, <1>2 DEF Promise!Next, Promise!Change, Failures, Verdict
<1>3. CASE Failures' = Failures
  BY <1>1, <1>3 DEF Promise!trial, Failures, Verdict
<1>4. CASE Failures' = Failures + 1
  BY <1>1, <1>4 DEF Promise!Next, Promise!Fail, Failures, Verdict
<1> QED
  BY <1>2, <1>3, <1>4 DEF Weighs

\* A step that only gives a verdict.
LEMMA VerdictIsATrial ==
  ASSUME UNCHANGED conf, Failures' = Failures, halt = "none",
         halt' = "committed" => Failures >= 2 \/ conf.fixOnly
  PROVE  [Promise!Next]_(Promise!trial)
<1>1. Verdict = "open"
  BY DEF Verdict
<1>2. CASE halt' = "none"
  BY <1>1, <1>2 DEF Promise!trial, Failures, Verdict
<1>3. CASE halt' = "committed"
  BY <1>1, <1>3 DEF Promise!Next, Promise!Accept, Failures, Verdict
<1>4. CASE halt' # "none" /\ halt' # "committed"
  BY <1>1, <1>4 DEF Promise!Next, Promise!Refuse, Failures, Verdict
<1> QED
  BY <1>2, <1>3, <1>4

\* A step without a run adds no failure.
LEMMA RunsKept ==
  ASSUME UNCHANGED runs, pc # "write" \/ runs = <<>> \/ pc' = "write"
  PROVE  Weighs
<1>1. Failing' = Failing
  BY DEF Failing
<1>2. runs = <<>> => Failing = 0
  BY FailingIs, FailingNone
<1> QED
  BY <1>1, <1>2 DEF Weighs, Failures

\* A run adds at most one.
LEMMA RunAdded ==
  ASSUME IInv, pc # "write", NEW r \in Outcome, runs' = Append(runs, r)
  PROVE  Weighs
<1>1. r \in RunOf /\ runs \in Seq(RunOf)
  BY OutcomeIs DEF IInv, TypeOK
<1>2. Failing' = FailingOf(runs') /\ Failing = FailingOf(runs)
  BY DEF Failing, FailingOf
<1>3. Failing' = (IF Fails(r) THEN Failing + 1 ELSE Failing)
  BY <1>1, <1>2, FailingAppend
<1> QED
  BY <1>3 DEF Weighs, Failures

\* Steps that decide nothing.
Undecided ==
  \/ Finding \/ BuilderStarts \/ Write \/ WriteFails \/ Flush \/ Install \/ Run1 \/ Run2
  \/ Tie \/ Weigh \/ Oracle

\* Until the stage has decided, every step is one of the trial or a stutter.
LEMMA UndecidedIsATrial == IInv /\ Undecided => [Promise!Next]_(Promise!trial)
<1> SUFFICES ASSUME IInv, Undecided PROVE Weighs /\ UNCHANGED <<conf, halt>>
  BY WeighsIsATrial
<1>1. CASE Finding
  <2>1. pc # "write" /\ UNCHANGED <<conf, files, loop, halt>>
    BY <1>1, FindingKeeps DEF Before
  <2> QED
    BY <2>1, RunsKept DEF loop
<1>2. CASE BuilderStarts
  BY <1>2, RunsKept DEF BuilderStarts
<1>3. CASE Write \/ WriteFails
  <2>1. runs' = <<>> /\ UNCHANGED <<conf, halt>>
    BY <1>3 DEF Write, WriteFails, known
  <2>2. Failing' = 0
    BY <2>1, FailingNone DEF Failing, FailingOf
  <2> QED
    BY <2>1, <2>2 DEF Weighs, Failures
<1>4. CASE Flush \/ Install \/ Weigh \/ Oracle
  <2>1. pc # "write" /\ UNCHANGED <<runs, conf, halt>>
    BY <1>4 DEF Flush, Install, Weigh, Oracle, known, loop
  <2> QED
    BY <2>1, RunsKept
<1>5. CASE Run1
  <2>1. pc # "write" /\ UNCHANGED <<conf, halt>> /\ (runs' = runs \/ \E r \in Outcome : runs' = <<r>>)
    BY <1>5 DEF Run1, Throws, known
  <2>2. runs = <<>>
    BY <1>5 DEF Run1, IInv, Tried
  <2>3. \A r \in Outcome : <<r>> = Append(runs, r)
    BY <2>2
  <2> QED
    BY <2>1, <2>3, RunsKept, RunAdded
<1>6. CASE Run2 \/ Tie
  <2>1. pc # "write" /\ UNCHANGED <<conf, halt>> /\ (runs' = runs \/ \E r \in Outcome : runs' = Append(runs, r))
    BY <1>6 DEF Run2, Tie, Throws, known
  <2> QED
    BY <2>1, RunsKept, RunAdded
<1> QED
  BY <1>1, <1>2, <1>3, <1>4, <1>5, <1>6 DEF Undecided

\* So are the decisions: a commit accepts, a halt refuses.
LEMMA DecidingIsATrial == IInv /\ (Stage \/ Commit \/ Timeout) => [Promise!Next]_(Promise!trial)
<1> SUFFICES ASSUME IInv, Stage \/ Commit \/ Timeout PROVE [Promise!Next]_(Promise!trial)
  OBVIOUS
<1>1. CASE Stage
  <2>1. UNCHANGED <<conf, runs>> /\ pc = "stage" /\ pc' # "write"
    BY <1>1 DEF Stage, known, loop
  <2>2. Failures' = Failures
    BY <2>1 DEF Failures, Failing
  <2>3. CASE halt = "none"
    <3>1. halt' # "committed"
      BY <1>1, <2>3, HaltOfIs DEF Stage, Halted
    <3> QED
      BY <2>1, <2>2, <2>3, <3>1, VerdictIsATrial
  <2>4. CASE halt # "none"
    <3>1. halt' = halt
      BY <1>1, <2>4 DEF Stage
    <3> QED
      BY <2>1, <2>2, <3>1, WeighsIsATrial DEF Weighs
  <2> QED
    BY <2>3, <2>4
<1>2. CASE Commit
  <2>1. UNCHANGED <<conf, runs>> /\ pc = "commit" /\ pc' # "write" /\ halt = "none" /\ status = "reproduced"
    BY <1>2 DEF Commit, known, loop, IInv, Verdicts
  <2>2. Failures' = Failures
    BY <2>1 DEF Failures, Failing
  <2>3. Failures >= 2 \/ conf.fixOnly
    BY <2>1 DEF IInv, Tried, Accepted, Failures, TypeOK
  <2> QED
    BY <2>1, <2>2, <2>3, VerdictIsATrial
<1>3. CASE Timeout
  <2>1. UNCHANGED <<conf, runs, pc>> /\ halt = "none" /\ halt' # "committed"
    BY <1>3 DEF Timeout, known, loop
  <2>2. Failures' = Failures
    BY <2>1 DEF Failures, Failing
  <2> QED
    BY <2>1, <2>2, VerdictIsATrial
<1> QED
  BY <1>1, <1>2, <1>3

\* The stage is a trial of one test at a time: a run is only added to those of
\* the test as it is, a verdict is given once, and the test is accepted on two
\* failures or on an operator's word.
THEOREM StageIsATrial == Spec => IsATrial
<1>1. Init => Promise!Init
  <2>1. Init => Failing = 0
    BY FailingIs, FailingNone DEF Init
  <2> QED
    BY <2>1 DEF Init, Promise!Init
<1>2. IInv /\ [Next]_vars => [Promise!Next]_(Promise!trial)
  <2>1. UNCHANGED vars => UNCHANGED Promise!trial
    BY DEF vars, Promise!trial, Failing
  <2> QED
    BY <2>1, UndecidedIsATrial, DecidingIsATrial DEF Next, Step, Undecided, Finding
<1> QED
  BY <1>1, <1>2, Invariance, PTL DEF Spec, IsATrial, Promise!Spec

-----------------------------------------------------------------------------
(* Every step of the stage goes down: a round, a place in the round or the  *)
(* timeout it had left is used up.                                          *)

\* What comes down in one place, with all before it as they were, is below.
LEMMA BelowAt ==
  ASSUME NEW s, NEW t, NEW i \in DOMAIN t, s[i] \in Nat, s[i] < t[i], \A j \in 1 .. i - 1 : s[j] = t[j]
  PROVE  Below(s, t)
BY DEF Below

\* What the stage has left, written out.
LEMMA RoundsLeftAre ==
  /\ DOMAIN RoundsLeft = 1 .. 4
  /\ RoundsLeft[1] = Ahead[pc] /\ RoundsLeft[2] = MaxRounds - round
  /\ RoundsLeft[3] = (IF pc \in DOMAIN WithinRound THEN WithinRound[pc] ELSE 0)
  /\ RoundsLeft[4] = (IF halt = "none" THEN 1 ELSE 0)
BY DEF RoundsLeft

\* A place nearer to the end is below.
LEMMA NearerIsBelow ==
  ASSUME pc \in Place, pc' \in Place, Ahead[pc'] < Ahead[pc] PROVE Below(RoundsLeft', RoundsLeft)
<1>1. Ahead[pc'] \in Nat
  BY DEF Place, Ahead
<1>2. RoundsLeft'[1] = Ahead[pc'] /\ RoundsLeft[1] = Ahead[pc] /\ DOMAIN RoundsLeft = 1 .. 4
  BY DEF RoundsLeft, Ahead
<1> QED
  BY <1>1, <1>2, BelowAt

\* Where a round of the builder can be.
RoundPlace == {"write", "flush", "install", "run1", "run2", "tie", "weigh"}

\* A place nearer to the end of the round is below.
LEMMA LaterIsBelow ==
  ASSUME pc \in RoundPlace, pc' \in RoundPlace, round' = round, WithinRound[pc'] < WithinRound[pc]
  PROVE  Below(RoundsLeft', RoundsLeft)
<1>1. /\ WithinRound[pc'] \in Nat /\ Ahead[pc'] = Ahead[pc]
      /\ pc \in DOMAIN WithinRound /\ pc' \in DOMAIN WithinRound
  BY DEF RoundPlace, Ahead, WithinRound
<1>2. /\ RoundsLeft'[3] = WithinRound[pc'] /\ RoundsLeft[3] = WithinRound[pc]
      /\ \A j \in 1 .. 2 : RoundsLeft'[j] = RoundsLeft[j]
  BY <1>1 DEF RoundsLeft, Ahead, WithinRound
<1> QED
  BY <1>1, <1>2, RoundsLeftAre, BelowAt

\* The next round is below.
LEMMA NextRoundIsBelow ==
  ASSUME TypeOK, TypeOK', pc \in RoundPlace, pc' = "write", round' = round + 1
  PROVE  Below(RoundsLeft', RoundsLeft)
<1>1. Ahead[pc'] = Ahead[pc] /\ round \in Nat /\ round' \in 0 .. MaxRounds /\ MaxRounds \in Nat
  BY ReproAssumption DEF RoundPlace, Ahead, TypeOK
<1>2. /\ RoundsLeft'[2] = MaxRounds - round' /\ RoundsLeft[2] = MaxRounds - round
      /\ \A j \in 1 .. 1 : RoundsLeft'[j] = RoundsLeft[j]
  BY <1>1 DEF RoundsLeft, Ahead
<1>3. MaxRounds - round' \in Nat /\ MaxRounds - round' < MaxRounds - round
  BY <1>1
<1> QED
  BY <1>2, <1>3, RoundsLeftAre, BelowAt

\* A repair is made in a new round, or the rounds are over.
LEMMA RepairLeads ==
  ASSUME NEW stage, Repair(stage)
  PROVE  pc' = "oracle" \/ (pc' = "write" /\ round' = round + 1)
BY DEF Repair, Applied, GivenUp, NextRound, Rejected

\* Nothing takes the repro stage back without a round that is used up, for any
\* number of rounds.
THEOREM EveryRoundCosts == Spec => NoRoundForFree
<1> USE ReproAssumption
<1>1. ASSUME TypeOK, TypeOK', [Next]_vars PROVE [Below(RoundsLeft', RoundsLeft)]_vars
  <2>0. pc \in Place /\ pc' \in Place
    BY <1>1 DEF TypeOK
  <2>1. CASE Search \/ Load \/ Probe \/ Investigate \/ Assemble \/ BuilderStarts
    <3>1. Ahead[pc'] < Ahead[pc]
      BY <2>1 DEF Search, Load, Probe, Investigate, Assemble, BuilderStarts, Ends, RecordsAll,
                  NothingRecorded, Rejected, Ahead
    <3> QED
      BY <2>0, <3>1, NearerIsBelow
  <2>2. CASE Oracle \/ Stage \/ Commit
    <3>1. Ahead[pc'] < Ahead[pc]
      BY <2>2 DEF Oracle, Stage, Commit, Ends, Ahead
    <3> QED
      BY <2>0, <3>1, NearerIsBelow
  <2>3. CASE Write \/ WriteFails \/ Flush \/ Install \/ Run1 \/ Run2 \/ Tie \/ Weigh
    <3>1. \/ pc' = "oracle"
          \/ pc' = "write" /\ round' = round + 1
          \/ round' = round /\ pc' \in RoundPlace /\ WithinRound[pc'] < WithinRound[pc]
      <4>1. CASE Write \/ Flush
        BY <4>1 DEF Write, Flush, loop, RoundPlace, WithinRound
      <4>2. CASE WriteFails
        BY <4>2 DEF WriteFails, Applied, GivenUp, NextRound, Rejected
      <4>3. CASE Install
        BY <4>3, RepairLeads DEF Install, Goto, RoundPlace, WithinRound
      <4>4. CASE Run1
        BY <4>4, RepairLeads DEF Run1, Throws, Goto, RoundPlace, WithinRound
      <4>5. CASE Run2
        BY <4>5, RepairLeads DEF Run2, Throws, Goto, RoundPlace, WithinRound
      <4>6. CASE Tie
        BY <4>6 DEF Tie, Rejected, RoundPlace, WithinRound
      <4>7. CASE Weigh
        BY <4>7, RepairLeads DEF Weigh, Rejected, Goto, RoundPlace, WithinRound
      <4> QED
        BY <2>3, <4>1, <4>2, <4>3, <4>4, <4>5, <4>6, <4>7
    <3>2. pc \in RoundPlace
      BY <2>3 DEF Write, WriteFails, Flush, Install, Run1, Run2, Tie, Weigh, RoundPlace
    <3>3. pc' = "oracle" => Ahead[pc'] < Ahead[pc]
      BY <3>2 DEF RoundPlace, Ahead
    <3> QED
      BY <1>1, <2>0, <3>1, <3>2, <3>3, NearerIsBelow, LaterIsBelow, NextRoundIsBelow
  <2>4. CASE Timeout
    <3>1. halt = "none" /\ halt' = "not_runnable" /\ pc' = pc /\ round' = round
      BY <2>4 DEF Timeout, loop
    <3>2. /\ RoundsLeft'[4] = 0 /\ RoundsLeft[4] = 1
          /\ \A j \in 1 .. 3 : RoundsLeft'[j] = RoundsLeft[j]
      BY <3>1 DEF RoundsLeft, Ahead, WithinRound
    <3> QED
      BY <3>2, RoundsLeftAre, BelowAt
  <2>5. CASE UNCHANGED vars
    BY <2>5
  <2> QED
    BY <1>1, <2>1, <2>2, <2>3, <2>4, <2>5 DEF Next, Step
<1> QED
  BY <1>1, TypeCorrect, PTL DEF Spec, NoRoundForFree

-----------------------------------------------------------------------------
(* The agents that only read (AgentLoop).                                   *)

\* No call runs, and none has run, when an agent begins.
LEMMA NoCallsYet == NoCalls \in [Tool -> {0}] /\ Calls(NoCalls) = 0
BY DEF NoCalls, Calls, Tool

\* An agent begins with everything of its type.
LEMMA AgentBegins == AgentInit => AgentTypeOK
<1> SUFFICES ASSUME AgentInit PROVE AgentTypeOK
  OBVIOUS
<1> USE AgentAssumption
<1>1. /\ flight \in [Tool -> 0 .. Width] /\ Calls(flight) <= Width
      /\ totalCalls \in Nat /\ ran \in [Tool -> Nat]
  BY NoCallsYet DEF AgentInit
<1>2. /\ agent \in Agent /\ routes \in 1 .. MaxRoutes /\ place \in {"ask", "act", "over"}
      /\ talk \in 1 .. 2 /\ route \in 1 .. routes /\ steps \in 0 .. MaxSteps - 1
      /\ reads \in 0 .. ReadsNeeded /\ outcome \in {"none", "abandon", "finished", "error"}
  BY DEF AgentInit
<1>3. corrected \in BOOLEAN /\ recorded \in BOOLEAN /\ abandoned \in BOOLEAN
  BY DEF AgentInit
<1> QED
  BY <1>1, <1>2, <1>3 DEF AgentTypeOK

\* Where a step of the loop leads: to the next request of the try, to a new try,
\* or out, with an error or with what the registry says.
NextRequest == /\ place' = "ask" /\ UNCHANGED <<talk, corrected, route, outcome>>
               /\ steps' = steps + 1 /\ steps + 1 # MaxSteps
NewTry == /\ place' = "ask" /\ outcome' = outcome /\ steps' = 0
          /\ route' = 1 \/ (route < routes /\ route' = route + 1)
          /\ talk' = talk \/ talk' = 2
          /\ corrected' = corrected \/ corrected' \in BOOLEAN
Out == /\ place' = "over" /\ UNCHANGED <<talk, corrected, route, steps>>
       /\ outcome' = "error" \/ (outcome' = Heard /\ ~MayForce(Heard))
LoopStep == StepEnds \/ TextEnds \/ ProviderFails \/ AnswerUnreadable

\* A conversation that ends is followed by another, or the agent is over.
LEMMA TalkLeads ==
  ASSUME TalkEnds PROVE NewTry \/ Out
<1>1. (MayForce(Heard) /\ AskAgain) \/ (~MayForce(Heard) /\ Over(Heard))
  BY DEF TalkEnds
<1>2. AskAgain => NewTry
  BY DEF AskAgain, Try, NewTry
<1>3. ~MayForce(Heard) /\ Over(Heard) => Out
  BY DEF Over, Out, try
<1> QED
  BY <1>1, <1>2, <1>3

\* A step of the loop leaves the registry to the calls.
LEMMA LoopLeads ==
  ASSUME LoopStep
  PROVE  /\ NextRequest \/ NewTry \/ Out
         /\ place # "over"
         /\ UNCHANGED <<agent, routes, flight, totalCalls, ran, reads, recorded, abandoned>>
<1>1. /\ place # "over"
      /\ UNCHANGED <<agent, routes, flight, totalCalls, ran, reads, recorded, abandoned>>
  BY DEF LoopStep, StepEnds, TextEnds, ProviderFails, AnswerUnreadable, registry
<1> SUFFICES NextRequest \/ NewTry \/ Out
  BY <1>1
<1>2. CASE StepEnds
  <2>1. CASE LastStep
    BY <1>2, <2>1, TalkLeads DEF StepEnds
  <2>2. CASE ~LastStep
    BY <1>2, <2>2 DEF StepEnds, LastStep, NextRequest
  <2> QED
    BY <2>1, <2>2
<1>3. CASE TextEnds
  BY <1>3, TalkLeads DEF TextEnds
<1>4. CASE ProviderFails
  BY <1>4 DEF ProviderFails, Over, Try, try, NewTry, Out
<1>5. CASE AnswerUnreadable
  <2>1. AskAgain => NewTry
    BY DEF AskAgain, Try, NewTry
  <2>2. Over("error") => Out
    BY DEF Over, Out, try
  <2>3. corrected' = TRUE /\ Try(1) /\ UNCHANGED talk => NewTry
    BY DEF Try, NewTry
  <2> QED
    BY <1>5, <2>1, <2>2, <2>3 DEF AnswerUnreadable
<1> QED
  BY <1>2, <1>3, <1>4, <1>5 DEF LoopStep

\* What an agent ends with.
LEMMA HeardEither ==
  (abandoned /\ Heard = "abandon") \/ (~abandoned /\ Heard = "finished")
BY DEF Heard

\* What each step may change of an agent that reads keeps its type.
THEOREM AgentTypeCorrect == AgentSpec => []AgentTypeOK
<1> USE AgentAssumption
<1>2. AgentTypeOK /\ [AgentNext]_agentVars => AgentTypeOK'
  <2> SUFFICES ASSUME AgentTypeOK, [AgentNext]_agentVars PROVE AgentTypeOK'
    OBVIOUS
  <2>1. CASE Answer
    <3>1. PICK asked \in [Tool -> 0 .. Width] :
            /\ Calls(asked) \in 1 .. Width
            /\ flight' = [tool \in Tool |-> IF Admits(tool) THEN asked[tool] ELSE 0]
      BY <2>1 DEF Answer
    <3>2. flight' \in [Tool -> 0 .. Width]
      BY <3>1
    <3>3. Calls(flight') <= Width
      BY <3>1 DEF Calls, Tool
    <3> QED
      BY <2>1, <3>2, <3>3 DEF AgentTypeOK, Answer, try
  <2>2. ASSUME NEW tool \in Tool, Finish(tool) PROVE AgentTypeOK'
    <3>1. /\ flight' = [flight EXCEPT ![tool] = @ - 1] /\ flight[tool] > 0
          /\ totalCalls' = totalCalls + 1 /\ ran' = [ran EXCEPT ![tool] = @ + 1]
      BY <2>2 DEF Finish
    <3>2. flight' \in [Tool -> 0 .. Width] /\ ran' \in [Tool -> Nat] /\ totalCalls' \in Nat
      BY <3>1 DEF AgentTypeOK
    <3>3. Calls(flight') <= Width
      BY <3>1 DEF Calls, Tool, AgentTypeOK
    <3>4. reads' \in 0 .. ReadsNeeded /\ recorded' \in BOOLEAN /\ abandoned' \in BOOLEAN
      BY <2>2 DEF Finish, AgentTypeOK
    <3> QED
      BY <2>2, <3>2, <3>3, <3>4 DEF AgentTypeOK, Finish, try
  <2>3. CASE LoopStep
    <3>1. /\ NextRequest \/ NewTry \/ Out
          /\ UNCHANGED <<agent, routes, flight, totalCalls, ran, reads, recorded, abandoned>>
      BY <2>3, LoopLeads
    <3>2. place' \in {"ask", "act", "over"} /\ outcome' \in {"none", "abandon", "finished", "error"}
      BY <3>1, HeardEither DEF AgentTypeOK, NextRequest, NewTry, Out
    <3>3. talk' \in 1 .. 2 /\ corrected' \in BOOLEAN
      BY <3>1 DEF AgentTypeOK, NextRequest, NewTry, Out
    <3>4. route' \in 1 .. routes' /\ steps' \in 0 .. MaxSteps - 1
      BY <3>1 DEF AgentTypeOK, NextRequest, NewTry, Out
    <3> QED
      BY <3>1, <3>2, <3>3, <3>4 DEF AgentTypeOK, Calls
  <2>4. CASE UNCHANGED agentVars
    BY <2>4 DEF AgentTypeOK, agentVars, try, registry, Calls
  <2> QED
    BY <2>1, <2>2, <2>3, <2>4 DEF AgentNext, LoopStep
<1> QED
  BY AgentBegins, <1>2, PTL DEF AgentSpec

\* The calls in flight were let in on a count below the total, and every call
\* that ran is counted.
InBudget == totalCalls + Calls(flight) <= Total + Width - 1
Counted == Calls(ran) = totalCalls

\* The agent has an outcome when it is over, and not before; and abandon is
\* remembered by the registry, whichever try it was called in.
OverAtOnce == place = "over" <=> outcome # "none"
AbandonKept == abandoned <=> ran["abandon"] > 0

AgentInv == AgentTypeOK /\ InBudget /\ Counted /\ OverAtOnce /\ AbandonKept /\ AbandonHeard

\* An agent that ends in a step of the loop is told what the registry says.
LEMMA LoopKeeps ==
  ASSUME AgentInv, LoopStep
  PROVE  InBudget' /\ Counted' /\ OverAtOnce' /\ AbandonKept' /\ AbandonHeard'
<1>1. /\ NextRequest \/ NewTry \/ Out
      /\ place # "over"
      /\ UNCHANGED <<agent, routes, flight, totalCalls, ran, reads, recorded, abandoned>>
  BY LoopLeads
<1>2. InBudget' /\ Counted' /\ AbandonKept'
  BY <1>1 DEF AgentInv, InBudget, Counted, AbandonKept, Calls
<1>3. outcome = "none"
  BY <1>1 DEF AgentInv, OverAtOnce
<1>4. OverAtOnce' /\ AbandonHeard'
  <2>1. CASE NextRequest \/ NewTry
    BY <1>3, <2>1 DEF OverAtOnce, AbandonHeard, NextRequest, NewTry
  <2>2. CASE Out /\ outcome' = "error"
    BY <2>2 DEF OverAtOnce, AbandonHeard, Out
  <2>3. CASE Out /\ outcome' = Heard /\ ~MayForce(Heard)
    <3>1. CASE abandoned
      BY <1>1, <2>3, <3>1 DEF Heard, Out, AgentInv, AbandonKept, OverAtOnce, AbandonHeard
    <3>2. CASE ~abandoned
      <4>1. outcome' = "finished" /\ ran' = ran /\ ran["abandon"] = 0
        BY <1>1, <2>3, <3>2 DEF Heard, AgentInv, AbandonKept, AgentTypeOK, Tool
      <4>2. agent' = "ANALYST" => recorded' \/ talk' = 2
        BY <1>1, <2>3, <3>2 DEF Heard, MayForce, Out, AgentInv, AgentTypeOK
      <4> QED
        BY <2>3, <4>1, <4>2 DEF Out, OverAtOnce, AbandonHeard
    <3> QED
      BY <3>1, <3>2
  <2> QED
    BY <1>1, <2>1, <2>2, <2>3 DEF Out
<1> QED
  BY <1>2, <1>4

\* The budget, and what the caller hears, are kept by every step.
LEMMA AgentInvHolds == AgentSpec => []AgentInv
<1> USE AgentAssumption
<1>1. AgentInit => AgentInv
  BY AgentBegins, NoCallsYet
     DEF AgentInit, AgentInv, InBudget, Counted, OverAtOnce, AbandonKept, AbandonHeard, Tool
<1>2. AgentInv /\ AgentTypeOK' /\ [AgentNext]_agentVars => AgentInv'
  <2> SUFFICES ASSUME AgentInv, AgentTypeOK', [AgentNext]_agentVars PROVE AgentInv'
    OBVIOUS
  <2>1. CASE Answer
    <3>1. PICK asked \in [Tool -> 0 .. Width] :
            /\ Calls(asked) \in 1 .. Width
            /\ flight' = [tool \in Tool |-> IF Admits(tool) THEN asked[tool] ELSE 0]
      BY <2>1 DEF Answer
    <3>2. UNCHANGED <<agent, totalCalls, ran, recorded, abandoned, outcome, talk>> /\ place # "over" /\ place' # "over"
      BY <2>1 DEF Answer, try
    <3>3. InBudget'
      <4>1. Calls(flight') \in 0 .. Width
        BY DEF AgentTypeOK, Calls, Tool
      <4>2. CASE totalCalls < Total
        BY <3>2, <4>1, <4>2 DEF AgentInv, InBudget, AgentTypeOK
      <4>3. CASE totalCalls >= Total
        <5>1. \A tool \in Tool : flight'[tool] = 0
          BY <3>1, <4>3 DEF Admits, AgentInv, AgentTypeOK
        <5>2. Calls(flight') = 0
          BY <5>1 DEF Calls, Tool
        <5>3. Calls(flight) \in Nat
          BY DEF AgentInv, AgentTypeOK, Calls, Tool
        <5> QED
          BY <3>2, <5>2, <5>3 DEF AgentInv, InBudget, AgentTypeOK
      <4> QED
        BY <4>2, <4>3 DEF AgentInv, AgentTypeOK
    <3> QED
      BY <3>2, <3>3 DEF AgentInv, Counted, OverAtOnce, AbandonKept, AbandonHeard, Calls
  <2>2. ASSUME NEW tool \in Tool, Finish(tool) PROVE AgentInv'
    <3>1. /\ flight' = [flight EXCEPT ![tool] = @ - 1] /\ flight[tool] > 0
          /\ totalCalls' = totalCalls + 1 /\ ran' = [ran EXCEPT ![tool] = @ + 1]
          /\ abandoned' = (abandoned \/ tool = "abandon")
          /\ place = "act" /\ UNCHANGED <<place, outcome, agent, talk>>
      BY <2>2 DEF Finish, try
    <3>2. InBudget'
      BY <3>1 DEF InBudget, Calls, Tool, AgentInv, AgentTypeOK
    <3>3. Counted'
      BY <3>1 DEF Counted, Calls, Tool, AgentInv, AgentTypeOK
    <3>4. AbandonKept'
      <4>1. CASE tool = "abandon"
        <5>1. ran'["abandon"] > 0
          BY <3>1, <4>1 DEF Tool, AgentInv, AgentTypeOK
        <5>2. abandoned'
          BY <3>1, <4>1
        <5> QED
          BY <5>1, <5>2 DEF AbandonKept
      <4>2. CASE tool # "abandon"
        BY <3>1, <4>2 DEF AbandonKept, Tool, AgentInv, AgentTypeOK
      <4> QED
        BY <4>1, <4>2
    <3>5. OverAtOnce' /\ AbandonHeard'
      BY <3>1 DEF OverAtOnce, AbandonHeard, AgentInv
    <3> QED
      BY <3>2, <3>3, <3>4, <3>5 DEF AgentInv
  <2>3. CASE LoopStep
    BY <2>3, LoopKeeps DEF AgentInv
  <2>4. CASE UNCHANGED agentVars
    BY <2>4 DEF AgentInv, InBudget, Counted, OverAtOnce, AbandonKept, AbandonHeard, Calls, agentVars, try, registry
  <2> QED
    BY <2>1, <2>2, <2>3, <2>4 DEF AgentNext, LoopStep
<1> QED
  BY <1>1, <1>2, AgentTypeCorrect, PTL DEF AgentSpec

\* The calls of an agent that reads stay within its budget, but for the other
\* calls of the answer that reaches it, whatever failed and was tried again.
THEOREM BudgetKept == AgentSpec => []BudgetHolds
<1>1. AgentInv => BudgetHolds
  BY AgentAssumption DEF AgentInv, InBudget, Counted, BudgetHolds, AgentTypeOK, Calls, Tool
<1> QED
  BY <1>1, AgentInvHolds, PTL

\* An abandon is heard in whatever try it was made, and an analyst without a
\* verdict was asked twice.
THEOREM AbandonIsHeard == AgentSpec => []AbandonHeard
BY AgentInvHolds, PTL DEF AgentInv

-----------------------------------------------------------------------------
(* So does every step of an agent: a try, a step or a call is used up.      *)

\* How a new try costs a conversation, a correction or a route.
Costs ==
  \/ talk = 1 /\ talk' = 2
  \/ talk' = talk /\ ~corrected /\ corrected'
  \/ talk' = talk /\ (corrected' <=> corrected) /\ route < routes /\ route' = route + 1

\* A step of the loop is the next of its try, or the first of a try that costs,
\* or the end.
LEMMA LoopCosts ==
  ASSUME LoopStep
  PROVE  /\ place # "over" /\ UNCHANGED <<routes, flight>>
         /\ NextRequest \/ (place' = "ask" /\ Costs) \/ place' = "over"
<1>1. place # "over" /\ UNCHANGED <<routes, flight>>
  BY LoopLeads
<1>2. ASSUME AskAgain, MayForce("error") \/ MayForce(Heard) PROVE place' = "ask" /\ Costs
  BY <1>2 DEF AskAgain, MayForce, Try, Costs
<1>3. ASSUME TalkEnds PROVE (place' = "ask" /\ Costs) \/ place' = "over"
  BY <1>2, <1>3 DEF TalkEnds, Over
<1>4. CASE StepEnds
  <2>1. CASE LastStep
    BY <1>1, <1>3, <1>4, <2>1 DEF StepEnds
  <2>2. CASE ~LastStep
    BY <1>1, <1>4, <2>2 DEF StepEnds, LastStep, NextRequest
  <2> QED
    BY <2>1, <2>2
<1>5. CASE TextEnds
  BY <1>1, <1>3, <1>5 DEF TextEnds
<1>6. CASE ProviderFails
  <2>1. CASE route < routes
    <3>1. place' = "ask" /\ route' = route + 1 /\ talk' = talk /\ corrected' = corrected
      BY <1>6, <2>1 DEF ProviderFails, Try
    <3> QED
      BY <1>1, <2>1, <3>1 DEF Costs
  <2>2. CASE ~(route < routes)
    BY <1>1, <1>6, <2>2 DEF ProviderFails, Over
  <2> QED
    BY <2>1, <2>2
<1>7. CASE AnswerUnreadable
  <2>1. ASSUME ~corrected, corrected' = TRUE, Try(1), UNCHANGED talk PROVE place' = "ask" /\ Costs
    BY <2>1 DEF Try, Costs
  <2>2. ASSUME Over("error") PROVE place' = "over"
    BY <2>2 DEF Over
  <2> QED
    BY <1>1, <1>2, <1>7, <2>1, <2>2 DEF AnswerUnreadable
<1> QED
  BY <1>4, <1>5, <1>6, <1>7 DEF LoopStep

\* The measure of what an agent has left, written out.
LEMMA TriesLeftAre ==
  /\ DOMAIN TriesLeft = 1 .. 7
  /\ TriesLeft[1] = IF place = "over" THEN 0 ELSE 1
  /\ TriesLeft[2] = 2 - talk
  /\ TriesLeft[3] = IF corrected THEN 0 ELSE 1
  /\ TriesLeft[4] = routes - route
  /\ TriesLeft[5] = MaxSteps - steps
  /\ TriesLeft[6] = IF place = "ask" THEN 1 ELSE 0
  /\ TriesLeft[7] = Calls(flight)
BY DEF TriesLeft

\* A try, a step or a call that an agent has used up is not given back, for any
\* budgets, routes and steps.
THEOREM EveryTryCosts == AgentSpec => NoTryForFree
<1> USE AgentAssumption
<1>1. ASSUME AgentTypeOK, AgentTypeOK', [AgentNext]_agentVars
      PROVE  [Below(TriesLeft', TriesLeft)]_agentVars
  <2>0. /\ talk \in 1 .. 2 /\ route \in 1 .. routes /\ steps \in 0 .. MaxSteps - 1 /\ routes \in Nat
        /\ talk' \in 1 .. 2 /\ route' \in 1 .. routes' /\ steps' \in 0 .. MaxSteps - 1
        /\ flight \in [Tool -> 0 .. Width] /\ flight' \in [Tool -> 0 .. Width]
    BY <1>1 DEF AgentTypeOK
  <2>1. CASE Answer
    <3>1. /\ place = "ask" /\ place' = "act" /\ UNCHANGED <<routes, talk, corrected, route, steps>>
      BY <2>1 DEF Answer, try
    <3>2. /\ TriesLeft'[6] = 0 /\ TriesLeft[6] = 1
          /\ \A j \in 1 .. 5 : TriesLeft'[j] = TriesLeft[j]
      BY <3>1 DEF TriesLeft
    <3> QED
      BY <3>2, TriesLeftAre, BelowAt
  <2>2. ASSUME NEW tool \in Tool, Finish(tool) PROVE Below(TriesLeft', TriesLeft)
    <3>1. /\ flight' = [flight EXCEPT ![tool] = @ - 1] /\ flight[tool] > 0
          /\ UNCHANGED <<routes, place, talk, corrected, route, steps>>
      BY <2>2 DEF Finish, try
    <3>2. Calls(flight') \in Nat /\ Calls(flight') < Calls(flight)
      BY <2>0, <3>1 DEF Calls, Tool
    <3>3. /\ TriesLeft'[7] = Calls(flight') /\ TriesLeft[7] = Calls(flight)
          /\ \A j \in 1 .. 6 : TriesLeft'[j] = TriesLeft[j]
      BY <3>1 DEF TriesLeft, Calls
    <3> QED
      BY <3>2, <3>3, TriesLeftAre, BelowAt
  <2>3. CASE LoopStep
    <3>1. /\ place # "over" /\ UNCHANGED <<routes, flight>>
          /\ NextRequest \/ (place' = "ask" /\ Costs) \/ place' = "over"
      BY <2>3, LoopCosts
    <3>2. CASE NextRequest
      <4>1. /\ TriesLeft'[5] \in Nat /\ TriesLeft'[5] < TriesLeft[5]
            /\ \A j \in 1 .. 4 : TriesLeft'[j] = TriesLeft[j]
        BY <2>0, <3>1, <3>2 DEF TriesLeft, NextRequest
      <4> QED
        BY <4>1, TriesLeftAre, BelowAt
    <3>3. CASE place' = "over"
      <4>1. TriesLeft'[1] = 0 /\ TriesLeft[1] = 1
        BY <3>1, <3>3 DEF TriesLeft
      <4> QED
        BY <4>1, TriesLeftAre, BelowAt
    <3>4. CASE place' = "ask" /\ talk = 1 /\ talk' = 2
      <4>1. TriesLeft'[2] = 0 /\ TriesLeft[2] = 1 /\ \A j \in 1 .. 1 : TriesLeft'[j] = TriesLeft[j]
        BY <3>1, <3>4 DEF TriesLeft
      <4> QED
        BY <4>1, TriesLeftAre, BelowAt
    <3>5. CASE place' = "ask" /\ talk' = talk /\ ~corrected /\ corrected'
      <4>1. TriesLeft'[3] = 0 /\ TriesLeft[3] = 1 /\ \A j \in 1 .. 2 : TriesLeft'[j] = TriesLeft[j]
        BY <3>1, <3>5 DEF TriesLeft
      <4> QED
        BY <4>1, TriesLeftAre, BelowAt
    <3>6. CASE /\ place' = "ask" /\ talk' = talk /\ (corrected' <=> corrected)
               /\ route < routes /\ route' = route + 1
      <4>1. /\ TriesLeft'[4] \in Nat /\ TriesLeft'[4] < TriesLeft[4]
            /\ \A j \in 1 .. 3 : TriesLeft'[j] = TriesLeft[j]
        BY <2>0, <3>1, <3>6 DEF TriesLeft
      <4> QED
        BY <4>1, TriesLeftAre, BelowAt
    <3> QED
      BY <3>1, <3>2, <3>3, <3>4, <3>5, <3>6 DEF Costs
  <2>4. CASE UNCHANGED agentVars
    BY <2>4
  <2> QED
    BY <1>1, <2>1, <2>2, <2>3, <2>4 DEF AgentNext, LoopStep
<1> QED
  BY <1>1, AgentTypeCorrect, PTL DEF AgentSpec, NoTryForFree
=============================================================================
