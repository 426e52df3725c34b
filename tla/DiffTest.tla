------------------------------ MODULE DiffTest ------------------------------
(***************************************************************************)
(* The diff-test program (crates/diff-test/src/main.rs) over several       *)
(* invocations: select the cases, run each one on both engines, store its  *)
(* artifact, run the mutation matrix over the recorded traces, store its   *)
(* summary, and exit with a status.  What stays between invocations is the *)
(* artifact directory, which a replay reads and a killed run may leave     *)
(* torn.  Differential models the inside of one case.                      *)
(*                                                                         *)
(* The comparison may overlook one thing it should look at: that is the    *)
(* defect of the comparison that the mutation matrix exists to find.       *)
(***************************************************************************)
EXTENDS Mutation

CONSTANTS
  Corpora,       \* the corpora, one per seed: sequences of cases without repetition
  Recorded,      \* Recorded[c]: the trace CKB-VM has for case c
  SailTrace,     \* SailTrace[c]: the traces the Sail model may have for it
  Focus,         \* Focus[c]: its focus_step
  Oversight,     \* what the comparison may overlook; "none" is nothing
  MaxRuns,       \* bound: invocations
  MaxEdits       \* bound: edits of a stored artifact

ASSUME CorpusAssumption ==
  \A cases \in Corpora :
    /\ cases \in Seq(DOMAIN Recorded) /\ cases # << >>
    /\ \A j, k \in DOMAIN cases : cases[j] = cases[k] => j = k
ASSUME TraceAssumption ==
  \A c \in DOMAIN Recorded :
    /\ Focus[c] \in Nat
    /\ IsTrace(Recorded[c]) /\ \A trace \in SailTrace[c] : IsTrace(trace)
ASSUME RunsAssumption == MaxRuns \in Nat /\ MaxEdits \in Nat

VARIABLES
  corpus,        \* the corpus of the seed that every invocation is given
  overlooked,    \* what the comparison of this build overlooks
  runs,          \* how many invocations there have been
  args,          \* Arguments of the present one, and what they select
  phase,         \* "idle", "cases", "mutations", "summary", "exit"
  todo,          \* the cases the present phase has yet to run
  results,       \* [c |-> CaseReport] of this invocation
  baselineFailures, \* the cases without a passing unmutated comparison
  reports,       \* the MutationReports, a set
  mutationsPassed, \* MutationSummary: "passed", "failed" or None
  status,        \* the exit status of the last invocation: 0, 1 or NoStatus
  artifacts,     \* artifacts[c]: the file of case c, Missing or Torn
  agreed,        \* history: cases whose every engine pair of this run was equal
  edits          \* history: how many artifacts were edited

vars == <<corpus, overlooked, runs, args, phase, todo, results, baselineFailures, reports,
          mutationsPassed, status, artifacts, agreed, edits>>

Case == DOMAIN Recorded
None == "none"
Missing == [kind |-> "missing"]
Torn == [kind |-> "torn"]

NoStatus == -1
Itself == [c \in Case |-> c]
NoArgs == [mode |-> "none", mutate |-> FALSE, store |-> FALSE, policy |-> "exact",
           cases |-> {}, program |-> Itself]

Init ==
  /\ corpus \in Corpora
  /\ overlooked \in Oversight
  /\ runs = 0
  /\ args = NoArgs
  /\ phase = "idle"
  /\ todo = {}
  /\ results = << >>
  /\ baselineFailures = {}
  /\ reports = {}
  /\ mutationsPassed = None
  /\ status = NoStatus
  /\ artifacts = [c \in Case |-> Missing]
  /\ agreed = Case
  /\ edits = 0

-----------------------------------------------------------------------------
(* The comparison as it was built.                                         *)

\* The left trace as a comparison sees it that overlooks one field, the length
\* or the termination.
Overlook(left, right) ==
  CASE overlooked = "termination"  -> [left EXCEPT !.end = right.end]
    [] overlooked = "trace_length" -> [left EXCEPT !.events = SubSeq(@, 1, Common(left, right))]
    [] OTHER ->
         [left EXCEPT !.events = [k \in DOMAIN @ |->
            IF k \in DOMAIN right.events
              THEN [f \in DOMAIN @[k] |-> IF f = overlooked THEN right.events[k][f] ELSE @[k][f]]
              ELSE @[k]]]

\* compare_traces, as this build has it.
CompareTraces(left, right) ==
  LET seen == IF overlooked = "none" THEN left ELSE Overlook(left, right)
      cut == IF overlooked = "trace_length"
               THEN [right EXCEPT !.events = SubSeq(@, 1, Common(left, right))] ELSE right
  IN  CompareWithPolicy(seen, cut, args.policy)

Agree(left, right) ==
  left.events = right.events /\ TerminalMatches(left.end, right.end, args.policy)

\* What the engines do with a case: a failed runner, or the two traces.
Failed == [ok |-> FALSE]
Outcomes(c) == {Failed} \cup [ok : {TRUE}, sail : SailTrace[c]]

-----------------------------------------------------------------------------
\* select_cases and collect_elfs: the corpus or the named cases, the program of
\* an artifact, or the ELF files, which are compared but never stored.
InCorpus == {corpus[k] : k \in DOMAIN corpus}

\* The selected cases run in the order of the corpus.
FirstOf(cases) == corpus[Least({k \in DOMAIN corpus : corpus[k] \in cases})]

Start(new) ==
  /\ args' = new
  /\ phase' = "cases"
  /\ todo' = new.cases
  /\ status' = NoStatus

\* Artifact::read and program: a file that does not parse, or whose words
\* disagree with its recorded case, is refused.
BugWordsNotCompared(file) == file.kind = "whole"
Replayable(file) == file.kind = "whole" /\ file.words = file.instructions

Forget ==
  /\ results' = << >>
  /\ baselineFailures' = {}
  /\ reports' = {}
  /\ mutationsPassed' = None
  /\ agreed' = Case

NewRun ==
  /\ phase = "idle" /\ runs < MaxRuns
  /\ runs' = runs + 1
  /\ Forget
  /\ UNCHANGED <<corpus, overlooked, artifacts, edits>>

\* A replay injects the words of the artifact.
Invoke ==
  /\ NewRun
  /\ \E mutate, store \in BOOLEAN, policy \in Policies :
       LET new == [NoArgs EXCEPT !.mutate = mutate, !.store = store, !.policy = policy]
       IN  \/ \E cases \in (SUBSET InCorpus) \ {{}} :
                Start([new EXCEPT !.mode = "corpus", !.cases = cases])
           \/ /\ ~ mutate
              /\ \E c \in InCorpus :
                   /\ Replayable(artifacts[c])
                   /\ Start([new EXCEPT !.mode = "replay", !.cases = {c},
                                        !.program[c] = artifacts[c].words])
           \/ /\ ~ mutate /\ ~ store
              /\ Start([new EXCEPT !.mode = "elf", !.cases = InCorpus])

\* An unknown case, no ELF file, or an artifact that cannot be replayed.
InvokeFails ==
  /\ NewRun
  /\ status' = 1 /\ args' = NoArgs
  /\ UNCHANGED <<phase, todo>>

\* What is on disk after Artifact::write succeeded, or failed halfway.
Stored(c, file) == artifacts' = [artifacts EXCEPT ![c] = file]

\* Its case and the injected words, the verdict, and the two traces.
NoTraces == [ok |-> FALSE]
Artifact(c, passed, outcome) ==
  [kind |-> "whole", by |-> runs, passed |-> passed,
   words |-> args.program[c], instructions |-> args.program[c],
   traces |-> IF ~ outcome.ok THEN NoTraces
              ELSE [ok |-> TRUE, ckb |-> Recorded[args.program[c]], sail |-> outcome.sail]]

\* A run whose evidence could not be stored is not a clean pass.
BugUnstoredPasses(passed, stored) == passed
CleanPass(passed, stored) == passed /\ stored

\* run_case and run_one_elf: both engines, the comparison, the artifact.
RunCase ==
  /\ phase = "cases" /\ todo # {}
  /\ LET c == FirstOf(todo)
         p == args.program[c]
     IN  \E outcome \in Outcomes(p), stored \in BOOLEAN :
           LET passed == outcome.ok /\ Passed(CompareTraces(Recorded[p], outcome.sail))
           IN  /\ stored \/ args.store
               /\ \/ args.store /\ stored /\ Stored(c, Artifact(c, passed, outcome))
                  \/ args.store /\ ~ stored /\ \E file \in {artifacts[c], Torn} : Stored(c, file)
                  \/ ~ args.store /\ UNCHANGED artifacts
               /\ results' = [d \in DOMAIN results \cup {c} |->
                                IF d = c THEN CleanPass(passed, stored) ELSE results[d]]
               /\ agreed' = IF outcome.ok /\ Agree(Recorded[p], outcome.sail)
                              THEN agreed ELSE agreed \ {c}
  /\ todo' = todo \ {FirstOf(todo)}
  /\ UNCHANGED <<corpus, overlooked, runs, args, phase, baselineFailures, reports, mutationsPassed,
                 status, edits>>

CasesDone ==
  /\ phase = "cases" /\ todo = {}
  /\ IF args.mutate
       THEN phase' = "mutations" /\ todo' = args.cases
       ELSE phase' = "exit" /\ UNCHANGED todo
  /\ UNCHANGED <<corpus, overlooked, runs, args, results, baselineFailures, reports, mutationsPassed,
                 status, artifacts, agreed, edits>>

-----------------------------------------------------------------------------
(* run_mutations.                                                          *)

MutationReport(c, kind, applied, field, step) ==
  [case |-> c, kind |-> kind, applied |-> applied, field |-> field, step |-> step]

\* evaluate: damage the CKB-VM trace, compare it with the Sail trace, and look
\* where the mismatch was located.
Evaluate(c, kind, sail) ==
  LET trace == Recorded[c]
      found == CompareTraces(Apply(kind, trace, Focus[c]), sail)
  IN  IF Applies(kind, trace, Focus[c]) THEN MutationReport(c, kind, TRUE, found.field, found.step)
      ELSE MutationReport(c, kind, FALSE, "none", NoStep)

\* The unmutated pair must pass first.
BugBaselineNotCompared(c, outcome) == outcome.ok
BaselinePasses(c, outcome) ==
  outcome.ok /\ Passed(CompareTraces(Recorded[c], outcome.sail))

\* run_pair runs both engines again, whatever run_case saw.
MutateCase ==
  /\ phase = "mutations" /\ todo # {}
  /\ LET c == FirstOf(todo)
     IN  \E outcome \in Outcomes(c) :
           /\ IF BaselinePasses(c, outcome)
                THEN /\ reports' = reports \cup {Evaluate(c, kind, outcome.sail) : kind \in MutationKind}
                     /\ UNCHANGED baselineFailures
                ELSE /\ baselineFailures' = baselineFailures \cup {c}
                     /\ UNCHANGED reports
           /\ agreed' = IF outcome.ok /\ Agree(Recorded[c], outcome.sail)
                          THEN agreed ELSE agreed \ {c}
  /\ todo' = todo \ {FirstOf(todo)}
  /\ UNCHANGED <<corpus, overlooked, runs, args, phase, results, mutationsPassed, status, artifacts, edits>>

Located(report) == report.applied /\ report.field = ExpectedField(report.kind)
Undetected == {report \in reports : report.applied /\ report.field = "none"}
Mislocated == {report \in reports : report.applied /\ report.field # "none" /\ ~ Located(report)}

\* Every mandatory category must have been located at least once.
BugSomeCategoryLocated == \E report \in reports : Located(report)
EveryCategoryLocated ==
  \A kind \in MutationKind : \E report \in reports : report.kind = kind /\ Located(report)

Summarize ==
  /\ phase = "mutations" /\ todo = {}
  /\ mutationsPassed' =
       IF /\ EveryCategoryLocated
          /\ baselineFailures = {} /\ Undetected = {} /\ Mislocated = {}
          /\ reports # {}
         THEN "passed" ELSE "failed"
  /\ phase' = "summary"
  /\ UNCHANGED <<corpus, overlooked, runs, args, todo, results, baselineFailures, reports, status,
                 artifacts, agreed, edits>>

\* write_mutation_summary, whose failure ends the program without a report.
StoreSummary ==
  /\ phase = "summary"
  /\ \/ /\ phase' = "exit"
        /\ UNCHANGED status
     \/ /\ args.store
        /\ phase' = "idle"
        /\ status' = 1
  /\ UNCHANGED <<corpus, overlooked, runs, args, todo, results, baselineFailures, reports,
                 mutationsPassed, artifacts, agreed, edits>>

\* failures = 0 and the mutations, if they were asked for, passed.
Exit ==
  /\ phase = "exit"
  /\ phase' = "idle"
  /\ status' = IF (\A c \in DOMAIN results : results[c]) /\ mutationsPassed # "failed" THEN 0 ELSE 1
  /\ UNCHANGED <<corpus, overlooked, runs, args, todo, results, baselineFailures, reports,
                 mutationsPassed, artifacts, agreed, edits>>

-----------------------------------------------------------------------------
\* The program is killed: what it had in memory is gone, and std::fs::write may
\* have truncated the next artifact.
Crash ==
  /\ phase # "idle"
  /\ phase' = "idle"
  /\ IF phase = "cases" /\ todo # {} /\ args.store
       THEN \E file \in {artifacts[FirstOf(todo)], Torn} : Stored(FirstOf(todo), file)
       ELSE UNCHANGED artifacts
  /\ todo' = {} /\ args' = NoArgs
  /\ Forget
  /\ UNCHANGED <<corpus, overlooked, runs, status, edits>>

\* Somebody edits the words of a stored program, between invocations or after.
EditArtifact(c) ==
  /\ phase = "idle" /\ edits < MaxEdits
  /\ edits' = edits + 1
  /\ artifacts[c].kind = "whole"
  /\ \E d \in Case \ {c} : Stored(c, [artifacts[c] EXCEPT !.words = d])
  /\ UNCHANGED <<corpus, overlooked, runs, args, phase, todo, results, baselineFailures, reports,
                 mutationsPassed, status, agreed>>

Next ==
  \/ Invoke \/ InvokeFails \/ RunCase \/ CasesDone \/ MutateCase \/ Summarize \/ StoreSummary \/ Exit
  \/ Crash \/ \E c \in Case : EditArtifact(c)

Spec == Init /\ [][Next]_vars

-----------------------------------------------------------------------------
(* Properties.                                                             *)

\* The artifact of a case was written by this invocation, about its program.
WrittenNow(file, c) ==
  /\ file.kind = "whole" /\ file.by = runs /\ file.passed
  /\ file.words = args.program[c] /\ file.instructions = args.program[c]

\* Exit status 0 with an artifact directory leaves the evidence of this very
\* run for every case it selected: a torn or an older artifact is never taken
\* for it ("A run whose evidence could not be stored is not a clean pass").
GreenRunHasEvidence ==
  [][status' = 0 /\ status # 0 /\ args.store =>
       \A c \in args.cases : WrittenNow(artifacts[c], c)]_vars

\* With a sound comparison, exit status 0 means that the engines agreed on
\* every selected case each time it was run, also when the mutation matrix ran
\* them again.
GreenRunAgreed == status = 0 /\ overlooked = "none" => args.cases \subseteq agreed

\* "A differential that only ever reports PASS is indistinguishable from one
\* that cannot fail": a comparison that overlooks what a mandatory mutation
\* damages never passes the matrix, whatever the corpus and the engines do.
PassingMatrixSees ==
  mutationsPassed = "passed" => \A kind \in MutationKind : overlooked # ExpectedField(kind)

\* A sound comparison notices every mutation that applies, at the field and at
\* the step that was damaged, so that the matrix never fails for its own sake.
SoundComparisonLocates ==
  overlooked = "none" => \A report \in reports : report.applied =>
    /\ Located(report)
    /\ report.step = DamagedStep(report.kind, Recorded[report.case], Focus[report.case])

\* The artifact of a case stays about its program: an edited one is refused by
\* a replay "instead of quietly running a different program", which would
\* store the result under the name of the case.
ArtifactKeepsItsProgram ==
  \A c \in Case : artifacts[c].kind = "whole" => artifacts[c].instructions = c
=============================================================================
