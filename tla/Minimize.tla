------------------------------ MODULE Minimize ------------------------------
(***************************************************************************)
(* scripts/minimize_mismatch.py: find a shortest subsequence of a recorded *)
(* program that still shows the recorded mismatch, by replaying every      *)
(* candidate on both engines in the order of length, and certify it in     *)
(* report.json.  Trials fail, the budget runs out, the operator interrupts *)
(* or kills the run, the disk fills, and the runner, the recorded artifact *)
(* and the inputs of the trials may be edited meanwhile.                   *)
(***************************************************************************)
EXTENDS Integers, Sequences, FiniteSets, SequencesExt

CONSTANTS
  Words,           \* the recorded program
  Behaviours,      \* what the builds of the runner may do
  Budgets,         \* what --max-evaluations may be
  MaxEdits         \* bound: edits by anybody else during the run

ASSUME WordsAssumption == Words \in Seq(STRING) /\ Words # << >>
ASSUME BehavioursAssumption == \A b \in Behaviours : DOMAIN b = 0..MaxEdits
ASSUME BudgetsAssumption == Budgets \subseteq Nat \ {0, 1}
ASSUME EditsAssumption == MaxEdits \in Nat

VARIABLES
  behaviour,  \* behaviour[v]: the programs on which build v of the runner shows the mismatch
  maxEvaluations, \* the budget of this run
  files,      \* the content of each file of the environment: how often it was edited
  pc,         \* the place in run and in ReplayOracle.__call__
  read,       \* the content of the original artifact that was parsed
  goal,       \* "reproduce", "search", "confirm": which call of the oracle in run
  tried,      \* candidates that shortest_subsequence has rejected
  candidate,  \* the indices under evaluation
  input,      \* the indices whose words are in input.json of the present trial
  replayed,   \* what the replay showed: the indices it ran, and the outcome
  report,     \* the report in memory
  disk,       \* report.json: Missing, Torn or a report
  returned,   \* the exit status; NoStatus while the run goes on or if it is killed
  interrupted \* history: the operator interrupted the run

vars == <<behaviour, maxEvaluations, files, pc, read, goal, tried, candidate, input, replayed, report, disk,
          returned, interrupted>>
given == <<behaviour, maxEvaluations>>
search == <<goal, tried, candidate>>

NoStatus == -1
Missing == [status |-> "missing", minimum_proved |-> FALSE]
Torn == [status |-> "torn", minimum_proved |-> FALSE]

\* A candidate is a set of positions, so that duplicate words stay apart.
Whole == DOMAIN Words
Selections == (SUBSET Whole) \ {{}}
Candidates == Selections \ {Whole}
Program ==
  [c \in Selections |-> LET order == SetToSortSeq(c, <) IN [k \in DOMAIN order |-> Words[order[k]]]]

File == {"runner", "original", "script"}
Edits == files["runner"] + files["original"] + files["script"]

\* What a build of the runner does with a program depends on nothing else.
Init ==
  /\ behaviour \in Behaviours
  /\ maxEvaluations \in Budgets
  /\ files = [f \in File |-> 0]
  /\ pc = "hash"
  /\ read = 0
  /\ goal = "reproduce"
  /\ tried = {}
  /\ candidate = Whole
  /\ input = Whole
  /\ replayed = [indices |-> Whole, mismatch |-> FALSE]
  /\ report = [status |-> "running", minimum_proved |-> FALSE, source |-> 0, script |-> 0,
               runner |-> 0, trials |-> << >>, minimal |-> {}]
  /\ disk = Missing
  /\ returned = NoStatus
  /\ interrupted = FALSE

-----------------------------------------------------------------------------
(* The report.                                                             *)

\* write_text succeeds, or fails and leaves the former file or a torn one.
Saved == disk' = report'
SaveFails == disk' \in {disk, Torn}

\* The except branch of run, and the way to its finally.
Failed(status) ==
  /\ pc' = "close"
  /\ returned' = IF status = "incomplete" THEN 2 ELSE 1

Raise(status) ==
  /\ Failed(status)
  /\ report' = [report EXCEPT !.status = status]

Leave(status) ==
  /\ pc' = "done"
  /\ returned' = status

\* sha(original) comes before the parsing of what was hashed.
Hash ==
  /\ pc = "hash"
  /\ report' = [report EXCEPT !.source = files["original"]]
  /\ pc' = "read"
  /\ UNCHANGED <<given, files, read, search, input, replayed, disk, returned, interrupted>>

\* A malformed or passing artifact, and an output directory that exists, end
\* the run without a report; so does a failure to save the first one.
Read ==
  /\ pc = "read"
  /\ read' = files["original"]
  /\ report' = [report EXCEPT !.script = files["script"]]
  /\ \/ Saved /\ pc' = "identify" /\ UNCHANGED returned
     \/ SaveFails /\ Leave(1)
  /\ UNCHANGED <<given, files, search, input, replayed, interrupted>>

\* ReplayOracle.__init__: the hashes of both binaries and of the configuration.
Identify ==
  /\ pc = "identify"
  /\ \/ /\ report' = [report EXCEPT !.runner = files["runner"]]
        /\ pc' = "trial"
        /\ UNCHANGED returned
     \/ Raise("failed")
  /\ UNCHANGED <<given, files, read, search, input, replayed, disk, interrupted>>

-----------------------------------------------------------------------------
(* One trial: ReplayOracle.__call__.                                       *)

BugIdentityUnchecked == TRUE
SameRunner == files["runner"] = report.runner

BudgetLeft == Len(report.trials) < maxEvaluations

\* The row is on disk before the replay starts.
BeginTrial ==
  /\ pc = "trial"
  /\ input' = candidate
  /\ \/ /\ ~ BudgetLeft
        /\ Raise("incomplete") /\ UNCHANGED disk
     \/ /\ BudgetLeft /\ ~ SameRunner
        /\ Raise("failed") /\ UNCHANGED disk
     \/ /\ BudgetLeft /\ SameRunner
        /\ LET row == [indices |-> candidate, status |-> "running", mismatch |-> FALSE]
               started == [report EXCEPT !.trials = Append(@, row)]
           IN  \/ report' = started /\ Saved /\ pc' = "replay" /\ UNCHANGED returned
               \/ report' = [started EXCEPT !.status = "failed"] /\ SaveFails /\ Failed("failed")
  /\ UNCHANGED <<given, files, read, search, replayed, interrupted>>

EndRow(status, mismatch) ==
  LET last == Len(report.trials)
      row == [indices |-> report.trials[last].indices, status |-> status, mismatch |-> mismatch]
  IN  [report EXCEPT !.trials = [report.trials EXCEPT ![last] = row]]

\* The row is saved as failed, then run saves the report as failed once more.
FailTrial ==
  /\ report' = [EndRow("failed", FALSE) EXCEPT !.status = "failed"]
  /\ disk' \in {EndRow("failed", FALSE), disk, Torn}
  /\ Failed("failed")

\* The child runs what lies under the paths now; or it times out, ends
\* abnormally, or leaves reports that disagree or name another environment.
Replay ==
  /\ pc = "replay"
  /\ \/ /\ replayed' = [indices |-> input, mismatch |-> Program[input] \in behaviour[files["runner"]]]
        /\ pc' = "judge"
        /\ UNCHANGED <<report, disk, returned>>
     \/ FailTrial /\ UNCHANGED replayed
  /\ UNCHANGED <<given, files, read, search, input, interrupted>>

\* check_trial compares the words that were run with those that were asked
\* for; the identity and the input file are checked once more.
AskedProgram == Program[replayed.indices] = Program[candidate] /\ input = candidate

Judge ==
  /\ pc = "judge"
  /\ IF AskedProgram /\ SameRunner
       THEN LET observed == EndRow("observed", replayed.mismatch)
            IN  \/ report' = observed /\ Saved /\ pc' = "decide" /\ UNCHANGED returned
                \/ report' = [observed EXCEPT !.status = "failed"] /\ SaveFails /\ Failed("failed")
       ELSE FailTrial
  /\ UNCHANGED <<given, files, read, search, input, replayed, interrupted>>

-----------------------------------------------------------------------------
(* The search: shortest_subsequence between two replays of the ends.       *)

\* range over the sizes, then itertools.combinations of the positions.
Before(c, d) ==
  \/ Cardinality(c) < Cardinality(d)
  \/ /\ Cardinality(c) = Cardinality(d) /\ c # d
     /\ \E i \in c \ d : \A j \in (c \cup d) \ (c \cap d) : i <= j

Untried(rejected) == Candidates \ rejected
FirstOf(S) == CHOOSE c \in S : \A d \in S \ {c} : Before(c, d)

\* The next candidate, or the original program when none reproduced.
SearchAfter(rejected) ==
  /\ tried' = rejected
  /\ pc' = "trial"
  /\ IF Untried(rejected) = {}
       THEN goal' = "confirm" /\ candidate' = Whole
       ELSE goal' = "search" /\ candidate' = FirstOf(Untried(rejected))
  /\ UNCHANGED <<report, returned>>

\* run and shortest_subsequence go on with the signature the oracle returned.
Decide ==
  /\ pc = "decide"
  /\ \/ /\ goal = "reproduce" /\ replayed.mismatch
        /\ SearchAfter({})
     \/ /\ goal = "search" /\ ~ replayed.mismatch
        /\ SearchAfter(tried \cup {candidate})
     \/ /\ goal = "search" /\ replayed.mismatch
        /\ goal' = "confirm" /\ pc' = "trial"
        /\ UNCHANGED <<tried, candidate, report, returned>>
     \/ /\ goal = "confirm" /\ replayed.mismatch
        /\ pc' = "certify"
        /\ UNCHANGED <<search, report, returned>>
     \/ /\ goal \in {"reproduce", "confirm"} /\ ~ replayed.mismatch
        /\ Raise("failed")
        /\ UNCHANGED <<search>>
  /\ UNCHANGED <<given, files, read, input, replayed, disk, interrupted>>

BugSourceUnchecked == files["script"] = report.script
SourcesUnchanged == files["original"] = report.source /\ files["script"] = report.script

Certify ==
  /\ pc = "certify"
  /\ IF SourcesUnchanged
       THEN /\ report' = [report EXCEPT !.status = "minimized", !.minimum_proved = TRUE,
                                        !.minimal = candidate]
            /\ pc' = "certified"
            /\ UNCHANGED returned
       ELSE Raise("failed")
  /\ UNCHANGED <<given, files, read, search, input, replayed, disk, interrupted>>

Succeed ==
  /\ pc = "certified"
  /\ pc' = "close"
  /\ returned' = 0
  /\ UNCHANGED <<given, files, read, search, input, replayed, report, disk, interrupted>>

\* The finally of run.  An exception from save or print ends the program with 1.
BugExitBeforeSave == SaveFails /\ Leave(returned)
CloseFails == SaveFails /\ Leave(1)

Close ==
  /\ pc = "close"
  /\ UNCHANGED report
  /\ \/ Saved /\ Leave(returned)
     \/ Saved /\ Leave(1)
     \/ CloseFails
  /\ UNCHANGED <<given, files, read, search, input, replayed, interrupted>>

-----------------------------------------------------------------------------
\* A KeyboardInterrupt in the try of run; during a trial it fails the trial.
Interrupt ==
  /\ pc \in {"identify", "trial", "replay", "judge", "decide", "certify", "certified"}
  /\ interrupted' = TRUE
  /\ IF pc \in {"replay", "judge"} THEN FailTrial ELSE Raise("failed") /\ UNCHANGED disk
  /\ UNCHANGED <<given, files, read, search, input, replayed>>

\* The process is killed, possibly while it writes the report.
Crash ==
  /\ pc # "done"
  /\ pc' = "done"
  /\ returned' = NoStatus
  /\ disk' \in {disk} \cup (IF pc \in {"trial", "replay", "judge", "close"} THEN {Torn} ELSE {})
  /\ UNCHANGED <<given, files, read, search, input, replayed, report, interrupted>>

\* A rebuild, an edit of the evidence or of the script.  No edit restores a
\* former content, so that two equal hashes enclose an unchanged file.
EditFile(f) ==
  /\ pc # "done" /\ Edits < MaxEdits
  /\ files' = [files EXCEPT ![f] = @ + 1]
  /\ UNCHANGED <<given, pc, read, search, input, replayed, report, disk, returned,
                 interrupted>>

\* Somebody overwrites the input of the running trial; this edit may be undone.
EditInput ==
  /\ pc \in {"replay", "judge"}
  /\ input' \in Selections \ {input}
  /\ UNCHANGED <<given, files, pc, read, search, replayed, report, disk, returned,
                 interrupted>>

Next ==
  \/ Hash \/ Read \/ Identify \/ BeginTrial \/ Replay \/ Judge \/ Decide \/ Certify \/ Succeed
  \/ Close \/ Interrupt \/ Crash \/ EditInput \/ \E f \in File : EditFile(f)

Spec == Init /\ [][Next]_vars

-----------------------------------------------------------------------------
(* Properties.                                                             *)

Certified == disk.minimum_proved

\* A report that claims a proved minimum tells the truth about the runner it
\* names: the minimal program shows the mismatch and no shorter subsequence
\* does, whatever failed, was edited or was interrupted on the way ("execution
\* errors and nonreproducibility never certify minimality").
CertificateIsMinimal ==
  Certified =>
    LET shows == behaviour[disk.runner]
    IN  /\ Program[disk.minimal] \in shows
        /\ \A c \in Selections : Cardinality(c) < Cardinality(disk.minimal) => Program[c] \notin shows

\* The words of a certificate were read from the artifact whose hash it names,
\* although the file was hashed first and parsed later.
CertificateIsAboutItsSource == Certified => disk.source = read

\* The exit status, the report and the certificate tell one story.  Status 0
\* comes with the certificate on disk: a report that could not be written is not
\* a success.  A run that ended otherwise claims no minimum, and one that ran
\* out of its budget has used it up.  An interrupt between the certificate and
\* the return is the exception: it leaves status failed beside a proved minimum.
OutcomesAgree ==
  /\ returned = 0 /\ pc = "done" => Certified /\ disk.status = "minimized"
  /\ disk.status \notin {"minimized", "missing", "torn"} => ~ Certified \/ interrupted
  /\ disk.status = "incomplete" => ~ Certified /\ Len(disk.trials) = maxEvaluations
=============================================================================
