----------------------------- MODULE ProofGate -----------------------------
(***************************************************************************)
(* The proof gate (scripts/check_proof.py): one run after another under    *)
(* the lock of artifacts/proof-check, each a sequence of stages whose      *)
(* logs, audit and report lie in that one directory.  It runs the          *)
(* generator of the Rust model (RustPair) and the clean public build       *)
(* (public_decoder_gate.py, decoder_public_clean.py) as stages, and        *)
(* compares the checkout, the generated pair and the policy before and     *)
(* after them.  The checkout is edited at any time, stages fail or hang,   *)
(* and a gate may be killed while its stage, in a session of its own, runs *)
(* on.                                                                     *)
(***************************************************************************)
EXTENDS RustPair, Sequences

CONSTANTS
  Stages,    \* the names of the stages, in order
  MaxEdits,  \* bound: edits of the checkout and of the policy
  MaxKills   \* bound: gates killed

StageNames == {Stages[k] : k \in DOMAIN Stages}
ASSUME StagesAssumption ==
  /\ Stages \in Seq(STRING)
  /\ {"generate-rust", "generate-sail", "theorem-audit", "public-decoder"} \subseteq StageNames
  /\ \A j, k \in DOMAIN Stages : Stages[j] = Stages[k] => j = k
  /\ Stages[Len(Stages)] = "public-decoder" /\ None \notin StageNames
ASSUME BoundAssumption == MaxEdits \in Nat /\ MaxKills \in Nat

VARIABLES
  lock,    \* the gate that holds artifacts/proof-check/.lock, or None
  gate,    \* gate[g]: the place of gate g and what it remembers
  child,   \* child[g]: the stage whose process group is alive, or None
  clean,   \* clean[g]: the clean public build of g
  logs,    \* logs[s]: the gates whose stage wrote to the log of s that is on disk
  audit,   \* the gate that wrote lean-audit.json, or None
  report,  \* report.json
  edits, kills

gateVars == <<lock, gate, child, clean, logs, audit, report>>
vars == <<inputVars, pairVars, gateVars, edits, kills>>

NewGate == [pc |-> "idle", policy |-> None, sha |-> None, stage |-> 0, generated |-> NoPair, public |-> None]
NewClean == [pc |-> "idle", policy |-> None, sha |-> None, generated |-> NoPair, sources |-> None, model |-> None]
NoReport == [run |-> None, status |-> "none", policy |-> None, sources |-> None, generated |-> NoPair, clean |-> NewClean]
Ended == {"refused", "passed", "failed", "killed"}

Init ==
  /\ PairInit
  /\ lock = None
  /\ gate = [g \in Run |-> NewGate]
  /\ child = [g \in Run |-> None]
  /\ clean = [g \in Run |-> NewClean]
  /\ logs = [s \in StageNames |-> {}]
  /\ audit = None
  /\ report = NoReport
  /\ edits = 0 /\ kills = 0

-----------------------------------------------------------------------------
(* Helpers                                                                 *)

\* The model, its provenance and the LLBC are of one extraction, made under
\* the policy that is there now.
BugLlbcUnchecked == pair["model"] # None /\ CheckProvenance(pair["model"])
GeneratedEvidence ==
  /\ pair["model"] # None
  /\ CheckProvenance(pair["model"])
  /\ pair["llbc"] = pair["model"]

\* What the public policy and the public checker sources, inputs themselves, say.
CheckPolicy == input["sources"]

At(g, place) == gate[g].pc = place
Step(g, next) == gate' = [gate EXCEPT ![g].pc = next]
Here(g) == Stages[gate[g].stage]

\* A process that is gone remembers nothing.
Gone(g, how) == gate' = [gate EXCEPT ![g] = [NewGate EXCEPT !.pc = how]]

\* The exception handler and the finally clause: the report says so, the lock goes.
Fail(g) ==
  /\ Gone(g, "failed")
  /\ report' = [report EXCEPT !.status = "failed"]
  /\ lock' = None

\* What a check of the gate does to it: go on, or fail.
Require(g, condition, next) ==
  IF condition THEN Step(g, next) /\ UNCHANGED <<lock, report>> ELSE Fail(g)

checkout == <<inputVars, pairVars>>
bounds == <<edits, kills>>

-----------------------------------------------------------------------------
(* main and the head of execute                                            *)

\* The lock is tried once; then the report of the run before is replaced.
LockFree(g) == lock = None
BugReportKept(g) == UNCHANGED report
ReportRunning(g) == report' = [NoReport EXCEPT !.run = g, !.status = "running"]

Start(g) ==
  /\ At(g, "idle")
  /\ IF LockFree(g)
     THEN lock' = g /\ Step(g, "policy") /\ ReportRunning(g)
     ELSE Step(g, "refused") /\ UNCHANGED <<lock, report>>
  /\ UNCHANGED <<checkout, child, clean, logs, audit, bounds>>

\* The policy is read, and read again for its hash.
ReadPolicy(g) ==
  /\ At(g, "policy")
  /\ gate' = [gate EXCEPT ![g].pc = "hash", ![g].policy = policy]
  /\ UNCHANGED <<checkout, lock, report, child, clean, logs, audit, bounds>>

HashPolicy(g) ==
  /\ At(g, "hash")
  /\ gate' = [gate EXCEPT ![g].pc = "evidence", ![g].sha = policy]
  /\ report' = [report EXCEPT !.policy = policy]
  /\ UNCHANGED <<checkout, lock, child, clean, logs, audit, bounds>>

Evidence(g) ==
  /\ At(g, "evidence")
  /\ IF ToolsAndEnvironment(gate[g].policy) /\ SourceEvidence(gate[g].policy)
     THEN /\ gate' = [gate EXCEPT ![g].pc = "stage", ![g].stage = 1]
          /\ report' = [report EXCEPT !.sources = input["sources"]] /\ UNCHANGED lock
     ELSE Fail(g)
  /\ UNCHANGED <<checkout, child, clean, logs, audit, bounds>>

-----------------------------------------------------------------------------
(* run_stage                                                               *)

\* The log is truncated and the stage started in a session of its own.  Before
\* the public stage the public policy, an input itself, is hashed.
OpenStage(g) ==
  /\ At(g, "stage")
  /\ gate' = [gate EXCEPT ![g].pc = "wait", ![g].public = IF Here(g) = "public-decoder" THEN CheckPolicy ELSE @]
  /\ child' = [child EXCEPT ![g] = Here(g)]
  /\ logs' = [logs EXCEPT ![Here(g)] = {g}]
  /\ gen' = IF Here(g) = "generate-rust" THEN [gen EXCEPT ![g].pc = "begin"] ELSE gen
  /\ clean' = IF Here(g) = "public-decoder" THEN [clean EXCEPT ![g].pc = "begin"] ELSE clean
  /\ UNCHANGED <<inputVars, pair, extraction, genLock, lock, audit, report, bounds>>

\* A stage ends well: what it was to do is done.
Succeeds(g) ==
  CASE child[g] = "generate-rust" -> gen[g].pc = "installed"
    [] child[g] = "public-decoder" -> clean[g].pc = "passed"
    [] OTHER -> TRUE
\* A stage may fail at any time; the generator only once it has put things right.
MayEnd(g) ==
  CASE child[g] = "generate-rust" -> gen[g].pc \in GenEnd
    [] OTHER -> TRUE

\* What comes after the log of a stage has been read.
AfterLog(g) ==
  CASE Here(g) = "generate-sail" -> "generated"
    [] Here(g) = "theorem-audit" -> "audit"
    [] Here(g) = "public-decoder" -> "validate"
    [] OTHER -> "stage"

StagePasses(g) ==
  /\ At(g, "wait") /\ child[g] = Here(g) /\ MayEnd(g) /\ Succeeds(g)
  /\ child' = [child EXCEPT ![g] = None]
  /\ gate' = [gate EXCEPT ![g].pc = AfterLog(g), ![g].stage = IF AfterLog(g) = "stage" THEN @ + 1 ELSE @]
  /\ UNCHANGED <<checkout, lock, clean, logs, audit, report, bounds>>

StageFails(g) ==
  /\ At(g, "wait") /\ child[g] = Here(g) /\ MayEnd(g)
  /\ child' = [child EXCEPT ![g] = None]
  /\ clean' = [clean EXCEPT ![g] = NewClean]
  /\ Fail(g)
  /\ UNCHANGED <<checkout, logs, audit, bounds>>

\* The wait runs out: the process group is killed, wherever its work stands.
KillGroup(g) ==
  /\ child' = [child EXCEPT ![g] = None]
  /\ clean' = [clean EXCEPT ![g] = NewClean]
  /\ IF GenAlive(g) THEN GenEnds(g, "killed") ELSE UNCHANGED <<gen, genLock>>

BugNoTimeout(g) == FALSE
TimesOut(g) == At(g, "wait")
Timeout(g) ==
  /\ TimesOut(g)
  /\ KillGroup(g)
  /\ Fail(g)
  /\ UNCHANGED <<inputVars, pair, extraction, logs, audit, bounds>>

-----------------------------------------------------------------------------
(* The stages                                                              *)

\* The generator, if its process is alive.
Generate(g) ==
  /\ child[g] = "generate-rust" /\ GenStep(g)
  /\ UNCHANGED <<gateVars, bounds>>

\* Output of a stage: of a killed gate too, to the file another may have truncated.
Write(g) ==
  /\ child[g] # None
  /\ logs' = [logs EXCEPT ![child[g]] = @ \cup {g}]
  /\ UNCHANGED <<checkout, lock, gate, child, clean, audit, report, bounds>>

\* A stage whose gate is gone ends unobserved.
OrphanEnds(g) ==
  /\ At(g, "killed") /\ child[g] # None /\ MayEnd(g)
  /\ child' = [child EXCEPT ![g] = None] /\ clean' = [clean EXCEPT ![g] = NewClean]
  /\ UNCHANGED <<checkout, lock, gate, logs, audit, report, bounds>>

Cleaning(g, here) == child[g] = "public-decoder" /\ clean[g].pc = here

\* build: the policy is read and the checkout held against it.
CleanBegin(g) ==
  /\ Cleaning(g, "begin")
  /\ ToolsAndEnvironment(policy) /\ SourceEvidence(policy) /\ GeneratedEvidence
  /\ clean' = [clean EXCEPT ![g].pc = "copy", ![g].policy = policy, ![g].generated = pair]
  /\ UNCHANGED <<checkout, lock, gate, child, logs, audit, report, bounds>>

\* prepare: the sources and the models are copied to an empty tree, which alone
\* is built and audited; the hash of the policy is taken after that.  A model
\* that is not there, between two renames, cannot be copied.
CleanCopy(g) ==
  /\ Cleaning(g, "copy") /\ pair["model"] # None
  /\ clean' = [clean EXCEPT ![g].pc = "recheck", ![g].sources = input["sources"],
                            ![g].model = pair["model"], ![g].sha = policy]
  /\ UNCHANGED <<checkout, lock, gate, child, logs, audit, report, bounds>>

\* finish: the checkout is what it was before the build ...
CleanRecheck(g) ==
  /\ Cleaning(g, "recheck")
  /\ SourceEvidence(clean[g].policy) /\ GeneratedEvidence
  /\ pair = clean[g].generated /\ policy = clean[g].sha
  /\ clean' = [clean EXCEPT ![g].pc = "compare"]
  /\ UNCHANGED <<checkout, lock, gate, child, logs, audit, report, bounds>>

\* ... and what was built is what the checkout holds.
BugNoCompare(g) == TRUE
SameCopy(g) == clean[g].sources = input["sources"] /\ clean[g].model = pair["model"]
CleanCompare(g) ==
  /\ Cleaning(g, "compare")
  /\ SameCopy(g)
  /\ clean' = [clean EXCEPT ![g].pc = "passed"]
  /\ UNCHANGED <<checkout, lock, gate, child, logs, audit, report, bounds>>

-----------------------------------------------------------------------------
(* The rest of execute                                                     *)

Generated(g) ==
  /\ At(g, "generated")
  /\ IF GeneratedEvidence
     THEN /\ gate' = [gate EXCEPT ![g].pc = "stage", ![g].stage = @ + 1, ![g].generated = pair]
          /\ report' = [report EXCEPT !.generated = pair] /\ UNCHANGED lock
     ELSE Fail(g)
  /\ UNCHANGED <<checkout, child, clean, logs, audit, bounds>>

\* parse_audit, write_json, check_audit: the file is replaced before it is judged.
Audit(g) ==
  /\ At(g, "audit")
  /\ audit' = g
  /\ \/ gate' = [gate EXCEPT ![g].pc = "stage", ![g].stage = @ + 1] /\ UNCHANGED <<lock, report>>
     \/ Fail(g)
  /\ UNCHANGED <<checkout, child, clean, logs, bounds>>

CheckShape(g) == clean[g].pc = "passed" /\ clean[g].sha = policy
SamePublicPolicy(g) == CheckPolicy = gate[g].public
SameCleanPolicy(g) == clean[g].sha = gate[g].sha

\* acceptance.validate, the public policy once more, and the clean policy.
Validate(g) ==
  /\ At(g, "validate")
  /\ IF CheckShape(g) /\ SamePublicPolicy(g) /\ SameCleanPolicy(g)
     THEN Step(g, "sources") /\ report' = [report EXCEPT !.clean = clean[g]] /\ UNCHANGED lock
     ELSE Fail(g)
  /\ clean' = [clean EXCEPT ![g] = NewClean]
  /\ UNCHANGED <<checkout, child, logs, audit, bounds>>

\* The three comparisons with the start of the run; the last one passes it.
RecheckSources(g) ==
  /\ At(g, "sources")
  /\ Require(g, SourceEvidence(gate[g].policy), "models")
  /\ UNCHANGED <<checkout, child, clean, logs, audit, bounds>>

RecheckGenerated(g) ==
  /\ At(g, "models")
  /\ Require(g, GeneratedEvidence /\ pair = gate[g].generated, "last")
  /\ UNCHANGED <<checkout, child, clean, logs, audit, bounds>>

SamePolicy(g) == policy = gate[g].sha
RecheckPolicy(g) ==
  /\ At(g, "last")
  /\ IF SamePolicy(g)
     THEN Gone(g, "passed") /\ report' = [report EXCEPT !.status = "passed"] /\ lock' = None
     ELSE Fail(g)
  /\ UNCHANGED <<checkout, child, clean, logs, audit, bounds>>

-----------------------------------------------------------------------------
(* The world                                                               *)

\* The gate's process dies: no handler runs, its stage does.
Kill(g) ==
  /\ gate[g].pc \notin Ended \cup {"idle"} /\ kills < MaxKills
  /\ Gone(g, "killed") /\ lock' = None
  /\ kills' = kills + 1
  /\ UNCHANGED <<checkout, child, clean, logs, audit, report, edits>>

Edit ==
  /\ edits < MaxEdits /\ edits' = edits + 1
  /\ \/ \E i \in Input, v \in Version : v # input[i] /\ input' = [input EXCEPT ![i] = v] /\ UNCHANGED policy
     \/ \E v \in Version : v # policy /\ policy' = v /\ UNCHANGED input
  /\ UNCHANGED <<pairVars, gateVars, kills>>

GateStep(g) ==
  \/ Start(g) \/ ReadPolicy(g) \/ HashPolicy(g) \/ Evidence(g)
  \/ OpenStage(g) \/ Timeout(g)
  \/ Generated(g) \/ Audit(g) \/ Validate(g)
  \/ RecheckSources(g) \/ RecheckGenerated(g) \/ RecheckPolicy(g)

StageStep(g) ==
  \/ Generate(g) \/ Write(g) \/ StagePasses(g) \/ StageFails(g) \/ OrphanEnds(g)
  \/ CleanBegin(g) \/ CleanCopy(g) \/ CleanRecheck(g) \/ CleanCompare(g)

Next == Edit \/ \E g \in Run : GateStep(g) \/ StageStep(g) \/ Kill(g)

\* The gate's own statements are executed, and its clock runs; a stage may hang,
\* and edits and kills need not happen.
Fairness == \A g \in Run : WF_vars(GateStep(g))
Spec == Init /\ [][Next]_vars /\ Fairness

-----------------------------------------------------------------------------
(* Properties                                                              *)

\* "Avoid two runs publishing a mixture of evidence in this fixed directory":
\* a report that says passed lies beside the audit of its own run, and beside
\* logs that its own run opened; nobody else wrote to them but a stage that a
\* killed gate left running.
EvidenceIsOneRun ==
  report.status = "passed" =>
    /\ audit = report.run
    /\ \A s \in StageNames : report.run \in logs[s] /\ \A g \in logs[s] \ {report.run} : gate[g].pc = "killed"

\* A change of the checkout or of the policy during the run, even one that was
\* undone before the comparisons at the end, is not in what was built and
\* audited: the clean tree held sources the report's policy approves.  (It takes
\* two changes undone in time, four edits, to get past both checks of finish.)
PassedBuildIsReviewed ==
  report.status = "passed" /\ edits <= 3 =>
    report.sources = report.policy /\ report.clean.sources = report.policy /\ report.clean.sha = report.policy

\* The pair that a passed report names, and the pair the clean tree was built
\* from, are each one extraction, made under the report's policy: nothing that
\* falls between the renames of an installation gets past the gate.
PassedPairIsOneExtraction ==
  report.status = "passed" =>
    /\ \A p \in {report.generated, report.clean.generated} :
         p["model"] # None /\ p["llbc"] = p["model"] /\ (edits <= 3 => extraction[p["model"]].policy = report.policy)
    /\ report.clean.model = report.clean.generated["model"]

\* An installation that failed and said so left both names as it found them.
FailedInstallRestoresPair == [][\A g \in Run : RestoredPairIsFoundPair(g)]_vars

\* Every run of the gate gives an answer unless it is killed: no stage can hold
\* it for ever, and no lock is waited for.
GateAnswers == \A g \in Run : gate[g].pc # "idle" ~> gate[g].pc \in Ended
=============================================================================
