# A TLA+ model of ckb-vm-sail-verify

This directory holds specifications, model-checking configurations and
machine-checked proofs about the programs of this repository: the differential
that runs the same RISC-V program on the CKB-VM interpreter and on the Sail
model, and the scripts that build, install and audit the artefacts the formal
proofs rest on. Paths below are relative to the repository.

## 1. The system

| component | code | state it keeps | operations | talks to |
|---|---|---|---|---|
| RVFI-DII session | `crates/sail-runner/src/dii.rs` | port, child process, TCP stream, STARTUP mutex, collected packets | start, connect, drive, shutdown, Drop | Sail emulator (TCP, pipes, exit status); sibling sessions (mutex, ports) |
| core | `crates/core/src` | shadow register file | normalize, observe, compare, validate | every runner |
| CKB-VM injection runner | `crates/ckb-runner/src/injection.rs` | machine, decoder cache, events | run_program | CKB-VM |
| ELF runners | `crates/ckb-runner/src/lib.rs`, `crates/sail-runner/src/lib.rs` | machine, parsed records | run_elf, parse_rvfi_text | CKB-VM, Sail emulator (stdout) |
| differential case | `crates/diff-test/src/run.rs`, `main.rs` | case report, exit status | run_pair, run_case, classify | both runners, artefact store |
| mutation matrix | `crates/diff-test/src/mutation.rs` | mutated traces, outcomes | apply, evaluate, summarize | core comparison |
| corpus, encoding, artefacts | `crates/diff-test/src/{corpus,encode,artifact}.rs` | programs, JSON | build, encode, write, load | differential case |
| Sail model transaction | `scripts/sail_model_transaction.py` | lock, directories, transaction.json | run_backend, replace_model | cmake and sail, the published proof model |
| proof gate | `scripts/check_proof.py`, `public_decoder_gate.py`, `decoder_public_clean.py` | lock, logs, audit, report, evidence before and after | execute, run_stage, build, prepare, finish | the generators, lake, the policies |
| rebuilt generator | `scripts/generate_rebuilt_rust.py`, `rebuilt_production_rust.py` | lock, model and LLBC pair, backups, transaction.json | run, install | charon and aeneas, the checkout |
| ephemeral VM, clean room | `scripts/ephemeral_vm.py`, `clean_room.py` | guest, secrets, state file, stage rows | launch, destroy, stage, network_command | qemu, git, make |
| release package | `scripts/release_package.py`, `source_capsule.py`, `source_snapshot.py` | package directory, capsule, published release | build, record, restore | git, gh, ssh-keygen, the owner |
| evidence and audit | `scripts/audit_release.py`, `runtime_evidence.py`, `ci_evidence.py`, `evidence_bundle.py` | slot reports, bundle, verdict | validate, pack, collect, aggregate | evidence files, gh |
| fixed and decoder inputs | `scripts/fixed_inputs.py`, `decoder_*.py` | staged roots, payload, receipt | stage, install_staged_roots, install, stage_cmake | archives, the release restoration |
| minimizer | `scripts/minimize_mismatch.py` | budget, trials | shortest_subsequence, replay | both runners |
| source identity | `scripts/ckb_source_baseline.py`, `source_*.py` | checkout, inventories | verify, apply, capsule | git |
| proofs | `proof/lean`, `proof/rocq` | - | - | generated models |

### Where it is hard

* **Concurrency.** Differential tests run many sessions in parallel threads
  and processes. A loopback port is reserved by binding and releasing it, so
  somebody else may bind it before the emulator does. A stream may lead to an
  emulator that belongs to another session.
* **Observation.** CKB-VM shows register *state*, RVFI shows register *writes*;
  a shadow file and normalization must remove exactly that difference, and
  nothing else. A pass must not come from a common prefix, an empty trace, a
  failed engine or a lost artefact.
* **Failure.** Every start, send, receive and rename may fail; each failure has
  a child to reap, a guard to release or a directory to put back.
* **Crashes and interrupts.** The installer of the proof model moves two
  directories; it may be killed between any two steps and run again.
* **Stale checks.** The configuration may be edited while a generator that
  takes minutes reads it; a gate, a build, a restoration and an audit read the
  same file many times, compare it before and after, and cannot see a change
  that was undone in between unless something was copied meanwhile.
* **Orphans.** A killed gate, installer or restoration drops its lock while the
  process it had started in a session of its own runs on.
* **Two implementations.** The comparison and the mutations of the matrix are
  written in Rust and again in Python, and the second judges the first.

### What makes each component correct

* session: an accepted trace is the session's own program, executed from reset;
  siblings never cross; a retry never repeats an injection; ended sessions
  leave no child; every call returns.
* comparison and case: pass means that both engines went through the same
  states; alike engines match; a mismatch names the first divergent step.
* transaction: only a complete model generated from the configuration it ships
  is ever under the published name; nothing finished is lost; a failure that
  was handled is undone; the record on disk is never ahead of the directories.
* test invocation: a green exit means that every selected case agreed, on this
  run, and that its evidence is on disk; a matrix passes only if the comparison
  sees every damage it was given.
* minimizer: a certificate is about the program and the runner it names, and
  every shorter candidate was tried on them.
* clean room: an audited room is the output of one launch whose every stage
  passed; its secrets and disks are gone before anything claims so.
* proof gate: a passed report is evidence of one run, of sources its policy
  approves and of one generated pair, whatever was edited and edited back;
  every run answers.
* rebuilt generator: an installation that failed puts both names back.
* runtime validator: it accepts exactly the corpus runs whose artifacts hold two
  equal traces, whatever the program's own comparison overlooked.
* restoration: a report is written only over a destination this attempt filled
  completely from a source a signed manifest names; nothing is ever replaced.
* release: what is recorded is one archive and one source; what the audit
  passes is about that source in every slot.

## 2. Modules

| module | role |
|---|---|
| `IsolatedRun` | abstract: each session's program runs on a machine of its own |
| `DiiSession` | the protocol of dii.rs with its emulators; implements `IsolatedRun` |
| `MCDiiSession` | instances: one process or two |
| `DiiSessionProofs` | theorems about `DiiSession` |
| `Compare` | normalization and the strict comparison, as operators |
| `Differential` | one case: CKB-VM run, Sail run, comparison, report (EXTENDS `Compare`) |
| `MCDifferential` | the instruction set and the defects of an instance |
| `Mutation` | the mutations of a trace, as operators (EXTENDS `Compare`) |
| `DiffTest` | invocations of the program: cases, artifacts, mutation matrix, exit status (EXTENDS `Mutation`) |
| `RuntimeEvidence` | the Python validator of a corpus run with the matrix (EXTENDS `DiffTest`) |
| `MCDiffTest` | two corpora of two recorded cases, what the Sail model may answer, what a comparison may overlook |
| `DiffTestProofs` | theorems about `DiffTest` and `RuntimeEvidence` |
| `Minimize` | the minimizer: search, trials, budget, report |
| `MCMinimize` | a three-word program and the behaviours of the runner |
| `MinimizeProofs` | theorems about `Minimize` |
| `SailTransaction` | replace_model and run_backend with failure, interrupt, crash, orphan |
| `MCSailTransaction` | symmetry for its instances |
| `SailTransactionProofs` | theorems about `SailTransaction` |
| `CleanRoom` | the controller inside the guest: checkout, stages, report |
| `EphemeralVm` | the host around it: disks, secrets, evidence, record, audit (EXTENDS `CleanRoom`) |
| `MCEphemeralVm` | three stages and the order of the archive |
| `EphemeralVmProofs` | theorems about `EphemeralVm` and the controller in its guest |
| `RustPair` | the rebuilt generator and its installation of a pair of names |
| `ProofGate` | runs of the gate, their stages, the public build (EXTENDS `RustPair`) |
| `MCProofGate` | four stages |
| `ProofGateProofs` | theorems about `ProofGate` and the pair of `RustPair` |
| `Restoration` | attempts to restore a release, offline |
| `MCRestoration` | the contents an archive may have, two roots, symmetry |
| `RestorationProofs` | theorems about `Restoration` |
| `ReleasePackage` | build, signature, publication and record of a release |
| `ReleaseAudit` | clean-room reports, bundle, collector and the audit of six slots (EXTENDS `ReleasePackage`) |
| `MCReleaseAudit` | symmetry for its instance |
| `VerdictProofs` | theorems about `Differential` and, apart from them, about `ReleaseAudit` |

`Differential` sees the Sail runner as `DiiSession` promises it: a run from
reset in lock step, or an error (`SailFails`). In each module a definition
named `Bug...` stands before the definition it is a slip of: replacing the
latter by the former must violate a property. They are not part of the model.

### DiiSession

One action per step of `start`, `start_once`, `connect`, `drive` and
`shutdown`; `pc[s]` is the place in that code. `attempt` is the loop of
`start`, `lock` is STARTUP (one per operating-system process), `port` the
reserved port, `conn` the emulator at the other end of the stream, `request`
and `reply` the command and packet in flight. An instruction is `<<owner,
index>>`, and a packet reports the sequence of instructions its emulator has
executed since reset: this is what "the state the emulator reached" means, so
that a foreign or already used emulator is told from a fresh one.
`started_from_reset` tests `order = 0 and pc = entry`; in the model that is
"had executed nothing before". An emulator that had executed only trapping
instructions has not advanced `rvfi_order`, and could have returned to the
entry; that coincidence is abstracted away.

The emulator is not in this repository. What is assumed of it is what dii.rs
says: it binds the port itself, exits with a recognizable message if it cannot,
accepts one client (with `AcceptsAgain = TRUE` the weaker assumption that it
serves others afterwards, from the state it is in), answers one packet per
command, and leaves when its socket closes. It may crash at any time. A
listening socket is exclusive; whether a port that only carries an established
connection can be bound is left open, and any other program of the machine may take a
reserved port at any time. A listener of another program that accepts the
stream and speaks no RVFI-DII is left out: it ends in the errors of `drive`. A
poisoned STARTUP mutex is recovered by
the code, so a panic releases the guard like a return. Writes into a broken
stream may succeed. Timeouts are nondeterministic: a read may time out
whenever no packet is there.

### Compare and Differential

`CompareWithPolicy` returns the first differing step, the length mismatch, the
termination mismatch or the refusal of empty traces, in the order of the code.
`CkbStep` is one iteration of `run_program`: store the word, reset the decoder
cache, step, record the changed registers. `SailStep` is one packet through
`into_event` and the shadow file. A program is a sequence of abstract
instructions (set, add, jump, illegal, and a refused load); each engine may
deviate from the common semantics in one step (program counter, trap, running
flag, value written; the interpreter may also clobber another register - the
packet of the Sail model would not show one, and dii.rs relies on RVFI
reporting every write). `Report` includes the artefact that could not be
stored. Encodings, widths and memory accesses are abstracted; programs that
access memory are refused by both sides.

### Mutation and DiffTest

`Differential` is the inside of one case; `DiffTest` is what main.rs does with
many: `Invoke` parses the arguments and selects the cases (the corpus, one of
`Corpora`; named cases, the program of an artifact, or ELF files, which are compared the same way
but neither stored nor mutated), `RunCase` runs a case and stores its
artifact, `CasesDone`, `MutateCase` and `Summarize` are run_mutations,
`StoreSummary` and `Exit` the end of main. `InvokeFails` is every refusal before
the first case. `Apply` damages a trace as mutation.rs does; `DamagedStep` is
where. An engine pair has one of the outcomes of `Outcomes`: a failed runner, or
the recorded CKB-VM trace beside any trace in `SailTrace`. `overlooked` is a
defect in the comparison of this build - a field, the length or the end of a
trace that it does not look at - because finding one is what the matrix is
for; `"none"` is the comparison of `Compare`. `TraceAssumption` gives the traces the
types of event.rs. `Crash` kills the program,
which may leave the next artifact torn (std::fs::write is not atomic), and
`EditArtifact` is an edit of a stored program's words, between invocations.

### RuntimeEvidence

`Validate` is `validate` of runtime_evidence.py on the report of the last
invocation and the artifacts on disk: `CheckCase` reopens each case,
`CheckMutations` applies each mutation to the stored traces and locates it.
`FirstDifference`, `DamagedWrite` and `Mutated` are written from the Python,
beside `CompareWithPolicy`, `DamagedStep` and `Apply` from the Rust. Its traces
are those the corpus may have: no trap, no memory access, every word committed.
The validator works on the pair of the case, the only one that is stored; the
pair that the matrix ran again is not kept. `MinimumCases` stands for the minimum
of each instruction family. `WordsAssumption` is the corpus's own test
`every_case_is_replayable_and_supported`: no case points past its program. The raw packets counted in `artifacts/`, the
equality of the two environments, the replays and the unit-test pipeline around
`validate` are left out.

### Minimize

A candidate is a set of positions of the recorded program, so that duplicate
words stay apart; `Before` is the order of the search. `BeginTrial`, `Replay`
and `Judge` are one call of the oracle with its three groups of checks, `Decide`
is what `shortest_subsequence` or `run` does with the answer, `Certify` to
`Close` the end of `run`. What a build of the runner shows on a program is
`behaviour[build]`, fixed but unknown; a trial may in addition fail (timeout,
abnormal exit, inconsistent reports, another environment: whatever
`check_trial`, `signature` and `check_environment` reject). `EditFile` rebuilds
the runner or edits the original artifact or the script; no edit restores a
former content, because hashes taken before and after cannot tell a file that was
changed and changed back. For a trial's input they need not: `EditInput` may be
undone, since the words the runner reports are compared as well.

### SailTransaction

`tree[p]` is the directory at path p: who produced it, how far it got, the
configuration the generator read and the one shipped in it. `record` is the
dictionary in memory, `disk` the transaction.json. Every rename, every flag with
its save, every file operation is a step of its own. `Fail` is an exception at
a statement, `Interrupt` a KeyboardInterrupt between a rename and the flag on
the next line, `HandlerFails` an exception inside the except block, `Crash` the
death of the process (the kernel drops the flock), `OrphanWrites` the generator
that goes on after that, `EditConfig` anybody's edit of the materialized
configuration. Calls of one backend are modelled; the other backend uses other
paths and the same lock. A rename onto an existing directory fails.

### CleanRoom and EphemeralVm

`CleanRoom` is `public_run`: `Clone` and `Submodules` with the retries of
`network_command`, `RunStage` once per stage of the policy, `WriteReport` after
the second capture of the source, `AuditSlots` the aggregate the guest runs when
its report is already written. A stage may change tracked source, in the
checkout or in a submodule (which `git status` is told to ignore).
`EphemeralVm` is the host: `pc` is the place in `launch`, `Handler` the except
branch, `Exception` any failure or interrupt of the try block (before which
subprocess.run has killed qemu), `Crash` a kill of the launcher. The guest is
`ReadSecrets`, `Controller` (one step of `CleanRoom`), `Finish` (the trap of the
script) and `ArchiveMember`; `QemuExits` may come at any time with status 0, because with
`-no-reboot` a guest that resets looks like one that powers off. `evidence[l]`
is the disk of launch l: the members written so far (the rest reads as zeros, so
it is a well-formed archive of just these), and whether the secrets are one of them. `root`
says from which launch each file of the evidence root comes; a file's hash is its
launch. `FreshRoot`, `MoveEvidence` and `MoveRecord` are what people do with the
files. `Verified` is the verdict of the audit on the clean-room slot. Zeroing and
unlinking a disk is one step; the guest that a killed launcher leaves behind writes
to disks nobody reads.

### RustPair and ProofGate

`RustPair` is `run` and `install` of generate_rebuilt_rust.py with the two
captures of rebuilt_production_rust.py: `gen[r].pc` is the place, `pair` the two
published names, each holding the run whose extraction it is, `gen[r].done` the
flags of transaction.json and `Undo` the except branch, one rename per step. An
input is a version; policy v approves inputs of version v. `ProofGate` is
check_proof.py: `gate[g].pc` the place in `execute`, `child[g]` the stage whose
process group lives, `clean[g]` the public build (`CleanBegin`, `CleanCopy`,
`CleanRecheck`, `CleanCompare` are `build`, `prepare` and the two halves of
`finish`). `Timeout` kills the group; `Kill` kills the gate alone, and its stage
goes on (`Write`, `Generate`, `OrphanEnds`). `logs` says who wrote to a log
since it was last truncated. Of the stages without an effect of their own one
stands for all; what a stage's own tests compare is its failure. `Edit` changes
sources, tools or policy at any time.

### Restoration

`restore` of release_package.py, statement by statement: `authenticate` opens
the archive five times (`HashArchive` to `Extract`), source_capsule clones and
overlays (`Clone`, `Overlay`, `Capture`), fixed_inputs moves the roots
(`MoveRoot`), the restored checkout's own scripts install decoder inputs and
downloads (`DecoderStep`, `StageCmake`). `place[p]` is a destination, each part
holding the attempt that put it there; attempts in canonical mode share one.
`Kill` kills the attempt, whose script `child[r]` runs on; `Remove` is a person
who clears the destination of attempts that are over; `Edit` changes the archive,
the tool archive or the restored source.

### ReleasePackage and ReleaseAudit

`ReleasePackage` is `build` (with `source_capsule.create`, which captures for
itself), `Sign` and `Publish` by the owner, `record`, and `check_release`, which
record and audit share, as one action per statement that reads a file. A package
is the source its manifest names, the source its capsule holds and whether its
inputs are pinned. `ReleaseAudit` adds the clean room's report (`NewRoom`), the
bundle that CI attests (`Attest`), the collector (`Collect`, `CollectReport`,
`Collected`) and the six slots of the audit in the code's order; `slots` is what
a running audit knows. The Lean and Rocq reports name a policy; the runtime and
third-party validators may answer anything. The operator runs one command at a
time, as docs/RELEASE.md says.

## 3. Runs

| run | instance | checks |
|---|---|---|
| `DiiThreads` | 2 sessions, 1 process, 2 ports, 1 instruction, 2 attempts, fair | `SiblingsNeverCross`, `SessionsEnd` |
| `DiiProcesses` | 2 sessions in 2 processes, 2 instructions, emulators that serve again | `TypeOK`, `AcceptedTraceIsOwnRun`, `EndedSessionsLeaveNoChild`, `RetryIsClean`, `ImplementsIsolatedRun` |
| `Differential` | programs up to 3 words of 6 kinds, at most 1 defect per engine | `TypeOK`, `PassMeansSameRun`, `AlikeEnginesMatch`, `MismatchIsFirstDivergence` |
| `DiffTest` | 2 corpora of 2 cases, 2 invocations, 5 comparisons, 1 edit | `GreenRunAgreed`, `PassingMatrixSees`, `SoundComparisonLocates`, `ArtifactKeepsItsProgram`, `ValidatorIsExact`, `GreenRunHasEvidence` |
| `Minimize` | 3 words with a duplicate, 8 runners, budgets 3 and 8, 1 edit | `CertificateIsMinimal`, `CertificateIsAboutItsSource`, `OutcomesAgree` |
| `SailTransaction` | 2 calls, 2 configurations | `DestinationIsPublishable`, `FailureRestoresNames`, `RecordIsNeverAhead`, `FinishedTreesOnlyMove` |
| `SailHarsh` | 2 calls, 1 configuration, interrupts and orphans | `TypeOK`, `AdaptedModelsOnlyMove` |
| `EphemeralVm` | 2 launches, 3 stages, 2 network attempts, 1 moved file | `VerifiedRoomIsOneRun`, `DisksAreGoneBeforeTheRecord`, `SecretsLeaveNoTrace`, `PassedRunIsComplete`, `NothingIsOverwritten` |
| `EphemeralVmFailed` | 1 launch | finds `FailedLaunchSaysSo` violated |
| `ProofGate` | 2 gates, 4 stages, 2 edits, 1 kill, fair | `EvidenceIsOneRun`, `PassedBuildIsReviewed`, `PassedPairIsOneExtraction`, `FailedInstallRestoresPair`, `GateAnswers` |
| `Restoration` | 2 attempts, 2 roots, 2 changes, 1 kill | `RestorationIsExact`, `NothingIsReplaced` |
| `ReleaseAudit` | 1 release, 2 clean rooms, 2 changes | `PassedAuditIsOneSource`, `RecordIsOneArchive` |

Type invariants are checked where they carry something else than types (which
attempt owns a port, who holds a lock, where the program counter may be); the
types of `Restoration` are proved in `RestorationProofs`.

**Bounds.** They are kept small enough for each run to end within a minute on two
cores; what they cut off is in the theorems of section 4, which have no bounds.
Two sessions are enough to cross; two ports let them share one or
not; two attempts let a race be lost once and finally, and START_ATTEMPTS (5 in
the code) is a parameter of the proofs. A first instruction is treated
specially, a second one is not: two show both, and where liveness is checked one
is enough. Programs of three words reach a
revisited address (a backward branch needs one word before and one after it)
and a repeated write with something before it. Two values and two registers, one
of them x0, are all an observer distinguishes. A defect in the second step has
steps before and after it; one in the value that the first step writes may be hidden by
another. Of the two cases of `DiffTest` one
carries every mutation at a focus step that writes the last register, and the other
none of the register mutations, with a trap and a trace shorter than its focus; two
of the four fields of an event that a comparison may overlook stand for all. A
second invocation (`MaxRuns`) meets what a first, an edit (`MaxEdits`) or a
crash have left, and with `--artifact` brings a program of the other corpus. The
program of `Minimize` has three words, two of them equal: the shortest with a
middle size in the search, which ends at the first candidate that shows the mismatch:
one such candidate, or none, or all of them are the cases; 8 evaluations complete it, 3 end in the
middle of it; `MaxEdits = 1` separates any two steps. A second call of the installer
meets everything a first one can leave behind, and two configurations allow an
edit and its reversal; the properties of `SailHarsh` do not depend on which
configuration a tree has. A second launch meets the evidence of the first, and one
moved file or record (`MaxRestores`) mixes two of them; the stages keep
the first and the last of the source comparison with one that generates between them.
Its action constraint `Mixing` leaves out second launches after a first one that
left no report, and files that are moved where nothing looks at them before the next
place where they are moved too.
Two gates are one that leaves an orphan and one that meets it; two edits
change an input and change it back. Two attempts are one that leaves
a script running and one that it disturbs; two changes swap an archive and swap it
back; two roots stand for the five, because
they are moved in a loop that tells the first, the last and the others apart only
by their position. Two changes part the capsule of a
package from its manifest, or replace the clean-room report and then the source; the
action constraint `MayPass` leaves out audits that begin without a record of the collector, which none
of their steps makes up for. `CHECK_DEADLOCK FALSE`: sessions, cases and
calls end, and the system then rests.

**Fairness.** Two specifications have it, `FairSpec` of `DiiSession` and `Spec` of
`ProofGate`. In the first, a session that can take a
step takes one (its thread is scheduled); `DialTimesOut` is strongly fair
because the deadline in `connect` is a clock, while the loop around it keeps
disabling and enabling the action; an emulator that can take a step takes one.
Crashes and timeouts of reads are never obliged to happen (a read that would
wait for ever fails by the socket timeout, which is part of the session's own
step). Weak fairness suffices for STARTUP because every session takes it at
most START_ATTEMPTS times. In the second the gate's own statements are executed,
and among them the wait with its timeout (process.wait(timeout=...) is a clock):
nothing is assumed of a stage, which may hang for ever.

## 4. Proved

TLAPS checks, for all values of the constants:

| module | theorem | statement |
|---|---|---|
| `DiiSessionProofs` | `TypeCorrect` | `Spec => []TypeOK` |
| | `AcceptedTraceCorrect` | `Spec => []AcceptedTraceIsOwnRun` |
| | `SessionsAreIsolated` | `Spec => ImplementsIsolatedRun` |
| | `NoChildIsLeft` | `Spec => []EndedSessionsLeaveNoChild` |
| | `RetriesAreClean` | `Spec => RetryIsClean` |
| | `SiblingsApart` | `Spec => []SiblingsNeverCross`, for `OneStartup` |
| `VerdictProofs` | `TypeCorrect` | `Spec => []TypeOK` |
| | `PassIsSameRun` | `Spec => []PassMeansSameRun` |
| | `MismatchIsFirst` | `Spec => []MismatchIsFirstDivergence` |
| | `AlikeMatch` | `Spec => []AlikeEnginesMatch` |
| | `RecordAnswersOneArchive` | `AuditSpec => RecordIsOneArchive` |
| | `PassedAuditsAreOneSource` | `AuditSpec => PassedAuditIsOneSource` |
| `DiffTestProofs` | `AgreedRun` | `Spec => []GreenRunAgreed` |
| | `MatrixSees` | `Spec => []PassingMatrixSees` |
| | `SoundLocates` | `Spec => []SoundComparisonLocates` |
| | `ArtifactKept` | `Spec => []ArtifactKeepsItsProgram` |
| | `GreenEvidence` | `Spec => GreenRunHasEvidence` |
| | `ExactValidator` | `Spec => []ValidatorIsExact` |
| `MinimizeProofs` | `MinimalIsMinimal` | `Spec => []CertificateIsMinimal` |
| | `SourceIsRead` | `Spec => []CertificateIsAboutItsSource` |
| | `OutcomeIsOne` | `Spec => []OutcomesAgree` |
| `SailTransactionProofs` | `TypeCorrect` | `Spec => []TypeOK` |
| | `AdaptedModelsAreKept` | `Spec => AdaptedModelsOnlyMove` |
| | `PublishedModelCorrect` | `Spec => []DestinationIsPublishable`, for `~ Orphans` |
| | `RecordNeverAhead` | `Spec => []RecordIsNeverAhead`, for `~ Orphans` |
| | `FinishedTreesAreKept` | `Spec => FinishedTreesOnlyMove`, for `~ Orphans` |
| | `FailureRestores` | `Spec => []FailureRestoresNames`, for `~ Interrupts` |
| `EphemeralVmProofs` | `PassedIsComplete` | `Spec => []PassedRunIsComplete` |
| | `VerifiedIsOneRun` | `Spec => []VerifiedRoomIsOneRun` |
| | `DisksAreGone` | `Spec => []DisksAreGoneBeforeTheRecord` |
| | `NoSecretsAreLeft` | `Spec => []SecretsLeaveNoTrace` |
| | `NoEvidenceIsOverwritten` | `Spec => NothingIsOverwritten` |
| `ProofGateProofs` | `OneRunsEvidence` | `Spec => []EvidenceIsOneRun` |
| | `PassedIsReviewed` | `Spec => []PassedBuildIsReviewed` |
| | `PairIsOneExtraction` | `Spec => []PassedPairIsOneExtraction` |
| | `FoundPairIsRestored` | `Spec => FailedInstallRestoresPair` |
| `RestorationProofs` | `NothingReplaced` | `Spec => NothingIsReplaced` |
| | `RestorationCorrect` | `Spec => RestorationIsExact` |

Each rests on the ASSUMEs of the module it is about. Five have a further
assumption on a constant, and TLC shows that it is needed: `OneStartup` (the
sessions are threads of one process; STARTUP is a static of the process), `~ Orphans`
(no generator outlives its killed call) and `~ Interrupts` (no KeyboardInterrupt
falls between a rename and its flag). Section 6 says what happens without them.
`FailureRestores` does admit orphans, `AdaptedModelsAreKept` both.

*Sessions.* `AcceptedTraceIsOwnRun` is not inductive: nothing in it says what is
on the wire. `IInv` adds, for each session in `drive`, that either its command
or the packet that answers it is in flight and never both (`Asked`,
`Answered`), that the emulator it speaks to serves it, and that after the first
accepted packet this emulator has executed exactly the session's prefix
(`OwnMachine`). The first packet is the crux: a foreign or used emulator may have
executed anything, and only the reset check turns its packet into
`Prefix(s, 1)` (`FirstInstruction`). That an emulator of a future attempt
does not exist yet (`EmulatorInv`) is what keeps a retry from inheriting a
machine. The refinement follows from `IInv`: an accepted packet is one
`Execute`, the end of the call is `Answer`, every other step stutters.

The processes come on top of it. `ChildInv`: the emulators of all former attempts are
reaped, and those of a session that ended are. `CleanInv`: while no stream is
open no emulator has executed an instruction of the session; with the transition of
`LostRace` that is `RetryIsClean`. `SiblingInv` explains STARTUP: an emulator that
has yet to bind its port belongs to the session that holds the lock (`LockInv`),
and nobody else's is on that session's port. So the port a sibling chose cannot
be taken between its poll and its dial.

*Comparison.* `PassMeansSameRun` is about runs, while the code compares what two
different observers say of them: the interpreter diffs register files, the model's
packets go through a shadow file. `ShadowFollows` says the shadow is the model's
register file; with it both event lists are `Shown`, the registers a step changed
(`CkbShows`, `SailShows`). `ShownDetermines` is the induction: runs that showed the same
so far are in the same machine, because an event and the machine before it
give the machine after it (the decoder's step is a function of the word, and what changed
tells the register file). Defects enter only through the engine's own step, so the
theorems hold whatever the engines do wrong; `AlikeRuns` is the converse, with equal
defects. Only the last machine of a run can have trapped or halted (`Runs`,
`CkbEnded`, `SailEnded`), which is where the two ways of ending a run meet.

*Mutation matrix.* One comparison, as the build under test has it, is the crux:
it names the first field that differs and is not overlooked (`SomeDiffers`,
`NeverNamed`), so a pair that passed is not empty and differs in nothing but what
is overlooked (`PassedIs`). A mutation changes one field of one event, cuts the last
event or changes the category of the end, and nothing else (`ApplyEvent`,
`ApplyWhole`); done to a pair that passed it is all there is to find, and `Locates`
says it is found where it was made. `MatrixInv` carries that to the reports: one of a
blind comparison never names what is overlooked, one of a comparison that overlooks
no mandatory category names exactly the damage, also when it is blind to another field. A
category that is overlooked is thus never located, and the matrix does not pass.
`AgreedInv` accounts for every disagreement by a failed case or a failed baseline;
`EvidenceInv` ties a verdict to the artifact that was written with it (`by` is the
number of the invocation), and `ArtifactInv` says an artifact is about its case,
since a replay is refused unless its words are. For the validator, `MutatedIs` shows that
the Python and the Rust implementation damage a trace of the corpus alike,
`DifferenceOfDamage` that the Python comparison finds it at the step the Rust
code reports, and `NoDifference` that it accepts only equal traces; `ReportsInv` makes
the reports as many as there are cases and kinds. What a field overlooked outside the
mandatory categories hides is not in any report; the recomputed comparison of the
stored pair shows it.

*Minimizer.* No edit brings a former content back, so a version that a hash
names lies between the hash and the present: `Observed` puts the build that was
replayed there, and the second hash of the runner, if equal, closes the interval.
`Searched` says that what was tried and rejected does not reproduce the mismatch
on that runner and that every shorter selection has been tried before the
candidate; it needs that `FirstOf` takes a shortest untried one. `Claimed`,
`Reported` and `Stored` carry it from memory to the disk through failures, interrupts
and the last save.

*Transaction.* `Inv` adds to the types that the generator's two names never hold
an adapted model and that an unfinished stage is not one yet; every step is
then quiet, a rename onto an empty path, or a write to a tree that is not
adapted (`StepKinds`). `PublicationInv` carries the configuration from check to
check: what the call knows at each statement (`Knows`) about its generator
output and its stage. Exclusion by the lock (part of `TypeOK`) keeps the other
calls from disturbing it; without orphans nobody else writes.

`ReportInv` adds what each flag of a record means for the directories, and that
the file on disk is never ahead of the memory (`Reported`): a flag is saved only
after its rename. `WritesInv` says of each statement that writes that the tree under
its path is not finished, or has a copy (`Overwritten`). `NamesInv` is for the handler, and the only one with
orphans: every backup is remembered by a flag and its name is vacant until the handler has put
it back (`BackupsReturn`, which an interrupt between rename and flag would break), a
call that has not generated has written no tree (`Flagged`), and the output of an
undecided call lies in no place from which it could come under a published name, in
particular in no other call's backup (`OutputApart`).

*Clean room.* `RoomInv` ties the transcript to the place of the controller: it is the
row of the checkout followed by a prefix of the policy's stages, all of them before
the audit, and the audit compares the source with the snapshot. The host sees only the exit
code, so `GuestInv` and `DiskInv` carry "exit 0 means passed" through the archive
onto the evidence disk of the launch and from there to the root; `PlaceInv` says
which of the three disks exist at each statement of `launch`; `RecordInv` and
`OutcomeInv` that what was true when the record or the outcome was written has
stayed so, since no later launch touches another's disks.

*Proof gate.* Three arguments. (a) Nobody but the orphan of a killed gate acts
beside the gate that holds the lock (`LockInv`, `ChildInv`, `CleanPlace`): so the audit,
and every log that this gate has opened, are its own, but for such orphans (`EvidenceInv`).
(b) Generators do overlap, in that one orphan may install while another gate
runs. A model that was saved and put back, or installed and withdrawn, lies on a stack:
`History` says that a complete extraction keeps what it is, that one which has left
the name and all backups never comes back, and that what lies below another stays
below it until one of the two has left. With it `CleanInv` follows a build: the model it
copied is that of its first record, or one of the two can never again be under the name, and
then the last comparison fails. (c) A comparison that missed a change needs another change before the
next: `CopyCount`, `PolicyCount`, `SourceCount` and `PairCount` count the edits made
for what sources, policy and pair must have been meanwhile; a gate that passes with a wrong one
has seen four. A copy of a
model that is not there fails. `GenInv` is about one installation: its flags say what is under each
name and what was found there, so the undo, last flag first, ends with the pair that was found.

*Restoration.* Both properties speak of single steps, and neither follows from
the step alone: that `WriteReport` runs over a destination of its own needs to
know what every statement before it left there. `Inv` says so place by place:
`Owns` (after the clone the destination is this attempt's), `RootsMine` (the
first `moved` roots are this attempt's, the others vacant), `DecoderMine` and
`CmakeMine` (the pieces before the running script's position are), and
`SignedRead` (with at most one change, an archive that is what it was when it
was hashed has not changed since, so the manifest read is the one whose signature
was verified). Two facts make it inductive. No attempt and no orphaned script puts
anything into an occupied place, so another's step cannot take what is recorded
as mine; and a person clears only destinations no attempt is at work in. It holds for
any number of attempts, roots, sources, archives, changes and kills.

*Release.* Both properties are about the step that answers, and both need all that
came before it. `ReleaseInv` has the order in which the commands leave the package
(`ReleaseOrder`: published as signed, downloaded as published, reported with the
source of the build) and two accounts. The first: every difference between two
archives was paid for by a change (`BuildPaid`, `RestPaid`, `RecordPaid`). An archive
goes from the build to the signature, the release and then through the record's checks, which
read it again and again; each `To...` is the number of differences on the way so far, and it never
exceeds `edits`. A capsule that is not its manifest's counts two, because the
checkout was changed after the first capture and changed back before the last one. At the last check
the way passes between signature and release four times and by the result
three times, so with two changes all of these are one archive (`TwoEdits`), and then
either its capsule is the manifest's or the archive that is inspected is the published
one; both make the inspection right. This holds for any bound on changes, as the property
itself says after which number it stops. The second: while `edits` is what it was when
the audit began, what a statement found stays true, so `AuditKnows` grows place by place
until `Aggregate`; a change makes the audit know nothing. What it takes from outside
is `CiIsBundle`: the collector's record names the bundle that was attested,
and a bundle is attested once.

## 5. Only model-checked

* `SessionsEnd` and `GateAnswers`: liveness under fairness is beyond the proof
  system.
* `FailedLaunchSaysSo` is violated (section 6).

The library's induction theorems cannot be instantiated by the provers; where a
proof needs a first step or a next candidate it takes a minimum of a nonempty set
(`WFMin`, over the naturals or over ranks in lexical order).

## 6. What the models show about the code

### Violated

*A failed launch can report success* (run `EphemeralVmFailed`). The handler of
`launch` does not reset the status that record.update has set, so a failure
between ephemeral_vm.py:420 and 447 is stored as
`guest_completed_evidence_extracted_overlay_destroyed`, beside the error; the
test of the launcher's failures expects `launch_failed`
(test_ephemeral_vm.py:269). The audit reads another file and is not misled
(`VerifiedRoomIsOneRun`).

### Where the properties are weakened, and why

Each of these is a behaviour of the code that the model has and the property
excepts; without the exception TLC shows it.

* *Sessions.* Between the poll of the child and the dial another process's
  emulator may own the port. The dial succeeds and the session fails later
  without the retry of dii.rs:347-350; it never returns a wrong trace
  (`AcceptedTraceCorrect`). In the same situation `shutdown` may wait for the
  pipes of a child that waits in accept (dii.rs:278-279): `SessionsEnd` is
  checked for sessions of one process, which STARTUP keeps apart.
* *Sessions.* If the socket timeout is refused after the dial (`--sail-timeout
  0` is), `start_once` returns before a `DiiSession` exists, and the child is
  neither killed nor reaped (`EndedSessionsLeaveNoChild`).
* *Transaction.* A generator that outlives its killed call writes to a
  directory the next call believes its own, the lock of
  sail_model_transaction.py:140 notwithstanding: `DestinationIsPublishable` needs
  `~ Orphans`. A KeyboardInterrupt between a rename and the flag on the next line
  (line 94) hides the rename from the handler: `FailureRestoresNames` is checked
  without `Interrupts`. `RustPair` leaves the same window of
  generate_rebuilt_rust.py out.
* *Minimizer.* An interrupt after the report was completed and before `run`
  leaves its try block stores status failed beside `minimum_proved` true
  (`OutcomesAgree`); the minimum is proved all the same.
* *Ephemeral VM.* `SecretsLeaveNoTrace` excepts launches that were killed or
  whose clean-up failed, and those that raised while the secrets disk was
  written: that is before the try block (ephemeral_vm.py:379-381).
* *Proof gate.* A stage that a killed gate left running goes on writing to the
  log the next gate has truncated (`EvidenceIsOneRun` names it), although
  the lock is to "avoid two runs publishing a mixture of evidence"
  (check_proof.py:314); the audit and the report are never mixed. An orphaned
  generator may install and undo a pair during the public stage, so the pair the
  clean tree was built from need not be the one report.generated names, though
  each is one extraction. Four edits (two changes, each undone in time) defeat both
  comparisons of `finish`.
* *Generator.* The sources a staged extraction captured are not compared with
  the policy's: only the comparison of the checkout before and after it and
  the hash of the model protect the published pair.
* *Restoration.* The signature is verified on the archive file, which is opened
  again for everything else, and hashed before and after: two swaps, around the
  verification, pass a manifest nobody signed. After a killed attempt a canonical
  restoration is refused until a person clears the destination.
* *Build.* The inputs are hashed at release_package.py:65 and copied at 84;
  record and audit do not compare the archive's inputs with the pins (restore
  does). A checkout changed and changed back around `create`'s own capture gives an
  archive whose capsule differs from its manifest, and build passes; record
  refuses it (`RecordIsOneArchive`), unless a third change shows the validator
  another archive. A record that failed after its downloads cannot be repeated in the same
  directory.
* *Audit.* The Lean and Rocq slots name a policy, not a source. check_ci hashes
  the local clean-room report before check_vm_report reads it again. Collector and
  record leave a report that says passed when the validator they end with fails;
  the audit's own pass over it finds that out (`PassedAuditIsOneSource`). The
  property speaks of an audit during which nothing changed, which is what the
  procedure's freeze demands.

## 7. Not modelled

Instruction encodings, JSON, hashes and signatures are data: a hash is what it
is the hash of, a signature names what was signed. The Lean and Rocq developments
are proofs in other systems. Shell scripts are sequences of external commands
without state of their own. `proof-extract` is straight-line code to be
translated. The decoder bundle, its locations and identities
(decoder_input_bundle.py and its siblings), the Rocq spike, the third-party and
claims validators and the ELF text parser compute digests and shapes of files from
one reading of them; what they reject is one failing outcome of the step that
calls them. PROJECT.json lists every part with its status.

## 8. Plan

1. The ELF runners, and the re-application of the patch series
   (ckb_source_baseline.py).
