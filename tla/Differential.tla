---------------------------- MODULE Differential ----------------------------
(***************************************************************************)
(* One case of the runtime differential (crates/diff-test/src/run.rs): the *)
(* injected program runs on the CKB-VM interpreter, observed through       *)
(* changes of its register file (crates/ckb-runner/src/injection.rs), then *)
(* on the Sail model, observed through RVFI packets and a shadow register  *)
(* file (crates/sail-runner/src/dii.rs, crates/core/src/event.rs), and the *)
(* two traces are compared strictly.                                       *)
(*                                                                         *)
(* The instruction set is a CONSTANT: a program is a sequence of abstract  *)
(* instructions.  Either engine may deviate from the common semantics in   *)
(* one step: that is the defect the differential exists to find.           *)
(***************************************************************************)
EXTENDS Compare

CONSTANTS
  Register,     \* register indices; 0 is x0
  Value,        \* register values; 0 is the reset value
  Instruction,  \* [op, rd, value]: see Exec
  MaxLength,    \* the longest program
  Window,       \* INJECTION_WINDOW in instruction words
  Deviation,    \* [kind, step]: a defect of an engine; kind "none" for none
  Policy        \* the terminal policy

ASSUME RegisterAssumption == 0 \in Register /\ Register \subseteq Nat
ASSUME ValueAssumption == IsFiniteSet(Value) /\ 0 \in Value /\ Value = 0..(Cardinality(Value) - 1)
ASSUME InstructionAssumption ==
  /\ Instruction \subseteq [op : {"set", "add", "jump", "illegal", "load"},
                            rd : Register, value : Int]
  /\ \A i \in Instruction : i.op = "set" => i.value \in Value
ASSUME DeviationAssumption ==
  Deviation \subseteq [kind : {"none", "pc", "trap", "halt", "value", "clobber"}, step : Nat]
ASSUME WindowAssumption == Window \in Nat /\ MaxLength \in Nat
ASSUME PolicyAssumption == Policy \in Policies

VARIABLES
  program,      \* the injected program
  deviates,     \* deviates[g]: the defect of engine g
  phase,        \* "ckb", "sail", "compare", "report", "done"
  ckbRun,       \* the machine states of CKB-VM, from reset, one per step
  cache,        \* the decoder's cache by program counter
  ckb,          \* the outcome of run_ckb: events, end, and whether it is Ok
  sailRun,      \* the machine states of the Sail model
  shadow,       \* RegisterShadow
  sail,         \* the outcome of run_sail
  comparison,   \* the CompareResult, or NoResult
  report        \* the CaseReport: passed and classification

vars == <<program, deviates, phase, ckbRun, cache, ckb, sailRun, shadow, sail, comparison,
          report>>

NoResult == [compared |-> 0, step |-> NoStep, field |-> "no comparison"]
NoReport == [passed |-> FALSE, classification |-> "none"]
Running == TraceEnd("running", "none")

\* A machine: the program counter in words from INJECTION_ENTRY, the register
\* file, and whether the last step trapped or stopped the machine.
Reset == [pc |-> 0, regs |-> [r \in Register |-> 0], trap |-> FALSE, halt |-> FALSE]
Now(run) == run[Len(run)]

-----------------------------------------------------------------------------
(* The instruction set and the engines (external).                         *)

Wrap(v) == v % Cardinality(Value)

\* The value an instruction writes to rd.
WrittenValue(i, m) == IF i.op = "add" THEN Wrap(m.regs[i.rd] + i.value) ELSE i.value
Writes(i) == i.op \in {"set", "add"}

SetRegister(regs, r, v) == IF r = 0 THEN regs ELSE [regs EXCEPT ![r] = v]

\* What one instruction does to a machine.  An illegal one traps and leaves
\* the registers; a jump moves the program counter by value words.
Exec(i, m) ==
  [pc   |-> IF i.op = "jump" THEN m.pc + i.value ELSE IF i.op = "illegal" THEN m.pc ELSE m.pc + 1,
   regs |-> IF Writes(i) THEN SetRegister(m.regs, i.rd, WrittenValue(i, m)) ELSE m.regs,
   trap |-> i.op = "illegal",
   halt |-> FALSE]

\* A defect changes the step it happens in: the program counter, the trap, the
\* running flag, the value of a register the instruction writes, or - in the
\* interpreter, which no packet constrains - a register it does not write.
Deviated(d, i, after) ==
  CASE d.kind = "pc"    -> [after EXCEPT !.pc = @ + 1]
    [] d.kind = "trap"  -> [after EXCEPT !.trap = ~ @]
    [] d.kind = "halt"  -> [after EXCEPT !.halt = TRUE]
    [] d.kind = "value" /\ Writes(i) /\ i.rd # 0 ->
         [after EXCEPT !.regs[i.rd] = Wrap(@ + 1)]
    [] d.kind = "clobber" /\ ~ Writes(i) ->
         [after EXCEPT !.regs = [r \in Register |-> IF r = 0 THEN 0 ELSE Wrap(@[r] + 1)]]
    [] OTHER -> after

Step(engine, run, i) ==
  LET after == Exec(i, Now(run))
  IN  IF deviates[engine].step = Len(run) THEN Deviated(deviates[engine], i, after) ELSE after

-----------------------------------------------------------------------------
Init ==
  /\ program \in UNION {[1..n -> Instruction] : n \in 0..MaxLength}
  /\ deviates \in [ {"ckb", "sail"} -> Deviation ]
  /\ deviates["sail"].kind # "clobber"
  /\ phase = "ckb"
  /\ ckbRun = << Reset >>
  /\ cache = << >>
  /\ ckb = [ok |-> TRUE, events |-> << >>, end |-> Running]
  /\ sailRun = << Reset >>
  /\ shadow = [r \in Register |-> 0]
  /\ sail = [ok |-> TRUE, events |-> << >>, end |-> Running]
  /\ comparison = NoResult
  /\ report = NoReport

\* Both runners bail on an empty program and validate_program refuses one whose
\* observation would be missing on a side.
Refused == program = << >> \/ \E k \in DOMAIN program : program[k].op = "load"
RefusalKind == IF program = << >> THEN "empty" ELSE "unsupported"

\* Map a word into a partial function of program counters.
Put(f, a, w) == [x \in DOMAIN f \cup {a} |-> IF x = a THEN w ELSE f[x]]

Fail(kind) == [ok |-> FALSE, events |-> << >>, end |-> TraceEnd("error", kind)]

-----------------------------------------------------------------------------
(* run_program of ckb-runner.                                              *)

ckbOnly == <<program, deviates, sailRun, shadow, sail, comparison, report>>

CkbEnds(end) ==
  /\ ckb' = [ckb EXCEPT !.end = end]
  /\ phase' = "sail"

CkbRefuses ==
  /\ phase = "ckb" /\ ckb.end = Running
  /\ Refused
  /\ ckb' = Fail(RefusalKind)
  /\ phase' = "sail"
  /\ UNCHANGED <<ckbRun, cache, ckbOnly>>

BugNoWindow(pc) == TRUE
InWindow(pc) == 0 <= pc /\ pc + 1 <= Window

\* The program counter left the window: an error end, and no event.
CkbLeavesWindow ==
  /\ phase = "ckb" /\ ~ Refused
  /\ Len(ckbRun) <= Len(program)
  /\ ~ InWindow(Now(ckbRun).pc)
  /\ CkbEnds(TraceEnd("error", "window"))
  /\ UNCHANGED <<ckbRun, cache, ckbOnly>>

\* Storing the word fails, which ends the trace, or resetting the decoder does,
\* which fails the run.
CkbInjectFails ==
  /\ phase = "ckb" /\ ~ Refused
  /\ Len(ckbRun) <= Len(program)
  /\ InWindow(Now(ckbRun).pc)
  /\ \/ CkbEnds(TraceEnd("error", "store"))
     \/ ckb' = Fail("decoder") /\ phase' = "sail"
  /\ UNCHANGED <<ckbRun, cache, ckbOnly>>

\* reset_instructions_cache: the decoder forgets every program counter.
BugCacheKept(decoder) == decoder
ResetInstructionsCache(decoder) == << >>

\* changed_registers: what differs between the register files before and
\* after, except x0.
ChangedRegisters(before, after) ==
  {[index |-> r, value |-> after[r]] : r \in {x \in Register : x # 0 /\ before[x] # after[x]}}

\* Store the word at the program counter, reset the decoder, step (the decoder
\* fetches the stored word unless it has cached another there), and push the
\* event.  An error or a stopped machine ends the trace after its event.
CkbStep ==
  /\ phase = "ckb" /\ ~ Refused
  /\ Len(ckbRun) <= Len(program)
  /\ InWindow(Now(ckbRun).pc)
  /\ LET before == Now(ckbRun)
         order == Len(ckbRun) - 1
         word == program[Len(ckbRun)]
         cold == ResetInstructionsCache(cache)
         decoded == IF before.pc \in DOMAIN cold THEN cold[before.pc] ELSE word
         after == Step("ckb", ckbRun, decoded)
         event == Normalize([order |-> order, instruction |-> word,
                             pc_before |-> before.pc, pc_after |-> after.pc,
                             register_writes |-> ChangedRegisters(before.regs, after.regs),
                             memory |-> {}, trap |-> after.trap, halt |-> after.halt])
         end == IF after.trap THEN TraceEnd("error", "ckb trap")
                ELSE IF after.halt THEN TraceEnd("completed", "exit code") ELSE Running
     IN  /\ cache' = Put(cold, before.pc, decoded)
         /\ ckbRun' = Append(ckbRun, after)
         /\ ckb' = [ckb EXCEPT !.events = Append(@, event), !.end = end]
         /\ phase' = IF end = Running THEN "ckb" ELSE "sail"
  /\ UNCHANGED ckbOnly

CkbCompletes ==
  /\ phase = "ckb" /\ ~ Refused
  /\ Len(ckbRun) > Len(program)
  /\ CkbEnds(TraceEnd("injection_complete", "none"))
  /\ UNCHANGED <<ckbRun, cache, ckbOnly>>

-----------------------------------------------------------------------------
(* run_program of sail-runner, seen from the case: DiiSession models how it *)
(* reaches the emulator, and the many ways in which it fails.               *)

sailOnly == <<program, deviates, ckbRun, cache, ckb, comparison, report>>

SailRefuses ==
  /\ phase = "sail"
  /\ Refused
  /\ sail' = Fail(RefusalKind)
  /\ phase' = "compare"
  /\ UNCHANGED <<sailRun, shadow, sailOnly>>

SailFails ==
  /\ phase = "sail" /\ ~ Refused
  /\ sail' = Fail("session")
  /\ phase' = "compare"
  /\ UNCHANGED <<sailRun, shadow, sailOnly>>

\* RegisterShadow::observe: the write, only if it changes the shadow.
Observe(regs, w) == {x \in {w} : x.index # 0 /\ regs[x.index] # x.value}
BugShadowNotStored(regs, w) == regs
ShadowAfter(regs, w) == IF w.index = 0 THEN regs ELSE [regs EXCEPT ![w.index] = w.value]

\* rvfi_order is minstret, which an instruction that traps does not advance.
Retired(run) == Cardinality({k \in 2..Len(run) : ~ run[k].trap})

\* Inject the next word: the packet reports the destination register of the
\* instruction, x0 if it has none, and into_event passes it through the shadow.
SailStep ==
  /\ phase = "sail" /\ ~ Refused
  /\ Len(sailRun) <= Len(program)
  /\ LET before == Now(sailRun)
         word == program[Len(sailRun)]
         after == Step("sail", sailRun, word)
         rd == IF Writes(word) THEN word.rd ELSE 0
         write == [index |-> rd, value |-> IF rd = 0 THEN word.value ELSE after.regs[rd]]
         event == Normalize([order |-> Retired(sailRun), instruction |-> word,
                             pc_before |-> before.pc, pc_after |-> after.pc,
                             register_writes |-> Observe(shadow, write),
                             memory |-> {}, trap |-> after.trap, halt |-> after.halt])
         end == IF after.halt THEN TraceEnd("completed", "none") ELSE Running
     IN  /\ sailRun' = Append(sailRun, after)
         /\ shadow' = ShadowAfter(shadow, write)
         /\ sail' = [sail EXCEPT !.events = Append(@, event), !.end = end]
         /\ phase' = IF end = Running THEN "sail" ELSE "compare"
  /\ UNCHANGED sailOnly

SailCompletes ==
  /\ phase = "sail" /\ ~ Refused
  /\ Len(sailRun) > Len(program)
  /\ sail' = [sail EXCEPT !.end = TraceEnd("injection_complete", "none")]
  /\ phase' = "compare"
  /\ UNCHANGED <<sailRun, shadow, sailOnly>>

-----------------------------------------------------------------------------
(* run_case.                                                               *)

\* Only two Ok outcomes are compared.
CompareTraces ==
  /\ phase = "compare"
  /\ comparison' = IF ckb.ok /\ sail.ok THEN CompareWithPolicy(ckb, sail, Policy) ELSE NoResult
  /\ phase' = "report"
  /\ UNCHANGED <<program, deviates, ckbRun, cache, ckb, sailRun, shadow, sail, report>>

\* classify: an error string is CKB-VM's if it failed, else Sail's.
Classify ==
  CASE comparison # NoResult /\ Passed(comparison) -> "match"
    [] comparison # NoResult /\ ~ Passed(comparison) -> "unclassified_mismatch"
    [] comparison = NoResult ->
         LET error == IF ~ ckb.ok THEN ckb.end.detail ELSE sail.end.detail
         IN  IF error = "unsupported" THEN "unsupported" ELSE "runner_error"

\* The artifact is written, or not, or fails; a run whose evidence could not be
\* stored is not a clean pass.
Report ==
  /\ phase = "report"
  /\ \E artifact \in {"none", "written", "failed"} :
       report' = [passed |-> Passed(comparison) /\ artifact # "failed",
                  classification |-> IF artifact = "failed" THEN "runner_error" ELSE Classify]
  /\ phase' = "done"
  /\ UNCHANGED <<program, deviates, ckbRun, cache, ckb, sailRun, shadow, sail, comparison>>

Next ==
  \/ CkbRefuses \/ CkbLeavesWindow \/ CkbInjectFails \/ CkbStep \/ CkbCompletes
  \/ SailRefuses \/ SailFails \/ SailStep \/ SailCompletes
  \/ CompareTraces \/ Report

Spec == Init /\ [][Next]_vars

-----------------------------------------------------------------------------
(* Properties.                                                             *)

RegisterFile == {regs \in [Register -> Value] : regs[0] = 0}
Machine == [pc : Int, regs : RegisterFile, trap : BOOLEAN, halt : BOOLEAN]

\* Every variable has its type, and the interpreter never commits an event
\* outside the injection window (injection.rs: a branch that leaves the window
\* ends the trace with an error).
TypeOK ==
  /\ phase \in {"ckb", "sail", "compare", "report", "done"}
  /\ ckbRun \in Seq(Machine) /\ sailRun \in Seq(Machine)
  /\ shadow \in RegisterFile
  /\ ckb.ok \in BOOLEAN /\ sail.ok \in BOOLEAN
  /\ \A k \in DOMAIN ckb.events : ckb.events[k].pc_before \in 0..(Window - 1)
  /\ report.passed \in BOOLEAN

\* A pass means that the two engines went through the same machine states -
\* program counters, whole register files, traps and halts - from reset to the
\* end of a nonempty program: the observation by changes and by packets hides
\* no divergence, and nothing in run.rs turns a failure into a PASS.
PassMeansSameRun ==
  report.passed =>
    /\ ckbRun = sailRun
    /\ program # << >>
    /\ Len(ckbRun) = Len(program) + 1 \/ Now(ckbRun).halt
    /\ report.classification = "match"

\* Engines that behave alike, right or wrong, are never reported as different:
\* the shadow register file and the decoder reset remove what only an observer
\* would see.  Traps, halts and a program counter outside the window are
\* reported differently by the two sides.
AlikeEnginesMatch ==
  /\ phase = "done"
  /\ ckb.ok /\ sail.ok
  /\ deviates["ckb"] = deviates["sail"]
  /\ ckb.end.category = "injection_complete"
  /\ sail.end.category = "injection_complete"
  /\ \A k \in DOMAIN sailRun : ~ sailRun[k].trap
  => Passed(comparison)

\* A mismatch is reported at the first step in which the engines diverged, not
\* at a later consequence and not at an artefact of the observation.
MismatchIsFirstDivergence ==
  comparison.step # NoStep =>
    /\ \A k \in 1..(comparison.step + 1) : ckbRun[k] = sailRun[k]
    /\ comparison.field # "trace_length" =>
         ckbRun[comparison.step + 2] # sailRun[comparison.step + 2]
=============================================================================
