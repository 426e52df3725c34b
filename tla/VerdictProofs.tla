---------------------------- MODULE VerdictProofs ----------------------------
(***************************************************************************)
(* Proofs about the two verdicts that others rely on: that of a            *)
(* differential case, on the engines, and that of the release audit, on    *)
(* the evidence.  The two components share nothing; first Differential,    *)
(* then ReleaseAudit.                                                      *)
(*                                                                         *)
(* Differential, for any registers, values, instructions, programs,        *)
(* windows and defects of the engines: a case passes only if the two       *)
(* engines went through the same machine states, engines that behave       *)
(* alike match, and a mismatch names the first step that diverged.         *)
(* The crux is what the two observers show of a step: the interpreter the  *)
(* registers that changed, the model the register it wrote, filtered by a  *)
(* shadow file.  Both are ChangedRegisters of the step, and from machines  *)
(* that were equal before it, equal events make equal machines after it.   *)
(*                                                                         *)
(* ReleaseAudit, for any sources, clean rooms and number of changes: a     *)
(* record that answers is of one archive, and a passed audit of a checkout *)
(* that nobody changed is about one source.  The crux is that every        *)
(* difference between two archives along the way from the build to the     *)
(* last check was paid for by a change, and the record reads the archive   *)
(* so often that two changes never suffice; and that what an audit found   *)
(* stays true as long as nobody changes anything.                          *)
(***************************************************************************)
EXTENDS Differential, ReleaseAudit, FiniteSetTheorems, WellFoundedInduction, TLAPS

Write == [index : Register, value : Value]
Event ==
  [order : Nat, instruction : Instruction, pc_before : Int, pc_after : Int,
   register_writes : SUBSET Write, memory : {{}}, trap : BOOLEAN, halt : BOOLEAN]

\* What step k of a run shows, whoever observes it, but for its number.
Shown(run, k, order) ==
  [order |-> order, instruction |-> program[k],
   pc_before |-> run[k].pc, pc_after |-> run[k + 1].pc,
   register_writes |-> ChangedRegisters(run[k].regs, run[k + 1].regs),
   memory |-> {}, trap |-> run[k + 1].trap, halt |-> run[k + 1].halt]

-----------------------------------------------------------------------------
(* Register files.                                                         *)

\* 0 is a value, and Wrap is the reduction to the width of a register.
LEMMA ValueFacts == 0 \in Value /\ \A v \in Value : v \in Int
<1>1. Cardinality(Value) \in Int
  BY ValueAssumption, FS_CardinalityType
<1> QED BY <1>1, ValueAssumption

\* Reducing to the width of a register gives a value.
LEMMA WrapType == ASSUME NEW v \in Int PROVE Wrap(v) \in Value
<1> DEFINE n == Cardinality(Value)
<1>1. n \in Nat
  BY ValueAssumption, FS_CardinalityType
<1>2. 0 \in 0..(n - 1) /\ Value = 0..(n - 1)
  BY ValueAssumption
<1>3. Wrap(v) = v % n
  BY DEF Wrap
<1> HIDE DEF n
<1>4. v % n \in 0..(n - 1)
  BY <1>1, <1>2
<1> QED BY <1>2, <1>3, <1>4

\* A machine is of its type after a step if it was before, with or without a defect.
LEMMA ExecType ==
  ASSUME NEW i \in Instruction, NEW m \in Machine
  PROVE  Exec(i, m) \in Machine
<1>1. i.rd \in Register /\ i.value \in Int /\ (i.op = "set" => i.value \in Value)
  BY InstructionAssumption
<1>2. m.pc \in Int /\ m.regs \in RegisterFile
  BY DEF Machine
<1>3. \A v \in Value : SetRegister(m.regs, i.rd, v) \in RegisterFile
  BY <1>1, <1>2, RegisterAssumption DEF RegisterFile, SetRegister
<1>4. i.op = "add" => WrittenValue(i, m) \in Value
  <2>1. m.regs[i.rd] \in Int
    BY <1>1, <1>2, ValueFacts DEF RegisterFile
  <2> QED BY <2>1, <1>1, WrapType DEF WrittenValue
<1>5. Writes(i) => WrittenValue(i, m) \in Value
  BY <1>1, <1>4 DEF Writes, WrittenValue
<1>6. Exec(i, m).pc \in Int
  BY <1>1, <1>2 DEF Exec
<1>7. Exec(i, m).regs \in RegisterFile
  BY <1>2, <1>3, <1>5 DEF Exec
<1> QED BY <1>6, <1>7 DEF Exec, Machine

\* Whatever the defect does to a machine, it leaves one.
LEMMA DeviatedType ==
  ASSUME NEW i \in Instruction, NEW m \in Machine, NEW d
  PROVE  Deviated(d, i, m) \in Machine
<1>1. i.rd \in Register
  BY InstructionAssumption
<1>2. m.pc \in Int /\ m.regs \in RegisterFile /\ m.trap \in BOOLEAN /\ m.halt \in BOOLEAN
  BY DEF Machine
<1>3. \A r \in Register : m.regs[r] \in Int
  BY <1>2, ValueFacts DEF RegisterFile
<1>w. \A r \in Register : Wrap(m.regs[r] + 1) \in Value
  BY <1>3, WrapType
<1>4. i.rd # 0 => [m.regs EXCEPT ![i.rd] = Wrap(m.regs[i.rd] + 1)] \in RegisterFile
  BY <1>1, <1>2, <1>w, RegisterAssumption DEF RegisterFile
<1>5. [r \in Register |-> IF r = 0 THEN 0 ELSE Wrap(m.regs[r] + 1)] \in RegisterFile
  BY <1>w, ValueFacts, RegisterAssumption DEF RegisterFile
<1>6. m = [pc |-> m.pc, regs |-> m.regs, trap |-> m.trap, halt |-> m.halt]
  BY DEF Machine
<1>7. \/ Deviated(d, i, m) = m
      \/ Deviated(d, i, m) = [m EXCEPT !.pc = m.pc + 1]
      \/ Deviated(d, i, m) = [m EXCEPT !.trap = ~ m.trap]
      \/ Deviated(d, i, m) = [m EXCEPT !.halt = TRUE]
      \/ i.rd # 0 /\ Deviated(d, i, m) = [m EXCEPT !.regs = [m.regs EXCEPT ![i.rd] = Wrap(m.regs[i.rd] + 1)]]
      \/ Deviated(d, i, m) = [m EXCEPT !.regs = [r \in Register |-> IF r = 0 THEN 0 ELSE Wrap(m.regs[r] + 1)]]
  BY <1>6 DEF Deviated
<1>p. \A pc \in Int : [m EXCEPT !.pc = pc] \in Machine
  BY DEF Machine
<1>8. [m EXCEPT !.pc = m.pc + 1] \in Machine
  BY <1>2, <1>p
<1>h. [m EXCEPT !.halt = TRUE] \in Machine
  BY DEF Machine
<1>9. /\ \A regs \in RegisterFile : [m EXCEPT !.regs = regs] \in Machine
      /\ \A trap \in BOOLEAN : [m EXCEPT !.trap = trap] \in Machine
  BY DEF Machine
<1>t. [m EXCEPT !.trap = ~ m.trap] \in Machine
  BY <1>2, <1>9
<1> QED BY <1>4, <1>5, <1>7, <1>8, <1>9, <1>h, <1>t

\* One instruction takes a run from machine to machine.
LEMMA StepType ==
  ASSUME NEW i \in Instruction, NEW run \in Seq(Machine), run # << >>, NEW g
  PROVE  Step(g, run, i) \in Machine
<1>1. Now(run) \in Machine
  BY DEF Now
<1> QED BY <1>1, ExecType, DeviatedType DEF Step

\* Without the defect that clobbers others, a step changes no register but the
\* one its instruction writes, and none if it writes none or x0.
LEMMA StepFrame ==
  ASSUME NEW i \in Instruction, NEW run \in Seq(Machine), run # << >>, NEW g,
         deviates[g].kind # "clobber"
  PROVE  \A r \in Register :
           Step(g, run, i).regs[r] # Now(run).regs[r] => Writes(i) /\ r = i.rd /\ r # 0
<1> DEFINE m == Now(run)
           a == Exec(i, m)
<1>1. m \in Machine /\ a \in Machine
  BY ExecType DEF Now
<1>2. i.rd \in Register
  BY InstructionAssumption
<1>3. m.regs \in RegisterFile /\ a.regs \in RegisterFile
  BY <1>1 DEF Machine
<1>4. \A r \in Register : a.regs[r] # m.regs[r] => Writes(i) /\ r = i.rd /\ r # 0
  BY <1>2, <1>3 DEF Exec, SetRegister, RegisterFile
<1>5. \A r \in Register : Deviated(deviates[g], i, a).regs[r] # a.regs[r] => Writes(i) /\ r = i.rd /\ r # 0
  BY <1>1, <1>2, <1>3 DEF Deviated, Machine, RegisterFile
<1> QED BY <1>4, <1>5 DEF Step

\* What changed tells the register file after a step from the one before it.
LEMMA ChangesDetermine ==
  ASSUME NEW p \in RegisterFile, NEW a \in RegisterFile, NEW b \in RegisterFile,
         ChangedRegisters(p, a) = ChangedRegisters(p, b)
  PROVE  a = b
<1>1. \A r \in Register : a[r] = b[r]
  <2> SUFFICES ASSUME NEW r \in Register, a[r] # b[r] PROVE FALSE
    OBVIOUS
  <2>1. r # 0
    BY DEF RegisterFile
  <2>2. CASE a[r] # p[r]
    <3>1. [index |-> r, value |-> a[r]] \in ChangedRegisters(p, a)
      BY <2>1, <2>2 DEF ChangedRegisters
    <3>2. PICK x \in Register : [index |-> r, value |-> a[r]] = [index |-> x, value |-> b[x]]
      BY <3>1 DEF ChangedRegisters
    <3> QED BY <3>2
  <2>3. CASE b[r] # p[r]
    <3>1. [index |-> r, value |-> b[r]] \in ChangedRegisters(p, b)
      BY <2>1, <2>3 DEF ChangedRegisters
    <3>2. PICK x \in Register : [index |-> r, value |-> b[r]] = [index |-> x, value |-> a[x]]
      BY <3>1 DEF ChangedRegisters
    <3> QED BY <3>2
  <2> QED BY <2>2, <2>3
<1> QED BY <1>1 DEF RegisterFile

\* The packet of a step through the shadow file shows what changed.
LEMMA ObservedIsChanged ==
  ASSUME NEW p \in RegisterFile, NEW a \in RegisterFile,
         NEW w \in [index : Register, value : Int], w.index # 0 => w.value = a[w.index],
         \A r \in Register : a[r] # p[r] => r = w.index
  PROVE  /\ {x \in Observe(p, w) : x.index # 0} = ChangedRegisters(p, a)
         /\ ShadowAfter(p, w) = a
<1>1. w.index \in Register /\ w = [index |-> w.index, value |-> w.value]
  OBVIOUS
<1>2. ASSUME NEW x \in ChangedRegisters(p, a) PROVE x = w /\ w.index # 0 /\ p[w.index] # w.value
  BY <1>1, <1>2 DEF ChangedRegisters
<1>3. ASSUME w.index # 0, p[w.index] # w.value PROVE w \in ChangedRegisters(p, a)
  BY <1>1, <1>3 DEF ChangedRegisters
<1>4. {x \in Observe(p, w) : x.index # 0} = ChangedRegisters(p, a)
  BY <1>2, <1>3 DEF Observe
<1>5. ShadowAfter(p, w) = a
  <2>1. ShadowAfter(p, w) \in [Register -> Value] /\ a \in [Register -> Value]
    BY <1>1 DEF ShadowAfter, RegisterFile
  <2>2. \A r \in Register : ShadowAfter(p, w)[r] = a[r]
    BY <1>1 DEF ShadowAfter, RegisterFile
  <2> QED BY <2>1, <2>2
<1> QED BY <1>4, <1>5

-----------------------------------------------------------------------------
(* The inductive invariant.                                                *)

\* Step n of an engine, told from the machine before it.
StepFrom(g, n, m, i) ==
  IF deviates[g].step = n THEN Deviated(deviates[g], i, Exec(i, m)) ELSE Exec(i, m)

\* The instructions retired before step k of a run: its rvfi_order.
RetiredBefore(run, k) == Cardinality({j \in 2..k : ~ run[j].trap})

IsOutcome(o) ==
  /\ o = [ok |-> o.ok, events |-> o.events, end |-> o.end]
  /\ o.ok \in BOOLEAN /\ o.events \in Seq(Event)

Typed ==
  /\ phase \in {"ckb", "sail", "compare", "report", "done"}
  /\ program \in Seq(Instruction)
  /\ deviates["sail"].kind # "clobber"
  /\ ckbRun \in Seq(Machine) /\ sailRun \in Seq(Machine)
  /\ IsOutcome(ckb) /\ IsOutcome(sail)

\* A run goes from reset by the steps of its engine, and only its last machine
\* can have trapped (in CKB-VM) or stopped.
Runs ==
  /\ Len(ckbRun) \in 1..(Len(program) + 1) /\ Len(sailRun) \in 1..(Len(program) + 1)
  /\ ckbRun[1] = Reset /\ sailRun[1] = Reset
  /\ \A n \in 1..(Len(ckbRun) - 1) :
       /\ ckbRun[n + 1] = StepFrom("ckb", n, ckbRun[n], program[n])
       /\ ~ ckbRun[n].trap
  /\ \A n \in 1..(Len(sailRun) - 1) : sailRun[n + 1] = StepFrom("sail", n, sailRun[n], program[n])
  /\ phase = "ckb" => ~ Now(ckbRun).trap /\ Len(sailRun) = 1

\* The shadow file is the model's register file.
ShadowFollows == shadow = Now(sailRun).regs

\* An outcome that is Ok shows every step of its run.
CkbShows ==
  /\ ckb.ok => /\ Len(ckb.events) = Len(ckbRun) - 1
               /\ \A k \in 1..(Len(ckbRun) - 1) :
                    ckb.events[k] = Shown(ckbRun, k, k - 1) /\ InWindow(ckbRun[k].pc)
  /\ ~ ckb.ok => ckb.events = << >>

SailShows ==
  sail.ok => /\ Len(sail.events) = Len(sailRun) - 1
             /\ \A k \in 1..(Len(sailRun) - 1) :
                  sail.events[k] = Shown(sailRun, k, RetiredBefore(sailRun, k))

\* How a runner that returned Ok ended.
CkbEnded ==
  /\ phase = "ckb" => ckb.ok /\ ckb.end = Running
  /\ phase # "ckb" /\ ckb.ok =>
       /\ ~ Refused
       /\ \/ ckb.end.category = "error"
          \/ ckb.end.category = "completed" /\ Now(ckbRun).halt
          \/ ckb.end = TraceEnd("injection_complete", "none") /\ Len(ckbRun) = Len(program) + 1

SailEnded ==
  /\ phase \in {"ckb", "sail"} => sail.ok /\ sail.end = Running
  /\ phase \in {"compare", "report", "done"} /\ sail.ok =>
       \/ sail.end.category = "completed" /\ Now(sailRun).halt
       \/ sail.end = TraceEnd("injection_complete", "none") /\ Len(sailRun) = Len(program) + 1

\* Runs that showed the same so far are in the same machine: the next two
\* machines follow from what the step shows and the machine before it.
SameShown(k) == Shown(ckbRun, k, 0) = Shown(sailRun, k, 0)
ShownDetermines ==
  \A n \in 1..Len(ckbRun) :
    n <= Len(sailRun) /\ (\A k \in 1..(n - 1) : SameShown(k)) => ckbRun[n] = sailRun[n]

\* Engines that deviate alike are in the same machine after as many steps.
AlikeRuns ==
  deviates["ckb"] = deviates["sail"] =>
    \A n \in 1..Len(ckbRun) : n <= Len(sailRun) => ckbRun[n] = sailRun[n]

\* Only two Ok outcomes are compared, and the report says what came of it.
Verdict ==
  /\ phase \in {"ckb", "sail", "compare"} \/ ~ (ckb.ok /\ sail.ok) => comparison = NoResult
  /\ phase \in {"report", "done"} /\ ckb.ok /\ sail.ok =>
       comparison = CompareWithPolicy(ckb, sail, Policy)
  /\ report.passed \in BOOLEAN
  /\ report.passed => phase = "done" /\ Passed(comparison) /\ report.classification = "match"

IInv ==
  /\ Typed /\ Runs /\ ShadowFollows /\ CkbShows /\ SailShows /\ CkbEnded /\ SailEnded
  /\ ShownDetermines /\ AlikeRuns /\ Verdict

-----------------------------------------------------------------------------
(* The steps of the engines and what they show.                            *)

\* An event without a write to x0 or a memory access is already normal.
LEMMA NormalizeNormal ==
  ASSUME NEW order, NEW i, NEW before, NEW after, NEW writes, NEW trap, NEW halt
  PROVE  Normalize([order |-> order, instruction |-> i, pc_before |-> before, pc_after |-> after,
                    register_writes |-> writes, memory |-> {}, trap |-> trap, halt |-> halt])
         = [order |-> order, instruction |-> i, pc_before |-> before, pc_after |-> after,
            register_writes |-> {w \in writes : w.index # 0}, memory |-> {},
            trap |-> trap, halt |-> halt]
<1> DEFINE e == [order |-> order, instruction |-> i, pc_before |-> before, pc_after |-> after,
                 register_writes |-> writes, memory |-> {}, trap |-> trap, halt |-> halt]
<1>1. {m \in e.memory : m.read_mask # 0 \/ m.write_mask # 0} = {}
  OBVIOUS
<1>2. Normalize(e) = [e EXCEPT !.register_writes = {w \in writes : w.index # 0}, !.memory = {}]
  BY <1>1 DEF Normalize
<1> QED BY <1>2

\* x0 never changes, so no observer has to drop it.
LEMMA ChangedNotX0 ==
  ASSUME NEW p, NEW a
  PROVE  {w \in ChangedRegisters(p, a) : w.index # 0} = ChangedRegisters(p, a)
BY DEF ChangedRegisters

\* What a step of a run shows is an event.
LEMMA ShownType ==
  ASSUME NEW run \in Seq(Machine), NEW k \in 1..(Len(run) - 1), NEW order \in Nat,
         program[k] \in Instruction
  PROVE  Shown(run, k, order) \in Event
<1>1. run[k] \in Machine /\ run[k + 1] \in Machine
  OBVIOUS
<1>2. ChangedRegisters(run[k].regs, run[k + 1].regs) \in SUBSET Write
  BY <1>1 DEF ChangedRegisters, Write, Machine, RegisterFile
<1>3. /\ run[k].pc \in Int /\ run[k + 1].pc \in Int
      /\ run[k + 1].trap \in BOOLEAN /\ run[k + 1].halt \in BOOLEAN
  BY <1>1 DEF Machine
<1> QED BY <1>2, <1>3 DEF Shown, Event

\* A step of CKB-VM: the machine it appends and the event it pushes.  The cache
\* was reset, so the decoder decoded the word that was just stored.
LEMMA CkbStepIs ==
  ASSUME IInv, CkbStep
  PROVE  LET L == Len(ckbRun)
             after == Step("ckb", ckbRun, program[L])
         IN  /\ L \in 1..Len(program) /\ program[L] \in Instruction /\ after \in Machine
             /\ ckbRun' = Append(ckbRun, after)
             /\ ckb' = [ckb EXCEPT !.events = Append(ckb.events, Shown(ckbRun', L, L - 1)),
                                   !.end = IF after.trap THEN TraceEnd("error", "ckb trap")
                                           ELSE IF after.halt THEN TraceEnd("completed", "exit code")
                                           ELSE Running]
             /\ phase' = IF after.trap \/ after.halt THEN "sail" ELSE "ckb"
<1> DEFINE L == Len(ckbRun)
           after == Step("ckb", ckbRun, program[L])
           end == IF after.trap THEN TraceEnd("error", "ckb trap")
                  ELSE IF after.halt THEN TraceEnd("completed", "exit code") ELSE Running
<1>1. L \in 1..Len(program) /\ program[L] \in Instruction
  <2>1. Len(ckbRun) <= Len(program)
    BY Zenon DEF CkbStep
  <2> QED BY <2>1 DEF IInv, Typed, Runs
<1>2. after \in Machine
  <2>1. ckbRun \in Seq(Machine) /\ ckbRun # << >>
    BY DEF IInv, Typed, Runs
  <2> QED BY <1>1, <2>1, StepType
<1> DEFINE cold == ResetInstructionsCache(cache)
           pc == Now(ckbRun).pc
           decoded == IF pc \in DOMAIN cold THEN cold[pc] ELSE program[L]
           Pushed(a) == [ckb EXCEPT !.events = Append(@,
                           Normalize([order |-> L - 1, instruction |-> program[L],
                              pc_before |-> pc, pc_after |-> a.pc,
                              register_writes |-> ChangedRegisters(Now(ckbRun).regs, a.regs),
                              memory |-> {}, trap |-> a.trap, halt |-> a.halt])),
                            !.end = IF a.trap THEN TraceEnd("error", "ckb trap")
                                    ELSE IF a.halt THEN TraceEnd("completed", "exit code") ELSE Running]
<1>3. decoded = program[L]
  <2>1. DOMAIN << >> = {}
    OBVIOUS
  <2> QED BY <2>1 DEF ResetInstructionsCache
<1>a. /\ ckbRun' = Append(ckbRun, Step("ckb", ckbRun, decoded))
      /\ ckb' = Pushed(Step("ckb", ckbRun, decoded))
  BY Zenon DEF CkbStep
<1>b. phase' = IF end = Running THEN "ckb" ELSE "sail"
  BY <1>3 DEF CkbStep
<1>c. ckbRun' = Append(ckbRun, after) /\ ckb' = Pushed(after)
  <2> HIDE DEF decoded, Pushed
  <2> QED BY <1>3, <1>a, Zenon
<1>4. /\ ckbRun' = Append(ckbRun, after)
      /\ ckb' = [ckb EXCEPT !.events = Append(ckb.events,
                   Normalize([order |-> L - 1, instruction |-> program[L],
                              pc_before |-> Now(ckbRun).pc, pc_after |-> after.pc,
                              register_writes |-> ChangedRegisters(Now(ckbRun).regs, after.regs),
                              memory |-> {}, trap |-> after.trap, halt |-> after.halt])),
                            !.end = end]
      /\ phase' = IF end = Running THEN "ckb" ELSE "sail"
  BY <1>b, <1>c, Zenon
<1>5. ckbRun'[L] = Now(ckbRun) /\ ckbRun'[L + 1] = after
  <2>1. ckbRun \in Seq(Machine)
    BY DEF IInv, Typed
  <2>2. ckbRun' = Append(ckbRun, after)
    BY <1>4
  <2> HIDE DEF after
  <2> QED BY <1>1, <1>2, <2>1, <2>2 DEF Now
<1>6. Shown(ckbRun', L, L - 1)
        = Normalize([order |-> L - 1, instruction |-> program[L],
                     pc_before |-> Now(ckbRun).pc, pc_after |-> after.pc,
                     register_writes |-> ChangedRegisters(Now(ckbRun).regs, after.regs),
                     memory |-> {}, trap |-> after.trap, halt |-> after.halt])
  BY <1>5, NormalizeNormal, ChangedNotX0 DEF Shown
<1>7. (end = Running) <=> ~ (after.trap \/ after.halt)
  BY DEF TraceEnd, Running
<1> QED BY <1>1, <1>2, <1>4, <1>6, <1>7

\* A step of the Sail model: its packet, filtered by the shadow file, shows
\* what the step changed.
LEMMA SailStepIs ==
  ASSUME IInv, SailStep
  PROVE  LET L == Len(sailRun)
             after == Step("sail", sailRun, program[L])
         IN  /\ L \in 1..Len(program) /\ program[L] \in Instruction /\ after \in Machine
             /\ sailRun' = Append(sailRun, after)
             /\ shadow' = after.regs
             /\ sail' = [sail EXCEPT !.events = Append(sail.events, Shown(sailRun', L, Retired(sailRun))),
                                     !.end = IF after.halt THEN TraceEnd("completed", "none") ELSE Running]
             /\ phase' = IF after.halt THEN "compare" ELSE "sail"
<1> DEFINE L == Len(sailRun)
           word == program[L]
           after == Step("sail", sailRun, word)
           rd == IF Writes(word) THEN word.rd ELSE 0
           write == [index |-> rd, value |-> IF rd = 0 THEN word.value ELSE after.regs[rd]]
           end == IF after.halt THEN TraceEnd("completed", "none") ELSE Running
<1>1. L \in 1..Len(program) /\ word \in Instruction /\ sailRun \in Seq(Machine) /\ sailRun # << >>
  BY DEF IInv, Typed, Runs, SailStep
<1>2. after \in Machine
  BY <1>1, StepType
<1>3. Now(sailRun) \in Machine /\ shadow = Now(sailRun).regs
  BY <1>1 DEF Now, IInv, ShadowFollows
<1>4. shadow \in RegisterFile /\ after.regs \in RegisterFile
  BY <1>2, <1>3 DEF Machine
<1>5. word.rd \in Register /\ word.value \in Int
  BY <1>1, InstructionAssumption
<1>6. rd \in Register
  BY <1>5, RegisterAssumption
<1>7. write \in [index : Register, value : Int] /\ (write.index # 0 => write.value = after.regs[write.index])
  BY <1>4, <1>5, <1>6, ValueFacts DEF RegisterFile
<1>8. \A r \in Register : after.regs[r] # shadow[r] => r = write.index
  <2>1. deviates["sail"].kind # "clobber"
    BY DEF IInv, Typed
  <2>2. \A r \in Register : after.regs[r] # Now(sailRun).regs[r] => Writes(word) /\ r = word.rd
    BY <1>1, <2>1, StepFrame
  <2> QED BY <1>3, <2>2
<1>9. /\ {x \in Observe(shadow, write) : x.index # 0} = ChangedRegisters(shadow, after.regs)
      /\ ShadowAfter(shadow, write) = after.regs
  <2> HIDE DEF write, after
  <2> QED BY <1>4, <1>7, <1>8, ObservedIsChanged
<1>10. /\ sailRun' = Append(sailRun, after)
       /\ shadow' = ShadowAfter(shadow, write)
       /\ sail' = [sail EXCEPT !.events = Append(sail.events,
                   Normalize([order |-> Retired(sailRun), instruction |-> word,
                              pc_before |-> Now(sailRun).pc, pc_after |-> after.pc,
                              register_writes |-> Observe(shadow, write),
                              memory |-> {}, trap |-> after.trap, halt |-> after.halt])),
                               !.end = end]
       /\ phase' = IF end = Running THEN "sail" ELSE "compare"
  BY DEF SailStep
<1>11. sailRun'[L] = Now(sailRun) /\ sailRun'[L + 1] = after
  BY <1>1, <1>2, <1>10 DEF Now
<1>12. Shown(sailRun', L, Retired(sailRun))
        = Normalize([order |-> Retired(sailRun), instruction |-> word,
                     pc_before |-> Now(sailRun).pc, pc_after |-> after.pc,
                     register_writes |-> Observe(shadow, write),
                     memory |-> {}, trap |-> after.trap, halt |-> after.halt])
  <2> HIDE DEF write, after
  <2> QED BY <1>3, <1>9, <1>11, NormalizeNormal DEF Shown
<1>13. (end = Running) <=> ~ after.halt
  BY DEF TraceEnd, Running
<1> QED BY <1>1, <1>2, <1>9, <1>10, <1>12, <1>13

-----------------------------------------------------------------------------
(* The invariant holds initially and every action preserves it.            *)

LEMMA AppendAt ==
  ASSUME NEW run \in Seq(Machine), NEW m \in Machine
  PROVE  /\ Append(run, m) \in Seq(Machine)
         /\ Len(Append(run, m)) = Len(run) + 1
         /\ \A n \in 1..Len(run) : Append(run, m)[n] = run[n]
         /\ Append(run, m)[Len(run) + 1] = m
OBVIOUS

\* What the machines show and how many retired before a step does not depend
\* on the machines that follow.
LEMMA ShownOfPrefix ==
  ASSUME NEW run \in Seq(Machine), NEW m \in Machine, NEW k \in 1..(Len(run) - 1), NEW order
  PROVE  /\ Shown(Append(run, m), k, order) = Shown(run, k, order)
         /\ RetiredBefore(Append(run, m), k) = RetiredBefore(run, k)
<1>1. Append(run, m)[k] = run[k] /\ Append(run, m)[k + 1] = run[k + 1]
  BY AppendAt
<1>2. {j \in 2..k : ~ Append(run, m)[j].trap} = {j \in 2..k : ~ run[j].trap}
  BY AppendAt
<1> QED BY <1>1, <1>2 DEF Shown, RetiredBefore

\* The category of a trace that ended is the one it was ended with.
LEMMA EndCategory == ASSUME NEW c, NEW d PROVE TraceEnd(c, d).category = c
BY DEF TraceEnd

\* Both engines start from a machine.
LEMMA ResetType == Reset \in Machine
BY ValueFacts, RegisterAssumption DEF Reset, Machine, RegisterFile

\* A case starts with both runs at reset and nothing observed.
LEMMA InitInv == Init => IInv
<1> SUFFICES ASSUME Init PROVE IInv
  OBVIOUS
<1>1. program \in Seq(Instruction)
  <2>1. PICK n \in 0..MaxLength : program \in [1..n -> Instruction]
    BY DEF Init
  <2> QED BY <2>1, WindowAssumption
<1>2. /\ ckbRun = << Reset >> /\ sailRun = << Reset >> /\ phase = "ckb"
      /\ deviates["sail"].kind # "clobber"
      /\ ckb = [ok |-> TRUE, events |-> << >>, end |-> Running]
      /\ sail = [ok |-> TRUE, events |-> << >>, end |-> Running]
      /\ shadow = [r \in Register |-> 0]
      /\ comparison = NoResult /\ report = NoReport
  BY DEF Init
<1>3. Len(ckbRun) = 1 /\ Len(sailRun) = 1 /\ ckbRun[1] = Reset /\ sailRun[1] = Reset
  BY <1>2
<1>4. Typed
  <2>1. ckbRun \in Seq(Machine) /\ sailRun \in Seq(Machine)
    BY <1>2, ResetType
  <2>2. IsOutcome(ckb) /\ IsOutcome(sail)
    <3>1. << >> \in Seq(Event)
      OBVIOUS
    <3> QED BY <1>2, <3>1 DEF IsOutcome
  <2> QED BY <1>1, <1>2, <2>1, <2>2 DEF Typed
<1>5. Runs
  BY <1>1, <1>3 DEF Runs, Now, Reset
<1>6. ShadowFollows
  BY <1>2, <1>3 DEF ShadowFollows, Now, Reset
<1>7. CkbShows /\ SailShows
  BY <1>2, <1>3 DEF CkbShows, SailShows
<1>8. CkbEnded /\ SailEnded
  BY <1>2 DEF CkbEnded, SailEnded
<1>9. ShownDetermines /\ AlikeRuns
  BY <1>3 DEF ShownDetermines, AlikeRuns
<1>10. Verdict
  BY <1>2 DEF Verdict, NoReport
<1> QED BY <1>4, <1>5, <1>6, <1>7, <1>8, <1>9, <1>10 DEF IInv

\* What an action that leaves the runs alone preserves.
LEMMA SameRuns ==
  ASSUME IInv, UNCHANGED <<program, deviates, ckbRun, sailRun, shadow>>, phase' = "ckb" => phase = "ckb"
  PROVE  Runs' /\ ShadowFollows' /\ ShownDetermines' /\ AlikeRuns'
<1>1. Runs'
  BY DEF IInv, Runs, StepFrom, Now
<1>2. ShadowFollows' /\ ShownDetermines' /\ AlikeRuns'
  BY DEF IInv, ShadowFollows, ShownDetermines, AlikeRuns, SameShown, Shown, Now
<1> QED BY <1>1, <1>2

\* How CKB-VM's part may end without a step: with the events so far, or with none.
LEMMA CkbPartEnds ==
  ASSUME IInv, phase = "ckb", phase' = "sail", UNCHANGED ckbOnly, UNCHANGED ckbRun,
         IsOutcome(ckb'),
         ckb'.ok => /\ ckb'.events = ckb.events /\ ~ Refused
                    /\ \/ ckb'.end.category = "error"
                       \/ /\ ckb'.end = TraceEnd("injection_complete", "none")
                          /\ Len(ckbRun) = Len(program) + 1,
         ~ ckb'.ok => ckb'.events = << >>
  PROVE  IInv'
<1>1. Runs' /\ ShadowFollows' /\ ShownDetermines' /\ AlikeRuns'
  BY SameRuns DEF ckbOnly
<1>2. ckb.ok
  BY DEF IInv, CkbEnded
<1>3. Typed'
  BY DEF IInv, Typed, ckbOnly
<1>4. CkbShows'
  BY <1>2 DEF IInv, CkbShows, Shown, ckbOnly
<1>5. SailShows'
  BY DEF IInv, SailShows, Shown, RetiredBefore, ckbOnly
<1>6. CkbEnded'
  BY DEF CkbEnded, Refused, ckbOnly
<1>7. SailEnded'
  BY DEF IInv, SailEnded, ckbOnly
<1>8. Verdict'
  BY DEF IInv, Verdict, ckbOnly
<1> QED BY <1>1, <1>3, <1>4, <1>5, <1>6, <1>7, <1>8 DEF IInv

\* What Fail, and an end put on an outcome, are.
LEMMA FailIs ==
  ASSUME NEW kind
  PROVE  IsOutcome(Fail(kind)) /\ ~ Fail(kind).ok /\ Fail(kind).events = << >>
<1>1. << >> \in Seq(Event)
  OBVIOUS
<1> QED BY <1>1 DEF Fail, IsOutcome

\* Ending a trace changes nothing but its end.
LEMMA EndIs ==
  ASSUME NEW o, IsOutcome(o), NEW end
  PROVE  /\ IsOutcome([o EXCEPT !.end = end])
         /\ [o EXCEPT !.end = end].events = o.events
         /\ [o EXCEPT !.end = end].ok = o.ok
         /\ [o EXCEPT !.end = end].end = end
<1>1. [o EXCEPT !.end = end] = [ok |-> o.ok, events |-> o.events, end |-> end]
  BY DEF IsOutcome
<1> QED BY <1>1 DEF IsOutcome

\* A program the runner refuses leaves the run of the VM at reset.
LEMMA CkbRefusesInv == IInv /\ CkbRefuses => IInv'
<1> SUFFICES ASSUME IInv, CkbRefuses PROVE IInv'
  OBVIOUS
<1>1. ckb' = Fail(RefusalKind)
  BY DEF CkbRefuses
<1>2. IsOutcome(ckb') /\ ~ ckb'.ok /\ ckb'.events = << >>
  BY <1>1, FailIs
<1> QED BY <1>2, CkbPartEnds DEF CkbRefuses

\* The runner ends in one of its three ways: what it has shown is then final.
LEMMA CkbEndsInv ==
  IInv /\ (CkbLeavesWindow \/ CkbInjectFails \/ CkbCompletes) => IInv'
<1> SUFFICES ASSUME IInv, CkbLeavesWindow \/ CkbInjectFails \/ CkbCompletes PROVE IInv'
  OBVIOUS
<1>1. IsOutcome(ckb) /\ Len(ckbRun) \in 1..(Len(program) + 1)
  BY DEF IInv, Typed, Runs
<1>2. /\ phase = "ckb" /\ phase' = "sail" /\ ~ Refused /\ UNCHANGED ckbRun /\ UNCHANGED ckbOnly
  BY DEF CkbLeavesWindow, CkbInjectFails, CkbCompletes, CkbEnds
<1>3. CASE \E end :
             /\ ckb' = [ckb EXCEPT !.end = end]
             /\ \/ end.category = "error"
                \/ end = TraceEnd("injection_complete", "none") /\ Len(ckbRun) = Len(program) + 1
  <2>1. PICK end :
             /\ ckb' = [ckb EXCEPT !.end = end]
             /\ \/ end.category = "error"
                \/ end = TraceEnd("injection_complete", "none") /\ Len(ckbRun) = Len(program) + 1
    BY <1>3
  <2>2. IsOutcome(ckb') /\ ckb'.events = ckb.events /\ ckb'.end = end /\ ckb'.ok = ckb.ok
    BY <1>1, <2>1, EndIs
  <2>3. ckb.ok
    BY <1>2 DEF IInv, CkbEnded
  <2> QED BY <1>2, <2>1, <2>2, <2>3, CkbPartEnds
<1>4. CASE ckb' = Fail("decoder")
  <2>1. IsOutcome(ckb') /\ ~ ckb'.ok /\ ckb'.events = << >>
    BY <1>4, FailIs
  <2> QED BY <1>2, <2>1, CkbPartEnds
<1>5. CkbLeavesWindow \/ CkbInjectFails =>
        \/ ckb' = Fail("decoder")
        \/ \E kind : ckb' = [ckb EXCEPT !.end = TraceEnd("error", kind)]
  BY DEF CkbLeavesWindow, CkbInjectFails, CkbEnds
<1>6. CkbCompletes => /\ Len(ckbRun) = Len(program) + 1
                      /\ ckb' = [ckb EXCEPT !.end = TraceEnd("injection_complete", "none")]
  BY <1>1 DEF CkbCompletes, CkbEnds
<1>7. \A d : TraceEnd("error", d).category = "error"
  BY EndCategory
<1> QED BY <1>3, <1>4, <1>5, <1>6, <1>7

\* An outcome that grows by an event.
LEMMA PushFields ==
  ASSUME NEW o, IsOutcome(o), NEW events, NEW end
  PROVE  [o EXCEPT !.events = events, !.end = end] = [ok |-> o.ok, events |-> events, end |-> end]
<1> DEFINE R == [ok |-> o.ok, events |-> o.events, end |-> o.end]
           Q == [ok |-> o.ok, events |-> events, end |-> o.end]
           First(r) == [r EXCEPT !.events = events]
           Second(r) == [r EXCEPT !.end = end]
<1>1. o = R
  BY DEF IsOutcome
<1>2. First(R) = Q
  OBVIOUS
<1>3. Second(Q) = [ok |-> o.ok, events |-> events, end |-> end]
  OBVIOUS
<1>4. First(o) = Q
  <2> HIDE DEF R, First
  <2> QED BY <1>1, <1>2
<1>5. Second(First(o)) = Second(Q)
  <2> HIDE DEF Q, First, Second
  <2> QED BY <1>4
<1>6. [o EXCEPT !.events = events, !.end = end] = Second(First(o))
  BY Zenon
<1> HIDE DEF R, Q, First, Second
<1> QED BY <1>3, <1>5, <1>6, Zenon

\* A pushed event is the last one of the trace, and the others stay.
LEMMA PushIs ==
  ASSUME NEW o, IsOutcome(o), NEW event \in Event, NEW end, NEW pushed,
         pushed = [ok |-> o.ok, events |-> Append(o.events, event), end |-> end]
  PROVE  /\ IsOutcome(pushed) /\ pushed.ok = o.ok /\ pushed.end = end
         /\ pushed.events = Append(o.events, event)
<1>1. Append(o.events, event) \in Seq(Event)
  BY DEF IsOutcome
<1> QED BY <1>1 DEF IsOutcome

\* One step of the VM, and the event the interpreter reports of it.
LEMMA CkbStepInv == IInv /\ CkbStep => IInv'
<1> SUFFICES ASSUME IInv, CkbStep PROVE IInv'
  OBVIOUS
<1> DEFINE L == Len(ckbRun)
           after == Step("ckb", ckbRun, program[L])
           event == Shown(ckbRun', L, L - 1)
           end == IF after.trap THEN TraceEnd("error", "ckb trap")
                  ELSE IF after.halt THEN TraceEnd("completed", "exit code") ELSE Running
<1>1. /\ L \in 1..Len(program) /\ program[L] \in Instruction /\ after \in Machine
      /\ ckbRun' = Append(ckbRun, after)
      /\ ckb' = [ckb EXCEPT !.events = Append(ckb.events, event), !.end = end]
      /\ phase' = IF after.trap \/ after.halt THEN "sail" ELSE "ckb"
  BY CkbStepIs, Zenon
<1>2. /\ phase = "ckb" /\ ~ Refused /\ InWindow(Now(ckbRun).pc)
      /\ UNCHANGED <<program, deviates, sailRun, shadow, sail, comparison, report>>
  BY Zenon DEF CkbStep, ckbOnly
<1>3. ckbRun \in Seq(Machine) /\ IsOutcome(ckb) /\ ckb.ok
  BY <1>2 DEF IInv, Typed, CkbEnded
<1>4. after = StepFrom("ckb", L, ckbRun[L], program[L])
  BY DEF Step, StepFrom, Now
<1>5. /\ ckbRun' \in Seq(Machine) /\ Len(ckbRun') = L + 1
      /\ \A n \in 1..L : ckbRun'[n] = ckbRun[n]
      /\ ckbRun'[L + 1] = after
  <2>1. ckbRun' = Append(ckbRun, after) /\ after \in Machine
    BY <1>1
  <2> HIDE DEF after
  <2> QED BY <1>3, <2>1, AppendAt
<1>6. event \in Event
  <2>1. L \in 1..(Len(ckbRun') - 1) /\ L - 1 \in Nat
    BY <1>1, <1>5
  <2>2. program[L] \in Instruction
    BY <1>1
  <2> HIDE DEF L
  <2> QED BY <1>5, <2>1, <2>2, ShownType
<1>7. /\ IsOutcome(ckb') /\ ckb'.ok /\ ckb'.end = end
      /\ ckb'.events = Append(ckb.events, event)
  <2>1. ckb' = [ckb EXCEPT !.events = Append(ckb.events, event), !.end = end]
    BY <1>1, Zenon
  <2> HIDE DEF event, end
  <2>2. ckb' = [ok |-> ckb.ok, events |-> Append(ckb.events, event), end |-> end]
    BY <1>3, <2>1, PushFields, Zenon
  <2> QED BY <1>3, <1>6, <2>2, PushIs
<1>8. Typed'
  <2>1. phase' \in {"ckb", "sail"}
    BY <1>1, Zenon
  <2> QED BY <1>2, <1>5, <1>7, <2>1 DEF IInv, Typed
<1>9. Runs'
  <2>1. /\ L \in 1..Len(program) /\ Len(sailRun) = 1 /\ ckbRun[1] = Reset /\ sailRun[1] = Reset
        /\ ~ ckbRun[L].trap
        /\ \A n \in 1..(L - 1) : ckbRun[n + 1] = StepFrom("ckb", n, ckbRun[n], program[n]) /\ ~ ckbRun[n].trap
    BY <1>1, <1>2 DEF IInv, Runs, Now
  <2>2. phase' = "ckb" => ~ after.trap
    BY <1>1, Zenon
  <2> HIDE DEF after, L
  <2>3. \A n \in 1..L : ckbRun'[n + 1] = StepFrom("ckb", n, ckbRun'[n], program[n]) /\ ~ ckbRun'[n].trap
    <3> SUFFICES ASSUME NEW n \in 1..L
                 PROVE  ckbRun'[n + 1] = StepFrom("ckb", n, ckbRun'[n], program[n]) /\ ~ ckbRun'[n].trap
      OBVIOUS
    <3>1. CASE n = L
      BY <1>4, <1>5, <2>1, <3>1
    <3>2. CASE n # L
      BY <1>5, <2>1, <3>2
    <3> QED BY <3>1, <3>2
  <2> QED BY <1>2, <1>5, <2>1, <2>2, <2>3 DEF Runs, Now, StepFrom
<1>10. ShadowFollows' /\ SailShows'
  BY <1>2 DEF IInv, ShadowFollows, SailShows, Now, Shown, RetiredBefore
<1>11. CkbShows'
  <2>1. Len(ckb.events) = L - 1 /\ ckb.events \in Seq(Event)
        /\ \A k \in 1..(L - 1) : ckb.events[k] = Shown(ckbRun, k, k - 1) /\ InWindow(ckbRun[k].pc)
    BY <1>3 DEF IInv, CkbShows, IsOutcome
  <2>2. InWindow(ckbRun[L].pc)
    BY <1>2 DEF Now
  <2>3. \A k \in 1..(L - 1) : Shown(ckbRun', k, k - 1) = Shown(ckbRun, k, k - 1)
    <3>1. ckbRun' = Append(ckbRun, after) /\ after \in Machine
      BY <1>1
    <3> HIDE DEF after
    <3> QED BY <1>3, <3>1, ShownOfPrefix
  <2>4. Len(ckb'.events) = L /\ ckb'.events[L] = event
        /\ \A k \in 1..(L - 1) : ckb'.events[k] = ckb.events[k]
    <3> HIDE DEF event, L
    <3> QED BY <1>1, <1>6, <1>7, <2>1 DEF L
  <2>5. \A k \in 1..L : ckb'.events[k] = Shown(ckbRun', k, k - 1) /\ InWindow(ckbRun'[k].pc)
    <3> SUFFICES ASSUME NEW k \in 1..L
                 PROVE  ckb'.events[k] = Shown(ckbRun', k, k - 1) /\ InWindow(ckbRun'[k].pc)
      OBVIOUS
    <3>1. CASE k = L
      BY <1>5, <2>2, <2>4, <3>1
    <3>2. CASE k # L
      <4>1. k \in 1..(L - 1)
        BY <1>1, <3>2
      <4> QED BY <1>5, <2>1, <2>3, <2>4, <4>1
    <3> QED BY <3>1, <3>2
  <2>6. \A k : Shown(ckbRun, k, k - 1)' = Shown(ckbRun', k, k - 1)
    BY <1>2 DEF Shown
  <2>7. Len(ckbRun') - 1 = L
    BY <1>1, <1>5
  <2> HIDE DEF L
  <2> QED BY <1>7, <2>4, <2>5, <2>6, <2>7 DEF CkbShows, InWindow
<1>12. CkbEnded'
  <2>1. phase' = "ckb" => end = Running
    BY <1>1, Zenon
  <2>2. phase' # "ckb" => \/ end.category = "error"
                          \/ end.category = "completed" /\ after.halt
    <3>1. phase' # "ckb" => after.trap \/ after.halt
      BY <1>1, Zenon
    <3> HIDE DEF after
    <3> QED BY <3>1, EndCategory
  <2>3. Now(ckbRun)' = after
    BY <1>5 DEF Now
  <2>4. Refused' = Refused
    BY <1>2 DEF Refused
  <2> HIDE DEF after, end
  <2> QED BY <1>2, <1>7, <2>1, <2>2, <2>3, <2>4 DEF CkbEnded
<1>13. SailEnded' /\ Verdict'
  <2>1. phase' \in {"ckb", "sail"}
    BY <1>1, Zenon
  <2> QED BY <1>2, <2>1 DEF IInv, SailEnded, Verdict
<1>14. ShownDetermines' /\ AlikeRuns'
  <2>1. Len(sailRun') = 1 /\ sailRun'[1] = Reset /\ ckbRun'[1] = Reset
    BY <1>1, <1>2, <1>5 DEF IInv, Runs
  <2> QED BY <1>5, <2>1 DEF ShownDetermines, AlikeRuns
<1> QED BY <1>8, <1>9, <1>10, <1>11, <1>12, <1>13, <1>14 DEF IInv

\* How the model's part may end without a step: with the events of the whole
\* program, or with a failure.
LEMMA SailPartEnds ==
  ASSUME IInv, phase = "sail", phase' = "compare", UNCHANGED sailOnly, UNCHANGED <<sailRun, shadow>>,
         IsOutcome(sail'),
         sail'.ok => /\ sail'.events = sail.events
                     /\ sail'.end = TraceEnd("injection_complete", "none")
                     /\ Len(sailRun) = Len(program) + 1
  PROVE  IInv'
<1>1. Runs' /\ ShadowFollows' /\ ShownDetermines' /\ AlikeRuns'
  BY SameRuns DEF sailOnly
<1>2. sail.ok
  BY DEF IInv, SailEnded
<1>3. Typed'
  BY DEF IInv, Typed, sailOnly
<1>4. CkbShows'
  BY DEF IInv, CkbShows, Shown, InWindow, sailOnly
<1>5. SailShows'
  BY <1>2 DEF IInv, SailShows, Shown, RetiredBefore, sailOnly
<1>6. CkbEnded'
  BY DEF IInv, CkbEnded, Refused, Now, sailOnly
<1>7. SailEnded'
  BY DEF SailEnded, sailOnly
<1>8. Verdict'
  BY DEF IInv, Verdict, sailOnly
<1> QED BY <1>1, <1>3, <1>4, <1>5, <1>6, <1>7, <1>8 DEF IInv

\* The session ends, well or not, with what it has shown.
LEMMA SailEndsInv == IInv /\ (SailRefuses \/ SailFails \/ SailCompletes) => IInv'
<1> SUFFICES ASSUME IInv, SailRefuses \/ SailFails \/ SailCompletes PROVE IInv'
  OBVIOUS
<1>1. /\ phase = "sail" /\ phase' = "compare" /\ UNCHANGED <<sailRun, shadow>> /\ UNCHANGED sailOnly
  BY DEF SailRefuses, SailFails, SailCompletes
<1>2. CASE \E kind : sail' = Fail(kind)
  <2>1. IsOutcome(sail') /\ ~ sail'.ok
    BY <1>2, FailIs
  <2> QED BY <1>1, <2>1, SailPartEnds
<1>3. CASE SailCompletes
  <2>1. sail' = [sail EXCEPT !.end = TraceEnd("injection_complete", "none")] /\ Len(sailRun) > Len(program)
    BY <1>3 DEF SailCompletes
  <2>2. IsOutcome(sail) /\ Len(sailRun) = Len(program) + 1
    BY <2>1 DEF IInv, Typed, Runs
  <2>3. /\ IsOutcome(sail') /\ sail'.events = sail.events
        /\ sail'.end = TraceEnd("injection_complete", "none")
    BY <2>1, <2>2, EndIs
  <2> QED BY <1>1, <2>2, <2>3, SailPartEnds
<1>4. CASE SailRefuses \/ SailFails
  BY <1>2, <1>4 DEF SailRefuses, SailFails
<1> QED BY <1>3, <1>4

\* From the same machine, steps that show the same lead to the same machine.
LEMMA SameShownSameMachine ==
  ASSUME NEW r \in Seq(Machine), NEW s \in Seq(Machine), NEW k \in Nat \ {0},
         k + 1 <= Len(r), k + 1 <= Len(s), r[k] = s[k], Shown(r, k, 0) = Shown(s, k, 0)
  PROVE  r[k + 1] = s[k + 1]
<1>1. r[k] \in Machine /\ r[k + 1] \in Machine /\ s[k + 1] \in Machine
  OBVIOUS
<1>2. /\ r[k + 1].pc = s[k + 1].pc /\ r[k + 1].trap = s[k + 1].trap /\ r[k + 1].halt = s[k + 1].halt
      /\ ChangedRegisters(r[k].regs, r[k + 1].regs) = ChangedRegisters(r[k].regs, s[k + 1].regs)
  BY DEF Shown
<1>3. r[k + 1].regs = s[k + 1].regs
  BY <1>1, <1>2, ChangesDetermine DEF Machine
<1>4. \A m \in Machine : m = [pc |-> m.pc, regs |-> m.regs, trap |-> m.trap, halt |-> m.halt]
  BY DEF Machine
<1> QED BY <1>1, <1>2, <1>3, <1>4

\* One step of the model, its packet filtered by the shadow file.
LEMMA SailStepInv == IInv /\ SailStep => IInv'
<1> SUFFICES ASSUME IInv, SailStep PROVE IInv'
  OBVIOUS
<1> DEFINE L == Len(sailRun)
           after == Step("sail", sailRun, program[L])
           event == Shown(sailRun', L, Retired(sailRun))
           end == IF after.halt THEN TraceEnd("completed", "none") ELSE Running
<1>1. /\ L \in 1..Len(program) /\ program[L] \in Instruction /\ after \in Machine
      /\ sailRun' = Append(sailRun, after)
      /\ shadow' = after.regs
      /\ sail' = [sail EXCEPT !.events = Append(sail.events, event), !.end = end]
      /\ phase' = IF after.halt THEN "compare" ELSE "sail"
  BY SailStepIs, Zenon
<1>2. phase = "sail" /\ UNCHANGED <<program, deviates, ckbRun, ckb, comparison, report>>
  BY Zenon DEF SailStep, sailOnly
<1>3. /\ sailRun \in Seq(Machine) /\ IsOutcome(sail) /\ sail.ok
      /\ ckbRun \in Seq(Machine)
  BY <1>2 DEF IInv, Typed, SailEnded
<1>4. after = StepFrom("sail", L, sailRun[L], program[L])
  BY DEF Step, StepFrom, Now
<1>5. /\ sailRun' \in Seq(Machine) /\ Len(sailRun') = L + 1
      /\ \A n \in 1..L : sailRun'[n] = sailRun[n]
      /\ sailRun'[L + 1] = after
  <2>1. sailRun' = Append(sailRun, after) /\ after \in Machine
    BY <1>1
  <2> HIDE DEF after
  <2> QED BY <1>3, <2>1, AppendAt
<1>6. event \in Event
  <2>1. L \in 1..(Len(sailRun') - 1) /\ program[L] \in Instruction
    BY <1>1, <1>5
  <2>2. Retired(sailRun) \in Nat
    <3>1. IsFiniteSet(2..Len(sailRun))
      BY <1>3, FS_Interval
    <3>2. IsFiniteSet({k \in 2..Len(sailRun) : ~ sailRun[k].trap})
      BY <3>1, FS_Subset
    <3> QED BY <3>2, FS_CardinalityType DEF Retired
  <2> HIDE DEF L
  <2> QED BY <1>5, <2>1, <2>2, ShownType
<1>7. IsOutcome(sail') /\ sail'.ok /\ sail'.end = end /\ sail'.events = Append(sail.events, event)
  <2>1. sail' = [sail EXCEPT !.events = Append(sail.events, event), !.end = end]
    BY <1>1, Zenon
  <2> HIDE DEF event, end
  <2>2. sail' = [ok |-> sail.ok, events |-> Append(sail.events, event), end |-> end]
    BY <1>3, <2>1, PushFields, Zenon
  <2> QED BY <1>3, <1>6, <2>2, PushIs
<1>p. phase' \in {"sail", "compare"} /\ (phase' = "sail" => end = Running)
      /\ (phase' = "compare" => end.category = "completed" /\ after.halt)
  <2>1. /\ after.halt => phase' = "compare" /\ end = TraceEnd("completed", "none")
        /\ ~ after.halt => phase' = "sail" /\ end = Running
    BY <1>1, Zenon
  <2> HIDE DEF after, end
  <2> QED BY <2>1, EndCategory
<1>8. Typed'
  BY <1>2, <1>5, <1>7, <1>p DEF IInv, Typed
<1>9. Runs'
  <2>1. /\ L \in 1..Len(program)
        /\ \A n \in 1..(L - 1) : sailRun[n + 1] = StepFrom("sail", n, sailRun[n], program[n])
    BY <1>1 DEF IInv, Runs
  <2> HIDE DEF after, L
  <2>2. \A n \in 1..L : sailRun'[n + 1] = StepFrom("sail", n, sailRun'[n], program[n])
    <3> SUFFICES ASSUME NEW n \in 1..L PROVE sailRun'[n + 1] = StepFrom("sail", n, sailRun'[n], program[n])
      OBVIOUS
    <3>1. CASE n = L
      BY <1>4, <1>5, <2>1, <3>1
    <3>2. CASE n # L
      BY <1>5, <2>1, <3>2
    <3> QED BY <3>1, <3>2
  <2>3. sailRun'[1] = Reset
    BY <1>5, <2>1 DEF IInv, Runs
  <2>4. Len(sailRun') = L + 1 /\ phase' # "ckb"
    BY <1>5, <1>p
  <2> QED BY <1>2, <2>1, <2>2, <2>3, <2>4 DEF IInv, Runs, StepFrom
<1>10. ShadowFollows'
  BY <1>1, <1>5 DEF ShadowFollows, Now
<1>11. CkbShows' /\ CkbEnded'
  BY <1>2, <1>p DEF IInv, CkbShows, CkbEnded, Shown, InWindow, Refused, Now
<1>12. SailShows'
  <2>1. Len(sail.events) = L - 1 /\ sail.events \in Seq(Event)
        /\ \A k \in 1..(L - 1) : sail.events[k] = Shown(sailRun, k, RetiredBefore(sailRun, k))
    BY <1>3 DEF IInv, SailShows, IsOutcome
  <2>2. \A k \in 1..(L - 1) : Shown(sailRun', k, RetiredBefore(sailRun', k))
                                = Shown(sailRun, k, RetiredBefore(sailRun, k))
    <3>1. sailRun' = Append(sailRun, after) /\ after \in Machine
      BY <1>1
    <3> HIDE DEF after
    <3> QED BY <1>3, <3>1, ShownOfPrefix
  <2>3. RetiredBefore(sailRun', L) = Retired(sailRun)
    <3>1. {j \in 2..L : ~ sailRun'[j].trap} = {j \in 2..L : ~ sailRun[j].trap}
      BY <1>5
    <3> QED BY <3>1 DEF RetiredBefore, Retired
  <2>4. Len(sail'.events) = L /\ sail'.events[L] = event
        /\ \A k \in 1..(L - 1) : sail'.events[k] = sail.events[k]
    <3> HIDE DEF event, L
    <3> QED BY <1>1, <1>6, <1>7, <2>1 DEF L
  <2>5. \A k \in 1..L : sail'.events[k] = Shown(sailRun', k, RetiredBefore(sailRun', k))
    <3> SUFFICES ASSUME NEW k \in 1..L
                 PROVE  sail'.events[k] = Shown(sailRun', k, RetiredBefore(sailRun', k))
      OBVIOUS
    <3>1. CASE k = L
      BY <2>3, <2>4, <3>1
    <3>2. CASE k # L
      <4>1. k \in 1..(L - 1)
        BY <1>1, <3>2
      <4> QED BY <2>1, <2>2, <2>4, <4>1
    <3> QED BY <3>1, <3>2
  <2>6. \A k : Shown(sailRun, k, RetiredBefore(sailRun, k))' = Shown(sailRun', k, RetiredBefore(sailRun', k))
    BY <1>2 DEF Shown, RetiredBefore
  <2>7. Len(sailRun') - 1 = L
    BY <1>1, <1>5
  <2> HIDE DEF L
  <2> QED BY <1>7, <2>4, <2>5, <2>6, <2>7 DEF SailShows
<1>13. SailEnded'
  <2>1. Now(sailRun)' = after
    BY <1>5 DEF Now
  <2> HIDE DEF after, end
  <2> QED BY <1>7, <1>p, <2>1 DEF SailEnded
<1>14. Verdict'
  BY <1>2, <1>p DEF IInv, Verdict
<1>15. ShownDetermines'
  <2> SUFFICES ASSUME NEW n \in 1..Len(ckbRun), n <= L + 1,
                      \A k \in 1..(n - 1) : Shown(ckbRun, k, 0) = Shown(sailRun', k, 0)
               PROVE  ckbRun[n] = sailRun'[n]
    BY <1>2, <1>5 DEF ShownDetermines, SameShown, Shown
  <2>1. L \in Nat \ {0} /\ L <= Len(program)
    BY <1>1
  <2>2. \A k \in 1..(L - 1) : Shown(sailRun', k, 0) = Shown(sailRun, k, 0)
    <3>1. sailRun' = Append(sailRun, after) /\ after \in Machine
      BY <1>1
    <3> HIDE DEF after
    <3> QED BY <1>3, <3>1, ShownOfPrefix
  <2>3. ASSUME NEW m \in 1..Len(ckbRun), m <= L, m <= n PROVE ckbRun[m] = sailRun[m]
    <3>1. \A k \in 1..(m - 1) : SameShown(k)
      BY <2>1, <2>2, <2>3 DEF SameShown
    <3> QED BY <2>3, <3>1 DEF IInv, ShownDetermines
  <2>4. CASE n <= L
    BY <1>5, <2>3, <2>4
  <2>5. CASE n = L + 1
    <3>1. ckbRun[L] = sailRun'[L]
      BY <1>5, <2>1, <2>3, <2>5
    <3>2. Shown(ckbRun, L, 0) = Shown(sailRun', L, 0)
      BY <2>1, <2>5
    <3> HIDE DEF L
    <3> QED BY <1>3, <1>5, <2>1, <2>5, <3>1, <3>2, SameShownSameMachine
  <2> QED BY <2>1, <2>4, <2>5
<1>16. AlikeRuns'
  <2> SUFFICES ASSUME deviates["ckb"] = deviates["sail"], NEW n \in 1..Len(ckbRun), n <= L + 1
               PROVE  ckbRun[n] = sailRun'[n]
    BY <1>2, <1>5 DEF AlikeRuns
  <2>1. L \in Nat \ {0}
    BY <1>1
  <2>2. \A m \in 1..Len(ckbRun) : m <= L => ckbRun[m] = sailRun[m]
    BY DEF IInv, AlikeRuns
  <2>3. CASE n <= L
    BY <1>5, <2>2, <2>3
  <2>4. CASE n = L + 1
    <3>1. ckbRun[n] = StepFrom("ckb", L, ckbRun[L], program[L])
      BY <2>1, <2>4 DEF IInv, Runs
    <3>2. ckbRun[L] = sailRun[L]
      BY <2>1, <2>2, <2>4
    <3>3. StepFrom("ckb", L, sailRun[L], program[L]) = StepFrom("sail", L, sailRun[L], program[L])
      BY DEF StepFrom
    <3> HIDE DEF after, L
    <3> QED BY <1>4, <1>5, <2>4, <3>1, <3>2, <3>3
  <2> QED BY <2>1, <2>3, <2>4
<1> QED BY <1>8, <1>9, <1>10, <1>11, <1>12, <1>13, <1>14, <1>15, <1>16 DEF IInv

\* The comparison finds the first position at which the events differ.
LEMMA CompareTracesInv == IInv /\ CompareTraces => IInv'
<1> SUFFICES ASSUME IInv, CompareTraces PROVE IInv'
  OBVIOUS
<1>1. /\ phase = "compare" /\ phase' = "report"
      /\ UNCHANGED <<program, deviates, ckbRun, cache, ckb, sailRun, shadow, sail, report>>
      /\ comparison' = IF ckb.ok /\ sail.ok THEN CompareWithPolicy(ckb, sail, Policy) ELSE NoResult
  BY DEF CompareTraces
<1>2. Runs' /\ ShadowFollows' /\ ShownDetermines' /\ AlikeRuns'
  BY <1>1, SameRuns
<1>3. Typed' /\ CkbShows' /\ SailShows'
  BY <1>1 DEF IInv, Typed, CkbShows, SailShows, Shown, RetiredBefore, InWindow
<1>4. CkbEnded' /\ SailEnded'
  BY <1>1 DEF IInv, CkbEnded, SailEnded, Refused, Now
<1>5. Verdict'
  BY <1>1 DEF IInv, Verdict
<1> QED BY <1>2, <1>3, <1>4, <1>5 DEF IInv

\* The report copies the outcome of the comparison.
LEMMA ReportInv == IInv /\ Report => IInv'
<1> SUFFICES ASSUME IInv, Report PROVE IInv'
  OBVIOUS
<1>1. /\ phase = "report" /\ phase' = "done"
      /\ UNCHANGED <<program, deviates, ckbRun, cache, ckb, sailRun, shadow, sail, comparison>>
  BY DEF Report
<1>2. PICK artifact \in {"none", "written", "failed"} :
        report' = [passed |-> Passed(comparison) /\ artifact # "failed",
                   classification |-> IF artifact = "failed" THEN "runner_error" ELSE Classify]
  BY DEF Report
<1>3. /\ report'.passed \in BOOLEAN
      /\ report'.passed => Passed(comparison) /\ report'.classification = Classify
  BY <1>2
<1>4. Passed(comparison) => Classify = "match"
  <2>1. Passed(comparison) => comparison # NoResult
    <3>1. NoResult.field # "none"
      BY DEF NoResult
    <3> QED BY <3>1 DEF Passed
  <2> QED BY <2>1 DEF Classify
<1>5. Runs' /\ ShadowFollows' /\ ShownDetermines' /\ AlikeRuns'
  BY <1>1, SameRuns
<1>6. Typed' /\ CkbShows' /\ SailShows'
  BY <1>1 DEF IInv, Typed, CkbShows, SailShows, Shown, RetiredBefore, InWindow
<1>7. CkbEnded' /\ SailEnded'
  BY <1>1 DEF IInv, CkbEnded, SailEnded, Refused, Now
<1>8. Verdict'
  BY <1>1, <1>3, <1>4 DEF IInv, Verdict
<1> QED BY <1>5, <1>6, <1>7, <1>8 DEF IInv

\* The invariant is inductive.
LEMMA NextInv == IInv /\ [Next]_vars => IInv'
<1> SUFFICES ASSUME IInv, [Next]_vars PROVE IInv'
  OBVIOUS
<1>1. CASE UNCHANGED vars
  <2>1. Runs' /\ ShadowFollows' /\ ShownDetermines' /\ AlikeRuns'
    BY <1>1, SameRuns DEF vars
  <2>2. Typed' /\ CkbShows' /\ SailShows' /\ CkbEnded' /\ SailEnded' /\ Verdict'
    BY <1>1 DEF vars, IInv, Typed, CkbShows, SailShows, Shown, RetiredBefore, InWindow,
                CkbEnded, SailEnded, Refused, Now, Verdict
  <2> QED BY <2>1, <2>2 DEF IInv
<1>2. CASE Next
  BY <1>2, CkbRefusesInv, CkbEndsInv, CkbStepInv, SailEndsInv, SailStepInv, CompareTracesInv,
     ReportInv DEF Next
<1> QED BY <1>1, <1>2

\* The inductive invariant is an invariant of the case.
THEOREM Invariant == Spec => []IInv
<1> QED BY InitInv, NextInv, PTL DEF Spec

-----------------------------------------------------------------------------
(* What follows for the comparison.                                        *)

\* Every variable has its type, and no event is committed outside the window.
THEOREM TypeCorrect == Spec => []TypeOK
<1>1. IInv => TypeOK
  <2> SUFFICES ASSUME IInv PROVE TypeOK
    OBVIOUS
  <2>1. Typed /\ Runs /\ ShadowFollows /\ CkbShows /\ Verdict
    BY DEF IInv
  <2>2. shadow \in RegisterFile
    <3>1. Now(sailRun) \in Machine
      BY <2>1 DEF Typed, Runs, Now
    <3> QED BY <2>1, <3>1 DEF ShadowFollows, Machine
  <2>3. \A k \in DOMAIN ckb.events : ckb.events[k].pc_before \in 0..(Window - 1)
    <3>1. CASE ~ ckb.ok
      BY <2>1, <3>1 DEF CkbShows
    <3>2. CASE ckb.ok
      <4> SUFFICES ASSUME NEW k \in DOMAIN ckb.events
                   PROVE  ckb.events[k].pc_before \in 0..(Window - 1)
        OBVIOUS
      <4>1. k \in 1..(Len(ckbRun) - 1)
        BY <2>1, <3>2 DEF CkbShows, Typed, IsOutcome
      <4>2. ckb.events[k] = Shown(ckbRun, k, k - 1) /\ InWindow(ckbRun[k].pc)
        BY <2>1, <3>2, <4>1 DEF CkbShows
      <4>3. ckbRun[k].pc \in Int
        <5>1. ckbRun[k] \in Machine
          BY <2>1, <4>1 DEF Typed
        <5> QED BY <5>1 DEF Machine
      <4> QED BY <4>2, <4>3, WindowAssumption DEF Shown, InWindow
    <3> QED BY <2>1, <3>1, <3>2 DEF Typed, IsOutcome
  <2> QED BY <2>1, <2>2, <2>3 DEF TypeOK, Typed, IsOutcome, Verdict
<1> QED BY <1>1, Invariant, PTL

\* Two Ok traces agree on the steps before the first that differs, and so do
\* the machines that the steps lead to.
LEMMA EqualEventsEqualRuns ==
  ASSUME IInv, ckb.ok, sail.ok, NEW n \in Nat, n < Len(ckbRun), n < Len(sailRun),
         \A k \in 1..n : ckb.events[k] = sail.events[k]
  PROVE  \A k \in 1..(n + 1) : ckbRun[k] = sailRun[k]
<1>1. ASSUME NEW k \in 1..n PROVE SameShown(k)
  <2>1. k \in 1..(Len(ckbRun) - 1) /\ k \in 1..(Len(sailRun) - 1)
    BY DEF IInv, Typed
  <2>2. Shown(ckbRun, k, k - 1) = Shown(sailRun, k, RetiredBefore(sailRun, k))
    BY <2>1 DEF IInv, CkbShows, SailShows
  <2> QED BY <2>2 DEF SameShown, Shown
<1>2. ASSUME NEW k \in 1..(n + 1) PROVE ckbRun[k] = sailRun[k]
  <2>1. k \in 1..Len(ckbRun) /\ k <= Len(sailRun)
    BY DEF IInv, Typed
  <2>2. \A j \in 1..(k - 1) : SameShown(j)
    BY <1>1
  <2> QED BY <2>1, <2>2 DEF IInv, ShownDetermines
<1> QED BY <1>2

\* The smallest element of a nonempty set of numbers.
LEMMA LeastIs ==
  ASSUME NEW S \in SUBSET Nat, S # {}
  PROVE  Least(S) \in S /\ \A m \in S : Least(S) <= m
<1> DEFINE R == OpToRel(<, Nat)
<1>1. IsWellFoundedOn(R, Nat)
  BY NatLessThanWellFounded
<1>2. \A x, y \in Nat : x < y => <<x, y>> \in R
  BY DEF OpToRel
<1> HIDE DEF R
<1>3. PICK n \in S : \A m \in S : ~ (<<m, n>> \in R)
  BY <1>1, WFMin
<1>4. ASSUME NEW m \in S PROVE n <= m
  <2>1. n \in Nat /\ m \in Nat
    BY <1>3
  <2>2. ~ (m < n)
    BY <1>2, <1>3, <2>1
  <2> QED BY <2>1, <2>2
<1> QED BY <1>3, <1>4 DEF Least

\* A comparison was made of two Ok outcomes of a program that was not refused.
LEMMA ComparisonIs ==
  ASSUME IInv, comparison # NoResult
  PROVE  /\ comparison = CompareWithPolicy(ckb, sail, Policy)
         /\ ckb.ok /\ sail.ok /\ ~ Refused
         /\ phase \in {"report", "done"}
<1>1. ckb.ok /\ sail.ok /\ phase \notin {"ckb", "sail", "compare"}
  BY DEF IInv, Verdict, Typed, IsOutcome
<1>2. phase \in {"report", "done"}
  BY <1>1 DEF IInv, Typed
<1> QED BY <1>1, <1>2 DEF IInv, Verdict, CkbEnded

\* The lengths of the traces and the steps where they differ.
LEMMA TracesAre ==
  ASSUME IInv, ckb.ok, sail.ok
  PROVE  /\ ckb.events \in Seq(Event) /\ sail.events \in Seq(Event)
         /\ Len(ckb.events) = Len(ckbRun) - 1 /\ Len(sail.events) = Len(sailRun) - 1
         /\ Common(ckb, sail) \in Nat
         /\ Common(ckb, sail) <= Len(ckb.events) /\ Common(ckb, sail) <= Len(sail.events)
         /\ DifferingSteps(ckb, sail) \in SUBSET (0..(Common(ckb, sail) - 1))
         /\ \A k \in 0..(Common(ckb, sail) - 1) :
              k \in DifferingSteps(ckb, sail) <=> ckb.events[k + 1] # sail.events[k + 1]
<1>1. /\ ckb.events \in Seq(Event) /\ sail.events \in Seq(Event)
      /\ Len(ckb.events) = Len(ckbRun) - 1 /\ Len(sail.events) = Len(sailRun) - 1
  BY DEF IInv, Typed, IsOutcome, CkbShows, SailShows
<1>2. /\ Common(ckb, sail) \in Nat
      /\ Common(ckb, sail) <= Len(ckb.events) /\ Common(ckb, sail) <= Len(sail.events)
  BY <1>1 DEF Common
<1> QED BY <1>1, <1>2 DEF DifferingSteps

\* Two events that differ differ in a field, and the field has a name.
LEMMA DifferingFieldIs ==
  ASSUME NEW a \in Event, NEW b \in Event, a # b
  PROVE  DifferingField(a, b) # "none" /\ DifferingField(a, b) # "trace_length"
<1> DEFINE F == {f \in DOMAIN Fields : a[Fields[f]] # b[Fields[f]]}
<1>1. DOMAIN Fields = 1..8
  BY DEF Fields
<1>2. \A f \in 1..8 : Fields[f] \in {"order", "instruction", "pc_before", "pc_after",
                                     "register_writes", "memory", "trap", "halt"}
  BY DEF Fields
<1>3. \E f \in 1..8 : a[Fields[f]] # b[Fields[f]]
  <2> SUFFICES ASSUME \A f \in 1..8 : a[Fields[f]] = b[Fields[f]] PROVE FALSE
    OBVIOUS
  <2>1. /\ a.order = b.order /\ a.instruction = b.instruction /\ a.pc_before = b.pc_before
        /\ a.pc_after = b.pc_after /\ a.register_writes = b.register_writes
        /\ a.memory = b.memory /\ a.trap = b.trap /\ a.halt = b.halt
    <3>1. /\ a[Fields[1]] = b[Fields[1]] /\ a[Fields[2]] = b[Fields[2]]
          /\ a[Fields[3]] = b[Fields[3]] /\ a[Fields[4]] = b[Fields[4]]
          /\ a[Fields[5]] = b[Fields[5]] /\ a[Fields[6]] = b[Fields[6]]
          /\ a[Fields[7]] = b[Fields[7]] /\ a[Fields[8]] = b[Fields[8]]
      OBVIOUS
    <3> QED BY <3>1 DEF Fields
  <2>2. \A e \in Event : e = [order |-> e.order, instruction |-> e.instruction,
                              pc_before |-> e.pc_before, pc_after |-> e.pc_after,
                              register_writes |-> e.register_writes, memory |-> e.memory,
                              trap |-> e.trap, halt |-> e.halt]
    BY DEF Event
  <2> QED BY <2>1, <2>2
<1>4. F # {} /\ F \in SUBSET Nat /\ F \subseteq 1..8
  BY <1>1, <1>3
<1>5. Least(F) \in F
  <2> HIDE DEF F
  <2> QED BY <1>4, LeastIs
<1>6. DifferingField(a, b) = Fields[Least(F)]
  BY DEF DifferingField
<1> QED BY <1>2, <1>4, <1>5, <1>6

\* A mismatch of events is at the first step where they differ.
LEMMA EventMismatchIs ==
  ASSUME IInv, ckb.ok, sail.ok, DifferingSteps(ckb, sail) # {},
         comparison = CompareWithPolicy(ckb, sail, Policy)
  PROVE  /\ comparison.step \in 0..(Common(ckb, sail) - 1)
         /\ comparison.field \notin {"none", "trace_length"}
         /\ ckb.events[comparison.step + 1] # sail.events[comparison.step + 1]
         /\ \A k \in 1..comparison.step : ckb.events[k] = sail.events[k]
<1> DEFINE D == DifferingSteps(ckb, sail)
           c == Common(ckb, sail)
           n == Least(D)
<1>1. D \in SUBSET Nat /\ D # {}
  BY TracesAre
<1>2. n \in D /\ \A m \in D : n <= m
  BY <1>1, LeastIs
<1>3. /\ n \in 0..(c - 1) /\ ckb.events[n + 1] # sail.events[n + 1]
      /\ ckb.events[n + 1] \in Event /\ sail.events[n + 1] \in Event
  <2> HIDE DEF n
  <2> QED BY <1>2, TracesAre
<1>4. \A k \in 1..n : ckb.events[k] = sail.events[k]
  <2> SUFFICES ASSUME NEW k \in 1..n, ckb.events[k] # sail.events[k] PROVE FALSE
    OBVIOUS
  <2> HIDE DEF n
  <2>1. k - 1 \in 0..(c - 1) /\ (k - 1) + 1 = k
    BY <1>3, TracesAre
  <2>2. k - 1 \in D
    BY <2>1, TracesAre
  <2> QED BY <1>2, <1>3, <2>2
<1>5. comparison = Mismatch(n, n, DifferingField(ckb.events[n + 1], sail.events[n + 1]))
  BY DEF CompareWithPolicy
<1>6. comparison.step = n /\ comparison.field = DifferingField(ckb.events[n + 1], sail.events[n + 1])
  BY <1>5 DEF Mismatch
<1>7. comparison.field \notin {"none", "trace_length"}
  BY <1>3, <1>6, DifferingFieldIs
<1> HIDE DEF n
<1> QED BY <1>3, <1>4, <1>6, <1>7

\* Without one, the lengths, the terminations and the emptiness decide.
LEMMA SameEventsResult ==
  ASSUME IInv, ckb.ok, sail.ok, DifferingSteps(ckb, sail) = {},
         comparison = CompareWithPolicy(ckb, sail, Policy)
  PROVE  /\ \A k \in 1..Common(ckb, sail) : ckb.events[k] = sail.events[k]
         /\ Len(ckb.events) # Len(sail.events) =>
              comparison.step = Common(ckb, sail) /\ comparison.field = "trace_length"
         /\ Len(ckb.events) = Len(sail.events) =>
              /\ comparison.step = NoStep
              /\ Passed(comparison) <=> /\ TerminalMatches(ckb.end, sail.end, Policy)
                                        /\ Common(ckb, sail) # 0
<1>1. \A k \in 1..Common(ckb, sail) : ckb.events[k] = sail.events[k]
  <2> SUFFICES ASSUME NEW k \in 1..Common(ckb, sail) PROVE ckb.events[k] = sail.events[k]
    OBVIOUS
  <2>1. k - 1 \in 0..(Common(ckb, sail) - 1) /\ (k - 1) + 1 = k
    BY TracesAre
  <2> QED BY <2>1, TracesAre
<1> QED BY <1>1 DEF CompareWithPolicy, Mismatch, Passed

\* A trap in CKB-VM ends the trace, so an order is the number of the step in
\* both engines as long as their runs agree.
LEMMA OrdersAgree ==
  ASSUME IInv, NEW k \in 1..(Len(ckbRun) - 1), k < Len(sailRun),
         \A j \in 1..k : ckbRun[j] = sailRun[j]
  PROVE  RetiredBefore(sailRun, k) = k - 1
<1>1. k \in Nat /\ k >= 1
  BY DEF IInv, Typed
<1>2. \A j \in 2..k : ~ sailRun[j].trap
  BY DEF IInv, Runs, Typed
<1>3. {j \in 2..k : ~ sailRun[j].trap} = 2..k
  BY <1>2
<1>4. Cardinality(2..k) = k - 1
  <2>1. Cardinality(2..k) = IF 2 > k THEN 0 ELSE k - 2 + 1
    BY <1>1, FS_Interval
  <2> QED BY <1>1, <2>1
<1> QED BY <1>3, <1>4 DEF RetiredBefore

\* A PASS means that both engines went through the same machine states, from
\* reset to the end of a nonempty program: the two observers of run_case hide
\* no divergence.
THEOREM PassIsSameRun == Spec => []PassMeansSameRun
<1>1. IInv => PassMeansSameRun
  <2> SUFFICES ASSUME IInv, report.passed PROVE PassMeansSameRun
    BY DEF PassMeansSameRun
  <2>1. Passed(comparison) /\ report.classification = "match"
    BY DEF IInv, Verdict
  <2>2. comparison # NoResult
    <3>1. NoResult.field # "none"
      BY DEF NoResult
    <3> QED BY <2>1, <3>1 DEF Passed
  <2>3. /\ comparison = CompareWithPolicy(ckb, sail, Policy)
        /\ ckb.ok /\ sail.ok /\ ~ Refused /\ phase \in {"report", "done"}
    BY <2>2, ComparisonIs
  <2>4. DifferingSteps(ckb, sail) = {}
    <3>1. comparison.field = "none"
      BY <2>1 DEF Passed
    <3> QED BY <2>3, <3>1, EventMismatchIs
  <2>5. /\ Len(ckb.events) = Len(sail.events)
        /\ TerminalMatches(ckb.end, sail.end, Policy)
        /\ \A k \in 1..Common(ckb, sail) : ckb.events[k] = sail.events[k]
    <3>1. comparison.field # "trace_length"
      BY <2>1 DEF Passed
    <3> QED BY <2>1, <2>3, <2>4, <3>1, SameEventsResult
  <2>6. /\ Len(ckbRun) = Len(sailRun) /\ Len(ckbRun) \in Nat \ {0}
        /\ Common(ckb, sail) = Len(ckbRun) - 1
    <3>1. Common(ckb, sail) = Len(ckb.events)
      BY <2>5 DEF Common
    <3>2. Len(ckbRun) \in Nat \ {0} /\ Len(sailRun) \in Nat \ {0}
      BY DEF IInv, Runs, Typed
    <3>3. Len(ckb.events) = Len(ckbRun) - 1 /\ Len(sail.events) = Len(sailRun) - 1
      BY <2>3, TracesAre
    <3>4. Len(ckbRun) - 1 = Len(sailRun) - 1 /\ Common(ckb, sail) = Len(ckbRun) - 1
      BY <2>5, <3>1, <3>3
    <3>5. \A m, n \in Nat : m - 1 = n - 1 => m = n
      OBVIOUS
    <3> QED BY <3>2, <3>4, <3>5
  <2>7. \A k \in 1..Len(ckbRun) : ckbRun[k] = sailRun[k]
    <3> DEFINE n == Len(ckbRun) - 1
    <3>1. n \in Nat /\ n < Len(ckbRun) /\ n < Len(sailRun) /\ n + 1 = Len(ckbRun)
      BY <2>6
    <3>2. \A k \in 1..n : ckb.events[k] = sail.events[k]
      BY <2>5, <2>6
    <3> HIDE DEF n
    <3>3. \A k \in 1..(n + 1) : ckbRun[k] = sailRun[k]
      BY <2>3, <3>1, <3>2, EqualEventsEqualRuns
    <3> QED BY <3>1, <3>3
  <2>8. ckbRun = sailRun
    BY <2>6, <2>7 DEF IInv, Typed
  <2>9. ckb.end.category = sail.end.category
    BY <2>5 DEF TerminalMatches
  <2>10. Len(ckbRun) = Len(program) + 1 \/ Now(ckbRun).halt
    <3>1. \/ sail.end.category = "completed" /\ Now(sailRun).halt
          \/ Len(sailRun) = Len(program) + 1
      BY <2>3 DEF IInv, SailEnded
    <3> QED BY <2>8, <3>1
  <2>11. program # << >>
    BY <2>3 DEF Refused
  <2> QED BY <2>1, <2>8, <2>10, <2>11 DEF PassMeansSameRun
<1> QED BY <1>1, Invariant, PTL

\* A mismatch that names a step names the first one after which the machines
\* differ, and not a consequence or an artefact of the observation.
THEOREM MismatchIsFirst == Spec => []MismatchIsFirstDivergence
<1>1. IInv => MismatchIsFirstDivergence
  <2> SUFFICES ASSUME IInv, comparison.step # NoStep
               PROVE  /\ \A k \in 1..(comparison.step + 1) : ckbRun[k] = sailRun[k]
                      /\ comparison.field # "trace_length" =>
                           ckbRun[comparison.step + 2] # sailRun[comparison.step + 2]
    BY DEF MismatchIsFirstDivergence
  <2> DEFINE n == comparison.step
  <2>1. comparison # NoResult
    <3>1. NoResult.step = NoStep
      BY DEF NoResult
    <3> QED BY <3>1
  <2>2. comparison = CompareWithPolicy(ckb, sail, Policy) /\ ckb.ok /\ sail.ok
    BY <2>1, ComparisonIs
  <2>3. CASE DifferingSteps(ckb, sail) = {}
    <3>1. n = Common(ckb, sail) /\ comparison.field = "trace_length"
      BY <2>2, <2>3, SameEventsResult
    <3>2. \A k \in 1..n : ckb.events[k] = sail.events[k]
      BY <2>2, <2>3, <3>1, SameEventsResult
    <3>3. n \in Nat /\ n < Len(ckbRun) /\ n < Len(sailRun)
      BY <2>2, <3>1, TracesAre DEF IInv, Typed
    <3> QED BY <2>2, <3>1, <3>2, <3>3, EqualEventsEqualRuns
  <2>4. CASE DifferingSteps(ckb, sail) # {}
    <3>1. /\ n \in 0..(Common(ckb, sail) - 1)
          /\ ckb.events[n + 1] # sail.events[n + 1]
          /\ \A k \in 1..n : ckb.events[k] = sail.events[k]
      BY <2>2, <2>4, EventMismatchIs
    <3>2. n \in Nat /\ n + 1 \in 1..(Len(ckbRun) - 1) /\ n + 1 \in 1..(Len(sailRun) - 1)
      BY <2>2, <3>1, TracesAre DEF IInv, Typed
    <3> HIDE DEF n
    <3>3. \A k \in 1..(n + 1) : ckbRun[k] = sailRun[k]
      BY <2>2, <3>1, <3>2, EqualEventsEqualRuns DEF IInv, Typed
    <3>4. ASSUME ckbRun[n + 2] = sailRun[n + 2] PROVE FALSE
      <4>1. RetiredBefore(sailRun, n + 1) = (n + 1) - 1
        BY <3>2, <3>3, OrdersAgree
      <4>2. /\ ckb.events[n + 1] = Shown(ckbRun, n + 1, (n + 1) - 1)
            /\ sail.events[n + 1] = Shown(sailRun, n + 1, RetiredBefore(sailRun, n + 1))
        BY <2>2, <3>2 DEF IInv, CkbShows, SailShows
      <4>3. ckbRun[n + 1] = sailRun[n + 1] /\ ckbRun[(n + 1) + 1] = sailRun[(n + 1) + 1]
        BY <3>2, <3>3, <3>4
      <4>4. Shown(ckbRun, n + 1, (n + 1) - 1) = Shown(sailRun, n + 1, (n + 1) - 1)
        BY <4>3 DEF Shown
      <4> QED BY <3>1, <4>1, <4>2, <4>4
    <3> QED BY <3>3, <3>4 DEF n
  <2> QED BY <2>3, <2>4
<1> QED BY <1>1, Invariant, PTL

\* Engines that behave alike, defects included, match: the shadow file and the
\* reset of the decoder remove what only an observer would see.
THEOREM AlikeMatch == Spec => []AlikeEnginesMatch
<1>1. IInv => AlikeEnginesMatch
  <2> SUFFICES ASSUME IInv, phase = "done", ckb.ok, sail.ok,
                      deviates["ckb"] = deviates["sail"],
                      ckb.end.category = "injection_complete",
                      sail.end.category = "injection_complete",
                      \A k \in DOMAIN sailRun : ~ sailRun[k].trap
               PROVE  Passed(comparison)
    BY DEF AlikeEnginesMatch
  <2>1. comparison = CompareWithPolicy(ckb, sail, Policy) /\ ~ Refused
    BY DEF IInv, Verdict, CkbEnded
  <2>2. /\ ckb.end = TraceEnd("injection_complete", "none") /\ Len(ckbRun) = Len(program) + 1
        /\ sail.end = TraceEnd("injection_complete", "none") /\ Len(sailRun) = Len(program) + 1
    BY DEF IInv, CkbEnded, SailEnded
  <2>3. \A n \in 1..Len(ckbRun) : ckbRun[n] = sailRun[n]
    BY <2>2 DEF IInv, AlikeRuns
  <2>4. Len(ckb.events) = Len(program) /\ Len(sail.events) = Len(program) /\ Len(program) \in Nat
    BY <2>2, TracesAre DEF IInv, Typed
  <2>5. ASSUME NEW k \in 1..Len(program) PROVE ckb.events[k] = sail.events[k]
    <3>1. k \in 1..(Len(ckbRun) - 1) /\ k \in 1..(Len(sailRun) - 1) /\ k < Len(sailRun)
      BY <2>2, <2>4
    <3>2. \A j \in 1..k : ckbRun[j] = sailRun[j]
      BY <2>2, <2>3, <2>4
    <3>3. RetiredBefore(sailRun, k) = k - 1
      BY <3>1, <3>2, OrdersAgree
    <3>4. ckb.events[k] = Shown(ckbRun, k, k - 1) /\ sail.events[k] = Shown(sailRun, k, k - 1)
      BY <3>1, <3>3 DEF IInv, CkbShows, SailShows
    <3>5. ckbRun[k] = sailRun[k] /\ ckbRun[k + 1] = sailRun[k + 1]
      BY <2>2, <2>3, <2>4
    <3> QED BY <3>4, <3>5 DEF Shown
  <2>6. Common(ckb, sail) = Len(program)
    BY <2>4 DEF Common
  <2>7. DifferingSteps(ckb, sail) = {}
    BY <2>4, <2>5, <2>6 DEF DifferingSteps
  <2>8. Len(program) # 0
    BY <2>1, <2>4 DEF Refused, IInv, Typed
  <2>9. TerminalMatches(ckb.end, sail.end, Policy)
    BY <2>2 DEF TerminalMatches
  <2> QED BY <2>1, <2>4, <2>6, <2>7, <2>8, <2>9, SameEventsResult
<1> QED BY <1>1, Invariant, PTL

-----------------------------------------------------------------------------
(* ReleaseAudit.                                                           *)

(* The places of the commands.  Those that two commands share belong to the  *)
(* one that called.                                                          *)
Packing == {"capture", "capsule", "export", "exported", "copy", "pack", "recapture"}
RecordPlaces == {"signature", "download", "report", "check"}
Judging == {"check signature", "check assets", "check downloads", "check capsule"}
AuditPlaces ==
  {"runtime", "lean", "rocq", "clean room", "release", "verified", "invalid", "third party", "claims", "aggregate"}
Places ==
  {"idle", "recorded", "audited", "collected", "ci", "vm"} \cup Packing \cup RecordPlaces \cup Judging \cup AuditPlaces

Maybe(S) == S \cup {None}
Archives == [manifest : Maybe(Version), capsule : Maybe(Version), pinned : BOOLEAN]
Releases == [archive : Maybe(Archives), sig : Maybe(Archives), tool : BOOLEAN]
Results == [archive : Archives, snapshot : Maybe(Version)]
Reports == [archive : Maybe(Archives), snapshot : Maybe(Version), tool : BOOLEAN]
Directories ==
  [archive : Maybe(Archives), tool : BOOLEAN, result : Maybe(Results), sig : Maybe(Archives),
   downloads : Maybe(Releases), report : Maybe(Reports)]
Commands ==
  [pc : Places, caller : Maybe({"record", "collect", "audit"}), snapshot : Maybe(Version),
   capsule : Maybe(Version), pinned : BOOLEAN]
SlotKnowledge ==
  [invalid : BOOLEAN, outstanding : BOOLEAN, snapshots : SUBSET Maybe(Version),
   policies : SUBSET Version, began : Nat]

PackageTyped ==
  /\ root \in Version /\ inputs \in BOOLEAN /\ edits \in Nat
  /\ dir \in Directories /\ release \in Maybe(Releases) /\ cmd \in Commands
EvidenceTyped ==
  /\ ran \in [Room -> Maybe(Version)] /\ room \in Maybe(Room) /\ bundle \in Maybe(Room)
  /\ ci \in Maybe([room : Maybe(Room), archived : Maybe(Room)])
  /\ slots \in SlotKnowledge

-----------------------------------------------------------------------------
Recording == cmd.pc \in RecordPlaces \/ (cmd.pc \in Judging /\ cmd.caller = "record")
Auditing == cmd.pc \in AuditPlaces \/ (cmd.pc \in Judging \cup {"ci", "vm"} /\ cmd.caller = "audit")

\* What the commands leave behind one another.
ReleaseOrder ==
  /\ cmd.pc \in RecordPlaces => cmd.caller = "record"
  /\ cmd.pc \in Packing => release = None /\ dir.result = None /\ dir.sig = None
  /\ dir.sig # None => dir.result # None
  /\ dir.result # None => dir.result.archive.manifest = dir.result.snapshot
  /\ release # None => dir.sig # None /\ release.sig = dir.sig
  /\ dir.downloads # None => release # None /\ dir.downloads = release
  /\ dir.report # None => release # None /\ dir.report.snapshot = dir.result.snapshot
  /\ Recording => release # None
  /\ Recording /\ cmd.pc \notin {"signature", "download"} => dir.downloads # None
  /\ cmd.pc \in Judging \cup {"verified"} => dir.report # None

\* Every difference is an edit that was made.
Off(x, y) == IF x = y THEN 0 ELSE 1
PartedBy(capsule, snapshot) == IF capsule = snapshot THEN 0 ELSE IF root = snapshot THEN 2 ELSE 1

Built == dir.result.archive
Parted == IF Built.capsule = dir.result.snapshot THEN 0 ELSE 2
ToSign == Parted + Off(Built, dir.sig)
ToPublish == ToSign + Off(dir.sig, release.archive)
ToBegin == ToPublish + Off(release.archive, Built)
ToSignature == ToBegin + Off(Built, dir.sig)
ToDownload == ToSignature + Off(dir.sig, release.archive)
ToJudge == ToDownload + Off(release.archive, dir.sig)
ToAssets == ToJudge + Off(dir.sig, release.archive)

BuildPaid ==
  /\ cmd.pc = "capsule" => Off(root, cmd.snapshot) <= edits
  /\ cmd.pc \in {"export", "exported", "copy", "pack"} => PartedBy(cmd.capsule, cmd.snapshot) <= edits
  /\ cmd.pc = "recapture" => PartedBy(cmd.capsule, cmd.snapshot) + Off(Packed, dir.archive) <= edits
RestPaid ==
  /\ dir.result # None /\ dir.sig = None => Parted + Off(Built, dir.archive) <= edits
  /\ dir.sig # None /\ release = None => ToSign + Off(dir.sig, dir.archive) <= edits
  /\ release # None => ToPublish + Off(release.archive, dir.archive) <= edits
RecordPaid ==
  /\ cmd.pc = "signature" => ToBegin + Off(Built, dir.archive) <= edits
  /\ cmd.pc = "download" => ToSignature + Off(dir.sig, dir.archive) <= edits
  /\ Recording /\ cmd.pc \in {"report", "check", "check signature"} =>
       ToDownload + Off(release.archive, dir.archive) <= edits
  /\ Recording /\ cmd.pc = "check assets" => ToJudge + Off(dir.sig, dir.archive) <= edits
  /\ Recording /\ cmd.pc \in {"check downloads", "check capsule"} =>
       ToAssets + Off(release.archive, dir.archive) <= edits

-----------------------------------------------------------------------------
\* The audit.
CiIsBundle ==
  /\ At("collected") => cmd.caller = "collect" /\ bundle # None
  /\ ci # None => bundle # None /\ ci.archived = bundle

Untouched == edits = slots.began /\ ~ slots.invalid /\ ~ slots.outstanding

ArchiveKnown ==
  dir.report # None /\ dir.archive = dir.report.archive /\ dir.archive.manifest = dir.report.snapshot
SignatureKnown == ArchiveKnown /\ dir.sig = dir.archive
AssetsKnown == SignatureKnown /\ SameAssets
ReleaseKnown == AssetsKnown /\ CapsuleIsCurrent
RoomKnown == ran[bundle] = root /\ ci.archived = bundle
AfterRelease == {"verified", "third party", "claims", "aggregate"}
AuditKnows ==
  Auditing =>
    /\ slots.began <= edits
    /\ cmd.pc \in {"ci", "vm"} => ci # None
    /\ Untouched =>
         /\ cmd.pc \in {"runtime", "lean"} => slots.policies \subseteq {root}
         /\ cmd.pc \notin {"runtime", "lean"} => slots.policies = {root}
         /\ cmd.pc = "vm" => SameRoom
         /\ cmd.pc \in {"release", "invalid"} \cup Judging \cup AfterRelease => RoomKnown
         /\ cmd.pc = "check signature" => ArchiveKnown
         /\ cmd.pc = "check assets" => SignatureKnown
         /\ cmd.pc \in {"check downloads", "check capsule"} => AssetsKnown
         /\ cmd.pc \in AfterRelease => ReleaseKnown

ReleaseInv ==
  /\ PackageTyped /\ EvidenceTyped
  /\ ReleaseOrder /\ BuildPaid /\ RestPaid /\ RecordPaid
  /\ CiIsBundle /\ AuditKnows

-----------------------------------------------------------------------------
(* Types.                                                                  *)

\* A step that neither builds, publishes nor records: it leaves the package as
\* it is, and its command is at no place of a build or of a record.
Aside ==
  /\ UNCHANGED packageVars /\ edits' \in Nat /\ edits <= edits'
  /\ \/ UNCHANGED cmd
     \/ /\ cmd'.pc \notin Packing \cup RecordPlaces \cup {"recorded"}
        /\ cmd'.pc \in Judging => cmd'.caller = "audit"
        /\ cmd'.pc \in Judging \cup {"verified"} => dir.report # None

RecordChecks == cmd.caller = "record" /\ CheckRelease("check", Recorded, NewCmd)
Others == NewRoom \/ Attest \/ Collect \/ CollectReport \/ Collected \/ AuditStep \/ CommandFails

\* The names of the places in the definitions above are pairwise different
\* strings; a command that ends is at none of them.
LEMMA ReleaseInitially == AuditInit => ReleaseInv
<1> SUFFICES ASSUME AuditInit PROVE ReleaseInv
  OBVIOUS
<1> USE DEF AuditInit, PackageInit, NewDir, NewCmd, Slots
<1>1. PackageTyped /\ EvidenceTyped
  BY DEF PackageTyped, EvidenceTyped, Maybe, Directories, Commands, SlotKnowledge, Places
<1>2. ReleaseOrder /\ BuildPaid /\ RestPaid /\ RecordPaid
  BY DEF ReleaseOrder, BuildPaid, RestPaid, RecordPaid, RecordPlaces, Packing, Judging, Recording
<1>3. CiIsBundle /\ AuditKnows
  BY DEF CiIsBundle, AuditKnows, Auditing, AuditPlaces, Judging, At
<1> QED BY <1>1, <1>2, <1>3 DEF ReleaseInv

\* The commands begin and end as commands.
LEMMA CommandTyped ==
  /\ NewCmd \in Commands /\ Recorded \in Commands /\ NewAudit \in Commands
  /\ [NewCmd EXCEPT !.pc = "capture"] \in Commands
  /\ [NewCmd EXCEPT !.pc = "signature", !.caller = "record"] \in Commands
  /\ [NewCmd EXCEPT !.pc = "collected", !.caller = "collect"] \in Commands
  /\ [NewCmd EXCEPT !.pc = "audited"] \in Commands
<1> USE DEF NewCmd, Commands, Maybe, Places, AuditPlaces, Packing, RecordPlaces
<1>1. NewCmd \in Commands /\ Recorded \in Commands /\ NewAudit \in Commands
  BY DEF Recorded, NewAudit
<1>2. /\ [NewCmd EXCEPT !.pc = "capture"] \in Commands
      /\ [NewCmd EXCEPT !.pc = "signature", !.caller = "record"] \in Commands
  OBVIOUS
<1>3. /\ [NewCmd EXCEPT !.pc = "collected", !.caller = "collect"] \in Commands
      /\ [NewCmd EXCEPT !.pc = "audited"] \in Commands
  OBVIOUS
<1> QED BY <1>1, <1>2, <1>3

\* A command that goes on to a place is one still.
LEMMA CommandGoes ==
  ASSUME cmd \in Commands, NEW pc \in Places, Goto(pc)
  PROVE  cmd' \in Commands
BY DEF Commands, Goto

\* A step of the build, of the owner or of the record keeps the types: the
\* record reads a result, which a published release has.
LEMMA PackageTypeStep ==
  ASSUME PackageTyped, ReleaseOrder, Build \/ Owner \/ Record \/ PackageEdit
  PROVE  PackageTyped'
<1> USE DEF PackageTyped, packageVars
<1>1. CASE BuildBegin
  <2>1. NewDir \in Directories
    BY DEF NewDir, Directories, Maybe
  <2> QED BY <1>1, <2>1, CommandTyped DEF BuildBegin
<1>2. CASE BuildCapture \/ Capsule \/ CopyInputs
  <2>1. {"capsule", "export", "pack"} \subseteq Places
    BY DEF Places, Packing
  <2>2. cmd' \in Commands
    BY <1>2, <2>1 DEF BuildCapture, Capsule, CopyInputs, Commands, Maybe
  <2> QED BY <1>2, <2>2 DEF BuildCapture, Capsule, CopyInputs
<1>12. CASE Export \/ CapsuleUnchanged
  <2>1. cmd' = NewCmd \/ Goto("exported") \/ Goto("copy")
    BY <1>12 DEF Export, CapsuleUnchanged, Require
  <2>2. {"exported", "copy"} \subseteq Places
    BY DEF Places, Packing
  <2>3. cmd' \in Commands
    BY <2>1, <2>2, CommandTyped, CommandGoes
  <2> QED BY <1>12, <2>3 DEF Export, CapsuleUnchanged, Require
<1>3. CASE Pack
  <2>1. Packed \in Archives
    BY DEF Packed, Archives, Commands
  <2>2. cmd' \in Commands
    BY <1>3, CommandGoes DEF Pack, Places, Packing
  <2> QED BY <1>3, <2>1, <2>2 DEF Pack, Directories, Maybe
<1>4. CASE BuildEnd
  <2>1. Packed \in Archives /\ cmd.snapshot \in Maybe(Version)
    BY DEF Packed, Archives, Commands
  <2>2. [archive |-> Packed, snapshot |-> cmd.snapshot] \in Maybe(Results)
    BY <2>1 DEF Results, Maybe
  <2> QED BY <1>4, <2>2, CommandTyped DEF BuildEnd, Directories
<1>5. CASE Sign
  BY <1>5 DEF Sign, Directories
<1>6. CASE Publish
  BY <1>6 DEF Publish, Directories, Releases, Maybe
<1>7. CASE RecordBegin \/ RecordSignature
  <2>1. "download" \in Places
    BY DEF Places, RecordPlaces
  <2>2. cmd' \in Commands
    BY <1>7, <2>1, CommandTyped, CommandGoes DEF RecordBegin, RecordSignature, Require
  <2> QED BY <1>7, <2>2 DEF RecordBegin, RecordSignature, Require
<1>8. CASE Download
  <2>1. cmd' \in Commands
    BY <1>8, CommandTyped, CommandGoes DEF Download, Places, RecordPlaces
  <2>2. dir' \in Directories
    BY <1>8 DEF Download, Directories
  <2> QED BY <1>8, <2>1, <2>2 DEF Download
<1>9. CASE RecordReport
  <2>1. dir.result \in Results
    BY <1>9 DEF RecordReport, At, ReleaseOrder, Recording, RecordPlaces, Directories, Maybe
  <2>2. [archive |-> dir.archive, snapshot |-> dir.result.snapshot, tool |-> dir.tool] \in Maybe(Reports)
    BY <2>1 DEF Results, Reports, Directories, Maybe
  <2>3. cmd' \in Commands
    BY <1>9, CommandGoes DEF RecordReport, Places, RecordPlaces
  <2> QED BY <1>9, <2>2, <2>3 DEF RecordReport, Directories
<1>10. CASE RecordChecks
  <2>1. \/ cmd' = NewCmd \/ cmd' = Recorded \/ Goto("check signature") \/ Goto("check assets")
        \/ Goto("check downloads") \/ Goto("check capsule")
    BY <1>10 DEF RecordChecks, CheckRelease, CheckArchive, CheckSignature, CheckAssets, CheckDownloads,
      CheckCapsule, Require
  <2>2. cmd' \in Commands
    <3>1. Judging \subseteq Places
      BY DEF Places
    <3> QED BY <2>1, <3>1, CommandTyped, CommandGoes DEF Judging
  <2>3. UNCHANGED <<packageVars, edits>>
    BY <1>10 DEF RecordChecks, CheckRelease, CheckArchive, CheckSignature, CheckAssets, CheckDownloads,
      CheckCapsule, Require
  <2> QED BY <2>2, <2>3
<1>11. CASE PackageEdit
  <2>1. \A a \in Package : a \in Maybe(Archives)
    BY DEF Package, Archives, Maybe
  <2>2. edits' \in Nat /\ UNCHANGED <<release, cmd>> /\ root' \in Version
    BY <1>11 DEF PackageEdit
  <2>4. inputs' = inputs \/ inputs' = ~inputs
    BY <1>11, Zenon DEF PackageEdit
  <2>5. inputs' \in BOOLEAN
    BY <2>4, Zenon
  <2>3. dir' \in Directories
    BY <1>11, <2>1 DEF PackageEdit, Directories
  <2> QED BY <2>2, <2>3, <2>5
<1> QED BY <1>12, <1>1, <1>2, <1>3, <1>4, <1>5, <1>6, <1>7, <1>8, <1>9, <1>10, <1>11
  DEF Build, Owner, Record, RecordChecks

-----------------------------------------------------------------------------
(* The steps of the clean rooms, of the collector and of the audit.        *)

\* What checks of the release do in an audit: they go on, to the next statement
\* or to the end of the slot.
LEMMA AuditReleaseMoves ==
  ASSUME AuditRelease
  PROVE  /\ cmd.caller = "audit" /\ UNCHANGED <<packageVars, edits, evidence, slots>>
         /\ \/ At("release") /\ Goto("check signature") /\ ArchiveKnown
            \/ At("check signature") /\ Goto("check assets") /\ dir.sig = dir.archive
            \/ At("check assets") /\ Goto("check downloads") /\ SameAssets
            \/ At("check downloads") /\ Goto("check capsule")
            \/ At("check capsule") /\ Goto("verified") /\ CapsuleIsCurrent
            \/ Goto("invalid")
BY DEF AuditRelease, CheckRelease, CheckArchive, CheckSignature, CheckAssets, CheckDownloads, CheckCapsule,
  Require, Goto, At, ArchiveKnown

\* A statement of the audit reads the package and the evidence; but for the
\* last, which ends the command, it goes on to another place of the audit.
LEMMA AuditStepReads ==
  ASSUME AuditStep
  PROVE  /\ UNCHANGED <<packageVars, edits, ran, room, bundle, ci>>
         /\ \/ cmd' = NewAudit
            \/ \E pc \in AuditPlaces \cup Judging \cup {"ci", "vm"} : Goto(pc)
            \/ cmd' = [NewCmd EXCEPT !.pc = "audited"]
<1> USE DEF evidence, AuditPlaces, Judging
<1>1. CASE AuditBegin
  BY <1>1 DEF AuditBegin
<1>2. CASE CheckRuntime
  BY <1>2 DEF CheckRuntime, Missing, Invalid
<1>3. CASE CheckLean \/ CheckRocq
  <2>1. UNCHANGED <<packageVars, edits, evidence>> /\ (Goto("rocq") \/ Goto("clean room"))
    BY <1>3 DEF CheckLean, CheckRocq, CheckProofs, Missing, Invalid
  <2> QED BY <2>1
<1>4. CASE CheckCleanRoom
  <2>1. UNCHANGED <<packageVars, edits, evidence>> /\ (Goto("ci") \/ Goto("release"))
    BY <1>4 DEF CheckCleanRoom, Missing, Invalid
  <2> QED BY <2>1
<1>5. CASE AuditCi
  <2>1. UNCHANGED <<packageVars, edits, evidence>> /\ (Goto("vm") \/ Goto("release"))
    BY <1>5 DEF AuditCi, CheckCi, Goto
  <2> QED BY <2>1
<1>6. CASE AuditVm
  BY <1>6 DEF AuditVm
<1>7. CASE NoRelease \/ ReleaseSlot \/ CheckThirdParty \/ PublicClaims
  <2>1. /\ UNCHANGED <<packageVars, edits, evidence>>
        /\ Goto("third party") \/ Goto("claims") \/ Goto("aggregate")
    BY <1>7 DEF NoRelease, ReleaseSlot, CheckThirdParty, PublicClaims, Missing, Invalid
  <2> QED BY <2>1
<1>8. CASE AuditRelease
  <2>1. UNCHANGED <<packageVars, edits, evidence>>
    BY <1>8, AuditReleaseMoves
  <2>2. \/ Goto("check signature") \/ Goto("check assets") \/ Goto("check downloads")
        \/ Goto("check capsule") \/ Goto("verified") \/ Goto("invalid")
    BY <1>8, AuditReleaseMoves
  <2> QED BY <2>1, <2>2
<1>9. CASE Aggregate
  BY <1>9 DEF Aggregate
<1> QED BY <1>1, <1>2, <1>3, <1>4, <1>5, <1>6, <1>7, <1>8, <1>9 DEF AuditStep

\* None of these steps touches the package, and none goes to a place of a build
\* or of a record; the audit judges and verifies only a release with a report.
LEMMA OthersAside ==
  ASSUME PackageTyped, ReleaseOrder, Others
  PROVE  Aside /\ cmd' \in Commands
<1>1. CASE NewRoom
  BY <1>1, BoundAssumption DEF NewRoom, Aside, PackageTyped
<1>2. CASE Attest
  BY <1>2 DEF Attest, Aside, PackageTyped
<1>3. CASE Collect
  BY <1>3, CommandTyped DEF Collect, Aside, PackageTyped, NewCmd, Packing, RecordPlaces, Judging
<1>4. CASE CollectReport
  <2>1. Goto("ci") /\ "ci" \in Places
    BY <1>4 DEF CollectReport, Places
  <2>2. cmd' \in Commands
    BY <2>1, CommandGoes DEF PackageTyped
  <2>3. cmd'.pc = "ci"
    BY <2>1 DEF Goto, PackageTyped, Commands
  <2> QED BY <1>4, <2>2, <2>3 DEF CollectReport, Aside, PackageTyped, Packing, RecordPlaces, Judging
<1>5. CASE Collected
  <2>1. UNCHANGED <<packageVars, edits>> /\ (Goto("vm") \/ cmd' = NewCmd)
    BY <1>5 DEF Collected, CheckCi
  <2>2. cmd' \in Commands
    BY <2>1, CommandGoes, CommandTyped DEF PackageTyped, Places
  <2>3. cmd'.pc \in {"vm", "idle"}
    BY <2>1 DEF Goto, PackageTyped, Commands, NewCmd
  <2>4. cmd'.pc \notin Packing \cup RecordPlaces \cup {"recorded"} /\ cmd'.pc \notin Judging \cup {"verified"}
    BY <2>3 DEF Packing, RecordPlaces, Judging
  <2>5. UNCHANGED packageVars /\ edits' \in Nat /\ edits <= edits'
    BY <2>1 DEF PackageTyped
  <2> QED BY <2>2, <2>4, <2>5 DEF Aside
<1>6. CASE AuditStep
  <2>1. UNCHANGED <<packageVars, edits>> /\ edits' \in Nat /\ edits <= edits'
    BY <1>6, AuditStepReads DEF PackageTyped
  <2>2. CASE cmd' = NewAudit \/ cmd' = [NewCmd EXCEPT !.pc = "audited"]
    BY <2>1, <2>2, CommandTyped DEF Aside, NewAudit, NewCmd, Packing, RecordPlaces, Judging
  <2>3. CASE \E pc \in AuditPlaces \cup Judging \cup {"ci", "vm"} : Goto(pc)
    <3>1. PICK pc \in AuditPlaces \cup Judging \cup {"ci", "vm"} : Goto(pc)
      BY <2>3
    <3>2. cmd' \in Commands
      BY <3>1, CommandGoes DEF PackageTyped, Places
    <3>3. cmd'.pc = pc /\ cmd'.caller = cmd.caller
      BY <3>1 DEF Goto, PackageTyped, Commands
    <3>4. pc \notin Packing \cup RecordPlaces \cup {"recorded"}
      BY DEF Packing, RecordPlaces, Judging, AuditPlaces
    <3>5. ASSUME pc \in Judging \cup {"verified"}
          PROVE  dir.report # None /\ (pc \in Judging => cmd.caller = "audit")
      <4>1. AuditRelease
        <5>1. ASSUME AuditBegin \/ Aggregate PROVE FALSE
          BY <3>3, <3>5, <5>1 DEF AuditBegin, Aggregate, NewAudit, NewCmd, Judging
        <5>2. ASSUME CheckRuntime \/ CheckLean \/ CheckRocq \/ CheckCleanRoom PROVE FALSE
          <6>1. Goto("lean") \/ Goto("rocq") \/ Goto("clean room") \/ Goto("ci") \/ Goto("release")
            BY <5>2 DEF CheckRuntime, CheckLean, CheckRocq, CheckProofs, CheckCleanRoom, Missing, Invalid
          <6> QED BY <6>1, <3>3, <3>5 DEF Goto, Judging, PackageTyped, Commands
        <5>3. ASSUME AuditCi \/ AuditVm \/ NoRelease \/ ReleaseSlot \/ CheckThirdParty \/ PublicClaims PROVE FALSE
          <6>1. Goto("vm") \/ Goto("release") \/ Goto("third party") \/ Goto("claims") \/ Goto("aggregate")
            BY <5>3 DEF AuditCi, CheckCi, AuditVm, NoRelease, ReleaseSlot, CheckThirdParty, PublicClaims,
              Missing, Invalid, Goto
          <6> QED BY <6>1, <3>3, <3>5 DEF Goto, Judging, PackageTyped, Commands
        <5> QED BY <1>6, <5>1, <5>2, <5>3 DEF AuditStep
      <4>2. cmd.caller = "audit"
        BY <4>1, AuditReleaseMoves
      <4>3. At("release") => dir.report # None
        BY <4>1 DEF AuditRelease
      <4>4. cmd'.pc # "invalid"
        BY <3>3, <3>5 DEF Judging
      <4>5. At("release") \/ cmd.pc \in Judging
        BY <4>1, <4>4, AuditReleaseMoves DEF At, Judging, Goto, PackageTyped, Commands
      <4> QED BY <4>2, <4>3, <4>5 DEF ReleaseOrder
    <3> QED BY <2>1, <3>2, <3>3, <3>4, <3>5 DEF Aside
  <2> QED BY <1>6, <2>2, <2>3, AuditStepReads
<1>7. CASE CommandFails
  BY <1>7, CommandTyped DEF CommandFails, Aside, PackageTyped, NewCmd, Packing, RecordPlaces, Judging
<1> QED BY <1>1, <1>2, <1>3, <1>4, <1>5, <1>6, <1>7 DEF Others

\* Every step keeps the types, of the package, of the evidence and of what an
\* audit knows.
LEMMA AuditTypeStep ==
  ASSUME PackageTyped, EvidenceTyped, ReleaseOrder, AuditNext
  PROVE  PackageTyped' /\ EvidenceTyped'
<1>1. CASE (Build \/ Owner \/ Record \/ PackageEdit) /\ UNCHANGED <<evidence, slots>>
  BY <1>1, PackageTypeStep DEF EvidenceTyped, evidence
<1>2. CASE Others
  <2>1. PackageTyped'
    BY <1>2, OthersAside DEF Aside, packageVars, PackageTyped
  <2> USE DEF EvidenceTyped
  <2>2. Slots \in SlotKnowledge
    BY DEF Slots, SlotKnowledge
  <2>3. CASE NewRoom
    BY <2>1, <2>3 DEF NewRoom, Maybe
  <2>4. CASE Attest \/ Collect \/ Collected
    BY <2>1, <2>4 DEF Attest, Collect, Collected, CheckCi, evidence
  <2>5. CASE CollectReport
    BY <2>1, <2>5 DEF CollectReport, Maybe
  <2>6. CASE CommandFails
    BY <2>1, <2>6, <2>2 DEF CommandFails
  <2>7. CASE AuditStep
    <3>1. UNCHANGED <<ran, room, bundle, ci>>
      BY <2>7, AuditStepReads
    <3>2. slots' \in SlotKnowledge
      <4> USE DEF SlotKnowledge
      <4>1. CASE AuditBegin
        BY <4>1 DEF AuditBegin, PackageTyped, Slots
      <4>2. CASE CheckRuntime
        BY <4>2 DEF CheckRuntime, Missing, Invalid
      <4>3. CASE CheckLean \/ CheckRocq
        <5>1. \/ UNCHANGED slots \/ slots' = [slots EXCEPT !.outstanding = TRUE]
              \/ slots' = [slots EXCEPT !.invalid = TRUE]
              \/ slots' = [slots EXCEPT !.policies = @ \cup {root}]
          BY <4>3 DEF CheckLean, CheckRocq, CheckProofs, Missing, Invalid
        <5> QED BY <5>1 DEF PackageTyped
      <4>4. CASE CheckCleanRoom
        BY <4>4 DEF CheckCleanRoom, Missing, Invalid
      <4>5. CASE AuditCi
        BY <4>5 DEF AuditCi
      <4>6. CASE AuditVm
        <5>1. slots' = [slots EXCEPT !.snapshots = @ \cup {root}] \/ slots' = [slots EXCEPT !.invalid = TRUE]
          BY <4>6 DEF AuditVm, CheckVmReport, VmReportIsCurrent
        <5> QED BY <5>1 DEF PackageTyped, Maybe
      <4>7. CASE NoRelease \/ PublicClaims
        BY <4>7 DEF NoRelease, PublicClaims, Missing, Invalid
      <4>8. CASE AuditRelease
        BY <4>8, AuditReleaseMoves
      <4>9. CASE ReleaseSlot
        <5>1. CASE At("verified")
          <6>1. dir.report \in Reports
            BY <5>1 DEF At, ReleaseOrder, PackageTyped, Directories, Maybe
          <6>2. dir.report.snapshot \in Maybe(Version)
            BY <6>1 DEF Reports
          <6>3. slots' = [slots EXCEPT !.snapshots = @ \cup {dir.report.snapshot}]
            BY <4>9, <5>1 DEF ReleaseSlot, At
          <6> QED BY <6>2, <6>3
        <5>2. CASE ~At("verified")
          BY <4>9, <5>2 DEF ReleaseSlot
        <5> HIDE DEF SlotKnowledge, EvidenceTyped
        <5> QED BY <5>1, <5>2
      <4>10. CASE CheckThirdParty
        <5>1. \/ UNCHANGED slots \/ slots' = [slots EXCEPT !.invalid = TRUE]
              \/ slots' = [slots EXCEPT !.snapshots = @ \cup {root}]
          BY <4>10 DEF CheckThirdParty, Invalid
        <5> QED BY <5>1 DEF PackageTyped, Maybe
      <4>11. CASE Aggregate
        BY <4>11, <2>2 DEF Aggregate
      <4> HIDE DEF SlotKnowledge, EvidenceTyped
      <4> QED BY <2>7, <4>1, <4>2, <4>3, <4>4, <4>5, <4>6, <4>7, <4>8, <4>9, <4>10, <4>11 DEF AuditStep
    <3> QED BY <2>1, <3>1, <3>2
  <2> QED BY <1>2, <2>1, <2>3, <2>4, <2>5, <2>6, <2>7 DEF Others
<1> QED BY <1>1, <1>2 DEF AuditNext, Others

-----------------------------------------------------------------------------
(* The order of the commands.                                              *)

\* A check of the record goes on to the next statement, or ends the command.
LEMMA RecordChecksMove ==
  ASSUME RecordChecks
  PROVE  /\ cmd.caller = "record" /\ UNCHANGED <<packageVars, edits>>
         /\ \/ At("check") /\ Goto("check signature")
               /\ dir.report # None /\ dir.archive = dir.report.archive /\ dir.archive.manifest = dir.report.snapshot
            \/ At("check signature") /\ Goto("check assets") /\ dir.sig = dir.archive
            \/ At("check assets") /\ Goto("check downloads") /\ SameAssets
            \/ At("check downloads") /\ Goto("check capsule")
            \/ At("check capsule") /\ CapsuleIsCurrent /\ cmd' = Recorded
            \/ cmd' = NewCmd
BY DEF RecordChecks, CheckRelease, CheckArchive, CheckSignature, CheckAssets, CheckDownloads, CheckCapsule,
  Require, Goto, At

\* Every command leaves the package in the order in which the next ones are
\* allowed to find it: signed only when built, published as signed, downloaded
\* as published, reported with the source of the build.
LEMMA ReleaseOrderStep ==
  ASSUME PackageTyped, ReleaseOrder, AuditNext
  PROVE  ReleaseOrder'
<1> USE DEF ReleaseOrder, Recording, Packing, RecordPlaces, Judging
<1>1. CASE BuildBegin
  BY <1>1 DEF BuildBegin, NewDir, NewCmd
<1>2. CASE BuildCapture \/ Capsule \/ Export \/ CapsuleUnchanged \/ CopyInputs
  <2> USE DEF At, PackageTyped, Commands
  <2> HIDE DEF ReleaseOrder
  <2>2. UNCHANGED packageVars /\ cmd.pc \in Packing
    BY <1>2 DEF BuildCapture, Capsule, Export, CapsuleUnchanged, CopyInputs, Require
  <2>3. \/ cmd'.pc \in Packing
        \/ cmd' = NewCmd
    <3>1. CASE BuildCapture \/ Capsule \/ CopyInputs
      BY <3>1 DEF BuildCapture, Capsule, CopyInputs
    <3>2. CASE Export \/ CapsuleUnchanged
      BY <3>2 DEF Export, CapsuleUnchanged, Require, Goto
    <3> QED BY <1>2, <3>1, <3>2
  <2>1. UNCHANGED packageVars /\ cmd.pc \in Packing /\ cmd'.pc \in Packing \cup {"idle"}
    BY <2>2, <2>3 DEF NewCmd
  <2> USE DEF ReleaseOrder
  <2> QED BY <2>1 DEF packageVars
<1>3. CASE Pack
  <2>1. /\ cmd.pc \in Packing /\ cmd'.pc \in Packing /\ UNCHANGED release
        /\ dir' = [dir EXCEPT !.archive = Packed, !.tool = inputs]
    BY <1>3 DEF Pack, Goto, At, PackageTyped, Commands
  <2>2. dir'.result = dir.result /\ dir'.sig = dir.sig /\ dir'.downloads = dir.downloads /\ dir'.report = dir.report
    BY <2>1 DEF PackageTyped, Directories
  <2> QED BY <2>1, <2>2
<1>4. CASE BuildEnd
  <2>1. cmd.pc \in Packing /\ cmd'.pc = "idle" /\ UNCHANGED release
    BY <1>4 DEF BuildEnd, At, NewCmd
  <2>2. /\ dir'.sig = dir.sig /\ dir'.downloads = dir.downloads /\ dir'.report = dir.report
        /\ \/ dir'.result = dir.result
           \/ dir'.result = [archive |-> Packed, snapshot |-> cmd.snapshot]
    BY <1>4 DEF BuildEnd, PackageTyped, Directories
  <2>3. dir'.result # None => dir'.result.archive.manifest = dir'.result.snapshot
    <3>1. dir.result = None
      BY <2>1
    <3> HIDE DEF ReleaseOrder
    <3>2. ASSUME NEW r, r = [archive |-> Packed, snapshot |-> cmd.snapshot]
          PROVE  r.archive.manifest = r.snapshot
      BY <3>2 DEF Packed
    <3> QED BY <2>2, <3>1, <3>2
  <2>4. release = None /\ dir.sig = None /\ dir.downloads = None /\ dir.report = None
    BY <2>1
  <2> QED BY <2>1, <2>2, <2>3, <2>4
<1>5. CASE Sign
  <2>1. cmd'.pc \notin Packing \cup RecordPlaces \cup Judging \cup {"verified"} /\ UNCHANGED release
    BY <1>5 DEF Sign, Free
  <2>2. dir'.result = dir.result /\ dir'.downloads = dir.downloads /\ dir'.report = dir.report
    BY <1>5 DEF Sign, PackageTyped, Directories
  <2> QED BY <1>5, <2>1, <2>2 DEF Sign
<1>6. CASE Publish
  BY <1>6 DEF Publish, Free
<1>7. CASE RecordBegin
  BY <1>7 DEF RecordBegin, NewCmd, packageVars
<1>8. CASE RecordSignature
  <2>1. /\ UNCHANGED packageVars /\ cmd.pc = "signature"
        /\ cmd'.pc = "idle" \/ (cmd'.pc = "download" /\ cmd'.caller = cmd.caller)
    BY <1>8 DEF RecordSignature, Require, Goto, At, NewCmd, PackageTyped, Commands
  <2> QED BY <2>1 DEF packageVars
<1>9. CASE Download
  <2>1. UNCHANGED release /\ cmd.pc = "download"
    BY <1>9 DEF Download, At
  <2>2. CASE UNCHANGED dir /\ cmd' = NewCmd
    BY <2>1, <2>2 DEF NewCmd
  <2>3. CASE Goto("report") /\ dir' = [dir EXCEPT !.downloads = release]
    <3>1. cmd'.pc = "report" /\ cmd'.caller = cmd.caller
      BY <2>3 DEF Goto, PackageTyped, Commands
    <3>2. dir'.sig = dir.sig /\ dir'.result = dir.result /\ dir'.downloads = release /\ dir'.report = dir.report
      BY <2>3 DEF PackageTyped, Directories
    <3> QED BY <2>1, <3>1, <3>2
  <2> QED BY <1>9, <2>2, <2>3 DEF Download
<1>10. CASE RecordReport
  <2>1. UNCHANGED release /\ cmd.pc = "report" /\ cmd'.pc = "check" /\ cmd'.caller = cmd.caller
    BY <1>10 DEF RecordReport, Goto, At, PackageTyped, Commands
  <2>2. /\ dir'.sig = dir.sig /\ dir'.result = dir.result /\ dir'.downloads = dir.downloads
        /\ dir'.report.snapshot = dir.result.snapshot
    BY <1>10 DEF RecordReport, PackageTyped, Directories
  <2> QED BY <2>1, <2>2
<1>11. CASE RecordChecks
  <2>1. UNCHANGED packageVars /\ cmd.caller = "record"
    BY <1>11, RecordChecksMove
  <2>2. \/ cmd'.pc \notin Packing \cup RecordPlaces \cup Judging \cup {"verified"}
        \/ cmd.pc = "check" /\ cmd'.pc = "check signature" /\ dir.report # None
        \/ cmd.pc \in Judging /\ cmd'.pc \in Judging
    <3> HIDE DEF ReleaseOrder
    <3>1. CASE cmd' = Recorded \/ cmd' = NewCmd
      <4>1. Recorded.pc = "recorded" /\ NewCmd.pc = "idle"
        BY DEF Recorded, NewCmd
      <4> QED BY <3>1, <4>1
    <3>2. CASE ~ (cmd' = Recorded \/ cmd' = NewCmd)
      BY <1>11, <3>2, RecordChecksMove DEF At, Goto, PackageTyped, Commands
    <3> QED BY <3>1, <3>2
  <2>3. cmd'.caller = cmd.caller \/ cmd'.pc \notin Judging
    <3> HIDE DEF ReleaseOrder
    <3>1. Recorded.pc = "recorded" /\ NewCmd.pc = "idle"
      BY DEF Recorded, NewCmd
    <3> QED BY <1>11, <3>1, RecordChecksMove DEF At, Goto, PackageTyped, Commands
  <2> QED BY <2>1, <2>2, <2>3 DEF packageVars
<1>12. CASE PackageEdit
  <2>1. UNCHANGED <<release, cmd>>
    BY <1>12 DEF PackageEdit
  <2>2. dir'.sig = dir.sig /\ dir'.result = dir.result /\ dir'.downloads = dir.downloads /\ dir'.report = dir.report
    BY <1>12 DEF PackageEdit, PackageTyped, Directories
  <2> QED BY <2>1, <2>2
<1>13. CASE Others
  BY <1>13, OthersAside DEF Aside, packageVars
<1> QED BY <1>1, <1>2, <1>3, <1>4, <1>5, <1>6, <1>7, <1>8, <1>9, <1>10, <1>11, <1>12, <1>13
  DEF AuditNext, Build, Owner, Record, RecordChecks, Others

-----------------------------------------------------------------------------
(* Every difference is an edit that was made.                              *)

\* A difference counts one.
LEMMA OffCounts == \A x, y : Off(x, y) \in {0, 1} /\ (Off(x, y) = 0 <=> x = y)
BY DEF Off

\* The sums of differences along the way of an archive are numbers, and each is
\* the one before it and one difference more.
LEMMA PathNat ==
  /\ Parted \in {0, 2} /\ ToSign \in Nat /\ ToPublish \in Nat /\ ToBegin \in Nat /\ ToSignature \in Nat
  /\ ToDownload \in Nat /\ ToJudge \in Nat /\ ToAssets \in Nat
<1>1. Parted \in {0, 2}
  BY DEF Parted
<1>2. ToSign \in Nat /\ ToPublish \in Nat /\ ToBegin \in Nat
  BY <1>1, OffCounts DEF ToSign, ToPublish, ToBegin
<1>3. ToSignature \in Nat /\ ToDownload \in Nat
  BY <1>2, OffCounts DEF ToSignature, ToDownload
<1>4. ToJudge \in Nat /\ ToAssets \in Nat
  BY <1>3, OffCounts DEF ToJudge, ToAssets
<1> QED BY <1>1, <1>2, <1>3, <1>4

\* The way so far depends on the result, the signature and the release alone.
LEMMA PathKept ==
  ASSUME dir'.result = dir.result, dir'.sig = dir.sig, release' = release
  PROVE  /\ Built' = Built /\ Parted' = Parted /\ ToSign' = ToSign /\ ToPublish' = ToPublish /\ ToBegin' = ToBegin
         /\ ToSignature' = ToSignature /\ ToDownload' = ToDownload /\ ToJudge' = ToJudge /\ ToAssets' = ToAssets
BY DEF Built, Parted, ToSign, ToPublish, ToBegin, ToSignature, ToDownload, ToJudge, ToAssets, Off

\* An archive is one difference further from where it was for every edit.
LEMMA OneEdit ==
  ASSUME NEW x, NEW a, NEW b, NEW n \in Nat, NEW e \in Nat, n + Off(x, a) <= e
  PROVE  n + Off(x, b) <= e + 1
BY OffCounts

\* A build and the owner pay for what they part: a capsule whose source is not
\* the manifest's took two changes of the checkout, one between the two captures
\* and one before the last; every later difference took one of the archive.
LEMMA PackagePaidStep ==
  ASSUME PackageTyped, ReleaseOrder, BuildPaid, RestPaid, Build \/ Owner
  PROVE  BuildPaid' /\ RestPaid' /\ RecordPaid'
<1> USE DEF BuildPaid
<1>1. CASE BuildBegin
  BY <1>1 DEF BuildBegin, NewDir, NewCmd, RestPaid, RecordPaid, Recording, RecordPlaces, Judging, Packing, ReleaseOrder
<1>2. CASE BuildCapture \/ Capsule \/ Export \/ CapsuleUnchanged \/ CopyInputs \/ Pack
  <2>1. dir.result = None /\ dir.sig = None /\ release = None /\ release' = None
    BY <1>2 DEF BuildCapture, Capsule, Export, CapsuleUnchanged, CopyInputs, Pack, Require, At, Packing,
      ReleaseOrder, packageVars
  <2>2. dir'.result = None /\ dir'.sig = None
    BY <1>2, <2>1 DEF BuildCapture, Capsule, Export, CapsuleUnchanged, CopyInputs, Pack, Require, packageVars,
      PackageTyped, Directories
  <2>3. cmd'.pc \in Packing \cup {"idle"}
    <3>1. CASE BuildCapture \/ Capsule \/ CopyInputs \/ Pack
      BY <3>1 DEF BuildCapture, Capsule, CopyInputs, Pack, Goto, Packing, PackageTyped, Commands
    <3>2. CASE Export \/ CapsuleUnchanged
      BY <3>2 DEF Export, CapsuleUnchanged, Require, Goto, Packing, PackageTyped, Commands, NewCmd
    <3> QED BY <1>2, <3>1, <3>2
  <2>4. RestPaid' /\ RecordPaid'
    BY <2>1, <2>2, <2>3 DEF RestPaid, RecordPaid, Recording, RecordPlaces, Judging, Packing
  <2>5. BuildPaid'
    <3> USE DEF PackageTyped, Commands, packageVars, At, PartedBy
    <3>1. CASE BuildCapture
      BY <3>1 DEF BuildCapture, Off
    <3>2. CASE Capsule
      BY <3>2 DEF Capsule, Off
    <3>3. CASE Export
      BY <3>3 DEF Export, Require, Goto, NewCmd
    <3>4. CASE CapsuleUnchanged
      BY <3>4 DEF CapsuleUnchanged, Require, Goto, NewCmd
    <3>5. CASE CopyInputs
      BY <3>5 DEF CopyInputs
    <3>6. CASE Pack
      <4>1. /\ cmd.pc = "pack" /\ cmd'.pc = "recapture" /\ cmd'.capsule = cmd.capsule /\ cmd'.snapshot = cmd.snapshot
            /\ cmd'.pinned = cmd.pinned /\ UNCHANGED <<root, edits>>
        BY <3>6 DEF Pack, Goto
      <4>2. dir'.archive = Packed
        BY <3>6 DEF Pack, Directories
      <4>3. Packed' = Packed
        BY <4>1 DEF Packed
      <4>4. Off(Packed', dir'.archive) = 0
        BY <4>2, <4>3, OffCounts
      <4> QED BY <4>1, <4>4
    <3> HIDE DEF BuildPaid
    <3> QED BY <1>2, <3>1, <3>2, <3>3, <3>4, <3>5, <3>6
  <2> HIDE DEF BuildPaid
  <2> QED BY <2>4, <2>5
<1>3. CASE BuildEnd
  <2>1. /\ cmd.pc = "recapture" /\ cmd'.pc = "idle" /\ UNCHANGED <<release, edits>>
        /\ dir'.sig = dir.sig /\ dir'.archive = dir.archive
    BY <1>3 DEF BuildEnd, At, NewCmd, PackageTyped, Directories
  <2>2. dir.result = None /\ dir.sig = None /\ release = None
    BY <2>1 DEF ReleaseOrder, Packing
  <2>3. CASE dir'.result # None
    <3>1. dir'.result = [archive |-> Packed, snapshot |-> cmd.snapshot] /\ root = cmd.snapshot
      BY <1>3, <2>2, <2>3 DEF BuildEnd, PackageTyped, Directories
    <3>2. Packed.capsule = cmd.capsule
      BY DEF Packed
    <3>3. Built' = Packed /\ Parted' = PartedBy(cmd.capsule, cmd.snapshot)
      BY <3>1, <3>2 DEF Built, Parted, PartedBy
    <3>4. Parted' + Off(Built', dir'.archive) <= edits'
      BY <2>1, <3>3
    <3> QED BY <2>1, <2>2, <3>4 DEF RestPaid, RecordPaid, Recording, RecordPlaces, Judging
  <2>4. CASE dir'.result = None
    BY <2>1, <2>2, <2>4 DEF RestPaid, RecordPaid, Recording, RecordPlaces, Judging
  <2> QED BY <2>3, <2>4
<1>4. CASE Sign
  <2>1. /\ UNCHANGED <<root, cmd, edits, release>> /\ dir.result # None /\ dir.sig = None /\ cmd.pc \in {"idle", "recorded", "audited"}
        /\ dir'.result = dir.result /\ dir'.archive = dir.archive /\ dir'.sig = dir.archive
    BY <1>4 DEF Sign, Free, PackageTyped, Directories
  <2>2. release = None
    BY <2>1 DEF ReleaseOrder
  <2>3. Built' = Built /\ Parted' = Parted /\ Parted + Off(Built, dir.archive) <= edits
    BY <2>1 DEF Built, Parted, RestPaid
  <2>4. ToSign' = Parted + Off(Built, dir.archive)
    BY <2>1, <2>3 DEF ToSign
  <2>5. ToSign' + Off(dir'.sig, dir'.archive) <= edits'
    BY <2>1, <2>3, <2>4, OffCounts, PathNat DEF PackageTyped
  <2>6. RestPaid'
    BY <2>1, <2>2, <2>3, <2>5 DEF RestPaid
  <2> QED BY <2>1, <2>6 DEF RecordPaid, Recording, RecordPlaces, Judging
<1>5. CASE Publish
  <2>1. /\ UNCHANGED <<root, cmd, edits, dir>> /\ dir.sig # None /\ release = None /\ cmd.pc \in {"idle", "recorded", "audited"}
        /\ release' # None => release'.archive = dir.archive
    BY <1>5 DEF Publish, Free
  <2>2. Built' = Built /\ ToSign' = ToSign /\ ToSign + Off(dir.sig, dir.archive) <= edits
    BY <2>1 DEF Built, Parted, ToSign, RestPaid
  <2>3. release' # None => ToPublish' + Off(release'.archive, dir'.archive) <= edits'
    BY <2>1, <2>2, OffCounts, PathNat DEF ToPublish, PackageTyped
  <2>4. RestPaid'
    BY <2>1, <2>2, <2>3 DEF RestPaid
  <2> QED BY <2>1, <2>4 DEF RecordPaid, Recording, RecordPlaces, Judging
<1> QED BY <1>1, <1>2, <1>3, <1>4, <1>5 DEF Build, Owner

\* A record pays nothing: where it finds two archives equal, that is the next
\* part of the way.
LEMMA RecordPaidStep ==
  ASSUME PackageTyped, ReleaseOrder, RestPaid, RecordPaid, Record
  PROVE  BuildPaid' /\ RestPaid' /\ RecordPaid'
<1>1. /\ UNCHANGED <<root, inputs, release, edits>> /\ dir'.result = dir.result /\ dir'.sig = dir.sig
      /\ dir'.archive = dir.archive
  <2>1. CASE RecordBegin \/ RecordSignature
    BY <2>1 DEF RecordBegin, RecordSignature, Require, packageVars
  <2>2. CASE Download
    BY <2>2 DEF Download, PackageTyped, Directories
  <2>3. CASE RecordReport
    BY <2>3 DEF RecordReport, PackageTyped, Directories
  <2>4. CASE RecordChecks
    BY <2>4, RecordChecksMove DEF packageVars
  <2> QED BY <2>1, <2>2, <2>3, <2>4 DEF Record, RecordChecks
<1>2. /\ Built' = Built /\ Parted' = Parted /\ ToSign' = ToSign /\ ToPublish' = ToPublish /\ ToBegin' = ToBegin
      /\ ToSignature' = ToSignature /\ ToDownload' = ToDownload /\ ToJudge' = ToJudge /\ ToAssets' = ToAssets
  BY <1>1, PathKept
<1>3. RestPaid'
  BY <1>1, <1>2 DEF RestPaid
<1> USE DEF At, PackageTyped, Commands
<1>5. CASE RecordBegin
  <2>1. CASE UNCHANGED cmd
    <3>1. cmd'.pc \in {"idle", "recorded", "audited"}
      BY <1>5, <2>1 DEF RecordBegin, Free
    <3> QED BY <1>3, <3>1 DEF BuildPaid, RecordPaid, Recording, RecordPlaces, Judging
  <2>2. CASE cmd' = [NewCmd EXCEPT !.pc = "signature", !.caller = "record"] /\ dir.archive = dir.result.archive
    <3>1. cmd'.pc = "signature" /\ release # None
      BY <1>5, <2>2 DEF RecordBegin, NewCmd
    <3>2. ToPublish + Off(release.archive, dir.archive) <= edits
      BY <3>1 DEF RestPaid
    <3>3. ToBegin + Off(Built, dir.archive) <= edits
      BY <2>2, <3>2, OffCounts, PathNat DEF ToBegin, Built
    <3>4. (ToBegin + Off(Built, dir.archive) <= edits)'
      BY <1>1, <1>2, <3>3
    <3> QED BY <3>1, <3>4, <1>3 DEF BuildPaid, RecordPaid, Judging
  <2> QED BY <1>3, <1>5, <2>1, <2>2 DEF RecordBegin
<1>6. CASE RecordSignature
  <2>1. cmd.pc = "signature" /\ (cmd'.pc = "idle" \/ (cmd'.pc = "download" /\ dir.sig = dir.archive))
    BY <1>6 DEF RecordSignature, Require, Goto, NewCmd
  <2>2. CASE dir.sig = dir.archive
    <3>1. ToBegin + Off(Built, dir.archive) <= edits
      BY <2>1 DEF RecordPaid
    <3>2. ToSignature + Off(dir.sig, dir.archive) <= edits
      BY <2>2, <3>1, OffCounts, PathNat DEF ToSignature
    <3> QED BY <1>1, <1>2, <1>3, <2>1, <3>2 DEF BuildPaid, RecordPaid, Recording, RecordPlaces, Judging
  <2> QED BY <1>3, <2>1, <2>2 DEF BuildPaid, RecordPaid, Recording, RecordPlaces, Judging
<1>7. CASE Download
  <2>1. cmd.pc = "download" /\ (cmd'.pc = "idle" \/ (cmd'.pc = "report" /\ release.archive = dir.archive))
    BY <1>7 DEF Download, Goto, NewCmd
  <2>2. CASE release.archive = dir.archive
    <3>1. ToSignature + Off(dir.sig, dir.archive) <= edits
      BY <2>1 DEF RecordPaid
    <3>2. ToDownload + Off(release.archive, dir.archive) <= edits
      BY <2>2, <3>1, OffCounts, PathNat DEF ToDownload
    <3> QED BY <1>1, <1>2, <1>3, <2>1, <3>2 DEF BuildPaid, RecordPaid, Recording, RecordPlaces, Judging
  <2> QED BY <1>3, <2>1, <2>2 DEF BuildPaid, RecordPaid, Recording, RecordPlaces, Judging
<1>8. CASE RecordReport
  <2>1. cmd.pc = "report" /\ cmd'.pc = "check"
    BY <1>8 DEF RecordReport, Goto
  <2>2. ToDownload + Off(release.archive, dir.archive) <= edits
    BY <2>1 DEF RecordPaid, Recording, RecordPlaces
  <2> QED BY <1>1, <1>2, <1>3, <2>1, <2>2 DEF BuildPaid, RecordPaid, Recording, RecordPlaces, Judging
<1>9. CASE RecordChecks
  <2>1. CASE cmd' = NewCmd \/ cmd' = Recorded
    <3>1. cmd'.pc \in {"idle", "recorded"}
      BY <2>1 DEF Recorded, NewCmd
    <3> QED BY <1>3, <3>1 DEF BuildPaid, RecordPaid, Recording, RecordPlaces, Judging
  <2>2. CASE At("check") /\ Goto("check signature")
    <3>1. cmd.pc = "check" /\ cmd'.pc = "check signature"
      BY <2>2 DEF Goto
    <3>2. ToDownload + Off(release.archive, dir.archive) <= edits
      BY <3>1 DEF RecordPaid, Recording, RecordPlaces
    <3> QED BY <1>1, <1>2, <1>3, <3>1, <3>2 DEF BuildPaid, RecordPaid, Recording, RecordPlaces, Judging
  <2>3. CASE At("check signature") /\ Goto("check assets") /\ dir.sig = dir.archive
    <3>1. cmd.pc = "check signature" /\ cmd.caller = "record" /\ cmd'.pc = "check assets"
      BY <1>9, <2>3, RecordChecksMove DEF Goto
    <3>2. ToDownload + Off(release.archive, dir.archive) <= edits
      BY <3>1 DEF RecordPaid, Recording, Judging
    <3>3. ToJudge + Off(dir.sig, dir.archive) <= edits
      <4>1. ToJudge = ToDownload + Off(release.archive, dir.archive)
        BY <2>3 DEF ToJudge
      <4>2. Off(dir.sig, dir.archive) = 0
        BY <2>3, OffCounts
      <4> QED BY <3>2, <4>1, <4>2, PathNat
    <3> QED BY <1>1, <1>2, <1>3, <3>1, <3>3 DEF BuildPaid, RecordPaid, Recording, RecordPlaces, Judging
  <2>4. CASE At("check assets") /\ Goto("check downloads") /\ SameAssets
    <3>1. cmd.pc = "check assets" /\ cmd.caller = "record" /\ cmd'.pc = "check downloads" /\ release.archive = dir.archive
      BY <1>9, <2>4, RecordChecksMove DEF Goto, SameAssets
    <3>2. ToJudge + Off(dir.sig, dir.archive) <= edits
      BY <3>1 DEF RecordPaid, Recording, Judging
    <3>3. ToAssets + Off(release.archive, dir.archive) <= edits
      <4>1. ToAssets = ToJudge + Off(dir.sig, dir.archive)
        BY <3>1 DEF ToAssets
      <4>2. Off(release.archive, dir.archive) = 0
        BY <3>1, OffCounts
      <4> QED BY <3>2, <4>1, <4>2, PathNat
    <3> QED BY <1>1, <1>2, <1>3, <3>1, <3>3 DEF BuildPaid, RecordPaid, Recording, RecordPlaces, Judging
  <2>5. CASE At("check downloads") /\ Goto("check capsule")
    <3>1. cmd.pc = "check downloads" /\ cmd.caller = "record" /\ cmd'.pc = "check capsule"
      BY <1>9, <2>5, RecordChecksMove DEF Goto
    <3>2. ToAssets + Off(release.archive, dir.archive) <= edits
      BY <3>1 DEF RecordPaid, Recording, Judging
    <3> QED BY <1>1, <1>2, <1>3, <3>1, <3>2 DEF BuildPaid, RecordPaid, Recording, RecordPlaces, Judging
  <2> QED BY <1>9, <2>1, <2>2, <2>3, <2>4, <2>5, RecordChecksMove
<1> QED BY <1>5, <1>6, <1>7, <1>8, <1>9 DEF Record, RecordChecks

\* A change of the checkout parts the capsule being built from its manifest by
\* one more at most, and a change of the archive puts it one difference further.
LEMMA EditPaidStep ==
  ASSUME PackageTyped, BuildPaid, RestPaid, RecordPaid, PackageEdit
  PROVE  BuildPaid' /\ RestPaid' /\ RecordPaid'
<1>1. /\ edits \in Nat /\ edits' = edits + 1 /\ UNCHANGED <<release, cmd>>
      /\ dir'.result = dir.result /\ dir'.sig = dir.sig
      /\ (dir'.archive = dir.archive \/ root' = root)
  BY DEF PackageEdit, PackageTyped, Directories
<1>2. /\ Built' = Built /\ Parted' = Parted /\ ToSign' = ToSign /\ ToPublish' = ToPublish /\ ToBegin' = ToBegin
      /\ ToSignature' = ToSignature /\ ToDownload' = ToDownload /\ ToJudge' = ToJudge /\ ToAssets' = ToAssets
  BY <1>1, PathKept
<1>3. Packed' = Packed
  BY <1>1 DEF Packed
<1>4. BuildPaid'
  <2>1. cmd.pc = "capsule" => Off(root', cmd.snapshot) <= edits + 1
    BY <1>1, OffCounts
  <2>2. PartedBy(cmd.capsule, cmd.snapshot)' \in Nat /\ PartedBy(cmd.capsule, cmd.snapshot) \in Nat
    BY DEF PartedBy
  <2>3. PartedBy(cmd.capsule, cmd.snapshot)' <= PartedBy(cmd.capsule, cmd.snapshot) + 1
    BY <1>1 DEF PartedBy
  <2>4. CASE dir'.archive = dir.archive
    BY <1>1, <1>3, <2>1, <2>2, <2>3, <2>4, OffCounts DEF BuildPaid
  <2>5. CASE root' = root
    <3>1. PartedBy(cmd.capsule, cmd.snapshot)' = PartedBy(cmd.capsule, cmd.snapshot)
      BY <1>1, <2>5 DEF PartedBy
    <3>2. cmd.pc = "recapture" => PartedBy(cmd.capsule, cmd.snapshot) + Off(Packed, dir'.archive) <= edits + 1
      BY <1>1, <2>2, OneEdit DEF BuildPaid
    <3> QED BY <1>1, <1>3, <2>1, <2>2, <3>1, <3>2 DEF BuildPaid
  <2> QED BY <1>1, <2>4, <2>5
<1>5. RestPaid'
  BY <1>1, <1>2, PathNat, OneEdit DEF RestPaid
<1>6. RecordPaid'
  BY <1>1, <1>2, PathNat, OneEdit DEF RecordPaid, Recording
<1> QED BY <1>4, <1>5, <1>6

\* The steps aside change nothing that is paid for.
LEMMA AsidePaidStep ==
  ASSUME PackageTyped, BuildPaid, RestPaid, RecordPaid, Aside
  PROVE  BuildPaid' /\ RestPaid' /\ RecordPaid'
<1>1. UNCHANGED <<root, dir, release>> /\ edits \in Nat /\ edits' \in Nat /\ edits <= edits'
  BY DEF Aside, packageVars, PackageTyped
<1>2. /\ Built' = Built /\ Parted' = Parted /\ ToSign' = ToSign /\ ToPublish' = ToPublish /\ ToBegin' = ToBegin
      /\ ToSignature' = ToSignature /\ ToDownload' = ToDownload /\ ToJudge' = ToJudge /\ ToAssets' = ToAssets
  BY <1>1, PathKept
<1>3. \A x, y : Off(x, y) \in Nat
  BY OffCounts
<1>4. RestPaid'
  BY <1>1, <1>2, <1>3, PathNat DEF RestPaid
<1>5. CASE UNCHANGED cmd
  <2>1. Packed' = Packed /\ \A x, y : PartedBy(x, y)' = PartedBy(x, y) /\ PartedBy(x, y) \in Nat
    BY <1>1, <1>5 DEF Packed, PartedBy
  <2>2. BuildPaid'
    BY <1>1, <1>3, <1>5, <2>1 DEF BuildPaid
  <2>3. RecordPaid'
    <3>1. \A n \in Nat : \A x, y : n + Off(x, y) <= edits => n + Off(x, y) <= edits'
      BY <1>1, <1>3
    <3>2. Recording' = Recording
      BY <1>5 DEF Recording
    <3> QED BY <1>1, <1>2, <1>5, <3>1, <3>2, PathNat DEF RecordPaid
  <2> QED BY <1>4, <2>2, <2>3
<1>6. CASE cmd'.pc \notin Packing \cup RecordPlaces /\ (cmd'.pc \in Judging => cmd'.caller = "audit")
  <2>1. BuildPaid'
    BY <1>6 DEF BuildPaid, Packing
  <2>2. RecordPaid'
    BY <1>6 DEF RecordPaid, Recording, RecordPlaces
  <2> QED BY <1>4, <2>1, <2>2
<1> QED BY <1>5, <1>6 DEF Aside

-----------------------------------------------------------------------------
(* What an audit knows.                                                    *)

\* The commands of the package end or go on as what they are: none becomes a
\* collection or an audit.
LEMMA PackageMoves ==
  ASSUME PackageTyped, Build \/ Owner \/ Record
  PROVE  \/ UNCHANGED cmd /\ Free
         \/ cmd'.pc \in Packing \cup RecordPlaces \cup {"idle"}
         \/ cmd'.pc \in Judging /\ cmd'.caller = "record"
         \/ cmd' = Recorded /\ RecordChecks
<1> USE DEF PackageTyped, Commands, Goto
<1>1. CASE Build
  <2> SUFFICES cmd'.pc \in Packing \cup {"idle"}
    OBVIOUS
  <2>1. CASE BuildBegin
    BY <2>1 DEF BuildBegin, NewCmd, Packing
  <2>2. CASE BuildCapture
    BY <2>2 DEF BuildCapture, Packing
  <2>3. CASE Capsule
    BY <2>3 DEF Capsule, Packing
  <2>4. CASE Export \/ CapsuleUnchanged
    BY <2>4 DEF Export, CapsuleUnchanged, Require, NewCmd, Packing
  <2>5. CASE CopyInputs
    BY <2>5 DEF CopyInputs, Packing
  <2>6. CASE Pack
    BY <2>6 DEF Pack, Packing
  <2>7. CASE BuildEnd
    BY <2>7 DEF BuildEnd, NewCmd
  <2> QED BY <1>1, <2>1, <2>2, <2>3, <2>4, <2>5, <2>6, <2>7 DEF Build
<1>2. CASE Owner
  BY <1>2 DEF Owner, Sign, Publish
<1>3. CASE Record
  <2>1. CASE RecordBegin
    BY <2>1 DEF RecordBegin, NewCmd, RecordPlaces
  <2>2. CASE RecordSignature
    BY <2>2 DEF RecordSignature, Require, NewCmd, RecordPlaces
  <2>3. CASE Download
    BY <2>3 DEF Download, NewCmd, RecordPlaces
  <2>4. CASE RecordReport
    BY <2>4 DEF RecordReport, RecordPlaces
  <2>5. CASE RecordChecks
    <3>1. CASE cmd' = NewCmd
      BY <3>1 DEF NewCmd
    <3>2. CASE cmd' # NewCmd /\ cmd' # Recorded
      BY <2>5, <3>2, RecordChecksMove DEF Judging
    <3> QED BY <2>5, <3>1, <3>2
  <2> QED BY <1>3, <2>1, <2>2, <2>3, <2>4, <2>5 DEF Record, RecordChecks
<1> QED BY <1>1, <1>2, <1>3

\* The collector writes its record when a bundle is attested, and a bundle is
\* attested once.
LEMMA CiIsBundleStep ==
  ASSUME PackageTyped, CiIsBundle, AuditNext
  PROVE  CiIsBundle'
<1> USE DEF CiIsBundle, At, evidence
<1>1. CASE (Build \/ Owner \/ Record \/ PackageEdit) /\ UNCHANGED <<evidence, slots>>
  <2>1. cmd'.pc # "collected" \/ UNCHANGED cmd
    <3> HIDE DEF CiIsBundle, evidence
    <3> QED BY <1>1, PackageMoves DEF Packing, RecordPlaces, Judging, PackageEdit, Recorded, NewCmd
  <2> QED BY <1>1, <2>1
<1>2. CASE NewRoom
  BY <1>2 DEF NewRoom
<1>3. CASE Attest
  BY <1>3 DEF Attest, Free
<1>4. CASE Collect
  BY <1>4 DEF Collect, NewCmd
<1>5. CASE CollectReport
  <2>1. cmd'.pc = "ci" /\ bundle' = bundle /\ ci'.archived = bundle /\ bundle # None
    BY <1>5 DEF CollectReport, Goto, PackageTyped, Commands
  <2> QED BY <2>1
<1>6. CASE Collected
  <2>1. UNCHANGED evidence /\ (Goto("vm") \/ cmd' = NewCmd)
    BY <1>6 DEF Collected, CheckCi
  <2>2. cmd'.pc # "collected"
    BY <2>1 DEF Goto, NewCmd, PackageTyped, Commands
  <2> QED BY <2>1, <2>2
<1>7. CASE AuditStep
  <2>1. UNCHANGED <<bundle, ci>>
    BY <1>7, AuditStepReads
  <2>2. cmd'.pc # "collected"
    <3>1. CASE cmd' = NewAudit \/ cmd' = [NewCmd EXCEPT !.pc = "audited"]
      BY <3>1 DEF NewAudit, NewCmd
    <3>2. ASSUME NEW pc \in AuditPlaces \cup Judging \cup {"ci", "vm"}, Goto(pc)
          PROVE  cmd'.pc # "collected"
      BY <3>2 DEF AuditPlaces, Judging, Goto, PackageTyped, Commands
    <3> QED BY <1>7, <3>1, <3>2, AuditStepReads
  <2> QED BY <2>1, <2>2
<1>8. CASE CommandFails
  BY <1>8 DEF CommandFails, NewCmd
<1> QED BY <1>1, <1>2, <1>3, <1>4, <1>5, <1>6, <1>7, <1>8 DEF AuditNext

\* Every statement of an audit of a checkout that nobody changes adds what it
\* found to what the ones before it found, and that stays true.
LEMMA AuditStepKnows ==
  ASSUME PackageTyped, EvidenceTyped, CiIsBundle, AuditKnows, AuditStep
  PROVE  AuditKnows'
<1>1. UNCHANGED <<packageVars, edits, ran, room, bundle, ci>>
  BY AuditStepReads
<1>2. /\ RoomKnown' = RoomKnown /\ SameRoom' = SameRoom /\ ArchiveKnown' = ArchiveKnown
      /\ SignatureKnown' = SignatureKnown /\ AssetsKnown' = AssetsKnown /\ ReleaseKnown' = ReleaseKnown
  BY <1>1 DEF packageVars, RoomKnown, SameRoom, ArchiveKnown, SignatureKnown, AssetsKnown, ReleaseKnown,
    SameAssets, CapsuleIsCurrent
<1>3. /\ slots \in [invalid : BOOLEAN, outstanding : BOOLEAN, snapshots : SUBSET Maybe(Version),
                    policies : SUBSET Version, began : Nat]
      /\ cmd \in Commands /\ root' = root /\ edits' = edits /\ ci' = ci
  BY <1>1 DEF EvidenceTyped, SlotKnowledge, PackageTyped, packageVars
<1> USE DEF At, Untouched
<1>4. ASSUME slots'.invalid \/ slots'.outstanding, cmd'.pc \notin {"ci", "vm"}, Auditing, slots'.began = slots.began
      PROVE  AuditKnows'
  BY <1>3, <1>4 DEF AuditKnows
<1>5. CASE AuditBegin
  <2>1. cmd'.pc = "runtime" /\ slots'.began = edits /\ slots'.policies = {}
    BY <1>5 DEF AuditBegin, NewAudit, NewCmd, Slots
  <2>2. slots'.began <= edits' /\ slots'.policies \subseteq {root'}
    BY <1>3, <2>1 DEF PackageTyped
  <2>3. cmd'.pc \notin {"ci", "vm"} /\ cmd'.pc \notin {"release", "invalid"} \cup Judging \cup AfterRelease
    BY <2>1 DEF Judging, AfterRelease
  <2> QED BY <2>1, <2>2, <2>3 DEF AuditKnows, Judging, AfterRelease
<1>6. CASE CheckRuntime
  <2>1. cmd.pc = "runtime" /\ Auditing /\ cmd'.pc = "lean"
    BY <1>3, <1>6 DEF CheckRuntime, Missing, Invalid, Goto, Commands, Auditing, AuditPlaces
  <2>2. CASE UNCHANGED slots
    BY <1>3, <2>1, <2>2 DEF AuditKnows, Judging, AfterRelease
  <2>3. CASE slots' = [slots EXCEPT !.outstanding = TRUE] \/ slots' = [slots EXCEPT !.invalid = TRUE]
    BY <1>3, <1>4, <2>1, <2>3
  <2> QED BY <1>6, <2>2, <2>3 DEF CheckRuntime, Missing, Invalid
<1>7. ASSUME NEW here, NEW next, CheckProofs(here, next), <<here, next>> \in {<<"lean", "rocq">>, <<"rocq", "clean room">>}
      PROVE  AuditKnows'
  <2>1. cmd.pc = here /\ Auditing /\ cmd'.pc = next
    BY <1>3, <1>7 DEF CheckProofs, Missing, Invalid, Goto, Commands, Auditing, AuditPlaces
  <2>2. CASE slots' = [slots EXCEPT !.policies = @ \cup {root}]
    <3>1. slots'.policies = slots.policies \cup {root} /\ slots'.began = slots.began
          /\ slots'.invalid = slots.invalid /\ slots'.outstanding = slots.outstanding
      BY <1>3, <2>2
    <3>2. Untouched' => slots'.policies = {root}
      BY <1>3, <1>7, <2>1, <3>1 DEF AuditKnows
    <3> QED BY <1>3, <1>7, <2>1, <3>1, <3>2 DEF AuditKnows, Judging, AfterRelease
  <2>3. CASE slots' = [slots EXCEPT !.outstanding = TRUE] \/ slots' = [slots EXCEPT !.invalid = TRUE]
    BY <1>3, <1>4, <1>7, <2>1, <2>3
  <2> QED BY <1>7, <2>2, <2>3 DEF CheckProofs, Missing, Invalid
<1>8. CASE CheckCleanRoom
  <2>1. cmd.pc = "clean room" /\ Auditing
    BY <1>8 DEF CheckCleanRoom, Auditing, AuditPlaces
  <2>2. CASE ci # None /\ Goto("ci") /\ UNCHANGED slots
    <3>1. cmd'.pc = "ci"
      BY <1>3, <2>2 DEF Goto, Commands
    <3> QED BY <1>3, <2>1, <2>2, <3>1 DEF AuditKnows, Judging, AfterRelease
  <2>3. CASE Missing("release") \/ Invalid("release")
    <3>1. cmd'.pc = "release" /\ slots'.began = slots.began /\ (slots'.invalid \/ slots'.outstanding)
      BY <1>3, <2>3 DEF Missing, Invalid, Goto, Commands
    <3> QED BY <1>4, <2>1, <3>1
  <2> QED BY <1>8, <2>2, <2>3 DEF CheckCleanRoom
<1>9. CASE AuditCi
  <2>1. cmd.pc = "ci" /\ Auditing
    BY <1>9 DEF AuditCi, CheckCi, Auditing
  <2>2. CASE SameRoom
    <3>1. cmd'.pc = "vm" /\ UNCHANGED slots
      BY <1>3, <1>9, <2>2 DEF AuditCi, CheckCi, Goto, Commands
    <3> QED BY <1>2, <1>3, <2>1, <2>2, <3>1 DEF AuditKnows, Judging, AfterRelease
  <2>3. CASE ~SameRoom
    <3>1. cmd'.pc = "release" /\ slots'.began = slots.began /\ slots'.invalid
      BY <1>3, <1>9, <2>3 DEF AuditCi, CheckCi, Commands
    <3> QED BY <1>4, <2>1, <3>1
  <2> QED BY <2>2, <2>3
<1>10. CASE AuditVm
  <2>1. cmd.pc = "vm" /\ Auditing /\ cmd'.pc = "release"
    BY <1>3, <1>10 DEF AuditVm, Auditing, Goto, Commands
  <2>2. CASE VmReportIsCurrent
    <3>1. /\ slots'.policies = slots.policies /\ slots'.began = slots.began
          /\ slots'.invalid = slots.invalid /\ slots'.outstanding = slots.outstanding
      BY <1>3, <1>10, <2>2 DEF AuditVm, CheckVmReport
    <3>2. Untouched' => Untouched
      BY <1>3, <3>1
    <3>3. Untouched => SameRoom /\ ci # None
      BY <2>1 DEF AuditKnows
    <3>4. Untouched => RoomKnown
      BY <2>2, <3>3 DEF SameRoom, VmReportIsCurrent, CiIsBundle, RoomKnown
    <3> QED BY <1>2, <1>3, <2>1, <3>1, <3>2, <3>4 DEF AuditKnows, Judging, AfterRelease
  <2>3. CASE ~VmReportIsCurrent
    <3>1. slots'.began = slots.began /\ slots'.invalid
      BY <1>3, <1>10, <2>3 DEF AuditVm, CheckVmReport
    <3> QED BY <1>4, <2>1, <3>1
  <2> QED BY <2>2, <2>3
<1>11. CASE NoRelease
  <2>1. cmd.pc = "release" /\ Auditing /\ cmd'.pc = "third party" /\ slots'.began = slots.began /\ slots'.outstanding
    BY <1>3, <1>11 DEF NoRelease, Missing, Goto, Commands, Auditing, AuditPlaces
  <2> QED BY <1>4, <2>1
<1>12. CASE AuditRelease
  <2>1. cmd.caller = "audit" /\ UNCHANGED slots /\ Untouched' = Untouched
    BY <1>3, <1>12, AuditReleaseMoves
  <2>2. CASE Goto("invalid")
    <3>1. Auditing /\ cmd.pc \in {"release"} \cup Judging /\ cmd'.pc = "invalid"
      BY <1>3, <1>12, <2>1, <2>2 DEF Goto, Commands, AuditRelease, CheckRelease, CheckArchive, CheckSignature,
        CheckAssets, CheckDownloads, CheckCapsule, Require, Judging, Auditing, AuditPlaces
    <3> QED BY <1>2, <1>3, <2>1, <3>1 DEF AuditKnows, Judging, AfterRelease
  <2>3. CASE At("release") /\ Goto("check signature") /\ ArchiveKnown
    <3>1. Auditing /\ cmd.pc = "release" /\ cmd'.pc = "check signature"
      BY <1>3, <2>3 DEF Goto, Commands, Auditing, AuditPlaces
    <3> QED BY <1>2, <1>3, <2>1, <2>3, <3>1 DEF AuditKnows, Judging, AfterRelease
  <2>4. CASE At("check signature") /\ Goto("check assets") /\ dir.sig = dir.archive
    <3>1. Auditing /\ cmd.pc = "check signature" /\ cmd'.pc = "check assets"
      BY <1>3, <2>1, <2>4 DEF Goto, Commands, Auditing, Judging
    <3>2. Untouched => SignatureKnown /\ RoomKnown
      BY <2>4, <3>1 DEF AuditKnows, SignatureKnown, Judging
    <3> QED BY <1>2, <1>3, <2>1, <3>1, <3>2 DEF AuditKnows, Judging, AfterRelease
  <2>5. CASE At("check assets") /\ Goto("check downloads") /\ SameAssets
    <3>1. Auditing /\ cmd.pc = "check assets" /\ cmd'.pc = "check downloads"
      BY <1>3, <2>1, <2>5 DEF Goto, Commands, Auditing, Judging
    <3>2. Untouched => AssetsKnown /\ RoomKnown
      BY <2>5, <3>1 DEF AuditKnows, AssetsKnown, Judging
    <3> QED BY <1>2, <1>3, <2>1, <3>1, <3>2 DEF AuditKnows, Judging, AfterRelease
  <2>6. CASE At("check downloads") /\ Goto("check capsule")
    <3>1. Auditing /\ cmd.pc = "check downloads" /\ cmd'.pc = "check capsule"
      BY <1>3, <2>1, <2>6 DEF Goto, Commands, Auditing, Judging
    <3> QED BY <1>2, <1>3, <2>1, <3>1 DEF AuditKnows, Judging, AfterRelease
  <2>7. CASE At("check capsule") /\ Goto("verified") /\ CapsuleIsCurrent
    <3>1. Auditing /\ cmd.pc = "check capsule" /\ cmd'.pc = "verified"
      BY <1>3, <2>1, <2>7 DEF Goto, Commands, Auditing, Judging
    <3>2. Untouched => ReleaseKnown /\ RoomKnown
      BY <2>7, <3>1 DEF AuditKnows, ReleaseKnown, Judging
    <3> QED BY <1>2, <1>3, <2>1, <3>1, <3>2 DEF AuditKnows, Judging, AfterRelease
  <2> QED BY <1>12, <2>2, <2>3, <2>4, <2>5, <2>6, <2>7, AuditReleaseMoves
<1>13. CASE ReleaseSlot
  <2>1. cmd.pc \in {"verified", "invalid"} /\ Auditing /\ cmd'.pc = "third party"
    BY <1>3, <1>13 DEF ReleaseSlot, Goto, Commands, Auditing, AuditPlaces
  <2>2. CASE cmd.pc = "verified"
    <3>1. /\ slots'.policies = slots.policies /\ slots'.began = slots.began
          /\ slots'.invalid = slots.invalid /\ slots'.outstanding = slots.outstanding
      BY <1>3, <1>13, <2>2 DEF ReleaseSlot
    <3> QED BY <1>2, <1>3, <2>1, <2>2, <3>1 DEF AuditKnows, Judging, AfterRelease
  <2>3. CASE cmd.pc = "invalid"
    <3>1. slots'.began = slots.began /\ slots'.invalid
      BY <1>3, <1>13, <2>3 DEF ReleaseSlot
    <3> QED BY <1>4, <2>1, <3>1
  <2> QED BY <2>1, <2>2, <2>3
<1>14. CASE CheckThirdParty \/ PublicClaims
  <2>1. /\ cmd.pc \in {"third party", "claims"} /\ Auditing /\ cmd'.pc \in {"claims", "aggregate"}
        /\ \/ UNCHANGED slots \/ slots' = [slots EXCEPT !.invalid = TRUE]
           \/ slots' = [slots EXCEPT !.snapshots = @ \cup {root}]
    BY <1>3, <1>14 DEF CheckThirdParty, PublicClaims, Invalid, Goto, Commands, Auditing, AuditPlaces
  <2>2. CASE slots' = [slots EXCEPT !.invalid = TRUE]
    BY <1>3, <1>4, <2>1, <2>2
  <2>3. CASE UNCHANGED slots \/ slots' = [slots EXCEPT !.snapshots = @ \cup {root}]
    <3>1. /\ slots'.policies = slots.policies /\ slots'.began = slots.began
          /\ slots'.invalid = slots.invalid /\ slots'.outstanding = slots.outstanding
      BY <1>3, <2>3
    <3> QED BY <1>2, <1>3, <2>1, <3>1 DEF AuditKnows, Judging, AfterRelease
  <2> QED BY <2>1, <2>2, <2>3
<1>15. CASE Aggregate
  <2>1. cmd'.pc = "audited"
    BY <1>15 DEF Aggregate, NewCmd
  <2> QED BY <2>1 DEF AuditKnows, Auditing, AuditPlaces, Judging
<1> QED BY <1>5, <1>6, <1>7, <1>8, <1>9, <1>10, <1>11, <1>12, <1>13, <1>14, <1>15
  DEF AuditStep, CheckLean, CheckRocq

\* A change makes an audit know nothing: it is one more than when it began.  The
\* other commands do not run while an audit does.
LEMMA AuditKnowsStep ==
  ASSUME PackageTyped, EvidenceTyped, ReleaseOrder, CiIsBundle, AuditKnows, AuditNext
  PROVE  AuditKnows'
<1>1. ASSUME ~Auditing' PROVE AuditKnows'
  BY <1>1 DEF AuditKnows
<1>2. ASSUME edits' = edits + 1, UNCHANGED <<cmd, ci, slots>> PROVE AuditKnows'
  <2>1. Auditing' = Auditing /\ edits \in Nat /\ slots.began \in Nat
    BY <1>2 DEF Auditing, PackageTyped, EvidenceTyped, SlotKnowledge
  <2>2. CASE Auditing
    <3>1. slots.began <= edits /\ (cmd.pc \in {"ci", "vm"} => ci # None)
      BY <2>2 DEF AuditKnows
    <3>2. edits' # slots'.began /\ slots'.began <= edits' /\ (cmd'.pc \in {"ci", "vm"} => ci' # None)
      BY <1>2, <2>1, <3>1
    <3>3. ~Untouched'
      BY <3>2 DEF Untouched
    <3> QED BY <3>2, <3>3 DEF AuditKnows
  <2> QED BY <1>1, <2>1, <2>2
<1>3. Free => ~Auditing
  BY DEF Free, Auditing, AuditPlaces, Judging
<1>4. CASE (Build \/ Owner \/ Record \/ PackageEdit) /\ UNCHANGED <<evidence, slots>>
  <2>1. CASE Build \/ Owner \/ Record
    <3>1. ~Auditing'
      BY <1>3, <2>1, PackageMoves DEF Auditing, AuditPlaces, Judging, Packing, RecordPlaces, Recorded, NewCmd
    <3> QED BY <1>1, <3>1
  <2>2. CASE PackageEdit
    BY <1>2, <1>4, <2>2 DEF PackageEdit, evidence
  <2> QED BY <1>4, <2>1, <2>2
<1>5. CASE NewRoom
  <2>1. CASE room = None
    <3>1. ~Auditing'
      BY <1>3, <1>5, <2>1 DEF NewRoom, Auditing
    <3> QED BY <1>1, <3>1
  <2>2. CASE room # None
    BY <1>2, <1>5, <2>2 DEF NewRoom
  <2> QED BY <2>1, <2>2
<1>6. CASE Attest
  <2>1. ~Auditing'
    BY <1>3, <1>6 DEF Attest, Auditing
  <2> QED BY <1>1, <2>1
<1>7. CASE Collect \/ CollectReport \/ Collected
  <2>1. cmd'.pc \in {"collected", "idle"} \/ (cmd'.pc \in {"ci", "vm"} /\ cmd'.caller = "collect")
    <3> USE DEF PackageTyped, Commands, Goto, At
    <3>1. CASE Collect
      BY <3>1 DEF Collect, NewCmd
    <3>2. CASE CollectReport
      BY <3>2 DEF CollectReport, CiIsBundle
    <3>3. CASE Collected
      BY <3>3 DEF Collected, CheckCi, NewCmd
    <3> QED BY <1>7, <3>1, <3>2, <3>3
  <2>2. ~Auditing'
    BY <2>1 DEF Auditing, AuditPlaces, Judging
  <2> QED BY <1>1, <2>2
<1>8. CASE AuditStep
  BY <1>8, AuditStepKnows
<1>9. CASE CommandFails
  <2>1. ~Auditing'
    BY <1>9 DEF CommandFails, NewCmd, Auditing, AuditPlaces, Judging
  <2> QED BY <1>1, <2>1
<1> QED BY <1>4, <1>5, <1>6, <1>7, <1>8, <1>9 DEF AuditNext

-----------------------------------------------------------------------------
(* The theorems.                                                           *)

\* The package, the evidence and the running command are always in the states
\* that the two promises below need: the types, the order of the commands, every
\* difference paid for by an edit, and what an audit knows.
THEOREM ReleaseIsInOrder == AuditSpec => []ReleaseInv
<1>1. AuditInit => ReleaseInv
  BY ReleaseInitially
<1>2. ReleaseInv /\ [AuditNext]_auditVars => ReleaseInv'
  <2> SUFFICES ASSUME ReleaseInv, [AuditNext]_auditVars PROVE ReleaseInv'
    OBVIOUS
  <2> USE DEF ReleaseInv
  <2>1. CASE AuditNext
    <3>1. PackageTyped' /\ EvidenceTyped'
      BY <2>1, AuditTypeStep
    <3>2. ReleaseOrder'
      BY <2>1, ReleaseOrderStep
    <3>3. BuildPaid' /\ RestPaid' /\ RecordPaid'
      <4>1. CASE Build \/ Owner
        BY <4>1, PackagePaidStep
      <4>2. CASE Record
        BY <4>2, RecordPaidStep
      <4>3. CASE PackageEdit
        BY <4>3, EditPaidStep
      <4>4. CASE Others
        BY <4>4, OthersAside, AsidePaidStep
      <4> QED BY <2>1, <4>1, <4>2, <4>3, <4>4 DEF AuditNext, Others
    <3>4. CiIsBundle' /\ AuditKnows'
      BY <2>1, CiIsBundleStep, AuditKnowsStep
    <3> QED BY <3>1, <3>2, <3>3, <3>4
  <2>2. CASE UNCHANGED auditVars
    <3>1. /\ UNCHANGED <<root, inputs, dir, release, cmd, edits>>
          /\ UNCHANGED <<ran, room, bundle, ci, slots>>
      BY <2>2 DEF auditVars, packageVars, evidence
    <3>2. PackageTyped' /\ EvidenceTyped' /\ ReleaseOrder'
      BY <3>1 DEF PackageTyped, EvidenceTyped, ReleaseOrder, Recording
    <3>3. BuildPaid' /\ RestPaid' /\ RecordPaid'
      <4>1. Aside
        BY <3>1 DEF Aside, packageVars, PackageTyped
      <4> QED BY <4>1, AsidePaidStep
    <3>4. CiIsBundle'
      BY <3>1 DEF CiIsBundle, At
    <3>5. AuditKnows'
      BY <3>1 DEF AuditKnows, Auditing, Untouched, RoomKnown, SameRoom, ArchiveKnown, SignatureKnown, AssetsKnown,
        ReleaseKnown, SameAssets, CapsuleIsCurrent
    <3> QED BY <3>2, <3>3, <3>4, <3>5
  <2> QED BY <2>1, <2>2
<1> QED BY <1>1, <1>2, PTL DEF AuditSpec

\* A record that answers is one whose last check found the capsule current.
LEMMA RecordAnswers ==
  ASSUME ReleaseInv, AuditNext, ~At("recorded"), cmd'.pc = "recorded"
  PROVE  At("check capsule") /\ cmd.caller = "record" /\ CapsuleIsCurrent
<1> USE DEF ReleaseInv
<1>1. cmd' # cmd
  BY DEF At
<1>2. ~Others
  BY <1>1, OthersAside DEF Aside
<1>3. ~PackageEdit
  BY <1>1 DEF PackageEdit
<1>4. RecordChecks /\ cmd' = Recorded
  BY <1>1, <1>2, <1>3, PackageMoves DEF AuditNext, Others, Packing, RecordPlaces, Judging
<1>5. Recorded.pc = "recorded" /\ NewCmd.pc = "idle"
  BY DEF Recorded, NewCmd
<1> QED BY <1>4, <1>5, RecordChecksMove DEF At, Goto, PackageTyped, Commands

\* Three differences are more than two edits: where the record has found the
\* archive in place and two edits are all there were, the signature, the result
\* and the release are of one archive, and the capsule parts from the manifest
\* only if the archive in place is the published one.
LEMMA TwoEdits ==
  ASSUME ToAssets + Off(release.archive, dir.archive) <= 2
  PROVE  /\ dir.sig = release.archive /\ Built = release.archive
         /\ (Parted = 0 \/ dir.archive = release.archive)
<1> DEFINE s == Off(Built, dir.sig)
           r == Off(dir.sig, release.archive)
           b == Off(release.archive, Built)
           j == Off(release.archive, dir.sig)
           n == Off(release.archive, dir.archive)
<1>1. s \in {0, 1} /\ r \in {0, 1} /\ b \in {0, 1} /\ j \in {0, 1} /\ n \in {0, 1} /\ Parted \in {0, 2}
  BY OffCounts, PathNat
<1>2. j = r
  BY DEF Off
<1>3. ToAssets = Parted + s + r + b + s + r + j + r
  BY DEF ToAssets, ToJudge, ToDownload, ToSignature, ToBegin, ToPublish, ToSign
<1>4. Parted + s + r + b + s + r + j + r + n <= 2
  BY <1>3
<1>5. r = 0 => (b = s)
  BY OffCounts DEF Off
<1> HIDE DEF s, r, b, j, n
<1>6. r = 0
  BY <1>1, <1>2, <1>4
<1>7. s = 0 /\ b = 0 /\ (Parted = 0 \/ n = 0)
  BY <1>1, <1>2, <1>4, <1>5, <1>6
<1> QED BY <1>6, <1>7, OffCounts DEF r, b, n

\* A record that answers has one archive: with two changes or fewer none of the
\* ways on which the owner's signature, the published archive and its capsule
\* part is affordable, since the record reads the archive again and again.
THEOREM RecordAnswersOneArchive == AuditSpec => RecordIsOneArchive
<1>1. ASSUME ReleaseInv, AuditNext, ~At("recorded"), cmd'.pc = "recorded", edits <= 2
      PROVE  RecordedReleaseIsOneArchive
  <2>1. At("check capsule") /\ cmd.caller = "record" /\ CapsuleIsCurrent
    BY <1>1, RecordAnswers
  <2>2. Recording /\ cmd.pc = "check capsule"
    BY <2>1 DEF At, Recording, Judging
  <2>3. /\ release.sig = dir.sig /\ dir.downloads = release /\ dir.report.snapshot = dir.result.snapshot
        /\ dir.result.archive.manifest = dir.result.snapshot
    BY <1>1, <2>2 DEF ReleaseInv, ReleaseOrder, Judging
  <2>4. ToAssets + Off(release.archive, dir.archive) <= edits
    BY <1>1, <2>2 DEF ReleaseInv, RecordPaid
  <2>5. ToAssets + Off(release.archive, dir.archive) <= 2
    BY <1>1, <2>4, PathNat, OffCounts DEF ReleaseInv, PackageTyped
  <2>6. /\ dir.sig = release.archive /\ Built = release.archive
        /\ (Parted = 0 \/ dir.archive = release.archive)
    BY <2>5, TwoEdits
  <2>7. release.archive.manifest = root
    BY <2>1, <2>3, <2>6 DEF Built, CapsuleIsCurrent
  <2>8. release.archive.capsule = root
    <3>1. dir.archive.capsule = root /\ dir.result.snapshot = root
      BY <2>1, <2>3 DEF CapsuleIsCurrent
    <3>2. CASE Parted = 0
      <4>1. Built.capsule = dir.result.snapshot
        BY <3>2 DEF Parted
      <4> QED BY <2>6, <3>1, <4>1
    <3>3. CASE dir.archive = release.archive
      BY <3>1, <3>3
    <3> QED BY <2>6, <3>2, <3>3
  <2> QED BY <2>3, <2>6, <2>7, <2>8 DEF RecordedReleaseIsOneArchive
<1>2. ReleaseInv /\ [AuditNext]_auditVars => (~At("recorded") /\ cmd'.pc = "recorded" => RecordedReleaseIsOneArchive)
  <2> SUFFICES ASSUME ReleaseInv, [AuditNext]_auditVars, ~At("recorded"), cmd'.pc = "recorded"
               PROVE  RecordedReleaseIsOneArchive
    OBVIOUS
  <2>1. AuditNext
    BY DEF auditVars, At
  <2> QED BY <1>1, <2>1 DEF RecordedReleaseIsOneArchive
<1> QED BY <1>2, ReleaseIsInOrder, PTL DEF RecordIsOneArchive, AuditSpec

\* A passed audit of a checkout that nobody changed is about one source: what it
\* found, place by place, is still so when it aggregates.
THEOREM PassedAuditsAreOneSource == AuditSpec => PassedAuditIsOneSource
<1>1. ASSUME ReleaseInv, [AuditNext]_auditVars, At("aggregate"), cmd'.pc = "audited", audit' = "passed",
             edits = slots.began
      PROVE  OneSource
  <2>1. Aggregate
    <3>1. AuditNext /\ cmd' # cmd
      BY <1>1 DEF auditVars, At
    <3>2. ~(Build \/ Owner \/ Record)
      BY <1>1, <3>1, PackageMoves
        DEF ReleaseInv, At, Packing, RecordPlaces, Judging, Recorded, NewCmd
    <3>3. ~PackageEdit /\ ~NewRoom /\ ~Attest
      BY <3>1 DEF PackageEdit, NewRoom, Attest
    <3>4. ~Collect /\ ~CollectReport /\ ~Collected /\ ~CommandFails
      BY <1>1 DEF Collect, Free, CollectReport, Collected, CheckCi, CommandFails, NewCmd, At
    <3>5. AuditStep
      BY <3>1, <3>2, <3>3, <3>4 DEF AuditNext
    <3>6. ~AuditBegin /\ ~AuditRelease
      BY <1>1 DEF AuditBegin, Free, AuditRelease, CheckRelease, CheckArchive, CheckSignature, CheckAssets,
        CheckDownloads, CheckCapsule, Require, At
    <3> QED BY <1>1, <3>5, <3>6 DEF AuditStep, CheckRuntime, CheckLean, CheckRocq, CheckProofs, CheckCleanRoom,
      AuditCi, CheckCi, AuditVm, NoRelease, ReleaseSlot, CheckThirdParty, PublicClaims, At
  <2>2. ~slots.invalid /\ ~slots.outstanding
    BY <1>1, <2>1 DEF Aggregate
  <2>3. Auditing /\ Untouched /\ cmd.pc = "aggregate"
    BY <1>1, <2>2 DEF Auditing, AuditPlaces, Untouched, At
  <2>4. slots.policies = {root} /\ RoomKnown /\ ReleaseKnown
    BY <1>1, <2>3 DEF ReleaseInv, AuditKnows, AfterRelease, Judging
  <2> QED BY <2>4 DEF OneSource, RoomKnown, ReleaseKnown, AssetsKnown, SignatureKnown, ArchiveKnown, SameAssets,
    CapsuleIsCurrent
<1>2. ReleaseInv /\ [AuditNext]_auditVars =>
        (At("aggregate") /\ cmd'.pc = "audited" /\ audit' = "passed" /\ edits = slots.began => OneSource)
  BY <1>1
<1> QED BY <1>2, ReleaseIsInOrder, PTL DEF PassedAuditIsOneSource, AuditSpec
=============================================================================
