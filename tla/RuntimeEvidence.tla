--------------------------- MODULE RuntimeEvidence ---------------------------
(***************************************************************************)
(* The validator of the runtime evidence (scripts/runtime_evidence.py): it *)
(* reopens the report and the artifacts of a corpus run with the mutation  *)
(* matrix, and recomputes the comparison and the six mutations in Python;  *)
(* "a summary field is never trusted on its own".  It is a second          *)
(* implementation of what Compare and Mutation take from the Rust code, so *)
(* the question is whether the two agree, also when the comparison of the  *)
(* program under test overlooks something.                                 *)
(***************************************************************************)
EXTENDS DiffTest

CONSTANTS
  Words,         \* Words[c]: the instructions that case c injects
  Entry,         \* the first program counter, 0x80000000
  MinimumCases   \* MINIMUM_PER_FAMILY, for all families together

\* No case points past its own program.
ASSUME WordsAssumption == \A c \in DOMAIN Recorded : Focus[c] < Len(Words[c])

NoField == "none"
InjectionComplete == TraceEnd("injection_complete", "none")

-----------------------------------------------------------------------------
\* first_difference: events side by side and field by field, then the lengths,
\* the ends and the pair of empty traces.
FirstDifference(left, right) ==
  LET places == {p \in (0..(Common(left, right) - 1)) \X DOMAIN Fields :
                   left.events[p[1] + 1][Fields[p[2]]] # right.events[p[1] + 1][Fields[p[2]]]}
      first == CHOOSE p \in places :
                 \A q \in places : p[1] < q[1] \/ (p[1] = q[1] /\ p[2] <= q[2])
  IN  CASE places # {} -> << Fields[first[2]], first[1] >>
        [] places = {} /\ Len(left.events) # Len(right.events) ->
             << "trace_length", Common(left, right) >>
        [] places = {} /\ Len(left.events) = Len(right.events) /\ left.end # right.end ->
             << "termination", NoStep >>
        [] OTHER -> << IF left.events = << >> THEN "empty_trace" ELSE NoField, NoStep >>

\* The step whose register write a mutation damages: the focus if it writes,
\* else the first that does.
WritingSteps(trace) == {k \in DOMAIN trace.events : trace.events[k].register_writes # {}}
BugFirstWriter(trace, focus) == Least(WritingSteps(trace))
DamagedWrite(trace, focus) ==
  IF focus + 1 \in WritingSteps(trace) THEN focus + 1 ELSE Least(WritingSteps(trace))

WrappedIndex(index) == IF index >= LastRegister THEN 1 ELSE index + 1

RewriteFirst(writes, kind) ==
  LET w == FirstWrite(writes)
  IN  (writes \ {w}) \cup {IF kind = "register_index" THEN [w EXCEPT !.index = WrappedIndex(@)]
                           ELSE [w EXCEPT !.value = FlipLowBit(@)]}

\* mutated returns None for a register mutation of a trace without writes.
CanMutate(trace, kind) ==
  kind \in {"register_index", "register_value"} => WritingSteps(trace) # {}

Mutated(trace, kind, focus) ==
  CASE kind \in {"register_index", "register_value"} ->
         [trace EXCEPT !.events[DamagedWrite(trace, focus)].register_writes = RewriteFirst(@, kind)]
    [] kind = "pc_after" -> [trace EXCEPT !.events[focus + 1].pc_after = (@ + 2) % WordSize]
    [] kind = "trap" -> [trace EXCEPT !.events[focus + 1].trap = ~ @]
    [] kind = "trace_length" -> [trace EXCEPT !.events = SubSeq(@, 1, Len(@) - 1)]
    [] kind = "termination" -> [trace EXCEPT !.end = TraceEnd("step_limit", "none")]

-----------------------------------------------------------------------------
\* The traces the corpus may have: the whole input stream is committed, without
\* traps and memory accesses, and every program counter follows the one before.
InDomain(trace, words) ==
  /\ Len(trace.events) = Len(words) /\ trace.end = InjectionComplete
  /\ \A k \in DOMAIN trace.events :
       LET event == trace.events[k]
       IN  /\ event.order = k - 1 /\ event.instruction = words[k]
           /\ event.pc_before = (IF k = 1 THEN Entry ELSE trace.events[k - 1].pc_after)
           /\ ~ event.trap /\ ~ event.halt /\ event.memory = {}
           /\ \A w \in event.register_writes : w.index \in 1..LastRegister

\* check_case: the row of the report and the artifact of case c.
CheckCase(c) ==
  LET file == artifacts[c]
      words == Words[c]
  IN  /\ file.kind = "whole"
      /\ file.words = file.instructions /\ file.instructions = c
      /\ results[c] /\ file.passed /\ file.traces.ok
      /\ InDomain(file.traces.ckb, words) /\ InDomain(file.traces.sail, words)
      /\ FirstDifference(file.traces.ckb, file.traces.sail) = << NoField, NoStep >>

\* check_mutations: every mutation of every case, recomputed from the artifact.
CheckMutation(report) ==
  LET traces == artifacts[report.case].traces
      damaged == Mutated(traces.ckb, report.kind, Focus[report.case])
      found == FirstDifference(damaged, traces.sail)
  IN  IF ~ CanMutate(traces.ckb, report.kind)
        THEN ~ report.applied /\ report.field = NoField /\ report.step = NoStep
        ELSE /\ found[1] = ExpectedField(report.kind)
             /\ report.applied /\ found = << report.field, report.step >>

CheckMutations(cases) ==
  /\ mutationsPassed = "passed"
  /\ baselineFailures = {} /\ Undetected = {} /\ Mislocated = {}
  /\ Cardinality(reports) = Cardinality(cases \X MutationKind)
  /\ {<< report.case, report.kind >> : report \in reports} = cases \X MutationKind
  /\ \A report \in reports : CheckMutation(report)
  /\ \A kind \in MutationKind : \E report \in reports : report.kind = kind /\ report.applied

\* validate: the report of the last invocation against its artifact directory.
Validate ==
  /\ status = 0 /\ args.mode = "corpus" /\ args.policy = "exact"
  /\ args.mutate /\ args.store
  /\ Cardinality(DOMAIN results) >= MinimumCases
  /\ \A c \in DOMAIN results : CheckCase(c)
  /\ CheckMutations(DOMAIN results)

-----------------------------------------------------------------------------
\* The stored pair of a case is one the corpus may have, and nobody edited it.
KeptPair(c) ==
  LET file == artifacts[c]
  IN  /\ WrittenNow(file, c)
      /\ file.traces.sail = Recorded[c] /\ InDomain(Recorded[c], Words[c])

\* The validator accepts a green corpus run with the matrix exactly when the
\* artifacts of that very run hold two equal traces for each case: whatever the
\* program's own comparison overlooked is refused, and no honest run is, because
\* both implementations damage and locate at the same place.
ValidatorIsExact ==
  /\ phase = "idle" /\ status = 0
  /\ args.mode = "corpus" /\ args.policy = "exact" /\ args.mutate /\ args.store
  /\ Cardinality(args.cases) >= MinimumCases
  => (Validate <=> \A c \in args.cases : KeptPair(c))
=============================================================================
