------------------------------ MODULE Compare ------------------------------
(***************************************************************************)
(* The strict trace comparison (crates/core/src/compare.rs) and the        *)
(* normalization of what an observer saw (crates/core/src/event.rs).       *)
(* A trace is a record of a sequence of commit events and a termination.   *)
(* Steps are numbered from 0, as in the code.                              *)
(***************************************************************************)
EXTENDS Integers, Sequences, FiniteSets

\* The fields of a CommitEvent in the order compare_event looks at them.
Fields == << "order", "instruction", "pc_before", "pc_after", "register_writes",
             "memory", "trap", "halt" >>

Policies == {"exact", "category_only"}

\* TraceEnd: a category and what an Exact comparison also looks at.
TraceEnd(category, detail) == [category |-> category, detail |-> detail]

\* The result of a comparison: field "none" is no mismatch.  A mismatch of the
\* termination or of two empty traces has no step.
NoStep == -1
Mismatch(compared, step, field) == [compared |-> compared, step |-> step, field |-> field]
Passed(result) == result.field = "none"

\* CommitEvent::normalize drops writes to x0 and empty memory accesses.
Normalize(event) ==
  [event EXCEPT !.register_writes = {w \in @ : w.index # 0},
                !.memory = {m \in @ : m.read_mask # 0 \/ m.write_mask # 0}]

\* The smallest element of a nonempty set of integers.
Least(S) == CHOOSE n \in S : \A m \in S : n <= m

Common(left, right) ==
  IF Len(left.events) < Len(right.events) THEN Len(left.events) ELSE Len(right.events)

\* The steps of the common prefix where the two events are not the same.
DifferingSteps(left, right) ==
  {k \in 0..(Common(left, right) - 1) : left.events[k + 1] # right.events[k + 1]}

\* compare_event: the first field that differs.
DifferingField(left, right) ==
  Fields[Least({f \in DOMAIN Fields : left[Fields[f]] # right[Fields[f]]})]

TerminalMatches(left, right, policy) ==
  IF policy = "exact" THEN left = right ELSE left.category = right.category

\* compare_with_policy: the events of the common prefix, then the lengths, then
\* the terminations, and last the refusal of a pair of empty traces.
BugCommonPrefixPasses(left, right, policy) ==
  LET common == Common(left, right)
      differing == DifferingSteps(left, right)
      k == Least(differing)
  IN  IF differing # {} THEN Mismatch(k, k, DifferingField(left.events[k + 1], right.events[k + 1]))
      ELSE Mismatch(common, NoStep, "none")

CompareWithPolicy(left, right, policy) ==
  LET common == Common(left, right)
      differing == DifferingSteps(left, right)
      k == Least(differing)
  IN  IF differing # {} THEN Mismatch(k, k, DifferingField(left.events[k + 1], right.events[k + 1]))
      ELSE IF Len(left.events) # Len(right.events) THEN Mismatch(common, common, "trace_length")
      ELSE IF ~ TerminalMatches(left.end, right.end, policy)
             THEN Mismatch(common, NoStep, "termination")
      ELSE IF common = 0 THEN Mismatch(common, NoStep, "empty_trace")
      ELSE Mismatch(common, NoStep, "none")
=============================================================================
