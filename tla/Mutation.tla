------------------------------ MODULE Mutation ------------------------------
(***************************************************************************)
(* The mutation matrix (crates/diff-test/src/mutation.rs): deliberate      *)
(* damage to a recorded trace that the comparison must notice and name.    *)
(***************************************************************************)
EXTENDS Compare

CONSTANTS
  LastRegister,  \* x31
  WordSize       \* 2^64

ASSUME MutationAssumption == LastRegister \in Nat \ {0, 1} /\ WordSize \in Nat \ {0, 1, 2}

\* The types CommitEvent and ExecutionTrace of event.rs.
IsCommitEvent(e) ==
  /\ e = [order |-> e.order, instruction |-> e.instruction, pc_before |-> e.pc_before,
          pc_after |-> e.pc_after, register_writes |-> e.register_writes, memory |-> e.memory,
          trap |-> e.trap, halt |-> e.halt]
  /\ e.pc_after \in 0..(WordSize - 1) /\ e.trap \in BOOLEAN
  /\ e.register_writes \subseteq [index : Nat, value : Nat]
IsTrace(t) ==
  /\ t = [events |-> t.events, end |-> t.end]
  /\ t.events \in Seq({t.events[k] : k \in DOMAIN t.events})
  /\ \A k \in DOMAIN t.events : IsCommitEvent(t.events[k])

\* MutationKind and MANDATORY_MUTATIONS.
MutationKind ==
  {"pc_after", "register_index", "register_value", "trap", "trace_length", "termination"}

\* The comparator field that must report the mutation: the event protocol
\* commits a whole write, so both register mutations surface in one field.
ExpectedField(kind) ==
  IF kind \in {"register_index", "register_value"} THEN "register_writes" ELSE kind

\* NoEvent: the trace has no event the mutation can damage.
NoEvent == -1

\* event_index: the focus step, or the last one of a trace that ends before it.
EventIndex(trace, focus) ==
  LET last == Len(trace.events) - 1
  IN  IF trace.events = << >> THEN NoEvent ELSE IF focus < last THEN focus ELSE last

\* write_index: the focus step if it commits a write, else the first that does.
WriteIndex(trace, focus) ==
  LET writing == {k \in 0..(Len(trace.events) - 1) : trace.events[k + 1].register_writes # {}}
  IN  IF focus \in writing THEN focus
      ELSE IF writing = {} THEN NoEvent ELSE Least(writing)

\* register_writes[0]: the writes are recorded by ascending index.
FirstWrite(writes) == CHOOSE w \in writes : \A v \in writes : w.index <= v.index

Damage(writes, w) == (writes \ {FirstWrite(writes)}) \cup {w}

\* The neighbour of a register among x1..x31; x0 would be normalized away.
NextRegister(r) == IF r >= LastRegister THEN 1 ELSE r + 1
FlipLowBit(v) == IF v % 2 = 0 THEN v + 1 ELSE v - 1

BugTrapSet(trap) == TRUE
InvertTrap(trap) == ~ trap

\* The step a mutation of this kind damages, counted from 0; the length and the
\* termination belong to the trace.
DamagedStep(kind, trace, focus) ==
  CASE kind \in {"pc_after", "trap"} -> EventIndex(trace, focus)
    [] kind \in {"register_index", "register_value"} -> WriteIndex(trace, focus)
    [] kind = "trace_length" -> Len(trace.events) - 1
    [] kind = "termination" -> NoStep

\* apply returns an error instead of a trace when nothing can be damaged.
Applies(kind, trace, focus) ==
  kind = "termination" \/ DamagedStep(kind, trace, focus) # NoEvent

Apply(kind, trace, focus) ==
  LET k == DamagedStep(kind, trace, focus) + 1
      w == FirstWrite(trace.events[k].register_writes)
  IN  CASE kind = "pc_after" ->
             [trace EXCEPT !.events[k].pc_after = (@ + 2) % WordSize]
        [] kind = "register_index" ->
             [trace EXCEPT !.events[k].register_writes =
                Damage(@, [w EXCEPT !.index = NextRegister(@)])]
        [] kind = "register_value" ->
             [trace EXCEPT !.events[k].register_writes =
                Damage(@, [w EXCEPT !.value = FlipLowBit(@)])]
        [] kind = "trap" ->
             [trace EXCEPT !.events[k].trap = InvertTrap(@)]
        [] kind = "trace_length" ->
             [trace EXCEPT !.events = SubSeq(@, 1, Len(@) - 1)]
        [] kind = "termination" ->
             [trace EXCEPT !.end = IF @.category = "step_limit"
                                     THEN TraceEnd("injection_complete", "none")
                                     ELSE TraceEnd("step_limit", "none")]
=============================================================================
