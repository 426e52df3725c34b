----------------------------- MODULE MCDiffTest -----------------------------
(* An instance of RuntimeEvidence for TLC: an ADD case whose focus step writes *)
(* the last register, a branch that writes none, and a BEQ case that traps and *)
(* ends before its focus step, which the corpus never has.                     *)
EXTENDS RuntimeEvidence

Commit(order, pc, writes, trap) ==
  [order |-> order, instruction |-> order, pc_before |-> pc, pc_after |-> pc + 1,
   register_writes |-> writes, memory |-> {}, trap |-> trap, halt |-> FALSE]

Add == [events |-> << Commit(0, 0, {[index |-> 1, value |-> 1]}, FALSE),
                      Commit(1, 1, {[index |-> 2, value |-> 0]}, FALSE) >>,
        end |-> InjectionComplete]
Branch == [events |-> << Commit(0, 0, {}, FALSE) >>, end |-> InjectionComplete]
Beq == [events |-> << Commit(0, 0, {}, TRUE) >>, end |-> TraceEnd("error", "ckb trap")]

MCCorpora == {<< "add", "branch" >>, << "add", "beq" >>}
MCCase == {"add", "branch", "beq"}
MCRecorded == [c \in MCCase |-> CASE c = "add" -> Add [] c = "branch" -> Branch [] c = "beq" -> Beq]
MCFocus == [c \in MCCase |-> IF c = "branch" THEN 0 ELSE 1]
MCWords == [c \in MCCase |-> IF c = "branch" THEN << 0 >> ELSE << 0, 1 >>]

\* The Sail model agrees, or is off by a program counter or an event, or by the
\* category of its end, or ends otherwise within the category.
MCSailTrace ==
  [c \in MCCase |-> {MCRecorded[c]} \cup
     CASE c = "add" -> {Apply("pc_after", Add, 1)}
       [] c = "branch" -> {Apply("termination", Branch, 0)}
       [] c = "beq" -> {Apply("trace_length", Beq, 1), [Beq EXCEPT !.end.detail = "sail"]}]

\* The fields of an event are overlooked in the same way: one that engines differ
\* in and one that several mutations damage stand for them.
MCOversight == {"none", "pc_after", "register_writes", "trace_length", "termination"}
=============================================================================
