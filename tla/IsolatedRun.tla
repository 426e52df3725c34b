---------------------------- MODULE IsolatedRun ----------------------------
(***************************************************************************)
(* What one Sail-side run promises its caller (sail-runner, run_program):  *)
(* each session executes its own program, instruction by instruction from  *)
(* the reset state, on a machine nobody else touches, and returns either   *)
(* that trace or an error.  Ports, emulator processes, retries and sockets *)
(* do not appear here: DiiSession implements this specification.           *)
(***************************************************************************)
EXTENDS Naturals, Sequences

CONSTANTS Session, ProgramLength

VARIABLES
  trace,    \* trace[s]: the instructions session s has seen executed so far
  halted,   \* halted[s]: did the machine of s report a halt?
  verdict   \* verdict[s]: "none" while it runs, then "ok" or "err"

absVars == <<trace, halted, verdict>>

\* The first n instructions of session s's program, each named by its owner
\* and its index.
Prefix(s, n) == [i \in 1..n |-> <<s, i>>]

Init ==
  /\ trace = [s \in Session |-> << >>]
  /\ halted = [s \in Session |-> FALSE]
  /\ verdict = [s \in Session |-> "none"]

\* One more instruction of the session's own program has been executed, on a
\* machine that has executed nothing but the program so far.
Execute(s) ==
  /\ verdict[s] = "none"
  /\ ~ halted[s]
  /\ Len(trace[s]) < ProgramLength
  /\ trace' = [trace EXCEPT ![s] = Prefix(s, Len(trace[s]) + 1)]
  /\ \E halt \in BOOLEAN : halted' = [halted EXCEPT ![s] = halt]
  /\ UNCHANGED verdict

\* The run ends: with the trace, once the whole program was executed or the
\* machine halted, or with an error, whatever had been executed.
Answer(s) ==
  /\ verdict[s] = "none"
  /\ \E v \in {"ok", "err"} :
       /\ v = "ok" => halted[s] \/ trace[s] = Prefix(s, ProgramLength)
       /\ verdict' = [verdict EXCEPT ![s] = v]
  /\ UNCHANGED <<trace, halted>>

Next == \E s \in Session : Execute(s) \/ Answer(s)

Spec == Init /\ [][Next]_absVars
=============================================================================
