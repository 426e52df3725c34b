--------------------------- MODULE MCDifferential ---------------------------
(* Instances of Differential for TLC: two registers beside x0 are not needed  *)
(* to confuse an observer, one is; programs of up to three words over writes, *)
(* repeated writes, a write to x0, a taken backward branch, an illegal word   *)
(* and a refused one; at most one defect in each engine, in the second step,  *)
(* which has steps before and after it, or a wrong value in the first step,   *)
(* which a second defect may hide.                                            *)
EXTENDS Differential

MCInstruction ==
  { [op |-> "set",     rd |-> 1, value |-> 1],
    [op |-> "set",     rd |-> 0, value |-> 1],
    [op |-> "add",     rd |-> 1, value |-> 1],
    [op |-> "jump",    rd |-> 0, value |-> -1],
    [op |-> "illegal", rd |-> 0, value |-> 0],
    [op |-> "load",    rd |-> 1, value |-> 0] }

MCDeviation ==
  {[kind |-> "none", step |-> 0], [kind |-> "value", step |-> 1]}
    \cup [kind : {"pc", "trap", "halt", "value", "clobber"}, step : {2}]
=============================================================================
