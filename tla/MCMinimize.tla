----------------------------- MODULE MCMinimize -----------------------------
(* An instance of Minimize for TLC: three words with a duplicate; the first   *)
(* build of the runner shows the mismatch on no program, on all of them, or   *)
(* on the recorded one and at most one other, where the search then ends; a   *)
(* rebuilt one shows it on all the others.                                    *)
EXTENDS Minimize

MCWords == << "add", "beq", "add" >>
MCPrograms == {Program[c] : c \in Selections}
MCShows == {{}, MCPrograms} \cup {{MCWords, p} : p \in MCPrograms}
MCBehaviours == {[v \in 0..1 |-> IF v = 0 THEN shows ELSE MCPrograms \ shows] : shows \in MCShows}
=============================================================================
