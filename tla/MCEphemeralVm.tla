--------------------------- MODULE MCEphemeralVm ---------------------------
(* An instance of EphemeralVm for TLC: the first and the last stage of the    *)
(* policy's work and one that generates files between them.                   *)
EXTENDS EphemeralVm

MCStages == << "snapshot", "regenerate", "tree-clean" >>

\* The run directory comes first, then the evidence, each in sorted order.
MCArchive == << "exit-code", "checkout", "regenerate", "report", "snapshot", "tree-clean" >>

\* Evidence mixes when a second launch follows one that had a report to leave;
\* an exception that escapes leaves the evidence root as a kill there does.
\* To move a file matters while the last launch extracts and records, or when the
\* audit then has a report to judge.
Mixing ==
  /\ launch' # launch /\ launch > 0 => outcome[launch] # "escaped" /\ "report" \in archived[launch]
  /\ restores' # restores =>
       /\ launch = MaxLaunches
       /\ pc \in {"extract", "write record"} \/ (pc = "idle" /\ root["report"] > 0)
=============================================================================
