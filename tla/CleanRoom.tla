----------------------------- MODULE CleanRoom -----------------------------
(***************************************************************************)
(* The clean-room controller (scripts/clean_room.py), which runs inside a  *)
(* fresh guest: check the candidate out over an unreliable network, run    *)
(* the stages of the policy one after the other, compare the source before *)
(* and after, write report.json, and have the local slots audited.         *)
(***************************************************************************)
EXTENDS Integers, Sequences, FiniteSets

CONSTANTS
  Stages,           \* the stages of the policy after "checkout", in order
  NetworkAttempts   \* NETWORK_ATTEMPTS

ASSUME StagesAssumption == Stages \in Seq(STRING) /\ Stages # << >>
ASSUME AttemptsAssumption == NetworkAttempts \in Nat \ {0}

VARIABLES
  step,       \* the place in bootstrap_checkout and public_run; "exit" when it returned
  attempt,    \* the attempt of network_command
  canonical,  \* the canonical checkout: "empty", "partial", "cloned" or "complete"
  source,     \* its tracked source, against the candidate's
  snapshot,   \* source-snapshot.json: the source it was taken of, or None
  logs,       \* the files in the output directory
  rows,       \* the stages that are in the transcript
  report,     \* report.json is there
  code        \* the exit status the guest notes; 255 until the controller returned

room == <<step, attempt, canonical, source, snapshot, logs, rows, report, code>>

None == "none"

\* A generator may leave a tracked file or one of a submodule changed.
Sources == {"candidate", "edited", "submodule edited"}

\* A fresh guest.
FreshRoom ==
  /\ step = "clone"
  /\ attempt = 1
  /\ canonical = "empty"
  /\ source = "candidate"
  /\ snapshot = None
  /\ logs = {}
  /\ rows = << >>
  /\ report = FALSE
  /\ code = 255

Exit(status) == step' = "exit" /\ code' = status
Proceed(place) == step' = place /\ UNCHANGED code

\* A git command of the network: an error is tried again, after a reset where
\* there is one; a timeout (which is no RuntimeError) and the last error are not.
RetryLeft == attempt < NetworkAttempts

Clone ==
  /\ step = "clone"
  /\ \/ /\ canonical = "empty"
        /\ canonical' = "cloned" /\ attempt' = 1 /\ Proceed("submodules")
     \/ /\ RetryLeft
        /\ canonical' = "empty" /\ attempt' = attempt + 1 /\ Proceed("clone")
     \/ canonical' \in {canonical, "partial"} /\ UNCHANGED attempt /\ Exit(1)
  /\ UNCHANGED <<source, snapshot, logs, rows, report>>

\* checkout --detach, submodule update, the baseline patches and fsck.
Submodules ==
  /\ step = "submodules"
  /\ \/ canonical' = "complete" /\ UNCHANGED attempt /\ Proceed("output")
     \/ RetryLeft /\ attempt' = attempt + 1 /\ UNCHANGED canonical /\ Proceed("submodules")
     \/ UNCHANGED <<canonical, attempt>> /\ Exit(1)
  /\ UNCHANGED <<source, snapshot, logs, rows, report>>

\* new_output, the checkout logs, state.json, and the comparison of the
\* checked-out controller with the one that runs.
NewOutput ==
  /\ step = "output"
  /\ \/ logs' = {"checkout"} /\ rows' = << "checkout" >> /\ Proceed("stages")
     \/ logs' \in {{}, {"checkout"}} /\ UNCHANGED rows /\ Exit(1)
  /\ UNCHANGED <<attempt, canonical, source, snapshot, report>>

\* stage_action, as far as the chain depends on what a stage finds: git status
\* ignores dirty submodules.
StagePasses(name) == name = "tree-clean" => source # "edited"

\* stage_row: the logs exist before the stage runs, the row after it passed.
RunStage ==
  /\ step = "stages" /\ Len(rows) <= Len(Stages)
  /\ LET name == Stages[Len(rows)]
     IN  /\ logs' = logs \cup {name}
         /\ source' \in IF name \in {"snapshot", "tree-clean"} THEN {source} ELSE Sources
         /\ \/ /\ StagePasses(name)
               /\ rows' = Append(rows, name)
               /\ snapshot' = IF name = "snapshot" THEN source ELSE snapshot
               /\ Proceed("stages")
            \/ UNCHANGED <<rows, snapshot>> /\ Exit(1)
  /\ UNCHANGED <<attempt, canonical, report>>

\* The source is captured once more and git status taken for the report.
BugNotRecaptured == TRUE
SourceUnchanged == snapshot = source

WriteReport ==
  /\ step = "stages" /\ Len(rows) > Len(Stages)
  /\ \/ SourceUnchanged /\ report' = TRUE /\ Proceed("audit")
     \/ UNCHANGED report /\ Exit(1)
  /\ UNCHANGED <<attempt, canonical, source, snapshot, logs, rows>>

\* The aggregate of the guest runs when the report is already there.
AuditSlots ==
  /\ step = "audit"
  /\ \E status \in {0, 1} : Exit(status)
  /\ UNCHANGED <<attempt, canonical, source, snapshot, logs, rows, report>>

\* The guest is gone, with its memory and its overlay: the next one starts afresh.
RoomGone ==
  /\ step' = "clone" /\ attempt' = 1 /\ canonical' = "empty" /\ source' = "candidate"
  /\ snapshot' = None /\ logs' = {} /\ rows' = << >> /\ report' = FALSE /\ code' = 255

RoomNext == Clone \/ Submodules \/ NewOutput \/ RunStage \/ WriteReport \/ AuditSlots

RoomSpec == FreshRoom /\ [][RoomNext]_room

=============================================================================
