---------------------------- MODULE EphemeralVm ----------------------------
(***************************************************************************)
(* The host side of the clean room (scripts/ephemeral_vm.py): boot a       *)
(* throw-away guest that holds the download secrets and runs the           *)
(* controller, read the evidence back from a disk it wrote, destroy the    *)
(* disks, and write the provenance record that the release audit           *)
(* (scripts/audit_release.py) requires beside the report.  Every step of   *)
(* the launcher may fail or be interrupted, the guest may die at any time, *)
(* the launcher may be killed, and evidence is moved between checkouts.    *)
(***************************************************************************)
EXTENDS CleanRoom

CONSTANTS
  Archive,       \* the members of a complete evidence archive, in the order of tar
  MaxLaunches,   \* bound: launches
  MaxRestores    \* bound: how often somebody moves a file of the evidence

ASSUME ArchiveAssumption == Archive \in Seq(STRING) /\ {"exit-code", "report"} \subseteq {Archive[k] : k \in DOMAIN Archive}
ASSUME LaunchesAssumption == MaxLaunches \in Nat /\ MaxRestores \in Nat

VARIABLES
  launch,    \* the present launch; 0 before the first
  pc,        \* the place in launch; "idle" between launches
  secrets,   \* secrets.raw of each launch: "absent" or "whole"
  overlay,   \* overlay.qcow2 of each launch: "absent", "clean" or "secret"
  evidence,  \* evidence.raw of each launch: Absent, or its members and whether secrets.env is one
  summary,   \* report.json of each launch: "absent", "torn" or the status in it
  status,    \* record["status"] in memory
  guest,     \* "off", "booted", "running", "archiving"
  secretsEnv, \* secrets.env is in the guest's run directory
  qemu,      \* how qemu exited: 0, 1, or NoCode while it runs
  root,      \* the evidence root: the launch each file in it comes from, 0 if none; Torn
  record,    \* vm-provenance.json: the launch it is about, and whose report it names
  outcome,   \* how each launch ended
  passed,    \* history: launches whose controller returned 0
  archived,  \* history: the members that each guest archived
  recorded,  \* history: the records that were written
  restores   \* history: how often a file of the evidence was moved

hostVars == <<launch, pc, secrets, overlay, evidence, summary, status, root, record, outcome>>
guestVars == <<guest, secretsEnv, qemu>>
history == <<passed, archived, recorded, restores>>
vars == <<room, hostVars, guestVars, history>>

Launches == 1..MaxLaunches
NoCode == -1
Torn == -1
Absent == [present |-> FALSE]
\* Members, whether secrets.env is one of them, and what the exit-code file says.
Disk(members, secret, exit) == [present |-> TRUE, members |-> members, secret |-> secret, exit |-> exit]
NoRecord == [launch |-> 0, report |-> 0]
TornRecord == [launch |-> Torn, report |-> 0]
Members == {Archive[k] : k \in DOMAIN Archive}
RootFiles == Members \ {"exit-code"}
Logs == RootFiles \ {"report"}
Completed == "guest_completed_evidence_extracted_overlay_destroyed"

Init ==
  /\ FreshRoom
  /\ launch = 0 /\ pc = "idle"
  /\ secrets = [l \in Launches |-> "absent"]
  /\ overlay = [l \in Launches |-> "absent"]
  /\ evidence = [l \in Launches |-> Absent]
  /\ summary = [l \in Launches |-> "absent"]
  /\ status = "launch_failed"
  /\ guest = "off" /\ secretsEnv = FALSE /\ qemu = NoCode
  /\ root = [f \in RootFiles |-> 0]
  /\ record = NoRecord
  /\ outcome = [l \in Launches |-> "none"]
  /\ passed = {} /\ archived = [l \in Launches |-> {}] /\ recorded = {} /\ restores = 0

-----------------------------------------------------------------------------
(* launch, as far as qemu.                                                 *)

\* What one try step of launch leaves alone when it goes on to the next place.
Goto(place) == pc' = place /\ UNCHANGED outcome
End(how) == pc' = "idle" /\ outcome' = [outcome EXCEPT ![launch] = how]

\* A new output directory; what is refused before that leaves nothing.
Launch ==
  /\ pc = "idle" /\ launch < MaxLaunches
  /\ launch' = launch + 1
  /\ pc' = "secrets"
  /\ status' = "launch_failed"
  /\ outcome' = [outcome EXCEPT ![launch + 1] = "running"]
  /\ qemu' = NoCode
  /\ UNCHANGED <<room, guest, secretsEnv, secrets, overlay, evidence, summary, root, record, history>>

\* The secrets disk is written before the try block: an exception in it leaves
\* what was written.
WriteSecrets ==
  /\ pc = "secrets"
  /\ \/ secrets' = [secrets EXCEPT ![launch] = "whole"] /\ Goto("disks")
     \/ secrets' \in {secrets, [secrets EXCEPT ![launch] = "whole"]} /\ End("escaped")
  /\ UNCHANGED <<room, guestVars, history, launch, overlay, evidence, summary, status, root, record>>

\* The seed, the overlay and the evidence disk, all zero.
CreateDisks ==
  /\ pc = "disks"
  /\ overlay' = [overlay EXCEPT ![launch] = "clean"]
  /\ \/ /\ evidence' = [evidence EXCEPT ![launch] = Disk(<< >>, FALSE, 255)]
        /\ guest' = "booted" /\ Goto("qemu")
     \/ UNCHANGED <<evidence, guest>> /\ Goto("handler")
  /\ UNCHANGED <<room, secretsEnv, qemu, history, launch, secrets, summary, status, root, record>>

-----------------------------------------------------------------------------
(* The guest: GUEST_SCRIPT around the controller.                          *)

GuestUp == pc = "qemu" /\ qemu = NoCode

GuestGone == RoomGone /\ guest' = "off" /\ secretsEnv' = FALSE

\* The secrets are copied into a file of the overlay.
ReadSecrets ==
  /\ GuestUp /\ guest = "booted"
  /\ guest' = "running"
  /\ secretsEnv' = TRUE
  /\ overlay' = [overlay EXCEPT ![launch] = "secret"]
  /\ UNCHANGED <<room, qemu, history, launch, pc, secrets, evidence, summary, status, root, record, outcome>>

Controller ==
  /\ GuestUp /\ guest = "running"
  /\ RoomNext
  /\ passed' = IF code' = 0 THEN passed \cup {launch} ELSE passed
  /\ UNCHANGED <<hostVars, guestVars, archived, recorded, restores>>

BugSecretsArchived == UNCHANGED secretsEnv
RemoveSecrets == secretsEnv' = FALSE

\* The trap of the script: when the controller returned, or before it ran.
Finish ==
  /\ GuestUp /\ guest = "running"
  /\ step = "exit" \/ (step = "clone" /\ attempt = 1)
  /\ guest' = "archiving"
  /\ RemoveSecrets
  /\ UNCHANGED <<room, qemu, history, hostVars>>

\* The files the guest has, in the order in which tar stores them.
Produced == {"exit-code"} \cup logs \cup (IF report THEN {"report"} ELSE {})
Unarchived == SelectSeq(Archive, LAMBDA m : m \in Produced)

\* One member goes to the evidence disk.
ArchiveMember ==
  /\ GuestUp /\ guest = "archiving"
  /\ LET done == evidence[launch].members
     IN  /\ Len(done) < Len(Unarchived)
         /\ evidence' = [evidence EXCEPT ![launch] = Disk(Append(done, Unarchived[Len(done) + 1]), secretsEnv, code)]
         /\ archived' = [archived EXCEPT ![launch] = @ \cup {Unarchived[Len(done) + 1]}]
  /\ UNCHANGED <<room, guestVars, passed, recorded, restores, launch, pc, secrets, overlay, summary, status, root, record, outcome>>

\* The guest powers off after tar, or resets or panics at any time: with
\* -no-reboot qemu exits with 0 all the same.  Qemu itself may fail.
QemuExits ==
  /\ GuestUp
  /\ qemu' \in {0, 1}
  /\ GuestGone
  /\ UNCHANGED <<history, hostVars>>

-----------------------------------------------------------------------------
(* launch, after qemu.                                                     *)

DestroySecrets ==
  /\ pc = "qemu" /\ qemu # NoCode
  /\ secrets' = [secrets EXCEPT ![launch] = "absent"]
  /\ IF qemu = 0 THEN Goto("inventory") ELSE Goto("handler")
  /\ UNCHANGED <<room, guestVars, history, launch, overlay, evidence, summary, status, root, record>>

Content == evidence[launch].members
InArchive(f) == \E k \in DOMAIN Content : Content[k] = f

\* The end of a disk that was zero reads as the end of the archive.
Inventory ==
  /\ pc = "inventory"
  /\ IF Content # << >> /\ record = NoRecord /\ \A f \in RootFiles : root[f] = 0
       THEN Goto("extract") ELSE Goto("handler")
  /\ UNCHANGED <<room, guestVars, history, launch, secrets, overlay, evidence, summary, status, root, record>>

\* Every file is created exclusively; a copy may fail halfway.
BugOverwrites(f) == TRUE
Vacant(f) == root[f] = 0

Unextracted == SelectSeq(Content, LAMBDA f : f # "exit-code" /\ root[f] # launch)

Extract ==
  /\ pc = "extract"
  /\ IF Unextracted = << >> THEN Goto("exit-code") /\ UNCHANGED root
     ELSE LET f == Head(Unextracted)
          IN \/ Vacant(f) /\ root' = [root EXCEPT ![f] = launch] /\ Goto("extract")
             \/ Vacant(f) /\ root' = [root EXCEPT ![f] = Torn] /\ Goto("handler")
             \/ ~ Vacant(f) /\ UNCHANGED root /\ Goto("handler")
  /\ UNCHANGED <<room, guestVars, history, launch, secrets, overlay, evidence, summary, status, record>>

\* The exit code that the guest noted, extracted beside the evidence.
GuestSucceeded == InArchive("exit-code") /\ evidence[launch].exit = 0 /\ root["report"] # 0

CheckExitCode ==
  /\ pc = "exit-code"
  /\ IF GuestSucceeded THEN Goto("destroy") ELSE Goto("handler")
  /\ UNCHANGED <<room, guestVars, history, launch, secrets, overlay, evidence, summary, status, root, record>>

BugEvidenceKept == UNCHANGED evidence
EvidenceDestroyed == evidence' = [evidence EXCEPT ![launch] = Absent]

DestroyDisks ==
  /\ pc = "destroy"
  /\ overlay' = [overlay EXCEPT ![launch] = "absent"]
  /\ \/ EvidenceDestroyed /\ Goto("record")
     \/ UNCHANGED evidence /\ Goto("handler")
  /\ UNCHANGED <<room, guestVars, history, launch, secrets, summary, status, root, record>>

\* The report's hash is taken when the dictionary is built, and with it the status.
BuildRecord ==
  /\ pc = "record"
  /\ status' = Completed
  /\ Goto("write record")
  /\ UNCHANGED <<room, guestVars, history, launch, secrets, overlay, evidence, summary, root, record>>

WriteRecord ==
  /\ pc = "write record" /\ record = NoRecord
  /\ LET new == [launch |-> launch, report |-> root["report"]]
     IN  \/ record' = new /\ recorded' = recorded \cup {new} /\ Goto("summary")
         \/ record' = TornRecord /\ UNCHANGED recorded /\ Goto("handler")
  /\ UNCHANGED <<room, guestVars, passed, archived, restores, launch, secrets, overlay, evidence, summary, status, root>>

WriteSummary ==
  /\ pc = "summary"
  /\ \/ summary' = [summary EXCEPT ![launch] = Completed] /\ End("completed")
     \/ summary' = [summary EXCEPT ![launch] = "torn"] /\ Goto("handler")
  /\ UNCHANGED <<room, guestVars, history, launch, secrets, overlay, evidence, status, root, record>>

\* Any step of the try block raises, or qemu is killed by its timeout.
Exception ==
  /\ pc \in {"disks", "qemu", "inventory", "extract", "exit-code", "destroy", "record", "write record", "summary"}
  /\ Goto("handler")
  /\ GuestGone
  /\ UNCHANGED <<qemu, history, launch, secrets, overlay, evidence, summary, status, root, record>>

\* The except branch; an exception in it escapes before the report is written,
\* as it does where the report was begun before.
Handler ==
  /\ pc = "handler"
  /\ \/ /\ secrets' = [secrets EXCEPT ![launch] = "absent"]
        /\ overlay' = [overlay EXCEPT ![launch] = "absent"]
        /\ \/ /\ summary[launch] = "absent"
              /\ summary' = [summary EXCEPT ![launch] = status]
              /\ End("failed")
           \/ /\ summary' \in {summary, [summary EXCEPT ![launch] = "torn"]}
              /\ End("escaped")
     \/ /\ secrets' \in {secrets, [secrets EXCEPT ![launch] = "absent"]}
        /\ UNCHANGED <<overlay, summary>>
        /\ End("escaped")
  /\ UNCHANGED <<room, guestVars, history, launch, evidence, status, root, record>>

\* The launcher is killed.  A guest it leaves behind has its own disks.
Crash ==
  /\ pc # "idle"
  /\ End("killed")
  /\ GuestGone
  /\ UNCHANGED <<qemu, history, launch, secrets, overlay, evidence, summary, status, root, record>>

-----------------------------------------------------------------------------
(* What people do with the evidence.                                       *)

Moved == restores < MaxRestores /\ restores' = restores + 1

\* A fresh checkout of the candidate for the next launch.
FreshRoot ==
  /\ pc = "idle"
  /\ root' = [f \in RootFiles |-> 0]
  /\ record' = NoRecord
  /\ UNCHANGED <<room, guestVars, history, launch, pc, secrets, overlay, evidence, summary, status, outcome>>

\* A file is removed, or replaced by that of another launch.
MoveEvidence ==
  /\ Moved
  /\ \E f \in RootFiles : \E l \in {0} \cup {k \in Launches : f \in archived[k]} :
       l # root[f] /\ root' = [root EXCEPT ![f] = l]
  /\ UNCHANGED <<room, guestVars, launch, pc, secrets, overlay, evidence, summary, status, record, outcome,
                 passed, archived, recorded>>

MoveRecord ==
  /\ Moved
  /\ record' \in (recorded \cup {NoRecord}) \ {record}
  /\ UNCHANGED <<room, guestVars, launch, pc, secrets, overlay, evidence, summary, status, root, outcome,
                 passed, archived, recorded>>

Next ==
  \/ Launch \/ WriteSecrets \/ CreateDisks
  \/ ReadSecrets \/ Controller \/ Finish \/ ArchiveMember \/ QemuExits
  \/ DestroySecrets \/ Inventory \/ Extract \/ CheckExitCode \/ DestroyDisks
  \/ BuildRecord \/ WriteRecord \/ WriteSummary
  \/ Exception \/ Handler \/ Crash
  \/ FreshRoot \/ MoveEvidence \/ MoveRecord

Spec == Init /\ [][Next]_vars

-----------------------------------------------------------------------------
(* The audit of a clean room: check_vm_report and check_vm_provenance.     *)

\* check_stages and the references of the report: the bytes it names are there.
BugLogsUnchecked == root["report"] > 0
LogsAreTheReports == root["report"] > 0 /\ \A f \in Logs : root[f] = root["report"]

\* The record names the very report, and the environment the report was made in.
RecordIsTheReports == record.report = root["report"] /\ record.launch = root["report"]

Verified == LogsAreTheReports /\ RecordIsTheReports

-----------------------------------------------------------------------------
(* Properties.                                                             *)

\* A clean room that the audit verifies is one launch's: its controller passed
\* every stage, its evidence is complete although a truncated archive reads as
\* a whole one, nothing is from another launch, and its disks are gone.
VerifiedRoomIsOneRun ==
  Verified =>
    /\ record.launch \in passed
    /\ \A f \in RootFiles : root[f] = record.launch

\* "The overlay and the secrets disk are destroyed before the record is
\* written", and so is the evidence disk: whatever failed before.
DisksAreGoneBeforeTheRecord ==
  \A r \in recorded : secrets[r.launch] = "absent" /\ overlay[r.launch] = "absent" /\ ~ evidence[r.launch].present

\* However a launch ends, unless it is killed or the clean-up itself fails, no
\* file of the host holds the secrets: not the secrets disk, not the guest's
\* file in the overlay, not the evidence disk, which a failed launch keeps.
SecretsLeaveNoTrace ==
  \A l \in Launches : outcome[l] \in {"completed", "failed"} =>
    /\ secrets[l] = "absent" /\ overlay[l] # "secret"
    /\ evidence[l].present => ~ evidence[l].secret

\* The controller returns 0 only after all stages, of a whole checkout, and
\* with the source it took the snapshot of, also where no git status shows it.
PassedRunIsComplete ==
  code = 0 =>
    /\ report /\ canonical = "complete"
    /\ rows = << "checkout" >> \o Stages
    /\ snapshot = source

\* No launch writes over a file of the evidence root, even if one appears after
\* the inventory found the place vacant ("without overwriting anything").
NothingIsOverwritten ==
  [][FreshRoot \/ MoveEvidence \/ \A f \in RootFiles : root'[f] # root[f] => root[f] = 0]_vars

\* A launch that failed and handled it says so in its report (the test of the
\* launcher's failures: status launch_failed).
FailedLaunchSaysSo ==
  \A l \in Launches : outcome[l] = "failed" => summary[l] = "launch_failed"
=============================================================================
