---------------------------- MODULE ReleaseAudit ----------------------------
(***************************************************************************)
(* The evidence of a release candidate and its audit                       *)
(* (scripts/evidence_bundle.py, ci_evidence.py, audit_release.py) over     *)
(* ReleasePackage: clean-room reports arrive in the evidence root, one is  *)
(* packed and attested by CI, the collector downloads it and records that  *)
(* it is the local one; the audit reads the six slots one after another    *)
(* and writes one verdict.  The collector and the record call the audit's  *)
(* validators last: one that fails there leaves a report that says passed  *)
(* behind, for the audit to judge.                                         *)
(***************************************************************************)
EXTENDS ReleasePackage

CONSTANT Room  \* the runs of the clean room
ASSUME RoomAssumption == None \notin Room

VARIABLES
  ran,     \* ran[m]: the source that clean room m captured, or None
  room,    \* the clean-room report in the evidence root, or None
  bundle,  \* the report in the attested bundle, or None
  ci,      \* the record of the collector, or None
  audit,   \* the verdict in the audit's report, or None
  slots    \* what a running audit knows of the slots it has read

evidence == <<ran, room, bundle, ci, audit>>
auditVars == <<packageVars, cmd, edits, evidence, slots>>

NewAudit == [NewCmd EXCEPT !.caller = "audit", !.pc = "runtime"]
Slots == [invalid |-> FALSE, outstanding |-> FALSE, snapshots |-> {}, policies |-> {}, began |-> 0]

AuditInit ==
  /\ PackageInit /\ cmd = NewCmd
  /\ ran = [m \in Room |-> None]
  /\ room = None /\ bundle = None /\ ci = None /\ audit = None
  /\ slots = Slots

-----------------------------------------------------------------------------
(* Clean rooms, bundles, the collector                                     *)

\* The launcher has put a passed report into the evidence root; to replace one
\* is a change of the files a command may be reading.
NewRoom ==
  \E m \in Room, v \in Version :
    /\ ran[m] = None
    /\ ran' = [ran EXCEPT ![m] = v] /\ room' = m
    /\ IF room = None THEN Free /\ UNCHANGED edits ELSE edits < MaxEdits /\ edits' = edits + 1
    /\ UNCHANGED <<packageVars, cmd, bundle, ci, audit, slots>>

\* pack; unpack and its validation in a fresh checkout, which CI attests.
Attest ==
  /\ Free /\ room # None /\ bundle = None
  /\ bundle' = room
  /\ UNCHANGED <<packageVars, cmd, edits, ran, room, ci, audit, slots>>

\* Two downloads, the attestation, the extraction of the bundle and the replay;
\* the archived report is the local one.
Collect ==
  /\ Free /\ bundle # None /\ ci = None
  /\ room = bundle
  /\ cmd' = [NewCmd EXCEPT !.pc = "collected", !.caller = "collect"]
  /\ UNCHANGED <<packageVars, edits, evidence, slots>>

CollectReport ==
  /\ At("collected")
  /\ ci' = [room |-> room, archived |-> bundle]
  /\ Goto("ci")
  /\ UNCHANGED <<packageVars, edits, ran, room, bundle, audit, slots>>

\* check_ci: the record and the local report are those that were collected;
\* then check_vm_report reads the local report, against the checkout.
BugOtherRoom == room # None
SameRoom == room = ci.room /\ ci.archived = room
CheckCi(otherwise) ==
  /\ At("ci")
  /\ IF SameRoom THEN Goto("vm") ELSE cmd' = otherwise
  /\ UNCHANGED <<packageVars, edits, evidence>>

VmReportIsCurrent == ran[room] = root
Collected ==
  /\ cmd.caller = "collect"
  /\ \/ CheckCi(NewCmd)
     \/ At("vm") /\ cmd' = NewCmd /\ UNCHANGED <<packageVars, edits, evidence>>
  /\ UNCHANGED slots

-----------------------------------------------------------------------------
(* audit_release: the slots in order                                       *)

AuditBegin ==
  /\ Free
  /\ cmd' = NewAudit /\ slots' = [Slots EXCEPT !.began = edits]
  /\ UNCHANGED <<packageVars, edits, evidence>>

Missing(next) == slots' = [slots EXCEPT !.outstanding = TRUE] /\ Goto(next)
Invalid(next) == slots' = [slots EXCEPT !.invalid = TRUE] /\ Goto(next)

\* A report that its validator reopens and judges by itself.
CheckRuntime ==
  /\ At("runtime")
  /\ \/ Missing("lean")
     \/ Invalid("lean")
     \/ Goto("lean") /\ UNCHANGED slots
  /\ UNCHANGED <<packageVars, edits, evidence>>

\* The proof reports name the policy they were made under: one that is not the
\* checkout's is invalid.
CheckProofs(here, next) ==
  /\ At(here)
  /\ \/ Missing(next)
     \/ \E v \in Version :
          IF v = root
          THEN slots' = [slots EXCEPT !.policies = @ \cup {v}] /\ Goto(next)
          ELSE Invalid(next)
  /\ UNCHANGED <<packageVars, edits, evidence>>
CheckLean == CheckProofs("lean", "rocq")
CheckRocq == CheckProofs("rocq", "clean room")

\* A record of the collector, or a clean-room report alone, which is incomplete.
CheckCleanRoom ==
  /\ At("clean room")
  /\ \/ Missing("release")
     \/ ci # None /\ Goto("ci") /\ UNCHANGED slots
     \/ ci # None /\ Invalid("release")
  /\ UNCHANGED <<packageVars, edits, evidence>>

AuditCi ==
  /\ cmd.caller = "audit"
  /\ CheckCi([cmd EXCEPT !.pc = "release"])
  /\ slots' = IF SameRoom THEN slots ELSE [slots EXCEPT !.invalid = TRUE]

CheckVmReport ==
  slots' = IF VmReportIsCurrent THEN [slots EXCEPT !.snapshots = @ \cup {ran[room]}] ELSE [slots EXCEPT !.invalid = TRUE]
AuditVm ==
  /\ cmd.caller = "audit" /\ At("vm")
  /\ CheckVmReport
  /\ Goto("release")
  /\ UNCHANGED <<packageVars, edits, evidence>>

NoRelease ==
  /\ At("release") /\ dir.report = None
  /\ Missing("third party")
  /\ UNCHANGED <<packageVars, edits, evidence>>

AuditRelease ==
  /\ cmd.caller = "audit" /\ (At("release") => dir.report # None)
  /\ CheckRelease("release", [cmd EXCEPT !.pc = "verified"], [cmd EXCEPT !.pc = "invalid"])
  /\ UNCHANGED <<evidence, slots>>

ReleaseSlot ==
  /\ \/ At("verified") /\ slots' = [slots EXCEPT !.snapshots = @ \cup {dir.report.snapshot}]
     \/ At("invalid") /\ slots' = [slots EXCEPT !.invalid = TRUE]
  /\ Goto("third party")
  /\ UNCHANGED <<packageVars, edits, evidence>>

\* Absent, this one is deferred.
CheckThirdParty ==
  /\ At("third party")
  /\ \/ Goto("claims") /\ UNCHANGED slots
     \/ \E v \in Version :
          IF v = root
          THEN slots' = [slots EXCEPT !.snapshots = @ \cup {v}] /\ Goto("claims")
          ELSE Invalid("claims")
  /\ UNCHANGED <<packageVars, edits, evidence>>

PublicClaims ==
  /\ At("claims")
  /\ \/ Invalid("aggregate")
     \/ Goto("aggregate") /\ UNCHANGED slots
  /\ UNCHANGED <<packageVars, edits, evidence>>

\* Every snapshot that a slot verified is the one of the checkout now.
SnapshotsAreCurrent == slots.snapshots \subseteq {root}
Aggregate ==
  /\ At("aggregate")
  /\ audit' = IF slots.invalid \/ ~SnapshotsAreCurrent THEN "invalid"
              ELSE IF slots.outstanding THEN "incomplete" ELSE "passed"
  /\ cmd' = [NewCmd EXCEPT !.pc = "audited"]
  /\ slots' = Slots
  /\ UNCHANGED <<packageVars, edits, ran, room, bundle, ci>>

-----------------------------------------------------------------------------

AuditStep ==
  \/ AuditBegin \/ CheckRuntime \/ CheckLean \/ CheckRocq \/ CheckCleanRoom \/ AuditCi \/ AuditVm
  \/ NoRelease \/ AuditRelease \/ ReleaseSlot \/ CheckThirdParty \/ PublicClaims \/ Aggregate

\* A statement raises: the command ends, the audit with a report that says invalid.
CommandFails ==
  /\ ~Free
  /\ cmd' = NewCmd
  /\ audit' = IF cmd.caller = "audit" THEN "invalid" ELSE audit
  /\ slots' = Slots
  /\ UNCHANGED <<packageVars, edits, ran, room, bundle, ci>>

AuditNext ==
  \/ (Build \/ Owner \/ Record \/ PackageEdit) /\ UNCHANGED <<evidence, slots>>
  \/ NewRoom \/ Attest \/ Collect \/ CollectReport \/ Collected
  \/ AuditStep \/ CommandFails

AuditSpec == AuditInit /\ [][AuditNext]_auditVars

-----------------------------------------------------------------------------
(* Properties                                                              *)

\* A passed audit of a checkout that nobody changed while it ran (the procedure
\* freezes it) is about one source, the checkout's: the proofs were made under
\* its policy, the clean room that CI attested captured it, and the archive that
\* the owner signed and published holds it, whatever was changed and changed
\* back while these were made, and whatever reports that say passed a failed
\* collection or a failed record left behind.
OneSource ==
  /\ slots.policies = {root}
  /\ ran[bundle] = root /\ ci.archived = bundle
  /\ release.sig = release.archive
  /\ release.archive.manifest = root /\ release.archive.capsule = root

PassedAuditIsOneSource ==
  [][At("aggregate") /\ cmd'.pc = "audited" /\ audit' = "passed" /\ edits = slots.began => OneSource]_auditVars

\* What the record's last check promises, at the moment it answers.
RecordIsOneArchive == [][~At("recorded") /\ cmd'.pc = "recorded" => RecordedReleaseIsOneArchive]_auditVars
=============================================================================
