--------------------------- MODULE ReleasePackage ---------------------------
(***************************************************************************)
(* Building and recording a release (scripts/release_package.py build and  *)
(* record, source_capsule.py create, source_snapshot.py capture and        *)
(* export, audit_release.py check_release): the checkout is captured, its  *)
(* capsule created and packed with the pinned inputs; the owner signs,     *)
(* tags and publishes; the record downloads what was published and has the *)
(* release validator judge everything once more.  The checkout, the inputs *)
(* and the packed archive may change between any two statements, and any   *)
(* statement may fail.  The operator runs one command at a time.           *)
(***************************************************************************)
EXTENDS Naturals, FiniteSets

CONSTANTS
  Version,  \* the sources a snapshot of the checkout can name
  None,
  MaxEdits  \* bound: changes of the checkout and of the files the commands read

ASSUME VersionAssumption == None \notin Version
ASSUME BoundAssumption == MaxEdits \in Nat

VARIABLES
  root,     \* what a capture of the checkout gives now
  inputs,   \* whether the five input files are the pinned ones
  dir,      \* the package directory
  release,  \* the published immutable release, or None
  cmd,      \* the command that runs, its place and what it remembers
  edits

packageVars == <<root, inputs, dir, release>>

\* A package: the snapshot its manifest names, the source its capsule holds,
\* and whether its inputs are the pinned ones.
Package == [manifest : Version, capsule : Version, pinned : BOOLEAN]

NewDir == [archive |-> None, tool |-> FALSE, result |-> None, sig |-> None, downloads |-> None, report |-> None]
NewCmd == [pc |-> "idle", caller |-> None, snapshot |-> None, capsule |-> None, pinned |-> FALSE]
Recorded == [NewCmd EXCEPT !.pc = "recorded"]

PackageInit ==
  /\ root \in Version /\ inputs = TRUE
  /\ dir = NewDir
  /\ release = None
  /\ edits = 0

-----------------------------------------------------------------------------
(* Helpers                                                                 *)

At(here) == cmd.pc = here
Free == cmd.pc \in {"idle", "recorded", "audited"}  \* no command runs
Goto(next) == cmd' = [cmd EXCEPT !.pc = next]

\* A statement that only checks, and how its command ends when it does not hold.
Require(here, condition, next, otherwise) ==
  /\ At(here)
  /\ IF condition THEN Goto(next) ELSE cmd' = otherwise
  /\ UNCHANGED <<packageVars, edits>>

-----------------------------------------------------------------------------
(* build                                                                   *)

\* The package directory is new; the inputs are the pinned ones.
BuildBegin ==
  /\ Free /\ release = None
  /\ inputs
  /\ cmd' = [NewCmd EXCEPT !.pc = "capture"]
  /\ dir' = NewDir
  /\ UNCHANGED <<root, inputs, release, edits>>

\* source_snapshot.capture; source_capsule.create captures for itself ...
BuildCapture ==
  /\ At("capture")
  /\ cmd' = [cmd EXCEPT !.pc = "capsule", !.snapshot = root]
  /\ UNCHANGED <<packageVars, edits>>

Capsule ==
  /\ At("capsule")
  /\ cmd' = [cmd EXCEPT !.pc = "export", !.capsule = root]
  /\ UNCHANGED <<packageVars, edits>>

\* ... exports file by file what that capture named, and captures again.
Export == Require("export", root = cmd.capsule, "exported", NewCmd)
CapsuleUnchanged == Require("exported", root = cmd.capsule, "copy", NewCmd)

\* The inputs are copied, long after they were checked.
CopyInputs ==
  /\ At("copy")
  /\ cmd' = [cmd EXCEPT !.pc = "pack", !.pinned = inputs]
  /\ UNCHANGED <<packageVars, edits>>

\* The archive is written and read back, and the tool copied.
Packed == [manifest |-> cmd.snapshot, capsule |-> cmd.capsule, pinned |-> cmd.pinned]
Pack ==
  /\ At("pack")
  /\ dir' = [dir EXCEPT !.archive = Packed, !.tool = inputs]
  /\ Goto("recapture")
  /\ UNCHANGED <<root, inputs, release, edits>>

\* The result is written only when the source is what it was.
BuildEnd ==
  /\ At("recapture")
  /\ IF root = cmd.snapshot
     THEN dir' = [dir EXCEPT !.result = [archive |-> Packed, snapshot |-> cmd.snapshot]]
     ELSE UNCHANGED dir
  /\ cmd' = NewCmd
  /\ UNCHANGED <<root, inputs, release, edits>>

-----------------------------------------------------------------------------
(* The owner                                                               *)

Sign ==
  /\ Free /\ dir.result # None /\ dir.sig = None
  /\ dir' = [dir EXCEPT !.sig = dir.archive]
  /\ UNCHANGED <<root, inputs, release, cmd, edits>>

\* Tag, upload of the three files, publication: nothing of it can change later.
Publish ==
  /\ Free /\ dir.sig # None /\ release = None
  /\ release' = [archive |-> dir.archive, sig |-> dir.sig, tool |-> dir.tool]
  /\ UNCHANGED <<root, inputs, dir, cmd, edits>>

-----------------------------------------------------------------------------
(* record                                                                  *)

\* The archive is the one that was built.
RecordBegin ==
  /\ Free /\ release # None /\ dir.report = None
  /\ IF dir.archive = dir.result.archive THEN cmd' = [NewCmd EXCEPT !.pc = "signature", !.caller = "record"] ELSE UNCHANGED cmd
  /\ UNCHANGED <<packageVars, edits>>

\* verify_ssh_signature, verify_tag, and the query of the release.
RecordSignature == Require("signature", dir.sig = dir.archive, "download", NewCmd)

\* Digests and sizes of the assets and of the downloads; the directory they go
\* to is made once, so a record that failed here cannot be tried again.
Download ==
  /\ At("download")
  /\ IF /\ dir.downloads = None
        /\ release = [archive |-> dir.archive, sig |-> dir.sig, tool |-> dir.tool]
     THEN Goto("report") /\ dir' = [dir EXCEPT !.downloads = release]
     ELSE cmd' = NewCmd /\ UNCHANGED dir
  /\ UNCHANGED <<root, inputs, release, edits>>

\* The record binds what the files hold now; check_release is called after it.
RecordReport ==
  /\ At("report")
  /\ dir' = [dir EXCEPT !.report = [archive |-> dir.archive, snapshot |-> dir.result.snapshot, tool |-> dir.tool]]
  /\ Goto("check")
  /\ UNCHANGED <<root, inputs, release, edits>>

-----------------------------------------------------------------------------
(* check_release, called by the record and by the audit: the statements that *)
(* read the archive, one by one.  otherwise is how the caller goes on when   *)
(* one fails, done what comes after it.                                      *)

\* The archive is the recorded one, its manifest the recorded source's, the
\* tool the pinned one.
CheckArchive(here, otherwise) ==
  Require(here, /\ dir.report # None
                /\ dir.archive = dir.report.archive
                /\ dir.archive.manifest = dir.report.snapshot
                /\ dir.tool, "check signature", otherwise)
CheckSignature(otherwise) == Require("check signature", dir.sig = dir.archive, "check assets", otherwise)
SameAssets == release # None /\ release = [archive |-> dir.archive, sig |-> dir.sig, tool |-> dir.tool]
CheckAssets(otherwise) == Require("check assets", SameAssets, "check downloads", otherwise)
CheckDownloads(otherwise) ==
  Require("check downloads", dir.downloads # None /\ dir.downloads.archive = dir.archive, "check capsule", otherwise)

\* inspect: the capsule's snapshot is that of the checkout, and the recorded one.
BugCapsuleUnchecked == dir.archive.manifest = dir.report.snapshot
CapsuleIsCurrent == dir.archive.capsule = root /\ root = dir.report.snapshot
CheckCapsule(done, otherwise) ==
  /\ At("check capsule")
  /\ cmd' = IF CapsuleIsCurrent THEN done ELSE otherwise
  /\ UNCHANGED <<packageVars, edits>>

CheckRelease(here, done, otherwise) ==
  \/ CheckArchive(here, otherwise) \/ CheckSignature(otherwise) \/ CheckAssets(otherwise)
  \/ CheckDownloads(otherwise) \/ CheckCapsule(done, otherwise)

-----------------------------------------------------------------------------

Build == BuildBegin \/ BuildCapture \/ Capsule \/ Export \/ CapsuleUnchanged \/ CopyInputs \/ Pack \/ BuildEnd
Owner == Sign \/ Publish
Record ==
  \/ RecordBegin \/ RecordSignature \/ Download \/ RecordReport
  \/ cmd.caller = "record" /\ CheckRelease("check", Recorded, NewCmd)

\* Only a build reads the inputs: no other time to change them matters.
Building == cmd.pc \in {"capture", "capsule", "export", "exported", "copy", "pack"}
PackageEdit ==
  /\ edits < MaxEdits /\ edits' = edits + 1
  /\ \/ root' \in Version \ {root} /\ UNCHANGED <<inputs, dir>>
     \/ Building /\ inputs' = ~inputs /\ UNCHANGED <<root, dir>>
     \/ /\ dir.archive # None
        /\ \E a \in Package : a # dir.archive /\ a.pinned /\ dir' = [dir EXCEPT !.archive = a]
        /\ UNCHANGED <<root, inputs>>
  /\ UNCHANGED <<release, cmd>>

\* A record that the validator accepted: what is published is what the owner
\* signed and what was downloaded, and the source in its capsule, which the
\* build captured for itself, is the one its manifest names and the checkout
\* holds.  (It takes three changes to part the capsule from the manifest and to
\* show the validator another archive.)
RecordedReleaseIsOneArchive ==
  edits <= 2 =>
    /\ release.sig = release.archive /\ dir.downloads.archive = release.archive
    /\ release.archive.capsule = release.archive.manifest /\ release.archive.capsule = root
=============================================================================
