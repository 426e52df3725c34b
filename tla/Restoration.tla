---------------------------- MODULE Restoration ----------------------------
(***************************************************************************)
(* Restoring a release offline (scripts/release_package.py restore with    *)
(* source_capsule.py, source_snapshot.py, fixed_inputs.py and              *)
(* decoder_rebuilt_inputs.py): authenticate the signed archive, extract it *)
(* member by member, rebuild the checkout from its source capsule, move    *)
(* the installation roots in one by one, install the decoder inputs and    *)
(* the CMake downloads with the restored checkout's own scripts, and only  *)
(* then write the report.  Attempts in canonical mode share one            *)
(* destination.  The downloaded files and the restored checkout may change *)
(* between any two statements, an attempt may be killed, and the script it *)
(* was running then runs on.                                               *)
(***************************************************************************)
EXTENDS Naturals, Sequences, FiniteSets

CONSTANTS
  Run,       \* attempts
  Canonical, \* the one destination of canonical mode
  Version,   \* the sources a snapshot can name
  Archive,   \* the contents the archive file can have
  Roots,     \* the installation roots, in the order they are moved
  None,
  MaxEdits,  \* bound: changes of the files an attempt reads or has restored
  MaxKills   \* bound: attempts killed

ASSUME RunAssumption == Canonical \notin Run /\ None \notin Run \cup Version
ASSUME ArchiveAssumption ==
  Archive \subseteq [signed : BOOLEAN, manifest : Version, capsule : Version, pinned : BOOLEAN]
ASSUME RootsAssumption == Roots \in Seq(STRING) /\ \A j, k \in DOMAIN Roots : Roots[j] = Roots[k] => j = k
ASSUME BoundAssumption == MaxEdits \in Nat /\ MaxKills \in Nat

VARIABLES
  archive,  \* the contents of the archive file
  tool,     \* whether the tool archive is the pinned one
  place,    \* place[p]: what has been put at destination p
  attempt,  \* attempt[r]: the place of attempt r and what it remembers
  child,    \* child[r]: the script of the restored checkout that r started, or None
  report,   \* report[r]: report.json of r, or None
  edits, kills

files == <<archive, tool>>
bounds == <<edits, kills>>
vars == <<files, place, attempt, child, report, bounds>>

RootName == {Roots[k] : k \in DOMAIN Roots}
\* What an installation of the decoder inputs creates, in this order.
Pieces == <<"directory", "payload", "sources", "receipt">>
Piece == {Pieces[k] : k \in DOMAIN Pieces}

\* Every part of a destination is None, or names the attempt that put it there.
Empty == [owner |-> None, source |-> None, roots |-> [n \in RootName |-> None],
          decoder |-> [q \in Piece |-> None], cmake |-> None]
NewAttempt == [pc |-> "idle", to |-> None, before |-> None, manifest |-> None, staged |-> None, moved |-> 0]
Ended == {"idle", "refused", "failed", "restored", "killed"}

Init ==
  /\ archive \in Archive /\ tool \in BOOLEAN
  /\ place = [p \in Run \cup {Canonical} |-> Empty]
  /\ attempt = [r \in Run |-> NewAttempt]
  /\ child = [r \in Run |-> None]
  /\ report = [r \in Run |-> None]
  /\ edits = 0 /\ kills = 0

-----------------------------------------------------------------------------
(* Helpers                                                                 *)

\* not path.exists()
Vacant(p) == place[p] = Empty

\* Two archives with the same members, whatever the bytes of the container.
SameMembers(a, b) == a.manifest = b.manifest /\ a.capsule = b.capsule /\ a.pinned = b.pinned

At(r, here) == attempt[r].pc = here
Goto(r, next) == attempt' = [attempt EXCEPT ![r].pc = next]
Ends(r, how) == attempt' = [attempt EXCEPT ![r] = [NewAttempt EXCEPT !.pc = how]]
To(r) == attempt[r].to             \* the destination
Manifest(r) == attempt[r].manifest \* the archive as its manifest and inventory were read

\* A statement that only checks: the next one, or the end of the attempt.
Require(r, here, condition, next) ==
  /\ At(r, here)
  /\ IF condition THEN Goto(r, next) ELSE Ends(r, "failed")
  /\ UNCHANGED <<files, place, child, report, bounds>>

-----------------------------------------------------------------------------
(* restore, authenticate, extract_verified                                 *)

\* new_path of the destination of the mode.
Start(r) ==
  /\ At(r, "idle")
  /\ \E p \in {r, Canonical} :
       IF Vacant(p) THEN attempt' = [attempt EXCEPT ![r].pc = "hash", ![r].to = p] ELSE Ends(r, "refused")
  /\ UNCHANGED <<files, place, child, report, bounds>>

HashArchive(r) ==
  /\ At(r, "hash")
  /\ attempt' = [attempt EXCEPT ![r].pc = "signature", ![r].before = archive]
  /\ UNCHANGED <<files, place, child, report, bounds>>

VerifySignature(r) == Require(r, "signature", archive.signed, "manifest")

ReadManifest(r) ==
  /\ At(r, "manifest")
  /\ attempt' = [attempt EXCEPT ![r].pc = "inventory", ![r].manifest = archive]
  /\ UNCHANGED <<files, place, child, report, bounds>>

\* The archive holds what the manifest lists, and both tools and pinned members
\* are those of the policy.
Inventory(r) == Require(r, "inventory", SameMembers(archive, Manifest(r)) /\ tool /\ Manifest(r).pinned, "recheck")

BugNoRecheck(r) == TRUE
SameBefore(r) == archive = attempt[r].before
Recheck(r) == Require(r, "recheck", SameBefore(r), "extract")

\* Every member is hashed as it is written.
Extract(r) == Require(r, "extract", SameMembers(archive, Manifest(r)), "capsule")

-----------------------------------------------------------------------------
(* source_capsule.restore                                                  *)

\* new_path once more, and inspect.
Capsule(r) == Require(r, "capsule", Vacant(To(r)), "clone")

\* git clone refuses a destination that is not empty.
Clone(r) ==
  /\ At(r, "clone")
  /\ IF Vacant(To(r))
     THEN place' = [place EXCEPT ![To(r)].owner = r] /\ Goto(r, "overlay")
     ELSE Ends(r, "failed") /\ UNCHANGED place
  /\ UNCHANGED <<files, child, report, bounds>>

\* The payload of the capsule over the clean clone ...
Overlay(r) ==
  /\ At(r, "overlay")
  /\ place' = [place EXCEPT ![To(r)].source = Manifest(r).capsule]
  /\ Goto(r, "capture")
  /\ UNCHANGED <<files, child, report, bounds>>

\* ... which captured again is the capsule's snapshot, and then the package's.
Capture(r) == Require(r, "capture", place[To(r)].source = Manifest(r).capsule, "source")
SourceIsManifest(r) == place[To(r)].source = Manifest(r).manifest
CheckSource(r) == Require(r, "source", SourceIsManifest(r), "verify")

-----------------------------------------------------------------------------
(* fixed_inputs.stage and install_staged_roots                             *)

VerifyArchive(r) == Require(r, "verify", tool, "stage")

Stage(r) ==
  /\ At(r, "stage")
  /\ attempt' = [attempt EXCEPT ![r].pc = "staged", ![r].staged = tool]
  /\ UNCHANGED <<files, place, child, report, bounds>>

VerifyStaged(r) == Require(r, "staged", attempt[r].staged /\ tool, "roots")

InstallRoots(r) == Require(r, "roots", \A n \in RootName : place[To(r)].roots[n] = None, "move")

MoveRoot(r) ==
  /\ At(r, "move") /\ attempt[r].moved < Len(Roots)
  /\ place' = [place EXCEPT ![To(r)].roots[Roots[attempt[r].moved + 1]] = r]
  /\ attempt' = [attempt EXCEPT ![r].moved = attempt[r].moved + 1]
  /\ UNCHANGED <<files, child, report, bounds>>

\* Every member is at its place; then the first script is started.
RootsMoved(r) ==
  /\ At(r, "move") /\ attempt[r].moved = Len(Roots)
  /\ IF \A n \in RootName : place[To(r)].roots[n] # None
     THEN Goto(r, "decoder") /\ child' = [child EXCEPT ![r] = [at |-> 1, to |-> To(r)]]
     ELSE Ends(r, "failed") /\ UNCHANGED child
  /\ UNCHANGED <<files, place, report, bounds>>

-----------------------------------------------------------------------------
(* The scripts of the restored checkout                                    *)

\* A script that fails ends its attempt, if that still waits for it.
ChildFails(r) ==
  /\ child' = [child EXCEPT ![r] = None]
  /\ IF attempt[r].pc \in {"decoder", "cmake"} THEN Ends(r, "failed") ELSE UNCHANGED attempt
  /\ UNCHANGED place

\* load: what was installed is read again before the receipt.
Installed(p) == \A q \in {"payload", "sources"} : place[p].decoder[q] # None

BugReuse(p, q) == TRUE
Creatable(p, q) ==
  /\ place[p].decoder[q] = None                  \* exist_ok=False, "xb", git clone, "x"
  /\ q = "directory" => \A x \in Piece : place[p].decoder[x] = None
  /\ q = "sources" => place[p].decoder["payload"] # None
  /\ q = "receipt" => Installed(p)

\* decoder_rebuilt_inputs.install: each piece is created, none is ever reused.
DecoderStep(r) ==
  /\ child[r] # None /\ child[r].at \in DOMAIN Pieces
  /\ LET p == child[r].to
         q == Pieces[child[r].at]
     IN  IF Creatable(p, q)
         THEN /\ place' = [place EXCEPT ![p].decoder[q] = r]
              /\ child' = [child EXCEPT ![r] = IF q # "receipt" THEN [at |-> child[r].at + 1, to |-> p] ELSE None]
              /\ IF q = "receipt" /\ At(r, "decoder") THEN Goto(r, "load") ELSE UNCHANGED attempt
         ELSE ChildFails(r)
  /\ UNCHANGED <<files, report, bounds>>

\* decoder-verify, and then cmake-stage is started.
Load(r) ==
  /\ At(r, "load")
  /\ IF Installed(To(r))
     THEN Goto(r, "cmake") /\ child' = [child EXCEPT ![r] = [at |-> Len(Pieces) + 1, to |-> To(r)]]
     ELSE Ends(r, "failed") /\ UNCHANGED child
  /\ UNCHANGED <<files, place, report, bounds>>

\* stage_cmake: a new directory for the downloads and their sources.
StageCmake(r) ==
  /\ child[r] # None /\ child[r].at > Len(Pieces)
  /\ IF place[child[r].to].cmake = None
     THEN /\ place' = [place EXCEPT ![child[r].to].cmake = r]
          /\ child' = [child EXCEPT ![r] = None]
          /\ IF At(r, "cmake") THEN Goto(r, "again") ELSE UNCHANGED attempt
     ELSE ChildFails(r)
  /\ UNCHANGED <<files, report, bounds>>

-----------------------------------------------------------------------------
(* The end of restore                                                      *)

Recapture(r) == Require(r, "again", SourceIsManifest(r), "report")

WriteReport(r) ==
  /\ At(r, "report")
  /\ report' = [report EXCEPT ![r] = To(r)]
  /\ Ends(r, "restored")
  /\ UNCHANGED <<files, place, child, bounds>>

\* Any statement, and any command, may fail.
RestoreFails(r) ==
  /\ attempt[r].pc \notin Ended
  /\ Ends(r, "failed")
  /\ child' = [child EXCEPT ![r] = None]
  /\ UNCHANGED <<files, place, report, bounds>>

-----------------------------------------------------------------------------
(* The world                                                               *)

Kill(r) ==
  /\ attempt[r].pc \notin Ended /\ kills < MaxKills
  /\ Ends(r, "killed")
  /\ kills' = kills + 1
  /\ UNCHANGED <<files, place, child, report, edits>>

\* Somebody clears the destination of an attempt that is over.
Remove ==
  /\ place[Canonical] # Empty
  /\ \A r \in Run : attempt[r].pc \notin Ended => To(r) # Canonical
  /\ place' = [place EXCEPT ![Canonical] = Empty]
  /\ UNCHANGED <<files, attempt, child, report, bounds>>

Edit ==
  /\ edits < MaxEdits /\ edits' = edits + 1
  /\ \/ archive' \in Archive \ {archive} /\ UNCHANGED <<tool, place>>
     \/ tool' = ~tool /\ UNCHANGED <<archive, place>>
     \/ /\ \E p \in DOMAIN place, v \in Version :
             place[p].source \notin {None, v} /\ place' = [place EXCEPT ![p].source = v]
        /\ UNCHANGED files
  /\ UNCHANGED <<attempt, child, report, kills>>

Step(r) ==
  \/ Start(r) \/ HashArchive(r) \/ VerifySignature(r) \/ ReadManifest(r) \/ Inventory(r) \/ Recheck(r) \/ Extract(r)
  \/ Capsule(r) \/ Clone(r) \/ Overlay(r) \/ Capture(r) \/ CheckSource(r)
  \/ VerifyArchive(r) \/ Stage(r) \/ VerifyStaged(r) \/ InstallRoots(r) \/ MoveRoot(r) \/ RootsMoved(r)
  \/ DecoderStep(r) \/ Load(r) \/ StageCmake(r) \/ Recapture(r) \/ WriteReport(r) \/ RestoreFails(r)

Next == Edit \/ Remove \/ \E r \in Run : Step(r) \/ Kill(r)

Spec == Init /\ [][Next]_vars

-----------------------------------------------------------------------------
(* Properties                                                              *)

\* The last capture: the checkout holds the source that a signed manifest names.
\* (A change after it is nobody's to see, and two swaps of the archive, around the
\* check of the signature, would pass a manifest nobody signed.)
SourceExact(r) == place[To(r)].source = Manifest(r).manifest /\ (edits <= 1 => Manifest(r).signed)

\* Every root, decoder input and download was put there by r, completely.
InputsExact(r) ==
  LET d == place[To(r)] IN
  /\ d.owner = r /\ d.cmake = r
  /\ \A n \in RootName : d.roots[n] = r
  /\ \A q \in Piece : d.decoder[q] = r

\* "inputs_restored" is written only over an exact restoration, whatever was
\* swapped while it ran and whoever else was at work in the same destination:
\* an attempt that was killed, and its script that was not, leave nothing that
\* a later attempt takes for its own.
RestorationIsExact ==
  [][\A r \in Run : /\ At(r, "again") /\ attempt'[r].pc = "report" => SourceExact(r)
                    /\ report[r] = None /\ report'[r] # None => InputsExact(r)]_vars

\* What an attempt has put into a destination is never replaced by another: it
\* stays, or the whole destination is cleared.
NothingIsReplaced ==
  [][\A p \in DOMAIN place :
       place'[p] = Empty \/
       /\ place[p].owner \in {None, place'[p].owner} /\ place[p].cmake \in {None, place'[p].cmake}
       /\ \A n \in RootName : place[p].roots[n] \in {None, place'[p].roots[n]}
       /\ \A q \in Piece : place[p].decoder[q] \in {None, place'[p].decoder[q]}]_vars
=============================================================================
