------------------------- MODULE RestorationProofs -------------------------
(***************************************************************************)
(* Proofs about Restoration for any number of attempts, roots, sources,    *)
(* changes and kills: nothing an attempt put into a destination is ever    *)
(* replaced by another attempt or by the script of a killed one, and a     *)
(* report is written only over a destination that its own attempt filled   *)
(* completely, from a source that a signed manifest names.                 *)
(***************************************************************************)
EXTENDS Restoration, TLAPS

Place == Run \cup {Canonical}
MaybeRun == Run \cup {None}
Destination ==
  [owner : MaybeRun, source : Version \cup {None}, roots : [RootName -> MaybeRun],
   decoder : [Piece -> MaybeRun], cmake : MaybeRun]

\* The statements before the clone, and those after it.
Reading == {"hash", "signature", "manifest", "inventory", "recheck", "extract", "capsule", "clone"}
Working == {"overlay", "capture", "source", "verify", "stage", "staged", "roots", "move",
            "decoder", "load", "cmake", "again", "report"}
Checked == {"extract", "capsule", "clone"} \cup Working
HasManifest == {"inventory", "recheck"} \cup Checked

AttemptType ==
  [pc : Ended \cup Reading \cup Working, to : Place \cup {None}, before : Archive \cup {None},
   manifest : Archive \cup {None}, staged : BOOLEAN \cup {None}, moved : Nat]
Script == [at : 1..5, to : Place]

TypeInv ==
  /\ archive \in Archive /\ tool \in BOOLEAN
  /\ place \in [Place -> Destination]
  /\ attempt \in [Run -> AttemptType]
  /\ child \in [Run -> Script \cup {None}]
  /\ report \in [Run -> Place \cup {None}]
  /\ edits \in Nat /\ kills \in Nat

\* An active attempt has a destination, and a manifest once it has read one.
Bound(r) ==
  /\ attempt[r].pc \notin Ended => To(r) \in Place
  /\ attempt[r].pc \in HasManifest => Manifest(r) \in Archive

\* The clone made the destination this attempt's own.
Owns(r) == attempt[r].pc \in Working => place[To(r)].owner = r

Unmoved == Ended \cup Reading \cup {"overlay", "capture", "source", "verify", "stage", "staged", "roots"}

\* The roots that were moved are this attempt's, and the others are vacant.
RootsMine(r) ==
  /\ attempt[r].pc \in Unmoved => attempt[r].moved = 0
  /\ attempt[r].pc = "move" =>
       /\ attempt[r].moved <= Len(Roots)
       /\ \A k \in DOMAIN Roots :
            place[To(r)].roots[Roots[k]] = IF k <= attempt[r].moved THEN r ELSE None
  /\ attempt[r].pc \in {"decoder", "load", "cmake", "again", "report"} =>
       \A n \in RootName : place[To(r)].roots[n] = r

\* What the running script has created, and the earlier one had, is this attempt's.
DecoderMine(r) ==
  /\ attempt[r].pc = "decoder" =>
       /\ child[r] \in Script /\ child[r].to = To(r) /\ child[r].at \in 1..4
       /\ \A k \in 1..4 : k < child[r].at => place[To(r)].decoder[Pieces[k]] = r
  /\ attempt[r].pc \in {"load", "cmake", "again", "report"} =>
       \A q \in Piece : place[To(r)].decoder[q] = r

CmakeMine(r) ==
  /\ attempt[r].pc = "cmake" => child[r] = [at |-> 5, to |-> To(r)]
  /\ attempt[r].pc \in {"again", "report"} => place[To(r)].cmake = r

\* With at most one change, an archive that is what it was when it was hashed
\* has been so at every statement in between.
SignedRead(r) ==
  /\ attempt[r].pc \in {"signature", "manifest", "inventory", "recheck"} =>
       /\ edits = 0 => archive = attempt[r].before
       /\ edits <= 1 /\ archive = attempt[r].before =>
            /\ attempt[r].pc # "signature" => archive.signed
            /\ attempt[r].pc \in {"inventory", "recheck"} => Manifest(r) = archive
  /\ attempt[r].pc \in Checked => (edits <= 1 => Manifest(r).signed)

Inv ==
  /\ TypeInv
  /\ \A r \in Run : /\ Bound(r) /\ Owns(r) /\ RootsMine(r)
                    /\ DecoderMine(r) /\ CmakeMine(r) /\ SignedRead(r)

-----------------------------------------------------------------------------
(* Facts about the constants and the steps.                                *)

LEMMA ConstantFacts ==
  /\ None \notin Run /\ Canonical \notin Run
  /\ DOMAIN Roots = 1..Len(Roots) /\ Len(Roots) \in Nat
  /\ \A k \in DOMAIN Roots : Roots[k] \in RootName
  /\ \A n \in RootName : \E k \in DOMAIN Roots : n = Roots[k]
  /\ DOMAIN Pieces = 1..4 /\ Len(Pieces) = 4
  /\ Piece = {"directory", "payload", "sources", "receipt"}
  /\ Empty \in Destination /\ Empty.owner = None
BY RunAssumption, RootsAssumption DEF RootName, Pieces, Piece, Empty, Destination, MaybeRun

\* The three groups of places are apart.
LEMMA LabelFacts ==
  /\ Ended \cap (Reading \cup Working) = {} /\ Reading \cap Working = {}
  /\ HasManifest \subseteq Reading \cup Working
  /\ \A x \in Ended : [NewAttempt EXCEPT !.pc = x] \in AttemptType
BY DEF Ended, Reading, Working, HasManifest, Checked, NewAttempt, AttemptType

\* A step of one attempt leaves the others as they were.
LEMMA OthersStill ==
  ASSUME TypeInv, NEW r \in Run, Step(r) \/ Kill(r), NEW x \in Run, x # r
  PROVE  attempt'[x] = attempt[x] /\ child'[x] = child[x]
BY DEF TypeInv, Step, Kill, Start, HashArchive, VerifySignature, ReadManifest, Inventory, Recheck,
   Extract, Capsule, Clone, Overlay, Capture, CheckSource, VerifyArchive, Stage, VerifyStaged,
   InstallRoots, MoveRoot, RootsMoved, DecoderStep, Load, StageCmake, Recapture, WriteReport,
   RestoreFails, Require, Goto, Ends, ChildFails

\* At first no attempt has begun and every destination is empty.
LEMMA InitInv == Init => Inv
<1> SUFFICES ASSUME Init PROVE Inv
  OBVIOUS
<1>1. TypeInv
  BY ConstantFacts, LabelFacts, RunAssumption DEF Init, TypeInv, Place, NewAttempt, AttemptType, Ended
<1>2. \A r \in Run : attempt[r].pc = "idle" /\ attempt[r].moved = 0
  BY DEF Init, NewAttempt
<1> QED
  BY <1>1, <1>2 DEF Inv, Bound, Owns, RootsMine, DecoderMine, CmakeMine, SignedRead,
     Ended, HasManifest, Checked, Working

-----------------------------------------------------------------------------
(* Types.                                                                  *)

\* A statement that moves the program counter on, or ends the attempt.
LEMMA AttemptMoves ==
  ASSUME TypeInv, NEW r \in Run,
         \/ \E x \in Reading \cup Working : Goto(r, x)
         \/ \E x \in Ended : Ends(r, x)
  PROVE  attempt' \in [Run -> AttemptType]
<1>1. CASE \E x \in Reading \cup Working : Goto(r, x)
  BY <1>1 DEF Goto, TypeInv, AttemptType
<1>2. CASE \E x \in Ended : Ends(r, x)
  BY <1>2, LabelFacts DEF Ends, TypeInv
<1> QED BY <1>1, <1>2

\* The statements that only check.
Checks(r) ==
  \/ VerifySignature(r) \/ Inventory(r) \/ Recheck(r) \/ Extract(r) \/ Capsule(r) \/ Capture(r)
  \/ CheckSource(r) \/ VerifyArchive(r) \/ VerifyStaged(r) \/ InstallRoots(r) \/ Recapture(r)

\* A check goes on or fails, and touches no destination.
LEMMA ChecksStep ==
  ASSUME NEW r \in Run, Checks(r)
  PROVE  /\ UNCHANGED <<files, place, child, report, bounds>>
         /\ \/ \E x \in Reading \cup Working : Goto(r, x)
            \/ Ends(r, "failed")
BY DEF Checks, VerifySignature, Inventory, Recheck, Extract, Capsule, Capture, CheckSource,
   VerifyArchive, VerifyStaged, InstallRoots, Recapture, Require, Reading, Working

\* Types are preserved.
LEMMA TypeStep == ASSUME Inv, [Next]_vars PROVE TypeInv'
<1> USE DEF Inv, files, bounds
<1>1. ASSUME NEW r \in Run, Checks(r) PROVE TypeInv'
  BY <1>1, ChecksStep, AttemptMoves DEF TypeInv, Ended
<1>2. ASSUME NEW r \in Run, Start(r) PROVE TypeInv'
  <2>1. PICK p \in {r, Canonical} :
          IF Vacant(p) THEN attempt' = [attempt EXCEPT ![r].pc = "hash", ![r].to = p] ELSE Ends(r, "refused")
    BY <1>2 DEF Start
  <2>2. attempt' \in [Run -> AttemptType]
    <3>1. CASE Vacant(p)
      BY <2>1, <3>1 DEF TypeInv, AttemptType, Place, Reading
    <3>2. CASE ~ Vacant(p)
      BY <2>1, <3>2, AttemptMoves DEF Ended
    <3> QED BY <3>1, <3>2
  <2> QED BY <1>2, <2>2 DEF Start, TypeInv
<1>3. ASSUME NEW r \in Run, HashArchive(r) \/ ReadManifest(r) \/ Stage(r) PROVE TypeInv'
  BY <1>3 DEF HashArchive, ReadManifest, Stage, TypeInv, AttemptType, Reading, Working
<1>4. ASSUME NEW r \in Run, Clone(r) PROVE TypeInv'
  <2>1. To(r) \in Place
    BY <1>4 DEF Clone, At, Bound, Ended
  <2>2. attempt' \in [Run -> AttemptType]
    BY <1>4, AttemptMoves DEF Clone, Ended, Working
  <2>3. place' \in [Place -> Destination]
    <3>1. CASE Vacant(To(r))
      <4>1. place' = [place EXCEPT ![To(r)].owner = r]
        BY <1>4, <3>1 DEF Clone
      <4> QED BY <2>1, <4>1 DEF TypeInv, Destination, MaybeRun
    <3>2. CASE ~ Vacant(To(r))
      BY <1>4, <3>2 DEF Clone, TypeInv
    <3> QED BY <3>1, <3>2
  <2> QED BY <1>4, <2>2, <2>3 DEF Clone, TypeInv
<1>5. ASSUME NEW r \in Run, Overlay(r) PROVE TypeInv'
  <2>1. To(r) \in Place /\ Manifest(r).capsule \in Version
    BY <1>5, ArchiveAssumption DEF Overlay, At, Bound, Ended, HasManifest, Checked, Working
  <2>2. attempt' \in [Run -> AttemptType]
    BY <1>5, AttemptMoves DEF Overlay, Working
  <2>3. place' \in [Place -> Destination]
    BY <1>5, <2>1 DEF Overlay, TypeInv, Destination
  <2> QED BY <1>5, <2>2, <2>3 DEF Overlay, TypeInv
<1>6. ASSUME NEW r \in Run, MoveRoot(r) PROVE TypeInv'
  <2>1. To(r) \in Place
    BY <1>6 DEF MoveRoot, At, Bound, Ended
  <2>2. attempt' \in [Run -> AttemptType]
    <3>1. attempt' = [attempt EXCEPT ![r].moved = attempt[r].moved + 1]
      BY <1>6 DEF MoveRoot
    <3>2. attempt[r] \in AttemptType /\ attempt[r].moved + 1 \in Nat
      BY DEF TypeInv, AttemptType
    <3>3. [attempt[r] EXCEPT !.moved = attempt[r].moved + 1] \in AttemptType
      BY <3>2 DEF AttemptType
    <3> QED BY <3>1, <3>3 DEF TypeInv
  <2>3. place' \in [Place -> Destination]
    BY <1>6, <2>1 DEF MoveRoot, TypeInv, Destination, MaybeRun
  <2> QED BY <1>6, <2>2, <2>3 DEF MoveRoot, TypeInv
<1>7. ASSUME NEW r \in Run, RootsMoved(r) \/ Load(r) PROVE TypeInv'
  <2>1. To(r) \in Place
    BY <1>7 DEF RootsMoved, Load, At, Bound, Ended
  <2>2. attempt' \in [Run -> AttemptType]
    BY <1>7, AttemptMoves DEF RootsMoved, Load, Ended, Working
  <2>3. child' \in [Run -> Script \cup {None}]
    BY <1>7, <2>1, ConstantFacts DEF RootsMoved, Load, TypeInv, Script
  <2> QED BY <1>7, <2>2, <2>3 DEF RootsMoved, Load, TypeInv
<1>8. ASSUME NEW r \in Run, DecoderStep(r) PROVE TypeInv'
  <2>1. child[r] \in Script /\ child[r].at \in 1..4 /\ Pieces[child[r].at] \in Piece
    BY <1>8, ConstantFacts DEF DecoderStep, TypeInv, Pieces, Script
  <2> DEFINE p == child[r].to
             q == Pieces[child[r].at]
  <2>2. CASE Creatable(p, q)
    <3>1. place' = [place EXCEPT ![p].decoder[q] = r]
      BY <1>8, <2>2 DEF DecoderStep
    <3>2. place' \in [Place -> Destination]
      BY <2>1, <3>1 DEF TypeInv, Destination, MaybeRun, Script
    <3>3. child' = [child EXCEPT ![r] = IF q # "receipt" THEN [at |-> child[r].at + 1, to |-> p] ELSE None]
      BY <1>8, <2>2 DEF DecoderStep
    <3>4. child' \in [Run -> Script \cup {None}]
      BY <2>1, <3>3 DEF TypeInv, Script
    <3>5. attempt' \in [Run -> AttemptType]
      BY <1>8, <2>2, AttemptMoves DEF DecoderStep, Working, TypeInv
    <3> QED BY <1>8, <3>2, <3>4, <3>5 DEF DecoderStep, TypeInv
  <2>3. CASE ~ Creatable(p, q)
    <3>1. ChildFails(r)
      BY <1>8, <2>3 DEF DecoderStep
    <3>2. attempt' \in [Run -> AttemptType]
      BY <3>1, AttemptMoves DEF ChildFails, Ended, TypeInv
    <3> QED BY <1>8, <3>1, <3>2 DEF DecoderStep, ChildFails, TypeInv
  <2> QED BY <2>2, <2>3
<1>9. ASSUME NEW r \in Run, StageCmake(r) PROVE TypeInv'
  <2>1. child[r] \in Script
    BY <1>9 DEF StageCmake, TypeInv
  <2>2. attempt' \in [Run -> AttemptType]
    BY <1>9, AttemptMoves DEF StageCmake, ChildFails, Ended, Working, TypeInv
  <2>3. place' \in [Place -> Destination]
    <3>1. CASE place[child[r].to].cmake = None
      <4>1. place' = [place EXCEPT ![child[r].to].cmake = r]
        BY <1>9, <3>1 DEF StageCmake
      <4> QED BY <2>1, <4>1 DEF TypeInv, Destination, MaybeRun, Script
    <3>2. CASE place[child[r].to].cmake # None
      BY <1>9, <3>2 DEF StageCmake, ChildFails, TypeInv
    <3> QED BY <3>1, <3>2
  <2>4. child' \in [Run -> Script \cup {None}]
    BY <1>9 DEF StageCmake, ChildFails, TypeInv
  <2> QED BY <1>9, <2>2, <2>3, <2>4 DEF StageCmake, TypeInv
<1>10. ASSUME NEW r \in Run, WriteReport(r) PROVE TypeInv'
  <2>1. To(r) \in Place
    BY <1>10 DEF WriteReport, At, Bound, Ended
  <2>2. attempt' \in [Run -> AttemptType]
    BY <1>10, AttemptMoves DEF WriteReport, Ended
  <2> QED BY <1>10, <2>1, <2>2 DEF WriteReport, TypeInv
<1>11. ASSUME NEW r \in Run, RestoreFails(r) \/ Kill(r) PROVE TypeInv'
  <2>1. attempt' \in [Run -> AttemptType]
    BY <1>11, AttemptMoves DEF RestoreFails, Kill, Ended
  <2> QED BY <1>11, <2>1 DEF RestoreFails, Kill, TypeInv
<1>12. CASE Edit
  <2>1. place' \in [Place -> Destination]
    BY <1>12 DEF Edit, TypeInv, Destination
  <2>2. archive' \in Archive
    BY <1>12 DEF Edit, TypeInv
  <2>3. tool' \in BOOLEAN
    BY <1>12, Zenon DEF Edit, TypeInv
  <2> QED BY <1>12, <2>1, <2>2, <2>3 DEF Edit, TypeInv
<1>13. CASE Remove
  BY <1>13, ConstantFacts DEF Remove, TypeInv, Place
<1>14. CASE UNCHANGED vars
  BY <1>14 DEF vars, TypeInv
<1> QED BY <1>1, <1>2, <1>3, <1>4, <1>5, <1>6, <1>7, <1>8, <1>9, <1>10, <1>11, <1>12, <1>13, <1>14
        DEF Next, Step, Checks
-----------------------------------------------------------------------------
(* What a step does to a destination.                                      *)

\* Nothing at destination p is replaced, and only its owner moves a root in.
Keeps(p) ==
  /\ place[p].owner \in {None, place'[p].owner} /\ place[p].cmake \in {None, place'[p].cmake}
  /\ \A n \in RootName : place[p].roots[n] \in {None, place'[p].roots[n]}
  /\ \A q \in Piece : place[p].decoder[q] \in {None, place'[p].decoder[q]}

\* The steps that touch no destination.
Quiet(r) ==
  \/ Checks(r) \/ Start(r) \/ HashArchive(r) \/ ReadManifest(r) \/ Stage(r) \/ RootsMoved(r)
  \/ Load(r) \/ WriteReport(r) \/ RestoreFails(r) \/ Kill(r)

\* Quiet steps touch no destination.
LEMMA QuietStep == ASSUME NEW r \in Run, Quiet(r) PROVE place' = place
<1>1. CASE Checks(r)
  BY <1>1, ChecksStep
<1>2. CASE ~ Checks(r)
  BY <1>2 DEF Quiet, Start, HashArchive, ReadManifest, Stage, RootsMoved, Load, WriteReport,
     RestoreFails, Kill
<1> QED BY <1>1, <1>2

\* The steps of the system, by what they do to destinations.
LEMMA StepKinds ==
  ASSUME [Next]_vars
  PROVE  \/ \E r \in Run : \/ Quiet(r) \/ Clone(r) \/ Overlay(r) \/ MoveRoot(r)
                          \/ DecoderStep(r) \/ StageCmake(r)
         \/ Edit \/ Remove \/ UNCHANGED vars
BY DEF Next, Step, Quiet, Checks

\* What each step that touches a destination does to it.
LEMMA CloneStep ==
  ASSUME Inv, NEW r \in Run, Clone(r), NEW p \in Place
  PROVE  /\ Keeps(p) /\ place'[p].roots = place[p].roots
         /\ attempt'[r].pc \notin Ended => place'[To(r)].owner = r /\ place[To(r)] = Empty
<1>1. TypeInv /\ To(r) \in Place
  BY DEF Inv, Clone, At, Bound, Ended
<1>2. CASE Vacant(To(r))
  <2>1. place' = [place EXCEPT ![To(r)].owner = r] /\ place[To(r)] = Empty
    BY <1>2 DEF Clone, Vacant
  <2> QED BY <1>1, <2>1, ConstantFacts DEF Keeps, TypeInv, Destination
<1>3. CASE ~ Vacant(To(r))
  <2>1. place' = place /\ attempt'[r].pc = "failed"
    BY <1>1, <1>3 DEF Clone, Ends, TypeInv, NewAttempt
  <2> QED BY <2>1 DEF Keeps, Ended
<1> QED BY <1>2, <1>3

\* One root arrives in a destination that did not hold it.
LEMMA MoveRootStep ==
  ASSUME Inv, NEW r \in Run, MoveRoot(r), NEW p \in Place
  PROVE  /\ Keeps(p)
         /\ p # To(r) => place'[p] = place[p]
         /\ place'[To(r)].roots =
              [place[To(r)].roots EXCEPT ![Roots[attempt[r].moved + 1]] = r]
         /\ place'[p].owner = place[p].owner /\ place'[p].decoder = place[p].decoder
         /\ place'[p].cmake = place[p].cmake
<1>1. TypeInv /\ To(r) \in Place /\ attempt[r].pc = "move" /\ attempt[r].moved \in Nat
  BY DEF Inv, MoveRoot, At, Bound, Ended, TypeInv, AttemptType
<1> DEFINE root == Roots[attempt[r].moved + 1]
<1>2. attempt[r].moved + 1 \in DOMAIN Roots /\ root \in RootName
  BY <1>1, ConstantFacts DEF MoveRoot
<1>3. place[To(r)].roots[root] = None
  BY <1>1, <1>2 DEF Inv, RootsMine
<1>4. place' = [place EXCEPT ![To(r)].roots[root] = r]
  BY DEF MoveRoot
<1>5. \A x \in Place : place[x] \in Destination
  BY <1>1 DEF TypeInv
<1>6. place' = [place EXCEPT ![To(r)] =
                   [place[To(r)] EXCEPT !.roots = [place[To(r)].roots EXCEPT ![root] = r]]]
  BY <1>1, <1>4
<1>7. p # To(r) => place'[p] = place[p]
  BY <1>1, <1>6 DEF TypeInv
<1>8. /\ place'[To(r)].roots = [place[To(r)].roots EXCEPT ![root] = r]
      /\ place'[To(r)].owner = place[To(r)].owner /\ place'[To(r)].decoder = place[To(r)].decoder
      /\ place'[To(r)].cmake = place[To(r)].cmake
  BY <1>1, <1>5, <1>6 DEF TypeInv, Destination
<1>9. \A n \in RootName : place[To(r)].roots[n] \in {None, place'[To(r)].roots[n]}
  BY <1>1, <1>3, <1>5, <1>8 DEF Destination
<1> QED BY <1>7, <1>8, <1>9 DEF Keeps

\* The overlay adds to the source and keeps every other part.
LEMMA OverlayStep ==
  ASSUME Inv, NEW r \in Run, Overlay(r), NEW p \in Place
  PROVE  Keeps(p) /\ place'[p].roots = place[p].roots
<1>1. TypeInv /\ To(r) \in Place
  BY DEF Inv, Overlay, At, Bound, Ended
<1> QED BY <1>1 DEF Overlay, Keeps, TypeInv, Destination

\* One decoder piece arrives where none was, or the script fails.
LEMMA DecoderPlaces ==
  ASSUME Inv, NEW r \in Run, DecoderStep(r), NEW p \in Place
  PROVE  /\ Keeps(p) /\ place'[p].roots = place[p].roots
         /\ child[r] \in Script /\ child[r].at \in 1..4
         /\ \/ /\ place'[child[r].to].decoder[Pieces[child[r].at]] = r
               /\ child' = [child EXCEPT ![r] = IF child[r].at # 4
                             THEN [at |-> child[r].at + 1, to |-> child[r].to] ELSE None]
               /\ attempt' = IF child[r].at = 4 /\ attempt[r].pc = "decoder"
                             THEN [attempt EXCEPT ![r].pc = "load"] ELSE attempt
            \/ ChildFails(r)
<1>1. TypeInv /\ child[r] \in Script /\ child[r].at \in 1..4 /\ Pieces[child[r].at] \in Piece
  BY ConstantFacts DEF Inv, DecoderStep, TypeInv, Pieces, Script
<1> DEFINE d == child[r].to
           q == Pieces[child[r].at]
<1>2. d \in Place /\ (q = "receipt" <=> child[r].at = 4)
  BY <1>1 DEF Script, Pieces
<1>3. CASE Creatable(d, q)
  <2>1. /\ place' = [place EXCEPT ![d].decoder[q] = r] /\ place[d].decoder[q] = None
        /\ child' = [child EXCEPT ![r] = IF q # "receipt" THEN [at |-> child[r].at + 1, to |-> d] ELSE None]
        /\ IF q = "receipt" /\ At(r, "decoder") THEN Goto(r, "load") ELSE UNCHANGED attempt
    BY <1>3 DEF DecoderStep, Creatable
  <2>2. place' = [place EXCEPT ![d] = [place[d] EXCEPT !.decoder = [place[d].decoder EXCEPT ![q] = r]]]
    BY <1>1, <2>1
  <2>3. \A x \in Place : place[x] \in Destination
    BY <1>1 DEF TypeInv
  <2>4. p # d => place'[p] = place[p]
    BY <1>1, <2>2 DEF TypeInv
  <2>5. /\ place'[d].decoder = [place[d].decoder EXCEPT ![q] = r]
        /\ place'[d].owner = place[d].owner /\ place'[d].roots = place[d].roots
        /\ place'[d].cmake = place[d].cmake
    BY <1>1, <1>2, <2>2, <2>3 DEF TypeInv, Destination
  <2>6. place'[d].decoder[q] = r /\ \A x \in Piece : place[d].decoder[x] \in {None, place'[d].decoder[x]}
    BY <1>1, <1>2, <2>1, <2>3, <2>5 DEF Destination
  <2>7. attempt' = IF child[r].at = 4 /\ attempt[r].pc = "decoder"
                   THEN [attempt EXCEPT ![r].pc = "load"] ELSE attempt
    BY <1>2, <2>1 DEF At, Goto
  <2> QED BY <1>1, <1>2, <2>1, <2>4, <2>5, <2>6, <2>7 DEF Keeps
<1>4. CASE ~ Creatable(d, q)
  BY <1>1, <1>4 DEF DecoderStep, ChildFails, Keeps, TypeInv
<1> QED BY <1>3, <1>4

\* The tool archive arrives where none was, or the script fails.
LEMMA CmakePlaces ==
  ASSUME Inv, NEW r \in Run, StageCmake(r), NEW p \in Place
  PROVE  /\ Keeps(p) /\ place'[p].roots = place[p].roots
         /\ child[r] \in Script /\ child[r].at = 5
         /\ \/ /\ place'[child[r].to].cmake = r
               /\ child' = [child EXCEPT ![r] = None]
               /\ attempt' = IF attempt[r].pc = "cmake" THEN [attempt EXCEPT ![r].pc = "again"] ELSE attempt
            \/ ChildFails(r)
<1>1. TypeInv /\ child[r] \in Script /\ child[r].at = 5 /\ child[r].to \in Place
  BY ConstantFacts DEF Inv, StageCmake, TypeInv, Script
<1> DEFINE d == child[r].to
<1>2. CASE place[d].cmake = None
  <2>1. place' = [place EXCEPT ![d].cmake = r] /\ child' = [child EXCEPT ![r] = None]
    BY <1>2 DEF StageCmake
  <2>2. attempt' = IF attempt[r].pc = "cmake" THEN [attempt EXCEPT ![r].pc = "again"] ELSE attempt
    BY <1>2 DEF StageCmake, At, Goto
  <2>3. Keeps(p) /\ place'[p].roots = place[p].roots /\ place'[d].cmake = r
    BY <1>1, <1>2, <2>1 DEF Keeps, TypeInv, Destination
  <2> QED BY <1>1, <2>1, <2>2, <2>3
<1>3. CASE place[d].cmake # None
  BY <1>1, <1>3 DEF StageCmake, ChildFails, Keeps, TypeInv
<1> QED BY <1>2, <1>3

\* A changed source keeps every part where it is.
LEMMA EditStep ==
  ASSUME Inv, Edit, NEW p \in Place
  PROVE  Keeps(p) /\ place'[p].roots = place[p].roots
<1>1. TypeInv
  BY DEF Inv
<1>2. CASE place' = place
  BY <1>2 DEF Keeps
<1>3. ASSUME NEW x \in DOMAIN place, NEW v \in Version, place' = [place EXCEPT ![x].source = v]
      PROVE  Keeps(p) /\ place'[p].roots = place[p].roots
  BY <1>1, <1>3 DEF Keeps, TypeInv, Destination
<1> QED BY <1>2, <1>3 DEF Edit

\* Only Remove takes anything away, and only where no attempt is active.
LEMMA PlaceStep ==
  ASSUME Inv, [Next]_vars, NEW p \in Place
  PROVE  Keeps(p) \/ (Remove /\ place'[p] = Empty)
<1>1. ASSUME NEW r \in Run,
             Quiet(r) \/ Clone(r) \/ Overlay(r) \/ MoveRoot(r) \/ DecoderStep(r) \/ StageCmake(r)
      PROVE  Keeps(p)
  <2>1. CASE Quiet(r)
    BY <2>1, QuietStep DEF Keeps
  <2> QED BY <1>1, <2>1, CloneStep, OverlayStep, MoveRootStep, DecoderPlaces, CmakePlaces
<1>2. CASE Remove
  BY <1>2 DEF Remove, Keeps, Inv, TypeInv
<1>3. CASE UNCHANGED vars
  BY <1>3 DEF vars, Keeps
<1> QED BY <1>1, <1>2, <1>3, EditStep, StepKinds
-----------------------------------------------------------------------------
(* What a step does to its attempt.                                        *)

\* The statements that come after one another without reading anything.
Edges ==
  {<<"signature", "manifest">>, <<"inventory", "recheck">>, <<"recheck", "extract">>,
   <<"extract", "capsule">>, <<"capsule", "clone">>, <<"clone", "overlay">>, <<"overlay", "capture">>,
   <<"capture", "source">>, <<"source", "verify">>, <<"verify", "stage">>, <<"stage", "staged">>,
   <<"staged", "roots">>, <<"roots", "move">>, <<"move", "decoder">>, <<"decoder", "load">>,
   <<"load", "cmake">>, <<"cmake", "again">>, <<"again", "report">>}

\* The attempt goes from one statement to another with what it remembers.
From(r, x, y) ==
  /\ attempt[r].pc = x /\ attempt'[r].pc = y
  /\ attempt'[r].to = attempt[r].to /\ attempt'[r].before = attempt[r].before
  /\ attempt'[r].manifest = attempt[r].manifest /\ attempt'[r].moved = attempt[r].moved

\* The attempt is over and remembers nothing.
Over(r) == attempt'[r].pc \in Ended /\ attempt'[r].moved = 0

\* Going on records where the attempt came from.
LEMMA GotoFrom ==
  ASSUME TypeInv, NEW r \in Run, NEW x, At(r, x), NEW y, Goto(r, y)
  PROVE  From(r, x, y)
BY DEF At, Goto, From, TypeInv, AttemptType

\* An attempt that ends is over and remembers nothing.
LEMMA EndsEnded ==
  ASSUME TypeInv, NEW r \in Run, NEW x \in Ended, Ends(r, x)
  PROVE  Over(r)
BY DEF Ends, Over, TypeInv, NewAttempt

\* A check that succeeds follows an edge of the order of statements.
LEMMA ChecksFrom ==
  ASSUME TypeInv, NEW r \in Run, Checks(r)
  PROVE  Over(r) \/ \E x, y \in Reading \cup Working : <<x, y>> \in Edges /\ From(r, x, y)
<1>1. ASSUME NEW x \in Reading \cup Working, NEW y \in Reading \cup Working, NEW condition, Require(r, x, condition, y)
      PROVE  Over(r) \/ From(r, x, y)
  <2>1. CASE Goto(r, y)
    BY <1>1, <2>1, GotoFrom DEF Require
  <2>2. CASE Ends(r, "failed")
    BY <2>2, EndsEnded DEF Ended
  <2> QED BY <1>1, <2>1, <2>2 DEF Require
<1>2. CASE VerifySignature(r)
  BY <1>1, <1>2 DEF VerifySignature, Edges, Reading, Working
<1>3. CASE Inventory(r)
  BY <1>1, <1>3 DEF Inventory, Edges, Reading, Working
<1>4. CASE Recheck(r)
  BY <1>1, <1>4 DEF Recheck, Edges, Reading, Working
<1>5. CASE Extract(r)
  BY <1>1, <1>5 DEF Extract, Edges, Reading, Working
<1>6. CASE Capsule(r)
  BY <1>1, <1>6 DEF Capsule, Edges, Reading, Working
<1>7. CASE Capture(r)
  BY <1>1, <1>7 DEF Capture, Edges, Reading, Working
<1>8. CASE CheckSource(r)
  BY <1>1, <1>8 DEF CheckSource, Edges, Reading, Working
<1>9. CASE VerifyArchive(r)
  BY <1>1, <1>9 DEF VerifyArchive, Edges, Reading, Working
<1>10. CASE VerifyStaged(r)
  BY <1>1, <1>10 DEF VerifyStaged, Edges, Reading, Working
<1>11. CASE InstallRoots(r)
  BY <1>1, <1>11 DEF InstallRoots, Edges, Reading, Working
<1>12. CASE Recapture(r)
  BY <1>1, <1>12 DEF Recapture, Edges, Reading, Working
<1> QED BY <1>2, <1>3, <1>4, <1>5, <1>6, <1>7, <1>8, <1>9, <1>10, <1>11, <1>12 DEF Checks

\* A step ends its attempt, leaves it as it was (the script of one that is over),
\* remembers something new, or only goes on.
LEMMA Progress ==
  ASSUME Inv, NEW r \in Run, Step(r) \/ Kill(r)
  PROVE  \/ Over(r)
         \/ attempt'[r] = attempt[r]
         \/ /\ attempt[r].pc = "idle" /\ attempt'[r].pc = "hash" /\ attempt'[r].to \in Place
            /\ attempt'[r].moved = attempt[r].moved
         \/ /\ attempt[r].pc = "hash" /\ attempt'[r].pc = "signature"
            /\ attempt'[r].to = attempt[r].to /\ attempt'[r].before = archive
            /\ attempt'[r].moved = attempt[r].moved
         \/ /\ attempt[r].pc = "manifest" /\ attempt'[r].pc = "inventory"
            /\ attempt'[r].to = attempt[r].to /\ attempt'[r].before = attempt[r].before
            /\ attempt'[r].manifest = archive /\ attempt'[r].moved = attempt[r].moved
         \/ /\ MoveRoot(r) /\ attempt[r].pc = "move" /\ attempt'[r].pc = "move"
            /\ attempt'[r].to = attempt[r].to /\ attempt'[r].manifest = attempt[r].manifest
            /\ attempt'[r].moved = attempt[r].moved + 1
         \/ \E x, y \in Reading \cup Working : <<x, y>> \in Edges /\ From(r, x, y)
<1>1. TypeInv
  BY DEF Inv
<1>2. CASE Checks(r)
  BY <1>1, <1>2, ChecksFrom
<1>3. CASE Start(r)
  BY <1>1, <1>3, EndsEnded DEF Start, At, TypeInv, Place, Ended, AttemptType
<1>4. CASE HashArchive(r)
  BY <1>1, <1>4 DEF HashArchive, At, TypeInv, AttemptType
<1>5. CASE ReadManifest(r)
  BY <1>1, <1>5 DEF ReadManifest, At, TypeInv, AttemptType
<1>6. CASE Stage(r)
  <2>1. From(r, "stage", "staged")
    BY <1>1, <1>6 DEF Stage, At, From, TypeInv, AttemptType
  <2> QED BY <2>1 DEF Edges, Reading, Working
<1>7. CASE MoveRoot(r)
  BY <1>1, <1>7 DEF MoveRoot, At, TypeInv, AttemptType
<1>8. CASE Clone(r)
  <2>1. From(r, "clone", "overlay") \/ Over(r)
    BY <1>1, <1>8, GotoFrom, EndsEnded DEF Clone, Ended
  <2> QED BY <2>1 DEF Edges, Reading, Working
<1>9. CASE Overlay(r)
  <2>1. From(r, "overlay", "capture")
    BY <1>1, <1>9, GotoFrom DEF Overlay
  <2> QED BY <2>1 DEF Edges, Reading, Working
<1>10. CASE RootsMoved(r)
  <2>1. From(r, "move", "decoder") \/ Over(r)
    BY <1>1, <1>10, GotoFrom, EndsEnded DEF RootsMoved, Ended
  <2> QED BY <2>1 DEF Edges, Reading, Working
<1>11. CASE Load(r)
  <2>1. From(r, "load", "cmake") \/ Over(r)
    BY <1>1, <1>11, GotoFrom, EndsEnded DEF Load, Ended
  <2> QED BY <2>1 DEF Edges, Reading, Working
<1>12. ASSUME ChildFails(r) PROVE Over(r) \/ attempt'[r] = attempt[r]
  BY <1>1, <1>12, EndsEnded DEF ChildFails, Ended
<1>13. CASE DecoderStep(r)
  <2>1. attempt'[r] = attempt[r] \/ From(r, "decoder", "load") \/ Over(r)
    BY <1>1, <1>12, <1>13, DecoderPlaces, ConstantFacts DEF From, TypeInv, AttemptType, Place
  <2> QED BY <2>1 DEF Edges, Reading, Working
<1>14. CASE StageCmake(r)
  <2>1. attempt'[r] = attempt[r] \/ From(r, "cmake", "again") \/ Over(r)
    BY <1>1, <1>12, <1>14, CmakePlaces DEF From, TypeInv, AttemptType, Place
  <2> QED BY <2>1 DEF Edges, Reading, Working
<1>15. CASE WriteReport(r) \/ RestoreFails(r) \/ Kill(r)
  BY <1>1, <1>15, EndsEnded DEF WriteReport, RestoreFails, Kill, Ended
<1> QED BY <1>2, <1>3, <1>4, <1>5, <1>6, <1>7, <1>8, <1>9, <1>10, <1>11, <1>13, <1>14, <1>15
        DEF Step, Checks

\* An attempt that goes on took the step of the statement it was at.
LEMMA StepAt ==
  ASSUME Inv, NEW r \in Run, Step(r) \/ Kill(r), attempt'[r].pc \notin Ended,
         attempt'[r].pc # attempt[r].pc
  PROVE  /\ attempt[r].pc = "signature" => VerifySignature(r)
         /\ attempt[r].pc = "recheck" => Recheck(r)
         /\ attempt[r].pc = "clone" => Clone(r)
         /\ attempt[r].pc = "roots" => InstallRoots(r)
         /\ attempt[r].pc = "move" => RootsMoved(r)
         /\ attempt[r].pc = "decoder" => DecoderStep(r)
         /\ attempt[r].pc = "load" => Load(r)
         /\ attempt[r].pc = "cmake" => StageCmake(r)
         /\ attempt[r].pc = "again" => Recapture(r)
<1>1. TypeInv
  BY DEF Inv
<1>2. ~ WriteReport(r) /\ ~ RestoreFails(r) /\ ~ Kill(r) /\ ~ ChildFails(r)
  BY <1>1, EndsEnded DEF WriteReport, RestoreFails, Kill, ChildFails, Over, Ended
<1>3. DecoderStep(r) => attempt[r].pc = "decoder"
  BY <1>1, <1>2, DecoderPlaces, ConstantFacts DEF TypeInv, Place
<1>4. StageCmake(r) => attempt[r].pc = "cmake"
  BY <1>1, <1>2, CmakePlaces, ConstantFacts DEF TypeInv, Place
<1>5. MoveRoot(r) => attempt'[r].pc = attempt[r].pc
  BY <1>1 DEF MoveRoot, TypeInv, AttemptType
<1> QED
  BY <1>2, <1>3, <1>4, <1>5 DEF Step, Start, HashArchive, VerifySignature, ReadManifest,
     Inventory, Recheck, Extract, Capsule, Clone, Overlay, Capture, CheckSource, VerifyArchive, Stage,
     VerifyStaged, InstallRoots, RootsMoved, Load, Recapture, At, Require

-----------------------------------------------------------------------------
(* The parts of the invariant.                                             *)

LEMMA BoundStep == ASSUME Inv, [Next]_vars, NEW r \in Run PROVE Bound(r)'
<1>1. TypeInv /\ Bound(r)
  BY DEF Inv
<1>2. ASSUME NEW x \in Run, Step(x) \/ Kill(x), x # r PROVE Bound(r)'
  BY <1>1, <1>2, OthersStill DEF Bound, To, Manifest
<1>3. CASE Step(r) \/ Kill(r)
  <2>1. CASE attempt'[r].pc \in Ended
    BY <2>1, LabelFacts DEF Bound
  <2>2. CASE attempt'[r] = attempt[r]
    BY <1>1, <2>2 DEF Bound, To, Manifest
  <2>3. CASE attempt'[r].pc = "hash" /\ attempt'[r].to \in Place
    BY <2>3 DEF Bound, To, HasManifest, Checked, Working
  <2>4. ASSUME NEW x \in Reading \cup Working, NEW y \in Reading \cup Working,
               <<x, y>> \in Edges, From(r, x, y)
        PROVE  Bound(r)'
    <3>1. y \in HasManifest => x \in HasManifest
      BY <2>4 DEF Edges, HasManifest, Checked, Working
    <3> QED BY <1>1, <2>4, <3>1, LabelFacts DEF Bound, From, To, Manifest
  <2> QED BY <1>1, <1>3, <2>1, <2>2, <2>3, <2>4, Progress DEF Over, Bound, To, Manifest, TypeInv,
          Ended, HasManifest, Checked, Working
<1>4. CASE Edit \/ Remove \/ UNCHANGED vars
  BY <1>1, <1>4 DEF Edit, Remove, vars, Bound, To, Manifest
<1> QED BY <1>2, <1>3, <1>4 DEF Next

\* An active attempt keeps its destination, and nobody clears it.
LEMMA WorkingPlace ==
  ASSUME Inv, [Next]_vars, NEW r \in Run, attempt[r].pc \in Working
  PROVE  To(r) \in Place /\ Keeps(To(r))
<1>1. To(r) \in Place /\ attempt[r].pc \notin Ended
  BY LabelFacts DEF Inv, Bound
<1>2. CASE Remove /\ To(r) # Canonical
  BY <1>1, <1>2 DEF Remove, Inv, TypeInv, Keeps
<1> QED BY <1>1, <1>2, PlaceStep DEF Remove

\* After its clone an attempt keeps its destination.
LEMMA OwnsStep == ASSUME Inv, [Next]_vars, NEW r \in Run PROVE Owns(r)'
<1>1. TypeInv /\ Owns(r) /\ None \notin Run
  BY ConstantFacts DEF Inv
<1>2. ASSUME attempt[r].pc \in Working, attempt'[r].pc \in Working => attempt'[r].to = attempt[r].to
      PROVE  Owns(r)'
  BY <1>1, <1>2, WorkingPlace DEF Owns, Keeps, To
<1>3. ASSUME NEW x \in Run, Step(x) \/ Kill(x), x # r PROVE Owns(r)'
  BY <1>1, <1>2, <1>3, OthersStill DEF Owns
<1>4. CASE Step(r) \/ Kill(r)
  <2>1. CASE attempt'[r].pc \notin Working
    BY <2>1 DEF Owns
  <2>2. CASE attempt'[r] = attempt[r]
    BY <1>1, <1>2, <2>2 DEF Owns
  <2>3. ASSUME NEW x \in Reading \cup Working, NEW y \in Reading \cup Working,
               <<x, y>> \in Edges, From(r, x, y)
        PROVE  Owns(r)'
    <3>1. CASE x \in Working
      BY <1>2, <2>3, <3>1 DEF From
    <3>2. CASE x = "clone" /\ y = "overlay"
      <4>1. attempt[r].pc = "clone" /\ attempt'[r].pc = "overlay" /\ attempt'[r].to = attempt[r].to
        BY <2>3, <3>2 DEF From
      <4>2. To(r) \in Place
        BY <4>1 DEF Inv, Bound, Ended
      <4>3. Clone(r) /\ attempt'[r].pc \notin Ended
        BY <1>4, <4>1, StepAt DEF Ended
      <4> QED BY <4>1, <4>2, <4>3, CloneStep DEF Owns, To
    <3>3. CASE x \notin Working /\ x # "clone"
      <4>1. y \notin Working
        BY <2>3, <3>3 DEF Edges, Working
      <4> QED BY <2>3, <4>1 DEF From, Owns
    <3> QED BY <2>3, <3>1, <3>2, <3>3 DEF Edges
  <2>4. CASE MoveRoot(r) /\ attempt[r].pc = "move" /\ attempt'[r].to = attempt[r].to
    BY <1>2, <2>4 DEF Working
  <2> QED BY <1>4, <2>1, <2>2, <2>3, <2>4, Progress, LabelFacts DEF Over, Reading, Working
<1>5. CASE Edit \/ Remove \/ UNCHANGED vars
  BY <1>1, <1>2, <1>5 DEF Edit, Remove, vars, Owns
<1> QED BY <1>3, <1>4, <1>5 DEF Next

\* Only the owner of a destination moves a root into it.
LEMMA RootsKept ==
  ASSUME Inv, [Next]_vars, NEW r \in Run, attempt[r].pc \in Working, ~ MoveRoot(r)
  PROVE  place'[To(r)].roots = place[To(r)].roots
<1>1. /\ To(r) \in Place /\ attempt[r].pc \notin Ended /\ place[To(r)].owner = r
      /\ TypeInv
  BY LabelFacts DEF Inv, Bound, Owns
<1>2. ASSUME NEW x \in Run, MoveRoot(x) PROVE place'[To(r)] = place[To(r)]
  <2>1. attempt[x].pc \in Working /\ x # r
    BY <1>2 DEF MoveRoot, At, Working
  <2>2. To(x) # To(r)
    BY <1>1, <2>1 DEF Inv, Owns
  <2> QED BY <1>1, <1>2, <2>2, MoveRootStep
<1>3. CASE Remove
  BY <1>1, <1>3 DEF Remove, TypeInv
<1>4. ASSUME NEW x \in Run, Quiet(x) PROVE place' = place
  BY <1>4, QuietStep
<1> QED BY <1>1, <1>2, <1>3, <1>4, StepKinds, CloneStep, OverlayStep, DecoderPlaces, CmakePlaces,
        EditStep DEF vars

\* The roots an attempt has moved stay its own, the others vacant.
LEMMA RootsMineStep == ASSUME Inv, [Next]_vars, NEW r \in Run PROVE RootsMine(r)'
<1>1. TypeInv /\ RootsMine(r)
  BY DEF Inv
<1>2. ASSUME attempt'[r] = attempt[r], ~ MoveRoot(r) PROVE RootsMine(r)'
  <2>1. CASE attempt[r].pc \in Working
    BY <1>1, <1>2, <2>1, RootsKept DEF RootsMine, To
  <2>2. CASE attempt[r].pc \notin Working
    BY <1>1, <1>2, <2>2 DEF RootsMine, Working
  <2> QED BY <2>1, <2>2
<1>3. ASSUME NEW x \in Run, Step(x) \/ Kill(x), x # r PROVE RootsMine(r)'
  <2>1. attempt'[r] = attempt[r]
    BY <1>1, <1>3, OthersStill
  <2>2. MoveRoot(r) => FALSE
    BY <1>1, <2>1 DEF MoveRoot, TypeInv, AttemptType
  <2> QED BY <1>2, <2>1, <2>2
<1>4. CASE Step(r) \/ Kill(r)
  <2>1. CASE Over(r)
    BY <2>1, LabelFacts DEF Over, RootsMine, Ended
  <2>2. CASE attempt'[r] = attempt[r]
    <3>1. ~ MoveRoot(r)
      BY <1>1, <2>2 DEF MoveRoot, TypeInv, AttemptType
    <3> QED BY <1>2, <2>2, <3>1
  <2>3. CASE attempt'[r].pc \in Reading /\ attempt[r].pc \in Ended \cup Reading /\ attempt'[r].moved = attempt[r].moved
    BY <1>1, <2>3 DEF RootsMine, Unmoved, Reading
  <2>4. CASE /\ MoveRoot(r) /\ attempt[r].pc = "move" /\ attempt'[r].pc = "move"
             /\ attempt'[r].to = attempt[r].to /\ attempt'[r].moved = attempt[r].moved + 1
    <3>1. To(r) \in Place /\ attempt[r].moved \in Nat /\ attempt[r].moved < Len(Roots)
      BY <1>1, <2>4 DEF Inv, Bound, Ended, MoveRoot, TypeInv, AttemptType
    <3> DEFINE m == attempt[r].moved
               old == place[To(r)].roots
               new == place'[To(r)].roots
    <3>2. new = [old EXCEPT ![Roots[m + 1]] = r] /\ DOMAIN old = RootName
      BY <1>1, <2>4, <3>1, MoveRootStep DEF TypeInv, Destination
    <3>3. m + 1 \in DOMAIN Roots
      BY <3>1, ConstantFacts
    <3>4. \A k \in DOMAIN Roots : old[Roots[k]] = IF k <= m THEN r ELSE None
      BY <1>1, <2>4 DEF RootsMine
    <3>5. ASSUME NEW k \in DOMAIN Roots PROVE new[Roots[k]] = IF k <= m + 1 THEN r ELSE None
      <4>1. CASE k = m + 1
        BY <3>1, <3>2, <3>3, <4>1, ConstantFacts
      <4>2. CASE k # m + 1
        <5>1. Roots[k] # Roots[m + 1] /\ Roots[k] \in RootName
          BY <3>3, <4>2, ConstantFacts, RootsAssumption
        <5>2. new[Roots[k]] = old[Roots[k]]
          BY <3>2, <5>1
        <5>3. k <= m <=> k <= m + 1
          BY <3>1, <4>2, ConstantFacts
        <5> QED BY <3>4, <5>2, <5>3
      <4> QED BY <4>1, <4>2
    <3> QED BY <2>4, <3>1, <3>5, ConstantFacts DEF RootsMine, To, Unmoved, Ended, Reading
  <2>5. ASSUME NEW x \in Reading \cup Working, NEW y \in Reading \cup Working,
               <<x, y>> \in Edges, From(r, x, y)
        PROVE  RootsMine(r)'
    <3>1. ~ MoveRoot(r)
      BY <1>1, <2>5 DEF MoveRoot, From, TypeInv, AttemptType
    <3>2. x # y /\ y \notin Ended /\ x \notin Ended
      BY <2>5, LabelFacts DEF Edges
    <3>3. CASE y \in Unmoved
      <4>1. x \in Unmoved
        BY <2>5, <3>3 DEF Edges, Unmoved, Ended, Reading
      <4> QED BY <1>1, <2>5, <3>3, <4>1 DEF From, RootsMine, Unmoved, Ended, Reading
    <3>4. CASE x = "roots" /\ y = "move"
      <4>1. InstallRoots(r)
        BY <1>4, <2>5, <3>2, <3>4, StepAt DEF From
      <4>2. \A n \in RootName : place[To(r)].roots[n] = None
        <5>1. ~ Ends(r, "failed")
          BY <1>1, <2>5, <3>2, EndsEnded DEF From, Over, Ended
        <5> QED BY <4>1, <5>1 DEF InstallRoots, Require
      <4>3. place' = place
        BY <4>1, QuietStep DEF Quiet, Checks
      <4>4. attempt[r].moved = 0
        BY <1>1, <2>5, <3>4 DEF RootsMine, From, Unmoved
      <4>5. \A k \in DOMAIN Roots : place'[To(r)].roots[Roots[k]] = IF k <= 0 THEN r ELSE None
        BY <4>2, <4>3, ConstantFacts
      <4> QED BY <2>5, <3>4, <4>4, <4>5, ConstantFacts DEF From, RootsMine, To, Unmoved, Ended, Reading
    <3>5. CASE x = "move" /\ y = "decoder"
      <4>1. RootsMoved(r)
        BY <1>4, <2>5, <3>2, <3>5, StepAt DEF From
      <4>2. attempt[r].moved = Len(Roots) /\ place' = place
        BY <4>1, QuietStep DEF RootsMoved, Quiet
      <4>3. \A n \in RootName : place[To(r)].roots[n] = r
        BY <1>1, <2>5, <3>5, <4>2, ConstantFacts DEF RootsMine, From
      <4> QED BY <2>5, <3>5, <4>2, <4>3 DEF From, RootsMine, To, Unmoved, Ended, Reading
    <3>6. CASE x \in {"decoder", "load", "cmake", "again"} /\ y \in {"load", "cmake", "again", "report"}
      <4>1. place'[To(r)].roots = place[To(r)].roots
        BY <2>5, <3>1, <3>6, RootsKept DEF From, Working
      <4> QED BY <1>1, <2>5, <3>6, <4>1 DEF From, RootsMine, To, Unmoved, Ended, Reading
    <3> QED BY <2>5, <3>3, <3>4, <3>5, <3>6 DEF Edges, Unmoved, Reading
  <2> QED BY <1>4, <2>1, <2>2, <2>3, <2>4, <2>5, Progress DEF Reading, Ended
<1>5. CASE Edit \/ Remove \/ UNCHANGED vars
  <2>1. attempt'[r] = attempt[r]
    BY <1>5 DEF Edit, Remove, vars
  <2>2. MoveRoot(r) => FALSE
    BY <1>1, <2>1 DEF MoveRoot, TypeInv, AttemptType
  <2> QED BY <1>2, <2>1, <2>2
<1> QED BY <1>3, <1>4, <1>5 DEF Next

\* A step that leaves its attempt as it was is one of its script.
LEMMA ScriptStep ==
  ASSUME Inv, NEW r \in Run, Step(r) \/ Kill(r), attempt'[r] = attempt[r],
         attempt[r].pc \in Working
  PROVE  /\ DecoderStep(r) \/ StageCmake(r)
         /\ ~ ChildFails(r) \/ attempt[r].pc \notin {"decoder", "cmake"}
<1>1. TypeInv /\ attempt[r].pc \notin Ended
  BY LabelFacts DEF Inv
<1>2. ~ WriteReport(r) /\ ~ RestoreFails(r) /\ ~ Kill(r)
  BY <1>1, EndsEnded DEF WriteReport, RestoreFails, Kill, Over, Ended
<1>3. ChildFails(r) => attempt[r].pc \notin {"decoder", "cmake"}
  BY <1>1, EndsEnded DEF ChildFails, Over, Ended
<1>4. \A x, y \in Reading \cup Working : <<x, y>> \in Edges => x # y
  BY DEF Edges
<1>5. ~ Checks(r)
  BY <1>1, <1>4, ChecksFrom DEF Over, From
<1>6. ~ Start(r) /\ ~ HashArchive(r) /\ ~ ReadManifest(r) /\ ~ Stage(r) /\ ~ MoveRoot(r)
  <2>1. ~ Start(r) /\ ~ HashArchive(r) /\ ~ ReadManifest(r)
    BY <1>1 DEF Start, HashArchive, ReadManifest, At, Ended, Working
  <2>2. ~ Stage(r) /\ ~ MoveRoot(r)
    BY <1>1 DEF Stage, MoveRoot, At, TypeInv, AttemptType
  <2> QED BY <2>1, <2>2
<1>7. ~ Clone(r) /\ ~ Overlay(r) /\ ~ RootsMoved(r) /\ ~ Load(r)
  BY <1>1, GotoFrom, EndsEnded DEF Clone, Overlay, RootsMoved, Load, From, Over, Ended
<1> QED BY <1>2, <1>3, <1>5, <1>6, <1>7 DEF Step, Checks

\* The decoder pieces its script has installed stay its own.
LEMMA DecoderMineStep == ASSUME Inv, [Next]_vars, NEW r \in Run PROVE DecoderMine(r)'
<1>1. TypeInv /\ DecoderMine(r) /\ None \notin Run
  BY ConstantFacts DEF Inv
<1>2. ASSUME attempt[r].pc \in Working, NEW q \in Piece, place[To(r)].decoder[q] = r
      PROVE  place'[To(r)].decoder[q] = r
  BY <1>1, <1>2, WorkingPlace DEF Keeps
<1>3. \A k \in 1..4 : Pieces[k] \in Piece
  BY ConstantFacts DEF Pieces
<1>4. \A q \in Piece : \E k \in 1..4 : q = Pieces[k]
  BY ConstantFacts DEF Pieces
<1>5. ASSUME attempt'[r] = attempt[r], child'[r] = child[r] PROVE DecoderMine(r)'
  BY <1>1, <1>2, <1>3, <1>5 DEF DecoderMine, To, Working
<1>6. ASSUME NEW x \in Run, Step(x) \/ Kill(x), x # r PROVE DecoderMine(r)'
  BY <1>1, <1>5, <1>6, OthersStill
<1>7. CASE Step(r) \/ Kill(r)
  <2>1. CASE attempt'[r].pc \notin {"decoder", "load", "cmake", "again", "report"}
    BY <2>1 DEF DecoderMine
  <2>2. CASE attempt'[r] = attempt[r] /\ attempt[r].pc = "decoder"
    <3>1. child[r] \in Script /\ child[r].to = To(r) /\ child[r].at \in 1..4
      BY <1>1, <2>2 DEF DecoderMine
    <3>2. DecoderStep(r) /\ ~ ChildFails(r)
      <4>1. attempt[r].pc \in Working
        BY <2>2 DEF Working
      <4>2. /\ DecoderStep(r) \/ StageCmake(r)
            /\ ~ ChildFails(r)
        BY <1>7, <2>2, <4>1, ScriptStep
      <4>3. ~ StageCmake(r)
        BY <3>1, ConstantFacts DEF StageCmake
      <4> QED BY <4>2, <4>3
    <3>3. To(r) \in Place /\ Keeps(To(r))
      BY <2>2, WorkingPlace DEF Working
    <3>4. /\ place'[To(r)].decoder[Pieces[child[r].at]] = r
          /\ child' = [child EXCEPT ![r] = IF child[r].at # 4
                        THEN [at |-> child[r].at + 1, to |-> child[r].to] ELSE None]
          /\ attempt' = IF child[r].at = 4 THEN [attempt EXCEPT ![r].pc = "load"] ELSE attempt
      BY <2>2, <3>1, <3>2, <3>3, DecoderPlaces
    <3>5. child[r].at # 4
      BY <1>1, <2>2, <3>4 DEF TypeInv, AttemptType
    <3>6. child'[r] = [at |-> child[r].at + 1, to |-> To(r)]
      BY <1>1, <3>1, <3>4, <3>5 DEF TypeInv
    <3>7. child'[r] \in Script /\ child'[r].to = To(r) /\ child'[r].at = child[r].at + 1 /\ child'[r].at \in 1..4
      BY <3>1, <3>3, <3>5, <3>6 DEF Script
    <3>8. ASSUME NEW k \in 1..4, k < child'[r].at PROVE place'[To(r)].decoder[Pieces[k]] = r
      <4>1. CASE k = child[r].at
        BY <3>4, <4>1
      <4>2. CASE k # child[r].at
        <5>1. k < child[r].at
          BY <3>1, <3>7, <3>8, <4>2
        <5> QED BY <1>1, <1>2, <1>3, <2>2, <5>1 DEF DecoderMine, Working
      <4> QED BY <4>1, <4>2
    <3> QED BY <2>2, <3>7, <3>8 DEF DecoderMine, To
  <2>3. CASE attempt'[r] = attempt[r] /\ attempt[r].pc \in {"load", "cmake", "again", "report"}
    BY <1>1, <1>2, <2>3 DEF DecoderMine, To, Working
  <2>4. ASSUME NEW x \in Reading \cup Working, NEW y \in Reading \cup Working,
               <<x, y>> \in Edges, From(r, x, y)
        PROVE  DecoderMine(r)'
    <3>1. x # y /\ y \notin Ended
      BY <2>4, LabelFacts DEF Edges
    <3>2. CASE x = "move" /\ y = "decoder"
      <4>1. RootsMoved(r) /\ ~ Ends(r, "failed")
        BY <1>1, <1>7, <2>4, <3>1, <3>2, StepAt, EndsEnded DEF From, Over, Ended
      <4>2. child'[r] = [at |-> 1, to |-> To(r)] /\ To(r) \in Place
        BY <1>1, <2>4, <3>2, <4>1 DEF RootsMoved, TypeInv, Inv, Bound, From, Ended
      <4> QED BY <2>4, <3>2, <4>2 DEF DecoderMine, From, To, Script
    <3>3. CASE x = "decoder" /\ y = "load"
      <4>1. DecoderStep(r) /\ ~ ChildFails(r)
        BY <1>1, <1>7, <2>4, <3>1, <3>3, StepAt, EndsEnded DEF From, ChildFails, Over, Ended
      <4>2. child[r].to = To(r) /\ child[r].at \in 1..4 /\ attempt[r].pc = "decoder"
        BY <1>1, <2>4, <3>3 DEF DecoderMine, From
      <4>3. To(r) \in Place
        BY <4>2, WorkingPlace DEF Working
      <4>4. child[r].at = 4 /\ place'[To(r)].decoder[Pieces[4]] = r
        BY <2>4, <3>1, <4>1, <4>2, <4>3, DecoderPlaces DEF From
      <4>5. \A k \in 1..3 : place'[To(r)].decoder[Pieces[k]] = r
        BY <1>1, <1>2, <1>3, <4>2, <4>4 DEF DecoderMine, Working
      <4>6. \A q \in Piece : place'[To(r)].decoder[q] = r
        BY <1>4, <4>4, <4>5
      <4> QED BY <2>4, <3>3, <4>6 DEF DecoderMine, From, To
    <3>4. CASE x \in {"load", "cmake", "again"} /\ y \in {"cmake", "again", "report"}
      BY <1>1, <1>2, <2>4, <3>4 DEF DecoderMine, From, To, Working
    <3>5. CASE y \notin {"decoder", "load", "cmake", "again", "report"}
      BY <2>1, <2>4, <3>5 DEF From
    <3> QED BY <2>4, <3>2, <3>3, <3>4, <3>5 DEF Edges
  <2> QED BY <1>7, <2>1, <2>2, <2>3, <2>4, Progress DEF Over, Ended
<1>8. CASE Edit \/ Remove \/ UNCHANGED vars
  BY <1>5, <1>8 DEF Edit, Remove, vars
<1> QED BY <1>6, <1>7, <1>8 DEF Next

\* The tool archive it staged stays its own.
LEMMA CmakeMineStep == ASSUME Inv, [Next]_vars, NEW r \in Run PROVE CmakeMine(r)'
<1>1. TypeInv /\ CmakeMine(r) /\ None \notin Run
  BY ConstantFacts DEF Inv
<1>2. ASSUME attempt[r].pc \in Working, place[To(r)].cmake = r PROVE place'[To(r)].cmake = r
  BY <1>1, <1>2, WorkingPlace DEF Keeps
<1>3. ASSUME attempt'[r] = attempt[r], child'[r] = child[r] PROVE CmakeMine(r)'
  BY <1>1, <1>2, <1>3 DEF CmakeMine, To, Working
<1>4. ASSUME NEW x \in Run, Step(x) \/ Kill(x), x # r PROVE CmakeMine(r)'
  BY <1>1, <1>3, <1>4, OthersStill
<1>5. CASE Step(r) \/ Kill(r)
  <2>1. CASE attempt'[r].pc \notin {"cmake", "again", "report"}
    BY <2>1 DEF CmakeMine
  <2>2. CASE attempt'[r] = attempt[r] /\ attempt[r].pc = "cmake"
    <3>1. child[r] = [at |-> 5, to |-> To(r)] /\ To(r) \in Place
      BY <1>1, <2>2, WorkingPlace DEF CmakeMine, Working
    <3>2. StageCmake(r) /\ ~ ChildFails(r)
      <4>1. attempt[r].pc \in Working
        BY <2>2 DEF Working
      <4>2. /\ DecoderStep(r) \/ StageCmake(r)
            /\ ~ ChildFails(r)
        BY <1>5, <2>2, <4>1, ScriptStep
      <4>3. ~ DecoderStep(r)
        BY <3>1, ConstantFacts DEF DecoderStep
      <4> QED BY <4>2, <4>3
    <3>3. attempt' = [attempt EXCEPT ![r].pc = "again"]
      BY <2>2, <3>1, <3>2, CmakePlaces
    <3> QED BY <1>1, <2>2, <3>3 DEF TypeInv, AttemptType
  <2>3. CASE attempt'[r] = attempt[r] /\ attempt[r].pc \in {"again", "report"}
    BY <1>1, <1>2, <2>3 DEF CmakeMine, To, Working
  <2>4. ASSUME NEW x \in Reading \cup Working, NEW y \in Reading \cup Working,
               <<x, y>> \in Edges, From(r, x, y)
        PROVE  CmakeMine(r)'
    <3>1. x # y /\ y \notin Ended
      BY <2>4, LabelFacts DEF Edges
    <3>2. CASE x = "load" /\ y = "cmake"
      <4>1. Load(r) /\ ~ Ends(r, "failed")
        BY <1>1, <1>5, <2>4, <3>1, <3>2, StepAt, EndsEnded DEF From, Over, Ended
      <4>2. child'[r] = [at |-> 5, to |-> To(r)]
        BY <1>1, <4>1, ConstantFacts DEF Load, TypeInv
      <4> QED BY <2>4, <3>2, <4>2 DEF CmakeMine, From, To
    <3>3. CASE x = "cmake" /\ y = "again"
      <4>1. StageCmake(r) /\ ~ ChildFails(r)
        BY <1>1, <1>5, <2>4, <3>1, <3>3, StepAt, EndsEnded DEF From, ChildFails, Over, Ended
      <4>2. child[r] = [at |-> 5, to |-> To(r)] /\ To(r) \in Place
        BY <1>1, <2>4, <3>3, WorkingPlace DEF CmakeMine, From, Working
      <4>3. place'[To(r)].cmake = r
        BY <4>1, <4>2, CmakePlaces
      <4> QED BY <2>4, <3>3, <4>3 DEF CmakeMine, From, To
    <3>4. CASE x = "again" /\ y = "report"
      BY <1>1, <1>2, <2>4, <3>4 DEF CmakeMine, From, To, Working
    <3>5. CASE y \notin {"cmake", "again", "report"}
      BY <2>1, <2>4, <3>5 DEF From
    <3> QED BY <2>4, <3>2, <3>3, <3>4, <3>5 DEF Edges
  <2> QED BY <1>5, <2>1, <2>2, <2>3, <2>4, Progress DEF Over, Ended
<1>6. CASE Edit \/ Remove \/ UNCHANGED vars
  BY <1>3, <1>6 DEF Edit, Remove, vars
<1> QED BY <1>4, <1>5, <1>6 DEF Next

\* No attempt changes the archive.
LEMMA FilesStill ==
  ASSUME NEW r \in Run, Step(r) \/ Kill(r)
  PROVE  archive' = archive /\ edits' = edits
BY DEF Step, Kill, Start, HashArchive, VerifySignature, ReadManifest, Inventory, Recheck,
   Extract, Capsule, Clone, Overlay, Capture, CheckSource, VerifyArchive, Stage, VerifyStaged,
   InstallRoots, MoveRoot, RootsMoved, DecoderStep, Load, StageCmake, Recapture, WriteReport,
   RestoreFails, Require, files, bounds

\* What an attempt read stays what was signed, as long as one change is all there is.
LEMMA SignedReadStep == ASSUME Inv, [Next]_vars, NEW r \in Run PROVE SignedRead(r)'
<1>1. TypeInv /\ SignedRead(r)
  BY DEF Inv
<1>2. ASSUME attempt'[r] = attempt[r], archive' = archive, edits' = edits PROVE SignedRead(r)'
  BY <1>1, <1>2 DEF SignedRead, Manifest
<1>3. ASSUME NEW x \in Run, Step(x) \/ Kill(x), x # r PROVE SignedRead(r)'
  BY <1>1, <1>2, <1>3, OthersStill, FilesStill
<1>4. CASE Step(r) \/ Kill(r)
  <2>1. archive' = archive /\ edits' = edits
    BY <1>4, FilesStill
  <2>2. CASE attempt'[r].pc \in Ended \cup {"hash"}
    BY <2>2 DEF SignedRead, Ended, Checked, Working
  <2>3. CASE attempt'[r].pc = "signature" /\ attempt'[r].before = archive
    BY <2>1, <2>3 DEF SignedRead, Checked, Working
  <2>4. CASE /\ attempt[r].pc = "manifest" /\ attempt'[r].pc = "inventory"
             /\ attempt'[r].before = attempt[r].before /\ attempt'[r].manifest = archive
    BY <1>1, <2>1, <2>4 DEF SignedRead, Manifest, Checked, Working
  <2>5. CASE attempt[r].pc = "move" /\ attempt'[r].pc = "move" /\ attempt'[r].manifest = attempt[r].manifest
    BY <1>1, <2>1, <2>5 DEF SignedRead, Manifest, Checked, Working
  <2>6. ASSUME NEW x \in Reading \cup Working, NEW y \in Reading \cup Working,
               <<x, y>> \in Edges, From(r, x, y)
        PROVE  SignedRead(r)'
    <3>1. x # y /\ y \notin Ended
      BY <2>6, LabelFacts DEF Edges
    <3>2. CASE x = "signature" /\ y = "manifest"
      <4>1. VerifySignature(r) /\ ~ Ends(r, "failed")
        BY <1>1, <1>4, <2>6, <3>1, <3>2, StepAt, EndsEnded DEF From, Over, Ended
      <4>2. archive.signed
        BY <4>1 DEF VerifySignature, Require
      <4> QED BY <1>1, <2>1, <2>6, <3>2, <4>2 DEF SignedRead, From, Checked, Working
    <3>3. CASE x = "inventory" /\ y = "recheck"
      BY <1>1, <2>1, <2>6, <3>3 DEF SignedRead, From, Manifest, Checked, Working
    <3>4. CASE x = "recheck" /\ y = "extract"
      <4>1. Recheck(r) /\ ~ Ends(r, "failed")
        BY <1>1, <1>4, <2>6, <3>1, <3>4, StepAt, EndsEnded DEF From, Over, Ended
      <4>2. archive = attempt[r].before
        BY <4>1 DEF Recheck, SameBefore, Require
      <4> QED BY <1>1, <2>1, <2>6, <3>4, <4>2 DEF SignedRead, From, Manifest, Checked, Working
    <3>5. CASE x \in Checked /\ y \in Checked
      <4>1. y \notin {"signature", "manifest", "inventory", "recheck"}
        BY <3>5 DEF Checked, Working
      <4> QED BY <1>1, <2>1, <2>6, <3>5, <4>1 DEF SignedRead, From, Manifest
    <3> QED BY <2>6, <3>2, <3>3, <3>4, <3>5 DEF Edges, Checked, Working
  <2> QED BY <1>2, <1>4, <2>1, <2>2, <2>3, <2>4, <2>5, <2>6, Progress DEF Over
<1>5. CASE Edit
  <2>1. attempt' = attempt /\ edits' = edits + 1 /\ edits \in Nat
    BY <1>1, <1>5 DEF Edit, TypeInv
  <2>2. CASE archive' # archive
    BY <1>1, <2>1, <2>2 DEF SignedRead, Manifest
  <2>3. CASE archive' = archive
    BY <1>1, <2>1, <2>3 DEF SignedRead, Manifest
  <2> QED BY <2>2, <2>3
<1>6. CASE Remove \/ UNCHANGED vars
  BY <1>2, <1>6 DEF Remove, vars, files, bounds
<1> QED BY <1>3, <1>4, <1>5, <1>6 DEF Next

-----------------------------------------------------------------------------
(* The theorems.                                                           *)

LEMMA InvStep == ASSUME Inv, [Next]_vars PROVE Inv'
BY TypeStep, BoundStep, OwnsStep, RootsMineStep, DecoderMineStep, CmakeMineStep, SignedReadStep DEF Inv

\* No step of an attempt, of a script left running or of the world breaks Inv, so
\* it holds throughout every run of restore (release_package.py).
THEOREM InvInvariant == Spec => []Inv
<1> QED BY InitInv, InvStep, PTL DEF Spec

\* What an attempt, or its script, has put into a destination stays until the
\* whole destination is cleared: no install of fixed_inputs.py or
\* decoder_rebuilt_inputs.py replaces a root or a piece that is there.
THEOREM NothingReplaced == Spec => NothingIsReplaced
<1>1. ASSUME Inv, [Next]_vars
      PROVE  [\A p \in DOMAIN place :
                place'[p] = Empty \/
                /\ place[p].owner \in {None, place'[p].owner} /\ place[p].cmake \in {None, place'[p].cmake}
                /\ \A n \in RootName : place[p].roots[n] \in {None, place'[p].roots[n]}
                /\ \A q \in Piece : place[p].decoder[q] \in {None, place'[p].decoder[q]}]_vars
  <2>1. DOMAIN place = Place
    BY <1>1 DEF Inv, TypeInv
  <2> QED BY <1>1, <2>1, PlaceStep DEF Keeps
<1> QED BY <1>1, InvInvariant, PTL DEF Spec, NothingIsReplaced

\* The two steps the second theorem is about.
LEMMA AgainStep ==
  ASSUME Inv, [Next]_vars, NEW r \in Run, At(r, "again"), attempt'[r].pc = "report"
  PROVE  Recapture(r)
<1>1. TypeInv
  BY DEF Inv
<1>2. attempt'[r] # attempt[r]
  BY DEF At
<1>3. Step(r) \/ Kill(r)
  BY <1>1, <1>2, OthersStill DEF Next, Edit, Remove, vars
<1>4. attempt'[r].pc \notin Ended /\ attempt'[r].pc # attempt[r].pc
  BY DEF At, Ended
<1> QED BY <1>3, <1>4, StepAt DEF At

\* Only the last statement makes a report.
LEMMA ReportStep ==
  ASSUME Inv, [Next]_vars, NEW r \in Run, report[r] = None, report'[r] # None
  PROVE  At(r, "report")
<1>1. TypeInv
  BY DEF Inv
<1>2. ASSUME NEW x \in Run, WriteReport(x) PROVE x = r
  BY <1>1, <1>2 DEF WriteReport, TypeInv
<1>3. ASSUME NEW x \in Run, Step(x) \/ Kill(x), ~ WriteReport(x) PROVE report' = report
  <2>1. CASE Quiet(x) /\ ~ WriteReport(x)
    BY <2>1, ChecksStep DEF Quiet, Start, HashArchive, ReadManifest, Stage, RootsMoved, Load,
       RestoreFails, Kill
  <2> QED BY <1>3, <2>1 DEF Step, Checks, Quiet, Clone, Overlay, MoveRoot, DecoderStep, StageCmake
<1> QED BY <1>2, <1>3 DEF Next, Edit, Remove, vars, WriteReport

\* "inputs_restored" is written only by an attempt that put every root, decoder
\* input and download at its destination itself, and after a capture of the
\* source that its manifest names, which was signed unless the archive was
\* swapped twice (restore of release_package.py).
THEOREM RestorationCorrect == Spec => RestorationIsExact
<1>1. ASSUME Inv, [Next]_vars
      PROVE  [\A r \in Run : /\ At(r, "again") /\ attempt'[r].pc = "report" => SourceExact(r)
                             /\ report[r] = None /\ report'[r] # None => InputsExact(r)]_vars
  <2> SUFFICES ASSUME NEW r \in Run
               PROVE  /\ At(r, "again") /\ attempt'[r].pc = "report" => SourceExact(r)
                      /\ report[r] = None /\ report'[r] # None => InputsExact(r)
    OBVIOUS
  <2>1. ASSUME At(r, "again"), attempt'[r].pc = "report" PROVE SourceExact(r)
    <3>1. Recapture(r)
      BY <1>1, <2>1, AgainStep
    <3>2. SourceIsManifest(r)
      BY <1>1, <2>1, <3>1, EndsEnded DEF Recapture, Require, Over, Ended, Inv
    <3>3. edits <= 1 => Manifest(r).signed
      BY <1>1, <2>1 DEF Inv, SignedRead, At, Checked, Working
    <3> QED BY <3>2, <3>3 DEF SourceExact, SourceIsManifest
  <2>2. ASSUME report[r] = None, report'[r] # None PROVE InputsExact(r)
    <3>1. At(r, "report")
      BY <1>1, <2>2, ReportStep
    <3> QED BY <1>1, <3>1 DEF Inv, At, InputsExact, Owns, RootsMine, DecoderMine, CmakeMine, Working
  <2> QED BY <2>1, <2>2
<1> QED BY <1>1, InvInvariant, PTL DEF Spec, RestorationIsExact
=============================================================================
