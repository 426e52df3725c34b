------------------------- MODULE EphemeralVmProofs -------------------------
(***************************************************************************)
(* Proofs about EphemeralVm and the CleanRoom in its guest, for any stages *)
(* of the policy, any archive, and any number of launches and restores:    *)
(* a passed controller ran every stage of an unchanged checkout, what the  *)
(* audit verifies is one launch's, the disks are gone before the record is *)
(* written, no ended launch leaves its secrets, and no launch overwrites   *)
(* the evidence.                                                           *)
(***************************************************************************)
EXTENDS EphemeralVm, SequenceTheorems, TLAPS

-----------------------------------------------------------------------------
(* The controller.                                                         *)

\* The names of the rows.
Names == STRING \cup {"checkout"}

\* The transcript after n stages of the policy.
Transcript(n) == [i \in 1..n + 1 |-> IF i = 1 THEN "checkout" ELSE Stages[i - 1]]

RoomTyped ==
  /\ step \in {"clone", "submodules", "output", "stages", "audit", "exit"}
  /\ attempt \in Nat /\ canonical \in {"empty", "partial", "cloned", "complete"}
  /\ source \in Sources /\ snapshot \in Sources \cup {None}
  /\ code \in {0, 1, 255}

\* What is done at each place: the transcript is a prefix of the policy's stages,
\* and a report needs all of them and the source of the snapshot.
RoomInv ==
  /\ RoomTyped
  /\ step = "clone" \/ step = "submodules" \/ step = "output" => code = 255
  /\ step = "output" => canonical = "complete"
  /\ step = "stages" => /\ canonical = "complete" /\ code = 255
                        /\ \E n \in 0..Len(Stages) : rows = Transcript(n)
  /\ step = "audit" => code = 255
  /\ step = "audit" \/ code = 0 =>
       report /\ canonical = "complete" /\ rows = Transcript(Len(Stages)) /\ snapshot = source

-----------------------------------------------------------------------------
(* The launcher.                                                           *)

Typed ==
  /\ launch \in 0..MaxLaunches /\ (pc # "idle" => launch \in Launches)
  /\ secrets \in [Launches -> {"absent", "whole"}]
  /\ overlay \in [Launches -> {"absent", "clean", "secret"}]
  /\ evidence = [l \in Launches |-> evidence[l]]
  /\ root \in [RootFiles -> Int]
  /\ recorded \subseteq [launch : Launches, report : Int]
  /\ record \in recorded \cup {NoRecord, TornRecord}
  /\ outcome = [l \in Launches |-> outcome[l]]
  /\ secretsEnv \in BOOLEAN

\* A controller has returned only in the guest of this launch, and an archive is
\* made when secrets.env is gone.
GuestInv ==
  /\ guest = "archiving" => ~ secretsEnv
  /\ ~ GuestUp => code = 255
  /\ code = 0 => launch \in passed

\* What an evidence disk holds, of whichever launch.
DiskInv ==
  \A l \in Launches : evidence[l].present => /\ ~ evidence[l].secret
                                             /\ evidence[l].exit = 0 => l \in passed

\* What is left and what is gone at each place of launch.
PlaceInv ==
  /\ pc \in {"qemu", "inventory", "extract", "exit-code", "destroy"} => evidence[launch].present
  /\ pc \in {"inventory", "extract", "exit-code", "destroy", "record", "write record", "summary"} =>
       secrets[launch] = "absent"
  /\ pc \in {"record", "write record", "summary"} =>
       overlay[launch] = "absent" /\ ~ evidence[launch].present
  /\ pc \in {"destroy", "record", "write record"} => launch \in passed

DisksGone(l) == secrets[l] = "absent" /\ overlay[l] = "absent" /\ ~ evidence[l].present

\* A record was written for a launch that passed and had no disks left, and the
\* launch has done nothing since but end.
RecordInv ==
  \A r \in recorded : /\ r.launch <= launch /\ r.launch \in passed /\ DisksGone(r.launch)
                      /\ r.launch = launch => pc \in {"summary", "handler", "idle"}

\* A launch that ended by itself has left no secrets, and is over.
OutcomeInv ==
  \A l \in Launches : outcome[l] \in {"completed", "failed"} =>
    /\ l <= launch /\ (l = launch => pc = "idle")
    /\ secrets[l] = "absent" /\ overlay[l] # "secret"

IInv == RoomInv /\ Typed /\ GuestInv /\ DiskInv /\ PlaceInv /\ RecordInv /\ OutcomeInv

-----------------------------------------------------------------------------
(* The controller's steps.                                                 *)

\* A transcript has one row more than stages, each stage adds its row, and that
\* of all of them is the checkout and the policy.
LEMMA TranscriptFacts ==
  /\ \A n \in 0..Len(Stages) : Transcript(n) \in Seq(Names) /\ Len(Transcript(n)) = n + 1
  /\ Transcript(0) = << "checkout" >>
  /\ \A n \in 0..Len(Stages) : n < Len(Stages) =>
       Append(Transcript(n), Stages[n + 1]) = Transcript(n + 1)
  /\ Transcript(Len(Stages)) = << "checkout" >> \o Stages
<1>1. Stages \in Seq(Names) /\ Len(Stages) \in Nat
  <2>1. Stages \in Seq(STRING)
    BY StagesAssumption
  <2>2. Len(Stages) \in Nat /\ Stages \in [1..Len(Stages) -> STRING]
    BY <2>1, LenProperties
  <2>3. Stages \in [1..Len(Stages) -> Names]
    BY <2>2 DEF Names
  <2> QED BY <2>2, <2>3
<1>2. ASSUME NEW n \in 0..Len(Stages)
      PROVE  Transcript(n) \in Seq(Names) /\ Len(Transcript(n)) = n + 1
  <2>1. Transcript(n) \in [1..n + 1 -> Names]
    <3>1. ASSUME NEW i \in 1..n + 1 PROVE (IF i = 1 THEN "checkout" ELSE Stages[i - 1]) \in Names
      <4>1. CASE i = 1
        BY <4>1 DEF Names
      <4>2. CASE i # 1
        <5>1. i - 1 \in 1..Len(Stages)
          BY <1>1, <4>2
        <5> QED BY <1>1, <4>2, <5>1
      <4> QED BY <4>1, <4>2
    <3> QED BY <3>1 DEF Transcript
  <2>2. n + 1 \in Nat
    BY <1>1
  <2> QED BY <2>1, <2>2
<1>3. Transcript(0) = << "checkout" >>
  BY DEF Transcript
<1>4. ASSUME NEW n \in 0..Len(Stages), n < Len(Stages)
      PROVE  Append(Transcript(n), Stages[n + 1]) = Transcript(n + 1)
  <2>1. Transcript(n) \in Seq(Names) /\ Len(Transcript(n)) = n + 1 /\ Stages[n + 1] \in Names
    BY <1>1, <1>2, <1>4
  <2>2. Transcript(n + 1) \in Seq(Names) /\ Len(Transcript(n + 1)) = n + 2
    BY <1>1, <1>2, <1>4
  <2>3. Append(Transcript(n), Stages[n + 1]) \in Seq(Names)
        /\ Len(Append(Transcript(n), Stages[n + 1])) = n + 2
    BY <2>1
  <2>4. ASSUME NEW i \in 1..n + 2
        PROVE  Append(Transcript(n), Stages[n + 1])[i] = Transcript(n + 1)[i]
    <3>1. CASE i = n + 2
      BY <1>1, <2>1, <3>1 DEF Transcript
    <3>2. CASE i # n + 2
      <4>1. i \in 1..n + 1
        BY <3>2
      <4>2. Append(Transcript(n), Stages[n + 1])[i] = Transcript(n)[i]
        BY <2>1, <4>1
      <4> QED BY <4>1, <4>2 DEF Transcript
    <3> QED BY <3>1, <3>2
  <2> QED BY <2>2, <2>3, <2>4, SeqEqual
<1>5. Transcript(Len(Stages)) = << "checkout" >> \o Stages
  <2>1. << "checkout" >> \in Seq(Names)
    <3>1. "checkout" \in Names
      BY DEF Names
    <3> QED BY <3>1
  <2>2. /\ << "checkout" >> \o Stages \in Seq(Names)
        /\ Len(<< "checkout" >> \o Stages) = Len(Stages) + 1
    BY <1>1, <2>1
  <2>3. ASSUME NEW i \in 1..Len(Stages) + 1
        PROVE  Transcript(Len(Stages))[i] = (<< "checkout" >> \o Stages)[i]
    BY <1>1, <2>1 DEF Transcript
  <2>4. Transcript(Len(Stages)) \in Seq(Names) /\ Len(Transcript(Len(Stages))) = Len(Stages) + 1
    BY <1>1, <1>2
  <2> QED BY <2>2, <2>3, <2>4, SeqEqual
<1> QED BY <1>2, <1>3, <1>4, <1>5

\* A fresh guest has done nothing.
LEMMA FreshRoomInv ==
  /\ FreshRoom => RoomInv
  /\ RoomGone => RoomInv'
<1>1. FreshRoom => RoomInv
  <2>1. FreshRoom => RoomTyped
    BY DEF FreshRoom, RoomTyped, Sources
  <2>2. FreshRoom => step = "clone" /\ code = 255
    BY DEF FreshRoom
  <2> QED BY <2>1, <2>2 DEF RoomInv
<1>2. RoomGone => RoomInv'
  <2>1. RoomGone => RoomTyped'
    BY DEF RoomGone, RoomTyped, Sources
  <2>2. RoomGone => step' = "clone" /\ code' = 255
    BY DEF RoomGone
  <2> QED BY <2>1, <2>2 DEF RoomInv
<1> QED BY <1>1, <1>2

\* The steps of the controller keep the room's invariant, and give a code only
\* at the end.
LEMMA RoomStep ==
  ASSUME RoomInv, RoomNext
  PROVE  RoomInv'
<1> USE DEF RoomTyped
<1>1. CASE Clone
  <2>1. attempt' \in Nat /\ canonical' \in {"empty", "partial", "cloned", "complete"}
    BY <1>1 DEF Clone, RoomInv
  <2>2. \/ step' \in {"clone", "submodules"} /\ code' = 255
        \/ step' = "exit" /\ code' = 1
    BY <1>1 DEF Clone, Proceed, Exit, RoomInv
  <2> QED BY <1>1, <2>1, <2>2 DEF Clone, RoomInv
<1>2. CASE Submodules
  <2>1. attempt' \in Nat /\ canonical' \in {"empty", "partial", "cloned", "complete"}
    BY <1>2 DEF Submodules, RoomInv
  <2>2. \/ step' = "submodules" /\ code' = 255
        \/ step' = "output" /\ code' = 255 /\ canonical' = "complete"
        \/ step' = "exit" /\ code' = 1
    BY <1>2 DEF Submodules, Proceed, Exit, RoomInv
  <2> QED BY <1>2, <2>1, <2>2 DEF Submodules, RoomInv
<1>3. CASE NewOutput
  <2>1. \/ step' = "stages" /\ code' = 255 /\ rows' = Transcript(0) /\ canonical' = "complete"
        \/ step' = "exit" /\ code' = 1
    BY <1>3, TranscriptFacts DEF NewOutput, Proceed, Exit, RoomInv
  <2>2. 0 \in 0..Len(Stages)
    BY StagesAssumption
  <2> QED BY <1>3, <2>1, <2>2 DEF NewOutput, RoomInv
<1>4. CASE RunStage
  <2>1. PICK n \in 0..Len(Stages) : rows = Transcript(n)
    BY <1>4 DEF RunStage, RoomInv
  <2>2. Len(rows) = n + 1 /\ n < Len(Stages) /\ n + 1 \in 0..Len(Stages)
    BY <1>4, <2>1, TranscriptFacts, StagesAssumption DEF RunStage
  <2>3. /\ canonical' = canonical /\ attempt' = attempt /\ report' = report /\ canonical = "complete"
        /\ source' \in Sources
        /\ snapshot' \in Sources \cup {None}
    BY <1>4 DEF RunStage, RoomInv
  <2>4. \/ step' = "stages" /\ code' = 255 /\ rows' = Append(rows, Stages[n + 1])
        \/ step' = "exit" /\ code' = 1
    BY <1>4, <2>2 DEF RunStage, Proceed, Exit, RoomInv
  <2>5. Append(rows, Stages[n + 1]) = Transcript(n + 1)
    BY <2>1, <2>2, TranscriptFacts
  <2> QED BY <2>2, <2>3, <2>4, <2>5 DEF RoomInv
<1>5. CASE WriteReport
  <2>1. PICK n \in 0..Len(Stages) : rows = Transcript(n)
    BY <1>5 DEF WriteReport, RoomInv
  <2>2. n = Len(Stages)
    BY <1>5, <2>1, TranscriptFacts, StagesAssumption DEF WriteReport
  <2>3. \/ /\ step' = "audit" /\ code' = 255 /\ report' = TRUE /\ snapshot = source
        \/ step' = "exit" /\ code' = 1 /\ report' = report
    BY <1>5 DEF WriteReport, SourceUnchanged, Proceed, Exit, RoomInv
  <2> QED BY <1>5, <2>1, <2>2, <2>3 DEF WriteReport, RoomInv
<1>6. CASE AuditSlots
  <2>1. step' = "exit" /\ code' \in {0, 1}
    BY <1>6 DEF AuditSlots, Exit
  <2> QED BY <1>6, <2>1 DEF AuditSlots, RoomInv
<1> QED BY <1>1, <1>2, <1>3, <1>4, <1>5, <1>6 DEF RoomNext

-----------------------------------------------------------------------------
(* The launcher's steps.                                                   *)

\* At first nothing was launched.
LEMMA InitInv == Init => IInv
<1> SUFFICES ASSUME Init PROVE IInv
  OBVIOUS
<1>1. RoomInv
  BY FreshRoomInv DEF Init
<1>2. Typed
  <2>1. launch \in 0..MaxLaunches /\ pc = "idle"
    BY LaunchesAssumption DEF Init
  <2>2. /\ secrets \in [Launches -> {"absent", "whole"}]
        /\ overlay \in [Launches -> {"absent", "clean", "secret"}]
        /\ root \in [RootFiles -> Int]
    BY DEF Init
  <2>3. evidence = [l \in Launches |-> evidence[l]] /\ outcome = [l \in Launches |-> outcome[l]]
    BY DEF Init
  <2>4. recorded = {} /\ record = NoRecord
    BY DEF Init
  <2>5. secretsEnv \in BOOLEAN
    BY DEF Init
  <2> QED BY <2>1, <2>2, <2>3, <2>4, <2>5 DEF Typed
<1>3. GuestInv
  BY DEF Init, GuestInv, FreshRoom
<1>4. DiskInv /\ PlaceInv /\ RecordInv /\ OutcomeInv
  BY DEF Init, DiskInv, PlaceInv, RecordInv, OutcomeInv, Absent
<1> QED BY <1>1, <1>2, <1>3, <1>4 DEF IInv

\* A step that leaves the guest's files alone.
LEMMA RoomSame == ASSUME RoomInv, UNCHANGED room PROVE RoomInv'
BY DEF RoomInv, RoomTyped, room

\* The present launch, while there is one.
LEMMA Present == ASSUME IInv, pc # "idle" PROVE launch \in Launches /\ launch \in Int
BY LaunchesAssumption DEF IInv, Typed, Launches

\* While a launch works, before its record, what it does to its own disks
\* touches no other launch, and no record or outcome is its own.
LEMMA OwnDisks ==
  ASSUME IInv, pc \notin {"summary", "handler", "idle"}, launch' = launch, recorded' = recorded,
         passed \subseteq passed',
         \A l \in Launches \ {launch} : /\ outcome'[l] = outcome[l] /\ secrets'[l] = secrets[l]
                                        /\ overlay'[l] = overlay[l] /\ evidence'[l] = evidence[l],
         outcome'[launch] \in {outcome[launch], "escaped", "killed"}
  PROVE  RecordInv' /\ OutcomeInv'
<1>1. launch \in Launches
  BY Present
<1>2. RecordInv'
  <2> SUFFICES ASSUME NEW r \in recorded
               PROVE  /\ r.launch <= launch' /\ r.launch \in passed' /\ DisksGone(r.launch)'
                      /\ r.launch = launch' => pc' \in {"summary", "handler", "idle"}
    BY DEF RecordInv
  <2>1. r.launch \in Launches /\ r.launch # launch /\ r.launch <= launch /\ r.launch \in passed /\ DisksGone(r.launch)
    BY DEF IInv, RecordInv, Typed
  <2> QED BY <2>1 DEF DisksGone
<1>3. OutcomeInv'
  <2> SUFFICES ASSUME NEW l \in Launches, outcome'[l] \in {"completed", "failed"}
               PROVE  /\ l <= launch' /\ (l = launch' => pc' = "idle")
                      /\ secrets'[l] = "absent" /\ overlay'[l] # "secret"
    BY DEF OutcomeInv
  <2>1. l # launch
    BY <1>1 DEF IInv, OutcomeInv
  <2> QED BY <2>1 DEF IInv, OutcomeInv
<1> QED BY <1>2, <1>3

\* A step that leaves all disks and records alone.
LEMMA SameDisks ==
  ASSUME IInv, launch' = launch, recorded' = recorded, passed \subseteq passed',
         UNCHANGED <<secrets, overlay, evidence>>,
         \/ pc' = pc /\ outcome' = outcome
         \/ /\ pc # "idle" /\ pc' \in {"handler", "idle"}
            /\ outcome' \in {outcome, [outcome EXCEPT ![launch] = "escaped"], [outcome EXCEPT ![launch] = "killed"]}
  PROVE  RecordInv' /\ OutcomeInv'
<1>1. RecordInv'
  <2> SUFFICES ASSUME NEW r \in recorded
               PROVE  /\ r.launch <= launch' /\ r.launch \in passed' /\ DisksGone(r.launch)'
                      /\ r.launch = launch' => pc' \in {"summary", "handler", "idle"}
    BY DEF RecordInv
  <2>1. /\ r.launch <= launch /\ r.launch \in passed /\ DisksGone(r.launch)
        /\ r.launch = launch => pc \in {"summary", "handler", "idle"}
    BY DEF IInv, RecordInv
  <2> QED BY <2>1 DEF DisksGone
<1>2. OutcomeInv'
  <2> SUFFICES ASSUME NEW l \in Launches, outcome'[l] \in {"completed", "failed"}
               PROVE  /\ l <= launch' /\ (l = launch' => pc' = "idle")
                      /\ secrets'[l] = "absent" /\ overlay'[l] # "secret"
    BY DEF OutcomeInv
  <2>1. outcome[l] = outcome'[l]
    <3>1. outcome = [k \in Launches |-> outcome[k]]
      BY DEF IInv, Typed
    <3> QED BY <3>1
  <2>2. /\ l <= launch /\ (l = launch => pc = "idle")
        /\ secrets[l] = "absent" /\ overlay[l] # "secret"
    BY <2>1 DEF IInv, OutcomeInv
  <2> QED BY <2>2
<1> QED BY <1>1, <1>2

\* A launch starts with evidence and disks of its own.
LEMMA LaunchInv == ASSUME IInv, Launch PROVE IInv'
<1>1. RoomInv'
  BY RoomSame DEF IInv, Launch
<1>2. launch \in Nat /\ launch + 1 \in Launches /\ launch' = launch + 1 /\ launch' \in Launches /\ pc = "idle"
  BY LaunchesAssumption DEF IInv, Typed, Launch, Launches
<1>3. Typed'
  <2>1. launch' \in 0..MaxLaunches
    BY <1>2 DEF Launches
  <2>2. outcome' = [l \in Launches |-> outcome'[l]]
    BY DEF IInv, Typed, Launch
  <2> QED BY <1>2, <2>1, <2>2 DEF IInv, Typed, Launch, history
<1>4. GuestInv'
  BY DEF IInv, GuestInv, Launch, GuestUp, room, history
<1>5. DiskInv' /\ PlaceInv'
  BY DEF IInv, DiskInv, PlaceInv, Launch, history
<1>6. RecordInv'
  <2> SUFFICES ASSUME NEW r \in recorded
               PROVE  /\ r.launch <= launch' /\ r.launch \in passed /\ DisksGone(r.launch)' /\ r.launch # launch'
    BY DEF RecordInv, Launch, history
  <2>1. r.launch \in Launches /\ r.launch <= launch /\ r.launch \in passed /\ DisksGone(r.launch)
    BY DEF IInv, RecordInv, Typed
  <2> QED BY <1>2, <2>1 DEF DisksGone, Launch, Launches
<1>7. OutcomeInv'
  <2> SUFFICES ASSUME NEW l \in Launches, outcome'[l] \in {"completed", "failed"}
               PROVE  /\ l <= launch' /\ l # launch'
                      /\ secrets'[l] = "absent" /\ overlay'[l] # "secret"
    BY DEF OutcomeInv
  <2>1. outcome' = [outcome EXCEPT ![launch + 1] = "running"] /\ outcome = [k \in Launches |-> outcome[k]]
    BY DEF IInv, Typed, Launch
  <2>2. l # launch + 1 /\ outcome'[l] = outcome[l]
    BY <2>1
  <2>3. l <= launch /\ secrets[l] = "absent" /\ overlay[l] # "secret"
    BY <2>2 DEF IInv, OutcomeInv
  <2> QED BY <1>2, <2>2, <2>3 DEF Launch, Launches
<1> QED BY <1>1, <1>3, <1>4, <1>5, <1>6, <1>7 DEF IInv

\* The secrets exist from here on, and the launch is under way.
LEMMA WriteSecretsInv == ASSUME IInv, WriteSecrets PROVE IInv'
<1>1. pc = "secrets" /\ launch \in Launches
  BY Present DEF WriteSecrets
<1>2. RoomInv'
  BY RoomSame DEF IInv, WriteSecrets
<1>3. pc' \in {"disks", "idle"} /\ secrets' \in {secrets, [secrets EXCEPT ![launch] = "whole"]}
      /\ outcome' \in {outcome, [outcome EXCEPT ![launch] = "escaped"]}
  BY DEF WriteSecrets, Goto, End
<1>4. Typed'
  BY <1>1, <1>3 DEF IInv, Typed, WriteSecrets, guestVars, history
<1>5. GuestInv'
  BY <1>1, <1>3 DEF IInv, GuestInv, WriteSecrets, GuestUp, room, guestVars, history
<1>6. DiskInv' /\ PlaceInv'
  BY <1>3 DEF IInv, DiskInv, PlaceInv, WriteSecrets, history
<1>7. RecordInv' /\ OutcomeInv'
  <2>1. secrets = [l \in Launches |-> secrets[l]] /\ outcome = [l \in Launches |-> outcome[l]]
    BY DEF IInv, Typed
  <2>2. /\ \A l \in Launches \ {launch} : outcome'[l] = outcome[l] /\ secrets'[l] = secrets[l]
        /\ outcome'[launch] \in {outcome[launch], "escaped"}
    BY <1>1, <1>3, <2>1
  <2> QED BY <1>1, <2>2, OwnDisks DEF WriteSecrets, history
<1> QED BY <1>2, <1>4, <1>5, <1>6, <1>7 DEF IInv

\* Both disks are created, empty of evidence.
LEMMA CreateDisksInv == ASSUME IInv, CreateDisks PROVE IInv'
<1>1. pc = "disks" /\ launch \in Launches
  BY Present DEF CreateDisks
<1>2. RoomInv'
  BY RoomSame DEF IInv, CreateDisks
<1>3. pc' \in {"qemu", "handler"} /\ overlay' = [overlay EXCEPT ![launch] = "clean"] /\ outcome' = outcome
  BY DEF CreateDisks, Goto
<1>4. /\ \A l \in Launches \ {launch} : evidence'[l] = evidence[l] /\ overlay'[l] = overlay[l]
      /\ evidence' = [l \in Launches |-> evidence'[l]]
      /\ \/ evidence'[launch] = Disk(<< >>, FALSE, 255) /\ pc' = "qemu"
         \/ evidence' = evidence /\ pc' = "handler"
  BY <1>1 DEF CreateDisks, Goto, IInv, Typed
<1>5. Typed'
  BY <1>1, <1>3, <1>4 DEF IInv, Typed, CreateDisks, history
<1>6. GuestInv'
  <2>1. code' = 255
    BY <1>1 DEF IInv, GuestInv, GuestUp, CreateDisks, room
  <2>2. guest' # "archiving" \/ (guest' = guest /\ secretsEnv' = secretsEnv)
    BY DEF CreateDisks
  <2> QED BY <2>1, <2>2 DEF IInv, GuestInv, CreateDisks
<1>7. DiskInv'
  BY <1>1, <1>4 DEF IInv, DiskInv, CreateDisks, history, Disk
<1>8. PlaceInv'
  <2>1. launch' = launch /\ pc' \in {"qemu", "handler"}
    BY <1>3 DEF CreateDisks
  <2>2. pc' = "qemu" => evidence'[launch].present
    BY <1>4 DEF Disk
  <2> QED BY <2>1, <2>2 DEF PlaceInv
<1>9. RecordInv' /\ OutcomeInv'
  BY <1>1, <1>3, <1>4, OwnDisks DEF CreateDisks, history
<1> QED BY <1>2, <1>5, <1>6, <1>7, <1>8, <1>9 DEF IInv

\* A step of the guest alone: the launcher waits for qemu.
LEMMA GuestSteps ==
  ASSUME IInv, UNCHANGED hostVars, passed \subseteq passed', UNCHANGED <<archived, recorded, restores>>
  PROVE  DiskInv' /\ PlaceInv' /\ RecordInv' /\ OutcomeInv'
<1>1. DiskInv'
  BY DEF IInv, DiskInv, hostVars
<1>2. PlaceInv'
  BY DEF IInv, PlaceInv, hostVars
<1>3. RecordInv' /\ OutcomeInv'
  BY SameDisks DEF hostVars
<1> QED BY <1>1, <1>2, <1>3

\* The guest reads its secrets before the controller starts.
LEMMA ReadSecretsInv == ASSUME IInv, ReadSecrets PROVE IInv'
<1>1. pc = "qemu" /\ launch \in Launches
  BY Present DEF ReadSecrets, GuestUp
<1>2. RoomInv'
  BY RoomSame DEF IInv, ReadSecrets
<1>3. Typed'
  BY <1>1 DEF IInv, Typed, ReadSecrets, history
<1>4. GuestInv'
  BY <1>1 DEF IInv, GuestInv, ReadSecrets, GuestUp, room, history
<1>5. DiskInv' /\ PlaceInv'
  BY <1>1 DEF IInv, DiskInv, PlaceInv, ReadSecrets, history
<1>6. RecordInv' /\ OutcomeInv'
  <2>1. \A l \in Launches \ {launch} : overlay'[l] = overlay[l]
    BY DEF ReadSecrets, IInv, Typed
  <2> QED BY <1>1, <2>1, OwnDisks DEF ReadSecrets, history
<1> QED BY <1>2, <1>3, <1>4, <1>5, <1>6 DEF IInv

\* One step of the controller moves the room and nothing of the host.
LEMMA ControllerInv == ASSUME IInv, Controller PROVE IInv'
<1>1. RoomInv'
  BY RoomStep DEF IInv, Controller
<1>2. Typed'
  BY DEF IInv, Typed, Controller, hostVars, guestVars
<1>3. GuestInv'
  BY DEF IInv, GuestInv, Controller, GuestUp, hostVars, guestVars
<1>4. passed \subseteq passed'
  BY DEF Controller
<1> QED BY <1>1, <1>2, <1>3, <1>4, GuestSteps DEF IInv, Controller

\* The guest script has the exit code of its controller.
LEMMA FinishInv == ASSUME IInv, Finish PROVE IInv'
<1>1. RoomInv'
  BY RoomSame DEF IInv, Finish
<1>2. Typed'
  BY DEF IInv, Typed, Finish, hostVars, history, RemoveSecrets
<1>3. GuestInv'
  BY DEF IInv, GuestInv, Finish, GuestUp, hostVars, history, room, RemoveSecrets
<1> QED BY <1>1, <1>2, <1>3, GuestSteps DEF IInv, Finish, history

\* One more member of this launch on the evidence disk.
LEMMA ArchiveMemberInv == ASSUME IInv, ArchiveMember PROVE IInv'
<1>1. pc = "qemu" /\ guest = "archiving" /\ launch \in Launches
  BY Present DEF ArchiveMember, GuestUp
<1>2. RoomInv'
  BY RoomSame DEF IInv, ArchiveMember
<1>3. PICK members : evidence' = [evidence EXCEPT ![launch] = Disk(members, secretsEnv, code)]
  BY DEF ArchiveMember
<1>4. /\ evidence' = [l \in Launches |-> evidence'[l]]
      /\ \A l \in Launches \ {launch} : evidence'[l] = evidence[l]
      /\ evidence'[launch] = Disk(members, secretsEnv, code)
  BY <1>1, <1>3 DEF IInv, Typed
<1>5. Typed'
  BY <1>4 DEF IInv, Typed, ArchiveMember, guestVars
<1>6. GuestInv'
  BY <1>1 DEF IInv, GuestInv, ArchiveMember, GuestUp, room, guestVars
<1>7. /\ evidence'[launch].present /\ (evidence'[launch].secret <=> secretsEnv)
      /\ evidence'[launch].exit = code
  BY <1>4 DEF Disk
<1>8. DiskInv'
  BY <1>1, <1>4, <1>7 DEF IInv, DiskInv, GuestInv, ArchiveMember
<1>9. PlaceInv'
  BY <1>1, <1>7 DEF PlaceInv, ArchiveMember
<1>10. RecordInv' /\ OutcomeInv'
  BY <1>1, <1>4, OwnDisks DEF ArchiveMember
<1> QED BY <1>2, <1>5, <1>6, <1>8, <1>9, <1>10 DEF IInv

\* The guest is gone; what it wrote remains.
LEMMA QemuExitsInv == ASSUME IInv, QemuExits PROVE IInv'
<1>1. RoomInv'
  BY FreshRoomInv DEF QemuExits, GuestGone
<1>2. Typed'
  BY DEF IInv, Typed, QemuExits, hostVars, history, GuestGone
<1>3. GuestInv'
  BY DEF GuestInv, QemuExits, GuestGone, RoomGone
<1> QED BY <1>1, <1>2, <1>3, GuestSteps DEF IInv, QemuExits, history

\* A step of launch after qemu, that leaves the guest and the history alone.
LEMMA AfterQemu ==
  ASSUME IInv, UNCHANGED <<room, guestVars, launch, passed>>, pc # "idle" /\ (pc = "qemu" => qemu # NoCode),
         pc' # "qemu"
  PROVE  RoomInv' /\ GuestInv'
<1>1. RoomInv'
  BY RoomSame DEF IInv
<1>2. code = 255
  BY DEF IInv, GuestInv, GuestUp
<1> QED BY <1>1, <1>2 DEF IInv, GuestInv, room, guestVars

\* From here on the secrets are gone.
LEMMA DestroySecretsInv == ASSUME IInv, DestroySecrets PROVE IInv'
<1>1. pc = "qemu" /\ qemu # NoCode /\ launch \in Launches /\ pc' \in {"inventory", "handler"} /\ outcome' = outcome
  BY Present DEF DestroySecrets, Goto
<1>2. RoomInv' /\ GuestInv'
  BY <1>1, AfterQemu DEF DestroySecrets, history
<1>3. secrets' \in [Launches -> {"absent", "whole"}] /\ secrets'[launch] = "absent"
      /\ \A l \in Launches \ {launch} : secrets'[l] = secrets[l]
  BY <1>1 DEF DestroySecrets, IInv, Typed
<1>4. Typed'
  BY <1>1, <1>3 DEF IInv, Typed, DestroySecrets, guestVars, history
<1>5. DiskInv' /\ PlaceInv'
  BY <1>1, <1>3 DEF IInv, DiskInv, PlaceInv, DestroySecrets, history
<1>6. RecordInv' /\ OutcomeInv'
  BY <1>1, <1>3, OwnDisks DEF DestroySecrets, history
<1> QED BY <1>2, <1>4, <1>5, <1>6 DEF IInv

\* The inventory of the evidence disk is of this launch.
LEMMA InventoryInv == ASSUME IInv, Inventory PROVE IInv'
<1>1. pc = "inventory" /\ launch \in Launches /\ pc' \in {"extract", "handler"} /\ outcome' = outcome
  BY Present DEF Inventory, Goto
<1>2. RoomInv' /\ GuestInv'
  BY <1>1, AfterQemu DEF Inventory, history
<1>3. Typed'
  BY <1>1 DEF IInv, Typed, Inventory, guestVars, history
<1>4. DiskInv' /\ PlaceInv'
  BY <1>1 DEF IInv, DiskInv, PlaceInv, Inventory, history
<1>5. RecordInv' /\ OutcomeInv'
  BY <1>1, OwnDisks DEF Inventory, history
<1> QED BY <1>2, <1>3, <1>4, <1>5 DEF IInv

\* What is extracted is what the guest of this launch wrote.
LEMMA ExtractInv == ASSUME IInv, Extract PROVE IInv'
<1>1. pc = "extract" /\ launch \in Launches /\ pc' \in {"extract", "exit-code", "handler"} /\ outcome' = outcome
  BY Present DEF Extract, Goto
<1>2. RoomInv' /\ GuestInv'
  BY <1>1, AfterQemu DEF Extract, history
<1>3. root' \in [RootFiles -> Int]
  <2>1. \/ root' = root
        \/ \E f : root' = [root EXCEPT ![f] = launch] \/ root' = [root EXCEPT ![f] = Torn]
    BY DEF Extract
  <2>2. launch \in Int /\ Torn \in Int
    BY <1>1 DEF Launches, Torn
  <2> QED BY <2>1, <2>2 DEF IInv, Typed
<1>4. Typed'
  BY <1>1, <1>3 DEF IInv, Typed, Extract, guestVars, history
<1>5. DiskInv' /\ PlaceInv'
  BY <1>1 DEF IInv, DiskInv, PlaceInv, Extract, history
<1>6. RecordInv' /\ OutcomeInv'
  BY <1>1, OwnDisks DEF Extract, history
<1> QED BY <1>2, <1>4, <1>5, <1>6 DEF IInv

\* Only the exit code of a passed controller goes on.
LEMMA CheckExitCodeInv == ASSUME IInv, CheckExitCode PROVE IInv'
<1>1. /\ pc = "exit-code" /\ launch \in Launches /\ outcome' = outcome
      /\ pc' = "handler" \/ (pc' = "destroy" /\ evidence[launch].exit = 0)
  BY Present DEF CheckExitCode, Goto, GuestSucceeded
<1>2. RoomInv' /\ GuestInv'
  BY <1>1, AfterQemu DEF CheckExitCode, history
<1>3. Typed'
  BY <1>1 DEF IInv, Typed, CheckExitCode, guestVars, history
<1>4. DiskInv' /\ PlaceInv'
  BY <1>1 DEF IInv, DiskInv, PlaceInv, CheckExitCode, history
<1>5. RecordInv' /\ OutcomeInv'
  BY <1>1, OwnDisks DEF CheckExitCode, history
<1> QED BY <1>2, <1>3, <1>4, <1>5 DEF IInv

\* The disks go before the record is built.
LEMMA DestroyDisksInv == ASSUME IInv, DestroyDisks PROVE IInv'
<1>1. pc = "destroy" /\ launch \in Launches /\ outcome' = outcome
  BY Present DEF DestroyDisks, Goto
<1>2. /\ \A l \in Launches \ {launch} : evidence'[l] = evidence[l] /\ overlay'[l] = overlay[l]
      /\ evidence' = [l \in Launches |-> evidence'[l]]
      /\ overlay' \in [Launches -> {"absent", "clean", "secret"}] /\ overlay'[launch] = "absent"
      /\ \/ evidence'[launch] = Absent /\ pc' = "record"
         \/ evidence' = evidence /\ pc' = "handler"
  BY <1>1 DEF DestroyDisks, EvidenceDestroyed, Goto, IInv, Typed
<1>3. RoomInv' /\ GuestInv'
  BY <1>1, <1>2, AfterQemu DEF DestroyDisks, history
<1>4. Typed'
  BY <1>1, <1>2 DEF IInv, Typed, DestroyDisks, guestVars, history
<1>5. DiskInv' /\ PlaceInv'
  <2>1. ~ Absent.present /\ passed' = passed /\ secrets' = secrets /\ launch' = launch
    BY DEF Absent, DestroyDisks, history
  <2>2. DiskInv'
    BY <1>1, <1>2, <2>1 DEF IInv, DiskInv
  <2>3. PlaceInv'
    BY <1>1, <1>2, <2>1 DEF IInv, PlaceInv
  <2> QED BY <2>2, <2>3
<1>6. RecordInv' /\ OutcomeInv'
  BY <1>1, <1>2, OwnDisks DEF DestroyDisks, history
<1> QED BY <1>3, <1>4, <1>5, <1>6 DEF IInv

\* The record is of this launch and of the files it extracted.
LEMMA BuildRecordInv == ASSUME IInv, BuildRecord PROVE IInv'
<1>1. pc = "record" /\ launch \in Launches /\ pc' = "write record" /\ outcome' = outcome
  BY Present DEF BuildRecord, Goto
<1>2. RoomInv' /\ GuestInv'
  BY <1>1, AfterQemu DEF BuildRecord, history
<1>3. Typed'
  BY <1>1 DEF IInv, Typed, BuildRecord, guestVars, history
<1>4. DiskInv' /\ PlaceInv'
  BY <1>1 DEF IInv, DiskInv, PlaceInv, BuildRecord, history
<1>5. RecordInv' /\ OutcomeInv'
  BY <1>1, OwnDisks DEF BuildRecord, history
<1> QED BY <1>2, <1>3, <1>4, <1>5 DEF IInv

\* Written exclusively: where a record is, none is replaced.
LEMMA WriteRecordInv == ASSUME IInv, WriteRecord PROVE IInv'
<1>1. pc = "write record" /\ launch \in Launches /\ outcome' = outcome /\ pc' \in {"summary", "handler"}
  BY Present DEF WriteRecord, Goto
<1>2. RoomInv' /\ GuestInv'
  BY <1>1, AfterQemu DEF WriteRecord
<1> DEFINE new == [launch |-> launch, report |-> root["report"]]
<1>3. new \in [launch : Launches, report : Int] /\ new.launch = launch
  <2>1. "report" \in RootFiles
    BY ArchiveAssumption DEF RootFiles, Members
  <2> QED BY <1>1, <2>1 DEF IInv, Typed
<1>4. \/ record' = new /\ recorded' = recorded \cup {new}
      \/ record' = TornRecord /\ recorded' = recorded
  BY DEF WriteRecord
<1>5. \/ pc' = "summary" \/ pc' = "handler"
  BY <1>1
<1> HIDE DEF new
<1>6. recorded' \subseteq [launch : Launches, report : Int] /\ record' \in recorded' \cup {NoRecord, TornRecord}
  BY <1>3, <1>4 DEF IInv, Typed
<1>7. Typed'
  BY <1>1, <1>6 DEF IInv, Typed, WriteRecord, guestVars
<1>8. DiskInv' /\ PlaceInv'
  BY <1>1 DEF IInv, DiskInv, PlaceInv, WriteRecord
<1>9. RecordInv'
  <2> SUFFICES ASSUME NEW r \in recorded'
               PROVE  /\ r.launch <= launch /\ r.launch \in passed /\ DisksGone(r.launch)'
    BY <1>1 DEF RecordInv, WriteRecord
  <2>1. CASE r = new
    <3>1. launch \in passed /\ DisksGone(launch)
      BY <1>1 DEF IInv, PlaceInv, DisksGone
    <3>2. r.launch = launch
      BY <1>3, <2>1, Zenon
    <3>4. launch <= launch
      <4>1. launch \in Int
        BY Present DEF WriteRecord
      <4> QED BY <4>1
    <3>3. /\ secrets'[r.launch] = "absent" /\ overlay'[r.launch] = "absent"
          /\ ~ evidence'[r.launch].present
      BY <3>1, <3>2 DEF DisksGone, WriteRecord
    <3> QED BY <3>1, <3>2, <3>3, <3>4 DEF DisksGone
  <2>2. CASE r \in recorded
    <3>1. r.launch <= launch /\ r.launch \in passed /\ DisksGone(r.launch)
      BY <2>2 DEF IInv, RecordInv
    <3> QED BY <3>1 DEF DisksGone, WriteRecord
  <2> QED BY <1>4, <2>1, <2>2
<1>10. OutcomeInv'
  <2> SUFFICES ASSUME NEW l \in Launches, outcome[l] \in {"completed", "failed"}
               PROVE  /\ l <= launch /\ (l = launch => pc' = "idle")
                      /\ secrets[l] = "absent" /\ overlay[l] # "secret"
    BY <1>1 DEF OutcomeInv, WriteRecord
  <2> QED BY <1>1 DEF IInv, OutcomeInv
<1> QED BY <1>2, <1>7, <1>8, <1>9, <1>10 DEF IInv

\* What the last statements of a launch leave is final.
LEMMA LastDisks ==
  ASSUME IInv, pc \in {"summary", "handler"}, launch' = launch, recorded' = recorded, passed' = passed,
         pc' \in {"handler", "idle"}, evidence' = evidence,
         \A l \in Launches \ {launch} : outcome'[l] = outcome[l] /\ secrets'[l] = secrets[l] /\ overlay'[l] = overlay[l],
         secrets'[launch] \in {secrets[launch], "absent"}, overlay'[launch] \in {overlay[launch], "absent"},
         outcome'[launch] \in {"completed", "failed"} =>
           pc' = "idle" /\ secrets'[launch] = "absent" /\ overlay'[launch] # "secret"
  PROVE  RecordInv' /\ OutcomeInv'
<1>1. launch \in Launches /\ launch <= launch
  BY Present
<1>2. RecordInv'
  <2> SUFFICES ASSUME NEW r \in recorded
               PROVE  /\ r.launch <= launch /\ r.launch \in passed /\ DisksGone(r.launch)'
    BY DEF RecordInv
  <2>1. r.launch \in Launches /\ r.launch <= launch /\ r.launch \in passed /\ DisksGone(r.launch)
    BY DEF IInv, RecordInv, Typed
  <2>2. secrets'[r.launch] = "absent" /\ overlay'[r.launch] = "absent"
    BY <2>1 DEF DisksGone
  <2> QED BY <2>1, <2>2 DEF DisksGone
<1>3. OutcomeInv'
  <2> SUFFICES ASSUME NEW l \in Launches, outcome'[l] \in {"completed", "failed"}
               PROVE  /\ l <= launch /\ (l = launch => pc' = "idle")
                      /\ secrets'[l] = "absent" /\ overlay'[l] # "secret"
    BY DEF OutcomeInv
  <2> QED BY <1>1 DEF IInv, OutcomeInv
<1> QED BY <1>2, <1>3

\* The summary ends the launch as passed.
LEMMA WriteSummaryInv == ASSUME IInv, WriteSummary PROVE IInv'
<1>1. /\ pc = "summary" /\ launch \in Launches /\ pc' \in {"handler", "idle"}
      /\ \/ outcome' = [outcome EXCEPT ![launch] = "completed"] /\ pc' = "idle"
         \/ outcome' = outcome
  BY Present DEF WriteSummary, Goto, End
<1>2. RoomInv' /\ GuestInv'
  BY <1>1, AfterQemu DEF WriteSummary, history
<1>3. outcome = [l \in Launches |-> outcome[l]]
  BY DEF IInv, Typed
<1>4. Typed'
  <2>1. outcome' = [l \in Launches |-> outcome'[l]]
    BY <1>1, <1>3
  <2> QED BY <1>1, <2>1 DEF IInv, Typed, WriteSummary, guestVars, history
<1>5. DiskInv' /\ PlaceInv'
  BY <1>1 DEF IInv, DiskInv, PlaceInv, WriteSummary, history
<1>6. RecordInv' /\ OutcomeInv'
  <2>1. secrets[launch] = "absent" /\ overlay[launch] = "absent"
    BY <1>1 DEF IInv, PlaceInv
  <2>2. outcome[launch] \notin {"completed", "failed"}
    BY <1>1 DEF IInv, OutcomeInv
  <2>3. /\ \A l \in Launches \ {launch} : outcome'[l] = outcome[l]
        /\ outcome'[launch] = outcome[launch] \/ pc' = "idle"
    BY <1>1, <1>3
  <2> QED BY <1>1, <2>1, <2>2, <2>3, LastDisks DEF WriteSummary, history
<1> QED BY <1>2, <1>4, <1>5, <1>6 DEF IInv

\* The handler removes the disks and the secrets, whatever failed.
LEMMA HandlerInv == ASSUME IInv, Handler PROVE IInv'
<1>1. /\ pc = "handler" /\ launch \in Launches /\ pc' = "idle"
      /\ \/ /\ secrets' = [secrets EXCEPT ![launch] = "absent"]
            /\ overlay' = [overlay EXCEPT ![launch] = "absent"]
            /\ outcome' \in {[outcome EXCEPT ![launch] = "failed"], [outcome EXCEPT ![launch] = "escaped"]}
         \/ /\ secrets' \in {secrets, [secrets EXCEPT ![launch] = "absent"]}
            /\ overlay' = overlay
            /\ outcome' = [outcome EXCEPT ![launch] = "escaped"]
  BY Present DEF Handler, End
<1>2. RoomInv' /\ GuestInv'
  BY <1>1, AfterQemu DEF Handler, history
<1>3. /\ outcome = [l \in Launches |-> outcome[l]]
      /\ secrets \in [Launches -> {"absent", "whole"}]
      /\ overlay \in [Launches -> {"absent", "clean", "secret"}]
  BY DEF IInv, Typed
<1>4. Typed'
  <2>1. /\ outcome' = [l \in Launches |-> outcome'[l]]
        /\ secrets' \in [Launches -> {"absent", "whole"}]
        /\ overlay' \in [Launches -> {"absent", "clean", "secret"}]
    BY <1>1, <1>3
  <2> QED BY <1>1, <2>1 DEF IInv, Typed, Handler, guestVars, history
<1>5. DiskInv' /\ PlaceInv'
  BY <1>1 DEF IInv, DiskInv, PlaceInv, Handler, history
<1>6. RecordInv' /\ OutcomeInv'
  <2>1. /\ \A l \in Launches \ {launch} : outcome'[l] = outcome[l] /\ secrets'[l] = secrets[l] /\ overlay'[l] = overlay[l]
        /\ secrets'[launch] \in {secrets[launch], "absent"} /\ overlay'[launch] \in {overlay[launch], "absent"}
        /\ outcome'[launch] \in {"completed", "failed"} => secrets'[launch] = "absent" /\ overlay'[launch] = "absent"
    BY <1>1, <1>3
  <2> QED BY <1>1, <2>1, LastDisks DEF Handler, history
<1> QED BY <1>2, <1>4, <1>5, <1>6 DEF IInv

\* A failure goes to the handler; a kill leaves what there is.
LEMMA ExceptionInv == ASSUME IInv, Exception \/ Crash PROVE IInv'
<1>1. /\ pc # "idle" /\ launch \in Launches /\ pc' \in {"handler", "idle"}
      /\ outcome' \in {outcome, [outcome EXCEPT ![launch] = "killed"]}
      /\ GuestGone
      /\ UNCHANGED <<qemu, history, launch, secrets, overlay, evidence, summary, status, root, record>>
  BY Present DEF Exception, Crash, Goto, End
<1>2. RoomInv'
  BY <1>1, FreshRoomInv DEF GuestGone
<1>3. Typed'
  <2>1. outcome' = [l \in Launches |-> outcome'[l]]
    BY <1>1 DEF IInv, Typed
  <2> QED BY <1>1, <2>1 DEF IInv, Typed, GuestGone, history
<1>4. GuestInv'
  BY <1>1 DEF GuestInv, GuestGone, RoomGone
<1>5. DiskInv' /\ PlaceInv'
  BY <1>1 DEF IInv, DiskInv, PlaceInv, history
<1>6. RecordInv' /\ OutcomeInv'
  BY <1>1, SameDisks DEF history
<1> QED BY <1>2, <1>3, <1>4, <1>5, <1>6 DEF IInv

\* People move whole files, so each part still comes from one launch.
LEMMA MovesInv == ASSUME IInv, FreshRoot \/ MoveEvidence \/ MoveRecord PROVE IInv'
<1>1. /\ UNCHANGED <<room, guestVars, launch, pc, secrets, overlay, evidence, outcome, passed, recorded>>
  BY DEF FreshRoot, MoveEvidence, MoveRecord, history
<1>2. RoomInv'
  BY <1>1, RoomSame DEF IInv
<1>3. root' \in [RootFiles -> Int]
  <2>1. \A l \in {0} \cup Launches : l \in Int
    BY DEF Launches
  <2>2. CASE MoveEvidence
    BY <2>1, <2>2 DEF MoveEvidence, IInv, Typed
  <2>3. CASE FreshRoot \/ MoveRecord
    BY <2>3 DEF FreshRoot, MoveRecord, IInv, Typed
  <2> QED BY <2>2, <2>3
<1>4. record' \in recorded \cup {NoRecord, TornRecord}
  BY DEF FreshRoot, MoveEvidence, MoveRecord, IInv, Typed
<1>5. Typed'
  BY <1>1, <1>3, <1>4 DEF IInv, Typed, guestVars
<1>6. GuestInv'
  BY <1>1 DEF IInv, GuestInv, GuestUp, guestVars, room
<1>7. DiskInv' /\ PlaceInv'
  BY <1>1 DEF IInv, DiskInv, PlaceInv
<1>8. RecordInv' /\ OutcomeInv'
  BY <1>1, SameDisks
<1> QED BY <1>2, <1>5, <1>6, <1>7, <1>8 DEF IInv

\* Every step keeps the invariant.
LEMMA IInvStep == ASSUME IInv, [Next]_vars PROVE IInv'
<1>1. CASE UNCHANGED vars
  <2>1. RoomInv'
    BY <1>1, RoomSame DEF IInv, vars
  <2>2. Typed' /\ GuestInv'
    BY <1>1 DEF IInv, Typed, GuestInv, GuestUp, vars, room, hostVars, guestVars, history
  <2> QED BY <1>1, <2>1, <2>2, GuestSteps DEF IInv, vars, history
<1> QED BY <1>1, LaunchInv, WriteSecretsInv, CreateDisksInv, ReadSecretsInv, ControllerInv, FinishInv,
        ArchiveMemberInv, QemuExitsInv, DestroySecretsInv, InventoryInv, ExtractInv, CheckExitCodeInv,
        DestroyDisksInv, BuildRecordInv, WriteRecordInv, WriteSummaryInv, ExceptionInv, HandlerInv, MovesInv
        DEF Next

-----------------------------------------------------------------------------
(* Theorems.                                                               *)

\* The invariant holds throughout every run of the launcher and its guests.
THEOREM Invariant == Spec => []IInv
BY InitInv, IInvStep, PTL DEF Spec

\* The controller returns 0 only when it has run every stage of the policy, of a
\* whole checkout, with the source of its snapshot (public_run in clean_room.py).
THEOREM PassedIsComplete == Spec => []PassedRunIsComplete
<1>1. IInv => PassedRunIsComplete
  BY TranscriptFacts DEF IInv, RoomInv, PassedRunIsComplete
<1> QED BY <1>1, Invariant, PTL

\* What the audit verifies is the evidence of one launch, whose controller passed,
\* however files were moved between checkouts and whatever failed (the extraction
\* in ephemeral_vm.py with the checks of audit_release.py).
THEOREM VerifiedIsOneRun == Spec => []VerifiedRoomIsOneRun
<1>1. IInv => VerifiedRoomIsOneRun
  <2> SUFFICES ASSUME IInv, Verified
               PROVE  record.launch \in passed /\ \A f \in RootFiles : root[f] = record.launch
    BY DEF VerifiedRoomIsOneRun
  <2>1. /\ root["report"] > 0 /\ record.launch = root["report"]
        /\ \A f \in RootFiles \ {"report"} : root[f] = root["report"]
    BY DEF Verified, LogsAreTheReports, RecordIsTheReports, Logs
  <2>2. record \in recorded
    <3>1. NoRecord.launch = 0 /\ TornRecord.launch = -1
      BY DEF NoRecord, TornRecord, Torn
    <3>2. record.launch # 0 /\ record.launch # -1
      BY <2>1
    <3> QED BY <3>1, <3>2 DEF IInv, Typed
  <2>3. record.launch \in passed
    BY <2>2 DEF IInv, RecordInv
  <2> QED BY <2>1, <2>3
<1> QED BY <1>1, Invariant, PTL

\* The secrets disk, the overlay and the evidence disk of a launch are gone
\* before its provenance record is written, and stay gone (launch in
\* ephemeral_vm.py).
THEOREM DisksAreGone == Spec => []DisksAreGoneBeforeTheRecord
<1>1. IInv => DisksAreGoneBeforeTheRecord
  BY DEF IInv, RecordInv, DisksAreGoneBeforeTheRecord, DisksGone
<1> QED BY <1>1, Invariant, PTL

\* A launch that completed, or failed and handled it, leaves no file with the
\* secrets on the host (the except branch of launch, and the guest's trap).
THEOREM NoSecretsAreLeft == Spec => []SecretsLeaveNoTrace
<1>1. IInv => SecretsLeaveNoTrace
  BY DEF IInv, OutcomeInv, DiskInv, SecretsLeaveNoTrace
<1> QED BY <1>1, Invariant, PTL

\* No launch writes over a file of the evidence root, though others may put one
\* there after the inventory (extract_evidence creates every file exclusively).
THEOREM NoEvidenceIsOverwritten == Spec => NothingIsOverwritten
<1>1. ASSUME IInv, [Next]_vars
      PROVE  [FreshRoot \/ MoveEvidence \/ \A f \in RootFiles : root'[f] # root[f] => root[f] = 0]_vars
  <2>1. CASE Extract
    <3>1. \/ root' = root
          \/ \E f : Vacant(f) /\ (root' = [root EXCEPT ![f] = launch] \/ root' = [root EXCEPT ![f] = Torn])
      BY <2>1 DEF Extract
    <3> QED BY <1>1, <3>1 DEF Vacant, IInv, Typed
  <2>2. CASE FreshRoot \/ MoveEvidence \/ UNCHANGED vars
    BY <2>2
  <2>3. CASE ~ (Extract \/ FreshRoot \/ MoveEvidence \/ UNCHANGED vars)
    <3>1. root' = root
      BY <1>1, <2>3 DEF Next, Launch, WriteSecrets, CreateDisks, ReadSecrets, Controller, Finish, ArchiveMember,
         QemuExits, DestroySecrets, Inventory, CheckExitCode, DestroyDisks, BuildRecord, WriteRecord,
         WriteSummary, Exception, Handler, Crash, MoveRecord, hostVars
    <3> QED BY <3>1
  <2> QED BY <2>1, <2>2, <2>3
<1> QED BY <1>1, Invariant, PTL DEF Spec, NothingIsOverwritten
=============================================================================
