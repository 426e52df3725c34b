-------------------------- MODULE ProofGateProofs --------------------------
(***************************************************************************)
(* Proofs about ProofGate and the RustPair in it, for any runs, stages,    *)
(* versions and numbers of edits and kills: the evidence beside a passed   *)
(* report is of one run, the pair it names and the pair it built from are  *)
(* each one extraction, what it built is what the policy approves, and an  *)
(* installation that failed has put back what it found.                    *)
(*                                                                         *)
(* Three arguments carry it.  Nobody but an orphan of a killed gate acts   *)
(* beside the gate that holds the lock.  A file of the pair that was saved *)
(* and put back, or installed and withdrawn, lies on a stack: what has     *)
(* left it never comes back.  And a comparison that misses a change needs  *)
(* another change before the next comparison: the edits are counted.       *)
(***************************************************************************)
EXTENDS ProofGate, TLAPS

Maker == Run \cup {Found}
MaybeMaker == Maker \cup {None}
MaybeVersion == Version \cup {None}
Pair == [Name -> MaybeMaker]
Flag == {"saved", "installed"} \X Name

GenPlaces == GenPlace \cup GenEnd
GenRecord ==
  [pc : GenPlaces, policy : MaybeVersion, seen : Report \cup {None}, saved : Pair,
   done : SUBSET Flag, found : Pair]

\* The places of a gate once the checkout was held against the policy, and all
\* places at which it is at work.
Staged == {"stage", "wait", "generated", "audit", "validate", "sources", "models", "last"}
Working == {"policy", "hash", "evidence"} \cup Staged
GatePlaces == {"idle"} \cup Working \cup Ended
GateRecord ==
  [pc : GatePlaces, policy : MaybeVersion, sha : MaybeVersion, stage : Nat,
   generated : Pair, public : MaybeVersion]

\* The places of a clean build that has begun, has copied, and has rechecked.
Begun == {"copy", "recheck", "compare", "passed"}
Copied == {"recheck", "compare", "passed"}
Rechecked == {"compare", "passed"}
CleanRecord ==
  [pc : {"idle", "begin"} \cup Begun, policy : MaybeVersion, sha : MaybeVersion, generated : Pair,
   sources : MaybeVersion, model : MaybeMaker]
ReportRecord ==
  [run : Run \cup {None}, status : {"none", "running", "passed", "failed"}, policy : MaybeVersion,
   sources : MaybeVersion, generated : Pair, clean : CleanRecord]

PairTyped ==
  /\ input \in [Input -> Version] /\ policy \in Version
  /\ pair \in Pair
  /\ extraction \in [Maker -> Report \cup {None}]
  /\ genLock \in Run \cup {None}
  /\ gen \in [Run -> GenRecord]

GateTyped ==
  /\ lock \in Run \cup {None}
  /\ gate \in [Run -> GateRecord]
  /\ child \in [Run -> StageNames \cup {None}]
  /\ clean \in [Run -> CleanRecord]
  /\ logs \in [StageNames -> SUBSET Run]
  /\ audit \in Run \cup {None}
  /\ report \in ReportRecord
  /\ edits \in Nat /\ kills \in Nat

Typed == PairTyped /\ GateTyped

-----------------------------------------------------------------------------
(* The pair.                                                               *)

\* The generator that holds the lock, and the one whose names may have moved.
Holding == {"extract", "extracting", "provenance", "undo"} \cup Installing
Moving == Installing \cup {"undo"}

\* What is under a name while r installs or undoes: what r put there, nothing
\* while the old file is saved, or else what r found.
NameInv(r, n) ==
  /\ pair[n] = IF <<"installed", n>> \in gen[r].done THEN r
               ELSE IF <<"saved", n>> \in gen[r].done THEN None ELSE gen[r].found[n]
  /\ <<"saved", n>> \in gen[r].done => gen[r].saved[n] = gen[r].found[n] /\ gen[r].found[n] # None
  /\ <<"installed", n>> \in gen[r].done /\ <<"saved", n>> \notin gen[r].done => gen[r].found[n] = None

\* What has been done before each statement of install.
InstallInv(r) ==
  /\ gen[r].pc = "save model" => gen[r].done = {}
  /\ gen[r].pc = "save llbc" => gen[r].done \subseteq {<<"saved", "model">>}
  /\ gen[r].pc = "install model" => gen[r].done \subseteq {<<"saved", "model">>, <<"saved", "llbc">>}
  /\ gen[r].pc = "install llbc" => <<"installed", "llbc">> \notin gen[r].done
  /\ gen[r].pc \in {"save llbc", "install model"} =>
       <<"saved", "model">> \in gen[r].done \/ gen[r].found["model"] = None
  /\ gen[r].pc \in {"install model", "install llbc"} =>
       <<"saved", "llbc">> \in gen[r].done \/ gen[r].found["llbc"] = None

GenInv ==
  \A r \in Run :
    /\ gen[r].pc \in Holding => genLock = r
    /\ gen[r].pc \notin Moving => gen[r].done = {}
    /\ gen[r].pc \in Moving => NameInv(r, "model") /\ NameInv(r, "llbc") /\ InstallInv(r)

\* A run that has not installed its model yet, and an extraction that is complete.
NotYet == {"idle", "begin", "lock", "extract", "extracting", "provenance", "save model", "save llbc",
           "install model"}
Seen(x) == x \in Maker /\ (x \in Run => gen[x].pc \notin NotYet)

\* What is under the name of the model, or may be put back there.
Saves(h, x) == <<"saved", "model">> \in gen[h].done /\ gen[h].saved["model"] = x
Live(x) == pair["model"] = x \/ \E h \in Run : Saves(h, x)
SeenInv == \A x \in Maker : Live(x) => Seen(x)

\* An extraction that has left for good; one above another.
Dead(x) == Seen(x) /\ ~ Live(x)
Above(y, x) == y \in Run /\ y # x /\ Seen(y) /\ Saves(y, x)

-----------------------------------------------------------------------------
(* The gate.                                                               *)

LockInv == \A g \in Run : gate[g].pc \in Working <=> lock = g
ChildInv ==
  \A g \in Run : child[g] # None => gate[g].pc = "killed" \/ (gate[g].pc = "wait" /\ child[g] = Here(g))

\* A gate at work is at one of the stages, and where the stage leads.
StageInv(g) ==
  gate[g].pc \in Staged =>
    /\ gate[g].stage \in DOMAIN Stages
    /\ gate[g].pc = "generated" => Here(g) = "generate-sail"
    /\ gate[g].pc = "audit" => Here(g) = "theorem-audit"
    /\ gate[g].pc \in {"validate", "sources", "models", "last"} => Here(g) = "public-decoder"

\* The stages whose log is of this run: those before the present one, and this
\* one when it has been opened.
Opened(g, j) ==
  /\ gate[g].pc \in Staged
  /\ j \in DOMAIN Stages
  /\ j < gate[g].stage \/ (j = gate[g].stage /\ gate[g].pc # "stage")
Past(g, s) == \E j \in DOMAIN Stages : Stages[j] = s /\ j < gate[g].stage

\* A generator begins with its stage, once.
BeginInv ==
  \A g \in Run : gen[g].pc # "idle" =>
    gate[g].pc \in Ended \/ \E j \in DOMAIN Stages : Stages[j] = "generate-rust" /\ Opened(g, j)

OwnLog(g, s) == g \in logs[s] /\ \A h \in logs[s] \ {g} : gate[h].pc = "killed"
EvidenceInv(g) ==
  /\ \A j \in DOMAIN Stages : Opened(g, j) => OwnLog(g, Stages[j])
  /\ gate[g].pc \in Staged /\ Past(g, "theorem-audit") => audit = g

ReportInv ==
  /\ lock # None => report.run = lock /\ report.status = "running"
  /\ report.status = "passed" =>
       /\ lock = None /\ report.run \in Run /\ audit = report.run
       /\ \A s \in StageNames : OwnLog(report.run, s)

-----------------------------------------------------------------------------
(* The clean build.                                                        *)

\* A clean build is of the public stage.
CleanPlace ==
  \A g \in Run : clean[g].pc # "idle" =>
    gate[g].pc = "killed" \/ (gate[g].pc \in {"wait", "validate"} /\ Here(g) = "public-decoder")

\* The pair it began with is one extraction, under its policy; the model it
\* copied is that extraction's when all comparisons have passed.
OnePair(p) == p["model"] # None /\ p["llbc"] = p["model"] /\ Seen(p["model"])
CleanInv(c) ==
  LET G == c.generated["model"] IN
  /\ c.pc \in Begun => OnePair(c.generated) /\ extraction[G].policy = c.policy /\ c.policy \in Version
  /\ c.pc \in Copied => Seen(c.model) /\ c.model # None
  /\ c.pc = "recheck" => c.model = G \/ Dead(G) \/ Dead(c.model) \/ Above(c.model, G)
  /\ c.pc = "compare" => c.model = G \/ Dead(c.model)
  /\ c.pc = "passed" => c.model = G
  /\ c.pc \in Rechecked => c.sha = c.policy

\* What it cost to copy other sources than the policy's.
CopyCount(c) ==
  LET src == input["sources"]
      Q == c.policy
      C == c.sources IN
  /\ c.pc \in Begun => src = Q \/ edits >= 1
  /\ c.pc \in Copied => C = Q \/ (edits >= 1 /\ (src = C \/ edits >= 2))
  /\ c.pc \in Rechecked => C = Q \/ (edits >= 2 /\ (src = Q \/ edits >= 3))
  /\ c.pc = "passed" => C = Q \/ (edits >= 3 /\ (src = C \/ edits >= 4))

BuildInv == \A g \in Run : CleanInv(clean[g]) /\ CopyCount(clean[g])

-----------------------------------------------------------------------------
(* The comparisons of the gate that holds the lock.                        *)

Hashed == {"evidence"} \cup Staged
Validated == {"sources", "models", "last"}

\* The report says what the gate remembers.
MirrorInv(g) ==
  /\ gate[g].pc \in Working \ Staged => report.generated = NoPair
  /\ gate[g].pc \in {"hash"} \cup Hashed => gate[g].policy \in Version
  /\ gate[g].pc \in Hashed => gate[g].sha \in Version /\ report.policy = gate[g].sha
  /\ gate[g].pc \in Staged =>
       /\ report.sources = gate[g].policy
       /\ report.generated = gate[g].generated
       /\ gate[g].generated["model"] # None => OnePair(gate[g].generated)
       /\ Past(g, "generate-sail") => gate[g].generated["model"] # None
  /\ gate[g].pc \in Validated =>
       /\ report.clean.pc = "passed" /\ CleanInv(report.clean)
       /\ report.clean.sha = gate[g].sha

\* What it cost to read the policy and to hash another one.
PolicyCount(g) ==
  LET P == gate[g].policy
      S == gate[g].sha
      src == input["sources"]
      tools == input["tools"] IN
  /\ gate[g].pc = "hash" => policy = P \/ edits >= 1
  /\ gate[g].pc \in Hashed => policy = S \/ edits >= 1
  /\ gate[g].pc \in Hashed => P = S \/ edits >= 1
  /\ gate[g].pc \in Staged /\ P # S =>
       /\ src = P \/ edits >= 2
       /\ tools = P \/ edits >= 2
       /\ src = P \/ tools = P \/ edits >= 3
  /\ gate[g].pc \in Staged /\ P # S /\ clean[g].pc \in Begun =>
       clean[g].policy = P \/ (edits >= 3 /\ (src = clean[g].policy \/ edits >= 4))
  /\ gate[g].pc \in Validated => P = S \/ (edits >= 3 /\ (src = S \/ edits >= 4))
  /\ gate[g].pc \in {"models", "last"} => P = S \/ edits >= 4

\* What it cost to compile other sources than the policy's.
SourceCount(g) ==
  LET S == gate[g].sha
      src == input["sources"]
      C == report.clean.sources IN
  /\ gate[g].pc \in Validated => C = S \/ (edits >= 3 /\ (src = C \/ edits >= 4))
  /\ gate[g].pc \in {"models", "last"} => C = S \/ edits >= 4

\* What it cost to generate a pair under another policy.
PairCount(g) ==
  LET S == gate[g].sha
      W == extraction[gate[g].generated["model"]].policy IN
  gate[g].pc \in Staged /\ gate[g].generated["model"] # None /\ W # S =>
    /\ edits >= 1 /\ (policy = W \/ edits >= 2)
    /\ (clean[g].pc \in Rechecked /\ clean[g].sha = S) \/ gate[g].pc \in {"sources", "models"} =>
         edits >= 2 /\ (policy = S \/ edits >= 3)
    /\ gate[g].pc = "last" => edits >= 3 /\ (policy = W \/ edits >= 4)

\* What is known of the gate at work: nothing of any other.
Work(g) ==
  /\ StageInv(g) /\ EvidenceInv(g) /\ MirrorInv(g)
  /\ PolicyCount(g) /\ SourceCount(g) /\ PairCount(g)
WorkInv == \A g \in Run : Work(g)
IdleInv == \A g \in Run : gate[g].pc \notin Staged => gate[g].generated = NoPair

\* What a passed report says.
PassedInv ==
  report.status = "passed" =>
    /\ report.policy \in Version
    /\ OnePair(report.generated)
    /\ extraction[report.generated["model"]].policy = report.policy \/ edits >= 4
    /\ CleanInv(report.clean) /\ report.clean.pc = "passed" /\ report.clean.sha = report.policy
    /\ report.sources = report.policy \/ edits >= 4
    /\ report.clean.sources = report.policy \/ edits >= 4

Rest ==
  /\ LockInv /\ ChildInv /\ BeginInv /\ ReportInv /\ CleanPlace /\ IdleInv
  /\ BuildInv /\ WorkInv /\ PassedInv
IInv == PairTyped /\ GenInv /\ SeenInv /\ GateTyped /\ Rest

-----------------------------------------------------------------------------
(* The generator, one statement at a time.                                 *)

\* What an undo takes back is the last flag that is set.
LEMMA UndoChoice ==
  ASSUME NEW done \in SUBSET Flag, done # {}, NEW k,
         k = CHOOSE i \in 1..4 : UndoOrder[i] \in done /\ \A j \in 1..(i - 1) : UndoOrder[j] \notin done
  PROVE  /\ k \in 1..4 /\ UndoOrder[k] \in done
         /\ \A j \in 1..(k - 1) : UndoOrder[j] \notin done
<1> DEFINE Last(i) == UndoOrder[i] \in done /\ \A j \in 1..(i - 1) : UndoOrder[j] \notin done
<1>1. \E i \in 1..4 : UndoOrder[i] \in done
  <2>1. PICK f \in done : TRUE
    OBVIOUS
  <2>2. f \in {UndoOrder[1], UndoOrder[2], UndoOrder[3], UndoOrder[4]}
    BY <2>1 DEF Flag, Name, UndoOrder
  <2> QED BY <2>1, <2>2
<1>2. \E i \in 1..4 : Last(i)
  <2>1. CASE UndoOrder[1] \in done
    <3>1. Last(1)
      BY <2>1
    <3> QED BY <3>1
  <2>2. CASE UndoOrder[1] \notin done /\ UndoOrder[2] \in done
    <3>1. Last(2)
      BY <2>2
    <3> QED BY <3>1
  <2>3. CASE UndoOrder[1] \notin done /\ UndoOrder[2] \notin done /\ UndoOrder[3] \in done
    <3>1. Last(3)
      BY <2>3
    <3> QED BY <3>1
  <2>4. CASE UndoOrder[1] \notin done /\ UndoOrder[2] \notin done /\ UndoOrder[3] \notin done /\ UndoOrder[4] \in done
    <3>1. Last(4)
      BY <2>4
    <3> QED BY <3>1
  <2>5. UndoOrder[1] \in done \/ UndoOrder[2] \in done \/ UndoOrder[3] \in done \/ UndoOrder[4] \in done
    BY <1>1
  <2> QED BY <2>1, <2>2, <2>3, <2>4, <2>5, Zenon
<1>3. k \in 1..4 /\ Last(k)
  <2>1. k = CHOOSE i \in 1..4 : Last(i)
    OBVIOUS
  <2> HIDE DEF Last
  <2> QED BY <1>2, <2>1, Zenon
<1> QED BY <1>3

\* The four ways an undo goes on, and its end.
UndoKinds(r) ==
  \/ gen[r].done = {} /\ GenEnds(r, "restored") /\ UNCHANGED pair
  \/ \E n \in Name :
       /\ <<"installed", n>> \in gen[r].done
       /\ gen' = [gen EXCEPT ![r].done = @ \ {<<"installed", n>>}]
       /\ pair' = [pair EXCEPT ![n] = None] /\ UNCHANGED genLock
  \/ \E n \in Name :
       /\ <<"saved", n>> \in gen[r].done
       /\ <<"installed", "llbc">> \notin gen[r].done /\ <<"installed", "model">> \notin gen[r].done
       /\ gen' = [gen EXCEPT ![r].done = @ \ {<<"saved", n>>}]
       /\ pair' = [pair EXCEPT ![n] = gen[r].saved[n]] /\ UNCHANGED genLock

\* An undo takes back an installation before it puts a saved file in its place.
LEMMA UndoIs ==
  ASSUME PairTyped, NEW r \in Run, Undo(r)
  PROVE  UndoKinds(r)
<1>1. gen[r].done \in SUBSET Flag
  BY DEF PairTyped, GenRecord
<1>2. CASE gen[r].done = {}
  BY <1>2 DEF Undo, UndoKinds
<1>3. CASE gen[r].done # {}
  <2> DEFINE k == CHOOSE i \in 1..4 : /\ UndoOrder[i] \in gen[r].done
                                     /\ \A j \in 1..(i - 1) : UndoOrder[j] \notin gen[r].done
  <2>1. /\ k \in 1..4 /\ UndoOrder[k] \in gen[r].done
        /\ \A j \in 1..(k - 1) : UndoOrder[j] \notin gen[r].done
    BY <1>1, <1>3, UndoChoice
  <2>2. UndoOne(r, k) /\ gen' = [gen EXCEPT ![r].done = @ \ {UndoOrder[k]}] /\ UNCHANGED genLock
    BY <1>3 DEF Undo
  <2> HIDE DEF k
  <2>3. CASE k = 1
    BY <2>1, <2>2, <2>3 DEF UndoKinds, UndoOne, UndoOrder, Name
  <2>4. CASE k = 2
    BY <2>1, <2>2, <2>4 DEF UndoKinds, UndoOne, UndoOrder, Name
  <2>5. CASE k = 3
    <3>1. UndoOrder[1] \notin gen[r].done /\ UndoOrder[2] \notin gen[r].done
      BY <2>1, <2>5
    <3> QED BY <2>1, <2>2, <2>5, <3>1 DEF UndoKinds, UndoOne, UndoOrder, Name
  <2>6. CASE k = 4
    <3>1. UndoOrder[1] \notin gen[r].done /\ UndoOrder[2] \notin gen[r].done
      BY <2>1, <2>6
    <3> QED BY <2>1, <2>2, <2>6, <3>1 DEF UndoKinds, UndoOne, UndoOrder, Name
  <2> QED BY <2>1, <2>3, <2>4, <2>5, <2>6
<1> QED BY <1>2, <1>3

\* A generator that ends remembers nothing.
LEMMA GenEndsIs ==
  ASSUME PairTyped, NEW r \in Run, NEW how \in GenEnd, GenEnds(r, how)
  PROVE  /\ gen'[r] = [NewRun EXCEPT !.pc = how] /\ gen' \in [Run -> GenRecord]
         /\ gen'[r].pc = how /\ gen'[r].done = {}
         /\ \A h \in Run : h # r => gen'[h] = gen[h]
         /\ genLock' = (IF genLock = r THEN None ELSE genLock) /\ genLock' \in Run \cup {None}
<1>1. [NewRun EXCEPT !.pc = how] \in GenRecord
  BY DEF NewRun, GenRecord, GenPlaces, NoPair, Pair, MaybeMaker, MaybeVersion
<1>2. gen' = [gen EXCEPT ![r] = [NewRun EXCEPT !.pc = how]]
  BY DEF GenEnds
<1>3. gen'[r].pc = how /\ gen'[r].done = {}
  BY <1>2 DEF PairTyped, NewRun
<1> QED BY <1>1, <1>2, <1>3 DEF GenEnds, PairTyped

\* A statement of install or before it that goes on changes its place alone.
LEMMA GotoIs ==
  ASSUME PairTyped, NEW r \in Run, NEW place \in GenPlaces, Goto(r, place)
  PROVE  /\ gen' \in [Run -> GenRecord] /\ gen'[r].pc = place
         /\ gen'[r].done = gen[r].done /\ gen'[r].saved = gen[r].saved /\ gen'[r].found = gen[r].found
         /\ \A h \in Run : h # r => gen'[h] = gen[h]
BY DEF Goto, PairTyped, GenRecord

\* Saving: nothing to save, or the file moves away and the flag says so.
SaveIs(r, n, here, next) ==
  /\ gen[r].pc = here /\ gen'[r].pc = next /\ gen'[r].found = gen[r].found
  /\ \/ /\ pair[n] = None /\ UNCHANGED pair
        /\ gen'[r].done = gen[r].done /\ gen'[r].saved = gen[r].saved
     \/ /\ pair[n] # None /\ pair' = [pair EXCEPT ![n] = None]
        /\ gen'[r].done = gen[r].done \cup {<<"saved", n>>}
        /\ gen'[r].saved = [gen[r].saved EXCEPT ![n] = pair[n]]

\* Renaming the previous file of a name away, or passing over a name that holds none.
LEMMA SaveStep ==
  ASSUME PairTyped, NEW r \in Run, NEW n \in Name, NEW here, NEW next \in GenPlaces, Save(r, n, here, next)
  PROVE  /\ SaveIs(r, n, here, next)
         /\ gen' \in [Run -> GenRecord] /\ pair' \in Pair /\ genLock' = genLock
         /\ \A h \in Run : h # r => gen'[h] = gen[h]
<1>1. CASE pair[n] = None
  BY <1>1, GotoIs DEF Save, SaveIs, PairTyped
<1>2. CASE pair[n] # None
  <2>1. PICK e \in GenRecord : e = gen[r]
    BY DEF PairTyped
  <2>2. PICK f : f = [e EXCEPT !.pc = next, !.saved[n] = pair[n], !.done = @ \cup {<<"saved", n>>}]
    OBVIOUS
  <2>3. gen' = [gen EXCEPT ![r] = f] /\ pair' = [pair EXCEPT ![n] = None] /\ gen[r].pc = here /\ genLock' = genLock
    BY <1>2, <2>1, <2>2 DEF Save, PairTyped, GenRecord
  <2>4. e.done \cup {<<"saved", n>>} \in SUBSET Flag
    <3>1. <<"saved", n>> \in Flag
      BY DEF Flag
    <3> QED BY <3>1 DEF GenRecord
  <2>5. [e.saved EXCEPT ![n] = pair[n]] \in Pair
    BY DEF GenRecord, Pair, PairTyped
  <2>6. f.done = e.done \cup {<<"saved", n>>} /\ f.pc = next /\ f.found = e.found
    BY <2>2 DEF GenRecord
  <2>7. f.saved = [e.saved EXCEPT ![n] = pair[n]]
    BY <2>2 DEF GenRecord
  <2>8. f \in GenRecord
    <3>1. f = [e EXCEPT !.pc = next, !.saved = [e.saved EXCEPT ![n] = pair[n]],
                        !.done = e.done \cup {<<"saved", n>>}]
      BY <2>2 DEF GenRecord
    <3> QED BY <2>4, <2>5, <3>1 DEF GenRecord
  <2>9. gen'[r] = f
    BY <2>3 DEF PairTyped
  <2> QED BY <1>2, <2>1, <2>3, <2>6, <2>7, <2>8, <2>9 DEF SaveIs, PairTyped, Pair, MaybeMaker
<1> QED BY <1>1, <1>2

\* Installing: the name holds the run's own file and the flag says so.
InstallIs(r, n, here, next) ==
  /\ gen[r].pc = here /\ gen'[r].pc = next /\ gen'[r].found = gen[r].found
  /\ gen'[r].saved = gen[r].saved /\ gen'[r].done = gen[r].done \cup {<<"installed", n>>}
  /\ pair' = [pair EXCEPT ![n] = r]

\* Renaming one finished file of an extraction under its name.
LEMMA InstallOne ==
  ASSUME PairTyped, NEW r \in Run, NEW n \in Name, NEW here, NEW next \in GenPlaces, Install(r, n, here, next)
  PROVE  /\ InstallIs(r, n, here, next)
         /\ gen' \in [Run -> GenRecord] /\ pair' \in Pair /\ genLock' = genLock
         /\ \A h \in Run : h # r => gen'[h] = gen[h]
<1>1. PICK e \in GenRecord : e = gen[r]
  BY DEF PairTyped
<1>2. PICK f : f = [e EXCEPT !.pc = next, !.done = @ \cup {<<"installed", n>>}]
  OBVIOUS
<1>3. gen' = [gen EXCEPT ![r] = f] /\ pair' = [pair EXCEPT ![n] = r] /\ gen[r].pc = here /\ genLock' = genLock
  BY <1>1, <1>2 DEF Install, PairTyped, GenRecord
<1>4. e.done \cup {<<"installed", n>>} \in SUBSET Flag
  <2>1. <<"installed", n>> \in Flag
    BY DEF Flag
  <2> QED BY <2>1 DEF GenRecord
<1>5. f.done = e.done \cup {<<"installed", n>>} /\ f.pc = next /\ f.found = e.found /\ f.saved = e.saved
  BY <1>2 DEF GenRecord
<1>6. f \in GenRecord
  <2>1. f = [e EXCEPT !.pc = next, !.done = e.done \cup {<<"installed", n>>}]
    BY <1>2 DEF GenRecord
  <2> QED BY <1>4, <2>1 DEF GenRecord
<1>7. gen'[r] = f
  BY <1>3 DEF PairTyped
<1> QED BY <1>1, <1>3, <1>5, <1>6, <1>7 DEF InstallIs, PairTyped, Pair, MaybeMaker, Maker

\* Undoing one rename changes a flag and a name.
LEMMA UndoneIs ==
  ASSUME PairTyped, NEW r \in Run, NEW f \in Flag, gen' = [gen EXCEPT ![r].done = @ \ {f}]
  PROVE  /\ gen' \in [Run -> GenRecord] /\ gen'[r].pc = gen[r].pc /\ gen'[r].found = gen[r].found
         /\ gen'[r].saved = gen[r].saved /\ gen'[r].done = gen[r].done \ {f}
         /\ \A h \in Run : h # r => gen'[h] = gen[h]
BY DEF PairTyped, GenRecord

\* What any step of a generator does: to itself, to its lock, to its own
\* extraction; and when it touches the published names.
GenEffect(r) ==
  /\ gen' \in [Run -> GenRecord] /\ pair' \in Pair
  /\ genLock' \in Run \cup {None} /\ extraction' \in [Maker -> Report \cup {None}]
  /\ \A h \in Run : h # r => gen'[h] = gen[h]
  /\ \/ genLock' = genLock /\ gen'[r].pc # "extract"
     \/ genLock' = (IF genLock = r THEN None ELSE genLock) /\ gen'[r].pc \in GenEnd
     \/ genLock = None /\ genLock' = r
  /\ gen[r].pc \notin GenEnd \cup {"idle"} /\ gen'[r].pc # "idle"
  /\ extraction' # extraction => gen[r].pc = "extracting"
  /\ \A m \in Maker : m # r => extraction'[m] = extraction[m]
  /\ pair' # pair => gen[r].pc \in Moving
  /\ gen'[r].pc \in NotYet => gen[r].pc \in NotYet

\* Whatever statement an extraction executes, it stays within its effect.
LEMMA GenEffects ==
  ASSUME PairTyped, NEW r \in Run, GenStep(r)
  PROVE  GenEffect(r) /\ UNCHANGED inputVars
<1>p. /\ GenEnd = {"installed", "failed", "restored", "killed"}
      /\ {"lock", "extract", "extracting", "provenance", "save model", "undo"} \subseteq GenPlaces
      /\ Moving \subseteq GenPlaces
      /\ {"lock", "extract", "extracting", "provenance", "save model", "undo", "verify", "idle", "begin"} \cap GenEnd = {}
      /\ Moving \cap (GenEnd \cup {"idle", "extract"}) = {} /\ "undo" \in Moving
      /\ NotYet \cap (GenEnd \cup {"undo"}) = {}
      /\ {"begin", "lock", "extract", "extracting", "provenance"} \subseteq NotYet
  BY DEF GenPlaces, GenPlace, GenEnd, Moving, Installing, NotYet
<1>1. CASE GenBegin(r)
  <2>1. CASE GenEnds(r, "failed")
    BY <1>1, <2>1, <1>p, GenEndsIs DEF GenBegin, GenEffect, PairTyped
  <2>2. CASE gen' = [gen EXCEPT ![r].pc = "lock", ![r].policy = policy] /\ UNCHANGED genLock
    <3>1. gen' \in [Run -> GenRecord] /\ gen'[r].pc = "lock"
      BY <1>p, <2>2 DEF PairTyped, GenRecord, MaybeVersion
    <3>2. \A h \in Run : h # r => gen'[h] = gen[h]
      BY <2>2 DEF PairTyped
    <3> QED BY <1>1, <2>2, <3>1, <1>p, <3>2 DEF GenBegin, GenEffect, PairTyped
  <2> QED BY <1>1, <2>1, <2>2 DEF GenBegin
<1>2. CASE GenLock(r)
  <2>1. CASE GenEnds(r, "failed")
    BY <1>2, <2>1, <1>p, GenEndsIs DEF GenLock, GenEffect, PairTyped
  <2>2. CASE genLock = None /\ Goto(r, "extract") /\ genLock' = r
    <3>1. "extract" \in GenPlaces
      BY <1>p
    <3>2. /\ gen' \in [Run -> GenRecord] /\ gen'[r].pc = "extract"
          /\ \A h \in Run : h # r => gen'[h] = gen[h]
      BY <2>2, <3>1, GotoIs
    <3> QED BY <1>2, <1>p, <2>2, <3>2 DEF GenLock, GenEffect, PairTyped
  <2> QED BY <1>2, <2>1, <2>2 DEF GenLock, GenLockFree
<1>3. CASE ExtractBegin(r)
  <2>1. [policy |-> policy, input |-> input] \in Report
    BY DEF PairTyped, Report
  <2>2. gen' = [gen EXCEPT ![r].pc = "extracting", ![r].seen = [policy |-> policy, input |-> input]]
    BY <1>3 DEF ExtractBegin
  <2>3. PICK v \in Report : v = [policy |-> policy, input |-> input]
    BY <2>1
  <2>4. gen' = [gen EXCEPT ![r].pc = "extracting", ![r].seen = v]
    BY <2>2, <2>3
  <2>5. gen' \in [Run -> GenRecord] /\ gen'[r].pc = "extracting"
    BY <1>p, <2>4 DEF PairTyped, GenRecord
  <2>6. \A h \in Run : h # r => gen'[h] = gen[h]
    BY <2>4 DEF PairTyped
  <2> QED BY <1>3, <2>5, <1>p, <2>6 DEF ExtractBegin, GenEffect, PairTyped
<1>4. CASE ExtractEnd(r)
  <2>1. CASE GenEnds(r, "failed") /\ UNCHANGED extraction
    BY <1>4, <2>1, <1>p, GenEndsIs DEF ExtractEnd, GenEffect, PairTyped
  <2>2. CASE /\ extraction' = [extraction EXCEPT ![r] = gen[r].seen]
             /\ gen' = [gen EXCEPT ![r].pc = "provenance", ![r].seen = None] /\ UNCHANGED genLock
    <3>1. gen' \in [Run -> GenRecord] /\ gen'[r].pc = "provenance"
      BY <1>p, <2>2 DEF PairTyped, GenRecord
    <3>2. \A h \in Run : h # r => gen'[h] = gen[h]
      BY <2>2 DEF PairTyped
    <3>3. gen[r].seen \in Report \cup {None}
      BY DEF PairTyped, GenRecord
    <3>4. extraction' \in [Maker -> Report \cup {None}] /\ \A m \in Maker : m # r => extraction'[m] = extraction[m]
      BY <2>2, <3>3 DEF PairTyped, Maker
    <3> QED BY <1>4, <2>2, <3>1, <1>p, <3>2, <3>4 DEF ExtractEnd, GenEffect, PairTyped
  <2> QED BY <1>4, <2>1, <2>2 DEF ExtractEnd
<1>5. CASE GenProvenance(r)
  <2>1. CASE GenEnds(r, "failed")
    BY <1>5, <2>1, <1>p, GenEndsIs DEF GenProvenance, GenEffect, PairTyped
  <2>2. CASE gen' = [gen EXCEPT ![r].pc = "save model", ![r].found = pair] /\ UNCHANGED genLock
    <3>1. gen' \in [Run -> GenRecord] /\ gen'[r].pc = "save model"
      BY <1>p, <2>2 DEF PairTyped, GenRecord
    <3>2. \A h \in Run : h # r => gen'[h] = gen[h]
      BY <2>2 DEF PairTyped
    <3> QED BY <1>5, <2>2, <3>1, <1>p, <3>2 DEF GenProvenance, GenEffect, PairTyped
  <2> QED BY <1>5, <2>1, <2>2 DEF GenProvenance
<1>6. CASE InstallStep(r)
  <2>1. ASSUME NEW n \in Name, NEW here \in Moving, NEW next \in Moving, next \in NotYet => here \in NotYet,
               Save(r, n, here, next)
        PROVE  GenEffect(r) /\ UNCHANGED inputVars
    <3>1. next \in GenPlaces
      BY <1>p
    <3>2. /\ gen[r].pc = here /\ gen'[r].pc = next
          /\ gen' \in [Run -> GenRecord] /\ pair' \in Pair /\ genLock' = genLock
          /\ \A h \in Run : h # r => gen'[h] = gen[h]
      <4>1. SaveIs(r, n, here, next)
        BY <2>1, <3>1, SaveStep
      <4>2. /\ gen' \in [Run -> GenRecord] /\ pair' \in Pair /\ genLock' = genLock
            /\ \A h \in Run : h # r => gen'[h] = gen[h]
        BY <2>1, <3>1, SaveStep
      <4> QED BY <4>1, <4>2 DEF SaveIs
    <3> QED BY <1>p, <2>1, <3>2 DEF Save, GenEffect, PairTyped
  <2>2. ASSUME NEW n \in Name, NEW here \in Moving, NEW next \in Moving, next \in NotYet => here \in NotYet,
               Install(r, n, here, next)
        PROVE  GenEffect(r) /\ UNCHANGED inputVars
    <3>1. next \in GenPlaces
      BY <1>p
    <3>2. /\ gen[r].pc = here /\ gen'[r].pc = next
          /\ gen' \in [Run -> GenRecord] /\ pair' \in Pair /\ genLock' = genLock
          /\ \A h \in Run : h # r => gen'[h] = gen[h]
      <4>1. InstallIs(r, n, here, next)
        BY <2>2, <3>1, InstallOne
      <4>2. /\ gen' \in [Run -> GenRecord] /\ pair' \in Pair /\ genLock' = genLock
            /\ \A h \in Run : h # r => gen'[h] = gen[h]
        BY <2>2, <3>1, InstallOne
      <4> QED BY <4>1, <4>2 DEF InstallIs
    <3> QED BY <1>p, <2>2, <3>2 DEF Install, GenEffect, PairTyped
  <2> QED BY <1>6, <2>1, <2>2 DEF InstallStep, Name, Moving, Installing, NotYet
<1>7. CASE Verify(r)
  <2>1. CASE GenEnds(r, "installed")
    BY <1>7, <2>1, <1>p, GenEndsIs DEF Verify, GenEffect, PairTyped
  <2>2. CASE Goto(r, "undo") /\ UNCHANGED genLock
    <3>1. "undo" \in GenPlaces
      BY <1>p
    <3>2. /\ gen' \in [Run -> GenRecord] /\ gen'[r].pc = "undo"
          /\ \A h \in Run : h # r => gen'[h] = gen[h]
      BY <2>2, <3>1, GotoIs
    <3> QED BY <1>7, <1>p, <2>2, <3>2 DEF Verify, GenEffect, PairTyped
  <2> QED BY <1>7, <2>1, <2>2 DEF Verify
<1>8. CASE Undo(r)
  <2>0. gen[r].pc = "undo" /\ UNCHANGED inputVars /\ UNCHANGED extraction
    BY <1>8 DEF Undo
  <2>1. CASE GenEnds(r, "restored") /\ UNCHANGED pair
    BY <2>0, <2>1, <1>p, GenEndsIs DEF GenEffect, PairTyped
  <2>2. ASSUME NEW n \in Name, NEW k \in {"saved", "installed"}, UNCHANGED genLock,
               gen' = [gen EXCEPT ![r].done = @ \ {<<k, n>>}],
               NEW v \in MaybeMaker, pair' = [pair EXCEPT ![n] = v]
        PROVE  GenEffect(r)
    <3>1. <<k, n>> \in Flag
      BY DEF Flag
    <3>2. /\ gen' \in [Run -> GenRecord] /\ gen'[r].pc = gen[r].pc
          /\ \A h \in Run : h # r => gen'[h] = gen[h]
      BY <2>2, <3>1, UndoneIs
    <3>3. pair' \in Pair
      BY <2>2 DEF PairTyped, Pair
    <3> QED BY <1>p, <2>0, <2>2, <3>2, <3>3 DEF GenEffect, PairTyped
  <2>3. \A n \in Name : gen[r].saved[n] \in MaybeMaker
    BY DEF PairTyped, GenRecord, Pair
  <2>4. None \in MaybeMaker
    BY DEF MaybeMaker
  <2>5. UndoKinds(r)
    BY <1>8, UndoIs
  <2> QED BY <2>0, <2>1, <2>2, <2>3, <2>4, <2>5 DEF UndoKinds
<1>9. CASE GenFail(r)
  <2>1. CASE GenEnds(r, "failed")
    BY <1>9, <2>1, <1>p, GenEndsIs DEF GenFail, GenEffect, PairTyped
  <2>2. CASE Goto(r, "undo") /\ UNCHANGED genLock
    <3>1. "undo" \in GenPlaces
      BY <1>p
    <3>2. /\ gen' \in [Run -> GenRecord] /\ gen'[r].pc = "undo"
          /\ \A h \in Run : h # r => gen'[h] = gen[h]
      BY <2>2, <3>1, GotoIs
    <3> QED BY <1>9, <1>p, <2>2, <3>2 DEF GenFail, GenEffect, PairTyped
  <2> QED BY <1>9, <2>1, <2>2 DEF GenFail
<1> QED BY <1>1, <1>2, <1>3, <1>4, <1>5, <1>6, <1>7, <1>8, <1>9 DEF GenStep

\* What a run knows of the names it is about to move, or has moved.
OneGen(r) ==
  /\ gen[r].pc \in Holding => genLock = r
  /\ gen[r].pc \notin Moving => gen[r].done = {}
  /\ gen[r].pc \in Moving => NameInv(r, "model") /\ NameInv(r, "llbc") /\ InstallInv(r)

\* The renames keep it.
LEMMA RenamesKept ==
  ASSUME PairTyped, GenInv, NEW r \in Run, InstallStep(r)
  PROVE  OneGen(r)'
<1> USE DEF Moving, Holding, Installing
<1>p. {"save model", "save llbc", "install model", "install llbc", "verify"} \subseteq GenPlaces
  BY DEF GenPlaces, GenPlace
<1>n. <<"saved", "model">> # <<"saved", "llbc">> /\ <<"installed", "model">> # <<"installed", "llbc">>
      /\ \A n, m : <<"saved", n>> # <<"installed", m>>
  OBVIOUS
<1>0. OneGen(r) /\ r \in MaybeMaker /\ r # None /\ pair \in [Name -> MaybeMaker]
  BY RunAssumption DEF GenInv, OneGen, MaybeMaker, Maker, PairTyped, Pair
<1>1. CASE Save(r, "model", "save model", "save llbc")
  <2>1. SaveIs(r, "model", "save model", "save llbc") /\ genLock' = genLock
    BY <1>1, <1>p, SaveStep DEF Name
  <2>2. CASE pair' = pair /\ pair["model"] = None /\ gen'[r].done = gen[r].done /\ gen'[r].saved = gen[r].saved
    BY <1>0, <1>n, <2>1, <2>2 DEF SaveIs, OneGen, NameInv, InstallInv
  <2>3. CASE /\ pair["model"] # None /\ pair' = [pair EXCEPT !["model"] = None]
             /\ gen'[r].done = gen[r].done \cup {<<"saved", "model">>}
             /\ gen'[r].saved = [gen[r].saved EXCEPT !["model"] = pair["model"]]
    <3>1. gen[r].saved \in [Name -> MaybeMaker]
      BY DEF PairTyped, GenRecord, Pair
    <3>2. /\ pair'["model"] = None /\ pair'["llbc"] = pair["llbc"]
          /\ gen'[r].saved["model"] = pair["model"] /\ gen'[r].saved["llbc"] = gen[r].saved["llbc"]
      BY <1>0, <2>3, <3>1 DEF Name
    <3> QED BY <1>0, <1>n, <2>1, <2>3, <3>2 DEF SaveIs, OneGen, NameInv, InstallInv
  <2> QED BY <2>1, <2>2, <2>3 DEF SaveIs
<1>2. CASE Save(r, "llbc", "save llbc", "install model")
  <2>1. SaveIs(r, "llbc", "save llbc", "install model") /\ genLock' = genLock
    BY <1>2, <1>p, SaveStep DEF Name
  <2>2. CASE pair' = pair /\ pair["llbc"] = None /\ gen'[r].done = gen[r].done /\ gen'[r].saved = gen[r].saved
    BY <1>0, <1>n, <2>1, <2>2 DEF SaveIs, OneGen, NameInv, InstallInv
  <2>3. CASE /\ pair["llbc"] # None /\ pair' = [pair EXCEPT !["llbc"] = None]
             /\ gen'[r].done = gen[r].done \cup {<<"saved", "llbc">>}
             /\ gen'[r].saved = [gen[r].saved EXCEPT !["llbc"] = pair["llbc"]]
    <3>1. gen[r].saved \in [Name -> MaybeMaker]
      BY DEF PairTyped, GenRecord, Pair
    <3>2. /\ pair'["llbc"] = None /\ pair'["model"] = pair["model"]
          /\ gen'[r].saved["llbc"] = pair["llbc"] /\ gen'[r].saved["model"] = gen[r].saved["model"]
      BY <1>0, <2>3, <3>1 DEF Name
    <3> QED BY <1>0, <1>n, <2>1, <2>3, <3>2 DEF SaveIs, OneGen, NameInv, InstallInv
  <2> QED BY <2>1, <2>2, <2>3 DEF SaveIs
<1>3. CASE Install(r, "model", "install model", "install llbc")
  <2>1. /\ gen[r].pc = "install model" /\ gen'[r].pc = "install llbc" /\ gen'[r].found = gen[r].found
        /\ gen'[r].saved = gen[r].saved /\ gen'[r].done = gen[r].done \cup {<<"installed", "model">>}
        /\ pair' = [pair EXCEPT !["model"] = r] /\ genLock' = genLock
    <3>1. InstallIs(r, "model", "install model", "install llbc") /\ genLock' = genLock
      BY <1>3, <1>p, InstallOne DEF Name
    <3> QED BY <3>1 DEF InstallIs
  <2>2. pair'["model"] = r /\ pair'["llbc"] = pair["llbc"]
    BY <1>0, <2>1 DEF Name
  <2> QED BY <1>0, <1>n, <2>1, <2>2 DEF OneGen, NameInv, InstallInv
<1>4. CASE Install(r, "llbc", "install llbc", "verify")
  <2>1. /\ gen[r].pc = "install llbc" /\ gen'[r].pc = "verify" /\ gen'[r].found = gen[r].found
        /\ gen'[r].saved = gen[r].saved /\ gen'[r].done = gen[r].done \cup {<<"installed", "llbc">>}
        /\ pair' = [pair EXCEPT !["llbc"] = r] /\ genLock' = genLock
    <3>1. InstallIs(r, "llbc", "install llbc", "verify") /\ genLock' = genLock
      BY <1>4, <1>p, InstallOne DEF Name
    <3> QED BY <3>1 DEF InstallIs
  <2>2. pair'["llbc"] = r /\ pair'["model"] = pair["model"]
    BY <1>0, <2>1 DEF Name
  <2> QED BY <1>0, <1>n, <2>1, <2>2 DEF OneGen, NameInv, InstallInv
<1> QED BY <1>1, <1>2, <1>3, <1>4 DEF InstallStep

\* So does each rename of the undoing.
LEMMA UndoKept ==
  ASSUME PairTyped, GenInv, NEW r \in Run, Undo(r)
  PROVE  OneGen(r)'
<1> USE DEF Moving, Holding, Installing
<1>n. <<"saved", "model">> # <<"saved", "llbc">> /\ <<"installed", "model">> # <<"installed", "llbc">>
      /\ \A n, m : <<"saved", n>> # <<"installed", m>>
  OBVIOUS
<1>0. OneGen(r) /\ gen[r].pc = "undo" /\ pair \in [Name -> MaybeMaker]
  BY DEF GenInv, OneGen, PairTyped, Pair, Undo
<1>1. CASE gen[r].done = {} /\ GenEnds(r, "restored") /\ UNCHANGED pair
  <2>1. gen'[r].pc = "restored" /\ gen'[r].done = {}
    BY <1>1, GenEndsIs DEF GenEnd
  <2> QED BY <2>1 DEF OneGen
<1>2. ASSUME NEW n \in Name, <<"installed", n>> \in gen[r].done,
             gen' = [gen EXCEPT ![r].done = @ \ {<<"installed", n>>}],
             pair' = [pair EXCEPT ![n] = None], UNCHANGED genLock
      PROVE  OneGen(r)'
  <2>1. <<"installed", n>> \in Flag
    BY DEF Flag
  <2>2. /\ gen'[r].pc = "undo" /\ gen'[r].found = gen[r].found /\ gen'[r].saved = gen[r].saved
        /\ gen'[r].done = gen[r].done \ {<<"installed", n>>}
    BY <1>0, <1>2, <2>1, UndoneIs
  <2>3. pair'[n] = None /\ \A m \in Name : m # n => pair'[m] = pair[m]
    BY <1>0, <1>2
  <2>4. \A m \in Name : NameInv(r, m)'
    <3> SUFFICES ASSUME NEW m \in Name PROVE NameInv(r, m)'
      OBVIOUS
    <3>1. NameInv(r, m)
      BY <1>0 DEF OneGen, Name
    <3>2. <<"saved", m>> \in gen'[r].done <=> <<"saved", m>> \in gen[r].done
      BY <2>2, <1>n
    <3>3. CASE m = n
      BY <1>2, <2>2, <2>3, <3>1, <3>2, <3>3 DEF NameInv
    <3>4. CASE m # n
      <4>1. <<"installed", m>> \in gen'[r].done <=> <<"installed", m>> \in gen[r].done
        BY <2>2, <3>4
      <4> QED BY <2>2, <2>3, <3>1, <3>2, <3>4, <4>1 DEF NameInv
    <3> QED BY <3>3, <3>4
  <2> QED BY <1>0, <1>2, <2>2, <2>4 DEF OneGen, InstallInv, Name
<1>3. ASSUME NEW n \in Name, <<"saved", n>> \in gen[r].done,
             <<"installed", "llbc">> \notin gen[r].done, <<"installed", "model">> \notin gen[r].done,
             gen' = [gen EXCEPT ![r].done = @ \ {<<"saved", n>>}],
             pair' = [pair EXCEPT ![n] = gen[r].saved[n]], UNCHANGED genLock
      PROVE  OneGen(r)'
  <2>1. <<"saved", n>> \in Flag
    BY DEF Flag
  <2>2. /\ gen'[r].pc = "undo" /\ gen'[r].found = gen[r].found /\ gen'[r].saved = gen[r].saved
        /\ gen'[r].done = gen[r].done \ {<<"saved", n>>}
    BY <1>0, <1>3, <2>1, UndoneIs
  <2>3. pair'[n] = gen[r].saved[n] /\ \A m \in Name : m # n => pair'[m] = pair[m]
    BY <1>0, <1>3
  <2>4. \A m \in Name : NameInv(r, m)'
    <3> SUFFICES ASSUME NEW m \in Name PROVE NameInv(r, m)'
      OBVIOUS
    <3>1. NameInv(r, m)
      BY <1>0 DEF OneGen, Name
    <3>2. <<"installed", m>> \notin gen[r].done /\ <<"installed", m>> \notin gen'[r].done
      BY <1>3, <2>2 DEF Name
    <3>3. CASE m = n
      BY <1>3, <2>2, <2>3, <3>1, <3>2, <3>3 DEF NameInv
    <3>4. CASE m # n
      <4>1. <<"saved", m>> \in gen'[r].done <=> <<"saved", m>> \in gen[r].done
        BY <2>2, <3>4
      <4> QED BY <2>2, <2>3, <3>1, <3>2, <3>4, <4>1 DEF NameInv
    <3> QED BY <3>3, <3>4
  <2> QED BY <1>0, <1>3, <2>2, <2>4 DEF OneGen, InstallInv, Name
<1>4. UndoKinds(r)
  BY UndoIs
<1> QED BY <1>1, <1>2, <1>3, <1>4 DEF UndoKinds

\* One step of one generator keeps what every run knows.
LEMMA GenInvStep ==
  ASSUME PairTyped, GenInv, NEW r \in Run, GenStep(r)
  PROVE  GenInv'
<1>0. /\ \A h \in Run : OneGen(h)
      /\ r \in Run /\ r # None /\ Moving \subseteq Holding /\ "undo" \in Moving
      /\ GenEnd \cap Holding = {} /\ GenEnd \cap Moving = {}
  BY RunAssumption DEF GenInv, OneGen, Moving, Holding, Installing, GenEnd
<1>1. GenEffect(r)
  BY GenEffects
<1>2. ASSUME NEW h \in Run, h # r PROVE OneGen(h)'
  <2>1. gen'[h] = gen[h] /\ OneGen(h)
    BY <1>0, <1>1, <1>2 DEF GenEffect
  <2>2. gen[h].pc \in Holding => genLock' = h /\ pair' = pair
    <3> SUFFICES ASSUME gen[h].pc \in Holding PROVE genLock' = h /\ pair' = pair
      OBVIOUS
    <3>1. genLock = h /\ h # None
      BY <2>1, RunAssumption DEF OneGen
    <3>2. pair' = pair
      BY <1>0, <1>1, <1>2, <3>1 DEF GenEffect, OneGen
    <3> QED BY <1>1, <1>2, <3>1, <3>2 DEF GenEffect
  <2>3. gen[h].pc \in Moving => NameInv(h, "model")' /\ NameInv(h, "llbc")' /\ InstallInv(h)'
    BY <1>0, <2>1, <2>2 DEF OneGen, NameInv, InstallInv
  <2> QED BY <2>1, <2>2, <2>3 DEF OneGen
<1>3. OneGen(r)'
  <2>e. ASSUME NEW how \in GenEnd, GenEnds(r, how) PROVE OneGen(r)'
    <3>1. gen'[r].pc = how /\ gen'[r].done = {}
      BY <2>e, GenEndsIs
    <3>2. how \notin Holding /\ how \notin Moving
      BY <1>0
    <3> QED BY <3>1, <3>2 DEF OneGen
  <2>p. {"extract", "extracting", "lock", "provenance", "save model", "undo"} \subseteq GenPlaces
        /\ {"installed", "failed", "restored", "killed"} = GenEnd
    BY DEF GenPlaces, GenPlace, GenEnd
  <2>q. {"begin", "lock", "extract", "extracting", "provenance"} \cap Moving = {}
        /\ {"extract", "extracting", "provenance"} \subseteq Holding /\ "lock" \notin Holding
    BY DEF Moving, Holding, Installing
  <2>1. CASE GenBegin(r)
    <3>1. CASE gen' = [gen EXCEPT ![r].pc = "lock", ![r].policy = policy]
      <4>1. gen'[r].pc = "lock" /\ gen'[r].done = gen[r].done
        BY <3>1 DEF PairTyped, GenRecord
      <4> QED BY <1>0, <2>1, <2>q, <4>1 DEF GenBegin, OneGen
    <3> QED BY <2>1, <2>e, <2>p, <3>1 DEF GenBegin
  <2>2. CASE GenLock(r)
    <3>1. CASE Goto(r, "extract") /\ genLock' = r
      <4>1. gen'[r].pc = "extract" /\ gen'[r].done = gen[r].done
        BY <2>p, <3>1, GotoIs
      <4> QED BY <1>0, <2>2, <2>q, <3>1, <4>1 DEF GenLock, OneGen
    <3> QED BY <2>2, <2>e, <2>p, <3>1 DEF GenLock
  <2>3. CASE ExtractBegin(r)
    <3>1. gen'[r].pc = "extracting" /\ gen'[r].done = gen[r].done /\ gen[r].pc = "extract" /\ genLock' = genLock
      <4>1. PICK v : gen' = [gen EXCEPT ![r].pc = "extracting", ![r].seen = v]
        BY <2>3 DEF ExtractBegin
      <4> QED BY <2>3, <4>1 DEF ExtractBegin, PairTyped, GenRecord
    <3> QED BY <1>0, <2>q, <3>1 DEF OneGen
  <2>4. CASE ExtractEnd(r)
    <3>1. CASE gen' = [gen EXCEPT ![r].pc = "provenance", ![r].seen = None] /\ UNCHANGED genLock
      <4>1. gen'[r].pc = "provenance" /\ gen'[r].done = gen[r].done
        BY <3>1 DEF PairTyped, GenRecord
      <4> QED BY <1>0, <2>4, <2>q, <3>1, <4>1 DEF ExtractEnd, OneGen
    <3> QED BY <2>4, <2>e, <2>p, <3>1 DEF ExtractEnd
  <2>5. CASE GenProvenance(r)
    <3>1. CASE gen' = [gen EXCEPT ![r].pc = "save model", ![r].found = pair] /\ UNCHANGED genLock
      <4>1. /\ gen'[r].pc = "save model" /\ gen'[r].done = gen[r].done /\ gen'[r].found = pair
            /\ pair' = pair /\ gen[r].pc = "provenance"
        BY <2>5, <3>1 DEF PairTyped, GenRecord, GenProvenance
      <4>2. gen'[r].done = {} /\ genLock' = r
        BY <1>0, <2>q, <3>1, <4>1 DEF OneGen
      <4> QED BY <4>1, <4>2 DEF OneGen, NameInv, InstallInv
    <3> QED BY <2>5, <2>e, <2>p, <3>1 DEF GenProvenance
  <2>6. CASE Verify(r) \/ GenFail(r)
    <3>1. CASE Goto(r, "undo") /\ UNCHANGED genLock /\ UNCHANGED pair /\ gen[r].pc \in Installing
      <4>1. /\ gen'[r].pc = "undo" /\ gen'[r].done = gen[r].done /\ gen'[r].saved = gen[r].saved
            /\ gen'[r].found = gen[r].found
        BY <2>p, <3>1, GotoIs
      <4>2. gen[r].pc \in Moving
        BY <3>1 DEF Moving
      <4> QED BY <1>0, <3>1, <4>1, <4>2 DEF OneGen, NameInv, InstallInv
    <3>2. "verify" \in Installing
      BY DEF Installing
    <3> QED BY <2>6, <2>e, <2>p, <3>1, <3>2 DEF Verify, GenFail
  <2> QED BY <2>1, <2>2, <2>3, <2>4, <2>5, <2>6, RenamesKept, UndoKept DEF GenStep
<1> QED BY <1>2, <1>3 DEF GenInv, OneGen

\* What is under a name was found there, or is the run's own: an installation
\* that has undone everything leaves what it found.
LEMMA RestoredStep ==
  ASSUME PairTyped, GenInv, NEW r \in Run, GenStep(r)
  PROVE  RestoredPairIsFoundPair(r)
<1> SUFFICES ASSUME gen[r].pc = "undo", gen'[r].pc = "restored" PROVE pair' = gen[r].found
  BY DEF RestoredPairIsFoundPair
<1>1. Undo(r)
  BY DEF GenStep, GenBegin, GenLock, ExtractBegin, ExtractEnd, GenProvenance, InstallStep, Save,
     Install, Verify, GenFail
<1>2. UndoKinds(r)
  BY <1>1, UndoIs
<1>3. ASSUME NEW f \in Flag, gen' = [gen EXCEPT ![r].done = @ \ {f}] PROVE FALSE
  BY <1>3, UndoneIs
<1>4. gen[r].done = {} /\ pair' = pair
  <2>1. \A n \in Name : <<"installed", n>> \in Flag /\ <<"saved", n>> \in Flag
    BY DEF Flag
  <2> QED BY <1>2, <1>3, <2>1 DEF UndoKinds
<1>5. NameInv(r, "model") /\ NameInv(r, "llbc")
  BY DEF GenInv, Moving
<1>6. \A n \in Name : pair[n] = gen[r].found[n]
  BY <1>4, <1>5 DEF NameInv, Name
<1>7. pair \in [Name -> MaybeMaker] /\ gen[r].found \in [Name -> MaybeMaker]
  BY DEF PairTyped, GenRecord, Pair
<1>8. pair = [n \in Name |-> pair[n]] /\ gen[r].found = [n \in Name |-> gen[r].found[n]]
  BY <1>7
<1> QED BY <1>4, <1>6, <1>8

-----------------------------------------------------------------------------
(* The model that is published, and the ones below it.                     *)

\* What a step of a generator does to the name of the model and to what it
\* has saved of it: nothing, the end of a run, the four renames.
SameSaves(r) ==
  /\ gen'[r].saved["model"] = gen[r].saved["model"]
  /\ <<"saved", "model">> \in gen'[r].done <=> <<"saved", "model">> \in gen[r].done
ModelMove(r) ==
  \/ pair'["model"] = pair["model"] /\ SameSaves(r)
  \/ pair'["model"] = pair["model"] /\ gen'[r].done = {}
  \/ /\ gen[r].pc = "save model" /\ pair["model"] # None /\ pair'["model"] = None
     /\ <<"saved", "model">> \in gen'[r].done /\ gen'[r].saved["model"] = pair["model"]
  \/ gen[r].pc = "install model" /\ gen'[r].pc = "install llbc" /\ pair'["model"] = r /\ SameSaves(r)
  \/ gen[r].pc = "undo" /\ pair'["model"] = None /\ SameSaves(r)
  \/ /\ gen[r].pc = "undo" /\ <<"saved", "model">> \in gen[r].done
     /\ pair'["model"] = gen[r].saved["model"] /\ <<"saved", "model">> \notin gen'[r].done

\* The name of the model changes by the four moves of the wrapper, and no other.
LEMMA ModelMoves ==
  ASSUME PairTyped, GenInv, NEW r \in Run, GenStep(r)
  PROVE  ModelMove(r)
<1>p. {"extract", "extracting", "lock", "provenance", "save model", "undo"} \subseteq GenPlaces
      /\ {"save llbc", "install model", "install llbc", "verify"} \subseteq GenPlaces
      /\ {"installed", "failed", "restored"} \subseteq GenEnd
  BY DEF GenPlaces, GenPlace, GenEnd
<1>n. <<"saved", "model">> # <<"saved", "llbc">> /\ \A n, m : <<"saved", n>> # <<"installed", m>>
      /\ Name = {"model", "llbc"} /\ "model" # "llbc"
  BY DEF Name
<1>d. gen[r].pc \notin Moving => gen[r].done = {}
  BY DEF GenInv
<1>t. pair \in [Name -> MaybeMaker] /\ gen[r].saved \in [Name -> MaybeMaker]
  BY DEF PairTyped, GenRecord, Pair
<1>e. ASSUME NEW how \in GenEnd, GenEnds(r, how), UNCHANGED pair
      PROVE  ModelMove(r)
  <2>1. gen'[r].done = {}
    BY <1>e, GenEndsIs
  <2> QED BY <1>e, <2>1 DEF ModelMove
<1>g. ASSUME NEW place \in GenPlaces, Goto(r, place), UNCHANGED pair
      PROVE  ModelMove(r)
  BY <1>g, GotoIs DEF ModelMove, SameSaves
<1>1. CASE GenBegin(r) \/ GenLock(r) \/ ExtractBegin(r) \/ ExtractEnd(r) \/ GenProvenance(r)
  <2>1. UNCHANGED pair /\ gen[r].done = {}
    BY <1>1, <1>d DEF GenBegin, GenLock, ExtractBegin, ExtractEnd, GenProvenance, Moving, Installing
  <2>2. CASE GenEnds(r, "failed")
    BY <1>e, <1>p, <2>1, <2>2
  <2>3. CASE gen'[r].saved = gen[r].saved /\ gen'[r].done = gen[r].done
    BY <2>1, <2>3 DEF ModelMove, SameSaves
  <2>4. ASSUME ~ GenEnds(r, "failed") PROVE gen'[r].saved = gen[r].saved /\ gen'[r].done = gen[r].done
    <3>1. CASE ExtractBegin(r)
      <4>1. PICK v : gen' = [gen EXCEPT ![r].pc = "extracting", ![r].seen = v]
        BY <3>1 DEF ExtractBegin
      <4> QED BY <4>1 DEF PairTyped, GenRecord
    <3>2. CASE GenBegin(r)
      BY <2>4, <3>2 DEF GenBegin, PairTyped, GenRecord
    <3>3. CASE GenLock(r)
      <4>1. Goto(r, "extract")
        BY <2>4, <3>3 DEF GenLock
      <4> QED BY <1>p, <4>1, GotoIs
    <3>4. CASE ExtractEnd(r)
      BY <2>4, <3>4 DEF ExtractEnd, PairTyped, GenRecord
    <3>5. CASE GenProvenance(r)
      BY <2>4, <3>5 DEF GenProvenance, PairTyped, GenRecord
    <3> QED BY <1>1, <3>1, <3>2, <3>3, <3>4, <3>5
  <2> QED BY <2>2, <2>3, <2>4
<1>2. CASE Save(r, "model", "save model", "save llbc")
  <2>1. SaveIs(r, "model", "save model", "save llbc")
    BY <1>2, <1>p, <1>n, SaveStep
  <2> QED BY <1>t, <1>n, <2>1 DEF SaveIs, ModelMove, SameSaves
<1>3. CASE Save(r, "llbc", "save llbc", "install model")
  <2>1. SaveIs(r, "llbc", "save llbc", "install model")
    BY <1>3, <1>p, <1>n, SaveStep
  <2> QED BY <1>t, <1>n, <2>1 DEF SaveIs, ModelMove, SameSaves
<1>4. CASE Install(r, "model", "install model", "install llbc")
  <2>1. InstallIs(r, "model", "install model", "install llbc")
    BY <1>4, <1>p, <1>n, InstallOne
  <2> QED BY <1>t, <1>n, <2>1 DEF InstallIs, ModelMove, SameSaves
<1>5. CASE Install(r, "llbc", "install llbc", "verify")
  <2>1. InstallIs(r, "llbc", "install llbc", "verify")
    BY <1>5, <1>p, <1>n, InstallOne
  <2> QED BY <1>t, <1>n, <2>1 DEF InstallIs, ModelMove, SameSaves
<1>6. CASE Verify(r)
  <2>1. CASE GenEnds(r, "installed")
    BY <1>6, <1>e, <1>p, <2>1 DEF Verify
  <2>2. CASE Goto(r, "undo")
    BY <1>6, <1>g, <1>p, <2>2 DEF Verify
  <2> QED BY <1>6, <2>1, <2>2 DEF Verify
<1>7. CASE GenFail(r)
  <2>1. CASE Goto(r, "undo")
    BY <1>7, <1>g, <1>p, <2>1 DEF GenFail
  <2>2. CASE GenEnds(r, "failed")
    BY <1>7, <1>e, <1>p, <2>2 DEF GenFail
  <2> QED BY <1>7, <2>1, <2>2 DEF GenFail
<1>8. CASE Undo(r)
  <2>1. UndoKinds(r) /\ gen[r].pc = "undo"
    BY <1>8, UndoIs DEF Undo
  <2>2. CASE gen[r].done = {} /\ GenEnds(r, "restored") /\ UNCHANGED pair
    BY <1>e, <1>p, <2>2
  <2>3. ASSUME NEW n \in Name, <<"installed", n>> \in gen[r].done,
               gen' = [gen EXCEPT ![r].done = @ \ {<<"installed", n>>}],
               pair' = [pair EXCEPT ![n] = None]
        PROVE  ModelMove(r)
    <3>1. <<"installed", n>> \in Flag
      BY DEF Flag
    <3>2. SameSaves(r)
      BY <1>n, <2>3, <3>1, UndoneIs DEF SameSaves
    <3> QED BY <1>t, <1>n, <2>1, <2>3, <3>2 DEF ModelMove
  <2>4. ASSUME NEW n \in Name, <<"saved", n>> \in gen[r].done,
               gen' = [gen EXCEPT ![r].done = @ \ {<<"saved", n>>}],
               pair' = [pair EXCEPT ![n] = gen[r].saved[n]]
        PROVE  ModelMove(r)
    <3>1. <<"saved", n>> \in Flag
      BY DEF Flag
    <3>2. gen'[r].saved = gen[r].saved /\ gen'[r].done = gen[r].done \ {<<"saved", n>>}
      BY <2>4, <3>1, UndoneIs
    <3> QED BY <1>t, <1>n, <2>1, <2>4, <3>2 DEF ModelMove, SameSaves
  <2> QED BY <2>1, <2>2, <2>3, <2>4 DEF UndoKinds
<1> QED BY <1>1, <1>2, <1>3, <1>4, <1>5, <1>6, <1>7, <1>8 DEF GenStep, InstallStep

\* What is complete stays, as it is; what has left stays away; and what lies
\* below another stays below it until one of the two leaves.
History ==
  \A x \in Maker :
    /\ Seen(x) => Seen(x)' /\ extraction'[x] = extraction[x]
    /\ Dead(x) => Dead(x)'
    /\ \A y \in Run : Above(y, x) => Above(y, x)' \/ Dead(x)' \/ Dead(y)'

\* One run may move the model; the others are where they were.
OneMoves(r) ==
  /\ \A h \in Run : h # r => gen'[h] = gen[h]
  /\ gen'[r].pc \in NotYet => gen[r].pc \in NotYet
  /\ extraction' # extraction => gen[r].pc = "extracting"
  /\ \A m \in Maker : m # r => extraction'[m] = extraction[m]
  /\ ModelMove(r)

\* Each of these moves keeps the order of the saved models, and only adds to it.
LEMMA HistoryKept ==
  ASSUME PairTyped, GenInv, SeenInv, NEW r \in Run, OneMoves(r)
  PROVE  SeenInv' /\ History
<1>0. /\ \A h \in Run : h # r => gen'[h] = gen[h]
      /\ gen'[r].pc \in NotYet => gen[r].pc \in NotYet
      /\ extraction' # extraction => gen[r].pc = "extracting"
      /\ \A m \in Maker : m # r => extraction'[m] = extraction[m]
      /\ ModelMove(r)
  BY DEF OneMoves
<1>m. Run \subseteq Maker /\ None \notin Maker /\ r \in Maker
  BY RunAssumption DEF Maker
<1>1. ASSUME NEW x \in Maker, Seen(x) PROVE Seen(x)' /\ extraction'[x] = extraction[x]
  <2>1. CASE x = r
    <3>1. gen[r].pc \notin NotYet
      BY <1>1, <2>1 DEF Seen
    <3>2. gen[r].pc # "extracting"
      BY <3>1 DEF NotYet
    <3> QED BY <1>0, <1>1, <2>1, <3>1, <3>2 DEF Seen
  <2>2. CASE x # r
    BY <1>0, <1>1, <2>2 DEF Seen
  <2> QED BY <2>1, <2>2
<1>2. ASSUME NEW h \in Run, h # r, NEW x PROVE Saves(h, x)' <=> Saves(h, x)
  BY <1>0, <1>2 DEF Saves
<1>i. "install model" \in NotYet /\ "install llbc" \notin NotYet
  BY DEF NotYet
<1>3. ASSUME NEW x \in Maker, Live(x)' PROVE Live(x) \/ (x = r /\ ~ Seen(r) /\ Seen(r)')
  <2>1. CASE \E h \in Run : h # r /\ Saves(h, x)'
    BY <1>2, <2>1 DEF Live
  <2>2. CASE pair'["model"] = x
    BY <1>0, <1>m, <1>i, <2>2 DEF ModelMove, Live, Saves, Seen
  <2>3. CASE Saves(r, x)'
    BY <1>0, <1>m, <2>3 DEF ModelMove, SameSaves, Live, Saves
  <2> QED BY <1>3, <2>1, <2>2, <2>3 DEF Live
<1>4. ASSUME NEW x \in Maker, Dead(x) PROVE Dead(x)'
  <2>1. Seen(x) /\ ~ Live(x)
    BY <1>4 DEF Dead
  <2>2. Seen(x)' /\ ~ Live(x)'
    BY <1>1, <1>3, <2>1
  <2> QED BY <2>2 DEF Dead
<1>5. SeenInv'
  <2>1. ASSUME NEW x \in Maker, Live(x)' PROVE Seen(x)'
    BY <1>1, <1>3, <2>1 DEF SeenInv
  <2> QED BY <2>1 DEF SeenInv
<1>6. ASSUME NEW x \in Maker, NEW y \in Run, Above(y, x) PROVE Above(y, x)' \/ Dead(x)' \/ Dead(y)'
  <2>0. y # x /\ Seen(y) /\ Saves(y, x) /\ Seen(y)'
    BY <1>1, <1>m, <1>6 DEF Above
  <2>1. CASE y # r
    BY <1>2, <2>0, <2>1 DEF Above
  <2>2. CASE y = r /\ Saves(r, x)'
    BY <2>0, <2>2 DEF Above
  <2>3. CASE y = r /\ ~ Saves(r, x)'
    <3>1. gen[r].done # {} /\ gen[r].pc \in Moving /\ gen[r].pc \notin NotYet
      BY <2>0, <2>3 DEF GenInv, Saves, Seen
    <3>2. genLock = r
      BY <3>1 DEF GenInv, Moving, Holding
    <3>3. \A h \in Run : h # r => gen[h].done = {}
      BY <3>2 DEF GenInv, Moving, Holding
    <3>4. \A h \in Run : \A z : h # r => ~ Saves(h, z)'
      <4>1. ASSUME NEW h \in Run, h # r, NEW z PROVE ~ Saves(h, z)'
        <5>1. ~ Saves(h, z)
          BY <3>3, <4>1 DEF Saves
        <5> QED BY <1>2, <4>1, <5>1
      <4> QED BY <4>1
    <3>5. pair["model"] = r \/ pair["model"] = None
      BY <2>0, <2>3, <3>1 DEF GenInv, NameInv, Saves
    <3>6. CASE pair'["model"] = pair["model"] /\ gen'[r].done = {}
      <4>1. ~ Live(x)'
        <5>1. pair'["model"] # x
          BY <1>m, <2>0, <2>3, <3>5, <3>6
        <5>2. \A h \in Run : ~ Saves(h, x)'
          BY <2>3, <3>4
        <5> QED BY <5>1, <5>2 DEF Live
      <4>2. Seen(x)
        BY <2>0, <2>3 DEF SeenInv, Live
      <4> QED BY <1>1, <4>1, <4>2 DEF Dead
    <3>7. CASE gen[r].pc = "undo" /\ pair'["model"] = gen[r].saved["model"] /\ <<"saved", "model">> \notin gen'[r].done
      <4>1. pair'["model"] # r
        BY <2>0, <2>3, <3>7 DEF Saves
      <4>2. \A h \in Run : ~ Saves(h, r)'
        BY <3>4, <3>7 DEF Saves
      <4>3. ~ Live(r)'
        BY <4>1, <4>2 DEF Live
      <4> QED BY <2>0, <2>3, <4>3 DEF Dead
    <3>8. gen[r].pc # "save model" /\ ~ SameSaves(r)
      BY <2>0, <2>3, <3>1 DEF NotYet, SameSaves, Saves
    <3> QED BY <1>0, <3>6, <3>7, <3>8 DEF ModelMove
  <2> QED BY <2>1, <2>2, <2>3
<1> QED BY <1>1, <1>4, <1>5, <1>6 DEF History

\* The pair after any step of the system: typed, and its history kept.
PairKept == PairTyped' /\ GenInv' /\ SeenInv' /\ History
NoneBegins == \A h \in Run : gen'[h].pc # "idle" => gen[h].pc # "idle"

\* A step of a generator.
LEMMA GenerateKeepsPair ==
  ASSUME PairTyped, GenInv, SeenInv, NEW r \in Run, GenStep(r)
  PROVE  PairKept /\ NoneBegins
<1>1. GenEffect(r) /\ UNCHANGED inputVars
  BY GenEffects
<1>2. PairTyped'
  BY <1>1 DEF PairTyped, GenEffect, inputVars
<1>3. GenInv'
  BY GenInvStep
<1>4. OneMoves(r)
  BY <1>1, ModelMoves DEF GenEffect, OneMoves
<1>5. SeenInv' /\ History
  BY <1>4, HistoryKept
<1>6. NoneBegins
  BY <1>1 DEF GenEffect, NoneBegins
<1> QED BY <1>2, <1>3, <1>5, <1>6 DEF PairKept

\* The stage that starts a generator.
LEMMA BeginKeepsPair ==
  ASSUME PairTyped, GenInv, SeenInv, NEW r \in Run, gen[r].pc = "idle", Goto(r, "begin"),
         UNCHANGED <<inputVars, pair, extraction, genLock>>
  PROVE  PairKept
<1>1. "begin" \in GenPlaces
  BY DEF GenPlaces, GenPlace
<1>2. /\ gen' \in [Run -> GenRecord] /\ gen'[r].pc = "begin"
      /\ gen'[r].done = gen[r].done /\ gen'[r].saved = gen[r].saved /\ gen'[r].found = gen[r].found
      /\ \A h \in Run : h # r => gen'[h] = gen[h]
  BY <1>1, GotoIs
<1>3. PairTyped'
  BY <1>2 DEF PairTyped, inputVars
<1>4. "idle" \in NotYet /\ "begin" \notin Holding /\ "begin" \notin Moving /\ "idle" \notin Moving
  BY DEF NotYet, Holding, Moving, Installing
<1>5. GenInv'
  <2>1. ASSUME NEW h \in Run, h # r PROVE OneGen(h)'
    <3>1. gen'[h] = gen[h] /\ OneGen(h) /\ pair' = pair /\ genLock' = genLock
      BY <1>2, <2>1 DEF GenInv, OneGen
    <3> QED BY <3>1 DEF OneGen, NameInv, InstallInv
  <2>2. OneGen(r)'
    BY <1>2, <1>4 DEF GenInv, OneGen
  <2> QED BY <2>1, <2>2 DEF GenInv, OneGen
<1>6. OneMoves(r)
  BY <1>2, <1>4 DEF OneMoves, ModelMove, SameSaves
<1>7. SeenInv' /\ History
  BY <1>6, HistoryKept
<1> QED BY <1>3, <1>5, <1>7 DEF PairKept

\* A generator that is killed.
LEMMA KillKeepsPair ==
  ASSUME PairTyped, GenInv, SeenInv, NEW r \in Run, GenAlive(r), GenEnds(r, "killed"),
         UNCHANGED <<inputVars, pair, extraction>>
  PROVE  PairKept /\ NoneBegins
<1>1. "killed" \in GenEnd
  BY DEF GenEnd
<1>2. /\ gen' \in [Run -> GenRecord] /\ gen'[r].pc = "killed" /\ gen'[r].done = {}
      /\ \A h \in Run : h # r => gen'[h] = gen[h]
      /\ genLock' = (IF genLock = r THEN None ELSE genLock) /\ genLock' \in Run \cup {None}
  BY <1>1, GenEndsIs
<1>3. PairTyped'
  BY <1>2 DEF PairTyped, inputVars
<1>4. "killed" \notin NotYet /\ "killed" \notin Holding /\ "killed" \notin Moving
  BY DEF NotYet, Holding, Moving, Installing
<1>5. GenInv'
  <2>1. ASSUME NEW h \in Run, h # r PROVE OneGen(h)'
    <3>1. gen'[h] = gen[h] /\ OneGen(h) /\ pair' = pair
      BY <1>2, <2>1 DEF GenInv, OneGen
    <3>2. genLock = h => genLock' = h
      BY <1>2, <2>1
    <3> QED BY <3>1, <3>2 DEF OneGen, NameInv, InstallInv
  <2>2. OneGen(r)'
    BY <1>2, <1>4 DEF OneGen
  <2> QED BY <2>1, <2>2 DEF GenInv, OneGen
<1>6. OneMoves(r)
  BY <1>2, <1>4 DEF OneMoves, ModelMove
<1>7. SeenInv' /\ History
  BY <1>6, HistoryKept
<1>8. NoneBegins
  BY <1>2 DEF NoneBegins, GenAlive
<1> QED BY <1>3, <1>5, <1>7, <1>8 DEF PairKept

\* All other steps.
LEMMA OthersKeepPair ==
  ASSUME PairTyped, GenInv, SeenInv, UNCHANGED pairVars, input' \in [Input -> Version], policy' \in Version
  PROVE  PairKept /\ NoneBegins
<1>1. pair' = pair /\ extraction' = extraction /\ genLock' = genLock /\ gen' = gen
  BY DEF pairVars
<1>2. PairTyped'
  BY <1>1 DEF PairTyped
<1>3. GenInv'
  BY <1>1 DEF GenInv, NameInv, InstallInv
<1>4. \A x : Seen(x)' <=> Seen(x)
  BY <1>1 DEF Seen
<1>5. \A x : Live(x)' <=> Live(x)
  BY <1>1 DEF Live, Saves
<1>6. \A x, y : Above(y, x)' <=> Above(y, x)
  BY <1>1 DEF Above, Seen, Saves
<1>7. SeenInv'
  BY <1>4, <1>5 DEF SeenInv
<1>8. History
  BY <1>1, <1>4, <1>5, <1>6 DEF History, Dead
<1> QED BY <1>1, <1>2, <1>3, <1>7, <1>8 DEF PairKept, NoneBegins

-----------------------------------------------------------------------------
(* The gate, one statement at a time.                                      *)

\* Where a gate goes, and what it keeps in mind.
GateGoes(g, to) ==
  /\ gate' \in [Run -> GateRecord] /\ gate'[g].pc = to
  /\ \A h \in Run : h # g => gate'[h] = gate[h]
SameMind(g) ==
  gate'[g].policy = gate[g].policy /\ gate'[g].sha = gate[g].sha /\ gate'[g].generated = gate[g].generated

\* A statement that only advances the gate changes its place and nothing it remembers.
LEMMA StepIs ==
  ASSUME gate \in [Run -> GateRecord], NEW g \in Run, NEW to \in GatePlaces, Step(g, to)
  PROVE  GateGoes(g, to) /\ SameMind(g) /\ gate'[g].stage = gate[g].stage
BY DEF Step, GateGoes, SameMind, GateRecord

\* A gate that ends forgets the pair it recorded.
LEMMA GoneIs ==
  ASSUME gate \in [Run -> GateRecord], NEW g \in Run, NEW how \in Ended, Gone(g, how)
  PROVE  GateGoes(g, how) /\ gate'[g].generated = NoPair
<1>1. [NewGate EXCEPT !.pc = how] \in GateRecord
  BY DEF NewGate, GateRecord, GatePlaces, NoPair, Pair, MaybeMaker, MaybeVersion
<1>2. PICK e \in GateRecord : e = [NewGate EXCEPT !.pc = how]
  BY <1>1
<1>3. e.pc = how /\ e.generated = NoPair
  BY <1>2 DEF NewGate
<1>4. gate' = [gate EXCEPT ![g] = e]
  BY <1>2 DEF Gone
<1> QED BY <1>2, <1>3, <1>4 DEF GateGoes

\* The end of a gate, by its handler or by a kill, whatever it was at.
Ending(g) ==
  /\ gate[g].pc \in Working
  /\ \/ GateGoes(g, "failed") /\ child'[g] = None /\ clean'[g].pc = "idle" /\ report'.status = "failed"
     \/ GateGoes(g, "killed") /\ child' = child /\ clean' = clean /\ report' = report
  /\ gate'[g].generated = NoPair /\ lock' = None
  /\ \A h \in Run : h # g => child'[h] = child[h] /\ clean'[h] = clean[h]
  /\ logs' = logs /\ UNCHANGED <<inputVars, edits>>
  /\ PairKept /\ NoneBegins /\ GateTyped'

\* A build that has not begun is idle.
LEMMA NewCleanIs == NewClean \in CleanRecord /\ NewClean.pc = "idle"
BY DEF NewClean, CleanRecord, NoPair, Pair, MaybeMaker, MaybeVersion

\* A gate that handles a failure ends: the lock is free, the report says failed.
LEMMA FailEnds ==
  ASSUME GateTyped, ChildInv, CleanPlace, NEW g \in Run, gate[g].pc \in Working, Fail(g),
         (child' = child /\ gate[g].pc # "wait") \/ child' = [child EXCEPT ![g] = None],
         (clean' = clean /\ gate[g].pc # "wait" /\ gate[g].pc # "validate") \/ clean' = [clean EXCEPT ![g] = NewClean],
         logs' = logs, audit' \in Run \cup {None}, UNCHANGED <<inputVars, edits, kills>>,
         PairKept, NoneBegins
  PROVE  Ending(g)
<1>1. "failed" \in Ended /\ "killed" \notin Working
  BY DEF Ended, Working, Staged
<1>2. GateGoes(g, "failed") /\ gate'[g].generated = NoPair
  BY <1>1, GoneIs DEF Fail, GateTyped
<1>3. lock' = None /\ report' = [report EXCEPT !.status = "failed"]
  BY DEF Fail
<1>4. report' \in ReportRecord /\ report'.status = "failed"
  BY <1>3 DEF GateTyped, ReportRecord
<1>5. /\ child' \in [Run -> StageNames \cup {None}] /\ child'[g] = None
      /\ \A h \in Run : h # g => child'[h] = child[h]
  BY <1>1 DEF GateTyped, ChildInv
<1>6. /\ clean' \in [Run -> CleanRecord] /\ clean'[g].pc = "idle"
      /\ \A h \in Run : h # g => clean'[h] = clean[h]
  BY <1>1, NewCleanIs DEF GateTyped, CleanPlace
<1>7. GateTyped'
  BY <1>2, <1>3, <1>4, <1>5, <1>6 DEF GateTyped, GateGoes
<1> QED BY <1>2, <1>3, <1>4, <1>5, <1>6, <1>7 DEF Ending

\* A killed gate ends as well, and leaves its child behind.
LEMMA KillEnds ==
  ASSUME GateTyped, NEW g \in Run, gate[g].pc \in Working, Kill(g), PairKept, NoneBegins
  PROVE  Ending(g)
<1>1. "killed" \in Ended
  BY DEF Ended
<1>2. GateGoes(g, "killed") /\ gate'[g].generated = NoPair
  BY <1>1, GoneIs DEF Kill, GateTyped
<1>3. lock' = None /\ kills' = kills + 1 /\ UNCHANGED <<inputVars, child, clean, logs, audit, report, edits>>
  BY DEF Kill, checkout
<1>4. GateTyped'
  BY <1>2, <1>3 DEF GateTyped, GateGoes
<1> QED BY <1>2, <1>3, <1>4 DEF Ending

\* A build whose checks are behind it stays what they found.
LEMMA CleanKept ==
  ASSUME NEW c \in CleanRecord, CleanInv(c), History
  PROVE  CleanInv(c)'
<1> DEFINE G == c.generated["model"]
<1>1. c.generated \in [Name -> MaybeMaker] /\ c.model \in MaybeMaker /\ "model" \in Name
  BY DEF CleanRecord, Pair, Name
<1>2. c.pc \in Begun => OnePair(c.generated) /\ extraction[G].policy = c.policy /\ c.policy \in Version /\ G \in Maker
  BY <1>1 DEF CleanInv, OnePair, MaybeMaker
<1>3. c.pc \in Begun => OnePair(c.generated)' /\ extraction'[G].policy = c.policy
  BY <1>2 DEF History, OnePair
<1>4. c.pc \in Copied => c.pc \in Begun /\ Seen(c.model)' /\ c.model \in Maker
  BY <1>1 DEF History, CleanInv, MaybeMaker, Copied, Begun
<1>5. c.pc = "recheck" => c.model = G \/ Dead(G)' \/ Dead(c.model)' \/ Above(c.model, G)'
  <2> SUFFICES ASSUME c.pc = "recheck" PROVE c.model = G \/ Dead(G)' \/ Dead(c.model)' \/ Above(c.model, G)'
    OBVIOUS
  <2>1. G \in Maker /\ c.model \in Maker
    BY <1>2, <1>4 DEF Copied, Begun
  <2>2. c.model = G \/ Dead(G) \/ Dead(c.model) \/ Above(c.model, G)
    BY DEF CleanInv
  <2>3. Above(c.model, G) => c.model \in Run
    BY DEF Above
  <2> HIDE DEF G
  <2> QED BY <2>1, <2>2, <2>3 DEF History
<1>6. c.pc = "compare" => c.model = G \/ Dead(c.model)'
  BY <1>4 DEF History, CleanInv, Copied
<1>7. /\ c.pc = "passed" => c.model = G
      /\ c.pc \in Rechecked => c.sha = c.policy
      /\ c.pc \in Copied => c.model # None
  BY DEF CleanInv
<1> QED BY <1>2, <1>3, <1>4, <1>5, <1>6, <1>7 DEF CleanInv

\* Nothing is claimed of a gate that is not at work.
LEMMA WorkIdle ==
  ASSUME NEW g \in Run, gate'[g].pc \notin Working
  PROVE  Work(g)'
<1>1. Staged \subseteq Working /\ Hashed \subseteq Working /\ Validated \subseteq Working /\ "hash" \in Working
      /\ {"generated", "audit", "validate", "sources", "models", "last"} \subseteq Working
  BY DEF Staged, Hashed, Validated, Working
<1>2. /\ gate'[g].pc \notin Staged /\ gate'[g].pc \notin Hashed /\ gate'[g].pc \notin Validated
      /\ gate'[g].pc # "hash" /\ gate'[g].pc # "models" /\ gate'[g].pc # "last"
  BY <1>1
<1>3. StageInv(g)' /\ EvidenceInv(g)'
  BY <1>2 DEF StageInv, EvidenceInv, Opened
<1>4. MirrorInv(g)'
  BY <1>2 DEF MirrorInv
<1>5. PolicyCount(g)' /\ SourceCount(g)' /\ PairCount(g)'
  BY <1>2 DEF PolicyCount, SourceCount, PairCount
<1> QED BY <1>3, <1>4, <1>5 DEF Work

\* A clean build that a step leaves alone.
LEMMA BuildOf ==
  ASSUME clean \in [Run -> CleanRecord], BuildInv, History, UNCHANGED <<inputVars, edits>>,
         NEW h \in Run, clean'[h] = clean[h] \/ clean'[h].pc = "idle"
  PROVE  (CleanInv(clean[h]) /\ CopyCount(clean[h]))'
<1>1. CASE clean'[h] = clean[h]
  <2>1. PICK c \in CleanRecord : c = clean[h]
    OBVIOUS
  <2>2. CleanInv(c) /\ CopyCount(c)
    BY <2>1 DEF BuildInv
  <2>3. CleanInv(c)'
    BY <2>2, CleanKept
  <2>4. CopyCount(c)'
    BY <2>2 DEF CopyCount, inputVars
  <2> QED BY <1>1, <2>1, <2>3, <2>4
<1>2. CASE clean'[h].pc = "idle"
  BY <1>2 DEF CleanInv, CopyCount, Begun, Copied, Rechecked
<1> QED BY <1>1, <1>2

\* A gate that ends leaves all it should, and an orphan at most.
LEMMA EndingKeeps ==
  ASSUME IInv, NEW g \in Run, Ending(g)
  PROVE  IInv'
<1>1. /\ PairTyped' /\ GenInv' /\ SeenInv' /\ History /\ GateTyped' /\ NoneBegins
      /\ lock' = None /\ logs' = logs /\ gate'[g].generated = NoPair
      /\ gate'[g].pc \in {"failed", "killed"} /\ gate[g].pc \in Working
      /\ \A h \in Run : h # g => gate'[h] = gate[h] /\ child'[h] = child[h] /\ clean'[h] = clean[h]
  BY DEF Ending, PairKept, GateGoes
<1>2. lock = g /\ g # None
  BY <1>1, RunAssumption DEF IInv, Rest, LockInv
<1>3. gate'[g].pc \notin Working /\ gate'[g].pc \notin Staged /\ gate'[g].pc \in Ended
  BY <1>1 DEF Working, Staged, Ended
<1>4. \A h \in Run : gate'[h].pc \notin Working
  BY <1>1, <1>2, <1>3 DEF IInv, Rest, LockInv
<1>5. LockInv'
  BY <1>1, <1>4, RunAssumption DEF LockInv
<1>6. ChildInv'
  <2> SUFFICES ASSUME NEW h \in Run, child'[h] # None
               PROVE  gate'[h].pc = "killed" \/ (gate'[h].pc = "wait" /\ child'[h] = Here(h)')
    BY DEF ChildInv
  <2>1. CASE h = g
    BY <2>1 DEF Ending, GateGoes
  <2>2. CASE h # g
    BY <1>1, <2>2 DEF IInv, Rest, ChildInv, Here
  <2> QED BY <2>1, <2>2
<1>7. BeginInv'
  <2> SUFFICES ASSUME NEW h \in Run, gen'[h].pc # "idle" PROVE gate'[h].pc \in Ended
    BY DEF BeginInv
  <2>1. gen[h].pc # "idle"
    BY <1>1 DEF NoneBegins
  <2>2. CASE h # g
    <3>1. gate[h].pc \notin Staged
      BY <1>1, <1>4, <2>2 DEF Working
    <3> QED BY <1>1, <2>1, <2>2, <3>1 DEF IInv, Rest, BeginInv, Opened
  <2> QED BY <1>3, <2>2
<1>8. report'.status # "passed"
  BY <1>2 DEF Ending, IInv, Rest, ReportInv
<1>9. ReportInv' /\ PassedInv'
  BY <1>1, <1>8 DEF ReportInv, PassedInv
<1>10. CleanPlace'
  <2> SUFFICES ASSUME NEW h \in Run, clean'[h].pc # "idle"
               PROVE  gate'[h].pc = "killed" \/ (gate'[h].pc \in {"wait", "validate"} /\ Here(h)' = "public-decoder")
    BY DEF CleanPlace
  <2>1. CASE h = g
    BY <2>1 DEF Ending, GateGoes
  <2>2. CASE h # g
    BY <1>1, <2>2 DEF IInv, Rest, CleanPlace, Here
  <2> QED BY <2>1, <2>2
<1>11. IdleInv'
  BY <1>1 DEF IInv, Rest, IdleInv
<1>12. BuildInv'
  <2>1. \A h \in Run : clean'[h] = clean[h] \/ clean'[h].pc = "idle"
    BY <1>1 DEF Ending
  <2> QED BY <1>1, <2>1, BuildOf DEF Ending, IInv, Rest, GateTyped, BuildInv
<1>13. WorkInv'
  BY <1>4, WorkIdle DEF WorkInv
<1> QED BY <1>1, <1>5, <1>6, <1>7, <1>9, <1>10, <1>11, <1>12, <1>13 DEF IInv, Rest

-----------------------------------------------------------------------------
(* The steps that leave the gates where they are.                          *)

Quiet == UNCHANGED <<gate, lock, audit, report>> /\ PairKept /\ NoneBegins

\* What the gate remembers, and the report says, stays true.
LEMMA MirrorKept ==
  ASSUME IInv, NEW h \in Run, gate'[h] = gate[h], report' = report, History
  PROVE  MirrorInv(h)'
<1>1. MirrorInv(h) /\ report \in ReportRecord /\ gate[h] \in GateRecord
  BY DEF IInv, Rest, WorkInv, Work, GateTyped
<1>2. \A p \in Pair : OnePair(p) => OnePair(p)'
  <2> SUFFICES ASSUME NEW p \in Pair, OnePair(p) PROVE OnePair(p)'
    OBVIOUS
  <2>1. p["model"] \in Maker
    BY DEF OnePair, Pair, Name, MaybeMaker
  <2> QED BY <2>1 DEF OnePair, History
<1>3. gate[h].generated \in Pair
  BY <1>1 DEF GateRecord
<1>4. gate[h].pc \in Validated => CleanInv(report.clean)'
  <2>1. PICK c \in CleanRecord : c = report.clean
    BY <1>1 DEF ReportRecord
  <2>2. gate[h].pc \in Validated => CleanInv(c)
    BY <1>1, <2>1 DEF MirrorInv
  <2>3. gate[h].pc \in Validated => CleanInv(c)'
    BY <2>2, CleanKept
  <2>4. c = report'.clean
    BY <2>1
  <2> QED BY <2>3, <2>4
<1>5. OnePair(gate[h].generated) => OnePair(gate[h].generated)'
  <2>1. PICK p \in Pair : p = gate[h].generated
    BY <1>3
  <2>2. p = gate'[h].generated
    BY <2>1
  <2> QED BY <1>2, <2>1, <2>2
<1> QED BY <1>1, <1>4, <1>5 DEF MirrorInv, Past

\* So does what a passed report says.
LEMMA PassedKept ==
  ASSUME IInv, report' = report, History, edits' \in Nat, edits' >= edits
  PROVE  PassedInv'
<1> SUFFICES ASSUME report.status = "passed" PROVE PassedInv'
  BY DEF PassedInv
<1>1. PassedInv /\ report \in ReportRecord /\ edits \in Nat
  BY DEF IInv, Rest, GateTyped
<1>2. PICK p \in Pair : p = report.generated
  BY <1>1 DEF ReportRecord
<1>3. OnePair(p) /\ p["model"] \in Maker
  BY <1>1, <1>2 DEF PassedInv, OnePair, Pair, Name, MaybeMaker
<1>4. OnePair(p)' /\ extraction'[p["model"]] = extraction[p["model"]]
  BY <1>3 DEF OnePair, History
<1>5. PICK c \in CleanRecord : c = report.clean
  BY <1>1 DEF ReportRecord
<1>6. CleanInv(c)'
  BY <1>1, <1>5, CleanKept DEF PassedInv
<1>7. edits >= 4 => edits' >= 4
  BY <1>1
<1>8. p = report'.generated /\ c = report'.clean
  BY <1>2, <1>5
<1> QED BY <1>1, <1>2, <1>4, <1>5, <1>6, <1>7, <1>8 DEF PassedInv

\* The logs and the audit of the gate at work, and of a passed run.
LEMMA EvidenceKept ==
  ASSUME IInv, NEW h \in Run, gate'[h] = gate[h], audit' = audit, logs' = logs,
         \A k \in Run : gate[k].pc = "killed" => gate'[k].pc = "killed"
  PROVE  EvidenceInv(h)'
<1>1. EvidenceInv(h) /\ logs \in [StageNames -> SUBSET Run]
  BY DEF IInv, Rest, WorkInv, Work, GateTyped
<1>2. \A j \in DOMAIN Stages : Stages[j] \in StageNames
  BY DEF StageNames
<1>3. \A j : Opened(h, j)' <=> Opened(h, j)
  BY DEF Opened
<1>4. \A j \in DOMAIN Stages : OwnLog(h, Stages[j]) => OwnLog(h, Stages[j])'
  BY <1>1, <1>2 DEF OwnLog
<1> QED BY <1>1, <1>3, <1>4 DEF EvidenceInv, Past

\* What the counts say, when nothing is edited and the clean build stands.
LEMMA CountsKept ==
  ASSUME IInv, NEW h \in Run, gate'[h] = gate[h], clean'[h] = clean[h], report' = report, History,
         UNCHANGED <<inputVars, edits>>
  PROVE  PolicyCount(h)' /\ SourceCount(h)' /\ PairCount(h)'
<1>1. PolicyCount(h) /\ SourceCount(h) /\ PairCount(h) /\ MirrorInv(h) /\ gate[h] \in GateRecord
  BY DEF IInv, Rest, WorkInv, Work, GateTyped
<1>2. PolicyCount(h)'
  BY <1>1 DEF PolicyCount, inputVars
<1>3. SourceCount(h)'
  BY <1>1 DEF SourceCount, inputVars
<1>4. gate[h].pc \in Staged /\ gate[h].generated["model"] # None =>
        extraction'[gate[h].generated["model"]] = extraction[gate[h].generated["model"]]
  BY <1>1 DEF MirrorInv, OnePair, Seen, History
<1>5. PairCount(h)'
  BY <1>1, <1>4 DEF PairCount, inputVars
<1> QED BY <1>2, <1>3, <1>5

\* What every quiet step keeps.
LEMMA QuietKeeps ==
  ASSUME IInv, Quiet, edits' \in Nat, edits' >= edits
  PROVE  /\ LockInv' /\ BeginInv' /\ IdleInv' /\ PassedInv'
         /\ \A h \in Run : StageInv(h)' /\ MirrorInv(h)'
<1>1. gate' = gate /\ lock' = lock /\ audit' = audit /\ report' = report /\ History
  BY DEF Quiet, PairKept
<1>2. LockInv' /\ IdleInv'
  BY <1>1 DEF IInv, Rest, LockInv, IdleInv
<1>3. BeginInv'
  BY <1>1 DEF Quiet, NoneBegins, IInv, Rest, BeginInv, Opened
<1>4. PassedInv'
  BY <1>1, PassedKept
<1>5. \A h \in Run : StageInv(h)'
  BY <1>1 DEF IInv, Rest, WorkInv, Work, StageInv, Here
<1>6. \A h \in Run : MirrorInv(h)'
  BY <1>1, MirrorKept
<1> QED BY <1>2, <1>3, <1>4, <1>5, <1>6

\* A step of the generator.
LEMMA GenerateKeeps ==
  ASSUME IInv, NEW g \in Run, Generate(g)
  PROVE  IInv'
<1>1. GenStep(g) /\ UNCHANGED <<gateVars, bounds>>
  BY DEF Generate
<1>2. PairKept /\ NoneBegins /\ UNCHANGED inputVars
  BY <1>1, GenerateKeepsPair, GenEffects DEF IInv
<1>3. /\ gate' = gate /\ lock' = lock /\ audit' = audit /\ report' = report /\ child' = child /\ clean' = clean
      /\ logs' = logs /\ edits' = edits /\ kills' = kills /\ edits \in Nat
  BY <1>1 DEF gateVars, bounds, IInv, GateTyped
<1>4. Quiet /\ GateTyped' /\ History
  BY <1>2, <1>3 DEF Quiet, IInv, GateTyped, PairKept
<1>5. /\ LockInv' /\ BeginInv' /\ IdleInv' /\ PassedInv'
      /\ \A h \in Run : StageInv(h)' /\ MirrorInv(h)'
  BY <1>3, <1>4, QuietKeeps
<1>6. ChildInv' /\ CleanPlace' /\ ReportInv'
  BY <1>3 DEF IInv, Rest, ChildInv, CleanPlace, ReportInv, Here, OwnLog
<1>7. BuildInv'
  BY <1>2, <1>3, <1>4, BuildOf DEF IInv, Rest, GateTyped, BuildInv
<1>8. WorkInv'
  BY <1>2, <1>3, <1>4, <1>5, EvidenceKept, CountsKept DEF Work, WorkInv
<1> QED BY <1>2, <1>4, <1>5, <1>6, <1>7, <1>8 DEF PairKept, IInv, Rest

\* Output of a stage: of the gate at work, or of a killed one.
LEMMA WriteKeeps ==
  ASSUME IInv, NEW g \in Run, Write(g)
  PROVE  IInv'
<1>1. /\ pairVars' = pairVars /\ gate' = gate /\ lock' = lock /\ audit' = audit /\ report' = report
      /\ child' = child /\ clean' = clean /\ edits' = edits /\ kills' = kills /\ edits \in Nat
      /\ input' = input /\ policy' = policy /\ child[g] # None
      /\ logs' = [logs EXCEPT ![child[g]] = @ \cup {g}]
  BY DEF Write, checkout, bounds, inputVars, IInv, GateTyped
<1>2. PairKept /\ NoneBegins
  BY <1>1, OthersKeepPair DEF IInv, PairTyped
<1>3. logs \in [StageNames -> SUBSET Run] /\ child[g] \in StageNames
  BY <1>1 DEF IInv, GateTyped
<1>4. Quiet /\ GateTyped' /\ History
  BY <1>1, <1>2, <1>3 DEF Quiet, IInv, GateTyped, PairKept
<1>5. /\ LockInv' /\ BeginInv' /\ IdleInv' /\ PassedInv'
      /\ \A h \in Run : StageInv(h)' /\ MirrorInv(h)'
  BY <1>1, <1>4, QuietKeeps
<1>6. ChildInv' /\ CleanPlace'
  BY <1>1 DEF IInv, Rest, ChildInv, CleanPlace, Here
<1>7. BuildInv'
  BY <1>1, <1>4, BuildOf DEF IInv, Rest, GateTyped, BuildInv, inputVars
<1>8. gate[g].pc = "killed" \/ lock = g
  <2>1. gate[g].pc = "killed" \/ gate[g].pc = "wait"
    BY <1>1 DEF IInv, Rest, ChildInv
  <2>2. gate[g].pc = "wait" => lock = g
    BY DEF IInv, Rest, LockInv, Working, Staged
  <2> QED BY <2>1, <2>2
<1>9. ASSUME NEW x \in Run, x = g \/ gate[g].pc = "killed", NEW s \in StageNames, OwnLog(x, s) PROVE OwnLog(x, s)'
  BY <1>1, <1>3, <1>9 DEF OwnLog
<1>10. ReportInv'
  <2>1. report.status = "passed" => report.run \in Run /\ \A s \in StageNames : OwnLog(report.run, s)'
    <3> SUFFICES ASSUME report.status = "passed" PROVE report.run \in Run /\ \A s \in StageNames : OwnLog(report.run, s)'
      OBVIOUS
    <3>1. PICK x \in Run : x = report.run
      BY DEF IInv, Rest, ReportInv
    <3>2. lock # g
      BY RunAssumption DEF IInv, Rest, ReportInv
    <3>3. \A s \in StageNames : OwnLog(x, s)'
      BY <1>8, <1>9, <3>1, <3>2 DEF IInv, Rest, ReportInv
    <3> QED BY <1>1, <3>1, <3>3 DEF OwnLog
  <2> QED BY <1>1, <2>1 DEF IInv, Rest, ReportInv, OwnLog
<1>11. ASSUME NEW h \in Run PROVE EvidenceInv(h)'
  <2>1. EvidenceInv(h) /\ \A j \in DOMAIN Stages : Stages[j] \in StageNames
    BY DEF IInv, Rest, WorkInv, Work, StageNames
  <2>2. \A j : Opened(h, j)' <=> Opened(h, j)
    BY <1>1 DEF Opened
  <2>3. \A j \in DOMAIN Stages : Opened(h, j) => OwnLog(h, Stages[j])'
    <3> SUFFICES ASSUME NEW j \in DOMAIN Stages, Opened(h, j) PROVE OwnLog(h, Stages[j])'
      OBVIOUS
    <3>1. lock = h
      BY DEF Opened, IInv, Rest, LockInv, Working
    <3> QED BY <1>8, <1>9, <2>1, <3>1 DEF EvidenceInv
  <2> QED BY <1>1, <2>1, <2>2, <2>3 DEF EvidenceInv, Past
<1>12. WorkInv'
  <2>1. UNCHANGED <<inputVars, edits>>
    BY <1>1 DEF inputVars
  <2>2. \A h \in Run : PolicyCount(h)' /\ SourceCount(h)' /\ PairCount(h)'
    BY <1>1, <1>4, <2>1, CountsKept
  <2> QED BY <1>5, <1>11, <2>2 DEF Work, WorkInv
<1> QED BY <1>2, <1>4, <1>5, <1>6, <1>7, <1>10, <1>12 DEF PairKept, IInv, Rest

\* The steps of the clean build and the end of an orphan: clean[g], and the
\* child of a killed gate, are all they touch.
CleanTo(g) ==
  /\ pairVars' = pairVars /\ gate' = gate /\ lock' = lock /\ audit' = audit /\ report' = report
  /\ logs' = logs /\ edits' = edits /\ kills' = kills /\ input' = input /\ policy' = policy
  /\ clean' \in [Run -> CleanRecord] /\ \A h \in Run : h # g => clean'[h] = clean[h]
  /\ \/ child' = child /\ child[g] = "public-decoder"
     \/ child' = [child EXCEPT ![g] = None] /\ clean'[g].pc = "idle" /\ gate[g].pc = "killed"

\* They keep the rest, when the new clean build and what is counted of it are right.
LEMMA CleanToKeeps ==
  ASSUME IInv, NEW g \in Run, CleanTo(g),
         (CleanInv(clean[g]) /\ CopyCount(clean[g]))',
         gate[g].pc \in Staged => PolicyCount(g)' /\ PairCount(g)'
  PROVE  IInv'
<1>1. /\ pairVars' = pairVars /\ gate' = gate /\ lock' = lock /\ audit' = audit /\ report' = report
      /\ logs' = logs /\ edits' = edits /\ kills' = kills /\ input' = input /\ policy' = policy
      /\ clean' \in [Run -> CleanRecord] /\ \A h \in Run : h # g => clean'[h] = clean[h]
      /\ edits \in Nat /\ UNCHANGED <<inputVars, edits>>
  BY DEF CleanTo, IInv, GateTyped, inputVars
<1>2. PairKept /\ NoneBegins
  BY <1>1, OthersKeepPair DEF IInv, PairTyped
<1>3. child' \in [Run -> StageNames \cup {None}]
  BY DEF CleanTo, IInv, GateTyped
<1>4. Quiet /\ GateTyped' /\ History
  BY <1>1, <1>2, <1>3 DEF Quiet, IInv, GateTyped, PairKept
<1>5. /\ LockInv' /\ BeginInv' /\ IdleInv' /\ PassedInv'
      /\ \A h \in Run : StageInv(h)' /\ MirrorInv(h)'
  BY <1>1, <1>4, QuietKeeps
<1>6. ReportInv'
  BY <1>1 DEF IInv, Rest, ReportInv, OwnLog
<1>7. ChildInv'
  BY <1>1 DEF CleanTo, IInv, Rest, ChildInv, Here, GateTyped
<1>8. CleanPlace'
  <2> SUFFICES ASSUME NEW h \in Run, clean'[h].pc # "idle"
               PROVE  gate[h].pc = "killed" \/ (gate[h].pc \in {"wait", "validate"} /\ Here(h) = "public-decoder")
    BY <1>1 DEF CleanPlace, Here
  <2>1. CASE h # g
    BY <1>1, <2>1 DEF IInv, Rest, CleanPlace
  <2>2. CASE h = g
    <3>1. child[g] = "public-decoder" /\ "public-decoder" # None
      BY <2>2, StagesAssumption DEF CleanTo
    <3> QED BY <2>2, <3>1 DEF IInv, Rest, ChildInv
  <2> QED BY <2>1, <2>2
<1>9. BuildInv'
  <2>1. \A h \in Run : h # g => (CleanInv(clean[h]) /\ CopyCount(clean[h]))'
    BY <1>1, <1>4, BuildOf DEF IInv, Rest, GateTyped
  <2> QED BY <2>1 DEF BuildInv
<1>10. WorkInv'
  <2>1. \A h \in Run : EvidenceInv(h)'
    BY <1>1, EvidenceKept
  <2>2. \A h \in Run : h # g => PolicyCount(h)' /\ SourceCount(h)' /\ PairCount(h)'
    BY <1>1, <1>4, CountsKept
  <2>3. PolicyCount(g)' /\ SourceCount(g)' /\ PairCount(g)'
    <3>1. SourceCount(g)'
      BY <1>1 DEF SourceCount, IInv, Rest, WorkInv, Work
    <3>2. CASE gate[g].pc \in Staged
      BY <3>1, <3>2
    <3>3. CASE gate[g].pc \notin Staged
      <4>1. PolicyCount(g)'
        <5>1. PolicyCount(g) /\ gate'[g] = gate[g] /\ gate'[g].pc \notin Validated /\ gate'[g].pc # "models" /\ gate'[g].pc # "last"
          BY <1>1, <3>3 DEF IInv, Rest, WorkInv, Work, Validated, Staged
        <5> QED BY <1>1, <3>3, <5>1 DEF PolicyCount
      <4>2. PairCount(g)'
        BY <1>1, <3>3 DEF PairCount
      <4> QED BY <3>1, <4>1, <4>2
    <3> QED BY <3>2, <3>3
  <2> QED BY <1>5, <2>1, <2>2, <2>3 DEF Work, WorkInv
<1> QED BY <1>2, <1>4, <1>5, <1>6, <1>7, <1>8, <1>9, <1>10 DEF PairKept, IInv, Rest

\* What the statements of the clean build have in common.
LEMMA CleanToIs ==
  ASSUME IInv, NEW g \in Run, NEW d \in CleanRecord, child[g] = "public-decoder",
         clean' = [clean EXCEPT ![g] = d],
         UNCHANGED <<checkout, lock, gate, child, logs, audit, report, bounds>>
  PROVE  CleanTo(g) /\ clean'[g] = d
BY DEF CleanTo, checkout, bounds, inputVars, IInv, GateTyped

\* A stage at work waits in its gate.
LEMMA CleanWaits ==
  ASSUME IInv, NEW g \in Run, child[g] = "public-decoder", gate[g].pc \in Staged
  PROVE  gate[g].pc = "wait" /\ PolicyCount(g) /\ PairCount(g) /\ MirrorInv(g)
BY StagesAssumption DEF IInv, Rest, ChildInv, WorkInv, Work, Staged

\* It begins with a checkout that its policy approves, and one extraction.
LEMMA CleanBeginKeeps ==
  ASSUME IInv, NEW g \in Run, CleanBegin(g)
  PROVE  IInv'
<1>1. PICK c \in CleanRecord : c = clean[g]
  BY DEF IInv, GateTyped
<1>2. PICK d : d = [c EXCEPT !.pc = "copy", !.policy = policy, !.generated = pair]
  OBVIOUS
<1>3. d.pc = "copy" /\ d.policy = policy /\ d.generated = pair
  BY <1>2 DEF CleanRecord
<1>4. d \in CleanRecord
  BY <1>2 DEF CleanRecord, IInv, PairTyped, MaybeVersion, Begun
<1>5. child[g] = "public-decoder" /\ clean[g].pc = "begin" /\ clean' = [clean EXCEPT ![g] = d]
      /\ UNCHANGED <<checkout, lock, gate, child, logs, audit, report, bounds>>
  BY <1>1, <1>2 DEF CleanBegin, Cleaning, IInv, GateTyped
<1>6. CleanTo(g) /\ clean'[g] = d
  BY <1>4, <1>5, CleanToIs
<1>7. /\ input["tools"] = policy /\ input["sources"] = policy
      /\ pair["model"] # None /\ pair["llbc"] = pair["model"] /\ extraction[pair["model"]].policy = policy
  BY DEF CleanBegin, ToolsAndEnvironment, SourceEvidence, SourceBaseline, GeneratedEvidence, CheckProvenance, PolicyBinding
<1>8. Seen(pair["model"]) /\ policy \in Version
  BY <1>7 DEF IInv, PairTyped, SeenInv, Live, Pair, Name, MaybeMaker
<1>u. pair' = pair /\ extraction' = extraction /\ gen' = gen /\ input' = input /\ edits' = edits /\ policy' = policy
      /\ gate' = gate
  BY <1>6 DEF CleanTo, pairVars
<1>9. CleanInv(d)' /\ CopyCount(d)'
  <2>1. OnePair(d.generated)'
    BY <1>3, <1>7, <1>8, <1>u DEF OnePair, Seen
  <2>2. CleanInv(d)'
    BY <1>3, <1>7, <1>8, <2>1, <1>u DEF CleanInv, Copied, Rechecked
  <2>3. CopyCount(d)'
    BY <1>3, <1>7, <1>u DEF CopyCount, Copied, Rechecked
  <2> QED BY <2>2, <2>3
<1>10. (CleanInv(clean[g]) /\ CopyCount(clean[g]))'
  BY <1>6, <1>9
<1>11. ASSUME gate[g].pc \in Staged PROVE PolicyCount(g)' /\ PairCount(g)'
  <2>1. gate[g].pc = "wait" /\ PolicyCount(g) /\ PairCount(g)
    BY <1>5, <1>11, CleanWaits
  <2>2. "wait" \notin Validated /\ "wait" \notin {"models", "last", "sources"} /\ "copy" \notin Rechecked
        /\ edits \in Nat
    BY DEF Validated, Rechecked, IInv, GateTyped
  <2>3. PolicyCount(g)'
    BY <1>3, <1>6, <1>7, <1>u, <2>1, <2>2 DEF PolicyCount
  <2>4. PairCount(g)'
    BY <1>3, <1>6, <1>u, <2>1, <2>2 DEF PairCount
  <2> QED BY <2>3, <2>4
<1> QED BY <1>6, <1>10, <1>11, CleanToKeeps

\* The model it copies is the one it began with, or one of the two has left, or
\* the copied one is to be withdrawn.
LEMMA CleanCopyKeeps ==
  ASSUME IInv, NEW g \in Run, CleanCopy(g)
  PROVE  IInv'
<1>1. PICK c \in CleanRecord : c = clean[g]
  BY DEF IInv, GateTyped
<1>2. PICK d : d = [c EXCEPT !.pc = "recheck", !.sources = input["sources"], !.model = pair["model"], !.sha = policy]
  OBVIOUS
<1>3. d.pc = "recheck" /\ d.sources = input["sources"] /\ d.model = pair["model"] /\ d.sha = policy
      /\ d.policy = c.policy /\ d.generated = c.generated
  BY <1>2 DEF CleanRecord
<1>t. input["sources"] \in Version /\ policy \in Version /\ pair["model"] \in MaybeMaker
  BY DEF IInv, PairTyped, Pair, Input, Name
<1>4. d \in CleanRecord
  BY <1>2, <1>t DEF CleanRecord, MaybeVersion, Begun
<1>5. child[g] = "public-decoder" /\ c.pc = "copy" /\ clean' = [clean EXCEPT ![g] = d] /\ pair["model"] # None
      /\ UNCHANGED <<checkout, lock, gate, child, logs, audit, report, bounds>>
  BY <1>1, <1>2 DEF CleanCopy, Cleaning, IInv, GateTyped
<1>6. CleanTo(g) /\ clean'[g] = d
  BY <1>4, <1>5, CleanToIs
<1>7. CleanInv(c) /\ CopyCount(c)
  BY <1>1 DEF IInv, Rest, BuildInv
<1>u. pair' = pair /\ extraction' = extraction /\ gen' = gen /\ input' = input /\ edits' = edits /\ policy' = policy
      /\ gate' = gate
  BY <1>6 DEF CleanTo, pairVars
<1> DEFINE G == c.generated["model"]
           M == pair["model"]
<1>8. OnePair(c.generated) /\ extraction[G].policy = c.policy /\ c.policy \in Version /\ Seen(G)
  BY <1>5, <1>7 DEF CleanInv, Begun, OnePair
<1>9. Seen(M) /\ Live(M)
  BY <1>5, <1>t DEF IInv, SeenInv, Live, MaybeMaker
<1>10. M = G \/ Dead(G) \/ Above(M, G)
  <2> SUFFICES ASSUME M # G, Live(G) PROVE Above(M, G)
    BY <1>8 DEF Dead
  <2>1. PICK h \in Run : Saves(h, G)
    BY DEF Live
  <2>2. gen[h].pc \in Moving /\ NameInv(h, "model")
    BY <2>1 DEF Saves, IInv, GenInv
  <2>3. M = h
    BY <1>5, <2>1, <2>2 DEF NameInv, Saves, IInv, GenInv
  <2> QED BY <1>9, <2>1, <2>3 DEF Above
<1>11. CleanInv(d)' /\ CopyCount(d)'
  <2>1. OnePair(d.generated)' /\ Seen(d.model)'
    BY <1>3, <1>8, <1>9, <1>u DEF OnePair, Seen
  <2>2. d.model = G \/ Dead(G)' \/ Above(d.model, G)'
    BY <1>3, <1>10, <1>u DEF Dead, Seen, Live, Saves, Above
  <2>3. CleanInv(d)'
    BY <1>3, <1>5, <1>8, <2>1, <2>2, <1>u DEF CleanInv, Rechecked
  <2>4. CopyCount(d)'
    BY <1>3, <1>5, <1>7, <1>u DEF CopyCount, Begun, Copied, Rechecked
  <2> QED BY <2>3, <2>4
<1>12. (CleanInv(clean[g]) /\ CopyCount(clean[g]))'
  BY <1>6, <1>11
<1>13. ASSUME gate[g].pc \in Staged PROVE PolicyCount(g)' /\ PairCount(g)'
  <2>1. gate[g].pc = "wait" /\ PolicyCount(g) /\ PairCount(g)
    BY <1>5, <1>13, CleanWaits
  <2>2. "recheck" \notin Rechecked /\ c.pc \in Begun
    BY <1>5 DEF Rechecked, Begun
  <2>3. PolicyCount(g)'
    BY <1>1, <1>3, <1>6, <1>u, <2>1, <2>2 DEF PolicyCount
  <2>4. PairCount(g)'
    BY <1>3, <1>6, <1>u, <2>1, <2>2 DEF PairCount
  <2> QED BY <2>3, <2>4
<1> QED BY <1>6, <1>12, <1>13, CleanToKeeps

\* The checkout is what it was: what lay above the first model has been
\* withdrawn, and other sources than the policy's have been put back.
LEMMA CleanRecheckKeeps ==
  ASSUME IInv, NEW g \in Run, CleanRecheck(g)
  PROVE  IInv'
<1>1. PICK c \in CleanRecord : c = clean[g]
  BY DEF IInv, GateTyped
<1>2. PICK d : d = [c EXCEPT !.pc = "compare"]
  OBVIOUS
<1>3. d.pc = "compare" /\ d.sources = c.sources /\ d.model = c.model /\ d.sha = c.sha
      /\ d.policy = c.policy /\ d.generated = c.generated
  BY <1>2 DEF CleanRecord
<1>4. d \in CleanRecord
  BY <1>2 DEF CleanRecord, Begun
<1>5. child[g] = "public-decoder" /\ c.pc = "recheck" /\ clean' = [clean EXCEPT ![g] = d]
      /\ UNCHANGED <<checkout, lock, gate, child, logs, audit, report, bounds>>
  BY <1>1, <1>2 DEF CleanRecheck, Cleaning, IInv, GateTyped
<1>6. CleanTo(g) /\ clean'[g] = d
  BY <1>4, <1>5, CleanToIs
<1>7. CleanInv(c) /\ CopyCount(c)
  BY <1>1 DEF IInv, Rest, BuildInv
<1>u. pair' = pair /\ extraction' = extraction /\ gen' = gen /\ input' = input /\ edits' = edits /\ policy' = policy
      /\ gate' = gate /\ report' = report
  BY <1>6 DEF CleanTo, pairVars
<1> DEFINE G == c.generated["model"]
           M == c.model
<1>8. /\ input["sources"] = c.policy
      /\ pair = c.generated /\ policy = c.sha
      /\ pair["model"] # None /\ extraction[pair["model"]].policy = policy
  BY <1>1 DEF CleanRecheck, SourceEvidence, SourceBaseline, GeneratedEvidence, CheckProvenance, PolicyBinding
<1>9. /\ OnePair(c.generated) /\ extraction[G].policy = c.policy /\ c.policy \in Version /\ Seen(G)
      /\ Seen(M) /\ M # None
      /\ M = G \/ Dead(G) \/ Dead(M) \/ Above(M, G)
  BY <1>5, <1>7 DEF CleanInv, Begun, Copied, OnePair
<1>10. M = G \/ Dead(M)
  <2>1. ~ Dead(G)
    BY <1>8 DEF Dead, Live
  <2>2. ~ Above(M, G)
    <3> SUFFICES ASSUME Above(M, G) PROVE FALSE
      OBVIOUS
    <3>1. M \in Run /\ M # G /\ Saves(M, G)
      BY DEF Above
    <3>2. pair["model"] = M \/ pair["model"] = None
      BY <3>1 DEF IInv, GenInv, NameInv, Saves
    <3> QED BY <1>8, <3>1, <3>2
  <2> QED BY <1>9, <2>1, <2>2
<1>11. c.sha = c.policy
  BY <1>8, <1>9
<1>12. CleanInv(d)' /\ CopyCount(d)'
  <2>1. OnePair(d.generated)' /\ Seen(d.model)'
    BY <1>3, <1>9, <1>u DEF OnePair, Seen
  <2>2. d.model = G \/ Dead(d.model)'
    BY <1>3, <1>10, <1>u DEF Dead, Seen, Live, Saves
  <2>3. CleanInv(d)'
    BY <1>3, <1>9, <1>11, <2>1, <2>2, <1>u DEF CleanInv
  <2>4. CopyCount(d)'
    <3>1. edits \in Nat
      BY DEF IInv, GateTyped
    <3> QED BY <1>3, <1>5, <1>7, <1>8, <1>u, <3>1 DEF CopyCount, Begun, Copied, Rechecked
  <2> QED BY <2>3, <2>4
<1>13. (CleanInv(clean[g]) /\ CopyCount(clean[g]))'
  BY <1>6, <1>12
<1>14. ASSUME gate[g].pc \in Staged PROVE PolicyCount(g)' /\ PairCount(g)'
  <2>1. gate[g].pc = "wait" /\ PolicyCount(g) /\ PairCount(g)
    BY <1>5, <1>14, CleanWaits
  <2>2. "recheck" \notin Rechecked /\ c.pc \in Begun /\ "wait" \notin {"sources", "models"} /\ "wait" # "last" /\ edits \in Nat
    BY <1>5 DEF Rechecked, Begun, IInv, GateTyped
  <2>3. PolicyCount(g)'
    BY <1>1, <1>3, <1>6, <1>u, <2>1, <2>2 DEF PolicyCount
  <2>4. PairCount(g)'
    BY <1>3, <1>6, <1>8, <1>u, <2>1, <2>2 DEF PairCount
  <2> QED BY <2>3, <2>4
<1> QED BY <1>6, <1>13, <1>14, CleanToKeeps

\* What was built is what the checkout holds: a model that is there has not left.
LEMMA CleanCompareKeeps ==
  ASSUME IInv, NEW g \in Run, CleanCompare(g)
  PROVE  IInv'
<1>1. PICK c \in CleanRecord : c = clean[g]
  BY DEF IInv, GateTyped
<1>2. PICK d : d = [c EXCEPT !.pc = "passed"]
  OBVIOUS
<1>3. d.pc = "passed" /\ d.sources = c.sources /\ d.model = c.model /\ d.sha = c.sha
      /\ d.policy = c.policy /\ d.generated = c.generated
  BY <1>2 DEF CleanRecord
<1>4. d \in CleanRecord
  BY <1>2 DEF CleanRecord, Begun
<1>5. child[g] = "public-decoder" /\ c.pc = "compare" /\ clean' = [clean EXCEPT ![g] = d]
      /\ UNCHANGED <<checkout, lock, gate, child, logs, audit, report, bounds>>
      /\ c.sources = input["sources"] /\ c.model = pair["model"]
  BY <1>1, <1>2 DEF CleanCompare, SameCopy, Cleaning, IInv, GateTyped
<1>6. CleanTo(g) /\ clean'[g] = d
  BY <1>4, <1>5, CleanToIs
<1>7. CleanInv(c) /\ CopyCount(c)
  BY <1>1 DEF IInv, Rest, BuildInv
<1>u. pair' = pair /\ extraction' = extraction /\ gen' = gen /\ input' = input /\ edits' = edits /\ policy' = policy
      /\ gate' = gate
  BY <1>6 DEF CleanTo, pairVars
<1> DEFINE G == c.generated["model"]
<1>8. /\ OnePair(c.generated) /\ extraction[G].policy = c.policy /\ c.policy \in Version
      /\ Seen(c.model) /\ c.model # None /\ c.sha = c.policy
      /\ c.model = G \/ Dead(c.model)
  BY <1>5, <1>7 DEF CleanInv, Begun, Copied, Rechecked
<1>9. c.model = G
  BY <1>5, <1>8 DEF Dead, Live
<1>10. CleanInv(d)' /\ CopyCount(d)'
  <2>1. OnePair(d.generated)' /\ Seen(d.model)'
    BY <1>3, <1>8, <1>u DEF OnePair, Seen
  <2>2. CleanInv(d)'
    BY <1>3, <1>8, <1>9, <2>1, <1>u DEF CleanInv
  <2>3. CopyCount(d)'
    <3>1. edits \in Nat
      BY DEF IInv, GateTyped
    <3> QED BY <1>3, <1>5, <1>7, <1>u, <3>1 DEF CopyCount, Begun, Copied, Rechecked
  <2> QED BY <2>2, <2>3
<1>11. (CleanInv(clean[g]) /\ CopyCount(clean[g]))'
  BY <1>6, <1>10
<1>12. ASSUME gate[g].pc \in Staged PROVE PolicyCount(g)' /\ PairCount(g)'
  <2>1. gate[g].pc = "wait" /\ PolicyCount(g) /\ PairCount(g)
    BY <1>5, <1>12, CleanWaits
  <2>2. c.pc \in Rechecked /\ d.pc \in Rechecked /\ c.pc \in Begun /\ d.pc \in Begun
    BY <1>3, <1>5 DEF Rechecked, Begun
  <2>3. PolicyCount(g)'
    BY <1>1, <1>3, <1>6, <1>u, <2>1, <2>2 DEF PolicyCount
  <2>4. PairCount(g)'
    BY <1>1, <1>3, <1>6, <1>u, <2>1, <2>2 DEF PairCount
  <2> QED BY <2>3, <2>4
<1> QED BY <1>6, <1>11, <1>12, CleanToKeeps

\* An orphan ends: its clean build goes with it.
LEMMA OrphanKeeps ==
  ASSUME IInv, NEW g \in Run, OrphanEnds(g)
  PROVE  IInv'
<1>1. /\ gate[g].pc = "killed" /\ child' = [child EXCEPT ![g] = None] /\ clean' = [clean EXCEPT ![g] = NewClean]
      /\ UNCHANGED <<checkout, lock, gate, logs, audit, report, bounds>>
  BY DEF OrphanEnds, At
<1>2. CleanTo(g) /\ clean'[g].pc = "idle"
  BY <1>1, NewCleanIs DEF CleanTo, checkout, bounds, inputVars, IInv, GateTyped
<1>3. (CleanInv(clean[g]) /\ CopyCount(clean[g]))'
  BY <1>2 DEF CleanInv, CopyCount, Begun, Copied, Rechecked
<1>4. gate[g].pc \notin Staged
  BY <1>1 DEF Staged
<1> QED BY <1>2, <1>3, <1>4, CleanToKeeps

\* An edit changes one thing, and is counted.
LEMMA EditKeeps ==
  ASSUME IInv, Edit
  PROVE  IInv'
<1>1. /\ pairVars' = pairVars /\ gate' = gate /\ lock' = lock /\ audit' = audit /\ report' = report
      /\ child' = child /\ clean' = clean /\ logs' = logs /\ kills' = kills
      /\ edits' = edits + 1 /\ edits \in Nat
  BY DEF Edit, gateVars, IInv, GateTyped
<1>2. /\ input' \in [Input -> Version] /\ policy' \in Version
      /\ input'["sources"] = input["sources"] \/ input'["tools"] = input["tools"]
  <2>1. CASE \E v \in Version : v # policy /\ policy' = v /\ UNCHANGED input
    BY <2>1 DEF IInv, PairTyped
  <2>2. CASE UNCHANGED policy /\ \E i \in Input, v \in Version : input' = [input EXCEPT ![i] = v]
    BY <2>2 DEF IInv, PairTyped, Input
  <2> QED BY <2>1, <2>2 DEF Edit
<1>3. PairKept /\ NoneBegins
  BY <1>1, <1>2, OthersKeepPair DEF IInv
<1>4. Quiet /\ GateTyped' /\ History
  BY <1>1, <1>3 DEF Quiet, IInv, GateTyped, PairKept
<1>5. /\ LockInv' /\ BeginInv' /\ IdleInv' /\ PassedInv'
      /\ \A h \in Run : StageInv(h)' /\ MirrorInv(h)'
  BY <1>1, <1>4, QuietKeeps
<1>6. ChildInv' /\ CleanPlace' /\ ReportInv'
  BY <1>1 DEF IInv, Rest, ChildInv, CleanPlace, ReportInv, Here, OwnLog
<1>7. BuildInv'
  <2> SUFFICES ASSUME NEW h \in Run PROVE (CleanInv(clean[h]) /\ CopyCount(clean[h]))'
    BY DEF BuildInv
  <2>1. PICK c \in CleanRecord : c = clean[h]
    BY DEF IInv, GateTyped
  <2>2. CleanInv(c) /\ CopyCount(c)
    BY <2>1 DEF IInv, Rest, BuildInv
  <2>3. CleanInv(c)'
    BY <1>4, <2>2, CleanKept
  <2>4. CopyCount(c)'
    BY <1>1, <2>2 DEF CopyCount
  <2> QED BY <1>1, <2>1, <2>3, <2>4
<1>8. WorkInv'
  <2> SUFFICES ASSUME NEW h \in Run PROVE Work(h)'
    BY DEF WorkInv
  <2>1. EvidenceInv(h)'
    BY <1>1, EvidenceKept
  <2>2. PolicyCount(h) /\ SourceCount(h) /\ PairCount(h) /\ MirrorInv(h) /\ gate[h] \in GateRecord
    BY DEF IInv, Rest, WorkInv, Work, GateTyped
  <2>3. PolicyCount(h)'
    <3>1. Staged \subseteq Hashed
      BY DEF Hashed
    <3> QED BY <1>1, <1>2, <2>2, <3>1 DEF PolicyCount
  <2>4. SourceCount(h)'
    BY <1>1, <2>2 DEF SourceCount
  <2>5. PairCount(h)'
    BY <1>1, <2>2 DEF PairCount, pairVars
  <2> QED BY <1>5, <2>1, <2>3, <2>4, <2>5 DEF Work
<1> QED BY <1>3, <1>4, <1>5, <1>6, <1>7, <1>8 DEF PairKept, IInv, Rest

-----------------------------------------------------------------------------
(* The steps of the gate that holds the lock.                              *)

\* A gate goes on: of the others nothing is claimed, since none is at work.
GoesOn(g) ==
  /\ gate' \in [Run -> GateRecord] /\ \A h \in Run : h # g => gate'[h] = gate[h]
  /\ gate'[g].pc \in Working /\ lock' = g
  /\ lock = g \/ (lock = None /\ gate[g].pc = "idle")
  /\ report'.run = g /\ report'.status = "running"
  /\ \A h \in Run : h # g => child'[h] = child[h] /\ clean'[h] = clean[h] /\ gen'[h].pc = gen[h].pc
  /\ UNCHANGED <<inputVars, edits>> /\ PairKept /\ GateTyped'
  /\ gen'[g].pc # "idle" => \E j \in DOMAIN Stages : Stages[j] = "generate-rust" /\ Opened(g, j)'
  /\ child'[g] # None => gate'[g].pc = "wait" /\ child'[g] = Here(g)'
  /\ clean'[g].pc # "idle" => gate'[g].pc \in {"wait", "validate"} /\ Here(g)' = "public-decoder"
  /\ gate'[g].pc \notin Staged => gate'[g].generated = NoPair
  /\ CleanInv(clean[g])' /\ CopyCount(clean[g])'

\* A working gate whose own facts survive its statement keeps the whole invariant.
LEMMA GoesOnKeeps ==
  ASSUME IInv, NEW g \in Run, GoesOn(g), Work(g)'
  PROVE  IInv'
<1>1. /\ gate' \in [Run -> GateRecord] /\ \A h \in Run : h # g => gate'[h] = gate[h]
      /\ gate'[g].pc \in Working /\ lock' = g /\ g # None
      /\ lock = g \/ (lock = None /\ gate[g].pc = "idle")
      /\ \A h \in Run : h # g => child'[h] = child[h] /\ clean'[h] = clean[h] /\ gen'[h].pc = gen[h].pc
      /\ UNCHANGED <<inputVars, edits>> /\ PairKept /\ History /\ GateTyped'
  BY RunAssumption DEF GoesOn, PairKept
<1>2. \A h \in Run : h # g => gate'[h].pc \notin Working
  BY <1>1, RunAssumption DEF IInv, Rest, LockInv
<1>3. LockInv'
  BY <1>1, <1>2 DEF LockInv
<1>4. ChildInv'
  BY <1>1 DEF GoesOn, IInv, Rest, ChildInv, Here
<1>5. BeginInv'
  <2> SUFFICES ASSUME NEW h \in Run, gen'[h].pc # "idle"
               PROVE  gate'[h].pc \in Ended \/ \E j \in DOMAIN Stages : Stages[j] = "generate-rust" /\ Opened(h, j)'
    BY DEF BeginInv
  <2>1. CASE h = g
    BY <2>1 DEF GoesOn
  <2>2. CASE h # g
    <3>1. gate[h].pc \notin Staged
      BY <1>1, <1>2, <2>2 DEF Working
    <3> QED BY <1>1, <2>2, <3>1 DEF IInv, Rest, BeginInv, Opened
  <2> QED BY <2>1, <2>2
<1>6. ReportInv'
  BY <1>1 DEF GoesOn, ReportInv
<1>7. CleanPlace'
  BY <1>1 DEF GoesOn, IInv, Rest, CleanPlace, Here
<1>8. IdleInv'
  BY <1>1 DEF GoesOn, IInv, Rest, IdleInv
<1>9. BuildInv'
  <2>1. ASSUME NEW h \in Run, h # g PROVE (CleanInv(clean[h]) /\ CopyCount(clean[h]))'
    BY <1>1, <2>1, BuildOf DEF IInv, Rest, GateTyped
  <2> QED BY <2>1 DEF GoesOn, BuildInv
<1>10. WorkInv'
  BY <1>2, WorkIdle DEF WorkInv
<1>11. PassedInv'
  BY DEF GoesOn, PassedInv
<1> QED BY <1>1, <1>3, <1>4, <1>5, <1>6, <1>7, <1>8, <1>9, <1>10, <1>11 DEF PairKept, IInv, Rest

PlainPlaces == Working \ {"wait", "validate"}

\* Most statements of the gate touch neither its stage nor a clean build.
LEMMA PlainGoesOn ==
  ASSUME IInv, NEW g \in Run,
         gate[g].pc \in PlainPlaces \/ (gate[g].pc = "idle" /\ lock = None),
         gate' \in [Run -> GateRecord], \A h \in Run : h # g => gate'[h] = gate[h],
         gate'[g].pc \in PlainPlaces, lock' = g,
         report' \in ReportRecord, report'.run = g, report'.status = "running",
         UNCHANGED <<checkout, child, clean, logs, bounds>>, audit' \in Run \cup {None},
         \A j : Opened(g, j) => Opened(g, j)',
         gate'[g].pc \notin Staged => gate'[g].generated = NoPair
  PROVE  /\ GoesOn(g) /\ History /\ child'[g] = None /\ clean'[g] = clean[g] /\ clean[g].pc = "idle"
         /\ pair' = pair /\ extraction' = extraction /\ gen' = gen /\ input' = input /\ policy' = policy
         /\ edits' = edits
<1>1. /\ pairVars' = pairVars /\ gen' = gen /\ input' = input /\ policy' = policy /\ child' = child /\ clean' = clean
      /\ logs' = logs /\ edits' = edits /\ kills' = kills /\ UNCHANGED <<inputVars, edits>>
      /\ pair' = pair /\ extraction' = extraction
  BY DEF checkout, bounds, inputVars, pairVars
<1>2. PairKept /\ History
  BY <1>1, OthersKeepPair DEF IInv, PairTyped, PairKept
<1>3. GateTyped'
  BY <1>1 DEF IInv, GateTyped
<1>4. gate'[g].pc \in Working /\ gate[g].pc # "wait" /\ gate[g].pc # "validate" /\ gate[g].pc \notin Ended
  BY DEF PlainPlaces, Working, Staged, Ended
<1>5. child[g] = None /\ clean[g].pc = "idle"
  BY <1>4 DEF IInv, Rest, ChildInv, CleanPlace, Ended
<1>6. lock = g \/ (lock = None /\ gate[g].pc = "idle")
  BY DEF PlainPlaces, IInv, Rest, LockInv
<1>7. CleanInv(clean[g])' /\ CopyCount(clean[g])'
  BY <1>1, <1>5 DEF CleanInv, CopyCount, Begun, Copied, Rechecked
<1>8. gen'[g].pc # "idle" => \E j \in DOMAIN Stages : Stages[j] = "generate-rust" /\ Opened(g, j)'
  BY <1>1, <1>4 DEF IInv, Rest, BeginInv
<1>9. GoesOn(g)
  BY <1>1, <1>2, <1>3, <1>4, <1>5, <1>6, <1>7, <1>8 DEF GoesOn
<1> QED BY <1>1, <1>2, <1>5, <1>9

\* The lock is taken, and the report replaced; or another has it.
LEMMA StartKeeps ==
  ASSUME IInv, NEW g \in Run, Start(g)
  PROVE  IInv'
<1>0. gate[g].pc = "idle" /\ gate \in [Run -> GateRecord] /\ gate[g].pc \notin Staged
      /\ UNCHANGED <<checkout, child, clean, logs, audit, bounds>> /\ audit' \in Run \cup {None}
  BY DEF Start, At, IInv, GateTyped, Staged
<1>p. "policy" \in GatePlaces /\ "policy" \in PlainPlaces /\ "policy" \notin Staged /\ "refused" \in GatePlaces
      /\ "refused" \notin Staged /\ "refused" \notin Working /\ "idle" \notin Working /\ "refused" \in Ended
      /\ "wait" # "idle" /\ "policy" \in Working
  BY DEF GatePlaces, PlainPlaces, Working, Staged, Ended
<1>g. gate[g].generated = NoPair
  BY <1>0 DEF IInv, Rest, IdleInv
<1>1. CASE lock = None /\ lock' = g /\ Step(g, "policy") /\ ReportRunning(g)
  <2>1. GateGoes(g, "policy") /\ SameMind(g)
    BY <1>0, <1>1, <1>p, StepIs
  <2>2. report' \in ReportRecord /\ report'.run = g /\ report'.status = "running" /\ report'.generated = NoPair
    <3>1. report' = [NoReport EXCEPT !.run = g, !.status = "running"]
      BY <1>1 DEF ReportRunning
    <3>2. report'.run = g /\ report'.status = "running" /\ report'.generated = NoPair
      BY <3>1 DEF NoReport
    <3>3. NoPair \in Pair /\ NewClean \in CleanRecord
      BY NewCleanIs DEF NoPair, Pair, MaybeMaker
    <3>4. report' = [run |-> g, status |-> "running", policy |-> None, sources |-> None, generated |-> NoPair,
                     clean |-> NewClean]
      BY <3>1 DEF NoReport
    <3>5. report' \in ReportRecord
      BY <3>3, <3>4 DEF ReportRecord, MaybeVersion
    <3> QED BY <3>2, <3>5
  <2>3. \A j : Opened(g, j) => Opened(g, j)'
    BY <1>0 DEF Opened
  <2>4. GoesOn(g)
    BY <1>0, <1>1, <1>p, <1>g, <2>1, <2>2, <2>3, PlainGoesOn DEF GateGoes, SameMind
  <2>5. Work(g)'
    <3>1. gate'[g].pc = "policy" /\ report'.generated = NoPair
      BY <2>1, <2>2 DEF GateGoes
    <3>2. "policy" \notin Hashed /\ "policy" \notin Validated /\ "policy" \notin {"hash", "models", "last"}
      BY DEF Hashed, Validated, Staged
    <3>3. StageInv(g)' /\ EvidenceInv(g)' /\ MirrorInv(g)'
      BY <1>p, <3>1, <3>2 DEF StageInv, EvidenceInv, Opened, MirrorInv
    <3>4. PolicyCount(g)' /\ SourceCount(g)' /\ PairCount(g)'
      BY <1>p, <3>1, <3>2 DEF PolicyCount, SourceCount, PairCount
    <3> QED BY <3>3, <3>4 DEF Work
  <2> QED BY <2>4, <2>5, GoesOnKeeps
<1>2. CASE Step(g, "refused") /\ UNCHANGED <<lock, report>>
  <2>1. GateGoes(g, "refused") /\ SameMind(g)
    BY <1>0, <1>2, <1>p, StepIs
  <2>2. /\ gate' \in [Run -> GateRecord] /\ gate'[g].pc = "refused" /\ gate'[g].generated = NoPair
        /\ \A h \in Run : h # g => gate'[h] = gate[h]
    BY <1>g, <2>1 DEF GateGoes, SameMind
  <2>3. /\ pairVars' = pairVars /\ gen' = gen /\ input' = input /\ policy' = policy /\ child' = child /\ clean' = clean
        /\ logs' = logs /\ edits' = edits /\ kills' = kills /\ audit' = audit /\ lock' = lock /\ report' = report
        /\ UNCHANGED <<inputVars, edits>> /\ edits \in Nat
    BY <1>0, <1>2 DEF checkout, bounds, inputVars, pairVars, IInv, GateTyped
  <2>4. PairKept /\ History
    BY <2>3, OthersKeepPair DEF IInv, PairTyped, PairKept
  <2>5. GateTyped'
    BY <2>2, <2>3 DEF IInv, GateTyped
  <2>6. \A h \in Run : gate'[h].pc = "killed" <=> gate[h].pc = "killed"
    BY <1>0, <2>2
  <2>7. child[g] = None /\ clean[g].pc = "idle" /\ lock # g /\ gen[g].pc = "idle"
    BY <1>0, <1>p DEF IInv, Rest, ChildInv, CleanPlace, LockInv, BeginInv, Opened, Ended
  <2>8. LockInv' /\ IdleInv'
    BY <1>0, <1>p, <2>2, <2>3, <2>7 DEF IInv, Rest, LockInv, IdleInv
  <2>9. ChildInv' /\ CleanPlace'
    BY <2>2, <2>3, <2>7 DEF IInv, Rest, ChildInv, CleanPlace, Here
  <2>10. BeginInv'
    BY <1>p, <2>2, <2>3 DEF IInv, Rest, BeginInv, Opened
  <2>11. ReportInv'
    BY <2>3, <2>6 DEF IInv, Rest, ReportInv, OwnLog, GateTyped, StageNames
  <2>12. BuildInv'
    BY <2>3, <2>4, BuildOf DEF IInv, Rest, GateTyped, BuildInv
  <2>13. WorkInv'
    <3>1. ASSUME NEW h \in Run, h # g PROVE Work(h)'
      <4>1. gate'[h] = gate[h] /\ Work(h)
        BY <2>2, <3>1 DEF IInv, Rest, WorkInv
      <4>2. StageInv(h)' /\ EvidenceInv(h)' /\ MirrorInv(h)'
        BY <2>3, <2>4, <2>6, <4>1, EvidenceKept, MirrorKept DEF Work, StageInv, Here
      <4>3. PolicyCount(h)' /\ SourceCount(h)' /\ PairCount(h)'
        BY <2>3, <2>4, <4>1, CountsKept
      <4> QED BY <4>2, <4>3 DEF Work
    <3>2. Work(g)'
      BY <1>p, <2>2, WorkIdle
    <3> QED BY <3>1, <3>2 DEF WorkInv
  <2>14. PassedInv'
    BY <2>3, <2>4, PassedKept
  <2> QED BY <2>4, <2>5, <2>8, <2>9, <2>10, <2>11, <2>12, <2>13, <2>14 DEF PairKept, IInv, Rest
<1> QED BY <1>1, <1>2 DEF Start, LockFree

\* What holds of a gate at work.
LEMMA WorkingHolds ==
  ASSUME IInv, NEW g \in Run, gate[g].pc \in Working
  PROVE  /\ lock = g /\ report.run = g /\ report.status = "running" /\ report \in ReportRecord
         /\ gate \in [Run -> GateRecord] /\ audit \in Run \cup {None} /\ edits \in Nat
         /\ StageInv(g) /\ EvidenceInv(g) /\ MirrorInv(g)
         /\ PolicyCount(g) /\ SourceCount(g) /\ PairCount(g)
BY RunAssumption DEF IInv, Rest, LockInv, ReportInv, GateTyped, WorkInv, Work

\* The policy is read.
LEMMA ReadPolicyKeeps ==
  ASSUME IInv, NEW g \in Run, ReadPolicy(g)
  PROVE  IInv'
<1>p. "hash" \in GatePlaces /\ "hash" \in PlainPlaces /\ "hash" \notin Staged /\ "policy" \in Working
      /\ "policy" \in PlainPlaces /\ "policy" \notin Staged
  BY DEF GatePlaces, PlainPlaces, Working, Staged
<1>0. gate[g].pc = "policy" /\ UNCHANGED <<checkout, lock, report, child, clean, logs, audit, bounds>>
      /\ gate' = [gate EXCEPT ![g].pc = "hash", ![g].policy = policy]
      /\ UNCHANGED <<checkout, child, clean, logs, bounds>> /\ lock' = lock /\ audit' = audit /\ report' = report
  BY DEF ReadPolicy, At
<1>w. lock = g /\ report.run = g /\ report.status = "running" /\ report \in ReportRecord
      /\ gate \in [Run -> GateRecord] /\ audit \in Run \cup {None} /\ MirrorInv(g)
  BY <1>0, <1>p, WorkingHolds
<1>v. policy \in Version
  BY DEF IInv, PairTyped
<1>1. PICK e \in GateRecord : e = gate[g]
  BY <1>w
<1>2. PICK f : f = [e EXCEPT !.pc = "hash", !.policy = policy]
  OBVIOUS
<1>3. f.pc = "hash" /\ f.policy = policy /\ f.generated = e.generated
  BY <1>2 DEF GateRecord
<1>4. f \in GateRecord
  BY <1>2, <1>p, <1>v DEF GateRecord, MaybeVersion
<1>5. gate' = [gate EXCEPT ![g] = f]
  BY <1>0, <1>1, <1>2, <1>w
<1>6. /\ gate' \in [Run -> GateRecord] /\ gate'[g] = f
      /\ \A h \in Run : h # g => gate'[h] = gate[h]
  BY <1>4, <1>5, <1>w
<1>7. \A j : Opened(g, j) => Opened(g, j)'
  BY <1>0, <1>p DEF Opened
<1>8. f.generated = NoPair
  BY <1>0, <1>1, <1>3, <1>p DEF IInv, Rest, IdleInv
<1>9. GoesOn(g) /\ policy' = policy
  <2>1. gate[g].pc \in PlainPlaces /\ gate'[g].pc \in PlainPlaces /\ gate'[g].generated = NoPair
    BY <1>0, <1>3, <1>6, <1>8, <1>p
  <2>2. lock' = g /\ report' \in ReportRecord /\ report'.run = g /\ report'.status = "running"
        /\ audit' \in Run \cup {None}
    BY <1>0, <1>w
  <2> QED BY <1>0, <1>6, <1>7, <2>1, <2>2, PlainGoesOn
<1>10. Work(g)'
  <2>1. "hash" \notin Hashed /\ "hash" \notin Validated /\ "hash" \notin {"models", "last"} /\ report' = report
    BY <1>0 DEF Hashed, Validated, Staged
  <2>2. StageInv(g)' /\ EvidenceInv(g)'
    BY <1>3, <1>6, <1>p DEF StageInv, EvidenceInv, Opened
  <2>3. MirrorInv(g)'
    BY <1>0, <1>3, <1>6, <1>p, <1>w, <1>v, <2>1 DEF MirrorInv
  <2>4. PolicyCount(g)' /\ SourceCount(g)' /\ PairCount(g)'
    BY <1>3, <1>6, <1>9, <1>p, <2>1 DEF PolicyCount, SourceCount, PairCount
  <2> QED BY <2>2, <2>3, <2>4 DEF Work
<1> QED BY <1>9, <1>10, GoesOnKeeps

\* It is read again, for its hash.
LEMMA HashPolicyKeeps ==
  ASSUME IInv, NEW g \in Run, HashPolicy(g)
  PROVE  IInv'
<1>p. "evidence" \in GatePlaces /\ "evidence" \in PlainPlaces /\ "evidence" \notin Staged /\ "hash" \in Working
      /\ "hash" \in PlainPlaces /\ "hash" \notin Staged /\ "evidence" \in Working
  BY DEF GatePlaces, PlainPlaces, Working, Staged
<1>0. gate[g].pc = "hash" /\ UNCHANGED <<checkout, lock, child, clean, logs, audit, bounds>>
      /\ gate' = [gate EXCEPT ![g].pc = "evidence", ![g].sha = policy]
      /\ report' = [report EXCEPT !.policy = policy]
      /\ UNCHANGED <<checkout, child, clean, logs, bounds>> /\ lock' = lock /\ audit' = audit
  BY DEF HashPolicy, At
<1>w. lock = g /\ report.run = g /\ report.status = "running" /\ report \in ReportRecord
      /\ gate \in [Run -> GateRecord] /\ audit \in Run \cup {None} /\ MirrorInv(g) /\ PolicyCount(g)
  BY <1>0, <1>p, WorkingHolds
<1>v. policy \in Version
  BY DEF IInv, PairTyped
<1>1. PICK e \in GateRecord : e = gate[g]
  BY <1>w
<1>2. PICK f : f = [e EXCEPT !.pc = "evidence", !.sha = policy]
  OBVIOUS
<1>3. f.pc = "evidence" /\ f.sha = policy /\ f.policy = e.policy /\ f.generated = e.generated
  BY <1>2 DEF GateRecord
<1>4. f \in GateRecord
  BY <1>2, <1>p, <1>v DEF GateRecord, MaybeVersion
<1>5. gate' = [gate EXCEPT ![g] = f]
  BY <1>0, <1>1, <1>2, <1>w
<1>6. /\ gate' \in [Run -> GateRecord] /\ gate'[g] = f
      /\ \A h \in Run : h # g => gate'[h] = gate[h]
  BY <1>4, <1>5, <1>w
<1>7. \A j : Opened(g, j) => Opened(g, j)'
  BY <1>0, <1>p DEF Opened
<1>8. f.generated = NoPair
  BY <1>0, <1>1, <1>3, <1>p DEF IInv, Rest, IdleInv
<1>r. report' \in ReportRecord /\ report'.run = g /\ report'.status = "running" /\ report'.policy = policy
      /\ report'.generated = report.generated
  BY <1>0, <1>w, <1>v DEF ReportRecord, MaybeVersion
<1>9. GoesOn(g) /\ policy' = policy /\ edits' = edits
  <2>1. gate[g].pc \in PlainPlaces /\ gate'[g].pc \in PlainPlaces /\ gate'[g].generated = NoPair
    BY <1>0, <1>3, <1>6, <1>8, <1>p
  <2>2. lock' = g /\ audit' \in Run \cup {None}
    BY <1>0, <1>w
  <2> QED BY <1>0, <1>6, <1>7, <1>r, <2>1, <2>2, PlainGoesOn
<1>10. Work(g)'
  <2>1. "evidence" \in Hashed /\ "evidence" \notin Validated /\ "evidence" \notin {"models", "last", "hash"}
    BY DEF Hashed, Validated
  <2>2. StageInv(g)' /\ EvidenceInv(g)'
    BY <1>3, <1>6, <1>p DEF StageInv, EvidenceInv, Opened
  <2>3. MirrorInv(g)'
    BY <1>0, <1>1, <1>3, <1>6, <1>p, <1>w, <1>v, <1>r, <2>1 DEF MirrorInv
  <2>4. PolicyCount(g)'
    BY <1>0, <1>1, <1>3, <1>6, <1>9, <1>p, <1>w, <2>1 DEF PolicyCount
  <2>5. SourceCount(g)' /\ PairCount(g)'
    BY <1>3, <1>6, <1>9, <1>p, <2>1 DEF SourceCount, PairCount
  <2> QED BY <2>2, <2>3, <2>4, <2>5 DEF Work
<1> QED BY <1>9, <1>10, GoesOnKeeps

\* The failures of the statements that are not of a stage.
LEMMA PlainFails ==
  ASSUME IInv, NEW g \in Run, gate[g].pc \in PlainPlaces, Fail(g), audit' \in Run \cup {None},
         UNCHANGED <<checkout, child, clean, logs, bounds>>
  PROVE  IInv'
<1>1. /\ pairVars' = pairVars /\ input' = input /\ policy' = policy /\ child' = child /\ clean' = clean
      /\ logs' = logs /\ UNCHANGED <<inputVars, edits, kills>>
  BY DEF checkout, bounds, inputVars
<1>2. PairKept /\ NoneBegins
  BY <1>1, OthersKeepPair DEF IInv, PairTyped
<1>3. gate[g].pc \in Working /\ gate[g].pc # "wait" /\ gate[g].pc # "validate"
  BY DEF PlainPlaces
<1>4. Ending(g)
  BY <1>1, <1>2, <1>3, FailEnds DEF IInv, Rest
<1> QED BY <1>4, EndingKeeps

\* The checkout is what the policy approves: a policy that was changed between
\* its two readings approves other sources and other tools.
LEMMA EvidenceKeeps ==
  ASSUME IInv, NEW g \in Run, Evidence(g)
  PROVE  IInv'
<1>p. "stage" \in GatePlaces /\ "stage" \in PlainPlaces /\ "stage" \in Staged /\ "evidence" \in Working
      /\ "evidence" \in PlainPlaces /\ "evidence" \notin Staged /\ "evidence" \in Hashed
  BY DEF GatePlaces, PlainPlaces, Working, Staged, Hashed
<1>0. gate[g].pc = "evidence" /\ UNCHANGED <<checkout, child, clean, logs, audit, bounds>>
  BY DEF Evidence, At
<1>w. lock = g /\ report.run = g /\ report.status = "running" /\ report \in ReportRecord
      /\ gate \in [Run -> GateRecord] /\ audit \in Run \cup {None} /\ MirrorInv(g) /\ PolicyCount(g)
      /\ edits \in Nat
  BY <1>0, <1>p, WorkingHolds
<1>v. input["sources"] \in Version
  BY DEF IInv, PairTyped, Input
<1>1. CASE Fail(g)
  BY <1>0, <1>1, <1>p, <1>w, PlainFails
<1>2. CASE /\ ToolsAndEnvironment(gate[g].policy) /\ SourceEvidence(gate[g].policy)
           /\ gate' = [gate EXCEPT ![g].pc = "stage", ![g].stage = 1]
           /\ report' = [report EXCEPT !.sources = input["sources"]] /\ UNCHANGED lock
  <2>1. PICK e \in GateRecord : e = gate[g]
    BY <1>w
  <2>2. PICK f : f = [e EXCEPT !.pc = "stage", !.stage = 1]
    OBVIOUS
  <2>3. f.pc = "stage" /\ f.stage = 1 /\ f.sha = e.sha /\ f.policy = e.policy /\ f.generated = e.generated
    BY <2>2 DEF GateRecord
  <2>4. f \in GateRecord
    BY <2>2, <1>p DEF GateRecord
  <2>5. gate' = [gate EXCEPT ![g] = f]
    BY <1>2, <2>1, <2>2, <1>w
  <2>6. /\ gate' \in [Run -> GateRecord] /\ gate'[g] = f
        /\ \A h \in Run : h # g => gate'[h] = gate[h]
    BY <2>4, <2>5, <1>w
  <2>7. \A j : Opened(g, j) => Opened(g, j)'
    BY <1>0, <1>p DEF Opened
  <2>8. f.generated = NoPair /\ NoPair["model"] = None
    BY <1>0, <2>1, <2>3, <1>p DEF IInv, Rest, IdleInv, NoPair, Name
  <2>r. report' \in ReportRecord /\ report'.run = g /\ report'.status = "running" /\ report'.policy = report.policy
        /\ report'.generated = report.generated /\ report'.sources = input["sources"]
    BY <1>2, <1>w, <1>v DEF ReportRecord, MaybeVersion
  <2>9. GoesOn(g) /\ policy' = policy /\ input' = input /\ edits' = edits /\ clean'[g].pc = "idle"
    BY <1>0, <1>2, <2>3, <2>6, <2>7, <2>8, <1>p, <1>w, <2>r, PlainGoesOn
  <2>10. input["sources"] = e.policy /\ input["tools"] = e.policy
    BY <1>2, <2>1 DEF SourceEvidence, SourceBaseline
  <2>11. Work(g)'
    <3>1. "stage" \notin Validated /\ "stage" \notin {"models", "last", "hash", "generated", "audit", "validate", "sources"}
          /\ "stage" \in Hashed /\ "idle" \notin Begun /\ "idle" \notin Rechecked
      BY DEF Validated, Hashed, Staged, Begun, Rechecked
    <3>2. 1 \in DOMAIN Stages /\ \A j \in DOMAIN Stages : j \in Nat /\ j >= 1
      BY StagesAssumption DEF StageNames
    <3>3. StageInv(g)' /\ EvidenceInv(g)'
      BY <2>3, <2>6, <3>1, <3>2 DEF StageInv, EvidenceInv, Opened, Past
    <3>4. MirrorInv(g)'
      BY <1>0, <2>1, <2>3, <2>6, <2>8, <2>10, <2>r, <1>p, <1>w, <3>1, <3>2 DEF MirrorInv, Past
    <3>5. PolicyCount(g)'
      BY <1>0, <2>1, <2>3, <2>6, <2>9, <2>10, <1>p, <1>w, <3>1 DEF PolicyCount
    <3>6. SourceCount(g)' /\ PairCount(g)'
      BY <2>3, <2>6, <2>8, <2>9, <3>1 DEF SourceCount, PairCount
    <3> QED BY <3>3, <3>4, <3>5, <3>6 DEF Work
  <2> QED BY <2>9, <2>11, GoesOnKeeps
<1> QED BY <1>1, <1>2 DEF Evidence

-----------------------------------------------------------------------------
(* The stages, in their order.                                             *)

LEMMA StageOrder ==
  ASSUME NEW k \in DOMAIN Stages
  PROVE  /\ k \in Nat /\ k >= 1 /\ Stages[k] \in StageNames
         /\ Stages[k] # "public-decoder" => k + 1 \in DOMAIN Stages
         /\ Stages[k] = "public-decoder" =>
              \A j \in DOMAIN Stages : j < k \/ (j = k /\ Stages[j] = "public-decoder")
<1>1. DOMAIN Stages = 1..Len(Stages) /\ Len(Stages) \in Nat
  BY StagesAssumption
<1>2. Len(Stages) \in DOMAIN Stages
  BY <1>1
<1>3. Stages[k] = "public-decoder" => k = Len(Stages)
  BY <1>2, StagesAssumption
<1>4. Stages[k] # "public-decoder" => k # Len(Stages)
  BY StagesAssumption
<1> QED BY <1>1, <1>3, <1>4 DEF StageNames

\* A gate that leaves a stage behind has what that stage was to leave.
LEMMA AdvanceIs ==
  ASSUME IInv, NEW g \in Run, gate[g].pc \in {"wait", "generated", "audit"}, Here(g) # "public-decoder",
         gate'[g].pc = "stage", gate'[g].stage = gate[g].stage + 1, logs' = logs,
         \A h \in Run : h # g => gate'[h] = gate[h],
         audit' = audit \/ audit' = g, Here(g) = "theorem-audit" => audit' = g
  PROVE  /\ StageInv(g)' /\ EvidenceInv(g)'
         /\ \A j : Opened(g, j)' <=> Opened(g, j)
         /\ \A s : Past(g, s)' => Past(g, s) \/ s = Here(g)
<1> DEFINE k == gate[g].stage
<1>p. gate[g].pc \in Staged /\ gate[g].pc \in Working /\ "stage" \in Staged /\ gate[g].pc # "stage"
      /\ "stage" \notin {"generated", "audit", "validate", "sources", "models", "last"}
  BY DEF Staged, Working
<1>1. StageInv(g) /\ EvidenceInv(g)
  BY <1>p, WorkingHolds
<1>2. k \in DOMAIN Stages /\ Here(g) = Stages[k]
  BY <1>1, <1>p DEF StageInv, Here
<1>3. k \in Nat /\ k + 1 \in DOMAIN Stages /\ \A j \in DOMAIN Stages : j \in Nat /\ Stages[j] \in StageNames
  BY <1>2, StageOrder
<1>4. StageInv(g)'
  BY <1>3, <1>p DEF StageInv
<1>5. \A j \in DOMAIN Stages : j < k + 1 <=> j < k \/ j = k
  BY <1>3
<1>6. \A j : Opened(g, j)' <=> Opened(g, j)
  BY <1>p, <1>3, <1>5 DEF Opened
<1>7. \A s : Past(g, s)' => Past(g, s) \/ s = Here(g)
  BY <1>2, <1>5 DEF Past
<1>8. \A s \in StageNames : OwnLog(g, s) => OwnLog(g, s)'
  <2>1. \A s \in StageNames : logs[s] \subseteq Run
    BY DEF IInv, GateTyped
  <2> QED BY <2>1 DEF OwnLog
<1>9. EvidenceInv(g)'
  <2>1. \A j \in DOMAIN Stages : Opened(g, j)' => OwnLog(g, Stages[j])'
    BY <1>1, <1>3, <1>6, <1>8 DEF EvidenceInv
  <2>2. Past(g, "theorem-audit")' => audit' = g
    BY <1>1, <1>p, <1>7 DEF EvidenceInv
  <2> QED BY <2>1, <2>2 DEF EvidenceInv
<1> QED BY <1>4, <1>6, <1>7, <1>9

\* A gate that stays at its stage has what it had.
LEMMA StaysIs ==
  ASSUME IInv, NEW g \in Run, gate[g].pc \in Staged \ {"stage"}, gate'[g].pc \in Staged \ {"stage"},
         gate'[g].stage = gate[g].stage, logs' = logs, audit' = audit,
         \A h \in Run : h # g => gate'[h] = gate[h]
  PROVE  /\ EvidenceInv(g)'
         /\ \A j : Opened(g, j)' <=> Opened(g, j)
         /\ \A s : Past(g, s)' <=> Past(g, s)
<1>1. EvidenceInv(g) /\ \A j \in DOMAIN Stages : Stages[j] \in StageNames
  BY WorkingHolds DEF Working, StageNames
<1>2. \A j : Opened(g, j)' <=> Opened(g, j)
  BY DEF Opened
<1>3. \A s : Past(g, s)' <=> Past(g, s)
  BY DEF Past
<1>4. \A s \in StageNames : OwnLog(g, s) => OwnLog(g, s)'
  <2>1. \A s \in StageNames : logs[s] \subseteq Run
    BY DEF IInv, GateTyped
  <2> QED BY <2>1 DEF OwnLog
<1>5. EvidenceInv(g)'
  BY <1>1, <1>2, <1>3, <1>4 DEF EvidenceInv
<1> QED BY <1>2, <1>3, <1>5

\* A stage is opened: its log is the gate's alone.
LEMMA OpenStageKeeps ==
  ASSUME IInv, NEW g \in Run, OpenStage(g)
  PROVE  IInv'
<1>p. "stage" \in Staged /\ "stage" \in Working /\ "wait" \in Staged /\ "wait" \in Working /\ "wait" \in GatePlaces
      /\ "wait" \notin {"generated", "audit", "validate", "sources", "models", "last", "stage", "hash"}
      /\ "wait" \notin Validated /\ "wait" \in Hashed /\ "stage" \in Hashed
      /\ "stage" \notin Ended /\ "stage" \notin {"killed", "wait", "validate"}
      /\ "idle" \notin Begun /\ "begin" \notin Begun /\ "idle" \notin Rechecked /\ "begin" \notin Rechecked
  BY DEF Staged, Working, GatePlaces, Validated, Hashed, Ended, Begun, Rechecked
<1>0. /\ gate[g].pc = "stage"
      /\ gate' = [gate EXCEPT ![g].pc = "wait", ![g].public = IF Here(g) = "public-decoder" THEN CheckPolicy ELSE @]
      /\ child' = [child EXCEPT ![g] = Here(g)]
      /\ logs' = [logs EXCEPT ![Here(g)] = {g}]
      /\ gen' = IF Here(g) = "generate-rust" THEN [gen EXCEPT ![g].pc = "begin"] ELSE gen
      /\ clean' = IF Here(g) = "public-decoder" THEN [clean EXCEPT ![g].pc = "begin"] ELSE clean
      /\ input' = input /\ policy' = policy /\ pair' = pair /\ extraction' = extraction /\ genLock' = genLock
      /\ lock' = lock /\ audit' = audit /\ report' = report /\ edits' = edits /\ kills' = kills
  BY DEF OpenStage, At, inputVars, bounds
<1>w. lock = g /\ report.run = g /\ report.status = "running" /\ report \in ReportRecord
      /\ gate \in [Run -> GateRecord] /\ StageInv(g) /\ EvidenceInv(g) /\ MirrorInv(g)
      /\ PolicyCount(g) /\ SourceCount(g) /\ PairCount(g)
  BY <1>0, <1>p, WorkingHolds
<1>1. /\ gate' \in [Run -> GateRecord] /\ gate'[g].pc = "wait" /\ gate'[g].stage = gate[g].stage
      /\ gate'[g].policy = gate[g].policy /\ gate'[g].sha = gate[g].sha /\ gate'[g].generated = gate[g].generated
      /\ \A h \in Run : h # g => gate'[h] = gate[h]
  <2>1. PICK e \in GateRecord : e = gate[g]
    BY <1>w
  <2>2. PICK v \in MaybeVersion : v = IF Here(g) = "public-decoder" THEN CheckPolicy ELSE e.public
    BY DEF GateRecord, CheckPolicy, IInv, PairTyped, Input, MaybeVersion
  <2>3. PICK f : f = [e EXCEPT !.pc = "wait", !.public = v]
    OBVIOUS
  <2>4. f.pc = "wait" /\ f.stage = e.stage /\ f.sha = e.sha /\ f.policy = e.policy /\ f.generated = e.generated
    BY <2>3 DEF GateRecord
  <2>5. f \in GateRecord
    BY <2>3, <1>p DEF GateRecord
  <2>6. gate' = [gate EXCEPT ![g] = f]
    BY <1>0, <1>w, <2>1, <2>2, <2>3 DEF GateRecord
  <2> QED BY <1>w, <2>1, <2>4, <2>5, <2>6
<1>2. /\ gate[g].stage \in DOMAIN Stages /\ Here(g) = Stages[gate[g].stage] /\ Here(g) \in StageNames
      /\ gate[g].stage \in Nat /\ Here(g)' = Here(g)
  BY <1>0, <1>1, <1>p, <1>w, StageOrder DEF StageInv, Here
<1>3. gen[g].pc = "idle" \/ Here(g) # "generate-rust"
  <2> SUFFICES ASSUME gen[g].pc # "idle", Here(g) = "generate-rust" PROVE FALSE
    OBVIOUS
  <2>1. PICK j \in DOMAIN Stages : Stages[j] = "generate-rust" /\ Opened(g, j)
    BY <1>0, <1>p DEF IInv, Rest, BeginInv
  <2>2. j = gate[g].stage
    BY <1>2, <2>1, StagesAssumption
  <2> QED BY <1>0, <1>2, <2>1, <2>2 DEF Opened
<1>4. PairKept /\ \A h \in Run : h # g => gen'[h].pc = gen[h].pc
  <2>0. UNCHANGED <<inputVars, pair, extraction, genLock>>
    BY <1>0 DEF inputVars
  <2>1. CASE Here(g) = "generate-rust"
    <3>1. gen[g].pc = "idle" /\ gen' = [gen EXCEPT ![g].pc = "begin"]
      BY <1>0, <1>3, <2>1
    <3>2. PairKept
      BY <2>0, <3>1, BeginKeepsPair DEF Goto, IInv
    <3> QED BY <3>1, <3>2 DEF IInv, PairTyped
  <2>2. CASE Here(g) # "generate-rust"
    <3>1. gen' = gen /\ UNCHANGED pairVars
      BY <1>0, <2>2 DEF pairVars
    <3>2. PairKept
      BY <1>0, <3>1, OthersKeepPair DEF IInv, PairTyped
    <3> QED BY <3>1, <3>2
  <2> QED BY <2>1, <2>2
<1>5. gen'[g].pc # "idle" => \E j \in DOMAIN Stages : Stages[j] = "generate-rust" /\ Opened(g, j)'
  <2>1. \A j : Opened(g, j) => Opened(g, j)'
    BY <1>0, <1>1, <1>2, <1>p DEF Opened
  <2>2. PICK k \in DOMAIN Stages : k = gate[g].stage
    BY <1>2
  <2>5. Opened(g, k)' /\ Stages[k] = Here(g)
    BY <1>1, <1>2, <1>p, <2>2 DEF Opened
  <2>3. CASE Here(g) = "generate-rust"
    BY <2>3, <2>5
  <2>4. CASE Here(g) # "generate-rust"
    BY <1>0, <1>p, <2>1, <2>4 DEF IInv, Rest, BeginInv
  <2> QED BY <2>3, <2>4
<1>6. clean[g].pc = "idle"
  BY <1>0, <1>p DEF IInv, Rest, CleanPlace
<1>7. /\ clean' \in [Run -> CleanRecord] /\ \A h \in Run : h # g => clean'[h] = clean[h]
      /\ clean'[g].pc = IF Here(g) = "public-decoder" THEN "begin" ELSE "idle"
  BY <1>0, <1>6 DEF IInv, GateTyped, CleanRecord
<1>8. CleanInv(clean[g])' /\ CopyCount(clean[g])'
  BY <1>7 DEF CleanInv, CopyCount, Begun, Copied, Rechecked
<1>9. GateTyped'
  BY <1>0, <1>1, <1>2, <1>7 DEF IInv, GateTyped
<1>10. GoesOn(g)
  <2>1. child'[g] = Here(g) /\ \A h \in Run : h # g => child'[h] = child[h]
    BY <1>0 DEF IInv, GateTyped
  <2> QED BY <1>0, <1>1, <1>2, <1>4, <1>5, <1>7, <1>8, <1>9, <1>p, <1>w, <2>1 DEF GoesOn, inputVars
<1>11. EvidenceInv(g)'
  <2>1. \A j \in DOMAIN Stages : j \in Nat /\ Stages[j] \in StageNames /\ (Stages[j] = Here(g) => j = gate[g].stage)
    BY <1>2, StageOrder, StagesAssumption
  <2>2. OwnLog(g, Here(g))'
    BY <1>0, <1>2 DEF OwnLog, IInv, GateTyped
  <2>3. ASSUME NEW j \in DOMAIN Stages, Opened(g, j)' PROVE OwnLog(g, Stages[j])'
    <3>1. CASE j = gate[g].stage
      <4>1. PICK s : s = Stages[j]
        OBVIOUS
      <4>2. logs'[s] = {g}
        BY <1>0, <1>2, <3>1, <4>1 DEF IInv, GateTyped
      <4> QED BY <4>1, <4>2 DEF OwnLog
    <3>2. CASE j # gate[g].stage
      <4>1. OwnLog(g, Stages[j]) /\ Stages[j] # Here(g)
        BY <1>0, <1>1, <1>p, <1>w, <2>1, <2>3, <3>2 DEF Opened, EvidenceInv
      <4>2. logs'[Stages[j]] = logs[Stages[j]] /\ logs[Stages[j]] \subseteq Run
        BY <1>0, <2>1, <4>1 DEF IInv, GateTyped
      <4> QED BY <1>1, <4>1, <4>2 DEF OwnLog
    <3> QED BY <3>1, <3>2
  <2>4. Past(g, "theorem-audit")' => audit' = g
    BY <1>0, <1>1, <1>p, <1>w DEF EvidenceInv, Past
  <2> QED BY <2>3, <2>4 DEF EvidenceInv
<1>12. Work(g)'
  <2>1. StageInv(g)'
    BY <1>1, <1>2, <1>p DEF StageInv
  <2>2. PICK p \in Pair : p = gate[g].generated
    BY <1>w DEF GateRecord
  <2>3. OnePair(p) => OnePair(p)' /\ extraction'[p["model"]] = extraction[p["model"]]
    BY <1>4 DEF OnePair, PairKept, History, Pair, Name, MaybeMaker
  <2>4. MirrorInv(g)'
    BY <1>0, <1>1, <1>p, <1>w, <2>2, <2>3 DEF MirrorInv, Past
  <2>5. PolicyCount(g)'
    BY <1>0, <1>1, <1>7, <1>p, <1>w DEF PolicyCount
  <2>6. SourceCount(g)'
    BY <1>1, <1>p DEF SourceCount
  <2>7. PairCount(g)'
    BY <1>0, <1>1, <1>7, <1>p, <1>w, <2>2, <2>3 DEF PairCount, MirrorInv
  <2> QED BY <1>11, <2>1, <2>4, <2>5, <2>6, <2>7 DEF Work
<1> QED BY <1>10, <1>12, GoesOnKeeps

\* A stage that ends well: on to the next one, or to what its log is read for.
LEMMA StagePassesKeeps ==
  ASSUME IInv, NEW g \in Run, StagePasses(g)
  PROVE  IInv'
<1> DEFINE to == AfterLog(g)
<1>p. /\ {"wait", "stage", "generated", "audit", "validate"} \subseteq Staged
      /\ Staged \subseteq Working /\ Staged \subseteq GatePlaces /\ Staged \subseteq Hashed /\ "hash" \notin Staged
      /\ {"wait", "stage", "generated", "audit", "validate"} \cap (Validated \cup {"models", "last", "sources"}) = {}
      /\ "wait" \notin Ended /\ "wait" # "stage"
  BY DEF Staged, Working, GatePlaces, Validated, Hashed, Ended
<1>0. /\ gate[g].pc = "wait" /\ child' = [child EXCEPT ![g] = None]
      /\ gate' = [gate EXCEPT ![g].pc = to, ![g].stage = IF to = "stage" THEN @ + 1 ELSE @]
      /\ pairVars' = pairVars /\ gen' = gen /\ input' = input /\ policy' = policy
      /\ lock' = lock /\ clean' = clean /\ logs' = logs /\ audit' = audit /\ report' = report
      /\ edits' = edits /\ kills' = kills /\ UNCHANGED inputVars
  BY DEF StagePasses, At, checkout, inputVars, pairVars, bounds
<1>w. lock = g /\ report.run = g /\ report.status = "running" /\ report \in ReportRecord
      /\ gate \in [Run -> GateRecord] /\ StageInv(g) /\ EvidenceInv(g) /\ MirrorInv(g)
      /\ PolicyCount(g) /\ SourceCount(g) /\ PairCount(g)
  BY <1>0, <1>p, WorkingHolds
<1>1. /\ to \in {"stage", "generated", "audit", "validate"}
      /\ to = "generated" => Here(g) = "generate-sail"
      /\ to = "audit" => Here(g) = "theorem-audit"
      /\ to = "validate" <=> Here(g) = "public-decoder"
      /\ to = "stage" => Here(g) # "generate-sail" /\ Here(g) # "theorem-audit" /\ Here(g) # "public-decoder"
  BY DEF AfterLog
<1> HIDE DEF to
<1>2. /\ gate' \in [Run -> GateRecord] /\ gate'[g].pc = to
      /\ gate'[g].stage = IF to = "stage" THEN gate[g].stage + 1 ELSE gate[g].stage
      /\ gate'[g].policy = gate[g].policy /\ gate'[g].sha = gate[g].sha /\ gate'[g].generated = gate[g].generated
      /\ \A h \in Run : h # g => gate'[h] = gate[h]
  <2>1. PICK e \in GateRecord : e = gate[g]
    BY <1>w
  <2>2. PICK v \in Nat : v = IF to = "stage" THEN e.stage + 1 ELSE e.stage
    BY DEF GateRecord
  <2>3. PICK f : f = [e EXCEPT !.pc = to, !.stage = v]
    OBVIOUS
  <2>4. f.pc = to /\ f.stage = v /\ f.sha = e.sha /\ f.policy = e.policy /\ f.generated = e.generated
    BY <2>3 DEF GateRecord
  <2>5. f \in GateRecord
    BY <2>3, <1>p, <1>1 DEF GateRecord
  <2>6. gate' = [gate EXCEPT ![g] = f]
    BY <1>0, <1>w, <2>1, <2>2, <2>3 DEF GateRecord
  <2> QED BY <1>w, <2>1, <2>2, <2>4, <2>5, <2>6
<1>3. PairKept /\ History
  BY <1>0, OthersKeepPair DEF IInv, PairTyped, PairKept
<1>4. /\ EvidenceInv(g)' /\ StageInv(g)'
      /\ \A j : Opened(g, j) => Opened(g, j)'
      /\ Past(g, "generate-sail")' => Past(g, "generate-sail")
  <2>1. CASE to = "stage"
    BY <1>0, <1>1, <1>2, <2>1, AdvanceIs
  <2>2. CASE to # "stage"
    <3>1. gate[g].pc \in Staged \ {"stage"} /\ gate'[g].pc \in Staged \ {"stage"} /\ gate'[g].stage = gate[g].stage
      BY <1>0, <1>1, <1>2, <1>p, <2>2
    <3>2. /\ EvidenceInv(g)' /\ \A j : Opened(g, j) => Opened(g, j)'
          /\ Past(g, "generate-sail")' => Past(g, "generate-sail")
      BY <1>0, <1>2, <3>1, StaysIs
    <3>3. gate'[g].pc \notin {"sources", "models", "last"}
      BY <1>1, <1>2, <1>p
    <3>4. StageInv(g)'
      BY <1>0, <1>1, <1>2, <1>p, <1>w, <3>1, <3>3 DEF StageInv, Here
    <3> QED BY <3>2, <3>4
  <2> QED BY <2>1, <2>2
<1>5. clean[g].pc # "idle" => to = "validate" /\ Here(g)' = "public-decoder"
  <2>1. clean[g].pc # "idle" => Here(g) = "public-decoder"
    BY <1>0, <1>p DEF IInv, Rest, CleanPlace
  <2>2. to = "validate" => Here(g)' = Here(g)
    BY <1>2 DEF Here
  <2> QED BY <1>1, <2>1, <2>2
<1>6. GoesOn(g)
  <2>1. GateTyped'
    BY <1>0, <1>2 DEF IInv, GateTyped
  <2>2. gen'[g].pc # "idle" => \E j \in DOMAIN Stages : Stages[j] = "generate-rust" /\ Opened(g, j)'
    BY <1>0, <1>4, <1>p DEF IInv, Rest, BeginInv
  <2>3. CleanInv(clean[g])' /\ CopyCount(clean[g])'
    BY <1>0, <1>3, BuildOf DEF IInv, Rest, GateTyped
  <2>4. child'[g] = None /\ \A h \in Run : h # g => child'[h] = child[h]
    BY <1>0 DEF IInv, GateTyped
  <2>5. gate'[g].pc \in Working /\ gate'[g].pc \in Staged
    BY <1>1, <1>2, <1>p
  <2> QED BY <1>0, <1>2, <1>3, <1>5, <1>w, <2>1, <2>2, <2>3, <2>4, <2>5 DEF GoesOn
<1>7. Work(g)'
  <2>0. /\ gate'[g].pc \in Staged /\ gate'[g].pc \in Hashed /\ gate'[g].pc \notin Validated
        /\ gate'[g].pc # "hash" /\ gate'[g].pc \notin {"sources", "models", "last"} /\ gate'[g].pc \notin Working \ Staged
        /\ gate[g].pc \in Staged /\ gate[g].pc \in Hashed
    BY <1>0, <1>1, <1>2, <1>p
  <2>2. PICK p \in Pair : p = gate[g].generated
    BY <1>w DEF GateRecord
  <2>3. OnePair(p) => OnePair(p)' /\ extraction'[p["model"]] = extraction[p["model"]]
    BY <1>3 DEF OnePair, History, Pair, Name, MaybeMaker
  <2>4. MirrorInv(g)'
    BY <1>0, <1>2, <1>4, <1>w, <2>0, <2>2, <2>3 DEF MirrorInv
  <2>5. PolicyCount(g)'
    BY <1>0, <1>2, <1>w, <2>0 DEF PolicyCount
  <2>6. SourceCount(g)'
    BY <2>0 DEF SourceCount
  <2>7. PairCount(g)'
    BY <1>0, <1>2, <1>w, <2>0, <2>2, <2>3 DEF PairCount, MirrorInv
  <2> QED BY <1>4, <2>4, <2>5, <2>6, <2>7 DEF Work
<1> QED BY <1>6, <1>7, GoesOnKeeps

\* A stage that fails.
LEMMA StageFailsKeeps ==
  ASSUME IInv, NEW g \in Run, StageFails(g)
  PROVE  IInv'
<1>1. /\ gate[g].pc = "wait" /\ Fail(g)
      /\ child' = [child EXCEPT ![g] = None] /\ clean' = [clean EXCEPT ![g] = NewClean]
      /\ pairVars' = pairVars /\ input' = input /\ policy' = policy /\ UNCHANGED <<inputVars, edits, kills>>
      /\ logs' = logs /\ audit' = audit
  BY DEF StageFails, At, checkout, inputVars, bounds
<1>2. PairKept /\ NoneBegins
  BY <1>1, OthersKeepPair DEF IInv, PairTyped
<1>3. gate[g].pc \in Working /\ audit' \in Run \cup {None}
  BY <1>1 DEF Working, Staged, IInv, GateTyped
<1>4. Ending(g)
  BY <1>1, <1>2, <1>3, FailEnds DEF IInv, Rest
<1> QED BY <1>4, EndingKeeps

\* A stage that hangs: its process group is killed, the generator in it too.
LEMMA TimeoutKeeps ==
  ASSUME IInv, NEW g \in Run, Timeout(g)
  PROVE  IInv'
<1>1. /\ gate[g].pc = "wait" /\ Fail(g)
      /\ child' = [child EXCEPT ![g] = None] /\ clean' = [clean EXCEPT ![g] = NewClean]
      /\ pair' = pair /\ extraction' = extraction /\ input' = input /\ policy' = policy
      /\ UNCHANGED <<inputVars, edits, kills>> /\ UNCHANGED <<inputVars, pair, extraction>>
      /\ logs' = logs /\ audit' = audit
      /\ IF GenAlive(g) THEN GenEnds(g, "killed") ELSE UNCHANGED <<gen, genLock>>
  BY DEF Timeout, TimesOut, KillGroup, At, inputVars, bounds
<1>2. PairKept /\ NoneBegins
  <2>1. CASE GenAlive(g)
    BY <1>1, <2>1, KillKeepsPair DEF IInv
  <2>2. CASE ~ GenAlive(g)
    <3>1. UNCHANGED pairVars
      BY <1>1, <2>2 DEF pairVars
    <3> QED BY <1>1, <3>1, OthersKeepPair DEF IInv, PairTyped
  <2> QED BY <2>1, <2>2
<1>3. gate[g].pc \in Working /\ audit' \in Run \cup {None}
  BY <1>1 DEF Working, Staged, IInv, GateTyped
<1>4. Ending(g)
  BY <1>1, <1>2, <1>3, FailEnds DEF IInv, Rest
<1> QED BY <1>4, EndingKeeps

\* The pair is one extraction under the policy of now; another policy than the
\* one that was hashed has cost an edit.
LEMMA GeneratedKeeps ==
  ASSUME IInv, NEW g \in Run, Generated(g)
  PROVE  IInv'
<1>p. "generated" \in PlainPlaces /\ "stage" \in PlainPlaces /\ "generated" \in Staged /\ "stage" \in Staged
      /\ "generated" \in Working /\ "stage" \in GatePlaces /\ "stage" \in Hashed /\ "generated" \in Hashed
      /\ "stage" \notin Validated /\ "stage" \notin {"hash", "sources", "models", "last"}
      /\ "idle" \notin Begun /\ "idle" \notin Rechecked
  BY DEF PlainPlaces, Staged, Working, GatePlaces, Hashed, Validated, Begun, Rechecked
<1>0. gate[g].pc = "generated" /\ UNCHANGED <<checkout, child, clean, logs, bounds>> /\ audit' = audit
  BY DEF Generated, At
<1>w. lock = g /\ report.run = g /\ report.status = "running" /\ report \in ReportRecord
      /\ gate \in [Run -> GateRecord] /\ audit \in Run \cup {None} /\ StageInv(g) /\ MirrorInv(g) /\ PolicyCount(g)
      /\ edits \in Nat
  BY <1>0, <1>p, WorkingHolds
<1>1. CASE Fail(g)
  BY <1>0, <1>1, <1>p, <1>w, PlainFails
<1>2. CASE /\ GeneratedEvidence
           /\ gate' = [gate EXCEPT ![g].pc = "stage", ![g].stage = @ + 1, ![g].generated = pair]
           /\ report' = [report EXCEPT !.generated = pair] /\ UNCHANGED lock
  <2>1. PICK e \in GateRecord : e = gate[g]
    BY <1>w
  <2>2. PICK f : f = [e EXCEPT !.pc = "stage", !.stage = e.stage + 1, !.generated = pair]
    OBVIOUS
  <2>t. pair \in Pair
    BY DEF IInv, PairTyped
  <2>3. /\ f.pc = "stage" /\ f.stage = e.stage + 1 /\ f.sha = e.sha /\ f.policy = e.policy /\ f.generated = pair
        /\ e.stage \in Nat
    BY <2>2 DEF GateRecord
  <2>4. f \in GateRecord
    <3>1. e.stage + 1 \in Nat
      BY <2>3
    <3> QED BY <2>2, <1>p, <2>t, <3>1 DEF GateRecord
  <2>5. gate' = [gate EXCEPT ![g] = f]
    BY <1>2, <2>1, <2>2, <1>w DEF GateRecord
  <2>6. /\ gate' \in [Run -> GateRecord] /\ gate'[g] = f
        /\ \A h \in Run : h # g => gate'[h] = gate[h]
    BY <2>4, <2>5, <1>w
  <2>7. Here(g) = "generate-sail"
    BY <1>0, <1>p, <1>w DEF StageInv
  <2>8. /\ logs' = logs /\ gate[g].pc \in {"wait", "generated", "audit"} /\ gate'[g].pc = "stage"
        /\ gate'[g].stage = gate[g].stage + 1 /\ audit' = audit
    BY <1>0, <2>1, <2>3, <2>6
  <2>9. /\ StageInv(g)' /\ EvidenceInv(g)'
        /\ \A j : Opened(g, j) => Opened(g, j)'
    BY <2>6, <2>7, <2>8, AdvanceIs
  <2>r. report' \in ReportRecord /\ report'.run = g /\ report'.status = "running" /\ report'.policy = report.policy
        /\ report'.generated = pair /\ report'.sources = report.sources
    BY <1>2, <1>w, <2>t DEF ReportRecord
  <2>10. /\ GoesOn(g) /\ policy' = policy /\ input' = input /\ edits' = edits /\ clean'[g].pc = "idle"
         /\ pair' = pair /\ extraction' = extraction /\ gen' = gen
    <3>1. gate[g].pc \in PlainPlaces /\ gate'[g].pc \in PlainPlaces /\ gate'[g].pc \in Staged
      BY <1>0, <1>p, <2>3, <2>6
    <3>2. lock' = g /\ audit' \in Run \cup {None}
      BY <1>0, <1>2, <1>w
    <3> QED BY <1>0, <2>6, <2>9, <2>r, <3>1, <3>2, PlainGoesOn
  <2>11. pair["model"] # None /\ OnePair(pair) /\ extraction[pair["model"]].policy = policy
    <3>1. pair["model"] # None /\ pair["llbc"] = pair["model"] /\ extraction[pair["model"]].policy = policy
      BY <1>2 DEF GeneratedEvidence, CheckProvenance, PolicyBinding
    <3>2. pair["model"] \in Maker
      BY <2>t, <3>1 DEF Pair, Name, MaybeMaker
    <3>3. Seen(pair["model"])
      BY <3>2 DEF IInv, SeenInv, Live
    <3> QED BY <3>1, <3>3 DEF OnePair
  <2>12. Work(g)'
    <3>1. OnePair(pair)'
      BY <2>10, <2>11 DEF OnePair, Seen
    <3>2. MirrorInv(g)'
      <4>1. gate'[g].generated = pair' /\ report'.generated = pair'
        BY <2>3, <2>6, <2>10, <2>r
      <4>2. OnePair(gate[g].generated)'
        BY <3>1, <4>1 DEF OnePair
      <4> QED BY <1>0, <1>p, <1>w, <2>1, <2>3, <2>6, <2>10, <2>11, <2>r, <4>1, <4>2 DEF MirrorInv
    <3>3. PolicyCount(g)'
      BY <1>0, <1>p, <1>w, <2>1, <2>3, <2>6, <2>10 DEF PolicyCount
    <3>4. SourceCount(g)'
      BY <1>p, <2>3, <2>6 DEF SourceCount
    <3>5. PairCount(g)'
      <4>1. policy = e.sha \/ edits >= 1
        BY <1>0, <1>p, <1>w, <2>1 DEF PolicyCount
      <4>2. /\ gate'[g].generated = pair /\ gate'[g].sha = e.sha /\ gate'[g].pc = "stage"
            /\ extraction'[pair["model"]].policy = policy /\ policy' = policy /\ edits' = edits
        BY <2>3, <2>6, <2>10, <2>11
      <4> QED BY <1>p, <2>10, <4>1, <4>2 DEF PairCount
    <3> QED BY <2>9, <3>2, <3>3, <3>4, <3>5 DEF Work
  <2> QED BY <2>10, <2>12, GoesOnKeeps
<1> QED BY <1>1, <1>2 DEF Generated

\* The audit is this run's, whatever it says.
LEMMA AuditKeeps ==
  ASSUME IInv, NEW g \in Run, Audit(g)
  PROVE  IInv'
<1>p. "audit" \in PlainPlaces /\ "stage" \in PlainPlaces /\ "audit" \in Staged /\ "stage" \in Staged
      /\ "audit" \in Working /\ "stage" \in GatePlaces /\ "stage" \in Hashed /\ "audit" \in Hashed
      /\ "stage" \notin Validated /\ "stage" \notin {"hash", "sources", "models", "last"}
      /\ "idle" \notin Begun /\ "idle" \notin Rechecked
  BY DEF PlainPlaces, Staged, Working, GatePlaces, Hashed, Validated, Begun, Rechecked
<1>0. gate[g].pc = "audit" /\ UNCHANGED <<checkout, child, clean, logs, bounds>> /\ audit' = g
  BY DEF Audit, At
<1>w. lock = g /\ report.run = g /\ report.status = "running" /\ report \in ReportRecord
      /\ gate \in [Run -> GateRecord] /\ StageInv(g) /\ MirrorInv(g) /\ PolicyCount(g) /\ PairCount(g)
  BY <1>0, <1>p, WorkingHolds
<1>1. CASE Fail(g)
  BY <1>0, <1>1, <1>p, PlainFails
<1>2. CASE gate' = [gate EXCEPT ![g].pc = "stage", ![g].stage = @ + 1] /\ UNCHANGED <<lock, report>>
  <2>1. PICK e \in GateRecord : e = gate[g]
    BY <1>w
  <2>2. PICK f : f = [e EXCEPT !.pc = "stage", !.stage = e.stage + 1]
    OBVIOUS
  <2>3. /\ f.pc = "stage" /\ f.stage = e.stage + 1 /\ f.sha = e.sha /\ f.policy = e.policy /\ f.generated = e.generated
        /\ e.stage \in Nat
    BY <2>2 DEF GateRecord
  <2>4. f \in GateRecord
    <3>1. e.stage + 1 \in Nat
      BY <2>3
    <3> QED BY <2>2, <1>p, <3>1 DEF GateRecord
  <2>5. gate' = [gate EXCEPT ![g] = f]
    BY <1>2, <2>1, <2>2, <1>w DEF GateRecord
  <2>6. /\ gate' \in [Run -> GateRecord] /\ gate'[g] = f
        /\ \A h \in Run : h # g => gate'[h] = gate[h]
    BY <2>4, <2>5, <1>w
  <2>7. Here(g) = "theorem-audit"
    BY <1>0, <1>p, <1>w DEF StageInv
  <2>8. /\ logs' = logs /\ gate[g].pc \in {"wait", "generated", "audit"} /\ gate'[g].pc = "stage"
        /\ gate'[g].stage = gate[g].stage + 1 /\ report' = report /\ lock' = g
    BY <1>0, <1>2, <1>w, <2>1, <2>3, <2>6
  <2>9. /\ StageInv(g)' /\ EvidenceInv(g)'
        /\ \A j : Opened(g, j) => Opened(g, j)'
        /\ Past(g, "generate-sail")' => Past(g, "generate-sail")
    BY <1>0, <2>6, <2>7, <2>8, AdvanceIs
  <2>10. /\ GoesOn(g) /\ policy' = policy /\ input' = input /\ edits' = edits /\ clean'[g].pc = "idle"
         /\ clean'[g] = clean[g] /\ pair' = pair /\ extraction' = extraction /\ gen' = gen
    <3>1. gate[g].pc \in PlainPlaces /\ gate'[g].pc \in PlainPlaces /\ gate'[g].pc \in Staged
      BY <1>0, <1>p, <2>3, <2>6
    <3> QED BY <1>0, <1>w, <2>6, <2>8, <2>9, <3>1, PlainGoesOn
  <2>12. Work(g)'
    <3>1. OnePair(e.generated) => OnePair(e.generated)'
      BY <2>10 DEF OnePair, Seen
    <3>2. MirrorInv(g)'
      BY <1>0, <1>p, <1>w, <2>1, <2>3, <2>6, <2>8, <2>9, <2>10, <3>1 DEF MirrorInv
    <3>3. PolicyCount(g)'
      BY <1>0, <1>p, <1>w, <2>1, <2>3, <2>6, <2>10 DEF PolicyCount
    <3>4. SourceCount(g)'
      BY <1>p, <2>3, <2>6 DEF SourceCount
    <3>5. PairCount(g)'
      BY <1>0, <1>p, <1>w, <2>1, <2>3, <2>6, <2>10 DEF PairCount
    <3> QED BY <2>9, <3>2, <3>3, <3>4, <3>5 DEF Work
  <2> QED BY <2>10, <2>12, GoesOnKeeps
<1> QED BY <1>1, <1>2 DEF Audit

\* The clean build is this policy's: what it copied, and the policy it began
\* with, are counted against the hash of the report.
LEMMA ValidateKeeps ==
  ASSUME IInv, NEW g \in Run, Validate(g)
  PROVE  IInv'
<1>p. /\ "validate" \in Staged /\ "sources" \in Staged /\ "validate" \in Working /\ "sources" \in Working
      /\ "sources" \in GatePlaces /\ "sources" \in Hashed /\ "validate" \in Hashed /\ "sources" \in Validated
      /\ "sources" \notin {"hash", "models", "last", "generated", "audit", "stage", "wait", "validate"}
      /\ "validate" \notin {"stage", "wait", "killed"}
      /\ "validate" \notin Ended /\ "idle" \notin Begun /\ "idle" \notin Rechecked
      /\ "passed" \in Begun /\ "passed" \in Copied /\ "passed" \in Rechecked
  BY DEF Staged, Working, GatePlaces, Hashed, Validated, Ended, Begun, Copied, Rechecked
<1>0. /\ gate[g].pc = "validate" /\ clean' = [clean EXCEPT ![g] = NewClean]
      /\ pairVars' = pairVars /\ gen' = gen /\ pair' = pair /\ extraction' = extraction
      /\ input' = input /\ policy' = policy /\ UNCHANGED <<inputVars, edits, kills>>
      /\ edits' = edits /\ kills' = kills /\ child' = child /\ logs' = logs /\ audit' = audit
  BY DEF Validate, At, checkout, inputVars, pairVars, bounds
<1>w. lock = g /\ report.run = g /\ report.status = "running" /\ report \in ReportRecord
      /\ gate \in [Run -> GateRecord] /\ audit \in Run \cup {None} /\ StageInv(g) /\ MirrorInv(g) /\ PolicyCount(g)
      /\ PairCount(g)
  BY <1>0, <1>p, WorkingHolds
<1>3. PairKept /\ History /\ NoneBegins
  BY <1>0, OthersKeepPair DEF IInv, PairTyped, PairKept
<1>1. CASE Fail(g)
  <2>1. Ending(g)
    BY <1>0, <1>1, <1>3, <1>p, <1>w, FailEnds DEF IInv, Rest
  <2> QED BY <2>1, EndingKeeps
<1>2. CASE /\ CheckShape(g) /\ SameCleanPolicy(g)
           /\ Step(g, "sources") /\ report' = [report EXCEPT !.clean = clean[g]] /\ UNCHANGED lock
  <2>1. GateGoes(g, "sources") /\ SameMind(g) /\ gate'[g].stage = gate[g].stage
    BY <1>2, <1>p, <1>w, StepIs
  <2>2. PICK c \in CleanRecord : c = clean[g]
    BY DEF IInv, GateTyped
  <2>r. report' \in ReportRecord /\ report'.run = g /\ report'.status = "running" /\ report'.policy = report.policy
        /\ report'.generated = report.generated /\ report'.sources = report.sources /\ report'.clean = c
    BY <1>2, <1>w, <2>2 DEF ReportRecord
  <2>3. c.pc = "passed" /\ c.sha = policy /\ c.sha = gate[g].sha
    BY <1>2, <2>2 DEF CheckShape, SameCleanPolicy
  <2>4. CleanInv(c) /\ CopyCount(c)
    BY <2>2 DEF IInv, Rest, BuildInv
  <2>5. CleanInv(c)'
    BY <1>3, <2>4, CleanKept
  <2>6. c.policy = c.sha
    BY <1>p, <2>3, <2>4 DEF CleanInv
  <2>7. /\ clean' \in [Run -> CleanRecord] /\ clean'[g].pc = "idle"
        /\ \A h \in Run : h # g => clean'[h] = clean[h]
    BY <1>0, NewCleanIs DEF IInv, GateTyped
  <2>8. child[g] = None
    BY <1>0, <1>p DEF IInv, Rest, ChildInv
  <2>9. /\ EvidenceInv(g)' /\ \A j : Opened(g, j) => Opened(g, j)'
        /\ Past(g, "generate-sail")' => Past(g, "generate-sail")
    <3>1. gate[g].pc \in Staged \ {"stage"} /\ gate'[g].pc \in Staged \ {"stage"}
          /\ \A h \in Run : h # g => gate'[h] = gate[h]
      BY <1>0, <1>p, <2>1 DEF GateGoes
    <3> QED BY <1>0, <2>1, <3>1, StaysIs
  <2>10. GoesOn(g)
    <3>1. GateTyped'
      BY <1>0, <1>2, <2>1, <2>7, <2>r DEF IInv, GateTyped, GateGoes
    <3>2. gen'[g].pc # "idle" => \E j \in DOMAIN Stages : Stages[j] = "generate-rust" /\ Opened(g, j)'
      BY <1>0, <1>p, <2>9 DEF IInv, Rest, BeginInv
    <3>3. CleanInv(clean[g])' /\ CopyCount(clean[g])'
      BY <2>7 DEF CleanInv, CopyCount, Begun, Copied, Rechecked
    <3>4. UNCHANGED <<inputVars, edits>>
      BY <1>0
    <3> QED BY <1>0, <1>2, <1>3, <1>p, <1>w, <2>1, <2>7, <2>8, <2>r, <3>1, <3>2, <3>3, <3>4 DEF GoesOn, GateGoes
  <2>11. Work(g)'
    <3>0. /\ gate'[g].pc = "sources" /\ gate'[g].policy = gate[g].policy /\ gate'[g].sha = gate[g].sha
          /\ gate'[g].generated = gate[g].generated
      BY <2>1 DEF GateGoes, SameMind
    <3>1. StageInv(g)'
      BY <1>0, <1>p, <1>w, <2>1, <3>0 DEF StageInv, Here
    <3>2. OnePair(gate[g].generated) => OnePair(gate[g].generated)'
      BY <1>0, <3>0 DEF OnePair, Seen
    <3>3. MirrorInv(g)'
      <4>1. CleanInv(report.clean)'
        BY <2>5, <2>r
      <4> QED BY <1>0, <1>p, <1>w, <2>3, <2>9, <2>r, <3>0, <3>2, <4>1 DEF MirrorInv
    <3>4. PolicyCount(g)'
      BY <1>0, <1>p, <1>w, <2>2, <2>3, <2>6, <2>7, <3>0 DEF PolicyCount
    <3>5. SourceCount(g)'
      BY <1>0, <1>p, <2>3, <2>4, <2>6, <2>r, <3>0 DEF SourceCount, CopyCount
    <3>6. PairCount(g)'
      BY <1>0, <1>p, <1>w, <2>2, <2>3, <2>7, <3>0 DEF PairCount
    <3> QED BY <2>9, <3>1, <3>3, <3>4, <3>5, <3>6 DEF Work
  <2> QED BY <2>10, <2>11, GoesOnKeeps
<1> QED BY <1>1, <1>2 DEF Validate

\* A comparison that the gate passes, of the two that lead on.
LEMMA RequirePasses ==
  ASSUME IInv, NEW g \in Run, gate[g].pc \in {"sources", "models"}, NEW to \in {"models", "last"},
         Step(g, to), UNCHANGED <<checkout, child, clean, logs, audit, bounds>>, UNCHANGED <<lock, report>>,
         (PolicyCount(g) /\ SourceCount(g) /\ PairCount(g))'
  PROVE  IInv'
<1>p. /\ gate[g].pc \in PlainPlaces /\ to \in PlainPlaces /\ gate[g].pc \in Staged /\ to \in Staged
      /\ gate[g].pc \in Working /\ to \in GatePlaces /\ to \in Hashed /\ gate[g].pc \in Hashed
      /\ gate[g].pc \in Validated /\ to \in Validated /\ to \notin {"generated", "audit", "stage"} /\ gate[g].pc # "stage"
  BY DEF PlainPlaces, Staged, Working, GatePlaces, Hashed, Validated
<1>w. lock = g /\ report.run = g /\ report.status = "running" /\ report \in ReportRecord
      /\ gate \in [Run -> GateRecord] /\ audit \in Run \cup {None} /\ StageInv(g) /\ MirrorInv(g)
  BY <1>p, WorkingHolds
<1>1. GateGoes(g, to) /\ SameMind(g) /\ gate'[g].stage = gate[g].stage
  BY <1>p, <1>w, StepIs
<1>2. /\ gate' \in [Run -> GateRecord] /\ gate'[g].pc = to
      /\ gate'[g].policy = gate[g].policy /\ gate'[g].sha = gate[g].sha /\ gate'[g].generated = gate[g].generated
      /\ \A h \in Run : h # g => gate'[h] = gate[h]
  BY <1>1 DEF GateGoes, SameMind
<1>3. lock' = g /\ report' = report /\ audit' = audit /\ logs' = logs
  BY <1>w
<1>4. /\ EvidenceInv(g)' /\ \A j : Opened(g, j) => Opened(g, j)'
      /\ Past(g, "generate-sail")' => Past(g, "generate-sail")
  <2>1. gate[g].pc \in Staged \ {"stage"} /\ gate'[g].pc \in Staged \ {"stage"}
    BY <1>2, <1>p
  <2> QED BY <1>1, <1>2, <1>3, <2>1, StaysIs
<1>5. GoesOn(g) /\ History /\ gen' = gen
  <2>1. gate'[g].pc \in PlainPlaces /\ gate'[g].pc \in Staged
    BY <1>2, <1>p
  <2>2. UNCHANGED <<checkout, child, clean, logs, bounds>>
    OBVIOUS
  <2> QED BY <1>2, <1>3, <1>4, <1>p, <1>w, <2>1, <2>2, PlainGoesOn
<1>6. StageInv(g)'
  BY <1>1, <1>2, <1>p, <1>w DEF StageInv, Here
<1>7. MirrorInv(g)'
  <2>1. OnePair(gate[g].generated) => OnePair(gate[g].generated)'
    BY <1>2, <1>5 DEF OnePair, Seen
  <2>2. PICK c \in CleanRecord : c = report.clean
    BY <1>w DEF ReportRecord
  <2>3. CleanInv(c)'
    BY <1>p, <1>w, <1>5, <2>2, CleanKept DEF MirrorInv
  <2>4. CleanInv(report.clean)'
    BY <1>3, <2>2, <2>3
  <2> QED BY <1>2, <1>3, <1>4, <1>p, <1>w, <2>1, <2>4 DEF MirrorInv
<1> QED BY <1>4, <1>5, <1>6, <1>7, GoesOnKeeps DEF Work

\* What both comparisons start from.
LEMMA ComparesWith ==
  ASSUME IInv, NEW g \in Run, gate[g].pc \in {"sources", "models"}, NEW to \in {"models", "last"},
         Step(g, to), UNCHANGED <<checkout, child, clean, logs, audit, bounds>>, UNCHANGED <<lock, report>>
  PROVE  /\ PolicyCount(g) /\ SourceCount(g) /\ PairCount(g) /\ MirrorInv(g) /\ edits \in Nat
         /\ gate[g].pc \in Staged /\ gate[g].pc \in Hashed /\ gate[g].pc \in Validated
         /\ gate'[g].pc = to /\ gate'[g].policy = gate[g].policy /\ gate'[g].sha = gate[g].sha
         /\ gate'[g].generated = gate[g].generated
         /\ input' = input /\ policy' = policy /\ extraction' = extraction /\ edits' = edits
         /\ clean' = clean /\ report' = report /\ clean[g].pc = "idle" /\ "idle" \notin Begun /\ "idle" \notin Rechecked
<1>1. gate[g].pc \in Working /\ to \in GatePlaces /\ gate[g].pc \in Staged /\ gate[g].pc \in Hashed /\ gate[g].pc \in Validated
      /\ gate[g].pc \notin {"killed", "wait", "validate"} /\ "idle" \notin Begun /\ "idle" \notin Rechecked
  BY DEF Working, Staged, GatePlaces, Hashed, Validated, Begun, Rechecked
<1>2. gate \in [Run -> GateRecord] /\ PolicyCount(g) /\ SourceCount(g) /\ PairCount(g) /\ MirrorInv(g) /\ edits \in Nat
  BY <1>1, WorkingHolds
<1>3. GateGoes(g, to) /\ SameMind(g)
  BY <1>1, <1>2, StepIs
<1>4. clean[g].pc = "idle"
  BY <1>1 DEF IInv, Rest, CleanPlace
<1>5. input' = input /\ policy' = policy /\ extraction' = extraction /\ edits' = edits
  BY DEF checkout, inputVars, pairVars, bounds
<1> QED BY <1>1, <1>2, <1>3, <1>4, <1>5 DEF GateGoes, SameMind

\* The sources are what the first policy approves: other copies cost a fourth edit.
LEMMA RecheckSourcesKeeps ==
  ASSUME IInv, NEW g \in Run, RecheckSources(g)
  PROVE  IInv'
<1>0. gate[g].pc = "sources" /\ UNCHANGED <<checkout, child, clean, logs, audit, bounds>>
  BY DEF RecheckSources, At
<1>1. CASE Fail(g)
  <2>1. gate[g].pc \in PlainPlaces /\ audit' \in Run \cup {None} /\ UNCHANGED <<checkout, child, clean, logs, bounds>>
    BY <1>0 DEF PlainPlaces, Working, Staged, IInv, GateTyped
  <2> QED BY <1>1, <2>1, PlainFails
<1>2. CASE input["sources"] = gate[g].policy /\ Step(g, "models") /\ UNCHANGED <<lock, report>>
  <2>1. /\ PolicyCount(g) /\ SourceCount(g) /\ PairCount(g) /\ MirrorInv(g) /\ edits \in Nat
        /\ gate[g].pc \in Staged /\ gate[g].pc \in Hashed /\ gate[g].pc \in Validated
        /\ gate'[g].pc = "models" /\ gate'[g].policy = gate[g].policy /\ gate'[g].sha = gate[g].sha
        /\ gate'[g].generated = gate[g].generated
        /\ input' = input /\ policy' = policy /\ extraction' = extraction /\ edits' = edits
        /\ clean' = clean /\ report' = report /\ clean[g].pc = "idle" /\ "idle" \notin Begun /\ "idle" \notin Rechecked
    BY <1>0, <1>2, ComparesWith
  <2>2. PolicyCount(g)'
    BY <1>2, <2>1 DEF PolicyCount
  <2>3. SourceCount(g)'
    BY <1>2, <2>1 DEF SourceCount, PolicyCount
  <2>4. PairCount(g)'
    BY <1>0, <2>1 DEF PairCount
  <2> QED BY <1>0, <1>2, <2>2, <2>3, <2>4, RequirePasses
<1>3. RecheckSources(g) => Fail(g) \/ (input["sources"] = gate[g].policy /\ Step(g, "models") /\ UNCHANGED <<lock, report>>)
  BY DEF RecheckSources, Require, SourceEvidence, SourceBaseline
<1> QED BY <1>1, <1>2, <1>3

\* The pair is the generated one, under the policy of now.
LEMMA RecheckGeneratedKeeps ==
  ASSUME IInv, NEW g \in Run, RecheckGenerated(g)
  PROVE  IInv'
<1>0. gate[g].pc = "models" /\ UNCHANGED <<checkout, child, clean, logs, audit, bounds>>
  BY DEF RecheckGenerated, At
<1>1. CASE Fail(g)
  <2>1. gate[g].pc \in PlainPlaces /\ audit' \in Run \cup {None} /\ UNCHANGED <<checkout, child, clean, logs, bounds>>
    BY <1>0 DEF PlainPlaces, Working, Staged, IInv, GateTyped
  <2> QED BY <1>1, <2>1, PlainFails
<1>2. CASE GeneratedEvidence /\ pair = gate[g].generated /\ Step(g, "last") /\ UNCHANGED <<lock, report>>
  <2>1. /\ PolicyCount(g) /\ SourceCount(g) /\ PairCount(g) /\ MirrorInv(g) /\ edits \in Nat
        /\ gate[g].pc \in Staged /\ gate[g].pc \in Hashed /\ gate[g].pc \in Validated
        /\ gate'[g].pc = "last" /\ gate'[g].policy = gate[g].policy /\ gate'[g].sha = gate[g].sha
        /\ gate'[g].generated = gate[g].generated
        /\ input' = input /\ policy' = policy /\ extraction' = extraction /\ edits' = edits
        /\ clean' = clean /\ report' = report /\ clean[g].pc = "idle" /\ "idle" \notin Begun /\ "idle" \notin Rechecked
    BY <1>0, <1>2, ComparesWith
  <2>2. PolicyCount(g)'
    BY <1>0, <2>1 DEF PolicyCount
  <2>3. SourceCount(g)'
    BY <1>0, <2>1 DEF SourceCount
  <2>4. extraction[gate[g].generated["model"]].policy = policy
    BY <1>2 DEF GeneratedEvidence, CheckProvenance, PolicyBinding
  <2>5. PairCount(g)'
    BY <1>0, <2>1, <2>4 DEF PairCount
  <2> QED BY <1>0, <1>2, <2>2, <2>3, <2>5, RequirePasses
<1> QED BY <1>1, <1>2 DEF RecheckGenerated, Require

\* A gate that passes has been through every stage.
LEMMA LastIsAll ==
  ASSUME IInv, NEW g \in Run, gate[g].pc = "last"
  PROVE  /\ audit = g /\ gate[g].generated["model"] # None
         /\ \A s \in StageNames : OwnLog(g, s)
<1>1. gate[g].pc \in Working /\ gate[g].pc \in Staged /\ gate[g].pc # "stage"
  BY DEF Working, Staged
<1>2. StageInv(g) /\ EvidenceInv(g) /\ MirrorInv(g)
  BY <1>1, WorkingHolds
<1>3. gate[g].stage \in DOMAIN Stages /\ Stages[gate[g].stage] = "public-decoder"
  BY <1>1, <1>2 DEF StageInv, Here
<1>4. \A j \in DOMAIN Stages : j < gate[g].stage \/ (j = gate[g].stage /\ Stages[j] = "public-decoder")
  BY <1>3, StageOrder
<1>5. \A j \in DOMAIN Stages : Opened(g, j)
  BY <1>1, <1>4 DEF Opened
<1>6. \A s \in StageNames : \E j \in DOMAIN Stages : Stages[j] = s
  BY DEF StageNames
<1>7. \A s \in StageNames : OwnLog(g, s)
  BY <1>2, <1>5, <1>6 DEF EvidenceInv
<1>8. {"generate-sail", "theorem-audit"} \subseteq StageNames
  BY StagesAssumption
<1>9. Past(g, "theorem-audit") /\ Past(g, "generate-sail")
  BY <1>4, <1>6, <1>8 DEF Past
<1> QED BY <1>1, <1>2, <1>7, <1>9 DEF EvidenceInv, MirrorInv

\* The policy is the one of the report: the run passes.
LEMMA RecheckPolicyKeeps ==
  ASSUME IInv, NEW g \in Run, RecheckPolicy(g)
  PROVE  IInv'
<1>0. gate[g].pc = "last" /\ UNCHANGED <<checkout, child, clean, logs, audit, bounds>>
  BY DEF RecheckPolicy, At
<1>p. /\ "last" \in Working /\ "last" \in Staged /\ "last" \in Hashed /\ "last" \in Validated
      /\ "last" \in PlainPlaces /\ "passed" \in Ended /\ "passed" \notin Working /\ "passed" \notin Staged
      /\ "passed" # "killed" /\ "passed" # "wait" /\ "last" \notin {"killed", "wait", "validate"}
  BY DEF Working, Staged, Hashed, Validated, PlainPlaces, Ended
<1>1. CASE Fail(g)
  <2>1. audit' \in Run \cup {None} /\ UNCHANGED <<checkout, child, clean, logs, bounds>>
    BY <1>0 DEF IInv, GateTyped
  <2> QED BY <1>0, <1>1, <1>p, <2>1, PlainFails
<1>2. CASE policy = gate[g].sha /\ Gone(g, "passed") /\ report' = [report EXCEPT !.status = "passed"] /\ lock' = None
  <2>w. /\ lock = g /\ report.run = g /\ report \in ReportRecord /\ gate \in [Run -> GateRecord] /\ edits \in Nat
        /\ MirrorInv(g) /\ PolicyCount(g) /\ SourceCount(g) /\ PairCount(g)
    BY <1>0, <1>p, WorkingHolds
  <2>1. /\ gate' \in [Run -> GateRecord] /\ gate'[g].pc = "passed" /\ gate'[g].generated = NoPair
        /\ \A h \in Run : h # g => gate'[h] = gate[h]
    BY <1>2, <1>p, <2>w, GoneIs DEF GateGoes
  <2>2. /\ report' \in ReportRecord /\ report'.run = g /\ report'.status = "passed" /\ report'.policy = report.policy
        /\ report'.generated = report.generated /\ report'.sources = report.sources /\ report'.clean = report.clean
    BY <1>2, <2>w DEF ReportRecord
  <2>3. /\ pairVars' = pairVars /\ gen' = gen /\ input' = input /\ policy' = policy /\ child' = child /\ clean' = clean
        /\ logs' = logs /\ edits' = edits /\ kills' = kills /\ audit' = audit /\ pair' = pair
        /\ extraction' = extraction /\ UNCHANGED <<inputVars, edits>>
    BY <1>0 DEF checkout, bounds, inputVars, pairVars
  <2>4. PairKept /\ History
    BY <2>3, OthersKeepPair DEF IInv, PairTyped, PairKept
  <2>5. GateTyped'
    BY <1>2, <2>1, <2>2, <2>3 DEF IInv, GateTyped
  <2>6. \A h \in Run : gate'[h].pc \notin Working
    BY <1>p, <2>1, <2>w DEF IInv, Rest, LockInv
  <2>7. child[g] = None /\ clean[g].pc = "idle"
    BY <1>0, <1>p DEF IInv, Rest, ChildInv, CleanPlace
  <2>8. LockInv' /\ IdleInv'
    BY <1>2, <2>1, <2>6, RunAssumption DEF IInv, Rest, LockInv, IdleInv
  <2>9. ChildInv' /\ CleanPlace'
    BY <2>1, <2>3, <2>7 DEF IInv, Rest, ChildInv, CleanPlace, Here
  <2>10. BeginInv'
    BY <1>p, <2>1, <2>3 DEF IInv, Rest, BeginInv, Opened
  <2>11. ReportInv'
    <3>1. audit = g /\ \A s \in StageNames : OwnLog(g, s) /\ logs[s] \subseteq Run
      BY <1>0, LastIsAll DEF IInv, GateTyped
    <3>2. \A s \in StageNames : OwnLog(g, s)'
      BY <2>1, <2>3, <3>1 DEF OwnLog
    <3>3. \A s \in StageNames : OwnLog(report.run, s)'
      BY <2>2, <3>2 DEF OwnLog
    <3> QED BY <1>2, <2>2, <2>3, <3>1, <3>3 DEF ReportInv
  <2>12. BuildInv'
    BY <2>3, <2>4, BuildOf DEF IInv, Rest, GateTyped, BuildInv
  <2>13. WorkInv'
    BY <2>6, WorkIdle DEF WorkInv
  <2>14. PassedInv'
    <3>1. gate[g].generated["model"] # None
      BY <1>0, LastIsAll
    <3>2. /\ report.policy = gate[g].sha /\ gate[g].sha \in Version /\ report.sources = gate[g].policy
          /\ report.generated = gate[g].generated /\ OnePair(gate[g].generated)
          /\ report.clean.pc = "passed" /\ CleanInv(report.clean) /\ report.clean.sha = gate[g].sha
      BY <1>0, <1>p, <2>w, <3>1 DEF MirrorInv
    <3>3. OnePair(report.generated)'
      BY <2>2, <2>3, <3>2 DEF OnePair, Seen
    <3>4. CleanInv(report.clean)'
      <4>1. PICK c \in CleanRecord : c = report.clean
        BY <2>w DEF ReportRecord
      <4>2. CleanInv(c)'
        BY <2>4, <3>2, <4>1, CleanKept
      <4> QED BY <2>2, <4>1, <4>2
    <3>5. extraction[report.generated["model"]].policy = report.policy \/ edits >= 4
      BY <1>0, <1>2, <1>p, <2>w, <3>1, <3>2 DEF PairCount
    <3>6. report.sources = report.policy \/ edits >= 4
      BY <1>0, <2>w, <3>2 DEF PolicyCount
    <3>7. report.clean.sources = report.policy \/ edits >= 4
      BY <1>0, <2>w, <3>2 DEF SourceCount
    <3> QED BY <2>2, <2>3, <3>2, <3>3, <3>4, <3>5, <3>6, <3>7 DEF PassedInv
  <2> QED BY <2>4, <2>5, <2>8, <2>9, <2>10, <2>11, <2>12, <2>13, <2>14 DEF PairKept, IInv, Rest
<1> QED BY <1>1, <1>2 DEF RecheckPolicy, SamePolicy

\* A gate is killed.
LEMMA KillKeeps ==
  ASSUME IInv, NEW g \in Run, Kill(g)
  PROVE  IInv'
<1>1. gate[g].pc \in Working
  BY DEF Kill, IInv, GateTyped, GateRecord, GatePlaces
<1>2. UNCHANGED pairVars /\ input' = input /\ policy' = policy
  BY DEF Kill, checkout, inputVars
<1>3. PairKept /\ NoneBegins
  BY <1>2, OthersKeepPair DEF IInv, PairTyped
<1>4. Ending(g)
  BY <1>1, <1>3, KillEnds DEF IInv
<1> QED BY <1>4, EndingKeeps

-----------------------------------------------------------------------------
(* The theorems.                                                           *)

\* It holds at first.
LEMMA InitInv == Init => IInv
<1> SUFFICES ASSUME Init PROVE IInv
  OBVIOUS
<1>t. /\ NewRun \in GenRecord /\ NewGate \in GateRecord /\ NoReport \in ReportRecord /\ NoPair \in Pair
      /\ NewRun.pc = "idle" /\ NewRun.done = {} /\ NewGate.pc = "idle" /\ NewGate.generated = NoPair
      /\ NoReport.status = "none"
  <2>1. NoPair \in Pair
    BY DEF NoPair, Pair, MaybeMaker
  <2>2. "idle" \in GenPlaces /\ "idle" \in GatePlaces
    BY DEF GenPlaces, GenPlace, GatePlaces
  <2>3. NewRun \in GenRecord /\ NewRun.pc = "idle" /\ NewRun.done = {}
    BY <2>1, <2>2 DEF NewRun, GenRecord, MaybeVersion
  <2>4. NewGate \in GateRecord /\ NewGate.pc = "idle" /\ NewGate.generated = NoPair
    BY <2>1, <2>2 DEF NewGate, GateRecord, MaybeVersion
  <2>5. NoReport \in ReportRecord /\ NoReport.status = "none"
    BY <2>1, NewCleanIs DEF NoReport, ReportRecord, MaybeVersion
  <2> QED BY <2>1, <2>3, <2>4, <2>5
<1>p. /\ "idle" \notin Working /\ "idle" \notin Staged /\ "idle" \notin Holding /\ "idle" \notin Moving
      /\ "idle" \notin Begun /\ "idle" \notin Copied /\ "idle" \notin Rechecked
  BY DEF Working, Staged, Holding, Moving, Installing, Begun, Copied, Rechecked
<1>0. /\ policy = Reviewed /\ input = [i \in Input |-> Reviewed] /\ pair = [n \in Name |-> Found]
      /\ extraction = [r \in Run \cup {Found} |-> IF r = Found THEN [policy |-> policy, input |-> input] ELSE None]
      /\ genLock = None /\ gen = [r \in Run |-> NewRun]
      /\ lock = None /\ gate = [g \in Run |-> NewGate] /\ child = [g \in Run |-> None]
      /\ clean = [g \in Run |-> NewClean] /\ logs = [s \in StageNames |-> {}]
      /\ audit = None /\ report = NoReport /\ edits = 0 /\ kills = 0
  BY DEF Init, PairInit
<1>1. PairTyped
  <2>1. input \in [Input -> Version] /\ policy \in Version
    BY <1>0, VersionAssumption
  <2>2. [policy |-> policy, input |-> input] \in Report
    BY <2>1 DEF Report
  <2>3. extraction \in [Maker -> Report \cup {None}]
    BY <1>0, <2>2 DEF Maker
  <2>4. pair \in Pair
    BY <1>0 DEF Pair, MaybeMaker, Maker
  <2> QED BY <1>0, <1>t, <2>1, <2>3, <2>4 DEF PairTyped
<1>2. GenInv
  BY <1>0, <1>t, <1>p DEF GenInv
<1>3. SeenInv
  <2> SUFFICES ASSUME NEW x \in Maker, Live(x) PROVE Seen(x)
    BY DEF SeenInv
  <2>1. \A h \in Run : ~ Saves(h, x)
    BY <1>0, <1>t DEF Saves
  <2>2. x = Found
    BY <1>0, <2>1 DEF Live, Name
  <2> QED BY <2>2, RunAssumption DEF Seen, Maker
<1>4. GateTyped
  BY <1>0, <1>t, NewCleanIs DEF GateTyped
<1>5. LockInv
  BY <1>0, <1>t, <1>p, RunAssumption DEF LockInv
<1>6. ChildInv /\ BeginInv /\ CleanPlace /\ IdleInv
  BY <1>0, <1>t, NewCleanIs DEF ChildInv, BeginInv, CleanPlace, IdleInv
<1>7. ReportInv /\ PassedInv
  BY <1>0, <1>t DEF ReportInv, PassedInv
<1>8. BuildInv
  <2> SUFFICES ASSUME NEW g \in Run PROVE CleanInv(clean[g]) /\ CopyCount(clean[g])
    BY DEF BuildInv
  <2>1. clean[g].pc = "idle"
    BY <1>0, NewCleanIs
  <2> QED BY <1>p, <2>1 DEF CleanInv, CopyCount
<1>9. WorkInv
  <2> SUFFICES ASSUME NEW g \in Run PROVE Work(g)
    BY DEF WorkInv
  <2>1. gate[g].pc = "idle"
    BY <1>0, <1>t
  <2>2. "idle" \notin Hashed /\ "idle" \notin Validated
    BY DEF Hashed, Validated, Staged
  <2>3. StageInv(g) /\ EvidenceInv(g) /\ MirrorInv(g)
    BY <1>p, <2>1, <2>2 DEF StageInv, EvidenceInv, Opened, MirrorInv
  <2>4. PolicyCount(g) /\ SourceCount(g) /\ PairCount(g)
    BY <1>p, <2>1, <2>2 DEF PolicyCount, SourceCount, PairCount
  <2> QED BY <2>3, <2>4 DEF Work
<1> QED BY <1>1, <1>2, <1>3, <1>4, <1>5, <1>6, <1>7, <1>8, <1>9 DEF IInv, Rest

\* Steps that change nothing change nothing.
LEMMA StutterKeeps ==
  ASSUME IInv, UNCHANGED vars
  PROVE  IInv'
<1>1. /\ pairVars' = pairVars /\ input' = input /\ policy' = policy
      /\ gate' = gate /\ lock' = lock /\ audit' = audit /\ report' = report /\ child' = child /\ clean' = clean
      /\ logs' = logs /\ edits' = edits /\ kills' = kills /\ edits \in Nat /\ UNCHANGED <<inputVars, edits>>
  BY DEF vars, gateVars, inputVars, IInv, GateTyped
<1>2. PairKept /\ NoneBegins
  BY <1>1, OthersKeepPair DEF IInv, PairTyped
<1>3. Quiet /\ GateTyped' /\ History
  BY <1>1, <1>2 DEF Quiet, IInv, GateTyped, PairKept
<1>4. /\ LockInv' /\ BeginInv' /\ IdleInv' /\ PassedInv'
      /\ \A h \in Run : StageInv(h)' /\ MirrorInv(h)'
  BY <1>1, <1>3, QuietKeeps
<1>5. ChildInv' /\ CleanPlace' /\ ReportInv'
  BY <1>1 DEF IInv, Rest, ChildInv, CleanPlace, ReportInv, Here, OwnLog
<1>6. BuildInv'
  BY <1>1, <1>3, BuildOf DEF IInv, Rest, GateTyped, BuildInv
<1>7. WorkInv'
  BY <1>1, <1>3, <1>4, EvidenceKept, CountsKept DEF Work, WorkInv
<1> QED BY <1>2, <1>3, <1>4, <1>5, <1>6, <1>7 DEF PairKept, IInv, Rest

\* Every step keeps it.
LEMMA NextInv == IInv /\ [Next]_vars => IInv'
<1> SUFFICES ASSUME IInv, [Next]_vars PROVE IInv'
  OBVIOUS
<1>1. ASSUME NEW g \in Run, GateStep(g) PROVE IInv'
  BY <1>1, StartKeeps, ReadPolicyKeeps, HashPolicyKeeps, EvidenceKeeps, OpenStageKeeps, TimeoutKeeps,
     GeneratedKeeps, AuditKeeps, ValidateKeeps, RecheckSourcesKeeps, RecheckGeneratedKeeps, RecheckPolicyKeeps
     DEF GateStep
<1>2. ASSUME NEW g \in Run, StageStep(g) PROVE IInv'
  BY <1>2, GenerateKeeps, WriteKeeps, StagePassesKeeps, StageFailsKeeps, OrphanKeeps,
     CleanBeginKeeps, CleanCopyKeeps, CleanRecheckKeeps, CleanCompareKeeps DEF StageStep
<1> QED BY <1>1, <1>2, EditKeeps, KillKeeps, StutterKeeps DEF Next

\* The invariant of the gate, the generator and the clean build, and the types
\* of everything they keep.
THEOREM Invariant == Spec => []IInv
BY InitInv, NextInv, PTL DEF Spec

\* A report that says passed lies beside the audit of its own run and beside
\* logs that its own run opened, to which at most a killed gate's stage wrote
\* (check_proof.py, the lock and the fixed directory).
THEOREM OneRunsEvidence == Spec => []EvidenceIsOneRun
<1>1. IInv => EvidenceIsOneRun
  BY DEF IInv, Rest, ReportInv, EvidenceIsOneRun, OwnLog
<1> QED BY <1>1, Invariant, PTL

\* What a passed run compiled and what it checked is what the policy of its
\* report approves, unless four edits were placed between its comparisons
\* (check_proof.py execute, check_lean_clean.py finish).
THEOREM PassedIsReviewed == Spec => []PassedBuildIsReviewed
<1>1. IInv => PassedBuildIsReviewed
  <2> SUFFICES ASSUME IInv, report.status = "passed", edits <= 3
               PROVE  report.sources = report.policy /\ report.clean.sources = report.policy
                      /\ report.clean.sha = report.policy
    BY DEF PassedBuildIsReviewed
  <2>1. ~ (edits >= 4)
    BY DEF IInv, GateTyped
  <2> QED BY <2>1 DEF IInv, Rest, PassedInv
<1> QED BY <1>1, Invariant, PTL

\* The pair that a passed report names, and the one the clean tree was built
\* from, are each one extraction, made under the report's policy
\* (generate_rebuilt_rust.py install, generated_evidence).
THEOREM PairIsOneExtraction == Spec => []PassedPairIsOneExtraction
<1>1. IInv => PassedPairIsOneExtraction
  <2> SUFFICES ASSUME IInv, report.status = "passed"
               PROVE  /\ \A p \in {report.generated, report.clean.generated} :
                           /\ p["model"] # None /\ p["llbc"] = p["model"]
                           /\ edits <= 3 => extraction[p["model"]].policy = report.policy
                      /\ report.clean.model = report.clean.generated["model"]
    BY DEF PassedPairIsOneExtraction
  <2>1. edits <= 3 => ~ (edits >= 4)
    BY DEF IInv, GateTyped
  <2>2. PassedInv
    BY DEF IInv, Rest
  <2>3. /\ report.generated["model"] # None /\ report.generated["llbc"] = report.generated["model"]
        /\ edits <= 3 => extraction[report.generated["model"]].policy = report.policy
    BY <2>1, <2>2 DEF PassedInv, OnePair
  <2>4. /\ report.clean.generated["model"] # None
        /\ report.clean.generated["llbc"] = report.clean.generated["model"]
        /\ extraction[report.clean.generated["model"]].policy = report.policy
        /\ report.clean.model = report.clean.generated["model"]
    BY <2>2 DEF PassedInv, CleanInv, OnePair, Begun, Rechecked
  <2> QED BY <2>3, <2>4
<1> QED BY <1>1, Invariant, PTL

\* An installation that failed and said so left both names as it found them
\* (generate_rebuilt_rust.py, the exception handler of install).
THEOREM FoundPairIsRestored == Spec => FailedInstallRestoresPair
<1>1. IInv /\ [Next]_vars => [\A g \in Run : RestoredPairIsFoundPair(g)]_vars
  <2> SUFFICES ASSUME IInv, Next, NEW r \in Run PROVE RestoredPairIsFoundPair(r)
    OBVIOUS
  <2>1. CASE gen'[r].pc = gen[r].pc
    BY <2>1 DEF RestoredPairIsFoundPair
  <2>2. CASE gen' = gen
    BY <2>2 DEF RestoredPairIsFoundPair
  <2>3. ASSUME NEW g \in Run, Generate(g) PROVE RestoredPairIsFoundPair(r)
    <3>1. CASE g = r
      BY <2>3, <3>1, RestoredStep DEF Generate, IInv
    <3>2. CASE g # r
      <4>1. gen'[r] = gen[r]
        BY <2>3, <3>2, GenEffects DEF Generate, IInv, GenEffect
      <4> QED BY <4>1, <2>1
    <3> QED BY <3>1, <3>2
  <2>4. ASSUME NEW g \in Run, OpenStage(g) PROVE RestoredPairIsFoundPair(r)
    <3>1. gen' = gen \/ gen' = [gen EXCEPT ![g].pc = "begin"]
      BY <2>4 DEF OpenStage
    <3>2. gen'[r].pc = gen[r].pc \/ gen'[r].pc = "begin"
      BY <3>1 DEF IInv, PairTyped, GenRecord
    <3> QED BY <3>2 DEF RestoredPairIsFoundPair
  <2>5. ASSUME NEW g \in Run, Timeout(g) PROVE RestoredPairIsFoundPair(r)
    <3>1. gen' = gen \/ GenEnds(g, "killed")
      BY <2>5 DEF Timeout, KillGroup
    <3>2. gen'[r].pc = gen[r].pc \/ gen'[r].pc = "killed"
      BY <3>1, GenEndsIs DEF IInv, GenEnd
    <3> QED BY <3>2 DEF RestoredPairIsFoundPair
  <2>6. ASSUME NEW g \in Run,
               \/ Start(g) \/ ReadPolicy(g) \/ HashPolicy(g) \/ Evidence(g)
               \/ Generated(g) \/ Audit(g) \/ Validate(g)
               \/ RecheckSources(g) \/ RecheckGenerated(g) \/ RecheckPolicy(g)
        PROVE  gen' = gen
    BY <2>6 DEF Start, ReadPolicy, HashPolicy, Evidence, Generated, Audit, Validate, RecheckSources,
                RecheckGenerated, RecheckPolicy, checkout, pairVars
  <2>7. ASSUME NEW g \in Run,
               \/ Write(g) \/ StagePasses(g) \/ StageFails(g) \/ OrphanEnds(g) \/ Kill(g)
               \/ CleanBegin(g) \/ CleanCopy(g) \/ CleanRecheck(g) \/ CleanCompare(g)
        PROVE  gen' = gen
    BY <2>7 DEF Write, StagePasses, StageFails, OrphanEnds, Kill, CleanBegin, CleanCopy, CleanRecheck,
                CleanCompare, checkout, pairVars
  <2>8. Edit => gen' = gen
    BY DEF Edit, pairVars
  <2> QED BY <2>2, <2>3, <2>4, <2>5, <2>6, <2>7, <2>8 DEF Next, GateStep, StageStep
<1> QED BY <1>1, Invariant, PTL DEF Spec, FailedInstallRestoresPair
=============================================================================
