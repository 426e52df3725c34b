------------------------------ MODULE RustPair ------------------------------
(***************************************************************************)
(* The rebuilt generator of the Rust proof model                           *)
(* (scripts/generate_rebuilt_rust.py and the staged extraction of          *)
(* scripts/rebuilt_production_rust.py): extract from a private clone of    *)
(* the checkout, then install the model directory and its LLBC file, two   *)
(* names that only renames change, keeping what was there and putting it   *)
(* back when an installation fails.  A run may fail at any statement and   *)
(* may be killed between any two; the checkout may be edited meanwhile.    *)
(***************************************************************************)
EXTENDS Naturals, FiniteSets

CONSTANTS
  Run,      \* the runs of the generator
  Found,    \* stands for whoever made the pair found at first
  Version,  \* contents of a reviewed input; policy v approves inputs of version v
  Reviewed, \* the version at first
  None

ASSUME RunAssumption == Found \notin Run /\ None \notin Run \cup Version /\ Found # None
ASSUME VersionAssumption == Reviewed \in Version

VARIABLES
  input,       \* the contents of each kind of reviewed input in the checkout
  policy,      \* the contents of step-policy.json
  pair,        \* the two published names: the extraction the file under each comes from, or None
  extraction,  \* extraction[r]: the report of the staged extraction of r, or None
  genLock,     \* the run that holds .rebuilt-rust.lock, or None
  gen          \* gen[r]: the run's place and what it remembers

pairVars == <<pair, extraction, genLock, gen>>
inputVars == <<input, policy>>

\* The sources of the checkout and the tools and support files outside it.
Input == {"sources", "tools"}
Name == {"model", "llbc"}
NoPair == [n \in Name |-> None]
Report == [policy : Version, input : [Input -> Version]]

NewRun == [pc |-> "idle", policy |-> None, seen |-> None, saved |-> NoPair, done |-> {}, found |-> NoPair]
GenPlace == {"idle", "begin", "lock", "extract", "extracting", "provenance", "save model", "save llbc",
             "install model", "install llbc", "verify", "undo"}
GenEnd == {"installed", "failed", "restored", "killed"}
Installing == {"save model", "save llbc", "install model", "install llbc", "verify"}

PairInit ==
  /\ policy = Reviewed /\ input = [i \in Input |-> Reviewed]
  /\ pair = [n \in Name |-> Found]   \* a name that is free is what a killed installation leaves
  /\ extraction = [r \in Run \cup {Found} |->
                     IF r = Found THEN [policy |-> policy, input |-> input] ELSE None]
  /\ genLock = None
  /\ gen = [r \in Run |-> NewRun]

-----------------------------------------------------------------------------
(* What the checks of the sources compare.                                 *)

\* tools_and_environment, and the exact upstream-plus-patch checkout.
ToolsAndEnvironment(p) == input["tools"] = p
SourceBaseline(p) == input["sources"] = p
SourceEvidence(p) == SourceBaseline(p) /\ input["tools"] = p

\* An extraction is accepted only with the policy it was made under.
PolicyBinding(r) == extraction[r].policy = policy
CheckProvenance(r) == extraction[r] # None /\ PolicyBinding(r)

-----------------------------------------------------------------------------
(* run                                                                     *)

Goto(r, place) == gen' = [gen EXCEPT ![r].pc = place]
\* A process that is gone remembers nothing; its lock goes with it.
GenEnds(r, how) ==
  gen' = [gen EXCEPT ![r] = [NewRun EXCEPT !.pc = how]] /\ genLock' = IF genLock = r THEN None ELSE genLock

\* The policy is read, then the tools and the sources it approves are checked.
GenBegin(r) ==
  /\ gen[r].pc = "begin"
  /\ IF ToolsAndEnvironment(policy) /\ SourceEvidence(policy)
     THEN gen' = [gen EXCEPT ![r].pc = "lock", ![r].policy = policy] /\ UNCHANGED genLock
     ELSE GenEnds(r, "failed")
  /\ UNCHANGED <<inputVars, pair, extraction>>

\* flock(LOCK_EX | LOCK_NB), and a directory of its own for the extraction.
GenLockFree(r) == genLock = None
GenLock(r) ==
  /\ gen[r].pc = "lock"
  /\ IF GenLockFree(r) THEN Goto(r, "extract") /\ genLock' = r ELSE GenEnds(r, "failed")
  /\ UNCHANGED <<inputVars, pair, extraction>>

\* extraction.run: what is captured is cloned, and only the clone is built.
ExtractBegin(r) ==
  /\ gen[r].pc = "extract"
  /\ gen' = [gen EXCEPT ![r].pc = "extracting", ![r].seen = [policy |-> policy, input |-> input]]
  /\ UNCHANGED <<inputVars, pair, extraction, genLock>>

\* The inputs are captured again: only when nothing changed is the report a success.
ExtractEnd(r) ==
  /\ gen[r].pc = "extracting"
  /\ IF gen[r].seen = [policy |-> policy, input |-> input]
     THEN /\ extraction' = [extraction EXCEPT ![r] = gen[r].seen]
          /\ gen' = [gen EXCEPT ![r].pc = "provenance", ![r].seen = None] /\ UNCHANGED genLock
     ELSE GenEnds(r, "failed") /\ UNCHANGED extraction
  /\ UNCHANGED <<inputVars, pair>>

\* The last check before anything published is touched, and the staged copies.
GenProvenance(r) ==
  /\ gen[r].pc = "provenance"
  /\ IF CheckProvenance(r) /\ SourceEvidence(gen[r].policy)
     THEN gen' = [gen EXCEPT ![r].pc = "save model", ![r].found = pair] /\ UNCHANGED genLock
     ELSE GenEnds(r, "failed")
  /\ UNCHANGED <<inputVars, pair, extraction>>

-----------------------------------------------------------------------------
(* install                                                                 *)

\* The old file, if there is one, is renamed into the backup directory.
Save(r, n, here, next) ==
  /\ gen[r].pc = here
  /\ IF pair[n] = None
     THEN Goto(r, next) /\ UNCHANGED pair
     ELSE /\ pair' = [pair EXCEPT ![n] = None]
          /\ gen' = [gen EXCEPT ![r].pc = next, ![r].saved[n] = pair[n], ![r].done = @ \cup {<<"saved", n>>}]
  /\ UNCHANGED <<inputVars, extraction, genLock>>

\* The staged file is renamed to the published name.
Install(r, n, here, next) ==
  /\ gen[r].pc = here
  /\ pair' = [pair EXCEPT ![n] = r]
  /\ gen' = [gen EXCEPT ![r].pc = next, ![r].done = @ \cup {<<"installed", n>>}]
  /\ UNCHANGED <<inputVars, extraction, genLock>>

InstallStep(r) ==
  \/ Save(r, "model", "save model", "save llbc")
  \/ Save(r, "llbc", "save llbc", "install model")
  \/ Install(r, "model", "install model", "install llbc")
  \/ Install(r, "llbc", "install llbc", "verify")

\* The bytes under both names are those of the provenance.
Verify(r) ==
  /\ gen[r].pc = "verify"
  /\ IF pair = [n \in Name |-> r] THEN GenEnds(r, "installed") ELSE Goto(r, "undo") /\ UNCHANGED genLock
  /\ UNCHANGED <<inputVars, pair, extraction>>

\* The exception handler undoes, one rename at a time, what the flags say was
\* done, the last first.
UndoOrder == << <<"installed", "llbc">>, <<"installed", "model">>, <<"saved", "llbc">>, <<"saved", "model">> >>
BugUndoForgets(r, k) ==
  pair' = [pair EXCEPT ![UndoOrder[k][2]] = None]
UndoOne(r, k) ==
  pair' = [pair EXCEPT ![UndoOrder[k][2]] = IF UndoOrder[k][1] = "saved" THEN gen[r].saved[UndoOrder[k][2]] ELSE None]

Undo(r) ==
  /\ gen[r].pc = "undo"
  /\ IF gen[r].done = {}
     THEN GenEnds(r, "restored") /\ UNCHANGED pair
     ELSE LET k == CHOOSE k \in 1..4 : UndoOrder[k] \in gen[r].done /\ \A j \in 1..(k - 1) : UndoOrder[j] \notin gen[r].done
          IN  UndoOne(r, k) /\ gen' = [gen EXCEPT ![r].done = @ \ {UndoOrder[k]}] /\ UNCHANGED genLock
  /\ UNCHANGED <<inputVars, extraction>>

\* A statement raises: before the renames the run only ends, among them it undoes.
GenFail(r) ==
  /\ gen[r].pc \notin GenEnd \cup {"idle", "undo"}
  /\ IF gen[r].pc \in Installing THEN Goto(r, "undo") /\ UNCHANGED genLock ELSE GenEnds(r, "failed")
  /\ UNCHANGED <<inputVars, pair, extraction>>

GenAlive(r) == gen[r].pc \notin GenEnd \cup {"idle"}
GenStep(r) ==
  GenBegin(r) \/ GenLock(r) \/ ExtractBegin(r) \/ ExtractEnd(r) \/ GenProvenance(r)
    \/ InstallStep(r) \/ Verify(r) \/ Undo(r) \/ GenFail(r)

\* An installation that failed and said so left both names as it found them.
RestoredPairIsFoundPair(r) == gen[r].pc = "undo" /\ gen'[r].pc = "restored" => pair' = gen[r].found
=============================================================================
