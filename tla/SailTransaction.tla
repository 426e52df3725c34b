-------------------------- MODULE SailTransaction --------------------------
(***************************************************************************)
(* The installation of a regenerated Sail proof model                      *)
(* (scripts/sail_model_transaction.py): run_backend takes the build lock,  *)
(* and replace_model moves the old generator output aside, generates,      *)
(* adapts a copy in a staging directory, moves the old publication aside   *)
(* and renames the stage into place.  Any step may fail, be interrupted or *)
(* be the last one before a crash, and later calls find what is left.      *)
(*                                                                         *)
(* The calls here are of one backend: they share every path.  The flags of *)
(* record are memory; disk is transaction.json, written by save().         *)
(***************************************************************************)
EXTENDS Naturals, FiniteSets

CONSTANTS
  Call,        \* the calls of run_backend
  Config,      \* contents of the materialized configuration
  Before,      \* stands for whoever produced the trees found at first
  Interrupts,  \* can KeyboardInterrupt fall between two statements?
  Orphans,     \* can a generator outlive the call that started it?
  None

ASSUME CallAssumption == Before \notin Call /\ None \notin Call /\ Before # None
ASSUME ConfigAssumption == Config # {} /\ None \notin Config
ASSUME FlagAssumption == Interrupts \in BOOLEAN /\ Orphans \in BOOLEAN

VARIABLES
  pc,           \* pc[r]: the statement call r is about to execute
  lock,         \* the call that holds .sail-proof-generation.lock, or None
  tree,         \* tree[p]: the directory at path p
  config,       \* sail-model/build/ckb_vm_config.json
  buildConfig,  \* build/config/rv64d_v256_e64.json
  known,        \* known[r]: config_bytes
  record,       \* record[r]: the flags of the transaction in memory
  disk          \* disk[r]: the transaction.json of r, or None

vars == <<pc, lock, tree, config, buildConfig, known, record, disk>>

\* The two published names, and the directories mkdtemp makes for each call.
Source == <<"source", None>>
Destination == <<"destination", None>>
PreviousSource(r) == <<"previous source", r>>
FailedOutput(r) == <<"failed-output", r>>
PreviousDestination(r) == <<"previous destination", r>>
Stage(r) == <<"staged", r>>
Path == {Source, Destination} \cup
        {"previous source", "failed-output", "previous destination", "staged"} \X Call

\* A tree: who made it, how far it got, the configuration the generator read
\* and the one shipped in it.  "partial" and "copying" are unfinished.
NoTree == [by |-> None, state |-> "none", used |-> None, shipped |-> None]
State == {"none", "partial", "raw", "copying", "adapted"}
Tree == [by : Call \cup {Before, None}, state : State,
         used : Config \cup {None}, shipped : Config \cup {None}]
Finished(t) == t.state \in {"raw", "adapted"}
Publishable(t) == t.state = "adapted" /\ t.used = t.shipped

Flags == [generating : BOOLEAN, sourceSaved : BOOLEAN, destSaved : BOOLEAN,
          published : BOOLEAN, status : {"running", "installed", "failed"}]
NewRecord == [generating |-> FALSE, sourceSaved |-> FALSE, destSaved |-> FALSE,
              published |-> FALSE, status |-> "running"]

Body == {"move source", "source moved", "configure", "generate", "check", "copy", "adapt",
         "check adapted", "withdraw", "withdrawn", "publish", "moved in"}
Handler == {"restore destination", "set aside", "restore source", "record failure"}
Ended == {"refused", "installed", "failed", "abandoned", "crashed", "orphaned"}

\* The types, and that only the call that holds the lock is at work.
TypeOK ==
  /\ pc \in [Call -> {"begin"} \cup Body \cup Handler \cup Ended]
  /\ lock \in Call \cup {None}
  /\ tree \in [Path -> Tree]
  /\ config \in Config /\ buildConfig \in Config
  /\ known \in [Call -> Config \cup {None}]
  /\ record \in [Call -> Flags]
  /\ disk \in [Call -> Flags \cup {None}]
  /\ \A r \in Call : pc[r] \in Body \cup Handler => lock = r

Init ==
  /\ pc = [r \in Call |-> "begin"]
  /\ lock = None
  /\ config \in Config /\ buildConfig \in Config
  /\ \E source \in {NoTree, [by |-> Before, state |-> "raw", used |-> config, shipped |-> None]},
        destination \in {NoTree, [by |-> Before, state |-> "adapted",
                                  used |-> config, shipped |-> config]} :
       tree = [p \in Path |-> IF p = Source THEN source
                              ELSE IF p = Destination THEN destination ELSE NoTree]
  /\ known = [r \in Call |-> None]
  /\ record = [r \in Call |-> NewRecord]
  /\ disk = [r \in Call |-> None]

-----------------------------------------------------------------------------
At(r, here, next) == pc[r] = here /\ pc' = [pc EXCEPT ![r] = next]
Exists(p) == tree[p] # NoTree
\* rename, which refuses a directory that holds something.
Move(p, q) == ~ Exists(q) /\ tree' = [tree EXCEPT ![p] = NoTree, ![q] = tree[p]]
Remember(r, flag) == record' = [record EXCEPT ![r][flag] = TRUE]
Save(r) == disk' = [disk EXCEPT ![r] = record'[r]]

\* write_text truncates the file first: a save that fails or is cut off leaves
\* the old record or no readable one.
SaveFails(r) == disk' \in {disk, [disk EXCEPT ![r] = None]}

\* The lock is an open file: it goes with the call, however the call ends.
Unlock == lock' = None

rest == <<config, buildConfig, known>>

\* What an exception at a statement of the try block leads to.
ToHandler(r) ==
  pc' = [pc EXCEPT ![r] = IF record'[r].published THEN "record failure" ELSE "restore destination"]

\* flock(LOCK_EX | LOCK_NB), read the configuration, make the two backup
\* directories and save the first record.
BugNoLock(r) == UNCHANGED lock
TakeLock(r) == lock = None /\ lock' = r

Begin(r) ==
  /\ At(r, "begin", "move source")
  /\ TakeLock(r)
  /\ known' = [known EXCEPT ![r] = config]
  /\ disk' = [disk EXCEPT ![r] = record[r]]
  /\ UNCHANGED <<tree, config, buildConfig, record>>

\* The lock is taken, or something before the try block fails: nothing moved.
Refuse(r) ==
  /\ At(r, "begin", "refused")
  /\ UNCHANGED <<lock, tree, rest, record, disk>>

MoveSource(r) ==
  /\ IF Exists(Source)
       THEN At(r, "move source", "source moved") /\ Move(Source, PreviousSource(r))
       ELSE At(r, "move source", "configure") /\ UNCHANGED tree
  /\ UNCHANGED <<lock, rest, record, disk>>

\* Set the flag and save; a save that fails leaves the flag set.
SourceMoved(r) ==
  /\ pc[r] = "source moved"
  /\ Remember(r, "sourceSaved")
  /\ \/ Save(r) /\ pc' = [pc EXCEPT ![r] = "configure"]
     \/ SaveFails(r) /\ ToHandler(r)
  /\ UNCHANGED <<lock, tree, rest>>

\* generation_started; generate() copies the configuration into the build tree.
Configure(r) ==
  /\ At(r, "configure", "generate")
  /\ Remember(r, "generating")
  /\ buildConfig' = config
  /\ UNCHANGED <<lock, tree, config, known, disk>>

\* cmake writes the tree, unfinished until it is finished.
Generate(r) ==
  /\ \E state \in {"partial", "raw"} :
       /\ At(r, "generate", IF state = "raw" THEN "check" ELSE "generate")
       /\ tree' = [tree EXCEPT ![Source] =
                     [by |-> r, state |-> state, used |-> buildConfig, shipped |-> None]]
  /\ UNCHANGED <<lock, rest, record, disk>>

\* "configuration changed during generation": both copies are compared.
BugOnlySourceChecked(r) == config = known[r]
ConfigUnchanged(r) == config = known[r] /\ buildConfig = known[r]

\* The comparison, the required outputs and regular_tree, which may refuse.
CheckGenerated(r) ==
  /\ At(r, "check", "copy")
  /\ ConfigUnchanged(r)
  /\ UNCHANGED <<lock, tree, rest, record, disk>>

\* copytree of the raw output into the staging directory.
CopyTree(r) ==
  /\ \E state \in {"copying", tree[Source].state} :
       /\ At(r, "copy", IF state = "copying" THEN "copy" ELSE "adapt")
       /\ tree' = [tree EXCEPT ![Stage(r)] = [tree[Source] EXCEPT !.state = state]]
  /\ UNCHANGED <<lock, rest, record, disk>>

\* adapt(stage) ships the configuration and edits the stage only.
Adapt(r) ==
  /\ \E state \in {"copying", "adapted"} :
       /\ At(r, "adapt", IF state = "copying" THEN "adapt" ELSE "check adapted")
       /\ tree' = [tree EXCEPT ![Stage(r)] = [@ EXCEPT !.state = state, !.shipped = config]]
  /\ UNCHANGED <<lock, rest, record, disk>>

\* "configuration changed during adaptation", and regular_tree again.
BugShippedNotChecked(r) == TRUE
ShippedAsKnown(r) == config = known[r] /\ tree[Stage(r)].shipped = known[r]

CheckAdapted(r) ==
  /\ At(r, "check adapted", "withdraw")
  /\ ShippedAsKnown(r)
  /\ UNCHANGED <<lock, tree, rest, record, disk>>

\* The old publication is renamed, not removed.
BugOldModelRemoved(r) == tree' = [tree EXCEPT ![Destination] = NoTree]
KeepOldModel(r) == Move(Destination, PreviousDestination(r))

Withdraw(r) ==
  /\ IF Exists(Destination)
       THEN At(r, "withdraw", "withdrawn") /\ KeepOldModel(r)
       ELSE At(r, "withdraw", "publish") /\ UNCHANGED tree
  /\ UNCHANGED <<lock, rest, record, disk>>

Withdrawn(r) ==
  /\ pc[r] = "withdrawn"
  /\ Remember(r, "destSaved")
  /\ \/ Save(r) /\ pc' = [pc EXCEPT ![r] = "publish"]
     \/ SaveFails(r) /\ ToHandler(r)
  /\ UNCHANGED <<lock, tree, rest>>

Publish(r) ==
  /\ At(r, "publish", "moved in")
  /\ Move(Stage(r), Destination)
  /\ UNCHANGED <<lock, rest, record, disk>>

\* published, status installed, the last save, and the call returns.
MovedIn(r) ==
  /\ pc[r] = "moved in"
  /\ record' = [record EXCEPT ![r].published = TRUE, ![r].status = "installed"]
  /\ \/ Save(r) /\ pc' = [pc EXCEPT ![r] = "installed"] /\ Unlock
     \/ SaveFails(r) /\ ToHandler(r) /\ UNCHANGED lock
  /\ UNCHANGED <<tree, rest>>

-----------------------------------------------------------------------------
(* Failure.                                                                *)

\* An ordinary exception out of a statement that has no effect when it fails.
\* What follows a rename only sets a flag and saves: see above.
Fail(r) ==
  /\ pc[r] \in Body \ {"source moved", "withdrawn", "moved in"}
  /\ record' = [record EXCEPT ![r].generating = @ \/ pc[r] = "configure"]
  /\ ToHandler(r)
  /\ UNCHANGED <<lock, tree, rest, disk>>

\* KeyboardInterrupt between a rename and the flag that remembers it.
Interrupt(r) ==
  /\ Interrupts
  /\ pc[r] \in {"source moved", "withdrawn", "moved in"}
  /\ UNCHANGED record
  /\ ToHandler(r)
  /\ UNCHANGED <<lock, tree, rest, disk>>

\* The handler undoes what the flags in memory say was done.
BugTrustsDisk(r) == disk[r] # None /\ disk[r].destSaved /\ ~ Exists(Destination)
MayRestoreDestination(r) == record[r].destSaved /\ ~ Exists(Destination)

RestoreDestination(r) ==
  /\ At(r, "restore destination", "set aside")
  /\ IF MayRestoreDestination(r) THEN Move(PreviousDestination(r), Destination)
                                 ELSE UNCHANGED tree
  /\ UNCHANGED <<lock, rest, record, disk>>

BugOutputDiscarded(r) == tree' = [tree EXCEPT ![Source] = NoTree]
KeepOutput(r) == Move(Source, FailedOutput(r))

SetAside(r) ==
  /\ At(r, "set aside", "restore source")
  /\ IF record[r].generating /\ Exists(Source) THEN KeepOutput(r) ELSE UNCHANGED tree
  /\ UNCHANGED <<lock, rest, record, disk>>

RestoreSource(r) ==
  /\ At(r, "restore source", "record failure")
  /\ IF record[r].sourceSaved THEN Move(PreviousSource(r), Source) ELSE UNCHANGED tree
  /\ UNCHANGED <<lock, rest, record, disk>>

RecordFailure(r) ==
  /\ At(r, "record failure", "failed")
  /\ record' = [record EXCEPT ![r].status = "failed"]
  /\ Save(r)
  /\ Unlock
  /\ UNCHANGED <<tree, rest>>

\* An exception inside the handler: what it had not undone stays as it is.
HandlerFails(r) ==
  /\ pc[r] \in Handler
  /\ pc' = [pc EXCEPT ![r] = "abandoned"]
  /\ Unlock
  /\ UNCHANGED <<tree, rest, record, disk>>

\* The process is killed; the operating system drops its lock, which the
\* generator does not inherit, and a save may be cut off.
Crash(r) ==
  /\ pc[r] \in Body \cup Handler
  /\ pc' = [pc EXCEPT ![r] = IF Orphans /\ @ = "generate" THEN "orphaned" ELSE "crashed"]
  /\ Unlock
  /\ SaveFails(r)
  /\ UNCHANGED <<tree, rest, record>>

\* A generator whose call was killed still writes its output.
OrphanWrites(r) ==
  /\ At(r, "orphaned", "crashed")
  /\ tree' = [tree EXCEPT ![Source] =
                [by |-> r, state |-> "raw", used |-> known[r], shipped |-> None]]
  /\ UNCHANGED <<lock, rest, record, disk>>

\* Somebody edits the materialized configuration.
EditConfig ==
  /\ \E c \in Config \ {config} : config' = c
  /\ UNCHANGED <<pc, lock, tree, buildConfig, known, record, disk>>

-----------------------------------------------------------------------------
Forward(r) ==
  \/ Begin(r) \/ Refuse(r) \/ MoveSource(r) \/ SourceMoved(r) \/ Configure(r) \/ Generate(r)
  \/ CheckGenerated(r) \/ CopyTree(r) \/ Adapt(r) \/ CheckAdapted(r)
  \/ Withdraw(r) \/ Withdrawn(r) \/ Publish(r) \/ MovedIn(r)

Backward(r) ==
  \/ Fail(r) \/ Interrupt(r) \/ RestoreDestination(r) \/ SetAside(r) \/ RestoreSource(r)
  \/ RecordFailure(r) \/ HandlerFails(r) \/ Crash(r) \/ OrphanWrites(r)

Next == (\E r \in Call : Forward(r) \/ Backward(r)) \/ EditConfig

Spec == Init /\ [][Next]_vars

-----------------------------------------------------------------------------
(* Properties.                                                             *)

\* Whatever fails, crashes, is interrupted or is edited meanwhile, the
\* published name holds nothing or a completely adapted model generated from
\* the very configuration it ships ("failed generation/adaptation never
\* replaces the published model", and the two configuration checks).
DestinationIsPublishable == Exists(Destination) => Publishable(tree[Destination])

\* A finished tree is never overwritten or deleted: when it leaves a path it is
\* found at another one ("No directory is recursively deleted", "without
\* discarding any generated or adapted diagnostic output").
FinishedTreesOnlyMove ==
  [][\A p \in Path : Finished(tree[p]) /\ tree'[p] # tree[p]
       => \E q \in Path : tree'[q] = tree[p]]_vars

\* An adapted model - a publication, an old one, a stage - is never lost, even
\* if interrupts fall between a rename and its flag and generators outlive
\* their calls ("retaining recoverable backups").
AdaptedModelsOnlyMove ==
  [][\A p \in Path : tree[p].state = "adapted" /\ tree'[p] # tree[p]
       => \E q \in Path : tree'[q] = tree[p]]_vars

\* A call that failed, handled its failure to the end and had not published
\* has put both names back and left none of its own output under them.
FailureRestoresNames ==
  \A r \in Call : pc[r] = "failed" /\ ~ record[r].published =>
    /\ ~ Exists(PreviousSource(r)) /\ ~ Exists(PreviousDestination(r))
    /\ tree[Source].by # r /\ tree[Destination].by # r

\* transaction.json is never ahead of the directories: a backup it reports is
\* where it says unless the handler has put it back, and a call it reports
\* published has a publishable tree that no later call has lost.
RecordIsNeverAhead ==
  \A r \in Call : disk[r] # None =>
    /\ disk[r].sourceSaved /\ pc[r] \in Body \cup {"installed"} => Exists(PreviousSource(r))
    /\ disk[r].destSaved /\ pc[r] \in Body \cup {"installed"} => Exists(PreviousDestination(r))
    /\ disk[r].published => \E p \in Path : tree[p].by = r /\ Publishable(tree[p])
=============================================================================
