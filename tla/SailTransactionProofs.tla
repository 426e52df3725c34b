----------------------- MODULE SailTransactionProofs -----------------------
(***************************************************************************)
(* Proofs about SailTransaction for any number of calls and any set of     *)
(* configurations: types and the lock, that an adapted model is never lost *)
(* even with interrupts and orphaned generators; when no generator         *)
(* outlives its call, that the published name never holds anything but a   *)
(* complete model generated from the configuration it ships, that no       *)
(* finished tree is written to, and that the record on disk is never ahead *)
(* of the renames; and when no interrupt falls between a rename and its    *)
(* flag, that a failure which says so has put every name back.             *)
(***************************************************************************)
EXTENDS SailTransaction, TLAPS

\* The statements up to the one that finishes the stage.
BeforeStage == {"begin", "move source", "source moved", "configure", "generate", "check",
                "copy", "adapt"}

\* Adapted models never carry a generator's name, and a call whose stage is not
\* finished has no adapted model in it.
Inv == 
  /\ TypeOK
  /\ tree[Source].state # "adapted"
  /\ \A r \in Call : tree[PreviousSource(r)].state # "adapted"
  /\ \A r \in Call : pc[r] \in BeforeStage => tree[Stage(r)].state # "adapted"

Steps(r) == Forward(r) \/ Backward(r)

\* The paths are distinct: the fixed names, and the directories of each call.
LEMMA PathFacts ==
  /\ Source \in Path /\ Destination \in Path /\ Source # Destination
  /\ \A r \in Call :
       /\ PreviousSource(r) \in Path /\ FailedOutput(r) \in Path
       /\ PreviousDestination(r) \in Path /\ Stage(r) \in Path
       /\ Source \notin {PreviousSource(r), FailedOutput(r), PreviousDestination(r), Stage(r)}
       /\ Destination \notin {PreviousSource(r), FailedOutput(r), PreviousDestination(r), Stage(r)}
       /\ PreviousSource(r) \notin {FailedOutput(r), PreviousDestination(r), Stage(r)}
       /\ FailedOutput(r) \notin {PreviousDestination(r), Stage(r)}
       /\ PreviousDestination(r) # Stage(r)
  /\ \A r, q \in Call : r # q =>
       /\ PreviousSource(r) # PreviousSource(q) /\ FailedOutput(r) # FailedOutput(q)
       /\ PreviousDestination(r) # PreviousDestination(q) /\ Stage(r) # Stage(q)
  /\ \A r, q \in Call : PreviousSource(r) # Stage(q)
BY DEF Path, Source, Destination, PreviousSource, FailedOutput, PreviousDestination, Stage

\* The empty tree and what the steps write are trees.
LEMMA TreeFacts ==
  /\ NoTree \in Tree /\ NoTree.state = "none"
  /\ NewRecord \in Flags
BY DEF NoTree, Tree, State, NewRecord, Flags

\* A move takes a tree to a path that was empty and changes nothing else.
LEMMA MoveFacts ==
  ASSUME TypeOK, NEW p \in Path, NEW q \in Path, p # q, Move(p, q)
  PROVE  /\ tree' \in [Path -> Tree]
         /\ tree[q] = NoTree /\ tree'[q] = tree[p] /\ tree'[p] = NoTree
         /\ \A x \in Path \ {p, q} : tree'[x] = tree[x]
BY TreeFacts DEF Move, Exists, TypeOK

\* What the try block and the handler are made of.
LEMMA LabelFacts ==
  /\ \A x \in Ended \cup {"begin"} : x \notin Body \cup Handler
  /\ BeforeStage \subseteq Body \cup {"begin"}
BY DEF Ended, Body, Handler, BeforeStage

\* The program starts with well-typed variables and no call at work.
LEMMA InitInv == Init => Inv
<1> SUFFICES ASSUME Init PROVE Inv
  OBVIOUS
<1>1. /\ tree[Source].state # "adapted"
      /\ \A p \in Path \ {Source, Destination} : tree[p] = NoTree
      /\ tree \in [Path -> Tree]
  <2>1. PICK source \in {NoTree, [by |-> Before, state |-> "raw", used |-> config, shipped |-> None]},
             destination \in {NoTree, [by |-> Before, state |-> "adapted",
                                       used |-> config, shipped |-> config]} :
          tree = [p \in Path |-> IF p = Source THEN source
                                 ELSE IF p = Destination THEN destination ELSE NoTree]
    BY DEF Init
  <2>2. source \in Tree /\ destination \in Tree
    BY <2>1, TreeFacts DEF Tree, State, Init
  <2>3. source.state # "adapted"
    BY <2>1, TreeFacts
  <2> QED BY <2>1, <2>2, <2>3, TreeFacts, PathFacts
<1>2. TypeOK
  <2>1. pc \in [Call -> {"begin"}]
    BY DEF Init
  <2>2. record \in [Call -> Flags] /\ disk \in [Call -> Flags \cup {None}]
    BY TreeFacts DEF Init
  <2> QED BY <1>1, <2>1, <2>2, LabelFacts DEF Init, TypeOK
<1>3. \A r \in Call : /\ tree[PreviousSource(r)].state # "adapted"
                      /\ tree[Stage(r)].state # "adapted"
  BY <1>1, PathFacts, TreeFacts
<1> QED BY <1>1, <1>2, <1>3 DEF Inv


\* Every step of a call keeps the types and the lock discipline.
LEMMA TypeStep == ASSUME TypeOK, [Next]_vars PROVE TypeOK'
<1> USE TreeFacts, PathFacts
<1>1. ASSUME NEW r \in Call, Forward(r) PROVE TypeOK'
  <2>1. CASE Begin(r)
    <3>1. disk' \in [Call -> Flags \cup {None}] /\ known' \in [Call -> Config \cup {None}]
      BY <2>1 DEF TypeOK, Begin
    <3>2. \A q \in Call : pc'[q] \in Body \cup Handler => lock' = q
      BY <2>1, CallAssumption, LabelFacts DEF TypeOK, Begin, At, TakeLock
    <3> QED BY <2>1, <3>1, <3>2 DEF TypeOK, Begin, At, TakeLock, Body
  <2>2. CASE Refuse(r)
    BY <2>2 DEF TypeOK, Refuse, rest, Body, Handler, Ended, Flags, At
  <2>3. CASE MoveSource(r)
    <3>1. tree' \in [Path -> Tree]
      BY <2>3, MoveFacts DEF TypeOK, MoveSource, Tree, State
    <3>2. QED BY <2>3, <3>1 DEF TypeOK, MoveSource, At, rest, Body, Handler, Ended
  <2>4. CASE SourceMoved(r)
    <3>1. [record[r] EXCEPT !.sourceSaved = TRUE] \in Flags
      BY DEF TypeOK, Flags
    <3>2. record' = [record EXCEPT ![r] = [record[r] EXCEPT !.sourceSaved = TRUE]]
      BY <2>4 DEF SourceMoved, Remember, TypeOK, Flags
    <3>3. record' \in [Call -> Flags] /\ record'[r] \in Flags
      BY <3>1, <3>2 DEF TypeOK
    <3>4. disk' \in [Call -> Flags \cup {None}]
      BY <2>4, <3>3 DEF SourceMoved, Save, SaveFails, TypeOK
    <3>5. /\ pc' \in [Call -> {"begin"} \cup Body \cup Handler \cup Ended]
          /\ \A q \in Call : pc'[q] \in Body \cup Handler => lock' = q
      BY <2>4 DEF SourceMoved, ToHandler, TypeOK, Body, Handler, Ended
    <3> QED BY <2>4, <3>3, <3>4, <3>5 DEF TypeOK, SourceMoved, rest
  <2>5. CASE Configure(r)
    BY <2>5 DEF TypeOK, Configure, rest, Body, Handler, Ended, Flags, At, Remember
  <2>6. CASE Generate(r)
    <3>1. tree' \in [Path -> Tree]
      BY <2>6, MoveFacts DEF TypeOK, Generate, Tree, State
    <3>2. QED BY <2>6, <3>1 DEF TypeOK, Generate, At, rest, Body, Handler, Ended
  <2>7. CASE CheckGenerated(r)
    BY <2>7 DEF TypeOK, CheckGenerated, rest, Body, Handler, Ended, Flags, At
  <2>8. CASE CopyTree(r)
    <3>1. tree' \in [Path -> Tree]
      <4>1. PICK state \in {"copying", tree[Source].state} :
              tree' = [tree EXCEPT ![Stage(r)] = [tree[Source] EXCEPT !.state = state]]
        BY <2>8 DEF CopyTree
      <4>2. [tree[Source] EXCEPT !.state = state] \in Tree
        BY <4>1 DEF TypeOK, Tree, State
      <4> QED BY <4>1, <4>2 DEF TypeOK
    <3>2. QED BY <2>8, <3>1 DEF TypeOK, CopyTree, At, rest, Body, Handler, Ended
  <2>9. CASE Adapt(r)
    <3>1. tree' \in [Path -> Tree]
      <4>1. PICK state \in {"copying", "adapted"} :
              tree' = [tree EXCEPT ![Stage(r)] = [@ EXCEPT !.state = state, !.shipped = config]]
        BY <2>9 DEF Adapt
      <4>2. [tree[Stage(r)] EXCEPT !.state = state, !.shipped = config] \in Tree
        BY <4>1 DEF TypeOK, Tree, State
      <4> QED BY <4>1, <4>2 DEF TypeOK
    <3>2. QED BY <2>9, <3>1 DEF TypeOK, Adapt, At, rest, Body, Handler, Ended
  <2>10. CASE CheckAdapted(r)
    BY <2>10 DEF TypeOK, CheckAdapted, rest, Body, Handler, Ended, Flags, At
  <2>11. CASE Withdraw(r)
    <3>1. tree' \in [Path -> Tree]
      BY <2>11, MoveFacts DEF TypeOK, Withdraw, KeepOldModel, Tree, State
    <3>2. QED BY <2>11, <3>1 DEF TypeOK, Withdraw, At, rest, Body, Handler, Ended
  <2>12. CASE Withdrawn(r)
    <3>1. [record[r] EXCEPT !.destSaved = TRUE] \in Flags
      BY DEF TypeOK, Flags
    <3>2. record' = [record EXCEPT ![r] = [record[r] EXCEPT !.destSaved = TRUE]]
      BY <2>12 DEF Withdrawn, Remember, TypeOK, Flags
    <3>3. record' \in [Call -> Flags] /\ record'[r] \in Flags
      BY <3>1, <3>2 DEF TypeOK
    <3>4. disk' \in [Call -> Flags \cup {None}]
      BY <2>12, <3>3 DEF Withdrawn, Save, SaveFails, TypeOK
    <3>5. /\ pc' \in [Call -> {"begin"} \cup Body \cup Handler \cup Ended]
          /\ \A q \in Call : pc'[q] \in Body \cup Handler => lock' = q
      BY <2>12 DEF Withdrawn, ToHandler, TypeOK, Body, Handler, Ended
    <3> QED BY <2>12, <3>3, <3>4, <3>5 DEF TypeOK, Withdrawn, rest
  <2>13. CASE Publish(r)
    <3>1. tree' \in [Path -> Tree]
      BY <2>13, MoveFacts DEF TypeOK, Publish, Tree, State
    <3>2. QED BY <2>13, <3>1 DEF TypeOK, Publish, At, rest, Body, Handler, Ended
  <2>14. CASE MovedIn(r)
    <3>1. [record[r] EXCEPT !.published = TRUE, !.status = "installed"] \in Flags
      BY DEF TypeOK, Flags
    <3>2. record' = [record EXCEPT ![r] = [record[r] EXCEPT !.published = TRUE, !.status = "installed"]]
      BY <2>14 DEF MovedIn, TypeOK, Flags
    <3>3. record' \in [Call -> Flags] /\ record'[r] \in Flags
      BY <3>1, <3>2 DEF TypeOK
    <3>4. disk' \in [Call -> Flags \cup {None}]
      BY <2>14, <3>3 DEF MovedIn, Save, SaveFails, TypeOK
    <3>5. /\ pc' \in [Call -> {"begin"} \cup Body \cup Handler \cup Ended]
          /\ \A q \in Call : pc'[q] \in Body \cup Handler => lock' = q
      BY <2>14 DEF MovedIn, ToHandler, TypeOK, Body, Handler, Ended, Unlock
    <3> QED BY <2>14, <3>3, <3>4, <3>5 DEF TypeOK, MovedIn, rest, Unlock
  <2> QED BY <1>1, <2>1, <2>2, <2>3, <2>4, <2>5, <2>6, <2>7, <2>8, <2>9, <2>10, <2>11, <2>12, <2>13, <2>14 DEF Forward
<1>2. ASSUME NEW r \in Call, Backward(r) PROVE TypeOK'
  <2>1. CASE Fail(r)
    BY <2>1 DEF TypeOK, Fail, rest, Body, Handler, Ended, Flags, ToHandler
  <2>2. CASE Interrupt(r)
    BY <2>2 DEF TypeOK, Interrupt, rest, Body, Handler, Ended, Flags, ToHandler
  <2>3. CASE RestoreDestination(r)
    <3>1. tree' \in [Path -> Tree]
      BY <2>3, MoveFacts DEF TypeOK, RestoreDestination, MayRestoreDestination, Tree, State
    <3>2. QED BY <2>3, <3>1 DEF TypeOK, RestoreDestination, At, rest, Body, Handler, Ended
  <2>4. CASE SetAside(r)
    <3>1. tree' \in [Path -> Tree]
      BY <2>4, MoveFacts DEF TypeOK, SetAside, KeepOutput, Tree, State
    <3>2. QED BY <2>4, <3>1 DEF TypeOK, SetAside, At, rest, Body, Handler, Ended
  <2>5. CASE RestoreSource(r)
    <3>1. tree' \in [Path -> Tree]
      BY <2>5, MoveFacts DEF TypeOK, RestoreSource, Tree, State
    <3>2. QED BY <2>5, <3>1 DEF TypeOK, RestoreSource, At, rest, Body, Handler, Ended
  <2>6. CASE RecordFailure(r)
    BY <2>6 DEF TypeOK, RecordFailure, rest, Body, Handler, Ended, Flags, At, Save, Unlock
  <2>7. CASE HandlerFails(r)
    BY <2>7 DEF TypeOK, HandlerFails, rest, Body, Handler, Ended, Flags, Unlock
  <2>8. CASE Crash(r)
    BY <2>8 DEF TypeOK, Crash, rest, Body, Handler, Ended, Flags, Unlock, SaveFails
  <2>9. CASE OrphanWrites(r)
    <3>1. tree' \in [Path -> Tree]
      BY <2>9, MoveFacts DEF TypeOK, OrphanWrites, Tree, State
    <3>2. QED BY <2>9, <3>1 DEF TypeOK, OrphanWrites, At, rest, Body, Handler, Ended
  <2> QED BY <1>2, <2>1, <2>2, <2>3, <2>4, <2>5, <2>6, <2>7, <2>8, <2>9 DEF Backward
<1>3. CASE EditConfig
  BY <1>3 DEF EditConfig, TypeOK
<1>4. CASE UNCHANGED vars
  BY <1>4 DEF vars, TypeOK
<1> QED BY <1>1, <1>2, <1>3, <1>4 DEF Next

\* The steps that rename or write nothing.
Quiet(r) ==
  \/ Begin(r) \/ Refuse(r) \/ SourceMoved(r) \/ Configure(r) \/ CheckGenerated(r) \/ CheckAdapted(r) \/ Withdrawn(r)
  \/ MovedIn(r) \/ Fail(r) \/ Interrupt(r) \/ RecordFailure(r) \/ HandlerFails(r) \/ Crash(r)

\* They leave the trees alone, and no step leads back to a statement before the
\* finished stage.
LEMMA QuietStep ==
  ASSUME TypeOK, NEW r \in Call, Quiet(r)
  PROVE  /\ tree' = tree
         /\ \A q \in Call : pc'[q] \in BeforeStage => pc[q] \in BeforeStage
<1>1. CASE Begin(r)
  BY <1>1 DEF Begin, At, ToHandler, BeforeStage, TypeOK
<1>2. CASE Refuse(r)
  BY <1>2 DEF Refuse, At, ToHandler, BeforeStage, TypeOK
<1>3. CASE SourceMoved(r)
  BY <1>3 DEF SourceMoved, At, ToHandler, BeforeStage, TypeOK
<1>4. CASE Configure(r)
  BY <1>4 DEF Configure, At, ToHandler, BeforeStage, TypeOK
<1>5. CASE CheckGenerated(r)
  BY <1>5 DEF CheckGenerated, At, ToHandler, BeforeStage, TypeOK
<1>6. CASE CheckAdapted(r)
  BY <1>6 DEF CheckAdapted, At, ToHandler, BeforeStage, TypeOK
<1>7. CASE Withdrawn(r)
  BY <1>7 DEF Withdrawn, At, ToHandler, BeforeStage, TypeOK
<1>8. CASE MovedIn(r)
  BY <1>8 DEF MovedIn, At, ToHandler, BeforeStage, TypeOK
<1>9. CASE Fail(r)
  BY <1>9 DEF Fail, At, ToHandler, BeforeStage, TypeOK
<1>10. CASE Interrupt(r)
  BY <1>10 DEF Interrupt, At, ToHandler, BeforeStage, TypeOK
<1>11. CASE RecordFailure(r)
  BY <1>11 DEF RecordFailure, At, ToHandler, BeforeStage, TypeOK
<1>12. CASE HandlerFails(r)
  BY <1>12 DEF HandlerFails, At, ToHandler, BeforeStage, TypeOK
<1>13. CASE Crash(r)
  BY <1>13 DEF Crash, At, ToHandler, BeforeStage, TypeOK
<1> QED BY <1>1, <1>2, <1>3, <1>4, <1>5, <1>6, <1>7, <1>8, <1>9, <1>10, <1>11, <1>12, <1>13 DEF Quiet

\* A renaming step moves one tree from one path to another.
Moving(r, p, q) ==
  \/ MoveSource(r) /\ p = Source /\ q = PreviousSource(r)
  \/ Withdraw(r) /\ p = Destination /\ q = PreviousDestination(r)
  \/ Publish(r) /\ p = Stage(r) /\ q = Destination
  \/ RestoreDestination(r) /\ p = PreviousDestination(r) /\ q = Destination
  \/ SetAside(r) /\ p = Source /\ q = FailedOutput(r)
  \/ RestoreSource(r) /\ p = PreviousSource(r) /\ q = Source

\* Nothing is renamed to a stage, and what arrives under the generator's names
\* comes from them.
LEMMA MovingPaths ==
  ASSUME NEW r \in Call, NEW p, NEW q, Moving(r, p, q)
  PROVE  /\ \A x \in Call : q # Stage(x)
         /\ \/ q # Source /\ \A x \in Call : q # PreviousSource(x)
            \/ p = Source
            \/ \E x \in Call : p = PreviousSource(x)
<1>1. /\ \A x, y \in Call : PreviousSource(x) # Stage(y) /\ PreviousDestination(x) # Stage(y)
                          /\ FailedOutput(x) # Stage(y)
      /\ \A x, y \in Call : PreviousDestination(x) # PreviousSource(y)
      /\ \A x \in Call : Source # Stage(x) /\ Destination # Stage(x)
                       /\ Destination # PreviousSource(x)
      /\ Destination # Source
      /\ \A x \in Call : PreviousDestination(x) # Source
  BY DEF Source, Destination, PreviousSource, FailedOutput, PreviousDestination, Stage
<1>2. CASE p = Source /\ q = PreviousSource(r)
  BY <1>1, <1>2
<1>3. CASE p = Destination /\ q = PreviousDestination(r)
  BY <1>1, <1>3
<1>4. CASE p = Stage(r) /\ q = Destination
  BY <1>1, <1>4
<1>5. CASE p = PreviousDestination(r) /\ q = Destination
  BY <1>1, <1>5
<1>6. CASE p = Source /\ q = FailedOutput(r)
  BY <1>1, <1>6
<1>7. CASE p = PreviousSource(r) /\ q = Source
  BY <1>1, <1>7
<1> QED BY <1>2, <1>3, <1>4, <1>5, <1>6, <1>7 DEF Moving

\* A renaming step renames that tree, or nothing if there is nothing to move.
LEMMA MovingStep ==
  ASSUME TypeOK, NEW r \in Call, NEW p \in Path, NEW q \in Path, Moving(r, p, q)
  PROVE  /\ Move(p, q) \/ tree' = tree
         /\ p # q
         /\ \A x \in Call : pc'[x] \in BeforeStage => pc[x] \in BeforeStage
<1>1. CASE MoveSource(r) /\ p = Source /\ q = PreviousSource(r)
  BY <1>1, PathFacts DEF MoveSource, At, BeforeStage, TypeOK
<1>2. CASE Withdraw(r) /\ p = Destination /\ q = PreviousDestination(r)
  BY <1>2, PathFacts DEF Withdraw, KeepOldModel, At, BeforeStage, TypeOK
<1>3. CASE Publish(r) /\ p = Stage(r) /\ q = Destination
  BY <1>3, PathFacts DEF Publish, At, BeforeStage, TypeOK
<1>4. CASE RestoreDestination(r) /\ p = PreviousDestination(r) /\ q = Destination
  BY <1>4, PathFacts DEF RestoreDestination, MayRestoreDestination, At, BeforeStage, TypeOK
<1>5. CASE SetAside(r) /\ p = Source /\ q = FailedOutput(r)
  BY <1>5, PathFacts DEF SetAside, KeepOutput, At, BeforeStage, TypeOK
<1>6. CASE RestoreSource(r) /\ p = PreviousSource(r) /\ q = Source
  BY <1>6, PathFacts DEF RestoreSource, At, BeforeStage, TypeOK
<1> QED BY <1>1, <1>2, <1>3, <1>4, <1>5, <1>6 DEF Moving

\* Every step is one of these, or writes into the generator's output or the
\* stage, or edits the configuration.
LEMMA StepKinds ==
  ASSUME Next
  PROVE  \/ \E r \in Call : Quiet(r)
         \/ \E r \in Call : \E p, q \in Path : Moving(r, p, q)
         \/ \E r \in Call : Generate(r) \/ OrphanWrites(r) \/ CopyTree(r) \/ Adapt(r)
         \/ EditConfig
<1>1. ASSUME NEW r \in Call, MoveSource(r) \/ Withdraw(r) \/ Publish(r) \/ RestoreDestination(r)
                             \/ SetAside(r) \/ RestoreSource(r)
      PROVE  \E p, q \in Path : Moving(r, p, q)
  BY <1>1, PathFacts DEF Moving
<1> QED BY <1>1 DEF Next, Forward, Backward, Quiet

\* Inv is inductive: the generator's names never receive an adapted model, and
\* only Adapt finishes a stage.
LEMMA InvStep == ASSUME Inv, [Next]_vars PROVE Inv'
<1>1. TypeOK /\ TypeOK'
  BY TypeStep DEF Inv
<1>2. ASSUME NEW r \in Call, Quiet(r) PROVE Inv'
  BY <1>1, <1>2, QuietStep DEF Inv
<1>3. ASSUME NEW r \in Call, NEW p \in Path, NEW q \in Path, Moving(r, p, q) PROVE Inv'
  <2>1. CASE tree' = tree
    BY <1>1, <1>3, <2>1, MovingStep DEF Inv
  <2>2. CASE Move(p, q)
    <3>1. /\ tree'[q] = tree[p] /\ tree'[p] = NoTree
          /\ \A x \in Path \ {p, q} : tree'[x] = tree[x]
      BY <1>1, <1>3, <2>2, MovingStep, MoveFacts
    <3>2. /\ Source \in Path
          /\ \A x \in Call : PreviousSource(x) \in Path /\ Stage(x) \in Path
      BY PathFacts
    <3>3. /\ \A x \in Call : q # Stage(x)
          /\ \/ q # Source /\ \A x \in Call : q # PreviousSource(x)
             \/ p = Source
             \/ \E x \in Call : p = PreviousSource(x)
      BY <1>3, MovingPaths
    <3>4. /\ tree'[Source].state # "adapted"
          /\ \A x \in Call : tree'[PreviousSource(x)].state # "adapted"
      BY <3>1, <3>2, <3>3, TreeFacts DEF Inv
    <3>5. \A x \in Call : pc'[x] \in BeforeStage => tree'[Stage(x)].state # "adapted"
      BY <1>1, <1>3, <3>1, <3>2, <3>3, MovingStep, TreeFacts DEF Inv
    <3> QED BY <1>1, <3>4, <3>5 DEF Inv
  <2> QED BY <1>1, <1>3, <2>1, <2>2, MovingStep
<1>4. ASSUME NEW r \in Call, Generate(r) \/ OrphanWrites(r) PROVE Inv'
  <2>1. PICK t \in Tree : tree' = [tree EXCEPT ![Source] = t] /\ t.state # "adapted"
    <3>1. CASE Generate(r)
      <4>1. PICK state \in {"partial", "raw"} :
              tree' = [tree EXCEPT ![Source] =
                         [by |-> r, state |-> state, used |-> buildConfig, shipped |-> None]]
        BY <3>1 DEF Generate
      <4>2. [by |-> r, state |-> state, used |-> buildConfig, shipped |-> None] \in Tree
        BY <1>1 DEF Tree, State, TypeOK
      <4> QED BY <4>1, <4>2
    <3>2. CASE OrphanWrites(r)
      <4>1. [by |-> r, state |-> "raw", used |-> known[r], shipped |-> None] \in Tree
        BY <1>1 DEF Tree, State, TypeOK
      <4> QED BY <3>2, <4>1 DEF OrphanWrites
    <3> QED BY <1>4, <3>1, <3>2
  <2>2. \A x \in Call : pc'[x] \in BeforeStage => pc[x] \in BeforeStage
    BY <1>1, <1>4 DEF Generate, OrphanWrites, At, BeforeStage, TypeOK
  <2> QED BY <1>1, <2>1, <2>2, PathFacts DEF Inv, TypeOK
<1>5. ASSUME NEW r \in Call, CopyTree(r) PROVE Inv'
  <2>1. PICK state \in {"copying", tree[Source].state} :
          tree' = [tree EXCEPT ![Stage(r)] = [tree[Source] EXCEPT !.state = state]]
    BY <1>5 DEF CopyTree
  <2>2. tree'[Stage(r)].state # "adapted"
    BY <1>1, <2>1, PathFacts DEF Inv, TypeOK, Tree
  <2>3. \A x \in Call : pc'[x] \in BeforeStage => pc[x] \in BeforeStage
    BY <1>1, <1>5 DEF CopyTree, At, BeforeStage, TypeOK
  <2> QED BY <1>1, <2>1, <2>2, <2>3, PathFacts DEF Inv, TypeOK
<1>6. ASSUME NEW r \in Call, Adapt(r) PROVE Inv'
  <2>1. PICK state \in {"copying", "adapted"} :
          /\ tree' = [tree EXCEPT ![Stage(r)] = [@ EXCEPT !.state = state, !.shipped = config]]
          /\ pc' = [pc EXCEPT ![r] = IF state = "copying" THEN "adapt" ELSE "check adapted"]
          /\ pc[r] = "adapt"
    BY <1>6 DEF Adapt, At
  <2>2. pc'[r] \in BeforeStage => tree'[Stage(r)].state # "adapted"
    BY <1>1, <2>1, PathFacts DEF TypeOK, Tree, BeforeStage
  <2>3. \A x \in Call \ {r} : pc'[x] = pc[x] /\ tree'[Stage(x)] = tree[Stage(x)]
    BY <1>1, <2>1, PathFacts DEF TypeOK
  <2> QED BY <1>1, <2>1, <2>2, <2>3, PathFacts DEF Inv, TypeOK
<1>7. CASE EditConfig
  BY <1>1, <1>7 DEF EditConfig, Inv
<1>8. CASE UNCHANGED vars
  BY <1>1, <1>8 DEF vars, Inv
<1> QED BY <1>2, <1>3, <1>4, <1>5, <1>6, <1>7, <1>8, StepKinds

\* Inv holds throughout every run of the transaction.
THEOREM InvInvariant == Spec => []Inv
<1> QED BY InitInv, InvStep, PTL DEF Spec

\* Every variable keeps its type, and only the holder of the lock is at work
\* (flock in run_backend).
THEOREM TypeCorrect == Spec => []TypeOK
<1>1. Inv => TypeOK
  BY DEF Inv
<1> QED BY <1>1, InvInvariant, PTL

\* A step either leaves an adapted tree where it is or renames it.
LEMMA AdaptedStep ==
  ASSUME Inv, [Next]_vars
  PROVE  \A p \in Path : tree[p].state = "adapted" /\ tree'[p] # tree[p]
           => \E q \in Path : tree'[q] = tree[p]
<1> SUFFICES ASSUME NEW x \in Path, tree[x].state = "adapted", tree'[x] # tree[x]
             PROVE  \E q \in Path : tree'[q] = tree[x]
  OBVIOUS
<1>1. TypeOK
  BY DEF Inv
<1>2. ASSUME NEW r \in Call, Quiet(r) PROVE FALSE
  BY <1>1, <1>2, QuietStep
<1>3. ASSUME NEW r \in Call, NEW p \in Path, NEW q \in Path, Moving(r, p, q)
      PROVE  \E y \in Path : tree'[y] = tree[x]
  <2>1. Move(p, q) /\ p # q
    BY <1>1, <1>3, MovingStep
  <2>2. /\ tree[q] = NoTree /\ tree'[q] = tree[p]
        /\ \A y \in Path \ {p, q} : tree'[y] = tree[y]
    BY <1>1, <2>1, MoveFacts
  <2> QED BY <2>2, TreeFacts
<1>4. ASSUME NEW r \in Call, Generate(r) \/ OrphanWrites(r) PROVE FALSE
  <2>1. \A y \in Path \ {Source} : tree'[y] = tree[y]
    BY <1>1, <1>4 DEF Generate, OrphanWrites, TypeOK
  <2> QED BY <2>1 DEF Inv
<1>5. ASSUME NEW r \in Call, CopyTree(r) \/ Adapt(r) PROVE FALSE
  <2>1. \A y \in Path \ {Stage(r)} : tree'[y] = tree[y]
    BY <1>1, <1>5 DEF CopyTree, Adapt, TypeOK
  <2>2. pc[r] \in BeforeStage
    BY <1>5 DEF CopyTree, Adapt, At, BeforeStage
  <2> QED BY <2>1, <2>2 DEF Inv
<1>6. CASE EditConfig
  BY <1>6 DEF EditConfig
<1>7. CASE UNCHANGED vars
  BY <1>7 DEF vars
<1> QED BY <1>2, <1>3, <1>4, <1>5, <1>6, <1>7, StepKinds

\* No step of any call - failing, interrupted, crashed or orphaned - loses an
\* adapted model (replace_model only renames).
THEOREM AdaptedModelsAreKept == Spec => AdaptedModelsOnlyMove
<1>1. ASSUME Inv, [Next]_vars
      PROVE  [\A p \in Path : tree[p].state = "adapted" /\ tree'[p] # tree[p]
               => \E q \in Path : tree'[q] = tree[p]]_vars
  BY <1>1, AdaptedStep
<1> QED BY <1>1, InvInvariant, PTL DEF Spec, AdaptedModelsOnlyMove

-----------------------------------------------------------------------------
(* What is published.                                                      *)

\* What a call knows at each statement: between the two checks the generator's
\* output, then the stage, was made from config_bytes, and a finished stage
\* also ships them.
Knows(r) ==
  /\ pc[r] = "check" => tree[Source].used = buildConfig
  /\ pc[r] = "copy" => tree[Source].used = known[r]
  /\ pc[r] \in {"adapt", "check adapted"} => tree[Stage(r)].used = known[r]
  /\ pc[r] = "check adapted" => tree[Stage(r)].state = "adapted"
  /\ pc[r] \in {"withdraw", "withdrawn", "publish"} => Publishable(tree[Stage(r)])

\* The publication and the old ones the calls have moved aside.
AllPublishable ==
  /\ DestinationIsPublishable
  /\ \A r \in Call : Exists(PreviousDestination(r)) => Publishable(tree[PreviousDestination(r)])

PublicationInv ==
  /\ Inv
  /\ \A r \in Call : pc[r] # "orphaned"
  /\ AllPublishable
  /\ \A r \in Call : Knows(r)

\* The statements at which a call relies on what a tree was made from.
Relies == {"check", "copy", "adapt", "check adapted", "withdraw", "withdrawn", "publish"}

\* While one call works no other relies on anything.
LEMMA OnlyOneRelies ==
  ASSUME TypeOK, NEW r \in Call, NEW x \in Call, pc[r] \in Body \cup Handler,
         pc[x] \in Relies
  PROVE  x = r
BY DEF TypeOK, Relies, Body

\* No call is at work at first, and what is published was published before.
LEMMA InitPublication == Init => PublicationInv
<1> SUFFICES ASSUME Init PROVE PublicationInv
  OBVIOUS
<1>1. Inv
  BY InitInv
<1>2. AllPublishable
  BY PathFacts DEF Init, Exists, Publishable, AllPublishable, DestinationIsPublishable
<1>3. \A r \in Call : pc[r] = "begin"
  BY DEF Init
<1> QED BY <1>1, <1>2, <1>3 DEF PublicationInv, Knows

\* A step that leaves alone the publication and the old ones.
LEMMA PublicationUntouched ==
  ASSUME AllPublishable, tree'[Destination] = tree[Destination],
         \A x \in Call : tree'[PreviousDestination(x)] = tree[PreviousDestination(x)]
  PROVE  AllPublishable'
BY DEF AllPublishable, DestinationIsPublishable, Exists, Publishable

\* A step of a call that is at work disturbs what no other call relies on.
LEMMA OthersKnow ==
  ASSUME TypeOK, NEW r \in Call, NEW x \in Call, x # r, pc[r] \in Body \cup Handler,
         pc'[x] = pc[x]
  PROVE  Knows(x)'
BY OnlyOneRelies DEF Knows, Relies

\* The steps that rename and write nothing: the checks turn what the trees were
\* made from into what the call knows.
LEMMA QuietPublication ==
  ASSUME ~ Orphans, PublicationInv, NEW r \in Call, Quiet(r)
  PROVE  AllPublishable' /\ \A x \in Call : Knows(x)'
<1>1. TypeOK /\ tree' = tree
  BY QuietStep DEF PublicationInv, Inv
<1>2. AllPublishable'
  BY <1>1, PublicationUntouched DEF PublicationInv
<1>3. CASE Begin(r) \/ Refuse(r)
  <2>1. \A x \in Call \ {r} : pc'[x] = pc[x] /\ known'[x] = known[x]
    BY <1>1, <1>3 DEF Begin, Refuse, At, TypeOK, rest
  <2>2. pc'[r] \notin Relies /\ buildConfig' = buildConfig
    BY <1>1, <1>3 DEF Begin, Refuse, At, TypeOK, rest, Relies
  <2>3. Knows(r)'
    BY <2>2 DEF Knows, Relies
  <2>4. ASSUME NEW x \in Call, x # r PROVE Knows(x)'
    BY <1>1, <2>1, <2>2, <2>4 DEF PublicationInv, Knows, Publishable, Stage
  <2> QED BY <1>2, <2>3, <2>4
<1>4. CASE ~ (Begin(r) \/ Refuse(r))
  <2>1. /\ pc[r] \in Body \cup Handler
        /\ \A x \in Call \ {r} : pc'[x] = pc[x]
    BY <1>1, <1>4 DEF Quiet, SourceMoved, Configure, CheckGenerated, CheckAdapted, Withdrawn,
       MovedIn, Fail, Interrupt, RecordFailure, HandlerFails, Crash, At, ToHandler, TypeOK,
       Body, Handler
  <2>2. Knows(r)'
    <3>1. CASE CheckGenerated(r)
      BY <1>1, <3>1 DEF CheckGenerated, ConfigUnchanged, At, rest, TypeOK, PublicationInv, Knows
    <3>2. CASE CheckAdapted(r)
      BY <1>1, <3>2 DEF CheckAdapted, ShippedAsKnown, At, rest, TypeOK, PublicationInv, Knows,
         Publishable
    <3>3. CASE Withdrawn(r)
      BY <1>1, <3>3 DEF Withdrawn, ToHandler, TypeOK, PublicationInv, Knows, Publishable
    <3>4. CASE ~ (CheckGenerated(r) \/ CheckAdapted(r) \/ Withdrawn(r))
      <4>1. pc'[r] \notin Relies
        BY <1>1, <1>4, <3>4 DEF Quiet, SourceMoved, Configure, MovedIn, Fail, Interrupt,
           RecordFailure, HandlerFails, Crash, At, ToHandler, TypeOK, Relies
      <4> QED BY <4>1 DEF Knows, Relies
    <3> QED BY <3>1, <3>2, <3>3, <3>4
  <2> QED BY <1>1, <1>2, <2>1, <2>2, OthersKnow
<1> QED BY <1>3, <1>4

\* The steps that rename: only a publishable stage or an old publication ever
\* arrives under the published name.
LEMMA MovingPublication ==
  ASSUME PublicationInv, NEW r \in Call, NEW p \in Path, NEW q \in Path, Moving(r, p, q)
  PROVE  AllPublishable' /\ \A x \in Call : Knows(x)'
<1>1. TypeOK
  BY DEF PublicationInv, Inv
<1>2. /\ Move(p, q) \/ tree' = tree
      /\ p # q
  BY <1>1, MovingStep
<1>3. /\ pc[r] \in Body \cup Handler
      /\ \A x \in Call \ {r} : pc'[x] = pc[x]
  BY <1>1 DEF Moving, MoveSource, Withdraw, Publish, RestoreDestination, SetAside, RestoreSource,
     At, Body, Handler, TypeOK
<1>4. AllPublishable'
  <2>1. CASE tree' = tree
    BY <2>1, PublicationUntouched DEF PublicationInv
  <2>2. CASE Move(p, q)
    <3>1. /\ tree'[q] = tree[p] /\ tree'[p] = NoTree
          /\ \A x \in Path \ {p, q} : tree'[x] = tree[x]
      BY <1>1, <1>2, <2>2, MoveFacts
    <3>2. /\ Destination \in Path
          /\ \A x \in Call : PreviousDestination(x) \in Path
      BY PathFacts
    <3>3. \/ q # Destination /\ \A x \in Call : q # PreviousDestination(x)
          \/ Exists(p) => Publishable(tree[p])
      <4>1. CASE Publish(r) /\ p = Stage(r)
        BY <4>1 DEF Publish, At, PublicationInv, Knows
      <4>2. CASE p = Destination \/ p = PreviousDestination(r)
        BY <4>2 DEF PublicationInv, AllPublishable, DestinationIsPublishable
      <4>3. CASE q \in {PreviousSource(r), FailedOutput(r), Source}
        <5>1. /\ Source # Destination /\ PreviousSource(r) # Destination
              /\ FailedOutput(r) # Destination
          BY PathFacts
        <5>2. \A x \in Call : /\ Source # PreviousDestination(x)
                             /\ PreviousSource(r) # PreviousDestination(x)
                             /\ FailedOutput(r) # PreviousDestination(x)
          BY DEF Source, PreviousSource, FailedOutput, PreviousDestination
        <5> QED BY <4>3, <5>1, <5>2
      <4> QED BY <4>1, <4>2, <4>3 DEF Moving
    <3> QED BY <3>1, <3>2, <3>3
            DEF AllPublishable, DestinationIsPublishable, Exists, PublicationInv
  <2> QED BY <1>2, <2>1, <2>2
<1>5. Knows(r)'
  <2>1. CASE Withdraw(r) /\ p = Destination /\ q = PreviousDestination(r)
    <3>1. Stage(r) \in Path \ {p, q}
      BY <2>1, PathFacts
    <3>2. tree'[Stage(r)] = tree[Stage(r)]
      BY <1>1, <1>2, <3>1, MoveFacts
    <3>3. pc[r] = "withdraw" /\ pc'[r] \in {"withdrawn", "publish"}
      BY <1>1, <2>1 DEF Withdraw, At, TypeOK
    <3> QED BY <3>2, <3>3 DEF PublicationInv, Knows, Publishable
  <2>2. CASE ~ Withdraw(r)
    <3>1. pc'[r] \notin Relies
      BY <1>1, <2>2 DEF Moving, MoveSource, Publish, RestoreDestination, SetAside, RestoreSource,
         At, Relies, TypeOK
    <3> QED BY <3>1 DEF Knows, Relies
  <2>3. Withdraw(r) => p = Destination /\ q = PreviousDestination(r)
    BY DEF Moving, Withdraw, MoveSource, Publish, RestoreDestination, SetAside, RestoreSource, At
  <2> QED BY <2>1, <2>2, <2>3
<1> QED BY <1>1, <1>3, <1>4, <1>5, OthersKnow

\* The steps that write: the generator's output and the stage remember the
\* configuration they were made from.
LEMMA WritingPublication ==
  ASSUME ~ Orphans, PublicationInv, NEW r \in Call,
         Generate(r) \/ OrphanWrites(r) \/ CopyTree(r) \/ Adapt(r)
  PROVE  AllPublishable' /\ \A x \in Call : Knows(x)'
<1>1. TypeOK
  BY DEF PublicationInv, Inv
<1>2. ~ OrphanWrites(r)
  BY DEF OrphanWrites, At, PublicationInv
<1>3. \A y \in Path \ {Source, Stage(r)} : tree'[y] = tree[y]
  BY <1>1, <1>2 DEF Generate, CopyTree, Adapt, TypeOK
<1>4. AllPublishable'
  BY <1>3, PathFacts, PublicationUntouched
     DEF PublicationInv, Source, Destination, PreviousDestination, Stage
<1>5. /\ pc[r] \in Body \cup Handler
      /\ \A x \in Call \ {r} : pc'[x] = pc[x]
  BY <1>1, <1>2 DEF Generate, CopyTree, Adapt, At, Body, TypeOK
<1>6. Knows(r)'
  <2>1. CASE Generate(r)
    BY <1>1, <2>1, PathFacts DEF Generate, At, Knows, rest, TypeOK
  <2>2. CASE CopyTree(r)
    <3>1. PICK state \in {"copying", tree[Source].state} :
            /\ At(r, "copy", IF state = "copying" THEN "copy" ELSE "adapt")
            /\ tree' = [tree EXCEPT ![Stage(r)] = [tree[Source] EXCEPT !.state = state]]
      BY <2>2 DEF CopyTree
    <3>2. tree'[Source] = tree[Source] /\ tree'[Stage(r)].used = tree[Source].used
      BY <1>1, <3>1, PathFacts DEF TypeOK, Tree
    <3>3. known' = known /\ pc[r] = "copy" /\ pc'[r] \in {"copy", "adapt"}
      BY <1>1, <2>2, <3>1 DEF CopyTree, rest, At, TypeOK
    <3> QED BY <3>2, <3>3 DEF PublicationInv, Knows
  <2>3. CASE Adapt(r)
    <3>1. PICK state \in {"copying", "adapted"} :
            /\ At(r, "adapt", IF state = "copying" THEN "adapt" ELSE "check adapted")
            /\ tree' = [tree EXCEPT ![Stage(r)] = [@ EXCEPT !.state = state, !.shipped = config]]
      BY <2>3 DEF Adapt
    <3>2. tree'[Stage(r)].used = tree[Stage(r)].used /\ tree'[Stage(r)].state = state
      BY <1>1, <3>1, PathFacts DEF TypeOK, Tree
    <3>3. /\ known' = known /\ pc[r] = "adapt"
          /\ pc'[r] = IF state = "copying" THEN "adapt" ELSE "check adapted"
      BY <1>1, <2>3, <3>1 DEF Adapt, rest, At, TypeOK
    <3> QED BY <3>1, <3>2, <3>3 DEF PublicationInv, Knows
  <2> QED BY <1>2, <2>1, <2>2, <2>3
<1> QED BY <1>1, <1>4, <1>5, <1>6, OthersKnow

\* The configuration checks carry the knowledge from one statement to the next.
LEMMA PublicationStep ==
  ASSUME ~ Orphans, PublicationInv, [Next]_vars
  PROVE  PublicationInv'
<1>1. TypeOK /\ TypeOK' /\ Inv'
  BY InvStep, TypeStep DEF PublicationInv, Inv
<1>2. \A r \in Call : pc'[r] # "orphaned"
  <2>1. ASSUME NEW r \in Call, Forward(r) PROVE \A x \in Call : pc'[x] # "orphaned"
    BY <1>1, <2>1 DEF Forward, Begin, Refuse, MoveSource, SourceMoved, Configure, Generate,
       CheckGenerated, CopyTree, Adapt, CheckAdapted, Withdraw, Withdrawn, Publish, MovedIn,
       At, ToHandler, PublicationInv, TypeOK
  <2>2. ASSUME NEW r \in Call, Backward(r) PROVE \A x \in Call : pc'[x] # "orphaned"
    BY <1>1, <2>2 DEF Backward, Fail, Interrupt, RestoreDestination, SetAside, RestoreSource,
       RecordFailure, HandlerFails, Crash, OrphanWrites, At, ToHandler, PublicationInv, TypeOK
  <2>3. CASE EditConfig
    BY <2>3 DEF EditConfig, PublicationInv
  <2>4. CASE UNCHANGED vars
    BY <2>4 DEF vars, PublicationInv
  <2> QED BY <2>1, <2>2, <2>3, <2>4 DEF Next
<1>3. AllPublishable' /\ \A x \in Call : Knows(x)'
  <2>1. CASE EditConfig
    <3>1. AllPublishable'
      BY <2>1, PublicationUntouched DEF EditConfig, PublicationInv
    <3> QED BY <2>1, <3>1 DEF EditConfig, PublicationInv, Knows, Publishable
  <2>2. CASE UNCHANGED vars
    <3>1. AllPublishable'
      BY <2>2, PublicationUntouched DEF vars, PublicationInv
    <3> QED BY <2>2, <3>1 DEF vars, PublicationInv, Knows, Publishable
  <2> QED BY <2>1, <2>2, StepKinds, QuietPublication, MovingPublication, WritingPublication
<1> QED BY <1>1, <1>2, <1>3 DEF PublicationInv

\* If no generator outlives its call, then whatever fails, is interrupted,
\* crashes or is edited, the published name holds nothing or a complete model
\* generated from the configuration it ships (the two configuration checks and
\* the order of replace_model).
THEOREM PublishedModelCorrect ==
  ASSUME ~ Orphans PROVE Spec => []DestinationIsPublishable
<1>1. PublicationInv => DestinationIsPublishable
  BY DEF PublicationInv, AllPublishable
<1>2. PublicationInv /\ [Next]_vars => PublicationInv'
  BY PublicationStep
<1> QED BY <1>1, <1>2, InitPublication, PTL DEF Spec

-----------------------------------------------------------------------------
(* Failed calls and their records.                                         *)

\* From its own flags a call knows what it has done so far.
Flagged(r) ==
  /\ pc[r] \in {"begin", "refused"} => /\ ~ record[r].sourceSaved /\ ~ record[r].destSaved
                                       /\ ~ record[r].published
  /\ pc[r] \in {"begin", "refused", "move source", "source moved", "configure"} =>
       ~ record[r].generating
  /\ pc[r] \in {"generate", "check", "copy", "adapt", "check adapted", "withdraw", "withdrawn",
                "publish", "moved in", "orphaned"} => record[r].generating
  /\ ~ record[r].generating => \A p \in Path : tree[p].by # r

\* A call at work or undone, with nothing published: its output is in no place
\* from which it could reach a published name.
Undecided(r) ==
  ~ record[r].published /\ pc[r] \in (Body \ {"moved in"}) \cup Handler \cup {"failed"}

OutputApart(r) ==
  /\ Undecided(r) =>
       /\ tree[Destination].by # r
       /\ \A x \in Call : /\ tree[PreviousSource(x)].by # r /\ tree[PreviousDestination(x)].by # r
                          /\ x # r => tree[Stage(x)].by # r
  /\ Undecided(r) /\ pc[r] \in {"restore source", "record failure", "failed"} =>
       tree[Source].by # r

\* A backup is remembered, and the handler puts it back.
BackupsReturn(r) ==
  /\ Exists(PreviousSource(r)) => record[r].sourceSaved \/ pc[r] \in {"source moved", "crashed"}
  /\ Exists(PreviousDestination(r)) => record[r].destSaved \/ pc[r] \in {"withdrawn", "crashed"}
  /\ Undecided(r) /\ pc[r] \in Body \cup {"restore destination"} /\ Exists(PreviousDestination(r)) =>
       ~ Exists(Destination)
  /\ Undecided(r) /\ pc[r] \in {"set aside", "restore source", "record failure", "failed"} =>
       ~ Exists(PreviousDestination(r))
  /\ Undecided(r) /\ pc[r] \in {"record failure", "failed"} => ~ Exists(PreviousSource(r))

NamesInv == Inv /\ \A r \in Call : Flagged(r) /\ OutputApart(r) /\ BackupsReturn(r)

\* What the flags of a call mean for the directories, and that the file follows them.
Reported(r) ==
  /\ pc[r] \in {"begin", "refused"} => /\ ~ record[r].sourceSaved /\ ~ record[r].destSaved
                                       /\ ~ record[r].published
  /\ disk[r] # None => /\ disk[r].sourceSaved => record[r].sourceSaved
                       /\ disk[r].destSaved => record[r].destSaved
                       /\ disk[r].published => record[r].published
  /\ (record[r].sourceSaved \/ pc[r] = "source moved") /\ pc[r] \in Body \cup {"installed"} =>
       Exists(PreviousSource(r))
  /\ (record[r].destSaved \/ pc[r] = "withdrawn") /\ pc[r] \in Body \cup {"installed"} =>
       Exists(PreviousDestination(r))
  /\ tree[Stage(r)].by \in {r, None}
  /\ pc[r] \in {"check", "copy"} => tree[Source].by = r
  /\ pc[r] \in {"adapt", "check adapted", "withdraw", "withdrawn", "publish"} => tree[Stage(r)].by = r
  /\ record[r].published \/ pc[r] = "moved in" =>
       \E p \in Path : tree[p].by = r /\ Publishable(tree[p])

ReportInv == PublicationInv /\ \A r \in Call : Reported(r)

\* The trees that a step overwrites are not finished, or there is another copy.
Overwritten(r) ==
  /\ pc[r] \in {"source moved", "configure", "generate"} => ~ Finished(tree[Source])
  /\ pc[r] \in {"check", "copy"} => tree[Source].state = "raw"
  /\ pc[r] \in BeforeStage \ {"adapt"} => ~ Finished(tree[Stage(r)])
  /\ pc[r] = "adapt" /\ Finished(tree[Stage(r)]) => tree[Stage(r)] = tree[Source]

WritesInv == Inv /\ (\A r \in Call : pc[r] # "orphaned" /\ Overwritten(r))

\* What a step of call r makes of a record: each flag has one statement that sets it.
FlagStep(r, x) ==
  /\ x # r => record'[x] = record[x] /\ disk'[x] = disk[x] /\ pc'[x] = pc[x]
  /\ disk'[x] \in {disk[x], None, record'[x]}
  /\ record[x].sourceSaved => record'[x].sourceSaved
  /\ record[x].destSaved => record'[x].destSaved
  /\ record[x].published => record'[x].published
  /\ record[x].generating => record'[x].generating
  /\ record'[x].sourceSaved => record[x].sourceSaved \/ (x = r /\ pc[x] = "source moved")
  /\ record'[x].destSaved => record[x].destSaved \/ (x = r /\ pc[x] = "withdrawn")
  /\ record'[x].published => record[x].published \/ (x = r /\ pc[x] = "moved in")
  /\ record'[x].generating => record[x].generating \/ (x = r /\ pc[x] = "configure")

\* The steps that do not write the record in memory.
LEMMA FlagsKept ==
  ASSUME TypeOK, NEW r \in Call, UNCHANGED record, \A x \in Call \ {r} : pc'[x] = pc[x],
         \A x \in Call : disk'[x] \in {disk[x], None, record[x]} /\ (x # r => disk'[x] = disk[x])
  PROVE  \A x \in Call : FlagStep(r, x)
BY DEF FlagStep

\* The steps that set one flag of the record.
LEMMA FlagSteps ==
  ASSUME TypeOK, NEW r \in Call, Steps(r)
  PROVE  \A x \in Call : FlagStep(r, x)
<1>1. /\ \A x \in Call : record[x] \in Flags
      /\ record = [x \in Call |-> record[x]] /\ disk = [x \in Call |-> disk[x]]
      /\ pc = [x \in Call |-> pc[x]]
  BY DEF TypeOK
<1>2. ASSUME ToHandler(r) \/ \E place : pc' = [pc EXCEPT ![r] = place]
      PROVE  \A x \in Call \ {r} : pc'[x] = pc[x]
  BY <1>1, <1>2 DEF ToHandler
<1>3. ASSUME Save(r) \/ SaveFails(r) \/ UNCHANGED disk, record'[r] \in Flags
      PROVE  /\ disk'[r] \in {disk[r], None, record'[r]}
             /\ \A x \in Call \ {r} : disk'[x] = disk[x]
  BY <1>1, <1>3 DEF Save, SaveFails
<1>4. CASE \/ MoveSource(r) \/ Generate(r) \/ CheckGenerated(r) \/ CopyTree(r) \/ Adapt(r)
           \/ CheckAdapted(r) \/ Withdraw(r) \/ Publish(r) \/ Refuse(r) \/ Begin(r)
           \/ RestoreDestination(r) \/ SetAside(r) \/ RestoreSource(r)
           \/ HandlerFails(r) \/ OrphanWrites(r) \/ Interrupt(r) \/ Crash(r)
  <2>1. UNCHANGED record
    BY <1>4 DEF MoveSource, Generate, CheckGenerated, CopyTree, Adapt, CheckAdapted, Withdraw, Publish,
       Refuse, Begin, RestoreDestination, SetAside, RestoreSource, HandlerFails, OrphanWrites, Interrupt, Crash
  <2>2. \A x \in Call \ {r} : pc'[x] = pc[x]
    BY <1>1, <1>4 DEF MoveSource, Generate, CheckGenerated, CopyTree, Adapt, CheckAdapted, Withdraw, Publish,
       Refuse, Begin, RestoreDestination, SetAside, RestoreSource, HandlerFails, OrphanWrites, Interrupt, Crash,
       At, ToHandler
  <2>3. \A x \in Call : disk'[x] \in {disk[x], None, record[x]} /\ (x # r => disk'[x] = disk[x])
    BY <1>1, <1>4 DEF MoveSource, Generate, CheckGenerated, CopyTree, Adapt, CheckAdapted, Withdraw, Publish,
       Refuse, Begin, RestoreDestination, SetAside, RestoreSource, HandlerFails, OrphanWrites, Interrupt, Crash,
       SaveFails
  <2> QED BY <2>1, <2>2, <2>3, FlagsKept
<1>5. CASE SourceMoved(r)
  <2>1. record' = [record EXCEPT ![r] = [record[r] EXCEPT !.sourceSaved = TRUE]] /\ pc[r] = "source moved"
    BY <1>5 DEF SourceMoved, Remember, TypeOK, Flags
  <2>2. record'[r] = [record[r] EXCEPT !.sourceSaved = TRUE] /\ record'[r] \in Flags
    BY <1>1, <2>1 DEF Flags
  <2>3. \A x \in Call \ {r} : record'[x] = record[x] /\ disk'[x] = disk[x] /\ pc'[x] = pc[x]
    BY <1>1, <1>5, <2>1 DEF SourceMoved, Save, SaveFails, ToHandler
  <2>4. disk'[r] \in {disk[r], None, record'[r]}
    BY <1>3, <1>5, <2>2 DEF SourceMoved
  <2> QED BY <1>1, <2>1, <2>2, <2>3, <2>4 DEF FlagStep, Flags
<1>6. CASE Configure(r)
  <2>1. record' = [record EXCEPT ![r] = [record[r] EXCEPT !.generating = TRUE]] /\ pc[r] = "configure"
    BY <1>6 DEF Configure, At, Remember, TypeOK, Flags
  <2>2. record'[r] = [record[r] EXCEPT !.generating = TRUE] /\ record'[r] \in Flags
    BY <1>1, <2>1 DEF Flags
  <2>3. \A x \in Call \ {r} : record'[x] = record[x] /\ disk'[x] = disk[x] /\ pc'[x] = pc[x]
    BY <1>1, <1>6, <2>1 DEF Configure, At
  <2>4. disk'[r] = disk[r]
    BY <1>6 DEF Configure
  <2> QED BY <1>1, <2>1, <2>2, <2>3, <2>4 DEF FlagStep, Flags
<1>7. CASE Withdrawn(r)
  <2>1. record' = [record EXCEPT ![r] = [record[r] EXCEPT !.destSaved = TRUE]] /\ pc[r] = "withdrawn"
    BY <1>7 DEF Withdrawn, Remember, TypeOK, Flags
  <2>2. record'[r] = [record[r] EXCEPT !.destSaved = TRUE] /\ record'[r] \in Flags
    BY <1>1, <2>1 DEF Flags
  <2>3. \A x \in Call \ {r} : record'[x] = record[x] /\ disk'[x] = disk[x] /\ pc'[x] = pc[x]
    BY <1>1, <1>7, <2>1 DEF Withdrawn, Save, SaveFails, ToHandler
  <2>4. disk'[r] \in {disk[r], None, record'[r]}
    BY <1>3, <1>7, <2>2 DEF Withdrawn
  <2> QED BY <1>1, <2>1, <2>2, <2>3, <2>4 DEF FlagStep, Flags
<1>8. CASE MovedIn(r)
  <2>1. /\ record' = [record EXCEPT ![r] = [record[r] EXCEPT !.published = TRUE, !.status = "installed"]]
        /\ pc[r] = "moved in"
    BY <1>8 DEF MovedIn, TypeOK, Flags
  <2>2. /\ record'[r] = [record[r] EXCEPT !.published = TRUE, !.status = "installed"]
        /\ record'[r] \in Flags
    BY <1>1, <2>1 DEF Flags
  <2>3. \A x \in Call \ {r} : record'[x] = record[x] /\ disk'[x] = disk[x] /\ pc'[x] = pc[x]
    BY <1>1, <1>8, <2>1 DEF MovedIn, Save, SaveFails, ToHandler
  <2>4. disk'[r] \in {disk[r], None, record'[r]}
    BY <1>3, <1>8, <2>2 DEF MovedIn
  <2> QED BY <1>1, <2>1, <2>2, <2>3, <2>4 DEF FlagStep, Flags
<1>9. CASE Fail(r)
  <2>1. /\ record' = [record EXCEPT ![r] = [record[r] EXCEPT !.generating = @ \/ pc[r] = "configure"]]
        /\ UNCHANGED disk
    BY <1>9 DEF Fail, TypeOK, Flags
  <2>2. /\ record'[r] = [record[r] EXCEPT !.generating = @ \/ pc[r] = "configure"]
    BY <1>1, <2>1
  <2>3. /\ record'[r].sourceSaved = record[r].sourceSaved /\ record'[r].destSaved = record[r].destSaved
        /\ record'[r].published = record[r].published
        /\ record'[r].generating <=> (record[r].generating \/ pc[r] = "configure")
    BY <1>1, <2>2 DEF Flags
  <2>4. \A x \in Call \ {r} : record'[x] = record[x] /\ pc'[x] = pc[x]
    BY <1>1, <1>9, <2>1 DEF Fail, ToHandler
  <2> QED BY <1>1, <2>1, <2>3, <2>4 DEF FlagStep, Flags
<1>10. CASE RecordFailure(r)
  <2>1. /\ record' = [record EXCEPT ![r] = [record[r] EXCEPT !.status = "failed"]] /\ Save(r)
    BY <1>10 DEF RecordFailure, TypeOK, Flags
  <2>2. record'[r] = [record[r] EXCEPT !.status = "failed"] /\ record'[r] \in Flags
    BY <1>1, <2>1 DEF Flags
  <2>3. \A x \in Call \ {r} : record'[x] = record[x] /\ disk'[x] = disk[x] /\ pc'[x] = pc[x]
    BY <1>1, <1>10, <2>1 DEF RecordFailure, Save, At
  <2>4. disk'[r] \in {disk[r], None, record'[r]}
    BY <1>3, <2>1, <2>2
  <2> QED BY <1>1, <2>1, <2>2, <2>3, <2>4 DEF FlagStep, Flags
<1> QED BY <1>4, <1>5, <1>6, <1>7, <1>8, <1>9, <1>10 DEF Steps, Forward, Backward

-----------------------------------------------------------------------------
(* Whose step touches which place.                                         *)

\* Every step is a step of a call, an edit of the configuration or none.
LEMMA StepsAre == [Next]_vars <=> \/ \E r \in Call : Steps(r)
                                  \/ EditConfig
                                  \/ UNCHANGED vars
BY DEF Next, Steps

\* What a step of a call is, by what it does to the trees.
LEMMA CallStepKinds ==
  ASSUME NEW r \in Call, Steps(r)
  PROVE  \/ Quiet(r)
         \/ \E p, q \in Path : Moving(r, p, q)
         \/ Generate(r) \/ OrphanWrites(r) \/ CopyTree(r) \/ Adapt(r)
<1>1. ASSUME MoveSource(r) \/ Withdraw(r) \/ Publish(r) \/ RestoreDestination(r)
             \/ SetAside(r) \/ RestoreSource(r)
      PROVE  \E p, q \in Path : Moving(r, p, q)
  BY <1>1, PathFacts DEF Moving
<1> QED BY <1>1 DEF Steps, Forward, Backward, Quiet

\* A call touches only the two shared names and its own directories.
LEMMA OwnPlaces ==
  ASSUME TypeOK, NEW r \in Call, NEW x \in Call, x # r, Steps(r)
  PROVE  /\ pc'[x] = pc[x]
         /\ tree'[Stage(x)] = tree[Stage(x)]
         /\ tree'[PreviousSource(x)] = tree[PreviousSource(x)]
         /\ tree'[PreviousDestination(x)] = tree[PreviousDestination(x)]
<1>1. /\ Stage(x) \in Path /\ PreviousSource(x) \in Path /\ PreviousDestination(x) \in Path
      /\ \A y \in {Stage(x), PreviousSource(x), PreviousDestination(x)} :
           /\ y # Source /\ y # Destination /\ y # PreviousSource(r) /\ y # FailedOutput(r)
           /\ y # PreviousDestination(r) /\ y # Stage(r)
  <2>1. Stage(x) \in Path /\ PreviousSource(x) \in Path /\ PreviousDestination(x) \in Path
    BY PathFacts
  <2>2. Stage(x) \notin {Source, Destination, PreviousSource(r), FailedOutput(r), PreviousDestination(r), Stage(r)}
    BY DEF Source, Destination, PreviousSource, FailedOutput, PreviousDestination, Stage
  <2>3. PreviousSource(x) \notin {Source, Destination, PreviousSource(r), FailedOutput(r),
                                 PreviousDestination(r), Stage(r)}
    BY DEF Source, Destination, PreviousSource, FailedOutput, PreviousDestination, Stage
  <2>4. PreviousDestination(x) \notin {Source, Destination, PreviousSource(r), FailedOutput(r),
                                      PreviousDestination(r), Stage(r)}
    BY DEF Source, Destination, PreviousSource, FailedOutput, PreviousDestination, Stage
  <2> QED BY <2>1, <2>2, <2>3, <2>4
<1>2. pc'[x] = pc[x]
  BY FlagSteps DEF FlagStep
<1> DEFINE Mine == {Source, Destination, PreviousSource(r), FailedOutput(r), PreviousDestination(r),
                    Stage(r)}
<1>3. ASSUME NEW y \in Path, y \notin Mine PROVE tree'[y] = tree[y]
  <2>1. CASE Quiet(r)
    BY <2>1, QuietStep
  <2>2. ASSUME NEW p \in Path, NEW q \in Path, Moving(r, p, q) PROVE tree'[y] = tree[y]
    <3>1. p \in Mine /\ q \in Mine
      BY <2>2 DEF Moving
    <3>2. Move(p, q) \/ tree' = tree
      BY <2>2, MovingStep
    <3>3. p # q
      BY <2>2, MovingStep
    <3> QED BY <1>3, <3>1, <3>2, <3>3, MoveFacts
  <2>3. CASE Generate(r) \/ OrphanWrites(r)
    BY <1>3, <2>3 DEF Generate, OrphanWrites, TypeOK
  <2>4. CASE CopyTree(r) \/ Adapt(r)
    BY <1>3, <2>4 DEF CopyTree, Adapt, TypeOK
  <2> QED BY <2>1, <2>2, <2>3, <2>4, CallStepKinds
<1> QED BY <1>1, <1>2, <1>3

\* While one call is at work the others can only be refused, or be the generator
\* that a killed call has left.
LEMMA OthersWait ==
  ASSUME TypeOK, NEW r \in Call, NEW x \in Call, x # r, Steps(r), pc[x] \in Body \cup Handler
  PROVE  \/ tree' = tree
         \/ OrphanWrites(r)
<1>1. lock = x /\ pc[r] \notin Body \cup Handler
  BY DEF TypeOK
<1>2. CASE Begin(r) \/ Refuse(r)
  BY <1>2 DEF Begin, Refuse
<1>3. CASE ~ (Begin(r) \/ Refuse(r) \/ OrphanWrites(r))
  <2>1. pc[r] \in Body \cup Handler
    BY <1>3 DEF Steps, Forward, Backward, MoveSource, SourceMoved, Configure, Generate, CheckGenerated,
       CopyTree, Adapt, CheckAdapted, Withdraw, Withdrawn, Publish, MovedIn, Fail, Interrupt,
       RestoreDestination, SetAside, RestoreSource, RecordFailure, HandlerFails, Crash, At, Body, Handler
  <2> QED BY <1>1, <2>1
<1> QED BY <1>2, <1>3

-----------------------------------------------------------------------------
(* What the steps overwrite.                                               *)

\* At first there is nothing in the directories of the calls.
LEMMA InitDirectories ==
  ASSUME Init
  PROVE  \A x \in Call : /\ pc[x] = "begin" /\ record[x] = NewRecord /\ disk[x] = None
                         /\ tree[Stage(x)] = NoTree /\ tree[PreviousSource(x)] = NoTree
                         /\ tree[PreviousDestination(x)] = NoTree
<1>1. \A p \in Path \ {Source, Destination} : tree[p] = NoTree
  BY DEF Init
<1> QED BY <1>1, PathFacts DEF Init

\* At first nothing was written.
LEMMA InitWrites == Init => WritesInv
<1> SUFFICES ASSUME Init PROVE WritesInv
  OBVIOUS
<1>1. ASSUME NEW r \in Call PROVE pc[r] # "orphaned" /\ Overwritten(r)
  BY InitDirectories, TreeFacts DEF Overwritten, Finished
<1> QED BY <1>1, InitInv DEF WritesInv

\* Where no generator outlives its call, no call is orphaned.
LEMMA NoOrphans ==
  ASSUME ~ Orphans, TypeOK, \A x \in Call : pc[x] # "orphaned", [Next]_vars
  PROVE  \A x \in Call : pc'[x] # "orphaned"
<1>1. ASSUME NEW r \in Call, Forward(r) PROVE \A x \in Call : pc'[x] # "orphaned"
  BY <1>1 DEF Forward, Begin, Refuse, MoveSource, SourceMoved, Configure, Generate,
     CheckGenerated, CopyTree, Adapt, CheckAdapted, Withdraw, Withdrawn, Publish, MovedIn,
     At, ToHandler, TypeOK
<1>2. ASSUME NEW r \in Call, Backward(r) PROVE \A x \in Call : pc'[x] # "orphaned"
  BY <1>2 DEF Backward, Fail, Interrupt, RestoreDestination, SetAside, RestoreSource,
     RecordFailure, HandlerFails, Crash, OrphanWrites, At, ToHandler, TypeOK
<1>3. CASE EditConfig
  BY <1>3 DEF EditConfig
<1>4. CASE UNCHANGED vars
  BY <1>4 DEF vars
<1> QED BY <1>1, <1>2, <1>3, <1>4 DEF Next

\* The call that acts.
LEMMA OverwrittenActs ==
  ASSUME TypeOK, NEW r \in Call, Overwritten(r), pc[r] # "orphaned", Steps(r)
  PROVE  Overwritten(r)'
<1>1. /\ Source \in Path /\ PreviousSource(r) \in Path /\ Stage(r) \in Path
      /\ Source # PreviousSource(r) /\ Stage(r) # Source /\ Stage(r) # PreviousSource(r)
  BY PathFacts
<1>2. ~ Finished(NoTree)
  BY TreeFacts DEF Finished
<1>3. CASE MoveSource(r)
  <2>1. CASE Exists(Source)
    <3>1. pc[r] = "move source" /\ pc'[r] = "source moved" /\ Move(Source, PreviousSource(r))
      BY <1>3, <2>1 DEF MoveSource, At, TypeOK
    <3>2. tree'[Source] = NoTree /\ tree'[Stage(r)] = tree[Stage(r)]
      BY <1>1, <3>1, MoveFacts
    <3> QED BY <1>2, <3>1, <3>2 DEF Overwritten, BeforeStage, Finished
  <2>2. CASE ~ Exists(Source)
    <3>1. pc[r] = "move source" /\ pc'[r] = "configure" /\ tree' = tree
      BY <1>3, <2>2 DEF MoveSource, At, TypeOK
    <3> QED BY <1>2, <2>2, <3>1 DEF Overwritten, BeforeStage, Finished, Exists
  <2> QED BY <2>1, <2>2
<1>4. CASE Generate(r)
  <2>1. PICK state \in {"partial", "raw"} :
          /\ At(r, "generate", IF state = "raw" THEN "check" ELSE "generate")
          /\ tree' = [tree EXCEPT ![Source] =
                        [by |-> r, state |-> state, used |-> buildConfig, shipped |-> None]]
    BY <1>4 DEF Generate
  <2>2. /\ pc[r] = "generate" /\ pc'[r] = IF state = "raw" THEN "check" ELSE "generate"
        /\ tree'[Source].state = state /\ tree'[Stage(r)] = tree[Stage(r)]
    BY <1>1, <2>1 DEF At, TypeOK
  <2> QED BY <2>1, <2>2 DEF Overwritten, BeforeStage, Finished
<1>5. CASE CopyTree(r)
  <2>1. PICK state \in {"copying", tree[Source].state} :
          /\ At(r, "copy", IF state = "copying" THEN "copy" ELSE "adapt")
          /\ tree' = [tree EXCEPT ![Stage(r)] = [tree[Source] EXCEPT !.state = state]]
    BY <1>5 DEF CopyTree
  <2>2. /\ pc[r] = "copy" /\ pc'[r] = IF state = "copying" THEN "copy" ELSE "adapt"
        /\ tree'[Source] = tree[Source] /\ tree'[Stage(r)] = [tree[Source] EXCEPT !.state = state]
    BY <1>1, <2>1 DEF At, TypeOK
  <2>3. tree'[Stage(r)].state = state /\ (state = tree[Source].state => tree'[Stage(r)] = tree[Source])
    BY <1>1, <2>2 DEF TypeOK, Tree
  <2> QED BY <2>1, <2>2, <2>3 DEF Overwritten, BeforeStage, Finished
<1>6. CASE Adapt(r)
  <2>1. PICK state \in {"copying", "adapted"} :
          /\ At(r, "adapt", IF state = "copying" THEN "adapt" ELSE "check adapted")
          /\ tree' = [tree EXCEPT ![Stage(r)] = [@ EXCEPT !.state = state, !.shipped = config]]
    BY <1>6 DEF Adapt
  <2>2. /\ pc[r] = "adapt" /\ pc'[r] = IF state = "copying" THEN "adapt" ELSE "check adapted"
        /\ tree'[Stage(r)].state = state
    BY <1>1, <2>1 DEF At, TypeOK, Tree
  <2> QED BY <2>1, <2>2 DEF Overwritten, BeforeStage, Finished
<1>7. CASE Quiet(r)
  <2>1. tree' = tree
    BY <1>7, QuietStep
  <2>2. /\ pc'[r] \in {"source moved", "configure", "generate"}
             => pc[r] \in {"source moved", "configure"}
        /\ pc'[r] \in {"check", "copy"} => pc[r] \in {"check", "copy"}
        /\ pc'[r] \in BeforeStage \ {"adapt"} => pc[r] \in BeforeStage \ {"adapt"}
        /\ pc'[r] # "adapt"
    BY <1>7 DEF Quiet, Begin, Refuse, SourceMoved, Configure, CheckGenerated, CheckAdapted, Withdrawn,
       MovedIn, Fail, Interrupt, RecordFailure, HandlerFails, Crash, At, ToHandler, TypeOK, BeforeStage
  <2> QED BY <2>1, <2>2 DEF Overwritten
<1>8. CASE Withdraw(r) \/ Publish(r) \/ RestoreDestination(r) \/ SetAside(r) \/ RestoreSource(r)
  <2>1. pc'[r] \notin BeforeStage
    BY <1>8 DEF Withdraw, Publish, RestoreDestination, SetAside, RestoreSource, At, TypeOK, BeforeStage
  <2> QED BY <2>1 DEF Overwritten, BeforeStage
<1>9. ~ OrphanWrites(r)
  BY DEF OrphanWrites, At
<1> QED BY <1>3, <1>4, <1>5, <1>6, <1>7, <1>8, <1>9 DEF Steps, Forward, Backward, Quiet

\* The calls that do not.
LEMMA OverwrittenRests ==
  ASSUME TypeOK, NEW r \in Call, NEW x \in Call, x # r, pc[r] # "orphaned", Steps(r), Overwritten(x)
  PROVE  Overwritten(x)'
<1>1. pc'[x] = pc[x] /\ tree'[Stage(x)] = tree[Stage(x)]
  BY OwnPlaces
<1>2. pc[x] \in Body \cup Handler => tree' = tree
  BY OthersWait DEF OrphanWrites, At
<1> QED BY <1>1, <1>2 DEF Overwritten, Body

\* Every step keeps the trees that a call is going to overwrite its own.
LEMMA WritesStep ==
  ASSUME ~ Orphans, WritesInv, [Next]_vars
  PROVE  WritesInv'
<1>1. TypeOK /\ Inv'
  BY InvStep DEF WritesInv, Inv
<1>2. \A x \in Call : pc'[x] # "orphaned"
  BY <1>1, NoOrphans DEF WritesInv
<1>3. ASSUME NEW x \in Call PROVE Overwritten(x)'
  <2>1. ASSUME NEW r \in Call, Steps(r) PROVE Overwritten(x)'
    BY <1>1, <2>1, OverwrittenActs, OverwrittenRests DEF WritesInv
  <2>2. CASE EditConfig
    BY <2>2 DEF EditConfig, WritesInv, Overwritten
  <2>3. CASE UNCHANGED vars
    BY <2>3 DEF vars, WritesInv, Overwritten
  <2> QED BY <2>1, <2>2, <2>3, StepsAre
<1> QED BY <1>1, <1>2, <1>3 DEF WritesInv

\* If no generator outlives its call, no step of any call - failing, interrupted
\* or crashed - overwrites or deletes a finished tree: the generator starts on an
\* empty name, the copy in a new directory, and what adapt edits in place is a
\* copy of an output that stays where it is (replace_model).
THEOREM FinishedTreesAreKept == ASSUME ~ Orphans PROVE Spec => FinishedTreesOnlyMove
<1>1. ASSUME WritesInv, [Next]_vars
      PROVE  [\A p \in Path : Finished(tree[p]) /\ tree'[p] # tree[p]
               => \E q \in Path : tree'[q] = tree[p]]_vars
  <2> SUFFICES ASSUME NEW x \in Path, Finished(tree[x]), tree'[x] # tree[x]
               PROVE  \E q \in Path : tree'[q] = tree[x]
    OBVIOUS
  <2>1. TypeOK
    BY <1>1 DEF WritesInv, Inv
  <2>2. ASSUME NEW r \in Call, Quiet(r) PROVE FALSE
    BY <2>1, <2>2, QuietStep
  <2>3. ASSUME NEW r \in Call, NEW p \in Path, NEW q \in Path, Moving(r, p, q)
        PROVE  \E y \in Path : tree'[y] = tree[x]
    <3>1. Move(p, q) /\ p # q
      BY <2>1, <2>3, MovingStep
    <3>2. /\ tree[q] = NoTree /\ tree'[q] = tree[p]
          /\ \A y \in Path \ {p, q} : tree'[y] = tree[y]
      BY <2>1, <3>1, MoveFacts
    <3> QED BY <3>2, TreeFacts DEF Finished
  <2>4. ASSUME NEW r \in Call, Generate(r) \/ OrphanWrites(r) PROVE FALSE
    <3>1. \A y \in Path \ {Source} : tree'[y] = tree[y]
      BY <2>1, <2>4 DEF Generate, OrphanWrites, TypeOK
    <3>2. pc[r] = "generate"
      BY <1>1, <2>4 DEF Generate, OrphanWrites, At, WritesInv
    <3> QED BY <1>1, <3>1, <3>2 DEF WritesInv, Overwritten
  <2>5. ASSUME NEW r \in Call, CopyTree(r) PROVE FALSE
    <3>1. \A y \in Path \ {Stage(r)} : tree'[y] = tree[y]
      BY <2>1, <2>5 DEF CopyTree, TypeOK
    <3>2. pc[r] = "copy"
      BY <2>5 DEF CopyTree, At
    <3> QED BY <1>1, <3>1, <3>2 DEF WritesInv, Overwritten, BeforeStage
  <2>6. ASSUME NEW r \in Call, Adapt(r) PROVE \E y \in Path : tree'[y] = tree[x]
    <3>1. \A y \in Path \ {Stage(r)} : tree'[y] = tree[y]
      BY <2>1, <2>6 DEF Adapt, TypeOK
    <3>2. pc[r] = "adapt" /\ x = Stage(r)
      BY <2>6, <3>1 DEF Adapt, At
    <3>3. tree[Stage(r)] = tree[Source]
      BY <1>1, <3>2 DEF WritesInv, Overwritten
    <3> QED BY <3>1, <3>2, <3>3, PathFacts
  <2>7. CASE EditConfig
    BY <2>7 DEF EditConfig
  <2>8. CASE UNCHANGED vars
    BY <2>8 DEF vars
  <2> QED BY <1>1, <2>2, <2>3, <2>4, <2>5, <2>6, <2>7, <2>8, StepKinds
<1>2. WritesInv /\ [Next]_vars => WritesInv'
  BY WritesStep
<1> QED BY <1>1, <1>2, InitWrites, PTL DEF Spec, FinishedTreesOnlyMove

-----------------------------------------------------------------------------
(* What the records report.                                                *)

\* The statements that change each place.
LEMMA PlaceSteps ==
  ASSUME TypeOK, NEW r \in Call, Steps(r)
  PROVE  /\ \/ MoveSource(r) \/ RestoreSource(r)
            \/ tree'[PreviousSource(r)] = tree[PreviousSource(r)]
         /\ \/ Withdraw(r) \/ RestoreDestination(r)
            \/ tree'[PreviousDestination(r)] = tree[PreviousDestination(r)]
         /\ \/ CopyTree(r) \/ Adapt(r) \/ Publish(r)
            \/ tree'[Stage(r)] = tree[Stage(r)]
         /\ \/ Withdraw(r) \/ Publish(r) \/ RestoreDestination(r)
            \/ tree'[Destination] = tree[Destination]
         /\ \/ MoveSource(r) \/ Generate(r) \/ OrphanWrites(r) \/ SetAside(r) \/ RestoreSource(r)
            \/ tree'[Source] = tree[Source]
<1>1. CASE Quiet(r)
  BY <1>1, QuietStep
<1>2. CASE MoveSource(r)
  <2>1. Move(Source, PreviousSource(r)) \/ tree' = tree
    BY <1>2 DEF MoveSource
  <2> QED BY <1>2, <2>1, MoveFacts, PathFacts
<1>3. CASE Withdraw(r)
  <2>1. Move(Destination, PreviousDestination(r)) \/ tree' = tree
    BY <1>3 DEF Withdraw, KeepOldModel
  <2> QED BY <1>3, <2>1, MoveFacts, PathFacts
<1>4. CASE Publish(r)
  <2>1. Move(Stage(r), Destination)
    BY <1>4 DEF Publish
  <2> QED BY <1>4, <2>1, MoveFacts, PathFacts
<1>5. CASE RestoreDestination(r)
  <2>1. Move(PreviousDestination(r), Destination) \/ tree' = tree
    BY <1>5 DEF RestoreDestination
  <2> QED BY <1>5, <2>1, MoveFacts, PathFacts
<1>6. CASE SetAside(r)
  <2>1. Move(Source, FailedOutput(r)) \/ tree' = tree
    BY <1>6 DEF SetAside, KeepOutput
  <2> QED BY <1>6, <2>1, MoveFacts, PathFacts
<1>7. CASE RestoreSource(r)
  <2>1. Move(PreviousSource(r), Source) \/ tree' = tree
    BY <1>7 DEF RestoreSource
  <2> QED BY <1>7, <2>1, MoveFacts, PathFacts
<1>8. CASE Generate(r) \/ OrphanWrites(r)
  <2>1. \A y \in Path \ {Source} : tree'[y] = tree[y]
    BY <1>8 DEF Generate, OrphanWrites, TypeOK
  <2> QED BY <1>8, <2>1, PathFacts
<1>9. CASE CopyTree(r) \/ Adapt(r)
  <2>1. \A y \in Path \ {Stage(r)} : tree'[y] = tree[y]
    BY <1>9 DEF CopyTree, Adapt, TypeOK
  <2> QED BY <1>9, <2>1, PathFacts
<1> QED BY <1>1, <1>2, <1>3, <1>4, <1>5, <1>6, <1>7, <1>8, <1>9 DEF Steps, Forward, Backward, Quiet

\* A publication of r is somewhere.
Kept(r) == \E p \in Path : tree[p].by = r /\ Publishable(tree[p])

\* It stays so, wherever it is moved to.
LEMMA KeptStep ==
  ASSUME Inv, [Next]_vars, NEW r \in Call, Kept(r)
  PROVE  Kept(r)'
<1>1. PICK p \in Path : tree[p].by = r /\ Publishable(tree[p])
  BY DEF Kept
<1>2. PICK q \in Path : tree'[q] = tree[p]
  BY <1>1, AdaptedStep DEF Publishable
<1>3. tree'[q].by = r /\ Publishable(tree[q])'
  BY <1>1, <1>2 DEF Publishable
<1> QED BY <1>3 DEF Kept

\* Only the statements that go on lead to one of the try block or to the end.
LEMMA OnlyForward ==
  ASSUME TypeOK, NEW r \in Call, Steps(r), pc'[r] \in Body \cup {"installed"}
  PROVE  /\ Forward(r) /\ ~ Refuse(r)
         /\ pc[r] \in Body \cup {"begin"}
         /\ pc'[r] = "source moved" => MoveSource(r)
         /\ pc'[r] = "withdrawn" => Withdraw(r)
         /\ pc'[r] = "moved in" => Publish(r)
<1>1. ~ Backward(r)
  BY DEF Backward, Fail, Interrupt, RestoreDestination, SetAside, RestoreSource,
     RecordFailure, HandlerFails, Crash, OrphanWrites, At, ToHandler, TypeOK, Body, Handler
<1>2. ~ Refuse(r)
  BY DEF Refuse, At, TypeOK, Body
<1>3. Forward(r)
  BY <1>1 DEF Steps
<1>4. pc[r] \in Body \cup {"begin"}
  BY <1>3 DEF Forward, Begin, Refuse, MoveSource, SourceMoved, Configure, Generate,
     CheckGenerated, CopyTree, Adapt, CheckAdapted, Withdraw, Withdrawn, Publish, MovedIn, At, Body
<1>5. pc'[r] \in {"source moved", "withdrawn", "moved in"} => MoveSource(r) \/ Withdraw(r) \/ Publish(r)
  BY <1>3 DEF Forward, Begin, Refuse, SourceMoved, Configure, Generate,
     CheckGenerated, CopyTree, Adapt, CheckAdapted, Withdrawn, MovedIn, At, ToHandler, TypeOK
<1>6. /\ MoveSource(r) => pc'[r] \notin {"withdrawn", "moved in"}
      /\ Withdraw(r) => pc'[r] \notin {"source moved", "moved in"}
      /\ Publish(r) => pc'[r] \notin {"source moved", "withdrawn"}
  BY DEF MoveSource, Withdraw, Publish, At, TypeOK
<1> QED BY <1>1, <1>2, <1>3, <1>4, <1>5, <1>6

\* The call that acts: what its flags say of its two backups.
LEMMA BackupsReported ==
  ASSUME TypeOK, NEW r \in Call, Steps(r), Reported(r), pc'[r] \in Body \cup {"installed"}
  PROVE  /\ record'[r].sourceSaved \/ pc'[r] = "source moved" => tree'[PreviousSource(r)] # NoTree
         /\ record'[r].destSaved \/ pc'[r] = "withdrawn" => tree'[PreviousDestination(r)] # NoTree
<1>1. /\ Forward(r) /\ pc[r] \in Body \cup {"begin"}
      /\ pc'[r] = "source moved" => MoveSource(r)
      /\ pc'[r] = "withdrawn" => Withdraw(r)
  BY OnlyForward
<1>2. ~ RestoreSource(r) /\ ~ RestoreDestination(r)
  BY DEF RestoreSource, RestoreDestination, At, TypeOK, Body
<1>3. FlagStep(r, r)
  BY FlagSteps
<1>4. ASSUME MoveSource(r), record'[r].sourceSaved \/ pc'[r] = "source moved"
      PROVE  tree'[PreviousSource(r)] # NoTree
  <2>1. CASE Exists(Source)
    <3>1. tree'[PreviousSource(r)] = tree[Source]
      BY <1>4, <2>1, MoveFacts, PathFacts DEF MoveSource
    <3> QED BY <2>1, <3>1 DEF Exists
  <2>2. CASE ~ Exists(Source)
    <3>1. tree' = tree /\ pc[r] = "move source" /\ pc'[r] = "configure"
      BY <1>4, <2>2 DEF MoveSource, At, TypeOK
    <3> QED BY <1>3, <1>4, <3>1 DEF FlagStep, Reported, Exists, Body
  <2> QED BY <2>1, <2>2
<1>5. ASSUME Withdraw(r), record'[r].destSaved \/ pc'[r] = "withdrawn"
      PROVE  tree'[PreviousDestination(r)] # NoTree
  <2>1. CASE Exists(Destination)
    <3>1. tree'[PreviousDestination(r)] = tree[Destination]
      BY <1>5, <2>1, MoveFacts, PathFacts DEF Withdraw, KeepOldModel
    <3> QED BY <2>1, <3>1 DEF Exists
  <2>2. CASE ~ Exists(Destination)
    <3>1. tree' = tree /\ pc[r] = "withdraw" /\ pc'[r] = "publish"
      BY <1>5, <2>2 DEF Withdraw, At, TypeOK
    <3> QED BY <1>3, <1>5, <3>1 DEF FlagStep, Reported, Exists, Body
  <2> QED BY <2>1, <2>2
<1>6. ASSUME ~ MoveSource(r), record'[r].sourceSaved \/ pc'[r] = "source moved"
      PROVE  tree'[PreviousSource(r)] # NoTree
  <2>1. tree'[PreviousSource(r)] = tree[PreviousSource(r)]
    BY <1>2, <1>6, PlaceSteps
  <2>2. record[r].sourceSaved \/ pc[r] = "source moved"
    BY <1>1, <1>3, <1>6 DEF FlagStep
  <2>3. pc[r] \in Body
    BY <1>1, <2>2 DEF Reported
  <2> QED BY <2>1, <2>2, <2>3 DEF Reported, Exists
<1>7. ASSUME ~ Withdraw(r), record'[r].destSaved \/ pc'[r] = "withdrawn"
      PROVE  tree'[PreviousDestination(r)] # NoTree
  <2>1. tree'[PreviousDestination(r)] = tree[PreviousDestination(r)]
    BY <1>2, <1>7, PlaceSteps
  <2>2. record[r].destSaved \/ pc[r] = "withdrawn"
    BY <1>1, <1>3, <1>7 DEF FlagStep
  <2>3. pc[r] \in Body
    BY <1>1, <2>2 DEF Reported
  <2> QED BY <2>1, <2>2, <2>3 DEF Reported, Exists
<1> QED BY <1>4, <1>5, <1>6, <1>7

\* The call that acts: where its own output is.
LEMMA OutputReported ==
  ASSUME TypeOK, NEW r \in Call, Steps(r), Reported(r), pc[r] # "orphaned"
  PROVE  /\ tree'[Stage(r)].by \in {r, None}
         /\ pc'[r] \in {"check", "copy"} => tree'[Source].by = r
         /\ pc'[r] \in {"adapt", "check adapted", "withdraw", "withdrawn", "publish"} =>
              tree'[Stage(r)].by = r
<1> DEFINE Ready == {"adapt", "check adapted", "withdraw", "withdrawn", "publish"}
<1>1. Source \in Path /\ Stage(r) \in Path /\ Source # Stage(r) /\ NoTree.by = None
  BY PathFacts DEF NoTree
<1>2. CASE Generate(r)
  <2>1. tree'[Source].by = r /\ tree'[Stage(r)] = tree[Stage(r)]
    BY <1>1, <1>2 DEF Generate, TypeOK
  <2>2. pc'[r] \in {"check", "generate"}
    BY <1>2 DEF Generate, At, TypeOK
  <2> QED BY <2>1, <2>2 DEF Reported
<1>3. CASE CopyTree(r)
  <2>1. PICK state \in {"copying", tree[Source].state} :
          tree' = [tree EXCEPT ![Stage(r)] = [tree[Source] EXCEPT !.state = state]]
    BY <1>3 DEF CopyTree
  <2>2. tree'[Source] = tree[Source] /\ tree'[Stage(r)].by = tree[Source].by
    BY <1>1, <2>1 DEF TypeOK, Tree
  <2>3. pc[r] = "copy"
    BY <1>3 DEF CopyTree, At
  <2> QED BY <2>2, <2>3 DEF Reported
<1>4. CASE Adapt(r)
  <2>1. PICK state \in {"copying", "adapted"} :
          tree' = [tree EXCEPT ![Stage(r)] = [@ EXCEPT !.state = state, !.shipped = config]]
    BY <1>4 DEF Adapt
  <2>2. tree'[Stage(r)].by = tree[Stage(r)].by
    BY <1>1, <2>1 DEF TypeOK, Tree
  <2>3. pc[r] = "adapt" /\ pc'[r] \in Ready
    BY <1>4 DEF Adapt, At, TypeOK
  <2> QED BY <2>2, <2>3 DEF Reported
<1>5. CASE Publish(r)
  <2>1. tree'[Stage(r)] = NoTree
    BY <1>5, MoveFacts, PathFacts DEF Publish
  <2>2. pc'[r] = "moved in"
    BY <1>5 DEF Publish, At, TypeOK
  <2> QED BY <1>1, <2>1, <2>2
<1>6. CASE ~ (Generate(r) \/ CopyTree(r) \/ Adapt(r) \/ Publish(r))
  <2>1. tree'[Stage(r)] = tree[Stage(r)]
    BY <1>6, PlaceSteps
  <2>2. ASSUME pc'[r] \in {"check", "copy"} \cup Ready
        PROVE  \/ CheckGenerated(r) \/ CheckAdapted(r) \/ Withdraw(r) \/ Withdrawn(r)
    <3>1. Forward(r) /\ ~ Refuse(r)
      BY <2>2, OnlyForward DEF Body
    <3>2. ~ (Begin(r) \/ MoveSource(r) \/ SourceMoved(r) \/ Configure(r) \/ MovedIn(r))
      BY <2>2 DEF Begin, MoveSource, SourceMoved, Configure, MovedIn, At, ToHandler, TypeOK
    <3> QED BY <1>6, <3>1, <3>2 DEF Forward
  <2>3. ASSUME pc'[r] \in {"check", "copy"} PROVE tree'[Source].by = r
    <3>1. pc[r] \in {"check", "copy"} /\ tree' = tree
      BY <2>2, <2>3 DEF CheckGenerated, CheckAdapted, Withdraw, Withdrawn, At, ToHandler, TypeOK
    <3> QED BY <3>1 DEF Reported
  <2>4. ASSUME pc'[r] \in Ready PROVE tree'[Stage(r)].by = r
    <3>1. pc[r] \in Ready
      BY <2>2, <2>4 DEF CheckGenerated, CheckAdapted, Withdraw, Withdrawn, At, ToHandler, TypeOK
    <3> QED BY <2>1, <3>1 DEF Reported
  <2> QED BY <2>1, <2>3, <2>4 DEF Reported
<1> QED BY <1>2, <1>3, <1>4, <1>5, <1>6

\* The call that acts: a call that has published has a publication.
LEMMA PublicationReported ==
  ASSUME PublicationInv, [Next]_vars, NEW r \in Call, Steps(r), Reported(r),
         record'[r].published \/ pc'[r] = "moved in"
  PROVE  Kept(r)'
<1>1. TypeOK /\ Inv
  BY DEF PublicationInv, Inv
<1>2. FlagStep(r, r)
  BY <1>1, FlagSteps
<1>3. CASE Publish(r)
  <2>1. pc[r] = "publish"
    BY <1>3 DEF Publish, At
  <2>2. tree[Stage(r)].by = r /\ Publishable(tree[Stage(r)])
    BY <2>1 DEF Reported, PublicationInv, Knows
  <2>3. tree'[Destination] = tree[Stage(r)]
    BY <1>1, <1>3, MoveFacts, PathFacts DEF Publish
  <2>4. tree'[Destination].by = r /\ Publishable(tree[Destination])'
    BY <2>2, <2>3 DEF Publishable
  <2> QED BY <2>4, PathFacts DEF Kept
<1>4. CASE ~ Publish(r)
  <2>1. pc'[r] # "moved in"
    BY <1>1, <1>4, OnlyForward DEF Body
  <2>2. record[r].published \/ pc[r] = "moved in"
    BY <1>2, <2>1 DEF FlagStep
  <2>3. Kept(r)
    BY <2>2 DEF Reported, Kept
  <2> QED BY <1>1, <2>3, KeptStep
<1> QED BY <1>3, <1>4

\* A call keeps its own record behind its renames.
LEMMA ReportedActs ==
  ASSUME PublicationInv, [Next]_vars, NEW r \in Call, Steps(r), Reported(r)
  PROVE  Reported(r)'
<1>1. TypeOK /\ pc[r] # "orphaned"
  BY DEF PublicationInv, Inv
<1>2. FlagStep(r, r)
  BY <1>1, FlagSteps
<1>3. pc'[r] \in {"begin", "refused"} =>
        /\ ~ record'[r].sourceSaved /\ ~ record'[r].destSaved /\ ~ record'[r].published
  <2>1. pc'[r] \in {"begin", "refused"} => pc[r] = "begin"
    BY <1>1 DEF Steps, Forward, Backward, Begin, Refuse, MoveSource, SourceMoved, Configure, Generate,
       CheckGenerated, CopyTree, Adapt, CheckAdapted, Withdraw, Withdrawn, Publish, MovedIn, Fail,
       Interrupt, RestoreDestination, SetAside, RestoreSource, RecordFailure, HandlerFails, Crash,
       OrphanWrites, At, ToHandler, TypeOK
  <2> QED BY <1>2, <2>1 DEF FlagStep, Reported
<1>4. disk'[r] # None => /\ disk'[r].sourceSaved => record'[r].sourceSaved
                         /\ disk'[r].destSaved => record'[r].destSaved
                         /\ disk'[r].published => record'[r].published
  <2>1. CASE disk'[r] = disk[r]
    BY <1>2, <2>1 DEF FlagStep, Reported
  <2>2. CASE disk'[r] = record'[r]
    BY <2>2
  <2> QED BY <1>2, <2>1, <2>2 DEF FlagStep
<1>5. pc'[r] \in Body \cup {"installed"} =>
        /\ record'[r].sourceSaved \/ pc'[r] = "source moved" => tree'[PreviousSource(r)] # NoTree
        /\ record'[r].destSaved \/ pc'[r] = "withdrawn" => tree'[PreviousDestination(r)] # NoTree
  BY <1>1, BackupsReported
<1>6. /\ tree'[Stage(r)].by \in {r, None}
      /\ pc'[r] \in {"check", "copy"} => tree'[Source].by = r
      /\ pc'[r] \in {"adapt", "check adapted", "withdraw", "withdrawn", "publish"} =>
           tree'[Stage(r)].by = r
  BY <1>1, OutputReported
<1>7. record'[r].published \/ pc'[r] = "moved in" => Kept(r)'
  BY PublicationReported
<1> QED BY <1>3, <1>4, <1>5, <1>6, <1>7 DEF Reported, Exists, Kept, Stage, PreviousSource, PreviousDestination, Source

\* The calls that do not.
LEMMA ReportedRests ==
  ASSUME PublicationInv, [Next]_vars, NEW r \in Call, NEW x \in Call, x # r, Steps(r), Reported(x)
  PROVE  Reported(x)'
<1>1. TypeOK /\ Inv /\ pc[r] # "orphaned"
  BY DEF PublicationInv, Inv
<1>2. /\ pc'[x] = pc[x] /\ tree'[Stage(x)] = tree[Stage(x)]
      /\ tree'[PreviousSource(x)] = tree[PreviousSource(x)]
      /\ tree'[PreviousDestination(x)] = tree[PreviousDestination(x)]
  BY <1>1, OwnPlaces
<1>3. record'[x] = record[x] /\ disk'[x] = disk[x]
  BY <1>1, FlagSteps DEF FlagStep
<1>4. pc[x] \in Body \cup Handler => tree' = tree
  BY <1>1, OthersWait DEF OrphanWrites, At
<1>5. pc[x] \in {"check", "copy"} => tree'[Source].by = x
  BY <1>4 DEF Reported, Body
<1>6. record[x].published \/ pc[x] = "moved in" => Kept(x)'
  BY <1>1, KeptStep DEF Kept, Reported
<1> QED BY <1>2, <1>3, <1>5, <1>6 DEF Reported, Exists, Kept

\* At first no record says anything.
LEMMA InitReport == Init => ReportInv
<1> SUFFICES ASSUME Init PROVE ReportInv
  OBVIOUS
<1>1. ASSUME NEW r \in Call PROVE Reported(r)
  <2>1. /\ pc[r] = "begin" /\ record[r] = NewRecord /\ disk[r] = None /\ tree[Stage(r)] = NoTree
    BY InitDirectories
  <2> QED BY <2>1 DEF Reported, NewRecord, NoTree
<1> QED BY <1>1, InitPublication DEF ReportInv

\* Every step keeps every record behind the renames.
LEMMA ReportStep ==
  ASSUME ~ Orphans, ReportInv, [Next]_vars
  PROVE  ReportInv'
<1>1. PublicationInv'
  BY PublicationStep DEF ReportInv
<1>2. ASSUME NEW x \in Call PROVE Reported(x)'
  <2>1. ASSUME NEW r \in Call, Steps(r) PROVE Reported(x)'
    BY <2>1, ReportedActs, ReportedRests DEF ReportInv
  <2>2. CASE EditConfig
    BY <2>2 DEF EditConfig, ReportInv, Reported, Exists, Publishable
  <2>3. CASE UNCHANGED vars
    BY <2>3 DEF vars, ReportInv, Reported, Exists, Publishable
  <2> QED BY <2>1, <2>2, <2>3, StepsAre
<1> QED BY <1>1, <1>2 DEF ReportInv

\* If no generator outlives its call, transaction.json is never ahead of the
\* directories, however a save or a call ends: a backup it reports is where it
\* says, and what it reports published is a publishable tree that no later call
\* has lost (the rename before the flag, the flag before the save).
THEOREM RecordNeverAhead == ASSUME ~ Orphans PROVE Spec => []RecordIsNeverAhead
<1>1. ReportInv => RecordIsNeverAhead
  <2> SUFFICES ASSUME ReportInv, NEW r \in Call, disk[r] # None
               PROVE  /\ disk[r].sourceSaved /\ pc[r] \in Body \cup {"installed"} => Exists(PreviousSource(r))
                      /\ disk[r].destSaved /\ pc[r] \in Body \cup {"installed"} =>
                           Exists(PreviousDestination(r))
                      /\ disk[r].published => \E p \in Path : tree[p].by = r /\ Publishable(tree[p])
    BY DEF RecordIsNeverAhead
  <2>1. Reported(r)
    BY DEF ReportInv
  <2> QED BY <2>1 DEF Reported
<1>2. ReportInv /\ [Next]_vars => ReportInv'
  BY ReportStep
<1> QED BY <1>1, <1>2, InitReport, PTL DEF Spec

-----------------------------------------------------------------------------
(* What a failure restores.                                                *)

\* Where the tree at each place comes from: a step of a call writes its own
\* name, carries a tree from one of its places to another or leaves it.
LEMMA Makers ==
  ASSUME TypeOK, NEW r \in Call, Steps(r)
  PROVE  /\ tree'[Destination].by \in {None, tree[Destination].by, tree[PreviousDestination(r)].by}
            \/ (Publish(r) /\ tree'[Destination].by = tree[Stage(r)].by)
         /\ tree'[PreviousSource(r)].by \in {None, tree[PreviousSource(r)].by}
            \/ (MoveSource(r) /\ tree'[PreviousSource(r)].by = tree[Source].by)
         /\ tree'[PreviousDestination(r)].by
              \in {None, tree[PreviousDestination(r)].by, tree[Destination].by}
         /\ tree'[Stage(r)].by \in {None, tree[Stage(r)].by, tree[Source].by}
         /\ tree'[Source].by \in {None, tree[Source].by}
            \/ ((Generate(r) \/ OrphanWrites(r)) /\ tree'[Source].by = r)
            \/ (RestoreSource(r) /\ tree'[Source].by = tree[PreviousSource(r)].by)
         /\ \A p \in Path : \/ tree'[p].by = None
                            \/ (Generate(r) \/ OrphanWrites(r)) /\ tree'[p].by = r
                            \/ \E q \in Path : tree[q].by = tree'[p].by
<1>1. /\ Source \in Path /\ Destination \in Path /\ PreviousSource(r) \in Path
      /\ PreviousDestination(r) \in Path /\ Stage(r) \in Path /\ FailedOutput(r) \in Path
      /\ NoTree.by = None /\ r # None
  BY PathFacts, CallAssumption DEF NoTree
<1>2. CASE Quiet(r)
  <2>1. tree' = tree
    BY <1>2, QuietStep
  <2> QED BY <2>1
<1>3. ASSUME NEW p \in Path, NEW q \in Path, Moving(r, p, q)
      PROVE  \A y \in Path : tree'[y].by = None \/ \E z \in Path : tree[z].by = tree'[y].by
  <2>1. (Move(p, q) \/ tree' = tree) /\ p # q
    BY <1>3, MovingStep
  <2>2. CASE Move(p, q)
    <3>1. /\ tree'[q] = tree[p] /\ tree'[p] = NoTree
          /\ \A x \in Path \ {p, q} : tree'[x] = tree[x]
      BY <2>1, <2>2, MoveFacts
    <3> QED BY <1>1, <3>1
  <2>3. CASE tree' = tree
    BY <2>3
  <2> QED BY <2>1, <2>2, <2>3
<1>4. CASE MoveSource(r)
  <2>1. Move(Source, PreviousSource(r)) \/ tree' = tree
    BY <1>4 DEF MoveSource
  <2>2. /\ tree'[Source].by \in {None, tree[Source].by}
        /\ tree'[PreviousSource(r)].by \in {tree[Source].by, tree[PreviousSource(r)].by}
    BY <1>1, <2>1, MoveFacts, PathFacts
  <2>3. Moving(r, Source, PreviousSource(r))
    BY <1>4 DEF Moving
  <2>4. \A y \in Path : tree'[y].by = None \/ \E z \in Path : tree[z].by = tree'[y].by
    BY <1>1, <1>3, <2>3
  <2>5. ~ (Withdraw(r) \/ Publish(r) \/ RestoreDestination(r) \/ CopyTree(r) \/ Adapt(r))
    BY <1>4 DEF MoveSource, Withdraw, Publish, RestoreDestination, CopyTree, Adapt, At
  <2> QED BY <1>4, <2>2, <2>4, <2>5, PlaceSteps
<1>5. CASE Withdraw(r)
  <2>1. Move(Destination, PreviousDestination(r)) \/ tree' = tree
    BY <1>5 DEF Withdraw, KeepOldModel
  <2>2. /\ tree'[Destination].by \in {None, tree[Destination].by}
        /\ tree'[PreviousDestination(r)].by \in {tree[Destination].by, tree[PreviousDestination(r)].by}
    BY <1>1, <2>1, MoveFacts, PathFacts
  <2>3. Moving(r, Destination, PreviousDestination(r))
    BY <1>5 DEF Moving
  <2>4. \A y \in Path : tree'[y].by = None \/ \E z \in Path : tree[z].by = tree'[y].by
    BY <1>1, <1>3, <2>3
  <2>5. ~ (MoveSource(r) \/ RestoreSource(r) \/ Publish(r) \/ CopyTree(r) \/ Adapt(r) \/ Generate(r)
           \/ OrphanWrites(r) \/ SetAside(r))
    BY <1>5 DEF MoveSource, Withdraw, Publish, RestoreSource, CopyTree, Adapt, At, Generate, OrphanWrites, SetAside
  <2> QED BY <1>5, <2>2, <2>4, <2>5, PlaceSteps
<1>6. CASE Publish(r)
  <2>1. Move(Stage(r), Destination)
    BY <1>6 DEF Publish
  <2>2. tree'[Destination] = tree[Stage(r)] /\ tree'[Stage(r)].by = None
    BY <1>1, <2>1, MoveFacts, PathFacts
  <2>3. Moving(r, Stage(r), Destination)
    BY <1>6 DEF Moving
  <2>4. \A y \in Path : tree'[y].by = None \/ \E z \in Path : tree[z].by = tree'[y].by
    BY <1>1, <1>3, <2>3
  <2>5. ~ (MoveSource(r) \/ RestoreSource(r) \/ Withdraw(r) \/ RestoreDestination(r) \/ Generate(r)
           \/ OrphanWrites(r) \/ SetAside(r))
    BY <1>6 DEF MoveSource, Withdraw, Publish, RestoreSource, RestoreDestination, At, Generate, OrphanWrites, SetAside
  <2> QED BY <1>6, <2>2, <2>4, <2>5, PlaceSteps
<1>7. CASE RestoreDestination(r)
  <2>1. Move(PreviousDestination(r), Destination) \/ tree' = tree
    BY <1>7 DEF RestoreDestination
  <2>2. /\ tree'[PreviousDestination(r)].by \in {None, tree[PreviousDestination(r)].by}
        /\ tree'[Destination].by \in {tree[Destination].by, tree[PreviousDestination(r)].by}
    BY <1>1, <2>1, MoveFacts, PathFacts
  <2>3. Moving(r, PreviousDestination(r), Destination)
    BY <1>7 DEF Moving
  <2>4. \A y \in Path : tree'[y].by = None \/ \E z \in Path : tree[z].by = tree'[y].by
    BY <1>1, <1>3, <2>3
  <2>5. ~ (MoveSource(r) \/ RestoreSource(r) \/ Withdraw(r) \/ Publish(r) \/ Generate(r)
           \/ OrphanWrites(r) \/ SetAside(r) \/ CopyTree(r) \/ Adapt(r))
    BY <1>7 DEF MoveSource, Withdraw, Publish, RestoreSource, RestoreDestination, At, Generate, OrphanWrites,
       SetAside, CopyTree, Adapt
  <2> QED BY <1>7, <2>2, <2>4, <2>5, PlaceSteps
<1>8. CASE SetAside(r)
  <2>1. Move(Source, FailedOutput(r)) \/ tree' = tree
    BY <1>8 DEF SetAside, KeepOutput
  <2>2. tree'[Source].by \in {None, tree[Source].by}
    BY <1>1, <2>1, MoveFacts, PathFacts
  <2>3. Moving(r, Source, FailedOutput(r))
    BY <1>8 DEF Moving
  <2>4. \A y \in Path : tree'[y].by = None \/ \E z \in Path : tree[z].by = tree'[y].by
    BY <1>1, <1>3, <2>3
  <2>5. ~ (MoveSource(r) \/ RestoreSource(r) \/ Withdraw(r) \/ Publish(r) \/ RestoreDestination(r)
           \/ CopyTree(r) \/ Adapt(r))
    BY <1>8 DEF MoveSource, Withdraw, Publish, RestoreSource, RestoreDestination, At, SetAside, CopyTree, Adapt
  <2> QED BY <1>8, <2>2, <2>4, <2>5, PlaceSteps
<1>9. CASE RestoreSource(r)
  <2>1. Move(PreviousSource(r), Source) \/ tree' = tree
    BY <1>9 DEF RestoreSource
  <2>2. /\ tree'[Source].by \in {tree[PreviousSource(r)].by, tree[Source].by}
        /\ tree'[PreviousSource(r)].by \in {None, tree[PreviousSource(r)].by}
    BY <1>1, <2>1, MoveFacts, PathFacts
  <2>3. Moving(r, PreviousSource(r), Source)
    BY <1>9 DEF Moving
  <2>4. \A y \in Path : tree'[y].by = None \/ \E z \in Path : tree[z].by = tree'[y].by
    BY <1>1, <1>3, <2>3
  <2>5. ~ (MoveSource(r) \/ Withdraw(r) \/ Publish(r) \/ RestoreDestination(r) \/ CopyTree(r) \/ Adapt(r))
    BY <1>9 DEF MoveSource, Withdraw, Publish, RestoreSource, RestoreDestination, At, CopyTree, Adapt
  <2> QED BY <1>9, <2>2, <2>4, <2>5, PlaceSteps
<1>10. CASE Generate(r) \/ OrphanWrites(r)
  <2>1. tree'[Source].by = r
    BY <1>1, <1>10 DEF Generate, OrphanWrites, TypeOK
  <2>2. \A y \in Path \ {Source} : tree'[y] = tree[y]
    BY <1>10 DEF Generate, OrphanWrites, TypeOK
  <2> QED BY <1>1, <1>10, <2>1, <2>2, PathFacts
<1>11. CASE CopyTree(r)
  <2>1. PICK state \in {"copying", tree[Source].state} :
          tree' = [tree EXCEPT ![Stage(r)] = [tree[Source] EXCEPT !.state = state]]
    BY <1>11 DEF CopyTree
  <2>2. tree'[Stage(r)].by = tree[Source].by
    BY <1>1, <2>1 DEF TypeOK, Tree
  <2>3. \A y \in Path \ {Stage(r)} : tree'[y] = tree[y]
    BY <1>11 DEF CopyTree, TypeOK
  <2> QED BY <1>1, <2>2, <2>3, PathFacts
<1>12. CASE Adapt(r)
  <2>1. PICK state \in {"copying", "adapted"} :
          tree' = [tree EXCEPT ![Stage(r)] = [@ EXCEPT !.state = state, !.shipped = config]]
    BY <1>12 DEF Adapt
  <2>2. tree'[Stage(r)].by = tree[Stage(r)].by
    BY <1>1, <2>1 DEF TypeOK, Tree
  <2>3. \A y \in Path \ {Stage(r)} : tree'[y] = tree[y]
    BY <1>12 DEF Adapt, TypeOK
  <2> QED BY <1>1, <2>2, <2>3, PathFacts
<1> QED BY <1>2, <1>4, <1>5, <1>6, <1>7, <1>8, <1>9, <1>10, <1>11, <1>12 DEF Steps, Forward, Backward, Quiet

\* Without interrupts a call that is not decided after a step was not before it,
\* or has just begun; the handler's statements follow each other.
LEMMA UndecidedSteps ==
  ASSUME TypeOK, ~ Interrupts, NEW r \in Call, Steps(r), Undecided(r)'
  PROVE  /\ ~ Publish(r)
         /\ Begin(r) \/ Undecided(r)
         /\ pc'[r] \in Body \cup {"restore destination"} => pc[r] \in Body \cup {"begin"}
         /\ pc'[r] = "set aside" => RestoreDestination(r)
         /\ pc'[r] = "restore source" => SetAside(r)
         /\ pc'[r] = "record failure" => RestoreSource(r)
         /\ pc'[r] = "failed" => RecordFailure(r)
<1>1. ~ record'[r].published /\ pc'[r] \in (Body \ {"moved in"}) \cup Handler \cup {"failed"}
  BY DEF Undecided
<1>2. ~ Publish(r)
  BY <1>1 DEF Publish, At, TypeOK, Handler
<1>3. ~ MovedIn(r)
  <2> SUFFICES ASSUME MovedIn(r) PROVE FALSE
    OBVIOUS
  <2>1. record' = [record EXCEPT ![r] = [record[r] EXCEPT !.published = TRUE, !.status = "installed"]]
    BY DEF MovedIn, TypeOK, Flags
  <2>2. record'[r] = [record[r] EXCEPT !.published = TRUE, !.status = "installed"]
    BY <2>1 DEF TypeOK
  <2>3. record'[r].published
    BY <2>2 DEF TypeOK, Flags
  <2> QED BY <1>1, <2>3
<1>4. ~ (Interrupt(r) \/ HandlerFails(r) \/ Crash(r) \/ OrphanWrites(r) \/ Refuse(r))
  BY <1>1 DEF Interrupt, HandlerFails, Crash, OrphanWrites, Refuse, At, TypeOK, Body, Handler
<1>5. ~ record[r].published
  BY <1>1, FlagSteps DEF FlagStep
<1>6. Begin(r) \/ Undecided(r)
  <2>1. Begin(r) \/ pc[r] \in (Body \ {"moved in"}) \cup Handler
    BY <1>2, <1>3, <1>4 DEF Steps, Forward, Backward, MoveSource, SourceMoved, Configure, Generate, CheckGenerated,
       CopyTree, Adapt, CheckAdapted, Withdraw, Withdrawn, Fail,
       RestoreDestination, SetAside, RestoreSource, RecordFailure, At, Body, Handler
  <2> QED BY <1>5, <2>1 DEF Undecided
<1>7. /\ ToHandler(r) => pc'[r] = "restore destination"
  BY <1>1 DEF ToHandler, TypeOK
<1>8. CASE Forward(r) \/ Fail(r)
  <2>1. pc'[r] \in Body \cup {"restore destination"} /\ pc[r] \in Body \cup {"begin"}
    BY <1>2, <1>3, <1>4, <1>7, <1>8 DEF Forward, Begin, MoveSource, SourceMoved, Configure, Generate,
       CheckGenerated, CopyTree, Adapt, CheckAdapted, Withdraw, Withdrawn, Fail, At, Body, TypeOK
  <2> QED BY <1>2, <1>6, <2>1 DEF Body
<1>9. CASE RestoreDestination(r)
  BY <1>2, <1>6, <1>9 DEF RestoreDestination, At, TypeOK, Body
<1>10. CASE SetAside(r)
  BY <1>2, <1>6, <1>10 DEF SetAside, At, TypeOK, Body
<1>11. CASE RestoreSource(r)
  BY <1>2, <1>6, <1>11 DEF RestoreSource, At, TypeOK, Body
<1>12. CASE RecordFailure(r)
  BY <1>2, <1>6, <1>12 DEF RecordFailure, At, TypeOK, Body
<1> QED BY <1>4, <1>8, <1>9, <1>10, <1>11, <1>12 DEF Steps, Backward

\* The call that acts keeps what its flags say of where it is.
LEMMA FlaggedActs ==
  ASSUME TypeOK, NEW r \in Call, Steps(r), Flagged(r)
  PROVE  Flagged(r)'
<1> DEFINE Early == {"begin", "refused"}
           NotYet == {"begin", "refused", "move source", "source moved", "configure"}
           Since == {"generate", "check", "copy", "adapt", "check adapted", "withdraw", "withdrawn",
                     "publish", "moved in", "orphaned"}
<1>1. FlagStep(r, r)
  BY FlagSteps
<1>2. /\ pc'[r] \in Early => pc[r] \in Early
      /\ pc'[r] \in NotYet => pc[r] \in NotYet \ {"configure"}
      /\ pc'[r] \in Since => pc[r] \in Since \/ Configure(r)
  <2>1. CASE Forward(r)
    BY <2>1 DEF Forward, Begin, Refuse, MoveSource, SourceMoved, Configure, Generate,
       CheckGenerated, CopyTree, Adapt, CheckAdapted, Withdraw, Withdrawn, Publish, MovedIn,
       At, ToHandler, TypeOK
  <2>2. CASE Backward(r)
    BY <2>2 DEF Backward, Fail, Interrupt, RestoreDestination, SetAside, RestoreSource, RecordFailure,
       HandlerFails, Crash, OrphanWrites, At, ToHandler, TypeOK
  <2> QED BY <2>1, <2>2 DEF Steps
<1>3. Configure(r) => record'[r].generating
  <2> SUFFICES ASSUME Configure(r) PROVE record'[r].generating
    OBVIOUS
  <2>1. record' = [record EXCEPT ![r] = [record[r] EXCEPT !.generating = TRUE]]
    BY DEF Configure, Remember, TypeOK, Flags
  <2>2. record'[r] = [record[r] EXCEPT !.generating = TRUE]
    BY <2>1 DEF TypeOK
  <2> QED BY <2>2 DEF TypeOK, Flags
<1>4. pc'[r] \in Early => ~ record'[r].sourceSaved /\ ~ record'[r].destSaved /\ ~ record'[r].published
  BY <1>1, <1>2 DEF Flagged, FlagStep
<1>5. pc'[r] \in NotYet => ~ record'[r].generating
  BY <1>1, <1>2 DEF Flagged, FlagStep
<1>6. pc'[r] \in Since => record'[r].generating
  BY <1>1, <1>2, <1>3 DEF Flagged, FlagStep
<1>7. ~ record'[r].generating => \A p \in Path : tree'[p].by # r
  <2> SUFFICES ASSUME ~ record'[r].generating, NEW p \in Path, tree'[p].by = r
               PROVE  FALSE
    OBVIOUS
  <2>1. ~ record[r].generating
    BY <1>1 DEF FlagStep
  <2>2. ~ (Generate(r) \/ OrphanWrites(r))
    BY <2>1 DEF Flagged, Generate, OrphanWrites, At
  <2>3. \E q \in Path : tree[q].by = r
    BY <2>2, Makers, CallAssumption
  <2> QED BY <2>1, <2>3 DEF Flagged
<1> QED BY <1>4, <1>5, <1>6, <1>7 DEF Flagged

\* The call that acts: nothing it has made can reach a published name before it
\* publishes.
LEMMA OutputApartActs ==
  ASSUME TypeOK, ~ Interrupts, NEW r \in Call, Steps(r), Flagged(r), OutputApart(r)
  PROVE  OutputApart(r)'
<1> SUFFICES ASSUME Undecided(r)'
             PROVE  /\ tree'[Destination].by # r
                    /\ \A x \in Call : /\ tree'[PreviousSource(x)].by # r
                                       /\ tree'[PreviousDestination(x)].by # r
                                       /\ x # r => tree'[Stage(x)].by # r
                    /\ pc'[r] \in {"restore source", "record failure", "failed"} => tree'[Source].by # r
  BY DEF OutputApart, Destination, PreviousSource, PreviousDestination, Stage, Source
<1>1. ~ Publish(r) /\ (Begin(r) \/ Undecided(r))
  BY UndecidedSteps
<1>2. /\ tree[Destination].by # r
      /\ \A x \in Call : /\ tree[PreviousSource(x)].by # r /\ tree[PreviousDestination(x)].by # r
                         /\ x # r => tree[Stage(x)].by # r
  <2>1. CASE Begin(r)
    <3>1. ~ record[r].generating
      BY <2>1 DEF Begin, At, Flagged
    <3> QED BY <3>1, PathFacts DEF Flagged
  <2> QED BY <1>1, <2>1 DEF OutputApart
<1>3. r # None
  BY CallAssumption
<1>4. MoveSource(r) => tree[Source].by # r
  BY PathFacts DEF MoveSource, At, Flagged
<1>5. tree'[Destination].by # r
  BY <1>1, <1>2, <1>3, Makers
<1>6. ASSUME NEW x \in Call PROVE tree'[PreviousSource(x)].by # r /\ tree'[PreviousDestination(x)].by # r
                                  /\ (x # r => tree'[Stage(x)].by # r)
  <2>1. CASE x = r
    BY <1>2, <1>3, <1>4, <2>1, Makers
  <2>2. CASE x # r
    BY <1>2, <2>2, OwnPlaces
  <2> QED BY <2>1, <2>2
<1>7. ASSUME pc'[r] = "restore source" PROVE tree'[Source].by # r
  <2>1. SetAside(r)
    BY <1>7, UndecidedSteps
  <2>2. CASE record[r].generating /\ Exists(Source)
    <3>1. tree'[Source] = NoTree
      BY <2>1, <2>2, MoveFacts, PathFacts DEF SetAside, KeepOutput
    <3> QED BY <1>3, <3>1 DEF NoTree
  <2>3. CASE ~ (record[r].generating /\ Exists(Source))
    <3>1. tree' = tree
      BY <2>1, <2>3 DEF SetAside
    <3>2. CASE ~ record[r].generating
      BY <3>1, <3>2, PathFacts DEF Flagged
    <3>3. CASE ~ Exists(Source)
      BY <1>3, <3>1, <3>3 DEF Exists, NoTree
    <3> QED BY <2>3, <3>2, <3>3
  <2> QED BY <2>2, <2>3
<1>8. ASSUME pc'[r] = "record failure" PROVE tree'[Source].by # r
  <2>1. RestoreSource(r) /\ pc[r] = "restore source"
    BY <1>8, UndecidedSteps DEF RestoreSource, At
  <2>2. ~ (Generate(r) \/ OrphanWrites(r) \/ Begin(r))
    BY <2>1 DEF Generate, OrphanWrites, Begin, At
  <2>3. tree[Source].by # r
    BY <1>1, <2>1, <2>2 DEF OutputApart
  <2> QED BY <1>2, <1>3, <2>2, <2>3, Makers
<1>9. ASSUME pc'[r] = "failed" PROVE tree'[Source].by # r
  <2>1. RecordFailure(r) /\ pc[r] = "record failure"
    BY <1>9, UndecidedSteps DEF RecordFailure, At
  <2>2. ~ Begin(r) /\ tree' = tree
    BY <2>1 DEF Begin, At, RecordFailure
  <2> QED BY <1>1, <2>1, <2>2 DEF OutputApart
<1> QED BY <1>5, <1>6, <1>7, <1>8, <1>9

\* The call that acts: the handler returns what the flags remember.
LEMMA BackupsReturnActs ==
  ASSUME TypeOK, ~ Interrupts, NEW r \in Call, Steps(r), Flagged(r), BackupsReturn(r)
  PROVE  BackupsReturn(r)'
<1>1. /\ Source \in Path /\ Destination \in Path
      /\ PreviousSource(r) \in Path /\ PreviousDestination(r) \in Path
      /\ Source # PreviousSource(r) /\ Destination # PreviousDestination(r)
  BY PathFacts
<1>2. FlagStep(r, r)
  BY FlagSteps
<1>3. tree'[PreviousSource(r)] # NoTree => record'[r].sourceSaved \/ pc'[r] \in {"source moved", "crashed"}
  <2> SUFFICES ASSUME tree'[PreviousSource(r)] # NoTree, ~ record'[r].sourceSaved
               PROVE  pc'[r] \in {"source moved", "crashed"}
    OBVIOUS
  <2>1. ~ record[r].sourceSaved
    BY <1>2 DEF FlagStep
  <2>2. CASE MoveSource(r) /\ Exists(Source)
    BY <2>2 DEF MoveSource, At, TypeOK
  <2>3. CASE ~ (MoveSource(r) /\ Exists(Source))
    <3>1. tree'[PreviousSource(r)] = tree[PreviousSource(r)]
      BY <2>1, <2>3, PlaceSteps DEF MoveSource, RestoreSource
    <3>2. pc[r] \in {"source moved", "crashed"}
      BY <2>1, <3>1 DEF BackupsReturn, Exists
    <3>3. SourceMoved(r) \/ Crash(r)
      BY <3>2 DEF Steps, Forward, Backward, Begin, Refuse, MoveSource, SourceMoved, Configure, Generate,
         CheckGenerated, CopyTree, Adapt, CheckAdapted, Withdraw, Withdrawn, Publish, MovedIn, Fail,
         Interrupt, RestoreDestination, SetAside, RestoreSource, RecordFailure, HandlerFails, Crash,
         OrphanWrites, At, Body, Handler
    <3>4. ~ SourceMoved(r)
      <4> SUFFICES ASSUME SourceMoved(r) PROVE FALSE
        OBVIOUS
      <4>1. record' = [record EXCEPT ![r] = [record[r] EXCEPT !.sourceSaved = TRUE]]
        BY DEF SourceMoved, Remember, TypeOK, Flags
      <4>2. record'[r] = [record[r] EXCEPT !.sourceSaved = TRUE]
        BY <4>1 DEF TypeOK
      <4>3. record'[r].sourceSaved
        BY <4>2 DEF TypeOK, Flags
      <4> QED BY <4>3
    <3>5. pc'[r] = "crashed"
      BY <3>2, <3>3, <3>4 DEF Crash, TypeOK
    <3> QED BY <3>5
  <2> QED BY <2>2, <2>3
<1>4. tree'[PreviousDestination(r)] # NoTree => record'[r].destSaved \/ pc'[r] \in {"withdrawn", "crashed"}
  <2> SUFFICES ASSUME tree'[PreviousDestination(r)] # NoTree, ~ record'[r].destSaved
               PROVE  pc'[r] \in {"withdrawn", "crashed"}
    OBVIOUS
  <2>1. ~ record[r].destSaved
    BY <1>2 DEF FlagStep
  <2>2. CASE Withdraw(r) /\ Exists(Destination)
    BY <2>2 DEF Withdraw, At, TypeOK
  <2>3. CASE ~ (Withdraw(r) /\ Exists(Destination))
    <3>1. tree'[PreviousDestination(r)] = tree[PreviousDestination(r)]
      BY <2>1, <2>3, PlaceSteps DEF Withdraw, RestoreDestination, MayRestoreDestination
    <3>2. pc[r] \in {"withdrawn", "crashed"}
      BY <2>1, <3>1 DEF BackupsReturn, Exists
    <3>3. Withdrawn(r) \/ Crash(r)
      BY <3>2 DEF Steps, Forward, Backward, Begin, Refuse, MoveSource, SourceMoved, Configure, Generate,
         CheckGenerated, CopyTree, Adapt, CheckAdapted, Withdraw, Withdrawn, Publish, MovedIn, Fail,
         Interrupt, RestoreDestination, SetAside, RestoreSource, RecordFailure, HandlerFails, Crash,
         OrphanWrites, At, Body, Handler
    <3>4. ~ Withdrawn(r)
      <4> SUFFICES ASSUME Withdrawn(r) PROVE FALSE
        OBVIOUS
      <4>1. record' = [record EXCEPT ![r] = [record[r] EXCEPT !.destSaved = TRUE]]
        BY DEF Withdrawn, Remember, TypeOK, Flags
      <4>2. record'[r] = [record[r] EXCEPT !.destSaved = TRUE]
        BY <4>1 DEF TypeOK
      <4>3. record'[r].destSaved
        BY <4>2 DEF TypeOK, Flags
      <4> QED BY <4>3
    <3>5. pc'[r] = "crashed"
      BY <3>2, <3>3, <3>4 DEF Crash, TypeOK
    <3> QED BY <3>5
  <2> QED BY <2>2, <2>3
<1>5. ASSUME Undecided(r)', pc'[r] \in Body \cup {"restore destination"}, tree'[PreviousDestination(r)] # NoTree
      PROVE  tree'[Destination] = NoTree
  <2>1. /\ pc[r] \in Body \cup {"begin"} /\ ~ Publish(r) /\ (Begin(r) \/ Undecided(r))
    BY <1>5, UndecidedSteps
  <2>2. ~ RestoreDestination(r)
    BY <2>1 DEF RestoreDestination, At, Body
  <2>3. CASE Withdraw(r) /\ Exists(Destination)
    BY <1>1, <2>3, MoveFacts DEF Withdraw, KeepOldModel
  <2>4. CASE Withdraw(r) /\ ~ Exists(Destination)
    BY <2>4 DEF Withdraw, Exists
  <2>5. CASE ~ Withdraw(r)
    <3>1. /\ tree'[Destination] = tree[Destination]
          /\ tree'[PreviousDestination(r)] = tree[PreviousDestination(r)]
      BY <2>1, <2>2, <2>5, PlaceSteps
    <3>2. ~ Begin(r)
      BY <1>5, <3>1 DEF Begin, At, Flagged, BackupsReturn, Exists
    <3>3. pc[r] \in Body /\ Undecided(r)
      BY <2>1, <3>2 DEF Undecided, Body, Handler
    <3> QED BY <1>5, <3>1, <3>3 DEF BackupsReturn, Exists
  <2> QED BY <2>3, <2>4, <2>5
<1>6. ASSUME Undecided(r)', pc'[r] \in {"set aside", "restore source", "record failure", "failed"}
      PROVE  tree'[PreviousDestination(r)] = NoTree
  <2>1. CASE pc'[r] = "set aside"
    <3>1. RestoreDestination(r) /\ pc[r] = "restore destination" /\ (Begin(r) \/ Undecided(r))
      BY <1>6, <2>1, UndecidedSteps DEF RestoreDestination, At
    <3>2. Undecided(r)
      BY <3>1 DEF Begin, At
    <3>3. CASE MayRestoreDestination(r)
      BY <1>1, <3>1, <3>3, MoveFacts DEF RestoreDestination
    <3>4. CASE ~ MayRestoreDestination(r)
      <4>1. tree' = tree
        BY <3>1, <3>4 DEF RestoreDestination
      <4>2. CASE ~ record[r].destSaved
        BY <3>1, <4>1, <4>2 DEF BackupsReturn, Exists
      <4>3. CASE Exists(Destination)
        BY <3>1, <3>2, <4>1, <4>3 DEF BackupsReturn, Exists
      <4> QED BY <3>4, <4>2, <4>3 DEF MayRestoreDestination
    <3> QED BY <3>3, <3>4
  <2>2. CASE pc'[r] # "set aside"
    <3>1. SetAside(r) \/ RestoreSource(r) \/ RecordFailure(r)
      BY <1>6, <2>2, UndecidedSteps
    <3>2. /\ pc[r] \in {"set aside", "restore source", "record failure"}
          /\ ~ Begin(r) /\ ~ Withdraw(r) /\ ~ RestoreDestination(r)
      BY <3>1 DEF SetAside, RestoreSource, RecordFailure, Begin, Withdraw, RestoreDestination, At
    <3>3. Undecided(r)
      BY <1>6, <3>2, UndecidedSteps
    <3>4. tree'[PreviousDestination(r)] = tree[PreviousDestination(r)]
      BY <3>2, PlaceSteps
    <3> QED BY <3>2, <3>3, <3>4 DEF BackupsReturn, Exists
  <2> QED BY <2>1, <2>2
<1>7. ASSUME Undecided(r)', pc'[r] \in {"record failure", "failed"}
      PROVE  tree'[PreviousSource(r)] = NoTree
  <2>1. CASE pc'[r] = "record failure"
    <3>1. RestoreSource(r) /\ pc[r] = "restore source"
      BY <1>7, <2>1, UndecidedSteps DEF RestoreSource, At
    <3>2. CASE record[r].sourceSaved
      BY <1>1, <3>1, <3>2, MoveFacts DEF RestoreSource
    <3>3. CASE ~ record[r].sourceSaved
      BY <3>1, <3>3 DEF RestoreSource, BackupsReturn, Exists
    <3> QED BY <3>2, <3>3
  <2>2. CASE pc'[r] = "failed"
    <3>1. RecordFailure(r) /\ pc[r] = "record failure" /\ (Begin(r) \/ Undecided(r))
      BY <1>7, <2>2, UndecidedSteps DEF RecordFailure, At
    <3>2. Undecided(r) /\ tree' = tree
      BY <3>1 DEF RecordFailure, Begin, At
    <3> QED BY <3>1, <3>2 DEF BackupsReturn, Exists
  <2> QED BY <1>7, <2>1, <2>2
<1> QED BY <1>3, <1>4, <1>5, <1>6, <1>7 DEF BackupsReturn, Exists, PreviousSource, PreviousDestination, Destination

\* The calls that do not: a call at work has the names to itself, and what a
\* failed one has made stays out of the places the others rename from.
LEMMA NamesRest ==
  ASSUME TypeOK, NEW r \in Call, NEW x \in Call, x # r, Steps(r),
         Flagged(x), OutputApart(x), BackupsReturn(x)
  PROVE  Flagged(x)' /\ OutputApart(x)' /\ BackupsReturn(x)'
<1>1. /\ pc'[x] = pc[x] /\ tree'[Stage(x)] = tree[Stage(x)]
      /\ tree'[PreviousSource(x)] = tree[PreviousSource(x)]
      /\ tree'[PreviousDestination(x)] = tree[PreviousDestination(x)]
  BY OwnPlaces
<1>2. record'[x] = record[x] /\ (Undecided(x)' <=> Undecided(x))
  BY <1>1, FlagSteps DEF FlagStep, Undecided
<1>3. pc[x] \in Body \cup Handler => tree' = tree \/ OrphanWrites(r)
  BY OthersWait
<1>4. OrphanWrites(r) => \A p \in Path \ {Source} : tree'[p] = tree[p]
  BY DEF OrphanWrites, TypeOK
<1>5. x # None
  BY CallAssumption
<1>6. Flagged(x)'
  <2>1. ~ record[x].generating => \A p \in Path : tree'[p].by # x
    BY <1>5, Makers DEF Flagged
  <2> QED BY <1>1, <1>2, <2>1 DEF Flagged
<1>7. ASSUME Undecided(x), pc[x] \in Body \cup Handler
      PROVE  /\ OutputApart(x)'
             /\ tree'[Destination] = tree[Destination]
  <2>1. \A p \in Path \ {Source} : tree'[p] = tree[p]
    BY <1>3, <1>4, <1>7
  <2>2. /\ Destination \in Path \ {Source}
        /\ \A y \in Call : /\ PreviousSource(y) \in Path \ {Source}
                           /\ PreviousDestination(y) \in Path \ {Source}
                           /\ Stage(y) \in Path \ {Source}
    BY PathFacts
  <2>3. tree'[Source] = tree[Source] \/ tree'[Source].by = r
    BY <1>3, <1>7, PathFacts DEF OrphanWrites, TypeOK
  <2> QED BY <1>1, <1>2, <1>7, <2>1, <2>2, <2>3 DEF OutputApart
<1>8. ASSUME Undecided(x), pc[x] \notin Body \cup Handler
      PROVE  OutputApart(x)'
  <2>1. pc[x] = "failed"
    BY <1>8 DEF Undecided
  <2>2. /\ tree[Destination].by # x /\ tree[Source].by # x
        /\ \A y \in Call : /\ tree[PreviousSource(y)].by # x /\ tree[PreviousDestination(y)].by # x
                           /\ y # x => tree[Stage(y)].by # x
    BY <1>8, <2>1 DEF OutputApart
  <2>3. tree'[Destination].by # x /\ tree'[Source].by # x
    BY <1>5, <2>2, Makers
  <2>4. ASSUME NEW y \in Call
        PROVE  /\ tree'[PreviousSource(y)].by # x /\ tree'[PreviousDestination(y)].by # x
               /\ y # x => tree'[Stage(y)].by # x
    <3>1. CASE y = r
      BY <1>5, <2>2, <3>1, Makers
    <3>2. CASE y # r
      BY <2>2, <3>2, OwnPlaces
    <3> QED BY <3>1, <3>2
  <2> QED BY <2>3, <2>4 DEF OutputApart
<1>9. OutputApart(x)'
  BY <1>2, <1>7, <1>8 DEF OutputApart
<1>10. BackupsReturn(x)'
  <2>1. Undecided(x) /\ pc[x] \in Body \cup {"restore destination"} => tree'[Destination] = tree[Destination]
    BY <1>7 DEF Handler
  <2> QED BY <1>1, <1>2, <2>1 DEF BackupsReturn, Exists
<1> QED BY <1>6, <1>9, <1>10

\* At first no flag is set and every backup name is free.
LEMMA InitNames == Init => NamesInv
<1> SUFFICES ASSUME Init PROVE NamesInv
  OBVIOUS
<1>1. ASSUME NEW r \in Call, NEW p \in Path PROVE tree[p].by # r
  <2>1. tree[p].by \in {None, Before}
    BY PathFacts DEF Init, NoTree
  <2> QED BY <2>1, CallAssumption
<1>2. ASSUME NEW r \in Call PROVE Flagged(r) /\ OutputApart(r) /\ BackupsReturn(r)
  <2>1. /\ pc[r] = "begin" /\ record[r] = NewRecord
        /\ tree[PreviousSource(r)] = NoTree /\ tree[PreviousDestination(r)] = NoTree
    BY InitDirectories
  <2>2. ~ Undecided(r)
    BY <2>1 DEF Undecided, Body, Handler
  <2> QED BY <1>1, <2>1, <2>2 DEF Flagged, OutputApart, BackupsReturn, Exists, NewRecord
<1> QED BY <1>2, InitInv DEF NamesInv

\* Every step keeps the names and the flags of each call in agreement.
LEMMA NamesStep ==
  ASSUME ~ Interrupts, NamesInv, [Next]_vars
  PROVE  NamesInv'
<1>1. TypeOK /\ Inv'
  BY InvStep DEF NamesInv, Inv
<1>2. ASSUME NEW x \in Call PROVE Flagged(x)' /\ OutputApart(x)' /\ BackupsReturn(x)'
  <2>1. Flagged(x) /\ OutputApart(x) /\ BackupsReturn(x)
    BY DEF NamesInv
  <2>2. ASSUME Steps(x) PROVE Flagged(x)' /\ OutputApart(x)' /\ BackupsReturn(x)'
    BY <1>1, <2>1, <2>2, FlaggedActs, OutputApartActs, BackupsReturnActs
  <2>3. ASSUME NEW r \in Call, Steps(r), x # r PROVE Flagged(x)' /\ OutputApart(x)' /\ BackupsReturn(x)'
    BY <1>1, <2>1, <2>3, NamesRest
  <2>4. CASE EditConfig
    BY <2>1, <2>4 DEF EditConfig, Flagged, OutputApart, BackupsReturn, Undecided, Exists
  <2>5. CASE UNCHANGED vars
    BY <2>1, <2>5 DEF vars, Flagged, OutputApart, BackupsReturn, Undecided, Exists
  <2> QED BY <2>2, <2>3, <2>4, <2>5, StepsAre
<1> QED BY <1>1, <1>2 DEF NamesInv

\* If no interrupt falls between a rename and its flag, a call that has failed,
\* handled its failure and not published has put both names back, with none of
\* its own output under them - whatever other calls do before and after, even
\* if generators outlive their calls (the except block of replace_model).
THEOREM FailureRestores == ASSUME ~ Interrupts PROVE Spec => []FailureRestoresNames
<1>1. NamesInv => FailureRestoresNames
  <2> SUFFICES ASSUME NamesInv, NEW r \in Call, pc[r] = "failed", ~ record[r].published
               PROVE  /\ ~ Exists(PreviousSource(r)) /\ ~ Exists(PreviousDestination(r))
                      /\ tree[Source].by # r /\ tree[Destination].by # r
    BY DEF FailureRestoresNames
  <2>1. OutputApart(r) /\ BackupsReturn(r) /\ Undecided(r)
    BY DEF NamesInv, Undecided
  <2> QED BY <2>1 DEF OutputApart, BackupsReturn
<1>2. NamesInv /\ [Next]_vars => NamesInv'
  BY NamesStep
<1> QED BY <1>1, <1>2, InitNames, PTL DEF Spec
=============================================================================
