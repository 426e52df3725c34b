--------------------------- MODULE DiffTestProofs ---------------------------
(***************************************************************************)
(* Proofs about DiffTest and RuntimeEvidence for any corpora, traces,      *)
(* oversights of the comparison and numbers of invocations: what exit      *)
(* status 0 stands for, that a passing mutation matrix sees what its       *)
(* categories damage, that a sound comparison names each damage at its     *)
(* place, and that the validator accepts just the runs it should.          *)
(*                                                                         *)
(* The crux is one comparison of a trace with another as the build under   *)
(* test has it: it names the first field that differs and is not           *)
(* overlooked.  A pair that passed differs in nothing else, so whatever a  *)
(* mutation changes in it is all there is to find.                         *)
(***************************************************************************)
EXTENDS RuntimeEvidence, FiniteSetTheorems, WellFoundedInduction, TLAPS

FieldName == {"order", "instruction", "pc_before", "pc_after", "register_writes",
              "memory", "trap", "halt"}

\* The fields a mutation damages, and the two that are not of an event.
Whole == {"trace_length", "termination"}
Expected == {"pc_after", "register_writes", "trap"} \cup Whole

\* Events, lists of them, and the traces as the comparison gets them.
HasFields(e) == e = [f \in FieldName |-> e[f]]
Listed(events) ==
  /\ Len(events) \in Nat /\ events = [k \in 1..Len(events) |-> events[k]]
  /\ \A k \in 1..Len(events) : HasFields(events[k])
Shaped(t) == t = [events |-> t.events, end |-> t.end] /\ Listed(t.events)

-----------------------------------------------------------------------------
(* The comparison.                                                         *)

\* The smallest element of a nonempty set of numbers.
LEMMA LeastIs ==
  ASSUME NEW S \in SUBSET Nat, S # {}
  PROVE  Least(S) \in S /\ \A m \in S : Least(S) <= m
<1> DEFINE R == OpToRel(<, Nat)
<1>1. IsWellFoundedOn(R, Nat)
  BY NatLessThanWellFounded
<1>2. \A x, y \in Nat : x < y => <<x, y>> \in R
  BY DEF OpToRel
<1> HIDE DEF R
<1>3. PICK n \in S : \A m \in S : ~ (<<m, n>> \in R)
  BY <1>1, WFMin
<1>4. ASSUME NEW m \in S PROVE n <= m
  <2>1. n \in Nat /\ m \in Nat
    BY <1>3
  <2>2. ~ (m < n)
    BY <1>2, <1>3, <2>1
  <2> QED BY <2>1, <2>2
<1> QED BY <1>3, <1>4 DEF Least

\* A trace of the code has the shape the comparison needs.
LEMMA TraceShaped ==
  ASSUME NEW t, IsTrace(t)
  PROVE  Shaped(t) /\ \A k \in 1..Len(t.events) : IsCommitEvent(t.events[k])
<1> DEFINE S == {t.events[k] : k \in DOMAIN t.events}
<1>1. t.events \in Seq(S)
  BY DEF IsTrace
<1>2. Len(t.events) \in Nat /\ DOMAIN t.events = 1..Len(t.events)
      /\ t.events = [k \in 1..Len(t.events) |-> t.events[k]]
  <2> HIDE DEF S
  <2> QED BY <1>1
<1>3. ASSUME NEW k \in 1..Len(t.events) PROVE IsCommitEvent(t.events[k]) /\ HasFields(t.events[k])
  <2>1. IsCommitEvent(t.events[k])
    BY <1>2 DEF IsTrace
  <2>2. PICK e : e = t.events[k]
    OBVIOUS
  <2>3. e = [order |-> e.order, instruction |-> e.instruction, pc_before |-> e.pc_before,
             pc_after |-> e.pc_after, register_writes |-> e.register_writes, memory |-> e.memory,
             trap |-> e.trap, halt |-> e.halt]
    BY <2>1, <2>2 DEF IsCommitEvent
  <2>4. HasFields(e)
    BY <2>3 DEF HasFields, FieldName
  <2> QED BY <2>1, <2>2, <2>4
<1> QED BY <1>2, <1>3 DEF Shaped, Listed, IsTrace

\* The fields in their order are the fields of an event.
LEMMA FieldsAre ==
  /\ DOMAIN Fields = 1..8
  /\ \A i \in 1..8 : Fields[i] \in FieldName
  /\ \A f \in FieldName : \E i \in 1..8 : Fields[i] = f
<1>1. Fields[1] = "order" /\ Fields[2] = "instruction" /\ Fields[3] = "pc_before" /\ Fields[4] = "pc_after"
      /\ Fields[5] = "register_writes" /\ Fields[6] = "memory" /\ Fields[7] = "trap" /\ Fields[8] = "halt"
  BY DEF Fields
<1>2. DOMAIN Fields = 1..8
  BY DEF Fields
<1> QED BY <1>1, <1>2 DEF FieldName

\* Two events that differ differ in the field that is named.
LEMMA DifferingFieldIs ==
  ASSUME NEW a, NEW b, HasFields(a), HasFields(b), a # b
  PROVE  DifferingField(a, b) \in FieldName /\ a[DifferingField(a, b)] # b[DifferingField(a, b)]
<1> DEFINE F == {i \in DOMAIN Fields : a[Fields[i]] # b[Fields[i]]}
<1>1. PICK f \in FieldName : a[f] # b[f]
  BY DEF HasFields
<1>2. F # {} /\ F \in SUBSET Nat
  BY <1>1, FieldsAre
<1>3. Least(F) \in F
  <2> HIDE DEF F
  <2> QED BY <1>2, LeastIs
<1>4. DifferingField(a, b) = Fields[Least(F)]
  BY DEF DifferingField
<1> QED BY <1>3, <1>4, FieldsAre

\* The number of steps that two traces have in common.
LEMMA CommonIs ==
  ASSUME NEW l, NEW r, Len(l.events) \in Nat, Len(r.events) \in Nat
  PROVE  /\ Common(l, r) \in Nat /\ Common(l, r) <= Len(l.events) /\ Common(l, r) <= Len(r.events)
         /\ Common(l, r) = Len(l.events) \/ Common(l, r) = Len(r.events)
BY DEF Common

\* What decides when no step of the common prefix differs.
Verdict(l, r, policy) ==
  LET n == Common(l, r)
  IN  IF Len(l.events) # Len(r.events) THEN Mismatch(n, n, "trace_length")
      ELSE IF ~ TerminalMatches(l.end, r.end, policy) THEN Mismatch(n, NoStep, "termination")
      ELSE IF n = 0 THEN Mismatch(n, NoStep, "empty_trace") ELSE Mismatch(n, NoStep, "none")

\* It is the verdict on two traces whose common steps are equal.
LEMMA EqualPrefix ==
  ASSUME NEW l, NEW r, NEW policy, Len(l.events) \in Nat, Len(r.events) \in Nat,
         \A k \in 1..Common(l, r) : l.events[k] = r.events[k]
  PROVE  CompareWithPolicy(l, r, policy) = Verdict(l, r, policy)
<1>1. \A k \in 0..(Common(l, r) - 1) : k + 1 \in 1..Common(l, r)
  BY CommonIs
<1>2. DifferingSteps(l, r) = {}
  BY <1>1 DEF DifferingSteps
<1> QED BY <1>2 DEF CompareWithPolicy, Verdict

\* Otherwise the first step that differs is named, and a field of it.
LEMMA FirstDiffers ==
  ASSUME NEW l, NEW r, NEW policy, Len(l.events) \in Nat, Len(r.events) \in Nat,
         NEW k \in 1..Common(l, r), l.events[k] # r.events[k]
  PROVE  \E j \in 1..k :
           /\ l.events[j] # r.events[j]
           /\ CompareWithPolicy(l, r, policy) = Mismatch(j - 1, j - 1, DifferingField(l.events[j], r.events[j]))
<1> DEFINE D == DifferingSteps(l, r)
           n == Least(D)
<1>1. k - 1 \in D /\ D \in SUBSET Nat /\ D # {}
  <2>1. k - 1 \in 0..(Common(l, r) - 1) /\ (k - 1) + 1 = k
    BY CommonIs
  <2>2. D = {j \in 0..(Common(l, r) - 1) : l.events[j + 1] # r.events[j + 1]}
    BY DEF DifferingSteps
  <2>3. k - 1 \in D
    BY <2>1, <2>2
  <2>4. \A j \in 0..(Common(l, r) - 1) : j \in Nat
    BY CommonIs
  <2> QED BY <2>2, <2>3, <2>4
<1>2. n \in D /\ n <= k - 1
  <2> HIDE DEF D
  <2> QED BY <1>1, LeastIs
<1>3. n \in Nat /\ n + 1 \in 1..k /\ l.events[n + 1] # r.events[n + 1] /\ (n + 1) - 1 = n
  <2>1. \A m \in D : m \in 0..(Common(l, r) - 1) /\ l.events[m + 1] # r.events[m + 1]
    BY DEF DifferingSteps
  <2>2. n \in 0..(Common(l, r) - 1) /\ l.events[n + 1] # r.events[n + 1]
    BY <1>2, <2>1
  <2> HIDE DEF n
  <2> QED BY <1>2, <2>2, CommonIs
<1>4. CompareWithPolicy(l, r, policy) = Mismatch(n, n, DifferingField(l.events[n + 1], r.events[n + 1]))
  BY <1>1 DEF CompareWithPolicy
<1> HIDE DEF n
<1> QED BY <1>3, <1>4

-----------------------------------------------------------------------------
(* The comparison as this build has it.                                    *)

\* The two traces as this build looks at them.
SeenLeft(l, r) == IF overlooked = "none" THEN l ELSE Overlook(l, r)
SeenRight(l, r) ==
  IF overlooked = "trace_length" THEN [r EXCEPT !.events = SubSeq(@, 1, Common(l, r))] ELSE r

\* A prefix of a list of events.
LEMMA PrefixIs ==
  ASSUME NEW s, Listed(s), NEW n \in Nat, n <= Len(s)
  PROVE  /\ Listed(SubSeq(s, 1, n)) /\ Len(SubSeq(s, 1, n)) = n
         /\ \A k \in 1..n : SubSeq(s, 1, n)[k] = s[k]
<1> DEFINE S == {s[k] : k \in 1..Len(s)}
<1>1. s \in Seq(S)
  <2>1. Len(s) \in Nat /\ s = [k \in 1..Len(s) |-> s[k]] /\ \A k \in 1..Len(s) : s[k] \in S
    BY DEF Listed
  <2> HIDE DEF S
  <2> QED BY <2>1
<1>2. SubSeq(s, 1, n) = [k \in 1..n |-> s[k]]
  <2> HIDE DEF S
  <2>1. SubSeq(s, 1, n) = [i \in 1..(n - 1 + 1) |-> s[1 + i - 1]]
    BY <1>1 DEF Listed
  <2>2. \A i \in 1..n : 1 + i - 1 = i
    OBVIOUS
  <2>3. n - 1 + 1 = n
    OBVIOUS
  <2> QED BY <2>1, <2>2, <2>3
<1>3. Len(SubSeq(s, 1, n)) = n
  <2>1. Len([k \in 1..n |-> s[k]]) = n
    OBVIOUS
  <2> QED BY <1>2, <2>1
<1>4. \A k \in 1..n : k \in 1..Len(s)
  BY DEF Listed
<1> QED BY <1>2, <1>3, <1>4 DEF Listed

\* An oversight of a field of the event shows the right event's field.
LEMMA SeenEvents ==
  ASSUME NEW l, NEW r, Shaped(l), Shaped(r), overlooked \notin Whole
  PROVE  /\ SeenRight(l, r) = r /\ SeenLeft(l, r).end = l.end
         /\ Listed(SeenLeft(l, r).events) /\ Len(SeenLeft(l, r).events) = Len(l.events)
         /\ \A k \in 1..Len(l.events), f \in FieldName :
              SeenLeft(l, r).events[k][f] =
                IF f = overlooked /\ k \in 1..Len(r.events) THEN r.events[k][f] ELSE l.events[k][f]
<1>1. SeenRight(l, r) = r
  BY DEF SeenRight, Whole
<1>0. "none" \notin FieldName
  BY DEF FieldName
<1>2. CASE overlooked = "none"
  BY <1>0, <1>1, <1>2 DEF SeenLeft, Shaped
<1>3. CASE overlooked # "none"
  <2> DEFINE n == Len(l.events)
             e(k) == IF k \in DOMAIN r.events
                       THEN [f \in DOMAIN l.events[k] |->
                               IF f = overlooked THEN r.events[k][f] ELSE l.events[k][f]]
                       ELSE l.events[k]
             E == [k \in DOMAIN l.events |-> e(k)]
  <2>1. SeenLeft(l, r) = [l EXCEPT !.events = E]
    BY <1>3 DEF SeenLeft, Overlook, Whole
  <2>2. n \in Nat /\ DOMAIN l.events = 1..n /\ DOMAIN r.events = 1..Len(r.events)
    BY DEF Shaped, Listed
  <2>3. \A k \in 1..n : DOMAIN l.events[k] = FieldName /\ HasFields(l.events[k])
    BY DEF Shaped, Listed, HasFields
  <2>4. ASSUME NEW k \in 1..n
        PROVE  /\ HasFields(e(k))
               /\ \A f \in FieldName :
                    e(k)[f] = IF f = overlooked /\ k \in 1..Len(r.events) THEN r.events[k][f] ELSE l.events[k][f]
    BY <2>2, <2>3 DEF HasFields
  <2>5. E = [k \in 1..n |-> e(k)] /\ \A k \in 1..n : E[k] = e(k)
    BY <2>2
  <2> HIDE DEF e
  <2>6. Len(E) = n /\ Listed(E)
    <3>1. Len(E) = n
      BY <2>2, <2>5
    <3>2. E = [k \in 1..Len(E) |-> E[k]]
      BY <2>5, <3>1
    <3> HIDE DEF E, n
    <3> QED BY <2>2, <2>4, <2>5, <3>1, <3>2 DEF Listed
  <2>7. SeenLeft(l, r).events = E /\ SeenLeft(l, r).end = l.end
    BY <2>1 DEF Shaped
  <2> HIDE DEF E
  <2> QED BY <1>1, <2>4, <2>5, <2>6, <2>7
<1> QED BY <1>2, <1>3

\* An oversight of the termination, or of the length.
LEMMA SeenEnd ==
  ASSUME NEW l, NEW r, Shaped(l), Shaped(r), overlooked = "termination"
  PROVE  SeenLeft(l, r).events = l.events /\ SeenLeft(l, r).end = r.end /\ SeenRight(l, r) = r
BY DEF SeenLeft, SeenRight, Overlook, Shaped

\* An oversight of the length compares the common steps only.
LEMMA SeenLength ==
  ASSUME NEW l, NEW r, Shaped(l), Shaped(r), overlooked = "trace_length"
  PROVE  /\ Listed(SeenLeft(l, r).events) /\ Listed(SeenRight(l, r).events)
         /\ Len(SeenLeft(l, r).events) = Common(l, r) /\ Len(SeenRight(l, r).events) = Common(l, r)
<1>1. /\ Common(l, r) \in Nat /\ Common(l, r) <= Len(l.events) /\ Common(l, r) <= Len(r.events)
  BY CommonIs DEF Shaped, Listed
<1>2. /\ SeenLeft(l, r).events = SubSeq(l.events, 1, Common(l, r))
      /\ SeenRight(l, r).events = SubSeq(r.events, 1, Common(l, r))
  BY DEF SeenLeft, SeenRight, Overlook, Shaped
<1> QED BY <1>1, <1>2, PrefixIs DEF Shaped

\* What is compared.
LEMMA CompareIs ==
  ASSUME NEW l, NEW r
  PROVE  CompareTraces(l, r) = CompareWithPolicy(SeenLeft(l, r), SeenRight(l, r), args.policy)
BY DEF CompareTraces, SeenLeft, SeenRight

\* The field that is overlooked is never named.
LEMMA NeverNamed ==
  ASSUME NEW l, NEW r, Shaped(l), Shaped(r), overlooked \in Expected
  PROVE  CompareTraces(l, r).field # overlooked
<1> DEFINE a == SeenLeft(l, r)
           b == SeenRight(l, r)
           c == CompareWithPolicy(a, b, args.policy)
<1>0. Len(l.events) \in Nat /\ Len(r.events) \in Nat
  BY DEF Shaped, Listed
<1>1. Listed(a.events) /\ Listed(b.events)
  <2>1. CASE overlooked \notin Whole
    BY <2>1, SeenEvents DEF Shaped
  <2>2. CASE overlooked = "termination"
    BY <2>2, SeenEnd DEF Shaped
  <2>3. CASE overlooked = "trace_length"
    BY <2>3, SeenLength
  <2> QED BY <2>1, <2>2, <2>3 DEF Whole
<1>2. Len(a.events) \in Nat /\ Len(b.events) \in Nat
  BY <1>1 DEF Listed
<1>3. CASE \A k \in 1..Common(a, b) : a.events[k] = b.events[k]
  <2>1. c = Verdict(a, b, args.policy)
    <3> HIDE DEF a, b
    <3> QED BY <1>2, <1>3, EqualPrefix
  <2>2. /\ overlooked = "trace_length" => Len(a.events) = Len(b.events)
        /\ overlooked = "termination" => a.end = b.end
    BY SeenEnd, SeenLength
  <2> HIDE DEF a, b
  <2>3. c.field # overlooked
    BY <2>1, <2>2 DEF Verdict, Mismatch, TerminalMatches, Expected, Whole
  <2> HIDE DEF c
  <2> QED BY <2>3, CompareIs DEF a, b, c
<1>4. CASE \E k \in 1..Common(a, b) : a.events[k] # b.events[k]
  <2>1. PICK j \in 1..Common(a, b) : /\ a.events[j] # b.events[j]
                                     /\ c = Mismatch(j - 1, j - 1, DifferingField(a.events[j], b.events[j]))
    <3> HIDE DEF a, b
    <3>1. PICK k \in 1..Common(a, b) : a.events[k] # b.events[k]
      BY <1>4
    <3>2. Common(a, b) \in Nat /\ \A j \in 1..k : j \in 1..Common(a, b)
      BY <1>2, CommonIs
    <3>3. \E j \in 1..k :
            /\ a.events[j] # b.events[j]
            /\ CompareWithPolicy(a, b, args.policy)
                 = Mismatch(j - 1, j - 1, DifferingField(a.events[j], b.events[j]))
      <4> HIDE DEF c
      <4> QED BY <1>2, <3>1, FirstDiffers
    <3> QED BY <3>2, <3>3
  <2>2. j \in 1..Len(a.events) /\ j \in 1..Len(b.events)
    <3> HIDE DEF a, b
    <3> QED BY <1>2, CommonIs
  <2>3. /\ c.field \in FieldName /\ a.events[j][c.field] # b.events[j][c.field]
    <3>1. HasFields(a.events[j]) /\ HasFields(b.events[j])
      BY <1>1, <2>2 DEF Listed
    <3>2. c.field = DifferingField(a.events[j], b.events[j])
      BY <2>1 DEF Mismatch
    <3> HIDE DEF a, b, c
    <3> QED BY <2>1, <3>1, <3>2, DifferingFieldIs
  <2>4. c.field # overlooked
    <3>1. CASE overlooked \in Whole
      BY <2>3, <3>1 DEF Whole, FieldName
    <3>2. CASE overlooked \notin Whole
      <4>1. b = r /\ Len(a.events) = Len(l.events) /\ j \in 1..Len(l.events) /\ j \in 1..Len(r.events)
        BY <2>2, <3>2, SeenEvents
      <4>2. c.field = overlooked => a.events[j][c.field] = r.events[j][c.field]
        <5>1. \A k \in 1..Len(l.events), f \in FieldName :
                a.events[k][f] =
                  IF f = overlooked /\ k \in 1..Len(r.events) THEN r.events[k][f] ELSE l.events[k][f]
          BY <3>2, SeenEvents
        <5> HIDE DEF a, c
        <5> QED BY <2>3, <4>1, <5>1
      <4> QED BY <2>3, <4>1, <4>2
    <3> QED BY <3>1, <3>2
  <2> HIDE DEF c
  <2> QED BY <2>4, CompareIs DEF a, b, c
<1> HIDE DEF a, b
<1> QED BY <1>3, <1>4

\* Two events differ, as seen by a build that overlooks none of the mandatory fields.
Diff(l, r, k) == \E f \in FieldName \ {overlooked} : l.events[k][f] # r.events[k][f]

\* A step differs as seen exactly when it differs in a field that is not overlooked.
LEMMA SeenDiffers ==
  ASSUME NEW l, NEW r, Shaped(l), Shaped(r), overlooked \notin Whole
  PROVE  \A k \in 1..Common(l, r) : SeenLeft(l, r).events[k] # r.events[k] <=> Diff(l, r, k)
<1> DEFINE a == SeenLeft(l, r)
<1> SUFFICES ASSUME NEW k \in 1..Common(l, r) PROVE a.events[k] # r.events[k] <=> Diff(l, r, k)
  OBVIOUS
<1>1. k \in 1..Len(l.events) /\ k \in 1..Len(r.events)
  BY CommonIs DEF Shaped, Listed
<1>2. \A f \in FieldName : a.events[k][f] = IF f = overlooked THEN r.events[k][f] ELSE l.events[k][f]
  BY <1>1, SeenEvents
<1>3. HasFields(a.events[k]) /\ HasFields(r.events[k])
  BY <1>1, SeenEvents DEF Shaped, Listed
<1> HIDE DEF a
<1> QED BY <1>2, <1>3 DEF Diff, HasFields

\* Without a difference in the common prefix the rest decides.
LEMMA NoneDiffers ==
  ASSUME NEW l, NEW r, Shaped(l), Shaped(r), overlooked \notin Whole,
         \A k \in 1..Common(l, r) : ~ Diff(l, r, k)
  PROVE  CompareTraces(l, r) = Verdict(l, r, args.policy)
<1> DEFINE a == SeenLeft(l, r)
<1>1. /\ SeenRight(l, r) = r /\ a.end = l.end /\ Len(a.events) = Len(l.events)
      /\ Len(l.events) \in Nat /\ Len(r.events) \in Nat
  BY SeenEvents DEF Shaped, Listed
<1>2. \A k \in 1..Common(l, r) : a.events[k] = r.events[k]
  BY SeenDiffers
<1> HIDE DEF a
<1>3. Common(a, r) = Common(l, r)
  BY <1>1 DEF Common
<1>4. CompareWithPolicy(a, r, args.policy) = Verdict(a, r, args.policy)
  BY <1>1, <1>2, <1>3, EqualPrefix
<1>5. Verdict(a, r, args.policy) = Verdict(l, r, args.policy)
  BY <1>1, <1>3 DEF Verdict
<1> QED BY <1>1, <1>4, <1>5, CompareIs DEF a

\* With differences, one that has none before it is named.
LEMMA SomeDiffers ==
  ASSUME NEW l, NEW r, Shaped(l), Shaped(r), overlooked \notin Whole,
         NEW k \in 1..Common(l, r), Diff(l, r, k)
  PROVE  \E j \in 1..Common(l, r), f \in FieldName \ {overlooked} :
           /\ l.events[j][f] # r.events[j][f]
           /\ CompareTraces(l, r) = Mismatch(j - 1, j - 1, f)
<1> DEFINE a == SeenLeft(l, r)
<1>1. /\ SeenRight(l, r) = r /\ Len(a.events) = Len(l.events)
      /\ Len(l.events) \in Nat /\ Len(r.events) \in Nat /\ Listed(a.events) /\ Listed(r.events)
  BY SeenEvents DEF Shaped, Listed
<1>2. a.events[k] # r.events[k]
  BY SeenDiffers
<1>5. \A j \in 1..Len(l.events), f \in FieldName :
        a.events[j][f] = IF f = overlooked /\ j \in 1..Len(r.events) THEN r.events[j][f] ELSE l.events[j][f]
  BY SeenEvents
<1>6. CompareTraces(l, r) = CompareWithPolicy(a, r, args.policy)
  BY <1>1, CompareIs
<1> HIDE DEF a
<1>3. Common(a, r) = Common(l, r) /\ Common(l, r) \in Nat
  BY <1>1, CommonIs DEF Common
<1>4. PICK j \in 1..k :
        /\ a.events[j] # r.events[j]
        /\ CompareWithPolicy(a, r, args.policy)
             = Mismatch(j - 1, j - 1, DifferingField(a.events[j], r.events[j]))
  BY <1>1, <1>2, <1>3, FirstDiffers
<1>7. j \in 1..Common(l, r) /\ j \in 1..Len(l.events) /\ j \in 1..Len(r.events)
  BY <1>1, <1>3, CommonIs
<1>8. HasFields(a.events[j]) /\ HasFields(r.events[j])
  BY <1>1, <1>7 DEF Listed
<1>9. PICK f \in FieldName : f = DifferingField(a.events[j], r.events[j]) /\ a.events[j][f] # r.events[j][f]
  BY <1>4, <1>8, DifferingFieldIs
<1>10. f # overlooked /\ l.events[j][f] # r.events[j][f]
  BY <1>5, <1>7, <1>9
<1> QED BY <1>4, <1>6, <1>7, <1>9, <1>10

\* A pair that passed is not empty and differs in nothing but what is overlooked.
LEMMA PassedIs ==
  ASSUME NEW l, NEW r, Shaped(l), Shaped(r), overlooked \notin Whole, Passed(CompareTraces(l, r))
  PROVE  /\ Len(l.events) = Len(r.events) /\ Len(l.events) > 0
         /\ TerminalMatches(l.end, r.end, args.policy)
         /\ \A k \in 1..Len(l.events) : ~ Diff(l, r, k)
<1>0. Len(l.events) \in Nat /\ Len(r.events) \in Nat
  BY DEF Shaped, Listed
<1>1. \A k \in 1..Common(l, r) : ~ Diff(l, r, k)
  <2> SUFFICES ASSUME NEW k \in 1..Common(l, r), Diff(l, r, k) PROVE FALSE
    OBVIOUS
  <2>1. PICK f \in FieldName : CompareTraces(l, r).field = f
    <3>1. PICK j \in 1..Common(l, r), f \in FieldName \ {overlooked} :
            CompareTraces(l, r) = Mismatch(j - 1, j - 1, f)
      BY SomeDiffers
    <3> QED BY <3>1 DEF Mismatch
  <2> QED BY <2>1 DEF Passed, FieldName
<1>2. CompareTraces(l, r) = Verdict(l, r, args.policy)
  BY <1>1, NoneDiffers
<1>3. Verdict(l, r, args.policy).field = "none"
  BY <1>2 DEF Passed
<1>4. Len(l.events) = Len(r.events) /\ TerminalMatches(l.end, r.end, args.policy) /\ Common(l, r) # 0
  BY <1>3 DEF Verdict, Mismatch
<1>5. Common(l, r) = Len(l.events)
  BY <1>0, <1>4 DEF Common
<1> QED BY <1>0, <1>1, <1>4, <1>5

\* The only field of the only event that differs is named.
LEMMA OnlyOneDiffers ==
  ASSUME NEW l, NEW r, Shaped(l), Shaped(r), overlooked \notin Whole,
         Len(l.events) = Len(r.events), NEW k \in 1..Len(l.events),
         NEW f \in FieldName \ {overlooked}, l.events[k][f] # r.events[k][f],
         \A j \in 1..Len(l.events), g \in FieldName \ {overlooked} :
           l.events[j][g] # r.events[j][g] => j = k /\ g = f
  PROVE  CompareTraces(l, r) = Mismatch(k - 1, k - 1, f)
<1>1. Common(l, r) = Len(l.events)
  BY DEF Common, Shaped, Listed
<1>2. Diff(l, r, k) /\ k \in 1..Common(l, r)
  BY <1>1 DEF Diff
<1>3. PICK j \in 1..Common(l, r), g \in FieldName \ {overlooked} :
         /\ l.events[j][g] # r.events[j][g]
         /\ CompareTraces(l, r) = Mismatch(j - 1, j - 1, g)
  BY <1>2, SomeDiffers
<1>4. j = k /\ g = f
  BY <1>1, <1>3
<1> QED BY <1>3, <1>4

-----------------------------------------------------------------------------
(* The mutations.                                                          *)

EventKind == {"pc_after", "register_index", "register_value", "trap"}

\* A trace with one field of one event replaced.
With(t, k, f, v) == [t EXCEPT !.events[k][f] = v]

\* It has the shape of a trace and differs from it nowhere else.
LEMMA Replaced ==
  ASSUME NEW t, Shaped(t), NEW k \in 1..Len(t.events), NEW f \in FieldName, NEW v
  PROVE  LET d == With(t, k, f, v)
         IN  /\ Shaped(d) /\ d.end = t.end /\ Len(d.events) = Len(t.events)
             /\ \A j \in 1..Len(t.events), g \in FieldName :
                  d.events[j][g] = IF j = k /\ g = f THEN v ELSE t.events[j][g]
<1> DEFINE d == With(t, k, f, v)
           n == Len(t.events)
           e == [t.events[k] EXCEPT ![f] = v]
           E == [t.events EXCEPT ![k] = e]
<1>1. n \in Nat /\ t.events = [j \in 1..n |-> t.events[j]] /\ \A j \in 1..n : HasFields(t.events[j])
  BY DEF Shaped, Listed
<1>2. HasFields(e) /\ \A g \in FieldName : e[g] = IF g = f THEN v ELSE t.events[k][g]
  BY <1>1 DEF HasFields
<1>3. d = [events |-> E, end |-> t.end]
  BY DEF Shaped, With
<1> HIDE DEF e, d
<1>4. /\ E = [j \in 1..n |-> IF j = k THEN e ELSE t.events[j]]
      /\ \A j \in 1..n : E[j] = IF j = k THEN e ELSE t.events[j]
  BY <1>1
<1>5. Len(E) = n
  BY <1>1, <1>4
<1>6. d.events = E /\ d.end = t.end
  BY <1>3
<1>7. E = [j \in 1..n |-> E[j]]
  BY <1>4
<1> HIDE DEF E, n
<1>8. Listed(E)
  BY <1>1, <1>2, <1>4, <1>5, <1>7 DEF Listed
<1>9. Shaped(d)
  BY <1>3, <1>6, <1>8 DEF Shaped
<1>10. ASSUME NEW j \in 1..Len(t.events), NEW g \in FieldName
       PROVE  d.events[j][g] = IF j = k /\ g = f THEN v ELSE t.events[j][g]
  <2>1. j \in 1..n
    BY DEF n
  <2>2. d.events[j] = IF j = k THEN e ELSE t.events[j]
    BY <1>4, <1>6, <2>1
  <2>3. CASE j = k
    BY <1>2, <2>2, <2>3
  <2>4. CASE j # k
    BY <2>2, <2>4
  <2> QED BY <2>3, <2>4
<1> QED BY <1>5, <1>6, <1>9, <1>10 DEF n, d

\* The step of an event that is damaged is a step of the trace.
LEMMA EventIndexIs ==
  ASSUME NEW t, Shaped(t), NEW focus \in Nat, EventIndex(t, focus) # NoEvent
  PROVE  EventIndex(t, focus) + 1 \in 1..Len(t.events)
<1>1. t.events # << >>
  BY DEF EventIndex
<1>2. Len(t.events) \in Nat /\ Len(t.events) # 0
  <2>1. Len(t.events) = 0 => t.events = << >>
    BY DEF Shaped, Listed
  <2> QED BY <1>1, <2>1 DEF Shaped, Listed
<1> QED BY <1>1, <1>2 DEF EventIndex

\* The step whose write is damaged is a step of the trace, and it writes.
LEMMA WriteIndexIs ==
  ASSUME NEW t, Shaped(t), NEW focus \in Nat, WriteIndex(t, focus) # NoEvent
  PROVE  /\ WriteIndex(t, focus) + 1 \in 1..Len(t.events)
         /\ t.events[WriteIndex(t, focus) + 1].register_writes # {}
<1> DEFINE writing == {k \in 0..(Len(t.events) - 1) : t.events[k + 1].register_writes # {}}
           i == WriteIndex(t, focus)
<1>0. Len(t.events) \in Nat
  BY DEF Shaped, Listed
<1>1. writing \in SUBSET Nat
  BY <1>0
<1>2. i \in writing
  <2>1. CASE focus \in writing
    BY <2>1 DEF WriteIndex
  <2>2. CASE focus \notin writing
    <3>1. writing # {}
      BY <2>2 DEF WriteIndex
    <3>2. i = Least(writing)
      BY <2>2, <3>1 DEF WriteIndex
    <3> HIDE DEF writing
    <3> QED BY <1>1, <3>1, <3>2, LeastIs
  <2> QED BY <2>1, <2>2
<1>3. i \in 0..(Len(t.events) - 1) /\ t.events[i + 1].register_writes # {}
  BY <1>2
<1> HIDE DEF i
<1>4. i + 1 \in 1..Len(t.events)
  BY <1>0, <1>3
<1> QED BY <1>3, <1>4 DEF i

\* The writes are recorded by ascending index, so there is a first one.
LEMMA FirstWriteIs ==
  ASSUME NEW writes, writes \subseteq [index : Nat, value : Nat], writes # {}
  PROVE  FirstWrite(writes) \in writes
<1> DEFINE S == {w.index : w \in writes}
<1>1. S \in SUBSET Nat /\ S # {}
  OBVIOUS
<1>2. PICK n \in S : \A m \in S : n <= m
  <2> HIDE DEF S
  <2> QED BY <1>1, LeastIs
<1>3. \E w \in writes : \A v \in writes : w.index <= v.index
  <2>1. PICK w \in writes : w.index = n
    BY <1>2
  <2>2. \A v \in writes : v.index \in S
    OBVIOUS
  <2> HIDE DEF S
  <2> QED BY <1>2, <2>1, <2>2
<1> QED BY <1>3 DEF FirstWrite

\* What each mutation makes of a value is another one.
LEMMA NewValues ==
  /\ \A p \in 0..(WordSize - 1) : (p + 2) % WordSize # p
  /\ \A r \in Nat : NextRegister(r) # r
  /\ \A v \in Nat : FlipLowBit(v) # v
  /\ \A b \in BOOLEAN : InvertTrap(b) # b
<1>1. ASSUME NEW p \in 0..(WordSize - 1) PROVE (p + 2) % WordSize # p
  <2>1. WordSize \in Nat /\ WordSize > 2
    BY MutationAssumption
  <2> QED BY <2>1
<1>2. \A r \in Nat : NextRegister(r) # r
  BY MutationAssumption DEF NextRegister
<1>3. \A v \in Nat : FlipLowBit(v) # v
  BY DEF FlipLowBit
<1>4. \A b \in BOOLEAN : InvertTrap(b) # b
  BY DEF InvertTrap
<1> QED BY <1>1, <1>2, <1>3, <1>4

\* Damaging the first write leaves another set of writes.
LEMMA DamageIs ==
  ASSUME NEW writes, writes \subseteq [index : Nat, value : Nat], writes # {},
         NEW w, w # FirstWrite(writes)
  PROVE  Damage(writes, w) # writes
<1>1. FirstWrite(writes) \in writes
  BY FirstWriteIs
<1>2. FirstWrite(writes) \notin Damage(writes, w)
  BY DEF Damage
<1> QED BY <1>1, <1>2

\* A mutation of an event changes one field of one event, and nothing else.
Changed(t, d, k, f) ==
  /\ Shaped(d) /\ d.end = t.end /\ Len(d.events) = Len(t.events)
  /\ k \in 1..Len(t.events) /\ f \in FieldName
  /\ \A j \in 1..Len(t.events), g \in FieldName :
       d.events[j][g] # t.events[j][g] <=> j = k /\ g = f

\* Putting another value into a field is such a change.
LEMMA ReplacedChanges ==
  ASSUME NEW t, Shaped(t), NEW k \in 1..Len(t.events), NEW f \in FieldName, NEW v,
         v # t.events[k][f]
  PROVE  Changed(t, With(t, k, f, v), k, f)
<1> DEFINE d == With(t, k, f, v)
<1>1. /\ Shaped(d) /\ d.end = t.end /\ Len(d.events) = Len(t.events)
      /\ \A j \in 1..Len(t.events), g \in FieldName :
           d.events[j][g] = IF j = k /\ g = f THEN v ELSE t.events[j][g]
  BY Replaced
<1>2. ASSUME NEW j \in 1..Len(t.events), NEW g \in FieldName
      PROVE  d.events[j][g] # t.events[j][g] <=> j = k /\ g = f
  <2>1. d.events[j][g] = IF j = k /\ g = f THEN v ELSE t.events[j][g]
    BY <1>1
  <2> QED BY <2>1
<1> HIDE DEF d
<1>3. Changed(t, d, k, f)
  BY <1>1, <1>2 DEF Changed
<1> QED BY <1>3 DEF d

\* Four of the mutations are such a change, at their step and in their field.
LEMMA ApplyEvent ==
  ASSUME NEW t, IsTrace(t), NEW focus \in Nat, NEW kind \in EventKind, Applies(kind, t, focus)
  PROVE  Changed(t, Apply(kind, t, focus), DamagedStep(kind, t, focus) + 1, ExpectedField(kind))
<1> DEFINE k == DamagedStep(kind, t, focus) + 1
           e == t.events[k]
           w == FirstWrite(e.register_writes)
<1>0. Shaped(t)
  BY TraceShaped
<1>1. DamagedStep(kind, t, focus) # NoEvent
  BY DEF Applies, EventKind
<1>2. k \in 1..Len(t.events) /\ (kind \in {"register_index", "register_value"} => e.register_writes # {})
  <2>1. CASE kind \in {"pc_after", "trap"}
    BY <1>0, <1>1, <2>1, EventIndexIs DEF DamagedStep
  <2>2. CASE kind \in {"register_index", "register_value"}
    BY <1>0, <1>1, <2>2, WriteIndexIs DEF DamagedStep
  <2> QED BY <2>1, <2>2 DEF EventKind
<1>3. IsCommitEvent(e)
  BY <1>2, TraceShaped
<1>4. /\ e.pc_after \in 0..(WordSize - 1) /\ e.trap \in BOOLEAN
      /\ e.register_writes \subseteq [index : Nat, value : Nat]
  BY <1>3 DEF IsCommitEvent
<1>5. {"pc_after", "register_writes", "trap"} \subseteq FieldName
  BY DEF FieldName
<1>d. Apply(kind, t, focus) =
        CASE kind = "pc_after" -> [t EXCEPT !.events[k].pc_after = (@ + 2) % WordSize]
          [] kind = "register_index" ->
               [t EXCEPT !.events[k].register_writes = Damage(@, [w EXCEPT !.index = NextRegister(@)])]
          [] kind = "register_value" ->
               [t EXCEPT !.events[k].register_writes = Damage(@, [w EXCEPT !.value = FlipLowBit(@)])]
          [] kind = "trap" -> [t EXCEPT !.events[k].trap = InvertTrap(@)]
          [] kind = "trace_length" -> [t EXCEPT !.events = SubSeq(@, 1, Len(@) - 1)]
          [] kind = "termination" ->
               [t EXCEPT !.end = IF @.category = "step_limit"
                                   THEN TraceEnd("injection_complete", "none")
                                   ELSE TraceEnd("step_limit", "none")]
  BY DEF Apply
<1> HIDE DEF k
<1>6. CASE kind = "pc_after"
  <2>1. Apply(kind, t, focus) = With(t, k, "pc_after", (t.events[k].pc_after + 2) % WordSize)
    BY <1>6, <1>d DEF With
  <2>2. (t.events[k].pc_after + 2) % WordSize # t.events[k].pc_after
    BY <1>4, NewValues
  <2>3. Changed(t, Apply(kind, t, focus), k, "pc_after")
    BY <1>0, <1>2, <1>5, <2>1, <2>2, ReplacedChanges
  <2> QED BY <1>6, <2>3 DEF ExpectedField, k
<1>7. CASE kind = "trap"
  <2>1. Apply(kind, t, focus) = With(t, k, "trap", InvertTrap(t.events[k].trap))
    BY <1>7, <1>d DEF With
  <2>2. InvertTrap(t.events[k].trap) # t.events[k].trap
    BY <1>4, NewValues
  <2>3. Changed(t, Apply(kind, t, focus), k, "trap")
    BY <1>0, <1>2, <1>5, <2>1, <2>2, ReplacedChanges
  <2> QED BY <1>7, <2>3 DEF ExpectedField, k
<1>8. CASE kind \in {"register_index", "register_value"}
  <2> DEFINE W == t.events[k].register_writes
  <2>1. W # {} /\ W \subseteq [index : Nat, value : Nat] /\ w \in [index : Nat, value : Nat]
    BY <1>2, <1>4, <1>8, FirstWriteIs
  <2>2. PICK x : /\ x # w
                 /\ Apply(kind, t, focus) = With(t, k, "register_writes", Damage(W, x))
    <3>1. CASE kind = "register_index"
      <4>1. [w EXCEPT !.index = NextRegister(w.index)] # w
        BY <2>1, NewValues
      <4> QED BY <1>d, <3>1, <4>1 DEF With
    <3>2. CASE kind = "register_value"
      <4>1. [w EXCEPT !.value = FlipLowBit(w.value)] # w
        BY <2>1, NewValues
      <4> QED BY <1>d, <3>2, <4>1 DEF With
    <3> QED BY <1>8, <3>1, <3>2
  <2>3. Damage(W, x) # W
    BY <2>1, <2>2, DamageIs
  <2>4. Changed(t, Apply(kind, t, focus), k, "register_writes")
    BY <1>0, <1>2, <1>5, <2>2, <2>3, ReplacedChanges
  <2> QED BY <1>8, <2>4 DEF ExpectedField, k
<1> QED BY <1>6, <1>7, <1>8 DEF EventKind

\* The other two shorten the trace, or change the category of its end.
LEMMA ApplyWhole ==
  ASSUME NEW t, IsTrace(t), NEW focus \in Nat
  PROVE  /\ LET d == Apply("trace_length", t, focus)
            IN  Applies("trace_length", t, focus) =>
                  /\ Shaped(d) /\ d.end = t.end /\ Len(t.events) > 0
                  /\ Len(d.events) = Len(t.events) - 1
                  /\ \A j \in 1..(Len(t.events) - 1) : d.events[j] = t.events[j]
         /\ LET d == Apply("termination", t, focus)
            IN  Shaped(d) /\ d.events = t.events /\ d.end.category # t.end.category
<1>0. Shaped(t) /\ Len(t.events) \in Nat
  BY TraceShaped DEF Shaped, Listed
<1>1. ASSUME Applies("trace_length", t, focus)
      PROVE  LET d == Apply("trace_length", t, focus)
             IN  /\ Shaped(d) /\ d.end = t.end /\ Len(t.events) > 0
                 /\ Len(d.events) = Len(t.events) - 1
                 /\ \A j \in 1..(Len(t.events) - 1) : d.events[j] = t.events[j]
  <2> DEFINE d == Apply("trace_length", t, focus)
  <2>1. Len(t.events) > 0
    BY <1>0, <1>1 DEF Applies, DamagedStep, NoEvent
  <2>2. d = [t EXCEPT !.events = SubSeq(t.events, 1, Len(t.events) - 1)]
    BY DEF Apply
  <2>3. d = [events |-> SubSeq(t.events, 1, Len(t.events) - 1), end |-> t.end]
    BY <1>0, <2>2 DEF Shaped
  <2> HIDE DEF d
  <2>4. /\ Listed(SubSeq(t.events, 1, Len(t.events) - 1))
        /\ Len(SubSeq(t.events, 1, Len(t.events) - 1)) = Len(t.events) - 1
        /\ \A j \in 1..(Len(t.events) - 1) : SubSeq(t.events, 1, Len(t.events) - 1)[j] = t.events[j]
    <3>1. Listed(t.events) /\ Len(t.events) - 1 \in Nat /\ Len(t.events) - 1 <= Len(t.events)
      BY <1>0, <2>1 DEF Shaped
    <3> QED BY <3>1, PrefixIs
  <2>5. d.events = SubSeq(t.events, 1, Len(t.events) - 1) /\ d.end = t.end
    BY <2>3
  <2>6. Shaped(d)
    BY <2>3, <2>4, <2>5 DEF Shaped
  <2> QED BY <2>1, <2>4, <2>5, <2>6 DEF d
<1>2. LET d == Apply("termination", t, focus)
      IN  Shaped(d) /\ d.events = t.events /\ d.end.category # t.end.category
  <2> DEFINE d == Apply("termination", t, focus)
             x == IF t.end.category = "step_limit" THEN TraceEnd("injection_complete", "none")
                                                   ELSE TraceEnd("step_limit", "none")
  <2>1. d = [t EXCEPT !.end = x]
    BY DEF Apply
  <2>2. x.category # t.end.category
    <3>1. \A c : TraceEnd(c, "none").category = c
      BY DEF TraceEnd
    <3>2. CASE t.end.category = "step_limit"
      BY <3>1, <3>2
    <3>3. CASE t.end.category # "step_limit"
      BY <3>1, <3>3
    <3> QED BY <3>2, <3>3
  <2> HIDE DEF x, d
  <2>3. d = [events |-> t.events, end |-> x]
    BY <1>0, <2>1 DEF Shaped
  <2>4. d.events = t.events /\ d.end = x
    BY <2>3
  <2>5. Shaped(d)
    BY <1>0, <2>3, <2>4 DEF Shaped
  <2> QED BY <2>2, <2>4, <2>5 DEF d
<1> QED BY <1>1, <1>2

\* The step that is damaged is a number.
LEMMA StepIs ==
  ASSUME NEW t, Shaped(t), NEW focus \in Nat, NEW kind \in EventKind, Applies(kind, t, focus)
  PROVE  DamagedStep(kind, t, focus) \in Int
<1>0. Len(t.events) \in Nat
  BY DEF Shaped, Listed
<1>1. DamagedStep(kind, t, focus) = EventIndex(t, focus) \/ DamagedStep(kind, t, focus) = WriteIndex(t, focus)
  BY DEF DamagedStep, EventKind
<1>2. DamagedStep(kind, t, focus) # NoEvent
  BY DEF Applies, EventKind
<1>3. EventIndex(t, focus) # NoEvent => EventIndex(t, focus) \in Int
  BY <1>0 DEF EventIndex
<1>4. WriteIndex(t, focus) # NoEvent => WriteIndex(t, focus) \in Int
  <2> DEFINE writing == {j \in 0..(Len(t.events) - 1) : t.events[j + 1].register_writes # {}}
  <2>1. writing \in SUBSET Nat
    BY <1>0
  <2>2. writing # {} => Least(writing) \in Nat
    <3> HIDE DEF writing
    <3> QED BY <2>1, LeastIs
  <2> QED BY <2>2 DEF WriteIndex
<1> QED BY <1>1, <1>2, <1>3, <1>4

\* The damage to a pair that passed is found where it was made, whatever else
\* the comparison overlooks.
LEMMA Locates ==
  ASSUME NEW t, NEW s, IsTrace(t), IsTrace(s), NEW focus \in Nat, NEW kind \in MutationKind,
         Applies(kind, t, focus), overlooked \notin Expected, args.policy \in Policies,
         Passed(CompareTraces(t, s))
  PROVE  LET c == CompareTraces(Apply(kind, t, focus), s)
         IN  c.field = ExpectedField(kind) /\ c.step = DamagedStep(kind, t, focus)
<1> DEFINE d == Apply(kind, t, focus)
<1>0. Shaped(t) /\ Shaped(s) /\ overlooked \notin Whole /\ Len(t.events) \in Nat
  BY TraceShaped DEF Expected, Shaped, Listed
<1>1. /\ Len(t.events) = Len(s.events) /\ TerminalMatches(t.end, s.end, args.policy)
      /\ Len(t.events) > 0
      /\ \A k \in 1..Len(t.events), f \in FieldName \ {overlooked} : t.events[k][f] = s.events[k][f]
  <2>1. /\ Len(t.events) = Len(s.events) /\ TerminalMatches(t.end, s.end, args.policy)
        /\ Len(t.events) > 0 /\ \A k \in 1..Len(t.events) : ~ Diff(t, s, k)
    BY <1>0, PassedIs
  <2> QED BY <2>1 DEF Diff
<1>2. CASE kind \in EventKind
  <2> DEFINE k == DamagedStep(kind, t, focus) + 1
             f == ExpectedField(kind)
  <2>1. Changed(t, d, k, f)
    BY <1>2, ApplyEvent
  <2>2. f # overlooked
    BY <1>2 DEF ExpectedField, Expected, EventKind
  <2>3. DamagedStep(kind, t, focus) \in Int
    BY <1>0, <1>2, StepIs
  <2> HIDE DEF f, d
  <2>4. k - 1 = DamagedStep(kind, t, focus)
    BY <2>3
  <2> HIDE DEF k
  <2>5. /\ Shaped(d) /\ Len(d.events) = Len(s.events) /\ k \in 1..Len(d.events)
        /\ f \in FieldName \ {overlooked}
        /\ d.events[k][f] # s.events[k][f]
    BY <1>1, <2>1, <2>2 DEF Changed
  <2>6. \A j \in 1..Len(d.events), g \in FieldName \ {overlooked} :
          d.events[j][g] # s.events[j][g] => j = k /\ g = f
    BY <1>1, <2>1 DEF Changed
  <2>7. CompareTraces(d, s) = Mismatch(k - 1, k - 1, f)
    BY <1>0, <2>5, <2>6, OnlyOneDiffers
  <2> QED BY <2>4, <2>7 DEF Mismatch, f, d
<1>3. CASE kind = "trace_length"
  <2>1. /\ Shaped(d) /\ d.end = t.end /\ Len(d.events) = Len(t.events) - 1
        /\ \A j \in 1..(Len(t.events) - 1) : d.events[j] = t.events[j]
    BY <1>3, ApplyWhole
  <2>2. DamagedStep(kind, t, focus) = Len(t.events) - 1 /\ ExpectedField(kind) = "trace_length"
    BY <1>3 DEF DamagedStep, ExpectedField
  <2> HIDE DEF d
  <2>3. Common(d, s) = Len(t.events) - 1
    BY <1>0, <1>1, <2>1 DEF Common
  <2>4. \A j \in 1..Common(d, s) : ~ Diff(d, s, j)
    <3>1. \A j \in 1..Common(d, s) : j \in 1..Len(t.events)
      BY <1>0, <2>3
    <3> QED BY <1>1, <2>1, <2>3, <3>1 DEF Diff
  <2>5. CompareTraces(d, s) = Verdict(d, s, args.policy)
    BY <1>0, <2>1, <2>4, NoneDiffers
  <2>6. Len(d.events) # Len(s.events)
    BY <1>0, <1>1, <2>1
  <2> QED BY <2>2, <2>3, <2>5, <2>6 DEF Verdict, Mismatch, d
<1>4. CASE kind = "termination"
  <2>1. Shaped(d) /\ d.events = t.events /\ d.end.category # t.end.category
    BY <1>4, ApplyWhole
  <2>2. DamagedStep(kind, t, focus) = NoStep /\ ExpectedField(kind) = "termination"
    BY <1>4 DEF DamagedStep, ExpectedField
  <2> HIDE DEF d
  <2>3. Common(d, s) = Len(t.events)
    BY <1>0, <1>1, <2>1 DEF Common
  <2>4. \A j \in 1..Common(d, s) : ~ Diff(d, s, j)
    BY <1>1, <2>1, <2>3 DEF Diff
  <2>5. CompareTraces(d, s) = Verdict(d, s, args.policy)
    BY <1>0, <2>1, <2>4, NoneDiffers
  <2>6. ~ TerminalMatches(d.end, s.end, args.policy)
    BY <1>1, <2>1 DEF TerminalMatches, Policies
  <2> QED BY <1>1, <2>1, <2>2, <2>5, <2>6 DEF Verdict, Mismatch, d
<1> QED BY <1>2, <1>3, <1>4 DEF MutationKind, EventKind

-----------------------------------------------------------------------------
(* The program.                                                            *)

Arguments ==
  [mode : {"none", "corpus", "replay", "elf"}, mutate : BOOLEAN, store : BOOLEAN, policy : Policies,
   cases : SUBSET Case, program : {Itself}]

Typed ==
  /\ corpus \in Corpora /\ runs \in Nat
  /\ args \in Arguments /\ args.cases \subseteq InCorpus
  /\ phase \in {"idle", "cases", "mutations", "summary", "exit"}
  /\ todo \subseteq args.cases
  /\ results = [c \in DOMAIN results |-> results[c]]
  /\ \A c \in DOMAIN results : results[c] \in BOOLEAN
  /\ artifacts = [c \in Case |-> artifacts[c]]

\* An artifact that parses is about its case and the traces of its engines.
IsArtifact(c, file) ==
  /\ file = [kind |-> file.kind, by |-> file.by, passed |-> file.passed, words |-> file.words,
             instructions |-> file.instructions, traces |-> file.traces]
  /\ file.instructions = c
  /\ file.traces.ok => file.traces.ckb = Recorded[c] /\ file.traces.sail \in SailTrace[c]
  /\ file.passed => file.traces.ok
ArtifactInv == \A c \in Case : artifacts[c].kind = "whole" => IsArtifact(c, artifacts[c])

\* What is known when: the verdicts of the cases that have run, and a status only
\* at the end.
Over == phase \in {"mutations", "summary", "exit"} \/ status = 0
ResultsInv ==
  /\ phase # "idle" => status = NoStatus
  /\ phase \notin {"cases", "mutations"} => todo = {}
  /\ phase = "cases" => DOMAIN results = args.cases \ todo
  /\ Over => DOMAIN results = args.cases
  /\ status = 0 => (\A c \in DOMAIN results : results[c]) /\ mutationsPassed # "failed"

\* A case that passed has its evidence; a later edit only touches its words.
EvidenceInv ==
  args.store => \A c \in DOMAIN results : results[c] =>
    /\ phase # "idle" => WrittenNow(artifacts[c], c)
    /\ status = 0 => artifacts[c].kind = "whole" /\ artifacts[c].by = runs /\ artifacts[c].passed

\* What a report of the matrix says.
IsMutationReport(r) ==
  LET trace == Recorded[r.case]
      focus == Focus[r.case]
  IN  /\ r = [case |-> r.case, kind |-> r.kind, applied |-> r.applied, field |-> r.field, step |-> r.step]
      /\ r.case \in args.cases /\ r.kind \in MutationKind
      /\ r.applied <=> Applies(r.kind, trace, focus)
      /\ ~ r.applied => r.field = "none" /\ r.step = NoStep
      /\ r.applied /\ overlooked \in Expected => r.field # overlooked
      /\ r.applied /\ overlooked \notin Expected =>
           r.field = ExpectedField(r.kind) /\ r.step = DamagedStep(r.kind, trace, focus)

\* Every case that has run is among the failures or has all its reports.
HasReports(c) == \A kind \in MutationKind : \E r \in reports : r.case = c /\ r.kind = kind
Accounted(c) == c \in baselineFailures \/ HasReports(c)
MatrixInv ==
  /\ \A r \in reports : IsMutationReport(r)
  /\ phase = "cases" \/ ~ args.mutate => mutationsPassed = None /\ baselineFailures = {} /\ reports = {}
  /\ phase = "mutations" => args.mutate /\ mutationsPassed = None /\ \A c \in args.cases \ todo : Accounted(c)
  /\ (phase \in {"summary", "exit"} \/ status = 0) /\ args.mutate =>
       mutationsPassed \in {"passed", "failed"} /\ \A c \in args.cases : Accounted(c)
  /\ phase = "summary" => args.mutate
  /\ mutationsPassed = "passed" =>
       EveryCategoryLocated /\ baselineFailures = {} /\ Undetected = {} /\ Mislocated = {}

\* The matrix runs each case once, so it has one report of a kind for it.
ReportsInv ==
  /\ phase = "mutations" => \A r \in reports : r.case \notin todo
  /\ \A r, s \in reports : r.case = s.case /\ r.kind = s.kind => r = s

\* A case on which the engines disagreed once failed, then or in the matrix.
AgreedInv ==
  overlooked = "none" => \A c \in args.cases \ agreed :
    phase # "idle" \/ status = 0 =>
      (c \in DOMAIN results /\ ~ results[c]) \/ c \in baselineFailures

IInv == Typed /\ ArtifactInv /\ ResultsInv /\ EvidenceInv /\ MatrixInv /\ ReportsInv /\ AgreedInv

\* The next case is one of those left, and they are cases.
LEMMA FirstOfIs ==
  ASSUME corpus \in Corpora, NEW cases, cases \subseteq InCorpus, cases # {}
  PROVE  FirstOf(cases) \in cases /\ InCorpus \subseteq Case
<1> DEFINE S == {k \in DOMAIN corpus : corpus[k] \in cases}
<1>1. corpus \in Seq(Case)
  BY CorpusAssumption DEF Case
<1>2. InCorpus \subseteq Case
  BY <1>1 DEF InCorpus
<1>3. S \in SUBSET Nat /\ S # {}
  BY <1>1 DEF InCorpus
<1>4. Least(S) \in S
  <2> HIDE DEF S
  <2> QED BY <1>3, LeastIs
<1> QED BY <1>2, <1>4 DEF FirstOf

\* A sound comparison passes only what agrees.
LEMMA PassedAgrees ==
  ASSUME NEW l, NEW r, IsTrace(l), IsTrace(r), overlooked = "none", Passed(CompareTraces(l, r))
  PROVE  Agree(l, r)
<1>1. Shaped(l) /\ Shaped(r) /\ overlooked \notin Whole
  BY TraceShaped DEF Whole
<1>2. /\ Len(l.events) = Len(r.events) /\ TerminalMatches(l.end, r.end, args.policy)
      /\ \A k \in 1..Len(l.events) : ~ Diff(l, r, k)
  BY <1>1, PassedIs
<1>3. \A f \in FieldName : f # overlooked
  BY DEF FieldName
<1>4. ASSUME NEW k \in 1..Len(l.events) PROVE l.events[k] = r.events[k]
  <2>1. HasFields(l.events[k]) /\ HasFields(r.events[k])
    BY <1>1, <1>2 DEF Shaped, Listed
  <2>2. \A f \in FieldName : l.events[k][f] = r.events[k][f]
    BY <1>2, <1>3 DEF Diff
  <2> QED BY <2>1, <2>2 DEF HasFields
<1>5. l.events = r.events
  BY <1>1, <1>2, <1>4 DEF Shaped, Listed
<1> QED BY <1>2, <1>5 DEF Agree

\* What an engine pair may come to.
LEMMA OutcomeIs ==
  ASSUME NEW c \in Case, NEW outcome \in Outcomes(c)
  PROVE  /\ outcome.ok \in BOOLEAN
         /\ outcome.ok => outcome.sail \in SailTrace[c] /\ IsTrace(outcome.sail)
         /\ IsTrace(Recorded[c]) /\ Focus[c] \in Nat
<1>1. IsTrace(Recorded[c]) /\ Focus[c] \in Nat /\ \A trace \in SailTrace[c] : IsTrace(trace)
  BY TraceAssumption DEF Case
<1>2. CASE outcome = Failed
  <2>1. outcome.ok = FALSE
    BY <1>2 DEF Failed
  <2> QED BY <1>1, <2>1
<1>3. CASE outcome \in [ok : {TRUE}, sail : SailTrace[c]]
  BY <1>1, <1>3
<1> QED BY <1>2, <1>3 DEF Outcomes

\* Each mutation of a pair that passed gives a report of the matrix.
LEMMA EvaluateIs ==
  ASSUME Typed, NEW c \in args.cases, c \in Case, NEW kind \in MutationKind,
         NEW sail \in SailTrace[c], Passed(CompareTraces(Recorded[c], sail))
  PROVE  LET r == Evaluate(c, kind, sail) IN IsMutationReport(r) /\ r.case = c /\ r.kind = kind
<1> DEFINE t == Recorded[c]
           found == CompareTraces(Apply(kind, t, Focus[c]), sail)
           r == Evaluate(c, kind, sail)
<1>1. IsTrace(t) /\ IsTrace(sail) /\ Focus[c] \in Nat /\ args.policy \in Policies
  BY TraceAssumption DEF Case, Typed, Arguments
<1>2. r = IF Applies(kind, t, Focus[c])
            THEN [case |-> c, kind |-> kind, applied |-> TRUE, field |-> found.field, step |-> found.step]
            ELSE [case |-> c, kind |-> kind, applied |-> FALSE, field |-> "none", step |-> NoStep]
  BY DEF Evaluate, MutationReport
<1>3. ASSUME Applies(kind, t, Focus[c]), overlooked \in Expected PROVE found.field # overlooked
  <2>1. Shaped(Apply(kind, t, Focus[c]))
    <3>1. CASE kind \in EventKind
      BY <1>1, <1>3, <3>1, ApplyEvent DEF Changed
    <3>2. CASE kind \in Whole
      BY <1>1, <1>3, <3>2, ApplyWhole DEF Whole
    <3> QED BY <3>1, <3>2 DEF MutationKind, EventKind, Whole
  <2> QED BY <1>1, <1>3, <2>1, TraceShaped, NeverNamed
<1>4. ASSUME Applies(kind, t, Focus[c]), overlooked \notin Expected
      PROVE  found.field = ExpectedField(kind) /\ found.step = DamagedStep(kind, t, Focus[c])
  BY <1>1, <1>4, Locates
<1> HIDE DEF found
<1>5. CASE Applies(kind, t, Focus[c])
  <2>1. /\ r.case = c /\ r.kind = kind /\ r.applied = TRUE /\ r.field = found.field /\ r.step = found.step
        /\ r = [case |-> r.case, kind |-> r.kind, applied |-> r.applied, field |-> r.field, step |-> r.step]
    BY <1>2, <1>5
  <2> HIDE DEF r
  <2>2. IsMutationReport(r)
    BY <1>3, <1>4, <1>5, <2>1 DEF IsMutationReport
  <2> QED BY <2>1, <2>2 DEF r
<1>6. CASE ~ Applies(kind, t, Focus[c])
  <2>1. /\ r.case = c /\ r.kind = kind /\ r.applied = FALSE /\ r.field = "none" /\ r.step = NoStep
        /\ r = [case |-> r.case, kind |-> r.kind, applied |-> r.applied, field |-> r.field, step |-> r.step]
    BY <1>2, <1>6
  <2> HIDE DEF r
  <2>2. IsMutationReport(r)
    BY <1>6, <2>1 DEF IsMutationReport
  <2> QED BY <2>1, <2>2 DEF r
<1> QED BY <1>5, <1>6

-----------------------------------------------------------------------------
(* Invocations begin, end and are killed.                                  *)

\* The arguments of no run select nothing.
LEMMA NoArgsIs == NoArgs \in Arguments /\ NoArgs.cases = {} /\ ~ NoArgs.mutate /\ ~ NoArgs.store
<1>1. "exact" \in Policies
  BY DEF Policies
<1> QED BY <1>1 DEF NoArgs, Arguments

\* Nothing has run yet.
LEMMA InitInv == Init => IInv
<1> SUFFICES ASSUME Init PROVE IInv
  OBVIOUS
<1>1. args \in Arguments /\ args.cases = {} /\ ~ args.mutate /\ ~ args.store
  BY NoArgsIs DEF Init
<1>2. /\ corpus \in Corpora /\ runs = 0 /\ phase = "idle" /\ todo = {} /\ results = << >> /\ reports = {}
      /\ baselineFailures = {} /\ mutationsPassed = "none" /\ status = -1 /\ agreed = Case
      /\ artifacts = [c \in Case |-> Missing]
  BY DEF Init, None, NoStatus
<1>3. results = [c \in DOMAIN results |-> results[c]] /\ DOMAIN results = {}
  BY <1>2
<1>4. Typed
  BY <1>1, <1>2, <1>3 DEF Typed
<1>5. ArtifactInv
  BY <1>2 DEF ArtifactInv, Missing
<1>6. ResultsInv /\ EvidenceInv /\ MatrixInv /\ ReportsInv /\ AgreedInv
  BY <1>1, <1>2, <1>3 DEF ResultsInv, EvidenceInv, MatrixInv, ReportsInv, AgreedInv, Over, None
<1> QED BY <1>4, <1>5, <1>6 DEF IInv

\* Nothing is known of a run that has forgotten everything.
LEMMA ForgetInv ==
  ASSUME IInv, Forget, corpus' = corpus, runs' \in Nat, args' \in Arguments, (args.cases \subseteq InCorpus)',
         (phase' = "idle" /\ todo' = {}) \/ (phase' = "cases" /\ todo' = args'.cases /\ status' = NoStatus),
         todo' \subseteq args'.cases, status' # 0,
         artifacts' = [c \in Case |-> artifacts'[c]],
         \A c \in Case : artifacts'[c].kind = "whole" => artifacts'[c] = artifacts[c]
  PROVE  IInv'
<1>1. /\ results' = << >> /\ reports' = {} /\ baselineFailures' = {} /\ mutationsPassed' = "none"
      /\ agreed' = Case
  BY DEF Forget, None
<1>2. results' = [c \in DOMAIN results' |-> results'[c]] /\ DOMAIN results' = {}
  BY <1>1
<1>3. Typed'
  BY <1>2 DEF IInv, Typed
<1>4. ArtifactInv'
  <2> SUFFICES ASSUME NEW c \in Case, artifacts'[c].kind = "whole" PROVE IsArtifact(c, artifacts'[c])
    BY DEF ArtifactInv, IsArtifact
  <2>1. artifacts'[c] = artifacts[c]
    OBVIOUS
  <2> QED BY <2>1 DEF IInv, ArtifactInv
<1>5. phase' \in {"idle", "cases"}
  OBVIOUS
<1>6. ResultsInv'
  BY <1>2, <1>5 DEF ResultsInv, Over
<1>7. EvidenceInv' /\ AgreedInv'
  <2>1. InCorpus' \subseteq Case
    BY CorpusAssumption DEF IInv, Typed, InCorpus, Case
  <2>2. EvidenceInv'
    BY <1>2 DEF EvidenceInv
  <2>3. args'.cases \ agreed' = {}
    BY <1>1, <2>1 DEF Arguments
  <2> QED BY <2>2, <2>3 DEF AgreedInv
<1>8. MatrixInv'
  BY <1>1, <1>5 DEF MatrixInv, None
<1>9. ReportsInv'
  BY <1>1 DEF ReportsInv
<1> QED BY <1>3, <1>4, <1>6, <1>7, <1>8, <1>9 DEF IInv

\* A replay is of the words of its case, because those of an edited file differ.
LEMMA InvokeInv == IInv /\ Invoke => IInv'
<1> SUFFICES ASSUME IInv, Invoke PROVE IInv'
  OBVIOUS
<1>0. /\ Forget /\ corpus' = corpus /\ artifacts' = artifacts /\ runs' \in Nat
  <2>1. NewRun
    BY DEF Invoke
  <2> QED BY <2>1 DEF NewRun, IInv, Typed
<1>c. InCorpus' = InCorpus /\ InCorpus \subseteq Case
  BY <1>0, CorpusAssumption DEF IInv, Typed, InCorpus, Case
<1>1. PICK new \in Arguments : Start(new) /\ new.cases \subseteq InCorpus
  <2>1. PICK mutate \in BOOLEAN, store \in BOOLEAN, policy \in Policies :
          LET new == [NoArgs EXCEPT !.mutate = mutate, !.store = store, !.policy = policy]
          IN  \/ \E cases \in (SUBSET InCorpus) \ {{}} :
                   Start([new EXCEPT !.mode = "corpus", !.cases = cases])
              \/ /\ ~ mutate
                 /\ \E c \in InCorpus :
                      /\ Replayable(artifacts[c])
                      /\ Start([new EXCEPT !.mode = "replay", !.cases = {c},
                                           !.program[c] = artifacts[c].words])
              \/ /\ ~ mutate /\ ~ store
                 /\ Start([new EXCEPT !.mode = "elf", !.cases = InCorpus])
    BY DEF Invoke
  <2> DEFINE new == [NoArgs EXCEPT !.mutate = mutate, !.store = store, !.policy = policy]
  <2>2. new \in Arguments
    BY NoArgsIs DEF Arguments
  <2> HIDE DEF new
  <2>3. CASE \E cases \in (SUBSET InCorpus) \ {{}} : Start([new EXCEPT !.mode = "corpus", !.cases = cases])
    <3>1. PICK cases \in SUBSET InCorpus : Start([new EXCEPT !.mode = "corpus", !.cases = cases])
      BY <2>3
    <3>2. /\ [new EXCEPT !.mode = "corpus", !.cases = cases] \in Arguments
          /\ [new EXCEPT !.mode = "corpus", !.cases = cases].cases = cases
      BY <1>c, <2>2 DEF Arguments
    <3> QED BY <3>1, <3>2
  <2>4. CASE \E c \in InCorpus :
               /\ Replayable(artifacts[c])
               /\ Start([new EXCEPT !.mode = "replay", !.cases = {c}, !.program[c] = artifacts[c].words])
    <3>1. PICK c \in InCorpus :
            /\ Replayable(artifacts[c])
            /\ Start([new EXCEPT !.mode = "replay", !.cases = {c}, !.program[c] = artifacts[c].words])
      BY <2>4
    <3>2. artifacts[c].words = c
      BY <1>c, <3>1 DEF Replayable, IInv, ArtifactInv, IsArtifact
    <3>3. new.program = Itself /\ [Itself EXCEPT ![c] = c] = Itself
      BY <2>2 DEF Arguments, Itself
    <3>4. /\ [new EXCEPT !.mode = "replay", !.cases = {c}, !.program[c] = c] \in Arguments
          /\ [new EXCEPT !.mode = "replay", !.cases = {c}, !.program[c] = c].cases = {c}
      <4>1. [new EXCEPT !.mode = "replay", !.cases = {c}, !.program[c] = c]
              = [new EXCEPT !.mode = "replay", !.cases = {c}, !.program = Itself]
        BY <2>2, <3>3 DEF Arguments
      <4> QED BY <1>c, <2>2, <4>1 DEF Arguments
    <3> QED BY <3>1, <3>2, <3>4
  <2>5. CASE Start([new EXCEPT !.mode = "elf", !.cases = InCorpus])
    <3>2. /\ [new EXCEPT !.mode = "elf", !.cases = InCorpus] \in Arguments
          /\ [new EXCEPT !.mode = "elf", !.cases = InCorpus].cases = InCorpus
      BY <1>c, <2>2 DEF Arguments
    <3> QED BY <2>5, <3>2
  <2> QED BY <2>1, <2>3, <2>4, <2>5 DEF new
<1>2. args' = new /\ phase' = "cases" /\ todo' = args'.cases /\ status' = NoStatus
  BY <1>1 DEF Start
<1>3. status' # 0
  BY <1>2 DEF NoStatus
<1> QED BY <1>0, <1>1, <1>2, <1>3, <1>c, ForgetInv DEF IInv, Typed

\* An invocation that is refused selects nothing and ends with status 1.
LEMMA InvokeFailsInv == IInv /\ InvokeFails => IInv'
<1> SUFFICES ASSUME IInv, InvokeFails PROVE IInv'
  OBVIOUS
<1>1. /\ Forget /\ corpus' = corpus /\ artifacts' = artifacts /\ runs' \in Nat /\ phase' = "idle"
      /\ args' \in Arguments /\ args'.cases = {} /\ status' = 1 /\ todo' = todo
  BY NoArgsIs DEF InvokeFails, NewRun, IInv, Typed
<1>2. todo = {}
  BY DEF InvokeFails, NewRun, IInv, ResultsInv
<1> QED BY <1>1, <1>2, ForgetInv DEF IInv, Typed

\* A file that Artifact::write left torn is none.
LEMMA CrashInv == IInv /\ Crash => IInv'
<1> SUFFICES ASSUME IInv, Crash PROVE IInv'
  OBVIOUS
<1>1. /\ Forget /\ corpus' = corpus /\ runs' \in Nat /\ phase' = "idle" /\ todo' = {}
      /\ args' \in Arguments /\ args'.cases = {} /\ status' = status /\ status = NoStatus
  BY NoArgsIs DEF Crash, IInv, Typed, ResultsInv
<1>2. /\ artifacts' = [c \in Case |-> artifacts'[c]]
      /\ \A c \in Case : artifacts'[c].kind = "whole" => artifacts'[c] = artifacts[c]
  <2>1. CASE UNCHANGED artifacts
    BY <2>1 DEF IInv, Typed
  <2>2. CASE \E file \in {artifacts[FirstOf(todo)], Torn} : Stored(FirstOf(todo), file)
    <3>1. PICK file \in {artifacts[FirstOf(todo)], Torn} : artifacts' = [artifacts EXCEPT ![FirstOf(todo)] = file]
      BY <2>2 DEF Stored
    <3>2. artifacts' = [c \in Case |-> artifacts'[c]]
      BY <3>1 DEF IInv, Typed
    <3>3. Torn.kind # "whole"
      BY DEF Torn
    <3> QED BY <3>1, <3>2, <3>3 DEF IInv, Typed
  <2> QED BY <2>1, <2>2 DEF Crash
<1>3. status' # 0
  BY <1>1 DEF NoStatus
<1> QED BY <1>1, <1>2, <1>3, ForgetInv

-----------------------------------------------------------------------------
(* The cases.                                                              *)

\* The artifact of a case, when it was written.
LEMMA ArtifactIs ==
  ASSUME Typed, NEW c \in Case, NEW outcome \in Outcomes(c), NEW passed, passed => outcome.ok
  PROVE  LET file == Artifact(c, passed, outcome)
         IN  /\ IsArtifact(c, file) /\ file.kind = "whole" /\ file.by = runs /\ file.passed = passed
             /\ file.words = c
<1> DEFINE traces == IF ~ outcome.ok THEN NoTraces ELSE [ok |-> TRUE, ckb |-> Recorded[c], sail |-> outcome.sail]
           file == Artifact(c, passed, outcome)
<1>1. args.program[c] = c
  BY DEF Typed, Arguments, Itself
<1>2. /\ traces.ok => traces.ckb = Recorded[c] /\ traces.sail \in SailTrace[c]
      /\ passed => traces.ok
  <2>1. CASE outcome.ok
    <3>1. traces = [ok |-> TRUE, ckb |-> Recorded[c], sail |-> outcome.sail] /\ outcome.sail \in SailTrace[c]
      BY <2>1, OutcomeIs
    <3> HIDE DEF traces
    <3> QED BY <3>1
  <2>2. CASE ~ outcome.ok
    BY <2>2 DEF NoTraces
  <2> QED BY <2>1, <2>2
<1>3. file = [kind |-> "whole", by |-> runs, passed |-> passed, words |-> c, instructions |-> c, traces |-> traces]
  BY <1>1 DEF Artifact
<1> HIDE DEF traces, file
<1>4. /\ file.kind = "whole" /\ file.by = runs /\ file.passed = passed /\ file.words = c
      /\ file.instructions = c /\ file.traces = traces
  BY <1>3
<1>5. file = [kind |-> file.kind, by |-> file.by, passed |-> file.passed, words |-> file.words,
              instructions |-> file.instructions, traces |-> file.traces]
  BY <1>3, <1>4
<1> QED BY <1>2, <1>4, <1>5 DEF IsArtifact, file

\* What RunCase does with the verdict, the artifact and the agreement of its case.
RunsCase(c, passed, stored, file) ==
  /\ todo' = todo \ {c} /\ c \in Case /\ phase = "cases"
  /\ results' = [d \in DOMAIN results \cup {c} |-> IF d = c THEN passed /\ stored ELSE results[d]]
  /\ args.store => artifacts' = [artifacts EXCEPT ![c] = file]
  /\ ~ args.store => artifacts' = artifacts
  /\ file.kind = "whole" => IsArtifact(c, file)
  /\ args.store /\ stored /\ passed =>
       file.kind = "whole" /\ file.by = runs /\ file.passed /\ file.words = c /\ file.instructions = c
  /\ agreed' = agreed \/ (agreed' = agreed \ {c} /\ (overlooked = "none" => ~ passed))
  /\ UNCHANGED <<corpus, overlooked, runs, args, phase, baselineFailures, reports, mutationsPassed,
                 status, edits>>

\* RunCase runs one case to one verdict, and stores it as asked.
LEMMA RunCaseIs ==
  ASSUME IInv, RunCase
  PROVE  \E c \in todo, passed \in BOOLEAN, stored \in BOOLEAN : \E file : RunsCase(c, passed, stored, file)
<1> DEFINE c == FirstOf(todo)
           p == args.program[c]
<1>1. c \in todo /\ c \in Case /\ p = c
  <2>1. FirstOf(todo) \in todo /\ InCorpus \subseteq Case
    BY FirstOfIs DEF RunCase, IInv, Typed
  <2> QED BY <2>1 DEF IInv, Typed, Arguments, Itself
<1>2. PICK outcome \in Outcomes(p), stored \in BOOLEAN :
        LET passed == outcome.ok /\ Passed(CompareTraces(Recorded[p], outcome.sail))
        IN  /\ stored \/ args.store
            /\ \/ args.store /\ stored /\ Stored(c, Artifact(c, passed, outcome))
               \/ args.store /\ ~ stored /\ \E file \in {artifacts[c], Torn} : Stored(c, file)
               \/ ~ args.store /\ UNCHANGED artifacts
            /\ results' = [d \in DOMAIN results \cup {c} |->
                             IF d = c THEN CleanPass(passed, stored) ELSE results[d]]
            /\ agreed' = IF outcome.ok /\ Agree(Recorded[p], outcome.sail) THEN agreed ELSE agreed \ {c}
  BY DEF RunCase
<1> DEFINE passed == outcome.ok /\ Passed(CompareTraces(Recorded[p], outcome.sail))
<1>3. passed \in BOOLEAN
  BY <1>1, OutcomeIs DEF Passed
<1>4. overlooked = "none" /\ passed => outcome.ok /\ Agree(Recorded[p], outcome.sail)
  BY <1>1, OutcomeIs, PassedAgrees
<1>5. todo' = todo \ {c} /\ phase = "cases"
      /\ UNCHANGED <<corpus, overlooked, runs, args, phase, baselineFailures, reports, mutationsPassed,
                     status, edits>>
  BY DEF RunCase
<1> HIDE DEF c, p, passed
<1>6. PICK file :
        /\ args.store => artifacts' = [artifacts EXCEPT ![c] = file]
        /\ ~ args.store => artifacts' = artifacts
        /\ file.kind = "whole" => IsArtifact(c, file)
        /\ args.store /\ stored /\ passed =>
             file.kind = "whole" /\ file.by = runs /\ file.passed /\ file.words = c /\ file.instructions = c
  <2>1. CASE args.store /\ stored /\ Stored(c, Artifact(c, passed, outcome))
    <3>1. /\ IsArtifact(c, Artifact(c, passed, outcome)) /\ Artifact(c, passed, outcome).kind = "whole"
          /\ Artifact(c, passed, outcome).by = runs /\ Artifact(c, passed, outcome).passed = passed
          /\ Artifact(c, passed, outcome).words = c
      <4>1. outcome \in Outcomes(c) /\ (passed => outcome.ok)
        BY <1>1, <1>2 DEF passed
      <4> QED BY <1>1, <4>1, ArtifactIs DEF IInv
    <3>2. Artifact(c, passed, outcome).instructions = c
      BY <3>1 DEF IsArtifact
    <3> QED BY <2>1, <3>1, <3>2 DEF Stored
  <2>2. CASE args.store /\ ~ stored /\ \E file \in {artifacts[c], Torn} : Stored(c, file)
    <3>1. PICK file \in {artifacts[c], Torn} : Stored(c, file)
      BY <2>2
    <3>2. file.kind = "whole" => IsArtifact(c, file)
      <4>1. Torn.kind # "whole"
        BY DEF Torn
      <4> QED BY <1>1, <3>1, <4>1 DEF IInv, ArtifactInv
    <3> QED BY <2>2, <3>1, <3>2 DEF Stored
  <2>3. CASE ~ args.store /\ UNCHANGED artifacts
    <3>1. Torn.kind # "whole"
      BY DEF Torn
    <3> QED BY <2>3, <3>1
  <2> QED BY <1>2, <2>1, <2>2, <2>3 DEF passed
<1>7. results' = [d \in DOMAIN results \cup {c} |-> IF d = c THEN passed /\ stored ELSE results[d]]
  BY <1>2 DEF CleanPass, passed
<1>8. agreed' = agreed \/ (agreed' = agreed \ {c} /\ (overlooked = "none" => ~ passed))
  BY <1>2, <1>4
<1>9. /\ c \in todo /\ c \in Case /\ passed \in BOOLEAN /\ stored \in BOOLEAN
  BY <1>1, <1>2, <1>3
<1>10. RunsCase(c, passed, stored, file)
  BY <1>5, <1>6, <1>7, <1>8, <1>9 DEF RunsCase
<1> QED BY <1>9, <1>10

\* The verdict, the artifact and the agreement of a case go together.
LEMMA RunCaseInv == IInv /\ RunCase => IInv'
<1> SUFFICES ASSUME IInv, RunCase PROVE IInv'
  OBVIOUS
<1>0. PICK c \in todo, passed \in BOOLEAN, stored \in BOOLEAN : \E file : RunsCase(c, passed, stored, file)
  BY RunCaseIs
<1>p. PICK file : RunsCase(c, passed, stored, file)
  BY <1>0
<1>1. /\ todo' = todo \ {c} /\ c \in Case /\ phase = "cases"
      /\ results' = [d \in DOMAIN results \cup {c} |-> IF d = c THEN passed /\ stored ELSE results[d]]
      /\ args.store => artifacts' = [artifacts EXCEPT ![c] = file]
      /\ ~ args.store => artifacts' = artifacts
      /\ file.kind = "whole" => IsArtifact(c, file)
      /\ args.store /\ stored /\ passed =>
           file.kind = "whole" /\ file.by = runs /\ file.passed /\ file.words = c /\ file.instructions = c
      /\ agreed' = agreed \/ (agreed' = agreed \ {c} /\ (overlooked = "none" => ~ passed))
      /\ UNCHANGED <<corpus, overlooked, runs, args, phase, baselineFailures, reports, mutationsPassed,
                     status, edits>>
  BY <1>p DEF RunsCase
<1>2. c \in args.cases /\ args.cases \subseteq Case /\ args.program = Itself /\ args.program[c] = c
  BY <1>1 DEF IInv, Typed, Arguments, Itself
<1>3. /\ DOMAIN results' = DOMAIN results \cup {c} /\ results' = [d \in DOMAIN results' |-> results'[d]]
      /\ results'[c] = (passed /\ stored) /\ \A d \in DOMAIN results \ {c} : results'[d] = results[d]
  BY <1>1
<1>4. /\ status = NoStatus /\ status' = NoStatus /\ status' # 0 /\ phase' = "cases"
      /\ DOMAIN results = args.cases \ todo
  BY <1>1 DEF IInv, ResultsInv, NoStatus
<1>5. Typed'
  BY <1>1, <1>3 DEF IInv, Typed, InCorpus
<1>6. /\ args.store => artifacts'[c] = file
      /\ \A d \in Case : d # c \/ ~ args.store => artifacts'[d] = artifacts[d]
  BY <1>1 DEF IInv, Typed
<1>7. ArtifactInv'
  <2> SUFFICES ASSUME NEW d \in Case, artifacts'[d].kind = "whole" PROVE IsArtifact(d, artifacts'[d])
    BY DEF ArtifactInv, IsArtifact
  <2>1. CASE d = c /\ args.store
    BY <1>1, <1>6, <2>1
  <2>2. CASE d # c \/ ~ args.store
    BY <1>6, <2>2 DEF IInv, ArtifactInv
  <2> QED BY <2>1, <2>2
<1>8. ResultsInv'
  <2>1. DOMAIN results' = args'.cases \ todo'
    BY <1>1, <1>2, <1>3, <1>4 DEF IInv, Typed
  <2> QED BY <1>1, <1>4, <2>1 DEF ResultsInv, Over
<1>9. EvidenceInv'
  <2> SUFFICES ASSUME args'.store, NEW d \in DOMAIN results', results'[d]
               PROVE  WrittenNow(artifacts[d], d)'
    BY <1>4 DEF EvidenceInv
  <2>0. args' = args /\ runs' = runs /\ args.store
    BY <1>1
  <2>1. CASE d = c
    <3>1. passed /\ stored
      BY <1>3, <2>1
    <3>2. /\ file.kind = "whole" /\ file.by = runs /\ file.passed /\ file.words = c /\ file.instructions = c
          /\ artifacts'[d] = file
      BY <1>1, <1>6, <2>0, <2>1, <3>1
    <3> QED BY <1>2, <2>0, <2>1, <3>2 DEF WrittenNow
  <2>2. CASE d # c
    <3>1. d \in DOMAIN results /\ results[d] /\ d \in Case /\ phase # "idle"
      BY <1>1, <1>2, <1>3, <1>4, <2>2
    <3>2. WrittenNow(artifacts[d], d)
      BY <2>0, <3>1 DEF IInv, EvidenceInv
    <3>3. artifacts'[d] = artifacts[d]
      BY <1>6, <2>2, <3>1
    <3> QED BY <2>0, <3>2, <3>3 DEF WrittenNow
  <2> QED BY <2>1, <2>2
<1>10. MatrixInv'
  <2>1. reports' = reports /\ baselineFailures' = baselineFailures /\ mutationsPassed' = mutationsPassed
        /\ args' = args /\ overlooked' = overlooked /\ phase' = phase /\ status' = status
    BY <1>1
  <2>2. \A r \in reports' : IsMutationReport(r)'
    BY <2>1 DEF IInv, MatrixInv, IsMutationReport
  <2> QED BY <1>4, <2>1, <2>2 DEF IInv, MatrixInv, EveryCategoryLocated, Undetected, Mislocated, None
<1>11. AgreedInv'
  <2> SUFFICES ASSUME overlooked' = "none", NEW d \in args'.cases \ agreed'
               PROVE  d \in DOMAIN results' /\ ~ results'[d]
    BY DEF AgreedInv
  <2>1. overlooked = "none" /\ baselineFailures = {}
    BY <1>1 DEF IInv, MatrixInv
  <2>2. ASSUME d \notin agreed PROVE d \in DOMAIN results /\ ~ results[d]
    BY <1>1, <2>1, <2>2 DEF IInv, AgreedInv
  <2>3. CASE d = c
    <3>1. agreed' = agreed \ {c} /\ ~ passed
      BY <1>1, <1>4, <2>1, <2>2, <2>3
    <3> QED BY <1>3, <2>3, <3>1
  <2>4. CASE d # c
    <3>1. d \notin agreed
      BY <1>1, <2>4
    <3> QED BY <1>3, <2>2, <2>4, <3>1
  <2> QED BY <2>3, <2>4
<1>12. ReportsInv'
  BY <1>1 DEF IInv, ReportsInv
<1> QED BY <1>5, <1>7, <1>8, <1>9, <1>10, <1>11, <1>12 DEF IInv

\* The matrix runs over the cases again, if it was asked for.
LEMMA CasesDoneInv == IInv /\ CasesDone => IInv'
<1> SUFFICES ASSUME IInv, CasesDone PROVE IInv'
  OBVIOUS
<1>1. /\ phase = "cases" /\ todo = {}
      /\ args.mutate => phase' = "mutations" /\ todo' = args.cases
      /\ ~ args.mutate => phase' = "exit" /\ todo' = todo
      /\ UNCHANGED <<corpus, overlooked, runs, args, results, baselineFailures, reports, mutationsPassed,
                     status, artifacts, agreed, edits>>
  BY DEF CasesDone
<1>2. status' = NoStatus /\ status' # 0 /\ DOMAIN results = args.cases
  BY <1>1 DEF IInv, ResultsInv, NoStatus
<1>3. phase' \in {"mutations", "exit"}
  BY <1>1 DEF IInv, Typed, Arguments
<1>4. Typed'
  BY <1>1, <1>3 DEF IInv, Typed, InCorpus
<1>5. ArtifactInv'
  BY <1>1 DEF IInv, ArtifactInv, IsArtifact
<1>6. ResultsInv'
  BY <1>1, <1>2, <1>3 DEF ResultsInv, Over, IInv
<1>7. EvidenceInv'
  BY <1>1, <1>2 DEF IInv, EvidenceInv, WrittenNow
<1>8. MatrixInv'
  <2>1. \A r \in reports' : IsMutationReport(r)'
    BY <1>1 DEF IInv, MatrixInv, IsMutationReport
  <2>2. mutationsPassed' = None /\ baselineFailures' = {} /\ reports' = {}
    BY <1>1 DEF IInv, MatrixInv
  <2> QED BY <1>1, <1>2, <1>3, <2>1, <2>2 DEF MatrixInv, None
<1>9. AgreedInv'
  BY <1>1 DEF IInv, AgreedInv
<1>10. ReportsInv'
  BY <1>1 DEF IInv, MatrixInv, ReportsInv
<1> QED BY <1>4, <1>5, <1>6, <1>7, <1>8, <1>9, <1>10 DEF IInv

-----------------------------------------------------------------------------
(* The mutation matrix.                                                    *)

\* A case whose pair does not pass is a failure; one that passes has a report of
\* each kind.
LEMMA MutateCaseIs ==
  ASSUME IInv, MutateCase
  PROVE  \E c \in todo :
           /\ todo' = todo \ {c} /\ phase = "mutations" /\ baselineFailures \subseteq baselineFailures'
           /\ reports \subseteq reports' /\ Accounted(c)'
           /\ \A r \in reports' \ reports : IsMutationReport(r) /\ r.case = c
           /\ \A r, s \in reports' \ reports : r.kind = s.kind => r = s
           /\ agreed' = agreed \/ (agreed' = agreed \ {c} /\ (overlooked = "none" => c \in baselineFailures'))
           /\ UNCHANGED <<corpus, overlooked, runs, args, phase, results, mutationsPassed, status,
                          artifacts, edits>>
<1>1. PICK c \in todo : c = FirstOf(todo) /\ c \in Case /\ c \in args.cases
  <2>1. FirstOf(todo) \in todo /\ InCorpus \subseteq Case
    BY FirstOfIs DEF MutateCase, IInv, Typed
  <2> QED BY <2>1 DEF IInv, Typed
<1>2. PICK outcome \in Outcomes(c) :
        /\ IF BaselinePasses(c, outcome)
             THEN /\ reports' = reports \cup {Evaluate(c, kind, outcome.sail) : kind \in MutationKind}
                  /\ UNCHANGED baselineFailures
             ELSE /\ baselineFailures' = baselineFailures \cup {c}
                  /\ UNCHANGED reports
        /\ agreed' = IF outcome.ok /\ Agree(Recorded[c], outcome.sail) THEN agreed ELSE agreed \ {c}
  BY <1>1 DEF MutateCase
<1>3. /\ todo' = todo \ {c} /\ phase = "mutations"
      /\ UNCHANGED <<corpus, overlooked, runs, args, phase, results, mutationsPassed, status,
                     artifacts, edits>>
  BY <1>1 DEF MutateCase
<1>4. CASE BaselinePasses(c, outcome)
  <2>1. /\ outcome.ok /\ outcome.sail \in SailTrace[c] /\ IsTrace(outcome.sail) /\ IsTrace(Recorded[c])
        /\ Passed(CompareTraces(Recorded[c], outcome.sail))
    BY <1>1, <1>4, OutcomeIs DEF BaselinePasses
  <2>2. \A kind \in MutationKind :
          LET r == Evaluate(c, kind, outcome.sail) IN IsMutationReport(r) /\ r.case = c /\ r.kind = kind
    BY <1>1, <2>1, EvaluateIs DEF IInv
  <2>3. HasReports(c)'
    <3>1. \A kind \in MutationKind : Evaluate(c, kind, outcome.sail) \in reports'
      BY <1>2, <1>4
    <3> QED BY <2>2, <3>1 DEF HasReports
  <2>4. /\ \A r \in reports' \ reports : IsMutationReport(r) /\ r.case = c
        /\ \A r, s \in reports' \ reports : r.kind = s.kind => r = s
    <3>1. \A r \in reports' \ reports : \E kind \in MutationKind : r = Evaluate(c, kind, outcome.sail)
      BY <1>2, <1>4
    <3>2. \A r \in reports' \ reports : IsMutationReport(r) /\ r.case = c /\ r = Evaluate(c, r.kind, outcome.sail)
      BY <2>2, <3>1
    <3> QED BY <3>2
  <2>5. agreed' = agreed \/ (agreed' = agreed \ {c} /\ overlooked # "none")
    BY <1>2, <2>1, PassedAgrees
  <2>6. Accounted(c)'
    BY <2>3 DEF Accounted
  <2> QED BY <1>1, <1>2, <1>3, <1>4, <2>4, <2>5, <2>6
<1>5. CASE ~ BaselinePasses(c, outcome)
  <2>1. c \in baselineFailures' /\ baselineFailures \subseteq baselineFailures' /\ reports' = reports
    BY <1>2, <1>5
  <2>2. Accounted(c)'
    BY <2>1 DEF Accounted
  <2> QED BY <1>1, <1>2, <1>3, <2>1, <2>2
<1> QED BY <1>4, <1>5

\* A case that the matrix has run stays accounted for.
LEMMA MutateCaseInv == IInv /\ MutateCase => IInv'
<1> SUFFICES ASSUME IInv, MutateCase PROVE IInv'
  OBVIOUS
<1>1. PICK c \in todo :
        /\ todo' = todo \ {c} /\ phase = "mutations" /\ baselineFailures \subseteq baselineFailures'
        /\ reports \subseteq reports' /\ Accounted(c)'
        /\ \A r \in reports' \ reports : IsMutationReport(r) /\ r.case = c
        /\ \A r, s \in reports' \ reports : r.kind = s.kind => r = s
        /\ agreed' = agreed \/ (agreed' = agreed \ {c} /\ (overlooked = "none" => c \in baselineFailures'))
        /\ UNCHANGED <<corpus, overlooked, runs, args, phase, results, mutationsPassed, status,
                       artifacts, edits>>
  BY MutateCaseIs
<1>2. /\ phase' = "mutations" /\ status' = NoStatus /\ status' # 0 /\ DOMAIN results = args.cases
      /\ args.mutate /\ mutationsPassed = None
  BY <1>1 DEF IInv, ResultsInv, MatrixInv, NoStatus, Over
<1>3. Typed'
  BY <1>1 DEF IInv, Typed, InCorpus
<1>4. ArtifactInv'
  BY <1>1 DEF IInv, ArtifactInv, IsArtifact
<1>5. ResultsInv'
  BY <1>1, <1>2 DEF ResultsInv, Over
<1>6. EvidenceInv'
  BY <1>1 DEF IInv, EvidenceInv, WrittenNow
<1>7. MatrixInv'
  <2>1. \A r \in reports' : IsMutationReport(r)'
    <3> SUFFICES ASSUME NEW r \in reports' PROVE IsMutationReport(r)'
      OBVIOUS
    <3>1. IsMutationReport(r)
      BY <1>1 DEF IInv, MatrixInv
    <3> QED BY <1>1, <3>1 DEF IsMutationReport
  <2>2. \A d \in args.cases \ todo : Accounted(d)'
    <3> SUFFICES ASSUME NEW d \in args.cases \ todo PROVE Accounted(d)'
      OBVIOUS
    <3>1. Accounted(d)
      BY <1>1 DEF IInv, MatrixInv
    <3> QED BY <1>1, <3>1 DEF Accounted, HasReports
  <2>3. \A d \in args'.cases \ todo' : Accounted(d)'
    BY <1>1, <2>2
  <2> QED BY <1>1, <1>2, <2>1, <2>3 DEF MatrixInv, None
<1>8. AgreedInv'
  <2> SUFFICES ASSUME overlooked' = "none", NEW d \in args'.cases \ agreed'
               PROVE  (d \in DOMAIN results' /\ ~ results'[d]) \/ d \in baselineFailures'
    BY DEF AgreedInv
  <2>1. CASE d \notin agreed
    BY <1>1, <2>1 DEF IInv, AgreedInv
  <2>2. CASE d \in agreed
    BY <1>1, <2>2
  <2> QED BY <2>1, <2>2
<1>9. ReportsInv'
  <2>1. \A r \in reports : r.case # c /\ r.case \notin todo
    BY <1>1 DEF IInv, ReportsInv
  <2>2. \A r \in reports' : r.case \notin todo'
    BY <1>1, <2>1
  <2>3. \A r, s \in reports' : r.case = s.case /\ r.kind = s.kind => r = s
    BY <1>1, <2>1 DEF IInv, ReportsInv
  <2> QED BY <2>2, <2>3 DEF ReportsInv
<1> QED BY <1>3, <1>4, <1>5, <1>6, <1>7, <1>8, <1>9 DEF IInv

\* The matrix passes only with every category located and no case failed.
LEMMA SummarizeInv == IInv /\ Summarize => IInv'
<1> SUFFICES ASSUME IInv, Summarize PROVE IInv'
  OBVIOUS
<1>1. /\ phase = "mutations" /\ todo = {} /\ phase' = "summary" /\ mutationsPassed' \in {"passed", "failed"}
      /\ mutationsPassed' = "passed" =>
           EveryCategoryLocated /\ baselineFailures = {} /\ Undetected = {} /\ Mislocated = {}
      /\ UNCHANGED <<corpus, overlooked, runs, args, todo, results, baselineFailures, reports, status,
                     artifacts, agreed, edits>>
  BY DEF Summarize
<1>2. status' = NoStatus /\ status' # 0 /\ DOMAIN results = args.cases /\ args.mutate
  BY <1>1 DEF IInv, ResultsInv, MatrixInv, Over, NoStatus
<1>3. Typed'
  BY <1>1 DEF IInv, Typed, InCorpus
<1>4. ArtifactInv'
  BY <1>1 DEF IInv, ArtifactInv, IsArtifact
<1>5. ResultsInv'
  BY <1>1, <1>2 DEF ResultsInv, Over
<1>6. EvidenceInv'
  BY <1>1 DEF IInv, EvidenceInv, WrittenNow
<1>7. MatrixInv'
  <2>1. \A r \in reports' : IsMutationReport(r)'
    BY <1>1 DEF IInv, MatrixInv, IsMutationReport
  <2>2. \A d \in args.cases : Accounted(d)'
    <3>1. \A d \in args.cases : Accounted(d)
      BY <1>1 DEF IInv, MatrixInv
    <3> QED BY <1>1, <3>1 DEF Accounted, HasReports
  <2>3. mutationsPassed' = "passed" =>
          (EveryCategoryLocated /\ baselineFailures = {} /\ Undetected = {} /\ Mislocated = {})'
    BY <1>1 DEF EveryCategoryLocated, Undetected, Mislocated
  <2>4. phase' = "summary" /\ args' = args /\ status' # 0
    BY <1>1, <1>2
  <2> QED BY <1>1, <1>2, <2>1, <2>2, <2>3, <2>4 DEF MatrixInv, None
<1>8. AgreedInv' /\ ReportsInv'
  BY <1>1 DEF IInv, AgreedInv, ReportsInv
<1> QED BY <1>3, <1>4, <1>5, <1>6, <1>7, <1>8 DEF IInv

\* What a step that ends an invocation leaves as it is.
LEMMA EndInv ==
  ASSUME IInv, phase \in {"summary", "exit"}, todo' = todo,
         phase' = "idle" \/ (phase' = "exit" /\ status' = status),
         phase' = "idle" => status' \in {0, 1},
         status' = 0 => (\A c \in DOMAIN results : results[c]) /\ mutationsPassed # "failed",
         UNCHANGED <<corpus, overlooked, runs, args, results, baselineFailures, reports, mutationsPassed,
                     artifacts, agreed, edits>>
  PROVE  IInv'
<1>1. phase # "idle" /\ status = NoStatus /\ DOMAIN results = args.cases /\ todo = {}
  BY DEF IInv, ResultsInv, Over
<1>2. phase' \in {"idle", "exit"} /\ (phase' # "idle" => status' = NoStatus /\ status' # 0)
  BY <1>1 DEF NoStatus
<1>3. Typed'
  BY <1>2 DEF IInv, Typed, InCorpus
<1>4. ArtifactInv'
  BY DEF IInv, ArtifactInv, IsArtifact
<1>5. ResultsInv'
  BY <1>1, <1>2 DEF ResultsInv, Over
<1>6. EvidenceInv'
  <2> SUFFICES ASSUME args'.store, NEW c \in DOMAIN results', results'[c]
               PROVE  WrittenNow(artifacts[c], c)'
    BY DEF EvidenceInv, WrittenNow
  <2>1. WrittenNow(artifacts[c], c)
    BY <1>1 DEF IInv, EvidenceInv
  <2> QED BY <2>1 DEF WrittenNow
<1>7. MatrixInv'
  <2>1. \A r \in reports' : IsMutationReport(r)'
    BY DEF IInv, MatrixInv, IsMutationReport
  <2>2. args.mutate => mutationsPassed \in {"passed", "failed"} /\ \A c \in args.cases : Accounted(c)'
    <3>1. args.mutate => mutationsPassed \in {"passed", "failed"} /\ \A c \in args.cases : Accounted(c)
      BY DEF IInv, MatrixInv
    <3> QED BY <3>1 DEF Accounted, HasReports
  <2>3. mutationsPassed' = "passed" =>
          (EveryCategoryLocated /\ baselineFailures = {} /\ Undetected = {} /\ Mislocated = {})'
    BY DEF IInv, MatrixInv, EveryCategoryLocated, Undetected, Mislocated
  <2>4. ~ args.mutate => mutationsPassed = None /\ baselineFailures = {} /\ reports = {}
    BY DEF IInv, MatrixInv
  <2> QED BY <1>2, <2>1, <2>2, <2>3, <2>4 DEF MatrixInv
<1>8. AgreedInv' /\ ReportsInv'
  BY <1>1 DEF IInv, AgreedInv, ReportsInv
<1> QED BY <1>3, <1>4, <1>5, <1>6, <1>7, <1>8 DEF IInv

\* A summary that cannot be stored ends the program with a failure.
LEMMA StoreSummaryInv == IInv /\ StoreSummary => IInv'
<1> SUFFICES ASSUME IInv, StoreSummary PROVE IInv'
  OBVIOUS
<1>1. status # 0
  BY DEF StoreSummary, IInv, ResultsInv, NoStatus
<1> QED BY <1>1, EndInv DEF StoreSummary

\* Exit status 0 is for a run whose verdicts and whose matrix are clean.
LEMMA ExitInv == IInv /\ Exit => IInv'
<1> SUFFICES ASSUME IInv, Exit PROVE IInv'
  OBVIOUS
<1>1. /\ status' \in {0, 1}
      /\ status' = 0 => (\A c \in DOMAIN results : results[c]) /\ mutationsPassed # "failed"
  BY DEF Exit
<1> QED BY <1>1, EndInv DEF Exit

\* An edit touches the words of a stored program and nothing else of it.
LEMMA EditArtifactInv == \A c \in Case : IInv /\ EditArtifact(c) => IInv'
<1> SUFFICES ASSUME NEW c \in Case, IInv, EditArtifact(c) PROVE IInv'
  OBVIOUS
<1>1. PICK d \in Case \ {c} : artifacts' = [artifacts EXCEPT ![c] = [artifacts[c] EXCEPT !.words = d]]
  BY DEF EditArtifact, Stored
<1>2. /\ phase = "idle" /\ artifacts[c].kind = "whole"
      /\ UNCHANGED <<corpus, overlooked, runs, args, phase, todo, results, baselineFailures, reports,
                     mutationsPassed, status, agreed>>
  BY DEF EditArtifact
<1> DEFINE old == artifacts[c]
           new == [old EXCEPT !.words = d]
<1>3. IsArtifact(c, old)
  BY <1>2 DEF IInv, ArtifactInv
<1>4. new = [kind |-> old.kind, by |-> old.by, passed |-> old.passed, words |-> d,
             instructions |-> old.instructions, traces |-> old.traces]
  BY <1>3 DEF IsArtifact
<1> HIDE DEF new
<1>5. /\ new.kind = old.kind /\ new.by = old.by /\ new.passed = old.passed
      /\ new.instructions = old.instructions /\ new.traces = old.traces /\ new.words = d
  BY <1>4
<1>6. /\ artifacts' = [artifacts EXCEPT ![c] = new] /\ artifacts'[c] = new
      /\ \A e \in Case \ {c} : artifacts'[e] = artifacts[e]
  BY <1>1 DEF IInv, Typed, new
<1> HIDE DEF old
<1>7. Typed'
  BY <1>2, <1>6 DEF IInv, Typed, InCorpus
<1>8. ArtifactInv'
  <2> SUFFICES ASSUME NEW e \in Case, artifacts'[e].kind = "whole" PROVE IsArtifact(e, artifacts'[e])
    BY DEF ArtifactInv, IsArtifact
  <2>1. CASE e = c
    <3>1. new = [kind |-> new.kind, by |-> new.by, passed |-> new.passed, words |-> new.words,
                 instructions |-> new.instructions, traces |-> new.traces]
      BY <1>4, <1>5
    <3>2. IsArtifact(c, new)
      BY <1>3, <1>5, <3>1 DEF IsArtifact
    <3> QED BY <1>6, <2>1, <3>2
  <2>2. CASE e # c
    BY <1>6, <2>2 DEF IInv, ArtifactInv
  <2> QED BY <2>1, <2>2
<1>9. ResultsInv'
  BY <1>2 DEF IInv, ResultsInv, Over
<1>10. EvidenceInv'
  <2> SUFFICES ASSUME args'.store, status' = 0, NEW e \in DOMAIN results', results'[e]
               PROVE  artifacts'[e].kind = "whole" /\ artifacts'[e].by = runs' /\ artifacts'[e].passed
    BY <1>2 DEF EvidenceInv
  <2>1. artifacts[e].kind = "whole" /\ artifacts[e].by = runs /\ artifacts[e].passed
    BY <1>2 DEF IInv, EvidenceInv
  <2>2. e \in Case
    BY <1>2 DEF IInv, ResultsInv, Over, Typed, Arguments
  <2> QED BY <1>2, <1>5, <1>6, <2>1, <2>2 DEF old
<1>11. MatrixInv'
  <2>1. \A r \in reports' : IsMutationReport(r)'
    BY <1>2 DEF IInv, MatrixInv, IsMutationReport
  <2>2. \A e : Accounted(e)' <=> Accounted(e)
    BY <1>2 DEF Accounted, HasReports
  <2> QED BY <1>2, <2>1, <2>2 DEF IInv, MatrixInv, EveryCategoryLocated, Undetected, Mislocated
<1>12. AgreedInv' /\ ReportsInv'
  BY <1>2 DEF IInv, AgreedInv, ReportsInv
<1> QED BY <1>7, <1>8, <1>9, <1>10, <1>11, <1>12 DEF IInv

\* A stuttering step changes nothing.
LEMMA StutterInv == IInv /\ UNCHANGED vars => IInv'
<1> SUFFICES ASSUME IInv, UNCHANGED vars PROVE IInv'
  OBVIOUS
<1>1. UNCHANGED <<corpus, overlooked, runs, args, phase, todo, results, baselineFailures, reports,
                  mutationsPassed, status, artifacts, agreed, edits>>
  BY DEF vars
<1>2. /\ Typed' /\ ArtifactInv'
      /\ ResultsInv' /\ ReportsInv' /\ AgreedInv'
  <2>1. Typed'
    BY <1>1 DEF IInv, Typed, InCorpus
  <2>2. ArtifactInv'
    BY <1>1 DEF IInv, ArtifactInv, IsArtifact
  <2> QED BY <1>1, <2>1, <2>2 DEF IInv, ResultsInv, Over, ReportsInv, AgreedInv
<1>4. EvidenceInv'
  BY <1>1 DEF IInv, EvidenceInv, WrittenNow
<1>3. MatrixInv'
  <2>1. \A r \in reports' : IsMutationReport(r)'
    BY <1>1 DEF IInv, MatrixInv, IsMutationReport
  <2>2. \A e : Accounted(e)' <=> Accounted(e)
    BY <1>1 DEF Accounted, HasReports
  <2> QED BY <1>1, <2>1, <2>2 DEF IInv, MatrixInv, EveryCategoryLocated, Undetected, Mislocated
<1> QED BY <1>2, <1>3, <1>4 DEF IInv

-----------------------------------------------------------------------------
(* The validator: its comparison, its mutations and its count of them.     *)

\* The places where two traces differ: a step counted from 0 and a field.
Places(l, r) ==
  {p \in (0..(Common(l, r) - 1)) \X DOMAIN Fields :
     l.events[p[1] + 1][Fields[p[2]]] # r.events[p[1] + 1][Fields[p[2]]]}
EarliestOf(places) ==
  CHOOSE p \in places : \A q \in places : p[1] < q[1] \/ (p[1] = q[1] /\ p[2] <= q[2])

\* What FirstDifference is made of.
LEMMA FirstDifferenceIs ==
  ASSUME NEW l, NEW r
  PROVE  /\ Places(l, r) # {} =>
              FirstDifference(l, r) = << Fields[EarliestOf(Places(l, r))[2]], EarliestOf(Places(l, r))[1] >>
         /\ Places(l, r) = {} /\ Len(l.events) # Len(r.events) =>
              FirstDifference(l, r) = << "trace_length", Common(l, r) >>
         /\ Places(l, r) = {} /\ Len(l.events) = Len(r.events) /\ l.end # r.end =>
              FirstDifference(l, r) = << "termination", NoStep >>
         /\ Places(l, r) = {} /\ Len(l.events) = Len(r.events) /\ l.end = r.end =>
              FirstDifference(l, r) = << IF l.events = << >> THEN "empty_trace" ELSE "none", NoStep >>
<1> DEFINE P == Places(l, r)
           e == EarliestOf(P)
<1>1. FirstDifference(l, r) =
        CASE P # {} -> << Fields[e[2]], e[1] >>
          [] P = {} /\ Len(l.events) # Len(r.events) -> << "trace_length", Common(l, r) >>
          [] P = {} /\ Len(l.events) = Len(r.events) /\ l.end # r.end -> << "termination", NoStep >>
          [] OTHER -> << IF l.events = << >> THEN "empty_trace" ELSE "none", NoStep >>
  BY DEF FirstDifference, Places, EarliestOf, NoField
<1> HIDE DEF P, e
<1> QED BY <1>1 DEF P, e

\* Of the places where they differ there is an earliest.
LEMMA EarliestIs ==
  ASSUME NEW P, P \subseteq Nat \X Nat, P # {}
  PROVE  EarliestOf(P) \in P
<1> DEFINE S == {p[1] : p \in P}
           i == Least(S)
           T == {p[2] : p \in {q \in P : q[1] = i}}
           j == Least(T)
<1>1. S \in SUBSET Nat /\ S # {}
  OBVIOUS
<1>2. i \in S /\ \A m \in S : i <= m
  <2> HIDE DEF S
  <2> QED BY <1>1, LeastIs
<1>3. \A p \in P : p[1] \in S /\ p[1] \in Nat /\ p[2] \in Nat
  OBVIOUS
<1>4. \E q \in P : q[1] = i
  BY <1>2
<1> HIDE DEF S, i
<1>5. T \in SUBSET Nat /\ T # {}
  BY <1>3, <1>4
<1>6. j \in T /\ \A m \in T : j <= m
  <2> HIDE DEF T
  <2> QED BY <1>5, LeastIs
<1>7. PICK p \in P : p[1] = i /\ p[2] = j
  BY <1>6
<1>8. \A q \in P : q[1] = i => q[2] \in T
  OBVIOUS
<1> HIDE DEF T, j
<1>9. \A q \in P : p[1] < q[1] \/ (p[1] = q[1] /\ p[2] <= q[2])
  <2> SUFFICES ASSUME NEW q \in P PROVE p[1] < q[1] \/ (p[1] = q[1] /\ p[2] <= q[2])
    OBVIOUS
  <2>1. p[1] <= q[1] /\ p[1] \in Nat /\ q[1] \in Nat
    BY <1>2, <1>3, <1>7
  <2>2. q[1] = p[1] => p[2] <= q[2]
    BY <1>6, <1>7, <1>8
  <2> QED BY <2>1, <2>2
<1>10. EarliestOf(P) \in P
  BY <1>9 DEF EarliestOf
<1> QED BY <1>10

\* A place is a step and the number of a field.
LEMMA PlacesAre ==
  ASSUME NEW l, NEW r, Shaped(l), Shaped(r)
  PROVE  /\ Places(l, r) \subseteq Nat \X Nat
         /\ \A p \in Places(l, r) :
              /\ p[1] + 1 \in 1..Common(l, r) /\ p[1] \in Nat /\ p[2] \in 1..8
              /\ l.events[p[1] + 1][Fields[p[2]]] # r.events[p[1] + 1][Fields[p[2]]]
         /\ \A k \in 1..Common(l, r), i \in 1..8 :
              l.events[k][Fields[i]] # r.events[k][Fields[i]] => << k - 1, i >> \in Places(l, r)
<1>1. Common(l, r) \in Nat /\ DOMAIN Fields = 1..8
  BY CommonIs, FieldsAre DEF Shaped, Listed
<1>2. \A p \in Places(l, r) : /\ p \in (0..(Common(l, r) - 1)) \X (1..8)
                              /\ l.events[p[1] + 1][Fields[p[2]]] # r.events[p[1] + 1][Fields[p[2]]]
  BY <1>1 DEF Places
<1>3. ASSUME NEW k \in 1..Common(l, r), NEW i \in 1..8,
             l.events[k][Fields[i]] # r.events[k][Fields[i]]
      PROVE  << k - 1, i >> \in Places(l, r)
  <2>1. << k - 1, i >> \in (0..(Common(l, r) - 1)) \X (1..8) /\ (k - 1) + 1 = k
    BY <1>1
  <2>2. << k - 1, i >>[1] = k - 1 /\ << k - 1, i >>[2] = i
    OBVIOUS
  <2> QED BY <1>1, <1>3, <2>1, <2>2 DEF Places
<1>4. \A p \in Places(l, r) : p[1] + 1 \in 1..Common(l, r) /\ p[1] \in Nat /\ p[2] \in 1..8
                              /\ p \in Nat \X Nat
  BY <1>1, <1>2
<1> QED BY <1>2, <1>3, <1>4

\* Without a place the common prefixes are equal.
LEMMA NoPlace ==
  ASSUME NEW l, NEW r, Shaped(l), Shaped(r)
  PROVE  Places(l, r) = {} <=> \A k \in 1..Common(l, r) : l.events[k] = r.events[k]
<1>1. ASSUME Places(l, r) = {}, NEW k \in 1..Common(l, r) PROVE l.events[k] = r.events[k]
  <2>1. \A i \in 1..8 : l.events[k][Fields[i]] = r.events[k][Fields[i]]
    BY <1>1, PlacesAre
  <2>3. \A f \in FieldName : l.events[k][f] = r.events[k][f]
    <3> SUFFICES ASSUME NEW f \in FieldName PROVE l.events[k][f] = r.events[k][f]
      OBVIOUS
    <3>1. PICK i \in 1..8 : Fields[i] = f
      BY FieldsAre
    <3> QED BY <2>1, <3>1
  <2>2. HasFields(l.events[k]) /\ HasFields(r.events[k])
    <3>1. k \in 1..Len(l.events) /\ k \in 1..Len(r.events)
      BY CommonIs DEF Shaped, Listed
    <3> QED BY <3>1 DEF Shaped, Listed
  <2> QED BY <2>2, <2>3 DEF HasFields
<1>2. ASSUME \A k \in 1..Common(l, r) : l.events[k] = r.events[k] PROVE Places(l, r) = {}
  BY <1>2, PlacesAre
<1> QED BY <1>1, <1>2

\* The validator finds no difference exactly in two equal traces that have events.
LEMMA NoDifference ==
  ASSUME NEW l, NEW r, Shaped(l), Shaped(r)
  PROVE  FirstDifference(l, r) = << "none", NoStep >> <=> l = r /\ l.events # << >>
<1> DEFINE P == Places(l, r)
           e == EarliestOf(P)
<1>1. CASE P # {}
  <2>1. e \in P /\ e[1] \in Nat
    <3>1. P \subseteq Nat \X Nat /\ \A p \in P : p[1] \in Nat
      BY PlacesAre
    <3> HIDE DEF P
    <3> QED BY <1>1, <3>1, EarliestIs
  <2>2. FirstDifference(l, r) = << Fields[e[2]], e[1] >>
    BY <1>1, FirstDifferenceIs
  <2>3. l # r
    <3>1. l = r => \A k \in 1..Common(l, r) : l.events[k] = r.events[k]
      OBVIOUS
    <3> QED BY <1>1, <3>1, NoPlace
  <2> HIDE DEF e
  <2> QED BY <2>1, <2>2, <2>3 DEF NoStep
<1>2. CASE P = {}
  <2>1. \A k \in 1..Common(l, r) : l.events[k] = r.events[k]
    BY <1>2, NoPlace
  <2>2. CASE Len(l.events) # Len(r.events)
    BY <1>2, <2>2, FirstDifferenceIs
  <2>3. CASE Len(l.events) = Len(r.events)
    <3>1. l.events = r.events
      BY <2>1, <2>3 DEF Common, Shaped, Listed
    <3>2. l = r <=> l.end = r.end
      BY <3>1 DEF Shaped
    <3> HIDE DEF P
    <3>3. CASE l.end # r.end
      BY <1>2, <2>3, <3>2, <3>3, FirstDifferenceIs DEF P
    <3>4. CASE l.end = r.end
      <4>1. FirstDifference(l, r) = << IF l.events = << >> THEN "empty_trace" ELSE "none", NoStep >>
        BY <1>2, <2>3, <3>4, FirstDifferenceIs DEF P
      <4> QED BY <3>2, <3>4, <4>1
    <3> QED BY <3>3, <3>4
  <2> QED BY <2>2, <2>3
<1> QED BY <1>1, <1>2

\* The damage to one field of one event is the first difference.
LEMMA DifferenceOfEvent ==
  ASSUME NEW t, Shaped(t), NEW d, NEW k, NEW f, Changed(t, d, k, f)
  PROVE  FirstDifference(d, t) = << f, k - 1 >>
<1> DEFINE P == Places(d, t)
           e == EarliestOf(P)
<1>1. /\ Shaped(d) /\ Common(d, t) = Len(t.events) /\ k \in 1..Len(t.events) /\ f \in FieldName
      /\ Len(t.events) \in Nat
      /\ \A j \in 1..Len(t.events), g \in FieldName :
           d.events[j][g] # t.events[j][g] <=> j = k /\ g = f
  BY DEF Changed, Common, Shaped, Listed
<1>2. PICK i \in 1..8 : Fields[i] = f
  BY <1>1, FieldsAre
<1>3. << k - 1, i >> \in P
  <2>1. d.events[k][Fields[i]] # t.events[k][Fields[i]] /\ k \in 1..Common(d, t)
    BY <1>1, <1>2
  <2> QED BY <1>1, <2>1, PlacesAre
<1>4. \A p \in P : Fields[p[2]] = f /\ p[1] = k - 1
  <2> SUFFICES ASSUME NEW p \in P PROVE Fields[p[2]] = f /\ p[1] = k - 1
    OBVIOUS
  <2>1. /\ p[1] + 1 \in 1..Common(d, t) /\ p[1] \in Nat /\ p[2] \in 1..8
        /\ d.events[p[1] + 1][Fields[p[2]]] # t.events[p[1] + 1][Fields[p[2]]]
    BY <1>1, PlacesAre
  <2>2. Fields[p[2]] \in FieldName
    BY <2>1, FieldsAre
  <2>3. p[1] + 1 = k /\ Fields[p[2]] = f
    BY <1>1, <2>1, <2>2
  <2> QED BY <2>1, <2>3
<1>5. e \in P
  <2>1. P \subseteq Nat \X Nat /\ P # {}
    BY <1>1, <1>3, PlacesAre
  <2> HIDE DEF P
  <2> QED BY <2>1, EarliestIs
<1>6. FirstDifference(d, t) = << Fields[e[2]], e[1] >>
  BY <1>3, FirstDifferenceIs
<1> HIDE DEF e, P
<1> QED BY <1>4, <1>5, <1>6

\* Every damage of the matrix is the first difference to the trace it damaged.
LEMMA DifferenceOfDamage ==
  ASSUME NEW t, IsTrace(t), NEW focus \in Nat, NEW kind \in MutationKind, Applies(kind, t, focus)
  PROVE  FirstDifference(Apply(kind, t, focus), t) = << ExpectedField(kind), DamagedStep(kind, t, focus) >>
<1> DEFINE d == Apply(kind, t, focus)
<1>0. Shaped(t) /\ Len(t.events) \in Nat
  BY TraceShaped DEF Shaped, Listed
<1>1. CASE kind \in EventKind
  <2>1. Changed(t, d, DamagedStep(kind, t, focus) + 1, ExpectedField(kind))
    BY <1>1, ApplyEvent
  <2>2. DamagedStep(kind, t, focus) \in Int
    BY <1>0, <1>1, StepIs
  <2>3. (DamagedStep(kind, t, focus) + 1) - 1 = DamagedStep(kind, t, focus)
    BY <2>2
  <2> QED BY <1>0, <2>1, <2>3, DifferenceOfEvent
<1>2. CASE kind = "trace_length"
  <2>1. /\ Shaped(d) /\ Len(t.events) > 0 /\ Len(d.events) = Len(t.events) - 1
        /\ \A j \in 1..(Len(t.events) - 1) : d.events[j] = t.events[j]
    BY <1>2, ApplyWhole
  <2>2. DamagedStep(kind, t, focus) = Len(t.events) - 1 /\ ExpectedField(kind) = "trace_length"
    BY <1>2 DEF DamagedStep, ExpectedField
  <2> HIDE DEF d
  <2>3. Common(d, t) = Len(t.events) - 1 /\ Len(d.events) # Len(t.events)
    BY <1>0, <2>1 DEF Common
  <2>4. Places(d, t) = {}
    BY <1>0, <2>1, <2>3, NoPlace
  <2> QED BY <2>2, <2>3, <2>4, FirstDifferenceIs DEF d
<1>3. CASE kind = "termination"
  <2>1. Shaped(d) /\ d.events = t.events /\ d.end # t.end
    BY <1>3, ApplyWhole
  <2>2. DamagedStep(kind, t, focus) = NoStep /\ ExpectedField(kind) = "termination"
    BY <1>3 DEF DamagedStep, ExpectedField
  <2> HIDE DEF d
  <2>3. Places(d, t) = {}
    BY <1>0, <2>1, NoPlace
  <2> QED BY <2>1, <2>2, <2>3, FirstDifferenceIs DEF d
<1> QED BY <1>1, <1>2, <1>3 DEF MutationKind, EventKind

\* The writer that the validator damages is the one the program damages.
LEMMA DamagedWriteIs ==
  ASSUME NEW t, Shaped(t), NEW focus \in Nat
  PROVE  /\ WritingSteps(t) # {} <=> WriteIndex(t, focus) # NoEvent
         /\ WritingSteps(t) # {} => DamagedWrite(t, focus) = WriteIndex(t, focus) + 1
<1> DEFINE V == {k \in 0..(Len(t.events) - 1) : t.events[k + 1].register_writes # {}}
           W == WritingSteps(t)
<1>1. Len(t.events) \in Nat /\ DOMAIN t.events = 1..Len(t.events)
  BY DEF Shaped, Listed
<1>2. /\ V \in SUBSET Nat /\ W \in SUBSET Nat
      /\ \A k \in V : k + 1 \in W
      /\ \A k \in W : k - 1 \in V
  <2>1. \A k \in V : k \in Nat /\ k + 1 \in 1..Len(t.events) /\ t.events[k + 1].register_writes # {}
    BY <1>1
  <2>2. \A k \in W : k \in Nat /\ k \in 1..Len(t.events) /\ t.events[k].register_writes # {}
    BY <1>1 DEF WritingSteps
  <2>3. \A k \in W : k - 1 \in V
    <3> SUFFICES ASSUME NEW k \in W PROVE k - 1 \in V
      OBVIOUS
    <3>1. k - 1 \in 0..(Len(t.events) - 1) /\ (k - 1) + 1 = k /\ t.events[k].register_writes # {}
      BY <1>1, <2>2
    <3> QED BY <3>1
  <2>4. \A k \in V : k + 1 \in W
    BY <1>1, <2>1 DEF WritingSteps
  <2> QED BY <2>1, <2>2, <2>3, <2>4
<1>3. WriteIndex(t, focus) = IF focus \in V THEN focus ELSE IF V = {} THEN NoEvent ELSE Least(V)
  BY DEF WriteIndex
<1>4. DamagedWrite(t, focus) = IF focus + 1 \in W THEN focus + 1 ELSE Least(W)
  BY DEF DamagedWrite
<1> HIDE DEF V, W
<1>5. focus \in V <=> focus + 1 \in W
  <2>1. (focus + 1) - 1 = focus
    OBVIOUS
  <2> QED BY <1>2, <2>1
<1>6. V # {} <=> W # {}
  BY <1>2
<1>7. W # {} => Least(W) = Least(V) + 1 /\ Least(V) \in Nat
  <2> SUFFICES ASSUME W # {} PROVE Least(W) = Least(V) + 1 /\ Least(V) \in Nat
    OBVIOUS
  <2>1. Least(V) \in V /\ \A m \in V : Least(V) <= m
    BY <1>2, <1>6, LeastIs
  <2>2. Least(W) \in W /\ \A m \in W : Least(W) <= m
    BY <1>2, LeastIs
  <2>3. Least(V) + 1 \in W /\ Least(W) - 1 \in V /\ Least(V) \in Nat /\ Least(W) \in Nat
    BY <1>2, <2>1, <2>2
  <2>4. Least(W) <= Least(V) + 1 /\ Least(V) <= Least(W) - 1
    BY <2>1, <2>2, <2>3
  <2> QED BY <2>3, <2>4
<1>8. WriteIndex(t, focus) # NoEvent <=> V # {}
  <2>1. CASE V = {}
    BY <1>3, <2>1
  <2>2. CASE V # {}
    <3>1. Least(V) \in Nat
      BY <1>6, <1>7, <2>2
    <3>2. focus # -1 /\ Least(V) # -1
      BY <3>1
    <3> QED BY <1>3, <2>2, <3>2 DEF NoEvent
  <2> QED BY <2>1, <2>2
<1> QED BY <1>3, <1>4, <1>5, <1>6, <1>7, <1>8 DEF W

\* A trace of the corpus is damaged alike by both implementations.
LEMMA MutatedIs ==
  ASSUME NEW t, IsTrace(t), NEW focus \in Nat, focus < Len(t.events), t.end = InjectionComplete,
         NEW kind \in MutationKind
  PROVE  /\ CanMutate(t, kind) <=> Applies(kind, t, focus)
         /\ CanMutate(t, kind) => Mutated(t, kind, focus) = Apply(kind, t, focus)
<1>0. Shaped(t) /\ Len(t.events) \in Nat /\ t.events # << >>
  BY TraceShaped DEF Shaped, Listed
<1>1. EventIndex(t, focus) = focus /\ focus # NoEvent /\ Len(t.events) - 1 # NoEvent
  BY <1>0 DEF EventIndex, NoEvent
<1>2. CASE kind \in {"register_index", "register_value"}
  <2>1. /\ WritingSteps(t) # {} <=> WriteIndex(t, focus) # NoEvent
        /\ WritingSteps(t) # {} => DamagedWrite(t, focus) = WriteIndex(t, focus) + 1
    BY <1>0, DamagedWriteIs
  <2>2. CanMutate(t, kind) <=> Applies(kind, t, focus)
    BY <1>2, <2>1 DEF CanMutate, Applies, DamagedStep
  <2>3. ASSUME CanMutate(t, kind) PROVE Mutated(t, kind, focus) = Apply(kind, t, focus)
    <3> DEFINE k == WriteIndex(t, focus) + 1
               x == t.events[k].register_writes
               w == FirstWrite(x)
    <3>1. DamagedWrite(t, focus) = k /\ DamagedStep(kind, t, focus) + 1 = k
      BY <1>2, <2>1, <2>3 DEF CanMutate, DamagedStep
    <3>2. Mutated(t, kind, focus) = With(t, k, "register_writes", RewriteFirst(x, kind))
      BY <1>2, <3>1 DEF Mutated, With
    <3>3. CASE kind = "register_index"
      <4>1. Apply(kind, t, focus) = With(t, k, "register_writes", Damage(x, [w EXCEPT !.index = NextRegister(@)]))
        BY <3>1, <3>3 DEF Apply, With
      <4>2. [w EXCEPT !.index = NextRegister(@)] = [w EXCEPT !.index = WrappedIndex(@)]
        BY DEF NextRegister, WrappedIndex
      <4>3. RewriteFirst(x, kind) = Damage(x, [w EXCEPT !.index = WrappedIndex(@)])
        BY <3>3 DEF RewriteFirst, Damage
      <4> QED BY <3>2, <4>1, <4>2, <4>3
    <3>4. CASE kind = "register_value"
      <4>1. Apply(kind, t, focus) = With(t, k, "register_writes", Damage(x, [w EXCEPT !.value = FlipLowBit(@)]))
        BY <3>1, <3>4 DEF Apply, With
      <4>2. RewriteFirst(x, kind) = Damage(x, [w EXCEPT !.value = FlipLowBit(@)])
        BY <3>4 DEF RewriteFirst, Damage
      <4> QED BY <3>2, <4>1, <4>2
    <3> QED BY <1>2, <3>3, <3>4
  <2> QED BY <2>2, <2>3
<1>3. CASE kind \notin {"register_index", "register_value"}
  <2>1. CanMutate(t, kind)
    BY <1>3 DEF CanMutate
  <2>2. Applies(kind, t, focus)
    BY <1>1, <1>3 DEF Applies, DamagedStep, MutationKind
  <2> DEFINE k == focus + 1
  <2>3. CASE kind = "pc_after"
    <3>1. Mutated(t, kind, focus) = With(t, k, "pc_after", (t.events[k].pc_after + 2) % WordSize)
      BY <2>3 DEF Mutated, With
    <3>2. DamagedStep(kind, t, focus) + 1 = k
      BY <1>1, <2>3 DEF DamagedStep
    <3>3. Apply(kind, t, focus) = With(t, k, "pc_after", (t.events[k].pc_after + 2) % WordSize)
      BY <2>3, <3>2 DEF Apply, With
    <3> QED BY <2>1, <2>2, <3>1, <3>3
  <2>4. CASE kind = "trap"
    <3>1. Mutated(t, kind, focus) = With(t, k, "trap", ~ t.events[k].trap)
      BY <2>4 DEF Mutated, With
    <3>2. DamagedStep(kind, t, focus) + 1 = k
      BY <1>1, <2>4 DEF DamagedStep
    <3>3. Apply(kind, t, focus) = With(t, k, "trap", InvertTrap(t.events[k].trap))
      BY <2>4, <3>2 DEF Apply, With
    <3>4. InvertTrap(t.events[k].trap) = ~ t.events[k].trap
      BY DEF InvertTrap
    <3> QED BY <2>1, <2>2, <3>1, <3>3, <3>4
  <2>5. CASE kind = "trace_length"
    <3> DEFINE d == [t EXCEPT !.events = SubSeq(t.events, 1, Len(t.events) - 1)]
    <3>1. Mutated(t, kind, focus) = d
      BY <2>5 DEF Mutated
    <3>2. Apply(kind, t, focus) = d
      BY <2>5 DEF Apply
    <3> QED BY <2>1, <2>2, <3>1, <3>2
  <2>6. CASE kind = "termination"
    <3>1. t.end.category # "step_limit"
      BY DEF InjectionComplete, TraceEnd
    <3>2. Mutated(t, kind, focus) = [t EXCEPT !.end = TraceEnd("step_limit", "none")]
      BY <2>6 DEF Mutated
    <3>3. Apply(kind, t, focus) = [t EXCEPT !.end = TraceEnd("step_limit", "none")]
      BY <2>6, <3>1 DEF Apply
    <3> QED BY <2>1, <2>2, <3>2, <3>3
  <2> QED BY <1>3, <2>1, <2>2, <2>3, <2>4, <2>5, <2>6 DEF MutationKind
<1> QED BY <1>2, <1>3

\* One report for each case and kind: as many as there are pairs of them.
LEMMA ReportsCounted ==
  ASSUME NEW S, IsFiniteSet(S), NEW R,
         \A r \in R : r.case \in S /\ r.kind \in MutationKind,
         \A r, s \in R : r.case = s.case /\ r.kind = s.kind => r = s,
         \A c \in S, kind \in MutationKind : \E r \in R : r.case = c /\ r.kind = kind
  PROVE  /\ {<< r.case, r.kind >> : r \in R} = S \X MutationKind
         /\ Cardinality(R) = Cardinality(S \X MutationKind)
<1> DEFINE T == S \X MutationKind
           f == [r \in R |-> << r.case, r.kind >>]
<1>1. IsFiniteSet(MutationKind)
  <2> DEFINE K == [i \in 1..6 |-> IF i = 1 THEN "pc_after" ELSE IF i = 2 THEN "register_index"
                                 ELSE IF i = 3 THEN "register_value" ELSE IF i = 4 THEN "trap"
                                 ELSE IF i = 5 THEN "trace_length" ELSE "termination"]
  <2>1. K \in Surjection(1..6, MutationKind)
    <3>1. /\ K[1] = "pc_after" /\ K[2] = "register_index" /\ K[3] = "register_value"
          /\ K[4] = "trap" /\ K[5] = "trace_length" /\ K[6] = "termination"
      OBVIOUS
    <3>2. K = [i \in 1..6 |-> K[i]]
      OBVIOUS
    <3> HIDE DEF K
    <3>3. \A i \in 1..6 : K[i] \in MutationKind
      BY <3>1 DEF MutationKind
    <3>4. \A kind \in MutationKind : \E i \in 1..6 : K[i] = kind
      BY <3>1 DEF MutationKind
    <3> QED BY <3>2, <3>3, <3>4 DEF Surjection
  <2> HIDE DEF K
  <2>2. IsFiniteSet(1..6)
    <3>1. 1 \in Int /\ 6 \in Int
      OBVIOUS
    <3> QED BY <3>1, FS_Interval, Zenon
  <2> QED BY <2>1, <2>2, FS_Surjection
<1>2. IsFiniteSet(T)
  BY <1>1, FS_Product
<1>3. f \in [R -> T] /\ \A r \in R : f[r] = << r.case, r.kind >>
  OBVIOUS
<1> HIDE DEF f
<1>4. f \in Injection(R, T)
  BY <1>3 DEF Injection, IsInjective
<1>5. f \in Surjection(R, T)
  <2>1. ASSUME NEW p \in T PROVE \E r \in R : f[r] = p
    <3>1. PICK c \in S, kind \in MutationKind : p = << c, kind >>
      OBVIOUS
    <3>2. PICK r \in R : r.case = c /\ r.kind = kind
      OBVIOUS
    <3> QED BY <1>3, <3>1, <3>2
  <2> QED BY <1>3, <2>1 DEF Surjection
<1>6. Cardinality(R) = Cardinality(T)
  <2> HIDE DEF T
  <2> QED BY <1>2, <1>4, <1>5, FS_Injection
<1>7. {<< r.case, r.kind >> : r \in R} = T
  OBVIOUS
<1> QED BY <1>6, <1>7

\* The selected cases are finitely many.
LEMMA CasesFinite == Typed => IsFiniteSet(args.cases)
<1> SUFFICES ASSUME Typed PROVE IsFiniteSet(args.cases)
  OBVIOUS
<1>1. corpus \in Seq(Case)
  BY CorpusAssumption DEF Typed, Case
<1>2. corpus \in Surjection(1..Len(corpus), InCorpus) /\ Len(corpus) \in Nat
  BY <1>1 DEF Surjection, InCorpus
<1>3. IsFiniteSet(1..Len(corpus))
  BY <1>2, FS_Interval
<1>4. IsFiniteSet(InCorpus)
  BY <1>2, <1>3, FS_Surjection
<1> QED BY <1>4, FS_Subset DEF Typed

-----------------------------------------------------------------------------
(* The theorems.                                                           *)

\* Types, artifacts about their cases, verdicts with their evidence, reports
\* that say what the comparison can, and a failure for every disagreement.
THEOREM Invariant == Spec => []IInv
<1>1. Init => IInv
  BY InitInv
<1>2. IInv /\ [Next]_vars => IInv'
  <2> SUFFICES ASSUME IInv, [Next]_vars PROVE IInv'
    OBVIOUS
  <2>1. CASE Invoke \/ InvokeFails \/ Crash
    BY <2>1, InvokeInv, InvokeFailsInv, CrashInv
  <2>2. CASE RunCase \/ CasesDone
    BY <2>2, RunCaseInv, CasesDoneInv
  <2>3. CASE MutateCase \/ Summarize
    BY <2>3, MutateCaseInv, SummarizeInv
  <2>4. CASE StoreSummary \/ Exit
    BY <2>4, StoreSummaryInv, ExitInv
  <2>5. CASE \E c \in Case : EditArtifact(c)
    BY <2>5, EditArtifactInv
  <2>6. CASE UNCHANGED vars
    BY <2>6, StutterInv
  <2> QED BY <2>1, <2>2, <2>3, <2>4, <2>5, <2>6 DEF Next
<1> QED BY <1>1, <1>2, PTL DEF Spec

\* GreenRunAgreed (main.rs, the exit status): with a sound comparison, status 0
\* means that the engines agreed on every selected case each time it was run.
THEOREM AgreedRun == Spec => []GreenRunAgreed
<1>1. IInv => GreenRunAgreed
  <2> SUFFICES ASSUME IInv, status = 0, overlooked = "none" PROVE args.cases \subseteq agreed
    BY DEF GreenRunAgreed
  <2>1. baselineFailures = {}
    BY DEF IInv, MatrixInv, ResultsInv
  <2>2. \A c \in DOMAIN results : results[c]
    BY DEF IInv, ResultsInv
  <2> QED BY <2>1, <2>2 DEF IInv, AgreedInv
<1> QED BY <1>1, Invariant, PTL

\* A blind comparison never names what it overlooks, so it locates no such category.
LEMMA MatrixSeesInv == IInv => PassingMatrixSees
<1> SUFFICES ASSUME IInv, mutationsPassed = "passed", NEW kind \in MutationKind,
                    overlooked = ExpectedField(kind)
             PROVE  FALSE
  BY DEF PassingMatrixSees
<1>1. PICK r \in reports : r.kind = kind /\ Located(r)
  BY DEF IInv, MatrixInv, EveryCategoryLocated
<1>2. IsMutationReport(r) /\ r.applied /\ r.field = overlooked
  BY <1>1 DEF IInv, MatrixInv, Located
<1>3. overlooked \in Expected
  BY DEF MutationKind, ExpectedField, Expected, Whole
<1> QED BY <1>2, <1>3 DEF IsMutationReport

\* PassingMatrixSees (mutation.rs, MutationSummary): a comparison that overlooks
\* what a mandatory mutation damages never passes the matrix.
THEOREM MatrixSees == Spec => []PassingMatrixSees
<1> QED BY MatrixSeesInv, Invariant, PTL

\* SoundComparisonLocates (mutation.rs, evaluate): a sound comparison notices
\* every mutation that applies, at the field and the step that was damaged.
THEOREM SoundLocates == Spec => []SoundComparisonLocates
<1>1. IInv => SoundComparisonLocates
  <2> SUFFICES ASSUME IInv, overlooked = "none", NEW r \in reports, r.applied
               PROVE  /\ Located(r)
                      /\ r.step = DamagedStep(r.kind, Recorded[r.case], Focus[r.case])
    BY DEF SoundComparisonLocates
  <2>1. IsMutationReport(r)
    BY DEF IInv, MatrixInv
  <2>2. overlooked \notin Expected
    BY DEF Expected, Whole
  <2> QED BY <2>1, <2>2 DEF IsMutationReport, Located
<1> QED BY <1>1, Invariant, PTL

\* ArtifactKeepsItsProgram (main.rs, program of an artifact): an edited artifact
\* is refused by a replay, so every stored result stays about its case.
THEOREM ArtifactKept == Spec => []ArtifactKeepsItsProgram
<1>1. IInv => ArtifactKeepsItsProgram
  BY DEF IInv, ArtifactInv, IsArtifact, ArtifactKeepsItsProgram
<1> QED BY <1>1, Invariant, PTL

\* GreenRunHasEvidence (main.rs, "a run whose evidence could not be stored is not
\* a clean pass"): the step to status 0 leaves the evidence of this very run.
THEOREM GreenEvidence == Spec => GreenRunHasEvidence
<1> DEFINE Green == status' = 0 /\ status # 0 /\ args.store => \A c \in args.cases : WrittenNow(artifacts[c], c)
<1>1. IInv /\ [Next]_vars => [Green]_vars
  <2> SUFFICES ASSUME IInv, Next, status' = 0, status # 0, args.store, NEW c \in args.cases
               PROVE  WrittenNow(artifacts[c], c)
    BY DEF Green
  <2>1. Exit
    BY DEF Next, Invoke, InvokeFails, RunCase, CasesDone, MutateCase, Summarize, StoreSummary, Crash,
           EditArtifact, Start, NoStatus
  <2>2. phase = "exit" /\ DOMAIN results = args.cases /\ \A d \in DOMAIN results : results[d]
    BY <2>1 DEF Exit, IInv, ResultsInv, Over
  <2> QED BY <2>2 DEF IInv, EvidenceInv
<1> QED BY <1>1, Invariant, PTL DEF Spec, GreenRunHasEvidence

\* A green run with the matrix: what its results, its reports and its artifacts are.
LEMMA GreenMatrixRun ==
  ASSUME IInv, phase = "idle", status = 0, args.mutate, args.store
  PROVE  /\ DOMAIN results = args.cases /\ (\A c \in DOMAIN results : results[c])
         /\ mutationsPassed = "passed" /\ EveryCategoryLocated
         /\ baselineFailures = {} /\ Undetected = {} /\ Mislocated = {}
         /\ overlooked \notin Expected
         /\ \A c \in args.cases :
              /\ c \in Case /\ IsTrace(Recorded[c]) /\ Focus[c] \in Nat /\ args.program[c] = c
              /\ artifacts[c].kind = "whole" /\ artifacts[c].by = runs /\ artifacts[c].passed
              /\ artifacts[c].instructions = c /\ artifacts[c].traces.ok
              /\ artifacts[c].traces.ckb = Recorded[c] /\ IsTrace(artifacts[c].traces.sail)
<1>1. DOMAIN results = args.cases /\ (\A c \in DOMAIN results : results[c])
  BY DEF IInv, ResultsInv, Over
<1>2. mutationsPassed = "passed"
  BY DEF IInv, ResultsInv, MatrixInv
<1>3. EveryCategoryLocated /\ baselineFailures = {} /\ Undetected = {} /\ Mislocated = {}
  BY <1>2 DEF IInv, MatrixInv
<1>4. overlooked \notin Expected
  <2>1. \A f \in Expected : \E kind \in MutationKind : ExpectedField(kind) = f
    BY DEF Expected, Whole, MutationKind, ExpectedField
  <2> QED BY <1>2, <2>1, MatrixSeesInv DEF PassingMatrixSees
<1>5. ASSUME NEW c \in args.cases
      PROVE  /\ c \in Case /\ IsTrace(Recorded[c]) /\ Focus[c] \in Nat /\ args.program[c] = c
             /\ artifacts[c].kind = "whole" /\ artifacts[c].by = runs /\ artifacts[c].passed
             /\ artifacts[c].instructions = c /\ artifacts[c].traces.ok
             /\ artifacts[c].traces.ckb = Recorded[c] /\ IsTrace(artifacts[c].traces.sail)
  <2>1. c \in Case /\ args.program[c] = c
    BY DEF IInv, Typed, Arguments, Itself
  <2>2. artifacts[c].kind = "whole" /\ artifacts[c].by = runs /\ artifacts[c].passed
    BY <1>1 DEF IInv, EvidenceInv
  <2>3. IsArtifact(c, artifacts[c])
    BY <2>1, <2>2 DEF IInv, ArtifactInv
  <2>4. /\ artifacts[c].instructions = c /\ artifacts[c].traces.ok
        /\ artifacts[c].traces.ckb = Recorded[c] /\ artifacts[c].traces.sail \in SailTrace[c]
    BY <2>2, <2>3 DEF IsArtifact
  <2>5. IsTrace(Recorded[c]) /\ Focus[c] \in Nat /\ IsTrace(artifacts[c].traces.sail)
    BY <2>1, <2>4, TraceAssumption DEF Case
  <2> QED BY <2>1, <2>2, <2>4, <2>5
<1> QED BY <1>1, <1>2, <1>3, <1>4, <1>5

\* Each report of such a run is what the validator computes from two equal traces.
LEMMA ReportChecks ==
  ASSUME IInv, phase = "idle", status = 0, args.mutate, args.store,
         NEW r \in reports, KeptPair(r.case)
  PROVE  CheckMutation(r)
<1> DEFINE c == r.case
           t == Recorded[c]
           focus == Focus[c]
           kind == r.kind
<1>1. IsMutationReport(r) /\ c \in args.cases /\ kind \in MutationKind
  <2>1. IsMutationReport(r)
    BY DEF IInv, MatrixInv
  <2> QED BY <2>1 DEF IsMutationReport
<1>2. /\ c \in Case /\ IsTrace(t) /\ focus \in Nat /\ artifacts[c].traces.ckb = t
      /\ overlooked \notin Expected
  BY <1>1, GreenMatrixRun
<1>3. artifacts[c].traces.sail = t /\ InDomain(t, Words[c])
  BY DEF KeptPair
<1>4. focus < Len(t.events) /\ t.end = InjectionComplete
  BY <1>2, <1>3, WordsAssumption DEF InDomain, Case
<1>5. /\ CanMutate(t, kind) <=> Applies(kind, t, focus)
      /\ CanMutate(t, kind) => Mutated(t, kind, focus) = Apply(kind, t, focus)
  BY <1>1, <1>2, <1>4, MutatedIs
<1>6. Applies(kind, t, focus) =>
        FirstDifference(Apply(kind, t, focus), t) = << ExpectedField(kind), DamagedStep(kind, t, focus) >>
  BY <1>1, <1>2, DifferenceOfDamage
<1>7. /\ r.applied <=> Applies(kind, t, focus)
      /\ ~ r.applied => r.field = "none" /\ r.step = NoStep
      /\ r.applied => r.field = ExpectedField(kind) /\ r.step = DamagedStep(kind, t, focus)
  BY <1>1, <1>2 DEF IsMutationReport
<1>8. CheckMutation(r) <=>
        LET found == FirstDifference(Mutated(t, kind, focus), t)
        IN  IF ~ CanMutate(t, kind) THEN ~ r.applied /\ r.field = NoField /\ r.step = NoStep
            ELSE found[1] = ExpectedField(kind) /\ r.applied /\ found = << r.field, r.step >>
  BY <1>2, <1>3 DEF CheckMutation
<1> HIDE DEF c, t, focus, kind
<1>9. CASE ~ CanMutate(t, kind)
  BY <1>5, <1>7, <1>8, <1>9 DEF NoField
<1>10. CASE CanMutate(t, kind)
  <2>1. /\ FirstDifference(Mutated(t, kind, focus), t) = << ExpectedField(kind), DamagedStep(kind, t, focus) >>
        /\ r.applied /\ r.field = ExpectedField(kind) /\ r.step = DamagedStep(kind, t, focus)
    BY <1>5, <1>6, <1>7, <1>10
  <2>2. << ExpectedField(kind), DamagedStep(kind, t, focus) >>[1] = ExpectedField(kind)
    OBVIOUS
  <2> QED BY <1>8, <1>10, <2>1, <2>2
<1> QED BY <1>9, <1>10

\* ValidatorIsExact (runtime_evidence.py, validate): it accepts a green corpus run
\* with the matrix exactly when the artifacts of that run hold two equal traces of
\* the corpus for each case, whatever the program's own comparison overlooks.
THEOREM ExactValidator == Spec => []ValidatorIsExact
<1>1. IInv => ValidatorIsExact
  <2> SUFFICES ASSUME IInv, phase = "idle", status = 0, args.mode = "corpus", args.policy = "exact",
                      args.mutate, args.store, Cardinality(args.cases) >= MinimumCases
               PROVE  Validate <=> \A c \in args.cases : KeptPair(c)
    BY DEF ValidatorIsExact
  <2>1. /\ DOMAIN results = args.cases /\ (\A c \in DOMAIN results : results[c])
        /\ mutationsPassed = "passed" /\ EveryCategoryLocated
        /\ baselineFailures = {} /\ Undetected = {} /\ Mislocated = {}
    BY GreenMatrixRun
  <2>2. \A c \in args.cases :
          /\ c \in Case /\ IsTrace(Recorded[c]) /\ Focus[c] \in Nat /\ args.program[c] = c
          /\ artifacts[c].kind = "whole" /\ artifacts[c].by = runs /\ artifacts[c].passed
          /\ artifacts[c].instructions = c /\ artifacts[c].traces.ok
          /\ artifacts[c].traces.ckb = Recorded[c] /\ IsTrace(artifacts[c].traces.sail)
    BY GreenMatrixRun
  <2>3. ASSUME NEW c \in args.cases
        PROVE  /\ FirstDifference(artifacts[c].traces.ckb, artifacts[c].traces.sail) = << NoField, NoStep >>
                    <=> artifacts[c].traces.sail = Recorded[c] /\ Recorded[c].events # << >>
    <3>1. Shaped(artifacts[c].traces.ckb) /\ Shaped(artifacts[c].traces.sail)
      BY <2>2, TraceShaped
    <3> QED BY <2>2, <3>1, NoDifference DEF NoField
  <2>4. ASSUME Validate, NEW c \in args.cases PROVE KeptPair(c)
    <3>1. CheckCase(c)
      BY <2>1, <2>4 DEF Validate
    <3>2. artifacts[c].words = c /\ InDomain(Recorded[c], Words[c]) /\ artifacts[c].traces.sail = Recorded[c]
      BY <2>2, <2>3, <3>1 DEF CheckCase
    <3> QED BY <2>2, <3>2 DEF KeptPair, WrittenNow
  <2>5. ASSUME \A c \in args.cases : KeptPair(c) PROVE Validate
    <3>1. ASSUME NEW c \in args.cases PROVE CheckCase(c)
      <4>1. KeptPair(c) /\ artifacts[c].words = c /\ artifacts[c].traces.sail = Recorded[c]
            /\ InDomain(Recorded[c], Words[c])
        BY <2>2, <2>5 DEF KeptPair, WrittenNow
      <4>2. Recorded[c].events # << >>
        <5>1. Focus[c] < Len(Recorded[c].events) /\ Focus[c] \in Nat
          BY <2>2, <4>1, WordsAssumption DEF InDomain, Case
        <5> QED BY <5>1
      <4>3. FirstDifference(artifacts[c].traces.ckb, artifacts[c].traces.sail) = << NoField, NoStep >>
        BY <2>3, <4>1, <4>2
      <4> QED BY <2>1, <2>2, <4>1, <4>3 DEF CheckCase
    <3>2. /\ \A r \in reports : r.case \in args.cases /\ r.kind \in MutationKind
          /\ \A r, s \in reports : r.case = s.case /\ r.kind = s.kind => r = s
          /\ \A c \in args.cases, kind \in MutationKind : \E r \in reports : r.case = c /\ r.kind = kind
      <4>1. \A r \in reports : IsMutationReport(r)
        BY DEF IInv, MatrixInv
      <4>2. \A c \in args.cases : HasReports(c)
        BY <2>1 DEF IInv, MatrixInv, Accounted
      <4> QED BY <4>1, <4>2 DEF IInv, ReportsInv, IsMutationReport, HasReports
    <3>3. /\ {<< r.case, r.kind >> : r \in reports} = args.cases \X MutationKind
          /\ Cardinality(reports) = Cardinality(args.cases \X MutationKind)
      BY <3>2, CasesFinite, ReportsCounted DEF IInv
    <3>4. \A r \in reports : CheckMutation(r)
      BY <2>5, <3>2, ReportChecks
    <3>5. \A kind \in MutationKind : \E r \in reports : r.kind = kind /\ r.applied
      BY <2>1 DEF EveryCategoryLocated, Located
    <3>6. CheckMutations(args.cases)
      BY <2>1, <3>3, <3>4, <3>5 DEF CheckMutations
    <3> QED BY <2>1, <3>1, <3>6 DEF Validate
  <2> QED BY <2>4, <2>5
<1> QED BY <1>1, Invariant, PTL
=============================================================================
