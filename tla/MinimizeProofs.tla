--------------------------- MODULE MinimizeProofs ---------------------------
(***************************************************************************)
(* Proofs about Minimize for any program, any behaviour of the builds of   *)
(* the runner, any budget and any number of edits: a certificate on disk   *)
(* is true of the runner and of the source it names, and the exit status,  *)
(* the report and the certificate agree.                                   *)
(*                                                                         *)
(* Two ideas carry it.  No edit restores a former content, so a hash that  *)
(* is the same before and after a replay encloses the same runner.  And    *)
(* the order of the search puts every shorter candidate before a longer    *)
(* one, so what is accepted has only rejected ones below it.               *)
(***************************************************************************)
EXTENDS Minimize, FiniteSetTheorems, WellFoundedInduction, TLAPS

RowStatus == {"running", "observed", "failed"}
Row == [indices : Selections, status : RowStatus, mismatch : BOOLEAN]

IsReport(r) ==
  /\ r = [status |-> r.status, minimum_proved |-> r.minimum_proved, source |-> r.source,
          script |-> r.script, runner |-> r.runner, trials |-> r.trials, minimal |-> r.minimal]
  /\ r.minimum_proved \in BOOLEAN
  /\ r.trials \in Seq(Row)

InTrial == {"trial", "replay", "judge", "decide", "certify"}
Working == InTrial \cup {"identify", "certified", "close"}
Places == Working \cup {"hash", "read", "done"}

Typed ==
  /\ pc \in Places
  /\ files \in [File -> Nat]
  /\ goal \in {"reproduce", "search", "confirm"}
  /\ tried \subseteq Selections
  /\ candidate \in Selections /\ input \in Selections
  /\ replayed.indices \in Selections /\ replayed.mismatch \in BOOLEAN
  /\ maxEvaluations \in Nat
  /\ IsReport(report)
  /\ pc = "replay" \/ pc = "judge" => report.trials # << >>

\* What a report names was the content of its file when it was hashed.
Hashed ==
  /\ report.source \in Nat /\ report.source <= files["original"]
  /\ pc = "hash" => report.source = 0
  /\ pc \in Working => report.source <= read /\ read \in Nat /\ read <= files["original"]
  /\ pc \in InTrial => report.runner \in Nat /\ report.runner <= files["runner"]

\* The replay was of a build between the hash and now.
Observed ==
  pc = "judge" =>
    \E v \in report.runner..files["runner"] :
      replayed.mismatch <=> Program[replayed.indices] \in behaviour[v]

\* The search rejected only what did not show the mismatch, and everything
\* shorter than the candidate.
Searched ==
  /\ pc \in {"hash", "read", "identify"} => goal = "reproduce" /\ tried = {}
  /\ pc \in InTrial =>
       /\ \A c \in tried : Program[c] \notin behaviour[report.runner]
       /\ goal # "reproduce" =>
            \A c \in Selections : Cardinality(c) < Cardinality(candidate) => c \in tried
       /\ pc = "decide" => (replayed.mismatch <=> Program[candidate] \in behaviour[report.runner])
       /\ pc = "certify" => goal = "confirm" /\ Program[candidate] \in behaviour[report.runner]

IsMinimal(r) ==
  /\ Program[r.minimal] \in behaviour[r.runner]
  /\ \A c \in Selections :
       Cardinality(c) < Cardinality(r.minimal) => Program[c] \notin behaviour[r.runner]

\* A report claims a minimum only after the search, and rightly.
Claimed ==
  report.minimum_proved =>
    /\ pc \in {"certified", "close", "done"}
    /\ report.source = read
    /\ IsMinimal(report)
    /\ report.status = "minimized" \/ interrupted

\* How the report in memory stands at each place, and the status of the program.
Reported ==
  /\ pc \notin {"certified", "close", "done"} => report.status = "running"
  /\ pc = "certified" => report.minimum_proved /\ report.status = "minimized"
  /\ pc \notin {"close", "done"} => returned = NoStatus
  /\ pc = "close" /\ returned = 0 => report.minimum_proved /\ report.status = "minimized"
  /\ report.status = "incomplete" => /\ ~ report.minimum_proved
                                     /\ Len(report.trials) = maxEvaluations
  /\ Len(report.trials) <= maxEvaluations

\* The disk has the report of a moment, and a certificate only at the end.
Stored ==
  /\ disk.minimum_proved => disk = report /\ pc = "done"
  /\ disk.status = "incomplete" => ~ disk.minimum_proved /\ Len(disk.trials) = maxEvaluations
  /\ pc = "done" /\ returned = 0 => disk.minimum_proved /\ disk.status = "minimized"

IInv == Typed /\ Hashed /\ Observed /\ Searched /\ Claimed /\ Reported /\ Stored

-----------------------------------------------------------------------------
(* The order of the search.                                                *)

\* Selections are nonempty finite sets of positions.
LEMMA SelectionFacts ==
  /\ Len(Words) \in Nat /\ Len(Words) >= 1 /\ Whole = 1..Len(Words)
  /\ Whole \in Selections
  /\ Candidates \subseteq Selections
  /\ \A c \in Selections : /\ c \in SUBSET (1..Len(Words)) /\ IsFiniteSet(c)
                           /\ Cardinality(c) \in Nat /\ Cardinality(c) <= Cardinality(Whole)
<1>1. Len(Words) \in Nat /\ Len(Words) >= 1 /\ Whole = 1..Len(Words)
  BY WordsAssumption DEF Whole
<1>2. Whole \in Selections /\ Candidates \subseteq Selections
  BY <1>1 DEF Selections, Candidates
<1>3. ASSUME NEW c \in Selections
      PROVE  /\ c \in SUBSET (1..Len(Words)) /\ IsFiniteSet(c)
             /\ Cardinality(c) \in Nat /\ Cardinality(c) <= Cardinality(Whole)
  <2>1. c \in SUBSET Whole
    BY DEF Selections
  <2>2. IsFiniteSet(Whole)
    BY <1>1, FS_Interval
  <2>3. IsFiniteSet(c) /\ Cardinality(c) <= Cardinality(Whole)
    BY <2>1, <2>2, FS_Subset
  <2> QED BY <1>1, <2>1, <2>3, FS_CardinalityType
<1> QED BY <1>1, <1>2, <1>3

\* A nonempty set of numbers has a smallest element.
LEMMA LeastExists ==
  ASSUME NEW S \in SUBSET Nat, S # {}
  PROVE  \E n \in S : \A m \in S : n <= m
<1> DEFINE R == OpToRel(<, Nat)
<1>1. IsWellFoundedOn(R, Nat)
  BY NatLessThanWellFounded
<1>2. \A x, y \in Nat : x < y => <<x, y>> \in R
  BY DEF OpToRel
<1> HIDE DEF R
<1>3. PICK n \in S : \A m \in S : ~ (<<m, n>> \in R)
  BY <1>1, WFMin
<1>4. ASSUME NEW m \in S PROVE n <= m
  <2>1. n \in Nat /\ m \in Nat
    BY <1>3
  <2>2. ~ (m < n)
    BY <1>2, <1>3, <2>1
  <2> QED BY <2>1, <2>2
<1> QED BY <1>3, <1>4

\* The size and then the positions, as a number sequence: an absent position
\* counts more than a present one.
Rank(c) == [k \in 1..(Len(Words) + 1) |->
              IF k = 1 THEN Cardinality(c) ELSE IF k - 1 \in c THEN 0 ELSE 1]
Ranks == LexProductOrdering(OpToRel(<, Nat), Nat, Len(Words) + 1)

\* Two selections of which the first does not come before are ranked the other way.
LEMMA BeforeOrRanked ==
  ASSUME NEW c \in Selections, NEW d \in Selections, c # d, ~ Before(c, d)
  PROVE  <<Rank(d), Rank(c)>> \in Ranks
<1> DEFINE N == Len(Words) + 1
           R == OpToRel(<, Nat)
<1>1. /\ N \in Nat /\ N >= 1
      /\ c \in SUBSET (1..(N - 1)) /\ d \in SUBSET (1..(N - 1))
      /\ Cardinality(c) \in Nat /\ Cardinality(d) \in Nat
  BY SelectionFacts
<1>2. \A x, y \in Nat : x < y => <<x, y>> \in R
  BY DEF OpToRel
<1>3. Rank(c) \in [1..N -> Nat] /\ Rank(d) \in [1..N -> Nat]
  BY <1>1 DEF Rank
<1>4. ASSUME NEW j \in 1..N, \A i \in 1..(j - 1) : Rank(d)[i] = Rank(c)[i], Rank(d)[j] < Rank(c)[j]
      PROVE  <<Rank(d), Rank(c)>> \in Ranks
  <2>1. <<Rank(d)[j], Rank(c)[j]>> \in R
    BY <1>2, <1>3, <1>4
  <2> HIDE DEF R
  <2>2. <<Rank(d), Rank(c)>> \in LexProductOrdering(R, Nat, N)
    BY <1>3, <1>4, <2>1 DEF LexProductOrdering
  <2> QED BY <2>2 DEF Ranks, R
<1>5. CASE Cardinality(d) < Cardinality(c)
  <2>1. 1 \in 1..N /\ Rank(d)[1] < Rank(c)[1]
    BY <1>1, <1>5 DEF Rank
  <2> QED BY <1>4, <2>1
<1>6. CASE ~ (Cardinality(d) < Cardinality(c))
  <2> DEFINE D == (c \cup d) \ (c \cap d)
  <2>1. Cardinality(c) = Cardinality(d)
    BY <1>1, <1>6 DEF Before
  <2>2. D \in SUBSET Nat /\ D # {}
    <3>1. \A x \in c \cup d : x \in Nat
      BY <1>1
    <3>2. \E x \in c \cup d : ~ (x \in c <=> x \in d)
      OBVIOUS
    <3> QED BY <3>1, <3>2
  <2>3. PICK i \in D : \A m \in D : i <= m
    BY <2>2, LeastExists
  <2>4. i \in d \ c
    BY <2>1, <2>3 DEF Before
  <2>5. i \in 1..(N - 1) /\ i + 1 \in 1..N
    BY <1>1, <2>4
  <2>6. Rank(d)[i + 1] = 0 /\ Rank(c)[i + 1] = 1
    BY <2>4, <2>5 DEF Rank
  <2>7. \A k \in 1..((i + 1) - 1) : Rank(d)[k] = Rank(c)[k]
    <3> SUFFICES ASSUME NEW k \in 1..i PROVE Rank(d)[k] = Rank(c)[k]
      BY <2>5
    <3>1. CASE k = 1
      BY <1>1, <2>1, <3>1 DEF Rank
    <3>2. CASE k # 1
      <4>1. k \in 1..N /\ k - 1 < i /\ k - 1 \in Nat
        BY <2>5, <3>2
      <4>2. k - 1 \notin D
        BY <2>2, <2>3, <4>1
      <4>3. k - 1 \in c <=> k - 1 \in d
        BY <4>2
      <4> QED BY <3>2, <4>1, <4>3 DEF Rank
    <3> QED BY <3>1, <3>2
  <2> QED BY <1>4, <2>5, <2>6, <2>7
<1> QED BY <1>5, <1>6

\* FirstOf is well defined: it is one of the candidates, and none is shorter.
LEMMA FirstOfIs ==
  ASSUME NEW S \in SUBSET Selections, S # {}
  PROVE  /\ FirstOf(S) \in S
         /\ \A d \in S : Cardinality(FirstOf(S)) <= Cardinality(d)
<1> DEFINE T == {Rank(c) : c \in S}
           N == Len(Words) + 1
<1>1. N \in Nat /\ T \subseteq [1..N -> Nat] /\ T # {}
  <2>1. N \in Nat /\ \A c \in S : Cardinality(c) \in Nat
    BY SelectionFacts
  <2>2. \A c \in S : Rank(c) \in [1..N -> Nat]
    BY <2>1 DEF Rank
  <2> QED BY <2>1, <2>2
<1>2. IsWellFoundedOn(Ranks, [1..N -> Nat])
  <2>1. N \in Nat
    BY <1>1
  <2> HIDE DEF N
  <2>2. IsWellFoundedOn(LexProductOrdering(OpToRel(<, Nat), Nat, N), [1..N -> Nat])
    BY <2>1, NatLessThanWellFounded, WFLexProductOrdering
  <2> QED BY <2>2 DEF Ranks, N
<1>3. PICK x \in T : \A y \in T : ~ (<<y, x>> \in Ranks)
  <2> HIDE DEF T, N
  <2> QED BY <1>1, <1>2, WFMin
<1>4. PICK c \in S : x = Rank(c)
  BY <1>3
<1>5. \A d \in S \ {c} : Before(c, d)
  BY <1>3, <1>4, BeforeOrRanked
<1>6. FirstOf(S) \in S /\ \A d \in S \ {FirstOf(S)} : Before(FirstOf(S), d)
  BY <1>4, <1>5 DEF FirstOf
<1>7. \A d \in S : Cardinality(d) \in Nat
  BY SelectionFacts
<1> QED BY <1>6, <1>7 DEF Before

-----------------------------------------------------------------------------
(* The changes of the report.                                              *)

\* What the statements that write one field of the report change.
LEMMA SourceIs ==
  ASSUME NEW r, IsReport(r), NEW v, NEW e, e = [r EXCEPT !.source = v]
  PROVE  /\ IsReport(e) /\ e.status = r.status /\ e.source = v /\ e.runner = r.runner
         /\ e.trials = r.trials /\ e.minimum_proved = r.minimum_proved
<1>1. e = [status |-> r.status, minimum_proved |-> r.minimum_proved, source |-> v,
           script |-> r.script, runner |-> r.runner, trials |-> r.trials, minimal |-> r.minimal]
  BY DEF IsReport
<1> QED BY <1>1 DEF IsReport

\* Hashing the script changes that field of the report alone.
LEMMA ScriptIs ==
  ASSUME NEW r, IsReport(r), NEW v, NEW e, e = [r EXCEPT !.script = v]
  PROVE  /\ IsReport(e) /\ e.status = r.status /\ e.source = r.source /\ e.runner = r.runner
         /\ e.trials = r.trials /\ e.minimum_proved = r.minimum_proved
<1>1. e = [status |-> r.status, minimum_proved |-> r.minimum_proved, source |-> r.source,
           script |-> v, runner |-> r.runner, trials |-> r.trials, minimal |-> r.minimal]
  BY DEF IsReport
<1> QED BY <1>1 DEF IsReport

\* Hashing the runner changes that field of the report alone.
LEMMA RunnerIs ==
  ASSUME NEW r, IsReport(r), NEW v, NEW e, e = [r EXCEPT !.runner = v]
  PROVE  /\ IsReport(e) /\ e.status = r.status /\ e.source = r.source /\ e.runner = v
         /\ e.trials = r.trials /\ e.minimum_proved = r.minimum_proved
<1>1. e = [status |-> r.status, minimum_proved |-> r.minimum_proved, source |-> r.source,
           script |-> r.script, runner |-> v, trials |-> r.trials, minimal |-> r.minimal]
  BY DEF IsReport
<1> QED BY <1>1 DEF IsReport

\* A new list of trials changes that field of the report alone.
LEMMA TrialsIs ==
  ASSUME NEW r, IsReport(r), NEW v \in Seq(Row), NEW e, e = [r EXCEPT !.trials = v]
  PROVE  /\ IsReport(e) /\ e.status = r.status /\ e.source = r.source /\ e.runner = r.runner
         /\ e.trials = v /\ e.minimum_proved = r.minimum_proved
<1>1. e = [status |-> r.status, minimum_proved |-> r.minimum_proved, source |-> r.source,
           script |-> r.script, runner |-> r.runner, trials |-> v, minimal |-> r.minimal]
  BY DEF IsReport
<1> QED BY <1>1 DEF IsReport

\* Certify writes three.
LEMMA CertifyFields ==
  ASSUME NEW r, IsReport(r), NEW status, NEW proved, NEW minimal
  PROVE  [r EXCEPT !.status = status, !.minimum_proved = proved, !.minimal = minimal]
         = [status |-> status, minimum_proved |-> proved, source |-> r.source, script |-> r.script,
            runner |-> r.runner, trials |-> r.trials, minimal |-> minimal]
<1> DEFINE R == [status |-> r.status, minimum_proved |-> r.minimum_proved, source |-> r.source,
                 script |-> r.script, runner |-> r.runner, trials |-> r.trials, minimal |-> r.minimal]
           P == [status |-> status, minimum_proved |-> r.minimum_proved, source |-> r.source,
                 script |-> r.script, runner |-> r.runner, trials |-> r.trials, minimal |-> r.minimal]
           Q == [status |-> status, minimum_proved |-> proved, source |-> r.source,
                 script |-> r.script, runner |-> r.runner, trials |-> r.trials, minimal |-> r.minimal]
           First(x) == [x EXCEPT !.status = status]
           Second(x) == [x EXCEPT !.minimum_proved = proved]
           Third(x) == [x EXCEPT !.minimal = minimal]
<1>1. r = R
  BY DEF IsReport
<1>2. First(R) = P
  OBVIOUS
<1>3. Second(P) = Q
  OBVIOUS
<1>4. Third(Q) = [status |-> status, minimum_proved |-> proved, source |-> r.source, script |-> r.script,
                  runner |-> r.runner, trials |-> r.trials, minimal |-> minimal]
  OBVIOUS
<1>5. [r EXCEPT !.status = status, !.minimum_proved = proved, !.minimal = minimal]
        = Third(Second(First(r)))
  BY Zenon
<1>6. First(r) = P
  <2> HIDE DEF R, P, First
  <2> QED BY <1>1, <1>2
<1>7. Third(Second(First(r))) = Third(Q)
  <2> HIDE DEF P, Q, First, Second, Third
  <2> QED BY <1>3, <1>6
<1> HIDE DEF R, P, Q, First, Second, Third
<1> QED BY <1>4, <1>5, <1>7, Zenon

\* EndRow changes the last row only.
LEMMA EndRowIs ==
  ASSUME IsReport(report), report.trials # << >>, NEW status \in RowStatus, NEW mismatch \in BOOLEAN
  PROVE  \E trials \in Seq(Row) :
           /\ Len(trials) = Len(report.trials)
           /\ EndRow(status, mismatch)
                = [status |-> report.status, minimum_proved |-> report.minimum_proved,
                   source |-> report.source, script |-> report.script, runner |-> report.runner,
                   trials |-> trials, minimal |-> report.minimal]
<1> DEFINE last == Len(report.trials)
           row == [indices |-> report.trials[last].indices, status |-> status, mismatch |-> mismatch]
           trials == [report.trials EXCEPT ![last] = row]
<1>1. report.trials \in Seq(Row) /\ last \in 1..last
  BY DEF IsReport
<1>2. row \in Row
  <2>1. report.trials[last] \in Row
    BY <1>1
  <2> QED BY <2>1 DEF Row
<1>3. trials \in Seq(Row) /\ Len(trials) = last
  <2> HIDE DEF row
  <2> QED BY <1>1, <1>2
<1>4. EndRow(status, mismatch) = [report EXCEPT !.trials = trials]
  BY DEF EndRow
<1>5. [report EXCEPT !.trials = trials]
        = [status |-> report.status, minimum_proved |-> report.minimum_proved,
           source |-> report.source, script |-> report.script, runner |-> report.runner,
           trials |-> trials, minimal |-> report.minimal]
  <2> HIDE DEF trials
  <2> QED BY DEF IsReport
<1> HIDE DEF trials
<1> QED BY <1>3, <1>4, <1>5

-----------------------------------------------------------------------------
(* The invariant holds initially and every action preserves it.            *)

LEMMA PlaceFacts ==
  /\ InTrial \subseteq Working /\ Working \subseteq Places
  /\ \A x \in InTrial \cup {"identify"} : x \notin {"hash", "read", "certified", "close", "done"}
  /\ "close" \in Working \ InTrial
BY DEF InTrial, Working, Places

\* Nothing is hashed, read or tried at the start.
LEMMA InitInv == Init => IInv
<1> SUFFICES ASSUME Init PROVE IInv
  OBVIOUS
<1>1. /\ pc = "hash" /\ goal = "reproduce" /\ tried = {} /\ candidate = Whole /\ input = Whole
      /\ files = [f \in File |-> 0] /\ read = 0
      /\ replayed = [indices |-> Whole, mismatch |-> FALSE]
      /\ disk = Missing /\ returned = NoStatus
      /\ report = [status |-> "running", minimum_proved |-> FALSE, source |-> 0, script |-> 0,
                   runner |-> 0, trials |-> << >>, minimal |-> {}]
  BY DEF Init
<1>2. maxEvaluations \in Nat
  BY BudgetsAssumption DEF Init
<1>3. /\ report.status = "running" /\ report.source = 0 /\ report.trials = << >>
      /\ ~ report.minimum_proved /\ IsReport(report)
  <2>1. << >> \in Seq(Row)
    OBVIOUS
  <2> QED BY <1>1, <2>1 DEF IsReport
<1>4. Typed
  BY <1>1, <1>2, <1>3, SelectionFacts DEF Typed, Places
<1>5. Hashed /\ Observed /\ Searched
  BY <1>1, <1>3 DEF Hashed, Observed, Searched, Working, InTrial, File
<1>6. Claimed /\ Reported
  BY <1>1, <1>2, <1>3 DEF Claimed, Reported
<1>7. Stored
  <2>1. disk.status = "missing" /\ ~ disk.minimum_proved
    BY <1>1 DEF Missing
  <2> QED BY <1>1, <2>1 DEF Stored
<1> QED BY <1>4, <1>5, <1>6, <1>7 DEF IInv

\* What the disk may hold before the end claims nothing.
NoClaim(d) == ~ d.minimum_proved /\ (d.status = "incomplete" => Len(d.trials) = maxEvaluations)

\* Before the run is done, nothing on disk makes a claim.
LEMMA NoClaimIs ==
  ASSUME IInv, pc # "done"
  PROVE  NoClaim(disk) /\ NoClaim(Torn) /\ NoClaim(Missing)
BY DEF IInv, Stored, NoClaim, Torn, Missing

\* While trials run, the report in memory is a running one without a claim.
LEMMA RunningReport ==
  ASSUME IInv, pc \in InTrial \cup {"identify", "hash", "read"}
  PROVE  /\ IsReport(report) /\ report.status = "running" /\ ~ report.minimum_proved
         /\ Len(report.trials) \in Nat /\ Len(report.trials) <= maxEvaluations /\ maxEvaluations \in Nat
         /\ returned = NoStatus
<1>1. pc \notin {"certified", "close", "done"}
  BY DEF InTrial
<1> QED BY <1>1 DEF IInv, Typed, Reported, Claimed, IsReport

\* How a run fails: with a report that claims nothing, on disk too.
LEMMA FailInv ==
  ASSUME IInv, pc \in InTrial \cup {"identify"}, pc' = "close", returned' \in {1, 2},
         UNCHANGED <<behaviour, maxEvaluations, files, read, goal, tried, candidate, replayed>>,
         input' \in Selections,
         IsReport(report'), NoClaim(report'), report'.source = report.source,
         Len(report'.trials) <= maxEvaluations,
         NoClaim(disk')
  PROVE  IInv'
<1>1. Typed'
  BY DEF IInv, Typed, Places, Working
<1>2. Hashed'
  <2>1. pc \in Working /\ pc' # "hash" /\ pc' \notin InTrial
    BY PlaceFacts DEF Working
  <2>2. /\ report.source \in Nat /\ report.source <= files["original"]
        /\ report.source <= read /\ read \in Nat /\ read <= files["original"]
    BY <2>1 DEF IInv, Hashed
  <2>3. files' = files /\ read' = read
    OBVIOUS
  <2> QED BY <2>1, <2>2, <2>3 DEF Hashed
<1>3. Observed' /\ Searched'
  BY PlaceFacts DEF Observed, Searched
<1>4. Claimed' /\ Reported' /\ Stored'
  BY DEF Claimed, Reported, Stored, NoClaim, NoStatus
<1> QED BY <1>1, <1>2, <1>3, <1>4 DEF IInv

\* Raise, and the failed row: a report that claims nothing.
LEMMA RaisedReport ==
  ASSUME IInv, pc \in InTrial \cup {"identify"}, NEW r, IsReport(r), NEW status,
         ~ r.minimum_proved, Len(r.trials) <= maxEvaluations,
         status = "incomplete" => Len(r.trials) = maxEvaluations,
         NEW e, e = [r EXCEPT !.status = status]
  PROVE  IsReport(e) /\ e.source = r.source /\ Len(e.trials) <= maxEvaluations /\ NoClaim(e)
<1>1. e = [status |-> status, minimum_proved |-> r.minimum_proved, source |-> r.source,
           script |-> r.script, runner |-> r.runner, trials |-> r.trials, minimal |-> r.minimal]
  BY DEF IsReport
<1>2. /\ e.status = status /\ e.source = r.source /\ e.trials = r.trials
      /\ IsReport(e)
  BY <1>1 DEF IsReport
<1>3. e.minimum_proved = r.minimum_proved
  BY <1>1
<1>4. ~ e.minimum_proved
  BY <1>3, Zenon
<1>5. Len(e.trials) <= maxEvaluations /\ (e.status = "incomplete" => Len(e.trials) = maxEvaluations)
  BY <1>2
<1> QED BY <1>2, <1>4, <1>5, Zenon DEF NoClaim

\* Marking the last trial failed leaves a report that claims nothing.
LEMMA FailedRow ==
  ASSUME IInv, pc \in {"replay", "judge"}
  PROVE  /\ IsReport(EndRow("failed", FALSE)) /\ NoClaim(EndRow("failed", FALSE))
         /\ ~ EndRow("failed", FALSE).minimum_proved
         /\ EndRow("failed", FALSE).source = report.source
         /\ Len(EndRow("failed", FALSE).trials) <= maxEvaluations
<1>1. /\ IsReport(report) /\ report.status = "running" /\ ~ report.minimum_proved
      /\ Len(report.trials) <= maxEvaluations
  BY RunningReport DEF InTrial
<1>2. report.trials # << >>
  BY DEF IInv, Typed
<1>3. PICK trials \in Seq(Row) :
        /\ Len(trials) = Len(report.trials)
        /\ EndRow("failed", FALSE)
             = [status |-> report.status, minimum_proved |-> report.minimum_proved,
                source |-> report.source, script |-> report.script, runner |-> report.runner,
                trials |-> trials, minimal |-> report.minimal]
  BY <1>1, <1>2, EndRowIs DEF RowStatus
<1> DEFINE row == EndRow("failed", FALSE)
<1>4. row = [status |-> report.status, minimum_proved |-> report.minimum_proved,
             source |-> report.source, script |-> report.script, runner |-> report.runner,
             trials |-> trials, minimal |-> report.minimal]
  BY <1>3
<1> HIDE DEF row
<1>5. row.status = "running" /\ row.source = report.source /\ row.trials = trials
  BY <1>1, <1>4
<1>6. row.minimum_proved = report.minimum_proved
  BY <1>4
<1>7. ~ row.minimum_proved
  BY <1>1, <1>6, Zenon
<1>8. IsReport(row)
  BY <1>1, <1>3, <1>4 DEF IsReport
<1>9. Len(row.trials) <= maxEvaluations /\ row.status # "incomplete"
  BY <1>1, <1>3, <1>5
<1>10. NoClaim(row)
  BY <1>7, <1>9, Zenon DEF NoClaim
<1> QED BY <1>5, <1>7, <1>8, <1>9, <1>10 DEF row

\* A trial that the checks reject ends the run.
LEMMA FailTrialInv ==
  ASSUME IInv, pc \in {"replay", "judge"}, FailTrial,
         UNCHANGED <<behaviour, maxEvaluations, files, read, goal, tried, candidate, replayed>>,
         input' \in Selections
  PROVE  IInv'
<1> DEFINE row == EndRow("failed", FALSE)
<1>1. /\ report' = [row EXCEPT !.status = "failed"]
      /\ disk' \in {row, disk, Torn}
      /\ pc' = "close" /\ returned' \in {1, 2}
  BY DEF FailTrial, Failed
<1>2. IsReport(row) /\ NoClaim(row) /\ ~ row.minimum_proved /\ row.source = report.source
      /\ Len(row.trials) <= maxEvaluations
  BY FailedRow
<1>3. pc \in InTrial \cup {"identify"} /\ pc # "done"
  BY DEF InTrial
<1> HIDE DEF row
<1>4. /\ IsReport(report') /\ report'.source = report.source
      /\ Len(report'.trials) <= maxEvaluations /\ NoClaim(report')
  BY <1>1, <1>2, <1>3, RaisedReport
<1>5. NoClaim(disk')
  BY <1>1, <1>2, <1>3, NoClaimIs
<1> QED BY <1>1, <1>3, <1>4, <1>5, FailInv

\* So does an exception anywhere else before the certificate.
LEMMA RaiseInv ==
  ASSUME IInv, pc \in InTrial \cup {"identify"}, NEW status,
         status = "incomplete" => Len(report.trials) = maxEvaluations,
         Raise(status), UNCHANGED disk,
         UNCHANGED <<behaviour, maxEvaluations, files, read, goal, tried, candidate, replayed>>,
         input' \in Selections
  PROVE  IInv'
<1>1. report' = [report EXCEPT !.status = status] /\ pc' = "close" /\ returned' \in {1, 2}
  BY DEF Raise, Failed
<1>2. IsReport(report) /\ ~ report.minimum_proved /\ Len(report.trials) <= maxEvaluations
  BY RunningReport
<1>3. /\ IsReport(report') /\ report'.source = report.source
      /\ Len(report'.trials) <= maxEvaluations /\ NoClaim(report')
  BY <1>1, <1>2, RaisedReport
<1>4. NoClaim(disk')
  BY NoClaimIs, PlaceFacts
<1> QED BY <1>1, <1>3, <1>4, FailInv

\* How a run goes on: with a report that claims nothing.
LEMMA RunInv ==
  ASSUME IInv, pc \in InTrial \cup {"identify"}, pc' \in InTrial,
         UNCHANGED <<behaviour, maxEvaluations, files, read, returned>>,
         Typed', Observed', Searched',
         ~ report'.minimum_proved, report'.status = "running", report'.source = report.source,
         report'.runner \in Nat, report'.runner <= files["runner"],
         Len(report'.trials) <= maxEvaluations, NoClaim(disk')
  PROVE  IInv'
<1>1. /\ pc \in Working /\ pc' # "hash" /\ pc' \notin {"certified", "close", "done"}
      /\ returned = NoStatus
  BY PlaceFacts, RunningReport DEF Working
<1>2. Hashed'
  <2>1. /\ report.source \in Nat /\ report.source <= files["original"]
        /\ report.source <= read /\ read \in Nat /\ read <= files["original"]
    BY <1>1 DEF IInv, Hashed
  <2>2. files' = files /\ read' = read
    OBVIOUS
  <2> QED BY <1>1, <2>1, <2>2 DEF Hashed
<1>3. Claimed' /\ Reported'
  BY <1>1 DEF Claimed, Reported
<1>4. Stored'
  BY <1>1 DEF Stored, NoClaim
<1> QED BY <1>2, <1>3, <1>4 DEF IInv

\* The source artifact is hashed.
LEMMA HashInv == ASSUME IInv, Hash PROVE IInv'
<1>1. /\ pc = "hash" /\ pc' = "read" /\ report' = [report EXCEPT !.source = files["original"]]
      /\ UNCHANGED <<given, files, read, search, input, replayed, disk, returned, interrupted>>
  BY DEF Hash
<1>2. /\ IsReport(report) /\ report.status = "running" /\ ~ report.minimum_proved
      /\ Len(report.trials) <= maxEvaluations /\ returned = NoStatus
  BY <1>1, RunningReport
<1>3. /\ IsReport(report') /\ report'.status = report.status /\ report'.source = files["original"]
      /\ report'.trials = report.trials /\ report'.minimum_proved = report.minimum_proved
  <2>1. IsReport(report) /\ report' = [report EXCEPT !.source = files["original"]]
    BY <1>1, <1>2
  <2> QED BY <2>1, SourceIs
<1>4. ~ report'.minimum_proved
  BY <1>2, <1>3, Zenon
<1>5. Typed'
  BY <1>1, <1>3 DEF IInv, Typed, Places, given, search
<1>6. Hashed'
  <2>1. files["original"] \in Nat
    BY DEF IInv, Typed, File
  <2> QED BY <1>1, <1>3, <2>1 DEF Hashed, Working, InTrial
<1>7. Observed' /\ Searched'
  <2>1. goal = "reproduce" /\ tried = {}
    BY <1>1 DEF IInv, Searched
  <2> QED BY <1>1, <2>1 DEF Observed, Searched, InTrial, search
<1>8. Claimed' /\ Reported'
  BY <1>1, <1>2, <1>3, <1>4 DEF Claimed, Reported, given
<1>9. Stored'
  <2>1. NoClaim(disk)
    BY <1>1, NoClaimIs
  <2> QED BY <1>1, <2>1 DEF Stored, NoClaim, given
<1> QED BY <1>5, <1>6, <1>7, <1>8, <1>9 DEF IInv

\* The artifact is read and the script hashed; the first report claims nothing.
LEMMA ReadInv == ASSUME IInv, Read PROVE IInv'
<1>1. /\ pc = "read" /\ read' = files["original"] /\ report' = [report EXCEPT !.script = files["script"]]
      /\ \/ disk' = report' /\ pc' = "identify" /\ returned' = returned
         \/ disk' \in {disk, Torn} /\ pc' = "done" /\ returned' = 1
      /\ UNCHANGED <<given, files, search, input, replayed, interrupted>>
  BY DEF Read, Saved, SaveFails, Leave
<1>2. /\ IsReport(report) /\ report.status = "running" /\ ~ report.minimum_proved
      /\ Len(report.trials) <= maxEvaluations /\ returned = NoStatus
  BY <1>1, RunningReport
<1>3. /\ IsReport(report') /\ report'.status = report.status /\ report'.source = report.source
      /\ report'.trials = report.trials /\ report'.minimum_proved = report.minimum_proved
  <2>1. IsReport(report) /\ report' = [report EXCEPT !.script = files["script"]]
    BY <1>1, <1>2
  <2> QED BY <2>1, ScriptIs
<1>4. ~ report'.minimum_proved
  BY <1>2, <1>3, Zenon
<1>5. Typed'
  BY <1>1, <1>3 DEF IInv, Typed, Places, Working, given, search
<1>6. Hashed'
  <2>1. files["original"] \in Nat /\ report.source \in Nat /\ report.source <= files["original"]
    BY DEF IInv, Typed, Hashed, File
  <2> QED BY <1>1, <1>3, <2>1 DEF Hashed, Working, InTrial
<1>7. Observed' /\ Searched'
  <2>1. goal = "reproduce" /\ tried = {}
    BY <1>1 DEF IInv, Searched
  <2> QED BY <1>1, <2>1 DEF Observed, Searched, InTrial, search
<1>8. Claimed' /\ Reported'
  BY <1>1, <1>2, <1>3, <1>4 DEF Claimed, Reported, given, NoStatus
<1>9. Stored'
  <2>1. NoClaim(disk) /\ NoClaim(Torn)
    BY <1>1, NoClaimIs
  <2>2. NoClaim(report')
    BY <1>2, <1>3, <1>4 DEF NoClaim
  <2>3. NoClaim(disk') /\ ~ (pc' = "done" /\ returned' = 0)
    BY <1>1, <1>2, <2>1, <2>2 DEF NoStatus
  <2> QED BY <1>1, <2>3 DEF Stored, NoClaim, given
<1> QED BY <1>5, <1>6, <1>7, <1>8, <1>9 DEF IInv

\* The runner is hashed before the first trial.
LEMMA IdentifyInv == ASSUME IInv, Identify PROVE IInv'
<1>1. /\ pc = "identify" /\ UNCHANGED disk /\ pc \in InTrial \cup {"identify"}
      /\ UNCHANGED <<behaviour, maxEvaluations, files, read, goal, tried, candidate, input, replayed,
                     interrupted>>
  BY DEF Identify, given, search
<1>2. ASSUME report' = [report EXCEPT !.runner = files["runner"]], pc' = "trial", UNCHANGED returned
      PROVE  IInv'
  <2>1. /\ IsReport(report) /\ report.status = "running" /\ ~ report.minimum_proved
        /\ Len(report.trials) <= maxEvaluations
    BY <1>1, RunningReport
  <2>2. /\ IsReport(report') /\ report'.status = report.status /\ report'.source = report.source
        /\ report'.runner = files["runner"]
        /\ report'.trials = report.trials /\ report'.minimum_proved = report.minimum_proved
    <3>1. IsReport(report) /\ report' = [report EXCEPT !.runner = files["runner"]]
      BY <1>2, <2>1
    <3> QED BY <3>1, RunnerIs
  <2>3. ~ report'.minimum_proved
    BY <2>1, <2>2, Zenon
  <2>4. files["runner"] \in Nat
    BY DEF IInv, Typed, File
  <2>5. Typed'
    BY <1>1, <1>2, <2>2 DEF IInv, Typed, Places, Working, InTrial
  <2>6. pc' \in InTrial
    BY <1>2 DEF InTrial
  <2>7. Observed'
    BY <1>2 DEF Observed
  <2>8. NoClaim(disk')
    BY <1>1, NoClaimIs
  <2>9. goal = "reproduce" /\ tried = {}
    BY <1>1 DEF IInv, Searched
  <2>10. Searched'
    BY <1>1, <1>2, <2>9 DEF Searched
  <2> QED BY <1>1, <1>2, <2>1, <2>2, <2>3, <2>4, <2>5, <2>6, <2>7, <2>8, <2>10, RunInv
<1>3. ASSUME Raise("failed") PROVE IInv'
  <2>1. input' \in Selections
    BY <1>1 DEF IInv, Typed
  <2> QED BY <1>1, <1>3, <2>1, RaiseInv
<1> QED BY <1>2, <1>3 DEF Identify

\* A candidate within the budget gets a row and an input file.
LEMMA BeginTrialInv == ASSUME IInv, BeginTrial PROVE IInv'
<1> DEFINE row == [indices |-> candidate, status |-> "running", mismatch |-> FALSE]
           begun == Append(report.trials, row)
           started == [report EXCEPT !.trials = begun]
<1>1. /\ pc = "trial" /\ input' = candidate /\ pc \in InTrial /\ pc \in InTrial \cup {"identify"}
      /\ UNCHANGED <<behaviour, maxEvaluations, files, read, goal, tried, candidate, replayed,
                     interrupted>>
  BY DEF BeginTrial, given, search, InTrial
<1>2. input' \in Selections
  BY <1>1 DEF IInv, Typed
<1>3. /\ IsReport(report) /\ report.status = "running" /\ ~ report.minimum_proved
      /\ Len(report.trials) \in Nat /\ Len(report.trials) <= maxEvaluations /\ maxEvaluations \in Nat
  BY <1>1, RunningReport
<1>4. ASSUME ~ BudgetLeft, Raise("incomplete"), UNCHANGED disk PROVE IInv'
  <2>1. Len(report.trials) = maxEvaluations
    BY <1>3, <1>4 DEF BudgetLeft
  <2> QED BY <1>1, <1>2, <1>4, <2>1, RaiseInv
<1>5. ASSUME Raise("failed"), UNCHANGED disk PROVE IInv'
  BY <1>1, <1>2, <1>5, RaiseInv
<1>6. begun \in Seq(Row) /\ Len(begun) = Len(report.trials) + 1
  <2>1. candidate \in Selections
    BY DEF IInv, Typed
  <2>2. row \in Row
    BY <2>1 DEF Row, RowStatus
  <2>3. report.trials \in Seq(Row)
    BY <1>3 DEF IsReport
  <2> HIDE DEF row
  <2> QED BY <2>2, <2>3
<1>7. /\ IsReport(started) /\ started.status = report.status /\ started.source = report.source
      /\ started.runner = report.runner
      /\ started.trials = begun /\ started.minimum_proved = report.minimum_proved
  <2> HIDE DEF begun
  <2>1. started = [report EXCEPT !.trials = begun]
    OBVIOUS
  <2> HIDE DEF started
  <2> QED BY <1>3, <1>6, <2>1, TrialsIs
<1>8. ~ started.minimum_proved
  <2> HIDE DEF started
  <2> QED BY <1>3, <1>7, Zenon
<1>9. \/ ~ BudgetLeft /\ Raise("incomplete") /\ UNCHANGED disk
      \/ Raise("failed") /\ UNCHANGED disk
      \/ BudgetLeft /\ report' = started /\ Saved /\ pc' = "replay" /\ UNCHANGED returned
      \/ BudgetLeft /\ report' = [started EXCEPT !.status = "failed"] /\ SaveFails /\ Failed("failed")
  BY Zenon DEF BeginTrial
<1> HIDE DEF begun, started
<1>10. ASSUME BudgetLeft, report' = started, Saved, pc' = "replay", UNCHANGED returned PROVE IInv'
  <2>1. /\ IsReport(report') /\ report'.status = report.status /\ report'.source = report.source
        /\ report'.runner = report.runner /\ report'.trials = begun
    BY <1>7, <1>10
  <2>2. ~ report'.minimum_proved
    BY <1>8, <1>10
  <2>3. Len(report'.trials) <= maxEvaluations /\ report'.trials # << >>
    BY <1>3, <1>6, <1>10, <2>1 DEF BudgetLeft
  <2>4. Typed'
    BY <1>1, <1>2, <1>10, <2>1, <2>3 DEF IInv, Typed, Places, Working, InTrial
  <2>5. report.runner \in Nat /\ report.runner <= files["runner"]
    BY <1>1 DEF IInv, Hashed
  <2>6. Observed'
    BY <1>10 DEF Observed
  <2>7. Searched'
    BY <1>1, <1>10, <2>1 DEF IInv, Searched
  <2>8. NoClaim(disk')
    <3>1. disk' = report'
      BY <1>10 DEF Saved
    <3>2. ~ disk'.minimum_proved
      BY <2>2, <3>1
    <3>3. disk'.status = "running"
      BY <1>3, <2>1, <3>1
    <3> QED BY <3>2, <3>3 DEF NoClaim
  <2>9. pc' \in InTrial
    BY <1>10 DEF InTrial
  <2> QED BY <1>1, <1>3, <1>10, <2>1, <2>2, <2>3, <2>4, <2>5, <2>6, <2>7, <2>8, <2>9, RunInv
<1>11. ASSUME BudgetLeft, report' = [started EXCEPT !.status = "failed"], SaveFails, Failed("failed")
       PROVE  IInv'
  <2>1. Len(started.trials) <= maxEvaluations
    BY <1>3, <1>6, <1>7, <1>11 DEF BudgetLeft
  <2>2. /\ IsReport(report') /\ report'.source = started.source
        /\ Len(report'.trials) <= maxEvaluations /\ NoClaim(report')
    BY <1>1, <1>7, <1>8, <1>11, <2>1, RaisedReport
  <2>3. NoClaim(disk')
    BY <1>1, <1>11, NoClaimIs, PlaceFacts DEF SaveFails
  <2>4. pc' = "close" /\ returned' \in {1, 2} /\ report'.source = report.source
    BY <1>7, <1>11, <2>2 DEF Failed
  <2> QED BY <1>1, <1>2, <2>2, <2>3, <2>4, FailInv
<1> QED BY <1>4, <1>5, <1>9, <1>10, <1>11

\* The runner that is there now is run on the words that are there now.
LEMMA ReplayInv == ASSUME IInv, Replay PROVE IInv'
<1>1. /\ pc = "replay" /\ pc \in {"replay", "judge"} /\ pc \in InTrial
      /\ UNCHANGED <<behaviour, maxEvaluations, files, read, goal, tried, candidate, input,
                     interrupted>>
  BY DEF Replay, given, search, InTrial
<1>2. input \in Selections
  BY DEF IInv, Typed
<1>3. ASSUME FailTrial, UNCHANGED replayed PROVE IInv'
  BY <1>1, <1>2, <1>3, FailTrialInv
<1>4. ASSUME replayed' = [indices |-> input,
                          mismatch |-> Program[input] \in behaviour[files["runner"]]],
             pc' = "judge", UNCHANGED <<report, disk, returned>>
      PROVE  IInv'
  <2>1. /\ replayed'.indices = input
        /\ replayed'.mismatch \in BOOLEAN
        /\ (replayed'.mismatch <=> Program[input] \in behaviour[files["runner"]])
    <3> DEFINE shown == Program[input] \in behaviour[files["runner"]]
    <3>1. replayed' = [indices |-> input, mismatch |-> shown]
      BY <1>4, Zenon
    <3>2. shown \in BOOLEAN
      OBVIOUS
    <3> HIDE DEF shown
    <3>3. replayed'.indices = input /\ replayed'.mismatch = shown
      BY <3>1
    <3>4. replayed'.mismatch \in BOOLEAN
      BY <3>2, <3>3, Zenon
    <3>5. replayed'.mismatch <=> shown
      BY <3>3, Zenon
    <3> QED BY <3>3, <3>4, <3>5, Zenon DEF shown
  <2>2. /\ IsReport(report) /\ report.status = "running" /\ ~ report.minimum_proved
        /\ Len(report.trials) <= maxEvaluations
    BY <1>1, RunningReport
  <2>3. report.runner \in Nat /\ report.runner <= files["runner"] /\ files["runner"] \in Nat
    BY <1>1 DEF IInv, Hashed, Typed, File
  <2>4. Typed'
    BY <1>1, <1>2, <1>4, <2>1 DEF IInv, Typed, Places, Working, InTrial
  <2>5. Observed'
    <3>1. files["runner"] \in report.runner..files["runner"]
      BY <2>3
    <3>2. \E v \in report.runner..files["runner"] :
             replayed'.mismatch <=> Program[replayed'.indices] \in behaviour[v]
      BY <2>1, <3>1
    <3>3. UNCHANGED <<report, files, behaviour>>
      BY <1>1, <1>4
    <3> QED BY <3>2, <3>3 DEF Observed
  <2>6. Searched'
    BY <1>1, <1>4 DEF IInv, Searched
  <2>7. NoClaim(disk')
    BY <1>1, <1>4, NoClaimIs, PlaceFacts
  <2>8. pc' \in InTrial
    BY <1>4 DEF InTrial
  <2> QED BY <1>1, <1>4, <2>2, <2>3, <2>4, <2>5, <2>6, <2>7, <2>8, RunInv
<1> QED BY <1>1, <1>3, <1>4 DEF Replay

\* Unchanged hashes and the words reported say whose behaviour was observed.
LEMMA JudgeInv == ASSUME IInv, Judge PROVE IInv'
<1> DEFINE observed == EndRow("observed", replayed.mismatch)
<1>1. /\ pc = "judge" /\ pc \in {"replay", "judge"} /\ pc \in InTrial
      /\ UNCHANGED <<behaviour, maxEvaluations, files, read, goal, tried, candidate, input, replayed,
                     interrupted>>
  BY DEF Judge, given, search, InTrial
<1>2. input \in Selections /\ replayed.mismatch \in BOOLEAN
  BY DEF IInv, Typed
<1>3. ASSUME FailTrial PROVE IInv'
  BY <1>1, <1>2, <1>3, FailTrialInv
<1>4. /\ IsReport(report) /\ report.status = "running" /\ ~ report.minimum_proved
      /\ Len(report.trials) <= maxEvaluations /\ report.trials # << >>
  BY <1>1, RunningReport DEF IInv, Typed
<1>5. PICK trials \in Seq(Row) :
        /\ Len(trials) = Len(report.trials)
        /\ observed
             = [status |-> report.status, minimum_proved |-> report.minimum_proved,
                source |-> report.source, script |-> report.script, runner |-> report.runner,
                trials |-> trials, minimal |-> report.minimal]
  BY <1>2, <1>4, EndRowIs DEF RowStatus
<1>6. \/ FailTrial
      \/ AskedProgram /\ SameRunner /\ report' = observed /\ Saved /\ pc' = "decide" /\ UNCHANGED returned
      \/ report' = [observed EXCEPT !.status = "failed"] /\ SaveFails /\ Failed("failed")
  BY Zenon DEF Judge
<1> HIDE DEF observed
<1>7. /\ observed.status = "running" /\ observed.source = report.source
      /\ observed.runner = report.runner /\ observed.trials = trials
  BY <1>4, <1>5
<1>8. observed.minimum_proved = report.minimum_proved
  BY <1>5
<1>9. ~ observed.minimum_proved
  BY <1>4, <1>8, Zenon
<1>10. IsReport(observed) /\ Len(observed.trials) <= maxEvaluations
  BY <1>4, <1>5, <1>7 DEF IsReport
<1>11. ASSUME AskedProgram, SameRunner, report' = observed, Saved, pc' = "decide", UNCHANGED returned
       PROVE  IInv'
  <2>1. /\ IsReport(report') /\ report'.status = "running" /\ report'.source = report.source
        /\ report'.runner = report.runner /\ report'.trials = trials
        /\ Len(report'.trials) <= maxEvaluations
    BY <1>7, <1>10, <1>11
  <2>2. ~ report'.minimum_proved
    BY <1>9, <1>11
  <2>3. report.runner \in Nat /\ report.runner <= files["runner"] /\ files["runner"] \in Nat
    BY <1>1 DEF IInv, Hashed, Typed, File
  <2>4. Typed'
    BY <1>1, <1>11, <2>1 DEF IInv, Typed, Places, Working, InTrial
  <2>5. Observed'
    BY <1>11 DEF Observed
  <2>6. replayed.mismatch <=> Program[candidate] \in behaviour[report.runner]
    <3>1. PICK v \in report.runner..files["runner"] :
             replayed.mismatch <=> Program[replayed.indices] \in behaviour[v]
      BY <1>1 DEF IInv, Observed
    <3>2. v = report.runner
      BY <1>11, <2>3, <3>1 DEF SameRunner
    <3>3. Program[replayed.indices] = Program[candidate]
      BY <1>11 DEF AskedProgram
    <3> QED BY <3>1, <3>2, <3>3
  <2>7. Searched'
    <3>1. pc' # "certify" /\ pc' \notin {"hash", "read", "identify"}
      BY <1>11
    <3>2. /\ \A c \in tried : Program[c] \notin behaviour[report.runner]
          /\ goal # "reproduce" =>
               \A c \in Selections : Cardinality(c) < Cardinality(candidate) => c \in tried
      BY <1>1 DEF IInv, Searched
    <3>3. report'.runner = report.runner
          /\ UNCHANGED <<behaviour, goal, tried, candidate, replayed>>
      BY <1>1, <2>1
    <3> QED BY <2>6, <3>1, <3>2, <3>3 DEF Searched
  <2>8. NoClaim(disk')
    <3>1. disk' = report'
      BY <1>11 DEF Saved
    <3>2. ~ disk'.minimum_proved
      BY <2>2, <3>1
    <3>3. disk'.status = "running"
      BY <2>1, <3>1
    <3> QED BY <3>2, <3>3 DEF NoClaim
  <2>9. pc' \in InTrial
    BY <1>11 DEF InTrial
  <2> QED BY <1>1, <1>11, <2>1, <2>2, <2>3, <2>4, <2>5, <2>7, <2>8, <2>9, RunInv
<1>12. ASSUME report' = [observed EXCEPT !.status = "failed"], SaveFails, Failed("failed")
       PROVE  IInv'
  <2>1. /\ IsReport(report') /\ report'.source = observed.source
        /\ Len(report'.trials) <= maxEvaluations /\ NoClaim(report')
    BY <1>1, <1>9, <1>10, <1>12, RaisedReport
  <2>2. NoClaim(disk')
    BY <1>1, <1>12, NoClaimIs, PlaceFacts DEF SaveFails
  <2>3. pc' = "close" /\ returned' \in {1, 2} /\ report'.source = report.source
    BY <1>7, <1>12, <2>1 DEF Failed
  <2> QED BY <1>1, <1>2, <2>1, <2>2, <2>3, FailInv
<1> QED BY <1>3, <1>6, <1>11, <1>12

\* Whatever comes next in the search, all that is shorter was rejected.
LEMMA SearchAfterIs ==
  ASSUME NEW rejected \in SUBSET Selections, SearchAfter(rejected)
  PROVE  /\ candidate' \in Selections /\ goal' \in {"search", "confirm"} /\ tried' = rejected
         /\ \A c \in Selections : Cardinality(c) < Cardinality(candidate') => c \in rejected
<1> DEFINE left == Untried(rejected)
<1>1. /\ tried' = rejected
      /\ \/ left = {} /\ goal' = "confirm" /\ candidate' = Whole
         \/ left # {} /\ goal' = "search" /\ candidate' = FirstOf(left)
  BY DEF SearchAfter
<1>2. left \in SUBSET Selections /\ \A c \in Selections : c \in left \/ c \in rejected \/ c = Whole
  BY SelectionFacts DEF Untried, Candidates
<1>3. Whole \in Selections /\ \A c \in Selections : /\ Cardinality(c) \in Nat
                                                 /\ Cardinality(c) <= Cardinality(Whole)
  BY SelectionFacts
<1> HIDE DEF left
<1>4. CASE left = {}
  BY <1>1, <1>2, <1>3, <1>4
<1>5. CASE left # {}
  <2>1. FirstOf(left) \in left /\ \A d \in left : Cardinality(FirstOf(left)) <= Cardinality(d)
    BY <1>2, <1>5, FirstOfIs
  <2>2. candidate' \in left /\ goal' = "search" /\ \A d \in left : Cardinality(candidate') <= Cardinality(d)
    BY <1>1, <1>5, <2>1
  <2> QED BY <1>1, <1>2, <1>3, <2>2
<1> QED BY <1>4, <1>5

\* The answer accepts the candidate or rules it out.
LEMMA DecideInv == ASSUME IInv, Decide PROVE IInv'
<1>1. /\ pc = "decide" /\ pc \in InTrial
      /\ UNCHANGED <<behaviour, maxEvaluations, files, read, input, replayed, disk, interrupted>>
  BY DEF Decide, given, InTrial
<1>2. input \in Selections /\ candidate \in Selections /\ tried \in SUBSET Selections
  BY DEF IInv, Typed
<1>3. /\ IsReport(report) /\ report.status = "running" /\ ~ report.minimum_proved
      /\ Len(report.trials) <= maxEvaluations
  BY <1>1, RunningReport
<1>4. /\ \A c \in tried : Program[c] \notin behaviour[report.runner]
      /\ goal # "reproduce" =>
           \A c \in Selections : Cardinality(c) < Cardinality(candidate) => c \in tried
      /\ replayed.mismatch <=> Program[candidate] \in behaviour[report.runner]
  BY <1>1 DEF IInv, Searched
<1>5. report.runner \in Nat /\ report.runner <= files["runner"]
  BY <1>1 DEF IInv, Hashed
<1>6. NoClaim(disk') /\ NoClaim(disk)
  BY <1>1, NoClaimIs, PlaceFacts
<1>7. ASSUME NEW rejected \in SUBSET Selections, SearchAfter(rejected),
             \A c \in rejected : Program[c] \notin behaviour[report.runner]
      PROVE  IInv'
  <2>1. /\ candidate' \in Selections /\ goal' \in {"search", "confirm"} /\ tried' = rejected
        /\ \A c \in Selections : Cardinality(c) < Cardinality(candidate') => c \in rejected
    BY <1>7, SearchAfterIs
  <2>2. pc' = "trial" /\ UNCHANGED <<report, returned>>
    BY <1>7 DEF SearchAfter
  <2>3. Typed'
    BY <1>1, <1>2, <2>1, <2>2 DEF IInv, Typed, Places, Working, InTrial
  <2>4. Observed' /\ Searched'
    BY <1>1, <1>7, <2>1, <2>2 DEF Observed, Searched
  <2>5. pc' \in InTrial
    BY <2>2 DEF InTrial
  <2> QED BY <1>1, <1>3, <1>5, <1>6, <2>2, <2>3, <2>4, <2>5, RunInv
<1>8. CASE goal = "reproduce" /\ replayed.mismatch /\ SearchAfter({})
  BY <1>7, <1>8
<1>9. CASE goal = "search" /\ ~ replayed.mismatch /\ SearchAfter(tried \cup {candidate})
  BY <1>2, <1>4, <1>7, <1>9
<1>10. CASE goal = "search" /\ replayed.mismatch /\ goal' = "confirm" /\ pc' = "trial"
            /\ UNCHANGED <<tried, candidate, report, returned>>
  <2>1. Typed'
    BY <1>1, <1>2, <1>10 DEF IInv, Typed, Places, Working, InTrial
  <2>2. Observed' /\ Searched'
    BY <1>1, <1>4, <1>10 DEF Observed, Searched
  <2>3. pc' \in InTrial
    BY <1>10 DEF InTrial
  <2> QED BY <1>1, <1>3, <1>5, <1>6, <1>10, <2>1, <2>2, <2>3, RunInv
<1>11. CASE goal = "confirm" /\ replayed.mismatch /\ pc' = "certify" /\ UNCHANGED <<search, report, returned>>
  <2>1. Typed'
    BY <1>1, <1>2, <1>11 DEF IInv, Typed, Places, Working, InTrial, search
  <2>2. Observed' /\ Searched'
    BY <1>1, <1>4, <1>11 DEF Observed, Searched, search
  <2>3. pc' \in InTrial
    BY <1>11 DEF InTrial
  <2> QED BY <1>1, <1>3, <1>5, <1>6, <1>11, <2>1, <2>2, <2>3, RunInv
<1>12. CASE Raise("failed") /\ UNCHANGED search
  BY <1>1, <1>2, <1>12, RaiseInv DEF search
<1> QED BY <1>8, <1>9, <1>10, <1>11, <1>12 DEF Decide

\* The claim is made only when source and runner hash to what they did at first.
LEMMA CertifyInv == ASSUME IInv, Certify PROVE IInv'
<1>1. /\ pc = "certify" /\ pc \in InTrial
      /\ UNCHANGED <<behaviour, maxEvaluations, files, read, goal, tried, candidate, input, replayed, disk,
                     interrupted>>
  BY DEF Certify, given, search, InTrial
<1>2. input \in Selections /\ candidate \in Selections
  BY DEF IInv, Typed
<1>3. ASSUME Raise("failed") PROVE IInv'
  BY <1>1, <1>2, <1>3, RaiseInv
<1>4. ASSUME SourcesUnchanged, pc' = "certified", UNCHANGED returned,
             report' = [report EXCEPT !.status = "minimized", !.minimum_proved = TRUE,
                                      !.minimal = candidate]
      PROVE  IInv'
  <2>1. /\ IsReport(report) /\ Len(report.trials) <= maxEvaluations /\ returned = NoStatus
    BY <1>1, RunningReport
  <2> DEFINE proved == TRUE
  <2>2. report' = [report EXCEPT !.status = "minimized", !.minimum_proved = proved, !.minimal = candidate]
    BY <1>4, Zenon
  <2>3. proved \in BOOLEAN /\ proved
    OBVIOUS
  <2> HIDE DEF proved
  <2>4. report' = [status |-> "minimized", minimum_proved |-> proved, source |-> report.source,
                   script |-> report.script, runner |-> report.runner, trials |-> report.trials,
                   minimal |-> candidate]
    <3>1. [report EXCEPT !.status = "minimized", !.minimum_proved = proved, !.minimal = candidate]
          = [status |-> "minimized", minimum_proved |-> proved, source |-> report.source,
             script |-> report.script, runner |-> report.runner, trials |-> report.trials,
             minimal |-> candidate]
      BY <2>1, CertifyFields
    <3> QED BY <2>2, <3>1, Zenon
  <2>5. /\ report'.status = "minimized" /\ report'.source = report.source
        /\ report'.runner = report.runner /\ report'.trials = report.trials
        /\ report'.minimal = candidate
    BY <2>4
  <2>6. report'.minimum_proved = proved
    BY <2>4
  <2>7. report'.minimum_proved
    BY <2>3, <2>6, Zenon
  <2>8. IsReport(report')
    <3>1. report'.minimum_proved \in BOOLEAN
      BY <2>3, <2>6, Zenon
    <3>2. report' = [status |-> report'.status, minimum_proved |-> report'.minimum_proved,
                     source |-> report'.source, script |-> report'.script, runner |-> report'.runner,
                     trials |-> report'.trials, minimal |-> report'.minimal]
      BY <2>4
    <3>3. report'.trials \in Seq(Row)
      BY <2>1, <2>5 DEF IsReport
    <3> QED BY <3>1, <3>2, <3>3, Zenon DEF IsReport
  <2>9. Typed'
    BY <1>1, <1>4, <2>8 DEF IInv, Typed, Places, Working
  <2>10. /\ report.source = files["original"]
         /\ report.source \in Nat /\ report.source <= read /\ read \in Nat /\ read <= files["original"]
    BY <1>1, <1>4, PlaceFacts DEF IInv, Hashed, SourcesUnchanged
  <2>11. Hashed'
    <3>1. "certified" \notin InTrial
      BY DEF InTrial
    <3> QED BY <1>1, <1>4, <2>5, <2>10, <3>1 DEF Hashed
  <2>12. Observed' /\ Searched'
    BY <1>4 DEF Observed, Searched, InTrial
  <2>13. IsMinimal(report)'
    <3>1. /\ \A c \in tried : Program[c] \notin behaviour[report.runner]
          /\ \A c \in Selections : Cardinality(c) < Cardinality(candidate) => c \in tried
          /\ Program[candidate] \in behaviour[report.runner]
      BY <1>1 DEF IInv, Searched
    <3> QED BY <1>1, <2>5, <3>1 DEF IsMinimal
  <2>14. Claimed'
    <3>1. report.source = read
      BY <2>10
    <3> QED BY <1>1, <1>4, <2>5, <2>13, <3>1 DEF Claimed
  <2>15. Reported'
    BY <1>1, <1>4, <2>1, <2>5, <2>7 DEF Reported
  <2>16. Stored'
    <3>1. NoClaim(disk)
      BY <1>1, NoClaimIs, PlaceFacts
    <3> QED BY <1>1, <1>4, <3>1 DEF Stored, NoClaim
  <2> QED BY <2>9, <2>11, <2>12, <2>14, <2>15, <2>16 DEF IInv
<1> QED BY <1>3, <1>4 DEF Certify

\* A certified run is about to exit with status 0.
LEMMA SucceedInv == ASSUME IInv, Succeed PROVE IInv'
<1>1. /\ pc = "certified" /\ pc' = "close" /\ returned' = 0
      /\ UNCHANGED <<behaviour, maxEvaluations, files, read, goal, tried, candidate, input, replayed,
                     report, disk, interrupted>>
  BY DEF Succeed, given, search
<1>2. Typed'
  BY <1>1 DEF IInv, Typed, Places, Working
<1>3. Hashed' /\ Observed' /\ Searched'
  BY <1>1 DEF IInv, Hashed, Observed, Searched, Working, InTrial
<1>4. Claimed'
  BY <1>1 DEF IInv, Claimed, IsMinimal
<1>5. Reported'
  BY <1>1 DEF IInv, Reported
<1>6. Stored'
  BY <1>1 DEF IInv, Stored
<1> QED BY <1>2, <1>3, <1>4, <1>5, <1>6 DEF IInv

\* The last save of the report, and the exit status.
LEMMA CloseInv == ASSUME IInv, Close PROVE IInv'
<1>1. /\ pc = "close" /\ pc' = "done"
      /\ \/ disk' = report' /\ returned' \in {returned, 1}
         \/ disk' \in {disk, Torn} /\ returned' = 1
      /\ UNCHANGED <<behaviour, maxEvaluations, files, read, goal, tried, candidate, input, replayed,
                     report, interrupted>>
  BY DEF Close, CloseFails, Saved, SaveFails, Leave, given, search
<1>2. Typed'
  BY <1>1 DEF IInv, Typed, Places
<1>3. Hashed' /\ Observed' /\ Searched'
  BY <1>1 DEF IInv, Hashed, Observed, Searched, Working, InTrial
<1>4. Claimed'
  BY <1>1 DEF IInv, Claimed, IsMinimal
<1>5. Reported'
  BY <1>1 DEF IInv, Reported
<1>6. Stored'
  <2>1. NoClaim(disk) /\ NoClaim(Torn)
    BY <1>1, NoClaimIs
  <2>2. CASE disk' = report' /\ returned' \in {returned, 1}
    BY <1>1, <2>2 DEF IInv, Reported, Stored
  <2>3. CASE disk' \in {disk, Torn} /\ returned' = 1
    <3>1. NoClaim(disk')
      BY <2>1, <2>3
    <3> QED BY <1>1, <2>3, <3>1 DEF Stored, NoClaim
  <2> QED BY <1>1, <2>2, <2>3
<1> QED BY <1>2, <1>3, <1>4, <1>5, <1>6 DEF IInv

\* An interrupt after the certificate leaves it in the report beside status failed.
LEMMA InterruptInv == ASSUME IInv, Interrupt PROVE IInv'
<1>1. /\ pc \in {"identify", "trial", "replay", "judge", "decide", "certify", "certified"}
      /\ interrupted'
      /\ UNCHANGED <<behaviour, maxEvaluations, files, read, goal, tried, candidate, input, replayed>>
  BY DEF Interrupt, given, search
<1>2. input' \in Selections
  BY <1>1 DEF IInv, Typed
<1>3. CASE pc \in {"replay", "judge"}
  BY <1>1, <1>2, <1>3, FailTrialInv DEF Interrupt
<1>4. CASE pc \in {"identify", "trial", "decide", "certify"}
  <2>1. Raise("failed") /\ UNCHANGED disk
    BY <1>4 DEF Interrupt
  <2>2. pc \in InTrial \cup {"identify"}
    BY <1>4 DEF InTrial
  <2> QED BY <1>1, <1>2, <2>1, <2>2, RaiseInv
<1>5. CASE pc = "certified"
  <2>1. /\ report' = [report EXCEPT !.status = "failed"]
        /\ pc' = "close" /\ returned' = 1 /\ UNCHANGED disk
    BY <1>5 DEF Interrupt, Raise, Failed
  <2>2. IsReport(report) /\ report.minimum_proved /\ report.source = read /\ IsMinimal(report)
        /\ Len(report.trials) <= maxEvaluations
    BY <1>5 DEF IInv, Typed, Claimed, Reported
  <2>3. report' = [status |-> "failed", minimum_proved |-> report.minimum_proved, source |-> report.source,
                   script |-> report.script, runner |-> report.runner, trials |-> report.trials,
                   minimal |-> report.minimal]
    BY <2>1, <2>2 DEF IsReport
  <2>4. /\ report'.status = "failed" /\ report'.source = report.source
        /\ report'.runner = report.runner /\ report'.trials = report.trials
        /\ report'.minimal = report.minimal /\ IsReport(report')
    BY <2>2, <2>3 DEF IsReport
  <2>5. report'.minimum_proved = report.minimum_proved
    BY <2>3
  <2>6. Typed'
    BY <1>1, <2>1, <2>4 DEF IInv, Typed, Places, Working
  <2>7. Hashed' /\ Observed' /\ Searched'
    BY <1>1, <1>5, <2>1, <2>4 DEF IInv, Hashed, Observed, Searched, Working, InTrial
  <2>8. Claimed'
    <3>1. IsMinimal(report)'
      BY <1>1, <2>2, <2>4 DEF IsMinimal
    <3> QED BY <1>1, <2>1, <2>2, <2>4, <3>1 DEF Claimed
  <2>9. Reported'
    BY <1>1, <2>1, <2>2, <2>4 DEF Reported
  <2>10. Stored'
    <3>1. NoClaim(disk)
      BY <1>5, NoClaimIs
    <3> QED BY <1>1, <2>1, <3>1 DEF Stored, NoClaim
  <2> QED BY <2>6, <2>7, <2>8, <2>9, <2>10 DEF IInv
<1> QED BY <1>1, <1>3, <1>4, <1>5

\* A kill leaves the disk as it is.
LEMMA CrashInv == ASSUME IInv, Crash PROVE IInv'
<1>1. /\ pc # "done" /\ pc' = "done" /\ returned' = NoStatus /\ disk' \in {disk, Torn}
      /\ UNCHANGED <<behaviour, maxEvaluations, files, read, goal, tried, candidate, input, replayed,
                     report, interrupted>>
  BY DEF Crash, given, search
<1>2. Typed'
  BY <1>1 DEF IInv, Typed, Places
<1>3. Hashed' /\ Observed' /\ Searched'
  BY <1>1 DEF IInv, Hashed, Observed, Searched, Working, InTrial
<1>4. Claimed'
  BY <1>1 DEF IInv, Claimed, IsMinimal
<1>5. Reported'
  BY <1>1 DEF IInv, Reported
<1>6. Stored'
  <2>1. NoClaim(disk')
    BY <1>1, NoClaimIs
  <2> QED BY <1>1, <2>1 DEF Stored, NoClaim, NoStatus
<1> QED BY <1>2, <1>3, <1>4, <1>5, <1>6 DEF IInv

\* Another program in the input file of a trial: the words reported betray it.
LEMMA EditInputInv == ASSUME IInv, EditInput PROVE IInv'
<1>1. /\ input' \in Selections
      /\ UNCHANGED <<behaviour, maxEvaluations, files, pc, read, goal, tried, candidate, replayed, report,
                     disk, returned, interrupted>>
  BY DEF EditInput, given, search
<1>2. Typed'
  BY <1>1 DEF IInv, Typed
<1>3. Hashed' /\ Observed' /\ Searched' /\ Claimed'
  BY <1>1 DEF IInv, Hashed, Observed, Searched, Claimed, IsMinimal
<1>4. Reported' /\ Stored'
  BY <1>1 DEF IInv, Reported, Stored
<1> QED BY <1>2, <1>3, <1>4 DEF IInv

\* A changed file has contents it never had before.
LEMMA EditFileInv == ASSUME IInv, NEW f \in File, EditFile(f) PROVE IInv'
<1>1. /\ files' = [files EXCEPT ![f] = @ + 1]
      /\ UNCHANGED <<behaviour, maxEvaluations, pc, read, goal, tried, candidate, input, replayed, report,
                     disk, returned, interrupted>>
  BY DEF EditFile, given, search
<1>2. files \in [File -> Nat] /\ files' \in [File -> Nat] /\ \A g \in File : files[g] <= files'[g]
  BY <1>1 DEF IInv, Typed
<1>3. Typed'
  BY <1>1, <1>2 DEF IInv, Typed
<1>4. Hashed'
  <2>1. /\ files["original"] \in Nat /\ files'["original"] \in Nat /\ files["original"] <= files'["original"]
        /\ files["runner"] \in Nat /\ files'["runner"] \in Nat /\ files["runner"] <= files'["runner"]
    BY <1>2 DEF File
  <2> QED BY <1>1, <2>1 DEF IInv, Hashed
<1>5. Observed'
  <2> SUFFICES ASSUME pc = "judge"
               PROVE  \E v \in report.runner..files'["runner"] :
                        replayed.mismatch <=> Program[replayed.indices] \in behaviour[v]
    BY <1>1 DEF Observed
  <2>1. PICK v \in report.runner..files["runner"] :
          replayed.mismatch <=> Program[replayed.indices] \in behaviour[v]
    BY DEF IInv, Observed
  <2>2. report.runner \in Nat
    BY DEF IInv, Hashed, InTrial
  <2>3. files["runner"] \in Nat /\ files'["runner"] \in Nat /\ files["runner"] <= files'["runner"]
    BY <1>2 DEF File
  <2>4. v \in report.runner..files'["runner"]
    BY <2>1, <2>2, <2>3
  <2> QED BY <2>1, <2>4
<1>6. Searched' /\ Claimed'
  BY <1>1 DEF IInv, Searched, Claimed, IsMinimal
<1>7. Reported' /\ Stored'
  BY <1>1 DEF IInv, Reported, Stored
<1> QED BY <1>3, <1>4, <1>5, <1>6, <1>7 DEF IInv

-----------------------------------------------------------------------------
(* The theorems.                                                           *)

\* Every reachable state has the invariant: the search rejects only what the
\* named build of the runner does not show, shortest first, and a report claims a
\* minimum only when all of that is done.
THEOREM Invariant == Spec => []IInv
<1>1. IInv /\ [Next]_vars => IInv'
  <2> SUFFICES ASSUME IInv, [Next]_vars PROVE IInv'
    OBVIOUS
  <2>1. CASE Next
    BY <2>1, HashInv, ReadInv, IdentifyInv, BeginTrialInv, ReplayInv, JudgeInv, DecideInv, CertifyInv,
       SucceedInv, CloseInv, InterruptInv, CrashInv, EditInputInv, EditFileInv DEF Next
  <2>2. CASE UNCHANGED vars
    <3>1. UNCHANGED <<behaviour, maxEvaluations, files, pc, read, goal, tried, candidate, input, replayed,
                      report, disk, returned, interrupted>>
      BY <2>2 DEF vars
    <3>2. Typed' /\ Hashed' /\ Observed' /\ Searched'
      BY <3>1 DEF IInv, Typed, Hashed, Observed, Searched
    <3>3. Claimed' /\ Reported' /\ Stored'
      BY <3>1 DEF IInv, Claimed, IsMinimal, Reported, Stored
    <3> QED BY <3>2, <3>3 DEF IInv
  <2> QED BY <2>1, <2>2
<1> QED BY InitInv, <1>1, PTL DEF Spec

\* A proved minimum on disk is the truth about the build of the runner it names:
\* the minimal program shows the mismatch and no shorter subsequence does
\* (certificate of run, whatever failed, was edited or was interrupted).
THEOREM MinimalIsMinimal == Spec => []CertificateIsMinimal
<1>1. IInv => CertificateIsMinimal
  <2> SUFFICES ASSUME IInv, disk.minimum_proved PROVE CertificateIsMinimal
    BY DEF CertificateIsMinimal, Certified
  <2>1. disk = report /\ report.minimum_proved
    BY DEF IInv, Stored
  <2>2. IsMinimal(disk)
    BY <2>1 DEF IInv, Claimed
  <2> QED BY <2>2 DEF CertificateIsMinimal, IsMinimal
<1> QED BY Invariant, <1>1, PTL

\* The words of a certificate come from the artifact whose hash it names, although
\* the artifact was hashed first and parsed later.
THEOREM SourceIsRead == Spec => []CertificateIsAboutItsSource
<1>1. IInv => CertificateIsAboutItsSource
  BY DEF IInv, Stored, Claimed, CertificateIsAboutItsSource, Certified
<1> QED BY Invariant, <1>1, PTL

\* The exit status, the report on disk and the certificate agree, also when the
\* last save fails, the budget runs out or the run is interrupted.
THEOREM OutcomeIsOne == Spec => []OutcomesAgree
<1>1. IInv => OutcomesAgree
  <2> SUFFICES ASSUME IInv PROVE OutcomesAgree
    OBVIOUS
  <2>1. Stored
    BY DEF IInv
  <2>2. returned = 0 /\ pc = "done" => disk.minimum_proved /\ disk.status = "minimized"
    BY <2>1 DEF Stored
  <2>3. ASSUME disk.minimum_proved PROVE disk.status = "minimized" \/ interrupted
    <3>1. disk = report /\ report.minimum_proved
      BY <2>1, <2>3 DEF Stored
    <3> QED BY <3>1 DEF IInv, Claimed
  <2>4. disk.status = "incomplete" => ~ disk.minimum_proved /\ Len(disk.trials) = maxEvaluations
    BY <2>1 DEF Stored
  <2> QED BY <2>2, <2>3, <2>4 DEF OutcomesAgree, Certified
<1> QED BY Invariant, <1>1, PTL
=============================================================================
