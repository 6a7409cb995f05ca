------------------------- MODULE ReleaseTestProofs -------------------------
(***************************************************************************)
(* Proofs about the release test runner for every list of suites and every *)
(* script a test may consist of: the bookkeeping of doRunSuite and the     *)
(* verdict of RunReleaseTestSuites do not depend on what the tests do.     *)
(***************************************************************************)
EXTENDS RTTidy, FiniteSetTheorems, TLAPS

-----------------------------------------------------------------------------
(* The inductive invariant.                                                *)

\* The runner is inside a suite, and at one of its test cases.
InSuite == pc \notin {"suite", "done"}
AtCase == pc \in {"body", "after", "reverts"} \/ (pc = "setup" /\ t > 0)

\* The run is one of the plans, and the suite one of its suites.
Running ==
    /\ plan \in Chosen /\ opts = Options(plan)
    /\ InSuite => s \in 1..opts.count /\ suite = Suites[s]

\* The test that runs is the body of the present case.
Scripted == i > 0 /\ (pc = "body" => body = This.tests[t].steps)

\* The matrix is a record, which tests change but do not take down.
MatrixType == matrix = [up |-> matrix.up, view |-> matrix.view, decided |-> matrix.decided]

\* The report has a case for each test of the suite, and none between suites.
CasesType ==
    /\ cases \in [DOMAIN cases -> [failure : BOOLEAN, skipped : BOOLEAN]]
    /\ InSuite => DOMAIN cases = DOMAIN This.tests
    /\ pc = "suite" => DOMAIN cases = {}
    /\ IsFiniteSet(DOMAIN cases)
    /\ AtCase => t \in DOMAIN cases

\* A case is still unmarked when its turn comes, and after the test has run its
\* mark is the error the reverts see.
Unmarked ==
    /\ pc \in {"setup", "next", "body", "after", "reverts"} =>
          \A k \in DOMAIN cases : k > t => ~cases[k].failure
    /\ pc \in {"body", "after"} \/ (pc = "setup" /\ t > 0) => ~cases[t].failure
    /\ pc = "body" \/ (pc = "setup" /\ t > 0) => ~cases[t].skipped
    /\ pc = "reverts" => cases[t].failure = failed

\* A suite is set up only if some test of it is left.
SomethingLeft == pc = "setup" /\ t = 0 => skipped < Cardinality(DOMAIN cases)

\* Every failed call is on its way into the verdict: counted in a finished suite,
\* in this one, or about to be.
Accounted ==
    /\ pc # "done" => verdict = "none"
    /\ pc # "done" /\ broken =>
          total > 0 \/ failures > 0 \/ (pc \in {"body", "after"} /\ failed)

Typed == TypeOK /\ Running /\ Scripted /\ MatrixType /\ CasesType
Booked == Unmarked /\ SomethingLeft /\ CountersAgree
Inv == Typed /\ Booked /\ Accounted /\ VerdictSound

\* What the setup puts back is back.
CleanVPCs == \A x \in items : x[1] \notin Wiped

\* Whatever its tests do, a suite with wipeBetweenTests starts each of them with
\* the VPCs, peerings and servers as the setup makes them, and no test of any
\* suite starts before a setup has given it a connectivity matrix.
EveryTestSetUp ==
    AtStart => matrix.up /\ (This.wipe /\ ~This.noSetup => CleanVPCs)

\* What keeps it up: a failed setup is asked for again, and so is every setup a
\* wiped suite needs after a test.
SetUp ==
    /\ pc \in {"body", "after", "reverts"} => matrix.up
    /\ pc = "next" => matrix.up \/ NeedsSetup
    /\ pc = "setup" /\ t > 0 => NeedsSetup
    /\ pc = "next" /\ This.wipe /\ ~This.noSetup => CleanVPCs \/ ranSomeTests
    /\ pc = "reverts" => ranSomeTests
    /\ InSuite /\ prevRevertsFailed => ranSomeTests
    /\ EveryTestSetUp

-----------------------------------------------------------------------------
(* Facts about plans, options and reports.                                 *)

\* The options of a run are those of its plan.
LEMMA OptionsFields ==
  ASSUME NEW p \in Chosen
  PROVE  /\ Options(p).count = Plans[p].count /\ Options(p).count \in Nat
         /\ Options(p).maxEvents \in Nat /\ Options(p).failFast \in BOOLEAN
<1>1. IsPlan(Plans[p])  BY RTAssumption
<1>2. "count" \in DOMAIN Plans[p] \ {"suites"}  BY <1>1 DEF IsPlan
<1>3. "maxEvents" \in DOMAIN Plans[p] \ {"suites"}  BY <1>1 DEF IsPlan
<1>4. "failFast" \in DOMAIN Plans[p] \ {"suites"}  BY <1>1 DEF IsPlan
<1> QED  BY <1>1, <1>2, <1>3, <1>4 DEF Options, IsPlan

\* A suite is a list of tests, and a test a list of steps.
LEMMA SuiteFields ==
  ASSUME NEW p \in Chosen, NEW n \in 1..Plans[p].count
  PROVE  /\ IsList(Plans[p].suites[n].tests)
         /\ \A k \in DOMAIN Plans[p].suites[n].tests : IsTest(Plans[p].suites[n].tests[k])
<1>1. IsPlan(Plans[p])  BY RTAssumption
<1> QED  BY <1>1 DEF IsPlan

\* The cases of a list of tests are finitely many.
LEMMA ListFinite == ASSUME NEW q, IsList(q) PROVE IsFiniteSet(DOMAIN q)
<1>1. IsFiniteSet(1..Len(q))  BY FS_Interval DEF IsList
<1> QED  BY <1>1 DEF IsList

Mark == [failure : BOOLEAN, skipped : BOOLEAN]
FailedOf(cs) == {k \in DOMAIN cs : cs[k].failure}
SkippedOf(cs) == {k \in DOMAIN cs : cs[k].skipped}

\* The cases of a report that are marked are finitely many.
LEMMA MarksFinite ==
  ASSUME NEW D, IsFiniteSet(D), NEW cs \in [D -> Mark]
  PROVE  /\ IsFiniteSet(FailedOf(cs)) /\ Cardinality(FailedOf(cs)) \in Nat
         /\ IsFiniteSet(SkippedOf(cs)) /\ Cardinality(SkippedOf(cs)) \in Nat
<1>1. FailedOf(cs) \in SUBSET D /\ SkippedOf(cs) \in SUBSET D  BY DEF FailedOf, SkippedOf
<1> QED  BY <1>1, FS_Subset, FS_CardinalityType

\* Marking an unmarked case as failed adds one failure and no skip.
LEMMA FailOne ==
  ASSUME NEW D, IsFiniteSet(D), NEW cs \in [D -> Mark], NEW k \in D, ~cs[k].failure
  PROVE  LET new == [cs EXCEPT ![k].failure = TRUE]
         IN  /\ Cardinality(FailedOf(new)) = Cardinality(FailedOf(cs)) + 1
             /\ SkippedOf(new) = SkippedOf(cs)
<1> DEFINE new == [cs EXCEPT ![k].failure = TRUE]
<1>1. new \in [D -> Mark] /\ new[k].failure /\ new[k].skipped = cs[k].skipped
      /\ \A j \in D \ {k} : new[j] = cs[j]
  BY DEF Mark
<1> HIDE DEF new
<1>2. FailedOf(new) = FailedOf(cs) \cup {k} /\ k \notin FailedOf(cs)  BY <1>1 DEF FailedOf
<1>3. SkippedOf(new) = SkippedOf(cs)  BY <1>1 DEF SkippedOf
<1> QED  BY <1>2, <1>3, MarksFinite, FS_AddElement DEF new

\* Marking an unmarked case as skipped adds one skip and no failure.
LEMMA SkipOne ==
  ASSUME NEW D, IsFiniteSet(D), NEW cs \in [D -> Mark], NEW k \in D, ~cs[k].skipped
  PROVE  LET new == [cs EXCEPT ![k].skipped = TRUE]
         IN  /\ Cardinality(SkippedOf(new)) = Cardinality(SkippedOf(cs)) + 1
             /\ FailedOf(new) = FailedOf(cs)
<1> DEFINE new == [cs EXCEPT ![k].skipped = TRUE]
<1>1. new \in [D -> Mark] /\ new[k].skipped /\ new[k].failure = cs[k].failure
      /\ \A j \in D \ {k} : new[j] = cs[j]
  BY DEF Mark
<1> HIDE DEF new
<1>2. SkippedOf(new) = SkippedOf(cs) \cup {k} /\ k \notin SkippedOf(cs)  BY <1>1 DEF SkippedOf
<1>3. FailedOf(new) = FailedOf(cs)  BY <1>1 DEF FailedOf
<1> QED  BY <1>2, <1>3, MarksFinite, FS_AddElement DEF new

-----------------------------------------------------------------------------
(* Typing.                                                                 *)

\* A typed state is one of a plan that the assumption describes.
LEMMA PlanFacts ==
  ASSUME Running
  PROVE  /\ opts.count \in Nat /\ opts.maxEvents \in Nat /\ opts.failFast \in BOOLEAN
         /\ InSuite => /\ IsList(This.tests) /\ IsFiniteSet(DOMAIN This.tests)
                       /\ \A k \in DOMAIN This.tests : IsTest(This.tests[k])
<1>1. /\ opts.count = Plans[plan].count /\ opts.count \in Nat
      /\ opts.maxEvents \in Nat /\ opts.failFast \in BOOLEAN
  BY OptionsFields DEF Running
<1>2. ASSUME InSuite
      PROVE  /\ IsList(This.tests) /\ \A k \in DOMAIN This.tests : IsTest(This.tests[k])
  BY <1>1, <1>2, SuiteFields DEF Running, This, Suites
<1> QED  BY <1>1, <1>2, ListFinite

\* What the environment does stays within its bound.
LEMMA EventType ==
  ASSUME TypeOK, Running, UNCHANGED opts, NEW n \in Nat, Event(n) \/ UNCHANGED events
  PROVE  events' \in 0..opts'.maxEvents
  BY PlanFacts DEF TypeOK, Event, MaxEvents

\* A setup, successful or not, leaves a matrix; only a successful one is up.
LEMMA SetupType ==
  ASSUME TypeOK, Running, UNCHANGED opts, setupTest \/ setupTestFails
  PROVE  /\ MatrixType' /\ matrix'.up \in BOOLEAN /\ matrix'.decided \in BOOLEAN
         /\ events' \in 0..opts'.maxEvents
         /\ setupTest => matrix'.up /\ (~This.noSetup => CleanVPCs')
<1>1. events' \in 0..opts'.maxEvents
  BY EventType, 1 \in Nat DEF setupTest, setupTestFails
<1>2. /\ MatrixType' /\ matrix'.up \in BOOLEAN /\ matrix'.decided \in BOOLEAN
      /\ setupTest => matrix'.up
  <2>1. CASE setupTest
    <3>1. matrix' = [up |-> TRUE, view |-> Reach(items'), decided |-> TRUE]
      BY <2>1 DEF setupTest
    <3>2. matrix'.up = TRUE /\ matrix'.decided = TRUE  BY <3>1
    <3>3. MatrixType'  BY <3>1, <3>2 DEF MatrixType
    <3> QED  BY <3>2, <3>3
  <2>2. CASE ~setupTest
    <3>1. matrix' = NoMatrix  BY <2>2 DEF setupTestFails
    <3>2. matrix'.up = FALSE /\ matrix'.decided = FALSE  BY <3>1 DEF NoMatrix
    <3>3. MatrixType'  BY <3>1, <3>2 DEF MatrixType, NoMatrix
    <3> QED  BY <2>2, <3>2, <3>3
  <2> QED  BY <2>1, <2>2
<1>3. setupTest /\ ~This.noSetup => CleanVPCs'
  BY DEF setupTest, CleanVPCs
<1> QED  BY <1>1, <1>2, <1>3

\* A step of a test or of a revert changes what the matrix shows, no more.
LEMMA ShownType ==
  ASSUME TypeOK, MatrixType, NEW st, matrix' = Shown(st)
  PROVE  MatrixType' /\ matrix'.up = matrix.up /\ matrix'.decided \in BOOLEAN
<1>1. CASE matrix' = [matrix EXCEPT !.view = Reach(items), !.decided = ~NatPeered(items)]
  BY <1>1 DEF MatrixType
<1>2. CASE matrix' = [matrix EXCEPT !.decided = TRUE]  BY <1>2 DEF MatrixType
<1>3. CASE \E v : matrix' = [matrix EXCEPT !.view = v]  BY <1>3 DEF MatrixType, TypeOK
<1>4. CASE UNCHANGED matrix  BY <1>4 DEF MatrixType, TypeOK
<1> QED  BY <1>1, <1>2, <1>3, <1>4 DEF Shown

\* The step that a test is at is one of its script.
LEMMA StepType ==
  ASSUME Typed, pc = "body", i <= Len(body)
  PROVE  i \in DOMAIN body /\ Current.skip \in Nat /\ Current.opt \in Nat
<1>1. InSuite /\ t \in DOMAIN This.tests /\ body = This.tests[t].steps
  BY DEF Typed, Scripted, CasesType, AtCase, InSuite
<1>2. IsTest(This.tests[t])  BY <1>1, PlanFacts DEF Typed
<1> QED  BY <1>1, <1>2 DEF Typed, TypeOK, Scripted, IsTest, IsList, Current

\* A test goes on behind the step it was at, or ends.
LEMMA StepPosition ==
  ASSUME Typed, stepOK \/ stepNotNeeded \/ stepFails \/ stepSkips \/ testReturns
  PROVE  i' \in Nat /\ i' > 0 /\ (pc' = "after" \/ i' # 1)
<1>1. i \in Nat /\ i > 0
  BY DEF Typed, TypeOK, Scripted
<1>2. pc = "body" /\ i <= Len(body) => Current.opt \in Nat /\ Current.skip \in Nat
  BY StepType
<1>3. \/ pc' = "after" /\ i' = i
      \/ i' = i + 1
      \/ pc = "body" /\ i <= Len(body) /\ Current.opt > 0 /\ i' = i + Current.opt
      \/ pc = "body" /\ i <= Len(body) /\ i' = i + 1 + Current.skip
  BY DEF stepOK, stepNotNeeded, stepFails, stepSkips, testReturns, Finish
<1> QED
  BY <1>1, <1>2, <1>3

\* The regexes deselect some of the tests; the flags rule out others.
LEMMA SelectType ==
  ASSUME Typed, selectAndRunSuite
  PROVE  /\ s \in 1..opts.count
         /\ IsList(suite'.tests) /\ IsFiniteSet(DOMAIN suite'.tests)
         /\ events' \in 0..opts.maxEvents
         /\ \E out \in SUBSET DOMAIN suite'.tests :
               /\ cases' = [k \in DOMAIN suite'.tests |->
                               [failure |-> FALSE, skipped |-> k \in out]]
               /\ skipped' = Cardinality(out) /\ Cardinality(out) \in Nat
               /\ pc' = IF out = DOMAIN suite'.tests THEN "end" ELSE "setup"
<1> DEFINE tests == DOMAIN suite'.tests
<1>1. s \in 1..opts.count /\ suite' = Suites[s]
  BY PlanFacts DEF Typed, TypeOK, selectAndRunSuite
<1>2. IsList(suite'.tests)
  BY <1>1, OptionsFields, SuiteFields DEF Typed, Running, Suites
<1>3. IsFiniteSet(tests)  BY <1>2, ListFinite
<1> HIDE DEF tests
<1>4. PICK sel \in regexpSelection(tests) :
         LET out == sel \cup {k \in tests : RuledOut(suite'.tests[k])}
         IN  /\ Event(Cardinality(sel))
             /\ cases' = [k \in tests |-> [failure |-> FALSE, skipped |-> k \in out]]
             /\ skipped' = Cardinality(out)
             /\ pc' = IF out = tests THEN "end" ELSE "setup"
  BY DEF selectAndRunSuite, tests
<1>5. sel \subseteq tests  BY DEF regexpSelection
<1>6. Cardinality(sel) \in Nat  BY <1>3, <1>5, FS_Subset, FS_CardinalityType
<1>7. events' \in 0..opts.maxEvents
  BY <1>4, <1>6, EventType DEF Typed, selectAndRunSuite
<1> DEFINE out == sel \cup {k \in tests : RuledOut(suite'.tests[k])}
<1>8. out \in SUBSET tests  BY <1>5
<1>9. cases' = [k \in tests |-> [failure |-> FALSE, skipped |-> k \in out]]
  BY <1>4
<1>10. skipped' = Cardinality(out) /\ pc' = IF out = tests THEN "end" ELSE "setup"
  BY <1>4
<1> HIDE DEF out
<1>11. Cardinality(out) \in Nat  BY <1>3, <1>8, FS_Subset, FS_CardinalityType
<1> QED  BY <1>1, <1>2, <1>3, <1>7, <1>8, <1>9, <1>10, <1>11 DEF tests

\* Typing of a report that is not touched, at the same test of the same suite.
LEMMA SameReport ==
  ASSUME CasesType, InSuite, UNCHANGED <<suite, t, cases>>, pc' # "suite",
         AtCase' => AtCase
  PROVE  CasesType'
  BY DEF CasesType, InSuite, This

\* A mark on a case of the report is no new case.
LEMMA MarkedReport ==
  ASSUME CasesType, AtCase, UNCHANGED <<suite, t>>, pc' # "suite", NEW b \in BOOLEAN,
         \/ cases' = [cases EXCEPT ![t].failure = b]
         \/ cases' = [cases EXCEPT ![t].skipped = b]
  PROVE  CasesType' /\ cases' \in [DOMAIN cases -> Mark]
<1>1. cases' \in [DOMAIN cases -> Mark]
  <2>1. CASE cases' = [cases EXCEPT ![t].failure = b]  BY <2>1 DEF CasesType, Mark
  <2>2. CASE cases' = [cases EXCEPT ![t].skipped = b]  BY <2>2 DEF CasesType, Mark
  <2> QED  BY <2>1, <2>2
<1>2. DOMAIN cases' = DOMAIN cases  BY <1>1
<1>3. InSuite  BY DEF AtCase, InSuite
<1>4. cases' \in [DOMAIN cases' -> [failure : BOOLEAN, skipped : BOOLEAN]]
  BY <1>1, <1>2 DEF Mark
<1> QED  BY <1>1, <1>2, <1>3, <1>4 DEF CasesType, This

\* The selection keeps the types.
LEMMA SelectTyped ==
  ASSUME Typed, selectAndRunSuite
  PROVE  Typed'
<1>1. PICK out \in SUBSET DOMAIN suite'.tests :
         /\ cases' = [k \in DOMAIN suite'.tests |-> [failure |-> FALSE, skipped |-> k \in out]]
         /\ skipped' = Cardinality(out) /\ Cardinality(out) \in Nat
         /\ pc' = IF out = DOMAIN suite'.tests THEN "end" ELSE "setup"
  BY SelectType
<1>2. /\ s \in 1..opts.count /\ suite' = Suites[s] /\ IsFiniteSet(DOMAIN suite'.tests)
      /\ events' \in 0..opts.maxEvents
  BY SelectType DEF selectAndRunSuite
<1>3. /\ failures' = 0 /\ t' = 0 /\ i' = 1
      /\ prevRevertsFailed' = FALSE /\ ranSomeTests' = FALSE
      /\ UNCHANGED <<plan, opts, s, matrix, failed, total, verdict, broken, cleanupBroken>>
  BY DEF selectAndRunSuite, history
<1>4. TypeOK'  BY <1>1, <1>2, <1>3 DEF Typed, TypeOK, MaxEvents
<1>5. Running'  BY <1>2, <1>3 DEF Typed, Running, Suites
<1>6. Scripted' /\ MatrixType'  BY <1>1, <1>3 DEF Typed, Scripted, MatrixType
<1>7. CasesType'
  <2>1. cases' \in [DOMAIN suite'.tests -> Mark]  BY <1>1 DEF Mark
  <2>2. DOMAIN cases' = DOMAIN suite'.tests  BY <2>1
  <2>3. cases' \in [DOMAIN cases' -> [failure : BOOLEAN, skipped : BOOLEAN]]
    BY <2>1, <2>2 DEF Mark
  <2>4. ~AtCase' /\ pc' # "suite"  BY <1>1, <1>3 DEF AtCase
  <2> QED  BY <1>2, <2>2, <2>3, <2>4 DEF CasesType, This
<1> QED  BY <1>4, <1>5, <1>6, <1>7 DEF Typed

\* A failed initial setup keeps the types.
LEMMA FailAllTyped ==
  ASSUME Typed, CountersAgree, failAllTests
  PROVE  Typed' /\ failures' = Cardinality(FailedOf(cases')) /\ SkippedOf(cases') = SkippedOf(cases)
<1> DEFINE D == DOMAIN cases
<1>1. InSuite /\ D = Tests /\ IsFiniteSet(D) /\ cases \in [D -> Mark]
  BY DEF failAllTests, InSuite, Typed, CasesType, Tests, Mark
<1> HIDE DEF D
<1>2. cases' = [k \in D |-> [cases[k] EXCEPT !.failure = ~cases[k].skipped]]
  BY <1>1 DEF failAllTests
<1>3. /\ cases' \in [D -> Mark]
      /\ \A k \in D : cases'[k].failure = ~cases[k].skipped /\ cases'[k].skipped = cases[k].skipped
  BY <1>1, <1>2 DEF Mark
<1>4. SkippedOf(cases') = SkippedOf(cases) /\ FailedOf(cases') = D \ SkippedOf(cases)
  BY <1>1, <1>3 DEF SkippedOf, FailedOf
<1>5. Cardinality(D \ SkippedOf(cases)) = Cardinality(D) - Cardinality(D \cap SkippedOf(cases))
  BY <1>1, FS_Difference
<1>6. D \cap SkippedOf(cases) = SkippedOf(cases)  BY <1>1 DEF SkippedOf
<1>7. failures' = Cardinality(FailedOf(cases'))
  BY <1>1, <1>4, <1>5, <1>6 DEF failAllTests, CountersAgree, SkippedOf, D
<1>8. failures' \in Nat  BY <1>1, <1>3, <1>7, MarksFinite
<1>9. /\ pc' \in {"done", "end"} /\ (UNCHANGED verdict \/ verdict' = "error")
      /\ broken' \in BOOLEAN
      /\ UNCHANGED <<plan, opts, suite, s, t, i, body, failed, prevRevertsFailed, ranSomeTests,
                     skipped, total, cleanupBroken>>
  BY DEF failAllTests, setupTestFails, run, flags
<1>10. MatrixType' /\ matrix'.up \in BOOLEAN /\ matrix'.decided \in BOOLEAN
       /\ events' \in 0..opts'.maxEvents
  BY <1>9, SetupType DEF Typed, failAllTests
<1>11. TypeOK'  BY <1>8, <1>9, <1>10 DEF Typed, TypeOK, MaxEvents
<1>12. Running' /\ Scripted'  BY <1>1, <1>9 DEF Typed, Running, Scripted, InSuite, Suites
<1>13. CasesType'
  <2>1. DOMAIN cases' = D  BY <1>3
  <2>2. cases' \in [DOMAIN cases' -> [failure : BOOLEAN, skipped : BOOLEAN]]
    BY <1>3, <2>1 DEF Mark
  <2>3. ~AtCase' /\ pc' # "suite"  BY <1>9 DEF AtCase
  <2> QED  BY <1>1, <1>9, <2>1, <2>2, <2>3 DEF CasesType, This, Tests
<1> QED  BY <1>4, <1>7, <1>10, <1>11, <1>12, <1>13 DEF Typed

\* The loop over the test cases keeps the types.
LEMMA LoopTyped ==
  ASSUME Typed, initialSetup \/ nextTest \/ setupBetweenTests \/ setupBetweenFails
  PROVE  Typed'
<1> USE DEF Typed, run, flags, history, report
<1>1. InSuite /\ pc' # "suite" /\ UNCHANGED <<plan, opts, suite, s>>
  BY DEF initialSetup, nextTest, setupBetweenTests, setupBetweenFails, StartTest, NextCase, InSuite
<1>2. Running'  BY <1>1 DEF Running, Suites
<1>3. CASE initialSetup
  <2>1. UNCHANGED <<t, i, cases, failures, skipped, total, verdict, failed, prevRevertsFailed,
                    ranSomeTests, broken, cleanupBroken>> /\ pc' = "next"
    BY <1>3 DEF initialSetup
  <2>2. TypeOK' /\ MatrixType'  BY <1>1, <1>3, <2>1, SetupType DEF TypeOK, initialSetup, MaxEvents
  <2>3. Scripted'  BY <2>1 DEF Scripted
  <2>4. CasesType'  BY <1>1, <2>1, SameReport DEF AtCase
  <2> QED  BY <1>2, <2>2, <2>3, <2>4
<1>4. CASE nextTest
  <2>1. /\ pc = "next" /\ Len(This.tests) \in Nat /\ DOMAIN cases = 1..Len(This.tests)
        /\ UNCHANGED <<matrix, failures, skipped, total, verdict, cases, ranSomeTests, events,
                       broken, cleanupBroken>>
    BY <1>1, <1>4, PlanFacts DEF nextTest, CasesType, IsList
  <2>2. CASE pc' = "end" /\ UNCHANGED <<t, i, failed, prevRevertsFailed>>
    <3>1. TypeOK' /\ MatrixType'  BY <1>1, <2>1, <2>2 DEF TypeOK, MatrixType, MaxEvents
    <3>2. Scripted'  BY <2>2 DEF Scripted
    <3>3. CasesType'  BY <1>1, <2>1, <2>2, SameReport DEF AtCase
    <3> QED  BY <1>2, <3>1, <3>2, <3>3
  <2>3. CASE /\ t' = t + 1 /\ t + 1 <= Len(This.tests)
             /\ \/ pc' \in {"next", "setup"} /\ UNCHANGED <<i, failed, prevRevertsFailed>>
                \/ StartTest(t + 1) /\ prevRevertsFailed' = FALSE
    <3>1. t + 1 \in DOMAIN cases  BY <2>1, <2>3 DEF TypeOK
    <3>2. TypeOK' /\ MatrixType'
      <4>1. t' \in Nat  BY <2>3 DEF TypeOK
      <4>2. CASE pc' \in {"next", "setup"} /\ UNCHANGED <<i, failed, prevRevertsFailed>>
        BY <1>1, <2>1, <4>1, <4>2 DEF TypeOK, MatrixType, MaxEvents
      <4>3. CASE pc' = "body" /\ i' = 1 /\ failed' = FALSE /\ prevRevertsFailed' = FALSE
        BY <1>1, <2>1, <4>1, <4>3 DEF TypeOK, MatrixType, MaxEvents
      <4> QED  BY <2>3, <4>2, <4>3 DEF StartTest
    <3>3. Scripted'  BY <1>1, <2>3 DEF Scripted, StartTest, This
    <3>4. CasesType'  BY <1>1, <2>1, <2>3, <3>1 DEF CasesType, InSuite, This
    <3> QED  BY <1>2, <3>2, <3>3, <3>4
  <2>4. t + 1 > Len(This.tests) \/ t + 1 <= Len(This.tests)  BY <2>1 DEF TypeOK
  <2> QED  BY <1>4, <2>2, <2>3, <2>4 DEF nextTest, NextCase, StartTest
<1>5. CASE setupBetweenTests
  <2>1. /\ UNCHANGED <<t, cases, failures, skipped, total, verdict, ranSomeTests, broken, cleanupBroken>>
        /\ pc' = "body" /\ i' = 1 /\ body' = This.tests[t].steps
        /\ failed' = FALSE /\ prevRevertsFailed' = FALSE
    BY <1>5 DEF setupBetweenTests, StartTest
  <2>2. TypeOK' /\ MatrixType'  BY <1>1, <1>5, <2>1, SetupType DEF TypeOK, setupBetweenTests, MaxEvents
  <2>3. Scripted'  BY <1>1, <2>1 DEF Scripted, This
  <2>4. CasesType'  BY <1>1, <1>5, <2>1, SameReport DEF AtCase, setupBetweenTests
  <2> QED  BY <1>2, <2>2, <2>3, <2>4
<1>6. CASE setupBetweenFails
  <2>1. /\ UNCHANGED <<t, i, skipped, total, failed, ranSomeTests, prevRevertsFailed, cleanupBroken>>
        /\ pc' \in {"done", "next"} /\ (UNCHANGED verdict \/ verdict' = "error")
        /\ failures' = failures + 1 /\ cases' = [cases EXCEPT ![t].failure = TRUE]
        /\ broken' = TRUE
    BY <1>6 DEF setupBetweenFails, NextCase, setupTestFails
  <2>2. TypeOK' /\ MatrixType'  BY <1>1, <1>6, <2>1, SetupType DEF TypeOK, setupBetweenFails, MaxEvents
  <2>3. Scripted'  BY <2>1 DEF Scripted
  <2>4. CasesType'  BY <1>1, <1>6, <2>1, MarkedReport DEF AtCase, setupBetweenFails
  <2> QED  BY <1>2, <2>2, <2>3, <2>4
<1> QED  BY <1>3, <1>4, <1>5, <1>6

\* The steps of a test keep the types.
LEMMA BodyTyped ==
  ASSUME Typed, stepOK \/ stepNotNeeded \/ stepFails \/ stepSkips \/ testReturns
  PROVE  Typed'
<1> USE DEF Typed, run, flags, history, report
<1>1. /\ pc = "body" /\ InSuite /\ AtCase /\ pc' \in {"body", "after"}
      /\ UNCHANGED <<plan, opts, suite, s, t, body, failures, total, verdict, prevRevertsFailed,
                     ranSomeTests>>
  BY DEF stepOK, stepNotNeeded, stepFails, stepSkips, testReturns, Finish, InSuite, AtCase
<1>2. Running'  BY <1>1 DEF Running, Suites
<1>3. i' \in Nat /\ i' > 0
  BY StepPosition
<1>4. Scripted'  BY <1>1, <1>3 DEF Scripted, This
<1>5. CASE UNCHANGED <<matrix, events, failed, broken, cleanupBroken, cases, skipped>>
  <2>1. TypeOK' /\ MatrixType'  BY <1>1, <1>3, <1>5 DEF TypeOK, MatrixType, MaxEvents
  <2>2. CasesType'  BY <1>1, <1>5, SameReport
  <2> QED  BY <1>2, <1>4, <2>1, <2>2
<1>6. CASE stepOK
  <2>1. MatrixType' /\ matrix'.up = matrix.up /\ matrix'.decided \in BOOLEAN
    BY <1>6, ShownType DEF stepOK
  <2>2. TypeOK'  BY <1>1, <1>3, <1>6, <2>1 DEF TypeOK, stepOK, MaxEvents
  <2>3. CasesType'  BY <1>1, <1>6, SameReport DEF stepOK
  <2> QED  BY <1>2, <1>4, <2>1, <2>2, <2>3
<1>7. CASE stepFails
  <2>1. /\ failed' = TRUE /\ broken' = TRUE /\ cleanupBroken' \in BOOLEAN
        /\ UNCHANGED <<matrix, cases, skipped>>
    BY <1>7 DEF stepFails
  <2>2. events' \in 0..opts'.maxEvents  BY <1>1, <1>7, EventType, 1 \in Nat DEF stepFails
  <2>3. TypeOK' /\ MatrixType'  BY <1>1, <1>3, <2>1, <2>2 DEF TypeOK, MatrixType, MaxEvents
  <2>4. CasesType'  BY <1>1, <2>1, SameReport
  <2> QED  BY <1>2, <1>4, <2>3, <2>4
<1>8. CASE stepSkips
  <2>1. /\ cases' = [cases EXCEPT ![t].skipped = TRUE] /\ skipped' = skipped + 1
        /\ UNCHANGED <<matrix, failed, broken, cleanupBroken>>
    BY <1>8 DEF stepSkips
  <2>2. events' \in 0..opts'.maxEvents  BY <1>1, <1>8, EventType, 1 \in Nat DEF stepSkips
  <2>3. TypeOK' /\ MatrixType'  BY <1>1, <1>3, <2>1, <2>2 DEF TypeOK, MatrixType, MaxEvents
  <2>4. CasesType'  BY <1>1, <2>1, MarkedReport
  <2> QED  BY <1>2, <1>4, <2>3, <2>4
<1> QED  BY <1>5, <1>6, <1>7, <1>8 DEF stepNotNeeded, testReturns

\* What follows a test, and the end of a suite and of the run, keep the types.
LEMMA RestTyped ==
  ASSUME Typed, \/ recordOutcome \/ nextRevert \/ revertStep \/ revertFails
                \/ afterReverts \/ endOfSuite \/ recapAndReport
  PROVE  Typed'
<1> USE DEF Typed, run, flags, history, report
<1>1. CASE nextRevert \/ revertStep \/ afterReverts
  <2>1. /\ pc = "reverts" /\ InSuite /\ AtCase /\ pc' \in {"reverts", "next", "done"}
        /\ UNCHANGED <<plan, opts, suite, s, t, i, failed, cases, failures, skipped, total,
                       prevRevertsFailed, ranSomeTests, broken, cleanupBroken, events>>
        /\ UNCHANGED verdict \/ verdict' = "error"
        /\ UNCHANGED matrix \/ matrix' = Shown(Head(undo))
    BY <1>1 DEF nextRevert, revertStep, afterReverts, NextCase, InSuite, AtCase
  <2>2. MatrixType' /\ matrix'.up \in BOOLEAN /\ matrix'.decided \in BOOLEAN
    <3>1. CASE UNCHANGED matrix  BY <3>1 DEF TypeOK, MatrixType
    <3>2. CASE matrix' = Shown(Head(undo))  BY <3>2, ShownType DEF TypeOK
    <3> QED  BY <2>1, <3>1, <3>2
  <2>3. TypeOK'  BY <2>1, <2>2 DEF TypeOK, MaxEvents
  <2>4. Running' /\ Scripted'  BY <2>1 DEF Running, Scripted, Suites
  <2>5. CasesType'  BY <2>1, SameReport
  <2> QED  BY <2>2, <2>3, <2>4, <2>5
<1>2. CASE recordOutcome \/ revertFails
  <2>1. /\ pc \in {"after", "reverts"} /\ pc' = "reverts" /\ InSuite /\ AtCase
        /\ UNCHANGED <<plan, opts, suite, s, t, i, matrix, skipped, total, verdict>>
        /\ failures' \in {failures, failures + 1}
        /\ \E b \in BOOLEAN : cases' = [cases EXCEPT ![t].failure = b]
        /\ {failed', prevRevertsFailed', ranSomeTests', broken', cleanupBroken'} \subseteq BOOLEAN
    BY <1>2 DEF TypeOK, recordOutcome, revertFails, InSuite, AtCase
  <2>2. events' \in 0..opts'.maxEvents
    BY <1>2, <2>1, EventType, 1 \in Nat DEF recordOutcome, revertFails
  <2>3. TypeOK' /\ MatrixType'  BY <2>1, <2>2 DEF TypeOK, MatrixType, MaxEvents
  <2>4. Running' /\ Scripted'  BY <2>1 DEF Running, Scripted, Suites, InSuite
  <2>5. CasesType'  BY <2>1, MarkedReport
  <2> QED  BY <2>3, <2>4, <2>5
<1>3. CASE endOfSuite
  <2>1. InSuite /\ pc' = "suite" /\ s \in 1..opts.count /\ opts.count \in Nat
    BY <1>3, PlanFacts DEF endOfSuite, InSuite, Running
  <2>2. cases' = <<>> /\ UNCHANGED <<plan, opts, i, matrix>>  BY <1>3 DEF endOfSuite
  <2>3. TypeOK' /\ MatrixType'  BY <1>3, <2>1 DEF TypeOK, MatrixType, endOfSuite, MaxEvents
  <2>4. Running' /\ Scripted'  BY <2>1, <2>2 DEF Running, Scripted, InSuite
  <2>5. CasesType'
    <3>1. DOMAIN cases' = {} /\ cases' \in [{} -> Mark]  BY <2>2
    <3>2. cases' \in [DOMAIN cases' -> [failure : BOOLEAN, skipped : BOOLEAN]]
      BY <3>1 DEF Mark
    <3> QED  BY <2>1, <3>1, <3>2, FS_EmptySet DEF CasesType, InSuite, AtCase
  <2> QED  BY <2>3, <2>4, <2>5
<1>4. CASE recapAndReport
  <2>1. /\ pc = "suite" /\ pc' = "done" /\ verdict' \in {"ok", "error"}
        /\ UNCHANGED <<plan, opts, s, t, i, matrix, failed, prevRevertsFailed, ranSomeTests, cases,
                       failures, skipped, total, broken, cleanupBroken>>
    BY <1>4 DEF recapAndReport
  <2>2. events' \in 0..opts'.maxEvents  BY <1>4, <2>1, EventType, 1 \in Nat DEF recapAndReport
  <2>3. TypeOK' /\ MatrixType'  BY <2>1, <2>2 DEF TypeOK, MatrixType, MaxEvents
  <2>4. Running' /\ Scripted'  BY <2>1 DEF Running, Scripted, InSuite
  <2>5. CasesType'  BY <2>1 DEF CasesType, InSuite, AtCase
  <2> QED  BY <2>3, <2>4, <2>5
<1> QED  BY <1>1, <1>2, <1>3, <1>4

-----------------------------------------------------------------------------
(* The books.                                                              *)

\* The first step of a suite opens them with the skips alone.
LEMMA SelectBooked ==
  ASSUME Typed, Accounted, CountersAgree, selectAndRunSuite
  PROVE  Booked' /\ Accounted'
<1>1. PICK out \in SUBSET DOMAIN suite'.tests :
         /\ cases' = [k \in DOMAIN suite'.tests |-> [failure |-> FALSE, skipped |-> k \in out]]
         /\ skipped' = Cardinality(out) /\ Cardinality(out) \in Nat
         /\ pc' = IF out = DOMAIN suite'.tests THEN "end" ELSE "setup"
  BY SelectType
<1>2. IsFiniteSet(DOMAIN suite'.tests)  BY SelectType
<1>3. DOMAIN cases' = DOMAIN suite'.tests /\ \A k \in DOMAIN cases' : ~cases'[k].failure
  BY <1>1
<1>4. failures' = 0 /\ t' = 0 /\ UNCHANGED <<total, verdict, broken>> /\ pc = "suite"
  BY DEF selectAndRunSuite, history
<1>5. Unmarked'  BY <1>1, <1>3, <1>4 DEF Unmarked
<1>6. SomethingLeft'
  <2>1. CASE out # DOMAIN suite'.tests
    <3>1. Cardinality(out) < Cardinality(DOMAIN suite'.tests)
      BY <1>1, <1>2, <2>1, FS_Subset, FS_CardinalityType
    <3> QED  BY <1>1, <1>3, <3>1 DEF SomethingLeft
  <2>2. CASE out = DOMAIN suite'.tests  BY <1>1, <2>2 DEF SomethingLeft
  <2> QED  BY <2>1, <2>2
<1>7. CountersAgree'
  <2>1. {k \in DOMAIN cases' : cases'[k].failure} = {}  BY <1>3
  <2>2. {k \in DOMAIN cases' : cases'[k].skipped} = out  BY <1>1
  <2> QED  BY <1>1, <1>4, <2>1, <2>2, FS_EmptySet DEF CountersAgree
<1>8. Accounted'
  <2>1. failures = 0
    <3>1. {k \in DOMAIN cases : cases[k].failure} = {}  BY <1>4 DEF Typed, CasesType
    <3> QED  BY <3>1, FS_EmptySet DEF CountersAgree
  <2> QED  BY <1>4, <2>1 DEF Accounted
<1> QED  BY <1>5, <1>6, <1>7, <1>8 DEF Booked

\* A failed initial setup fails at least one test.
LEMMA FailAllBooked ==
  ASSUME Typed, Booked, failAllTests
  PROVE  Booked' /\ failures' > 0
<1>1. /\ failures' = Cardinality(FailedOf(cases')) /\ SkippedOf(cases') = SkippedOf(cases)
      /\ UNCHANGED skipped
  BY FailAllTyped DEF failAllTests, Booked
<1>2. CountersAgree'  BY <1>1 DEF Booked, CountersAgree, FailedOf, SkippedOf
<1>3. pc' \in {"done", "end"}  BY DEF failAllTests
<1>4. Unmarked' /\ SomethingLeft'  BY <1>3 DEF Unmarked, SomethingLeft
<1>5. InSuite /\ DOMAIN cases = Tests /\ IsFiniteSet(DOMAIN cases)
  BY DEF failAllTests, InSuite, Typed, CasesType, Tests
<1>6. failures' > 0
  <2>1. skipped < Cardinality(DOMAIN cases) /\ skipped \in Nat
    BY DEF Booked, SomethingLeft, failAllTests, Typed, TypeOK
  <2>2. Cardinality(DOMAIN cases) \in Nat  BY <1>5, FS_CardinalityType
  <2> QED  BY <1>5, <2>1, <2>2 DEF failAllTests
<1> QED  BY <1>2, <1>4, <1>6 DEF Booked

\* A case that fails for the first time is counted once.
LEMMA FailCounted ==
  ASSUME Typed, CountersAgree, AtCase, ~cases[t].failure, failures' = failures + 1,
         UNCHANGED skipped, cases' = [cases EXCEPT ![t].failure = TRUE]
  PROVE  CountersAgree'
<1>1. IsFiniteSet(DOMAIN cases) /\ t \in DOMAIN cases /\ cases \in [DOMAIN cases -> Mark]
  BY DEF Typed, CasesType, Mark
<1>2. /\ Cardinality(FailedOf(cases')) = Cardinality(FailedOf(cases)) + 1
      /\ SkippedOf(cases') = SkippedOf(cases)
  BY <1>1, FailOne, ZenonT(40)
<1> QED  BY <1>2 DEF CountersAgree, FailedOf, SkippedOf

\* A mark that is there already changes nothing.
LEMMA SameMark ==
  ASSUME Typed, AtCase, NEW b \in BOOLEAN, cases[t].failure = b
  PROVE  [cases EXCEPT ![t].failure = b] = cases
<1>1. t \in DOMAIN cases /\ cases \in [DOMAIN cases -> Mark]  BY DEF Typed, CasesType, Mark
<1>2. [cases[t] EXCEPT !.failure = b] = cases[t]  BY <1>1 DEF Mark
<1> QED  BY <1>1, <1>2

\* The loop over the test cases keeps the books.
LEMMA LoopBooked ==
  ASSUME Typed, Booked, initialSetup \/ nextTest \/ setupBetweenTests \/ setupBetweenFails
  PROVE  Booked'
<1> USE DEF Booked, run, flags, history, report
<1>1. CASE initialSetup
  <2>1. pc = "setup" /\ pc' = "next" /\ UNCHANGED <<t, cases, failures, skipped>>
    BY <1>1 DEF initialSetup
  <2> QED  BY <2>1 DEF Unmarked, SomethingLeft, CountersAgree
<1>2. CASE nextTest
  <2>1. pc = "next" /\ UNCHANGED <<cases, failures, skipped>>  BY <1>2 DEF nextTest
  <2>2. CountersAgree'  BY <2>1 DEF CountersAgree
  <2>3. CASE pc' = "end"  BY <2>2, <2>3 DEF Unmarked, SomethingLeft
  <2>a. t \in Nat /\ Len(This.tests) \in Nat /\ DOMAIN cases = 1..Len(This.tests)
    BY <2>1, PlanFacts DEF Typed, TypeOK, CasesType, InSuite, IsList
  <2>b. \A k \in DOMAIN cases : k > t + 1 => ~cases[k].failure  BY <2>1, <2>a DEF Unmarked
  <2>4. CASE t' = t + 1 /\ pc' = "next"  BY <2>1, <2>2, <2>b, <2>4 DEF Unmarked, SomethingLeft
  <2>5. CASE /\ t' = t + 1 /\ t + 1 <= Len(This.tests) /\ ~cases[t + 1].skipped
             /\ pc' \in {"setup", "body"}
    <3>1. t + 1 \in DOMAIN cases /\ t + 1 > t /\ t + 1 # 0  BY <2>a, <2>5
    <3>2. ~cases[t + 1].failure  BY <2>1, <3>1 DEF Unmarked
    <3> QED  BY <2>1, <2>2, <2>b, <2>5, <3>1, <3>2 DEF Unmarked, SomethingLeft
  <2>6. t + 1 > Len(This.tests) \/ t + 1 <= Len(This.tests)  BY <2>a
  <2> QED  BY <1>2, <2>3, <2>4, <2>5, <2>6 DEF nextTest, NextCase, StartTest
<1>3. CASE setupBetweenTests
  <2>1. pc = "setup" /\ t > 0 /\ pc' = "body" /\ UNCHANGED <<t, cases, failures, skipped>>
    BY <1>3 DEF setupBetweenTests, StartTest
  <2> QED  BY <2>1 DEF Unmarked, SomethingLeft, CountersAgree
<1>4. CASE setupBetweenFails
  <2>1. /\ pc = "setup" /\ t > 0 /\ pc' \in {"done", "next"} /\ UNCHANGED <<t, skipped>>
        /\ failures' = failures + 1 /\ cases' = [cases EXCEPT ![t].failure = TRUE]
    BY <1>4 DEF setupBetweenFails, NextCase
  <2>2. CountersAgree'  BY <2>1, FailCounted DEF AtCase, Unmarked
  <2>3. \A k \in DOMAIN cases' : k > t => ~cases'[k].failure
    BY <2>1 DEF Unmarked, Typed, TypeOK, CasesType
  <2> QED  BY <2>1, <2>2, <2>3 DEF Unmarked, SomethingLeft
<1> QED  BY <1>1, <1>2, <1>3, <1>4

\* The steps of a test keep the books: only a skip is entered.
LEMMA BodyBooked ==
  ASSUME Typed, Booked, stepOK \/ stepNotNeeded \/ stepFails \/ stepSkips \/ testReturns
  PROVE  Booked'
<1> USE DEF Booked, run, flags, history, report
<1>1. pc = "body" /\ AtCase /\ UNCHANGED <<t, failures>>
  BY DEF stepOK, stepNotNeeded, stepFails, stepSkips, testReturns, AtCase
<1>2. CASE UNCHANGED <<cases, skipped>> /\ pc' \in {"body", "after"}
  BY <1>1, <1>2 DEF Unmarked, SomethingLeft, CountersAgree
<1>3. CASE stepSkips
  <2>1. /\ cases' = [cases EXCEPT ![t].skipped = TRUE] /\ skipped' = skipped + 1
        /\ pc' = "after"
    BY <1>3 DEF stepSkips, Finish
  <2>2. IsFiniteSet(DOMAIN cases) /\ t \in DOMAIN cases /\ cases \in [DOMAIN cases -> Mark]
    BY <1>1 DEF Typed, CasesType, Mark
  <2>3. /\ Cardinality(SkippedOf(cases')) = Cardinality(SkippedOf(cases)) + 1
        /\ FailedOf(cases') = FailedOf(cases)
    BY <1>1, <2>1, <2>2, SkipOne, ZenonT(40) DEF Unmarked
  <2>4. CountersAgree'  BY <1>1, <2>1, <2>3 DEF CountersAgree, FailedOf, SkippedOf
  <2>5. DOMAIN cases' = DOMAIN cases /\ \A k \in DOMAIN cases : cases'[k].failure = cases[k].failure
    BY <2>1, <2>2 DEF Mark
  <2> QED  BY <1>1, <2>1, <2>2, <2>4, <2>5 DEF Unmarked, SomethingLeft
<1> QED  BY <1>2, <1>3 DEF stepOK, stepNotNeeded, stepFails, testReturns, Finish

\* The outcome of a test and the errors of its reverts are entered once.
LEMMA RestBooked ==
  ASSUME Typed, Booked, \/ recordOutcome \/ nextRevert \/ revertStep \/ revertFails
                        \/ afterReverts \/ endOfSuite \/ recapAndReport
  PROVE  Booked'
<1> USE DEF Booked, run, flags, history, report
<1>1. CASE nextRevert \/ revertStep \/ afterReverts
  <2>1. /\ pc = "reverts" /\ pc' \in {"reverts", "next", "done"}
        /\ UNCHANGED <<t, failed, cases, failures, skipped>>
    BY <1>1 DEF nextRevert, revertStep, afterReverts, NextCase
  <2> QED  BY <2>1 DEF Unmarked, SomethingLeft, CountersAgree
<1>2. ASSUME AtCase, pc' = "reverts", UNCHANGED <<t, skipped>>, failed' \in BOOLEAN,
             cases' = [cases EXCEPT ![t].failure = failed'],
             pc \in {"after", "reverts"}
      PROVE  Unmarked' /\ SomethingLeft'
  <2>1. t \in DOMAIN cases /\ cases \in [DOMAIN cases -> Mark] /\ t \in Nat
    BY <1>2 DEF Typed, TypeOK, CasesType, Mark
  <2>2. /\ DOMAIN cases' = DOMAIN cases /\ cases'[t].failure = failed'
        /\ \A k \in DOMAIN cases : k > t => cases'[k] = cases[k]
    BY <1>2, <2>1 DEF Mark
  <2> QED  BY <1>2, <2>2 DEF Unmarked, SomethingLeft
<1>3. CASE recordOutcome
  <2>1. /\ pc = "after" /\ AtCase /\ pc' = "reverts" /\ UNCHANGED <<t, skipped, failed>>
        /\ cases' = [cases EXCEPT ![t].failure = failed]
        /\ failures' = IF failed THEN failures + 1 ELSE failures
    BY <1>3 DEF recordOutcome, AtCase
  <2>2. failed \in BOOLEAN /\ ~cases[t].failure  BY <2>1 DEF Typed, TypeOK, Unmarked
  <2>3. Unmarked' /\ SomethingLeft'  BY <1>2, <2>1, <2>2
  <2>4. CASE failed = TRUE
    <3>1. CountersAgree'  BY <2>1, <2>2, <2>4, FailCounted
    <3> QED  BY <2>3, <3>1
  <2>5. CASE failed = FALSE
    <3>1. cases[t].failure = FALSE
      BY <2>1, <2>2 DEF Typed, CasesType
    <3>2. UNCHANGED cases  BY <2>1, <2>5, <3>1, SameMark
    <3> QED  BY <2>1, <2>3, <2>5, <3>2 DEF CountersAgree
  <2> QED  BY <2>2, <2>4, <2>5
<1>4. CASE revertFails
  <2>1. /\ pc = "reverts" /\ AtCase /\ pc' = "reverts" /\ UNCHANGED <<t, skipped>>
        /\ failed' = TRUE /\ cases' = [cases EXCEPT ![t].failure = TRUE]
        /\ failures' = IF failed THEN failures ELSE failures + 1
    BY <1>4 DEF revertFails, AtCase
  <2>2. failed \in BOOLEAN /\ cases[t].failure = failed  BY <2>1 DEF Typed, TypeOK, Unmarked
  <2>3. Unmarked' /\ SomethingLeft'  BY <1>2, <2>1
  <2>4. CASE failed = TRUE
    <3>1. UNCHANGED cases  BY <2>1, <2>2, <2>4, SameMark
    <3> QED  BY <2>1, <2>3, <2>4, <3>1 DEF CountersAgree
  <2>5. CASE failed = FALSE
    <3>1. CountersAgree'  BY <2>1, <2>2, <2>5, FailCounted
    <3> QED  BY <2>3, <3>1
  <2> QED  BY <2>2, <2>4, <2>5
<1>5. CASE endOfSuite
  <2>1. pc' = "suite" /\ cases' = <<>> /\ failures' = 0 /\ skipped' = 0
    BY <1>5 DEF endOfSuite
  <2>2. /\ {k \in DOMAIN cases' : cases'[k].failure} = {}
        /\ {k \in DOMAIN cases' : cases'[k].skipped} = {}
    BY <2>1
  <2>3. CountersAgree'  BY <2>1, <2>2, FS_EmptySet DEF CountersAgree
  <2> QED  BY <2>1, <2>3 DEF Unmarked, SomethingLeft
<1>6. CASE recapAndReport
  <2>1. pc' = "done" /\ UNCHANGED <<cases, failures, skipped>>  BY <1>6 DEF recapAndReport
  <2> QED  BY <2>1 DEF Unmarked, SomethingLeft, CountersAgree
<1> QED  BY <1>1, <1>3, <1>4, <1>5, <1>6

\* Whatever fails is on its way into the verdict after every step but the first
\* one of a suite, and no suite's failures are lost at its end.
LEMMA AccountedStep ==
  ASSUME Typed, Typed', Booked, Accounted, VerdictSound, Next
  PROVE  Accounted' /\ VerdictSound'
<1> USE DEF run, flags, history, report
<1>t. /\ failures \in Nat /\ total \in Nat /\ failures' \in Nat /\ total' \in Nat
      /\ failed \in BOOLEAN /\ broken \in BOOLEAN
  BY DEF Typed, TypeOK
<1>d. pc # "done"
  BY DEF Next, selectAndRunSuite, initialSetup, failAllTests, nextTest, setupBetweenTests,
         setupBetweenFails, stepOK, stepNotNeeded, stepFails, stepSkips, testReturns, recordOutcome,
         nextRevert, revertStep, revertFails, afterReverts, endOfSuite, recapAndReport
<1>n. verdict = "none"  BY <1>d DEF Accounted
<1>1. ASSUME UNCHANGED verdict, pc' # "done",
             broken' => \/ total' > 0 \/ failures' > 0
                        \/ pc' \in {"body", "after"} /\ failed'
      PROVE  Accounted' /\ VerdictSound'
  BY <1>n, <1>1 DEF Accounted, VerdictSound
<1>2. ASSUME pc' = "done", verdict' = "error" PROVE Accounted' /\ VerdictSound'
  BY <1>2 DEF Accounted, VerdictSound
<1>3. ASSUME UNCHANGED <<verdict, broken, total, failures>>, pc \notin {"body", "after", "done"},
             pc' # "done"
      PROVE  Accounted' /\ VerdictSound'
  BY <1>1, <1>3 DEF Accounted
<1>4. CASE selectAndRunSuite
  <2>1. UNCHANGED verdict /\ pc' # "done"  BY <1>4 DEF selectAndRunSuite
  <2> QED  BY <1>4, <1>n, <2>1, SelectBooked DEF VerdictSound, Booked
<1>5. CASE initialSetup  BY <1>3, <1>5 DEF initialSetup
<1>6. CASE failAllTests  BY <1>1, <1>2, <1>6, FailAllBooked DEF failAllTests
<1>7. CASE nextTest  BY <1>3, <1>7 DEF nextTest, NextCase, StartTest
<1>8. CASE setupBetweenTests  BY <1>3, <1>8 DEF setupBetweenTests, StartTest
<1>9. CASE setupBetweenFails
  <2>1. failures' > 0  BY <1>t, <1>9 DEF setupBetweenFails
  <2> QED  BY <1>1, <1>2, <1>9, <2>1 DEF setupBetweenFails, NextCase
<1>10. CASE stepOK \/ stepNotNeeded \/ stepFails \/ stepSkips \/ testReturns
  <2>1. /\ pc = "body" /\ pc' \in {"body", "after"} /\ UNCHANGED <<verdict, total, failures>>
        /\ failed' = TRUE \/ UNCHANGED <<failed, broken>>
    BY <1>10 DEF stepOK, stepNotNeeded, stepFails, stepSkips, testReturns, Finish
  <2> QED  BY <1>1, <2>1 DEF Accounted
<1>11. CASE recordOutcome
  <2>1. /\ pc = "after" /\ pc' = "reverts" /\ UNCHANGED <<verdict, total, broken>>
        /\ failures' = IF failed THEN failures + 1 ELSE failures
    BY <1>11 DEF recordOutcome
  <2>2. failed => failures' > 0  BY <1>t, <2>1
  <2> QED  BY <1>1, <2>1, <2>2 DEF Accounted
<1>12. CASE nextRevert \/ revertStep  BY <1>3, <1>12 DEF nextRevert, revertStep
<1>13. CASE revertFails
  <2>1. /\ pc = "reverts" /\ pc' = "reverts" /\ UNCHANGED verdict /\ t \in DOMAIN cases
        /\ failures' = IF failed THEN failures ELSE failures + 1
    BY <1>13 DEF revertFails, Typed, CasesType, AtCase
  <2>2. failures' > 0
    <3>1. CASE ~failed  BY <1>t, <2>1, <3>1
    <3>2. CASE failed
      <4>1. t \in FailedOf(cases)  BY <2>1, <3>2 DEF Booked, Unmarked, FailedOf
      <4>2. /\ IsFiniteSet(FailedOf(cases)) /\ Cardinality(FailedOf(cases)) \in Nat
        BY MarksFinite DEF Typed, CasesType, Mark
      <4>3. Cardinality(FailedOf(cases)) # 0  BY <4>1, <4>2, FS_EmptySet
      <4>4. failures = Cardinality(FailedOf(cases))  BY DEF Booked, CountersAgree, FailedOf
      <4> QED  BY <1>t, <2>1, <3>2, <4>2, <4>3, <4>4
    <3> QED  BY <3>1, <3>2
  <2> QED  BY <1>1, <2>1, <2>2
<1>14. CASE afterReverts  BY <1>2, <1>3, <1>14 DEF afterReverts, NextCase
<1>15. CASE endOfSuite
  <2>1. /\ pc = "end" /\ pc' = "suite" /\ total' = total + failures /\ UNCHANGED <<verdict, broken>>
    BY <1>15 DEF endOfSuite
  <2>2. total > 0 \/ failures > 0 => total' > 0  BY <1>t, <2>1
  <2> QED  BY <1>1, <2>1, <2>2 DEF Accounted
<1>16. CASE recapAndReport
  <2>1. /\ pc = "suite" /\ pc' = "done" /\ UNCHANGED broken
        /\ verdict' = "error" \/ verdict' = IF total > 0 THEN "error" ELSE "ok"
    BY <1>16 DEF recapAndReport
  <2>2. failures = 0
    <3>1. {k \in DOMAIN cases : cases[k].failure} = {}  BY <2>1 DEF Typed, CasesType
    <3> QED  BY <3>1, FS_EmptySet DEF Booked, CountersAgree
  <2>3. broken => total > 0  BY <1>t, <2>1, <2>2 DEF Accounted
  <2> QED  BY <2>1, <2>3 DEF Accounted, VerdictSound
<1> QED
  BY <1>4, <1>5, <1>6, <1>7, <1>8, <1>9, <1>10, <1>11, <1>12, <1>13, <1>14, <1>15, <1>16
  DEF Next

-----------------------------------------------------------------------------
(* The theorems.                                                           *)

\* The run starts with the books open and empty.
LEMMA InvInit == Init => Inv
<1> SUFFICES ASSUME Init PROVE Inv  OBVIOUS
<1>1. opts.count \in Nat /\ opts.maxEvents \in Nat  BY OptionsFields DEF Init
<1>2. TypeOK
  <2>1. matrix.up = FALSE /\ matrix.decided = FALSE  BY DEF Init, NoMatrix
  <2>2. s \in 1..opts.count + 1 /\ events \in 0..opts.maxEvents  BY <1>1 DEF Init
  <2> QED  BY <2>1, <2>2 DEF Init, TypeOK, MaxEvents
<1>3. Running /\ Scripted /\ MatrixType
  BY DEF Init, Running, Scripted, MatrixType, NoMatrix, InSuite
<1>4. CasesType
  <2>1. cases = <<>> /\ pc = "suite"  BY DEF Init
  <2>2. DOMAIN cases = {} /\ cases \in [{} -> Mark]  BY <2>1
  <2>3. cases \in [DOMAIN cases -> [failure : BOOLEAN, skipped : BOOLEAN]]  BY <2>2 DEF Mark
  <2> QED  BY <2>1, <2>2, <2>3, FS_EmptySet DEF CasesType, InSuite, AtCase
<1>5. Unmarked /\ SomethingLeft  BY DEF Init, Unmarked, SomethingLeft
<1>6. CountersAgree
  <2>1. /\ {k \in DOMAIN cases : cases[k].failure} = {}
        /\ {k \in DOMAIN cases : cases[k].skipped} = {}
    BY <1>4 DEF Init, CasesType
  <2> QED  BY <2>1, FS_EmptySet DEF Init, CountersAgree
<1>7. Accounted /\ VerdictSound  BY DEF Init, Accounted, VerdictSound
<1> QED  BY <1>2, <1>3, <1>4, <1>5, <1>6, <1>7 DEF Inv, Typed, Booked

\* Every step keeps the types and the books.
LEMMA InvStep ==
  ASSUME Inv, [Next]_vars
  PROVE  Inv'
<1> USE DEF Inv
<1>1. CASE Next
  <2>1. Typed'
    BY <1>1, SelectTyped, FailAllTyped, LoopTyped, BodyTyped, RestTyped DEF Next, Booked
  <2>2. Booked'
    BY <1>1, SelectBooked, FailAllBooked, LoopBooked, BodyBooked, RestBooked DEF Next, Booked
  <2>3. Accounted' /\ VerdictSound'  BY <1>1, <2>1, AccountedStep
  <2> QED  BY <2>1, <2>2, <2>3
<1>2. CASE UNCHANGED vars
  <2> USE DEF vars, run, flags, history, report
  <2>1. Typed'
    BY <1>2 DEF Typed, TypeOK, Running, Scripted, MatrixType, CasesType, InSuite, AtCase, Suites,
                This, MaxEvents
  <2>2. Booked'  BY <1>2 DEF Booked, Unmarked, SomethingLeft, CountersAgree
  <2>3. Accounted' /\ VerdictSound'  BY <1>2 DEF Accounted, VerdictSound
  <2> QED  BY <2>1, <2>2, <2>3
<1> QED  BY <1>1, <1>2

\* The invariant holds throughout a run.
LEMMA InvHolds == Spec => []Inv
<1>1. Inv /\ [Next]_vars => Inv'  BY InvStep
<1> QED  BY <1>1, InvInit, PTL DEF Spec

\* Every variable keeps its type: the runner never leaves the list of suites and
\* the environment its bound, for every plan.
THEOREM RunnerTyped == Spec => []TypeOK
<1>1. Inv => TypeOK  BY DEF Inv, Typed
<1> QED  BY <1>1, InvHolds, PTL

\* ts.Failures and ts.Skipped agree with the test cases of the report at every
\* moment, whatever the tests, their reverts and the setups do.
THEOREM ReportAgrees == Spec => []CountersAgree
<1>1. Inv => CountersAgree  BY DEF Inv, Booked
<1> QED  BY <1>1, InvHolds, PTL

\* RunReleaseTestSuites returns nil only if nothing has failed: in no suite, in no
\* test, revert or setup, for every plan.
THEOREM VerdictIsSound == Spec => []VerdictSound
<1>1. Inv => VerdictSound  BY DEF Inv
<1> QED  BY <1>1, InvHolds, PTL

\* A failed setup, a failed revert and, in a wiped suite, a test that ran are all
\* remembered until a setup has succeeded.
LEMMA SetUpStep ==
  ASSUME Typed, SetUp, Next
  PROVE  SetUp'
<1> USE DEF SetUp, run, flags, history, report
<1>1. CASE selectAndRunSuite
  <2>1. pc' \in {"end", "setup"} /\ t' = 0 /\ prevRevertsFailed' = FALSE
    BY <1>1 DEF selectAndRunSuite
  <2> QED  BY <2>1 DEF EveryTestSetUp, AtStart
<1>2. CASE initialSetup
  <2>1. InSuite /\ pc' = "next" /\ UNCHANGED <<opts, suite, t, prevRevertsFailed, ranSomeTests>>
    BY <1>2 DEF initialSetup, InSuite
  <2>2. matrix'.up /\ (~This.noSetup => CleanVPCs')
    BY <1>2, <2>1, SetupType DEF Typed, initialSetup
  <2> QED  BY <2>1, <2>2 DEF EveryTestSetUp, AtStart, This
<1>3. CASE failAllTests
  <2>1. InSuite /\ pc' \in {"end", "done"} /\ UNCHANGED <<prevRevertsFailed, ranSomeTests>>
    BY <1>3 DEF failAllTests, InSuite
  <2> QED  BY <2>1 DEF EveryTestSetUp, AtStart
<1>4. CASE nextTest
  <2>1. InSuite /\ pc = "next" /\ UNCHANGED <<suite, items, matrix, ranSomeTests>>
    BY <1>4 DEF nextTest, InSuite
  <2>2. CASE pc' = "end" /\ UNCHANGED prevRevertsFailed
    BY <2>1, <2>2 DEF EveryTestSetUp, AtStart
  <2>3. CASE pc' = "next" /\ UNCHANGED prevRevertsFailed
    BY <2>1, <2>3 DEF EveryTestSetUp, AtStart, NeedsSetup, CleanVPCs, This
  <2>4. CASE pc' = "setup" /\ NeedsSetup /\ UNCHANGED prevRevertsFailed
    BY <2>1, <2>4 DEF EveryTestSetUp, AtStart, NeedsSetup, This
  <2>5. CASE pc' = "body" /\ ~NeedsSetup /\ prevRevertsFailed' = FALSE
    BY <2>1, <2>5 DEF EveryTestSetUp, AtStart, NeedsSetup, CleanVPCs, This
  <2> QED  BY <1>4, <2>2, <2>3, <2>4, <2>5 DEF nextTest, NextCase, StartTest
<1>5. CASE setupBetweenTests
  <2>1. /\ InSuite /\ pc' = "body" /\ prevRevertsFailed' = FALSE
        /\ UNCHANGED <<opts, suite, ranSomeTests>>
    BY <1>5 DEF setupBetweenTests, StartTest, InSuite
  <2>2. matrix'.up /\ (~This.noSetup => CleanVPCs')
    BY <1>5, <2>1, SetupType DEF Typed, setupBetweenTests
  <2> QED  BY <2>1, <2>2 DEF EveryTestSetUp, AtStart, This
<1>6. CASE setupBetweenFails
  <2>1. /\ InSuite /\ pc = "setup" /\ t > 0 /\ pc' \in {"done", "next"}
        /\ UNCHANGED <<suite, prevRevertsFailed, ranSomeTests>>
    BY <1>6 DEF setupBetweenFails, NextCase, InSuite
  <2>2. NeedsSetup /\ ranSomeTests  BY <2>1 DEF NeedsSetup
  <2> QED  BY <2>1, <2>2 DEF EveryTestSetUp, AtStart, NeedsSetup, This
<1>7. CASE stepOK \/ stepNotNeeded \/ stepFails \/ stepSkips \/ testReturns
  <2>1. /\ InSuite /\ pc = "body" /\ pc' \in {"body", "after"}
        /\ UNCHANGED <<prevRevertsFailed, ranSomeTests>>
        /\ UNCHANGED matrix \/ \E st : matrix' = Shown(st)
    BY <1>7 DEF stepOK, stepNotNeeded, stepFails, stepSkips, testReturns, Finish, InSuite
  <2>2. matrix'.up  BY <2>1, ShownType DEF Typed
  <2>3. pc' = "after" \/ i' # 1
    BY <1>7, StepPosition
  <2> QED  BY <2>1, <2>2, <2>3 DEF EveryTestSetUp, AtStart
<1>8. CASE recordOutcome
  <2>1. pc = "after" /\ pc' = "reverts" /\ ranSomeTests' = TRUE /\ UNCHANGED matrix
    BY <1>8 DEF recordOutcome
  <2> QED  BY <2>1 DEF EveryTestSetUp, AtStart
<1>9. CASE nextRevert \/ revertStep \/ revertFails \/ afterReverts
  <2>1. /\ pc = "reverts" /\ pc' \in {"reverts", "next", "done"}
        /\ UNCHANGED ranSomeTests
        /\ UNCHANGED matrix \/ \E st : matrix' = Shown(st)
    BY <1>9 DEF nextRevert, revertStep, revertFails, afterReverts, NextCase
  <2>2. matrix'.up  BY <2>1, ShownType DEF Typed
  <2> QED  BY <2>1, <2>2 DEF EveryTestSetUp, AtStart
<1>10. CASE endOfSuite \/ recapAndReport
  <2>1. pc' \in {"suite", "done"}  BY <1>10 DEF endOfSuite, recapAndReport
  <2> QED  BY <2>1 DEF EveryTestSetUp, AtStart, InSuite
<1> QED
  BY <1>1, <1>2, <1>3, <1>4, <1>5, <1>6, <1>7, <1>8, <1>9, <1>10 DEF Next

\* A step of the run, or of anything else, keeps it so.
LEMMA SetUpKept ==
  ASSUME Inv, SetUp, [Next]_vars
  PROVE  SetUp'
<1>1. CASE UNCHANGED vars
  BY <1>1 DEF vars, run, flags, history, report, SetUp, EveryTestSetUp, AtStart, NeedsSetup,
              InSuite, CleanVPCs, This
<1> QED  BY <1>1, SetUpStep DEF Inv

\* No test starts without a connectivity matrix from a successful setup, and in
\* a suite with wipeBetweenTests none starts with anything of an earlier test in
\* the VPCs, whatever the tests and their reverts do.
THEOREM SetUpFirst == Spec => []EveryTestSetUp
<1>1. Init => SetUp  BY DEF Init, SetUp, EveryTestSetUp, AtStart
<1>2. Inv /\ SetUp /\ [Next]_vars => SetUp'  BY SetUpKept
<1>3. SetUp => EveryTestSetUp  BY DEF SetUp
<1> QED  BY <1>1, <1>2, <1>3, InvHolds, PTL DEF Spec

\* What a failed revert leaves in the VPCs is gone before it is forgotten: within
\* a suite, only a successful setup clears prevRevertsFailed.
RevertFailureKept ==
    [][prevRevertsFailed /\ ~prevRevertsFailed' /\ pc # "suite" =>
          matrix'.up /\ (~This.noSetup => CleanVPCs')]_vars

\* A failed revert is remembered until the setup has put the VPCs back.
THEOREM RevertsRemembered == Spec => RevertFailureKept
<1>1. Inv /\ [Next]_vars =>
         [prevRevertsFailed /\ ~prevRevertsFailed' /\ pc # "suite" =>
             matrix'.up /\ (~This.noSetup => CleanVPCs')]_vars
  <2> SUFFICES ASSUME Inv, Next, prevRevertsFailed, ~prevRevertsFailed', pc # "suite"
               PROVE  matrix'.up /\ (~This.noSetup => CleanVPCs')
    OBVIOUS
  <2>1. setupBetweenTests
    BY DEF Next, selectAndRunSuite, initialSetup, failAllTests, nextTest, setupBetweenFails,
           stepOK, stepNotNeeded, stepFails, stepSkips, testReturns, recordOutcome, nextRevert,
           revertStep, revertFails, afterReverts, endOfSuite, recapAndReport, flags, NeedsSetup,
           NextCase
  <2> QED  BY <2>1, SetupType DEF Inv, Typed, setupBetweenTests
<1> QED  BY <1>1, InvHolds, PTL DEF Spec, RevertFailureKept

-----------------------------------------------------------------------------
(* The tests of a tidy plan.  What a run may find in the fabric follows from *)
(* what each script does alone: the runner walks along the walks given for   *)
(* the test it is at, and hands what is left over to the next one.           *)

AtTest == pc \in {"body", "after", "reverts"}
LeftBehind(C) == C[plan].left
\* What a test of this suite may find when it starts.
MayFind(C) == IF This.wipe THEN LastingOf(LeftBehind(C)) ELSE LeftBehind(C)
OnlyTests == ~This.noSetup /\ ~This.wipe

\* The walk of the test that runs, over the fabric and over what a setup wipes.
At == IF pc = "body" THEN i ELSE 0
Undoing == IF pc = "reverts" THEN undo ELSE <<>>
Here == Walk(At, items, matrix, reverts, Undoing)
HereWiped == Walk(At, WipedOf(items), NoMatrix, reverts, Undoing)

\* A test the flags rule out does not run, and a failed revert is a failed cleanup;
\* no suite without a setup follows one with a setup.
RulesKept ==
    /\ InSuite => \A k \in DOMAIN cases : RuledOut(This.tests[k]) => cases[k].skipped
    /\ AtCase => ~RuledOut(This.tests[t])
    /\ InSuite /\ prevRevertsFailed => cleanupBroken
    /\ pc = "suite" /\ s <= opts.count /\ Suites[s].noSetup => This.noSetup

\* The runner is on a walk of its test, as far as no cleanup, or no revert, has failed.
OnWalk(C) ==
    AtTest =>
        /\ ~cleanupBroken => Here \in C[plan].walks[s][t]
        /\ ~prevRevertsFailed /\ OnlyTests => HereWiped \in C[plan].wiped[s][t]

\* What is there for the next test to find.
ReadyAtNext(C) ==
    /\ ~cleanupBroken => items \subseteq MayFind(C) /\ matrix \in Matrices(MayFind(C))
    /\ OnlyTests => WipedOf(items) \subseteq LeftBehind(C)
HandedOver(C) ==
    /\ ~AtTest /\ ~cleanupBroken =>
          /\ LastingOf(items) \subseteq LeftBehind(C)
          /\ This.noSetup => items \subseteq LeftBehind(C)
    /\ (pc = "next" /\ ~NeedsSetup) \/ AtStart => ReadyAtNext(C)

TidyInv(C) == RulesKept /\ OnWalk(C) /\ HandedOver(C)

\* The fields of a walk.
LEMMA WalkFields ==
  ASSUME NEW a, NEW xs, NEW m, NEW rs, NEW us
  PROVE  LET w == Walk(a, xs, m, rs, us)
         IN  w.at = a /\ w.items = xs /\ w.matrix = m /\ w.reverts = rs /\ w.undo = us
BY DEF Walk

\* What a tidy plan says of the suite that runs.
LEMMA TidySuite ==
  ASSUME NEW C, Tidy(C), Running, InSuite
  PROVE  /\ \A x \in LeftBehind(C) : x[1] \in Tolerated
         /\ This.noSetup => ~This.wipe
         /\ \A m \in 1..s : This.noSetup => Suites[m].noSetup
         /\ \A k \in DOMAIN This.tests : ~RuledOut(This.tests[k]) =>
               /\ TidyWhole(This.tests[k].steps, C[plan].walks[s][k], LeftBehind(C), Tolerated, This.wipe)
               /\ OnlyTests => TidyWiped(This.tests[k].steps, C[plan].wiped[s][k], LeftBehind(C))
<1>1. plan \in Chosen /\ s \in 1..Plans[plan].count /\ suite = Plans[plan].suites[s]
  BY OptionsFields DEF Running, Suites
<1>2. TidyPlan(Plans[plan], C[plan])  BY <1>1 DEF Tidy
<1>3. IsPlan(Plans[plan])  BY <1>1, RTAssumption
<1>4. "skipFlags" \in DOMAIN Plans[plan] \ {"suites"} /\ "tolerated" \in DOMAIN Plans[plan] \ {"suites"}
  BY <1>3 DEF IsPlan
<1>5. SkipFlags = Plans[plan].skipFlags /\ Tolerated = Plans[plan].tolerated
  BY <1>4 DEF Running, Options, SkipFlags, Tolerated
<1>6. /\ \A x \in LeftBehind(C) : x[1] \in Tolerated
      /\ This.noSetup => ~This.wipe
      /\ \A m \in 1..s : This.noSetup => Suites[m].noSetup
  BY <1>1, <1>2, <1>5 DEF TidyPlan, LeftBehind, This, Suites
<1>7. ASSUME NEW k \in DOMAIN This.tests, ~RuledOut(This.tests[k])
      PROVE  TidyTest(Plans[plan], s, k, C[plan].walks[s][k], C[plan].wiped[s][k], C[plan].left)
  <2>1. Plans[plan].suites[s].tests[k].flags \cap Plans[plan].skipFlags = {}
    BY <1>1, <1>5, <1>7 DEF RuledOut, This
  <2> QED  BY <1>1, <1>2, <1>7, <2>1 DEF TidyPlan, This
<1>8. ASSUME NEW k \in DOMAIN This.tests, ~RuledOut(This.tests[k])
      PROVE  /\ TidyWhole(This.tests[k].steps, C[plan].walks[s][k], LeftBehind(C), Tolerated, This.wipe)
             /\ OnlyTests => TidyWiped(This.tests[k].steps, C[plan].wiped[s][k], LeftBehind(C))
  BY <1>1, <1>5, <1>7, <1>8 DEF TidyTest, LeftBehind, This, OnlyTests
<1> QED  BY <1>6, <1>8

\* The test that runs is a tidy one.
LEMMA TidyHere ==
  ASSUME NEW C, Tidy(C), Typed, RulesKept, AtTest
  PROVE  /\ InSuite /\ AtCase /\ t \in DOMAIN This.tests
         /\ pc = "body" => body = This.tests[t].steps
         /\ TidyWhole(This.tests[t].steps, C[plan].walks[s][t], LeftBehind(C), Tolerated, This.wipe)
         /\ OnlyTests => TidyWiped(This.tests[t].steps, C[plan].wiped[s][t], LeftBehind(C))
<1>1. InSuite /\ AtCase  BY DEF AtTest, InSuite, AtCase
<1>2. t \in DOMAIN This.tests /\ ~RuledOut(This.tests[t])
  BY <1>1 DEF Typed, CasesType, RulesKept
<1> QED  BY <1>1, <1>2, TidySuite DEF Typed, Scripted

\* What the matrix shows after a step of the runner and after one of the walk.
LEMMA ShownWalk ==
  ASSUME NEW c, NEW a, NEW rs, NEW us
  PROVE  /\ Shows(c, Walk(a, items, matrix, rs, us), TRUE) = Shown(c)
         /\ \A xs : Shows(c, Walk(a, xs, NoMatrix, rs, us), FALSE) = NoMatrix
<1>1. Sees(c, items, matrix) = Shown(c)  BY DEF Sees, Shown
<1> QED  BY <1>1, WalkFields DEF Shows

\* What a setup wipes changes by itself, whatever else is in the fabric.
LEMMA WipedEffect ==
  ASSUME NEW c, NEW xs
  PROVE  WipedOf(Effect(c, WipedOf(xs))) = WipedOf(Effect(c, xs))
<1>1. "nooptions" \in Wiped  BY DEF Wiped
<1>2. (\E x \in WipedOf(xs) : x[1] = "nooptions") <=> \E x \in xs : x[1] = "nooptions"
  BY <1>1 DEF WipedOf
<1> DEFINE none == \E x \in xs : x[1] = "nooptions"
           noneW == \E x \in WipedOf(xs) : x[1] = "nooptions"
<1>3. CASE c.op \in {"change", "create"}  BY <1>3 DEF Effect, WipedOf
<1>4. CASE c.op \in {"restore", "undo"}  BY <1>4 DEF Effect, WipedOf
<1>5. CASE c.op = "relet"
  <2>1. Effect(c, xs) = (IF none THEN xs ELSE xs \ c.on)  BY <1>5 DEF Effect
  <2>2. Effect(c, WipedOf(xs)) = (IF noneW THEN WipedOf(xs) ELSE WipedOf(xs) \ c.on)
    BY <1>5 DEF Effect
  <2>3. none <=> noneW  BY <1>2
  <2> HIDE DEF none, noneW
  <2> QED  BY <2>1, <2>2, <2>3 DEF WipedOf
<1>6. CASE c.op = "unpeer"  BY <1>6 DEF Effect, WipedOf
<1>7. CASE c.op \notin {"change", "create", "restore", "undo", "relet", "unpeer"}
  <2>1. \A ys : Effect(c, ys) = ys  BY <1>7 DEF Effect
  <2> QED  BY <2>1 DEF WipedOf
<1> QED  BY <1>3, <1>4, <1>5, <1>6, <1>7

\* The moves of a walk, one by one.
LEMMA TestMove ==
  ASSUME NEW c, NEW w, NEW whole
  PROVE  /\ Works(c, w, whole) /\ c.err # "must" =>
               Walk(w.at + 1, Leaves(c, w, whole), Shows(c, w, whole), Registers(c, w.reverts), <<>>)
                  \in TestMoves(c, w, whole)
         /\ c.opt > 0 => Walk(w.at + c.opt, w.items, w.matrix, w.reverts, <<>>) \in TestMoves(c, w, whole)
         /\ Fails(c, whole) =>
               Walk(FailsTo(c, w.at), w.items, w.matrix, Keeps(c, w.reverts), <<>>) \in TestMoves(c, w, whole)
         /\ Returns(c) => Walk(0, w.items, w.matrix, w.reverts, <<>>) \in TestMoves(c, w, whole)
BY DEF TestMoves, Only

\* Where the moves of a walk inside a test come from.
LEMMA MovesAt ==
  ASSUME NEW steps, Len(steps) \in Nat, NEW w, NEW n \in Nat, w.at = n, n > 0, NEW whole
  PROVE  /\ n <= Len(steps) => Moves(steps, w, whole) = TestMoves(steps[n], w, whole)
         /\ n > Len(steps) => Moves(steps, w, whole) = {Walk(0, w.items, w.matrix, w.reverts, <<>>)}
<1> DEFINE beyond == w.at > Len(steps)
<1>1. w.at # 0 /\ (beyond <=> n > Len(steps))  BY DEF beyond
<1>2. n <= Len(steps) => ~beyond  BY <1>1
<1> HIDE DEF beyond
<1>3. Moves(steps, w, whole) = IF beyond THEN {Walk(0, w.items, w.matrix, w.reverts, <<>>)}
                               ELSE TestMoves(steps[n], w, whole)
  BY <1>1 DEF Moves, beyond
<1> QED  BY <1>1, <1>2, <1>3

\* A step of the test is a move of its walk.
LEMMA BodyWalk ==
  ASSUME Typed, stepOK \/ stepNotNeeded \/ stepFails \/ stepSkips \/ testReturns
  PROVE  /\ ~cleanupBroken' => Here' \in Moves(body, Here, TRUE)
         /\ HereWiped' \in Moves(body, HereWiped, FALSE)
<1> DEFINE hw == HereWiped
<1>1. pc = "body" /\ pc' \in {"body", "after"}
  BY DEF stepOK, stepNotNeeded, stepFails, stepSkips, testReturns, Finish
<1>2. /\ i \in Nat /\ i > 0 /\ Len(body) \in Nat
  <2>1. InSuite /\ t \in DOMAIN This.tests /\ body = This.tests[t].steps
    BY <1>1 DEF Typed, Scripted, CasesType, AtCase, InSuite
  <2>2. IsTest(This.tests[t])  BY <2>1, PlanFacts DEF Typed
  <2> QED  BY <2>1, <2>2 DEF Typed, TypeOK, Scripted, IsTest, IsList
<1>3. /\ Here.at = i /\ Here.items = items /\ Here.matrix = matrix /\ Here.reverts = reverts
      /\ HereWiped.at = i /\ HereWiped.items = WipedOf(items) /\ HereWiped.matrix = NoMatrix
      /\ HereWiped.reverts = reverts
  BY <1>1, WalkFields DEF Here, HereWiped, At
<1>4. ASSUME NEW a, At' = a, NEW ys, WipedOf(items') = ys, NEW rs, reverts' = rs
      PROVE  Here' = Walk(a, items', matrix', rs, <<>>) /\ HereWiped' = Walk(a, ys, NoMatrix, rs, <<>>)
  BY <1>1, <1>4 DEF Here, HereWiped, Undoing
<1>M. /\ i <= Len(body) => /\ Moves(body, Here, TRUE) = TestMoves(body[i], Here, TRUE)
                          /\ Moves(body, HereWiped, FALSE) = TestMoves(body[i], HereWiped, FALSE)
      /\ i > Len(body) =>
            /\ Moves(body, Here, TRUE) = {Walk(0, Here.items, Here.matrix, Here.reverts, <<>>)}
            /\ Moves(body, HereWiped, FALSE)
                  = {Walk(0, HereWiped.items, HereWiped.matrix, HereWiped.reverts, <<>>)}
  <2>1. ASSUME NEW w, w.at = i, NEW whole
        PROVE  /\ i <= Len(body) => Moves(body, w, whole) = TestMoves(body[i], w, whole)
               /\ i > Len(body) => Moves(body, w, whole) = {Walk(0, w.items, w.matrix, w.reverts, <<>>)}
    BY <1>2, <2>1, MovesAt
  <2>2. /\ i <= Len(body) => Moves(body, Here, TRUE) = TestMoves(body[i], Here, TRUE)
        /\ i > Len(body) => Moves(body, Here, TRUE) = {Walk(0, Here.items, Here.matrix, Here.reverts, <<>>)}
    BY Zenon, <1>3, <2>1
  <2>3. /\ i <= Len(body) => Moves(body, HereWiped, FALSE) = TestMoves(body[i], HereWiped, FALSE)
        /\ i > Len(body) => Moves(body, HereWiped, FALSE)
              = {Walk(0, HereWiped.items, HereWiped.matrix, HereWiped.reverts, <<>>)}
    BY Zenon, <1>3, <2>1
  <2> QED  BY <2>2, <2>3
<1>5. i <= Len(body) => /\ Moves(body, Here, TRUE) = TestMoves(Current, Here, TRUE)
                        /\ Moves(body, HereWiped, FALSE) = TestMoves(Current, HereWiped, FALSE)
  BY <1>M DEF Current
<1>6. CASE stepOK
  <2>1. /\ i <= Len(body) /\ Possible(Current, items) /\ Current.err # "must"
        /\ items' = Effect(Current, items) /\ matrix' = Shown(Current)
        /\ reverts' = Registers(Current, reverts) /\ At' = i + 1
    BY <1>6 DEF stepOK, Registers, At
  <2>2. Works(Current, Here, TRUE) /\ Works(Current, HereWiped, FALSE)
    BY <1>3, <2>1 DEF Works
  <2>3. /\ Leaves(Current, Here, TRUE) = items'
        /\ Leaves(Current, HereWiped, FALSE) = WipedOf(items')
    BY <1>3, <2>1, WipedEffect DEF Leaves
  <2>4. Shows(Current, Here, TRUE) = matrix' /\ Shows(Current, HereWiped, FALSE) = NoMatrix
    BY <2>1, ShownWalk DEF Here, HereWiped
  <2>5. /\ Here' = Walk(i + 1, items', matrix', Registers(Current, reverts), <<>>)
        /\ HereWiped' = Walk(i + 1, WipedOf(items'), NoMatrix, Registers(Current, reverts), <<>>)
    BY <1>4, <2>1
  <2>6. Here' \in TestMoves(Current, Here, TRUE)
    BY <1>3, <2>1, <2>2, <2>3, <2>4, <2>5, TestMove
  <2>7. HereWiped' \in TestMoves(Current, HereWiped, FALSE)
    BY <1>3, <2>1, <2>2, <2>3, <2>4, <2>5, TestMove
  <2> QED  BY <1>5, <2>1, <2>6, <2>7
<1>7. CASE stepNotNeeded
  <2>1. /\ i <= Len(body) /\ Current.opt > 0 /\ At' = i + Current.opt
        /\ UNCHANGED <<items, matrix, reverts>>
    BY <1>7 DEF stepNotNeeded, At
  <2>2. /\ Here' = Walk(i + Current.opt, items, matrix, reverts, <<>>)
        /\ HereWiped' = Walk(i + Current.opt, WipedOf(items), NoMatrix, reverts, <<>>)
    BY <1>4, <2>1
  <2> QED  BY <1>3, <1>5, <2>1, <2>2, TestMove
<1>8. CASE stepFails
  <2>1. /\ i <= Len(body) /\ Current.op \notin {"register", "bail", "skip"}
        /\ cleanupBroken' = (cleanupBroken \/ Current.clean) /\ At' = FailsTo(Current, i)
        /\ UNCHANGED <<items, matrix>> /\ reverts' = Keeps(Current, reverts)
    BY <1>1, <1>8 DEF stepFails, At, FailsTo, Keeps, Finish
  <2>2. /\ Here' = Walk(FailsTo(Current, i), items, matrix, Keeps(Current, reverts), <<>>)
        /\ HereWiped' = Walk(FailsTo(Current, i), WipedOf(items), NoMatrix, Keeps(Current, reverts), <<>>)
    BY <1>4, <2>1
  <2>3. Fails(Current, FALSE) /\ (~cleanupBroken' => Fails(Current, TRUE))
    BY <2>1 DEF Fails
  <2> QED  BY <1>3, <1>5, <2>1, <2>2, <2>3, TestMove
<1>9. CASE stepSkips \/ testReturns
  <2>1. /\ At' = 0 /\ UNCHANGED <<items, matrix, reverts>>
        /\ i <= Len(body) => Returns(Current)
    BY <1>9 DEF stepSkips, testReturns, Finish, At, Returns
  <2>2. /\ Here' = Walk(0, items, matrix, reverts, <<>>)
        /\ HereWiped' = Walk(0, WipedOf(items), NoMatrix, reverts, <<>>)
    BY <1>4, <2>1
  <2>3. CASE i <= Len(body)  BY <1>3, <1>5, <2>1, <2>2, <2>3, TestMove
  <2>4. CASE i > Len(body)
    <3>1. /\ Moves(body, Here, TRUE) = {Walk(0, items, matrix, reverts, <<>>)}
          /\ Moves(body, HereWiped, FALSE) = {Walk(0, WipedOf(items), NoMatrix, reverts, <<>>)}
      BY <1>M, <1>3, <2>4
    <3> QED  BY <2>2, <3>1
  <2>5. i <= Len(body) \/ i > Len(body)  BY <1>2
  <2> QED  BY <2>3, <2>4, <2>5
<1> QED  BY <1>6, <1>7, <1>8, <1>9

\* A step of a revert, as long as none fails, is a move of the walk.
LEMMA RevertWalk ==
  ASSUME NEW steps, nextRevert \/ revertStep
  PROVE  Here' \in Moves(steps, Here, TRUE) /\ HereWiped' \in Moves(steps, HereWiped, FALSE)
<1>1. pc = "reverts" /\ pc' = "reverts"  BY DEF nextRevert, revertStep
<1>2. /\ Here.at = 0 /\ Here.items = items /\ Here.matrix = matrix /\ Here.reverts = reverts
      /\ HereWiped.at = 0 /\ HereWiped.items = WipedOf(items) /\ HereWiped.matrix = NoMatrix
      /\ HereWiped.reverts = reverts /\ Here.undo = undo /\ HereWiped.undo = undo
  BY <1>1, WalkFields DEF Here, HereWiped, At, Undoing
<1>3. /\ Here' = Walk(0, items', matrix', reverts', undo')
      /\ HereWiped' = Walk(0, WipedOf(items'), NoMatrix, reverts', undo')
  BY <1>1 DEF Here, HereWiped, At, Undoing
<1>4. /\ Moves(steps, Here, TRUE) = RevertMoves(Here, TRUE)
      /\ Moves(steps, HereWiped, FALSE) = RevertMoves(HereWiped, FALSE)
  BY <1>2 DEF Moves
<1>5. CASE nextRevert
  <2>1. /\ undo = <<>> /\ reverts # <<>> /\ UNCHANGED <<items, matrix>>
        /\ undo' = reverts[Len(reverts)] /\ reverts' = SubSeq(reverts, 1, Len(reverts) - 1)
    BY <1>5 DEF nextRevert
  <2> QED  BY <1>2, <1>3, <1>4, <2>1 DEF RevertMoves, Only
<1>6. CASE revertStep
  <2> DEFINE c == Head(undo)
  <2>1. /\ undo # <<>> /\ Possible(c, items) /\ UNCHANGED reverts
        /\ items' = Effect(c, items) /\ matrix' = Shown(c) /\ undo' = Tail(undo)
    BY <1>6 DEF revertStep
  <2> HIDE DEF c
  <2>2. Works(c, Here, TRUE) /\ Works(c, HereWiped, FALSE)  BY <1>2, <2>1 DEF Works
  <2>3. Leaves(c, Here, TRUE) = items' /\ Leaves(c, HereWiped, FALSE) = WipedOf(items')
    BY <1>2, <2>1, WipedEffect DEF Leaves
  <2>4. Shows(c, Here, TRUE) = matrix' /\ Shows(c, HereWiped, FALSE) = NoMatrix
    BY <2>1, ShownWalk DEF Here, HereWiped
  <2>5. /\ RevertMoves(Here, TRUE)
             = Only(Works(c, Here, TRUE), Walk(0, Leaves(c, Here, TRUE), Shows(c, Here, TRUE), reverts, Tail(undo)))
        /\ RevertMoves(HereWiped, FALSE)
             = Only(Works(c, HereWiped, FALSE),
                    Walk(0, Leaves(c, HereWiped, FALSE), Shows(c, HereWiped, FALSE), reverts, Tail(undo)))
    BY <1>2, <2>1 DEF RevertMoves, c
  <2>6. /\ RevertMoves(Here, TRUE) = {Walk(0, items', matrix', reverts, Tail(undo))}
        /\ RevertMoves(HereWiped, FALSE) = {Walk(0, WipedOf(items'), NoMatrix, reverts, Tail(undo))}
    BY <2>2, <2>3, <2>4, <2>5 DEF Only
  <2> QED  BY <1>3, <1>4, <2>1, <2>6
<1> QED  BY <1>5, <1>6

\* A mark in the report never makes a case run again.
LEMMA StaysSkipped ==
  ASSUME CasesType, t \in DOMAIN cases, NEW b,
         \/ cases' = [cases EXCEPT ![t].failure = b]
         \/ cases' = [cases EXCEPT ![t].skipped = TRUE]
         \/ UNCHANGED cases
  PROVE  DOMAIN cases' = DOMAIN cases /\ \A k \in DOMAIN cases : cases[k].skipped => cases'[k].skipped
<1>1. cases \in [DOMAIN cases -> Mark]  BY DEF CasesType, Mark
<1>2. CASE cases' = [cases EXCEPT ![t].failure = b]  BY <1>1, <1>2 DEF Mark
<1>3. CASE cases' = [cases EXCEPT ![t].skipped = TRUE]  BY <1>1, <1>3 DEF Mark
<1>4. CASE UNCHANGED cases  BY <1>4
<1> QED  BY <1>2, <1>3, <1>4

\* The flags, the order of the suites and the failed reverts are respected.
LEMMA RulesStep ==
  ASSUME NEW C, Tidy(C), Typed, Typed', RulesKept, Next
  PROVE  RulesKept'
<1> USE DEF run, flags, history, report
<1> DEFINE Rule1 == InSuite => \A k \in DOMAIN cases : RuledOut(This.tests[k]) => cases[k].skipped
           Rule2 == AtCase => ~RuledOut(This.tests[t])
           Rule3 == InSuite /\ prevRevertsFailed => cleanupBroken
           Rule4 == pc = "suite" /\ s <= opts.count /\ Suites[s].noSetup => This.noSetup
<1>0. UNCHANGED <<plan, opts>> /\ (pc # "suite" => UNCHANGED suite)
  BY DEF Next, selectAndRunSuite, initialSetup, failAllTests, nextTest, setupBetweenTests,
         setupBetweenFails, stepOK, stepNotNeeded, stepFails, stepSkips, testReturns, recordOutcome,
         nextRevert, revertStep, revertFails, afterReverts, endOfSuite, recapAndReport
<1>1. \A k : RuledOut(k)' <=> RuledOut(k)  BY <1>0 DEF RuledOut, SkipFlags
<1>2. ASSUME InSuite, UNCHANGED suite, DOMAIN cases' = DOMAIN cases,
             \A k \in DOMAIN cases : cases[k].skipped => cases'[k].skipped
      PROVE  Rule1'
  BY <1>0, <1>1, <1>2 DEF RulesKept, This, RuledOut, SkipFlags
<1>3. CASE selectAndRunSuite
  <2>1. PICK out \in SUBSET DOMAIN suite'.tests :
           cases' = [k \in DOMAIN suite'.tests |-> [failure |-> FALSE, skipped |-> k \in out]]
           /\ \A k \in DOMAIN suite'.tests : RuledOut(suite'.tests[k]) => k \in out
    <3>1. PICK sel \in regexpSelection(DOMAIN suite'.tests) :
             cases' = [k \in DOMAIN suite'.tests |->
                 [failure |-> FALSE,
                  skipped |-> k \in sel \cup {j \in DOMAIN suite'.tests : RuledOut(suite'.tests[j])}]]
      BY <1>3 DEF selectAndRunSuite
    <3>2. sel \subseteq DOMAIN suite'.tests  BY DEF regexpSelection
    <3> DEFINE out == sel \cup {j \in DOMAIN suite'.tests : RuledOut(suite'.tests[j])}
    <3>3. out \in SUBSET DOMAIN suite'.tests  BY <3>2
    <3>4. \A k \in DOMAIN suite'.tests : RuledOut(suite'.tests[k]) => k \in out  OBVIOUS
    <3> WITNESS out \in SUBSET DOMAIN suite'.tests
    <3> QED  BY <3>1, <3>4
  <2>2. pc' \in {"end", "setup"} /\ t' = 0 /\ prevRevertsFailed' = FALSE
    BY <1>3 DEF selectAndRunSuite
  <2>3. \A k \in DOMAIN cases' : RuledOut(suite'.tests[k]) => cases'[k].skipped  BY <2>1
  <2>4. Rule1'  BY <1>0, <2>3 DEF This, RuledOut, SkipFlags
  <2> QED  BY <2>2, <2>4 DEF RulesKept, AtCase
<1>4. CASE endOfSuite \/ recapAndReport
  <2>1. pc' \in {"suite", "done"} /\ ~InSuite' /\ ~AtCase'
    BY <1>4 DEF endOfSuite, recapAndReport, InSuite, AtCase
  <2>2. Rule4'
    <3>1. CASE endOfSuite
      <4>1. InSuite /\ UNCHANGED suite /\ s' = s + 1 /\ s \in Nat
        BY <1>0, <3>1 DEF endOfSuite, InSuite, Typed, TypeOK
      <4> SUFFICES ASSUME s' <= opts'.count, Suites'[s'].noSetup PROVE This'.noSetup  OBVIOUS
      <4>2. s' \in 1..opts.count  BY <1>0, <4>1, PlanFacts DEF Typed, TypeOK
      <4>3. TidyPlan(Plans[plan], C[plan]) /\ Plans[plan].count = opts.count
        BY OptionsFields DEF Tidy, Typed, Running
      <4>4. \A m \in 1..s' : Suites[m].noSetup
        BY <1>0, <4>2, <4>3 DEF TidyPlan, Suites
      <4>5. s \in 1..s'  BY <4>1 DEF Typed, Running
      <4> QED  BY <4>1, <4>4, <4>5 DEF Typed, Running, This
    <3>2. CASE recapAndReport  BY <3>2 DEF recapAndReport
    <3> QED  BY <1>4, <3>1, <3>2
  <2> QED  BY <2>1, <2>2 DEF RulesKept
<1>5. CASE ~(selectAndRunSuite \/ endOfSuite \/ recapAndReport)
  <2>1. InSuite /\ pc' # "suite" /\ UNCHANGED suite
    BY <1>0, <1>5
    DEF InSuite, Next, initialSetup, failAllTests, nextTest, setupBetweenTests, setupBetweenFails,
        stepOK, stepNotNeeded, stepFails, stepSkips, testReturns, recordOutcome, nextRevert, revertStep,
        revertFails, afterReverts, NextCase, StartTest, Finish
  <2>2. ASSUME ~failAllTests
        PROVE  DOMAIN cases' = DOMAIN cases /\ \A k \in DOMAIN cases : cases[k].skipped => cases'[k].skipped
    <3>1. UNCHANGED cases \/ AtCase
      BY <1>5, <2>2
      DEF Next, initialSetup, nextTest, setupBetweenTests, setupBetweenFails, stepOK, stepNotNeeded,
          stepFails, stepSkips, testReturns, recordOutcome, nextRevert, revertStep, revertFails,
          afterReverts, AtCase
    <3>2. \/ \E b : cases' = [cases EXCEPT ![t].failure = b]
          \/ cases' = [cases EXCEPT ![t].skipped = TRUE]
          \/ UNCHANGED cases
      BY <1>5, <2>2
      DEF Next, initialSetup, nextTest, setupBetweenTests, setupBetweenFails, stepOK, stepNotNeeded,
          stepFails, stepSkips, testReturns, recordOutcome, nextRevert, revertStep, revertFails, afterReverts
    <3> QED  BY <3>1, <3>2, StaysSkipped DEF Typed, CasesType
  <2>3. CASE failAllTests
    <3>1. pc' \in {"end", "done"} /\ UNCHANGED <<prevRevertsFailed, cleanupBroken>>
      BY <2>3 DEF failAllTests
    <3>2. DOMAIN cases' = DOMAIN cases /\ \A k \in DOMAIN cases : cases[k].skipped => cases'[k].skipped
      <4>1. cases' = [k \in DOMAIN cases |-> [cases[k] EXCEPT !.failure = ~cases[k].skipped]]
        BY <2>1, <2>3 DEF failAllTests, Typed, CasesType, Tests
      <4>2. \A k \in DOMAIN cases : cases[k] \in Mark  BY DEF Typed, CasesType, Mark
      <4> QED  BY <4>1, <4>2 DEF Mark
    <3> QED  BY <2>1, <3>1, <3>2, <1>2 DEF RulesKept, AtCase
  <2>4. CASE ~failAllTests
    <3>1. Rule1'  BY <2>1, <2>2, <2>4, <1>2
    <3>2. Rule2'
      <4>1. CASE nextTest
        <5>1. CASE pc' = "end"  BY <5>1 DEF AtCase
        <5>2. CASE pc' = "next"  BY <5>2 DEF AtCase
        <5>3. CASE pc' \in {"setup", "body"} /\ t' = t + 1 /\ ~cases[t + 1].skipped
          <6>1. pc' \in {"setup", "body"} => AtCase' \/ t' = 0  BY <5>3 DEF AtCase, Typed, TypeOK
          <6>2. t \in Nat  BY DEF Typed, TypeOK
          <6>3. AtCase'  BY <5>3, <6>2 DEF AtCase
          <6>4. t' \in DOMAIN cases' /\ UNCHANGED cases  BY <4>1, <6>3 DEF Typed, CasesType, nextTest
          <6>5. ~RuledOut(This.tests[t'])  BY <2>1, <5>3, <6>4 DEF RulesKept
          <6> QED  BY <1>0, <2>1, <6>5 DEF RuledOut, SkipFlags, This
        <5> QED  BY <4>1, <5>1, <5>2, <5>3 DEF nextTest, NextCase, StartTest
      <4>2. CASE ~nextTest
        <5>1. UNCHANGED t /\ (AtCase' => AtCase)
          BY <1>5, <2>4, <4>2
          DEF Next, initialSetup, setupBetweenTests, setupBetweenFails, stepOK, stepNotNeeded,
              stepFails, stepSkips, testReturns, recordOutcome, nextRevert, revertStep, revertFails,
              afterReverts, NextCase, StartTest, AtCase, Finish
        <5> QED  BY <1>0, <2>1, <5>1 DEF RulesKept, RuledOut, SkipFlags, This
      <4> QED  BY <4>1, <4>2
    <3>3. Rule3'
      <4>1. CASE stepFails
        <5>1. UNCHANGED prevRevertsFailed /\ cleanupBroken' = (cleanupBroken \/ Current.clean)
          BY <4>1 DEF stepFails
        <5> QED  BY <2>1, <5>1 DEF RulesKept
      <4>2. CASE revertFails  BY <4>2 DEF revertFails
      <4>3. CASE ~stepFails /\ ~revertFails
        <5>1. UNCHANGED cleanupBroken /\ (UNCHANGED prevRevertsFailed \/ prevRevertsFailed' = FALSE)
          BY <1>5, <2>4, <4>3
          DEF Next, initialSetup, nextTest, setupBetweenTests, setupBetweenFails, stepOK, stepNotNeeded,
              stepSkips, testReturns, recordOutcome, nextRevert, revertStep, afterReverts
        <5> QED  BY <2>1, <5>1 DEF RulesKept
      <4> QED  BY <4>1, <4>2, <4>3
    <3>4. Rule4'  BY <2>1
    <3> QED  BY <3>1, <3>2, <3>3, <3>4 DEF RulesKept
  <2> QED  BY <2>3, <2>4
<1> QED  BY <1>3, <1>4, <1>5

\* What the matrix shows of fewer items is less.
LEMMA ReachLess == ASSUME NEW xs, NEW ys, xs \subseteq ys PROVE Reach(xs) \subseteq Reach(ys)
BY DEF Reach

\* After a successful setup the next test finds what it may.
LEMMA SetupHandsOver ==
  ASSUME NEW C, Tidy(C), Typed, InSuite, setupTest,
         ~cleanupBroken => LastingOf(items) \subseteq LeftBehind(C)
                           /\ (This.noSetup => items \subseteq LeftBehind(C))
  PROVE  /\ ~cleanupBroken => items' \subseteq MayFind(C) /\ matrix' \in Matrices(MayFind(C))
         /\ OnlyTests => WipedOf(items') \subseteq LeftBehind(C)
<1>1. /\ items' = IF This.noSetup THEN items ELSE LastingOf(items)
      /\ matrix' = [up |-> TRUE, view |-> Reach(items'), decided |-> TRUE]
  BY DEF setupTest, LastingOf
<1>2. This.noSetup => ~This.wipe  BY TidySuite DEF Typed
<1>3. ~This.noSetup => LastingOf(items') = items' /\ WipedOf(items') = {}
  BY <1>1 DEF LastingOf, WipedOf
<1>4. ASSUME ~cleanupBroken PROVE items' \subseteq MayFind(C)
  <2>1. CASE This.noSetup  BY <1>1, <1>2, <1>4, <2>1 DEF MayFind
  <2>2. CASE ~This.noSetup  BY <1>1, <1>3, <1>4, <2>2 DEF MayFind, LastingOf
  <2> QED  BY <2>1, <2>2
<1>5. ASSUME ~cleanupBroken PROVE matrix' \in Matrices(MayFind(C))
  BY <1>1, <1>4, <1>5, ReachLess DEF Matrices
<1> QED  BY <1>3, <1>4, <1>5 DEF OnlyTests

\* A test that starts on what it may find is on its walk.
LEMMA StartOnWalk ==
  ASSUME NEW C, Tidy(C), Typed, InSuite, UNCHANGED <<plan, opts, suite, s, cleanupBroken>>,
         NEW k \in DOMAIN This.tests, ~RuledOut(This.tests[k]), StartTest(k), prevRevertsFailed' = FALSE,
         ~cleanupBroken => items' \subseteq MayFind(C) /\ matrix' \in Matrices(MayFind(C)),
         OnlyTests => WipedOf(items') \subseteq LeftBehind(C)
  PROVE  OnWalk(C)' /\ HandedOver(C)'
<1> DEFINE steps == This.tests[k].steps
<1>1. pc' = "body" /\ t' = k /\ i' = 1 /\ reverts' = <<>>  BY DEF StartTest
<1>2. /\ TidyWhole(steps, C[plan].walks[s][k], LeftBehind(C), Tolerated, This.wipe)
      /\ OnlyTests => TidyWiped(steps, C[plan].wiped[s][k], LeftBehind(C))
  BY TidySuite DEF Typed
<1> HIDE DEF steps
<1>3. Here' = Walk(1, items', matrix', <<>>, <<>>) /\ HereWiped' = Walk(1, WipedOf(items'), NoMatrix, <<>>, <<>>)
  BY <1>1 DEF Here, HereWiped, At, Undoing
<1>4. ASSUME ~cleanupBroken PROVE Here' \in C[plan].walks[s][k]
  <2>1. Here' \in Starts(MayFind(C))  BY <1>3, <1>4 DEF Starts
  <2>2. Starts(MayFind(C)) \subseteq C[plan].walks[s][k]  BY <1>2 DEF TidyWhole, MayFind
  <2> QED  BY <2>1, <2>2
<1>5. ASSUME OnlyTests PROVE HereWiped' \in C[plan].wiped[s][k]
  <2>1. WipedOf(items') \in SUBSET WipedOf(LeftBehind(C))  BY <1>5 DEF WipedOf
  <2>2. HereWiped' \in WipedStarts(LeftBehind(C))  BY <1>3, <2>1 DEF WipedStarts
  <2> QED  BY <1>2, <1>5, <2>2 DEF TidyWiped
<1>6. OnWalk(C)'  BY <1>1, <1>4, <1>5 DEF OnWalk, OnlyTests, This
<1>7. HandedOver(C)'
  BY <1>1 DEF HandedOver, ReadyAtNext, AtTest, MayFind, LeftBehind, OnlyTests, This
<1> QED  BY <1>6, <1>7

\* The steps of the test and of its reverts stay on the walk.
LEMMA OnWalkStep ==
  ASSUME NEW C, Tidy(C), Typed, RulesKept, OnWalk(C),
         \/ stepOK \/ stepNotNeeded \/ stepFails \/ stepSkips \/ testReturns
         \/ recordOutcome \/ nextRevert \/ revertStep \/ revertFails
  PROVE  OnWalk(C)' /\ HandedOver(C)'
<1> USE DEF run, flags, history, report
<1> DEFINE steps == This.tests[t].steps
           A == C[plan].walks[s][t]
           B == C[plan].wiped[s][t]
<1>1. /\ AtTest /\ AtTest' /\ pc' # "next" /\ UNCHANGED <<plan, opts, suite, s, t>>
      /\ (cleanupBroken => cleanupBroken') /\ (prevRevertsFailed => prevRevertsFailed')
  <2>1. CASE stepOK \/ stepNotNeeded \/ stepFails \/ stepSkips \/ testReturns
    <3>1. UNCHANGED cleanupBroken \/ cleanupBroken' = (cleanupBroken \/ Current.clean)
      BY <2>1 DEF stepOK, stepNotNeeded, stepFails, stepSkips, testReturns
    <3>2. /\ pc = "body" /\ pc' \in {"body", "after"} /\ UNCHANGED <<plan, opts, suite, s, t, prevRevertsFailed>>
      BY <2>1 DEF stepOK, stepNotNeeded, stepFails, stepSkips, testReturns, Finish
    <3>3. cleanupBroken => cleanupBroken'
      <4>1. cleanupBroken \in BOOLEAN  BY DEF Typed, TypeOK
      <4> QED  BY <3>1, <4>1
    <3> QED  BY <3>2, <3>3 DEF AtTest
  <2>2. CASE recordOutcome  BY <2>2 DEF recordOutcome, AtTest
  <2>3. CASE nextRevert \/ revertStep  BY <2>3 DEF nextRevert, revertStep, AtTest
  <2>4. CASE revertFails  BY <2>4 DEF revertFails, AtTest
  <2> QED  BY <2>1, <2>2, <2>3, <2>4
<1>2. /\ \A w \in A : Moves(steps, w, TRUE) \subseteq A
      /\ OnlyTests => \A w \in B : Moves(steps, w, FALSE) \subseteq B
  BY <1>1, TidyHere DEF TidyWhole, TidyWiped
<1>3. ~cleanupBroken => Here \in A  BY <1>1 DEF OnWalk
<1>4. ~prevRevertsFailed /\ OnlyTests => HereWiped \in B  BY <1>1 DEF OnWalk
<1>5. ASSUME ~cleanupBroken' => Here' \in A, ~prevRevertsFailed' /\ OnlyTests => HereWiped' \in B
      PROVE  OnWalk(C)'
  BY <1>1, <1>5 DEF OnWalk, OnlyTests, This
<1>6. OnWalk(C)'
  <2>1. CASE stepOK \/ stepNotNeeded \/ stepFails \/ stepSkips \/ testReturns
    <3>1. pc = "body"  BY <2>1 DEF stepOK, stepNotNeeded, stepFails, stepSkips, testReturns
    <3>2. body = steps  BY <1>1, <3>1, TidyHere
    <3>3. /\ ~cleanupBroken' => Here' \in Moves(steps, Here, TRUE)
          /\ HereWiped' \in Moves(steps, HereWiped, FALSE)
      BY <2>1, <3>2, BodyWalk
    <3> HIDE DEF steps, A, B
    <3> QED  BY <1>1, <1>2, <1>3, <1>4, <1>5, <3>3
  <2>2. CASE recordOutcome
    <3>1. Here' = Here /\ HereWiped' = HereWiped /\ UNCHANGED <<cleanupBroken, prevRevertsFailed>>
      BY <2>2 DEF recordOutcome, Here, HereWiped, At, Undoing
    <3> HIDE DEF steps, A, B
    <3> QED  BY <1>3, <1>4, <1>5, <3>1
  <2>3. CASE nextRevert \/ revertStep
    <3>1. Here' \in Moves(steps, Here, TRUE) /\ HereWiped' \in Moves(steps, HereWiped, FALSE)
      BY <2>3, RevertWalk
    <3> HIDE DEF steps, A, B
    <3> QED  BY <1>1, <1>2, <1>3, <1>4, <1>5, <3>1
  <2>4. CASE revertFails
    <3>1. cleanupBroken' = TRUE /\ prevRevertsFailed' = TRUE  BY <2>4 DEF revertFails
    <3> QED  BY <1>5, <3>1
  <2> QED  BY <2>1, <2>2, <2>3, <2>4
<1>7. HandedOver(C)'
  <2>1. ~AtStart'
    <3>1. CASE stepOK \/ stepNotNeeded \/ stepFails \/ stepSkips \/ testReturns
      <4>1. pc' = "after" \/ i' # 1
        BY <3>1, StepType, SMTT(40)
        DEF Typed, TypeOK, Scripted, stepOK, stepNotNeeded, stepFails, stepSkips, testReturns, Finish
      <4> QED  BY <4>1 DEF AtStart
    <3>2. CASE recordOutcome \/ nextRevert \/ revertStep \/ revertFails
      BY <3>2 DEF AtStart, recordOutcome, nextRevert, revertStep, revertFails
    <3> QED  BY <3>1, <3>2
  <2> QED  BY <1>1, <2>1 DEF HandedOver
<1> QED  BY <1>6, <1>7

\* What a test leaves behind once its reverts are done.
LEMMA AfterHandsOver ==
  ASSUME NEW C, Tidy(C), Typed, RulesKept, OnWalk(C), pc = "reverts", ranSomeTests, undo = <<>>, reverts = <<>>
  PROVE  /\ ~cleanupBroken => /\ LastingOf(items) \subseteq LeftBehind(C)
                              /\ This.noSetup => items \subseteq LeftBehind(C)
         /\ ~NeedsSetup => ReadyAtNext(C)
<1>1. /\ Here = Walk(0, items, matrix, <<>>, <<>>)
      /\ HereWiped = Walk(0, WipedOf(items), NoMatrix, <<>>, <<>>)
  BY DEF Here, HereWiped, At, Undoing
<1>2. /\ Over(Here) /\ Here.items = items /\ Here.matrix = matrix
      /\ Over(HereWiped) /\ HereWiped.items = WipedOf(items)
  BY <1>1, WalkFields DEF Over
<1>3. /\ AtTest /\ InSuite
      /\ TidyWhole(This.tests[t].steps, C[plan].walks[s][t], LeftBehind(C), Tolerated, This.wipe)
      /\ OnlyTests => TidyWiped(This.tests[t].steps, C[plan].wiped[s][t], LeftBehind(C))
  BY TidyHere DEF AtTest
<1>4. This.noSetup => ~This.wipe  BY <1>3, TidySuite DEF Typed
<1>5. ASSUME ~cleanupBroken
      PROVE  /\ LastingOf(items) \subseteq LeftBehind(C)
             /\ ~This.wipe => items \subseteq LeftBehind(C) /\ matrix \in Matrices(LeftBehind(C))
  <2>1. Here \in C[plan].walks[s][t]  BY <1>3, <1>5 DEF OnWalk
  <2> QED  BY <1>2, <1>3, <2>1 DEF TidyWhole
<1>6. ASSUME ~prevRevertsFailed, OnlyTests PROVE WipedOf(items) \subseteq LeftBehind(C)
  <2>1. HereWiped \in C[plan].wiped[s][t]  BY <1>3, <1>6 DEF OnWalk
  <2> QED  BY <1>2, <1>3, <1>6, <2>1 DEF TidyWiped
<1>7. ~NeedsSetup => ~This.wipe /\ ~prevRevertsFailed  BY DEF NeedsSetup
<1> QED  BY <1>4, <1>5, <1>6, <1>7 DEF ReadyAtNext, MayFind

\* Between the tests the runner adds nothing to the fabric but, when a setup fails,
\* what the next one wipes.
LEMMA BetweenStep ==
  ASSUME NEW C, Tidy(C), Typed, Typed', RulesKept, RulesKept', SetUp, OnWalk(C), HandedOver(C),
         \/ selectAndRunSuite \/ initialSetup \/ failAllTests \/ nextTest \/ setupBetweenTests
         \/ setupBetweenFails \/ afterReverts \/ endOfSuite \/ recapAndReport
  PROVE  OnWalk(C)' /\ HandedOver(C)'
<1> USE DEF run, flags, history, report
<1> DEFINE Cleared == ~cleanupBroken => /\ LastingOf(items) \subseteq LeftBehind(C)
                                        /\ This.noSetup => items \subseteq LeftBehind(C)
<1>1. ASSUME ~AtTest', UNCHANGED plan, Cleared', pc' = "next" /\ ~NeedsSetup' => ReadyAtNext(C)'
      PROVE  OnWalk(C)' /\ HandedOver(C)'
  <2>1. OnWalk(C)'  BY <1>1 DEF OnWalk
  <2>2. ~AtStart'  BY <1>1 DEF AtStart, AtTest
  <2> QED  BY <1>1, <2>1, <2>2 DEF HandedOver
<1>2. ~AtTest => Cleared  BY DEF HandedOver
<1>3. ASSUME UNCHANGED <<plan, items, suite, cleanupBroken>> PROVE Cleared => Cleared'
  BY <1>3 DEF LeftBehind, This
<1>4. CASE selectAndRunSuite
  <2>1. /\ pc = "suite" /\ s <= opts.count /\ suite' = Suites[s] /\ pc' \in {"end", "setup"}
        /\ UNCHANGED <<plan, opts, s, items, cleanupBroken>>
    BY <1>4 DEF selectAndRunSuite
  <2>2. This'.noSetup => This.noSetup  BY <2>1 DEF RulesKept, This
  <2>3. Cleared'  BY <1>2, <2>1, <2>2 DEF AtTest, LeftBehind
  <2> QED  BY <1>1, <2>1, <2>3 DEF AtTest
<1>5. CASE initialSetup
  <2>1. /\ pc = "setup" /\ pc' = "next" /\ setupTest /\ UNCHANGED <<plan, opts, suite, s, cleanupBroken>>
    BY <1>5 DEF initialSetup
  <2>2. /\ ~cleanupBroken => items' \subseteq MayFind(C) /\ matrix' \in Matrices(MayFind(C))
        /\ OnlyTests => WipedOf(items') \subseteq LeftBehind(C)
    BY <1>2, <2>1, SetupHandsOver DEF AtTest, InSuite
  <2>3. ReadyAtNext(C)'  BY <2>1, <2>2 DEF ReadyAtNext, MayFind, LeftBehind, OnlyTests, This
  <2>4. Cleared'
    <3>1. MayFind(C) \subseteq LeftBehind(C)  BY DEF MayFind, LastingOf
    <3> QED  BY <2>1, <2>2, <3>1 DEF LastingOf, LeftBehind
  <2> QED  BY <1>1, <2>1, <2>3, <2>4 DEF AtTest
<1>6. ASSUME setupTestFails, ~AtTest, UNCHANGED <<plan, suite, cleanupBroken>>
      PROVE  Cleared'
  <2>1. \/ items' = items
        \/ ~This.noSetup /\ items' = {x \in items : x[1] \notin Peerings} \cup {vpc(0)}
    BY <1>6 DEF setupTestFails
  <2>2. vpc(0)[1] \in Wiped  BY DEF vpc, Wiped
  <2>3. LastingOf(items') \subseteq LastingOf(items)  BY <2>1, <2>2 DEF LastingOf
  <2>4. This'.noSetup => items' = items  BY <1>6, <2>1 DEF This
  <2> QED  BY <1>2, <1>6, <2>3, <2>4 DEF LeftBehind, This
<1>7. CASE failAllTests
  <2>1. /\ pc = "setup" /\ pc' \in {"done", "end"} /\ setupTestFails
        /\ UNCHANGED <<plan, suite, cleanupBroken>>
    BY <1>7 DEF failAllTests
  <2> QED  BY <1>1, <1>6, <2>1 DEF AtTest
<1>8. CASE nextTest
  <2>1. /\ pc = "next" /\ InSuite /\ UNCHANGED <<plan, opts, suite, s, items, matrix, ranSomeTests, cases, cleanupBroken>>
    BY <1>8 DEF nextTest, InSuite
  <2>2. Cleared'  BY <1>2, <1>3, <2>1 DEF AtTest
  <2>3. CASE pc' \in {"end", "setup"}  BY <1>1, <2>1, <2>2, <2>3 DEF AtTest
  <2>4. CASE pc' = "next" /\ UNCHANGED prevRevertsFailed
    <3>1. ~NeedsSetup' => ReadyAtNext(C)
      BY <2>1, <2>4 DEF HandedOver, NeedsSetup, This
    <3>2. ReadyAtNext(C) => ReadyAtNext(C)'
      BY <2>1 DEF ReadyAtNext, MayFind, LeftBehind, OnlyTests, This
    <3> QED  BY <1>1, <2>1, <2>2, <2>4, <3>1, <3>2 DEF AtTest
  <2>5. CASE ~NeedsSetup /\ StartTest(t + 1) /\ prevRevertsFailed' = FALSE
    <3>1. pc' = "body" /\ t' = t + 1  BY <2>5 DEF StartTest
    <3>2. t + 1 \in DOMAIN This.tests /\ ~RuledOut(This.tests[t + 1])
      <4>1. AtCase' /\ InSuite'  BY <3>1 DEF AtCase, InSuite
      <4>2. t' \in DOMAIN This'.tests  BY <4>1 DEF Typed, CasesType
      <4>3. This'.tests[t'].flags \cap SkipFlags' = {}  BY <4>1 DEF RulesKept, RuledOut
      <4> QED  BY <2>1, <3>1, <4>2, <4>3 DEF RuledOut, SkipFlags, This
    <3>3. ReadyAtNext(C)  BY <2>1, <2>5 DEF HandedOver
    <3>4. /\ ~cleanupBroken => items' \subseteq MayFind(C) /\ matrix' \in Matrices(MayFind(C))
          /\ OnlyTests => WipedOf(items') \subseteq LeftBehind(C)
      BY <2>1, <3>3 DEF ReadyAtNext
    <3> QED  BY <2>1, <2>5, <3>2, <3>4, StartOnWalk
  <2> QED  BY <1>8, <2>3, <2>4, <2>5 DEF nextTest, NextCase
<1>9. CASE setupBetweenTests
  <2>1. /\ pc = "setup" /\ t > 0 /\ InSuite /\ setupTest /\ StartTest(t) /\ prevRevertsFailed' = FALSE
        /\ UNCHANGED <<plan, opts, suite, s, cleanupBroken>>
    BY <1>9 DEF setupBetweenTests, InSuite
  <2>2. /\ ~cleanupBroken => items' \subseteq MayFind(C) /\ matrix' \in Matrices(MayFind(C))
        /\ OnlyTests => WipedOf(items') \subseteq LeftBehind(C)
    BY <1>2, <2>1, SetupHandsOver DEF AtTest
  <2>3. t \in DOMAIN This.tests /\ ~RuledOut(This.tests[t])
    BY <2>1 DEF Typed, CasesType, AtCase, RulesKept
  <2> QED  BY <2>1, <2>2, <2>3, StartOnWalk
<1>10. CASE setupBetweenFails
  <2>1. /\ pc = "setup" /\ t > 0 /\ pc' \in {"done", "next"} /\ setupTestFails
        /\ UNCHANGED <<plan, suite, cleanupBroken, prevRevertsFailed, ranSomeTests>>
    BY <1>10 DEF setupBetweenFails, NextCase
  <2>2. NeedsSetup /\ NeedsSetup'  BY <2>1 DEF SetUp, NeedsSetup, This
  <2> QED  BY <1>1, <1>6, <2>1, <2>2 DEF AtTest
<1>11. CASE afterReverts
  <2>1. /\ pc = "reverts" /\ undo = <<>> /\ reverts = <<>> /\ pc' \in {"done", "next"}
        /\ UNCHANGED <<plan, opts, suite, s, items, matrix, prevRevertsFailed, ranSomeTests, cleanupBroken>>
    BY <1>11 DEF afterReverts, NextCase
  <2>2. Cleared /\ (~NeedsSetup => ReadyAtNext(C))  BY <2>1, AfterHandsOver DEF SetUp
  <2>3. Cleared'  BY <1>3, <2>1, <2>2
  <2>4. ~NeedsSetup' => ReadyAtNext(C)'
    BY <2>1, <2>2 DEF NeedsSetup, ReadyAtNext, MayFind, LeftBehind, OnlyTests, This
  <2> QED  BY <1>1, <2>1, <2>3, <2>4 DEF AtTest
<1>12. CASE endOfSuite \/ recapAndReport
  <2>1. /\ pc \in {"end", "suite"} /\ pc' \in {"suite", "done"}
        /\ UNCHANGED <<plan, suite, items, cleanupBroken>>
    BY <1>12 DEF endOfSuite, recapAndReport
  <2>2. Cleared'  BY <1>2, <1>3, <2>1 DEF AtTest
  <2> QED  BY <1>1, <2>1, <2>2 DEF AtTest
<1> QED  BY <1>4, <1>5, <1>7, <1>8, <1>9, <1>10, <1>11, <1>12

\* The runner of a tidy plan stays tidy.
LEMMA TidyStep ==
  ASSUME NEW C, Tidy(C), Inv, Inv', SetUp, TidyInv(C), [Next]_vars
  PROVE  TidyInv(C)'
<1>1. CASE Next
  <2>1. RulesKept'  BY <1>1, RulesStep DEF Inv, TidyInv
  <2>2. OnWalk(C)' /\ HandedOver(C)'
    BY <1>1, <2>1, OnWalkStep, BetweenStep DEF Inv, TidyInv, Next
  <2> QED  BY <2>1, <2>2 DEF TidyInv
<1>2. CASE UNCHANGED vars
  <2> USE DEF vars, run, flags, history, report
  <2>1. RulesKept'
    BY <1>2 DEF TidyInv, RulesKept, InSuite, AtCase, RuledOut, SkipFlags, Suites, This
  <2>2. OnWalk(C)'
    BY <1>2 DEF TidyInv, OnWalk, AtTest, OnlyTests, This, Here, HereWiped, At, Undoing
  <2>3. HandedOver(C)'
    BY <1>2 DEF TidyInv, HandedOver, ReadyAtNext, MayFind, LeftBehind, AtTest, AtStart, NeedsSetup,
                OnlyTests, This
  <2> QED  BY <2>1, <2>2, <2>3 DEF TidyInv
<1> QED  BY <1>1, <1>2

\* A run starts among nothing that differs.
LEMMA TidyInit ==
  ASSUME NEW C, Init
  PROVE  TidyInv(C)
<1>1. /\ pc = "suite" /\ items = {} /\ This.noSetup
  BY DEF Init, This, Suite
<1> QED  BY <1>1 DEF TidyInv, RulesKept, OnWalk, HandedOver, InSuite, AtCase, AtTest, AtStart, LastingOf

\* The strengthened invariant of a tidy plan.
LEMMA TidyHolds ==
  ASSUME NEW C, Tidy(C)
  PROVE  Spec => [](Inv /\ SetUp /\ TidyInv(C))
<1>1. Init => SetUp /\ TidyInv(C)  BY TidyInit DEF Init, SetUp, EveryTestSetUp, AtStart, InSuite
<1>2. Inv /\ SetUp /\ [Next]_vars => SetUp'  BY SetUpKept
<1>3. Inv /\ Inv' /\ SetUp /\ TidyInv(C) /\ [Next]_vars => TidyInv(C)'  BY TidyStep
<1> QED  BY <1>1, <1>2, <1>3, InvHolds, PTL DEF Spec

\* No test of a suite with a setup starts with anything of an earlier one left in the
\* VPCs, whatever fails and in whatever order: if each script alone puts back what it
\* changed there, the runner's reverts and setups do the rest.
THEOREM VPCsStayClean ==
  ASSUME NEW C, Tidy(C)
  PROVE  Spec => []VPCsClean
<1>1. ASSUME Inv, SetUp, TidyInv(C) PROVE VPCsClean
  <2> SUFFICES ASSUME AtStart, ~This.noSetup
               PROVE  matrix.up /\ \A x \in items : x[1] \in Wiped => x[1] \in Tolerated
    BY DEF VPCsClean
  <2>1. matrix.up /\ (This.wipe => CleanVPCs)  BY <1>1 DEF SetUp, EveryTestSetUp
  <2>2. OnlyTests => WipedOf(items) \subseteq LeftBehind(C)
    BY <1>1 DEF TidyInv, HandedOver, ReadyAtNext
  <2>3. \A x \in LeftBehind(C) : x[1] \in Tolerated
    BY <1>1, TidySuite DEF Inv, Typed, AtStart, InSuite
  <2> QED  BY <2>1, <2>2, <2>3 DEF OnlyTests, WipedOf, CleanVPCs
<1> QED  BY <1>1, TidyHolds, PTL

\* As long as no cleanup has failed, every test starts in the fabric as the suite found
\* it, and the run ends like that, if each script alone does what it owes the runner.
THEOREM FabricStaysClean ==
  ASSUME NEW C, Tidy(C)
  PROVE  Spec => []FabricClean
<1>1. ASSUME Inv, TidyInv(C) PROVE FabricClean
  <2> SUFFICES ASSUME AtStart \/ pc = "done", ~cleanupBroken, NEW x \in items
               PROVE  x[1] \in Tolerated \/ (pc = "done" /\ x[1] \in Wiped /\ ~This.noSetup)
    BY DEF FabricClean
  <2>1. \A y \in LeftBehind(C) : y[1] \in Tolerated
    <3>1. plan \in Chosen /\ opts = Options(plan)  BY <1>1 DEF Inv, Typed, Running
    <3>2. "tolerated" \in DOMAIN Plans[plan] \ {"suites"}  BY <3>1, RTAssumption DEF IsPlan
    <3>3. Tolerated = Plans[plan].tolerated  BY <3>1, <3>2 DEF Options, Tolerated
    <3> QED  BY <3>1, <3>3 DEF Tidy, TidyPlan, LeftBehind
  <2>2. CASE AtStart
    <3>1. items \subseteq MayFind(C)  BY <1>1, <2>2 DEF TidyInv, HandedOver, ReadyAtNext
    <3> QED  BY <2>1, <3>1 DEF MayFind, LastingOf
  <2>3. CASE pc = "done"
    <3>1. /\ LastingOf(items) \subseteq LeftBehind(C)
          /\ This.noSetup => items \subseteq LeftBehind(C)
      BY <1>1, <2>3 DEF TidyInv, HandedOver, AtTest
    <3> QED  BY <2>1, <2>3, <3>1 DEF LastingOf
  <2> QED  BY <2>2, <2>3
<1> QED  BY <1>1, TidyHolds, PTL

\* Last registered first, every revert of a tidy plan finds what it deletes, creates or
\* waits for as it expects it, however often and wherever tests fail.
THEOREM RevertsWork ==
  ASSUME NEW C, Tidy(C)
  PROVE  Spec => []RevertsPossible
<1>1. ASSUME Inv, TidyInv(C) PROVE RevertsPossible
  <2> SUFFICES ASSUME pc = "reverts", undo # <<>>, ~cleanupBroken
               PROVE  \/ Possible(Head(undo), items)
                      \/ Head(undo).on # {} /\ \A x \in Head(undo).on : x[1] \in Tolerated
    BY DEF RevertsPossible
  <2>1. Here \in C[plan].walks[s][t]  BY <1>1 DEF TidyInv, OnWalk, AtTest
  <2>2. Here.at = 0 /\ Here.undo = undo /\ Here.items = items
    BY WalkFields DEF Here, At, Undoing
  <2>3. TidyWhole(This.tests[t].steps, C[plan].walks[s][t], LeftBehind(C), Tolerated, This.wipe)
    BY <1>1, TidyHere DEF Inv, TidyInv, AtTest
  <2>4. Doable(Head(undo), Here, Tolerated)  BY <2>1, <2>2, <2>3 DEF TidyWhole
  <2> QED  BY <2>2, <2>4 DEF Doable
<1> QED  BY <1>1, TidyHolds, PTL

\* Whenever a test or a revert of a tidy plan checks the connectivity, the shared
\* matrix is about the peerings, VPCs and addresses of that moment.
THEOREM MatrixStaysFresh ==
  ASSUME NEW C, Tidy(C)
  PROVE  Spec => []MatrixFresh
<1>1. ASSUME Inv, TidyInv(C) PROVE MatrixFresh
  <2> SUFFICES ASSUME Pending("matrix"), ~cleanupBroken
               PROVE  /\ matrix.up /\ matrix.view = Reach(items)
                      /\ NatPeered(items) => matrix.decided
    BY DEF MatrixFresh
  <2>1. AtTest  BY DEF Pending, AtTest
  <2>2. Here \in C[plan].walks[s][t]  BY <1>1, <2>1 DEF TidyInv, OnWalk
  <2>3. Here.items = items /\ Here.matrix = matrix  BY WalkFields DEF Here
  <2>4. /\ TidyWhole(This.tests[t].steps, C[plan].walks[s][t], LeftBehind(C), Tolerated, This.wipe)
        /\ pc = "body" => body = This.tests[t].steps
    BY <1>1, <2>1, TidyHere DEF Inv, TidyInv
  <2>5. CASE pc = "body" /\ i <= Len(body) /\ Current.op = "matrix"
    <3>1. Here.at = i /\ i \in DOMAIN body  BY <1>1, <2>5, StepType, WalkFields DEF Inv, Here, At
    <3>2. Fresh(Current, Here)  BY <2>2, <2>4, <2>5, <3>1 DEF TidyWhole, Current
    <3> QED  BY <2>3, <2>5, <3>2 DEF Fresh
  <2>6. CASE pc = "reverts" /\ undo # <<>> /\ Head(undo).op = "matrix"
    <3>1. Here.at = 0 /\ Here.undo = undo  BY <2>6, WalkFields DEF Here, At, Undoing
    <3>2. Fresh(Head(undo), Here)  BY <2>2, <2>4, <2>6, <3>1 DEF TidyWhole
    <3> QED  BY <2>3, <2>6, <3>2 DEF Fresh
  <2> QED  BY <2>5, <2>6 DEF Pending
<1> QED  BY <1>1, TidyHolds, PTL
=============================================================================
