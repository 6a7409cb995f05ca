----------------------------- MODULE ReleaseTest -----------------------------
(***************************************************************************)
(* The release test runner of pkg/hhfab/rt_base.go: RunReleaseTestSuites   *)
(* runs its suites one after the other; doRunSuite sets the VPCs up, runs  *)
(* the tests of a suite, applies the reverts each returns in reverse order *)
(* and sets the VPCs up again when a revert has failed (or, in a suite     *)
(* with wipeBetweenTests, between any two tests).  The tests are scripts   *)
(* in the vocabulary of RTSteps; what RunReleaseTestSuites is asked to run *)
(* is a plan, a record of suites, their count, the skipFlags of the        *)
(* fabric, failFast, tolerated, the kinds of items a test may leave        *)
(* behind, and maxEvents, the bound on what the environment does.          *)
(***************************************************************************)
EXTENDS RTSteps, Functions

CONSTANTS
    Plans,   \* the plans, a sequence
    Chosen   \* the ones to run, indices of Plans

IsList(q) == Len(q) \in Nat /\ DOMAIN q = 1..Len(q)
IsTest(test) ==
    IsList(test.steps) /\ \A k \in DOMAIN test.steps : {test.steps[k].skip, test.steps[k].opt} \subseteq Nat
IsPlan(p) ==
    /\ {"count", "maxEvents", "failFast", "skipFlags", "tolerated"} \subseteq DOMAIN p
    /\ p.count \in Nat /\ p.maxEvents \in Nat /\ p.failFast \in BOOLEAN
    /\ \A n \in 1..p.count : LET tests == p.suites[n].tests
                             IN  IsList(tests) /\ \A k \in DOMAIN tests : IsTest(tests[k])
ASSUME RTAssumption ==
    Chosen # {} /\ Chosen \subseteq DOMAIN Plans /\ \A p \in Chosen : IsPlan(Plans[p])

VARIABLES
    plan,      \* the run, an index of Plans
    opts,      \* its options: the record without the suites
    suite,     \* the suite that runs
    pc,        \* what the runner does next
    s, t, i,   \* the suite, the test of it, and the step of the test
    body,      \* the steps of the test that runs
    items,     \* how the fabric differs from what the setup left
    matrix,    \* the connectivity matrix the tests share
    reverts,   \* revert functions the current test has gathered
    undo,      \* steps left of the revert function being run
    failed,    \* err # nil
    prevRevertsFailed, ranSomeTests,
    cases,     \* the report: Failure, Skipped per test case of the suite
    failures, skipped,  \* ts.Failures and ts.Skipped
    total,     \* sum of Failures of the finished suites
    verdict,   \* what RunReleaseTestSuites returns
    broken,    \* some call of a test, a revert or a setup has failed
    cleanupBroken, \* a revert or a deferred cleanup has failed
    events

run == <<s, t, i>>
report == <<cases, failures, skipped>>
flags == <<prevRevertsFailed, ranSomeTests>>
history == <<broken, cleanupBroken>>
vars == <<plan, opts, suite, pc, run, body, items, matrix, reverts, undo, failed, flags, report, total, verdict, history, events>>

Options(p) == [x \in DOMAIN Plans[p] \ {"suites"} |-> Plans[p][x]]
Suites == Plans[plan].suites
SkipFlags == opts.skipFlags
Tolerated == opts.tolerated
FailFast == opts.failFast
MaxEvents == opts.maxEvents
This == suite
Tests == DOMAIN This.tests
NoMatrix == [up |-> FALSE, view |-> {}, decided |-> FALSE]
NatPeered(x) == \E y \in x : y[1] = "nat"

Init ==
    /\ plan \in Chosen /\ opts = Options(plan) /\ suite = Suite(<<>>, TRUE, FALSE)
    /\ pc = "suite" /\ s = 1 /\ t = 1 /\ i = 1 /\ body = <<>>
    /\ items = {} /\ matrix = NoMatrix
    /\ reverts = <<>> /\ undo = <<>>
    /\ failed = FALSE /\ prevRevertsFailed = FALSE /\ ranSomeTests = FALSE
    /\ cases = <<>> /\ failures = 0 /\ skipped = 0 /\ total = 0
    /\ verdict = "none" /\ broken = FALSE /\ cleanupBroken = FALSE /\ events = 0

\* One more failure or skip of the environment.
Event(n) == events + n <= MaxEvents /\ events' = events + n

(***************************************************************************)
(* selectAndRunSuite: the tests the regexes leave out (any: regexpSelection) *)
(* and those the fabric's flags rule out are marked skipped; a suite with  *)
(* nothing left is not run.                                                *)
(***************************************************************************)
regexpSelection(tests) == {Range(f) \cap tests : f \in [1..MaxEvents - events -> tests \cup {0}]}
RuledOut(test) == test.flags \cap SkipFlags # {}

selectAndRunSuite ==
    /\ pc = "suite" /\ s <= opts.count
    /\ suite' = Suites[s]
    /\ LET tests == DOMAIN suite'.tests
       IN \E sel \in regexpSelection(tests) :
          LET out == sel \cup {k \in tests : RuledOut(suite'.tests[k])}
          IN  /\ Event(Cardinality(sel))
              /\ cases' = [k \in tests |-> [failure |-> FALSE, skipped |-> k \in out]]
              /\ skipped' = Cardinality(out)
              /\ pc' = IF out = tests THEN "end" ELSE "setup"
    /\ failures' = 0 /\ t' = 0 /\ i' = 1
    /\ prevRevertsFailed' = FALSE /\ ranSomeTests' = FALSE
    /\ UNCHANGED <<plan, opts, s, body, items, matrix, reverts, undo, failed, total, verdict, history>>

(***************************************************************************)
(* setupTest: with noSetup it only waits for the switches; otherwise       *)
(* SetupVPCs restores the VPCs and the servers and the matrix is built     *)
(* anew.                                                                   *)
(***************************************************************************)
SetupPossible ==
    IF This.noSetup THEN Possible(Wait, items) ELSE SetupCan(items)

setupTest ==
    /\ SetupPossible
    /\ items' = IF This.noSetup THEN items ELSE {x \in items : x[1] \notin Wiped}
    /\ matrix' = [up |-> TRUE, view |-> Reach(items'), decided |-> TRUE]
    /\ UNCHANGED events

\* It fails half way: the old VPCs may be gone and the new ones not there yet.
setupTestFails ==
    /\ IF SetupPossible THEN Event(1) ELSE UNCHANGED events
    /\ \/ items' = items
       \/ ~This.noSetup /\ items' = {x \in items : x[1] \notin Peerings} \cup {vpc(0)}
    /\ matrix' = NoMatrix
    /\ broken' = TRUE

StartTest(k) ==
    pc' = "body" /\ t' = k /\ i' = 1 /\ body' = This.tests[k].steps /\ reverts' = <<>> /\ failed' = FALSE
NextCase == pc' = "next" /\ UNCHANGED <<i, body, reverts, failed>>

initialSetup ==
    /\ pc = "setup" /\ t = 0
    /\ setupTest
    /\ pc' = "next"
    /\ UNCHANGED <<plan, opts, suite, run, body, reverts, undo, failed, flags, report, total, verdict, history>>

\* errInitialSetup: failAllTests marks every test that was not deselected.
failAllTests ==
    /\ pc = "setup" /\ t = 0
    /\ setupTestFails
    /\ cases' = [k \in Tests |-> [cases[k] EXCEPT !.failure = ~cases[k].skipped]]
    /\ failures' = Cardinality(Tests) - skipped
    /\ IF FailFast THEN pc' = "done" /\ verdict' = "error" ELSE pc' = "end" /\ UNCHANGED verdict
    /\ UNCHANGED <<plan, opts, suite, run, body, reverts, undo, failed, flags, skipped, total, cleanupBroken>>

(***************************************************************************)
(* doRunSuite's loop over the test cases.                                  *)
(***************************************************************************)
NeedsSetup == (ranSomeTests /\ This.wipe) \/ prevRevertsFailed

\* Mutant: a deselected test is looked at again.
nextTestStuck ==
    /\ pc = "next"
    /\ LET k == t + 1 IN
       IF k > Len(This.tests)
       THEN pc' = "end" /\ UNCHANGED <<run, body, reverts, failed, prevRevertsFailed>>
       ELSE /\ UNCHANGED s
            /\ IF cases[k].skipped
               THEN t' = t /\ NextCase /\ UNCHANGED prevRevertsFailed
               ELSE IF NeedsSetup
               THEN t' = k /\ pc' = "setup" /\ UNCHANGED <<i, body, reverts, failed, prevRevertsFailed>>
               ELSE StartTest(k) /\ prevRevertsFailed' = FALSE
    /\ UNCHANGED <<plan, opts, suite, items, matrix, undo, ranSomeTests, report, total, verdict, history, events>>

nextTest ==
    /\ pc = "next"
    /\ LET k == t + 1 IN
       IF k > Len(This.tests)
       THEN pc' = "end" /\ UNCHANGED <<run, body, reverts, failed, prevRevertsFailed>>
       ELSE /\ UNCHANGED s
            /\ IF cases[k].skipped
               THEN t' = k /\ NextCase /\ UNCHANGED prevRevertsFailed
               ELSE IF NeedsSetup
               THEN t' = k /\ pc' = "setup" /\ UNCHANGED <<i, body, reverts, failed, prevRevertsFailed>>
               ELSE StartTest(k) /\ prevRevertsFailed' = FALSE
    /\ UNCHANGED <<plan, opts, suite, items, matrix, undo, ranSomeTests, report, total, verdict, history, events>>

setupBetweenTests ==
    /\ pc = "setup" /\ t > 0
    /\ setupTest
    /\ StartTest(t)
    /\ prevRevertsFailed' = FALSE
    /\ UNCHANGED <<plan, opts, suite, s, undo, ranSomeTests, report, total, verdict, history>>

setupBetweenFails ==
    /\ pc = "setup" /\ t > 0
    /\ setupTestFails
    /\ cases' = [cases EXCEPT ![t].failure = TRUE]
    /\ failures' = failures + 1
    /\ IF FailFast
       THEN pc' = "done" /\ verdict' = "error" /\ UNCHANGED <<i, body, reverts, failed>>
       ELSE NextCase /\ UNCHANGED verdict
    /\ UNCHANGED <<plan, opts, suite, s, t, undo, flags, skipped, total, cleanupBroken>>

(***************************************************************************)
(* The test function, step by step.                                        *)
(***************************************************************************)
Current == body[i]
Finish == pc' = "after" /\ UNCHANGED i

\* Mutant: the shared matrix keeps its old peerings.
ShownStale(st) ==
    CASE st.op = "populate" -> [matrix EXCEPT !.decided = ~NatPeered(items)]
      [] st.op = "overlay" -> [matrix EXCEPT !.decided = TRUE]
      [] st.op = "rebind" ->
           [matrix EXCEPT !.view = {x \in @ : x[1] # "serverip"} \cup {x \in Reach(items) : x[1] = "serverip"}]
      [] OTHER -> matrix

\* What a successful step does to the matrix.
Shown(st) ==
    CASE st.op = "populate" -> [matrix EXCEPT !.view = Reach(items), !.decided = ~NatPeered(items)]
      [] st.op = "overlay" -> [matrix EXCEPT !.decided = TRUE]
      [] st.op = "rebind" ->
           [matrix EXCEPT !.view = {x \in @ : x[1] # "serverip"} \cup {x \in Reach(items) : x[1] = "serverip"}]
      [] OTHER -> matrix

stepOK ==
    /\ pc = "body" /\ i <= Len(body)
    /\ Possible(Current, items)
    /\ ~(Current.op = "bail" /\ failed) /\ Current.err # "must"
    /\ items' = Effect(Current, items)
    /\ matrix' = Shown(Current)
    /\ reverts' = IF Current.op = "register" THEN Append(reverts, Current.undo) ELSE reverts
    /\ i' = i + 1
    /\ UNCHANGED <<plan, opts, suite, pc, s, t, body, undo, failed, flags, report, total, verdict, history, events>>

\* A step behind a condition that does not hold.
stepNotNeeded ==
    /\ pc = "body" /\ i <= Len(body)
    /\ Current.opt > 0
    /\ i' = i + Current.opt
    /\ UNCHANGED <<plan, opts, suite, pc, s, t, body, items, matrix, reverts, undo, failed, flags, report, total, verdict, history, events>>

\* Mutant: a failed step returns at once, past the deferred cleanups.
stepFailsAtOnce ==
    /\ pc = "body" /\ i <= Len(body)
    /\ Current.op \notin {"register", "bail", "skip"}
    /\ IF Possible(Current, items) THEN Event(1) ELSE UNCHANGED events
    /\ failed' = TRUE /\ broken' = TRUE
    /\ cleanupBroken' = (cleanupBroken \/ Current.clean)
    /\ reverts' = IF Current.err = "drop" THEN <<>> ELSE reverts
    /\ Finish
    /\ UNCHANGED <<plan, opts, suite, s, t, body, items, matrix, undo, flags, report, total, verdict>>

stepFails ==
    /\ pc = "body" /\ i <= Len(body)
    /\ Current.op \notin {"register", "bail", "skip"}
    /\ IF Possible(Current, items) THEN Event(1) ELSE UNCHANGED events
    /\ failed' = TRUE /\ broken' = TRUE
    /\ cleanupBroken' = (cleanupBroken \/ Current.clean)
    /\ reverts' = IF Current.err = "drop" THEN <<>> ELSE reverts
    /\ IF Current.err = "goto" THEN i' = i + 1 + Current.skip /\ UNCHANGED pc ELSE Finish
    /\ UNCHANGED <<plan, opts, suite, s, t, body, items, matrix, undo, flags, report, total, verdict>>

stepSkips ==
    /\ pc = "body" /\ i <= Len(body)
    /\ Current.op = "skip" /\ Current.err # "never"
    /\ IF Current.err = "must" THEN UNCHANGED events ELSE Event(1)
    /\ cases' = [cases EXCEPT ![t].skipped = TRUE]
    /\ skipped' = skipped + 1
    /\ Finish
    /\ UNCHANGED <<plan, opts, suite, s, t, body, items, matrix, reverts, undo, failed, flags, failures, total, verdict, history>>

testReturns ==
    /\ pc = "body"
    /\ i <= Len(body) => Current.op = "bail" /\ failed
    /\ Finish
    /\ UNCHANGED <<plan, opts, suite, s, t, body, items, matrix, reverts, undo, failed, flags, report, total, verdict, history, events>>

\* Back in doRunSuite: the outcome goes into the report, the reverts follow.
recordOutcome ==
    /\ pc = "after"
    /\ cases' = [cases EXCEPT ![t].failure = failed]
    /\ failures' = IF failed THEN failures + 1 ELSE failures
    /\ ranSomeTests' = TRUE
    /\ pc' = "reverts" /\ undo' = <<>> /\ body' = <<>>
    /\ UNCHANGED <<plan, opts, suite, run, items, matrix, reverts, failed, prevRevertsFailed, skipped, total, verdict, history, events>>

\* Mutant: the reverts in the order they were registered.
nextRevertFirst ==
    /\ pc = "reverts" /\ undo = <<>> /\ reverts # <<>>
    /\ undo' = Head(reverts)
    /\ reverts' = Tail(reverts)
    /\ UNCHANGED <<plan, opts, suite, pc, run, body, items, matrix, failed, flags, report, total, verdict, history, events>>

(***************************************************************************)
(* The reverts, last registered first; one that fails does not stop the    *)
(* others.                                                                 *)
(***************************************************************************)
nextRevert ==
    /\ pc = "reverts" /\ undo = <<>> /\ reverts # <<>>
    /\ undo' = reverts[Len(reverts)]
    /\ reverts' = SubSeq(reverts, 1, Len(reverts) - 1)
    /\ UNCHANGED <<plan, opts, suite, pc, run, body, items, matrix, failed, flags, report, total, verdict, history, events>>

revertStep ==
    /\ pc = "reverts" /\ undo # <<>>
    /\ Possible(Head(undo), items)
    /\ items' = Effect(Head(undo), items)
    /\ matrix' = Shown(Head(undo))
    /\ undo' = Tail(undo)
    /\ UNCHANGED <<plan, opts, suite, pc, run, body, reverts, failed, flags, report, total, verdict, history, events>>

\* Mutant: a failed revert counts even if the test has failed already.
revertFailsTwice ==
    /\ pc = "reverts" /\ undo # <<>>
    /\ IF Possible(Head(undo), items) THEN Event(1) ELSE UNCHANGED events
    /\ undo' = IF Head(undo).err = "goto" THEN Tail(undo) ELSE <<>>
    /\ failed' = TRUE
    /\ failures' = failures + 1
    /\ cases' = [cases EXCEPT ![t].failure = TRUE]
    /\ prevRevertsFailed' = TRUE
    /\ broken' = TRUE /\ cleanupBroken' = TRUE
    /\ UNCHANGED <<plan, opts, suite, pc, run, body, items, matrix, reverts, ranSomeTests, skipped, total, verdict>>

\* Mutant: a failed revert asks for no new setup.
revertFailsForgotten ==
    /\ pc = "reverts" /\ undo # <<>>
    /\ IF Possible(Head(undo), items) THEN Event(1) ELSE UNCHANGED events
    /\ undo' = IF Head(undo).err = "goto" THEN Tail(undo) ELSE <<>>
    /\ failed' = TRUE
    /\ failures' = IF failed THEN failures ELSE failures + 1
    /\ cases' = [cases EXCEPT ![t].failure = TRUE]
    /\ UNCHANGED prevRevertsFailed
    /\ broken' = TRUE /\ cleanupBroken' = TRUE
    /\ UNCHANGED <<plan, opts, suite, pc, run, body, items, matrix, reverts, ranSomeTests, skipped, total, verdict>>

revertFails ==
    /\ pc = "reverts" /\ undo # <<>>
    /\ IF Possible(Head(undo), items) THEN Event(1) ELSE UNCHANGED events
    /\ undo' = IF Head(undo).err = "goto" THEN Tail(undo) ELSE <<>>
    /\ failed' = TRUE
    /\ failures' = IF failed THEN failures ELSE failures + 1
    /\ cases' = [cases EXCEPT ![t].failure = TRUE]
    /\ prevRevertsFailed' = TRUE
    /\ broken' = TRUE /\ cleanupBroken' = TRUE
    /\ UNCHANGED <<plan, opts, suite, pc, run, body, items, matrix, reverts, ranSomeTests, skipped, total, verdict>>

afterReverts ==
    /\ pc = "reverts" /\ undo = <<>> /\ reverts = <<>>
    /\ IF FailFast /\ failed
       THEN pc' = "done" /\ verdict' = "error" /\ UNCHANGED <<i, body, reverts, failed>>
       ELSE NextCase /\ UNCHANGED verdict
    /\ UNCHANGED <<plan, opts, suite, s, t, items, matrix, undo, flags, report, total, history, events>>

\* Mutant: only the failures of the last suite decide.
endOfSuiteLastOnly ==
    /\ pc = "end"
    /\ total' = failures
    /\ pc' = "suite" /\ s' = s + 1 /\ t' = 0
    /\ cases' = <<>> /\ failures' = 0 /\ skipped' = 0
    /\ UNCHANGED <<plan, opts, suite, i, body, items, matrix, reverts, undo, failed, flags, verdict, history, events>>

\* Mutant: the next suite is skipped.
endOfSuiteSkipsOne ==
    /\ pc = "end"
    /\ total' = total + failures
    /\ pc' = "suite" /\ s' = s + 2 /\ t' = 0
    /\ cases' = <<>> /\ failures' = 0 /\ skipped' = 0
    /\ UNCHANGED <<plan, opts, suite, i, body, items, matrix, reverts, undo, failed, flags, verdict, history, events>>

(***************************************************************************)
(* The end of a suite, and of the run.                                     *)
(***************************************************************************)
endOfSuite ==
    /\ pc = "end"
    /\ total' = total + failures
    /\ pc' = "suite" /\ s' = s + 1 /\ t' = 0
    /\ cases' = <<>> /\ failures' = 0 /\ skipped' = 0
    /\ UNCHANGED <<plan, opts, suite, i, body, items, matrix, reverts, undo, failed, flags, verdict, history, events>>

recapAndReport ==
    /\ pc = "suite" /\ s > opts.count
    /\ pc' = "done"
    \* the report cannot be written, or it can
    /\ \/ Event(1) /\ verdict' = "error"
       \/ UNCHANGED events /\ verdict' = IF total > 0 THEN "error" ELSE "ok"
    /\ UNCHANGED <<plan, opts, suite, run, body, items, matrix, reverts, undo, failed, flags, report, total, history>>

Next ==
    \/ selectAndRunSuite \/ initialSetup \/ failAllTests
    \/ nextTest \/ setupBetweenTests \/ setupBetweenFails
    \/ stepOK \/ stepNotNeeded \/ stepFails \/ stepSkips \/ testReturns
    \/ recordOutcome \/ nextRevert \/ revertStep \/ revertFails
    \/ afterReverts \/ endOfSuite \/ recapAndReport

Spec == Init /\ [][Next]_vars
\* The runner is sequential and each of its calls has a timeout.
FairSpec == Spec /\ WF_vars(Next)

-----------------------------------------------------------------------------
\* Every variable has its type: doRunSuite never gets past the last suite.
TypeOK ==
    /\ pc \in {"suite", "setup", "next", "body", "after", "reverts", "end", "done"}
    /\ s \in 1..opts.count + 1 /\ t \in Nat /\ i \in Nat
    /\ matrix.up \in BOOLEAN /\ matrix.decided \in BOOLEAN
    /\ failed \in BOOLEAN /\ prevRevertsFailed \in BOOLEAN /\ ranSomeTests \in BOOLEAN
    /\ failures \in Nat /\ skipped \in Nat /\ total \in Nat
    /\ verdict \in {"none", "ok", "error"}
    /\ broken \in BOOLEAN /\ cleanupBroken \in BOOLEAN
    /\ plan \in Chosen /\ events \in 0..MaxEvents

AtStart == pc = "body" /\ i = 1

\* However earlier tests, reverts and setups of the suite have failed, a test of
\* a suite with a setup starts with the VPCs, attachments, peerings and servers
\* the setup makes: a failed revert or setup is followed by a setup before any
\* test runs (prevRevertsFailed and the continue in doRunSuite).
VPCsClean ==
    AtStart /\ ~This.noSetup =>
        /\ matrix.up
        /\ \A x \in items : x[1] \in Wiped => x[1] \in Tolerated

\* As long as no revert and no deferred cleanup fails, every test starts with the
\* switches, gateways, namespaces and connections as the suite found them (and,
\* without a setup, the VPCs), wherever earlier tests have failed: each step that
\* changes the fabric has a revert or a deferred cleanup by the time something
\* after it can fail.  The run ends like that, too.
FabricClean ==
    (AtStart \/ pc = "done") /\ ~cleanupBroken =>
        \A x \in items :
            \/ x[1] \in Tolerated
            \/ pc = "done" /\ x[1] \in Wiped /\ ~This.noSetup

\* The step that is about to be made, of a test or of a revert.
Pending(op) ==
    \/ pc = "body" /\ i <= Len(body) /\ Current.op = op
    \/ pc = "reverts" /\ undo # <<>> /\ Head(undo).op = op

\* Whenever the connectivity is checked against the shared matrix, its verdicts
\* are about the peerings, VPCs and addresses of that moment, and the pairs
\* behind NAT or an ACL have been decided by the test's overlay.  (If they had
\* not, the check would pass or fail for the wrong reason.)
MatrixFresh ==
    Pending("matrix") /\ ~cleanupBroken =>
        /\ matrix.up /\ matrix.view = Reach(items)
        /\ NatPeered(items) => matrix.decided

\* The last-registered-first order makes every revert possible: what it deletes
\* exists, what it creates does not and the objects it refers to are back, and
\* the agents run again before it waits for them.
RevertsPossible ==
    pc = "reverts" /\ undo # <<>> /\ ~cleanupBroken =>
        \/ Possible(Head(undo), items)
        \/ Head(undo).on # {} /\ \A x \in Head(undo).on : x[1] \in Tolerated

\* ts.Failures and ts.Skipped agree with the test cases of the report at every
\* moment: a test that fails and whose reverts fail too counts once.
CountersAgree ==
    /\ failures = Cardinality({k \in DOMAIN cases : cases[k].failure})
    /\ skipped = Cardinality({k \in DOMAIN cases : cases[k].skipped})

\* RunReleaseTestSuites returns nil only if no call of a test, of a revert or of
\* a setup has failed, in whatever suite and whatever the outcome of the test it
\* belonged to (a skipped test whose revert fails included).
VerdictSound == verdict = "ok" => ~broken

\* The runner comes to an end, whatever fails and whatever is skipped.
Finishes == <>(pc = "done")
=============================================================================
