------------------------ MODULE FabReconcilerProofs ------------------------
(***************************************************************************)
(* Proofs about FabReconciler for every set of configurations, every list  *)
(* of components, every number of releases, edits and faults.              *)
(***************************************************************************)
EXTENDS FabReconciler, TLAPS

USE CfgAssumption, CompAssumption, BoundAssumption

Labels == Window \cup {"idle", "check", "read", "write"}

\* NewFab, what a returning handler leaves behind, is a Fabricator.
LEMMA NewFabType == NewFab \in Fabricator /\ AllOk \in [ready : BOOLEAN, gw : BOOLEAN]
  BY DEF NewFab, Fabricator, Ver, AllOk

\* The operations on Fabricators return Fabricators.
LEMMA OpsType ==
  /\ \A o \in Fabricator, v \in Ver : Default(o, v) \in Fabricator
  /\ \A o, p \in Fabricator : WithStatus(o, p) \in Fabricator
  /\ \A o, p \in Fabricator : WithSpec(o, p) \in Fabricator
  /\ \A o \in Fabricator : ApplyPending(o) \in Fabricator
  /\ \A o \in Fabricator, v \in Ver : CalculateVersions(o, v) \in Fabricator
  /\ \A o \in Fabricator, v \in Ver : ApplySucceeded(o, v) \in Fabricator
  /\ \A o \in Fabricator, r \in [ready : BOOLEAN, gw : BOOLEAN] :
        ChecksDone(o, r) \in Fabricator
  /\ \A o \in Fabricator, c \in Comp : Render(c, o) \in Chart
<1> USE DEF Fabricator
<1>1. \A o \in Fabricator, v \in Ver : Default(o, v) \in Fabricator  BY DEF Default
<1>2. \A o, p \in Fabricator : WithStatus(o, p) \in Fabricator  BY DEF WithStatus
<1>3. \A o, p \in Fabricator : WithSpec(o, p) \in Fabricator  BY DEF WithSpec, SameSpec
<1>4. \A o \in Fabricator : ApplyPending(o) \in Fabricator  BY DEF ApplyPending
<1>5. \A o \in Fabricator, v \in Ver : CalculateVersions(o, v) \in Fabricator
  BY DEF CalculateVersions
<1>6. \A o \in Fabricator, v \in Ver : ApplySucceeded(o, v) \in Fabricator
  BY DEF ApplySucceeded
<1>7. \A o \in Fabricator, r \in [ready : BOOLEAN, gw : BOOLEAN] :
         ChecksDone(o, r) \in Fabricator
  BY DEF ChecksDone
<1>8. \A o \in Fabricator, c \in Comp : Render(c, o) \in Chart  BY DEF Render, Chart
<1> QED  BY <1>1, <1>2, <1>3, <1>4, <1>5, <1>6, <1>7, <1>8

\* Returning keeps the types, whatever the handler was doing.
LEMMA ReturnType ==
  ASSUME TypeOK, NEW a \in Actor, Return(a)
  PROVE  /\ pc' \in [Actor -> Labels]
         /\ f' \in [Actor -> Fabricator]
         /\ idx' \in [Actor -> 0..N]
         /\ ok' \in [Actor -> [ready : BOOLEAN, gw : BOOLEAN]]
  BY NewFabType DEF TypeOK, Return, Labels

\* Giving up keeps the types.
LEMMA FailType ==
  ASSUME TypeOK, NEW a \in Actor, Fail(a), lock' \in Actor \cup {"nobody"},
         faults' \in 0..MaxFaults
  PROVE  TypeOK'
<1> USE DEF TypeOK
<1>1. queued' \in BOOLEAN  BY DEF Fail, Requeue
<1>2. cur' \in [Actor -> BOOLEAN]  BY DEF Fail
<1> QED  BY <1>1, <1>2, ReturnType DEF Fail, Labels

\* Going on to the next component stays inside the list.
LEMMA NextCompType ==
  ASSUME TypeOK, NEW a \in Actor, idx[a] \in 1..N,
         NEW after \in {"applied", "write"}, NextComp(a, after)
  PROVE  /\ pc' \in [Actor -> Labels]
         /\ idx' \in [Actor -> 0..N]
<1>1. idx[a] \in Nat /\ (idx[a] # N => idx[a] + 1 \in 0..N)  OBVIOUS
<1>2. idx' \in [Actor -> 0..N]  BY <1>1 DEF TypeOK, NextComp
<1>3. after \in Labels  BY DEF Window, Labels
<1> QED  BY <1>2, <1>3 DEF TypeOK, NextComp, Labels

\* A write of the Fabricator and a jump keep the types.
LEMMA StaleType ==
  ASSUME TypeOK, NEW a, Stale(a)
  PROVE  cache' \in [obj : Fabricator, cur : BOOLEAN] /\ cur' \in [Actor -> BOOLEAN]
<1>1. cache' \in [obj : Fabricator, cur : BOOLEAN]  BY DEF TypeOK, Stale
<1>2. cur' \in [Actor -> BOOLEAN]  BY DEF Stale
<1> QED  BY <1>1, <1>2

\* A jump to a label is one.
LEMMA GotoType ==
  ASSUME TypeOK, NEW a \in Actor, NEW l \in Labels, Goto(a, l)
  PROVE  pc' \in [Actor -> Labels]
  BY DEF TypeOK, Goto, Labels

-----------------------------------------------------------------------------
(* The inductive invariant, in two layers.                                 *)

\* A handler that is at a component is at an existing one, and the watcher
\* never applies anything.
AtComponent ==
    /\ \A a \in Actor : pc[a] \in {"enforce", "read"} => idx[a] # 0
    /\ pc["wat"] \notin Window

\* A copy marked as the latest agrees with the Fabricator in everything its
\* owner has not changed; this is what a successful Update relies on.
LatestCopies ==
    /\ cache.cur => cache.obj = fab
    /\ \A a \in Actor : cur[a] =>
          /\ f[a].cfg = fab.cfg
          /\ f[a].applied = fab.applied
          /\ f[a].genApplied = fab.genApplied
          /\ pc[a] \notin {"enforce", "applied"} => f[a].versions = fab.versions

\* While objects are being enforced the Fabricator says so, and the copy
\* that will be written as applied is neither ready nor of another release.
Pending ==
    pc["rec"] \in {"enforce", "applied"} =>
        /\ ~fab.applied
        /\ ~f["rec"].ready /\ ~f["rec"].gwReady
        /\ f["rec"].versions = ctrl

\* The defaults get into the spec before anything is rendered from it.
Defaulted ==
    /\ pc["rec"] \in Window => f["rec"].defs >= ctrl
    /\ pc["rec"] = "enforceFab" /\ cur["rec"] => cache.cur
    /\ pc["rec"] = "attempt" /\ cur["rec"] => f["rec"].defs = fab.defs

Inv1 == TypeOK /\ AtComponent /\ LatestCopies /\ Pending /\ Defaulted

Required == Comp \ (Gw \cup {N})

\* The informer of the enforced objects shows them as they are.
Synced == \A c \in Comp : seen[c] = [val |-> chart[c], cur |-> TRUE]

\* Component c is behind handler a's loop over the components.
Passed(a, c) == pc[a] \in {"applied", "write"} \/ c < idx[a]

EnforcedSoFar ==
    pc["rec"] \in {"enforce", "applied"} =>
        \A c \in Comp \ {N} :
            Passed("rec", c) /\ Wanted(c, f["rec"]) =>
                chart[c] = Render(c, f["rec"])

\* Applied, of this or of an earlier generation: the required charts are of
\* the release the status names.
AppliedRelease ==
    fab.applied => \A c \in Required : chart[c].ver = fab.versions

\* What a status check found still holds when it writes its result.
CheckedBy(a) ==
    cur[a] /\ pc[a] \in {"read", "write"} /\ fab.applied =>
        /\ ok[a].ready => \A c \in Required :
              Passed(a, c) => work[c].of.ver = fab.versions
        /\ ok[a].gw /\ fab.genApplied /\ fab.cfg \in GwCfgs =>
              \A c \in Gw \cap GwNeeds :
                  Passed(a, c) => work[c].of.ver = fab.versions

CheckedSoFar == \A a \in Actor : CheckedBy(a)

Inv2 == /\ Synced
        /\ EnforcedSoFar
        /\ AppliedMeansEnforced
        /\ AppliedRelease
        /\ CheckedSoFar
        /\ ReadyMeansRolledOut
        /\ GatewayReadyMeansRolledOut

-----------------------------------------------------------------------------
(* Typing.                                                                 *)

\* The initial states are well typed.
LEMMA TypeInit == Init => TypeOK /\ AtComponent
<1> SUFFICES ASSUME Init PROVE TypeOK /\ AtComponent  OBVIOUS
<1>1. Installed \in Workload /\ Missing \in Workload
  BY DEF Installed, Missing, Workload, Chart, NoChart, Ver
<1>2. work \in [Comp -> Workload]  BY <1>1 DEF Init
<1>3. chart \in [Comp -> Chart]  BY <1>2 DEF Init, Workload
<1>4. seen \in [Comp -> [val : Chart, cur : BOOLEAN]]  BY <1>3 DEF Init
<1>5. 1 \in Ver \ {0} /\ 0 \in Ver  BY DEF Ver
<1>6. /\ 0 \in 0..N /\ 0 \in 0..MaxEdits /\ 0 \in 0..MaxFaults
      /\ pc \in [Actor -> Labels]
  BY DEF Init, Labels
<1>7. TypeOK  BY <1>2, <1>3, <1>4, <1>5, <1>6, NewFabType DEF Init, TypeOK, Labels
<1>8. AtComponent  BY DEF Init, AtComponent, Window, Actor
<1> QED  BY <1>7, <1>8

\* Every step keeps the types, and the loops inside the list of components.
LEMMA TypeStep ==
  ASSUME TypeOK, AtComponent, [Next]_vars
  PROVE  TypeOK' /\ AtComponent'
<1> USE DEF Labels
<1>1. CASE RecStart
  <2>1. Default(cache.obj, ctrl) \in Fabricator  BY OpsType DEF TypeOK
  <2>2. TypeOK'  BY <1>1, <2>1 DEF TypeOK, RecStart, Goto, Actor, Window
  <2>3. AtComponent'  BY <1>1 DEF TypeOK, AtComponent, RecStart, Goto, Actor, Window
  <2> QED  BY <2>2, <2>3
<1>2. CASE RecEnforceFab
  <2>1. CASE Fail("rec")
    <3>1. TypeOK'  BY <1>2, <2>1, FailType DEF TypeOK, RecEnforceFab, Actor
    <3>2. AtComponent'  BY <2>1 DEF TypeOK, AtComponent, Fail, Return, Actor, Window
    <3> QED  BY <3>1, <3>2
  <2>2. CASE ~Fail("rec")
    <3>1. WithSpec(fab, f["rec"]) \in Fabricator  BY OpsType DEF TypeOK, Actor
    <3>2. TypeOK'
      BY <1>2, <2>2, <3>1, ZenonT(40) DEF TypeOK, RecEnforceFab, Stale, Goto, Actor, Window
    <3>3. AtComponent'
      BY <1>2, <2>2 DEF TypeOK, AtComponent, RecEnforceFab, Goto, Actor, Window
    <3> QED  BY <3>2, <3>3
  <2> QED  BY <2>1, <2>2
<1>3. CASE RecAttempt
  <2>1. CASE Fail("rec")
    <3>1. TypeOK'  BY <1>3, <2>1, FailType DEF TypeOK, RecAttempt, Actor
    <3>2. AtComponent'  BY <2>1 DEF TypeOK, AtComponent, Fail, Return, Actor, Window
    <3> QED  BY <3>1, <3>2
  <2>2. CASE ~Fail("rec")
    <3>1. ApplyPending(f["rec"]) \in Fabricator  BY OpsType DEF TypeOK, Actor
    <3>2. fab' \in Fabricator  BY <1>3, <2>2, <3>1, OpsType DEF TypeOK, RecAttempt
    <3>3. CalculateVersions(fab', ctrl) \in Fabricator  BY <3>2, OpsType DEF TypeOK
    <3>4. f' \in [Actor -> Fabricator]  BY <1>3, <2>2, <3>3 DEF TypeOK, RecAttempt
    <3>5. 1 \in 0..N  OBVIOUS
    <3>6. idx' \in [Actor -> 0..N]  BY <1>3, <2>2, <3>5 DEF TypeOK, RecAttempt
    <3>7. pc' \in [Actor -> Labels]  BY <1>3, <2>2, GotoType DEF RecAttempt, Window, Actor
    <3>8. TypeOK'
      BY <1>3, <2>2, <3>2, <3>4, <3>6, <3>7, StaleType DEF TypeOK, RecAttempt
    <3>9. AtComponent'
      BY <1>3, <2>2 DEF TypeOK, AtComponent, RecAttempt, Goto, Actor, Window
    <3> QED  BY <3>8, <3>9
  <2> QED  BY <2>1, <2>2
<1>4. CASE RecEnforce
  <2>1. CASE Fail("rec")
    <3>1. TypeOK'  BY <1>4, <2>1, FailType DEF TypeOK, RecEnforce, Actor
    <3>2. AtComponent'  BY <2>1 DEF TypeOK, AtComponent, Fail, Return, Actor, Window
    <3> QED  BY <3>1, <3>2
  <2>2. CASE ~Fail("rec")
    <3> DEFINE c == idx["rec"]
               want == Render(c, f["rec"])
    <3>1. c \in Comp  BY <1>4 DEF TypeOK, AtComponent, RecEnforce, Actor, Comp
    <3>2. want \in Chart  BY <3>1, OpsType DEF TypeOK, Actor
    <3>3. NextComp("rec", "applied")  BY <1>4, <2>2 DEF RecEnforce
    <3>4. pc' \in [Actor -> Labels] /\ idx' \in [Actor -> 0..N]
      BY <3>1, <3>3, NextCompType DEF Comp, Actor
    <3>5. chart' \in [Comp -> Chart]  BY <1>4, <2>2, <3>2 DEF TypeOK, RecEnforce
    <3>6. seen' \in [Comp -> [val : Chart, cur : BOOLEAN]]
      <4>1. CASE UNCHANGED seen  BY <4>1 DEF TypeOK
      <4>2. CASE seen' = [seen EXCEPT ![c].cur = FALSE]  BY <4>2 DEF TypeOK
      <4>3. CASE seen' = [seen EXCEPT ![c] = [val |-> want, cur |-> TRUE]]
        BY <3>2, <4>3 DEF TypeOK
      <4> QED  BY <1>4, <2>2, <4>1, <4>2, <4>3 DEF RecEnforce
    <3>7. TypeOK'  BY <1>4, <2>2, <3>4, <3>5, <3>6 DEF TypeOK, RecEnforce
    <3>8. AtComponent'
      BY <1>4, <3>1, <3>3 DEF TypeOK, AtComponent, RecEnforce, NextComp, Actor, Window, Comp
    <3> QED  BY <3>7, <3>8
  <2> QED  BY <2>1, <2>2
<1>5. CASE RecApplied
  <2>1. CASE Fail("rec")
    <3>1. TypeOK'  BY <1>5, <2>1, FailType DEF TypeOK, RecApplied, Actor
    <3>2. AtComponent'  BY <2>1 DEF TypeOK, AtComponent, Fail, Return, Actor, Window
    <3> QED  BY <3>1, <3>2
  <2>2. CASE ~Fail("rec")
    <3>1. ApplySucceeded(f["rec"], ctrl) \in Fabricator  BY OpsType DEF TypeOK, Actor
    <3>2. fab' \in Fabricator  BY <1>5, <2>2, <3>1, OpsType DEF TypeOK, RecApplied
    <3>3. f' \in [Actor -> Fabricator]  BY <1>5, <2>2, <3>2 DEF TypeOK, RecApplied
    <3>4. pc' \in [Actor -> Labels]  BY <1>5, <2>2, GotoType DEF RecApplied, Actor
    <3>5. TypeOK'  BY <1>5, <2>2, <3>2, <3>3, <3>4, StaleType DEF TypeOK, RecApplied
    <3>6. AtComponent'
      BY <1>5, <2>2 DEF TypeOK, AtComponent, RecApplied, Goto, Actor, Window
    <3> QED  BY <3>5, <3>6
  <2> QED  BY <2>1, <2>2
<1>6. CASE WatTick
  <2>1. pc' \in [Actor -> Labels]  BY <1>6, GotoType DEF WatTick, Actor
  <2>2. TypeOK'  BY <1>6, <2>1 DEF TypeOK, WatTick
  <2>3. AtComponent'  BY <1>6 DEF TypeOK, AtComponent, WatTick, Goto, Actor, Window
  <2> QED  BY <2>2, <2>3
<1>7. ASSUME NEW a \in Actor, StatusSkip(a) PROVE TypeOK' /\ AtComponent'
  <2>1. cur' \in [Actor -> BOOLEAN]  BY <1>7 DEF TypeOK, StatusSkip
  <2>2. TypeOK'  BY <1>7, <2>1, ReturnType DEF TypeOK, StatusSkip
  <2>3. AtComponent'  BY <1>7 DEF TypeOK, AtComponent, StatusSkip, Return, Window, Actor
  <2> QED  BY <2>2, <2>3
<1>8. ASSUME NEW a \in Actor, StatusLock(a) PROVE TypeOK' /\ AtComponent'
  <2>1. pc' \in [Actor -> Labels]  BY <1>8, GotoType DEF StatusLock
  <2>2. 1 \in 0..N  OBVIOUS
  <2>3. idx' \in [Actor -> 0..N]  BY <1>8, <2>2 DEF TypeOK, StatusLock
  <2>4. TypeOK'  BY <1>8, <2>1, <2>3 DEF TypeOK, StatusLock
  <2>5. AtComponent'  BY <1>8 DEF TypeOK, AtComponent, StatusLock, Goto, Window, Actor
  <2> QED  BY <2>4, <2>5
<1>9. ASSUME NEW a \in Actor, StatusRead(a) PROVE TypeOK' /\ AtComponent'
  <2>1. idx[a] \in 1..N  BY <1>9 DEF TypeOK, AtComponent, StatusRead
  <2>2. pc' \in [Actor -> Labels] /\ idx' \in [Actor -> 0..N]
    BY <1>9, <2>1, NextCompType DEF StatusRead
  <2>3. ok' \in [Actor -> [ready : BOOLEAN, gw : BOOLEAN]]
    BY <1>9 DEF TypeOK, StatusRead, CountsReady, CountsGateway
  <2>4. TypeOK'  BY <1>9, <2>2, <2>3 DEF TypeOK, StatusRead
  <2>5. AtComponent'
    BY <1>9, <2>1 DEF TypeOK, AtComponent, StatusRead, NextComp, Window, Actor
  <2> QED  BY <2>4, <2>5
<1>10. ASSUME NEW a \in Actor, StatusWrite(a) PROVE TypeOK' /\ AtComponent'
  <2>1. CASE Fail(a)
    <3>1. TypeOK'  BY <1>10, <2>1, FailType DEF TypeOK, StatusWrite
    <3>2. AtComponent'  BY <2>1 DEF TypeOK, AtComponent, Fail, Return, Actor, Window
    <3> QED  BY <3>1, <3>2
  <2>2. CASE ~Fail(a)
    <3>1. ChecksDone(f[a], ok[a]) \in Fabricator  BY OpsType DEF TypeOK
    <3>2. fab' \in Fabricator  BY <1>10, <2>2, <3>1, OpsType DEF TypeOK, StatusWrite
    <3>3. TypeOK'
      BY <1>10, <2>2, <3>2, StaleType, ReturnType DEF TypeOK, StatusWrite
    <3>4. AtComponent'
      BY <1>10, <2>2 DEF TypeOK, AtComponent, StatusWrite, Return, Actor, Window
    <3> QED  BY <3>3, <3>4
  <2> QED  BY <2>1, <2>2
<1>11. ASSUME NEW a \in Actor, ApiError(a) PROVE TypeOK' /\ AtComponent'
  <2>1. TypeOK'  BY <1>11, FailType DEF TypeOK, ApiError
  <2>2. AtComponent'
    BY <1>11 DEF TypeOK, AtComponent, ApiError, Fail, Return, Actor, Window
  <2> QED  BY <2>1, <2>2
<1>12. CASE CacheSync
  BY <1>12 DEF TypeOK, AtComponent, CacheSync
<1>13. ASSUME NEW c \in Comp, ChartSync(c) PROVE TypeOK' /\ AtComponent'
  <2>1. seen' \in [Comp -> [val : Chart, cur : BOOLEAN]]
    BY <1>13 DEF TypeOK, ChartSync
  <2> QED  BY <1>13, <2>1 DEF TypeOK, AtComponent, ChartSync
<1>14. ASSUME NEW c \in Cfg, UserEdit(c) PROVE TypeOK' /\ AtComponent'
  <2>1. [fab EXCEPT !.cfg = c] \in Fabricator  BY <1>14 DEF TypeOK, Fabricator
  <2>2. Default([fab EXCEPT !.cfg = c], ctrl) \in Fabricator
    BY <2>1, OpsType DEF TypeOK
  <2>3. fab' \in Fabricator  BY <1>14, <2>2, OpsType DEF TypeOK, UserEdit
  <2>4. edits' \in 0..MaxEdits  BY <1>14 DEF TypeOK, UserEdit
  <2> QED  BY <1>14, <2>3, <2>4, StaleType DEF TypeOK, AtComponent, UserEdit
<1>15. CASE Upgrade
  <2>1. target + 1 \in Ver \ {0}  BY <1>15 DEF TypeOK, Upgrade, Ver
  <2>2. [cfg |-> InitCfg, ver |-> target + 1] \in Chart  BY <2>1 DEF Chart
  <2>3. N \in Comp  BY DEF Comp
  <2>4. chart' \in [Comp -> Chart]  BY <1>15, <2>2 DEF TypeOK, Upgrade
  <2>5. seen' \in [Comp -> [val : Chart, cur : BOOLEAN]]
    <3>1. CASE seen' = [seen EXCEPT ![N].cur = FALSE]  BY <3>1 DEF TypeOK
    <3>2. CASE seen' = [seen EXCEPT ![N] = [val |-> chart'[N], cur |-> TRUE]]
      BY <2>3, <2>4, <3>2 DEF TypeOK
    <3> QED  BY <1>15, <3>1, <3>2 DEF Upgrade
  <2> QED  BY <1>15, <2>1, <2>4, <2>5 DEF TypeOK, AtComponent, Upgrade
<1>16. ASSUME NEW c \in Comp, Rollout(c) PROVE TypeOK' /\ AtComponent'
  <2>1. work' \in [Comp -> Workload]
    <3>1. CASE HelmRoll(c)  BY <3>1, ZenonT(40) DEF TypeOK, HelmRoll, Workload
    <3>2. CASE RollObserved(c)  BY <3>2, ZenonT(40) DEF TypeOK, RollObserved, Workload
    <3>3. CASE PodsUpdated(c)
      <4>0. work[c] \in Workload  BY DEF TypeOK
      <4>1. work[c].of.ver \in Ver  BY <4>0 DEF Workload, Chart
      <4>2. \A w \in Workload, v \in Ver :
               [w EXCEPT !.upd = TRUE, !.run = v] \in Workload
        BY DEF Workload
      <4>3. [work[c] EXCEPT !.upd = TRUE, !.run = work[c].of.ver] \in Workload
        BY <4>0, <4>1, <4>2
      <4> QED  BY <3>3, <4>3 DEF TypeOK, PodsUpdated
    <3> QED  BY <1>16, <3>1, <3>2, <3>3 DEF Rollout
  <2> QED
    BY <1>16, <2>1
    DEF TypeOK, AtComponent, Rollout, HelmRoll, RollObserved, PodsUpdated
<1>17. ASSUME Gone PROVE AtComponent' /\ pc' \in [Actor -> Labels]
         /\ f' \in [Actor -> Fabricator] /\ cur' \in [Actor -> BOOLEAN]
         /\ idx' \in [Actor -> 0..N]
         /\ ok' \in [Actor -> [ready : BOOLEAN, gw : BOOLEAN]]
         /\ lock' \in Actor \cup {"nobody"}
  BY <1>17, NewFabType DEF Gone, AtComponent, Window, Actor
<1>18. CASE CtrlCrash
  <2>1. 0 \in Ver /\ faults' \in 0..MaxFaults  BY <1>18 DEF TypeOK, CtrlCrash, Ver
  <2> QED  BY <1>17, <1>18, <2>1 DEF TypeOK, CtrlCrash
<1>19. CASE CtrlLead
  <2>1. work[N].run \in Ver  BY DEF TypeOK, Workload, Comp
  <2>2. seen' \in [Comp -> [val : Chart, cur : BOOLEAN]]
    BY <1>19 DEF TypeOK, CtrlLead
  <2> QED  BY <1>17, <1>19, <2>1, <2>2 DEF TypeOK, CtrlLead
<1>20. CASE UNCHANGED vars
  BY <1>20 DEF TypeOK, AtComponent, vars
<1> QED
  BY <1>1, <1>2, <1>3, <1>4, <1>5, <1>6, <1>7, <1>8, <1>9, <1>10, <1>11,
     <1>12, <1>13, <1>14, <1>15, <1>16, <1>18, <1>19, <1>20
  DEF Next, Reconcile, StatusCheck

\* Type correctness of the controller, for every value of the constants.
THEOREM TypeCorrect == Spec => []TypeOK
<1>1. TypeOK /\ AtComponent /\ [Next]_vars => TypeOK' /\ AtComponent'
  BY TypeStep
<1> QED  BY <1>1, TypeInit, PTL DEF Spec

-----------------------------------------------------------------------------
(* The first layer: copies, conditions and defaults.                       *)

\* The fields an operation on Fabricators sets, and those it leaves alone.
LEMMA DefaultFields ==
  ASSUME NEW o \in Fabricator, NEW v \in Ver
  PROVE  /\ Default(o, v).cfg = o.cfg
         /\ Default(o, v).defs >= v
         /\ Default(o, v).applied = o.applied
         /\ Default(o, v).genApplied = o.genApplied
         /\ Default(o, v).versions = o.versions
  BY DEF Default, Fabricator, Ver

\* A status update keeps the spec of the stored object.
LEMMA WithStatusFields ==
  ASSUME NEW o \in Fabricator, NEW p \in Fabricator
  PROVE  /\ WithStatus(o, p).cfg = o.cfg
         /\ WithStatus(o, p).defs = o.defs
         /\ WithStatus(o, p).applied = p.applied
         /\ WithStatus(o, p).genApplied = p.genApplied
         /\ WithStatus(o, p).versions = p.versions
         /\ WithStatus(o, p).ready = p.ready
         /\ WithStatus(o, p).gwReady = p.gwReady
  BY DEF WithStatus, Fabricator

\* A spec update keeps the status, but for the generation it replaces.
LEMMA WithSpecFields ==
  ASSUME NEW o \in Fabricator, NEW p \in Fabricator
  PROVE  /\ WithSpec(o, p).cfg = p.cfg
         /\ WithSpec(o, p).defs = p.defs
         /\ WithSpec(o, p).applied = o.applied
         /\ WithSpec(o, p).genApplied = (o.genApplied /\ SameSpec(o, p))
         /\ WithSpec(o, p).versions = o.versions
         /\ WithSpec(o, p).ready = o.ready
         /\ WithSpec(o, p).gwReady = o.gwReady
  BY DEF WithSpec, Fabricator

\* The attempt clears all conditions.
LEMMA PendingFields ==
  ASSUME NEW o \in Fabricator
  PROVE  /\ ApplyPending(o).applied = FALSE
         /\ ApplyPending(o).ready = FALSE
         /\ ApplyPending(o).gwReady = FALSE
  BY DEF ApplyPending, Fabricator

\* Calculating the versions sets nothing else.
LEMMA VersionFields ==
  ASSUME NEW o \in Fabricator, NEW v \in Ver
  PROVE  /\ CalculateVersions(o, v).versions = v
         /\ CalculateVersions(o, v).cfg = o.cfg
         /\ CalculateVersions(o, v).defs = o.defs
         /\ CalculateVersions(o, v).applied = o.applied
         /\ CalculateVersions(o, v).genApplied = o.genApplied
         /\ CalculateVersions(o, v).ready = o.ready
         /\ CalculateVersions(o, v).gwReady = o.gwReady
  BY DEF CalculateVersions, Fabricator

\* The last write of a reconcile marks the generation it read.
LEMMA SucceededFields ==
  ASSUME NEW o \in Fabricator, NEW v \in Ver
  PROVE  /\ ApplySucceeded(o, v).genApplied = TRUE
         /\ ApplySucceeded(o, v).applied = TRUE
         /\ ApplySucceeded(o, v).versions = o.versions
         /\ ApplySucceeded(o, v).ready = o.ready
         /\ ApplySucceeded(o, v).gwReady = o.gwReady
  BY DEF ApplySucceeded, Fabricator

\* A status check only sets the two readiness conditions.
LEMMA ChecksDoneFields ==
  ASSUME NEW o \in Fabricator, NEW r \in [ready : BOOLEAN, gw : BOOLEAN]
  PROVE  /\ ChecksDone(o, r).applied = o.applied
         /\ ChecksDone(o, r).genApplied = o.genApplied
         /\ ChecksDone(o, r).versions = o.versions
         /\ ChecksDone(o, r).ready = r.ready
         /\ ChecksDone(o, r).gwReady = r.gw
  BY DEF ChecksDone, Fabricator

\* The first layer holds initially.
LEMMA Inv1Init == Init => Inv1
<1> SUFFICES ASSUME Init PROVE Inv1  OBVIOUS
<1>1. LatestCopies  BY DEF Init, LatestCopies
<1>2. Pending /\ Defaulted  BY DEF Init, Pending, Defaulted, Window, Actor
<1> QED  BY <1>1, <1>2, TypeInit DEF Inv1

\* A handler that returns, keeping the Fabricator, keeps the first layer.
LEMMA Inv1Fail ==
  ASSUME Inv1, NEW a \in Actor, Fail(a)
  PROVE  LatestCopies' /\ Pending' /\ Defaulted'
<1> USE DEF Inv1, TypeOK
<1>1. LatestCopies'  BY DEF Fail, Return, LatestCopies
<1>2. Pending'  BY DEF Fail, Return, Pending, Actor
<1>3. Defaulted'  BY DEF Fail, Return, Defaulted, Actor, Window
<1> QED  BY <1>1, <1>2, <1>3

\* Every step keeps the first layer.
LEMMA Inv1Step ==
  ASSUME Inv1, [Next]_vars
  PROVE  Inv1'
<1>0. TypeOK' /\ AtComponent'  BY TypeStep DEF Inv1
<1>t. TypeOK /\ AtComponent  BY DEF Inv1
<1> SUFFICES LatestCopies' /\ Pending' /\ Defaulted'  BY <1>0 DEF Inv1
<1>1. CASE RecStart
  <2> DEFINE o == Default(cache.obj, ctrl)
  <2>1. cache.obj \in Fabricator /\ ctrl \in Ver  BY <1>t DEF TypeOK
  <2>2. LatestCopies'
    BY <1>1, <1>t, <2>1, DefaultFields
    DEF Inv1, LatestCopies, TypeOK, RecStart, Goto, Actor
  <2>3. Pending'  BY <1>1, <1>t DEF Inv1, Pending, TypeOK, RecStart, Goto, Actor
  <2>4. Defaulted'
    BY <1>1, <1>t, <2>1, DefaultFields
    DEF Inv1, Defaulted, TypeOK, RecStart, Goto, Actor, Window
  <2> QED  BY <2>2, <2>3, <2>4
<1>2. CASE RecEnforceFab
  <2>1. CASE Fail("rec")  BY <2>1, Inv1Fail DEF Actor
  <2>2. CASE /\ SameSpec(cache.obj, f["rec"])
             /\ Goto("rec", "attempt")
             /\ UNCHANGED <<fab, cache, cur, ctrl, f>>
    <3>1. LatestCopies'  BY <1>t, <1>2, <2>2 DEF Inv1, LatestCopies, TypeOK, Goto, Actor, RecEnforceFab
    <3>2. Pending'  BY <1>t, <2>2 DEF Inv1, Pending, TypeOK, Goto, Actor
    <3>3. Defaulted'
      BY <1>t, <1>2, <2>2
      DEF Inv1, Defaulted, LatestCopies, SameSpec, TypeOK, Goto, Actor, Window, RecEnforceFab
    <3> QED  BY <3>1, <3>2, <3>3
  <2>3. CASE /\ Stale("nobody")
             /\ fab' = WithSpec(fab, f["rec"])
             /\ Goto("rec", "attempt")
             /\ UNCHANGED <<ctrl, f>>
    <3>1. LatestCopies'  BY <1>t, <2>3 DEF LatestCopies, Stale, TypeOK, Actor
    <3>2. Pending'  BY <1>t, <2>3 DEF Inv1, Pending, TypeOK, Goto, Actor
    <3>3. Defaulted'
      BY <1>t, <1>2, <2>3 DEF Inv1, Defaulted, Stale, TypeOK, Goto, Actor, Window, RecEnforceFab
    <3> QED  BY <3>1, <3>2, <3>3
  <2> QED  BY <1>2, <2>1, <2>2, <2>3 DEF RecEnforceFab
<1>3. CASE RecAttempt
  <2>1. CASE Fail("rec")  BY <2>1, Inv1Fail DEF Actor
  <2>2. CASE /\ cur["rec"]
             /\ fab' = WithStatus(fab, ApplyPending(f["rec"]))
             /\ f' = [f EXCEPT !["rec"] = CalculateVersions(fab', ctrl)]
             /\ Stale("rec")
             /\ Goto("rec", "enforce")
             /\ UNCHANGED ctrl
    <3>1. f["rec"] \in Fabricator /\ ctrl \in Ver /\ fab \in Fabricator
      BY <1>t DEF TypeOK, Actor
    <3>2. /\ ApplyPending(f["rec"]) \in Fabricator
          /\ fab' \in Fabricator
      BY <1>0, <3>1, OpsType DEF TypeOK
    <3>3. /\ f'["rec"].versions = ctrl /\ f'["rec"].cfg = fab'.cfg
          /\ f'["rec"].applied = fab'.applied /\ f'["rec"].defs = fab'.defs
          /\ f'["rec"].genApplied = fab'.genApplied
          /\ f'["rec"].ready = fab'.ready /\ f'["rec"].gwReady = fab'.gwReady
      BY <1>t, <2>2, <3>1, <3>2, VersionFields DEF TypeOK, Actor
    <3>4. ~fab'.applied /\ ~fab'.ready /\ ~fab'.gwReady /\ fab'.defs = fab.defs
      BY <2>2, <3>1, <3>2, PendingFields, WithStatusFields
    <3>5. pc'["rec"] = "enforce"  BY <1>t, <2>2 DEF TypeOK, Goto, Actor
    <3>6. LatestCopies'  BY <1>t, <2>2, <3>3, <3>5 DEF LatestCopies, Stale, TypeOK, Actor
    <3>7. Pending'  BY <2>2, <3>3, <3>4 DEF Pending
    <3>8. Defaulted'
      BY <1>3, <2>2, <3>3, <3>4, <3>5 DEF Inv1, Defaulted, RecAttempt, Window
    <3> QED  BY <3>6, <3>7, <3>8
  <2> QED  BY <1>3, <2>1, <2>2 DEF RecAttempt
<1>4. CASE RecEnforce
  <2>1. CASE Fail("rec")  BY <2>1, Inv1Fail DEF Actor
  <2>2. CASE NextComp("rec", "applied") /\ UNCHANGED <<fab, cache, cur, ctrl, f>>
    <3>1. pc'["rec"] \in {"enforce", "applied"} /\ pc'["wat"] = pc["wat"]
      BY <1>t, <1>4, <2>2 DEF TypeOK, RecEnforce, NextComp, Actor
    <3>2. LatestCopies'
      BY <1>4, <2>2, <3>1 DEF Inv1, LatestCopies, RecEnforce, Actor
    <3>3. Pending'  BY <1>4, <2>2 DEF Inv1, Pending, RecEnforce
    <3>4. Defaulted'  BY <1>4, <2>2, <3>1 DEF Inv1, Defaulted, RecEnforce, Window
    <3> QED  BY <3>2, <3>3, <3>4
  <2> QED  BY <1>4, <2>1, <2>2 DEF RecEnforce
<1>5. CASE RecApplied
  <2>1. CASE Fail("rec")  BY <2>1, Inv1Fail DEF Actor
  <2>2. CASE /\ f' = [f EXCEPT !["rec"] = fab']
             /\ Stale("rec")
             /\ Goto("rec", "check")
    <3>1. f'["rec"] = fab' /\ pc'["rec"] = "check"
      BY <1>t, <2>2 DEF TypeOK, Goto, Actor
    <3>2. LatestCopies'  BY <1>t, <2>2, <3>1 DEF LatestCopies, Stale, TypeOK, Actor
    <3>3. Pending' /\ Defaulted'  BY <3>1 DEF Pending, Defaulted, Window
    <3> QED  BY <3>2, <3>3
  <2> QED  BY <1>5, <2>1, <2>2 DEF RecApplied
<1>6. CASE WatTick
  <2>1. LatestCopies'
    BY <1>t, <1>6 DEF Inv1, LatestCopies, TypeOK, WatTick, Goto, Actor
  <2>2. Pending'  BY <1>t, <1>6 DEF Inv1, Pending, TypeOK, WatTick, Goto, Actor
  <2>3. Defaulted'
    BY <1>t, <1>6 DEF Inv1, Defaulted, TypeOK, WatTick, Goto, Actor, Window
  <2> QED  BY <2>1, <2>2, <2>3
<1>7. ASSUME NEW a \in Actor, StatusSkip(a) PROVE LatestCopies' /\ Pending' /\ Defaulted'
  <2>1. LatestCopies'
    BY <1>t, <1>7 DEF Inv1, LatestCopies, TypeOK, StatusSkip, Return
  <2>2. Pending'  BY <1>t, <1>7 DEF Inv1, Pending, TypeOK, StatusSkip, Return, Actor
  <2>3. Defaulted'
    BY <1>t, <1>7 DEF Inv1, Defaulted, TypeOK, StatusSkip, Return, Actor, Window
  <2> QED  BY <2>1, <2>2, <2>3
<1>8. ASSUME NEW a \in Actor, StatusLock(a) PROVE LatestCopies' /\ Pending' /\ Defaulted'
  <2>1. LatestCopies'
    BY <1>t, <1>8 DEF Inv1, LatestCopies, TypeOK, StatusLock, Goto
  <2>2. Pending'  BY <1>t, <1>8 DEF Inv1, Pending, TypeOK, StatusLock, Goto, Actor
  <2>3. Defaulted'
    BY <1>t, <1>8 DEF Inv1, Defaulted, TypeOK, StatusLock, Goto, Actor, Window
  <2> QED  BY <2>1, <2>2, <2>3
<1>9. ASSUME NEW a \in Actor, StatusRead(a) PROVE LatestCopies' /\ Pending' /\ Defaulted'
  <2>1. LatestCopies'
    BY <1>t, <1>9 DEF Inv1, LatestCopies, TypeOK, StatusRead, NextComp
  <2>2. Pending'  BY <1>t, <1>9 DEF Inv1, Pending, TypeOK, StatusRead, NextComp, Actor
  <2>3. Defaulted'
    BY <1>t, <1>9 DEF Inv1, Defaulted, TypeOK, StatusRead, NextComp, Actor, Window
  <2> QED  BY <2>1, <2>2, <2>3
<1>10. ASSUME NEW a \in Actor, StatusWrite(a) PROVE LatestCopies' /\ Pending' /\ Defaulted'
  <2>1. CASE Fail(a)  BY <2>1, Inv1Fail
  <2>2. CASE /\ cur[a]
             /\ fab' = WithStatus(fab, ChecksDone(f[a], ok[a]))
             /\ Stale("nobody")
             /\ Return(a)
             /\ UNCHANGED ctrl
    <3>1. fab \in Fabricator /\ f[a] \in Fabricator
          /\ ok[a] \in [ready : BOOLEAN, gw : BOOLEAN]
      BY <1>t DEF TypeOK
    <3>2. fab'.applied = fab.applied
      <4>1. ChecksDone(f[a], ok[a]) \in Fabricator  BY <3>1, OpsType
      <4>2. fab'.applied = f[a].applied
        BY <2>2, <3>1, <4>1, WithStatusFields, ChecksDoneFields
      <4> QED  BY <2>2, <4>2 DEF Inv1, LatestCopies
    <3>3. LatestCopies'  BY <1>t, <2>2 DEF LatestCopies, Stale, Actor, TypeOK
    <3>4. Pending'  BY <1>t, <2>2, <3>2 DEF Inv1, Pending, TypeOK, Return, Actor
    <3>5. Defaulted'
      BY <1>t, <1>10, <2>2
      DEF Inv1, Defaulted, TypeOK, StatusWrite, Stale, Return, Actor, Window
    <3> QED  BY <3>3, <3>4, <3>5
  <2> QED  BY <1>10, <2>1, <2>2 DEF StatusWrite
<1>11. ASSUME NEW a \in Actor, ApiError(a) PROVE LatestCopies' /\ Pending' /\ Defaulted'
  BY <1>11, Inv1Fail DEF ApiError
<1>12. CASE CacheSync
  BY <1>12 DEF Inv1, LatestCopies, Pending, Defaulted, CacheSync
<1>13. ASSUME UNCHANGED <<fab, cache, ctrl, pc, f, cur>>
       PROVE  LatestCopies' /\ Pending' /\ Defaulted'
  BY <1>13 DEF Inv1, LatestCopies, Pending, Defaulted
<1>14. ASSUME NEW c \in Cfg, UserEdit(c) PROVE LatestCopies' /\ Pending' /\ Defaulted'
  <2>1. [fab EXCEPT !.cfg = c] \in Fabricator  BY <1>t, <1>14 DEF TypeOK, Fabricator
  <2>2. fab'.applied = fab.applied
    BY <1>t, <1>14, <2>1, OpsType, WithSpecFields DEF TypeOK, UserEdit
  <2>3. LatestCopies'  BY <1>t, <1>14 DEF LatestCopies, UserEdit, Stale, Actor, TypeOK
  <2>4. Pending'  BY <1>14, <2>2 DEF Inv1, Pending, UserEdit
  <2>5. Defaulted'  BY <1>14 DEF Inv1, Defaulted, UserEdit, Stale, Actor
  <2> QED  BY <2>3, <2>4, <2>5
<1>15. ASSUME Gone, cache'.cur => cache'.obj = fab'
       PROVE  LatestCopies' /\ Pending' /\ Defaulted'
  BY <1>15 DEF Gone, LatestCopies, Pending, Defaulted, Actor, Window
<1>16. CASE CtrlCrash
  BY <1>15, <1>16 DEF Inv1, LatestCopies, CtrlCrash
<1>17. CASE CtrlLead
  BY <1>15, <1>17 DEF CtrlLead
<1> QED
  BY <1>1, <1>2, <1>3, <1>4, <1>5, <1>6, <1>7, <1>8, <1>9, <1>10, <1>11,
     <1>12, <1>13, <1>14, <1>16, <1>17
  DEF Next, Reconcile, StatusCheck, Rollout, HelmRoll, RollObserved,
      PodsUpdated, ChartSync, Upgrade, vars

\* Whatever is rendered carries the defaults of the release rendering it.
THEOREM DefaultsFirst == Spec => []EnforceUsesDefaults
<1>1. Inv1 /\ [Next]_vars => Inv1'  BY Inv1Step
<1>2. Inv1 => EnforceUsesDefaults
  BY DEF Inv1, Defaulted, EnforceUsesDefaults, Window
<1> QED  BY <1>1, <1>2, Inv1Init, PTL DEF Spec

\* The enforced objects only change under a Fabricator that says it is not
\* applied, for any lag of the informers.
THEOREM Announced == Spec => ChangesAreAnnounced
<1>1. Inv1 /\ [Next]_vars => Inv1'  BY Inv1Step
<1>2. Inv1 /\ [Next]_vars =>
        [\A c \in Comp \ {N} : chart'[c] # chart[c] => ~fab.applied]_vars
  <2> SUFFICES ASSUME Inv1, [Next]_vars, NEW c \in Comp \ {N}, chart'[c] # chart[c]
               PROVE  ~fab.applied
    OBVIOUS
  <2>1. ~UNCHANGED chart  OBVIOUS
  <2>2. ~Upgrade  BY DEF Upgrade, Inv1, TypeOK
  <2>3. RecEnforce
    BY <2>1, <2>2
    DEF Next, Reconcile, StatusCheck, Rollout, vars, RecStart, RecEnforceFab,
        RecAttempt, RecApplied, Fail, WatTick, StatusSkip, StatusLock,
        StatusRead, StatusWrite, ApiError, CacheSync, ChartSync, UserEdit,
        HelmRoll, RollObserved, PodsUpdated, CtrlCrash, CtrlLead
  <2> QED  BY <2>3 DEF Inv1, Pending, RecEnforce
<1> QED  BY <1>1, <1>2, Inv1Init, PTL DEF Spec, ChangesAreAnnounced

-----------------------------------------------------------------------------
(* The second layer: what the conditions say of the enforced objects.      *)

\* What is rendered depends on the configuration and the versions only.
LEMMA RenderSame ==
  ASSUME NEW o, NEW p, o.cfg = p.cfg, o.versions = p.versions, NEW c
  PROVE  Render(c, o) = Render(c, p) /\ Wanted(c, o) = Wanted(c, p)
  BY DEF Render, Wanted

\* The second layer holds initially.
LEMMA Inv2Init == Init => Inv2
<1> SUFFICES ASSUME Init PROVE Inv2  OBVIOUS
<1>1. ~fab.applied /\ \A a \in Actor : pc[a] = "idle"  BY DEF Init, NewFab
<1>2. Synced  BY DEF Init, Synced
<1> QED
  BY <1>1, <1>2
  DEF Inv2, EnforcedSoFar, AppliedMeansEnforced, AppliedRelease, CheckedSoFar,
      CheckedBy, ReadyMeansRolledOut, GatewayReadyMeansRolledOut, Actor

\* Steps that leave the Fabricator, the objects and the workloads alone and
\* take no handler on to a later component.
LEMMA Inv2Quiet ==
  ASSUME Inv1, Inv2, UNCHANGED <<fab, chart, work>>, Synced',
         \A a \in Actor :
            \/ /\ pc'[a] = pc[a] /\ f'[a] = f[a] /\ idx'[a] = idx[a]
               /\ ok'[a] = ok[a] /\ cur'[a] = cur[a]
            \/ pc'[a] \in {"idle", "check", "enforceFab", "attempt"}
            \/ pc'[a] = "read" /\ idx'[a] = 1
  PROVE  Inv2'
<1> USE DEF Inv2
<1>1. EnforcedSoFar'  BY DEF EnforcedSoFar, Passed, Actor, Render, Wanted
<1>2. AppliedMeansEnforced' /\ AppliedRelease'
  BY DEF AppliedMeansEnforced, AppliedRelease, Render, Wanted
<1>3. CheckedSoFar'
  <2> SUFFICES ASSUME NEW a \in Actor PROVE CheckedBy(a)'  BY DEF CheckedSoFar
  <2>1. CheckedBy(a)  BY DEF CheckedSoFar
  <2>2. CASE /\ pc'[a] = pc[a] /\ idx'[a] = idx[a]
             /\ ok'[a] = ok[a] /\ cur'[a] = cur[a]
    BY <2>1, <2>2 DEF CheckedBy, Passed
  <2>3. CASE pc'[a] \in {"idle", "check", "enforceFab", "attempt"}
    BY <2>3 DEF CheckedBy
  <2>4. CASE pc'[a] = "read" /\ idx'[a] = 1
    <3>1. \A c \in Comp : ~(c < 1)  BY DEF Comp
    <3>2. \A c \in Comp : ~Passed(a, c)'  BY <2>4, <3>1 DEF Passed
    <3>3. Required \subseteq Comp /\ Gw \subseteq Comp  BY DEF Required, Comp
    <3> QED  BY <3>2, <3>3 DEF CheckedBy
  <2> QED  BY <2>2, <2>3, <2>4
<1>4. ReadyMeansRolledOut' /\ GatewayReadyMeansRolledOut'
  BY DEF ReadyMeansRolledOut, GatewayReadyMeansRolledOut
<1> QED  BY <1>1, <1>2, <1>3, <1>4

\* A new generation of the spec: no copy is the latest any more, and what
\* remains promised is about the status only.
LEMMA Inv2NewSpec ==
  ASSUME Inv1, Inv2, UNCHANGED <<chart, seen, work, f, idx>>,
         fab'.applied = fab.applied, fab'.ready = fab.ready,
         fab'.versions = fab.versions, ~fab'.genApplied,
         \A a \in Actor : ~cur'[a],
         pc'["rec"] \in {pc["rec"], "attempt"}
  PROVE  Inv2'
<1> USE DEF Inv2
<1>1. Synced'  BY DEF Synced
<1>2. EnforcedSoFar'  BY DEF EnforcedSoFar, Passed, Actor, Render, Wanted
<1>3. AppliedMeansEnforced' /\ AppliedRelease'
  BY DEF AppliedMeansEnforced, AppliedRelease
<1>4. CheckedSoFar'  BY DEF CheckedSoFar, CheckedBy
<1>5. ReadyMeansRolledOut' /\ GatewayReadyMeansRolledOut'
  BY DEF ReadyMeansRolledOut, GatewayReadyMeansRolledOut
<1> QED  BY <1>1, <1>2, <1>3, <1>4, <1>5

\* While the Fabricator says it is not applied, only the informer and the
\* progress of the enforcing matter.
LEMMA Inv2Unapplied ==
  ASSUME ~fab'.applied, Synced', EnforcedSoFar'
  PROVE  Inv2'
  BY DEF Inv2, AppliedMeansEnforced, AppliedRelease, CheckedSoFar, CheckedBy,
         ReadyMeansRolledOut, GatewayReadyMeansRolledOut

\* A handler that returns makes no claim.
LEMMA Inv2Fail ==
  ASSUME Inv1, Inv2, NEW a \in Actor, Fail(a)
  PROVE  Inv2'
<1>1. Synced'  BY DEF Inv2, Synced, Fail
<1>2. \A b \in Actor :
         \/ /\ pc'[b] = pc[b] /\ f'[b] = f[b] /\ idx'[b] = idx[b]
            /\ ok'[b] = ok[b] /\ cur'[b] = cur[b]
         \/ pc'[b] = "idle"
  BY DEF Inv1, TypeOK, Fail, Return
<1> QED  BY <1>1, <1>2, Inv2Quiet DEF Fail

\* Enforcing one component.
LEMMA Inv2Enforce ==
  ASSUME Inv1, Inv2, ~ChartLag, RecEnforce, ~Fail("rec")
  PROVE  Inv2'
<1> DEFINE c == idx["rec"]
           want == Render(c, f["rec"])
<1>t. TypeOK  BY DEF Inv1
<1>1. c \in Comp  BY <1>t DEF Inv1, AtComponent, TypeOK, RecEnforce, Actor, Comp
<1>2. ~fab'.applied /\ UNCHANGED <<f, fab>>  BY DEF Inv1, Pending, RecEnforce
<1>3. \/ UNCHANGED <<chart, seen>> /\ (Wanted(c, f["rec"]) => chart[c] = want)
      \/ /\ chart' = [chart EXCEPT ![c] = want]
         /\ seen' = [seen EXCEPT ![c] = [val |-> want, cur |-> TRUE]]
  <2>1. seen[c].val = chart[c]
    <3>1. \A d \in Comp : seen[d] = [val |-> chart[d], cur |-> TRUE]
      BY DEF Inv2, Synced
    <3>2. seen[c] = [val |-> chart[c], cur |-> TRUE]  BY <1>1, <3>1
    <3> QED  BY <3>2
  <2>2. seen[c] \in [val : Chart, cur : BOOLEAN]  BY <1>t, <1>1 DEF TypeOK
  <2> QED  BY <2>1, <2>2 DEF RecEnforce, UpToDate
<1>4. Synced'
  <2>1. CASE UNCHANGED <<chart, seen>>  BY <2>1 DEF Inv2, Synced
  <2>2. CASE /\ chart' = [chart EXCEPT ![c] = want]
             /\ seen' = [seen EXCEPT ![c] = [val |-> want, cur |-> TRUE]]
    <3> SUFFICES ASSUME NEW d \in Comp
                 PROVE  seen'[d] = [val |-> chart'[d], cur |-> TRUE]
      BY DEF Synced
    <3>1. seen[d] = [val |-> chart[d], cur |-> TRUE]  BY DEF Inv2, Synced
    <3>2. CASE d = c  BY <1>t, <2>2, <3>2 DEF TypeOK
    <3>3. CASE d # c  BY <1>t, <2>2, <3>1, <3>3 DEF TypeOK
    <3> QED  BY <3>2, <3>3
  <2> QED  BY <1>3, <2>1, <2>2
<1>5. /\ Wanted(c, f["rec"]) => chart'[c] = want
      /\ \A d \in Comp : d # c => chart'[d] = chart[d]
  BY <1>t, <1>1, <1>3 DEF TypeOK
<1>6. \/ c = N /\ pc'["rec"] = "applied"
      \/ pc'["rec"] = "enforce" /\ idx'["rec"] = c + 1
  BY <1>t DEF RecEnforce, NextComp, TypeOK, Actor
<1>7. \A d \in Comp \ {N} : Passed("rec", d)' => d = c \/ d < c
  BY <1>1, <1>6 DEF Passed, Comp
<1>8. EnforcedSoFar'
  <2> SUFFICES ASSUME NEW d \in Comp \ {N}, Passed("rec", d)', Wanted(d, f["rec"])
               PROVE  chart'[d] = Render(d, f["rec"])
    BY <1>2 DEF EnforcedSoFar, Wanted, Render
  <2>1. CASE d = c  BY <1>5, <2>1
  <2>2. CASE d < c
    <3>1. chart[d] = Render(d, f["rec"])
      BY <2>2 DEF Inv2, EnforcedSoFar, RecEnforce, Passed
    <3>2. d # c  BY <2>2, <1>1 DEF Comp
    <3> QED  BY <1>5, <3>1, <3>2
  <2> QED  BY <1>7, <2>1, <2>2
<1> QED  BY <1>2, <1>4, <1>8, Inv2Unapplied

\* The conditions after the last status write of a reconcile.
LEMMA Inv2Applied ==
  ASSUME Inv1, Inv1', Inv2, RecApplied, ~Fail("rec")
  PROVE  Inv2'
<1> DEFINE o == f["rec"]
           s == ApplySucceeded(o, ctrl)
<1>1. /\ cur["rec"] /\ pc["rec"] = "applied"
      /\ fab' = WithStatus(fab, s)
      /\ pc'["rec"] = "check" /\ pc'["wat"] = pc["wat"]
      /\ ~cur'["wat"]
      /\ UNCHANGED <<chart, seen, work>>
  BY DEF RecApplied, Goto, Stale, Inv1, TypeOK, Actor
<1>2. o \in Fabricator /\ ctrl \in Ver /\ fab \in Fabricator
  BY DEF Inv1, TypeOK, Actor
<1>3. s \in Fabricator  BY <1>2, OpsType
<1>4. /\ fab'.cfg = fab.cfg /\ fab'.versions = o.versions
      /\ fab'.ready = o.ready /\ fab'.gwReady = o.gwReady
  <2>1. /\ fab'.cfg = fab.cfg /\ fab'.versions = s.versions
        /\ fab'.ready = s.ready /\ fab'.gwReady = s.gwReady
    <3> HIDE DEF s
    <3> QED  BY <1>1, <1>2, <1>3, WithStatusFields
  <2>2. s.versions = o.versions /\ s.ready = o.ready /\ s.gwReady = o.gwReady
    BY <1>2, SucceededFields
  <2> QED  BY <2>1, <2>2
<1>5. o.cfg = fab.cfg /\ ~o.ready /\ ~o.gwReady
  BY <1>1 DEF Inv1, LatestCopies, Pending, Actor
<1>6. \A c \in Comp \ {N} : Wanted(c, fab') => chart'[c] = Render(c, fab')
  <2> SUFFICES ASSUME NEW c \in Comp \ {N}, Wanted(c, fab')
               PROVE  chart[c] = Render(c, fab')
    BY <1>1
  <2>1. Wanted(c, o) /\ Render(c, o) = Render(c, fab')
    BY <1>4, <1>5 DEF Render, Wanted
  <2> QED  BY <1>1, <2>1 DEF Inv2, EnforcedSoFar, Passed
<1>7. AppliedMeansEnforced'  BY <1>6 DEF AppliedMeansEnforced
<1>8. AppliedRelease'
  <2> SUFFICES ASSUME NEW c \in Required PROVE chart'[c].ver = fab'.versions
    BY DEF AppliedRelease
  <2>1. c \in Comp \ {N} /\ Wanted(c, fab')  BY DEF Required, Wanted
  <2>2. chart'[c] = Render(c, fab')  BY <1>6, <2>1
  <2> QED  BY <2>2 DEF Render
<1>9. CheckedSoFar'  BY <1>1 DEF CheckedSoFar, CheckedBy, Actor
<1>10. ReadyMeansRolledOut' /\ GatewayReadyMeansRolledOut'
  BY <1>4, <1>5 DEF ReadyMeansRolledOut, GatewayReadyMeansRolledOut
<1>11. Synced' /\ EnforcedSoFar'
  BY <1>1 DEF Inv2, Synced, EnforcedSoFar
<1> QED  BY <1>7, <1>8, <1>9, <1>10, <1>11 DEF Inv2

\* One component's status.
LEMMA Inv2Read ==
  ASSUME Inv1, Inv2, NEW a \in Actor, StatusRead(a)
  PROVE  Inv2'
<1> DEFINE c == idx[a]
<1>t. TypeOK  BY DEF Inv1
<1>1. c \in Comp  BY <1>t DEF Inv1, AtComponent, TypeOK, StatusRead, Comp
<1>2. UNCHANGED <<fab, f, cur, chart, seen, work>> /\ pc[a] = "read"
  BY DEF StatusRead
<1>3. \/ c = N /\ pc'[a] = "write"
      \/ pc'[a] = "read" /\ idx'[a] = c + 1
  BY <1>t DEF StatusRead, NextComp, TypeOK
<1>4. \A b \in Actor : b # a => pc'[b] = pc[b] /\ idx'[b] = idx[b] /\ ok'[b] = ok[b]
  BY <1>t DEF StatusRead, NextComp, TypeOK
<1>5. /\ ok'[a].ready => ok[a].ready /\ CountsReady(c, f[a])
      /\ ok'[a].gw => ok[a].gw /\ CountsGateway(c, f[a])
  BY <1>t DEF StatusRead, TypeOK
<1>6. \A d \in Comp \ {N} : Passed(a, d)' => d = c \/ Passed(a, d)
  BY <1>1, <1>3 DEF Passed, Comp
<1>7. cur[a] => f[a].versions = fab.versions /\ f[a].cfg = fab.cfg
  BY <1>2 DEF Inv1, LatestCopies
<1>8. CheckedBy(a)'
  <2> SUFFICES ASSUME cur[a], fab.applied
               PROVE  /\ ok'[a].ready => \A d \in Required :
                            Passed(a, d)' => work[d].of.ver = fab.versions
                      /\ ok'[a].gw /\ fab.genApplied /\ fab.cfg \in GwCfgs =>
                            \A d \in Gw \cap GwNeeds :
                                Passed(a, d)' => work[d].of.ver = fab.versions
    BY <1>2 DEF CheckedBy
  <2>1. CheckedBy(a)  BY DEF Inv2, CheckedSoFar
  <2>2. ASSUME ok'[a].ready, NEW d \in Required, Passed(a, d)'
        PROVE  work[d].of.ver = fab.versions
    <3>1. d \in Comp \ {N} /\ d \notin Gw  BY DEF Required
    <3>2. CASE d = c
      BY <1>5, <1>7, <2>2, <3>1, <3>2 DEF CountsReady, StatusReady
    <3>3. CASE Passed(a, d)  BY <1>2, <1>5, <2>1, <2>2, <3>3 DEF CheckedBy
    <3> QED  BY <1>6, <2>2, <3>1, <3>2, <3>3
  <2>3. ASSUME ok'[a].gw, fab.genApplied, fab.cfg \in GwCfgs,
               NEW d \in Gw \cap GwNeeds, Passed(a, d)'
        PROVE  work[d].of.ver = fab.versions
    <3>1. d \in Comp \ {N}  BY DEF Comp
    <3>2. CASE d = c
      BY <1>5, <1>7, <2>3, <3>2 DEF CountsGateway, StatusReady
    <3>3. CASE Passed(a, d)  BY <1>2, <1>5, <2>1, <2>3, <3>3 DEF CheckedBy
    <3> QED  BY <1>6, <2>3, <3>1, <3>2, <3>3
  <2> QED  BY <2>2, <2>3
<1>9. CheckedSoFar'
  <2> SUFFICES ASSUME NEW b \in Actor, b # a PROVE CheckedBy(b)'
    BY <1>8 DEF CheckedSoFar
  <2>1. CheckedBy(b)  BY DEF Inv2, CheckedSoFar
  <2> QED  BY <1>2, <1>4, <2>1 DEF CheckedBy, Passed
<1>10. Synced' /\ AppliedRelease'
  BY <1>2 DEF Inv2, Synced, AppliedRelease
<1>11. AppliedMeansEnforced'
  BY <1>2 DEF Inv2, AppliedMeansEnforced, Render, Wanted
<1>12. ReadyMeansRolledOut' /\ GatewayReadyMeansRolledOut'
  BY <1>2 DEF Inv2, ReadyMeansRolledOut, GatewayReadyMeansRolledOut
<1>13. EnforcedSoFar'
  BY <1>2, <1>3, <1>4 DEF Inv2, EnforcedSoFar, Passed, Actor, Render, Wanted
<1> QED  BY <1>9, <1>10, <1>11, <1>12, <1>13 DEF Inv2

\* The result of a status check.
LEMMA Inv2Write ==
  ASSUME Inv1, Inv2, NEW a \in Actor, StatusWrite(a), ~Fail(a)
  PROVE  Inv2'
<1> DEFINE s == ChecksDone(f[a], ok[a])
<1>t. TypeOK  BY DEF Inv1
<1>1. /\ cur[a] /\ pc[a] = "write"
      /\ fab' = WithStatus(fab, s)
      /\ \A b \in Actor : ~cur'[b]
      /\ UNCHANGED <<chart, seen, work>>
  BY DEF StatusWrite, Stale, Actor
<1>2. \A b \in Actor : \/ pc'[b] = "idle"
                       \/ pc'[b] = pc[b] /\ idx'[b] = idx[b] /\ f'[b] = f[b]
  <2>1. Return(a) /\ UNCHANGED chart  BY DEF StatusWrite
  <2>2. pc'[a] = "idle"  BY <1>t, <2>1 DEF Return, TypeOK
  <2>3. ASSUME NEW b \in Actor, b # a
        PROVE  pc'[b] = pc[b] /\ idx'[b] = idx[b] /\ f'[b] = f[b]
    BY <1>t, <2>1, <2>3 DEF Return, TypeOK
  <2> QED  BY <2>2, <2>3
<1>3. /\ fab \in Fabricator /\ f[a] \in Fabricator
      /\ ok[a] \in [ready : BOOLEAN, gw : BOOLEAN]
  BY <1>t DEF TypeOK
<1>4. s \in Fabricator  BY <1>3, OpsType
<1>5. /\ fab'.cfg = fab.cfg /\ fab'.versions = f[a].versions
      /\ fab'.applied = f[a].applied /\ fab'.genApplied = f[a].genApplied
      /\ fab'.ready = ok[a].ready /\ fab'.gwReady = ok[a].gw
  BY <1>1, <1>3, <1>4, WithStatusFields, ChecksDoneFields
<1>6. /\ fab'.versions = fab.versions /\ fab'.applied = fab.applied
      /\ fab'.genApplied = fab.genApplied
  BY <1>1, <1>5 DEF Inv1, LatestCopies
<1>7. CheckedBy(a)  BY DEF Inv2, CheckedSoFar
<1>8. ReadyMeansRolledOut'
  BY <1>1, <1>5, <1>6, <1>7 DEF ReadyMeansRolledOut, CheckedBy, Passed, Required
<1>9. GatewayReadyMeansRolledOut'
  BY <1>1, <1>5, <1>6, <1>7 DEF GatewayReadyMeansRolledOut, CheckedBy, Passed
<1>10. AppliedMeansEnforced'
  BY <1>1, <1>5, <1>6 DEF Inv2, AppliedMeansEnforced, Render, Wanted
<1>11. AppliedRelease' /\ Synced'
  BY <1>1, <1>6 DEF Inv2, AppliedRelease, Synced
<1>12. CheckedSoFar'  BY <1>1 DEF CheckedSoFar, CheckedBy
<1>13. EnforcedSoFar'
  BY <1>1, <1>2 DEF Inv2, EnforcedSoFar, Passed, Actor, Render, Wanted
<1> QED  BY <1>8, <1>9, <1>10, <1>11, <1>12, <1>13 DEF Inv2

\* A workload that follows its object, or only changes its status, keeps the
\* release that was found there.
LEMMA Inv2Roll ==
  ASSUME Inv1, Inv2, NEW c \in Comp, Rollout(c)
  PROVE  Inv2'
<1>1. UNCHANGED <<fab, cache, pc, f, cur, idx, ok, chart, seen>>
  BY DEF Rollout, HelmRoll, RollObserved, PodsUpdated
<1>2. \A d \in Comp : work'[d].of = work[d].of \/ work'[d].of = chart[d]
  <2>1. work \in [Comp -> Workload]  BY DEF Inv1, TypeOK
  <2>2. PICK w : /\ work' = [work EXCEPT ![c] = w]
                 /\ w.of = work[c].of \/ w.of = chart[c]
    <3>1. work[c] \in Workload  BY <2>1
    <3>2. CASE HelmRoll(c)
      <4> DEFINE v == [work[c] EXCEPT !.of = chart[c], !.obs = FALSE]
      <4>1. v.of = chart[c]  BY <3>1 DEF Workload
      <4>2. work' = [work EXCEPT ![c] = v]  BY <3>2 DEF HelmRoll
      <4> QED  BY <4>1, <4>2
    <3>3. CASE RollObserved(c)
      <4> DEFINE v == [work[c] EXCEPT !.obs = TRUE, !.upd = FALSE]
      <4>1. v.of = work[c].of  BY <3>1 DEF Workload
      <4>2. work' = [work EXCEPT ![c] = v]  BY <3>3 DEF RollObserved
      <4> QED  BY <4>1, <4>2
    <3>4. CASE PodsUpdated(c)
      <4> DEFINE v == [work[c] EXCEPT !.upd = TRUE, !.run = work[c].of.ver]
      <4>1. v.of = work[c].of  BY <3>1 DEF Workload
      <4>2. work' = [work EXCEPT ![c] = v]  BY <3>4 DEF PodsUpdated
      <4> QED  BY <4>1, <4>2
    <3> QED  BY <3>2, <3>3, <3>4 DEF Rollout
  <2> QED  BY <2>1, <2>2
<1>3. ASSUME fab.applied, NEW d \in Required, work[d].of.ver = fab.versions
      PROVE  work'[d].of.ver = fab.versions
  BY <1>2, <1>3 DEF Inv2, AppliedRelease, Required
<1>4. ASSUME fab.applied, fab.genApplied, fab.cfg \in GwCfgs,
             NEW d \in Gw \cap GwNeeds, work[d].of.ver = fab.versions
      PROVE  work'[d].of.ver = fab.versions
  <2>1. d \in Comp \ {N} /\ Wanted(d, fab)  BY <1>4 DEF Wanted, Comp
  <2>2. chart[d].ver = fab.versions
    BY <1>4, <2>1 DEF Inv2, AppliedMeansEnforced, Render
  <2> QED  BY <1>2, <1>4, <2>1, <2>2
<1>5. CheckedSoFar'
  <2> SUFFICES ASSUME NEW a \in Actor PROVE CheckedBy(a)'  BY DEF CheckedSoFar
  <2>1. CheckedBy(a)  BY DEF Inv2, CheckedSoFar
  <2> QED  BY <1>1, <1>3, <1>4, <2>1 DEF CheckedBy, Passed
<1>6. ReadyMeansRolledOut'
  BY <1>1, <1>3 DEF Inv2, ReadyMeansRolledOut, Required
<1>7. GatewayReadyMeansRolledOut'
  BY <1>1, <1>4 DEF Inv2, GatewayReadyMeansRolledOut
<1>8. Synced' /\ AppliedRelease'  BY <1>1 DEF Inv2, Synced, AppliedRelease
<1>9. EnforcedSoFar' /\ AppliedMeansEnforced'
  BY <1>1 DEF Inv2, EnforcedSoFar, AppliedMeansEnforced, Passed, Render, Wanted
<1> QED  BY <1>5, <1>6, <1>7, <1>8, <1>9 DEF Inv2

\* The recipe's own change is of the one chart nothing is claimed about.
LEMMA Inv2Upgrade ==
  ASSUME Inv1, Inv2, ~ChartLag, Upgrade
  PROVE  Inv2'
<1>t. TypeOK  BY DEF Inv1
<1>0. N \in Comp  BY DEF Comp
<1>1. UNCHANGED <<fab, cache, pc, f, cur, idx, ok, work>>  BY DEF Upgrade
<1>2. \A d \in Comp : d # N => chart'[d] = chart[d] /\ seen'[d] = seen[d]
  BY <1>t DEF Upgrade, TypeOK
<1>3. seen'[N] = [val |-> chart'[N], cur |-> TRUE]
  <2>1. seen' = [seen EXCEPT ![N] = [val |-> chart'[N], cur |-> TRUE]]
    BY <1>t, <1>0 DEF Upgrade, TypeOK
  <2> QED  BY <1>t, <1>0, <2>1 DEF TypeOK
<1>4. Synced'
  <2> SUFFICES ASSUME NEW d \in Comp, d # N
               PROVE  seen'[d] = [val |-> chart'[d], cur |-> TRUE]
    BY <1>3 DEF Synced
  <2> QED  BY <1>2 DEF Inv2, Synced
<1>5. EnforcedSoFar' /\ AppliedMeansEnforced'
  BY <1>1, <1>2 DEF Inv2, EnforcedSoFar, AppliedMeansEnforced, Passed, Render, Wanted
<1>6. AppliedRelease'  BY <1>1, <1>2 DEF Inv2, AppliedRelease, Required
<1>7. CheckedSoFar'
  BY <1>1 DEF Inv2, CheckedSoFar, CheckedBy, Passed
<1>8. ReadyMeansRolledOut' /\ GatewayReadyMeansRolledOut'
  BY <1>1 DEF Inv2, ReadyMeansRolledOut, GatewayReadyMeansRolledOut
<1> QED  BY <1>4, <1>5, <1>6, <1>7, <1>8 DEF Inv2

\* Every step keeps the second layer when the informer does not lag.
LEMMA Inv2Step ==
  ASSUME ~ChartLag, Inv1, Inv1', Inv2, [Next]_vars
  PROVE  Inv2'
<1>t. TypeOK  BY DEF Inv1
<1>s. ASSUME UNCHANGED <<chart, seen>> PROVE Synced'
  BY <1>s DEF Inv2, Synced
<1>1. CASE RecStart
  <2>1. \A a \in Actor :
           \/ /\ pc'[a] = pc[a] /\ f'[a] = f[a] /\ idx'[a] = idx[a]
              /\ ok'[a] = ok[a] /\ cur'[a] = cur[a]
           \/ pc'[a] \in {"check", "enforceFab"}
    BY <1>t, <1>1 DEF RecStart, Goto, TypeOK
  <2> QED  BY <1>1, <1>s, <2>1, Inv2Quiet DEF RecStart
<1>2. CASE RecEnforceFab
  <2>1. CASE Fail("rec")  BY <2>1, Inv2Fail DEF Actor
  <2>2. CASE Goto("rec", "attempt")
             /\ UNCHANGED <<fab, cur, f, idx, ok, chart, seen, work>>
    <3>1. \A a \in Actor : pc'[a] = pc[a] \/ pc'[a] = "attempt"
      BY <1>t, <2>2 DEF Goto, TypeOK
    <3> QED  BY <1>s, <2>2, <3>1, Inv2Quiet
  <2>3. CASE /\ ~SameSpec(cache.obj, f["rec"]) /\ cache.cur
             /\ fab' = WithSpec(fab, f["rec"])
             /\ Stale("nobody")
             /\ Goto("rec", "attempt")
             /\ UNCHANGED <<f, idx, chart, seen, work>>
    <3>1. ~SameSpec(fab, f["rec"])  BY <2>3 DEF Inv1, LatestCopies
    <3>2. f["rec"] \in Fabricator /\ fab \in Fabricator  BY <1>t DEF TypeOK, Actor
    <3>3. /\ fab'.applied = fab.applied /\ fab'.ready = fab.ready
          /\ fab'.versions = fab.versions /\ ~fab'.genApplied
      BY <2>3, <3>1, <3>2, WithSpecFields
    <3>4. pc'["rec"] = "attempt" /\ \A a \in Actor : ~cur'[a]
      BY <1>t, <2>3 DEF TypeOK, Goto, Stale, Actor
    <3> QED  BY <2>3, <3>3, <3>4, Inv2NewSpec
  <2> QED  BY <1>2, <2>1, <2>2, <2>3 DEF RecEnforceFab
<1>3. CASE RecAttempt
  <2>1. CASE Fail("rec")  BY <2>1, Inv2Fail DEF Actor
  <2>2. CASE ~Fail("rec")
    <3>1. pc'["rec"] = "enforce" /\ idx'["rec"] = 1 /\ UNCHANGED <<chart, seen>>
      BY <1>t, <1>3, <2>2 DEF RecAttempt, Goto, TypeOK, Actor
    <3>2. ~fab'.applied  BY <3>1 DEF Inv1, Pending
    <3>3. \A c \in Comp : ~(c < 1)  BY DEF Comp
    <3>4. EnforcedSoFar'  BY <3>1, <3>3 DEF EnforcedSoFar, Passed
    <3> QED  BY <1>s, <3>1, <3>2, <3>4, Inv2Unapplied
  <2> QED  BY <2>1, <2>2
<1>4. CASE RecEnforce  BY <1>4, Inv2Fail, Inv2Enforce DEF Actor
<1>5. CASE RecApplied  BY <1>5, Inv2Fail, Inv2Applied DEF Actor
<1>6. CASE WatTick
  <2>1. \A a \in Actor :
           \/ /\ pc'[a] = pc[a] /\ f'[a] = f[a] /\ idx'[a] = idx[a]
              /\ ok'[a] = ok[a] /\ cur'[a] = cur[a]
           \/ pc'[a] = "check"
    BY <1>t, <1>6 DEF WatTick, Goto, TypeOK
  <2> QED  BY <1>6, <1>s, <2>1, Inv2Quiet DEF WatTick
<1>7. ASSUME NEW b \in Actor, StatusSkip(b) PROVE Inv2'
  <2>1. \A a \in Actor :
           \/ /\ pc'[a] = pc[a] /\ f'[a] = f[a] /\ idx'[a] = idx[a]
              /\ ok'[a] = ok[a] /\ cur'[a] = cur[a]
           \/ pc'[a] = "idle"
    BY <1>t, <1>7 DEF StatusSkip, Return, TypeOK
  <2> QED  BY <1>7, <1>s, <2>1, Inv2Quiet DEF StatusSkip
<1>8. ASSUME NEW b \in Actor, StatusLock(b) PROVE Inv2'
  <2>1. \A a \in Actor :
           \/ /\ pc'[a] = pc[a] /\ f'[a] = f[a] /\ idx'[a] = idx[a]
              /\ ok'[a] = ok[a] /\ cur'[a] = cur[a]
           \/ pc'[a] = "read" /\ idx'[a] = 1
    BY <1>t, <1>8 DEF StatusLock, Goto, TypeOK
  <2> QED  BY <1>8, <1>s, <2>1, Inv2Quiet DEF StatusLock
<1>9. ASSUME NEW a \in Actor, StatusRead(a) PROVE Inv2'  BY <1>9, Inv2Read
<1>10. ASSUME NEW a \in Actor, StatusWrite(a) PROVE Inv2'
  BY <1>10, Inv2Fail, Inv2Write
<1>11. ASSUME NEW a \in Actor, ApiError(a) PROVE Inv2'
  BY <1>11, Inv2Fail DEF ApiError
<1>12. ASSUME UNCHANGED <<fab, pc, f, cur, idx, ok, chart, seen, work>> PROVE Inv2'
  BY <1>12, <1>s, Inv2Quiet
<1>13. ASSUME NEW c \in Comp, ChartSync(c) PROVE Inv2'
  <2>1. seen[c] = [val |-> chart[c], cur |-> TRUE]  BY DEF Inv2, Synced
  <2> QED  BY <1>13, <2>1 DEF ChartSync
<1>14. ASSUME NEW c \in Comp, Rollout(c) PROVE Inv2'  BY <1>14, Inv2Roll
<1>15. ASSUME NEW c \in Cfg, UserEdit(c) PROVE Inv2'
  <2> DEFINE p == Default([fab EXCEPT !.cfg = c], ctrl)
  <2>1. fab \in Fabricator /\ ctrl \in Ver  BY <1>t DEF TypeOK
  <2>2. [fab EXCEPT !.cfg = c] \in Fabricator /\ [fab EXCEPT !.cfg = c].cfg = c
    BY <2>1 DEF Fabricator
  <2>3. p \in Fabricator /\ p.cfg = c  BY <2>1, <2>2, OpsType, DefaultFields
  <2>4. fab' = WithSpec(fab, p) /\ ~SameSpec(fab, p)
    BY <1>15, <2>3 DEF UserEdit, SameSpec
  <2> HIDE DEF p
  <2>5. /\ fab'.applied = fab.applied /\ fab'.ready = fab.ready
        /\ fab'.versions = fab.versions /\ ~fab'.genApplied
    BY <2>1, <2>3, <2>4, WithSpecFields
  <2>6. \A a \in Actor : ~cur'[a]  BY <1>15 DEF UserEdit, Stale, Actor
  <2>7. UNCHANGED <<chart, seen, work, f, idx, pc>>  BY <1>15 DEF UserEdit
  <2> QED  BY <2>5, <2>6, <2>7, Inv2NewSpec
<1>16. CASE Upgrade  BY <1>16, Inv2Upgrade
<1>17. ASSUME Gone, UNCHANGED <<fab, chart, work>>, Synced' PROVE Inv2'
  <2>1. \A a \in Actor : pc'[a] = "idle"  BY <1>17 DEF Gone
  <2> QED  BY <1>17, <2>1, Inv2Quiet
<1>18. CASE CtrlCrash  BY <1>s, <1>17, <1>18 DEF CtrlCrash
<1>19. CASE CtrlLead
  <2>1. Synced'  BY <1>19 DEF CtrlLead, Synced
  <2> QED  BY <1>17, <1>19, <2>1 DEF CtrlLead
<1>20. CASE CacheSync \/ UNCHANGED vars
  BY <1>12, <1>20 DEF CacheSync, vars
<1> QED
  BY <1>1, <1>2, <1>3, <1>4, <1>5, <1>6, <1>7, <1>8, <1>9, <1>10, <1>11,
     <1>13, <1>14, <1>15, <1>16, <1>18, <1>19, <1>20
  DEF Next, Reconcile, StatusCheck

\* The second layer is an invariant of the specification.
LEMMA Inv2Holds ==
  ASSUME ~ChartLag
  PROVE  Spec => []Inv2
<1>1. Inv1 /\ [Next]_vars => Inv1'  BY Inv1Step
<1>2. Inv1 /\ Inv1' /\ Inv2 /\ [Next]_vars => Inv2'  BY Inv2Step
<1> QED  BY <1>1, <1>2, Inv1Init, Inv2Init, PTL DEF Spec

\* "Config applied" is true of the generation it names, provided the informer
\* of the enforced objects never serves an old copy.
THEOREM Enforced ==
  ASSUME ~ChartLag
  PROVE  Spec => []AppliedMeansEnforced
<1>1. Inv2 => AppliedMeansEnforced  BY DEF Inv2
<1> QED  BY <1>1, Inv2Holds, PTL

\* An applied Fabricator is Ready only after the roll-outs of the required
\* components, under the same condition on the informer.
THEOREM ReadyRolledOut ==
  ASSUME ~ChartLag
  PROVE  Spec => []ReadyMeansRolledOut
<1>1. Inv2 => ReadyMeansRolledOut  BY DEF Inv2
<1> QED  BY <1>1, Inv2Holds, PTL

\* GatewayReady of an applied generation only comes after the roll-outs of
\* the gateway's components, under the same condition on the informer.
THEOREM GatewayRolledOut ==
  ASSUME ~ChartLag
  PROVE  Spec => []GatewayReadyMeansRolledOut
<1>1. Inv2 => GatewayReadyMeansRolledOut  BY DEF Inv2
<1> QED  BY <1>1, Inv2Holds, PTL
=============================================================================
