------------------------ MODULE FabRefinementProofs ------------------------
(***************************************************************************)
(* FabReconciler implements ConfigService, for every set of configurations *)
(* and components and every number of releases, edits and faults: the      *)
(* initial states map to initial states, and each action to Request,       *)
(* Withdraw, Make, Confirm or a step that an observer does not see.        *)
(***************************************************************************)
EXTENDS FabRefinement, FabReconcilerProofs

USE CfgAssumption, CompAssumption, BoundAssumption

\* A handler only runs in a controller that leads: what Reconcile renders is of
\* a release that exists.
Led == \A a \in Actor : pc[a] # "idle" => ctrl # 0

\* What an observer of the service sees is left as it is.
Unseen ==
    /\ UNCHANGED <<fab.cfg, fab.defs, fab.applied, fab.genApplied>>
    /\ \A o \in Comp \ {N} : chart'[o] = chart[o]

-----------------------------------------------------------------------------
\* Handlers start under a leader and end with it.
LEMMA LedStep ==
  ASSUME TypeOK, Led, [Next]_vars
  PROVE  Led'
<1> USE DEF Led
<1>1. ASSUME ctrl' = ctrl,
             \A a \in Actor : pc'[a] # "idle" => pc[a] # "idle" \/ ctrl # 0
      PROVE  Led'
  BY <1>1
<1>2. ASSUME NEW b \in Actor, ctrl' = ctrl, NEW l, Goto(b, l), ctrl # 0 PROVE Led'
  BY <1>2
<1>3. ASSUME NEW b \in Actor, Fail(b) PROVE Led'
  BY <1>3 DEF Fail, Return, TypeOK
<1>4. ASSUME NEW b \in Actor, NEW after, NextComp(b, after), pc[b] # "idle", ctrl' = ctrl
      PROVE  Led'
  BY <1>4 DEF NextComp, TypeOK
<1>5. CASE RecStart  BY <1>2, <1>5 DEF RecStart, Actor
<1>6. CASE RecEnforceFab  BY <1>2, <1>3, <1>6 DEF RecEnforceFab, Actor
<1>7. CASE RecAttempt  BY <1>2, <1>3, <1>7 DEF RecAttempt, Actor
<1>8. CASE RecEnforce  BY <1>3, <1>4, <1>8 DEF RecEnforce, Actor
<1>9. CASE RecApplied  BY <1>2, <1>3, <1>9 DEF RecApplied, Actor
<1>10. CASE WatTick  BY <1>2, <1>10 DEF WatTick, Actor
<1>11. ASSUME NEW b \in Actor, StatusCheck(b) PROVE Led'
  <2>1. CASE StatusSkip(b)  BY <2>1 DEF StatusSkip, Return, TypeOK
  <2>2. CASE StatusLock(b)  BY <1>2, <2>2 DEF StatusLock
  <2>3. CASE StatusRead(b)  BY <1>4, <2>3 DEF StatusRead
  <2>4. CASE StatusWrite(b)
    BY <1>3, <2>4 DEF StatusWrite, Return, TypeOK
  <2> QED  BY <1>11, <2>1, <2>2, <2>3, <2>4 DEF StatusCheck
<1>12. ASSUME NEW b \in Actor, ApiError(b) PROVE Led'  BY <1>3, <1>12 DEF ApiError
<1>13. CASE CacheSync \/ Upgrade \/ UNCHANGED vars  BY <1>13 DEF CacheSync, Upgrade, vars
<1>14. ASSUME NEW c \in Comp, ChartSync(c) \/ Rollout(c) PROVE Led'
  BY <1>14 DEF ChartSync, Rollout, HelmRoll, RollObserved, PodsUpdated
<1>15. ASSUME NEW c \in Cfg, UserEdit(c) PROVE Led'  BY <1>15 DEF UserEdit
<1>16. CASE CtrlCrash \/ CtrlLead  BY <1>16 DEF CtrlCrash, CtrlLead, Gone
<1> QED
  BY <1>5, <1>6, <1>7, <1>8, <1>9, <1>10, <1>11, <1>12, <1>13, <1>14, <1>15, <1>16
  DEF Next, Reconcile

\* A step that leaves the claim, the request and the objects is no step at all.
LEMMA Stutters ==
  ASSUME Unseen
  PROVE  UNCHANGED Service!service
<1>1. UNCHANGED [cfg |-> fab.cfg, defs |-> fab.defs]  BY DEF Unseen
<1>2. UNCHANGED Claim  BY DEF Unseen, Claim
<1>3. UNCHANGED [o \in Comp \ {N} |-> chart[o]]  BY DEF Unseen, Comp
<1> QED  BY <1>1, <1>2, <1>3 DEF Service!service

\* A new spec, whoever writes it, is a request.
LEMMA Requests ==
  ASSUME NEW p \in Fabricator, fab \in Fabricator, ~SameSpec(fab, p),
         fab' = WithSpec(fab, p), UNCHANGED chart
  PROVE  Service!Request
<1>1. fab'.cfg # fab.cfg \/ fab'.defs # fab.defs  BY WithSpecFields DEF SameSpec
<1>2. [cfg |-> fab'.cfg, defs |-> fab'.defs] # [cfg |-> fab.cfg, defs |-> fab.defs]
  BY <1>1
<1>3. fab'.applied = fab.applied /\ ~fab'.genApplied  BY WithSpecFields
<1>4. Claim' = IF Claim = "present" THEN "past" ELSE Claim  BY <1>3 DEF Claim
<1> QED  BY <1>2, <1>4 DEF Service!Request

\* Before the first component is enforced, the claim is withdrawn.
LEMMA Withdraws ==
  ASSUME TypeOK, RecAttempt, ~Fail("rec")
  PROVE  Service!Withdraw \/ UNCHANGED Service!service
<1>1. fab \in Fabricator /\ f["rec"] \in Fabricator  BY DEF TypeOK, Actor
<1>2. ApplyPending(f["rec"]) \in Fabricator  BY <1>1, OpsType
<1>3. fab' = WithStatus(fab, ApplyPending(f["rec"])) /\ UNCHANGED chart  BY DEF RecAttempt
<1>4. fab'.cfg = fab.cfg /\ fab'.defs = fab.defs /\ ~fab'.applied
  BY <1>1, <1>2, <1>3, WithStatusFields, PendingFields
<1>5. Claim' = "none"  BY <1>4 DEF Claim
<1>6. UNCHANGED [cfg |-> fab.cfg, defs |-> fab.defs]  BY <1>4
<1>7. UNCHANGED [o \in Comp \ {N} |-> chart[o]]  BY <1>3
<1> QED  BY <1>5, <1>6, <1>7 DEF Service!Withdraw, Service!service

\* An object is written only while nothing is claimed, from a configuration by an
\* existing release; fabricator's own chart is none of the service's objects.
LEMMA Makes ==
  ASSUME Inv1, Led, RecEnforce, ~Fail("rec")
  PROVE  (\E o \in Comp \ {N} : Service!Make(o)) \/ UNCHANGED Service!service
<1> DEFINE c == idx["rec"]
           want == Render(c, f["rec"])
<1>1. TypeOK /\ pc["rec"] = "enforce"  BY DEF Inv1, RecEnforce
<1>2. c \in Comp  BY <1>1 DEF Inv1, TypeOK, AtComponent, Actor, Comp
<1>3. ~fab.applied /\ f["rec"].versions = ctrl  BY <1>1 DEF Inv1, Pending
<1>4. ctrl \in 1..MaxVer  BY <1>1 DEF Led, TypeOK, Ver, Actor
<1>5. f["rec"] \in Fabricator /\ f["rec"].cfg \in Cfg  BY <1>1 DEF TypeOK, Fabricator, Actor
<1>6. UNCHANGED fab  BY DEF RecEnforce
<1>7. CASE UNCHANGED chart \/ c = N
  <2>1. \A o \in Comp \ {N} : chart'[o] = chart[o]  BY <1>1, <1>7 DEF RecEnforce, TypeOK
  <2> QED  BY <1>6, <2>1, Stutters DEF Unseen
<1>8. CASE c # N /\ chart' = [chart EXCEPT ![c] = want]
  <2>1. want = [cfg |-> f["rec"].cfg, ver |-> ctrl]  BY <1>3, <1>8 DEF Render
  <2>2. [o \in Comp \ {N} |-> chart[o]]'
          = [[o \in Comp \ {N} |-> chart[o]] EXCEPT ![c] = [cfg |-> f["rec"].cfg, ver |-> ctrl]]
    BY <1>1, <1>2, <1>8, <2>1 DEF TypeOK
  <2>3. Claim = "none" /\ UNCHANGED Claim  BY <1>3, <1>6 DEF Claim
  <2>4. PICK o \in Comp \ {N} : o = c  BY <1>2, <1>8
  <2>5. Service!Make(o)  BY <1>4, <1>5, <1>6, <2>2, <2>3, <2>4 DEF Service!Make
  <2> QED  BY <2>5
<1> QED  BY <1>7, <1>8 DEF RecEnforce

\* The claim is made when all objects its configuration needs are made from it
\* by one release.
LEMMA Confirms ==
  ASSUME Inv1, Inv2, Led, RecApplied, ~Fail("rec")
  PROVE  Service!Confirm
<1>1. TypeOK /\ pc["rec"] = "applied" /\ cur["rec"] /\ UNCHANGED chart
  BY DEF Inv1, RecApplied
<1>2. fab \in Fabricator /\ f["rec"] \in Fabricator /\ ctrl \in Ver  BY <1>1 DEF TypeOK, Actor
<1>3. ApplySucceeded(f["rec"], ctrl) \in Fabricator  BY <1>2, OpsType
<1>4. fab' = WithStatus(fab, ApplySucceeded(f["rec"], ctrl))  BY DEF RecApplied
<1>5. /\ fab'.cfg = fab.cfg /\ fab'.defs = fab.defs
      /\ fab'.applied /\ fab'.genApplied
  <2> DEFINE p == ApplySucceeded(f["rec"], ctrl)
  <2>1. p.applied /\ p.genApplied  BY <1>2, SucceededFields
  <2> HIDE DEF p
  <2> QED  BY <1>2, <1>3, <1>4, <2>1, WithStatusFields DEF p
<1>6. ~fab.applied /\ f["rec"].versions = ctrl  BY <1>1 DEF Inv1, Pending
<1>7. f["rec"].cfg = fab.cfg  BY <1>1 DEF Inv1, LatestCopies, Actor
<1>8. ctrl \in 1..MaxVer  BY <1>1, <1>2 DEF Led, Ver, Actor
<1>9. Claim = "none" /\ Claim' = "present"  BY <1>5, <1>6 DEF Claim
<1>10. \A o \in Comp \ {N} :
          o \notin Gw \/ fab.cfg \in GwCfgs => chart[o] = [cfg |-> fab.cfg, ver |-> ctrl]
  <2> SUFFICES ASSUME NEW o \in Comp \ {N}, o \notin Gw \/ fab.cfg \in GwCfgs
               PROVE  chart[o] = [cfg |-> fab.cfg, ver |-> ctrl]
    OBVIOUS
  <2>1. Passed("rec", o) /\ Wanted(o, f["rec"])  BY <1>1, <1>7 DEF Passed, Wanted
  <2>2. chart[o] = Render(o, f["rec"])  BY <1>1, <2>1 DEF Inv2, EnforcedSoFar
  <2> QED  BY <1>6, <1>7, <2>2 DEF Render
<1>11. fab.cfg \in Cfg  BY <1>2 DEF Fabricator
<1>12. Service!Fits(fab.cfg)  BY <1>8, <1>10, <1>11 DEF Service!Fits
<1>13. UNCHANGED [cfg |-> fab.cfg, defs |-> fab.defs]  BY <1>5
<1>14. UNCHANGED [o \in Comp \ {N} |-> chart[o]]  BY <1>1
<1> QED  BY <1>9, <1>12, <1>13, <1>14 DEF Service!Confirm

\* Every step of the controller and its surroundings is one of the service.
LEMMA ServiceStep ==
  ASSUME Inv1, Inv2, Led, [Next]_vars
  PROVE  [Service!Next]_(Service!service)
<1>t. TypeOK /\ fab \in Fabricator  BY DEF Inv1, TypeOK
<1>1. ASSUME UNCHANGED <<fab, chart>> PROVE UNCHANGED Service!service
  BY <1>1, Stutters DEF Unseen
<1>2. ASSUME NEW b \in Actor, Fail(b) PROVE UNCHANGED Service!service
  BY <1>1, <1>2 DEF Fail
<1>3. CASE RecEnforceFab
  <2>1. CASE UNCHANGED <<fab, chart>>  BY <1>1, <2>1
  <2>2. CASE /\ ~SameSpec(cache.obj, f["rec"]) /\ cache.cur
             /\ fab' = WithSpec(fab, f["rec"]) /\ UNCHANGED chart
    <3>1. ~SameSpec(fab, f["rec"]) /\ f["rec"] \in Fabricator
      BY <1>t, <2>2 DEF Inv1, LatestCopies, TypeOK, Actor
    <3> QED  BY <1>t, <2>2, <3>1, Requests DEF Service!Next
  <2> QED  BY <1>2, <1>3, <2>1, <2>2 DEF RecEnforceFab, Actor
<1>4. CASE RecAttempt  BY <1>t, <1>2, <1>4, Withdraws DEF Service!Next, Actor
<1>5. CASE RecEnforce  BY <1>2, <1>5, Makes DEF Service!Next, Actor
<1>6. CASE RecApplied  BY <1>2, <1>6, Confirms DEF Service!Next, Actor
<1>7. ASSUME NEW a \in Actor, StatusWrite(a) PROVE UNCHANGED Service!service
  <2>1. CASE Fail(a)  BY <1>2, <2>1
  <2>2. CASE cur[a] /\ fab' = WithStatus(fab, ChecksDone(f[a], ok[a])) /\ UNCHANGED chart
    <3>1. /\ f[a] \in Fabricator /\ ok[a] \in [ready : BOOLEAN, gw : BOOLEAN]
          /\ ChecksDone(f[a], ok[a]) \in Fabricator
      BY <1>t, OpsType DEF TypeOK
    <3>2. f[a].applied = fab.applied /\ f[a].genApplied = fab.genApplied
      BY <2>2 DEF Inv1, LatestCopies
    <3>3. /\ fab'.cfg = fab.cfg /\ fab'.defs = fab.defs
          /\ fab'.applied = fab.applied /\ fab'.genApplied = fab.genApplied
      BY <1>t, <2>2, <3>1, <3>2, WithStatusFields, ChecksDoneFields
    <3> QED  BY <2>2, <3>3, Stutters DEF Unseen
  <2> QED  BY <1>7, <2>1, <2>2 DEF StatusWrite
<1>8. ASSUME NEW a \in Actor, StatusSkip(a) \/ StatusLock(a) \/ StatusRead(a)
      PROVE  UNCHANGED Service!service
  BY <1>1, <1>8 DEF StatusSkip, StatusLock, StatusRead
<1>9. ASSUME NEW a \in Actor, ApiError(a) PROVE UNCHANGED Service!service
  BY <1>2, <1>9 DEF ApiError
<1>10. ASSUME NEW c \in Comp, ChartSync(c) \/ Rollout(c) PROVE UNCHANGED Service!service
  BY <1>1, <1>10 DEF ChartSync, Rollout, HelmRoll, RollObserved, PodsUpdated
<1>11. ASSUME NEW c \in Cfg, UserEdit(c) PROVE Service!Request
  <2> DEFINE p == Default([fab EXCEPT !.cfg = c], ctrl)
  <2>1. [fab EXCEPT !.cfg = c] \in Fabricator /\ [fab EXCEPT !.cfg = c].cfg = c
    BY <1>t DEF Fabricator
  <2>2. p \in Fabricator /\ p.cfg = c  BY <1>t, <2>1, OpsType, DefaultFields DEF TypeOK
  <2>3. fab' = WithSpec(fab, p) /\ ~SameSpec(fab, p) /\ UNCHANGED chart
    BY <1>11, <2>2 DEF UserEdit, SameSpec
  <2> QED  BY <1>t, <2>2, <2>3, Requests
<1>12. CASE Upgrade
  <2>1. \A o \in Comp \ {N} : chart'[o] = chart[o]  BY <1>t, <1>12 DEF Upgrade, TypeOK
  <2> QED  BY <1>12, <2>1, Stutters DEF Unseen, Upgrade
<1>13. CASE RecStart \/ WatTick \/ CacheSync \/ CtrlCrash \/ CtrlLead \/ UNCHANGED vars
  BY <1>1, <1>13 DEF RecStart, WatTick, CacheSync, CtrlCrash, CtrlLead, vars
<1> QED
  BY <1>3, <1>4, <1>5, <1>6, <1>7, <1>8, <1>9, <1>10, <1>11, <1>12, <1>13
  DEF Next, Reconcile, StatusCheck, Service!Next

\* A fresh installation claims nothing and asks for the first release's defaults.
LEMMA ServiceInit == Init => Service!Init
<1> SUFFICES ASSUME Init PROVE Service!Init  OBVIOUS
<1>1. fab.cfg = InitCfg /\ fab.defs = 1 /\ fab.applied = FALSE  BY DEF Init, NewFab
<1>2. [cfg |-> fab.cfg, defs |-> fab.defs] \in [cfg : Cfg, defs : 1..MaxVer]
  <2>1. 1 \in 1..MaxVer  OBVIOUS
  <2> QED  BY <1>1, <2>1
<1>3. Claim = "none"  BY <1>1 DEF Claim
<1>4. chart \in [Comp -> Chart]  BY TypeInit DEF TypeOK
<1>5. Chart = [cfg : Cfg, ver : (1..MaxVer) \cup {0}]
  <2>1. \A v : v \in Ver <=> v \in (1..MaxVer) \cup {0}  BY DEF Ver
  <2> QED  BY <2>1 DEF Chart
<1>6. [o \in Comp \ {N} |-> chart[o]]
         \in [Comp \ {N} -> [cfg : Cfg, ver : (1..MaxVer) \cup {0}]]
  BY <1>4, <1>5
<1> QED  BY <1>2, <1>3, <1>6 DEF Service!Init

\* Whoever looks only at the Fabricator and the enforced objects sees the
\* abstract service: the "Config applied" claim is withdrawn before the first
\* object is touched and made only when all needed objects are made from the
\* present request by one release, through every edit, error, crash and upgrade,
\* provided the informer of the enforced objects never serves an old copy.
THEOREM Refinement ==
  ASSUME ~ChartLag
  PROVE  Spec => ImplementsConfigService
<1>1. Init => Led  BY DEF Init, Led, Actor
<1>2. Inv1 /\ [Next]_vars => Inv1'  BY Inv1Step
<1>3. Inv1 /\ Led /\ [Next]_vars => Led'  BY LedStep DEF Inv1
<1>4. Inv1 /\ Inv2 /\ Led /\ [Next]_vars => [Service!Next]_(Service!service)
  BY ServiceStep
<1> QED
  BY <1>1, <1>2, <1>3, <1>4, Inv1Init, Inv2Holds, ServiceInit, PTL
  DEF Spec, ImplementsConfigService, Service!Spec
=============================================================================
