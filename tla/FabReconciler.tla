--------------------------- MODULE FabReconciler ---------------------------
(***************************************************************************)
(* The fabricator controller: FabricatorReconciler.Reconcile and the       *)
(* status watcher of pkg/controller/fabricator_ctrl.go, with what they     *)
(* share: the one Fabricator object at the API server, the informer's copy *)
(* of it, the HelmCharts and other objects the reconciler enforces, the    *)
(* workloads Helm rolls out from them, and the leading controller, which   *)
(* the reconciler upgrades together with everything else.                  *)
(*                                                                         *)
(* A resourceVersion only ever decides whether a copy is still the latest  *)
(* one, so a copy carries that answer: cur is TRUE while nothing has been  *)
(* written since the copy was taken.  LastAppliedGen = Generation is       *)
(* likewise kept as the bit genApplied of the object, cleared by every     *)
(* change of the spec.  Component N is fabricator itself, enforced last.   *)
(***************************************************************************)
EXTENDS Naturals

CONSTANTS
    Cfg,        \* the configurations a user can put into the spec
    InitCfg,    \* the configuration of the freshly installed Fabricator
    GwCfgs,     \* the configurations with Gateway.Enable
    MaxVer,     \* releases 1..MaxVer of the controller
    N,          \* components 1..N in the order Reconcile enforces them
    Gw,         \* the components enforced only with a gateway
    GwNeeds,    \* the components IsGatewayReady looks at
    Daemons,    \* the components deployed as DaemonSets (else Deployments)
    ChartLag,   \* whether the informer of the enforced objects may lag
    MaxEdits,   \* bound on the user's edits of the spec
    MaxFaults   \* bound on API errors and crashes

ASSUME CfgAssumption == InitCfg \in Cfg /\ GwCfgs \subseteq Cfg
ASSUME CompAssumption ==
    /\ N \in Nat \ {0}
    /\ Gw \subseteq 1..(N - 1)
    /\ GwNeeds \subseteq 1..N
    /\ Daemons \subseteq 1..N
ASSUME BoundAssumption ==
    /\ MaxVer \in Nat \ {0}
    /\ MaxEdits \in Nat
    /\ MaxFaults \in Nat
    /\ ChartLag \in BOOLEAN

VARIABLES
    fab,     \* the Fabricator object at the API server
    cache,   \* the informer's copy of it: [obj, cur]
    queued,  \* the workqueue holds a request for it
    ctrl,    \* release of the leading controller, 0 while nobody leads
    pc,      \* program counters of the reconciler and the status watcher
    f,       \* the copy of the Fabricator each of them works on
    cur,     \* whether that copy is still the latest
    idx,     \* the component it is at
    ok,      \* what it has read so far: [ready, gw]
    lock,    \* holder of the status mutex
    chart,   \* the enforced objects: [cfg, ver] each was rendered from
    seen,    \* the informer's copy of them: [val, cur]
    work,    \* the workloads: what they are rolled out from, and status
    target,  \* the release the control node was last upgraded to
    edits, faults

vars == <<fab, cache, queued, ctrl, pc, f, cur, idx, ok, lock,
          chart, seen, work, target, edits, faults>>

Actor == {"rec", "wat"}
Comp  == 1..N
Ver   == 0..MaxVer
Window == {"enforceFab", "attempt", "enforce", "applied"}

Fabricator == [cfg : Cfg, defs : Ver, applied : BOOLEAN,
               genApplied : BOOLEAN, appliedBy : Ver, ready : BOOLEAN,
               gwReady : BOOLEAN, versions : Ver]
Chart    == [cfg : Cfg, ver : Ver]
Workload == [of : Chart, obs : BOOLEAN, upd : BOOLEAN, run : Ver]

NewFab == [cfg |-> InitCfg, defs |-> 1, applied |-> FALSE,
           genApplied |-> FALSE, appliedBy |-> 0, ready |-> FALSE,
           gwReady |-> FALSE, versions |-> 0]
NoChart == [cfg |-> InitCfg, ver |-> 0]
AllOk   == [ready |-> TRUE, gw |-> TRUE]

-----------------------------------------------------------------------------
(* The Fabricator object: its defaults, conditions and versions.           *)

\* f.Default(): fill in what release v knows and the spec leaves out.
Default(o, v) == [o EXCEPT !.defs = IF o.defs < v THEN v ELSE o.defs]

\* Mutant: defaults are not part of the comparison.
SameSpecUserOnly(o, p) == o.cfg = p.cfg

SameSpec(o, p) == o.cfg = p.cfg /\ o.defs = p.defs

\* The status subresource of p on the spec of o.
WithStatus(o, p) == [p EXCEPT !.cfg = o.cfg, !.defs = o.defs]

\* The spec of p on the status of o: a new generation unless it is the same.
WithSpec(o, p) ==
    [o EXCEPT !.cfg = p.cfg, !.defs = p.defs,
              !.genApplied = @ /\ SameSpec(o, p)]

\* Mutants: the generation, or the release, is not looked at.
OutdatedByRelease(o, v)    == o.appliedBy # v
OutdatedByGeneration(o, v) == ~o.genApplied

Outdated(o, v) == o.appliedBy # v \/ ~o.genApplied

\* Mutants: one of the conditions is left as it was.
ApplyPendingKeepsApplied(o) == [o EXCEPT !.ready = FALSE, !.gwReady = FALSE]
ApplyPendingKeepsGateway(o) == [o EXCEPT !.applied = FALSE, !.ready = FALSE]
ApplyPendingKeepsReady(o)   == [o EXCEPT !.applied = FALSE, !.gwReady = FALSE]

ApplyPending(o) ==
    [o EXCEPT !.applied = FALSE, !.ready = FALSE, !.gwReady = FALSE]

CalculateVersions(o, v) == [o EXCEPT !.versions = v]

ApplySucceeded(o, v) ==
    [o EXCEPT !.applied = TRUE, !.genApplied = TRUE, !.appliedBy = v]

\* What the Install functions build from the Fabricator for component c;
\* fabricator's own chart depends on nothing but the versions.
Render(c, o) == [cfg |-> IF c = N THEN InitCfg ELSE o.cfg, ver |-> o.versions]

\* alloy.Install builds the gateway's objects only when it is enabled.
Wanted(c, o) == c \notin Gw \/ o.cfg \in GwCfgs

\* GetDeploymentStatus and GetDaemonSetStatus = Ready.
StatusReady(c, v) ==
    /\ work[c].of.ver = v
    /\ work[c].upd
    /\ c \in Daemons => work[c].obs

\* The share of component c in IsReady and in IsGatewayReady.
CountsReady(c, o)   == c \in Gw \/ StatusReady(c, o.versions)
CountsGateway(c, o) ==
    o.cfg \in GwCfgs /\ c \in GwNeeds => StatusReady(c, o.versions)

-----------------------------------------------------------------------------
(* Steps shared by the handlers.                                           *)

\* A write of the Fabricator object by actor a (or by nobody in the
\* controller): every other copy is no longer the latest.
Stale(a) ==
    /\ cache' = [cache EXCEPT !.cur = FALSE]
    /\ cur' = [b \in Actor |-> b = a]

\* Actor a returns; the reconciler is queued again after an error.
Return(a) ==
    /\ pc' = [pc EXCEPT ![a] = "idle"]
    /\ f' = [f EXCEPT ![a] = NewFab]
    /\ idx' = [idx EXCEPT ![a] = 0]
    /\ ok' = [ok EXCEPT ![a] = AllOk]

Goto(a, l) == pc' = [pc EXCEPT ![a] = l]

Requeue(a) == queued' = (queued \/ a = "rec")

Fail(a) ==
    /\ Return(a)
    /\ Requeue(a)
    /\ cur' = [cur EXCEPT ![a] = FALSE]
    /\ UNCHANGED <<fab, cache, ctrl, chart, seen, work, target, edits>>

-----------------------------------------------------------------------------
(* Reconcile.                                                              *)

RecStart ==
    LET o == Default(cache.obj, ctrl) IN
    /\ ctrl # 0 /\ pc["rec"] = "idle" /\ queued
    /\ queued' = FALSE
    /\ f' = [f EXCEPT !["rec"] = o]
    /\ cur' = [cur EXCEPT !["rec"] = cache.cur]
    /\ Goto("rec", IF Outdated(o, ctrl) \/ ~o.applied
                   THEN "enforceFab" ELSE "check")
    /\ UNCHANGED <<fab, cache, ctrl, idx, ok, lock, chart, seen, work,
                   target, edits, faults>>

\* EnforceKubeInstall(InstallFabAndControl): CreateOrUpdate reads the
\* Fabricator again and puts f's spec on what it read.
RecEnforceFab ==
    /\ pc["rec"] = "enforceFab"
    /\ \/ /\ SameSpec(cache.obj, f["rec"])
          /\ Goto("rec", "attempt")
          /\ UNCHANGED <<fab, cache, cur, queued, ctrl, f, idx, ok, chart,
                         seen, work, target, edits>>
       \/ /\ ~SameSpec(cache.obj, f["rec"]) /\ cache.cur
          /\ fab' = WithSpec(fab, f["rec"])
          /\ Stale("nobody")
          /\ Goto("rec", "attempt")
          /\ UNCHANGED <<queued, ctrl, f, idx, ok, chart, seen, work,
                         target, edits>>
       \/ ~SameSpec(cache.obj, f["rec"]) /\ ~cache.cur /\ Fail("rec")
    /\ UNCHANGED <<lock, faults>>

\* Status().Update with the pending conditions; f becomes the response.
RecAttempt ==
    /\ pc["rec"] = "attempt"
    /\ \/ /\ cur["rec"]
          /\ fab' = WithStatus(fab, ApplyPending(f["rec"]))
          /\ f' = [f EXCEPT !["rec"] = CalculateVersions(fab', ctrl)]
          /\ Stale("rec")
          /\ Goto("rec", "enforce")
          /\ idx' = [idx EXCEPT !["rec"] = 1]
          /\ UNCHANGED <<queued, ctrl, ok, chart, seen, work, target, edits>>
       \/ ~cur["rec"] /\ Fail("rec")
    /\ UNCHANGED <<lock, faults>>

\* Mutant: one component too many.
NextCompPastEnd(a, after) ==
    /\ idx' = [idx EXCEPT ![a] = IF @ > N THEN 0 ELSE @ + 1]
    /\ pc' = [pc EXCEPT ![a] = IF idx[a] > N THEN after ELSE @]

NextComp(a, after) ==
    /\ idx' = [idx EXCEPT ![a] = IF @ = N THEN 0 ELSE @ + 1]
    /\ pc' = [pc EXCEPT ![a] = IF idx[a] = N THEN after ELSE @]

\* CreateOrUpdate, whatever the kind of the object, compares with the informer's
\* copy what the Install function has built, and leaves it when they agree.
UpToDate(c, o) == seen[c].val = Render(c, o)

\* One EnforceKubeInstall of a component; the write carries the
\* resourceVersion of the copy CreateOrUpdate has compared with.
RecEnforce ==
    LET c == idx["rec"]
        want == Render(c, f["rec"])
        same == ~Wanted(c, f["rec"]) \/ UpToDate(c, f["rec"])
    IN
    /\ pc["rec"] = "enforce"
    /\ \/ same /\ UNCHANGED <<chart, seen>> /\ NextComp("rec", "applied")
          /\ UNCHANGED <<fab, cache, cur, queued, ctrl, f, ok, work, target,
                         edits>>
       \/ /\ ~same /\ seen[c].cur
          /\ chart' = [chart EXCEPT ![c] = want]
          /\ seen' = [seen EXCEPT ![c] = IF ChartLag
                                         THEN [@ EXCEPT !.cur = FALSE]
                                         ELSE [val |-> want, cur |-> TRUE]]
          /\ NextComp("rec", "applied")
          /\ UNCHANGED <<fab, cache, cur, queued, ctrl, f, ok, work, target,
                         edits>>
       \/ ~same /\ ~seen[c].cur /\ Fail("rec")
    /\ UNCHANGED <<lock, faults>>

\* Mutant: the last write is forced onto whatever the Fabricator is by then.
RecAppliedForced ==
    /\ pc["rec"] = "applied"
    /\ fab' = WithStatus(fab, ApplySucceeded(f["rec"], ctrl))
    /\ f' = [f EXCEPT !["rec"] = fab']
    /\ Stale("rec")
    /\ Goto("rec", "check")
    /\ UNCHANGED <<queued, ctrl, idx, ok, chart, seen, work, target, edits,
                   lock, faults>>

RecApplied ==
    /\ pc["rec"] = "applied"
    /\ \/ /\ cur["rec"]
          /\ fab' = WithStatus(fab, ApplySucceeded(f["rec"], ctrl))
          /\ f' = [f EXCEPT !["rec"] = fab']
          /\ Stale("rec")
          /\ Goto("rec", "check")
          /\ UNCHANGED <<queued, ctrl, idx, ok, chart, seen, work, target,
                         edits>>
       \/ ~cur["rec"] /\ Fail("rec")
    /\ UNCHANGED <<lock, faults>>

-----------------------------------------------------------------------------
(* statusCheck, run by the reconciler and by the watcher.                  *)

\* Every 10 seconds the watcher takes the informer's copy.
WatTick ==
    /\ ctrl # 0 /\ pc["wat"] = "idle"
    /\ f' = [f EXCEPT !["wat"] = cache.obj]
    /\ cur' = [cur EXCEPT !["wat"] = cache.cur]
    /\ Goto("wat", "check")
    /\ UNCHANGED <<fab, cache, queued, ctrl, idx, ok, lock, chart, seen,
                   work, target, edits, faults>>

\* Ready and checked less than a minute ago: nothing to do.
StatusSkip(a) ==
    /\ pc[a] = "check" /\ f[a].ready
    /\ Return(a)
    /\ cur' = [cur EXCEPT ![a] = FALSE]
    /\ UNCHANGED <<fab, cache, queued, ctrl, lock, chart, seen, work,
                   target, edits, faults>>

StatusLock(a) ==
    /\ pc[a] = "check" /\ lock = "nobody"
    /\ lock' = a
    /\ Goto(a, "read")
    /\ idx' = [idx EXCEPT ![a] = 1]
    /\ UNCHANGED <<fab, cache, queued, ctrl, f, cur, ok, chart, seen, work,
                   target, edits, faults>>

\* One of the component statuses.  The code reads the workload from the
\* informer's copy; here it is taken as it is now.
StatusRead(a) ==
    LET c == idx[a] IN
    /\ pc[a] = "read"
    /\ ok' = [ok EXCEPT ![a] = [ready |-> @.ready /\ CountsReady(c, f[a]),
                                gw |-> @.gw /\ CountsGateway(c, f[a])]]
    /\ NextComp(a, "write")
    /\ UNCHANGED <<fab, cache, queued, ctrl, f, cur, lock, chart, seen,
                   work, target, edits, faults>>

ChecksDone(o, r) == [o EXCEPT !.ready = r.ready, !.gwReady = r.gw]

StatusWrite(a) ==
    /\ pc[a] = "write"
    /\ lock' = "nobody"
    /\ \/ /\ cur[a]
          /\ fab' = WithStatus(fab, ChecksDone(f[a], ok[a]))
          /\ Stale("nobody")
          /\ Return(a)
          /\ UNCHANGED <<queued, ctrl, chart, seen, work, target, edits>>
       \/ ~cur[a] /\ Fail(a)
    /\ UNCHANGED faults

\* Any API call of a handler may fail, and the response of a write may be
\* lost: the handler returns before its next step.
ApiError(a) ==
    /\ faults < MaxFaults /\ pc[a] # "idle"
    /\ faults' = faults + 1
    /\ lock' = IF lock = a THEN "nobody" ELSE lock
    /\ Fail(a)

-----------------------------------------------------------------------------
(* The surroundings: informers, users, upgrades, Helm, leader election.    *)

\* The informer catches up and its event handler queues a request.
CacheSync ==
    /\ ctrl # 0 /\ ~cache.cur
    /\ cache' = [obj |-> fab, cur |-> TRUE]
    /\ queued' = TRUE
    /\ UNCHANGED <<fab, ctrl, pc, f, cur, idx, ok, lock, chart, seen, work,
                   target, edits, faults>>

ChartSync(c) ==
    /\ ~seen[c].cur
    /\ seen' = [seen EXCEPT ![c] = [val |-> chart[c], cur |-> TRUE]]
    /\ UNCHANGED <<fab, cache, queued, ctrl, pc, f, cur, idx, ok, lock,
                   chart, work, target, edits, faults>>

\* A user's edit goes through the webhook of the running controller, which
\* defaults it and refuses it while the controller is down.
UserEdit(c) ==
    /\ ctrl # 0 /\ edits < MaxEdits /\ fab.cfg # c
    /\ fab' = WithSpec(fab, Default([fab EXCEPT !.cfg = c], ctrl))
    /\ edits' = edits + 1
    /\ Stale("nobody")
    /\ UNCHANGED <<queued, ctrl, pc, f, idx, ok, lock, chart, seen, work,
                   target, faults>>

\* The upgrade recipe of the next release enforces fabricator's own chart.
Upgrade ==
    /\ target < MaxVer
    /\ target' = target + 1
    /\ chart' = [chart EXCEPT ![N] = [cfg |-> InitCfg, ver |-> target + 1]]
    /\ seen' = [seen EXCEPT ![N] = IF ChartLag THEN [@ EXCEPT !.cur = FALSE]
                                   ELSE [val |-> chart'[N], cur |-> TRUE]]
    /\ UNCHANGED <<fab, cache, queued, ctrl, pc, f, cur, idx, ok, lock, work,
                   edits, faults>>

\* Helm applies a changed chart: a new pod template, not yet observed.
HelmRoll(c) ==
    /\ chart[c].ver # 0 /\ work[c].of # chart[c]
    /\ work' = [work EXCEPT ![c] = [@ EXCEPT !.of = chart[c], !.obs = FALSE]]
    /\ UNCHANGED <<fab, cache, queued, ctrl, pc, f, cur, idx, ok, lock,
                   chart, seen, target, edits, faults>>

\* The workload's controller observes the template: no pod is updated yet.
RollObserved(c) ==
    /\ work[c].of.ver # 0 /\ ~work[c].obs
    /\ work' = [work EXCEPT ![c] = [@ EXCEPT !.obs = TRUE, !.upd = FALSE]]
    /\ UNCHANGED <<fab, cache, queued, ctrl, pc, f, cur, idx, ok, lock,
                   chart, seen, target, edits, faults>>

\* An updated replica is counted and runs in one step.
PodsUpdated(c) ==
    /\ work[c].obs /\ ~work[c].upd
    /\ work' = [work EXCEPT ![c] = [@ EXCEPT !.upd = TRUE,
                                            !.run = work[c].of.ver]]
    /\ UNCHANGED <<fab, cache, queued, ctrl, pc, f, cur, idx, ok, lock,
                   chart, seen, target, edits, faults>>

\* The process is gone: both handlers, the mutex and the queue with it.
Gone ==
    /\ pc' = [a \in Actor |-> "idle"]
    /\ f' = [a \in Actor |-> NewFab]
    /\ cur' = [a \in Actor |-> FALSE]
    /\ idx' = [a \in Actor |-> 0]
    /\ ok' = [a \in Actor |-> AllOk]
    /\ lock' = "nobody"

CtrlCrash ==
    /\ ctrl # 0 /\ faults < MaxFaults
    /\ faults' = faults + 1
    /\ ctrl' = 0
    /\ queued' = FALSE
    /\ Gone
    /\ UNCHANGED <<fab, cache, chart, seen, work, target, edits>>

\* The running pods' release takes the lease, with freshly listed caches.
CtrlLead ==
    /\ ctrl # work[N].run
    /\ ctrl' = work[N].run
    /\ Gone
    /\ cache' = [obj |-> fab, cur |-> TRUE]
    /\ seen' = [c \in Comp |-> [val |-> chart[c], cur |-> TRUE]]
    /\ queued' = TRUE
    /\ UNCHANGED <<fab, chart, work, target, edits, faults>>

-----------------------------------------------------------------------------
Installed == [of |-> [cfg |-> InitCfg, ver |-> 1], obs |-> TRUE,
              upd |-> TRUE, run |-> 1]
Missing   == [of |-> NoChart, obs |-> FALSE, upd |-> FALSE, run |-> 0]

\* The installer has created the Fabricator, its controller and some of the
\* components; the controller has not started yet.
Init ==
    /\ fab = NewFab
    /\ cache = [obj |-> NewFab, cur |-> TRUE]
    /\ queued = FALSE
    /\ ctrl = 0
    /\ pc = [a \in Actor |-> "idle"]
    /\ f = [a \in Actor |-> NewFab]
    /\ cur = [a \in Actor |-> FALSE]
    /\ idx = [a \in Actor |-> 0]
    /\ ok = [a \in Actor |-> AllOk]
    /\ lock = "nobody"
    /\ \E pre \in SUBSET (Comp \ Gw) :
          /\ N \in pre
          /\ work = [c \in Comp |-> IF c \in pre THEN Installed ELSE Missing]
    /\ chart = [c \in Comp |-> work[c].of]
    /\ seen = [c \in Comp |-> [val |-> chart[c], cur |-> TRUE]]
    /\ target = 1
    /\ edits = 0
    /\ faults = 0

Reconcile == RecStart \/ RecEnforceFab \/ RecAttempt \/ RecEnforce \/ RecApplied

StatusCheck(a) == StatusSkip(a) \/ StatusLock(a) \/ StatusRead(a) \/ StatusWrite(a)

Rollout(c) == HelmRoll(c) \/ RollObserved(c) \/ PodsUpdated(c)

Next ==
    \/ Reconcile
    \/ WatTick
    \/ \E a \in Actor : StatusCheck(a) \/ ApiError(a)
    \/ CacheSync
    \/ \E c \in Comp : ChartSync(c) \/ Rollout(c)
    \/ \E c \in Cfg : UserEdit(c)
    \/ Upgrade
    \/ CtrlCrash
    \/ CtrlLead

Spec == Init /\ [][Next]_vars

\* The code's own loops run, informers and Helm catch up, a pod that is up
\* gets the lease and a waiting goroutine gets the mutex; nothing forces a
\* user, a fault or an upgrade.
FairSpec ==
    /\ Spec
    /\ WF_vars(Reconcile)
    /\ WF_vars(WatTick)
    /\ \A a \in Actor : WF_vars(StatusCheck(a)) /\ SF_vars(StatusLock(a))
    /\ WF_vars(CacheSync)
    /\ \A c \in Comp : WF_vars(ChartSync(c)) /\ WF_vars(Rollout(c))
    /\ WF_vars(CtrlLead)
-----------------------------------------------------------------------------
(* Properties.                                                             *)

\* Every variable has its type.
TypeOK ==
    /\ fab \in Fabricator
    /\ cache \in [obj : Fabricator, cur : BOOLEAN]
    /\ queued \in BOOLEAN
    /\ ctrl \in Ver
    /\ pc \in [Actor -> Window \cup {"idle", "check", "read", "write"}]
    /\ f \in [Actor -> Fabricator]
    /\ cur \in [Actor -> BOOLEAN]
    /\ idx \in [Actor -> 0..N]
    /\ ok \in [Actor -> [ready : BOOLEAN, gw : BOOLEAN]]
    /\ lock \in Actor \cup {"nobody"}
    /\ chart \in [Comp -> Chart]
    /\ seen \in [Comp -> [val : Chart, cur : BOOLEAN]]
    /\ work \in [Comp -> Workload]
    /\ target \in Ver \ {0}
    /\ edits \in 0..MaxEdits
    /\ faults \in 0..MaxFaults

\* "Config applied, gen=%d": when the Fabricator says its generation is
\* applied, every object of Reconcile's list but fabricator's own chart was
\* rendered from exactly that configuration by one and the same release.
AppliedMeansEnforced ==
    fab.applied /\ fab.genApplied =>
        \A c \in Comp \ {N} : Wanted(c, fab) => chart[c] = Render(c, fab)

\* The objects Reconcile enforces never change under a Fabricator that
\* still says Applied.
ChangesAreAnnounced ==
    [][\A c \in Comp \ {N} : chart'[c] # chart[c] => ~fab.applied]_vars

\* What is rendered always carries the defaults of the rendering release:
\* "updating Fab and ControlNodes with the new defaults" comes first.
EnforceUsesDefaults ==
    pc["rec"] \in {"enforce", "applied"} => f["rec"].defs >= ctrl

\* An applied Fabricator is Ready only after the workload of every required
\* component was rolled out from the image of the applied versions, however
\* the status checks of reconciler and watcher interleave with the applying.
ReadyMeansRolledOut ==
    fab.applied /\ fab.ready =>
        \A c \in Comp \ (Gw \cup {N}) : work[c].of.ver = fab.versions

\* The same of GatewayReady and the gateway's own components, for the
\* generation that was applied.
GatewayReadyMeansRolledOut ==
    fab.applied /\ fab.genApplied /\ fab.gwReady /\ fab.cfg \in GwCfgs =>
        \A c \in Gw \cap GwNeeds : work[c].of.ver = fab.versions

\* What makes a reconcile start all over: a start from a copy that is
\* already stale, a status write of the watcher before the reconciler's own
\* next write, and a new release taking over from the running controller.
Disturbed ==
    \/ CtrlLead /\ ctrl # 0
    \/ RecStart /\ ~cache.cur
    \/ /\ StatusWrite("wat") /\ cur["wat"]
       /\ pc["rec"] \in Window \/ (pc["rec"] = "idle" /\ queued)

Converged ==
    /\ fab.applied /\ fab.genApplied /\ fab.ready
    /\ ctrl # 0 /\ fab.appliedBy = ctrl /\ fab.defs >= ctrl
    /\ \A c \in Comp : Wanted(c, fab) => /\ chart[c] = Render(c, fab)
                                        /\ work[c].of = chart[c]
                                        /\ work[c].run = fab.versions

\* Once edits, upgrades and faults stop, the releases no longer replace one
\* another and the requeue's growing backoff lets the informer and the
\* watcher's 10 second period get out of the way, the last configuration is
\* applied by the running controller, everything runs from it and the
\* Fabricator stays Ready.
Converges == <>[][~Disturbed]_vars => <>[]Converged

\* "That makes sure that we're updating Fab and ControlNodes with the new
\* defaults": the reconciler adds defaults and leaves the user's part of the
\* spec as the user wrote it.
UserEditKept == [][fab'.cfg # fab.cfg => edits' # edits]_vars

\* "All components are ready": when Ready turns true, the pods of every
\* required component run the applied release.
ReadyMeansRunning ==
    [][~fab.ready /\ fab'.ready /\ fab'.applied =>
          \A c \in Comp \ (Gw \cup {N}) : work[c].run = fab'.versions]_vars
=============================================================================
