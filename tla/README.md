# Verification of fabricator

TLA+ models of the parts of fabricator that run unattended and have to survive
failures, and of the programs that judge a fabric: the controller that keeps a
Hedgehog control node in line with its `Fabricator` object, the recipe that
installs that node, the commands that set VPCs and peerings up, the connectivity
test with its oracle, and the release test runner with all of its tests. TLC
checks them on small instances; TLAPS proves, for every instance, safety
properties of the controller, the install recipe, `SetupVPCs`, the connectivity
test and the release test runner, and that the controller implements its abstract
specification.

## 1. The system and its parts

| part | state it keeps | operations | talks to |
|---|---|---|---|
| fabricator controller (`pkg/controller`, `pkg/fab/comp`) | the `Fabricator` object (spec, conditions, last applied generation and controller), enforced objects, a mutex | `Reconcile`, the status watcher's `statusCheck`, defaulting webhook | API server through informers, Helm controller, its own successor release |
| API object (`api/fabricator/v1beta1`) | spec, status | `Default`, `Validate`, `CalculateVersions`, `IsReady`, `IsGatewayReady` | controller, hhfab, recipes |
| component renderers (`pkg/fab/comp/*`) | none | `Install`, `Status*`, `Artifacts` | controller, recipes |
| control recipe (`pkg/fab/recipe/control_*.go`) | install marker, files of the node, CA, registry users | `DoInstall`, `DoUpgrade` and their steps | systemd, k3s, API server, controller |
| node recipe and node config (`node_install.go`, `pkg/fab/node`) | k3s agent configuration, CA and registries files | join, restart of k3s | API server, registry |
| OS installer (`comp/flatcar`, `cmd/hhfab-flatcar-install`) | target disk | partition, write, reboot | firmware |
| artifact downloader (`pkg/artificer`) | shared cache directory | lookup, download, rename into place | registries |
| hhfab configuration (`pkg/hhfab/cmdconfig.go`, `hydrate.go`) | working directory, hydrated wiring | init, hydrate, validate | user |
| recipe build (`recipe/build.go`) | built images and their hashes | hash-gated build | downloader |
| VLAB (`pkg/hhfab/vlab*.go`) | VM processes, taps, control of their lifetime | build configuration, run, post-process | QEMU, ssh |
| VLAB tests (`testing.go`, `rt_*.go`) | VPCs and attachments in the cluster, expectations | wait ready, set up, test connectivity, suites with reverts | API server, servers and switches over ssh |
| diagrams, command line, support dump | none | drawing, dispatch, collecting | - |

What is hard in it: the reconciler and the watcher write the same status from
copies of different age; every write may conflict, fail, or succeed without its
response arriving; the controller replaces itself in the middle of its own
work; recipes are killed and started again over what they left; and several
waits only end if another part makes progress. The hazards, with their lines,
are listed in `PROJECT.json`.

Properties that make the parts correct:

* controller: what the conditions `Applied`, `Ready` and `GatewayReady` say is
  true of the enforced objects and their workloads, also with concurrent edits,
  upgrades and crashes; after the last change everything converges;
* control recipe: a retry repairs what a failed attempt left, the CA and the
  registry's certificate and passwords stay consistent, and the marker means
  installed;
* `SetupVPCs` and `SetupPeerings`: the plan serves every server with addresses
  of its own; success means the API, the switches and the servers have the plan,
  over whatever earlier runs and failed attempts left; every call ends;
* connectivity test: a pass means the network does what the peering asks, a fail
  has a cause; nothing that could not be tried or expected counts as a deny;
* release tests: whatever fails where, the next test finds the fabric as the
  suite promises, the shared matrix is never stale when it is used, the report
  and the verdict tell the truth and the run ends;
* upgrade recipe (not modelled): a completed upgrade is not undone by the release it
  replaced;
* downloader (not modelled): a cached artifact is complete whenever it is visible;
* VLAB runner (not modelled): a run ends, with its VMs stopped, whatever fails first.

## 2. Modules

| module | models |
|---|---|
| `FabReconciler` | `fabricator_ctrl.go` with `kube.go`, the object's methods, the webhook's defaulting and the takeover between releases |
| `ConfigService` | abstract: what the controller promises to those who only look at the Fabricator and the enforced objects |
| `FabRefinement` | the mapping under which `FabReconciler` implements `ConfigService` |
| `FabReconcilerProofs` | inductive invariant and theorems of `FabReconciler` |
| `FabRefinementProofs` | the proof that `FabReconciler` implements `ConfigService` |
| `ControlInstall`, `ControlInstallProofs` | `DoInstall` for a control node and `ControlInstall.Run`, over any number of attempts; its theorems |
| `VPCPlan` | what `SetupVPCs` decides before it touches the API: subnets, VPCs, VLANs, prefixes, attachments, server commands |
| `PeeringRequests` | how `SetupPeerings` reads its requests and builds the peerings |
| `VPCSetup` | both commands with `WaitReady`, failing calls, retries, and agents that lag (extends the two above) |
| `VPCSetupProofs` | types, and what the waits of both commands achieve |
| `VPCPlanProofs`, `VPCOutcomeProofs` | lemmas about one turn of the planning loop; theorems about the whole plan, what `SetupVPCs` leaves behind and what `SetupPeerings` makes of its requests |
| `Reachability` | who should reach whom according to the API objects (`testing.go`) |
| `ConnMatrix` | the expectation matrix and the discovery of endpoints (`matrix.go`, `endpoints.go`) |
| `GwTests` | the NAT and ACL tests as data: the peering each installs and the overlay it puts on the matrix |
| `GwPlane` | external: what switches and gateway do with a probe, working or broken in one of five ways |
| `Connectivity` | a connectivity test from discovery to the joined error (extends the four above) |
| `ConnectivityProofs` | inductive invariant and theorems of `Connectivity` |
| `RTSteps` | the vocabulary of release tests: steps, what each changes, what reverts it |
| `RTSelect` | `findExternals` and the skip flags |
| `RTSingleVPC`, `RTMultiSubnet`, `RTNoVPC`, `RTSingleSubnet` | the tests of the suites, one script each |
| `RTPlans` | suites put together for two fabrics |
| `ReleaseTest`, `ReleaseTestProofs` | the runner of `rt_base.go` over any scripts; its theorems |
| `RTTidy`, `RTTidyPlans` | what a script owes the runner, said of each script alone; that the repository's scripts do (TLC evaluates it) |
| `MCFabReconciler`, `MCControlInstall`, `MCVPCSetup`, `MCConnectivity`, `MCReleaseTest` | the instances for TLC |

### FabReconciler

`fab` is the object at the API server, `cache` the informer's copy, `f["rec"]`
and `f["wat"]` the copies that `Reconcile` and the watcher work on. A
resourceVersion only decides whether a write conflicts, so each copy has a bit
`cur`, cleared by every other write. `LastAppliedGen = Generation` is the bit
`genApplied`; the spec is the user's part `cfg` and the release `defs` whose
defaults were filled in; `appliedBy` is `LastAppliedController`, `versions` what
`CalculateVersions` put into the status. `chart[c]` is the object of component
`c` as last written, `seen[c]` the informer's copy that `CreateOrUpdate`
compares with, `work[c]` the Deployment or DaemonSet: the template it has
(`of`), whether it was observed (`obs`), whether its updated replicas are there
(`upd`) and the release whose pods run (`run`). Component `N` is fabricator
itself, enforced last; its running pods decide which release leads (`ctrl`).

| action | code |
|---|---|
| `RecStart` | `Reconcile` up to the decision at line 124; the copy is the informer's |
| `RecEnforceFab` | `EnforceKubeInstall(InstallFabAndControl)`: re-reads, replaces the spec, updates with the re-read version |
| `RecAttempt` | the three pending conditions and `Status().Update`, then `CalculateVersions` |
| `RecEnforce` | one `EnforceKubeInstall` of the list at lines 196-245 |
| `RecApplied` | the `ApplySucceeded` condition and its update |
| `WatTick` | the watcher's 10 second tick |
| `StatusSkip`, `StatusLock`, `StatusRead`, `StatusWrite` | `statusCheck` for either caller |
| `ApiError` | any of the error returns, also after a write that took effect |
| `UserEdit` | an edit through the defaulting webhook |
| `Upgrade` | the upgrade recipe's write of fabricator's chart |
| `CacheSync`, `ChartSync`, `HelmRoll`, `RollObserved`, `PodsUpdated`, `CtrlCrash`, `CtrlLead` | informers, Helm and workload controllers, leader election (external) |

Abstracted: a component's objects are one object; the ControlNode written beside
the Fabricator and the deletion of the old `fabric-proxy` chart (idempotent) are
left out; the age of the last status check is a free choice. A status check reads
the workloads themselves, where the code reads them from the informer as well
(`kube.go:478`); `PodsUpdated` takes an updated replica for one that runs.
`ChartLag = FALSE` assumes that the informer of the enforced objects has caught up
before the next reconcile reads it; `TRUE` drops that.

### ControlInstall

One variable per thing an attempt leaves behind: files (`marker`, `regFile`,
`caFile`), objects (`caSecret`, `caMap`, `reader`, `htpasswd`, `zot`, `f8r`,
`fab`, the included objects as their number `inc`), what others derive from
them (`zotCert`, `nodeRegs`, `applied`). A password set is a value of `Pass`,
new for every attempt (`zot.NewUsers`), a CA a value of `CA`. The actions follow
`ControlInstall.Run` step by step; `Fault` is an error, a timeout or a crash at
any step of `FaultSteps`; `DoInstall` is also systemd's restart. `RecRead`,
`RecApply` and `RecFault` are the part of `Reconcile` that copies the reader's
password to `fab-node-registries`; `RecFault` may come before or after that
write. `IssueZotCert` is cert-manager, which signs once: the comment in
`installFabCA` says that a reissue takes longer than the install timeout. Each
attempt rewrites `registries.yaml`, and k3s is taken to read it at once; a k3s that
runs already keeps the earlier file until its next start.

### ConfigService and FabRefinement

`ConfigService` has a request (`want`), the objects made so far (`made`) and one
claim, which is `"none"`, `"present"` or, once there is a newer request,
`"past"`. It has four kinds of steps: a new request makes a present claim a past
one, the claim is withdrawn, one object is made while there is no claim, and the
claim is made when the objects the request needs all come from it and from one
release. `FabRefinement` maps the claim to `Applied` and `LastAppliedGen =
Generation` and the objects to the charts of all components but fabricator's
own, which the recipe writes as well. Nothing of the informers, the two
handlers, their conflicts and the crashes is visible there.

### VPCPlan, PeeringRequests and VPCSetup

`VPCPlan` is what one turn of the loop of `SetupVPCs` over the servers does
(`PlanServer`), and `VPCSetup` goes through the loop with one `PlanNext` step per
server, so that facts about the plan can be proved by induction over steps: which
subnet and VPC a server gets (`Roll`, `Place`), when a subnet is made
(`EnsureSubnet`), and the command its network is configured with
(`GetServerNetconfCmd`, `getServerHostBGPCmd`). A /24 is a number, so that the
addresses of VIPs and /31s can be compared. `PeeringRequests` reads a request
(`ParseRequest`) with its name, its options and what they exclude of each other;
words are abstracted to the VPC they mean and their place in the order of
strings, since the code sorts names before it normalises them.

| `VPCSetup` action | code (`testing.go`) |
|---|---|
| `Start`, `DeletePeerings`, `PlanNext`, `Planned`, `DeleteAttachments`, `DeleteVPCs`, `Settle`, `CreateOrUpdateVPCs`, `CreateOrUpdateAttachments`, `AwaitFabric` | `SetupVPCs` in order; any call may fail and end the attempt |
| `CleanServer`, `ConfigureServer`, `JoinServers` | one goroutine per server and the wait for all of them |
| `FabReadError`, `FabReady`, `AgentsReady`, `WaitTimeout` | `WaitReady` |
| `StartPeerings`, `ParseRequests`, `Unpeer`, `Enforce`, `AwaitPeerings` | `SetupPeerings`, `DoSetupPeerings` |
| `Retry` | the command is run again over what is left |
| `Reflect`, `Apply`, `Expire` | controllers, agents, the clock (external) |

An object's spec is `"same"` as the planned one or `"diff"`. What earlier runs
have left is any set of VPCs, attachments and peerings in which each attachment
has its VPC (`IsLeft`), which the API's own webhook sees to. The fabric moves
only while the program waits for it or sleeps, which is the worst case.
Assumed, because the code does (the TODO above the sleeps at line 1054): the
controllers reflect a change into the agents' specs within the 3 and 15 second
sleeps, and within the pause before a retry. Also assumed: the client's cache, from
which `CreateOrUpdate` decides what to write, has caught up with the deletions of a
forced cleanup. Simplified: `conf` is `"none"` for every server that was cleaned,
although hhnet's cleanup leaves the address and default route of a point-to-point
link; a connection has at most one attachment when the plan is made, and no server
has an ESLAG next to an attached connection of another kind (`getServerAttachState`
fails at the first, and does not get as far as the ESLAG at the second).

### Reachability, ConnMatrix, GwTests, GwPlane and Connectivity

The test asks the API objects who should reach whom (`Reachability`), puts the
answers into a matrix (`ConnMatrix`), lets the NAT or ACL test write over the
pairs the API cannot decide (`GwTests`: `Overlay`), and probes. `GwPlane` is the
network the probes meet: working, or a gateway that ignores ACLs, applies them in
the wrong order, forwards nothing, forwards only ICMP, or forgets flows. The
actions of `Connectivity` follow discovery, a server's move, `SetupPeerings`,
`Repopulate`, `rebindMatrixServerEndpoint`, the overlay calls, `ValidateMatrix`,
the listeners and the four phases; `TestConnectivity` is the older test without
a matrix. Probes share nothing but the joined error, so they are taken in one
order; only the gateway's port-forward rules (`ProgramNAT`) come at any time. A
fault is a call that fails three times, some lost packets or a command that
cannot run. Total packet loss is the same observation as a deny; the code cannot
tell them apart and neither does the model. Nor can it where UDP is to be denied:
`checkUDPPort` counts any error in the report of `iperf3 -u`, and a report of no
packets, as blocked (`testing.go:3518`), so a busy daemon confirms the deny.
`PassMeansIntended` has just this exception: a pass may hide as many UDP denies
that the gateway does not enforce as commands have failed, and nothing else.

Discovery may find a server without an address, which is left out of the matrix
silently (`endpoints.go:233`, on purpose for ESLAG servers of L3 VPCs); with an
address of no subnet, which is a drop that `Validate` refuses; or with a second one
in its own subnet, which is passed over with a warning and no drop (`:260`).
`PassMeansAllSeen` says what a pass means then: each server that answers is in the
matrix at its first address, and all of its addresses are in its subnet.

### RTSteps, the suites, and ReleaseTest

A release test is a script: a sequence of the calls that may fail or that change
the fabric, with what each changes, what it needs, and the revert or deferred
cleanup registered by then. The fabric is the set of items that differ from what
the setup left. `ReleaseTest` interprets the scripts the way `doRunSuite` runs
the Go functions: `selectAndRunSuite`, `initialSetup`, `failAllTests`,
`nextTest`, `setupBetweenTests`, `stepOK`, `stepFails`, `stepSkips`,
`testReturns`, `recordOutcome`, `nextRevert`, `revertStep`, `revertFails`,
`afterReverts`, `endOfSuite`, `recapAndReport`. A failed API call is assumed to
have had no effect. The suites are the constant `Plans`, of which the runner only
needs that they are lists of scripts (`IsPlan`); `MCReleaseTest` puts the
repository's tests there (`AllPlans`).

Some tests are known to leave something behind; the plans list it as
`tolerated`, so that the properties hold for everything else:

* `spineFailoverTest` returns early from its loop over the spines
  (`rt_single_vpc_suite.go:227`); with three or more spines the first stays down;
* `dhcpStaticLeaseTest` returns nil reverts after an error (`:1463`, against
  `:1392`);
* `roceBasicTest` never switches RoCE off again;
* the subnet filtering test registers the revert of its peerings after the call
  that makes them (`rt_multi_vpc_multi_subnet_suite.go:247`);
* the revert of `staticExternalTest` stops at an object that is already gone
  (`:685`);
* the options of a subnet that `dnsNtpMtuTest` has cleared stay cleared, and the
  lease time that `dhcpRenewalTest` sets afterwards stays (run `rt_lease`).

`RTTidy` says what a test owes the runner, of its script alone: a walk goes from
any fabric with no more than the tolerated items (`left`) through the steps, the
failures and the reverts of one test, and a script is tidy if on no walk a check
uses an old matrix or a revert is impossible, and every walk leaves no more than it
may have found. Two sets of walks are given per test, over the whole fabric while
no cleanup fails, and over what a setup wipes (`Wiped`) when a deferred cleanup
has. `Tidy` only asks that the sets hold their starts and every move from a walk in
them; `RTTidyPlans` computes them for the four plans and assumes `TidyPlans`, which
TLC evaluates (some 60 000 walks) before it starts `rt_suites`. The mutants of
these properties change the runner, for a broken script already fails there.

The comment at `rt_base.go:514`, "we also stop applying reverts at the first
failure", is not what the loop does: the `continue` at line 579 goes on with the
next revert, and so does `revertFails`.

## 3. Runs

| run | bounds | shows |
|---|---|---|
| `fab_edits` | 3 components (one of the gateway, a DaemonSet), 2 configurations, 1 edit, 1 fault | `AppliedMeansEnforced`, `GatewayReadyMeansRolledOut`, types; the refinement `ImplementsConfigService` |
| `fab_upgrade` | fabricator alone, 2 releases, 1 fault | `EnforceUsesDefaults` across the takeover; `Converges` after an upgrade |
| `fab_live` | 2 components, 1 edit, 1 fault, lagging informers | `Converges`, `ChangesAreAnnounced` |
| `fab_takeover` | 2 components, 2 releases: the workloads roll from one to the other, and back, under the status checks of either | `ReadyMeansRolledOut` |
| `fab_lostedit` | 1 edit | finding: the defaults write undoes a concurrent edit |
| `fab_stalestatus` | 2 releases | finding: Ready from counters of the previous template |
| `install_retries` | 3 faults at any step, 2 included objects, 6 passwords | `ZotCertValid`, `InstalledConsistent`, `Completes`, types |
| `install_include` | 1 fault while including | finding: the installation never completes (`AlwaysCompletes`) |
| `setup_vpcs` | some 1300 plans for up to 5 servers of every mix of connections, 28 kinds of leftovers with a fault at any call and a second attempt, some 2100 peering requests | `SubnetsUniform`, `AddressesDistinct`, `EveryServerServed`, `SuccessMeansPlanned`, `AttachmentsHaveVPC`, `ReadyMeansApplied`, `DeletionsSettled`, `RequestsHonoured`, `EveryCallEnds` |
| `conn_oracle` | 3 servers, 26 tests, 6 planes, 4 sets of options, 1 fault | `PassMeansIntended`, `FailMeansCause`, `NoUnknownTested`, `ListenersServe`, `ListenersStopped`, `NoStaleEntries`, `PassMeansAllSeen`, `Ends` |
| `rt_suites` | all suites on a lab with everything, all on a virtual lab with FailFast, the on-ready test; 1 failed call, skip or deselected test (2 on-ready) | `VPCsClean`, `FabricClean`, `MatrixFresh`, `RevertsPossible`, `CountersAgree`, `VerdictSound`, `Finishes` |
| `rt_lease` | the single VPC suite, no failures | finding: the lease renewal test leaves its 60 second lease behind |

Bounds: one edit or one fault is enough to race any step of one reconcile, and
two configurations to tell old from new; what more of them could do is covered
by the theorems, which have no bounds. At most five passwords are in use at a
time, so the sixth is always new. Three or four servers are enough for every way
a subnet or VPC can roll over between two kinds of servers; three endpoints give
a pair in one VPC, a pair across, and a third party. One failed call at every
place of every release test is what the reverts are written for; more at once
only combine in the runner, where the on-ready plan has two. In `conn_oracle` the
odd settings (host BGP, L3 ESLAG, an address of no subnet or one too many of the
server's own) come one at a time and with a working gateway. `fab_takeover` has two
releases so that a workload is updated again after it was ready, which one release
cannot show, and neither edits nor faults, which `fab_edits` and the theorem have.

Each property has a mutant of the code it depends on (a condition left as it
was, a comparison that ignores the defaults, a write that ignores the
resourceVersion, a CA per attempt, a counter that rolls too late, a sleep left
out, a revert forgotten when it fails, a matrix shown that was not refreshed, ...), listed in
`PROJECT.json`, that TLC finds.

Behaviours seen while modelling that no run is kept for:

* with a lagging informer, an edit and its revert right after it are reported
  applied while the first edit's object is in place: `CreateOrUpdate` finds the
  old copy equal to what it wants (needs two edits; hazard at `kube.go:343`);
* a second attempt of the installer makes a new reader password, and the nodes
  keep the one the controller read before (hazard at `fabricator_ctrl.go:150`);
* switching the gateway off leaves the `alloy-gw` objects in place;
* `WaitReady` does not look at its timeout while reads of the Fabricator fail
  (`testing.go:144`), so `EveryCallEnds` bounds these by `MaxReadErrors` in a row;
* deleting peerings is not a change that `SetupVPCs` waits for (`:683`);
* a point-to-point server in an L3 VPC mode reports its /31 where a /32 is
  expected, so the attempt fails (`:1143`); more than 128 point-to-point servers
  in a subnet would leave its /24 (`:883`), and no option check prevents it;
* "1+2" and "2+1" are two requests for one object, and the later wins (`:1430`);
* two texts of the command line's help differ from the code: `1~` at
  `cmd/hhfab/main.go:1506` (an external's name is required, `testing.go:1626`)
  and `_le32_ge32` at `:1511`.

### Fairness

`FabReconciler`: the work queue runs a queued request, the watcher's loop ticks,
a started handler goes on, informers, Helm and workload controllers catch up and
a running pod gets the lease (weak fairness). Go's mutex is starvation free, so
`StatusLock` is strongly fair. Edits, upgrades and faults are bounded and not
fair. `Converges` assumes that from some time on there is no more `Disturbed`
step: a start of `Reconcile` from a stale copy, a status write of the watcher in
the middle of `Reconcile`'s own writes, one release replacing the other. The
growing requeue backoff and the 10 second period of the watcher justify the
first two. The third is an assumption the code does not discharge: after an
upgrade that hits the old controller in the middle of an apply, the two releases
can replace one another indefinitely in the model.

`ControlInstall`: systemd restarts a failed recipe (`Restart=on-failure`), a
running one goes on, cert-manager and the controller do their part. Timeouts
count as faults. Two states are known to keep an installation from completing: a
marker left half-written, and included objects that an attempt has created before it
failed. `Completes` is about every other state between two attempts;
`AlwaysCompletes` leaves the condition out, and is what `install_include` refutes.

`VPCSetup`: the program's steps follow one another and time passes, so a timeout
expires; agents and controllers owe nothing. `Connectivity` and `ReleaseTest`:
the program goes on as long as it can (the gateway owes nothing). A call that
never returns is outside the model; the programs pass a context to each, which
ends it with an error, a failed call here.

## 4. Proofs

`FabReconcilerProofs` rests on the assumptions on the constants only (any set of
configurations, any number of components, releases, edits and faults).

* `TypeCorrect`, with `AtComponent`: a handler has a component index exactly
  while it walks over the components.
* `DefaultsFirst`, `Announced`: from `Inv1`, which adds that a copy marked
  latest is the object (`LatestCopies`), that between the pending and the
  applied write the latest copy says not applied (`Pending`), and that a copy
  in that window has the leader's defaults (`Defaulted`). These hold with
  lagging informers too.
* `Enforced`, `ReadyRolledOut`, `GatewayRolledOut`: for `ChartLag = FALSE`, from
  `Inv2`: everything before the reconciler's index is enforced from its copy
  (`EnforcedSoFar`), what a status check has counted so far is still true or its
  write will conflict (`CheckedSoFar`), and an applied object has the release's
  versions (`AppliedRelease`). The invariants alone are not inductive: a status
  check spreads over many steps during which workloads move.

`ControlInstallProofs` proves `TypeCorrect`, `CertSurvivesRetries` and
`MarkerMeansInstalled` from one invariant that says, for every step, what the
attempt must have written before it (`PassStages`, `CAStages`, `ClusterStages`),
and that what any earlier attempt wrote from a CA was the CA of the secret.

`FabRefinementProofs` proves `Refinement`, that `FabReconciler` with its mapping
implements `ConfigService`, for `ChartLag = FALSE`: with a lagging informer it
does not hold (two edits, see above). Each action is a `Request`, `Withdraw`,
`Make`, `Confirm` or leaves what the service shows alone; which one follows from
`Inv1` and `Inv2`, and from `Led`: a handler runs only in a controller that
leads, so what it renders is of a release that exists.

`ReleaseTestProofs` assumes of the suites only `IsPlan`, so these of its theorems
hold for every list of suites and every script a test may ever have:

* `RunnerTyped`; `ReportAgrees` (`CountersAgree`). The counters alone are not
  inductive: a case is counted once because it is still unmarked when its turn
  comes and carries the test's error when the reverts run (`Unmarked`), and
  there is a case for each test (`CasesType`).
* `VerdictIsSound` (`VerdictSound`), from `Accounted`: every failed call is
  counted in an earlier suite, in this one, or is the error the test is about to
  return.
* `SetUpFirst`: no test starts before a successful setup has made a matrix, and
  with `wipeBetweenTests` none with anything of another test in the VPCs; from
  `SetUp`, which says that whatever is missing is asked for again.
  `RevertsRemembered`, an action property: within a suite only a successful
  setup clears `prevRevertsFailed`.

What the tests leave to each other depends on the scripts, but on each one alone:
these hold for every list of suites whose scripts are tidy (`Tidy(C)`, with `C` the
walks; `TidyPlans` has it of the repository's), for any number of tests,
repetitions, failures, skips and deselected tests, where `rt_suites` has one event.

* `VPCsStayClean` (`VPCsClean`), `FabricStaysClean` (`FabricClean`), `RevertsWork`
  (`RevertsPossible`), `MatrixStaysFresh` (`MatrixFresh`), from `TidyInv`: the
  runner is on a walk of the test it is at (`OnWalk`: each of its steps is a move,
  `BodyWalk`, `RevertWalk`), and what is there when a test ends is what the next
  may find, or a setup comes first (`HandedOver`). `RulesKept` has what this
  rests on in the runner: a test the flags rule out does not run, a failed revert
  is a failed cleanup, and suites without a setup come before those with one (with
  the other order, a failed setup of the first would be found by the second).
  What a setup wipes is followed by itself (`WipedEffect`), since no step looks at
  the rest of the fabric to decide what to do with it; this is why a failed
  cleanup of a switch does not let VPCs leak into the next test.

`VPCSetupProofs` rests on `SetupAssumption`: any servers, options, namespaces,
leftovers and requests of the right types, any number of faults and attempts.

* `SetupTyped`; `ReadyIsApplied`, `DeletionsFirst` from `Fabric`: an attempt that
  has passed its first `WaitReady` with nothing changed since has a fabric that
  owes nothing of the kind in question (`Lagging`), and peerings are only pending
  where they were written (`Peered`). The second attempt is what makes this
  necessary: `changed` and `deletedVPCs` start from false, so only the wait at
  its own start covers what the first one left on its way.

`VPCPlanProofs` has the lemmas about one turn of the loop (`Turn`): `SoFar` says
of a plan for the first n servers that its subnets are numbered and loaded in
order, that VLANs and prefixes are taken from the front of the namespaces, and
where each server sits; one turn keeps it. `Apart` is the same for addresses.
`VPCOutcomeProofs` carries them over the steps of `VPCSetup` (`Planning`,
`Separate`) and adds what the API and the servers hold at each step of an attempt
(`Stored`, `Configured`).

* `PlanIsUniform` (`SubnetsUniform`), `PlanServesAll` (`EveryServerServed`).
* `PlanAddresses` (`AddressesDistinct`), if the namespaces repeat no VLAN or
  prefix (the API refuses overlapping ones) and at most 128 servers per subnet
  are asked for. The second is a condition the program does not check: the /31
  of the n-th server is at 2n (`testing.go:883`), and the proof needs just that
  much room.
* `NoDanglingAttachment` (`AttachmentsHaveVPC`), `SuccessIsPlanned`
  (`SuccessMeansPlanned`): over any leftovers and any number of failed attempts.
* `RequestsAreHonoured` (`RequestsHonoured`), for requests with any number of
  options, in any order and repeated at will, where `setup_vpcs` has at most two.
  `ParseOptions` is the loop over the options as a function of their number;
  `Parsed` shows that there is one, and `OptionsRecorded` goes from option to option
  (to the first that would be read wrongly: `Least`): unless one was refused, the
  configuration has a prefix, a NAT type, rules or the gateway mark just if an
  option asked for it (`Recorded`). `RequestHonoured` follows that into the
  peering, and `Asked` follows the peerings through `SetupPeerings`' deletions
  and writes. That a word names a VPC or an external, and not both, is part of
  `SetupAssumption` (`Words`).

`ConnectivityProofs` holds for any choice of the tests and gateways and any number
of faults (`ConnAssumption`), over the lab and the discoveries of `Init`.

* `MatrixCurrent` (`NoStaleEntries`) and `AllServersSeen` (`PassMeansAllSeen`),
  from `Oracle`: at each step, which servers the matrix knows the place of
  (`Current`) and which it has at the right address or recorded as a drop
  (`Complete`, `Placed`). What discovery makes of the servers' answers (`Collected`)
  is proved for any number of any addresses. In
  the overlap test that is all of them but s3 from the move to the rebinding
  (`Scope`), which is what `ReplaceServerEndpoints` and `ReplaceServerDrops` make
  good. Repopulating and every overlay call keep it, for each test's overlay.
* `NothingUnknownProbed` (`NoUnknownTested`): the two exceptions `Validate` makes
  for unknown entries (an external the curl phase need not count on, a default
  entry shadowed by others) are the entries the phases never take a verdict from.
* `PortsServed` (`ListenersServe`), `NoListenerLeft` (`ListenersStopped`) and
  `ProbesTyped`, from `Probing`: a probe keeps its verdict and its listener
  through its follow-up and its retries.

Only model-checked, and why: liveness (`Converges`, `Completes`, `EveryCallEnds`,
`Ends`, `Finishes`) is out of the prover's reach; that the scripts of the
repository's tests are tidy (`TidyPlans`) is a fact about a finite list that TLC
goes through completely; the findings are counterexamples. `PassMeansIntended`
and `FailMeansCause` compare every test's overlay with every gateway of `GwPlane`,
pair by pair; TLC goes through this finite lab completely.

## 5. Plan

1. `FabUpgrade`: the upgrade recipe's waits composed with `FabReconciler`;
   whether a completed upgrade can be undone by the release it replaced.
2. `NodeConfig`: the node-config loop, its files and restarts of k3s.
3. `Downloader`: concurrent downloads into the shared cache.
4. `VLABRun`: VM goroutines, post-processing tasks and their cancellation.
5. Recipe build, OS installer, hydration and `Validate`.

Not modelled: the node recipe, the OS installer, the downloader, the VLAB runner,
configuration and hydration and the recipe build are planned as above. Diagrams,
the command line, support dumps and generated code have no state of their own;
`Inspect` only renders; the contents of Helm values, ignition and unit files and
the parsing of tool output are formatting.
