------------------------------- MODULE RTSteps -------------------------------
(***************************************************************************)
(* The vocabulary in which the release tests (pkg/hhfab/rt_*.go) are       *)
(* written down as scripts.  A test is a sequence of steps; each step is   *)
(* one call of the test function that can fail or that changes the fabric. *)
(*                                                                         *)
(* The fabric is the set of the ITEMS that differ from what the suite's    *)
(* setup left: <<"agent", i>> the agent of switch i is stopped,            *)
(* <<"port", i>> a port of switch i is shut, <<"vpc", i>> the subnet flags *)
(* or permit lists of a VPC are changed, <<"peering", i, j>> a peering     *)
(* exists, <<"conn", i>> a Connection is deleted, and so on.               *)
(***************************************************************************)
EXTENDS Naturals, Sequences, FiniteSets

Step(op, on) == [op |-> op, on |-> on, err |-> "keep", skip |-> 0, opt |-> 0,
                  clean |-> FALSE, undo |-> <<>>]

\* A call that changes nothing: a List, a Get, an SSH command that only looks.
Check == Step("check", {})
\* An early return with skip = true that the environment may force, and one that
\* depends on a condition known here.
MaySkip == Step("skip", {})
SkipIf(c) == [MaySkip EXCEPT !.err = IF c THEN "must" ELSE "never"]
\* WaitReady and waitAgentGen: they time out while an agent is stopped.
Wait == Step("wait", {})
\* kube.Update, or a command on a switch or a server.
Change(xs) == Step("change", xs)
\* kube.Create of an object that must not be there, kube.Delete of one that must.
Create(xs) == Step("create", xs)
\* Puts back what the test changed, whether or not it did.
Restore(xs) == Step("restore", xs)
\* kube.Delete of what the test created, kube.Create of what it deleted: an
\* error (NotFound, AlreadyExists) when that is not how the object is.
Undo(xs) == Step("undo", xs)
\* Puts lease times back where the subnet has DHCP options to hold them.
Relet(xs) == Step("relet", xs)
\* DoSetupPeerings: deletes every peering that is not requested, creates or
\* updates the requested ones, and waits for the switches if it is asked to.
Unpeer(xs) == Step("unpeer", xs)
Enforce(xs) == Step("change", xs)
DoSetupPeerings(xs, waitReady) ==
    <<Check, Unpeer(xs), Enforce(xs)>> \o IF waitReady THEN <<Wait>> ELSE <<>>
\* matrix.Repopulate; an overlay that decides the pairs behind NAT or an ACL;
\* rebindMatrixServerEndpoint; and the connectivity check against the matrix.
Populate == Step("populate", {})
Overlay == Step("overlay", {})
Rebind == Step("rebind", {})
CheckMatrix == Step("matrix", {})
\* reverts = append(reverts, func ...)
Register(us) == [Step("register", {}) EXCEPT !.undo = us]
\* return err, if an earlier step has recorded one.
Bail == Step("bail", {})

\* The error path of a step: the default returns the reverts gathered so far;
\* Losing returns nil instead of them; Else(s, n) records the error and goes on
\* n steps further down (a deferred cleanup, the next goroutine).
Losing(s) == [s EXCEPT !.err = "drop"]
Else(s, n) == [s EXCEPT !.err = "goto", !.skip = n]
\* A block whose errors all go on `after` steps behind its end: a function with
\* early returns whose caller records the error.
Block(ss, after) == [j \in 1..Len(ss) |-> Else(ss[j], Len(ss) - j + after)]
\* Calls whose errors are collected: none of them keeps the next from being made.
Each(ss) == [j \in 1..Len(ss) |-> Else(ss[j], 0)]
\* A cleanup that runs after an error, too (a defer): an early return ends it.
Deferred(ss) == [j \in 1..Len(ss) |-> [Else(ss[j], Len(ss) - j) EXCEPT !.clean = TRUE]]
\* The n steps from this one on, behind a condition the environment decides.
MaybeAll(s, n) == [s EXCEPT !.opt = n]

\* An entry of a suite: the flags it must not meet in the fabric, and its steps.
Case(flags, steps) == [flags |-> flags, steps |-> steps]
Suite(tests, noSetup, wipe) == [tests |-> tests, noSetup |-> noSetup, wipe |-> wipe]

agent(i) == <<"agent", i>>
port(i) == <<"port", i>>
vpc(i) == <<"vpc", i>>
dhcp(i) == <<"dhcp", i>>
noOptions(i) == <<"nooptions", i>>
lease(i) == <<"lease", i>>
serverIP(i) == <<"serverip", i>>
serverNet(i) == <<"servernet", i>>
serverAddr(i) == <<"serveraddr", i>>
dummy(i) == <<"dummy", i>>
\* The peerings: between two VPCs in the fabric, of a VPC with an external, and
\* the same two through the gateway; "nat" is a gateway peering with NAT or ACL.
peering(i, j) == <<"peering", i, j>>
extPeering(i, e) == <<"extpeer", i, e>>
gwPeering(i, j) == <<"gwpeer", i, j>>
gwExtPeering(i, e) == <<"gwext", i, e>>
natPeering(i, j) == <<"nat", i, j>>
Peerings == {"peering", "extpeer", "gwpeer", "gwext", "nat"}
attach(i) == <<"attach", i>>
connection(i) == <<"conn", i>>
staticExt(i) == <<"staticext", i>>
gwGroup(i) == <<"gwgroup", i>>
gateway(i) == <<"gateway", i>>
overlapNS(i) == <<"overlapns", i>>
overlapVPC(i) == <<"overlapvpc", i>>
fallback(i) == <<"fallback", i>>
roce(i) == <<"roce", i>>
breakout(i) == <<"breakout", i>>
ortVPC(i) == <<"ortvpc", i>>

\* What decides which servers reach which: the kinds BuildConnectivityMatrix
\* derives its verdicts and endpoints from.
Reach(items) ==
    {x \in items : x[1] \in Peerings \cup {"vpc", "attach", "overlapvpc", "serverip", "ortvpc"}}

\* What SetupVPCs puts back: it deletes all peerings, deletes the attachments and
\* VPCs it did not plan, creates or updates the planned ones, and reconfigures
\* every server.  Switches, agents, gateways, namespaces and connections stay.
Wiped ==
    Peerings \cup {"vpc", "dhcp", "nooptions", "lease", "staticlease", "attach", "overlapvpc", "ortvpc", "serverip", "servernet"}

\* SetupVPCs cannot succeed while an agent is stopped (WaitReady) or while a
\* server has lost its connection.
SetupCan(items) == \A x \in items : x[1] \notin {"agent", "conn"}

\* Whether the call can succeed at all in this fabric.
Possible(s, items) ==
    CASE s.op = "wait" -> \A x \in items : x[1] # "agent"
      [] s.op = "change" -> \A x \in s.on : x[1] = "breakout" => roce(x[2]) \notin items
      [] s.op = "create" -> s.on \cap items = {}
      [] s.op = "undo" -> s.on \subseteq items
                          /\ (s.on \cap {attach(1)} # {} => connection(1) \notin items)
      [] OTHER -> TRUE

\* The fabric after a successful call.
Effect(s, items) ==
    CASE s.op \in {"change", "create"} -> items \cup s.on
      [] s.op \in {"restore", "undo"} -> items \ s.on
      [] s.op = "relet" -> IF \E x \in items : x[1] = "nooptions" THEN items ELSE items \ s.on
      [] s.op = "unpeer" -> {x \in items : x[1] \in Peerings => x \in s.on}
      [] OTHER -> items
=============================================================================
