------------------------------- MODULE RTPlans -------------------------------
(***************************************************************************)
(* Runs of the release tests on two fabrics.  A plan is a record of suites *)
(* in the order they run, skipFlags of the fabric, failFast                *)
(* (rtOpts.FailFast), tolerated, the kinds of items a test is known to     *)
(* leave behind, and maxEvents, the bound on failed calls, skips and       *)
(* deselected tests.                                                       *)
(***************************************************************************)
EXTENDS RTSelect, RTMultiSubnet, RTNoVPC, RTSingleSubnet

Attached(static, proxy, hw) == {[static |-> static, proxy |-> proxy, hw |-> hw]}
\* A lab with two spines, a mesh link, two gateways and externals of both kinds
\* (a proxied and a virtual one are not chosen).
Lab ==
    [ servers |-> 9, mesh |-> TRUE, spine |-> TRUE, gwEnabled |-> TRUE, gateways |-> 2,
      switches |-> { [leaf |-> TRUE, virtual |-> FALSE, subIf |-> TRUE, roce |-> TRUE],
                     [leaf |-> FALSE, virtual |-> FALSE, subIf |-> FALSE, roce |-> FALSE] },
      externals |-> << [name |-> "virtual", static |-> FALSE, hw |-> FALSE, attach |-> Attached(FALSE, FALSE, FALSE)],
                       [name |-> "proxied", static |-> TRUE, hw |-> TRUE, attach |-> Attached(TRUE, TRUE, TRUE)],
                       [name |-> "bgp", static |-> FALSE, hw |-> TRUE, attach |-> Attached(FALSE, FALSE, TRUE)],
                       [name |-> "static", static |-> TRUE, hw |-> FALSE, attach |-> Attached(TRUE, FALSE, TRUE)] >>,
      loki |-> TRUE, prom |-> TRUE ]
\* A virtual lab: no gateway, no observability, one external.
Virtual ==
    [ Lab EXCEPT !.gwEnabled = FALSE, !.loki = FALSE, !.prom = FALSE,
                 !.switches = {[leaf |-> TRUE, virtual |-> TRUE, subIf |-> TRUE, roce |-> FALSE]},
                 !.externals = SubSeq(@, 1, 1) ]
LabFlags == skipFlags(Lab)
VirtualFlags == skipFlags(Virtual)

\* The externals the peering tests see: one more in another namespace.
LabExternals ==
    { [name |-> "bgp", static |-> FALSE, proxy |-> FALSE, ns |-> TRUE],
      [name |-> "other", static |-> FALSE, proxy |-> FALSE, ns |-> FALSE],
      [name |-> "proxied", static |-> TRUE, proxy |-> TRUE, ns |-> TRUE] }
LabExt == findExternals(Lab.externals)

NoVPC == Suite(makeNoVpcsSuite, TRUE, FALSE)
SingleVPC(n, opts) == Suite(makeSingleVPCSuite(n, opts), FALSE, FALSE)
MultiSubnet == Suite(makeMultiVPCMultiSubnetSuite, FALSE, FALSE)
SingleSubnet(n) == Suite(makeMultiVPCSingleSubnetSuite(n, LabExternals, LabExt.bgp, LabExt.static), FALSE, TRUE)

Plan(suites, skip, failFast, tolerated, n) ==
    [suites |-> suites, count |-> Len(suites), skipFlags |-> skip, failFast |-> failFast, tolerated |-> tolerated, maxEvents |-> n]

\* The sequence RunReleaseTestSuites runs, in two parts, on the lab; all of it on
\* the virtual lab, with FailFast; the on-ready test; and the single-VPC suite
\* where nothing but the loss of the options is tolerated.
AllPlans ==
    << Plan(<<NoVPC, SingleVPC(2, TRUE)>>, LabFlags, FALSE, {"roce", "staticlease", "nooptions", "lease"}, 1),
       Plan(<<MultiSubnet, SingleSubnet(9)>>, LabFlags, FALSE, {"peering", "serveraddr", "dummy", "staticext"}, 1),
       Plan(<<NoVPC, SingleVPC(2, FALSE), MultiSubnet, SingleSubnet(3)>>, VirtualFlags, TRUE, {"staticlease", "lease"}, 1),
       Plan(<<Suite(makeOnReadyTestSuite, TRUE, FALSE)>>, LabFlags, FALSE, {}, 2),
       Plan(<<SingleVPC(2, TRUE)>>, LabFlags, FALSE, {"nooptions"}, 0) >>
=============================================================================
