-------------------------------- MODULE GwTests --------------------------------
(***************************************************************************)
(* The NAT and ACL tests of the gateway (rt_nat_tests.go, rt_acl_tests.go, *)
(* rt_nat_external_tests.go): the peering each one installs and the        *)
(* overlay that tells the matrix what to expect of it, written down as     *)
(* data.  A test is [vpcp, extp, gwp, over]; over is a sequence of overlay *)
(* calls [op, from, to, pp, verdict, pool].                                *)
(***************************************************************************)
EXTENDS ConnMatrix, SequencesExt

\* The address pools of the NAT configurations and the virtual address of an
\* inverted port-forward; the ports of the probes.
Pool1 == 100
Pool2 == 200
VirtualIP == 300
aclProbePort == 5201
aclAltPort == 6201
aclAltPortRange == 6000..6500
aclUnprobedPort == 9999
ForwardedPort == 15201

-----------------------------------------------------------------------------
(* Peering specs.                                                           *)

Expose(ips, as, nat) == [ips |-> ips, as |-> as, nat |-> nat, dflt |-> FALSE]
DefaultDestination == [ips |-> {}, as |-> 0, nat |-> "none", dflt |-> TRUE]
NoACL == [dflt |-> "none", rules |-> <<>>]
NoNAT == [pool |-> 0, mode |-> "static"]
NATOpts(pool, mode) == [pool |-> pool, mode |-> mode]

\* The two NAT kinds of a combined mode need an expose entry each.
buildExposes(subs, o) ==
    IF o.mode = "masquerade+portforward"
    THEN <<Expose(subs, o.pool, "masquerade"), Expose(subs, o.pool, "portforward")>>
    ELSE <<Expose(subs, o.pool, IF o.pool = 0 THEN "none" ELSE o.mode)>>

\* NAT tests use VPCs with exactly one subnet (vpcFirstSubnet).
SubnetsOf(vpc) == {<<vpc, "default">>}
appendGwPeeringSpec(vpc1, vpc2, o1, o2, acl) ==
    [sides |-> (vpc1 :> buildExposes(SubnetsOf(vpc1), o1))
               @@ (vpc2 :> buildExposes(SubnetsOf(vpc2), o2)),
     acl |-> acl]
appendGwExtPeeringSpec(vpc, x) ==
    [sides |-> (vpc :> buildExposes(SubnetsOf(vpc), NoNAT)) @@ (x :> <<DefaultDestination>>),
     acl |-> NoACL]
appendGwExtPeeringSpecWithNAT(vpc, x, o) ==
    [sides |-> (vpc :> buildExposes(SubnetsOf(vpc), o)) @@ (x :> <<DefaultDestination>>),
     acl |-> NoACL]
appendGwExtInvertedPortForwardPeeringSpec(vpc, x, natIP) ==
    [sides |-> (vpc :> buildExposes(SubnetsOf(vpc), NoNAT))
               @@ (x :> <<Expose({<<x, "external">>}, natIP, "portforward")>>),
     acl |-> NoACL]

appendVpcPeeringSpec(vpc1, vpc2, subs1, subs2) == (vpc1 :> subs1) @@ (vpc2 :> subs2)
appendExtPeeringSpec(vpc, subs, x) == [vpc |-> vpc, subs |-> subs, ext |-> x]

\* A rule matches what its fields name; {} and "any" match everything.
Rule(from, to, act) ==
    [from |-> from, to |-> to, act |-> act, scope |-> "packet", proto |-> "any",
     sports |-> {}, dports |-> {}, srcs |-> {}, dsts |-> {}]
Proto(r, p) == [r EXCEPT !.proto = p]
ToPorts(r, ports) == [r EXCEPT !.dports = ports]
FromPorts(r, ports) == [r EXCEPT !.sports = ports]
ACL(dflt, rules) == [dflt |-> dflt, rules |-> rules]

-----------------------------------------------------------------------------
(* Overlays.                                                                *)

Call(op, from, to) ==
    [op |-> op, from |-> from, to |-> to, pp |-> DefaultPP, verdict |-> "allow", pool |-> 0]
Override(from, to, v) == <<[Call("override", from, to) EXCEPT !.verdict = v]>>
ProtoVerdict(from, to, pp, v) ==
    <<[Call("proto", from, to) EXCEPT !.pp = pp, !.verdict = v]>>
StaticDNAT(from, to, pool) == <<[Call("static", from, to) EXCEPT !.pool = pool]>>
PortForwardDNAT(from, to, pool) == <<[Call("forward", from, to) EXCEPT !.pool = pool]>>
ExternalSNAT(vpc, x) == <<Call("snat", vpc, x)>>
ExternalPortForward(vpc, x) == <<Call("noegress", vpc, x), Call("extforward", vpc, x)>>

setACLDirVerdicts(from, to, icmp, tcp, udp) ==
    ProtoVerdict(from, to, <<"icmp", 0>>, icmp)
    \o ProtoVerdict(from, to, <<"tcp", aclProbePort>>, tcp)
    \o ProtoVerdict(from, to, <<"udp", aclProbePort>>, udp)

\* Mutant: counts from the first host.
calculateStaticNATIPHost(ip, start, pool) == pool + (ip - (start + 1))

\* nat_ip = nat_pool_start + (ip - subnet_start)
calculateStaticNATIP(ip, start, pool) == pool + (ip - start)

NATUpdate(pool, ip, port) == [pool |-> pool, ip |-> ip, port |-> port]

overlayVPCToVPCStaticDNAT(m, from, to, pool) ==
    LET dsts == ServerInVPC(m, to)
    IN  OverlayMatrixNAT(m, ServerInVPC(m, from), dsts,
            [d \in dsts |->
                NATUpdate(FALSE, calculateStaticNATIP(m.ip[d], Start(<<d.vpc, d.sub>>), pool), 0)])

overlayVPCToVPCPortForwardDNAT(m, from, to, pool) ==
    LET dsts == ServerInVPC(m, to)
    IN  OverlayMatrixNAT(m, ServerInVPC(m, from), dsts,
            [d \in dsts |->
                NATUpdate(FALSE, calculateStaticNATIP(m.ip[d], Start(<<d.vpc, d.sub>>), pool),
                          ForwardedPort)])

overrideVPCToVPCVerdict(m, from, to, v) ==
    Add(m, [k \in ServerInVPC(m, from) \X ServerInVPC(m, to) \X {DefaultPP} |->
               Expect(v, Lookup(m, k[1], k[2], DefaultPP).nat)])

setVPCToVPCProtoVerdict(m, from, to, pp, v) ==
    Add(m, [k \in ServerInVPC(m, from) \X ServerInVPC(m, to) \X {pp} |->
               Expect(v, Lookup(m, k[1], k[2], DefaultPP).nat)])

\* Every external other than the one the peering is with.
overlayNoEgress(m, vpc, keep) ==
    Add(m, [k \in ServerInVPC(m, vpc) \X {d \in m.eps : d.ext \notin {"", keep}} \X {DefaultPP} |->
               Expect("deny", NilNAT)])

overlaySNAT(m, vpc, x) ==
    OverlayMatrixNAT(m, ServerInVPC(m, vpc), ExternalNamed(m, x),
                     [d \in ExternalNamed(m, x) |-> NATUpdate(TRUE, 0, 0)])

overlayExtForward(m, vpc, x) ==
    OverlayMatrixNAT(m, ServerInVPC(m, vpc), ExternalNamed(m, x),
                     [d \in ExternalNamed(m, x) |-> NATUpdate(FALSE, VirtualIP, ForwardedPort)])

ApplyCall(m, a) ==
    CASE a.op = "override"   -> overrideVPCToVPCVerdict(m, a.from, a.to, a.verdict)
      [] a.op = "proto"      -> setVPCToVPCProtoVerdict(m, a.from, a.to, a.pp, a.verdict)
      [] a.op = "static"     -> overlayVPCToVPCStaticDNAT(m, a.from, a.to, a.pool)
      [] a.op = "forward"    -> overlayVPCToVPCPortForwardDNAT(m, a.from, a.to, a.pool)
      [] a.op = "snat"       -> overlaySNAT(m, a.from, a.to)
      [] a.op = "noegress"   -> overlayNoEgress(m, a.from, a.to)
      [] a.op = "extforward" -> overlayExtForward(m, a.from, a.to)

\* An overlay that touches no entry is an error of the test.
OverlayFails(m, a) ==
    /\ a.op \in {"static", "forward", "snat", "extforward"}
    /\ \/ ServerInVPC(m, a.from) = {}
       \/ ServerInVPC(m, a.to) \cup ExternalNamed(m, a.to) = {}

-----------------------------------------------------------------------------
(* The tests, on VPCs v1 and v2 (the first two by name) and external x1.    *)

Test(vpcp, extp, gwp, over) == [vpcp |-> vpcp, extp |-> extp, gwp |-> gwp, over |-> over]
GwTest(g, over) == Test({}, {}, {g}, over)
NATTest(o1, o2, over) == GwTest(appendGwPeeringSpec("v1", "v2", o1, o2, NoACL), over)
ACLTest(acl, over) == GwTest(appendGwPeeringSpec("v1", "v2", NoNAT, NoNAT, acl), over)
BothWays(icmp, tcp, udp) ==
    setACLDirVerdicts("v1", "v2", icmp, tcp, udp) \o setACLDirVerdicts("v2", "v1", icmp, tcp, udp)
AllDenied(from, to) == setACLDirVerdicts(from, to, "deny", "deny", "deny")

gatewayPeeringTest == NATTest(NoNAT, NoNAT, <<>>)
switchPeeringTest == Test({appendVpcPeeringSpec("v1", "v2", {}, {})}, {}, {}, <<>>)
subnetPeeringTest == Test({appendVpcPeeringSpec("v1", "v2", {}, {"second"})}, {}, {}, <<>>)
externalPeeringTest == Test({}, {appendExtPeeringSpec("v1", {"default"}, "x1")}, {}, <<>>)

\* A translated peering that no test speaks for, as a user may have created.
unjudgedPeering == NATTest(NATOpts(Pool1, "static"), NoNAT, <<>>)

gatewayPeeringMasqueradeSourceNATTest ==
    NATTest(NATOpts(Pool1, "masquerade"), NoNAT,
            Override("v1", "v2", "allow") \o Override("v2", "v1", "deny"))

gatewayPeeringStaticSourceNATTest ==
    NATTest(NATOpts(Pool1, "static"), NoNAT,
            Override("v1", "v2", "allow") \o StaticDNAT("v2", "v1", Pool1))

gatewayPeeringBidirectionalStaticNATTest ==
    NATTest(NATOpts(Pool1, "static"), NATOpts(Pool2, "static"),
            StaticDNAT("v2", "v1", Pool1) \o StaticDNAT("v1", "v2", Pool2))

\* Between v1 and vo, a VPC with the same addresses that s3 is moved to.
gatewayPeeringOverlapNATTest ==
    GwTest(appendGwPeeringSpec("v1", "vo", NATOpts(Pool1, "static"), NATOpts(Pool2, "static"), NoACL),
           StaticDNAT("vo", "v1", Pool1) \o StaticDNAT("v1", "vo", Pool2))

gatewayPeeringPortForwardNATTest ==
    NATTest(NATOpts(Pool1, "portforward"), NoNAT,
            Override("v1", "v2", "deny") \o PortForwardDNAT("v2", "v1", Pool1))

gatewayPeeringMasqueradePortForwardNATTest ==
    NATTest(NATOpts(Pool1, "masquerade+portforward"), NoNAT,
            Override("v1", "v2", "allow") \o PortForwardDNAT("v2", "v1", Pool1))

gatewayACLDefaultDenyTest ==
    ACLTest(ACL("deny", <<ToPorts(Proto(Rule("v1", "v2", "allow"), "tcp"), {aclUnprobedPort})>>),
            BothWays("deny", "deny", "deny"))

gatewayACLDenyUnlessExposedTest ==
    ACLTest(ACL("exposed", <<Proto(Rule("v1", "v2", "deny"), "udp"),
                             Proto(Rule("v2", "v1", "deny"), "udp")>>),
            BothWays("allow", "allow", "deny"))

gatewayACLExplicitAllowTest ==
    ACLTest(ACL("deny", <<Rule("v1", "v2", "allow"), Rule("v2", "v1", "allow")>>),
            BothWays("allow", "allow", "allow"))

gatewayACLProtocolScopingTest ==
    ACLTest(ACL("deny", <<Proto(Rule("v1", "v2", "allow"), "tcp"),
                          Proto(Rule("v2", "v1", "allow"), "tcp")>>),
            BothWays("deny", "allow", "deny"))

gatewayACLPacketOneWayTest ==
    ACLTest(ACL("deny", <<Rule("v1", "v2", "allow")>>), BothWays("deny", "deny", "deny"))

gatewayACLFlowScopeMasqueradeTest ==
    GwTest(appendGwPeeringSpec("v1", "v2", NATOpts(Pool1, "masquerade"), NoNAT,
               ACL("deny", <<[Rule("v1", "v2", "allow") EXCEPT !.scope = "flow"]>>)),
           setACLDirVerdicts("v1", "v2", "allow", "allow", "allow") \o AllDenied("v2", "v1"))

\* The forward rule selects by subnet name, the reverse one by CIDR.
gatewayACLSubnetScopingTest ==
    ACLTest(ACL("deny", <<[Rule("v1", "v2", "allow") EXCEPT !.srcs = SubnetsOf("v1"),
                                                            !.dsts = SubnetsOf("v2")],
                          [Rule("v2", "v1", "allow") EXCEPT !.srcs = SubnetsOf("v2"),
                                                            !.dsts = SubnetsOf("v1")]>>),
            BothWays("allow", "allow", "allow"))

gatewayACLPortScopingTest ==
    ACLTest(ACL("deny", <<ToPorts(Proto(Rule("v1", "v2", "allow"), "tcp"), aclAltPortRange),
                          FromPorts(Proto(Rule("v2", "v1", "allow"), "tcp"), aclAltPortRange)>>),
            ProtoVerdict("v1", "v2", <<"tcp", aclAltPort>>, "allow")
            \o AllDenied("v1", "v2") \o AllDenied("v2", "v1")
            \o ProtoVerdict("v2", "v1", <<"tcp", aclAltPort>>, "deny"))

AllowProbePort == ToPorts(Proto(Rule("v1", "v2", "allow"), "tcp"), {aclProbePort})
ReturnProbePort == FromPorts(Proto(Rule("v2", "v1", "allow"), "tcp"), {aclProbePort})

gatewayACLPrecedenceAllowThenDenyTest ==
    ACLTest(ACL("deny", <<AllowProbePort, Rule("v1", "v2", "deny"), ReturnProbePort>>),
            setACLDirVerdicts("v1", "v2", "deny", "allow", "deny") \o AllDenied("v2", "v1"))

gatewayACLPrecedenceDenyThenAllowTest ==
    ACLTest(ACL("deny", <<Rule("v1", "v2", "deny"), AllowProbePort, ReturnProbePort>>),
            BothWays("deny", "deny", "deny"))

\* The external tests; the static-external ones differ in the pool only.
ExternalNoNATTest == GwTest(appendGwExtPeeringSpec("v1", "x1"), <<>>)
ExternalSNATTest(mode) ==
    GwTest(appendGwExtPeeringSpecWithNAT("v1", "x1", NATOpts(Pool1, mode)), ExternalSNAT("v1", "x1"))
ExternalPortForwardTest ==
    GwTest(appendGwExtInvertedPortForwardPeeringSpec("v1", "x1", VirtualIP),
           ExternalPortForward("v1", "x1"))

Tests ==
    [unjudged |-> unjudgedPeering, gateway |-> gatewayPeeringTest, switch |-> switchPeeringTest,
     subnet |-> subnetPeeringTest, external |-> externalPeeringTest,
     masquerade |-> gatewayPeeringMasqueradeSourceNATTest,
     static |-> gatewayPeeringStaticSourceNATTest,
     bidirectional |-> gatewayPeeringBidirectionalStaticNATTest,
     overlap |-> gatewayPeeringOverlapNATTest,
     portforward |-> gatewayPeeringPortForwardNATTest,
     masqueradePortForward |-> gatewayPeeringMasqueradePortForwardNATTest,
     defaultDeny |-> gatewayACLDefaultDenyTest,
     denyUnlessExposed |-> gatewayACLDenyUnlessExposedTest,
     explicitAllow |-> gatewayACLExplicitAllowTest,
     protocolScoping |-> gatewayACLProtocolScopingTest,
     oneWay |-> gatewayACLPacketOneWayTest,
     flowScope |-> gatewayACLFlowScopeMasqueradeTest,
     subnetScoping |-> gatewayACLSubnetScopingTest,
     portScoping |-> gatewayACLPortScopingTest,
     allowThenDeny |-> gatewayACLPrecedenceAllowThenDenyTest,
     denyThenAllow |-> gatewayACLPrecedenceDenyThenAllowTest,
     extNoNAT |-> ExternalNoNATTest, extStatic |-> ExternalSNATTest("static"),
     extMasquerade |-> ExternalSNATTest("masquerade"),
     extBoth |-> ExternalSNATTest("masquerade+portforward"),
     extPortForward |-> ExternalPortForwardTest]
=============================================================================
