--------------------------- MODULE RTSingleSubnet ----------------------------
(***************************************************************************)
(* The tests of rt_multi_vpc_single_subnet_suite.go, rt_static_external.go,*)
(* rt_nat_tests.go, rt_nat_external_tests.go, rt_acl_tests.go, and         *)
(* gatewayFailoverTest, as scripts.  n is the number of VPCs the setup has *)
(* made, exts the externals of the fabric: records of name, static, proxy  *)
(* and ns (TRUE when its IPv4 namespace is the VPCs').                     *)
(***************************************************************************)
EXTENDS RTSteps, SequencesExt

populateFullMeshVpcPeerings(n) == UNION {{peering(i, j) : j \in i + 1..n} : i \in 1..n}
populateFullLoopVpcPeerings(n) == {peering(i, (i % n) + 1) : i \in 1..n}
populateAllExternalVpcPeerings(n, exts) ==
    {extPeering(i, e.name) : i \in 1..n, e \in {x \in exts : ~(x.static /\ x.proxy) /\ x.ns}}

\* The suite wipes the peerings between its tests, so they are not reverted.
peerAndTest(xs) == DoSetupPeerings(xs, TRUE) \o <<Populate, CheckMatrix>>

vpcPeeringsStarterTest(n, ext) ==
    <<Check, SkipIf(n < 9)>>
    \o peerAndTest({peering(1, 2), peering(1, 3), peering(3, 5), peering(2, 4), peering(4, 6),
                     peering(5, 6), peering(6, 7), peering(7, 8), peering(8, 9)}
                    \cup {extPeering(i, ext) : i \in {5, 6, 1, 2, 9, 7}})
vpcPeeringsOnlyExternalsTest(n, exts) ==
    LET xs == populateAllExternalVpcPeerings(n, exts)
    IN  <<Check, SkipIf(xs = {})>> \o peerAndTest(xs)
\* One external peering, whichever, is removed at the end.
vpcPeeringsFullMeshAllExternalsTest(n, exts) ==
    LET mesh == populateFullMeshVpcPeerings(n)
        xs == populateAllExternalVpcPeerings(n, exts)
        one == CHOOSE x \in xs : TRUE
    IN  <<Check>> \o peerAndTest(mesh \cup xs)
        \o IF Cardinality(xs) < 2 THEN <<>> ELSE peerAndTest(mesh \cup (xs \ {one}))
vpcPeeringsFullLoopAllExternalsTest(n, exts) ==
    <<Check>> \o peerAndTest(populateFullLoopVpcPeerings(n) \cup populateAllExternalVpcPeerings(n, exts))
vpcPeeringsSergeisSpecialTest(n, ext) ==
    <<Check, SkipIf(n < 6)>>
    \o peerAndTest({peering(1, 2), peering(2, 3), peering(2, 4), peering(6, 5), extPeering(1, ext)})

gatewayPeeringTest(n) == <<Check, SkipIf(n < 2)>> \o peerAndTest({gwPeering(1, 2)})
\* The routes are awaited on the leaves of every VPC before the check.
gatewayPeeringLoopTest(n) ==
    <<Check, SkipIf(n < 3)>>
    \o DoSetupPeerings({gwPeering(i, (i % n) + 1) : i \in 1..n}, TRUE)
    \o <<Populate>> \o [i \in 1..n |-> Check] \o <<CheckMatrix>>
gatewayMixedPeeringLoopTest(n) ==
    <<Check, SkipIf(n < 4)>>
    \o peerAndTest({IF i % 2 = 1 THEN peering(i, (i % n) + 1) ELSE gwPeering(i, (i % n) + 1) : i \in 1..n})
mixedGatewayAndFabricExternals(n, ext) ==
    LET xs == {IF i % 2 = 1 THEN extPeering(i, ext) ELSE gwExtPeering(i, ext) : i \in 1..n}
    IN  <<Check, SkipIf(n < 4)>> \o peerAndTest(xs) \o peerAndTest(xs \cup {peering(1, 2), gwPeering(3, 4)})

\* staticExternalPeeringTest: the check computes its own expectation.
staticExternalPeeringTest(ext) ==
    <<MaySkip, Check, MaySkip, Check, MaySkip>> \o DoSetupPeerings({extPeering(1, ext)}, TRUE)
    \o <<Register(<<Restore({extPeering(1, ext)})>>), Check>>

\* runNATTest and the tests that go through it: the peering of the first two
\* VPCs, another wait, the matrix, the test's overlay, the check.
runNATTest(n) ==
    <<Check, SkipIf(n < 2), Check>> \o DoSetupPeerings({natPeering(1, 2)}, TRUE)
    \o <<Wait, Populate, Overlay, CheckMatrix>>

\* gatewayPeeringOverlapNATTest: a server is moved to a new VPC whose subnet
\* overlaps an existing one.
overlapFind == <<Check, MaySkip, Check, Check>>
overlapCreate ==
    << Create({overlapNS(1)}), Register(<<Undo({overlapNS(1)})>>),
       Create({overlapVPC(1)}), Register(<<Undo({overlapVPC(1)})>>),
       Create({attach(1)}),
       Register(<<Restore({attach(1)}), Wait, Check, Restore({serverNet(1), serverIP(1)}), Rebind>>) >>
overlapMove == <<Check, Wait, Check, Change({serverNet(1), serverIP(1)})>>
overlapTest ==
    <<Check>> \o DoSetupPeerings({natPeering(1, 2)}, TRUE)
    \o <<Wait, Populate, Rebind, Overlay, Overlay, CheckMatrix>>
gatewayPeeringOverlapNATTest == overlapFind \o overlapCreate \o overlapMove \o overlapTest

\* The external NAT tests.  Each skips without its external, without the NAT pool
\* annotated on it, and without a VPC; after the peering and another wait the NAT
\* pool must reach the leaves before the overlay; the source NAT ones ping at the
\* end.  The port forward ones look the external's own address up as well.
overlayExternalSNAT == <<Overlay>>
overlayExternalNoEgress == <<Overlay>>
overlayExternalPortForward == <<Overlay>> \o overlayExternalNoEgress
pingExternalStability == <<Check>>
externalNoNAT(ext) ==
    <<MaySkip, Check, MaySkip>> \o DoSetupPeerings({gwExtPeering(1, ext)}, TRUE) \o <<Wait, Populate, CheckMatrix>>
externalPeered(ext) == DoSetupPeerings({natPeering(1, ext)}, TRUE) \o <<Wait, Populate, Check>>
externalSNAT(ext) ==
    <<MaySkip, Check, MaySkip, Check, MaySkip, Check>> \o externalPeered(ext)
    \o overlayExternalSNAT \o <<CheckMatrix>> \o pingExternalStability
externalPortForward(ext) ==
    <<MaySkip, Check, MaySkip, Check, Check, MaySkip, Check, MaySkip>> \o externalPeered(ext)
    \o overlayExternalPortForward \o <<CheckMatrix>>
bgpExternalNoNatTest(ext) == externalNoNAT(ext)
bgpExternalStaticNATTest(ext) == externalSNAT(ext)
bgpExternalMasqueradeNATTest(ext) == externalSNAT(ext)
bgpExternalPortForwardNATTest(ext) == externalPortForward(ext)
bgpExternalMasqueradePortForwardNATTest(ext) == externalSNAT(ext)
staticExternalNoNATGatewayTest(ext) == externalNoNAT(ext)
staticExternalStaticNATGatewayTest(ext) == externalSNAT(ext)
staticExternalMasqueradeNATGatewayTest(ext) == externalSNAT(ext)
staticExternalPortForwardNATGatewayTest(ext) == externalPortForward(ext)
staticExternalMasqueradePortForwardNATGatewayTest(ext) == externalSNAT(ext)

\* gatewayFailoverTest: a gateway group with two gateways, a peering through it,
\* then the first gateway's spine ports are shut.
failoverGroup ==
    << Check, MaySkip, Check, MaySkip, Create({gwGroup(1)}), Register(<<Undo({gwGroup(1)})>>),
       Change({gateway(1)}), Register(<<Check, Restore({gateway(1)})>>),
       Change({gateway(2)}), Register(<<Check, Restore({gateway(2)})>>) >>
\* The revert registered last but the agents' checks the recovered fabric.
failoverPeer ==
    <<Check>> \o DoSetupPeerings({gwPeering(1, 2)}, TRUE)
    \o <<Register(DoSetupPeerings({}, TRUE)), Populate, Register(<<Wait, Check, CheckMatrix>>)>>
failoverIsolate ==
    << Check, Check, Change({agent(1)}), Register(<<Restore({agent(1), port(1)})>>),
       Change({agent(2)}), Register(<<Restore({agent(2), port(2)})>>),
       Else(Change({port(1)}), 2), Else(Change({port(2)}), 1), CheckMatrix, Bail >>
gatewayFailoverTest == failoverGroup \o failoverPeer \o failoverIsolate

\* The suite; the NAT tests but the overlapping one, and the ACL tests, are all
\* runNATTest with a specification and an overlay of their own (GwPeering).
getNATTestCases(n) ==
    LET nat == Case({"NoGateway"}, runNATTest(n))
    IN  <<nat, nat, nat, Case({"NoGateway"}, gatewayPeeringOverlapNATTest), nat, nat>>
getExternalNATTestCases(bgp, st) ==
    LET B(steps) == Case({"NoGateway", "NoBGPExternals"}, steps)
        S(steps) == Case({"NoGateway", "NoStaticExternals"}, steps)
    IN  << B(bgpExternalNoNatTest(bgp)), B(bgpExternalStaticNATTest(bgp)),
           B(bgpExternalMasqueradeNATTest(bgp)), B(bgpExternalPortForwardNATTest(bgp)),
           B(bgpExternalMasqueradePortForwardNATTest(bgp)),
           S(staticExternalNoNATGatewayTest(st)), S(staticExternalStaticNATGatewayTest(st)),
           S(staticExternalMasqueradeNATGatewayTest(st)), S(staticExternalPortForwardNATGatewayTest(st)),
           S(staticExternalMasqueradePortForwardNATGatewayTest(st)) >>
getACLTestCases(n) == [k \in 1..10 |-> Case({"NoGateway", "NoServers"}, runNATTest(n))]
makePeeringCases(n, exts, bgp, st) ==
    << Case({"NoBGPExternals", "SubInterfaces", "NoServers", "VirtualSwitch"}, vpcPeeringsStarterTest(n, bgp)),
       Case({"NoBGPExternals", "SubInterfaces", "NoServers", "VirtualSwitch"}, vpcPeeringsOnlyExternalsTest(n, exts)),
       Case({"SubInterfaces", "NoServers"}, vpcPeeringsFullMeshAllExternalsTest(n, exts)),
       Case({"SubInterfaces", "NoServers", "VirtualSwitch"}, vpcPeeringsFullLoopAllExternalsTest(n, exts)),
       Case({"NoBGPExternals", "SubInterfaces", "NoServers"}, vpcPeeringsSergeisSpecialTest(n, bgp)),
       Case({"NoGateway", "NoServers"}, gatewayPeeringTest(n)),
       Case({"NoGateway", "NoServers"}, gatewayFailoverTest),
       Case({"NoGateway", "NoServers"}, gatewayPeeringLoopTest(n)),
       Case({"NoGateway", "NoServers"}, gatewayMixedPeeringLoopTest(n)),
       Case({"NoBGPExternals", "NoGateway", "NoServers", "VirtualSwitch"}, mixedGatewayAndFabricExternals(n, bgp)),
       Case({"NoStaticExternals", "SubInterfaces", "NoServers"}, staticExternalPeeringTest(st)) >>
makeMultiVPCSingleSubnetSuite(n, exts, bgp, st) ==
    makePeeringCases(n, exts, bgp, st) \o getNATTestCases(n)
    \o getExternalNATTestCases(bgp, st) \o getACLTestCases(n)
=============================================================================
