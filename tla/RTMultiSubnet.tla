---------------------------- MODULE RTMultiSubnet ----------------------------
(* The tests of rt_multi_vpc_multi_subnet_suite.go as scripts.               *)
EXTENDS RTSingleVPC

\* The revert of both peering tests: DoSetupPeerings with nothing requested.
removePeerings == Register(DoSetupPeerings({}, TRUE))

\* multiSubnetsIsolationTest: two peered VPCs; the second revert puts both VPCs
\* back, trying the second VPC even if the first fails, and does not wait.
restoreVPCs == Register(<<Else(Restore({vpc(1)}), 0), Else(Restore({vpc(2)}), 0)>>)
isolateAndTest(k) == <<Change({vpc(k)}), Wait, Check>>
multiSubnetsIsolationTest ==
    <<Check, MaySkip>> \o DoSetupPeerings({peering(1, 2)}, FALSE) \o <<removePeerings>>
    \o << Change({vpc(1)}), restoreVPCs, Wait, Check >> \o isolateAndTest(1) \o isolateAndTest(2)

multiSubnetsSubnetFilteringTest ==
    <<Check, MaySkip>> \o DoSetupPeerings({peering(1, 2)}, TRUE)
    \o <<removePeerings, Populate, CheckMatrix>>

pingStaticExternal == <<Check>>

\* staticExternalTest: a server's unbundled connection is replaced by a static
\* external connection.  Its attachment and its connection are deleted, the
\* static external is created, ...
staticExternalFind == <<Check, MaySkip, Check, Check, MaySkip, Check>>
staticExternalReplace ==
    << Create({attach(1)}),
       Register(<<Undo({attach(1)}), Wait, Wait, Check, Restore({serverNet(1)})>>),
       Create({connection(1)}),
       Register(<<Undo({connection(1)}), Wait, Wait>>),
       Wait, Wait, Check,
       Create({staticExt(1)}),
       Register(<<Undo({staticExt(1)})>>),
       Wait, Wait >>
\* ... the server gets its addresses by hand (one revert covers them, registered
\* after the last of them), ...
staticExternalServer ==
    << Change({serverNet(1)}), Change({serverAddr(1)}), Check, Check, Create({dummy(1)}), Check,
       Register(<<Undo({serverAddr(1)}), Undo({dummy(1)}), Check>>) >>
\* ... and the external is reached, then deleted, created outside the VPC, and
\* reached again.
staticExternalReach ==
    <<Check, Check>> \o pingStaticExternal \o pingStaticExternal
    \o <<Undo({staticExt(1)}), Wait, Create({staticExt(1)}), Wait, Check>>
    \o pingStaticExternal \o pingStaticExternal
staticExternalTest ==
    staticExternalFind \o staticExternalReplace \o staticExternalServer \o staticExternalReach

makeMultiVPCMultiSubnetSuite ==
    << Case({}, noRestrictionsTest),
       Case({"VirtualSwitch", "NoServers"}, multiSubnetsIsolationTest),
       Case({"VirtualSwitch", "SubInterfaces", "NoServers"}, multiSubnetsSubnetFilteringTest),
       Case({"VirtualSwitch", "NoServers"}, staticExternalTest) >>
=============================================================================
