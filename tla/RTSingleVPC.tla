----------------------------- MODULE RTSingleVPC -----------------------------
(* The tests of rt_single_vpc_suite.go and rt_eslag_fallback.go as scripts.  *)
EXTENDS RTSteps, SequencesExt

\* shutDownLinkAndTest: lookups, agent off, port shut, connectivity; the
\* deferred functions bring the port and the agent back (the latter with five
\* tries) and add their errors to the test's.
shutDownLinkAndTest(k) ==
    << Check, Change({agent(k)}), Else(Change({port(k)}), 2),
       Else(CheckMatrix, 0) >>
    \o Deferred(<<Restore({port(k)})>>) \o Deferred(<<Restore({agent(k), port(k)})>>) \o <<Bail>>


\* Two links of one connection.
eslagTest == <<MaySkip, Check>> \o shutDownLinkAndTest(1) \o shutDownLinkAndTest(2)
bundledFailoverTest == <<Check, MaySkip>> \o shutDownLinkAndTest(1) \o shutDownLinkAndTest(2)

\* spineFailoverTest(n): with n spines, all but the first are isolated: agent
\* off, then each port to a leaf.  A lookup that fails at a spine returns nil at
\* once; a port that cannot be shut goes to the cleanup at the end, where
\* every agent but the first is started again (and with it its ports).
isolateSpine(k, n) ==
    << Losing(Check), Losing(Change({agent(k)})),
       Else(Check, 1 + 4 * (n - k) + 1), Else(Change({port(k)}), 4 * (n - k) + 1) >>
recoverSpine(k) == Deferred(<<Restore({agent(k), port(k)})>>)
spineFailoverTest(n) ==
    <<Check, MaySkip>>
    \o FlattenSeq([k \in 1..n - 1 |-> isolateSpine(k + 1, n)])
    \o <<Else(CheckMatrix, 0)>>
    \o FlattenSeq([k \in 1..n - 1 |-> recoverSpine(k + 1)])
    \o <<Bail>>

\* meshFailoverTest: on the first leaf with two mesh links, all but one are shut.
\* The revert that starts all agents is registered first, but an error up to the
\* agent's stop returns nil instead of it.
meshFailoverTest ==
    << Check, MaySkip, Register(<<Restore({agent(1), port(1), agent(2)})>>), MaySkip,
       Losing(Check), Losing(Change({agent(1)})), Change({port(1)}), CheckMatrix >>

noRestrictionsTest == <<Wait, Check>>

\* singleVPCWithRestrictionsTest: isolated, restricted and permit-listed subnets
\* in turn; the revert of the first change covers the later ones.
changeAndTest(xs) == <<Change(xs), Wait, Check>>
singleVPCWithRestrictionsTest ==
    << Check, MaySkip, Change({vpc(1)}), Register(<<Restore({vpc(1)}), Wait>>), Wait, Check >>
    \o changeAndTest({vpc(1)}) \o changeAndTest({vpc(1)}) \o changeAndTest({vpc(1)})

\* dnsNtpMtuTest.  Its revert brings the server's addresses back but clears the
\* DHCP options of every subnet rather than restoring them: where the setup had
\* given the subnets options (hasOptions), those stay lost.
dnsNtpMtuChange(hasOptions) ==
    << Check, MaySkip, Check, Check,
       Change({dhcp(1)} \cup IF hasOptions THEN {noOptions(1)} ELSE {}),
       Register(<<Restore({dhcp(1)}), Wait, Check, Restore({serverNet(1)})>>) >>
\* The address on the interface and its lease time, if it has one; the routes.
fetchAndParseDHCPLease == <<Check>>
checkDHCPAdvRoutes == <<Check>>
\* The lookups' errors are collected, the test fails at the end if there is any.
dnsNtpMtuCheck ==
    <<Wait, Change({serverNet(1)}), Restore({serverNet(1)})>>
    \o Each(<<Check>> \o fetchAndParseDHCPLease \o checkDHCPAdvRoutes) \o <<Bail>>
dnsNtpMtuTest(hasOptions) == dnsNtpMtuChange(hasOptions) \o dnsNtpMtuCheck

\* dhcpRenewalTest: the revert restores the lease times it has saved, and it saves
\* only those of subnets that have DHCP options.
dhcpRenewalChange(hasOptions) ==
    << Check, MaySkip,
       Register(<<IF hasOptions THEN Relet({lease(1)}) ELSE Check, Wait>>),
       Change({lease(1)}) >>
\* On every server: a new lease (over a short one first, in L3 modes) and, half of
\* it later, a renewed one of the same length.  The servers do not stop each other.
waitForDHCPRenewal == <<Check>> \o fetchAndParseDHCPLease \o fetchAndParseDHCPLease
dhcpRenewalCheck == <<Wait>> \o Block(waitForDHCPRenewal, 0) \o <<Bail>>
dhcpRenewalTest(hasOptions) == dhcpRenewalChange(hasOptions) \o dhcpRenewalCheck

\* dhcpStaticLeaseTest: the test's own DHCP range, then two static addresses
\* for one server.  The wait after the first change returns nil reverts.
staticLease(k) == <<"staticlease", k>>
testStaticIPAssignment == <<Change({staticLease(1)}), Wait, Change({serverIP(1)}), Check, Check>>
\* The first attachment to a subnet without host BGP; objects that cannot be read
\* are passed over.  The revert renews the lease of every server of the subnet.
findAnyAttachedServer == <<Check, MaySkip>>
findAllServersInSubnet == <<Check>>
dhcpStaticLeaseTest ==
    findAnyAttachedServer \o
    << Check, Check, Change({staticLease(1)}), Losing(Wait),
       Register(<<Restore({staticLease(1)}), Wait>> \o findAllServersInSubnet
                \o <<Restore({serverIP(1)}), Rebind>>) >>
    \o testStaticIPAssignment \o testStaticIPAssignment

\* roceBasicTest: RoCE is switched on at a leaf (setRoCE: the Switch, then the
\* agent's next generation after the reboot) and stays on.
setRoCE(k, on) == <<Check, Check, IF on THEN Change({roce(k)}) ELSE Restore({roce(k)}), Wait>>
roceBasicTest == <<MaySkip, Check, MaySkip, Check>> \o setRoCE(1, TRUE) \o <<Check, Check, Check>>

\* eslagFallbackTest, for one candidate connection: enableESLAGFallback, then the
\* server's bond is taken apart and restored for the PXE-like attempts.
enableESLAGFallback(k) ==
    << Check, MaybeAll(Change({fallback(k)}), 3),
       Register(<<Check, Restore({fallback(k)}), Wait>>), Wait >>
restoreServerBond(k) == Restore({serverNet(k)})
eslagFallbackPXE(k) == <<Register(<<restoreServerBond(k)>>), Change({serverNet(k)}), Check>>
eslagFallbackTest ==
    <<MaySkip, Check, MaySkip>> \o enableESLAGFallback(1) \o <<Check, Check>> \o eslagFallbackPXE(1)

\* The suite; n is the number of spines, hasOptions whether the setup gives the
\* subnets DHCP options (it does unless there are virtual switches).
makeSingleVPCSuite(n, hasOptions) ==
    << Case({"NoServers"}, noRestrictionsTest),
       Case({"VirtualSwitch", "NoServers"}, singleVPCWithRestrictionsTest),
       Case({}, dnsNtpMtuTest(hasOptions)),
       Case({}, dhcpRenewalTest(hasOptions)),
       Case({}, dhcpStaticLeaseTest),
       Case({"VirtualSwitch", "NoServers"}, eslagTest),
       Case({"VirtualSwitch", "NoServers"}, eslagFallbackTest),
       Case({"VirtualSwitch", "NoServers"}, bundledFailoverTest),
       Case({"VirtualSwitch", "NoFabricLink", "NoServers"}, spineFailoverTest(n)),
       Case({"VirtualSwitch", "NoMeshLink", "NoServers"}, meshFailoverTest),
       Case({"RoCE", "NoServers"}, roceBasicTest) >>
=============================================================================
