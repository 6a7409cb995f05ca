------------------------------- MODULE RTNoVPC -------------------------------
(* The tests of rt_no_vpc_suite.go and rt_on_ready_suite.go as scripts.      *)
EXTENDS RTSingleVPC

\* breakoutTest: on every switch RoCE is switched off, an unused port and a mode
\* are chosen (or there is none), the port is set to it, unless it is not in its
\* default mode as it is, and back.  If the first call fails, the port is set
\* back all the same.  The switches' goroutines do not stop each other.
setPortBreakout(step) == <<Check, Check, step, Wait, Wait, Check>>
breakoutFind(k) == setRoCE(k, FALSE) \o <<Check>>
breakoutMode(k) ==
    LET set == Block(setPortBreakout(Change({breakout(k)})), 0)
        back == Deferred(setPortBreakout(Restore({breakout(k)})))
    IN  <<MaybeAll(Head(set), Len(set))>> \o Tail(set) \o back
breakoutSwitch(k) ==
    LET mode == breakoutMode(k)
        find == Block(breakoutFind(k), Len(mode))
    IN  Front(find) \o <<MaybeAll(Last(find), 1 + Len(mode))>> \o mode
breakoutTest == <<Check>> \o breakoutSwitch(1) \o breakoutSwitch(2) \o <<Bail>>

\* The observability tests only read.  Without a target for their system, or when
\* the Fabricator that names it cannot be read, they are skipped.
getObservabilityQueryURLs == <<MaySkip>>
\* The switches are listed and Loki answers at all; then every device is asked
\* for fresh logs, which fails only if none of them has any.
lokiConnects == <<Check, Check>>
lokiLogs == <<Check>>
lokiObservabilityTest == getObservabilityQueryURLs \o lokiConnects \o lokiLogs
\* The same of Prometheus, with one query for all switches; then every gateway
\* must have every metric that is enabled (no gateway, or no metric: nothing to do).
prometheusConnects == <<Check, Check>>
prometheusMetrics == <<Check, Check>>
enabledGatewayMetrics == <<Check, Check>>
checkGatewayMetrics == enabledGatewayMetrics \o <<Check>>
prometheusObservabilityTest ==
    getObservabilityQueryURLs \o prometheusConnects \o prometheusMetrics \o checkGatewayMetrics

\* newOnReadyTest looks at the fabric, refuses one it cannot use (externals of
\* both kinds, seven servers, one of them for host BGP, two on different switches),
\* takes VLANs and prefixes from their namespaces and plans VPCs A to D: up to here
\* an error returns no reverts, and there is nothing to revert.
ortDiscover == <<Check, Check, Check, Check>>
ortAllocate == <<Check, Check>>
ortNamespaces == <<Check, Check>>
ortPlanPairs == <<Check, Check>>
ortPlanSingles == <<Check>>
ortPlan == ortPlanPairs \o ortPlanSingles

\* Its single revert, which wipes all VPCs, attachments and peerings and resets
\* every server, is registered before the first VPC.
ortPeerings == {extPeering(1, "bgp"), extPeering(2, "static"), peering(1, 2), gwPeering(1, 2)}
ortRevert ==
    Register(<< Else(Restore({ortVPC(1), ortVPC(2), attach(1), attach(2)} \cup ortPeerings), 0),
                Else(Restore({serverNet(1)}), 0), Else(Restore({serverNet(2)}), 0) >>)
ortCreate ==
    << ortRevert, Change({ortVPC(1)}), Change({ortVPC(2)}), Create({attach(1)}), Create({attach(2)}), Wait >>
ortServers == <<Else(Change({serverNet(1)}), 0), Else(Change({serverNet(2)}), 0), Bail>>
ortPeer == <<Check>> \o DoSetupPeerings(ortPeerings, TRUE) \o <<Check>>
newOnReadyTest ==
    ortDiscover \o ortAllocate \o ortNamespaces \o ortPlan \o ortCreate \o ortServers \o ortPeer

makeNoVpcsSuite ==
    << Case({"VirtualSwitch"}, breakoutTest),
       Case({"NoLoki"}, lokiObservabilityTest),
       Case({"NoProm"}, prometheusObservabilityTest) >>
makeOnReadyTestSuite == <<Case({}, newOnReadyTest)>>
=============================================================================
