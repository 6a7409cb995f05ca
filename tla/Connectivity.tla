----------------------------- MODULE Connectivity -----------------------------
(***************************************************************************)
(* A connectivity test: discovery, the test's peering, the matrix and its  *)
(* overlay, and the probes that compare the network with it                *)
(* (TestConnectivityWithMatrix), or the older TestConnectivity that asks   *)
(* the API objects pair by pair.                                           *)
(*                                                                         *)
(* Every probe is a goroutine; `jobs' holds the ones that have not         *)
(* finished.  The four phases only read the matrix and only spawn, so one  *)
(* step stands for all four.  Probes share no state but the joined error   *)
(* and semaphores that only delay them, so one order of them stands for    *)
(* every order; what does race with them is the gateway, which puts its    *)
(* port-forward rules in place at any time.  A failing call (an SSH        *)
(* session that three attempts do not open, some lost packets, a command   *)
(* that cannot run) is a fault, MaxFaults of them per run.                 *)
(***************************************************************************)
EXTENDS GwPlane

CONSTANTS Chosen,      \* the tests to run, a set of names of Tests
          Planes,      \* the gateways to run them against
          MaxFaults

ASSUME ConnAssumption == /\ Chosen \subseteq DOMAIN Tests /\ MaxFaults \in Nat
                         /\ Planes \subseteq {"good", "open", "last", "dead", "icmp", "noflow"}

VARIABLES test, plane, opts, legacy,   \* what is run, and against what
          c, addrs,                    \* the API objects, the servers' addresses
          m, calls,                    \* the matrix, and the overlay calls still to make
          pc, listeners, jobs,
          natActive,                   \* the gateway has the port-forward rules in place
          failed, faults

vars == <<test, plane, opts, legacy, c, addrs, m, calls, pc, listeners, jobs, natActive, failed, faults>>
setting == <<test, plane, opts, legacy>>

-----------------------------------------------------------------------------
(* Settings.                                                                *)

\* TestConnectivityOpts; {} in srcs or dsts is no filter.
Options(pings, iperfs, curls, srcs, dsts, all, switches) ==
    [pings |-> pings, iperfs |-> iperfs, curls |-> curls, srcs |-> srcs, dsts |-> dsts,
     requireAll |-> all, switches |-> switches]
AllOptions ==
    {Options(TRUE, TRUE, TRUE, {}, {}, FALSE, "hw"),         \* what the release tests use
     Options(TRUE, FALSE, FALSE, {}, {}, FALSE, "hw"),       \* pings only
     Options(TRUE, TRUE, FALSE, {"s3"}, {"s1"}, FALSE, "vs"),\* one direction of one pair
     Options(FALSE, TRUE, TRUE, {"s1", "s3"}, {}, TRUE, "hw")}

\* prepareConnectivityTest: no minimal speed when all switches are virtual VS.
MinSpeed(o) == o.switches # "vs"

inSources(o, s) == o.srcs = {} \/ s \in o.srcs
inDestinations(o, s) == o.dsts = {} \/ s \in o.dsts

Attach(s, vpc, sub, bgp) == [srv |-> s, vpc |-> vpc, sub |-> sub, hostBGP |-> bgp]
\* s3 has one attachment, or two of a host-BGP subnet over two connections.
Attachments(sub, bgp) ==
    <<Attach("s1", "v1", "default", FALSE), Attach("s2", "v1", "default", FALSE)>>
    \o (IF bgp THEN <<Attach("s3", "v2", sub, TRUE), Attach("s3", "v2", sub, TRUE)>>
               ELSE <<Attach("s3", "v2", sub, FALSE)>>)

RealIP(cl, s) ==
    IF GetAttachedSubnets(cl, s) = {} THEN <<>>
    ELSE <<Start(CHOOSE u \in GetAttachedSubnets(cl, s) : TRUE) + Rank(s)>>
Stray == 999
Leftover == Start(<<"v1", "default">>) + 9
\* What discovery may meet: all servers configured; s2 an ESLAG server of an
\* L3VNI VPC, which never gets an address; an address too many, of no subnet or
\* of the server's own, before or after the right one; the wrong one.
Discoveries(cl) ==
    LET tidy == [s \in Servers |-> RealIP(cl, s)]
    IN  {tidy, [tidy EXCEPT !["s2"] = <<>>],
         [tidy EXCEPT !["s2"] = @ \o <<Leftover>>], [tidy EXCEPT !["s2"] = <<Leftover>> \o @],
         [tidy EXCEPT !["s2"] = @ \o <<Stray>>], [tidy EXCEPT !["s3"] = <<Stray>>]}

Untidy(cl, ad) == \E s \in Servers : ad[s] # RealIP(cl, s)

Cluster(t, bgp, l3) ==
    [att |-> Attachments(IF t = "subnet" THEN "second" ELSE "default", bgp),
     vpcp |-> {}, extp |-> {}, gwp |-> {}, gateway |-> TRUE, l3eslag |-> l3]

PlainTests == {"gateway", "switch", "subnet", "external", "extNoNAT", "unjudged"}

Init ==
    /\ test \in Chosen /\ plane \in Planes /\ opts \in AllOptions /\ legacy \in BOOLEAN
    /\ legacy => test \in PlainTests
    /\ \E bgp \in BOOLEAN, l3 \in {{}, {"s2"}} :
          /\ c = Cluster(test, bgp, l3)
          /\ addrs \in Discoveries(c)
          /\ l3 = {"s2"} <=> addrs["s2"] = <<>>
          \* The odd settings one at a time, to keep the instance small.
          /\ bgp \/ l3 # {} => plane = "good"
          /\ Untidy(c, addrs) => plane = "good" /\ ~bgp
          /\ Untidy(c, addrs) => test \in PlainTests \cup {"masquerade", "overlap", "static"}
    /\ calls = Tests[test].over
    /\ m = [eps |-> {}, ip |-> <<>>, ent |-> <<>>, dropped |-> {}]
    /\ pc = IF legacy THEN "peer" ELSE "collect"
    /\ listeners = {} /\ jobs = {} /\ natActive = FALSE /\ failed = FALSE /\ faults = 0

-----------------------------------------------------------------------------
(* Up to the connectivity check: runNATTest and its kin.                    *)

Fails == failed' = TRUE /\ pc' = "done"
MayFault == faults < MaxFaults /\ faults' = faults + 1

\* At the start of a suite: every attached server is asked for its addresses.
CollectEndpoints ==
    /\ pc = "collect"
    /\ \/ /\ m' = BuildConnectivityMatrix(c, CollectServerEndpoints(c, addrs, Servers))
          /\ pc' = IF test = "overlap" THEN "move" ELSE "peer"
          /\ UNCHANGED <<failed, faults>>
       \/ Fails /\ MayFault /\ UNCHANGED m
    /\ UNCHANGED <<setting, calls, c, addrs, listeners, jobs, natActive>>

\* The overlap test: s3's attachment is replaced and its network reconfigured.
MoveServer ==
    /\ pc = "move"
    /\ c' = [c EXCEPT !.att = SubSeq(@, 1, 2) \o <<Attach("s3", "vo", "default", FALSE)>>]
    /\ addrs' = [addrs EXCEPT !["s3"] = RealIP(c', "s3")]
    /\ pc' = "peer"
    /\ UNCHANGED <<setting, calls, m, listeners, jobs, natActive, failed, faults>>

SetupPeerings ==
    /\ pc = "peer"
    /\ c' = [c EXCEPT !.vpcp = Tests[test].vpcp, !.extp = Tests[test].extp, !.gwp = Tests[test].gwp]
    /\ pc' = IF legacy THEN "legacy" ELSE "populate"
    /\ UNCHANGED <<setting, calls, addrs, m, listeners, jobs, natActive, failed, faults>>

Repopulate ==
    /\ pc = "populate"
    /\ m' = populateConnectivityMatrix(m, c)
    /\ pc' = IF test = "overlap" THEN "rebind" ELSE "overlay"
    /\ UNCHANGED <<setting, calls, c, addrs, listeners, jobs, natActive, failed, faults>>

rebindMatrixServerEndpoint ==
    /\ pc = "rebind"
    /\ LET col == CollectServerEndpoints(c, addrs, {"s3"})
       IN  \/ /\ m' = ReplaceServerDrops(ReplaceServerEndpoints(m, "s3", col.ip), "s3", col.dropped)
              /\ pc' = "overlay"
              /\ UNCHANGED <<failed, faults>>
           \/ Fails /\ MayFault /\ UNCHANGED m
    /\ UNCHANGED <<setting, calls, c, addrs, listeners, jobs, natActive>>

\* One call of the test's overlay after the other.
Overlay ==
    /\ pc = "overlay"
    /\ IF calls = <<>> THEN pc' = "validate" /\ UNCHANGED <<m, calls, failed>>
       ELSE IF OverlayFails(m, Head(calls)) THEN Fails /\ UNCHANGED <<m, calls>>
       ELSE m' = ApplyCall(m, Head(calls)) /\ calls' = Tail(calls) /\ UNCHANGED <<pc, failed>>
    /\ UNCHANGED <<setting, c, addrs, listeners, jobs, natActive, faults>>

-----------------------------------------------------------------------------
(* TestConnectivityWithMatrix.                                              *)

ValidateMatrix ==
    /\ pc = "validate"
    /\ IF Validate(m) THEN pc' = "listen" /\ UNCHANGED failed ELSE Fails
    /\ UNCHANGED <<setting, calls, c, addrs, m, listeners, jobs, natActive, faults>>

persistentIperf3Port == 5201

\* Mutant: the port of the always-on daemon gets a listener too.
WantedAlways(mx) ==
    {<<k[2].srv, k[3][2]>> : k \in {j \in DOMAIN mx.ent :
        IsServer(j[1]) /\ IsServer(j[2]) /\ j[3][1] \in {"tcp", "udp"} /\ j[3][2] # 0}}

\* Mutant: listeners only where traffic is expected to arrive.
WantedAllowed(mx) ==
    {<<k[2].srv, k[3][2]>> : k \in {j \in DOMAIN mx.ent :
        /\ IsServer(j[1]) /\ IsServer(j[2]) /\ mx.ent[j].verdict = "allow"
        /\ j[3][1] \in {"tcp", "udp"} /\ j[3][2] \notin {0, persistentIperf3Port}}}

\* TCP and UDP entries on ports the always-on daemon does not serve.
Wanted(mx) ==
    {<<k[2].srv, k[3][2]>> : k \in {j \in DOMAIN mx.ent :
        /\ IsServer(j[1]) /\ IsServer(j[2])
        /\ j[3][1] \in {"tcp", "udp"} /\ j[3][2] \notin {0, persistentIperf3Port}}}

StartListener ==
    /\ pc = "listen" /\ (opts.pings \/ opts.iperfs)
    /\ \E l \in Wanted(m) \ listeners :
          \/ listeners' = listeners \cup {l} /\ UNCHANGED <<pc, failed, faults>>
          \/ Fails /\ MayFault /\ listeners' = {}
    /\ UNCHANGED <<setting, calls, c, addrs, m, jobs, natActive>>

Job(kind, src, dst, ip, pp, v, bidir) ==
    [kind |-> kind, src |-> src, dst |-> dst, ip |-> ip, pp |-> pp, verdict |-> v, bidir |-> bidir,
     tries |-> 0]

\* The pairs of server endpoints under test.
ServerPairs(mx, o) ==
    {p \in mx.eps \X mx.eps : /\ IsServer(p[1]) /\ IsServer(p[2])
                              /\ ~IsSameEndpointNode(p[1], p[2])
                              /\ inSources(o, p[1].srv) /\ inDestinations(o, p[2].srv)}

TargetIP(mx, e, dst) == IF e.nat.ip # 0 THEN e.nat.ip ELSE mx.ip[dst]

\* Mutant: the reverse pair is taken to be under test.
BidirAnyway(mx, o, src, dst) ==
    LET fwd == Lookup(mx, src, dst, DefaultPP)
        rev == Lookup(mx, dst, src, DefaultPP)
    IN  /\ o.iperfs /\ reachabilityFromExpectation(fwd) /\ reachabilityFromExpectation(rev)
        /\ fwd.nat.ip = 0 /\ rev.nat.ip = 0

\* One iperf3 session drives both directions when both are allowed, both are
\* under test and neither is translated.
Bidir(mx, o, src, dst) ==
    LET fwd == Lookup(mx, src, dst, DefaultPP)
        rev == Lookup(mx, dst, src, DefaultPP)
    IN  /\ o.iperfs /\ reachabilityFromExpectation(fwd) /\ reachabilityFromExpectation(rev)
        /\ inSources(o, dst.srv) /\ inDestinations(o, src.srv)
        /\ fwd.nat.ip = 0 /\ rev.nat.ip = 0

runMatrixServerServerPhase(mx, o) ==
    {LET e == Lookup(mx, p[1], p[2], DefaultPP)
     IN  Job("ping", p[1], p[2], TargetIP(mx, e, p[2]), DefaultPP, e.verdict, Bidir(mx, o, p[1], p[2])) :
        p \in {q \in ServerPairs(mx, o) : /\ ~HasProtoPortEntries(mx, q[1], q[2])
                                          /\ Lookup(mx, q[1], q[2], DefaultPP).nat.port = 0}}

\* One curl per server, allowed if any of its endpoints may count on an external.
runMatrixCurlPhase(mx, o) ==
    LET eps(s) == {ep \in mx.eps : ep.srv = s}
        unknown(s) == \E k \in DOMAIN mx.ent : k[1].srv = s /\ ~IsServer(k[2])
                                               /\ mx.ent[k].verdict = "unknown"
        verdict(s) == IF \E ep \in eps(s) : externalCurlAllowed(mx, ep) THEN "allow"
                      ELSE IF unknown(s) THEN "unknown" ELSE "deny"
    IN  {Job("curl", ep, ep, Internet, DefaultPP, verdict(ep.srv), FALSE) :
            ep \in {e \in mx.eps : IsServer(e) /\ inSources(o, e.srv)}}

\* Entries with a translated port; externals that share a virtual address and
\* port share one probe, and an allow among them wins.
runMatrixPortForwardPhase(mx, o) ==
    LET fwd == {k \in DOMAIN mx.ent : /\ k[3] = DefaultPP /\ IsServer(k[1]) /\ inSources(o, k[1].srv)
                                      /\ mx.ent[k].verdict \in {"allow", "deny"}
                                      /\ mx.ent[k].nat.ip # 0 /\ mx.ent[k].nat.port # 0}
        same(k) == {j \in fwd : /\ j[1].srv = k[1].srv /\ ~IsServer(j[2])
                                /\ mx.ent[j].nat.ip = mx.ent[k].nat.ip
                                /\ mx.ent[j].nat.port = mx.ent[k].nat.port}
    IN  {Job("forward", k[1], k[2], mx.ent[k].nat.ip, <<"tcp", mx.ent[k].nat.port>>,
             mx.ent[k].verdict, FALSE) :
            k \in {j \in fwd : /\ IsServer(j[2]) /\ ~IsSameEndpointNode(j[1], j[2])
                               /\ inDestinations(o, j[2].srv)}}
        \cup
        {Job("forward", k[1], k[1], mx.ent[k].nat.ip, <<"tcp", mx.ent[k].nat.port>>,
             IF \E j \in same(k) : mx.ent[j].verdict = "allow" THEN "allow" ELSE "deny", FALSE) :
            k \in {j \in fwd : ~IsServer(j[2])}}

runMatrixProtoPortPhase(mx, o) ==
    UNION {{LET e == Lookup(mx, p[1], p[2], pp)
            IN  Job("proto", p[1], p[2], TargetIP(mx, e, p[2]), pp, e.verdict, FALSE) :
               pp \in ProtoPortEntries(mx, p[1], p[2])} : p \in ServerPairs(mx, o)}

RunPhases ==
    /\ pc = "listen"
    /\ (opts.pings \/ opts.iperfs) => Wanted(m) \subseteq listeners
    /\ jobs' = (IF opts.pings \/ opts.iperfs
                THEN runMatrixServerServerPhase(m, opts) \cup runMatrixProtoPortPhase(m, opts) ELSE {})
               \cup (IF opts.curls THEN runMatrixCurlPhase(m, opts) ELSE {})
               \cup (IF opts.iperfs THEN runMatrixPortForwardPhase(m, opts) ELSE {})
    /\ pc' = "wait"
    /\ UNCHANGED <<setting, calls, c, addrs, m, listeners, natActive, failed, faults>>

-----------------------------------------------------------------------------
(* The older TestConnectivity: one address per server, no matrix.           *)

\* Servers looked at, and of those the ones that take part.
Looked(o) == {s \in Servers : o.srcs = {} \/ o.dsts = {} \/ s \in o.srcs \cup o.dsts}
Usable(cl, o) ==
    {s \in Looked(o) : getServerAttachState(cl, s).attached /\ ~getServerAttachState(cl, s).unusable}
LegacyRefuses(cl, ad, o) ==
    \/ o.requireAll /\ \E s \in Looked(o) : ~getServerAttachState(cl, s).attached
    \/ \E s \in Usable(cl, o) : Len(ad[s]) # 1

HomeOf(cl, s) == LET u == CHOOSE u \in GetAttachedSubnets(cl, s) : TRUE IN ServerEP(s, u[1], u[2])
LegacyVerdict(answer) == IF answer = "yes" THEN "allow" ELSE "deny"
LegacyFrom(cl, o) == IF o.srcs = {} THEN Usable(cl, o) ELSE o.srcs
LegacyPairs(cl, o) ==
    {p \in LegacyFrom(cl, o) \X (IF o.dsts = {} THEN Usable(cl, o) ELSE o.dsts) :
        p[1] # p[2] /\ (o.pings \/ o.iperfs)}
LegacyCurls(cl, o) == IF o.curls THEN LegacyFrom(cl, o) ELSE {}

\* What the API objects cannot decide is an error and not probed.
LegacyJobs(cl, ad, o) ==
    LET pairs == LegacyPairs(cl, o)
        bidir(a, b) == /\ o.iperfs /\ <<b, a>> \in pairs
                       /\ IsServerReachable(cl, a, b) = "yes" /\ IsServerReachable(cl, b, a) = "yes"
    IN  {Job("ping", HomeOf(cl, p[1]), HomeOf(cl, p[2]), ad[p[2]][1], DefaultPP,
             LegacyVerdict(IsServerReachable(cl, p[1], p[2])), bidir(p[1], p[2])) :
            p \in {q \in pairs : IsServerReachable(cl, q[1], q[2]) # "unsupported"}}
        \cup
        {Job("curl", HomeOf(cl, s), HomeOf(cl, s), Internet, DefaultPP,
             LegacyVerdict(IsExternalSubnetReachable(cl, s)), FALSE) :
            s \in {r \in LegacyCurls(cl, o) : IsExternalSubnetReachable(cl, r) # "unsupported"}}
LegacyUnsupported(cl, o) ==
    \/ \E p \in LegacyPairs(cl, o) : IsServerReachable(cl, p[1], p[2]) = "unsupported"
    \/ \E s \in LegacyCurls(cl, o) : IsExternalSubnetReachable(cl, s) = "unsupported"

TestConnectivity ==
    /\ pc = "legacy"
    /\ \/ LegacyRefuses(c, addrs, opts) /\ Fails /\ UNCHANGED <<jobs, faults>>
       \/ ~LegacyRefuses(c, addrs, opts) /\ Fails /\ MayFault /\ UNCHANGED jobs
       \/ /\ ~LegacyRefuses(c, addrs, opts)
          /\ jobs' = LegacyJobs(c, addrs, opts)
          /\ failed' = LegacyUnsupported(c, opts)
          /\ pc' = "wait"
          /\ UNCHANGED faults
    /\ UNCHANGED <<setting, calls, c, addrs, m, listeners, natActive>>

-----------------------------------------------------------------------------
(* The probes.  A check is told what is expected and what the command       *)
(* showed, and holds unless it reports an error.                            *)

\* "all", "some" or "none" of the packets came back, or ping "norun".
checkPing(expected, seen) ==
    LET ok == seen = "all"
        fail == seen = "none"
    IN  seen # "norun" /\ ok # fail /\ expected = ok
\* nc's own exit code, 0 or 1; 127 when it could not run, -1 for no marker.
checkTCPPort(expected, rc) == rc \in {0, 1} /\ expected = (rc = 0)
\* Datagram loss "low" (below 90%), "high" (99% and up, or an error on the
\* control channel), "middle", or no report.
checkUDPPort(expected, loss) ==
    loss # "noreport" /\ IF expected THEN loss = "low" ELSE loss = "high"
\* "301" is the page asked for, "page" something else, "error" curl's own failure.
checkCurl(expected, seen) ==
    LET ok == seen = "301"
        fail == seen = "error"
    IN  seen # "norun" /\ ok # fail /\ expected = ok

\* What a probe sees of a path that is open or closed, and what else a fault
\* may show it.  An error that iperf3 -u reports, whatever its cause (a busy or
\* dead daemon), counts as loss; no other probe takes a failed command for one.
SeenBy(kind, open) ==
    CASE kind = "ping" -> IF open THEN "all" ELSE "none"
      [] kind = "tcp"  -> IF open THEN 0 ELSE 1
      [] kind = "udp"  -> IF open THEN "low" ELSE "high"
      [] kind = "curl" -> IF open THEN "301" ELSE "error"
FaultySeen(kind) ==
    CASE kind = "ping" -> {"some", "norun"}
      [] kind = "tcp"  -> {127, -1}
      [] kind = "udp"  -> {"high", "middle", "noreport"}
      [] kind = "curl" -> {"page", "norun"}
Judge(kind, expected, seen) ==
    CASE kind = "ping" -> checkPing(expected, seen)
      [] kind = "tcp"  -> checkTCPPort(expected, seen)
      [] kind = "udp"  -> checkUDPPort(expected, seen)
      [] kind = "curl" -> checkCurl(expected, seen)

Serving == [s \in Servers |-> {persistentIperf3Port} \cup {l[2] : l \in {k \in listeners : k[1] = s}}]
Open(j, proto, port) == Delivered(plane, c, addrs, Serving, j.src, j.ip, proto, port)
Expected(j) == j.verdict = "allow"

\* The probe of a job, if its options ask for one: what kind, and whether the
\* path is open.  iperf3 -u opens a TCP control channel to the same port first.
ProbeOf(j) ==
    CASE j.kind = "curl"    -> [kind |-> "curl", open |-> DeliveredOutside(plane, c, j.src, j.ip)]
      [] j.kind = "forward" -> [kind |-> "tcp",
                                open |-> natActive /\ IF j.dst = j.src
                                                      THEN DeliveredOutside(plane, c, j.src, j.ip)
                                                      ELSE Open(j, "tcp", j.pp[2])]
      [] j.kind = "proto" /\ j.pp[1] = "tcp" -> [kind |-> "tcp", open |-> Open(j, "tcp", j.pp[2])]
      [] j.kind = "proto" /\ j.pp[1] = "udp" ->
            [kind |-> "udp", open |-> Open(j, "tcp", j.pp[2]) /\ Open(j, "udp", j.pp[2])]
      [] OTHER -> [kind |-> "ping", open |-> Open(j, "icmp", 0)]
Pings(j) == ProbeOf(j).kind = "ping"

\* runPingIperfPair: after a ping that shows what is expected comes iperf3, but
\* not for the larger name of a pair that one session serves.
Follows(j) ==
    IF /\ j.kind = "ping" /\ opts.iperfs /\ Expected(j)
       /\ ~(j.bidir /\ Rank(j.src.srv) > Rank(j.dst.srv))
    THEN {[j EXCEPT !.kind = "iperf"]} ELSE {}

NextJob == CHOOSE j \in jobs : \/ Cardinality(jobs) = 1
                               \/ j.kind # "forward" \/ \A k \in jobs : k.kind = "forward"
Done(j, ok) == /\ jobs' = (jobs \ {j}) \cup (IF ok THEN Follows(j) ELSE {})
               /\ failed' = (failed \/ ~ok)
ProbeFrame == UNCHANGED <<setting, calls, c, addrs, m, pc, listeners, natActive>>

\* An allowed port-forward is retried until the rule is there (PortForwardTimeout
\* otherwise); every other probe runs once.
Probe ==
    /\ pc = "wait" /\ jobs # {} /\ NextJob.kind # "iperf"
    /\ LET j == NextJob
           p == ProbeOf(j)
       IN  \/ Pings(j) /\ ~opts.pings /\ Done(j, TRUE) /\ UNCHANGED faults
           \/ /\ ~(Pings(j) /\ ~opts.pings)
              /\ j.kind = "forward" /\ Expected(j) => natActive
              /\ \/ Done(j, Judge(p.kind, Expected(j), SeenBy(p.kind, p.open))) /\ UNCHANGED faults
                 \/ \E seen \in FaultySeen(p.kind) :
                        Done(j, Judge(p.kind, Expected(j), seen)) /\ MayFault
    /\ ProbeFrame

\* Mutant: no deadline.
PortForwardForever == pc = "wait" /\ jobs # {} /\ FALSE /\ UNCHANGED vars

PortForwardTimeout ==
    /\ pc = "wait" /\ jobs # {} /\ NextJob.kind = "forward" /\ Expected(NextJob) /\ ~natActive
    /\ Done(NextJob, FALSE) /\ faults' = faults + 1
    /\ ProbeFrame

iperf3SpeedRetries == 2

\* A send speed below the minimum is worth another attempt; a receive speed or
\* a command that fails is not.
RunIPerf ==
    /\ pc = "wait" /\ jobs # {} /\ NextJob.kind = "iperf"
    /\ LET j == NextJob
       IN  \/ Done(j, Open(j, "tcp", persistentIperf3Port)) /\ UNCHANGED faults
           \/ /\ MinSpeed(opts) /\ j.tries < iperf3SpeedRetries
              /\ jobs' = (jobs \ {j}) \cup {[j EXCEPT !.tries = @ + 1]}
              /\ UNCHANGED <<failed, faults>>
           \/ Done(j, FALSE) /\ MayFault
    /\ ProbeFrame

\* The gateway, some time after the peering was configured.
ProgramNAT ==
    /\ pc = "wait" /\ ~natActive /\ \E j \in jobs : j.kind = "forward"
    /\ natActive' = TRUE
    /\ UNCHANGED <<setting, calls, c, addrs, m, pc, listeners, jobs, failed, faults>>

\* Mutant: no teardown.
FinishLeaves ==
    /\ pc = "wait" /\ jobs = {} /\ pc' = "done"
    /\ UNCHANGED <<setting, calls, c, addrs, m, listeners, jobs, natActive, failed, faults>>

\* The listeners are stopped; one that cannot be is only warned about.
Finish ==
    /\ pc = "wait" /\ jobs = {}
    /\ pc' = "done"
    /\ \/ listeners' = {} /\ UNCHANGED faults
       \/ listeners # {} /\ MayFault /\ \E l \in listeners : listeners' = {l}
    /\ UNCHANGED <<setting, calls, c, addrs, m, jobs, natActive, failed>>

Terminating == pc = "done" /\ UNCHANGED vars

Steps ==
    \/ CollectEndpoints \/ MoveServer \/ SetupPeerings \/ Repopulate \/ rebindMatrixServerEndpoint
    \/ Overlay \/ ValidateMatrix \/ StartListener \/ RunPhases \/ TestConnectivity
    \/ Probe \/ PortForwardTimeout \/ RunIPerf \/ Finish
Next == Steps \/ ProgramNAT \/ Terminating

\* The test program goes on as long as it can; the gateway owes it nothing.
Spec == Init /\ [][Next]_vars /\ WF_vars(Steps)

-----------------------------------------------------------------------------
(* Properties.                                                              *)

\* Every variable has its type; no probe is tried more often than the code allows.
TypeOK ==
    /\ test \in Chosen /\ plane \in Planes /\ opts \in AllOptions /\ legacy \in BOOLEAN
    /\ pc \in {"collect", "move", "peer", "populate", "rebind", "overlay", "validate", "listen",
               "legacy", "wait", "done"}
    /\ listeners \subseteq (Servers \X {aclAltPort})
    /\ \A j \in jobs : j.tries \in 0..iperf3SpeedRetries
    /\ natActive \in BOOLEAN /\ failed \in BOOLEAN /\ faults \in Nat

\* What the test is about, said without the matrix.  The address to use for a
\* server is the one at which a working gateway delivers anything, if there is one.
AllPorts == [s \in Servers |-> {persistentIperf3Port, aclAltPort}]
Reaches(pl, src, ip, x) == Delivered(pl, c, addrs, AllPorts, src, ip, x[1], x[2])
Classes == {<<"icmp", 0>>, <<"tcp", 5201>>, <<"udp", 5201>>, <<"tcp", aclAltPort>>}
AddressesOf(s) == {addrs[s][1]} \cup {p + (addrs[s][1] - Start(<<"v1", "default">>)) : p \in {Pool1}}
                  \cup {Pool2 + Rank(s)}
UsableAddress(src, s) ==
    LET good == {ip \in AddressesOf(s) :
                    \E x \in Classes \cup {<<"tcp", ForwardedPort>>} : Reaches("good", src, ip, x)}
    IN  IF good = {} THEN addrs[s][1] ELSE CHOOSE ip \in good : TRUE

Present == {s \in Servers : GetAttachedSubnets(c, s) # {} /\ addrs[s] # <<>>}
Home(s) == HomeOf(c, s)
HasACL == \E g \in Tests[test].gwp : g.acl # NoACL
Forwarded(src, s) == Reaches("good", src, UsableAddress(src, s), <<"tcp", ForwardedPort>>)

\* The kinds of traffic the test has to look at between two servers.
Required(a, b) ==
    LET src == Home(a)
        good(x, y) == Reaches("good", Home(x), UsableAddress(Home(x), y), <<"tcp", 5201>>)
        served == /\ good(b, a) /\ Rank(a) > Rank(b)
                  /\ inSources(opts, b) /\ inDestinations(opts, a)
    IN  IF HasACL /\ Home(a).vpc # Home(b).vpc
        THEN (IF opts.pings THEN {<<"icmp", 0>>} ELSE {})
             \cup (IF opts.pings \/ opts.iperfs
                   THEN {<<"tcp", 5201>>, <<"udp", 5201>>}
                        \cup (IF test = "portScoping" THEN {<<"tcp", aclAltPort>>} ELSE {}) ELSE {})
        ELSE IF Forwarded(src, b)
        THEN IF opts.iperfs THEN {<<"tcp", ForwardedPort>>} ELSE {}
        ELSE (IF opts.pings THEN {<<"icmp", 0>>} ELSE {})
             \cup (IF opts.iperfs /\ good(a, b) /\ ~served THEN {<<"tcp", 5201>>} ELSE {})

\* The pairs of servers and the kinds of traffic that the network treats in
\* another way than a working one; whether it treats the outside so.
Differing ==
    {d \in Present \X Present \X (Classes \cup {<<"tcp", ForwardedPort>>}) :
        /\ d[1] # d[2] /\ inSources(opts, d[1]) /\ inDestinations(opts, d[2])
        /\ d[3] \in Required(d[1], d[2])
        /\ LET ip == UsableAddress(Home(d[1]), d[2])
           IN  Reaches(plane, Home(d[1]), ip, d[3]) # Reaches("good", Home(d[1]), ip, d[3])}
OutsideDiffers ==
    \E a \in Present, ip \in (IF opts.curls THEN {Internet} ELSE {})
                           \cup (IF opts.iperfs THEN {VirtualIP} ELSE {}) :
       /\ inSources(opts, a)
       /\ DeliveredOutside(plane, c, Home(a), ip) # DeliveredOutside("good", c, Home(a), ip)
Differs == Differing # {} \/ OutsideDiffers

\* What a working network denies and a failed iperf3 -u may seem to confirm.
UDPDenied ==
    {d \in Differing : /\ d[3][1] = "udp"
                       /\ ~Reaches("good", Home(d[1]), UsableAddress(Home(d[1]), d[2]), d[3])}

\* A test that passes saw the network behave as its peering asks, between every
\* two servers it was to look at and for every kind of traffic it was to try.  No
\* missing entry of the oracle is ever taken for a deny, and a failed command
\* only where iperf3 -u is to be denied, once for every one that fails.
PassMeansIntended ==
    pc = "done" /\ ~failed =>
        ~OutsideDiffers /\ Differing \subseteq UDPDenied /\ Cardinality(UDPDenied) <= faults

\* Discovery cannot place one of the server's addresses.
Misplaced(s) ==
    \E k \in DOMAIN addrs[s] : \A u \in GetAttachedSubnets(c, s) : ~Holds(u, addrs[s][k])

\* A test that fails has a reason: a fault, a server with an address of none of
\* its subnets (for the older test, with more than one address), a server
\* RequireAllServers misses, a network that does not do what the peering asks,
\* or a peering nobody told the oracle about.  The matrix and its overlays never
\* accuse a working gateway.
FailMeansCause ==
    pc = "done" /\ failed =>
        \/ faults > 0 \/ Differs
        \/ \E s \in Servers : Misplaced(s) \/ (legacy /\ Len(addrs[s]) > 1)
        \/ legacy /\ opts.requireAll
        \/ test = "unjudged"

\* Every probe has a definite expectation: what the API objects cannot decide
\* ("unsupported") is either settled by the test's overlay or refused.
NoUnknownTested == \A j \in jobs : j.verdict # "unknown"

\* A TCP or UDP probe of a port, expected to be denied or not, has a listener
\* behind it: otherwise a missing server would look like a working ACL.
ListenersServe ==
    \A j \in jobs : j.kind = "proto" /\ j.pp[1] # "icmp" => j.pp[2] \in Serving[j.dst.srv]

\* No listener outlives its test, whichever way the test ends, unless stopping it failed.
ListenersStopped == pc = "done" /\ listeners # {} => faults > 0

\* Every entry is about two endpoints of the matrix, also after a server moved
\* to another VPC, and the addresses it would be probed at are the present ones.
NoStaleEntries ==
    pc \in {"overlay", "validate", "listen", "wait"} /\ ~legacy =>
        /\ \A k \in DOMAIN m.ent : {k[1], k[2]} \subseteq m.eps
        /\ \A ep \in m.eps : IsServer(ep) => /\ m.ip[ep] \in ToSet(addrs[ep.srv])
                                             /\ <<ep.vpc, ep.sub>> \in GetAttachedSubnets(c, ep.srv)

\* A matrix test that passes had every server with an address in it, at the
\* first of its addresses, and all of them belong to the subnet it is attached
\* to.  A second address there is not looked at and not refused.
PassMeansAllSeen ==
    pc = "done" /\ ~failed /\ ~legacy =>
        \A s \in Present : \E ep \in m.eps :
            /\ ep.srv = s /\ m.ip[ep] = addrs[s][1]
            /\ \A k \in DOMAIN addrs[s] : Holds(<<ep.vpc, ep.sub>>, addrs[s][k])

\* A connectivity test ends, with a port-forward the gateway never programs too.
Ends == <>(pc = "done")
=============================================================================
