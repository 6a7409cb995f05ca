------------------------------- MODULE VPCPlan -------------------------------
(***************************************************************************)
(* What SetupVPCs (pkg/hhfab/testing.go) decides before it touches the     *)
(* API: which servers share a subnet, which subnets share a VPC, and the   *)
(* prefix, the VLAN, the attachments and the network configuration of each *)
(* server.  Everything is a function of the servers, the namespaces and    *)
(* the options.                                                            *)
(*                                                                         *)
(* A server is [id, conns], conns the kinds of its connections in the      *)
(* order the API lists them; connection i of server s is <<s, i>>.  A /24  *)
(* prefix is a number p that stands for the addresses 256 * p onwards.     *)
(***************************************************************************)
EXTENDS Integers, Sequences, FiniteSets, SequencesExt

PrefixSize == 256

\* The VLANs of the ranges of a VLANNamespace and the /24 prefixes inside the
\* prefixes of an IPv4Namespace, in the order the iterators yield them.
VLANsFrom(ranges) ==
    FoldLeft(LAMBDA vs, r : vs \o [i \in 1..(r.to - r.from + 1) |-> r.from + i - 1], <<>>, ranges)
\* A prefix longer than a /24 is passed over.
SubPrefixesFrom(prefixes) ==
    FoldLeft(LAMBDA ps, p : ps \o [i \in 1..p.count |-> p.first + i - 1], <<>>, prefixes)

\* --- options --------------------------------------------------------------
ValidOptions(o) == o.perSubnet > 0 /\ o.perVPC > 0 /\ o.hash /\ o.mode \in {"l2vni", "l3vni"}

\* Point-to-point links are for Cumulus, and forced on a fabric of nothing else.
P2PRefused(o, fabric) == o.p2p /\ fabric # "cumulus"
P2PForced(o, fabric) == [o EXCEPT !.p2p = @ \/ fabric = "cumulus"]

ServerFacingMTU == 9036
\* The MTU is left alone on SONiC VS, or held at 1500 when DHCP options are sent
\* anyway (the API would fill in the jumbo default).
ResolveDefaultServerMTU(o, fabric) ==
    [o EXCEPT !.mtu = IF @ # 0 THEN @
                      ELSE IF fabric # "vs" THEN ServerFacingMTU
                      ELSE IF o.dns THEN 1500 ELSE 0]

\* --- commands for a server ------------------------------------------------
Command(kind, vlan, mtu, base, bits, conns) ==
    [kind |-> kind, vlan |-> vlan, mtu |-> mtu, base |-> base, bits |-> bits, conns |-> conns]
NoCommand == Command("error", 0, 0, 0, 0, {})

\* Mutant: every server takes the first address of the subnet.
SameVIP(sub, conns, offset) ==
    Command("hostbgp", sub.vlan, 0, PrefixSize * sub.prefix + 1, 32, conns)
\* One host route per server, over all of its links.
getServerHostBGPCmd(sub, conns, offset) ==
    Command("hostbgp", sub.vlan, 0, PrefixSize * sub.prefix + offset, 32, conns)

\* A /31 needs a plain link, a VLAN a plain link or a bond.
GetServerNetconfCmd(o, kind, sub, conn, p2p) ==
    IF p2p # -1 THEN IF kind = "unbundled" THEN Command("p2p", 0, 0, p2p, 31, {conn}) ELSE NoCommand
    ELSE CASE kind = "unbundled" -> Command("vlan", sub.vlan, o.mtu, PrefixSize * sub.prefix, 24, {conn})
           [] kind \in {"bundled", "eslag"} ->
                  Command("bond", sub.vlan, o.mtu, PrefixSize * sub.prefix, 24, {conn})
           [] OTHER -> NoCommand

\* --- the plan -------------------------------------------------------------
\* subnets in the order they are made, the attachments, and a command for every
\* server that is not passed over.
EmptyPlan ==
    [err |-> FALSE, inSubnet |-> 0, subnet |-> 0, vpc |-> 0, bgpDone |-> FALSE,
     subnets |-> <<>>, attaches |-> {}, confs |-> <<>>]

\* The closure nextSubnet: the next server starts a fresh subnet, and a fresh VPC
\* once this one is full.
nextSubnet(o, pl) ==
    IF pl.subnet + 1 >= o.perVPC
    THEN [pl EXCEPT !.inSubnet = 0, !.subnet = 0, !.vpc = @ + 1, !.bgpDone = FALSE]
    ELSE [pl EXCEPT !.inSubnet = 0, !.subnet = @ + 1]

\* The subnet the counters point at, if it is there already.
Current(pl) ==
    {pl.subnets[i] : i \in {j \in DOMAIN pl.subnets : pl.subnets[j].vpc = pl.vpc /\ pl.subnets[j].subnet = pl.subnet}}

\* Only L2VNI VPCs take a server behind an ESLAG.  A connection with more than one
\* attachment, at which the look-up fails, and several connections of which an
\* attached one comes before the ESLAG, are not among the servers of this model.
PassedOver(o, s) == o.mode # "l2vni" /\ \E i \in DOMAIN s.conns : s.conns[i] = "eslag"
Multihomed(s) == Len(s.conns) > 1
BadConnections(s) ==
    \/ s.conns = <<>>
    \/ Multihomed(s) /\ \E i \in DOMAIN s.conns : s.conns[i] # "unbundled"

WantsHostBGP(o, pl, s) ==
    Multihomed(s) \/ (o.hostBGP /\ ~pl.bgpDone /\ s.conns[1] = "unbundled")

\* Mutants: one server too many in a subnet; a subnet shared by both kinds.
RollLate(o, pl) == IF pl.inSubnet > o.perSubnet THEN nextSubnet(o, pl) ELSE pl
PlaceAnyway(o, pl, bgp) == pl
\* Where the server goes: after a full subnet into the next one, and never into
\* a subnet of the other kind.
Roll(o, pl) == IF pl.inSubnet >= o.perSubnet THEN nextSubnet(o, pl) ELSE pl
Place(o, pl, bgp) ==
    IF \E c \in Current(pl) : c.hostBGP # bgp THEN nextSubnet(o, pl) ELSE pl

\* A new subnet takes the next prefix and the next VLAN; both may run out.
EnsureSubnet(o, ns, pl, bgp) ==
    LET n == Len(pl.subnets) + 1
        dhcp == ~bgp /\ ~o.p2p
    IN IF Current(pl) # {} THEN pl
       ELSE IF n > Len(ns.prefixes) \/ n > Len(ns.vlans) THEN [pl EXCEPT !.err = TRUE]
       ELSE [pl EXCEPT !.subnets = Append(@,
                [vpc |-> pl.vpc, subnet |-> pl.subnet, prefix |-> ns.prefixes[n], vlan |-> ns.vlans[n],
                 hostBGP |-> bgp, dhcp |-> dhcp,
                 dhcpMTU |-> IF ~dhcp \/ ~(o.dns \/ o.mtu > 0) THEN -1 ELSE o.mtu])]

Attach(o, pl, s, bgp) ==
    LET sub == CHOOSE c \in Current(pl) : TRUE
        p2p == IF o.p2p /\ ~bgp THEN PrefixSize * sub.prefix + 2 * pl.inSubnet ELSE -1
        conns == {<<s.id, i>> : i \in IF Multihomed(s) THEN DOMAIN s.conns ELSE {1}}
        cmd == IF bgp THEN getServerHostBGPCmd(sub, conns, pl.inSubnet + 1)
               ELSE GetServerNetconfCmd(o, s.conns[1], sub, <<s.id, 1>>, p2p)
    IN IF cmd = NoCommand THEN [pl EXCEPT !.err = TRUE]
       ELSE [pl EXCEPT !.inSubnet = @ + 1, !.bgpDone = @ \/ bgp,
                       !.attaches = @ \cup {[conn |-> c, vpc |-> pl.vpc, subnet |-> pl.subnet, p2p |-> p2p] : c \in conns},
                       !.confs = Append(@, [server |-> s.id, cmd |-> cmd])]

PlanServer(o, ns, pl, s) ==
    IF pl.err \/ PassedOver(o, s) THEN pl
    ELSE IF BadConnections(s) THEN [pl EXCEPT !.err = TRUE]
    ELSE LET at == Roll(o, pl)
             bgp == WantsHostBGP(o, at, s)
             ready == EnsureSubnet(o, ns, Place(o, at, bgp), bgp)
         IN IF ready.err THEN ready ELSE Attach(o, ready, s, bgp)

\* The namespaces as the loop sees them: the first VLAN and prefix are left out
\* unless there is a server-0.
Namespaces(servers, vlans, prefixes) ==
    LET skip == IF servers # <<>> /\ servers[1].id > 0 THEN 2 ELSE 1
        tail(q) == SubSeq(q, skip, Len(q))
    IN [vlans |-> tail(vlans), prefixes |-> tail(prefixes)]

\* The options as the loop sees them.
Resolved(o, fabric) == ResolveDefaultServerMTU(P2PForced(o, fabric), fabric)

PlannedVPCs(pl) == {pl.subnets[i].vpc : i \in DOMAIN pl.subnets}
PlannedServers(pl) == {pl.confs[i].server : i \in DOMAIN pl.confs}
CommandOf(pl, s) == (CHOOSE c \in ToSet(pl.confs) : c.server = s).cmd
\* A VIP, or both ends of a /31; other addresses come from DHCP.
FixedAddresses(cmd) ==
    IF cmd.kind = "hostbgp" THEN {cmd.base} ELSE IF cmd.kind = "p2p" THEN {cmd.base, cmd.base + 1} ELSE {}
AttachKeys(pl) == {[conn |-> a.conn, vpc |-> a.vpc, subnet |-> a.subnet] : a \in pl.attaches}
=============================================================================
