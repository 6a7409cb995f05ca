----------------------------- MODULE MCVPCSetup -----------------------------
(***************************************************************************)
(* Instances of VPCSetup: plans of many shapes, retries over every kind of *)
(* leftover, and requests of every form.                                   *)
(***************************************************************************)
EXTENDS VPCSetup

Defaults ==
    [wait |-> FALSE, force |-> FALSE, perSubnet |-> 1, perVPC |-> 1, mode |-> "l2vni", keepPeerings |-> FALSE,
     hostBGP |-> FALSE, p2p |-> FALSE, hash |-> TRUE, mtu |-> 0, dns |-> FALSE]
NothingLeft == [vpcs |-> <<>>, attaches |-> <<>>, peerings |-> {}, conf |-> "none"]
Scenario(servers_, opts, fabric) ==
    [servers |-> servers_, opts |-> opts, fabric |-> fabric, gw |-> TRUE,
     vlans |-> VLANsFrom(<<[from |-> 1000, to |-> 1001], [from |-> 1010, to |-> 1014]>>),
     prefixes |-> SubPrefixesFrom(<<[first |-> 10, count |-> 3], [first |-> 20, count |-> 0], [first |-> 30, count |-> 3]>>),
     left |-> NothingLeft, reqs |-> <<>>, faults |-> 0]
One(id, kinds) == [id |-> id, conns |-> kinds]

U == <<"unbundled">>
Lists(n, kinds) == {{One(first + i - 1, l[i]) : i \in 1..n} : l \in [1..n -> kinds], first \in {1}}

PlanScenarios ==
    {Scenario(ss, [Defaults EXCEPT !.perSubnet = ps, !.perVPC = pv, !.hostBGP = h], f) :
        ss \in Lists(3, {U, <<"bundled">>, <<"unbundled", "unbundled">>}), ps \in 1..2, pv \in 1..2, h \in BOOLEAN, f \in {"sonic"}}
    \cup {Scenario(ss, [Defaults EXCEPT !.perSubnet = 3, !.perVPC = pv], "sonic") :
        ss \in Lists(4, {U, <<"bundled">>, <<"unbundled", "unbundled">>}), pv \in 1..2}
    \cup {Scenario(ss, [Defaults EXCEPT !.perSubnet = 2, !.perVPC = 2, !.hostBGP = h], "cumulus") :
        ss \in Lists(4, {U, <<"unbundled", "unbundled">>}), h \in BOOLEAN}
    \cup {Scenario(ss, [Defaults EXCEPT !.perSubnet = 2, !.mode = m, !.dns = d, !.mtu = mtu], f) :
        ss \in Lists(2, {U, <<"eslag">>, <<"bundled">>, <<"mclag">>, <<>>, <<"unbundled", "bundled">>}),
        m \in {"l2vni", "l3vni"}, d \in BOOLEAN, mtu \in {0, 9000}, f \in {"vs", "sonic", "cumulus"}}
    \cup {Scenario({One(0, U), One(1, U)}, o, f) : f \in {"sonic", "cumulus"},
        o \in {[Defaults EXCEPT !.perSubnet = 0], [Defaults EXCEPT !.perVPC = 0], [Defaults EXCEPT !.hash = FALSE],
               [Defaults EXCEPT !.mode = "junk"], [Defaults EXCEPT !.p2p = TRUE], Defaults}}
    \cup {[Scenario({One(i, U) : i \in 0..n}, Defaults, "sonic") EXCEPT !.prefixes = SubSeq(@, 1, 4)] : n \in 3..4}

\* What the plan of a scenario will be.
FinalPlan(s) ==
    LET q == SetToSortSeq(s.servers, LAMBDA a, b : a.id < b.id)
    IN FoldLeft(LAMBDA pl, x : PlanServer(Resolved(s.opts, s.fabric), Namespaces(q, s.vlans, s.prefixes), pl, x), EmptyPlan, q)
\* An earlier call left what is planned again, or another plan that used some of the
\* same attachments, another subnet of the same VPC, and a VPC not planned any more.
OldVPC == 90
OldPeerings ==
    {Peering("vpc", <<1, OldVPC, "">>, <<>>), Peering("ext", <<1, 0, "ext">>, <<>>), Peering("gw", <<1, OldVPC, "">>, <<>>)}
SameLeft(pl) ==
    [vpcs |-> SameAs(PlannedVPCs(pl)), attaches |-> SameAs(AttachKeys(pl)), peerings |-> {}, conf |-> "old"]
DiffLeft(pl) ==
    LET old == PlannedVPCs(pl) \cup {OldVPC}
    IN [vpcs |-> [v \in old |-> "diff"],
        attaches |-> [k \in AttachKeys(pl) \cup {[conn |-> <<9, 1>>, vpc |-> v, subnet |-> 9] : v \in old} |-> "diff"],
        peerings |-> OldPeerings, conf |-> "old"]
WithLeft(s, left) ==
    [s EXCEPT !.left = IF left = "same" THEN SameLeft(FinalPlan(s)) ELSE IF left = "diff" THEN DiffLeft(FinalPlan(s)) ELSE @]

RetryScenarios ==
    {[WithLeft(Scenario({One(1, U), One(2, <<"bundled">>)}, [Defaults EXCEPT !.wait = w, !.force = f, !.keepPeerings = k], "sonic"), l)
        EXCEPT !.gw = g, !.faults = 1] :
        w \in BOOLEAN, f \in BOOLEAN, k \in BOOLEAN, l \in {"none", "same", "diff"}, g \in {TRUE}}
    \cup {[WithLeft(Scenario({One(1, U)}, [Defaults EXCEPT !.wait = w, !.keepPeerings = k], "sonic"), "diff")
        EXCEPT !.gw = FALSE, !.faults = 1] : w \in BOOLEAN, k \in BOOLEAN}

\* "1", "10", "2" and "vpc-01", in the order of strings, and the empty word.
W1 == [rank |-> 1, vpc |-> 1, ext |-> ""]
W10 == [rank |-> 2, vpc |-> 10, ext |-> ""]
W2 == [rank |-> 3, vpc |-> 2, ext |-> ""]
WV1 == [rank |-> 4, vpc |-> 1, ext |-> ""]
W0 == [rank |-> 0, vpc |-> 0, ext |-> ""]
X(e) == [rank |-> 9, vpc |-> 0, ext |-> e]

Req(sep, parts, opts) == [sep |-> sep, parts |-> parts, opts |-> opts]
GW == Opt("gw", <<>>)
OptionValues ==
    {Opt("sub1", <<>>), Opt("sub1", <<"subnet-01">>), Opt("sub2", <<"p1">>), Opt("sub2", <<"default">>),
     Opt("sub2", <<"default", "p1">>), Opt("sub2", <<"junk">>), Opt("as1", <<"cidr">>), Opt("as1", <<"cidr", "not">>),
     Opt("as1", <<"junk">>), Opt("as1", <<>>), Opt("nat1", <<"static">>), Opt("nat1", <<"pf">>), Opt("nat1", <<"junk">>),
     Opt("pf1", <<"tcp", "">>), Opt("pf1", <<"junk">>), Opt("pf1", <<>>), Opt("as2", <<"cidr">>),
     Opt("nat2", <<"masquerade">>), Opt("nat2", <<"port-forward">>), Opt("pf2", <<"udp">>), Opt("nat", <<"static">>)}
OptionLists ==
    {<<>>} \cup {<<a>> : a \in OptionValues} \cup {<<a, b>> : a, b \in OptionValues}
    \cup {<<a, b, c>> : a \in {Opt("as1", <<"cidr">>)}, b \in OptionValues, c \in {Opt("pf1", <<"tcp", "">>), Opt("nat1", <<"pf">>), Opt("as2", <<"cidr">>)}}
Names == {Req("+", <<W2, W1>>, <<>>), Req("~", <<W1, X("ext")>>, <<>>)}
OddNames ==
    {Req("", <<W1>>, <<>>), Req("+~", <<W1, W2>>, <<>>), Req("+", <<W1, W0>>, <<>>), Req("+", <<W1, W2, W10>>, <<>>),
     Req("~", <<W0, X("ext")>>, <<>>), Req("~", <<W1, X("")>>, <<>>), Req("~", <<W1, X("other")>>, <<>>),
     Req("+", <<W10, W2>>, <<>>), Req("+", <<W1, WV1>>, <<>>), Req("+", <<W1, W1>>, <<GW>>)}
ManyRequests ==
    {<<Req("+", <<W1, W2>>, <<>>), Req("+", <<W1, W2>>, <<GW>>)>>, <<Req("+", <<W1, W2>>, <<>>), Req("+", <<W2, W1>>, <<>>)>>,
     <<Req("+", <<W1, W2>>, <<GW>>), Req("~", <<W1, X("ext")>>, <<>>), Req("+", <<W10, W2>>, <<>>)>>,
     <<Req("+", <<W1, W2>>, <<GW>>), Req("+", <<W1, WV1>>, <<>>)>>}

PeeringBase == Scenario({One(1, U), One(2, U)}, [Defaults EXCEPT !.perVPC = 2], "sonic")
ManyRequestScenarios ==
    {[WithLeft(PeeringBase, "diff") EXCEPT !.reqs = rs, !.gw = g, !.opts.wait = w, !.opts.keepPeerings = ~w, !.faults = IF g /\ w THEN 1 ELSE 0] :
        rs \in ManyRequests, g \in BOOLEAN, w \in BOOLEAN}
RequestScenarios ==
    {[PeeringBase EXCEPT !.reqs = <<[r EXCEPT !.opts = g \o l]>>] : r \in Names, g \in {<<>>, <<GW>>}, l \in OptionLists}
    \cup {[PeeringBase EXCEPT !.reqs = <<r>>] : r \in OddNames}

MCScenarios == PlanScenarios \cup RetryScenarios \cup RequestScenarios \cup ManyRequestScenarios
=============================================================================
