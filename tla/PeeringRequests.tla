--------------------------- MODULE PeeringRequests ---------------------------
(***************************************************************************)
(* How SetupPeerings (pkg/hhfab/testing.go) reads its requests, such as    *)
(* "1+2:gw:as1=10.0.0.0/24:nat1=masquerade" or "1~ext:s=subnet-01", and    *)
(* turns them into VPCPeerings, ExternalPeerings and GatewayPeerings.      *)
(*                                                                         *)
(* A request is [sep, parts, opts]: the marks its name holds ("+", "~",    *)
(* both or none), the words of the name between them and the options.  A   *)
(* word is [rank, vpc, ext]: its place in the order of strings, and the    *)
(* number of the VPC it means (0 for the empty word), since "1", "01" and  *)
(* "vpc-01" mean one VPC, or the name of the external.  An option is       *)
(* [key, val], val the items of a list (one for a NAT type); the keys end  *)
(* in the side they are for, which is 1 for vpc1 or the VPC and 2 for vpc2 *)
(* or the external.                                                        *)
(***************************************************************************)
EXTENDS Integers, Sequences, FiniteSets, SequencesExt

Opt(key, val) == [key |-> key, val |-> val]

\* --- values ---------------------------------------------------------------
NATNames ==
    [s \in {"static", "masquerade", "port-forward", "portforward", "port_forward", "pf"} |->
        IF s \in {"static", "masquerade"} THEN s ELSE "port-forward"]
parseNatType(val) == IF val # <<>> /\ val[1] \in DOMAIN NATNames THEN NATNames[val[1]] ELSE "invalid"

\* The prefixes a side is seen as: every item is a prefix or an exclusion.
InvalidAs(items) == items = <<>> \/ \E i \in DOMAIN items : items[i] \notin {"cidr", "not"}
parsePeeringEntryAsList(items) == [i \in DOMAIN items |-> items[i]]

\* The rules of a port forward, [proto/]port=as, by their protocol; "junk" is one
\* of another protocol or with no port or target.
InvalidRule(rule) == rule \notin {"", "tcp", "udp", "any"}
parsePortForwardRuleList(rules) == [i \in DOMAIN rules |-> IF rules[i] = "" THEN "any" ELSE rules[i]]

\* --- options --------------------------------------------------------------
NoNAT == [as |-> <<>>, nat |-> "", pf |-> <<>>]
NoOptions == [err |-> FALSE, gw |-> FALSE, sub |-> <<{}, {}>>, nat |-> <<NoNAT, NoNAT>>]

Sides == 1..2
SideKeys(word) == IF word = "sub" THEN <<"sub1", "sub2">>
                  ELSE IF word = "as" THEN <<"as1", "as2">>
                  ELSE IF word = "nat" THEN <<"nat1", "nat2">> ELSE <<"pf1", "pf2">>

Refuse(cfg) == [cfg EXCEPT !.err = TRUE]

\* An empty list of names is one empty name between two VPCs and an error with
\* an external; prefixes and rules may be given once, the NAT type again only if
\* it is the same.  An option for no side in particular is refused.
ParseSide(cfg, o, side, external) ==
    CASE o.key = SideKeys("sub")[side] ->
            IF o.val # <<>> THEN [cfg EXCEPT !.sub[side] = ToSet(o.val)]
            ELSE IF external THEN Refuse(cfg) ELSE [cfg EXCEPT !.sub[side] = {""}]
      [] o.key = SideKeys("as")[side] ->
            IF o.val = <<>> \/ cfg.nat[side].as # <<>> THEN Refuse(cfg)
            ELSE [cfg EXCEPT !.nat[side].as = o.val]
      [] o.key = SideKeys("nat")[side] ->
            LET n == parseNatType(o.val)
            IN IF n = "invalid" \/ cfg.nat[side].nat \notin {"", n} THEN Refuse(cfg)
               ELSE [cfg EXCEPT !.nat[side].nat = n]
      [] o.key = SideKeys("pf")[side] ->
            IF o.val = <<>> \/ cfg.nat[side].pf # <<>> THEN Refuse(cfg)
            ELSE [cfg EXCEPT !.nat[side].pf = o.val]
ForSide(o, side) == \E w \in {"sub", "as", "nat", "pf"} : o.key = SideKeys(w)[side]

ParseOption(cfg, o, external) ==
    IF cfg.err THEN cfg
    ELSE IF o.key = "gw" THEN [cfg EXCEPT !.gw = TRUE]
    ELSE IF ForSide(o, 1) THEN ParseSide(cfg, o, 1, external)
    ELSE IF ForSide(o, 2) THEN ParseSide(cfg, o, 2, external)
    ELSE Refuse(cfg)
\* The configuration after each of the options, one after the other.
ParsedUpTo(opts, external) ==
    LET cfg[n \in 0..Len(opts)] == IF n = 0 THEN NoOptions ELSE ParseOption(cfg[n - 1], opts[n], external)
    IN cfg
ParseOptions(opts, external) == ParsedUpTo(opts, external)[Len(opts)]

\* --- exposes --------------------------------------------------------------
\* Subnets of VPC v, or prefixes of an external (v = 0).
Chosen(v, names, default) ==
    [ips |-> {<<v, s>> : s \in names}, default |-> default, as |-> <<>>, nat |-> "", ports |-> <<>>]

\* Mutant: port-forward rules are accepted with another type of NAT.
NATRefusedLess(n) ==
    \/ n.as = <<>> /\ (n.nat # "" \/ n.pf # <<>>)
    \/ n.as # <<>> /\ InvalidAs(n.as)
    \/ n.as # <<>> /\ n.nat = "port-forward" /\ (n.pf = <<>> \/ \E i \in DOMAIN n.pf : InvalidRule(n.pf[i]))
NATRefused(n) ==
    \/ n.as = <<>> /\ (n.nat # "" \/ n.pf # <<>>)
    \/ n.pf # <<>> /\ n.nat # "port-forward"
    \/ n.as # <<>> /\ InvalidAs(n.as)
    \/ n.as # <<>> /\ n.nat = "port-forward" /\ (n.pf = <<>> \/ \E i \in DOMAIN n.pf : InvalidRule(n.pf[i]))

\* Prefixes without a NAT type mean static NAT.
populateExposeNat(expose, n) ==
    IF n.as = <<>> THEN expose
    ELSE [expose EXCEPT !.as = parsePeeringEntryAsList(n.as),
                        !.nat = IF n.nat = "" THEN "static" ELSE n.nat,
                        !.ports = IF n.nat = "port-forward" THEN parsePortForwardRuleList(n.pf) ELSE <<>>]

\* The prefixes of the VPC's subnets, or of the chosen ones; a VPC that does not
\* exist has none.
VPCExpose(vpcs, v, chosen) ==
    Chosen(v, {x \in IF v \in DOMAIN vpcs THEN vpcs[v] ELSE {} : chosen = {} \/ x \in chosen}, FALSE)

\* "junk" stands for a prefix that does not parse, or one with a "_" for an
\* ExternalPeering.
ExtPrefixes(chosen) == chosen \ {"default"}
ExtDefault(chosen) == "default" \in chosen \/ chosen = {}
ExtRefused(chosen) == (ExtDefault(chosen) /\ ExtPrefixes(chosen) # {}) \/ "junk" \in chosen
ExtExpose(chosen) == Chosen(0, ExtPrefixes(chosen), ExtDefault(chosen))

\* --- requests -------------------------------------------------------------
\* The two words in the order of strings; the options' sides follow this order.
Sorted(a, b) == IF a.rank <= b.rank THEN <<a.vpc, b.vpc, "">> ELSE <<b.vpc, a.vpc, "">>

InvalidName(r, externals) ==
    \/ r.sep \notin {"+", "~"}
    \/ Len(r.parts) # 2
    \/ r.parts[1].vpc = 0
    \/ r.sep = "+" /\ r.parts[2].vpc = 0
    \/ r.sep = "~" /\ r.parts[2].ext \notin externals

\* kind is "vpc", "ext" or "gw"; a name is two VPCs or a VPC and an external.
Peering(kind, name, spec) == [kind |-> kind, name |-> name, spec |-> spec]
Invalid == Peering("invalid", <<0, 0, "">>, <<>>)

VPCRequest(r, cfg, vpcs) ==
    LET v == Sorted(r.parts[1], r.parts[2])
    IN IF ~cfg.gw
       THEN IF cfg.nat # <<NoNAT, NoNAT>> THEN Invalid
            ELSE Peering("vpc", v, [s \in Sides |-> Chosen(v[s], cfg.sub[s], FALSE)])
       ELSE IF \E s \in Sides : NATRefused(cfg.nat[s]) THEN Invalid
            ELSE Peering("gw", v, [s \in Sides |-> populateExposeNat(VPCExpose(vpcs, v[s], cfg.sub[s]), cfg.nat[s])])

\* Without a choice an ExternalPeering is for the subnet "default" and for any
\* route of the external.
ExternalRequest(r, cfg, vpcs) ==
    LET v == r.parts[1].vpc
        name == <<v, 0, r.parts[2].ext>>
        chosen == cfg.sub[2]
    IN IF ~cfg.gw
       THEN IF cfg.nat # <<NoNAT, NoNAT>> \/ "junk" \in chosen THEN Invalid
            ELSE Peering("ext", name, <<Chosen(v, IF cfg.sub[1] = {} THEN {"default"} ELSE cfg.sub[1], FALSE),
                                        Chosen(0, ExtPrefixes(chosen), ExtDefault(chosen))>>)
       ELSE IF ExtRefused(chosen) \/ \E s \in Sides : NATRefused(cfg.nat[s]) THEN Invalid
            ELSE Peering("gw", name, <<populateExposeNat(VPCExpose(vpcs, v, cfg.sub[1]), cfg.nat[1]),
                                       populateExposeNat(ExtExpose(chosen), cfg.nat[2])>>)

ParseRequest(r, vpcs, externals) ==
    LET cfg == ParseOptions(r.opts, r.sep = "~")
    IN IF InvalidName(r, externals) \/ cfg.err THEN Invalid
       ELSE IF r.sep = "+" THEN VPCRequest(r, cfg, vpcs) ELSE ExternalRequest(r, cfg, vpcs)

\* Two requests may not have the same name; names that differ only in how they
\* are written make the same peering, and the later one replaces the earlier.
DuplicateNames(rs) == \E i, j \in DOMAIN rs : i < j /\ rs[i].sep = rs[j].sep /\ rs[i].parts = rs[j].parts
SameObject(p, q) == p.kind = q.kind /\ p.name = q.name

SetupPeerings(rs, vpcs, externals) ==
    LET ps == [i \in DOMAIN rs |-> ParseRequest(rs[i], vpcs, externals)]
    IN IF DuplicateNames(rs) \/ \E i \in DOMAIN ps : ps[i] = Invalid THEN {Invalid}
       ELSE {ps[i] : i \in {j \in DOMAIN ps : ~\E k \in DOMAIN ps : k > j /\ SameObject(ps[j], ps[k])}}

\* A peering of a VPC with itself has one side only.
OneSided(p) == p.name[1] = p.name[2]
=============================================================================
