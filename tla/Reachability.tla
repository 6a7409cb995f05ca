----------------------------- MODULE Reachability -----------------------------
(***************************************************************************)
(* Who should reach whom, computed from the API objects: the reachability  *)
(* helpers of pkg/hhfab/testing.go.                                        *)
(*                                                                         *)
(* A cluster c is a record: att, a sequence of VPC attachments [srv, vpc,  *)
(* sub, hostBGP]; vpcp, a set of switch peerings, each a function from its *)
(* two VPCs to the subnets it permits ({} permits all); extp, a set of     *)
(* external peerings [vpc, subs, ext]; gwp, a set of gateway peerings      *)
(* [sides, acl] with the exposes of each side; gateway, whether the        *)
(* gateway is enabled.  The name of an external's side is the external's.  *)
(*                                                                         *)
(* A check answers "yes", "no" or "unsupported", the last one for          *)
(* reachCheckUnsupported.                                                  *)
(***************************************************************************)
EXTENDS Naturals, Sequences, FiniteSets

\* The lab: servers s1 and s2 in VPC v1, s3 in v2 (moved to vo by the overlap
\* test), s4 attached nowhere; two externals.  A subnet is <<vpc, name>> and an
\* address a number: the subnet's start plus the server's own number.
Servers == {"s1", "s2", "s3", "s4"}
Externals == {"x1", "x2"}
Rank(s) == CASE s = "s1" -> 1 [] s = "s2" -> 2 [] s = "s3" -> 3 [] s = "s4" -> 4
Start(sub) == CASE sub[1] \in {"v1", "vo"} -> 10
                [] sub = <<"v2", "default">> -> 20
                [] sub = <<"v2", "second">> -> 30
Holds(sub, ip) == ip \in Start(sub)..(Start(sub) + 9)

GetAttachedSubnets(c, srv) ==
    {<<c.att[i].vpc, c.att[i].sub>> : i \in {j \in DOMAIN c.att : c.att[j].srv = srv}}

\* The first expose that decides: a default destination and the subnet itself
\* say yes, an 'As' cannot be judged.
isVPCSubnetPresentInPeering(exposes, sub) ==
    LET decides == {i \in DOMAIN exposes : \/ exposes[i].dflt
                                           \/ exposes[i].as # 0
                                           \/ sub \in exposes[i].ips}
        first   == exposes[CHOOSE i \in decides : \A j \in decides : i <= j]
    IN  IF decides = {} THEN "no"
        ELSE IF ~first.dflt /\ first.as # 0 THEN "unsupported" ELSE "yes"

\* Both sides are judged before the answer: either error ends the check.
IsSubnetReachableWithGatewayPeering(c, s, d) ==
    LET found(g) == {isVPCSubnetPresentInPeering(g.sides[s[1]], s),
                     isVPCSubnetPresentInPeering(g.sides[d[1]], d)}
        both     == {found(g) : g \in {h \in c.gwp : {s[1], d[1]} \subseteq DOMAIN h.sides}}
    IN  IF \E f \in both : "unsupported" \in f THEN "unsupported"
        ELSE IF {"yes"} \in both THEN "yes" ELSE "no"

IsSubnetReachableWithSwitchPeering(c, s, d) ==
    \E p \in c.vpcp :
        /\ {s[1], d[1]} \subseteq DOMAIN p
        /\ p[s[1]] = {} \/ s[2] \in p[s[1]]
        /\ p[d[1]] = {} \/ d[2] \in p[d[1]]

\* apiutil.IsSubnetReachableWithinVPC: no subnet of this lab is isolated or
\* restricted, so a VPC is open inside.
IsSubnetReachable(c, s, d) ==
    IF s[1] = d[1] \/ IsSubnetReachableWithSwitchPeering(c, s, d) THEN "yes"
    ELSE IF c.gateway THEN IsSubnetReachableWithGatewayPeering(c, s, d) ELSE "no"

\* The two loops walk Go maps: with several subnets the order decides between
\* "yes" and "unsupported".  Every server of this lab has one.
AnyOf(answers) ==
    IF "yes" \in answers THEN "yes"
    ELSE IF "unsupported" \in answers THEN "unsupported" ELSE "no"

IsServerReachable(c, from, to) ==
    AnyOf({IsSubnetReachable(c, s, d) :
              s \in GetAttachedSubnets(c, from), d \in GetAttachedSubnets(c, to)})

\* The answer is about "some external": neither the external asked about nor
\* its prefix (always 0.0.0.0/0) takes part beyond the switch peerings' permits.
IsExternalSubnetReachable(c, from) ==
    LET subs == GetAttachedSubnets(c, from)
    IN  IF \E p \in c.extp, s \in subs : p.vpc = s[1] /\ s[2] \in p.subs THEN "yes"
        ELSE IF ~c.gateway THEN "no"
        ELSE AnyOf({IsSubnetReachableWithGatewayPeering(c, s, <<x, "external">>) :
                       s \in subs, x \in Externals})

\* Attached, and whether the connectivity test can use the server at all.
getServerAttachState(c, srv) ==
    [attached |-> GetAttachedSubnets(c, srv) # {}, unusable |-> srv \in c.l3eslag]
=============================================================================
