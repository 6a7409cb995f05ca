-------------------------------- MODULE GwPlane --------------------------------
(***************************************************************************)
(* What the network does with a probe: the switches and the gateway's      *)
(* dataplane.  Neither is part of this repository; the rules are those the *)
(* tests of pkg/hhfab state in their comments.  A plane is "good" or a     *)
(* gateway that is broken in one way:                                      *)
(*   "open"   ignores ACLs             "last"   lets the last rule win     *)
(*   "dead"   forwards nothing         "icmp"   forwards only ICMP         *)
(*   "noflow" forgets flows: the replies of a stateful flow are dropped    *)
(***************************************************************************)
EXTENDS GwTests

Ephemeral == 40000
Internet == 1

\* The server that answers to a real address in a VPC.
Owners(c, addrs, vpc, ip) ==
    {s \in Servers : /\ \E u \in GetAttachedSubnets(c, s) : u[1] = vpc /\ Holds(u, ip)
                     /\ ip \in ToSet(addrs[s])}

SubnetAt(vpc, ip) == {u \in {vpc} \X {"default", "second"} :
                         (u[2] = "default" \/ vpc = "v2") /\ Holds(u, ip)}

Matches(r, p) ==
    /\ r.from = p.from /\ r.to = p.to
    /\ r.proto \in {"any", p.proto}
    /\ r.sports = {} \/ p.sport \in r.sports
    /\ r.dports = {} \/ p.dport \in r.dports
    /\ r.srcs = {} \/ p.srcs \cap r.srcs # {}
    /\ r.dsts = {} \/ p.dsts \cap r.dsts # {}

\* The rule that decides about a packet: the first that matches.
Deciding(plane, acl, p) ==
    LET hits == {i \in DOMAIN acl.rules : Matches(acl.rules[i], p)}
    IN  {i \in hits : \A j \in hits : IF plane = "last" THEN i >= j ELSE i <= j}

Passes(plane, acl, p) ==
    \/ acl = NoACL \/ plane = "open"
    \/ LET d == Deciding(plane, acl, p)
       IN  IF d = {} THEN acl.dflt = "exposed" ELSE \A i \in d : acl.rules[i].act = "allow"

InFlow(plane, acl, p) ==
    acl # NoACL /\ \E i \in Deciding(plane, acl, p) : acl.rules[i].scope = "flow"

\* Through the gateway from expose e1 of VPC v to expose e2 of VPC w, where the
\* real destination is ip.  Masquerade and port-forwarding keep flow state.
Forwards(plane, g, v, w, e1, e2, src, ip, proto, port) ==
    LET request == [from |-> v, to |-> w, proto |-> proto, sport |-> Ephemeral, dport |-> port,
                    srcs |-> SubnetAt(v, src), dsts |-> SubnetAt(w, ip)]
        reply   == [from |-> w, to |-> v, proto |-> proto, sport |-> port, dport |-> Ephemeral,
                    srcs |-> SubnetAt(w, ip), dsts |-> SubnetAt(v, src)]
        stateful == e1.nat = "masquerade" \/ e2.nat = "portforward"
    IN  /\ plane # "dead" /\ (plane = "icmp" => proto = "icmp")
        /\ e1.nat # "portforward" /\ e2.nat # "masquerade"
        /\ <<v, "default">> \in e1.ips /\ SubnetAt(v, src) \subseteq e1.ips
        /\ Passes(plane, g.acl, request)
        /\ stateful => plane # "noflow"
        /\ InFlow(plane, g.acl, request) \/ Passes(plane, g.acl, reply)

\* Does the probe <<proto, port>> from the server at endpoint src to address ip
\* come back?  ports[s] are the ports s listens on.
Delivered(plane, c, addrs, ports, src, ip, proto, port) ==
    LET v      == src.vpc
        me     == addrs[src.srv][1]
        answers(s, p) == proto = "icmp" \/ p \in ports[s]
        direct == \E w \in {"v1", "v2", "vo"} : \E u \in SubnetAt(w, ip) :
                     /\ w = v \/ IsSubnetReachableWithSwitchPeering(c, <<v, src.sub>>, u)
                     /\ \E s \in Owners(c, addrs, w, ip) : answers(s, port)
        routed == \E g \in {h \in c.gwp : v \in DOMAIN h.sides} :
                  \E w \in DOMAIN g.sides \ ({v} \cup Externals) :
                  \E i \in DOMAIN g.sides[v], j \in DOMAIN g.sides[w] :
                     LET e2   == g.sides[w][j]
                         real == IF e2.as = 0 THEN ip
                                 ELSE IF ip \in e2.as..(e2.as + 9) THEN Start(<<w, "default">>) + (ip - e2.as)
                                 ELSE 0
                     IN  /\ e2.nat = "portforward" => proto = "tcp" /\ port = ForwardedPort
                         /\ \E s \in Owners(c, addrs, w, real) :
                               answers(s, IF e2.nat = "portforward" THEN 5201 ELSE port)
                         /\ Forwards(plane, g, v, w, g.sides[v][i], e2, me, real, proto, port)
    IN  direct \/ routed

\* A probe of an external: the internet at large, or a port-forwarded address.
DeliveredOutside(plane, c, src, ip) ==
    \/ /\ ip = Internet
       /\ \E p \in c.extp : p.vpc = src.vpc /\ src.sub \in p.subs
    \/ /\ plane \notin {"dead", "icmp"}
       /\ \E g \in c.gwp, x \in Externals :
             /\ {src.vpc, x} \subseteq DOMAIN g.sides
             /\ \E i \in DOMAIN g.sides[src.vpc], j \in DOMAIN g.sides[x] :
                   LET e1 == g.sides[src.vpc][i]
                       e2 == g.sides[x][j]
                   IN  /\ e1.nat # "portforward"
                       /\ e1.nat = "masquerade" \/ e2.nat = "portforward" => plane # "noflow"
                       /\ IF e2.dflt THEN ip = Internet ELSE ip = e2.as
=============================================================================
