---------------------------- MODULE VPCPlanProofs ----------------------------
(***************************************************************************)
(* What one turn of the loop of SetupVPCs keeps true of the plan so far,   *)
(* for any options, namespaces and servers.  o are the resolved options,   *)
(* ns the namespaces, q the servers in the order of their numbers, n how   *)
(* many of them the loop has dealt with, and pl the plan so far.           *)
(***************************************************************************)
EXTENDS VPCPlan, FiniteSetTheorems, SequenceTheorems, TLAPS

Conns == Nat \X Nat
SubnetT == [vpc : Nat, subnet : Nat, prefix : Nat, vlan : Nat, hostBGP : BOOLEAN, dhcp : BOOLEAN, dhcpMTU : Int]
AttachT == [conn : Conns, vpc : Nat, subnet : Nat, p2p : Int]
Kinds == {"hostbgp", "p2p", "vlan", "bond"}
CommandT == [kind : Kinds, vlan : Nat, mtu : Nat, base : Nat, bits : Nat, conns : SUBSET Conns]
ConfT == [server : Nat, cmd : CommandT]
IsPlan(pl) ==
    /\ DOMAIN pl = {"err", "inSubnet", "subnet", "vpc", "bgpDone", "subnets", "attaches", "confs"}
    /\ pl.err \in BOOLEAN /\ pl.bgpDone \in BOOLEAN
    /\ pl.inSubnet \in Nat /\ pl.subnet \in Nat /\ pl.vpc \in Nat
    /\ pl.subnets \in Seq(SubnetT) /\ pl.attaches \subseteq AttachT /\ pl.confs \in Seq(ConfT)
ServerT == [id : Nat, conns : Seq(STRING)]

GoodOptions(o) ==
    /\ o.perSubnet \in Nat \ {0} /\ o.perVPC \in Nat \ {0} /\ o.mtu \in Nat
    /\ {o.p2p, o.hostBGP, o.dns} \subseteq BOOLEAN
GoodNamespaces(ns) == ns.vlans \in Seq(Nat) /\ ns.prefixes \in Seq(Nat)

\* The servers of a subnet, and the attachments of a server.
Members(pl, v, k) == {a.conn[1] : a \in {b \in pl.attaches : b.vpc = v /\ b.subnet = k}}
AttachesOf(pl, id) == {a \in pl.attaches : a.conn[1] = id}
IDs(q, n) == {q[i].id : i \in 1..n}

\* Subnets are made in order: none is beyond the counters, no two are the same, and
\* none has more subnets before it in its VPC than was asked for.
Ordered(o, pl) ==
    /\ pl.subnet < o.perVPC
    /\ \A i \in 1..Len(pl.subnets) :
         LET sub == pl.subnets[i]
         IN /\ sub.subnet < o.perVPC
            /\ sub.vpc < pl.vpc \/ (sub.vpc = pl.vpc /\ sub.subnet <= pl.subnet)
            /\ sub.dhcp <=> ~sub.hostBGP /\ ~o.p2p
    /\ \A i, j \in 1..Len(pl.subnets) :
         pl.subnets[i].vpc = pl.subnets[j].vpc /\ pl.subnets[i].subnet = pl.subnets[j].subnet => i = j
    /\ \A a \in pl.attaches : \E i \in 1..Len(pl.subnets) : pl.subnets[i].vpc = a.vpc /\ pl.subnets[i].subnet = a.subnet

\* The counters move on; the plan stays as it is.
SamePlan(pl, r) == r.err = pl.err /\ r.subnets = pl.subnets /\ r.attaches = pl.attaches /\ r.confs = pl.confs

\* The fields of a planned subnet.
LEMMA SubnetTyped ==
  ASSUME NEW pl, IsPlan(pl)
  PROVE  /\ Len(pl.subnets) \in Nat /\ DOMAIN pl.subnets = 1..Len(pl.subnets)
         /\ \A i \in 1..Len(pl.subnets) :
              LET sub == pl.subnets[i]
              IN /\ sub \in SubnetT
                 /\ sub.vpc \in Nat /\ sub.subnet \in Nat /\ sub.prefix \in Nat /\ sub.vlan \in Nat
                 /\ sub.hostBGP \in BOOLEAN /\ sub.dhcp \in BOOLEAN
<1>1. pl.subnets \in Seq(SubnetT)
  BY DEF IsPlan
<1>2. Len(pl.subnets) \in Nat /\ DOMAIN pl.subnets = 1..Len(pl.subnets)
  BY <1>1, LenProperties
<1>3. \A i \in 1..Len(pl.subnets) : pl.subnets[i] \in SubnetT
  BY <1>1, ElementOfSeq
<1> QED
  BY <1>2, <1>3 DEF SubnetT

\* nextSubnet goes to a subnet that is not there yet.
LEMMA NextSubnet ==
  ASSUME NEW o, GoodOptions(o), NEW pl, IsPlan(pl), Ordered(o, pl)
  PROVE  LET r == nextSubnet(o, pl)
         IN IsPlan(r) /\ Ordered(o, r) /\ SamePlan(pl, r) /\ r.inSubnet = 0 /\ Current(r) = {}
<1> DEFINE r == nextSubnet(o, pl)
<1>1. CASE pl.subnet + 1 >= o.perVPC
  <2>1. r = [pl EXCEPT !.inSubnet = 0, !.subnet = 0, !.vpc = @ + 1, !.bgpDone = FALSE]
    BY <1>1 DEF nextSubnet
  <2> HIDE DEF r
  <2>2. IsPlan(r) /\ SamePlan(pl, r) /\ r.inSubnet = 0 /\ r.subnet = 0 /\ r.vpc = pl.vpc + 1
    BY <2>1 DEF IsPlan, SamePlan
  <2>3. pl.vpc \in Nat /\ \A i \in 1..Len(pl.subnets) : pl.subnets[i].vpc \in Nat /\ pl.subnets[i].subnet \in Nat
    BY SubnetTyped DEF IsPlan
  <2>4. Ordered(o, r)
    BY <2>2, <2>3, SMTT(40) DEF Ordered, SamePlan, GoodOptions
  <2>5. Current(r) = {}
    <3>1. DOMAIN r.subnets = 1..Len(pl.subnets)
      BY <2>2, LenProperties DEF SamePlan, IsPlan
    <3> QED
      BY <2>2, <2>3, <3>1 DEF Current, SamePlan, Ordered
  <2> QED
    BY <2>2, <2>4, <2>5 DEF r
<1>2. CASE ~(pl.subnet + 1 >= o.perVPC)
  <2>1. r = [pl EXCEPT !.inSubnet = 0, !.subnet = @ + 1]
    BY <1>2 DEF nextSubnet
  <2> HIDE DEF r
  <2>2. IsPlan(r) /\ SamePlan(pl, r) /\ r.inSubnet = 0 /\ r.subnet = pl.subnet + 1 /\ r.vpc = pl.vpc
    BY <2>1 DEF IsPlan, SamePlan
  <2>3. pl.vpc \in Nat /\ pl.subnet \in Nat /\ \A i \in 1..Len(pl.subnets) : pl.subnets[i].vpc \in Nat /\ pl.subnets[i].subnet \in Nat
    BY SubnetTyped DEF IsPlan
  <2>4. Ordered(o, r)
    BY <1>2, <2>2, <2>3 DEF Ordered, SamePlan, GoodOptions
  <2>5. Current(r) = {}
    <3>1. DOMAIN r.subnets = 1..Len(pl.subnets)
      BY <2>2, LenProperties DEF SamePlan, IsPlan
    <3> QED
      BY <2>2, <2>3, <3>1 DEF Current, SamePlan, Ordered
  <2> QED
    BY <2>2, <2>4, <2>5 DEF r
<1> QED
  BY <1>1, <1>2

\* Where Roll and Place send the next server: it stays, if there is room and the
\* subnet is of its kind, or goes to a subnet that is not there yet.
Stays(o, pl, bgp) == pl.inSubnet < o.perSubnet /\ \A c \in Current(pl) : c.hostBGP = bgp

\* After Roll and Place the server goes on in its subnet, or the subnet is empty.
LEMMA Placed ==
  ASSUME NEW o, GoodOptions(o), NEW pl, IsPlan(pl), Ordered(o, pl), NEW bgp \in BOOLEAN
  PROVE  LET r == Place(o, Roll(o, pl), bgp)
         IN /\ IsPlan(r) /\ Ordered(o, r) /\ SamePlan(pl, r)
            /\ \/ r = pl /\ Stays(o, pl, bgp)
               \/ r.inSubnet = 0 /\ Current(r) = {}
<1> DEFINE at == Roll(o, pl)
           r == Place(o, at, bgp)
<1>1. IsPlan(at) /\ Ordered(o, at) /\ SamePlan(pl, at) /\ ((at = pl /\ pl.inSubnet < o.perSubnet) \/ (at.inSubnet = 0 /\ Current(at) = {}))
  <2>1. CASE pl.inSubnet >= o.perSubnet
    <3>1. at = nextSubnet(o, pl)
      BY <2>1 DEF Roll
    <3> HIDE DEF at
    <3> QED
      BY <3>1, NextSubnet
  <2>2. CASE ~(pl.inSubnet >= o.perSubnet)
    <3>1. at = pl /\ SamePlan(pl, pl)
      BY <2>2 DEF Roll, SamePlan
    <3>2. pl.inSubnet \in Nat /\ o.perSubnet \in Nat
      BY DEF IsPlan, GoodOptions
    <3> HIDE DEF at
    <3> QED
      BY <2>2, <3>1, <3>2
  <2> QED
    BY <2>1, <2>2
<1> HIDE DEF at
<1>2. CASE \E c \in Current(at) : c.hostBGP # bgp
  <2>1. r = nextSubnet(o, at)
    BY <1>2 DEF Place
  <2> QED
    BY <1>1, <2>1, NextSubnet DEF at, SamePlan
<1>3. CASE ~\E c \in Current(at) : c.hostBGP # bgp
  <2>1. r = at
    BY <1>3 DEF Place
  <2> QED
    BY <1>1, <1>3, <2>1 DEF at, Stays
<1> QED
  BY <1>2, <1>3

\* No subnet is empty or holds more than was asked for, and inSubnet counts the
\* servers of the current one.
Loaded(o, pl) ==
    /\ \A i \in 1..Len(pl.subnets) :
         LET sub == pl.subnets[i]
             m == Members(pl, sub.vpc, sub.subnet)
         IN /\ IsFiniteSet(m) /\ Cardinality(m) \in 1..o.perSubnet
            /\ sub.vpc = pl.vpc /\ sub.subnet = pl.subnet => Cardinality(m) = pl.inSubnet
    /\ Current(pl) = {} => pl.inSubnet = 0
\* The subnets take the prefixes and VLANs of the namespaces one after the other.
Numbered(ns, pl) ==
    \A i \in 1..Len(pl.subnets) :
        /\ i \in 1..Len(ns.prefixes) /\ i \in 1..Len(ns.vlans)
        /\ pl.subnets[i].prefix = ns.prefixes[i] /\ pl.subnets[i].vlan = ns.vlans[i]

\* A plan r that is ready to take a server into subnet c.
ReadyFor(o, ns, pl, r, bgp, c) ==
    /\ IsPlan(r) /\ Ordered(o, r) /\ Numbered(ns, r)
    /\ r.attaches = pl.attaches /\ r.confs = pl.confs /\ r.inSubnet < o.perSubnet
    /\ c \in 1..Len(r.subnets) /\ (c \in 1..Len(pl.subnets) => r = pl)
    /\ \A i \in 1..Len(pl.subnets) : i \in 1..Len(r.subnets) /\ r.subnets[i] = pl.subnets[i]
    /\ r.subnets[c].vpc = r.vpc /\ r.subnets[c].subnet = r.subnet /\ r.subnets[c].hostBGP = bgp
    /\ IsFiniteSet(Members(r, r.vpc, r.subnet)) /\ Cardinality(Members(r, r.vpc, r.subnet)) = r.inSubnet
    /\ \A i \in 1..Len(r.subnets) :
         LET sub == r.subnets[i]
             m == Members(r, sub.vpc, sub.subnet)
         IN \/ i \in 1..Len(pl.subnets) /\ sub = pl.subnets[i] /\ IsFiniteSet(m) /\ Cardinality(m) \in 1..o.perSubnet
            \/ i = c /\ m = {}

\* The current subnets are the ones whose numbers are those of the counters.
LEMMA CurrentIs ==
  ASSUME NEW pl, IsPlan(pl)
  PROVE  /\ \A c \in Current(pl) : \E i \in 1..Len(pl.subnets) : c = pl.subnets[i] /\ c.vpc = pl.vpc /\ c.subnet = pl.subnet
         /\ \A i \in 1..Len(pl.subnets) : pl.subnets[i].vpc = pl.vpc /\ pl.subnets[i].subnet = pl.subnet => pl.subnets[i] \in Current(pl)
BY SubnetTyped DEF Current

\* EnsureSubnet makes the subnet if it is not there, unless prefixes or VLANs run out.
LEMMA Ready ==
  ASSUME NEW o, GoodOptions(o), NEW ns, GoodNamespaces(ns), NEW pl, IsPlan(pl), Ordered(o, pl), Loaded(o, pl), Numbered(ns, pl),
         NEW bgp \in BOOLEAN, ~pl.err, ~EnsureSubnet(o, ns, Place(o, Roll(o, pl), bgp), bgp).err
  PROVE  \E c : ReadyFor(o, ns, pl, EnsureSubnet(o, ns, Place(o, Roll(o, pl), bgp), bgp), bgp, c)
<1> DEFINE at == Place(o, Roll(o, pl), bgp)
           r == EnsureSubnet(o, ns, at, bgp)
<1>1. /\ IsPlan(at) /\ Ordered(o, at) /\ SamePlan(pl, at)
      /\ (at = pl /\ Stays(o, pl, bgp)) \/ (at.inSubnet = 0 /\ Current(at) = {})
  BY Placed
<1>2. r = EnsureSubnet(o, ns, at, bgp) /\ ~r.err
  OBVIOUS
<1> HIDE DEF at, r
<1>3. CASE Current(at) # {}
  <2>1. r = at /\ at = pl /\ Stays(o, pl, bgp)
    BY <1>1, <1>2, <1>3 DEF EnsureSubnet
  <2>2. PICK c \in 1..Len(pl.subnets) : pl.subnets[c] \in Current(pl) /\ pl.subnets[c].vpc = pl.vpc /\ pl.subnets[c].subnet = pl.subnet
    BY <1>3, <2>1, CurrentIs
  <2>3. pl.subnets[c].hostBGP = bgp /\ pl.inSubnet < o.perSubnet
    BY <2>1, <2>2 DEF Stays
  <2>4. IsFiniteSet(Members(pl, pl.vpc, pl.subnet)) /\ Cardinality(Members(pl, pl.vpc, pl.subnet)) = pl.inSubnet
    BY <2>2 DEF Loaded
  <2>5. ReadyFor(o, ns, pl, r, bgp, c)
    BY <2>1, <2>2, <2>3, <2>4 DEF ReadyFor, Loaded
  <2> QED
    BY <2>5 DEF r, at
<1>4. CASE Current(at) = {}
  <2> DEFINE k == Len(at.subnets) + 1
             dhcp == ~bgp /\ ~o.p2p
             new == [vpc |-> at.vpc, subnet |-> at.subnet, prefix |-> ns.prefixes[k], vlan |-> ns.vlans[k],
                     hostBGP |-> bgp, dhcp |-> dhcp,
                     dhcpMTU |-> IF ~dhcp \/ ~(o.dns \/ o.mtu > 0) THEN -1 ELSE o.mtu]
  <2>1. at.subnets = pl.subnets /\ at.attaches = pl.attaches /\ at.confs = pl.confs /\ ~at.err
    BY <1>1 DEF SamePlan
  <2>2. Len(pl.subnets) \in Nat /\ k \in Nat /\ k = Len(pl.subnets) + 1
    BY <2>1, SubnetTyped
  <2>3. k <= Len(ns.prefixes) /\ k <= Len(ns.vlans) /\ r = [at EXCEPT !.subnets = Append(@, new)]
    <3>2. ~(k > Len(ns.prefixes) \/ k > Len(ns.vlans))
      <4>1. SUFFICES ASSUME k > Len(ns.prefixes) \/ k > Len(ns.vlans) PROVE FALSE
        OBVIOUS
      <4>2. r = [at EXCEPT !.err = TRUE]
        BY <1>2, <1>4, <4>1 DEF EnsureSubnet
      <4>3. r.err
        BY <4>2, <1>1 DEF IsPlan
      <4> QED
        BY <4>3, <1>2
    <3>3. Len(ns.prefixes) \in Nat /\ Len(ns.vlans) \in Nat
      BY LenProperties DEF GoodNamespaces
    <3>4. r = [at EXCEPT !.subnets = Append(@, new)]
      BY <1>2, <1>4, <3>2 DEF EnsureSubnet
    <3> QED
      BY <2>2, <3>2, <3>3, <3>4
  <2>4. ns.prefixes[k] \in Nat /\ ns.vlans[k] \in Nat /\ k \in 1..Len(ns.prefixes) /\ k \in 1..Len(ns.vlans)
    <3>1. Len(ns.prefixes) \in Nat /\ Len(ns.vlans) \in Nat
      BY LenProperties DEF GoodNamespaces
    <3>2. k \in 1..Len(ns.prefixes) /\ k \in 1..Len(ns.vlans)
      BY <2>2, <2>3, <3>1
    <3> QED
      BY <3>2, ElementOfSeq DEF GoodNamespaces
  <2>5. at.vpc \in Nat /\ at.subnet \in Nat /\ dhcp \in BOOLEAN
    BY <1>1 DEF IsPlan, GoodOptions
  <2>6. new \in SubnetT
    BY <2>4, <2>5 DEF SubnetT, GoodOptions
  <2>7. /\ new.vpc = at.vpc /\ new.subnet = at.subnet /\ new.hostBGP = bgp /\ (new.dhcp <=> ~bgp /\ ~o.p2p)
        /\ new.prefix = ns.prefixes[k] /\ new.vlan = ns.vlans[k]
    OBVIOUS
  <2> HIDE DEF new
  <2>8. /\ Append(pl.subnets, new) \in Seq(SubnetT) /\ Len(Append(pl.subnets, new)) = k
        /\ \A i \in 1..Len(pl.subnets) : Append(pl.subnets, new)[i] = pl.subnets[i]
        /\ Append(pl.subnets, new)[k] = new
    <3>1. pl.subnets \in Seq(SubnetT)
      BY DEF IsPlan
    <3>2. /\ Append(pl.subnets, new) \in Seq(SubnetT) /\ Len(Append(pl.subnets, new)) = Len(pl.subnets) + 1
          /\ \A i \in 1..Len(pl.subnets) : Append(pl.subnets, new)[i] = pl.subnets[i]
          /\ Append(pl.subnets, new)[Len(pl.subnets) + 1] = new
      BY <2>6, <3>1, AppendProperties
    <3> QED
      BY <2>2, <3>2
  <2>9. /\ r.subnets = Append(pl.subnets, new) /\ r.attaches = pl.attaches /\ r.confs = pl.confs
        /\ r.vpc = at.vpc /\ r.subnet = at.subnet /\ r.inSubnet = at.inSubnet /\ IsPlan(r)
    BY <1>1, <2>1, <2>3, <2>8 DEF IsPlan
  <2>10. \A i \in 1..Len(pl.subnets) : ~(pl.subnets[i].vpc = at.vpc /\ pl.subnets[i].subnet = at.subnet)
    BY <1>1, <1>4, <2>1, CurrentIs
  <2>11. \A i \in 1..k : (i \in 1..Len(pl.subnets) /\ r.subnets[i] = pl.subnets[i]) \/ (i = k /\ r.subnets[i] = new)
    BY <2>2, <2>8, <2>9
  <2>12. Ordered(o, r)
    <3>1. at.subnet < o.perVPC
      BY <1>1 DEF Ordered
    <3>2. ASSUME NEW i \in 1..Len(r.subnets)
          PROVE  /\ r.subnets[i].subnet < o.perVPC
                 /\ r.subnets[i].vpc < r.vpc \/ (r.subnets[i].vpc = r.vpc /\ r.subnets[i].subnet <= r.subnet)
                 /\ r.subnets[i].dhcp <=> ~r.subnets[i].hostBGP /\ ~o.p2p
      <4>1. CASE i \in 1..Len(pl.subnets) /\ r.subnets[i] = pl.subnets[i]
        BY <1>1, <2>1, <2>9, <4>1 DEF Ordered
      <4>2. CASE r.subnets[i] = new
        BY <2>5, <2>7, <2>9, <3>1, <4>2
      <4> QED
        BY <2>8, <2>9, <2>11, <4>1, <4>2
    <3>3. ASSUME NEW i \in 1..Len(r.subnets), NEW j \in 1..Len(r.subnets),
                 r.subnets[i].vpc = r.subnets[j].vpc, r.subnets[i].subnet = r.subnets[j].subnet
          PROVE  i = j
      <4>1. i \in 1..k /\ j \in 1..k
        BY <2>8, <2>9
      <4>2. CASE i = k \/ j = k
        <5>1. k \notin 1..Len(pl.subnets)
          BY <2>2
        <5>2. ASSUME NEW l \in 1..k, r.subnets[l].vpc = new.vpc, r.subnets[l].subnet = new.subnet PROVE l = k
          BY <2>7, <2>10, <2>11, <5>2
        <5>3. k \in 1..k /\ r.subnets[k] = new
          BY <2>2, <2>11, <5>1
        <5> QED
          BY <3>3, <4>1, <4>2, <5>2, <5>3
      <4>3. CASE i # k /\ j # k
        BY <2>11, <3>3, <4>1, <4>3 DEF Ordered
      <4> QED
        BY <4>2, <4>3
    <3>4. ASSUME NEW a \in r.attaches
          PROVE  \E i \in 1..Len(r.subnets) : r.subnets[i].vpc = a.vpc /\ r.subnets[i].subnet = a.subnet
      <4>1. PICK i \in 1..Len(pl.subnets) : pl.subnets[i].vpc = a.vpc /\ pl.subnets[i].subnet = a.subnet
        BY <2>9 DEF Ordered
      <4>2. i \in 1..Len(r.subnets) /\ r.subnets[i] = pl.subnets[i]
        BY <2>2, <2>8, <2>9
      <4> QED
        BY <4>1, <4>2
    <3> QED
      BY <2>9, <3>1, <3>2, <3>3, <3>4 DEF Ordered
  <2>13. Numbered(ns, r)
    <3>1. ASSUME NEW i \in 1..k
          PROVE  /\ i \in 1..Len(ns.prefixes) /\ i \in 1..Len(ns.vlans)
                 /\ r.subnets[i].prefix = ns.prefixes[i] /\ r.subnets[i].vlan = ns.vlans[i]
      BY <2>4, <2>7, <2>11 DEF Numbered
    <3> QED
      BY <2>8, <2>9, <3>1 DEF Numbered
  <2>14. \A v, s : Members(r, v, s) = Members(pl, v, s)
    BY <2>9 DEF Members
  <2>15. Members(r, at.vpc, at.subnet) = {}
    <3>1. \A a \in pl.attaches : ~(a.vpc = at.vpc /\ a.subnet = at.subnet)
      BY <2>10 DEF Ordered
    <3> QED
      BY <2>9, <3>1 DEF Members
  <2>16. at.inSubnet = 0
    BY <1>1, <1>4 DEF Loaded
  <2>17. ASSUME NEW i \in 1..Len(r.subnets)
         PROVE  \/ /\ i \in 1..Len(pl.subnets) /\ r.subnets[i] = pl.subnets[i]
                   /\ IsFiniteSet(Members(r, r.subnets[i].vpc, r.subnets[i].subnet))
                   /\ Cardinality(Members(r, r.subnets[i].vpc, r.subnets[i].subnet)) \in 1..o.perSubnet
                \/ i = k /\ Members(r, r.subnets[i].vpc, r.subnets[i].subnet) = {}
    <3>1. CASE i \in 1..Len(pl.subnets) /\ r.subnets[i] = pl.subnets[i]
      BY <2>14, <3>1 DEF Loaded
    <3>2. CASE i = k /\ r.subnets[i] = new
      BY <2>7, <2>15, <3>2
    <3> QED
      BY <2>8, <2>9, <2>11, <3>1, <3>2
  <2>18. k \in 1..Len(r.subnets) /\ r.subnets[k] = new /\ k \notin 1..Len(pl.subnets)
    BY <2>2, <2>8, <2>9
  <2>20. \A i \in 1..Len(pl.subnets) : i \in 1..Len(r.subnets) /\ r.subnets[i] = pl.subnets[i]
    BY <2>2, <2>8, <2>9
  <2>19. ReadyFor(o, ns, pl, r, bgp, k)
    BY <2>7, <2>9, <2>12, <2>13, <2>15, <2>16, <2>17, <2>18, <2>20, FS_EmptySet DEF ReadyFor, GoodOptions
  <2> QED
    BY <2>19 DEF r, at
<1> QED
  BY <1>3, <1>4

\* The links of a server, and the command that fits its place in a subnet.
Links(s) == {<<s.id, i>> : i \in 1..Len(s.conns)}
Fits(o, sub, s, slot, cmd) ==
    /\ cmd.conns = Links(s)
    /\ sub.hostBGP => /\ cmd.kind = "hostbgp" /\ cmd.base = PrefixSize * sub.prefix + slot + 1
                      /\ \A i \in 1..Len(s.conns) : s.conns[i] = "unbundled"
    /\ ~sub.hostBGP /\ o.p2p => cmd.kind = "p2p" /\ cmd.base = PrefixSize * sub.prefix + 2 * slot
    /\ ~sub.hostBGP /\ ~o.p2p => cmd.kind \in {"vlan", "bond"} /\ cmd.vlan = sub.vlan

\* The plan w after server s has been taken into subnet c of r.
Takes(o, r, w, s, c, p2p, cmd) ==
    /\ IsPlan(w) /\ ~w.err /\ p2p \in Int /\ cmd \in CommandT
    /\ w.subnets = r.subnets /\ w.vpc = r.vpc /\ w.subnet = r.subnet /\ w.inSubnet = r.inSubnet + 1
    /\ w.attaches = r.attaches \cup {[conn |-> x, vpc |-> r.vpc, subnet |-> r.subnet, p2p |-> p2p] : x \in Links(s)}
    /\ w.confs = Append(r.confs, [server |-> s.id, cmd |-> cmd])
    /\ Fits(o, r.subnets[c], s, r.inSubnet, cmd)

\* The fields of a command.
LEMMA CommandTyped ==
  ASSUME NEW kind \in Kinds, NEW vlan \in Nat, NEW mtu \in Nat, NEW base \in Nat, NEW bits \in Nat, NEW conns, conns \subseteq Conns
  PROVE  [kind |-> kind, vlan |-> vlan, mtu |-> mtu, base |-> base, bits |-> bits, conns |-> conns] \in CommandT
BY DEF CommandT

\* The kinds of commands and the prefix lengths the loop writes.
LEMMA Literals ==
  /\ "hostbgp" \in Kinds /\ "p2p" \in Kinds /\ {"vlan", "bond"} \subseteq Kinds
  /\ 0 \in Nat /\ 24 \in Nat /\ 31 \in Nat /\ 32 \in Nat
BY DEF Kinds

\* A positive number of links is one or more than one.
LEMMA OneOrMore == \A k \in Nat \ {0} : k > 0 /\ (k > 1 \/ k = 1)
OBVIOUS

\* Attach gives the server a command for its place, if there is one.
LEMMA Attached ==
  ASSUME NEW o, GoodOptions(o), NEW ns, GoodNamespaces(ns), NEW pl, NEW r, NEW c, NEW bgp \in BOOLEAN, ReadyFor(o, ns, pl, r, bgp, c),
         ~r.err, NEW s \in ServerT, ~BadConnections(s), Multihomed(s) => bgp, bgp => s.conns[1] = "unbundled",
         ~Attach(o, r, s, bgp).err
  PROVE  \E p2p, cmd : Takes(o, r, Attach(o, r, s, bgp), s, c, p2p, cmd)
<1> DEFINE sub == CHOOSE x \in Current(r) : TRUE
           p2p == IF o.p2p /\ ~bgp THEN PrefixSize * sub.prefix + 2 * r.inSubnet ELSE -1
           conns == {<<s.id, i>> : i \in IF Multihomed(s) THEN DOMAIN s.conns ELSE {1}}
           cmd == IF bgp THEN getServerHostBGPCmd(sub, conns, r.inSubnet + 1)
                  ELSE GetServerNetconfCmd(o, s.conns[1], sub, <<s.id, 1>>, p2p)
           w == Attach(o, r, s, bgp)
<1>1. IsPlan(r) /\ c \in 1..Len(r.subnets) /\ r.inSubnet \in Nat /\ r.vpc \in Nat /\ r.subnet \in Nat
  BY DEF ReadyFor, IsPlan
<1>2. sub = r.subnets[c]
  <2>1. r.subnets[c] \in Current(r)
    BY <1>1, CurrentIs DEF ReadyFor
  <2>2. \A x \in Current(r) : x = r.subnets[c]
    <3>1. SUFFICES ASSUME NEW x \in Current(r) PROVE x = r.subnets[c]
      OBVIOUS
    <3>2. PICK i \in 1..Len(r.subnets) : x = r.subnets[i] /\ x.vpc = r.vpc /\ x.subnet = r.subnet
      BY <1>1, CurrentIs
    <3> QED
      BY <1>1, <3>2 DEF ReadyFor, Ordered
  <2> QED
    BY <2>1, <2>2
<1>3. sub.prefix \in Nat /\ sub.vlan \in Nat /\ sub.hostBGP = bgp
  BY <1>1, <1>2, SubnetTyped DEF ReadyFor
<1>4. s.id \in Nat /\ s.conns \in Seq(STRING) /\ Len(s.conns) \in Nat /\ DOMAIN s.conns = 1..Len(s.conns)
  BY LenProperties DEF ServerT
<1>5. Len(s.conns) > 0 /\ (~Multihomed(s) => Len(s.conns) = 1)
  <2>1. s.conns # <<>>
    BY DEF BadConnections
  <2>2. Len(s.conns) \in Nat \ {0}
    BY <1>4, <2>1, EmptySeq
  <2>3. Len(s.conns) > 0 /\ (Len(s.conns) > 1 \/ Len(s.conns) = 1)
    BY <2>2, OneOrMore
  <2> QED
    BY <2>3 DEF Multihomed
<1>6. conns = Links(s)
  <2>1. CASE Multihomed(s)
    BY <1>4, <2>1 DEF Links
  <2>2. CASE ~Multihomed(s)
    <3>1. Len(s.conns) = 1 /\ 1..1 = {1}
      BY <1>5, <2>2
    <3>2. conns = {<<s.id, i>> : i \in {1}} /\ Links(s) = {<<s.id, i>> : i \in 1..1}
      BY <2>2, <3>1 DEF Links
    <3> QED
      BY <3>1, <3>2
  <2> QED
    BY <2>1, <2>2
<1>7. Links(s) \subseteq Conns
  BY <1>4 DEF Links, Conns
<1>8. p2p \in Int
  BY <1>1, <1>3 DEF PrefixSize
<1>9. w = IF cmd = NoCommand THEN [r EXCEPT !.err = TRUE]
          ELSE [r EXCEPT !.inSubnet = @ + 1, !.bgpDone = @ \/ bgp,
                         !.attaches = @ \cup {[conn |-> x, vpc |-> r.vpc, subnet |-> r.subnet, p2p |-> p2p] : x \in conns},
                         !.confs = Append(@, [server |-> s.id, cmd |-> cmd])]
  BY DEF Attach
<1>10. ASSUME cmd # NoCommand PROVE cmd \in CommandT /\ Fits(o, r.subnets[c], s, r.inSubnet, cmd)
  <2>1. CASE bgp
    <3> DEFINE base == PrefixSize * sub.prefix + (r.inSubnet + 1)
    <3>1. cmd = [kind |-> "hostbgp", vlan |-> sub.vlan, mtu |-> 0, base |-> base, bits |-> 32, conns |-> conns]
      BY <2>1 DEF getServerHostBGPCmd, Command
    <3>2. base \in Nat /\ base = PrefixSize * sub.prefix + r.inSubnet + 1
      BY <1>1, <1>3 DEF PrefixSize
    <3> HIDE DEF cmd, conns, sub, base
    <3>3. cmd.conns = Links(s) /\ cmd.kind = "hostbgp" /\ cmd.base = base
      BY <1>6, <3>1
    <3>4. cmd \in CommandT
      <4>1. conns \subseteq Conns
        BY <1>6, <1>7, Zenon
      <4>2. "hostbgp" \in Kinds /\ 0 \in Nat /\ 32 \in Nat
        BY Literals, Zenon
      <4> QED
        BY <1>3, <3>1, <3>2, <4>1, <4>2, CommandTyped, Zenon
    <3>5. \A i \in 1..Len(s.conns) : s.conns[i] = "unbundled"
      BY <1>4, <1>5, <2>1 DEF BadConnections
    <3>6. Fits(o, sub, s, r.inSubnet, cmd)
      BY <1>3, <2>1, <3>2, <3>3, <3>5 DEF Fits
    <3> QED
      BY <1>2, <3>4, <3>6
  <2>2. CASE ~bgp
    <3>1. ~Multihomed(s) /\ Links(s) = {<<s.id, 1>>}
      <4>1. 1..1 = {1}
        OBVIOUS
      <4> QED
        BY <1>5, <2>2, <4>1 DEF Links
    <3>2. cmd = GetServerNetconfCmd(o, s.conns[1], sub, <<s.id, 1>>, p2p)
      BY <2>2
    <3>3. CASE o.p2p
      <4> DEFINE base == PrefixSize * sub.prefix + 2 * r.inSubnet
      <4>1. p2p = base
        BY <2>2, <3>3
      <4>2. base \in Nat
        BY <1>1, <1>3 DEF PrefixSize
      <4> HIDE DEF cmd, sub, base, p2p
      <4>3. cmd = [kind |-> "p2p", vlan |-> 0, mtu |-> 0, base |-> base, bits |-> 31, conns |-> {<<s.id, 1>>}]
        BY <1>10, <3>2, <4>1, <4>2 DEF GetServerNetconfCmd, Command
      <4>4. cmd.conns = Links(s) /\ cmd.kind = "p2p" /\ cmd.base = base
        BY <3>1, <4>3
      <4>5. cmd \in CommandT
        <5>1. {<<s.id, 1>>} \subseteq Conns
          BY <1>7, <3>1, Zenon
        <5>2. "p2p" \in Kinds /\ 0 \in Nat /\ 31 \in Nat
          BY Literals, Zenon
        <5> QED
          BY <4>2, <4>3, <5>1, <5>2, CommandTyped, Zenon
      <4>6. Fits(o, sub, s, r.inSubnet, cmd)
        BY <1>3, <2>2, <3>3, <4>4 DEF Fits, base
      <4> QED
        BY <1>2, <4>5, <4>6
    <3>4. CASE ~o.p2p
      <4>1. p2p = -1
        BY <3>4
      <4>2. o.mtu \in Nat /\ PrefixSize * sub.prefix \in Nat
        BY <1>3 DEF PrefixSize, GoodOptions
      <4> HIDE DEF cmd, sub, p2p
      <4>3. PICK kind \in {"vlan", "bond"} :
              cmd = [kind |-> kind, vlan |-> sub.vlan, mtu |-> o.mtu, base |-> PrefixSize * sub.prefix, bits |-> 24, conns |-> {<<s.id, 1>>}]
        BY <1>10, <3>2, <4>1 DEF GetServerNetconfCmd, Command
      <4>4. cmd.conns = Links(s) /\ cmd.kind \in {"vlan", "bond"} /\ cmd.vlan = sub.vlan
        BY <3>1, <4>3
      <4>5. cmd \in CommandT
        <5>1. {<<s.id, 1>>} \subseteq Conns
          BY <1>7, <3>1, Zenon
        <5>2. kind \in Kinds /\ 24 \in Nat
          BY Literals, Zenon
        <5> QED
          BY <1>3, <4>2, <4>3, <5>1, <5>2, CommandTyped, Zenon
      <4>6. Fits(o, sub, s, r.inSubnet, cmd)
        BY <1>3, <2>2, <3>4, <4>4 DEF Fits
      <4> QED
        BY <1>2, <4>5, <4>6
    <3> QED
      BY <3>3, <3>4
  <2> QED
    BY <2>1, <2>2
<1> DEFINE new == {[conn |-> x, vpc |-> r.vpc, subnet |-> r.subnet, p2p |-> p2p] : x \in Links(s)}
<1>11. new \subseteq AttachT
  BY <1>1, <1>7, <1>8 DEF AttachT
<1> HIDE DEF cmd, sub, p2p, conns
<1>12. cmd # NoCommand
  BY <1>1, <1>9 DEF IsPlan
<1>13. [server |-> s.id, cmd |-> cmd] \in ConfT
  BY <1>4, <1>10, <1>12 DEF ConfT
<1>14. Append(r.confs, [server |-> s.id, cmd |-> cmd]) \in Seq(ConfT)
  BY <1>1, <1>13, AppendProperties DEF IsPlan
<1>15. w = [r EXCEPT !.inSubnet = @ + 1, !.bgpDone = @ \/ bgp, !.attaches = @ \cup new,
                     !.confs = Append(@, [server |-> s.id, cmd |-> cmd])]
  BY <1>6, <1>9, <1>12
<1> HIDE DEF w, new
<1>16. /\ DOMAIN w = DOMAIN r /\ w.subnets = r.subnets /\ w.vpc = r.vpc /\ w.subnet = r.subnet /\ w.inSubnet = r.inSubnet + 1
       /\ w.attaches = r.attaches \cup new /\ w.confs = Append(r.confs, [server |-> s.id, cmd |-> cmd]) /\ w.err = r.err
  BY <1>1, <1>15 DEF IsPlan
<1>17. w.bgpDone \in BOOLEAN
  BY <1>1, <1>15 DEF IsPlan
<1>18. IsPlan(w)
  BY <1>1, <1>11, <1>14, <1>16, <1>17 DEF IsPlan
<1>19. Takes(o, r, w, s, c, p2p, cmd)
  BY <1>8, <1>10, <1>12, <1>16, <1>18 DEF Takes, new
<1> QED
  BY <1>19 DEF w

-----------------------------------------------------------------------------
(***************************************************************************)
(* One turn of the loop                                                    *)
(***************************************************************************)

\* Server s sits in subnet c: its attachments are its links to that subnet, and its
\* one command fits.
Sits(o, pl, s, c, k, slot) ==
    LET sub == pl.subnets[c]
    IN /\ {a.conn : a \in AttachesOf(pl, s.id)} = Links(s)
       /\ \A a \in AttachesOf(pl, s.id) : a.vpc = sub.vpc /\ a.subnet = sub.subnet
       /\ pl.confs[k].server = s.id /\ Fits(o, sub, s, slot, pl.confs[k].cmd)
       /\ sub.vpc = pl.vpc /\ sub.subnet = pl.subnet => slot < pl.inSubnet
Served(o, q, n, pl) ==
    \A i \in 1..n :
        IF PassedOver(o, q[i])
        THEN AttachesOf(pl, q[i].id) = {} /\ \A k \in 1..Len(pl.confs) : pl.confs[k].server # q[i].id
        ELSE /\ 1 <= Len(q[i].conns)
             /\ \E c \in 1..Len(pl.subnets), k \in 1..Len(pl.confs), slot \in 0..(o.perSubnet - 1) : Sits(o, pl, q[i], c, k, slot)
\* Only servers that have had their turn are in the plan, and each has one command.
Known(q, n, pl) ==
    /\ \A a \in pl.attaches : a.conn[1] \in IDs(q, n)
    /\ \A k \in 1..Len(pl.confs) : pl.confs[k].server \in IDs(q, n)
    /\ \A j, k \in 1..Len(pl.confs) : pl.confs[j].server = pl.confs[k].server => j = k
\* No two commands fix the same address.
Apart(pl) ==
    \A j, k \in 1..Len(pl.confs) : j # k => FixedAddresses(pl.confs[j].cmd) \cap FixedAddresses(pl.confs[k].cmd) = {}

SoFar(o, ns, q, n, pl) ==
    IsPlan(pl) /\ ~pl.err /\ Ordered(o, pl) /\ Loaded(o, pl) /\ Numbered(ns, pl) /\ Known(q, n, pl) /\ Served(o, q, n, pl)

InOrder(q) == q \in Seq(ServerT) /\ \A i, j \in 1..Len(q) : i < j => q[i].id < q[j].id

\* The next server's number is not one of those before.
LEMMA Fresh ==
  ASSUME NEW q, InOrder(q), NEW n \in Nat, n + 1 \in 1..Len(q)
  PROVE  /\ q[n + 1] \in ServerT /\ q[n + 1].id \notin IDs(q, n) /\ IDs(q, n + 1) = IDs(q, n) \cup {q[n + 1].id}
         /\ \A i \in 1..n : q[i] \in ServerT /\ q[i].id # q[n + 1].id
<1>1. q \in Seq(ServerT) /\ Len(q) \in Nat
  BY LenProperties DEF InOrder
<1>2. \A i \in 1..Len(q) : q[i] \in ServerT /\ q[i].id \in Nat
  <2>1. \A i \in 1..Len(q) : q[i] \in ServerT
    BY <1>1, ElementOfSeq
  <2> QED
    BY <2>1 DEF ServerT
<1>3. \A i \in 1..n : i \in 1..Len(q) /\ i < n + 1
  BY <1>1
<1>4. \A i \in 1..n : q[i].id # q[n + 1].id
  BY <1>2, <1>3 DEF InOrder
<1>5. 1..(n + 1) = (1..n) \cup {n + 1}
  OBVIOUS
<1> QED
  BY <1>2, <1>3, <1>4, <1>5 DEF IDs

\* A server that takes its place in subnet c adds its number to that subnet and its
\* links to the attachments, and nothing else.
Grown(r, w, s) ==
    /\ Members(w, r.vpc, r.subnet) = Members(r, r.vpc, r.subnet) \cup {s.id}
    /\ \A v, k : ~(v = r.vpc /\ k = r.subnet) => Members(w, v, k) = Members(r, v, k)
    /\ \A id : id # s.id => AttachesOf(w, id) = AttachesOf(r, id)
    /\ Links(s) \subseteq {a.conn : a \in AttachesOf(w, s.id)}
    /\ \A a \in w.attaches : a \in r.attaches \/ (a.conn \in Links(s) /\ a.conn[1] = s.id /\ a.vpc = r.vpc /\ a.subnet = r.subnet)

\* A server that takes a place adds its attachments to the current subnet and one command.
LEMMA Growth ==
  ASSUME NEW o, NEW r, NEW w, NEW s \in ServerT, 1 <= Len(s.conns), NEW c, NEW p2p, NEW cmd, Takes(o, r, w, s, c, p2p, cmd)
  PROVE  Grown(r, w, s)
<1> DEFINE new == {[conn |-> x, vpc |-> r.vpc, subnet |-> r.subnet, p2p |-> p2p] : x \in Links(s)}
<1>1. w.attaches = r.attaches \cup new
  BY DEF Takes
<1>2. \A x \in Links(s) : x[1] = s.id
  BY DEF Links
<1>3. s.conns \in Seq(STRING) /\ Len(s.conns) \in Nat
  BY LenProperties DEF ServerT
<1>4. <<s.id, 1>> \in Links(s)
  BY <1>3 DEF Links
<1>5. \A a \in new : a.conn \in Links(s) /\ a.conn[1] = s.id /\ a.vpc = r.vpc /\ a.subnet = r.subnet
  BY <1>2
<1>6. ASSUME NEW x \in Links(s) PROVE \E a \in new : a.conn = x
  <2>1. [conn |-> x, vpc |-> r.vpc, subnet |-> r.subnet, p2p |-> p2p] \in new
    OBVIOUS
  <2> QED
    BY <2>1
<1> HIDE DEF new
<1>7. \A a \in w.attaches : a \in r.attaches \/ (a.conn \in Links(s) /\ a.conn[1] = s.id /\ a.vpc = r.vpc /\ a.subnet = r.subnet)
  BY <1>1, <1>5
<1>9. Members(w, r.vpc, r.subnet) = Members(r, r.vpc, r.subnet) \cup {s.id}
  <2>1. \E a \in new : a.conn[1] = s.id
    BY <1>4, <1>5, <1>6
  <2> QED
    BY <1>1, <1>5, <2>1 DEF Members
<1>10. \A v, k : ~(v = r.vpc /\ k = r.subnet) => Members(w, v, k) = Members(r, v, k)
  BY <1>1, <1>5 DEF Members
<1>11. Links(s) \subseteq {a.conn : a \in AttachesOf(w, s.id)}
  BY <1>1, <1>5, <1>6 DEF AttachesOf
<1>12. \A id : id # s.id => AttachesOf(w, id) = AttachesOf(r, id)
  BY <1>1, <1>5 DEF AttachesOf
<1> QED
  BY <1>7, <1>9, <1>10, <1>11, <1>12 DEF Grown

\* It leaves the subnets in their order and numbering.
LEMMA OrderedKept ==
  ASSUME NEW o, NEW ns, NEW pl, NEW r, NEW bgp, NEW c, ReadyFor(o, ns, pl, r, bgp, c),
         NEW w, NEW s, NEW p2p, NEW cmd, Takes(o, r, w, s, c, p2p, cmd), Grown(r, w, s)
  PROVE  Ordered(o, w) /\ Numbered(ns, w)
<1>1. IsPlan(r) /\ Ordered(o, r) /\ Numbered(ns, r) /\ c \in 1..Len(r.subnets) /\ r.subnets[c].vpc = r.vpc /\ r.subnets[c].subnet = r.subnet
  BY DEF ReadyFor
<1>2. w.subnets = r.subnets /\ w.vpc = r.vpc /\ w.subnet = r.subnet
  BY DEF Takes
<1>3. \A a \in w.attaches : a \in r.attaches \/ (a.vpc = r.vpc /\ a.subnet = r.subnet)
  BY DEF Grown
<1>4. \A a \in w.attaches : \E i \in 1..Len(w.subnets) : w.subnets[i].vpc = a.vpc /\ w.subnets[i].subnet = a.subnet
  BY <1>1, <1>2, <1>3 DEF Ordered
<1> QED
  BY <1>1, <1>2, <1>4 DEF Ordered, Numbered

\* It leaves no subnet with more servers than the limit.
LEMMA LoadedKept ==
  ASSUME NEW o, GoodOptions(o), NEW ns, NEW pl, NEW r, NEW bgp, NEW c, ReadyFor(o, ns, pl, r, bgp, c),
         NEW w, NEW s, NEW p2p, NEW cmd, Takes(o, r, w, s, c, p2p, cmd), Grown(r, w, s),
         \A a \in r.attaches : a.conn[1] # s.id
  PROVE  Loaded(o, w)
<1>1. /\ IsPlan(r) /\ Ordered(o, r) /\ c \in 1..Len(r.subnets) /\ r.subnets[c].vpc = r.vpc /\ r.subnets[c].subnet = r.subnet
      /\ r.inSubnet \in Nat /\ r.inSubnet < o.perSubnet /\ o.perSubnet \in Nat
      /\ IsFiniteSet(Members(r, r.vpc, r.subnet)) /\ Cardinality(Members(r, r.vpc, r.subnet)) = r.inSubnet
  BY DEF ReadyFor, IsPlan, GoodOptions
<1>2. w.subnets = r.subnets /\ w.vpc = r.vpc /\ w.subnet = r.subnet /\ w.inSubnet = r.inSubnet + 1 /\ IsPlan(w)
  BY DEF Takes
<1> DEFINE old == Members(r, r.vpc, r.subnet)
           new == Members(w, r.vpc, r.subnet)
<1>3. new = old \cup {s.id} /\ \A v, k : ~(v = r.vpc /\ k = r.subnet) => Members(w, v, k) = Members(r, v, k)
  BY DEF Grown
<1>4. s.id \notin old
  BY DEF Members
<1>5. IsFiniteSet(old) /\ Cardinality(old) = r.inSubnet
  BY <1>1
<1> HIDE DEF old, new
<1>6. IsFiniteSet(new) /\ Cardinality(new) = r.inSubnet + 1
  BY <1>3, <1>4, <1>5, FS_AddElement
<1>7. Cardinality(new) \in 1..o.perSubnet
  BY <1>1, <1>6 DEF GoodOptions
<1>8. ASSUME NEW i \in 1..Len(w.subnets)
      PROVE  LET sub == w.subnets[i]
                 m == Members(w, sub.vpc, sub.subnet)
             IN /\ IsFiniteSet(m) /\ Cardinality(m) \in 1..o.perSubnet
                /\ sub.vpc = w.vpc /\ sub.subnet = w.subnet => Cardinality(m) = w.inSubnet
  <2>1. CASE w.subnets[i].vpc = r.vpc /\ w.subnets[i].subnet = r.subnet
    BY <1>2, <1>6, <1>7, <2>1 DEF new
  <2>2. CASE ~(w.subnets[i].vpc = r.vpc /\ w.subnets[i].subnet = r.subnet)
    <3>1. i \in 1..Len(r.subnets) /\ i # c
      BY <1>1, <1>2, <2>2
    <3>2. IsFiniteSet(Members(r, r.subnets[i].vpc, r.subnets[i].subnet)) /\ Cardinality(Members(r, r.subnets[i].vpc, r.subnets[i].subnet)) \in 1..o.perSubnet
      BY <3>1 DEF ReadyFor
    <3>3. Members(w, r.subnets[i].vpc, r.subnets[i].subnet) = Members(r, r.subnets[i].vpc, r.subnets[i].subnet)
      BY <1>2, <1>3, <2>2
    <3> QED
      BY <1>2, <2>2, <3>2, <3>3
  <2> QED
    BY <2>1, <2>2
<1>9. Current(w) # {}
  BY <1>1, <1>2, CurrentIs
<1> QED
  BY <1>8, <1>9 DEF Loaded

\* It also adds one command.
Added(r, w, s, cmd) ==
    /\ Len(r.confs) \in Nat /\ Len(w.confs) = Len(r.confs) + 1
    /\ \A k \in 1..Len(r.confs) : w.confs[k] = r.confs[k]
    /\ w.confs[Len(r.confs) + 1].server = s.id /\ w.confs[Len(r.confs) + 1].cmd = cmd

\* It adds its own command to those of the servers before it.
LEMMA Addition ==
  ASSUME NEW o, NEW r, IsPlan(r), NEW w, NEW s \in ServerT, NEW c, NEW p2p, NEW cmd, Takes(o, r, w, s, c, p2p, cmd)
  PROVE  Added(r, w, s, cmd)
<1>1. r.confs \in Seq(ConfT) /\ Len(r.confs) \in Nat
  BY LenProperties DEF IsPlan
<1>2. w.confs = Append(r.confs, [server |-> s.id, cmd |-> cmd]) /\ cmd \in CommandT
  BY DEF Takes
<1>3. [server |-> s.id, cmd |-> cmd] \in ConfT
  BY <1>2 DEF ConfT, ServerT
<1>4. /\ Len(w.confs) = Len(r.confs) + 1 /\ \A k \in 1..Len(r.confs) : w.confs[k] = r.confs[k]
      /\ w.confs[Len(r.confs) + 1] = [server |-> s.id, cmd |-> cmd]
  BY <1>1, <1>2, <1>3, AppendProperties
<1> QED
  BY <1>1, <1>4 DEF Added

\* Only servers the loop has come to are attached or have a command.
LEMMA KnownKept ==
  ASSUME NEW q, InOrder(q), NEW n \in Nat, n + 1 \in 1..Len(q), NEW s, s = q[n + 1],
         NEW r, Known(q, n, r), NEW w, NEW cmd, Grown(r, w, s), Added(r, w, s, cmd)
  PROVE  Known(q, n + 1, w)
<1> DEFINE k1 == Len(r.confs) + 1
<1>1. s.id \notin IDs(q, n) /\ IDs(q, n + 1) = IDs(q, n) \cup {s.id}
  BY Fresh
<1>2. Len(w.confs) = k1 /\ Len(r.confs) \in Nat /\ w.confs[k1].server = s.id
  BY DEF Added
<1>3. \A k \in 1..Len(w.confs) : (k \in 1..Len(r.confs) /\ w.confs[k] = r.confs[k]) \/ k = k1
  BY <1>2 DEF Added
<1>4. \A a \in w.attaches : a.conn[1] \in IDs(q, n + 1)
  <2>1. \A a \in w.attaches : a \in r.attaches \/ a.conn[1] = s.id
    BY DEF Grown
  <2> QED
    BY <1>1, <2>1 DEF Known
<1>5. \A k \in 1..Len(w.confs) : w.confs[k].server \in IDs(q, n + 1)
  BY <1>1, <1>2, <1>3 DEF Known
<1>6. ASSUME NEW j \in 1..Len(w.confs), NEW k \in 1..Len(w.confs), w.confs[j].server = w.confs[k].server
      PROVE  j = k
  <2>1. CASE j = k1 \/ k = k1
    <3>1. \A l \in 1..Len(r.confs) : r.confs[l].server # s.id
      BY <1>1 DEF Known
    <3> QED
      BY <1>2, <1>3, <1>6, <2>1, <3>1
  <2>2. CASE j # k1 /\ k # k1
    BY <1>3, <1>6, <2>2 DEF Known
  <2> QED
    BY <2>1, <2>2
<1> QED
  BY <1>4, <1>5, <1>6 DEF Known

\* Every server the loop has come to and not passed over is served.
LEMMA ServedKept ==
  ASSUME NEW o, GoodOptions(o), NEW ns, NEW q, InOrder(q), NEW n \in Nat, n + 1 \in 1..Len(q),
         NEW s, s = q[n + 1], ~PassedOver(o, s), 1 <= Len(s.conns),
         NEW pl, SoFar(o, ns, q, n, pl), NEW r, NEW bgp, NEW c, ReadyFor(o, ns, pl, r, bgp, c),
         NEW w, NEW p2p, NEW cmd, Takes(o, r, w, s, c, p2p, cmd), Grown(r, w, s), Added(r, w, s, cmd)
  PROVE  Served(o, q, n + 1, w)
<1> DEFINE k1 == Len(r.confs) + 1
<1>1. /\ IsPlan(r) /\ Ordered(o, r) /\ r.attaches = pl.attaches /\ r.confs = pl.confs /\ r.inSubnet < o.perSubnet
      /\ c \in 1..Len(r.subnets) /\ (c \in 1..Len(pl.subnets) => r = pl)
      /\ \A i \in 1..Len(pl.subnets) : i \in 1..Len(r.subnets) /\ r.subnets[i] = pl.subnets[i]
      /\ r.subnets[c].vpc = r.vpc /\ r.subnets[c].subnet = r.subnet
  BY DEF ReadyFor
<1>2. /\ w.subnets = r.subnets /\ w.vpc = r.vpc /\ w.subnet = r.subnet /\ w.inSubnet = r.inSubnet + 1
      /\ Fits(o, r.subnets[c], s, r.inSubnet, cmd)
  BY DEF Takes
<1>3. Known(q, n, r) /\ Known(q, n, pl) /\ Served(o, q, n, pl)
  BY <1>1 DEF SoFar, Known
<1>4. /\ Len(w.confs) = k1 /\ Len(r.confs) \in Nat /\ w.confs[k1].server = s.id /\ w.confs[k1].cmd = cmd
      /\ \A k \in 1..Len(r.confs) : w.confs[k] = r.confs[k]
  BY DEF Added
<1>5. s.id \notin IDs(q, n) /\ \A i \in 1..n : q[i].id # s.id
  BY Fresh
<1>6. r.inSubnet \in Nat /\ o.perSubnet \in Nat /\ r.inSubnet \in 0..(o.perSubnet - 1)
  BY <1>1 DEF IsPlan, GoodOptions
<1>7. \A id : id # s.id => AttachesOf(w, id) = AttachesOf(pl, id)
  BY <1>1 DEF Grown, AttachesOf
<1>8. ASSUME NEW i \in 1..n, PassedOver(o, q[i])
      PROVE  AttachesOf(w, q[i].id) = {} /\ \A k \in 1..Len(w.confs) : w.confs[k].server # q[i].id
  <2>1. AttachesOf(pl, q[i].id) = {} /\ \A k \in 1..Len(pl.confs) : pl.confs[k].server # q[i].id
    BY <1>3, <1>8 DEF Served
  <2>2. \A k \in 1..Len(w.confs) : k \in 1..Len(pl.confs) \/ k = k1
    BY <1>1, <1>4
  <2> QED
    BY <1>1, <1>4, <1>5, <1>7, <2>1, <2>2
<1>9. ASSUME NEW i \in 1..n, ~PassedOver(o, q[i])
      PROVE  /\ 1 <= Len(q[i].conns)
             /\ \E x \in 1..Len(w.subnets), k \in 1..Len(w.confs), slot \in 0..(o.perSubnet - 1) : Sits(o, w, q[i], x, k, slot)
  <2>1. /\ 1 <= Len(q[i].conns)
        /\ \E x \in 1..Len(pl.subnets), k \in 1..Len(pl.confs), slot \in 0..(o.perSubnet - 1) : Sits(o, pl, q[i], x, k, slot)
    BY <1>3, <1>9 DEF Served
  <2>2. PICK x \in 1..Len(pl.subnets), k \in 1..Len(pl.confs), slot \in 0..(o.perSubnet - 1) : Sits(o, pl, q[i], x, k, slot)
    BY <2>1
  <2>3. x \in 1..Len(w.subnets) /\ w.subnets[x] = pl.subnets[x]
    BY <1>1, <1>2
  <2>4. k \in 1..Len(w.confs) /\ w.confs[k] = pl.confs[k]
    <3>1. k \in 1..Len(r.confs) /\ r.confs[k] = pl.confs[k]
      BY <1>1
    <3> QED
      BY <1>4, <3>1
  <2>5. AttachesOf(w, q[i].id) = AttachesOf(pl, q[i].id)
    BY <1>5, <1>7
  <2>6. ASSUME w.subnets[x].vpc = w.vpc, w.subnets[x].subnet = w.subnet PROVE slot < w.inSubnet
    <3>1. x = c
      BY <1>1, <1>2, <2>3, <2>6 DEF Ordered
    <3>2. r = pl
      BY <1>1, <3>1
    <3>3. slot < pl.inSubnet
      BY <1>2, <2>2, <2>3, <2>6, <3>2 DEF Sits
    <3>4. slot \in Nat
      BY <1>6
    <3> QED
      BY <1>2, <1>6, <3>2, <3>3, <3>4
  <2>7. Sits(o, w, q[i], x, k, slot)
    BY <2>2, <2>3, <2>4, <2>5, <2>6 DEF Sits
  <2> QED
    BY <2>1, <2>3, <2>4, <2>7
<1>10. Sits(o, w, s, c, k1, r.inSubnet)
  <2>1. \A a \in AttachesOf(w, s.id) : a \in w.attaches /\ a.conn[1] = s.id
    BY DEF AttachesOf
  <2>2. \A a \in AttachesOf(w, s.id) : a.conn \in Links(s) /\ a.vpc = r.vpc /\ a.subnet = r.subnet
    BY <1>3, <1>5, <2>1 DEF Grown, Known
  <2>3. {a.conn : a \in AttachesOf(w, s.id)} = Links(s)
    BY <2>2 DEF Grown
  <2>4. r.inSubnet < w.inSubnet
    BY <1>2, <1>6
  <2> QED
    BY <1>1, <1>2, <1>4, <2>2, <2>3, <2>4 DEF Sits
<1>11. c \in 1..Len(w.subnets) /\ k1 \in 1..Len(w.confs)
  BY <1>1, <1>2, <1>4
<1>12. \A i \in 1..(n + 1) : i \in 1..n \/ i = n + 1
  OBVIOUS
<1>13. \E x \in 1..Len(w.subnets), k \in 1..Len(w.confs), slot \in 0..(o.perSubnet - 1) : Sits(o, w, s, x, k, slot)
  BY <1>6, <1>10, <1>11
<1> QED
  BY <1>8, <1>9, <1>12, <1>13 DEF Served

-----------------------------------------------------------------------------
(***************************************************************************)
(* Addresses                                                               *)
(***************************************************************************)
Distinct(q) == \A i, j \in 1..Len(q) : q[i] = q[j] => i = j

\* A place below a limit of at most 128 is one of 0..127.
LEMMA Below == \A x, y \in Nat : x < y /\ y <= 128 => x \in 0..127
OBVIOUS

\* Such a place is a number.
LEMMA Byte == \A x \in 0..127 : x \in Nat
OBVIOUS

\* Fixed addresses lie in the prefix of the subnet.
Within(sub, cmd) ==
    \A x \in FixedAddresses(cmd) :
        x \in Nat /\ 256 * sub.prefix <= x /\ x < 256 * sub.prefix + 256 /\ x \div PrefixSize = sub.prefix

\* A command that fits stays within the prefix of its subnet.
LEMMA InPrefix ==
  \A o, sub, slot, s, cmd :
      o.p2p \in BOOLEAN /\ sub \in SubnetT /\ slot \in 0..127 /\ cmd \in CommandT /\ Fits(o, sub, s, slot, cmd) => Within(sub, cmd)
<1> SUFFICES ASSUME NEW o, o.p2p \in BOOLEAN, NEW sub \in SubnetT, NEW slot \in 0..127, NEW s, NEW cmd \in CommandT, Fits(o, sub, s, slot, cmd)
             PROVE  Within(sub, cmd)
  OBVIOUS
<1>1. sub.prefix \in Nat /\ sub.hostBGP \in BOOLEAN
  BY DEF SubnetT
<1>2. \A x \in FixedAddresses(cmd) : x \in Nat /\ 256 * sub.prefix <= x /\ x < 256 * sub.prefix + 256
  <2>1. CASE sub.hostBGP
    <3>1. FixedAddresses(cmd) = {256 * sub.prefix + slot + 1}
      BY <2>1 DEF Fits, FixedAddresses, PrefixSize
    <3> QED
      BY <1>1, <3>1
  <2>2. CASE ~sub.hostBGP /\ o.p2p
    <3>1. FixedAddresses(cmd) = {256 * sub.prefix + 2 * slot, 256 * sub.prefix + 2 * slot + 1}
      BY <2>2 DEF Fits, FixedAddresses, PrefixSize
    <3> QED
      BY <1>1, <3>1
  <2>3. CASE ~sub.hostBGP /\ ~o.p2p
    BY <1>1, <2>3 DEF Fits, FixedAddresses
  <2> QED
    BY <1>1, <2>1, <2>2, <2>3
<1>3. \A p, x \in Nat : 256 * p <= x /\ x < 256 * p + 256 => x \div 256 = p
  OBVIOUS
<1> QED
  BY <1>1, <1>2, <1>3 DEF PrefixSize, Within

\* Commands of two prefixes share no address, nor do those of two places in one.
LEMMA TwoPrefixes ==
  \A a, b, f, g : Within(a, f) /\ Within(b, g) /\ a.prefix # b.prefix => FixedAddresses(f) \cap FixedAddresses(g) = {}
<1> SUFFICES ASSUME NEW a, NEW b, NEW f, NEW g, Within(a, f), Within(b, g), a.prefix # b.prefix,
                    NEW z \in FixedAddresses(f), z \in FixedAddresses(g)
             PROVE  FALSE
  OBVIOUS
<1>1. z \div PrefixSize = a.prefix /\ z \div PrefixSize = b.prefix
  BY DEF Within
<1> QED
  BY <1>1

\* Two places of one subnet have no address in common.
LEMMA TwoPlaces ==
  ASSUME NEW o, o.p2p \in BOOLEAN, NEW sub \in SubnetT, NEW x \in Nat, NEW y \in Nat, x < y,
         NEW s, NEW t, NEW f, NEW g, Fits(o, sub, s, x, f), Fits(o, sub, t, y, g)
  PROVE  FixedAddresses(f) \cap FixedAddresses(g) = {}
<1>1. sub.prefix \in Nat /\ sub.hostBGP \in BOOLEAN
  BY DEF SubnetT
<1>2. CASE sub.hostBGP
  <2>1. FixedAddresses(f) = {256 * sub.prefix + x + 1} /\ FixedAddresses(g) = {256 * sub.prefix + y + 1}
    BY <1>2 DEF Fits, FixedAddresses, PrefixSize
  <2> QED
    BY <1>1, <2>1
<1>3. CASE ~sub.hostBGP /\ o.p2p
  <2>1. /\ FixedAddresses(f) = {256 * sub.prefix + 2 * x, 256 * sub.prefix + 2 * x + 1}
        /\ FixedAddresses(g) = {256 * sub.prefix + 2 * y, 256 * sub.prefix + 2 * y + 1}
    BY <1>3 DEF Fits, FixedAddresses, PrefixSize
  <2> QED
    BY <1>1, <2>1
<1>4. CASE ~sub.hostBGP /\ ~o.p2p
  BY <1>4 DEF Fits, FixedAddresses
<1> QED
  BY <1>1, <1>2, <1>3, <1>4

\* Every command fits some place.
LEMMA Seated ==
  ASSUME NEW o, NEW ns, NEW q, NEW n \in Nat, NEW pl, SoFar(o, ns, q, n, pl), NEW k \in 1..Len(pl.confs)
  PROVE  \E i \in 1..n, c \in 1..Len(pl.subnets), slot \in 0..(o.perSubnet - 1) :
            ~PassedOver(o, q[i]) /\ pl.confs[k].server = q[i].id /\ Sits(o, pl, q[i], c, k, slot)
<1>1. PICK i \in 1..n : q[i].id = pl.confs[k].server
  BY DEF SoFar, Known, IDs
<1>2. ~PassedOver(o, q[i])
  BY <1>1 DEF SoFar, Served
<1>3. PICK c \in 1..Len(pl.subnets), j \in 1..Len(pl.confs), slot \in 0..(o.perSubnet - 1) : Sits(o, pl, q[i], c, j, slot)
  BY <1>2 DEF SoFar, Served
<1>4. j = k
  BY <1>1, <1>3 DEF SoFar, Known, Sits
<1> QED
  BY <1>1, <1>2, <1>3, <1>4

\* A turn leaves the commands of different servers without a common address.
LEMMA ApartKept ==
  ASSUME NEW o, GoodOptions(o), o.perSubnet <= 128, NEW ns, Distinct(ns.prefixes), NEW q, NEW n \in Nat,
         NEW s, NEW pl, SoFar(o, ns, q, n, pl), Apart(pl), NEW r, NEW bgp, NEW c, ReadyFor(o, ns, pl, r, bgp, c),
         NEW w, NEW p2p, NEW cmd, Takes(o, r, w, s, c, p2p, cmd), Added(r, w, s, cmd)
  PROVE  Apart(w)
<1> DEFINE k1 == Len(r.confs) + 1
<1>1. /\ IsPlan(r) /\ Ordered(o, r) /\ Numbered(ns, r) /\ r.attaches = pl.attaches /\ r.confs = pl.confs /\ r.inSubnet < o.perSubnet
      /\ c \in 1..Len(r.subnets) /\ (c \in 1..Len(pl.subnets) => r = pl)
      /\ \A i \in 1..Len(pl.subnets) : i \in 1..Len(r.subnets) /\ r.subnets[i] = pl.subnets[i]
      /\ r.subnets[c].vpc = r.vpc /\ r.subnets[c].subnet = r.subnet
  BY DEF ReadyFor
<1>2. Fits(o, r.subnets[c], s, r.inSubnet, cmd) /\ cmd \in CommandT
  BY DEF Takes
<1>4. /\ Len(w.confs) = k1 /\ Len(r.confs) \in Nat /\ w.confs[k1].cmd = cmd
      /\ \A k \in 1..Len(r.confs) : w.confs[k] = r.confs[k]
  BY DEF Added
<1>5. r.inSubnet \in 0..127 /\ o.perSubnet \in Nat
  <2>1. r.inSubnet \in Nat /\ o.perSubnet \in Nat
    BY <1>1 DEF IsPlan, GoodOptions
  <2> QED
    BY <1>1, <2>1, Below
<1>6. \A i \in 1..Len(r.subnets) : r.subnets[i] \in SubnetT
  BY <1>1, SubnetTyped
<1>7. o.p2p \in BOOLEAN
  BY DEF GoodOptions
<1>8. \A k \in 1..Len(r.confs) : r.confs[k].cmd \in CommandT
  <2>1. r.confs \in Seq(ConfT)
    BY <1>1 DEF IsPlan
  <2>2. \A k \in 1..Len(r.confs) : r.confs[k] \in ConfT
    BY <2>1, ElementOfSeq
  <2> QED
    BY <2>2 DEF ConfT
<1>9. ASSUME NEW k \in 1..Len(r.confs) PROVE FixedAddresses(r.confs[k].cmd) \cap FixedAddresses(cmd) = {}
  <2>1. \E i \in 1..n, x \in 1..Len(pl.subnets), slot \in 0..(o.perSubnet - 1) :
            ~PassedOver(o, q[i]) /\ pl.confs[k].server = q[i].id /\ Sits(o, pl, q[i], x, k, slot)
    BY <1>1, Seated
  <2>2. PICK i \in 1..n, x \in 1..Len(pl.subnets), slot \in 0..(o.perSubnet - 1) : Sits(o, pl, q[i], x, k, slot)
    BY <2>1
  <2>3. x \in 1..Len(r.subnets) /\ r.subnets[x] = pl.subnets[x]
    BY <1>1
  <2>4. Fits(o, r.subnets[x], q[i], slot, r.confs[k].cmd)
    BY <1>1, <2>2, <2>3 DEF Sits
  <2>5. slot \in 0..127
    BY <1>5
  <2>6. r.subnets[x] \in SubnetT /\ r.subnets[c] \in SubnetT /\ r.confs[k].cmd \in CommandT
    BY <1>1, <1>6, <1>8, <2>3
  <2>7. CASE x = c
    <3>1. slot < r.inSubnet /\ slot \in Nat /\ r.inSubnet \in Nat
      <4>1. r = pl /\ pl.subnets[x].vpc = pl.vpc /\ pl.subnets[x].subnet = pl.subnet
        BY <1>1, <2>7
      <4>2. slot < r.inSubnet
        BY <2>2, <4>1 DEF Sits
      <4> QED
        BY <1>5, <2>5, <4>2, Byte, Zenon
    <3>2. Fits(o, r.subnets[c], q[i], slot, r.confs[k].cmd)
      BY <2>4, <2>7
    <3> QED
      BY <1>2, <1>7, <2>6, <3>1, <3>2, TwoPlaces
  <2>8. CASE x # c
    <3>1. r.subnets[x].prefix # r.subnets[c].prefix
      BY <1>1, <2>3, <2>8 DEF Numbered, Distinct
    <3>2. Within(r.subnets[x], r.confs[k].cmd)
      BY <1>7, <2>4, <2>5, <2>6, InPrefix, Zenon
    <3>3. Within(r.subnets[c], cmd)
      BY <1>2, <1>5, <1>7, <2>6, InPrefix, Zenon
    <3> QED
      BY <3>1, <3>2, <3>3, TwoPrefixes, Zenon
  <2> QED
    BY <2>7, <2>8
<1>10. ASSUME NEW j \in 1..Len(w.confs), NEW k \in 1..Len(w.confs), j # k
       PROVE  FixedAddresses(w.confs[j].cmd) \cap FixedAddresses(w.confs[k].cmd) = {}
  <2>1. (j \in 1..Len(r.confs) \/ j = k1) /\ (k \in 1..Len(r.confs) \/ k = k1)
    BY <1>4
  <2>2. CASE j \in 1..Len(r.confs) /\ k \in 1..Len(r.confs)
    BY <1>1, <1>4, <1>10, <2>2 DEF Apart
  <2>3. CASE j \in 1..Len(r.confs) /\ k = k1
    BY <1>4, <1>9, <2>3
  <2>4. CASE j = k1 /\ k \in 1..Len(r.confs)
    <3>1. FixedAddresses(w.confs[k].cmd) \cap FixedAddresses(w.confs[j].cmd) = {}
      BY <1>4, <1>9, <2>4
    <3> QED
      BY <3>1
  <2> QED
    BY <1>10, <2>1, <2>2, <2>3, <2>4
<1> QED
  BY <1>10 DEF Apart

-----------------------------------------------------------------------------
(***************************************************************************)
(* The loop                                                                *)
(***************************************************************************)

\* The empty plan is the plan for no server.
LEMMA NothingPlanned ==
  ASSUME NEW o, GoodOptions(o), NEW ns, NEW q
  PROVE  SoFar(o, ns, q, 0, EmptyPlan) /\ Apart(EmptyPlan)
<1> DEFINE pl == EmptyPlan
<1>1. /\ pl.err = FALSE /\ pl.inSubnet = 0 /\ pl.subnet = 0 /\ pl.vpc = 0 /\ pl.bgpDone = FALSE
      /\ pl.subnets = <<>> /\ pl.attaches = {} /\ pl.confs = <<>>
      /\ DOMAIN pl = {"err", "inSubnet", "subnet", "vpc", "bgpDone", "subnets", "attaches", "confs"}
  BY DEF EmptyPlan
<1> HIDE DEF pl
<1>2. <<>> \in Seq(SubnetT) /\ <<>> \in Seq(ConfT) /\ Len(pl.subnets) = 0 /\ Len(pl.confs) = 0 /\ 1..0 = {}
  BY <1>1
<1>3. IsPlan(pl)
  <2>1. pl.err \in BOOLEAN /\ pl.bgpDone \in BOOLEAN
    BY <1>1, Zenon
  <2>2. pl.inSubnet \in Nat /\ pl.subnet \in Nat /\ pl.vpc \in Nat /\ pl.attaches \subseteq AttachT
    BY <1>1
  <2> QED
    BY <1>1, <1>2, <2>1, <2>2, Zenon DEF IsPlan
<1>4. Ordered(o, pl) /\ Numbered(ns, pl)
  BY <1>1, <1>2 DEF Ordered, Numbered, GoodOptions
<1>5. Loaded(o, pl)
  BY <1>1, <1>2 DEF Loaded
<1>6. Known(q, 0, pl) /\ Served(o, q, 0, pl) /\ Apart(pl)
  BY <1>1, <1>2 DEF Known, Served, Apart
<1> QED
  BY <1>1, <1>3, <1>4, <1>5, <1>6 DEF SoFar, pl

\* A server that is passed over leaves the plan as it is.
LEMMA Passed ==
  ASSUME NEW o, NEW ns, NEW q, InOrder(q), NEW n \in Nat, n + 1 \in 1..Len(q), NEW pl, SoFar(o, ns, q, n, pl), PassedOver(o, q[n + 1])
  PROVE  SoFar(o, ns, q, n + 1, pl)
<1>1. /\ q[n + 1].id \notin IDs(q, n) /\ IDs(q, n + 1) = IDs(q, n) \cup {q[n + 1].id}
  BY Fresh
<1>2. \A i \in 1..(n + 1) : i \in 1..n \/ i = n + 1
  OBVIOUS
<1>3. Known(q, n, pl) /\ Served(o, q, n, pl)
  BY DEF SoFar
<1>4. Known(q, n + 1, pl)
  BY <1>1, <1>3 DEF Known
<1>5. AttachesOf(pl, q[n + 1].id) = {} /\ \A k \in 1..Len(pl.confs) : pl.confs[k].server # q[n + 1].id
  BY <1>1, <1>3 DEF Known, AttachesOf
<1>6. Served(o, q, n + 1, pl)
  BY <1>2, <1>3, <1>5 DEF Served
<1> QED
  BY <1>4, <1>6 DEF SoFar

\* What a server that is not passed over needs for a place.
LEMMA Wants ==
  ASSUME NEW o, NEW pl, NEW s \in ServerT, ~BadConnections(s), o.hostBGP \in BOOLEAN, pl.bgpDone \in BOOLEAN
  PROVE  /\ WantsHostBGP(o, pl, s) \in BOOLEAN /\ 1 <= Len(s.conns)
         /\ Multihomed(s) => WantsHostBGP(o, pl, s)
         /\ WantsHostBGP(o, pl, s) => s.conns[1] = "unbundled"
<1>1. s.conns \in Seq(STRING) /\ Len(s.conns) \in Nat /\ DOMAIN s.conns = 1..Len(s.conns)
  BY LenProperties DEF ServerT
<1>2. s.conns # <<>>
  BY DEF BadConnections
<1>3. 1 <= Len(s.conns)
  <2>1. Len(s.conns) # 0
    BY <1>1, <1>2, EmptySeq
  <2> QED
    BY <1>1, <2>1
<1>4. 1 \in DOMAIN s.conns
  BY <1>1, <1>3
<1>5. Multihomed(s) => s.conns[1] = "unbundled"
  BY <1>4 DEF BadConnections
<1> QED
  BY <1>3, <1>5 DEF WantsHostBGP

\* PlanServer finds a place for the server, or fails.
LEMMA Taken ==
  ASSUME NEW o, GoodOptions(o), NEW ns, GoodNamespaces(ns), NEW pl, NEW s \in ServerT, ~PassedOver(o, s),
         IsPlan(pl), ~pl.err, Ordered(o, pl), Loaded(o, pl), Numbered(ns, pl), ~PlanServer(o, ns, pl, s).err
  PROVE  /\ 1 <= Len(s.conns)
         /\ \E r, bgp, c, lnk, cmd : ReadyFor(o, ns, pl, r, bgp, c) /\ Takes(o, r, PlanServer(o, ns, pl, s), s, c, lnk, cmd)
<1> DEFINE w == PlanServer(o, ns, pl, s)
           at == Roll(o, pl)
           bgp == WantsHostBGP(o, at, s)
           r == EnsureSubnet(o, ns, Place(o, at, bgp), bgp)
<1>1. ~BadConnections(s)
  <2>1. SUFFICES ASSUME BadConnections(s) PROVE FALSE
    OBVIOUS
  <2>2. w = [pl EXCEPT !.err = TRUE]
    BY <2>1 DEF PlanServer
  <2>3. w.err
    BY <2>2 DEF IsPlan
  <2> QED
    BY <2>3
<1>2. w = IF r.err THEN r ELSE Attach(o, r, s, bgp)
  BY <1>1 DEF PlanServer
<1>3. ~r.err
  BY <1>2
<1>4. IsPlan(at)
  BY NextSubnet DEF Roll
<1>5. bgp \in BOOLEAN /\ 1 <= Len(s.conns) /\ (Multihomed(s) => bgp) /\ (bgp => s.conns[1] = "unbundled")
  <2>1. o.hostBGP \in BOOLEAN /\ at.bgpDone \in BOOLEAN
    BY <1>4 DEF GoodOptions, IsPlan
  <2> HIDE DEF at
  <2> QED
    BY <1>1, <2>1, Wants
<1>6. w = Attach(o, r, s, bgp) /\ ~Attach(o, r, s, bgp).err
  BY <1>2, <1>3
<1>7. r = EnsureSubnet(o, ns, Place(o, Roll(o, pl), bgp), bgp)
  OBVIOUS
<1> HIDE DEF bgp, at, w
<1>8. \E c : ReadyFor(o, ns, pl, EnsureSubnet(o, ns, Place(o, Roll(o, pl), bgp), bgp), bgp, c)
  BY <1>3, <1>5, Ready DEF at
<1> HIDE DEF r
<1>9. PICK c : ReadyFor(o, ns, pl, r, bgp, c)
  BY <1>7, <1>8
<1>10. \E lnk, cmd : Takes(o, r, Attach(o, r, s, bgp), s, c, lnk, cmd)
  BY <1>1, <1>3, <1>5, <1>6, <1>9, Attached
<1>11. \E lnk, cmd : ReadyFor(o, ns, pl, r, bgp, c) /\ Takes(o, r, w, s, c, lnk, cmd)
  BY <1>6, <1>9, <1>10
<1> QED
  BY <1>5, <1>11 DEF w

\* A turn of the loop keeps what holds of the plan so far.
LEMMA Turn ==
  ASSUME NEW o, GoodOptions(o), NEW ns, GoodNamespaces(ns), NEW q, InOrder(q), NEW n \in Nat, n + 1 \in 1..Len(q),
         NEW pl, SoFar(o, ns, q, n, pl), ~PlanServer(o, ns, pl, q[n + 1]).err
  PROVE  LET w == PlanServer(o, ns, pl, q[n + 1])
         IN /\ SoFar(o, ns, q, n + 1, w)
            /\ Distinct(ns.prefixes) /\ o.perSubnet <= 128 /\ Apart(pl) => Apart(w)
<1> DEFINE s == q[n + 1]
           w == PlanServer(o, ns, pl, s)
<1>1. CASE PassedOver(o, s)
  <2>1. w = pl
    BY <1>1 DEF PlanServer
  <2>2. SoFar(o, ns, q, n + 1, pl)
    BY <1>1, Passed
  <2> QED
    BY <2>1, <2>2
<1>2. CASE ~PassedOver(o, s)
  <2>1. /\ IsPlan(pl) /\ ~pl.err /\ Ordered(o, pl) /\ Loaded(o, pl) /\ Numbered(ns, pl) /\ Known(q, n, pl)
    BY DEF SoFar
  <2>2. s \in ServerT /\ s.id \notin IDs(q, n) /\ s = q[n + 1] /\ ~w.err
    BY Fresh
  <2>3. /\ 1 <= Len(s.conns)
        /\ \E r, bgp, c, lnk, cmd : ReadyFor(o, ns, pl, r, bgp, c) /\ Takes(o, r, w, s, c, lnk, cmd)
    <3> HIDE DEF s
    <3> QED
      BY <1>2, <2>1, <2>2, Taken
  <2> HIDE DEF s, w
  <2>4. PICK r, bgp, c, lnk, cmd : ReadyFor(o, ns, pl, r, bgp, c) /\ Takes(o, r, w, s, c, lnk, cmd)
    BY <2>3
  <2>5. IsPlan(r) /\ r.attaches = pl.attaches /\ r.confs = pl.confs
    BY <2>4 DEF ReadyFor
  <2>6. Grown(r, w, s)
    BY <2>2, <2>3, <2>4, Growth
  <2>7. Added(r, w, s, cmd)
    BY <2>2, <2>4, <2>5, Addition
  <2>8. Known(q, n, r)
    BY <2>1, <2>5 DEF Known
  <2>9. \A a \in r.attaches : a.conn[1] # s.id
    BY <2>2, <2>8 DEF Known
  <2>10. Ordered(o, w) /\ Numbered(ns, w)
    BY <2>4, <2>6, OrderedKept
  <2>11. Loaded(o, w)
    BY <2>4, <2>6, <2>9, LoadedKept
  <2>12. Known(q, n + 1, w)
    BY <2>2, <2>6, <2>7, <2>8, KnownKept
  <2>13. Served(o, q, n + 1, w)
    BY <1>2, <2>2, <2>3, <2>4, <2>6, <2>7, ServedKept
  <2>14. IsPlan(w) /\ ~w.err
    BY <2>4 DEF Takes
  <2>15. Distinct(ns.prefixes) /\ o.perSubnet <= 128 /\ Apart(pl) => Apart(w)
    BY <2>4, <2>7, ApartKept
  <2>16. SoFar(o, ns, q, n + 1, w)
    BY <2>10, <2>11, <2>12, <2>13, <2>14 DEF SoFar
  <2> QED
    BY <2>15, <2>16 DEF s, w
<1> QED
  BY <1>1, <1>2
=============================================================================
