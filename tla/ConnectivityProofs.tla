------------------------ MODULE ConnectivityProofs ------------------------
(***************************************************************************)
(* Proofs about the connectivity test for every choice of tests and of     *)
(* gateways and every number of faults: the matrix is about the servers as *)
(* they are now, and what is probed is what it can answer for.             *)
(***************************************************************************)
EXTENDS Connectivity, SequenceTheorems, WellFoundedInduction, TLAPS

\* The protocols and ports an entry of the matrix may be about.
ProtoPorts == {DefaultPP, <<"icmp", 0>>, <<"tcp", 5201>>, <<"udp", 5201>>, <<"tcp", 6201>>}

\* The overlay calls of the tests.
Places == {"v1", "v2", "vo", "x1"}
OverlayCalls ==
    [op : {"override", "proto", "static", "forward", "snat", "noegress", "extforward"},
     from : Places, to : Places, pp : ProtoPorts, verdict : {"allow", "deny"}, pool : Nat]

\* The attachments: one of s1, one of s2, and those of s3, each server's to one subnet.
LabSubnets == {<<"v1", "default">>, <<"v2", "default">>, <<"v2", "second">>, <<"vo", "default">>}
IsLab(cl) ==
    /\ "att" \in DOMAIN cl
    /\ cl.att \in Seq([srv : Servers, vpc : {"v1", "v2", "vo"}, sub : {"default", "second"}, hostBGP : BOOLEAN])
    /\ Len(cl.att) >= 3
    /\ cl.att[1].srv = "s1" /\ cl.att[2].srv = "s2"
    /\ \A i \in 3..Len(cl.att) : cl.att[i].srv = "s3"
    /\ \A i \in 1..Len(cl.att) : <<cl.att[i].vpc, cl.att[i].sub>> \in LabSubnets
    /\ \A i, j \in 1..Len(cl.att) :
          cl.att[i].srv = cl.att[j].srv => cl.att[i].vpc = cl.att[j].vpc /\ cl.att[i].sub = cl.att[j].sub

\* What the servers answer: any number of any addresses.
IsDiscovery(ad) == ad \in [Servers -> Seq(Nat)]

\* The entries of a matrix are about endpoints of it.
Keyed(mx) ==
    /\ DOMAIN mx = {"eps", "ip", "ent", "dropped"}
    /\ \A k \in DOMAIN mx.ent : k \in mx.eps \X mx.eps \X ProtoPorts
    /\ \A ep \in mx.eps : IsServer(ep) => ep.srv \in Servers

\* The endpoints of the servers of S are where these are now.
Current(mx, cl, ad, S) ==
    \A ep \in mx.eps : IsServer(ep) /\ ep.srv \in S =>
        /\ ep \in DOMAIN mx.ip /\ mx.ip[ep] \in ToSet(ad[ep.srv])
        /\ <<ep.vpc, ep.sub>> \in GetAttachedSubnets(cl, ep.srv)

\* An endpoint of a server, at an address that is the first of the server's, in the
\* subnet all of them belong to.
Placed(ad, s, ep, a) ==
    ep.srv = s /\ a = ad[s][1] /\ \A k \in DOMAIN ad[s] : Holds(<<ep.vpc, ep.sub>>, ad[s][k])

\* A server of S that answers and is not a drop has an endpoint that is placed.
Complete(mx, cl, ad, S) ==
    \A s \in S : GetAttachedSubnets(cl, s) # {} /\ ad[s] # <<>> /\ s \notin mx.dropped =>
        \E ep \in mx.eps : Placed(ad, s, ep, mx.ip[ep])

-----------------------------------------------------------------------------
(* Discovery.                                                              *)

\* A set of numbers that is not empty has a least one.
LEMMA Least == ASSUME NEW T \in SUBSET Nat, T # {} PROVE \E x \in T : \A y \in T : x <= y
<1> DEFINE R == OpToRel(<, Nat)
<1>1. IsWellFoundedOn(R, Nat)
  BY NatLessThanWellFounded
<1>2. \A x, y \in Nat : y < x => <<y, x>> \in R
  BY DEF OpToRel
<1> HIDE DEF R
<1>3. PICK x \in T : \A y \in T : ~(<<y, x>> \in R)
  BY <1>1, WFMin
<1>4. \A y \in T : ~(y < x)
  BY <1>2, <1>3
<1> QED
  BY <1>4

\* A subnet of the lab starts at a number.
LEMMA SubnetStart ==
  ASSUME NEW u \in LabSubnets
  PROVE  Start(u) \in Nat
<1>1. CASE u = <<"v1", "default">>  BY <1>1 DEF Start
<1>2. CASE u = <<"v2", "default">>  BY <1>2 DEF Start
<1>3. CASE u = <<"v2", "second">>  BY <1>3 DEF Start
<1>4. CASE u = <<"vo", "default">>  BY <1>4 DEF Start
<1> QED
  BY <1>1, <1>2, <1>3, <1>4 DEF LabSubnets

\* The types of the attachments, and the subnets a server can be in.
LEMMA LabTypes ==
  ASSUME NEW cl, IsLab(cl)
  PROVE  /\ DOMAIN cl.att = 1..Len(cl.att) /\ Len(cl.att) \in Nat
         /\ \A i \in DOMAIN cl.att : /\ cl.att[i].srv \in Servers
                                     /\ <<cl.att[i].vpc, cl.att[i].sub>> \in LabSubnets
         /\ \A s : GetAttachedSubnets(cl, s) \subseteq LabSubnets
<1> DEFINE A == [srv : Servers, vpc : {"v1", "v2", "vo"}, sub : {"default", "second"}, hostBGP : BOOLEAN]
<1>1. cl.att \in Seq(A)
  BY DEF IsLab
<1>2. DOMAIN cl.att = 1..Len(cl.att) /\ Len(cl.att) \in Nat /\ \A i \in 1..Len(cl.att) : cl.att[i] \in A
  BY <1>1, ElementOfSeq, LenProperties
<1>3. \A i \in DOMAIN cl.att : cl.att[i].srv \in Servers
  BY <1>2
<1>4. \A i \in DOMAIN cl.att : <<cl.att[i].vpc, cl.att[i].sub>> \in LabSubnets
  BY <1>2 DEF IsLab
<1>5. \A s : GetAttachedSubnets(cl, s) \subseteq LabSubnets
  BY <1>4 DEF GetAttachedSubnets
<1> QED
  BY <1>2, <1>3, <1>4, <1>5

\* The address a server should have is a sequence of at most one number.
LEMMA RealIPType ==
  ASSUME NEW cl, IsLab(cl), NEW s \in Servers
  PROVE  RealIP(cl, s) \in Seq(Nat)
<1> DEFINE u == CHOOSE u \in GetAttachedSubnets(cl, s) : TRUE
<1>1. CASE GetAttachedSubnets(cl, s) = {}
  BY <1>1 DEF RealIP
<1>2. CASE GetAttachedSubnets(cl, s) # {}
  <2>1. u \in LabSubnets
    BY <1>2, LabTypes
  <2>2. Start(u) \in Nat
    BY <2>1, SubnetStart
  <2>3. Rank(s) \in Nat
    BY DEF Rank, Servers
  <2>4. RealIP(cl, s) = <<Start(u) + Rank(s)>>
    BY <1>2 DEF RealIP
  <2> QED
    BY <2>2, <2>3, <2>4
<1> QED
  BY <1>1, <1>2

\* An address has at most one attachment it belongs to, which is one of the server's.
LEMMA BestMatchIs ==
  ASSUME NEW cl, IsLab(cl), NEW s, NEW ip, NEW i \in BestMatch(cl, s, ip)
  PROVE  /\ BestMatch(cl, s, ip) = {i}
         /\ i \in Candidates(cl, s) /\ i \in DOMAIN cl.att /\ cl.att[i].srv = s
         /\ Holds(<<cl.att[i].vpc, cl.att[i].sub>>, ip)
<1>1. DOMAIN cl.att \subseteq Nat
  BY LabTypes
<1>2. Candidates(cl, s) \subseteq DOMAIN cl.att
  BY DEF Candidates
<1> DEFINE fits == {j \in Candidates(cl, s) : Holds(<<cl.att[j].vpc, cl.att[j].sub>>, ip)}
<1>3. BestMatch(cl, s, ip) = {j \in fits : \A l \in fits : j <= l}
  BY DEF BestMatch
<1>4. fits \subseteq Nat /\ i \in fits
  BY <1>1, <1>2, <1>3
<1>5. BestMatch(cl, s, ip) = {i}
  <2> HIDE DEF fits
  <2>1. ASSUME NEW j \in BestMatch(cl, s, ip) PROVE j = i
    <3>1. j \in fits /\ j <= i /\ i <= j
      BY <1>3, <1>4
    <3> QED
      BY <1>4, <3>1
  <2> QED
    BY <2>1
<1>6. i \in Candidates(cl, s) /\ Holds(<<cl.att[i].vpc, cl.att[i].sub>>, ip)
  BY <1>4
<1> QED
  BY <1>5, <1>6 DEF Candidates

\* An attached server has a candidate: the first of its attachments.
LEMMA HasCandidate ==
  ASSUME NEW cl, IsLab(cl), NEW s, GetAttachedSubnets(cl, s) # {}
  PROVE  Candidates(cl, s) # {}
<1> DEFINE T == {j \in DOMAIN cl.att : cl.att[j].srv = s}
<1>1. T # {} /\ T \subseteq Nat
  BY LabTypes DEF GetAttachedSubnets
<1>2. PICK i \in T : \A j \in T : i <= j
  BY <1>1, Least
<1>3. \A j \in 1..(i - 1) : cl.att[j] # cl.att[i]
  <2> SUFFICES ASSUME NEW j \in 1..(i - 1), cl.att[j] = cl.att[i] PROVE FALSE
    OBVIOUS
  <2>1. DOMAIN cl.att = 1..Len(cl.att) /\ Len(cl.att) \in Nat
    BY LabTypes
  <2>2. i \in 1..Len(cl.att) /\ j \in 1..Len(cl.att) /\ j < i
    BY <2>1, <1>2
  <2>3. j \in T
    BY <2>1, <2>2, <1>2
  <2> QED
    BY <1>2, <2>2, <2>3
<1>4. i \in Candidates(cl, s)
  BY <1>2, <1>3 DEF Candidates
<1> QED
  BY <1>4

\* When every address of a server belongs to an attachment, all belong to the same.
LEMMA OneMatch ==
  ASSUME NEW cl, IsLab(cl), NEW s, NEW a, NEW b, NEW i \in BestMatch(cl, s, a), BestMatch(cl, s, b) # {}
  PROVE  /\ i \in DOMAIN cl.att /\ cl.att[i].srv = s
         /\ BestMatch(cl, s, b) = {i} /\ Holds(<<cl.att[i].vpc, cl.att[i].sub>>, b)
<1>1. PICK j : j \in BestMatch(cl, s, b)
  OBVIOUS
<1>2. /\ i \in DOMAIN cl.att /\ cl.att[i].srv = s /\ i \in Candidates(cl, s)
      /\ Holds(<<cl.att[i].vpc, cl.att[i].sub>>, a)
  BY BestMatchIs
<1>3. /\ j \in DOMAIN cl.att /\ cl.att[j].srv = s /\ j \in Candidates(cl, s)
      /\ Holds(<<cl.att[j].vpc, cl.att[j].sub>>, b) /\ BestMatch(cl, s, b) = {j}
  BY <1>1, BestMatchIs
<1>4. cl.att[i].vpc = cl.att[j].vpc /\ cl.att[i].sub = cl.att[j].sub
  <2>1. DOMAIN cl.att = 1..Len(cl.att)
    BY LabTypes
  <2>2. \A n, l \in 1..Len(cl.att) :
           cl.att[n].srv = cl.att[l].srv => cl.att[n].vpc = cl.att[l].vpc /\ cl.att[n].sub = cl.att[l].sub
    BY DEF IsLab
  <2> QED
    BY <1>2, <1>3, <2>1, <2>2
<1>5. Holds(<<cl.att[j].vpc, cl.att[j].sub>>, a) /\ Holds(<<cl.att[i].vpc, cl.att[i].sub>>, b)
  BY <1>2, <1>3, <1>4
<1>6. i <= j
  BY <1>3, <1>2, <1>4 DEF BestMatch
<1>7. j <= i
  BY <1>3, <1>2, <1>5 DEF BestMatch
<1>8. i \in Nat /\ j \in Nat
  BY <1>2, <1>3, LabTypes
<1> QED
  BY <1>2, <1>3, <1>5, <1>6, <1>7, <1>8

\* What discovery reports of a set of servers: endpoints where they are attached, at
\* an address they have; one that answers and is not a drop is placed.
LEMMA Collected ==
  ASSUME NEW cl, NEW ad, IsLab(cl), IsDiscovery(ad), NEW S \in SUBSET Servers
  PROVE  LET col == CollectServerEndpoints(cl, ad, S)
         IN  /\ DOMAIN col = {"ip", "dropped"}
             /\ \A e \in DOMAIN col.ip : /\ e.srv \in S /\ col.ip[e] \in ToSet(ad[e.srv])
                                         /\ <<e.vpc, e.sub>> \in GetAttachedSubnets(cl, e.srv)
             /\ \A s \in S : GetAttachedSubnets(cl, s) # {} /\ ad[s] # <<>> /\ s \notin col.dropped =>
                    \E e \in DOMAIN col.ip : Placed(ad, s, e, col.ip[e])
<1> DEFINE seen     == {s \in S : Candidates(cl, s) # {} /\ ad[s] # <<>>}
           used(s)  == UNION {BestMatch(cl, s, ad[s][k]) : k \in DOMAIN ad[s]}
           firstOf(s, i) == ad[s][CHOOSE k \in DOMAIN ad[s] :
                                /\ BestMatch(cl, s, ad[s][k]) = {i}
                                /\ \A l \in 1..(k - 1) : BestMatch(cl, s, ad[s][l]) # {i}]
           ep(i)    == ServerEP(cl.att[i].srv, cl.att[i].vpc, cl.att[i].sub)
           found    == UNION {used(s) : s \in seen}
           drops    == {s \in seen : \/ used(s) # Candidates(cl, s)
                                     \/ \E k \in DOMAIN ad[s] : BestMatch(cl, s, ad[s][k]) = {}}
           pick(e)  == CHOOSE i \in found : ep(i) = e
           col      == CollectServerEndpoints(cl, ad, S)
<1>1. col = [ip |-> [e \in {ep(i) : i \in found} |-> firstOf(e.srv, pick(e))], dropped |-> drops]
  BY DEF CollectServerEndpoints
<1>2. DOMAIN col = {"ip", "dropped"} /\ DOMAIN col.ip = {ep(i) : i \in found} /\ col.dropped = drops
      /\ \A e \in {ep(i) : i \in found} : col.ip[e] = firstOf(e.srv, pick(e))
  <2> HIDE DEF firstOf, pick, found, drops, ep
  <2> QED
    BY <1>1
<1> HIDE DEF col
<1>3. \A s \in Servers : ad[s] \in Seq(Nat) /\ DOMAIN ad[s] = 1..Len(ad[s]) /\ Len(ad[s]) \in Nat
  BY LenProperties DEF IsDiscovery
<1>4. ASSUME NEW s \in seen, NEW i \in used(s)
      PROVE  /\ s \in Servers /\ i \in DOMAIN cl.att /\ cl.att[i].srv = s
             /\ \E k \in DOMAIN ad[s] : BestMatch(cl, s, ad[s][k]) = {i}
  <2>1. PICK k \in DOMAIN ad[s] : i \in BestMatch(cl, s, ad[s][k])
    BY <1>4
  <2>2. BestMatch(cl, s, ad[s][k]) = {i} /\ i \in DOMAIN cl.att /\ cl.att[i].srv = s
    <3> DEFINE a == ad[s][k]
    <3>1. i \in BestMatch(cl, s, a)
      BY <2>1
    <3> HIDE DEF a, seen, used, firstOf, found, drops, pick, ep
    <3>2. i \in Candidates(cl, s)
      BY <3>1, BestMatchIs
    <3>3. i \in DOMAIN cl.att /\ cl.att[i].srv = s
      BY <3>2 DEF Candidates
    <3>4. BestMatch(cl, s, a) = {i}
      BY <3>1, BestMatchIs
    <3> QED
      BY <3>3, <3>4 DEF a
  <2> QED
    BY <2>2
<1>5. ASSUME NEW s \in Servers, NEW i, \E k \in DOMAIN ad[s] : BestMatch(cl, s, ad[s][k]) = {i}
      PROVE  firstOf(s, i) \in ToSet(ad[s])
  <2> DEFINE T == {k \in DOMAIN ad[s] : BestMatch(cl, s, ad[s][k]) = {i}}
  <2>1. T # {} /\ T \in SUBSET Nat
    BY <1>3, <1>5, SMTT(40)
  <2>2. PICK k \in T : \A l \in T : k <= l
    BY <2>1, Least
  <2>3. ASSUME NEW l \in 1..(k - 1) PROVE BestMatch(cl, s, ad[s][l]) # {i}
    <3>1. l \in DOMAIN ad[s] /\ l < k /\ k \in Nat /\ l \in Nat
      BY <1>3, <2>2
    <3>2. l \notin T
      BY <2>2, <3>1
    <3> QED
      BY <3>1, <3>2
  <2> DEFINE ch == CHOOSE n \in DOMAIN ad[s] : /\ BestMatch(cl, s, ad[s][n]) = {i}
                                               /\ \A l \in 1..(n - 1) : BestMatch(cl, s, ad[s][l]) # {i}
  <2>4. ch \in DOMAIN ad[s]
    BY <2>2, <2>3
  <2>5. firstOf(s, i) = ad[s][ch]
    OBVIOUS
  <2> HIDE DEF ch, firstOf
  <2> QED
    BY <2>4, <2>5 DEF ToSet
<1>6. \A i : /\ ep(i).srv = cl.att[i].srv /\ ep(i).vpc = cl.att[i].vpc /\ ep(i).sub = cl.att[i].sub
  BY DEF ServerEP
<1> HIDE DEF firstOf, ep, used
<1>7. ASSUME NEW e \in {ep(i) : i \in found}
      PROVE  /\ e.srv \in S /\ col.ip[e] \in ToSet(ad[e.srv])
             /\ <<e.vpc, e.sub>> \in GetAttachedSubnets(cl, e.srv)
  <2>1. pick(e) \in found /\ ep(pick(e)) = e
    BY <1>7
  <2> HIDE DEF pick
  <2>2. PICK s \in seen : pick(e) \in used(s)
    BY <2>1
  <2>3. s \in Servers /\ s \in S /\ pick(e) \in DOMAIN cl.att /\ cl.att[pick(e)].srv = s
    BY <1>4, <2>2
  <2>4. e.srv = s /\ e.vpc = cl.att[pick(e)].vpc /\ e.sub = cl.att[pick(e)].sub
    BY <1>6, <2>1, <2>3
  <2>5. firstOf(s, pick(e)) \in ToSet(ad[s])
    BY <1>4, <1>5, <2>2, <2>3
  <2>6. col.ip[e] = firstOf(s, pick(e))
    BY <1>2, <1>7, <2>4
  <2>7. <<e.vpc, e.sub>> \in GetAttachedSubnets(cl, s)
    BY <2>3, <2>4 DEF GetAttachedSubnets
  <2> QED
    BY <2>3, <2>4, <2>5, <2>6, <2>7
<1>8. ASSUME NEW s \in S, GetAttachedSubnets(cl, s) # {}, ad[s] # <<>>, s \notin drops
      PROVE  \E e \in {ep(i) : i \in found} : Placed(ad, s, e, col.ip[e])
  <2>1. s \in seen
    BY <1>8, HasCandidate
  <2>2. UNION {BestMatch(cl, s, ad[s][k]) : k \in DOMAIN ad[s]} = Candidates(cl, s)
        /\ \A k \in DOMAIN ad[s] : BestMatch(cl, s, ad[s][k]) # {}
    BY <1>8, <2>1 DEF used
  <2>3. 1 \in DOMAIN ad[s]
    BY <1>3, <1>8, EmptySeq
  <2>4. PICK i : i \in BestMatch(cl, s, ad[s][1])
    BY <2>2, <2>3
  <2>5. i \in DOMAIN cl.att /\ cl.att[i].srv = s /\ used(s) = {i}
        /\ \A k \in DOMAIN ad[s] : BestMatch(cl, s, ad[s][k]) = {i}
                                    /\ Holds(<<cl.att[i].vpc, cl.att[i].sub>>, ad[s][k])
    <3> DEFINE B(k) == BestMatch(cl, s, ad[s][k])
    <3>1. /\ i \in DOMAIN cl.att /\ cl.att[i].srv = s
          /\ \A k \in DOMAIN ad[s] : B(k) = {i} /\ Holds(<<cl.att[i].vpc, cl.att[i].sub>>, ad[s][k])
      <4>1. i \in B(1) /\ \A k \in DOMAIN ad[s] : B(k) # {}
        BY <2>2, <2>4
      <4>2. ASSUME NEW k \in DOMAIN ad[s]
            PROVE  /\ i \in DOMAIN cl.att /\ cl.att[i].srv = s
                   /\ B(k) = {i} /\ Holds(<<cl.att[i].vpc, cl.att[i].sub>>, ad[s][k])
        <5> DEFINE a == ad[s][1]
                   b == ad[s][k]
        <5>1. i \in BestMatch(cl, s, a) /\ BestMatch(cl, s, b) # {}
          BY <4>1
        <5> HIDE DEF a, b, found, seen, drops, pick
        <5>2. /\ i \in DOMAIN cl.att /\ cl.att[i].srv = s
              /\ BestMatch(cl, s, b) = {i} /\ Holds(<<cl.att[i].vpc, cl.att[i].sub>>, b)
          BY <5>1, OneMatch
        <5> QED
          BY <5>2 DEF b
      <4> QED
        BY <2>3, <4>2
    <3>2. used(s) = UNION {B(k) : k \in DOMAIN ad[s]}
      BY DEF used
    <3> HIDE DEF B
    <3>3. UNION {B(k) : k \in DOMAIN ad[s]} = {i}
      BY <2>3, <3>1
    <3> QED
      BY <3>1, <3>2, <3>3 DEF B
  <2>6. firstOf(s, i) = ad[s][1]
    <3> DEFINE P(n) == /\ BestMatch(cl, s, ad[s][n]) = {i}
                       /\ \A l \in 1..(n - 1) : BestMatch(cl, s, ad[s][l]) # {i}
               ch == CHOOSE n \in DOMAIN ad[s] : P(n)
    <3>1. 1 \in DOMAIN ad[s] /\ P(1)
      BY <2>3, <2>5
    <3>2. ch \in DOMAIN ad[s] /\ P(ch)
      BY <3>1
    <3>3. ch = 1
      <4>1. ch \in Nat /\ ch >= 1 /\ (1 \in 1..(ch - 1) \/ ch = 1)
        <5> HIDE DEF P, ch
        <5> QED
          BY <1>3, <3>2
      <4> QED
        BY <2>3, <2>5, <3>2, <4>1
    <3>4. firstOf(s, i) = ad[s][ch]
      BY DEF firstOf
    <3> QED
      BY <3>3, <3>4
  <2> DEFINE e == ep(i)
  <2>7. i \in found /\ e \in {ep(j) : j \in found}
    BY <2>1, <2>5
  <2>8. e.srv = s /\ e.vpc = cl.att[i].vpc /\ e.sub = cl.att[i].sub
    BY <1>6, <2>5
  <2>9. pick(e) = i
    <3>1. pick(e) \in found /\ ep(pick(e)) = e
      BY <2>7
    <3> HIDE DEF pick
    <3>2. PICK q \in seen : pick(e) \in used(q)
      BY <3>1
    <3>3. q = s
      BY <1>4, <1>6, <2>8, <3>1, <3>2
    <3> QED
      BY <2>5, <3>2, <3>3
  <2> HIDE DEF e, pick
  <2>10. col.ip[e] = ad[s][1]
    BY <1>2, <2>6, <2>7, <2>8, <2>9
  <2> QED
    BY <2>5, <2>7, <2>8, <2>10 DEF Placed
<1> QED
  <2> HIDE DEF found, drops
  <2>1. \A e \in DOMAIN col.ip : /\ e.srv \in S /\ col.ip[e] \in ToSet(ad[e.srv])
                                 /\ <<e.vpc, e.sub>> \in GetAttachedSubnets(cl, e.srv)
    BY <1>2, <1>7
  <2>2. \A s \in S : GetAttachedSubnets(cl, s) # {} /\ ad[s] # <<>> /\ s \notin col.dropped =>
                        \E e \in DOMAIN col.ip : Placed(ad, s, e, col.ip[e])
    BY <1>2, <1>8
  <2> QED
    BY <1>2, <2>1, <2>2 DEF col

-----------------------------------------------------------------------------
(* What changes the matrix keeps its entries about its endpoints.          *)

\* The same servers, at the same addresses.
SameEndpoints(mx, my) == my.eps = mx.eps /\ my.ip = mx.ip /\ my.dropped = mx.dropped

\* A matrix with the same endpoints, addresses and drops is as current and as complete.
LEMMA SameKept ==
  ASSUME NEW mx, NEW my, NEW cl, NEW ad, NEW S, SameEndpoints(mx, my)
  PROVE  /\ Current(mx, cl, ad, S) => Current(my, cl, ad, S)
         /\ Complete(mx, cl, ad, S) => Complete(my, cl, ad, S)
  BY DEF SameEndpoints, Current, Complete

\* populateConnectivityMatrix asks about pairs of endpoints only.
LEMMA PopulateKeeps ==
  ASSUME NEW mx, NEW cl, Keyed(mx)
  PROVE  Keyed(populateConnectivityMatrix(mx, cl)) /\ SameEndpoints(mx, populateConnectivityMatrix(mx, cl))
<1> DEFINE answer(p) == IF IsServer(p[2]) THEN IsServerReachable(cl, p[1].srv, p[2].srv)
                                          ELSE IsExternalSubnetReachable(cl, p[1].srv)
           pairs == {p \in mx.eps \X mx.eps : IsServer(p[1]) /\ ~IsSameEndpointNode(p[1], p[2])}
           known == {<<p[1], p[2], DefaultPP>> : p \in {q \in pairs : answer(q) # "no"}}
           f == [k \in known |-> Expect(IF answer(<<k[1], k[2]>>) = "yes" THEN "allow" ELSE "unknown", NilNAT)]
           my == populateConnectivityMatrix(mx, cl)
<1>1. my = [mx EXCEPT !.ent = f]
  BY DEF populateConnectivityMatrix
<1>2. DOMAIN f = known
  OBVIOUS
<1>3. known \subseteq mx.eps \X mx.eps \X ProtoPorts
  <2> HIDE DEF answer
  <2> QED
    BY DEF ProtoPorts
<1> HIDE DEF f, known, my
<1>4. DOMAIN my = DOMAIN mx /\ my.ent = f /\ my.eps = mx.eps /\ my.ip = mx.ip /\ my.dropped = mx.dropped
  BY <1>1 DEF Keyed
<1>5. Keyed(my)
  BY <1>2, <1>3, <1>4 DEF Keyed
<1>6. SameEndpoints(mx, my)
  BY <1>4 DEF SameEndpoints
<1> QED
  BY <1>5, <1>6 DEF my

\* So do the overlays.
LEMMA AddKeeps ==
  ASSUME NEW mx, Keyed(mx), NEW A \in SUBSET mx.eps, NEW B \in SUBSET mx.eps, NEW pp \in ProtoPorts,
         NEW f, DOMAIN f = A \X B \X {pp}
  PROVE  Keyed(Add(mx, f)) /\ SameEndpoints(mx, Add(mx, f))
<1> DEFINE g == Over(f, mx.ent)
           my == Add(mx, f)
<1>1. my = [mx EXCEPT !.ent = g]
  BY DEF Add
<1>2. DOMAIN g = DOMAIN f \cup DOMAIN mx.ent
  BY DEF Over
<1> HIDE DEF g, my
<1>3. DOMAIN my = DOMAIN mx /\ my.ent = g /\ my.eps = mx.eps /\ my.ip = mx.ip /\ my.dropped = mx.dropped
  BY <1>1 DEF Keyed
<1>4. DOMAIN g \subseteq mx.eps \X mx.eps \X ProtoPorts
  <2>1. DOMAIN f \subseteq mx.eps \X mx.eps \X ProtoPorts
    OBVIOUS
  <2>2. DOMAIN mx.ent \subseteq mx.eps \X mx.eps \X ProtoPorts
    BY DEF Keyed
  <2> QED
    BY <1>2, <2>1, <2>2
<1>5. Keyed(my)
  BY <1>3, <1>4 DEF Keyed
<1>6. SameEndpoints(mx, my)
  BY <1>3 DEF SameEndpoints
<1> QED
  BY <1>5, <1>6 DEF my

\* So does OverlayMatrixNAT, which adds default entries between given endpoints.
LEMMA NATKeeps ==
  ASSUME NEW mx, Keyed(mx), NEW A \in SUBSET mx.eps, NEW B \in SUBSET mx.eps, NEW u
  PROVE  Keyed(OverlayMatrixNAT(mx, A, B, u)) /\ SameEndpoints(mx, OverlayMatrixNAT(mx, A, B, u))
<1> DEFINE nat(k) == LET old == Lookup(mx, k[1], k[2], DefaultPP).nat
                     IN  [nil |-> FALSE, pool |-> old.pool \/ u[k[2]].pool,
                          ip |-> IF u[k[2]].ip = 0 THEN old.ip ELSE u[k[2]].ip,
                          port |-> IF u[k[2]].port = 0 THEN old.port ELSE u[k[2]].port]
           f == [k \in A \X B \X {DefaultPP} |-> Expect("allow", nat(k))]
<1>1. OverlayMatrixNAT(mx, A, B, u) = Add(mx, f)
  BY DEF OverlayMatrixNAT
<1>2. DOMAIN f = A \X B \X {DefaultPP}
  OBVIOUS
<1> HIDE DEF f
<1>3. DefaultPP \in ProtoPorts
  BY DEF ProtoPorts
<1> QED
  BY <1>1, <1>2, <1>3, AddKeeps

\* So does every call of an overlay.
LEMMA CallKeeps ==
  ASSUME NEW mx, Keyed(mx), NEW a \in OverlayCalls
  PROVE  Keyed(ApplyCall(mx, a)) /\ SameEndpoints(mx, ApplyCall(mx, a))
<1> DEFINE Kept(my) == Keyed(my) /\ SameEndpoints(mx, my)
<1>1. a.pp \in ProtoPorts /\ DefaultPP \in ProtoPorts
  BY DEF OverlayCalls, ProtoPorts
<1>2. \A v : ServerInVPC(mx, v) \in SUBSET mx.eps /\ ExternalNamed(mx, v) \in SUBSET mx.eps
  BY DEF ServerInVPC, ExternalNamed
<1>3. Kept(overrideVPCToVPCVerdict(mx, a.from, a.to, a.verdict))
  <2> DEFINE A == ServerInVPC(mx, a.from)
             B == ServerInVPC(mx, a.to)
             f == [k \in A \X B \X {DefaultPP} |-> Expect(a.verdict, Lookup(mx, k[1], k[2], DefaultPP).nat)]
  <2>1. overrideVPCToVPCVerdict(mx, a.from, a.to, a.verdict) = Add(mx, f)
    BY DEF overrideVPCToVPCVerdict
  <2>2. DOMAIN f = A \X B \X {DefaultPP} /\ A \in SUBSET mx.eps /\ B \in SUBSET mx.eps
    BY <1>2
  <2> HIDE DEF f, A, B
  <2> QED
    BY <1>1, <2>1, <2>2, AddKeeps
<1>4. Kept(setVPCToVPCProtoVerdict(mx, a.from, a.to, a.pp, a.verdict))
  <2> DEFINE A == ServerInVPC(mx, a.from)
             B == ServerInVPC(mx, a.to)
             f == [k \in A \X B \X {a.pp} |-> Expect(a.verdict, Lookup(mx, k[1], k[2], DefaultPP).nat)]
  <2>1. setVPCToVPCProtoVerdict(mx, a.from, a.to, a.pp, a.verdict) = Add(mx, f)
    BY DEF setVPCToVPCProtoVerdict
  <2>2. DOMAIN f = A \X B \X {a.pp} /\ A \in SUBSET mx.eps /\ B \in SUBSET mx.eps
    BY <1>2
  <2> HIDE DEF f, A, B
  <2> QED
    BY <1>1, <2>1, <2>2, AddKeeps
<1>5. Kept(overlayNoEgress(mx, a.from, a.to))
  <2> DEFINE A == ServerInVPC(mx, a.from)
             B == {d \in mx.eps : d.ext \notin {"", a.to}}
             f == [k \in A \X B \X {DefaultPP} |-> Expect("deny", NilNAT)]
  <2>1. overlayNoEgress(mx, a.from, a.to) = Add(mx, f)
    BY DEF overlayNoEgress
  <2>2. DOMAIN f = A \X B \X {DefaultPP} /\ A \in SUBSET mx.eps /\ B \in SUBSET mx.eps
    BY <1>2
  <2> HIDE DEF f, A, B
  <2> QED
    BY <1>1, <2>1, <2>2, AddKeeps
<1>6. Kept(overlayVPCToVPCStaticDNAT(mx, a.from, a.to, a.pool)) /\ Kept(overlayVPCToVPCPortForwardDNAT(mx, a.from, a.to, a.pool))
  BY <1>2, NATKeeps DEF overlayVPCToVPCStaticDNAT, overlayVPCToVPCPortForwardDNAT
<1>7. Kept(overlaySNAT(mx, a.from, a.to)) /\ Kept(overlayExtForward(mx, a.from, a.to))
  BY <1>2, NATKeeps DEF overlaySNAT, overlayExtForward
<1>8. a.op \in {"override", "proto", "static", "forward", "snat", "noegress", "extforward"}
  BY DEF OverlayCalls
<1> HIDE DEF Kept
<1>9. Kept(ApplyCall(mx, a))
  <2>1. CASE a.op = "override"  BY <1>3, <2>1 DEF ApplyCall
  <2>2. CASE a.op = "proto"  BY <1>4, <2>2 DEF ApplyCall
  <2>3. CASE a.op = "static"  BY <1>6, <2>3 DEF ApplyCall
  <2>4. CASE a.op = "forward"  BY <1>6, <2>4 DEF ApplyCall
  <2>5. CASE a.op = "snat"  BY <1>7, <2>5 DEF ApplyCall
  <2>6. CASE a.op = "noegress"  BY <1>5, <2>6 DEF ApplyCall
  <2>7. CASE a.op = "extforward"  BY <1>7, <2>7 DEF ApplyCall
  <2> QED
    BY <1>8, <2>1, <2>2, <2>3, <2>4, <2>5, <2>6, <2>7
<1> QED
  BY <1>9 DEF Kept

\* A matrix built from what discovery reports of all servers.
LEMMA BuildGives ==
  ASSUME NEW cl, NEW ad, IsLab(cl), IsDiscovery(ad)
  PROVE  LET mx == BuildConnectivityMatrix(cl, CollectServerEndpoints(cl, ad, Servers))
         IN  Keyed(mx) /\ Current(mx, cl, ad, Servers) /\ Complete(mx, cl, ad, Servers)
<1> DEFINE col == CollectServerEndpoints(cl, ad, Servers)
           exts == {ExternalEP(x) : x \in Externals}
           raw == [eps |-> DOMAIN col.ip \cup exts, ip |-> col.ip, ent |-> <<>>, dropped |-> col.dropped]
           mx == BuildConnectivityMatrix(cl, col)
<1>1. mx = populateConnectivityMatrix(raw, cl)
  BY DEF BuildConnectivityMatrix
<1>2. /\ \A e \in DOMAIN col.ip : /\ e.srv \in Servers /\ col.ip[e] \in ToSet(ad[e.srv])
                                  /\ <<e.vpc, e.sub>> \in GetAttachedSubnets(cl, e.srv)
      /\ \A s \in Servers : GetAttachedSubnets(cl, s) # {} /\ ad[s] # <<>> /\ s \notin col.dropped =>
             \E e \in DOMAIN col.ip : Placed(ad, s, e, col.ip[e])
  BY Collected
<1>3. \A e \in exts : ~IsServer(e)
  <2>1. \A x : ExternalEP(x).srv = ""
    BY DEF ExternalEP
  <2> QED
    BY <2>1 DEF IsServer
<1> HIDE DEF col, exts
<1>4. /\ DOMAIN raw = {"eps", "ip", "ent", "dropped"} /\ raw.eps = DOMAIN col.ip \cup exts /\ raw.ip = col.ip
      /\ raw.dropped = col.dropped /\ raw.ent = <<>> /\ DOMAIN raw.ent = {}
  OBVIOUS
<1> HIDE DEF raw
<1>5. Keyed(raw)
  BY <1>2, <1>3, <1>4 DEF Keyed
<1>6. Current(raw, cl, ad, Servers)
  BY <1>2, <1>3, <1>4 DEF Current
<1>7. Complete(raw, cl, ad, Servers)
  BY <1>2, <1>4 DEF Complete
<1>8. Keyed(mx) /\ SameEndpoints(raw, mx)
  BY <1>1, <1>5, PopulateKeeps
<1> HIDE DEF mx
<1>9. Current(mx, cl, ad, Servers) /\ Complete(mx, cl, ad, Servers)
  BY <1>6, <1>7, <1>8, SameKept
<1> QED
  BY <1>8, <1>9 DEF mx, col

\* A server that was looked at again leaves nothing of its old place behind.
LEMMA RebindGives ==
  ASSUME NEW mx, NEW cl, NEW ad, IsLab(cl), IsDiscovery(ad), Keyed(mx), NEW srv \in Servers,
         Current(mx, cl, ad, Servers \ {srv}), Complete(mx, cl, ad, Servers \ {srv})
  PROVE  LET col == CollectServerEndpoints(cl, ad, {srv})
             my == ReplaceServerDrops(ReplaceServerEndpoints(mx, srv, col.ip), srv, col.dropped)
         IN  Keyed(my) /\ Current(my, cl, ad, Servers) /\ Complete(my, cl, ad, Servers)
<1> DEFINE col == CollectServerEndpoints(cl, ad, {srv})
           kept == {ep \in mx.eps : ep.srv # srv \/ ep \in DOMAIN col.ip}
           others == Restrict(mx.ip, {ep \in DOMAIN mx.ip : ep.srv # srv})
           ents == Restrict(mx.ent, {k \in DOMAIN mx.ent : {k[1], k[2]} \subseteq kept})
           ips == Over(col.ip, others)
           mid == ReplaceServerEndpoints(mx, srv, col.ip)
           my == ReplaceServerDrops(mid, srv, col.dropped)
<1>1. /\ \A e \in DOMAIN col.ip : /\ e.srv = srv /\ col.ip[e] \in ToSet(ad[e.srv])
                                  /\ <<e.vpc, e.sub>> \in GetAttachedSubnets(cl, e.srv)
      /\ GetAttachedSubnets(cl, srv) # {} /\ ad[srv] # <<>> /\ srv \notin col.dropped =>
             \E e \in DOMAIN col.ip : Placed(ad, srv, e, col.ip[e])
  <2> DEFINE S == {srv}
  <2>1. S \in SUBSET Servers /\ srv \in S /\ \A s \in S : s = srv
    OBVIOUS
  <2>2. col = CollectServerEndpoints(cl, ad, S)
    OBVIOUS
  <2> HIDE DEF S, col
  <2>3. /\ \A e \in DOMAIN col.ip : /\ e.srv \in S /\ col.ip[e] \in ToSet(ad[e.srv])
                                    /\ <<e.vpc, e.sub>> \in GetAttachedSubnets(cl, e.srv)
        /\ \A s \in S : GetAttachedSubnets(cl, s) # {} /\ ad[s] # <<>> /\ s \notin col.dropped =>
               \E e \in DOMAIN col.ip : Placed(ad, s, e, col.ip[e])
    BY <2>1, <2>2, Collected
  <2> QED
    BY <2>1, <2>3
<1> HIDE DEF col
<1>2. mid = [mx EXCEPT !.eps = kept \cup DOMAIN col.ip, !.ip = ips, !.ent = ents]
  BY DEF ReplaceServerEndpoints
<1>3. DOMAIN ents \subseteq kept \X kept \X ProtoPorts
  BY DEF Keyed, Restrict
<1>4. /\ DOMAIN ips = DOMAIN col.ip \cup {ep \in DOMAIN mx.ip : ep.srv # srv}
      /\ \A ep \in DOMAIN col.ip : ips[ep] = col.ip[ep]
      /\ \A ep \in DOMAIN mx.ip : ep.srv # srv => ips[ep] = mx.ip[ep]
  BY <1>1 DEF Over, Restrict
<1>5. kept \subseteq mx.eps /\ \A ep \in mx.eps : ep \in kept <=> ep.srv # srv \/ ep \in DOMAIN col.ip
  OBVIOUS
<1> HIDE DEF mid, kept, ips, ents
<1>6. /\ DOMAIN mid = DOMAIN mx /\ mid.eps = kept \cup DOMAIN col.ip /\ mid.ip = ips /\ mid.ent = ents
      /\ mid.dropped = mx.dropped
  BY <1>2 DEF Keyed
<1>7. /\ DOMAIN my = DOMAIN mx /\ my.eps = kept \cup DOMAIN col.ip /\ my.ip = ips /\ my.ent = ents
      /\ my.dropped = (mx.dropped \ {srv}) \cup (col.dropped \cap {srv})
  BY <1>6 DEF Keyed, ReplaceServerDrops
<1> HIDE DEF my
<1>8. Keyed(my)
  BY <1>1, <1>3, <1>5, <1>7 DEF Keyed
<1>9. Current(my, cl, ad, Servers)
  <2> SUFFICES ASSUME NEW ep \in my.eps, IsServer(ep), ep.srv \in Servers
               PROVE  /\ ep \in DOMAIN my.ip /\ my.ip[ep] \in ToSet(ad[ep.srv])
                      /\ <<ep.vpc, ep.sub>> \in GetAttachedSubnets(cl, ep.srv)
    BY DEF Current
  <2>1. CASE ep \in DOMAIN col.ip
    BY <1>1, <1>4, <1>7, <2>1
  <2>2. CASE ep \notin DOMAIN col.ip
    <3>1. ep \in mx.eps /\ ep.srv # srv
      BY <1>5, <1>7, <2>2
    <3>2. /\ ep \in DOMAIN mx.ip /\ mx.ip[ep] \in ToSet(ad[ep.srv])
          /\ <<ep.vpc, ep.sub>> \in GetAttachedSubnets(cl, ep.srv)
      BY <3>1 DEF Current
    <3> QED
      BY <1>4, <1>7, <3>1, <3>2
  <2> QED
    BY <2>1, <2>2
<1>10. Complete(my, cl, ad, Servers)
  <2> SUFFICES ASSUME NEW s \in Servers, GetAttachedSubnets(cl, s) # {}, ad[s] # <<>>, s \notin my.dropped
               PROVE  \E ep \in my.eps : Placed(ad, s, ep, my.ip[ep])
    BY DEF Complete
  <2>1. CASE s = srv
    <3>1. PICK e \in DOMAIN col.ip : Placed(ad, srv, e, col.ip[e])
      BY <1>1, <1>7, <2>1
    <3>2. e \in my.eps /\ my.ip[e] = col.ip[e]
      BY <1>4, <1>7
    <3> QED
      BY <2>1, <3>1, <3>2
  <2>2. CASE s # srv
    <3>1. PICK ep \in mx.eps : Placed(ad, s, ep, mx.ip[ep])
      BY <1>7, <2>2 DEF Complete
    <3>2. ep.srv = s /\ ep \in DOMAIN mx.ip
      BY <2>2, <3>1 DEF Placed, Current, IsServer, Servers
    <3>3. ep \in my.eps /\ my.ip[ep] = mx.ip[ep]
      BY <1>4, <1>5, <1>7, <2>2, <3>2
    <3> QED
      BY <3>1, <3>3
  <2> QED
    BY <2>1, <2>2
<1> QED
  BY <1>8, <1>9, <1>10 DEF my, mid, col

-----------------------------------------------------------------------------
(* The overlay calls of the tests.                                         *)

\* Two overlays make one.
LEMMA CallsConcat ==
  ASSUME NEW x \in Seq(OverlayCalls), NEW y \in Seq(OverlayCalls) PROVE x \o y \in Seq(OverlayCalls)
  BY ConcatProperties

\* The calls the tests are put together from.
LEMMA OneCall ==
  ASSUME NEW from \in Places, NEW to \in Places, NEW pool \in Nat,
         NEW op \in {"override", "proto", "static", "forward", "snat", "noegress", "extforward"}
  PROVE  /\ Call(op, from, to) \in OverlayCalls
         /\ [Call(op, from, to) EXCEPT !.pool = pool] \in OverlayCalls
         /\ \A v \in {"allow", "deny"} :
               /\ [Call(op, from, to) EXCEPT !.verdict = v] \in OverlayCalls
               /\ \A pp \in ProtoPorts : [Call(op, from, to) EXCEPT !.pp = pp, !.verdict = v] \in OverlayCalls
<1>1. DefaultPP \in ProtoPorts
  BY DEF ProtoPorts
<1> DEFINE r == Call(op, from, to)
<1>2. r = [op |-> op, from |-> from, to |-> to, pp |-> DefaultPP, verdict |-> "allow", pool |-> 0]
  BY DEF Call
<1>3. r \in OverlayCalls
  BY <1>1, <1>2 DEF OverlayCalls
<1>4. [r EXCEPT !.pool = pool] \in OverlayCalls
  BY <1>1, <1>2 DEF OverlayCalls
<1>5. \A q \in OverlayCalls, v \in {"allow", "deny"} : [q EXCEPT !.verdict = v] \in OverlayCalls
  BY DEF OverlayCalls
<1>6. \A q \in OverlayCalls, pp \in ProtoPorts : [q EXCEPT !.pp = pp] \in OverlayCalls
  BY DEF OverlayCalls
<1> HIDE DEF r
<1>7. \A pp, v : [r EXCEPT !.pp = pp, !.verdict = v] = [[r EXCEPT !.pp = pp] EXCEPT !.verdict = v]
  OBVIOUS
<1>8. \A v \in {"allow", "deny"}, pp \in ProtoPorts : [r EXCEPT !.pp = pp, !.verdict = v] \in OverlayCalls
  BY <1>3, <1>5, <1>6, <1>7
<1> QED
  BY <1>3, <1>4, <1>5, <1>8 DEF r

\* The overlay of every test is a sequence of such calls.
LEMMA TestCalls == \A t \in DOMAIN Tests : Tests[t].over \in Seq(OverlayCalls)
<1> DEFINE Q == Seq(OverlayCalls)
           V == {"allow", "deny"}
<1>1. \A x, y \in Q : x \o y \in Q
  BY CallsConcat
<1>2. \A a \in OverlayCalls : <<a>> \in Q
  OBVIOUS
<1>3. <<>> \in Q
  OBVIOUS
<1>4. \A f, g \in Places, v \in V : Override(f, g, v) \in Q
  BY OneCall, <1>2 DEF Override
<1>5. \A f, g \in Places, v \in V, pp \in ProtoPorts : ProtoVerdict(f, g, pp, v) \in Q
  BY OneCall, <1>2 DEF ProtoVerdict
<1>6. \A f, g \in Places, n \in Nat : StaticDNAT(f, g, n) \in Q /\ PortForwardDNAT(f, g, n) \in Q
  BY OneCall, <1>2 DEF StaticDNAT, PortForwardDNAT
<1>7. \A f, g \in Places : ExternalSNAT(f, g) \in Q
  BY OneCall, <1>2 DEF ExternalSNAT
<1>8. \A f, g \in Places : ExternalPortForward(f, g) \in Q
  <2> SUFFICES ASSUME NEW f \in Places, NEW g \in Places PROVE ExternalPortForward(f, g) \in Q
    OBVIOUS
  <2>1. Call("noegress", f, g) \in OverlayCalls /\ Call("extforward", f, g) \in OverlayCalls
    BY OneCall
  <2> QED
    BY <2>1 DEF ExternalPortForward
<1>9. Places = {"v1", "v2", "vo", "x1"} /\ Pool1 \in Nat /\ Pool2 \in Nat
  BY DEF Places, Pool1, Pool2
<1>10. {<<"icmp", 0>>, <<"tcp", aclProbePort>>, <<"udp", aclProbePort>>, <<"tcp", aclAltPort>>} \subseteq ProtoPorts
  BY DEF ProtoPorts, aclProbePort, aclAltPort
<1> HIDE DEF Q
<1>11. \A f, g \in Places, a, b, d \in V : setACLDirVerdicts(f, g, a, b, d) \in Q
  <2> SUFFICES ASSUME NEW f \in Places, NEW g \in Places, NEW a \in V, NEW b \in V, NEW d \in V
               PROVE  setACLDirVerdicts(f, g, a, b, d) \in Q
    OBVIOUS
  <2>1. /\ ProtoVerdict(f, g, <<"icmp", 0>>, a) \in Q
        /\ ProtoVerdict(f, g, <<"tcp", aclProbePort>>, b) \in Q
        /\ ProtoVerdict(f, g, <<"udp", aclProbePort>>, d) \in Q
    BY <1>5, <1>10
  <2> QED
    BY <1>1, <2>1 DEF setACLDirVerdicts
<1>12. \A a, b, d \in V : BothWays(a, b, d) \in Q
  BY <1>1, <1>9, <1>11 DEF BothWays
<1>13. \A f, g \in Places : AllDenied(f, g) \in Q
  BY <1>11 DEF AllDenied
<1> DEFINE Good(t) == t.over \in Q
<1>14. ASSUME NEW o1, NEW o2, NEW over \in Q PROVE Good(NATTest(o1, o2, over))
  BY DEF NATTest, GwTest, Test
<1>15. ASSUME NEW acl, NEW over \in Q PROVE Good(ACLTest(acl, over))
  BY DEF ACLTest, GwTest, Test
<1>16. ASSUME NEW g, NEW over \in Q PROVE Good(GwTest(g, over))
  BY DEF GwTest, Test
<1>17. Good(switchPeeringTest) /\ Good(subnetPeeringTest) /\ Good(externalPeeringTest)
  BY <1>3 DEF switchPeeringTest, subnetPeeringTest, externalPeeringTest, Test
<1> HIDE DEF Good
<1>18. Good(unjudgedPeering) /\ Good(gatewayPeeringTest)
  BY <1>3, <1>14 DEF unjudgedPeering, gatewayPeeringTest
<1>19. Good(gatewayPeeringMasqueradeSourceNATTest)
  BY <1>1, <1>4, <1>9, <1>14 DEF gatewayPeeringMasqueradeSourceNATTest
<1>20. Good(gatewayPeeringStaticSourceNATTest)
  BY <1>1, <1>4, <1>6, <1>9, <1>14 DEF gatewayPeeringStaticSourceNATTest
<1>21. Good(gatewayPeeringBidirectionalStaticNATTest)
  BY <1>1, <1>6, <1>9, <1>14 DEF gatewayPeeringBidirectionalStaticNATTest
<1>22. Good(gatewayPeeringOverlapNATTest)
  BY <1>1, <1>6, <1>9, <1>16 DEF gatewayPeeringOverlapNATTest
<1>23. Good(gatewayPeeringPortForwardNATTest)
  BY <1>1, <1>4, <1>6, <1>9, <1>14 DEF gatewayPeeringPortForwardNATTest
<1>24. Good(gatewayPeeringMasqueradePortForwardNATTest)
  BY <1>1, <1>4, <1>6, <1>9, <1>14 DEF gatewayPeeringMasqueradePortForwardNATTest
<1>25. /\ Good(gatewayACLDefaultDenyTest) /\ Good(gatewayACLDenyUnlessExposedTest)
       /\ Good(gatewayACLExplicitAllowTest) /\ Good(gatewayACLProtocolScopingTest)
  BY <1>12, <1>15 DEF gatewayACLDefaultDenyTest, gatewayACLDenyUnlessExposedTest, gatewayACLExplicitAllowTest,
                      gatewayACLProtocolScopingTest
<1>26. /\ Good(gatewayACLPacketOneWayTest) /\ Good(gatewayACLSubnetScopingTest)
       /\ Good(gatewayACLPrecedenceDenyThenAllowTest)
  BY <1>12, <1>15 DEF gatewayACLPacketOneWayTest, gatewayACLSubnetScopingTest, gatewayACLPrecedenceDenyThenAllowTest
<1>27. Good(gatewayACLFlowScopeMasqueradeTest)
  <2>1. setACLDirVerdicts("v1", "v2", "allow", "allow", "allow") \o AllDenied("v2", "v1") \in Q
    BY <1>1, <1>9, <1>11, <1>13
  <2> QED
    BY <1>16, <2>1 DEF gatewayACLFlowScopeMasqueradeTest
<1>28. Good(gatewayACLPortScopingTest)
  <2>1. /\ ProtoVerdict("v1", "v2", <<"tcp", aclAltPort>>, "allow") \in Q
        /\ ProtoVerdict("v2", "v1", <<"tcp", aclAltPort>>, "deny") \in Q
        /\ AllDenied("v1", "v2") \in Q /\ AllDenied("v2", "v1") \in Q
    BY <1>5, <1>9, <1>10, <1>13
  <2> QED
    BY <1>1, <1>15, <2>1 DEF gatewayACLPortScopingTest
<1>29. Good(gatewayACLPrecedenceAllowThenDenyTest)
  <2>1. setACLDirVerdicts("v1", "v2", "deny", "allow", "deny") \o AllDenied("v2", "v1") \in Q
    BY <1>1, <1>9, <1>11, <1>13
  <2> QED
    BY <1>15, <2>1 DEF gatewayACLPrecedenceAllowThenDenyTest
<1>30. Good(ExternalNoNATTest) /\ Good(ExternalPortForwardTest) /\ \A mode : Good(ExternalSNATTest(mode))
  BY <1>3, <1>7, <1>8, <1>9, <1>16 DEF ExternalNoNATTest, ExternalPortForwardTest, ExternalSNATTest
<1> QED
  <2> SUFFICES \A t \in DOMAIN Tests : Good(Tests[t])
    BY DEF Good, Q
  <2> QED
    BY <1>17, <1>18, <1>19, <1>20, <1>21, <1>22, <1>23, <1>24, <1>25, <1>26, <1>27, <1>28, <1>29, <1>30 DEF Tests

-----------------------------------------------------------------------------
(* The lab, and the server that moves.                                     *)

Attaches == [srv : Servers, vpc : {"v1", "v2", "vo"}, sub : {"default", "second"}, hostBGP : BOOLEAN]

\* Two attachments, and more after them.
LEMMA Joined ==
  ASSUME NEW S, NEW p \in Seq(S), NEW q \in Seq(S), Len(p) = 2
  PROVE  /\ p \o q \in Seq(S) /\ Len(p \o q) = 2 + Len(q)
         /\ \A i \in 1..(2 + Len(q)) : (p \o q)[i] = IF i <= 2 THEN p[i] ELSE q[i - 2]
<1>1. p \o q \in Seq(S)
  BY ConcatProperties
<1>2. Len(p \o q) = Len(p) + Len(q)
  BY ConcatProperties
<1>3. \A i \in 1..(Len(p) + Len(q)) : (p \o q)[i] = IF i <= Len(p) THEN p[i] ELSE q[i - Len(p)]
  BY ConcatProperties
<1> QED
  BY <1>1, <1>2, <1>3

\* Attachments of s1, of s2 and then of s3, to one subnet, make a lab.
LEMMA LabMade ==
  ASSUME NEW cl, "att" \in DOMAIN cl, NEW p \in Seq(Attaches), NEW q \in Seq(Attaches), cl.att = p \o q,
         Len(p) = 2, p[1].srv = "s1", p[2].srv = "s2", Len(q) >= 1, \A i \in 1..Len(q) : q[i].srv = "s3",
         \A i \in 1..2 : <<p[i].vpc, p[i].sub>> \in LabSubnets,
         \A i \in 1..Len(q) : <<q[i].vpc, q[i].sub>> \in LabSubnets,
         \A i \in 1..Len(q) : q[i].vpc = q[1].vpc /\ q[i].sub = q[1].sub
  PROVE  IsLab(cl) /\ cl.att[1] = p[1] /\ cl.att[2] = p[2]
<1> DEFINE v == q[1].vpc
           u == q[1].sub
<1>1. Len(q) \in Nat
  BY LenProperties
<1>2. /\ p \o q \in Seq(Attaches) /\ Len(p \o q) = 2 + Len(q)
      /\ \A i \in 1..(2 + Len(q)) : (p \o q)[i] = IF i <= 2 THEN p[i] ELSE q[i - 2]
  BY Joined
<1>3. (p \o q)[1] = p[1] /\ (p \o q)[2] = p[2]
  BY <1>1, <1>2
<1>4. \A i \in 3..(2 + Len(q)) : (p \o q)[i] = q[i - 2] /\ i - 2 \in 1..Len(q)
  BY <1>1, <1>2
<1>5. \A i \in 3..(2 + Len(q)) : /\ (p \o q)[i].srv = "s3" /\ (p \o q)[i].vpc = v /\ (p \o q)[i].sub = u
                                  /\ <<(p \o q)[i].vpc, (p \o q)[i].sub>> \in LabSubnets
  BY <1>4
<1>6. \A i \in 1..(2 + Len(q)) : i = 1 \/ i = 2 \/ i \in 3..(2 + Len(q))
  BY <1>1
<1>7. \A i \in 1..(2 + Len(q)) : <<(p \o q)[i].vpc, (p \o q)[i].sub>> \in LabSubnets
  <2>1. <<p[1].vpc, p[1].sub>> \in LabSubnets /\ <<p[2].vpc, p[2].sub>> \in LabSubnets
    OBVIOUS
  <2> DEFINE r == p \o q
             n == 2 + Len(q)
  <2> HIDE DEF r, n
  <2> QED
    BY <1>3, <1>5, <1>6, <2>1, Zenon DEF r, n
<1>8. ASSUME NEW i \in 1..(2 + Len(q)), NEW j \in 1..(2 + Len(q)), (p \o q)[i].srv = (p \o q)[j].srv
      PROVE  (p \o q)[i].vpc = (p \o q)[j].vpc /\ (p \o q)[i].sub = (p \o q)[j].sub
  <2> DEFINE r == p \o q
  <2>1. /\ i = 1 \/ i = 2 \/ (r[i].srv = "s3" /\ r[i].vpc = v /\ r[i].sub = u)
        /\ j = 1 \/ j = 2 \/ (r[j].srv = "s3" /\ r[j].vpc = v /\ r[j].sub = u)
    BY <1>5, <1>6
  <2>2. r[1].srv = "s1" /\ r[2].srv = "s2"
    BY <1>3
  <2>3. r[i].srv = r[j].srv
    BY <1>8
  <2> HIDE DEF r
  <2>4. i = j \/ (r[i].vpc = r[j].vpc /\ r[i].sub = r[j].sub)
    BY <2>1, <2>2, <2>3
  <2> QED
    BY <2>4 DEF r
<1>9. Len(p \o q) >= 3 /\ \A i \in 3..Len(p \o q) : (p \o q)[i].srv = "s3"
  BY <1>1, <1>2, <1>5
<1> DEFINE r == p \o q
<1>10. /\ cl.att = r /\ r \in Seq(Attaches) /\ r[1] = p[1] /\ r[2] = p[2]
       /\ \A i \in 1..Len(r) : <<r[i].vpc, r[i].sub>> \in LabSubnets
  BY <1>2, <1>3, <1>7
<1>11. \A i, j \in 1..Len(r) : r[i].srv = r[j].srv => r[i].vpc = r[j].vpc /\ r[i].sub = r[j].sub
  BY <1>2, <1>8
<1>12. Len(r) >= 3 /\ \A i \in 3..Len(r) : r[i].srv = "s3"
  BY <1>9
<1> HIDE DEF r
<1> QED
  BY <1>10, <1>11, <1>12 DEF IsLab, Attaches

\* The two servers that stay have the first two attachments.
LEMMA Staying ==
  ASSUME NEW cl, IsLab(cl), NEW s, s # "s3"
  PROVE  GetAttachedSubnets(cl, s) = {<<cl.att[i].vpc, cl.att[i].sub>> : i \in {j \in 1..2 : cl.att[j].srv = s}}
<1>1. DOMAIN cl.att = 1..Len(cl.att) /\ Len(cl.att) \in Nat /\ Len(cl.att) >= 3
  BY LabTypes DEF IsLab
<1>2. {j \in DOMAIN cl.att : cl.att[j].srv = s} = {j \in 1..2 : cl.att[j].srv = s}
  BY <1>1 DEF IsLab
<1> QED
  BY <1>2 DEF GetAttachedSubnets

\* The cluster and the discoveries the test starts with.
LEMMA LabInit == Init => IsLab(c) /\ IsDiscovery(addrs)
<1> SUFFICES ASSUME Init PROVE IsLab(c) /\ IsDiscovery(addrs)
  OBVIOUS
<1>1. PICK bgp \in BOOLEAN, l3 \in {{}, {"s2"}} : c = Cluster(test, bgp, l3) /\ addrs \in Discoveries(c)
  BY DEF Init
<1> DEFINE u == IF test = "subnet" THEN "second" ELSE "default"
           p == <<Attach("s1", "v1", "default", FALSE), Attach("s2", "v1", "default", FALSE)>>
           q == IF bgp THEN <<Attach("s3", "v2", u, TRUE), Attach("s3", "v2", u, TRUE)>>
                       ELSE <<Attach("s3", "v2", u, FALSE)>>
<1>2. c.att = p \o q /\ "att" \in DOMAIN c
  BY <1>1 DEF Cluster, Attachments
<1>3. {"s1", "s2", "s3"} \subseteq Servers /\ u \in {"default", "second"}
  BY DEF Servers
<1>4. /\ p \in Seq(Attaches) /\ Len(p) = 2 /\ p[1].srv = "s1" /\ p[2].srv = "s2"
      /\ \A i \in 1..2 : p[i].vpc = "v1" /\ p[i].sub = "default"
  <2> DEFINE a == Attach("s1", "v1", "default", FALSE)
             b == Attach("s2", "v1", "default", FALSE)
  <2>1. /\ a \in Attaches /\ a.srv = "s1" /\ a.vpc = "v1" /\ a.sub = "default"
        /\ b \in Attaches /\ b.srv = "s2" /\ b.vpc = "v1" /\ b.sub = "default"
    BY <1>3 DEF Attach, Attaches
  <2> HIDE DEF a, b
  <2>2. p = <<a, b>>
    BY DEF a, b
  <2> HIDE DEF p
  <2> QED
    BY <2>1, <2>2
<1> HIDE DEF u
<1>5. /\ q \in Seq(Attaches) /\ Len(q) >= 1 /\ Len(q) \in {1, 2}
      /\ \A i \in 1..Len(q) : q[i].srv = "s3" /\ q[i].vpc = "v2" /\ q[i].sub = u
  <2> DEFINE a == Attach("s3", "v2", u, TRUE)
             b == Attach("s3", "v2", u, FALSE)
  <2>1. a \in Attaches /\ a.srv = "s3" /\ a.vpc = "v2" /\ a.sub = u /\ b \in Attaches /\ b.srv = "s3" /\ b.vpc = "v2" /\ b.sub = u
    BY <1>3 DEF Attach, Attaches
  <2> HIDE DEF a, b
  <2>2. /\ <<a, a>> \in Seq(Attaches) /\ Len(<<a, a>>) = 2 /\ <<b>> \in Seq(Attaches) /\ Len(<<b>>) = 1
        /\ <<a, a>>[1] = a /\ <<a, a>>[2] = a /\ <<b>>[1] = b
    BY <2>1
  <2>3. q = IF bgp THEN <<a, a>> ELSE <<b>>
    BY DEF a, b
  <2> HIDE DEF q
  <2>4. CASE bgp
    <3>1. q = <<a, a>>
      BY <2>3, <2>4
    <3>2. \A i \in 1..2 : i = 1 \/ i = 2
      OBVIOUS
    <3>3. \A i \in 1..2 : <<a, a>>[i] = a
      BY <2>2, <3>2
    <3> QED
      BY <2>1, <2>2, <3>1, <3>3
  <2>5. CASE ~bgp
    <3>1. q = <<b>>
      BY <2>3, <2>5
    <3> QED
      BY <2>1, <2>2, <3>1
  <2> QED
    BY <2>4, <2>5
<1> HIDE DEF p, q
<1>6. \A v \in {"default", "second"} : <<"v2", v>> \in LabSubnets /\ <<"v1", "default">> \in LabSubnets
  BY DEF LabSubnets
<1>7. IsLab(c)
  <2>1. /\ \A i \in 1..2 : <<p[i].vpc, p[i].sub>> \in LabSubnets
        /\ \A i \in 1..Len(q) : <<q[i].vpc, q[i].sub>> \in LabSubnets
    BY <1>3, <1>4, <1>5, <1>6
  <2>2. 1 \in 1..Len(q)
    BY <1>5
  <2>3. \A i \in 1..Len(q) : q[i].vpc = q[1].vpc /\ q[i].sub = q[1].sub
    BY <1>5, <2>2
  <2> QED
    BY <1>2, <1>4, <1>5, <2>1, <2>3, LabMade, ZenonT(40)
<1>8. IsDiscovery(addrs)
  <2> DEFINE tidy == [s \in Servers |-> RealIP(c, s)]
             r == RealIP(c, "s2")
             l == <<Leftover>>
             x == <<Stray>>
  <2>1. tidy \in [Servers -> Seq(Nat)] /\ r \in Seq(Nat)
    BY <1>3, <1>7, RealIPType
  <2>2. l \in Seq(Nat) /\ x \in Seq(Nat)
    <3>1. Start(<<"v1", "default">>) \in Nat
      BY <1>6, SubnetStart
    <3> QED
      BY <3>1 DEF Leftover, Stray
  <2>3. r \o l \in Seq(Nat) /\ l \o r \in Seq(Nat) /\ r \o x \in Seq(Nat) /\ <<>> \in Seq(Nat)
    BY <2>1, <2>2, ConcatProperties
  <2>4. tidy["s2"] = r
    BY <1>3
  <2> HIDE DEF r
  <2>5. \/ addrs = tidy \/ \E q2 \in {<<>>, r \o l, l \o r, r \o x} : addrs = [tidy EXCEPT !["s2"] = q2]
        \/ addrs = [tidy EXCEPT !["s3"] = x]
    BY <1>1, <2>4 DEF Discoveries
  <2> HIDE DEF tidy, l, x
  <2> QED
    BY <2>1, <2>2, <2>3, <2>5 DEF IsDiscovery
<1> QED
  BY <1>7, <1>8

\* The overlap test moves s3 and nobody else.
LEMMA Moved ==
  ASSUME IsLab(c), IsDiscovery(addrs), MoveServer
  PROVE  /\ IsLab(c') /\ IsDiscovery(addrs')
         /\ \A s \in Servers \ {"s3"} : GetAttachedSubnets(c', s) = GetAttachedSubnets(c, s) /\ addrs'[s] = addrs[s]
<1> DEFINE p == SubSeq(c.att, 1, 2)
           a == Attach("s3", "vo", "default", FALSE)
           q == <<a>>
<1>1. c' = [c EXCEPT !.att = p \o q] /\ addrs' = [addrs EXCEPT !["s3"] = RealIP(c', "s3")]
  BY DEF MoveServer
<1>2. c'.att = p \o q /\ "att" \in DOMAIN c'
  BY <1>1 DEF IsLab
<1>3. "s3" \in Servers
  BY DEF Servers
<1>4. a \in Attaches /\ a.srv = "s3" /\ a.vpc = "vo" /\ a.sub = "default" /\ <<"vo", "default">> \in LabSubnets
  <2>2. <<"vo", "default">> \in LabSubnets
    BY DEF LabSubnets
  <2> QED
    BY <1>3, <2>2 DEF Attach, Attaches
<1> HIDE DEF a
<1>5. /\ q \in Seq(Attaches) /\ Len(q) = 1
      /\ \A i \in 1..Len(q) : q[i].srv = "s3" /\ <<q[i].vpc, q[i].sub>> \in LabSubnets
      /\ \A i \in 1..Len(q) : q[i].vpc = q[1].vpc /\ q[i].sub = q[1].sub
  BY <1>4
<1>6. /\ c.att \in Seq(Attaches) /\ Len(c.att) \in Nat /\ Len(c.att) >= 3
      /\ \A i \in 1..Len(c.att) : c.att[i] \in Attaches
  BY ElementOfSeq, LenProperties DEF IsLab, Attaches
<1>7. p \in Seq(Attaches) /\ Len(p) = 2 /\ p[1] = c.att[1] /\ p[2] = c.att[2]
  <2>1. \A i \in 1..2 : c.att[i] \in Attaches
    BY <1>6
  <2>2. p \in Seq(Attaches) /\ Len(p) = 2 /\ \A i \in 1..(2 - 1 + 1) : p[i] = c.att[1 + i - 1]
    BY <2>1, SubSeqProperties
  <2> QED
    BY <2>2
<1> HIDE DEF p, q
<1>8. p[1].srv = "s1" /\ p[2].srv = "s2" /\ \A i \in 1..2 : <<p[i].vpc, p[i].sub>> \in LabSubnets
  BY <1>6, <1>7 DEF IsLab
<1>9. IsLab(c') /\ c'.att[1] = c.att[1] /\ c'.att[2] = c.att[2]
  <2> DEFINE d == c'
  <2>1. d.att = p \o q /\ "att" \in DOMAIN d /\ Len(q) >= 1
    BY <1>2, <1>5
  <2> HIDE DEF d
  <2>2. IsLab(d) /\ d.att[1] = p[1] /\ d.att[2] = p[2]
    BY <2>1, <1>5, <1>7, <1>8, LabMade
  <2> QED
    BY <1>7, <2>2 DEF d
<1>10. ASSUME NEW s \in Servers \ {"s3"} PROVE GetAttachedSubnets(c', s) = GetAttachedSubnets(c, s)
  <2> DEFINE G(cl) == {<<cl.att[i].vpc, cl.att[i].sub>> : i \in {j \in 1..2 : cl.att[j].srv = s}}
  <2>1. GetAttachedSubnets(c', s) = G(c') /\ GetAttachedSubnets(c, s) = G(c)
    BY <1>9, Staying
  <2>2. \A i \in 1..2 : c'.att[i] = c.att[i]
    BY <1>9
  <2>3. G(c') = G(c)
    BY <2>2
  <2> QED
    BY <2>1, <2>3
<1>11. \A s \in Servers \ {"s3"} : addrs'[s] = addrs[s]
  BY <1>1 DEF IsDiscovery
<1>12. \A s \in Servers : RealIP(c', s) \in Seq(Nat)
  BY <1>9, RealIPType
<1>13. IsDiscovery(addrs')
  BY <1>1, <1>3, <1>12 DEF IsDiscovery
<1> QED
  BY <1>9, <1>10, <1>11, <1>13

-----------------------------------------------------------------------------
(* The inductive invariant.                                                *)

\* The servers the matrix knows the place of: between the move of s3 and its
\* rebinding, all but s3.
Scope == IF test = "overlap" /\ pc \in {"peer", "populate", "rebind"} THEN Servers \ {"s3"} ELSE Servers

MatrixOK(mx, S) == Keyed(mx) /\ Current(mx, c, addrs, S) /\ Complete(mx, c, addrs, S)

\* What the test program knows at each point of its way.
Oracle ==
    /\ IsLab(c) /\ IsDiscovery(addrs) /\ calls \in Seq(OverlayCalls)
    /\ pc \in {"move", "rebind"} => test = "overlap"
    /\ pc = "legacy" => legacy
    /\ legacy => pc \in {"peer", "legacy", "wait", "done"}
    /\ ~legacy /\ pc \in {"move", "peer", "populate", "rebind", "overlay", "validate", "listen", "wait"} =>
          MatrixOK(m, Scope)
    /\ ~legacy /\ pc \in {"listen", "wait"} => Validate(m)
    /\ ~legacy /\ pc = "done" /\ ~failed => Validate(m) /\ MatrixOK(m, Servers)

JobFields == {"kind", "src", "dst", "ip", "pp", "verdict", "bidir", "tries"}
IsJob(j) == DOMAIN j = JobFields /\ j.tries \in 0..iperf3SpeedRetries /\ j.verdict # "unknown"
Served(j, ls) ==
    j.kind = "proto" /\ j.pp[1] # "icmp" =>
        /\ j.dst.srv \in Servers
        /\ j.pp[2] = persistentIperf3Port \/ <<j.dst.srv, j.pp[2]>> \in ls

Fit(js, ls) == \A j \in js : IsJob(j) /\ Served(j, ls)

\* The probes under way.
Probing ==
    /\ Fit(jobs, listeners)
    /\ pc # "wait" => jobs = {}
    /\ pc \notin {"listen", "wait", "done"} => listeners = {}
    /\ ListenersStopped

ConnInv == TypeOK /\ Oracle /\ Probing

-----------------------------------------------------------------------------
(* What is probed.                                                         *)

\* The fields of a new probe.
LEMMA JobIs ==
  \A j, kind, src, dst, ip, pp, v, b : j = Job(kind, src, dst, ip, pp, v, b) /\ v # "unknown" =>
      IsJob(j) /\ j.kind = kind /\ j.dst = dst /\ j.pp = pp
  BY DEF Job, IsJob, JobFields, iperf3SpeedRetries

\* The entries of a validated matrix that may be unknown: those to an external of a
\* source that may count on another, and default ones that others shadow.
LEMMA Undecided ==
  ASSUME NEW mx, Validate(mx), NEW k \in DOMAIN mx.ent, mx.ent[k].verdict = "unknown"
  PROVE  \/ ~IsServer(k[2]) /\ externalCurlAllowed(mx, k[1])
         \/ defaultEntryShadowed(mx, k)
<1>1. k \notin Unknowns(mx)
  BY DEF Validate
<1> QED
  BY <1>1 DEF Unknowns

\* An entry is about two endpoints and a protocol and port.
LEMMA Triple ==
  ASSUME NEW mx, Keyed(mx), NEW k \in DOMAIN mx.ent
  PROVE  k = <<k[1], k[2], k[3]>> /\ k[1] \in mx.eps /\ k[2] \in mx.eps /\ k[3] \in ProtoPorts
  BY DEF Keyed

\* The only port that needs a listener of the test is aclAltPort.
LEMMA KnownPorts ==
  ASSUME NEW pp \in ProtoPorts
  PROVE  /\ pp[1] \in {"tcp", "udp"} /\ pp[2] \notin {0, persistentIperf3Port} => pp[2] = aclAltPort
         /\ pp # DefaultPP /\ pp[1] # "icmp" => pp[1] \in {"tcp", "udp"} /\ pp[2] # 0
<1>1. CASE pp = DefaultPP  BY <1>1 DEF DefaultPP
<1>2. CASE pp = <<"icmp", 0>>  BY <1>2
<1>3. CASE pp = <<"tcp", 5201>>  BY <1>3 DEF persistentIperf3Port
<1>4. CASE pp = <<"udp", 5201>>  BY <1>4 DEF persistentIperf3Port
<1>5. CASE pp = <<"tcp", 6201>>  BY <1>5 DEF aclAltPort
<1>6. \/ pp = DefaultPP \/ pp = <<"icmp", 0>> \/ pp = <<"tcp", 5201>> \/ pp = <<"udp", 5201>>
      \/ pp = <<"tcp", 6201>>
  BY DEF ProtoPorts
<1> QED
  BY <1>1, <1>2, <1>3, <1>4, <1>5, <1>6

\* The listeners a matrix asks for.
LEMMA WantedPorts ==
  ASSUME NEW mx, Keyed(mx)
  PROVE  Wanted(mx) \subseteq Servers \X {aclAltPort}
<1> SUFFICES ASSUME NEW w \in Wanted(mx) PROVE w \in Servers \X {aclAltPort}
  OBVIOUS
<1>1. PICK k \in DOMAIN mx.ent : /\ w = <<k[2].srv, k[3][2]>> /\ IsServer(k[2])
                                 /\ k[3][1] \in {"tcp", "udp"} /\ k[3][2] \notin {0, persistentIperf3Port}
  BY DEF Wanted
<1>2. k[2] \in mx.eps /\ k[3] \in ProtoPorts
  BY Triple
<1>3. k[3][2] = aclAltPort
  BY <1>1, <1>2, KnownPorts
<1>4. k[2].srv \in Servers
  BY <1>1, <1>2 DEF Keyed
<1> QED
  BY <1>1, <1>3, <1>4

\* A ping between two servers is expected to pass or to fail.
LEMMA PingJobs ==
  ASSUME NEW mx, Keyed(mx), Validate(mx), NEW o, NEW ls, NEW j \in runMatrixServerServerPhase(mx, o)
  PROVE  IsJob(j) /\ Served(j, ls)
<1> DEFINE e(p) == Lookup(mx, p[1], p[2], DefaultPP)
<1>1. PICK p \in ServerPairs(mx, o) :
        /\ ~HasProtoPortEntries(mx, p[1], p[2])
        /\ j = Job("ping", p[1], p[2], TargetIP(mx, e(p), p[2]), DefaultPP, e(p).verdict, Bidir(mx, o, p[1], p[2]))
  BY DEF runMatrixServerServerPhase
<1>2. IsServer(p[2])
  BY DEF ServerPairs
<1>3. e(p).verdict # "unknown"
  <2> SUFFICES ASSUME e(p).verdict = "unknown" PROVE FALSE
    OBVIOUS
  <2> DEFINE k == <<p[1], p[2], DefaultPP>>
  <2>1. k \in DOMAIN mx.ent /\ mx.ent[k].verdict = "unknown"
    BY DEF Lookup, Expect
  <2>2. k[1] = p[1] /\ k[2] = p[2]
    OBVIOUS
  <2> HIDE DEF k
  <2> QED
    BY <1>1, <1>2, <2>1, <2>2, Undecided DEF defaultEntryShadowed
<1> HIDE DEF e
<1>4. IsJob(j) /\ j.kind = "ping"
  <2>1. \E src, dst, ip, pp, v, b : v # "unknown" /\ j = Job("ping", src, dst, ip, pp, v, b)
    BY <1>1, <1>3, Zenon
  <2> QED
    BY <2>1, JobIs, Zenon
<1> QED
  BY <1>4 DEF Served

\* A curl is: a source with an unknown entry to an external may count on another one.
LEMMA CurlJobs ==
  ASSUME NEW mx, Keyed(mx), Validate(mx), NEW o, NEW ls, NEW j \in runMatrixCurlPhase(mx, o)
  PROVE  IsJob(j) /\ Served(j, ls)
<1> DEFINE eps(s) == {ep \in mx.eps : ep.srv = s}
           unknown(s) == \E k \in DOMAIN mx.ent : k[1].srv = s /\ ~IsServer(k[2]) /\ mx.ent[k].verdict = "unknown"
           verdict(s) == IF \E ep \in eps(s) : externalCurlAllowed(mx, ep) THEN "allow"
                         ELSE IF unknown(s) THEN "unknown" ELSE "deny"
<1>1. PICK ep \in mx.eps : j = Job("curl", ep, ep, Internet, DefaultPP, verdict(ep.srv), FALSE)
  BY DEF runMatrixCurlPhase
<1>2. ASSUME NEW s PROVE verdict(s) # "unknown"
  <2> SUFFICES ASSUME ~(\E x \in eps(s) : externalCurlAllowed(mx, x)), unknown(s) PROVE FALSE
    OBVIOUS
  <2>1. PICK k \in DOMAIN mx.ent : k[1].srv = s /\ ~IsServer(k[2]) /\ mx.ent[k].verdict = "unknown"
    OBVIOUS
  <2>2. k[1] \in eps(s)
    BY <2>1, Triple
  <2>3. ~externalCurlAllowed(mx, k[1])
    BY <2>2
  <2> QED
    BY <2>1, <2>3, Undecided DEF defaultEntryShadowed
<1> HIDE DEF verdict
<1>3. IsJob(j) /\ j.kind = "curl"
  <2>1. \E src, dst, ip, pp, v, b : v # "unknown" /\ j = Job("curl", src, dst, ip, pp, v, b)
    BY <1>1, <1>2, Zenon
  <2> QED
    BY <2>1, JobIs, Zenon
<1> QED
  BY <1>3 DEF Served

\* So is a probe of a translated port, which takes only definite entries.
LEMMA ForwardJobs ==
  ASSUME NEW mx, NEW o, NEW ls, NEW j \in runMatrixPortForwardPhase(mx, o)
  PROVE  IsJob(j) /\ Served(j, ls)
<1> DEFINE fwd == {k \in DOMAIN mx.ent : /\ k[3] = DefaultPP /\ IsServer(k[1]) /\ inSources(o, k[1].srv)
                                         /\ mx.ent[k].verdict \in {"allow", "deny"}
                                         /\ mx.ent[k].nat.ip # 0 /\ mx.ent[k].nat.port # 0}
           same(k) == {i \in fwd : /\ i[1].srv = k[1].srv /\ ~IsServer(i[2])
                                   /\ mx.ent[i].nat.ip = mx.ent[k].nat.ip
                                   /\ mx.ent[i].nat.port = mx.ent[k].nat.port}
           pp(k) == <<"tcp", mx.ent[k].nat.port>>
           best(k) == IF \E i \in same(k) : mx.ent[i].verdict = "allow" THEN "allow" ELSE "deny"
           toServer == {Job("forward", k[1], k[2], mx.ent[k].nat.ip, pp(k), mx.ent[k].verdict, FALSE) :
                            k \in {i \in fwd : /\ IsServer(i[2]) /\ ~IsSameEndpointNode(i[1], i[2])
                                               /\ inDestinations(o, i[2].srv)}}
           toExternal == {Job("forward", k[1], k[1], mx.ent[k].nat.ip, pp(k), best(k), FALSE) :
                            k \in {i \in fwd : ~IsServer(i[2])}}
<1>0. runMatrixPortForwardPhase(mx, o) = toServer \cup toExternal
  BY DEF runMatrixPortForwardPhase
<1>1. \E src, dst, ip, q, v : v # "unknown" /\ j = Job("forward", src, dst, ip, q, v, FALSE)
  <2>1. CASE j \in toServer
    <3>1. PICK k \in fwd : j = Job("forward", k[1], k[2], mx.ent[k].nat.ip, pp(k), mx.ent[k].verdict, FALSE)
      BY <2>1, Zenon
    <3>2. mx.ent[k].verdict # "unknown"
      OBVIOUS
    <3> HIDE DEF pp, fwd
    <3> QED
      BY <3>1, <3>2, Zenon
  <2>2. CASE j \in toExternal
    <3>1. PICK k \in fwd : j = Job("forward", k[1], k[1], mx.ent[k].nat.ip, pp(k), best(k), FALSE)
      BY <2>2, Zenon
    <3>2. best(k) # "unknown"
      OBVIOUS
    <3> HIDE DEF pp, fwd, best
    <3> QED
      BY <3>1, <3>2, Zenon
  <2> HIDE DEF toServer, toExternal
  <2> QED
    BY <1>0, <2>1, <2>2
<1>2. IsJob(j) /\ j.kind = "forward"
  BY <1>1, JobIs, Zenon
<1> QED
  BY <1>2 DEF Served

\* A probe of a protocol and port is, and its port is served at the destination.
LEMMA ProtoJobs ==
  ASSUME NEW mx, Keyed(mx), Validate(mx), NEW o, NEW ls, Wanted(mx) \subseteq ls,
         NEW j \in runMatrixProtoPortPhase(mx, o)
  PROVE  IsJob(j) /\ Served(j, ls)
<1> DEFINE e(p, pp) == Lookup(mx, p[1], p[2], pp)
<1>0. PICK p \in ServerPairs(mx, o) : \E pp \in ProtoPortEntries(mx, p[1], p[2]) :
        j = Job("proto", p[1], p[2], TargetIP(mx, e(p, pp), p[2]), pp, e(p, pp).verdict, FALSE)
  BY DEF runMatrixProtoPortPhase
<1>1. PICK pp \in ProtoPortEntries(mx, p[1], p[2]) :
        j = Job("proto", p[1], p[2], TargetIP(mx, e(p, pp), p[2]), pp, e(p, pp).verdict, FALSE)
  BY <1>0
<1>2. IsServer(p[1]) /\ IsServer(p[2]) /\ p[2] \in mx.eps
  BY DEF ServerPairs
<1>3. PICK k \in DOMAIN mx.ent : k[1] = p[1] /\ k[2] = p[2] /\ k[3] # DefaultPP /\ pp = k[3]
  BY DEF ProtoPortEntries
<1>4. k = <<p[1], p[2], pp>> /\ pp \in ProtoPorts /\ pp # DefaultPP
  BY <1>3, Triple
<1>5. e(p, pp).verdict # "unknown"
  <2>1. e(p, pp) = mx.ent[k]
    BY <1>3, <1>4 DEF Lookup
  <2>2. mx.ent[k].verdict # "unknown"
    BY <1>2, <1>3, Undecided DEF defaultEntryShadowed
  <2> QED
    BY <2>1, <2>2
<1> HIDE DEF e
<1>6. IsJob(j) /\ j.kind = "proto" /\ j.dst = p[2] /\ j.pp = pp
  <2> DEFINE d == p[2]
             v == e(p, pp).verdict
             ip == TargetIP(mx, e(p, pp), p[2])
             src == p[1]
  <2>1. v # "unknown" /\ j = Job("proto", src, d, ip, pp, v, FALSE)
    BY <1>1, <1>5
  <2> HIDE DEF d, v, ip, src
  <2>2. IsJob(j) /\ j.kind = "proto" /\ j.dst = d /\ j.pp = pp
    BY <2>1 DEF Job, IsJob, JobFields, iperf3SpeedRetries
  <2> QED
    BY <2>2 DEF d
<1>7. p[2].srv \in Servers
  BY <1>2 DEF Keyed
<1>8. ASSUME pp[1] # "icmp", pp[2] # persistentIperf3Port PROVE <<p[2].srv, pp[2]>> \in ls
  <2>1. pp[1] \in {"tcp", "udp"} /\ pp[2] \notin {0, persistentIperf3Port}
    BY <1>4, <1>8, KnownPorts
  <2>2. <<k[2].srv, k[3][2]>> \in Wanted(mx)
    BY <1>2, <1>3, <2>1 DEF Wanted
  <2> QED
    BY <1>3, <2>2
<1> QED
  BY <1>6, <1>7, <1>8 DEF Served

\* The probes of TestConnectivity are too: what is unsupported is not probed.
LEMMA LegacyAre ==
  ASSUME NEW cl, NEW ad, NEW o, NEW ls, NEW j \in LegacyJobs(cl, ad, o)
  PROVE  IsJob(j) /\ Served(j, ls)
<1> DEFINE pairs == LegacyPairs(cl, o)
           bidir(a, b) == /\ o.iperfs /\ <<b, a>> \in pairs
                          /\ IsServerReachable(cl, a, b) = "yes" /\ IsServerReachable(cl, b, a) = "yes"
           v(p) == LegacyVerdict(IsServerReachable(cl, p[1], p[2]))
           w(s) == LegacyVerdict(IsExternalSubnetReachable(cl, s))
           pings == {Job("ping", HomeOf(cl, p[1]), HomeOf(cl, p[2]), ad[p[2]][1], DefaultPP, v(p), bidir(p[1], p[2])) :
                        p \in {q \in pairs : IsServerReachable(cl, q[1], q[2]) # "unsupported"}}
           curls == {Job("curl", HomeOf(cl, s), HomeOf(cl, s), Internet, DefaultPP, w(s), FALSE) :
                        s \in {r \in LegacyCurls(cl, o) : IsExternalSubnetReachable(cl, r) # "unsupported"}}
<1>1. LegacyJobs(cl, ad, o) = pings \cup curls
  BY DEF LegacyJobs
<1>2. \A p : v(p) # "unknown" /\ w(p) # "unknown"
  BY DEF LegacyVerdict
<1> HIDE DEF v, w, bidir, pairs
<1>3. CASE j \in pings
  <2>1. \E a, b, ip, u, r : u # "unknown" /\ j = Job("ping", a, b, ip, DefaultPP, u, r)
    BY <1>2, <1>3, Zenon
  <2>2. IsJob(j) /\ j.kind = "ping"
    BY <2>1, JobIs, Zenon
  <2> QED
    BY <2>2 DEF Served
<1>4. CASE j \in curls
  <2>1. \E a, b, ip, u, r : u # "unknown" /\ j = Job("curl", a, b, ip, DefaultPP, u, r)
    BY <1>2, <1>4, Zenon
  <2>2. IsJob(j) /\ j.kind = "curl"
    BY <2>1, JobIs, Zenon
  <2> QED
    BY <2>2 DEF Served
<1> HIDE DEF pings, curls
<1> QED
  BY <1>1, <1>3, <1>4

\* What comes after a probe is the same probe, with iperf3 or once more.
LEMMA FollowUps ==
  ASSUME NEW j, IsJob(j), NEW ls, Served(j, ls)
  PROVE  /\ \A f \in Follows(j) : IsJob(f) /\ Served(f, ls)
         /\ j.tries < iperf3SpeedRetries =>
               IsJob([j EXCEPT !.tries = @ + 1]) /\ Served([j EXCEPT !.tries = @ + 1], ls)
<1>1. \A f \in Follows(j) : f = [j EXCEPT !.kind = "iperf"]
  BY DEF Follows
<1>2. IsJob([j EXCEPT !.kind = "iperf"]) /\ Served([j EXCEPT !.kind = "iperf"], ls)
  BY DEF IsJob, Served, JobFields
<1>3. ASSUME j.tries < iperf3SpeedRetries
      PROVE  IsJob([j EXCEPT !.tries = @ + 1]) /\ Served([j EXCEPT !.tries = @ + 1], ls)
  BY <1>3 DEF IsJob, Served, JobFields, iperf3SpeedRetries
<1> QED
  BY <1>1, <1>2, <1>3

\* While there are probes there is a next one.
LEMMA NextJobIn == jobs # {} => NextJob \in jobs
<1>1. jobs # {} => \E j \in jobs : \/ Cardinality(jobs) = 1
                                   \/ j.kind # "forward" \/ \A k \in jobs : k.kind = "forward"
  OBVIOUS
<1> QED
  BY <1>1 DEF NextJob

-----------------------------------------------------------------------------
(* The invariant is inductive: the oracle.                                 *)

\* Only the attachments of a cluster and the addresses matter to the matrix.
LEMMA SameServers ==
  ASSUME NEW mx, NEW cl, NEW dl, NEW ad, NEW bd, NEW S, NEW T, T \subseteq S,
         \A s \in T : GetAttachedSubnets(dl, s) = GetAttachedSubnets(cl, s) /\ bd[s] = ad[s]
  PROVE  /\ Current(mx, cl, ad, S) => Current(mx, dl, bd, T)
         /\ Complete(mx, cl, ad, S) => Complete(mx, dl, bd, T)
<1>1. ASSUME Current(mx, cl, ad, S) PROVE Current(mx, dl, bd, T)
  BY <1>1 DEF Current
<1>2. ASSUME Complete(mx, cl, ad, S) PROVE Complete(mx, dl, bd, T)
  BY <1>2, SMTT(40) DEF Complete, Placed
<1> QED
  BY <1>1, <1>2

\* Peerings do not change where the servers are.
LEMMA SameAttachments ==
  ASSUME NEW cl, NEW dl, IsLab(cl), dl.att = cl.att, "att" \in DOMAIN dl
  PROVE  /\ IsLab(dl)
         /\ \A s : GetAttachedSubnets(dl, s) = GetAttachedSubnets(cl, s)
<1>1. IsLab(dl)
  BY DEF IsLab
<1>2. \A s : GetAttachedSubnets(dl, s) = GetAttachedSubnets(cl, s)
  BY DEF GetAttachedSubnets
<1> QED
  BY <1>1, <1>2

\* The test starts in the lab, with an overlay to make.
LEMMA OracleInit == Init => Oracle
<1> SUFFICES ASSUME Init PROVE Oracle
  OBVIOUS
<1>1. IsLab(c) /\ IsDiscovery(addrs)
  BY LabInit
<1>2. calls \in Seq(OverlayCalls)
  BY TestCalls, ConnAssumption DEF Init
<1> QED
  BY <1>1, <1>2 DEF Init, Oracle

\* Every step keeps what the test program knows of the matrix.
LEMMA OracleNext ==
  ASSUME Oracle, [Next]_vars
  PROVE  Oracle'
<1> USE DEF Oracle, MatrixOK, Scope, setting
<1>1. CASE CollectEndpoints
  <2>1. CASE m' = BuildConnectivityMatrix(c, CollectServerEndpoints(c, addrs, Servers)) /\ failed' = failed
             /\ pc' = IF test = "overlap" THEN "move" ELSE "peer"
    <3>1. Keyed(m') /\ Current(m', c, addrs, Servers) /\ Complete(m', c, addrs, Servers)
      BY <2>1, BuildGives
    <3> QED
      BY <1>1, <2>1, <3>1 DEF CollectEndpoints
  <2>2. CASE Fails /\ UNCHANGED m
    BY <1>1, <2>2 DEF CollectEndpoints, Fails
  <2> QED
    BY <1>1, <2>1, <2>2 DEF CollectEndpoints
<1>2. CASE MoveServer
  <2>1. /\ IsLab(c') /\ IsDiscovery(addrs')
        /\ \A s \in Servers \ {"s3"} : GetAttachedSubnets(c', s) = GetAttachedSubnets(c, s) /\ addrs'[s] = addrs[s]
    BY <1>2, Moved
  <2>2. pc = "move" /\ pc' = "peer" /\ UNCHANGED <<setting, calls, m>> /\ test = "overlap" /\ ~legacy
    BY <1>2 DEF MoveServer
  <2>3. Keyed(m) /\ Current(m, c, addrs, Servers) /\ Complete(m, c, addrs, Servers)
    BY <2>2
  <2>4. Current(m, c', addrs', Servers \ {"s3"}) /\ Complete(m, c', addrs', Servers \ {"s3"})
    BY <2>1, <2>3, SameServers
  <2> QED
    BY <2>1, <2>2, <2>3, <2>4
<1>3. CASE SetupPeerings
  <2>1. c'.att = c.att /\ "att" \in DOMAIN c'
    BY <1>3 DEF SetupPeerings, IsLab
  <2>2. IsLab(c') /\ IsDiscovery(addrs) /\ \A s : GetAttachedSubnets(c', s) = GetAttachedSubnets(c, s)
    BY <2>1, SameAttachments
  <2>3. pc = "peer" /\ pc' = (IF legacy THEN "legacy" ELSE "populate") /\ UNCHANGED <<setting, calls, m, addrs>>
    BY <1>3 DEF SetupPeerings
  <2>4. ~legacy => Keyed(m) /\ Current(m, c, addrs, Scope) /\ Complete(m, c, addrs, Scope)
    BY <2>3
  <2>5. Scope' = Scope \/ legacy
    BY <2>3
  <2>6. ~legacy => Keyed(m) /\ Current(m, c', addrs, Scope) /\ Complete(m, c', addrs, Scope)
    <3> HIDE DEF Scope
    <3> QED
      BY <2>2, <2>4, SameServers
  <2> HIDE DEF Scope
  <2> QED
    BY <2>2, <2>3, <2>5, <2>6
<1>4. CASE Repopulate
  <2>1. /\ pc = "populate" /\ pc' = (IF test = "overlap" THEN "rebind" ELSE "overlay") /\ ~legacy
        /\ UNCHANGED <<setting, calls, c, addrs>> /\ m' = populateConnectivityMatrix(m, c)
    BY <1>4 DEF Repopulate
  <2>2. Keyed(m) /\ Current(m, c, addrs, Scope) /\ Complete(m, c, addrs, Scope)
    BY <2>1
  <2>3. Scope' = Scope
    BY <2>1
  <2> HIDE DEF Scope
  <2>4. Keyed(m') /\ Current(m', c, addrs, Scope) /\ Complete(m', c, addrs, Scope)
    BY <2>1, <2>2, PopulateKeeps, SameKept
  <2> QED
    BY <2>1, <2>3, <2>4
<1>5. CASE rebindMatrixServerEndpoint
  <2> DEFINE col == CollectServerEndpoints(c, addrs, {"s3"})
  <2>1. CASE Fails
    BY <1>5, <2>1 DEF rebindMatrixServerEndpoint, Fails
  <2>2. CASE /\ m' = ReplaceServerDrops(ReplaceServerEndpoints(m, "s3", col.ip), "s3", col.dropped)
             /\ pc' = "overlay"
    <3>1. pc = "rebind" /\ ~legacy /\ test = "overlap" /\ UNCHANGED <<setting, calls, c, addrs>>
      BY <1>5 DEF rebindMatrixServerEndpoint
    <3>2. Keyed(m) /\ Current(m, c, addrs, Servers \ {"s3"}) /\ Complete(m, c, addrs, Servers \ {"s3"})
      BY <3>1
    <3>3. "s3" \in Servers
      BY DEF Servers
    <3>4. Keyed(m') /\ Current(m', c, addrs, Servers) /\ Complete(m', c, addrs, Servers)
      BY <2>2, <3>2, <3>3, RebindGives
    <3> QED
      BY <2>2, <3>1, <3>4
  <2> QED
    BY <1>5, <2>1, <2>2 DEF rebindMatrixServerEndpoint
<1>6. CASE Overlay
  <2>1. pc = "overlay" /\ ~legacy /\ UNCHANGED <<setting, c, addrs>>
    BY <1>6 DEF Overlay
  <2>2. Keyed(m) /\ Current(m, c, addrs, Servers) /\ Complete(m, c, addrs, Servers)
    BY <2>1
  <2>3. CASE calls # <<>> /\ m' = ApplyCall(m, Head(calls)) /\ calls' = Tail(calls) /\ UNCHANGED pc
    <3>1. Head(calls) \in OverlayCalls /\ calls' \in Seq(OverlayCalls)
      BY <2>3, HeadTailProperties
    <3>2. Keyed(m') /\ Current(m', c, addrs, Servers) /\ Complete(m', c, addrs, Servers)
      BY <2>2, <2>3, <3>1, CallKeeps, SameKept
    <3> QED
      BY <2>1, <2>3, <3>1, <3>2
  <2>4. CASE UNCHANGED <<m, calls>> /\ (Fails \/ pc' = "validate")
    BY <2>1, <2>2, <2>4 DEF Fails
  <2> QED
    BY <1>6, <2>3, <2>4 DEF Overlay
<1>7. CASE ValidateMatrix
  BY <1>7 DEF ValidateMatrix, Fails
<1>8. CASE StartListener
  BY <1>8 DEF StartListener, Fails
<1>9. CASE RunPhases
  BY <1>9 DEF RunPhases
<1>10. CASE TestConnectivity
  BY <1>10 DEF TestConnectivity, Fails
<1>11. CASE Probe \/ PortForwardTimeout \/ RunIPerf
  BY <1>11 DEF Probe, PortForwardTimeout, RunIPerf, ProbeFrame
<1>12. CASE Finish
  BY <1>12 DEF Finish
<1>13. CASE ProgramNAT
  BY <1>13 DEF ProgramNAT
<1>14. CASE UNCHANGED vars
  BY <1>14 DEF vars
<1> QED
  BY <1>1, <1>2, <1>3, <1>4, <1>5, <1>6, <1>7, <1>8, <1>9, <1>10, <1>11, <1>12, <1>13, <1>14
     DEF Next, Steps, Terminating

-----------------------------------------------------------------------------
(* The invariant is inductive: the probes.                                 *)

\* A probe is taken from the set, and another may take its place.
LEMMA DoneFits ==
  ASSUME jobs # {}, Fit(jobs, listeners), NEW ok, Done(NextJob, ok)
  PROVE  Fit(jobs', listeners)
<1>1. NextJob \in jobs
  BY NextJobIn
<1>2. \A f \in Follows(NextJob) : IsJob(f) /\ Served(f, listeners)
  BY <1>1, FollowUps DEF Fit
<1>3. jobs' \subseteq jobs \cup Follows(NextJob)
  BY DEF Done
<1> QED
  BY <1>2, <1>3 DEF Fit

\* A repeated iperf3 session takes the place of its earlier attempt.
LEMMA RetryFits ==
  ASSUME jobs # {}, Fit(jobs, listeners), NextJob.tries < iperf3SpeedRetries,
         jobs' = (jobs \ {NextJob}) \cup {[NextJob EXCEPT !.tries = @ + 1]}
  PROVE  Fit(jobs', listeners)
<1> DEFINE n == NextJob
           f == [n EXCEPT !.tries = @ + 1]
<1>1. n \in jobs
  BY NextJobIn
<1>2. IsJob(n) /\ Served(n, listeners) /\ n.tries < iperf3SpeedRetries
  BY <1>1 DEF Fit
<1> HIDE DEF n
<1>3. IsJob(f) /\ Served(f, listeners)
  BY <1>2, FollowUps
<1>4. jobs' \subseteq jobs \cup {f}
  BY DEF n
<1> HIDE DEF f
<1> QED
  BY <1>3, <1>4 DEF Fit

\* At the start there is no probe and no listener.
LEMMA ProbingInit == Init => Probing
  BY DEF Init, Probing, Fit, ListenersStopped

\* Every step keeps the probes definite and their ports served.
LEMMA ProbingNext ==
  ASSUME TypeOK, Oracle, Probing, [Next]_vars
  PROVE  Probing'
<1> USE DEF setting
<1>0. /\ Fit(jobs, listeners) /\ (pc # "wait" => jobs = {})
      /\ (pc \notin {"listen", "wait", "done"} => listeners = {}) /\ ListenersStopped
  BY DEF Probing
<1>1. ASSUME NEW ls PROVE Fit({}, ls)
  BY DEF Fit
<1> SUFFICES /\ Fit(jobs', listeners') /\ (pc' # "wait" => jobs' = {})
             /\ (pc' \notin {"listen", "wait", "done"} => listeners' = {}) /\ ListenersStopped'
  BY DEF Probing
<1>2. CASE \/ CollectEndpoints \/ MoveServer \/ SetupPeerings \/ Repopulate
           \/ rebindMatrixServerEndpoint \/ Overlay \/ ValidateMatrix
  <2>1. UNCHANGED <<jobs, listeners>> /\ pc \notin {"listen", "wait", "done"} /\ pc' # "wait"
    BY <1>2 DEF CollectEndpoints, MoveServer, SetupPeerings, Repopulate, rebindMatrixServerEndpoint, Overlay,
                ValidateMatrix, Fails
  <2> QED
    BY <1>0, <2>1 DEF ListenersStopped
<1>3. CASE StartListener
  <2>1. pc = "listen" /\ UNCHANGED jobs /\ (pc' = "listen" \/ (pc' = "done" /\ listeners' = {}))
    BY <1>3 DEF StartListener, Fails
  <2>2. jobs = {} /\ jobs' = {}
    BY <1>0, <2>1
  <2> QED
    BY <1>1, <2>1, <2>2 DEF ListenersStopped
<1>4. CASE RunPhases
  <2>1. pc = "listen" /\ pc' = "wait" /\ UNCHANGED listeners
    BY <1>4 DEF RunPhases
  <2>2. Keyed(m) /\ Validate(m)
    BY <2>1 DEF Oracle, MatrixOK
  <2>3. Fit(jobs', listeners)
    <3> SUFFICES ASSUME NEW j \in jobs' PROVE IsJob(j) /\ Served(j, listeners)
      BY DEF Fit
    <3>1. \/ j \in runMatrixServerServerPhase(m, opts)
          \/ j \in runMatrixProtoPortPhase(m, opts) /\ Wanted(m) \subseteq listeners
          \/ j \in runMatrixCurlPhase(m, opts) \/ j \in runMatrixPortForwardPhase(m, opts)
      BY <1>4 DEF RunPhases
    <3> QED
      BY <2>2, <3>1, PingJobs, ProtoJobs, CurlJobs, ForwardJobs
  <2> QED
    BY <2>1, <2>3 DEF ListenersStopped
<1>5. CASE TestConnectivity
  <2>1. pc = "legacy" /\ UNCHANGED listeners
    BY <1>5 DEF TestConnectivity
  <2>2. listeners = {} /\ jobs = {}
    BY <1>0, <2>1
  <2>3. CASE jobs' = jobs /\ pc' = "done"
    BY <1>1, <2>1, <2>2, <2>3 DEF ListenersStopped
  <2>4. CASE jobs' = LegacyJobs(c, addrs, opts) /\ pc' = "wait"
    <3>1. Fit(jobs', listeners)
      BY <2>4, LegacyAre DEF Fit
    <3> QED
      BY <2>1, <2>4, <3>1 DEF ListenersStopped
  <2> QED
    BY <1>5, <2>3, <2>4 DEF TestConnectivity, Fails
<1>6. CASE Probe \/ PortForwardTimeout \/ RunIPerf
  <2>1. pc = "wait" /\ jobs # {} /\ UNCHANGED <<pc, listeners>>
    BY <1>6 DEF Probe, PortForwardTimeout, RunIPerf, ProbeFrame
  <2>2. \/ \E ok : Done(NextJob, ok)
        \/ /\ NextJob.tries < iperf3SpeedRetries
           /\ jobs' = (jobs \ {NextJob}) \cup {[NextJob EXCEPT !.tries = @ + 1]}
    BY <1>6 DEF Probe, PortForwardTimeout, RunIPerf
  <2>3. Fit(jobs', listeners)
    BY <1>0, <2>1, <2>2, DoneFits, RetryFits
  <2> QED
    BY <2>1, <2>3 DEF ListenersStopped
<1>7. CASE Finish
  <2>1. pc = "wait" /\ pc' = "done" /\ jobs = {} /\ jobs' = {}
    BY <1>7 DEF Finish
  <2>2. listeners' # {} => faults' > 0
    BY <1>7 DEF Finish, MayFault, TypeOK
  <2> QED
    BY <1>1, <2>1, <2>2 DEF ListenersStopped
<1>8. CASE ProgramNAT
  BY <1>0, <1>8 DEF ProgramNAT, ListenersStopped
<1>9. CASE UNCHANGED vars
  BY <1>0, <1>9 DEF vars, ListenersStopped
<1> QED
  BY <1>2, <1>3, <1>4, <1>5, <1>6, <1>7, <1>8, <1>9 DEF Next, Steps, Terminating

\* The initial states are well typed.
LEMMA TypeInit == Init => TypeOK
<1> SUFFICES ASSUME Init PROVE TypeOK
  OBVIOUS
<1>1. test \in Chosen /\ plane \in Planes /\ opts \in AllOptions /\ legacy \in BOOLEAN
  BY DEF Init
<1>2. pc \in {"collect", "peer"}
  BY DEF Init
<1>3. listeners = {} /\ jobs = {} /\ natActive \in BOOLEAN /\ failed \in BOOLEAN /\ faults = 0
  BY DEF Init
<1> QED
  BY <1>1, <1>2, <1>3 DEF TypeOK

\* Every step keeps the types.
LEMMA TypeNext ==
  ASSUME TypeOK, Oracle, Probing', [Next]_vars
  PROVE  TypeOK'
<1> USE DEF setting
<1>0. \A j \in jobs' : j.tries \in 0..iperf3SpeedRetries
  BY DEF Probing, Fit, IsJob
<1> DEFINE Acts == \/ CollectEndpoints \/ MoveServer \/ SetupPeerings \/ Repopulate \/ rebindMatrixServerEndpoint
                   \/ Overlay \/ ValidateMatrix \/ StartListener \/ RunPhases \/ TestConnectivity
                   \/ Probe \/ PortForwardTimeout \/ RunIPerf \/ Finish \/ ProgramNAT
<1>1. CASE UNCHANGED vars
  BY <1>1 DEF TypeOK, vars
<1>2. CASE Acts
  <2> USE DEF CollectEndpoints, MoveServer, SetupPeerings, Repopulate, rebindMatrixServerEndpoint,
              Overlay, ValidateMatrix, StartListener, RunPhases, TestConnectivity,
              Probe, PortForwardTimeout, RunIPerf, Finish, ProgramNAT, Fails, MayFault, Done, ProbeFrame
  <2>1. UNCHANGED setting
    BY <1>2
  <2>2. /\ pc' \in {"collect", "move", "peer", "populate", "rebind", "overlay", "validate", "listen",
                    "legacy", "wait", "done"}
    BY <1>2 DEF TypeOK
  <2>3. faults' \in {faults, faults + 1}
    BY <1>2
  <2>4. failed' \in BOOLEAN
    BY <1>2, Zenon DEF TypeOK, LegacyUnsupported
  <2>5. natActive' \in BOOLEAN
    BY <1>2 DEF TypeOK
  <2>6. listeners' \subseteq Servers \X {aclAltPort}
    <3>1. CASE StartListener
      <4>1. Keyed(m)
        BY <3>1 DEF Oracle, MatrixOK
      <4> QED
        BY <3>1, <4>1, WantedPorts DEF TypeOK
    <3>2. CASE Finish
      BY <3>2 DEF TypeOK
    <3> QED
      BY <1>2, <3>1, <3>2 DEF TypeOK
  <2> QED
    <3>1. faults' \in Nat
      BY <2>3 DEF TypeOK
    <3> QED
      BY <1>0, <2>1, <2>2, <2>4, <2>5, <2>6, <3>1 DEF TypeOK
<1> QED
  BY <1>1, <1>2 DEF Next, Steps, Terminating

-----------------------------------------------------------------------------
(* The theorems.                                                           *)

\* The invariant holds in every reachable state.
LEMMA Inductive == Spec => []ConnInv
<1>1. Init => ConnInv
  BY OracleInit, ProbingInit, TypeInit DEF ConnInv
<1>2. ConnInv /\ [Next]_vars => ConnInv'
  <2> SUFFICES ASSUME ConnInv, [Next]_vars PROVE ConnInv'
    OBVIOUS
  <2>1. Oracle'
    BY OracleNext DEF ConnInv
  <2>2. Probing'
    BY ProbingNext DEF ConnInv
  <2>3. TypeOK'
    BY <2>2, TypeNext DEF ConnInv
  <2> QED
    BY <2>1, <2>2, <2>3 DEF ConnInv
<1> QED
  BY <1>1, <1>2, PTL DEF Spec

\* The variables keep their types: listeners are only ever on the servers' extra port,
\* and no iperf3 session is tried more often than iperf3SpeedRetries allows.
THEOREM ProbesTyped == Spec => []TypeOK
  BY Inductive, PTL DEF ConnInv

\* No probe starts with an expectation nobody could evaluate: Validate refuses the
\* matrices from which one of the four phases would take one.
THEOREM NothingUnknownProbed == Spec => []NoUnknownTested
<1>1. ConnInv => NoUnknownTested
  BY DEF ConnInv, Probing, Fit, IsJob, NoUnknownTested
<1> QED
  BY <1>1, Inductive, PTL

\* The port of every TCP or UDP probe is served at its destination while the probe is
\* under way, by the daemon that is always on or by a listener of the test.
THEOREM PortsServed == Spec => []ListenersServe
<1>1. ConnInv => ListenersServe
  <2> SUFFICES ASSUME ConnInv, NEW j \in jobs, j.kind = "proto", j.pp[1] # "icmp"
               PROVE  j.pp[2] \in Serving[j.dst.srv]
    BY DEF ListenersServe
  <2>1. j.dst.srv \in Servers /\ (j.pp[2] = persistentIperf3Port \/ <<j.dst.srv, j.pp[2]>> \in listeners)
    BY DEF ConnInv, Probing, Fit, Served
  <2>2. CASE j.pp[2] = persistentIperf3Port
    BY <2>1, <2>2 DEF Serving
  <2>3. CASE <<j.dst.srv, j.pp[2]>> \in listeners
    <3> DEFINE l == <<j.dst.srv, j.pp[2]>>
    <3>1. l \in {k \in listeners : k[1] = j.dst.srv} /\ l[2] = j.pp[2]
      BY <2>3
    <3> HIDE DEF l
    <3> QED
      BY <2>1, <3>1 DEF Serving
  <2> QED
    BY <2>1, <2>2, <2>3
<1> QED
  BY <1>1, Inductive, PTL

\* A test that has ended leaves no listener behind unless a call failed, on its error
\* paths too.
THEOREM NoListenerLeft == Spec => []ListenersStopped
  BY Inductive, PTL DEF ConnInv, Probing

\* From the overlay on the matrix is about the servers where they are now: its entries
\* are about its endpoints, and its endpoints about present addresses and attachments,
\* after the overlap test has moved a server too.
THEOREM MatrixCurrent == Spec => []NoStaleEntries
<1>1. ConnInv => NoStaleEntries
  <2> SUFFICES ASSUME ConnInv, pc \in {"overlay", "validate", "listen", "wait"}, ~legacy PROVE
               /\ \A k \in DOMAIN m.ent : {k[1], k[2]} \subseteq m.eps
               /\ \A ep \in m.eps : IsServer(ep) => /\ m.ip[ep] \in ToSet(addrs[ep.srv])
                                                    /\ <<ep.vpc, ep.sub>> \in GetAttachedSubnets(c, ep.srv)
    BY DEF NoStaleEntries
  <2>1. Keyed(m) /\ Current(m, c, addrs, Servers)
    BY DEF ConnInv, Oracle, MatrixOK, Scope
  <2>2. \A k \in DOMAIN m.ent : {k[1], k[2]} \subseteq m.eps
    BY <2>1, Triple
  <2>3. \A ep \in m.eps : IsServer(ep) => ep.srv \in Servers
    BY <2>1 DEF Keyed
  <2> QED
    BY <2>1, <2>2, <2>3 DEF Current
<1> QED
  BY <1>1, Inductive, PTL

\* A matrix test that passes had every server that answers in its matrix, at the
\* first of its addresses, all of which belong to the subnet the server is attached
\* to: what discovery cannot place it drops, and what it drops Validate refuses.  The
\* lemmas about discovery hold for whatever addresses the servers answer with.
THEOREM AllServersSeen == Spec => []PassMeansAllSeen
<1>1. ConnInv => PassMeansAllSeen
  <2> SUFFICES ASSUME ConnInv, pc = "done", ~failed, ~legacy, NEW s \in Present
               PROVE  \E ep \in m.eps : Placed(addrs, s, ep, m.ip[ep])
    BY DEF PassMeansAllSeen, Placed
  <2>1. Validate(m) /\ Complete(m, c, addrs, Servers)
    BY DEF ConnInv, Oracle, MatrixOK
  <2>2. m.dropped = {}
    BY <2>1 DEF Validate
  <2> QED
    BY <2>1, <2>2 DEF Present, Complete
<1> QED
  BY <1>1, Inductive, PTL
=============================================================================
