--------------------------- MODULE VPCOutcomeProofs ---------------------------
(***************************************************************************)
(* What SetupVPCs plans and what it leaves behind, for every set of calls: *)
(* the facts of VPCPlanProofs about one turn of the loop hold of the plan  *)
(* at every moment, and what the API and the servers hold follows it.  And *)
(* what SetupPeerings makes of its requests, for every list of options.    *)
(***************************************************************************)
EXTENDS VPCSetupProofs, VPCPlanProofs, WellFoundedInduction

\* Options and namespaces as the loop sees them.
LoopOptions == Resolved(Opts, sc.fabric)
LoopNamespaces == Namespaces(sc.servers, sc.vlans, sc.prefixes)

\* Where the loop stands: behind it, the options are good and the plan is possible.
Planning ==
    /\ pc \in {"start", "peerings"} => plan = EmptyPlan /\ next = 1
    /\ pc \in {"peerings", "plan", "detach", "delete", "settle", "create", "attach", "ready", "servers", "done"} =>
         ValidOptions(Opts) /\ ~plan.err
    /\ ValidOptions(Opts) /\ ~plan.err => SoFar(LoopOptions, LoopNamespaces, sc.servers, next - 1, plan)

\* The options the loop runs with are as checked, and keep the limits that were asked for.
LEMMA LoopOptionsGood ==
  ASSUME IsOptions(Opts), ValidOptions(Opts)
  PROVE  /\ GoodOptions(LoopOptions)
         /\ LoopOptions.perSubnet = Opts.perSubnet /\ LoopOptions.perVPC = Opts.perVPC /\ LoopOptions.mode = Opts.mode
<1> DEFINE f == sc.fabric
           a == P2PForced(Opts, f)
           b == ResolveDefaultServerMTU(a, f)
<1>1. /\ {Opts.p2p, Opts.hostBGP, Opts.dns} \subseteq BOOLEAN /\ Opts.mtu \in Nat
      /\ Opts.perSubnet \in Nat \ {0} /\ Opts.perVPC \in Nat \ {0}
  BY DEF IsOptions, ValidOptions
<1>2. DOMAIN Opts = {"wait", "force", "keepPeerings", "hostBGP", "p2p", "hash", "dns", "perSubnet", "perVPC", "mtu", "mode"}
  BY DEF IsOptions
<1>3. a = [Opts EXCEPT !.p2p = @ \/ f = "cumulus"]
  BY DEF P2PForced
<1> HIDE DEF f, a
<1>4. /\ DOMAIN a = DOMAIN Opts /\ a.hostBGP = Opts.hostBGP /\ a.dns = Opts.dns /\ a.mtu = Opts.mtu /\ a.perSubnet = Opts.perSubnet
      /\ a.perVPC = Opts.perVPC /\ a.mode = Opts.mode
  BY <1>2, <1>3
<1>5. a.p2p \in BOOLEAN
  BY <1>2, <1>3
<1> DEFINE m == IF a.mtu # 0 THEN a.mtu ELSE IF f # "vs" THEN ServerFacingMTU ELSE IF a.dns THEN 1500 ELSE 0
<1>6. b = [a EXCEPT !.mtu = m]
  BY DEF ResolveDefaultServerMTU
<1>7. m \in Nat
  BY <1>1, <1>4 DEF ServerFacingMTU
<1> HIDE DEF b, m
<1>8. /\ b.hostBGP = a.hostBGP /\ b.dns = a.dns /\ b.perSubnet = a.perSubnet /\ b.perVPC = a.perVPC /\ b.mode = a.mode
      /\ b.p2p = a.p2p /\ b.mtu = m
  BY <1>2, <1>4, <1>6
<1>9. LoopOptions = b
  BY DEF LoopOptions, Resolved, a, b, f
<1>10. GoodOptions(b)
  BY <1>1, <1>4, <1>5, <1>7, <1>8 DEF GoodOptions
<1> QED
  BY <1>4, <1>8, <1>9, <1>10

\* Leaving out the first keeps the others, and different ones different.
LEMMA TailKept ==
  ASSUME NEW q \in Seq(Nat), NEW m \in {1, 2}
  PROVE  /\ SubSeq(q, m, Len(q)) \in Seq(Nat)
         /\ Distinct(q) => Distinct(SubSeq(q, m, Len(q)))
<1>1. Len(q) \in Nat /\ \A i \in m..Len(q) : q[i] \in Nat
  BY ElementOfSeq, LenProperties
<1> DEFINE t == SubSeq(q, m, Len(q))
<1>2. /\ t \in Seq(Nat) /\ Len(t) = (IF m <= Len(q) THEN Len(q) - m + 1 ELSE 0)
      /\ \A i \in 1..(Len(q) - m + 1) : t[i] = q[m + i - 1]
  BY <1>1, SubSeqProperties
<1> HIDE DEF t
<1>3. \A i \in 1..Len(t) : m + i - 1 \in 1..Len(q) /\ t[i] = q[m + i - 1]
  BY <1>1, <1>2
<1>4. ASSUME Distinct(q), NEW i \in 1..Len(t), NEW j \in 1..Len(t), t[i] = t[j] PROVE i = j
  <2> DEFINE x == m + i - 1
             y == m + j - 1
  <2>1. x \in 1..Len(q) /\ y \in 1..Len(q) /\ q[x] = q[y]
    BY <1>3, <1>4
  <2>2. x = y => i = j
    OBVIOUS
  <2> HIDE DEF x, y
  <2>3. x = y
    BY <1>4, <2>1 DEF Distinct
  <2> QED
    BY <2>2, <2>3
<1> QED
  BY <1>2, <1>4 DEF t, Distinct

\* So are the VLANs and prefixes the namespaces give, which repeat nothing of their own.
LEMMA LoopNamespacesGood ==
  ASSUME GoodCall
  PROVE  /\ GoodNamespaces(LoopNamespaces)
         /\ Distinct(sc.prefixes) => Distinct(LoopNamespaces.prefixes)
         /\ Distinct(sc.vlans) => Distinct(LoopNamespaces.vlans)
<1> DEFINE skip == IF sc.servers # <<>> /\ sc.servers[1].id > 0 THEN 2 ELSE 1
<1>1. /\ LoopNamespaces.vlans = SubSeq(sc.vlans, skip, Len(sc.vlans))
      /\ LoopNamespaces.prefixes = SubSeq(sc.prefixes, skip, Len(sc.prefixes))
  BY DEF LoopNamespaces, Namespaces
<1>2. skip \in {1, 2} /\ sc.vlans \in Seq(Nat) /\ sc.prefixes \in Seq(Nat)
  BY DEF GoodCall
<1> HIDE DEF skip
<1> QED
  BY <1>1, <1>2, TailKept DEF GoodNamespaces

\* Before the loop nothing is planned.
LEMMA PlanningInit == Init /\ GoodCall => Planning
<1> SUFFICES ASSUME Init, GoodCall PROVE Planning
  OBVIOUS
<1>1. plan = EmptyPlan /\ next = 1 /\ pc = "start"
  BY DEF Init
<1>2. ASSUME ValidOptions(Opts) PROVE SoFar(LoopOptions, LoopNamespaces, sc.servers, 0, EmptyPlan)
  <2>1. GoodOptions(LoopOptions)
    BY <1>2, LoopOptionsGood DEF GoodCall
  <2> QED
    BY <2>1, NothingPlanned
<1>3. next - 1 = 0
  BY <1>1
<1> QED
  BY <1>1, <1>2, <1>3 DEF Planning

\* The servers come sorted by name, each once.
LEMMA ServersInOrder == GoodCall => InOrder(sc.servers)
BY DEF GoodCall, InOrder, ServerT

\* A turn of the loop keeps the facts about the plan; a retry starts from nothing.
LEMMA PlanningStep == GoodCall /\ TypeOK /\ Planning /\ [Next]_vars => Planning'
<1> SUFFICES ASSUME GoodCall, TypeOK, Planning, [Next]_vars PROVE Planning'
  OBVIOUS
<1>s. sc' = sc /\ Opts' = Opts /\ LoopOptions' = LoopOptions /\ LoopNamespaces' = LoopNamespaces
  BY GoodCallStep DEF Opts, LoopOptions, LoopNamespaces
<1>f. Failed \in {"failed", "pfailed"}
  BY DEF Failed
<1>k. ASSUME UNCHANGED <<plan, next>>,
             \/ pc' = pc \/ pc' \notin {"start", "peerings", "plan", "detach", "delete", "settle", "create", "attach", "ready", "servers", "done"}
             \/ pc = "start" /\ pc' = "peerings" /\ ValidOptions(Opts)
             \/ /\ pc \in {"peerings", "plan", "detach", "delete", "settle", "create", "attach", "ready", "servers", "done"}
                /\ pc' \in {"plan", "detach", "delete", "settle", "create", "attach", "ready", "servers", "done"}
      PROVE  Planning'
  <2>1. pc' = "peerings" => ValidOptions(Opts) /\ ~plan.err
    <3>1. ~EmptyPlan.err
      BY DEF EmptyPlan
    <3> QED
      BY <1>k, <3>1 DEF Planning
  <2>2. pc' \in {"start", "peerings"} => plan = EmptyPlan /\ next = 1
    BY <1>k DEF Planning
  <2>3. pc' \in {"plan", "detach", "delete", "settle", "create", "attach", "ready", "servers", "done"} => ValidOptions(Opts) /\ ~plan.err
    BY <1>k DEF Planning
  <2> QED
    BY <1>s, <1>k, <2>1, <2>2, <2>3 DEF Planning
<1>1. CASE FabReadError \/ FabReady \/ AgentsReady \/ WaitTimeout
  BY <1>f, <1>k, <1>1 DEF FabReadError, FabReady, AgentsReady, WaitTimeout, Fault, Fail
<1>2. CASE Start
  BY <1>f, <1>k, <1>2 DEF Start, At, Goto, Fail
<1>3. CASE DeletePeerings
  BY <1>f, <1>k, <1>3 DEF DeletePeerings, At, Goto, Fault, Fail
<1>4. CASE PlanNext
  <2>1. pc = "plan" /\ ValidOptions(Opts) /\ ~plan.err /\ SoFar(LoopOptions, LoopNamespaces, sc.servers, next - 1, plan)
    BY <1>4 DEF PlanNext, At, Planning
  <2>2. CASE Fault /\ UNCHANGED <<plan, next>>
    BY <1>f, <1>k, <2>2 DEF Fault, Fail
  <2>3. CASE /\ plan' = PlanServer(LoopOptions, LoopNamespaces, plan, sc.servers[next]) /\ next' = next + 1
             /\ IF plan'.err THEN Fail ELSE Goto("plan")
    <3>1. CASE plan'.err
      BY <1>f, <1>s, <2>3, <3>1 DEF Fail, Planning
    <3>2. CASE ~plan'.err
      <4>1. next \in Nat /\ next \in 1..Len(sc.servers)
        <5>1. Len(sc.servers) \in Nat
          BY LenProperties DEF GoodCall
        <5> QED
          BY <1>4, <5>1 DEF PlanNext, TypeOK
      <4> DEFINE n == next - 1
      <4>2. n \in Nat /\ n + 1 = next /\ n + 1 \in 1..Len(sc.servers) /\ next' - 1 = n + 1
        BY <2>3, <4>1
      <4>3. GoodOptions(LoopOptions) /\ GoodNamespaces(LoopNamespaces) /\ InOrder(sc.servers)
        BY <2>1, LoopOptionsGood, LoopNamespacesGood, ServersInOrder DEF GoodCall
      <4>4. plan' = PlanServer(LoopOptions, LoopNamespaces, plan, sc.servers[n + 1])
        BY <2>3, <4>2
      <4>5. SoFar(LoopOptions, LoopNamespaces, sc.servers, n, plan)
        BY <2>1
      <4> HIDE DEF n
      <4>6. SoFar(LoopOptions, LoopNamespaces, sc.servers, n + 1, plan')
        BY <3>2, <4>2, <4>3, <4>4, <4>5, Turn
      <4>7. pc' = "plan"
        BY <2>3, <3>2 DEF Goto
      <4> QED
        BY <1>s, <2>1, <3>2, <4>2, <4>6, <4>7 DEF Planning
    <3> QED
      BY <3>1, <3>2
  <2> QED
    BY <1>4, <2>2, <2>3 DEF PlanNext, LoopOptions, LoopNamespaces
<1>5. CASE Planned
  BY <1>k, <1>5 DEF Planned, At, Goto, WaitReadyThen
<1>6. CASE DeleteAttachments \/ DeleteVPCs
  BY <1>f, <1>k, <1>6 DEF DeleteAttachments, DeleteVPCs, At, Goto, Fault, Fail
<1>7. CASE Settle \/ AwaitFabric
  BY <1>k, <1>7 DEF Settle, AwaitFabric, At, Goto, WaitReadyThen
<1>8. CASE CreateOrUpdateVPCs \/ CreateOrUpdateAttachments
  BY <1>f, <1>k, <1>8 DEF CreateOrUpdateVPCs, CreateOrUpdateAttachments, At, Goto, Fault, Fail
<1>9. CASE \E s \in ServerIDs : CleanServer(s) \/ ConfigureServer(s)
  BY <1>k, <1>9 DEF CleanServer, ConfigureServer
<1>10. CASE JoinServers
  BY <1>f, <1>k, <1>10 DEF JoinServers, At, Goto, Fault, Fail
<1>11. CASE Retry
  <2>1. pc' = "start" /\ plan' = EmptyPlan /\ next' = 1
    BY <1>11 DEF Retry, Goto
  <2>2. ASSUME ValidOptions(Opts) PROVE SoFar(LoopOptions, LoopNamespaces, sc.servers, 0, EmptyPlan)
    <3>1. GoodOptions(LoopOptions)
      BY <2>2, LoopOptionsGood DEF GoodCall
    <3> QED
      BY <3>1, NothingPlanned
  <2>3. next' - 1 = 0
    BY <2>1
  <2> QED
    BY <1>s, <2>1, <2>2, <2>3 DEF Planning
<1>12. CASE StartPeerings \/ ParseRequests
  BY <1>f, <1>k, <1>12 DEF StartPeerings, ParseRequests, At, Goto, WaitReadyThen, Fail
<1>13. CASE Unpeer \/ Enforce
  BY <1>f, <1>k, <1>13 DEF Unpeer, Enforce, At, Goto, Fault, Fail
<1>14. CASE AwaitPeerings
  BY <1>k, <1>14 DEF AwaitPeerings, At, Goto, WaitReadyThen
<1>15. CASE Reflect \/ (\E c \in Agents : Apply(c)) \/ Expire \/ Rest \/ UNCHANGED vars
  BY <1>k, <1>15 DEF Reflect, Apply, Expire, Rest, vars
<1> QED
  BY <1>1, <1>2, <1>3, <1>4, <1>5, <1>6, <1>7, <1>8, <1>9, <1>10, <1>11, <1>12, <1>13, <1>14, <1>15 DEF Next, Program

\* What is planned so far is known at every step.
LEMMA PlanningKnown == Spec => [](GoodCall /\ TypeOK /\ Planning)
<1>1. Init => GoodCall /\ TypeOK /\ Planning
  BY GoodCallInit, TypeInit, PlanningInit
<1>2. GoodCall /\ TypeOK /\ Planning /\ [Next]_vars => (GoodCall /\ TypeOK /\ Planning)'
  BY GoodCallStep, TypeStep, PlanningStep
<1> QED
  BY <1>1, <1>2, PTL DEF Spec

-----------------------------------------------------------------------------
(***************************************************************************)
(* The plan                                                                *)
(***************************************************************************)

\* CommandOf finds the one command of a server.
LEMMA CommandIs ==
  ASSUME NEW q, NEW n, NEW pl, IsPlan(pl), Known(q, n, pl), NEW k \in 1..Len(pl.confs)
  PROVE  CommandOf(pl, pl.confs[k].server) = pl.confs[k].cmd
<1>1. DOMAIN pl.confs = 1..Len(pl.confs)
  BY LenProperties DEF IsPlan
<1>2. pl.confs[k] \in ToSet(pl.confs)
  BY <1>1 DEF ToSet
<1>3. \A c \in ToSet(pl.confs) : c.server = pl.confs[k].server => c = pl.confs[k]
  BY <1>1 DEF ToSet, Known
<1>4. (CHOOSE c \in ToSet(pl.confs) : c.server = pl.confs[k].server) = pl.confs[k]
  BY <1>2, <1>3
<1> QED
  BY <1>4 DEF CommandOf

\* A server that is not passed over has a home, and its command fits there.
HasHome(o, pl, s, c, k, slot) ==
    /\ c \in 1..Len(pl.subnets) /\ k \in 1..Len(pl.confs) /\ slot \in 0..(o.perSubnet - 1)
    /\ Sits(o, pl, s, c, k, slot) /\ CommandOf(pl, s.id) = pl.confs[k].cmd

\* A server that is not passed over has a subnet, a place in it and a command that fits.
LEMMA Home ==
  ASSUME NEW o, NEW ns, NEW q, NEW n, NEW pl, SoFar(o, ns, q, n, pl), NEW i \in 1..n, ~PassedOver(o, q[i])
  PROVE  \E c, k, slot : HasHome(o, pl, q[i], c, k, slot)
<1>1. PICK c \in 1..Len(pl.subnets), k \in 1..Len(pl.confs), slot \in 0..(o.perSubnet - 1) : Sits(o, pl, q[i], c, k, slot)
  BY DEF SoFar, Served
<1>2. CommandOf(pl, pl.confs[k].server) = pl.confs[k].cmd
  BY CommandIs DEF SoFar
<1>3. CommandOf(pl, q[i].id) = pl.confs[k].cmd
  BY <1>1, <1>2 DEF Sits
<1> QED
  BY <1>1, <1>3 DEF HasHome

\* A server of a subnet is at home there.
LEMMA HomeIs ==
  ASSUME NEW o, NEW ns, NEW q, NEW n, NEW pl, SoFar(o, ns, q, n, pl), NEW i \in 1..n, NEW j \in 1..Len(pl.subnets),
         q[i].id \in Members(pl, pl.subnets[j].vpc, pl.subnets[j].subnet)
  PROVE  \E k, slot : HasHome(o, pl, q[i], j, k, slot)
<1>1. PICK a \in pl.attaches : a.conn[1] = q[i].id /\ a.vpc = pl.subnets[j].vpc /\ a.subnet = pl.subnets[j].subnet
  BY DEF Members
<1>2. a \in AttachesOf(pl, q[i].id)
  BY <1>1 DEF AttachesOf
<1>3. ~PassedOver(o, q[i])
  BY <1>2 DEF SoFar, Served
<1>4. PICK c, k, slot : HasHome(o, pl, q[i], c, k, slot)
  BY <1>3, Home
<1>5. c = j
  BY <1>1, <1>2, <1>4 DEF HasHome, Sits, SoFar, Ordered
<1> QED
  BY <1>4, <1>5

\* The state at the head of the loop, in the terms of VPCPlanProofs.
LEMMA AtTheLoop ==
  ASSUME GoodCall, TypeOK, Planning, AtPlan
  PROVE  /\ SoFar(LoopOptions, LoopNamespaces, sc.servers, next - 1, plan) /\ next - 1 \in Nat
         /\ GoodOptions(LoopOptions) /\ LoopOptions.perSubnet = Opts.perSubnet /\ LoopOptions.perVPC = Opts.perVPC
         /\ \A s : PassedOver(Opts, s) <=> PassedOver(LoopOptions, s)
         /\ \A sub \in Subnets : \E j \in 1..Len(plan.subnets) : sub = plan.subnets[j]
         /\ DOMAIN plan.subnets = 1..Len(plan.subnets) /\ DOMAIN plan.confs = 1..Len(plan.confs)
         /\ \A j \in 1..Len(plan.subnets) : plan.subnets[j] \in SubnetT /\ plan.subnets[j].hostBGP \in BOOLEAN /\ plan.subnets[j].dhcp \in BOOLEAN
         /\ \A k \in 1..Len(plan.confs) : plan.confs[k].cmd \in CommandT
         /\ \A i \in 1..(next - 1) : sc.servers[i] \in ServerT
<1>1. ValidOptions(Opts) /\ SoFar(LoopOptions, LoopNamespaces, sc.servers, next - 1, plan)
  BY DEF Planning, AtPlan
<1>2. GoodOptions(LoopOptions) /\ LoopOptions.perSubnet = Opts.perSubnet /\ LoopOptions.perVPC = Opts.perVPC /\ LoopOptions.mode = Opts.mode
  BY <1>1, LoopOptionsGood DEF GoodCall
<1>3. Len(sc.servers) \in Nat /\ \A i \in 1..Len(sc.servers) : sc.servers[i] \in ServerT
  <2>1. sc.servers \in Seq(ServerT)
    BY DEF GoodCall, ServerT
  <2> QED
    BY <2>1, LenProperties, ElementOfSeq
<1>4. next - 1 \in Nat /\ \A i \in 1..(next - 1) : i \in 1..Len(sc.servers)
  BY <1>3 DEF TypeOK
<1>5. IsPlan(plan)
  BY <1>1 DEF SoFar
<1>6. plan.confs \in Seq(ConfT)
  BY <1>5 DEF IsPlan
<1>7. DOMAIN plan.confs = 1..Len(plan.confs) /\ \A k \in 1..Len(plan.confs) : plan.confs[k] \in ConfT
  BY <1>6, LenProperties, ElementOfSeq
<1>8. \A k \in 1..Len(plan.confs) : plan.confs[k].cmd \in CommandT
  BY <1>7 DEF ConfT
<1>9. DOMAIN plan.subnets = 1..Len(plan.subnets)
  BY <1>5, SubnetTyped
<1>10. \A j \in 1..Len(plan.subnets) : plan.subnets[j] \in SubnetT /\ plan.subnets[j].hostBGP \in BOOLEAN /\ plan.subnets[j].dhcp \in BOOLEAN
  BY <1>5, SubnetTyped
<1>11. \A sub \in Subnets : \E j \in 1..Len(plan.subnets) : sub = plan.subnets[j]
  BY <1>9 DEF Subnets, ToSet
<1>12. \A s : PassedOver(Opts, s) <=> PassedOver(LoopOptions, s)
  BY <1>2 DEF PassedOver
<1> QED
  BY <1>1, <1>2, <1>3, <1>4, <1>7, <1>8, <1>9, <1>10, <1>11, <1>12

\* The plan keeps host-BGP servers and others apart, and each server's command is of
\* its subnet's kind.
LEMMA Uniform == GoodCall /\ TypeOK /\ Planning => SubnetsUniform
<1> SUFFICES ASSUME GoodCall, TypeOK, Planning, AtPlan, NEW sub \in Subnets, NEW i \in PlannedSoFar, sc.servers[i].id \in In(sub)
             PROVE  LET cmd == CommandOf(plan, sc.servers[i].id)
                    IN /\ sub.hostBGP <=> cmd.kind = "hostbgp"
                       /\ sub.hostBGP => ~sub.dhcp /\ \A k \in DOMAIN sc.servers[i].conns : sc.servers[i].conns[k] = "unbundled"
                       /\ cmd.kind \in {"vlan", "bond"} => sub.dhcp /\ cmd.vlan = sub.vlan
  BY DEF SubnetsUniform
<1> DEFINE o == LoopOptions
           s == sc.servers[i]
           cmd == CommandOf(plan, s.id)
<1>1. SoFar(o, LoopNamespaces, sc.servers, next - 1, plan) /\ GoodOptions(o) /\ s \in ServerT /\ i \in 1..(next - 1)
  BY AtTheLoop DEF PlannedSoFar
<1>2. PICK j \in 1..Len(plan.subnets) : sub = plan.subnets[j]
  BY AtTheLoop
<1>3. s.id \in Members(plan, plan.subnets[j].vpc, plan.subnets[j].subnet)
  BY <1>2 DEF In, Members
<1>4. PICK k, slot : HasHome(o, plan, s, j, k, slot)
  BY <1>1, <1>3, HomeIs
<1>5. Fits(o, sub, s, slot, cmd)
  BY <1>2, <1>4 DEF HasHome, Sits
<1>6. sub.hostBGP \in BOOLEAN /\ o.p2p \in BOOLEAN /\ (sub.dhcp <=> ~sub.hostBGP /\ ~o.p2p)
  BY <1>1, <1>2, AtTheLoop DEF SoFar, Ordered, GoodOptions
<1>7. DOMAIN s.conns = 1..Len(s.conns)
  <2>1. s.conns \in Seq(STRING)
    BY <1>1 DEF ServerT
  <2> QED
    BY <2>1, LenProperties
<1> HIDE DEF o, s, cmd
<1>8. CASE sub.hostBGP
  BY <1>5, <1>6, <1>7, <1>8 DEF Fits, s, cmd
<1>9. CASE ~sub.hostBGP /\ o.p2p
  BY <1>5, <1>6, <1>9 DEF Fits, s, cmd
<1>10. CASE ~sub.hostBGP /\ ~o.p2p
  BY <1>5, <1>6, <1>10 DEF Fits, s, cmd
<1> QED
  BY <1>6, <1>8, <1>9, <1>10

\* Every server has one home, by all of its links, and one command for them.
LEMMA OneHome == GoodCall /\ TypeOK /\ Planning => EveryServerServed
<1> SUFFICES ASSUME GoodCall, TypeOK, Planning, AtPlan PROVE EveryServerServed
  BY DEF EveryServerServed
<1> DEFINE o == LoopOptions
<1>1. SoFar(o, LoopNamespaces, sc.servers, next - 1, plan) /\ GoodOptions(o)
  BY AtTheLoop
<1>2. DOMAIN plan.subnets = 1..Len(plan.subnets) /\ DOMAIN plan.confs = 1..Len(plan.confs)
  BY AtTheLoop
<1>3. \A id : OfServer(id) = AttachesOf(plan, id)
  BY DEF OfServer, AttachesOf
<1>4. ASSUME NEW i \in PlannedSoFar, PassedOver(Opts, sc.servers[i])
      PROVE  OfServer(sc.servers[i].id) = {} /\ sc.servers[i].id \notin PlannedServers(plan)
  <2>1. PassedOver(o, sc.servers[i]) /\ i \in 1..(next - 1)
    BY <1>4, AtTheLoop DEF PlannedSoFar
  <2> QED
    BY <1>1, <1>2, <1>3, <2>1 DEF SoFar, Served, PlannedServers
<1>5. ASSUME NEW i \in PlannedSoFar, ~PassedOver(Opts, sc.servers[i])
      PROVE  LET s == sc.servers[i]
             IN /\ {a.conn[2] : a \in OfServer(s.id)} = DOMAIN s.conns
                /\ Cardinality({<<a.vpc, a.subnet>> : a \in OfServer(s.id)}) = 1
                /\ Cardinality({k \in DOMAIN plan.confs : plan.confs[k].server = s.id}) = 1
                /\ CommandOf(plan, s.id).conns = {a.conn : a \in OfServer(s.id)}
  <2> DEFINE s == sc.servers[i]
             mine == AttachesOf(plan, s.id)
  <2>1. ~PassedOver(o, s) /\ i \in 1..(next - 1) /\ s \in ServerT
    BY <1>5, AtTheLoop DEF PlannedSoFar
  <2>2. PICK c, k, slot : HasHome(o, plan, s, c, k, slot)
    BY <1>1, <2>1, Home
  <2>3. /\ {a.conn : a \in mine} = Links(s) /\ k \in 1..Len(plan.confs) /\ plan.confs[k].server = s.id
        /\ \A a \in mine : a.vpc = plan.subnets[c].vpc /\ a.subnet = plan.subnets[c].subnet
        /\ CommandOf(plan, s.id).conns = Links(s)
    BY <2>2 DEF HasHome, Sits, Fits
  <2>4. DOMAIN s.conns = 1..Len(s.conns) /\ Len(s.conns) \in Nat
    <3>1. s.conns \in Seq(STRING)
      BY <2>1 DEF ServerT
    <3> QED
      BY <3>1, LenProperties
  <2>5. 1 <= Len(s.conns)
    BY <1>1, <2>1 DEF SoFar, Served
  <2> HIDE DEF s, mine
  <2>6. {a.conn[2] : a \in mine} = DOMAIN s.conns
    <3>1. {a.conn[2] : a \in mine} = {x[2] : x \in {a.conn : a \in mine}}
      OBVIOUS
    <3>2. {x[2] : x \in Links(s)} = 1..Len(s.conns)
      <4>1. \A x \in Links(s) : x[2] \in 1..Len(s.conns)
        BY DEF Links
      <4>2. \A l \in 1..Len(s.conns) : <<s.id, l>> \in Links(s) /\ <<s.id, l>>[2] = l
        BY DEF Links
      <4> QED
        BY <4>1, <4>2
    <3> QED
      BY <2>3, <2>4, <3>1, <3>2
  <2>7. \E a \in mine : TRUE
    <3>1. <<s.id, 1>> \in Links(s)
      BY <2>4, <2>5 DEF Links
    <3> QED
      BY <2>3, <3>1
  <2>8. {<<a.vpc, a.subnet>> : a \in mine} = {<<plan.subnets[c].vpc, plan.subnets[c].subnet>>}
    BY <2>3, <2>7
  <2>9. {l \in DOMAIN plan.confs : plan.confs[l].server = s.id} = {k}
    BY <1>1, <1>2, <2>3 DEF SoFar, Known
  <2>10. Cardinality({<<a.vpc, a.subnet>> : a \in mine}) = 1 /\ Cardinality({l \in DOMAIN plan.confs : plan.confs[l].server = s.id}) = 1
    BY <2>8, <2>9, FS_Singleton
  <2> QED
    BY <1>3, <2>3, <2>6, <2>10 DEF s, mine
<1>6. ASSUME NEW sub \in Subnets PROVE Cardinality(In(sub)) \in 1..Opts.perSubnet /\ sub.subnet < Opts.perVPC
  <2>1. PICK j \in 1..Len(plan.subnets) : sub = plan.subnets[j]
    BY AtTheLoop
  <2>2. In(sub) = Members(plan, sub.vpc, sub.subnet)
    BY DEF In, Members
  <2>3. o.perSubnet = Opts.perSubnet /\ o.perVPC = Opts.perVPC
    BY AtTheLoop
  <2> QED
    BY <1>1, <2>1, <2>2, <2>3 DEF SoFar, Loaded, Ordered
<1>7. \A a \in plan.attaches : \E sub \in Subnets : sub.vpc = a.vpc /\ sub.subnet = a.subnet
  BY <1>1, <1>2 DEF SoFar, Ordered, Subnets, ToSet
<1> QED
  BY <1>4, <1>5, <1>6, <1>7 DEF EveryServerServed

\* With namespaces that do not repeat and room in a /24 for the servers of a subnet.
Roomy == Distinct(sc.vlans) /\ Distinct(sc.prefixes) /\ Opts.perSubnet <= 128
Separate == ~plan.err /\ ValidOptions(Opts) => Apart(plan)

\* Before the loop nothing collides.
LEMMA SeparateInit == Init /\ GoodCall => Separate
<1> SUFFICES ASSUME Init, GoodCall, ValidOptions(Opts) PROVE Apart(EmptyPlan)
  BY DEF Init, Separate
<1>1. GoodOptions(LoopOptions)
  BY LoopOptionsGood DEF GoodCall
<1> QED
  BY <1>1, NothingPlanned

\* A turn of the loop gives out no address and no prefix twice.
LEMMA SeparateStep == GoodCall /\ TypeOK /\ Planning /\ Roomy /\ Separate /\ [Next]_vars => Separate'
<1> SUFFICES ASSUME GoodCall, TypeOK, Planning, Roomy, Separate, [Next]_vars, ~plan'.err, ValidOptions(Opts) PROVE Apart(plan')
  BY GoodCallStep DEF Separate, Opts
<1>1. CASE plan' = plan
  BY <1>1 DEF Separate
<1>2. GoodOptions(LoopOptions) /\ LoopOptions.perSubnet = Opts.perSubnet
  BY LoopOptionsGood DEF GoodCall
<1>3. CASE plan' = EmptyPlan
  BY <1>2, <1>3, NothingPlanned
<1>4. CASE PlanNext /\ plan' = PlanServer(LoopOptions, LoopNamespaces, plan, sc.servers[next])
  <2>1. ~plan.err /\ SoFar(LoopOptions, LoopNamespaces, sc.servers, next - 1, plan) /\ Apart(plan)
    BY <1>4 DEF PlanNext, At, Planning, Separate
  <2>2. next \in Nat /\ next \in 1..Len(sc.servers)
    <3>1. Len(sc.servers) \in Nat
      BY LenProperties DEF GoodCall
    <3> QED
      BY <1>4, <3>1 DEF PlanNext, TypeOK
  <2> DEFINE n == next - 1
  <2>3. n \in Nat /\ n + 1 = next /\ n + 1 \in 1..Len(sc.servers)
    BY <2>2
  <2>4. GoodNamespaces(LoopNamespaces) /\ Distinct(LoopNamespaces.prefixes) /\ InOrder(sc.servers)
    BY LoopNamespacesGood, ServersInOrder DEF Roomy
  <2>5. plan' = PlanServer(LoopOptions, LoopNamespaces, plan, sc.servers[n + 1]) /\ SoFar(LoopOptions, LoopNamespaces, sc.servers, n, plan)
    BY <1>4, <2>1, <2>3
  <2>6. LoopOptions.perSubnet <= 128
    BY <1>2 DEF Roomy
  <2> HIDE DEF n
  <2> QED
    BY <1>2, <2>1, <2>3, <2>4, <2>5, <2>6, Turn
<1>5. plan' = plan \/ plan' = EmptyPlan \/ (PlanNext /\ plan' = PlanServer(LoopOptions, LoopNamespaces, plan, sc.servers[next]))
  <2>1. CASE PlanNext
    BY <2>1 DEF PlanNext, LoopOptions, LoopNamespaces
  <2>2. CASE Retry
    BY <2>2 DEF Retry
  <2>3. CASE FabReadError \/ FabReady \/ AgentsReady \/ WaitTimeout \/ Start \/ DeletePeerings \/ Planned
    BY <2>3 DEF FabReadError, FabReady, AgentsReady, WaitTimeout, Start, DeletePeerings, Planned
  <2>4. CASE DeleteAttachments \/ DeleteVPCs \/ Settle \/ CreateOrUpdateVPCs \/ CreateOrUpdateAttachments \/ AwaitFabric
    BY <2>4 DEF DeleteAttachments, DeleteVPCs, Settle, CreateOrUpdateVPCs, CreateOrUpdateAttachments, AwaitFabric
  <2>5. CASE (\E s \in ServerIDs : CleanServer(s) \/ ConfigureServer(s)) \/ JoinServers
    BY <2>5 DEF CleanServer, ConfigureServer, JoinServers
  <2>6. CASE StartPeerings \/ ParseRequests \/ Unpeer \/ Enforce \/ AwaitPeerings
    BY <2>6 DEF StartPeerings, ParseRequests, Unpeer, Enforce, AwaitPeerings
  <2>7. CASE Reflect \/ (\E c \in Agents : Apply(c)) \/ Expire \/ Rest \/ UNCHANGED vars
    BY <2>7 DEF Reflect, Apply, Expire, Rest, vars
  <2> QED
    BY <2>1, <2>2, <2>3, <2>4, <2>5, <2>6, <2>7 DEF Next, Program
<1> QED
  BY <1>1, <1>3, <1>4, <1>5

\* Commands with their places and apart from each other never collide.
LEMMA DistinctAddresses == GoodCall /\ TypeOK /\ Planning /\ Roomy /\ Separate => AddressesDistinct
<1> SUFFICES ASSUME GoodCall, TypeOK, Planning, Roomy, Separate, AtPlan PROVE AddressesDistinct
  BY DEF AddressesDistinct
<1> DEFINE o == LoopOptions
           ns == LoopNamespaces
<1>1. SoFar(o, ns, sc.servers, next - 1, plan) /\ GoodOptions(o) /\ next - 1 \in Nat /\ o.perSubnet = Opts.perSubnet
  BY AtTheLoop
<1>2. DOMAIN plan.subnets = 1..Len(plan.subnets) /\ DOMAIN plan.confs = 1..Len(plan.confs)
  BY AtTheLoop
<1>3. Distinct(ns.prefixes) /\ Distinct(ns.vlans)
  BY LoopNamespacesGood DEF Roomy
<1>4. \A i, j \in DOMAIN plan.subnets : i # j =>
          plan.subnets[i].prefix # plan.subnets[j].prefix /\ plan.subnets[i].vlan # plan.subnets[j].vlan
  BY <1>1, <1>2, <1>3 DEF SoFar, Numbered, Distinct
<1>5. \A i, j \in DOMAIN plan.confs : i # j => FixedAddresses(plan.confs[i].cmd) \cap FixedAddresses(plan.confs[j].cmd) = {}
  <2>1. Apart(plan)
    BY DEF Separate, Planning, AtPlan
  <2> QED
    BY <1>2, <2>1 DEF Apart
<1>6. ASSUME NEW sub \in Subnets, NEW id \in PlannedServers(plan), id \in In(sub)
      PROVE  \A a \in FixedAddresses(CommandOf(plan, id)) : a \div PrefixSize = sub.prefix
  <2>1. PICK j \in 1..Len(plan.subnets) : sub = plan.subnets[j] /\ sub \in SubnetT
    BY AtTheLoop
  <2>2. PICK i \in 1..(next - 1) : sc.servers[i].id = id
    <3>1. PICK k \in 1..Len(plan.confs) : id = plan.confs[k].server
      BY <1>2 DEF PlannedServers
    <3>2. id \in IDs(sc.servers, next - 1)
      BY <1>1, <3>1 DEF SoFar, Known
    <3> QED
      BY <3>2 DEF IDs
  <2>3. sc.servers[i].id \in Members(plan, plan.subnets[j].vpc, plan.subnets[j].subnet)
    BY <1>6, <2>1, <2>2 DEF In, Members
  <2>4. PICK k, slot : HasHome(o, plan, sc.servers[i], j, k, slot)
    BY <1>1, <2>3, HomeIs
  <2>5. Fits(o, sub, sc.servers[i], slot, CommandOf(plan, id)) /\ slot \in 0..(o.perSubnet - 1) /\ CommandOf(plan, id) \in CommandT
    BY <2>1, <2>2, <2>4, AtTheLoop DEF HasHome, Sits
  <2>6. slot \in 0..127 /\ o.p2p \in BOOLEAN
    <3>1. o.perSubnet \in Nat /\ o.perSubnet <= 128 /\ o.p2p \in BOOLEAN
      BY <1>1 DEF Roomy, GoodOptions
    <3>2. \A n, x : n \in Nat /\ n <= 128 /\ x \in 0..(n - 1) => x \in 0..127
      OBVIOUS
    <3> HIDE DEF o
    <3>3. slot \in 0..(o.perSubnet - 1)
      BY <2>5, Zenon
    <3> QED
      BY <3>1, <3>2, <3>3, Zenon
  <2>7. Within(sub, CommandOf(plan, id))
    BY <2>1, <2>5, <2>6, InPrefix, Zenon
  <2> QED
    BY <2>7 DEF Within
<1> QED
  BY <1>4, <1>5, <1>6 DEF AddressesDistinct

-----------------------------------------------------------------------------
(***************************************************************************)
(* What the API and the servers hold                                       *)
(***************************************************************************)

\* Deletions leave what is planned, creations all of it; attachments go before the
\* VPCs they refer to and come after them.
Stored ==
    /\ AttachmentsHaveVPC
    /\ pc \in {"delete", "settle", "create", "attach"} => DOMAIN attaches \subseteq AttachKeys(plan)
    /\ pc = "delete" /\ Opts.force => DOMAIN attaches = {}
    /\ pc \in {"settle", "create"} => DOMAIN vpcs \subseteq PlannedVPCs(plan)
    /\ pc \in {"attach", "ready", "servers", "done"} => vpcs = SameAs(PlannedVPCs(plan))
    /\ pc \in {"ready", "servers", "done"} => attaches = SameAs(AttachKeys(plan))
\* A server that is reported to be done has its configuration.
Configured ==
    /\ \A s \in ServerIDs : srv[s] = "ok" => conf[s] = "new"
    /\ pc = "done" => \A s \in PlannedServers(plan) : srv[s] = "ok"

\* A plan's attachments are to planned VPCs, and its commands for servers of the call.
LEMMA PlanFits ==
  ASSUME GoodCall, TypeOK, Planning,
         pc \in {"plan", "detach", "delete", "settle", "create", "attach", "ready", "servers", "done"}
  PROVE  (\A k \in AttachKeys(plan) : k.vpc \in PlannedVPCs(plan)) /\ PlannedServers(plan) \subseteq ServerIDs
<1>1. SoFar(LoopOptions, LoopNamespaces, sc.servers, next - 1, plan)
  BY DEF Planning
<1>2. IsPlan(plan) /\ Ordered(LoopOptions, plan) /\ Known(sc.servers, next - 1, plan)
  BY <1>1 DEF SoFar
<1>3. DOMAIN plan.subnets = 1..Len(plan.subnets) /\ DOMAIN plan.confs = 1..Len(plan.confs)
  BY <1>2, LenProperties DEF IsPlan
<1>4. \A a \in plan.attaches : a.vpc \in PlannedVPCs(plan)
  BY <1>2, <1>3 DEF Ordered, PlannedVPCs
<1>5. \A k \in AttachKeys(plan) : k.vpc \in PlannedVPCs(plan)
  BY <1>4 DEF AttachKeys
<1>6. IDs(sc.servers, next - 1) \subseteq ServerIDs
  <2>1. Len(sc.servers) \in Nat /\ DOMAIN sc.servers = 1..Len(sc.servers)
    BY LenProperties DEF GoodCall
  <2>2. \A i \in 1..(next - 1) : i \in 1..Len(sc.servers)
    BY <2>1 DEF TypeOK
  <2> QED
    BY <2>1, <2>2 DEF IDs, ServerIDs
<1>7. PlannedServers(plan) \subseteq ServerIDs
  BY <1>2, <1>3, <1>6 DEF PlannedServers, Known
<1> QED
  BY <1>5, <1>7

\* A call starts with what it finds.
LEMMA StoredInit == Init /\ GoodCall => Stored /\ Configured
<1> SUFFICES ASSUME Init, GoodCall PROVE Stored /\ Configured
  OBVIOUS
<1>1. pc = "start" /\ vpcs = sc.left.vpcs /\ attaches = sc.left.attaches
  BY DEF Init
<1>2. AttachmentsHaveVPC
  BY <1>1 DEF GoodCall, IsLeft, AttachmentsHaveVPC
<1>3. \A s \in ServerIDs : srv[s] = "todo"
  BY DEF Init
<1> QED
  BY <1>1, <1>2, <1>3 DEF Stored, Configured

\* Every step keeps what the API server is known to hold.
LEMMA StoredStep == GoodCall /\ TypeOK /\ Planning /\ Stored /\ [Next]_vars => Stored'
<1> SUFFICES ASSUME GoodCall, TypeOK, Planning, Stored, [Next]_vars PROVE Stored'
  OBVIOUS
<1>s. sc' = sc /\ Opts' = Opts
  BY GoodCallStep DEF Opts
<1>f. Failed \in {"failed", "pfailed"}
  BY DEF Failed
<1>e. ASSUME pc' \in {"failed", "pfailed", "start"}, AttachmentsHaveVPC' PROVE Stored'
  BY <1>e DEF Stored
<1>k. ASSUME UNCHANGED <<vpcs, attaches>>,
             \/ pc' \in {"failed", "pfailed", "start", "peerings", "plan", "detach", "parse", "unpeer", "enforce", "pready", "pdone"}
             \/ UNCHANGED plan /\ (pc' = pc \/ (pc = "settle" /\ pc' = "create") \/ (pc = "ready" /\ pc' = "servers") \/ (pc = "servers" /\ pc' = "done"))
      PROVE  Stored'
  <2>1. AttachmentsHaveVPC'
    BY <1>k DEF Stored, AttachmentsHaveVPC
  <2>2. CASE pc' \in {"failed", "pfailed", "start", "peerings", "plan", "detach", "parse", "unpeer", "enforce", "pready", "pdone"}
    BY <2>1, <2>2 DEF Stored
  <2>3. CASE UNCHANGED plan /\ (pc' = pc \/ (pc = "settle" /\ pc' = "create") \/ (pc = "ready" /\ pc' = "servers") \/ (pc = "servers" /\ pc' = "done"))
    <3>1. AttachKeys(plan)' = AttachKeys(plan) /\ PlannedVPCs(plan)' = PlannedVPCs(plan)
      BY <2>3
    <3> QED
      BY <1>k, <1>s, <2>1, <2>3, <3>1 DEF Stored
  <2> QED
    BY <1>k, <2>2, <2>3
<1>1. CASE FabReadError \/ FabReady \/ AgentsReady \/ WaitTimeout
  BY <1>f, <1>k, <1>1 DEF FabReadError, FabReady, AgentsReady, WaitTimeout, Fault, Fail, api
<1>2. CASE Start \/ DeletePeerings
  BY <1>f, <1>k, <1>2 DEF Start, DeletePeerings, Goto, Fault, Fail, api
<1>3. CASE PlanNext \/ Planned
  BY <1>f, <1>k, <1>3 DEF PlanNext, Planned, Goto, WaitReadyThen, Fault, Fail, api
<1>4. CASE DeleteAttachments
  <2>1. PICK gone \in SUBSET UnwantedAttachments :
          attaches' = Without(attaches, gone) /\ ((gone = UnwantedAttachments /\ pc' = "delete") \/ pc' \in {"failed", "pfailed"})
    BY <1>f, <1>4 DEF DeleteAttachments, Goto, Fault, Fail
  <2>2. UNCHANGED <<vpcs, plan>>
    BY <1>4 DEF DeleteAttachments
  <2>3. DOMAIN attaches' = DOMAIN attaches \ gone
    BY <2>1 DEF Without
  <2>4. AttachmentsHaveVPC'
    BY <2>2, <2>3 DEF Stored, AttachmentsHaveVPC
  <2>5. CASE gone = UnwantedAttachments /\ pc' = "delete"
    <3>1. DOMAIN attaches' \subseteq AttachKeys(plan) /\ (Opts.force => DOMAIN attaches' = {})
      BY <2>3, <2>5 DEF UnwantedAttachments, Unwanted
    <3> QED
      BY <1>s, <2>2, <2>4, <2>5, <3>1 DEF Stored
  <2> QED
    BY <1>e, <2>1, <2>4, <2>5
<1>5. CASE DeleteVPCs
  <2> DEFINE victims == Unwanted(vpcs, PlannedVPCs(plan))
  <2>1. PICK gone \in SUBSET victims :
          vpcs' = Without(vpcs, gone) /\ ((gone = victims /\ pc' = "settle") \/ pc' \in {"failed", "pfailed"})
    BY <1>f, <1>5 DEF DeleteVPCs, Goto, Fault, Fail
  <2>2. UNCHANGED <<attaches, plan>> /\ pc = "delete"
    BY <1>5 DEF DeleteVPCs, At
  <2>3. DOMAIN vpcs' = DOMAIN vpcs \ gone
    BY <2>1 DEF Without
  <2>4. DOMAIN attaches \subseteq AttachKeys(plan) /\ (Opts.force => DOMAIN attaches = {})
    BY <2>2 DEF Stored
  <2>5. AttachmentsHaveVPC'
    <3>1. \A k \in DOMAIN attaches : k.vpc \in PlannedVPCs(plan) /\ ~Opts.force /\ k.vpc \in DOMAIN vpcs
      BY <2>2, <2>4, PlanFits DEF Stored, AttachmentsHaveVPC
    <3>2. \A k \in DOMAIN attaches : k.vpc \notin gone
      BY <2>1, <3>1 DEF Unwanted
    <3> QED
      BY <2>2, <2>3, <3>1, <3>2 DEF AttachmentsHaveVPC
  <2>6. CASE gone = victims /\ pc' = "settle"
    <3>1. DOMAIN vpcs' \subseteq PlannedVPCs(plan)
      BY <2>3, <2>6 DEF Unwanted
    <3> QED
      BY <1>s, <2>2, <2>4, <2>5, <2>6, <3>1 DEF Stored
  <2> QED
    BY <1>e, <2>1, <2>5, <2>6
<1>6. CASE Settle \/ AwaitFabric
  BY <1>k, <1>6 DEF Settle, AwaitFabric, At, Goto, WaitReadyThen, api
<1>7. CASE CreateOrUpdateVPCs
  <2>1. PICK made \in SUBSET PlannedVPCs(plan) :
          vpcs' = CreateOrUpdate(vpcs, made) /\ ((made = PlannedVPCs(plan) /\ pc' = "attach") \/ pc' \in {"failed", "pfailed"})
    BY <1>f, <1>7 DEF CreateOrUpdateVPCs, Goto, Fault, Fail
  <2>2. UNCHANGED <<attaches, plan>> /\ pc = "create"
    BY <1>7 DEF CreateOrUpdateVPCs, At
  <2>3. AttachmentsHaveVPC'
    BY <2>1, <2>2 DEF Stored, AttachmentsHaveVPC, CreateOrUpdate
  <2>4. CASE made = PlannedVPCs(plan) /\ pc' = "attach"
    <3>1. DOMAIN vpcs \cup made = made
      BY <2>2, <2>4 DEF Stored
    <3>2. vpcs' = SameAs(PlannedVPCs(plan))
      BY <2>1, <2>4, <3>1 DEF CreateOrUpdate, SameAs
    <3> QED
      BY <1>s, <2>2, <2>3, <2>4, <3>2 DEF Stored, SameAs
  <2> QED
    BY <1>e, <2>1, <2>3, <2>4
<1>8. CASE CreateOrUpdateAttachments
  <2>1. PICK made \in SUBSET AttachKeys(plan) :
          attaches' = CreateOrUpdate(attaches, made) /\ ((made = AttachKeys(plan) /\ pc' = "ready") \/ pc' \in {"failed", "pfailed"})
    BY <1>f, <1>8 DEF CreateOrUpdateAttachments, Goto, Fault, Fail
  <2>2. UNCHANGED <<vpcs, plan>> /\ pc = "attach"
    BY <1>8 DEF CreateOrUpdateAttachments, At
  <2>3. vpcs = SameAs(PlannedVPCs(plan)) /\ DOMAIN vpcs = PlannedVPCs(plan) /\ DOMAIN attaches \subseteq AttachKeys(plan)
    BY <2>2 DEF Stored, SameAs
  <2>4. DOMAIN attaches' = DOMAIN attaches \cup made
    BY <2>1 DEF CreateOrUpdate
  <2>5. AttachmentsHaveVPC'
    BY <2>2, <2>3, <2>4, PlanFits DEF AttachmentsHaveVPC
  <2>6. CASE made = AttachKeys(plan) /\ pc' = "ready"
    <3>1. DOMAIN attaches \cup made = made
      BY <2>3, <2>6
    <3>2. attaches' = SameAs(AttachKeys(plan))
      BY <2>1, <2>6, <3>1 DEF CreateOrUpdate, SameAs
    <3> QED
      BY <1>s, <2>2, <2>3, <2>5, <2>6, <3>2 DEF Stored, SameAs
  <2> QED
    BY <1>e, <2>1, <2>5, <2>6
<1>9. CASE \E s \in ServerIDs : CleanServer(s) \/ ConfigureServer(s)
  BY <1>k, <1>9 DEF CleanServer, ConfigureServer, api
<1>10. CASE JoinServers
  BY <1>f, <1>k, <1>10 DEF JoinServers, At, Goto, Fault, Fail, api
<1>11. CASE Retry
  BY <1>k, <1>11 DEF Retry, Goto, api
<1>12. CASE StartPeerings \/ ParseRequests
  BY <1>f, <1>k, <1>12 DEF StartPeerings, ParseRequests, Goto, WaitReadyThen, Fail, api
<1>13. CASE Unpeer \/ Enforce
  BY <1>f, <1>k, <1>13 DEF Unpeer, Enforce, Goto, Fault, Fail
<1>14. CASE AwaitPeerings
  BY <1>k, <1>14 DEF AwaitPeerings, Goto, WaitReadyThen, api
<1>15. CASE Reflect \/ (\E c \in Agents : Apply(c)) \/ Expire \/ Rest \/ UNCHANGED vars
  BY <1>k, <1>15 DEF Reflect, Apply, Expire, Rest, vars, api
<1> QED
  BY <1>1, <1>2, <1>3, <1>4, <1>5, <1>6, <1>7, <1>8, <1>9, <1>10, <1>11, <1>12, <1>13, <1>14, <1>15 DEF Next, Program

\* Every step keeps what the servers are known to be configured with.
LEMMA ConfiguredStep == GoodCall /\ TypeOK /\ Planning /\ Configured /\ [Next]_vars => Configured'
<1> SUFFICES ASSUME GoodCall, TypeOK, Planning, Configured, [Next]_vars PROVE Configured'
  OBVIOUS
<1>s. ServerIDs' = ServerIDs
  BY GoodCallStep DEF ServerIDs
<1>f. Failed \in {"failed", "pfailed"}
  BY DEF Failed
<1>t. srv \in [ServerIDs -> {"todo", "clean", "ok", "failed"}] /\ conf \in [ServerIDs -> {"none", "old", "new"}]
  BY DEF TypeOK
<1>k. ASSUME UNCHANGED <<srv, conf>>, pc' # "done" \/ (UNCHANGED plan /\ pc' = pc) PROVE Configured'
  <2>1. \A s \in ServerIDs' : srv'[s] = "ok" => conf'[s] = "new"
    BY <1>k, <1>s DEF Configured
  <2>2. pc' = "done" => \A s \in PlannedServers(plan') : srv'[s] = "ok"
    BY <1>k DEF Configured
  <2> QED
    BY <2>1, <2>2 DEF Configured
<1>1. CASE FabReadError \/ FabReady \/ AgentsReady \/ WaitTimeout
  BY <1>f, <1>k, <1>1 DEF FabReadError, FabReady, AgentsReady, WaitTimeout, Fault, Fail, servers
<1>2. CASE Start \/ DeletePeerings
  BY <1>f, <1>k, <1>2 DEF Start, DeletePeerings, Goto, Fault, Fail, servers
<1>3. CASE PlanNext \/ Planned
  BY <1>f, <1>k, <1>3 DEF PlanNext, Planned, Goto, WaitReadyThen, Fault, Fail, servers
<1>4. CASE DeleteAttachments \/ DeleteVPCs
  BY <1>f, <1>k, <1>4 DEF DeleteAttachments, DeleteVPCs, Goto, Fault, Fail, servers
<1>5. CASE Settle \/ AwaitFabric
  BY <1>k, <1>5 DEF Settle, AwaitFabric, Goto, WaitReadyThen, servers
<1>6. CASE CreateOrUpdateVPCs \/ CreateOrUpdateAttachments
  BY <1>f, <1>k, <1>6 DEF CreateOrUpdateVPCs, CreateOrUpdateAttachments, Goto, Fault, Fail, servers
<1>7. ASSUME NEW s \in ServerIDs, CleanServer(s) PROVE Configured'
  <2>1. pc' = "servers" /\ (srv' = [srv EXCEPT ![s] = "clean"] \/ srv' = [srv EXCEPT ![s] = "failed"]) /\ conf' \in {conf, [conf EXCEPT ![s] = "none"]}
    BY <1>7 DEF CleanServer, At
  <2>2. \A x \in ServerIDs : srv'[x] = "ok" => conf'[x] = "new"
    BY <1>t, <2>1 DEF Configured
  <2> QED
    BY <1>s, <2>1, <2>2 DEF Configured
<1>8. ASSUME NEW s \in ServerIDs, ConfigureServer(s) PROVE Configured'
  <2>1. /\ pc' = "servers"
        /\ \/ conf' = [conf EXCEPT ![s] = "new"] /\ srv' \in {[srv EXCEPT ![s] = "ok"], [srv EXCEPT ![s] = "failed"]}
           \/ srv' = [srv EXCEPT ![s] = "failed"] /\ conf' \in {conf, [conf EXCEPT ![s] = "new"]}
    BY <1>8 DEF ConfigureServer, At
  <2>2. \A x \in ServerIDs : srv'[x] = "ok" => conf'[x] = "new"
    BY <1>t, <2>1 DEF Configured
  <2> QED
    BY <1>s, <2>1, <2>2 DEF Configured
<1>9. CASE JoinServers
  <2>1. UNCHANGED <<srv, conf, plan>> /\ pc = "servers"
    BY <1>9 DEF JoinServers, At, servers
  <2>2. pc' = "done" => \A s \in PlannedServers(plan) : srv[s] = "ok"
    BY <1>f, <1>9 DEF JoinServers, Fail, Fault
  <2> QED
    BY <1>s, <2>1, <2>2 DEF Configured
<1>10. CASE Retry
  <2>1. pc' = "start" /\ srv' = [s \in ServerIDs |-> "todo"]
    BY <1>10 DEF Retry, Goto
  <2> QED
    BY <1>s, <2>1 DEF Configured
<1>11. CASE StartPeerings \/ ParseRequests
  BY <1>f, <1>k, <1>11 DEF StartPeerings, ParseRequests, Goto, WaitReadyThen, Fail, servers
<1>12. CASE Unpeer \/ Enforce
  BY <1>f, <1>k, <1>12 DEF Unpeer, Enforce, Goto, Fault, Fail, servers
<1>13. CASE AwaitPeerings
  BY <1>k, <1>13 DEF AwaitPeerings, Goto, WaitReadyThen, servers
<1>14. CASE Reflect \/ (\E c \in Agents : Apply(c)) \/ Expire \/ Rest \/ UNCHANGED vars
  BY <1>k, <1>14 DEF Reflect, Apply, Expire, Rest, vars, servers
<1> QED
  BY <1>1, <1>2, <1>3, <1>4, <1>5, <1>6, <1>7, <1>8, <1>9, <1>10, <1>11, <1>12, <1>13, <1>14 DEF Next, Program

-----------------------------------------------------------------------------
(***************************************************************************)
(* Theorems                                                                *)
(***************************************************************************)

\* However the loop of SetupVPCs rolls from subnet to subnet, it never puts host-BGP
\* servers and others together, for any servers, options and namespaces.
THEOREM PlanIsUniform == Spec => []SubnetsUniform
  BY Uniform, PlanningKnown, PTL

\* Every server the loop does not pass over gets exactly one subnet, by all of its
\* links, and one command, and no subnet or VPC holds more than was asked for.
THEOREM PlanServesAll == Spec => []EveryServerServed
  BY OneHome, PlanningKnown, PTL

\* No two servers get the same VIP or an overlapping /31, and each fixed address is in
\* its subnet's prefix, if the namespaces repeat no prefix and no VLAN and no more than
\* 128 servers are asked for in a subnet (the /31s of more do not fit into a /24).
THEOREM PlanAddresses ==
  ASSUME \A s \in Scenarios : Distinct(s.vlans) /\ Distinct(s.prefixes) /\ s.opts.perSubnet <= 128
  PROVE  Spec => []AddressesDistinct
<1>1. Init => GoodCall /\ TypeOK /\ Planning /\ Roomy /\ Separate
  <2> SUFFICES ASSUME Init PROVE Roomy
    BY GoodCallInit, TypeInit, PlanningInit, SeparateInit
  <2>1. PICK s \in Scenarios : \E r \in ServerSeqs(s.servers) : sc = [s EXCEPT !.servers = r]
    BY DEF Init
  <2>2. IsScenario(s)
    BY SetupAssumption
  <2>3. sc.vlans = s.vlans /\ sc.prefixes = s.prefixes /\ sc.opts = s.opts
    BY <2>1, <2>2 DEF IsScenario
  <2> QED
    BY <2>3 DEF Roomy, Opts
<1>2. GoodCall /\ TypeOK /\ Planning /\ Roomy /\ Separate /\ [Next]_vars => (GoodCall /\ TypeOK /\ Planning /\ Roomy /\ Separate)'
  <2>1. GoodCall /\ Roomy /\ [Next]_vars => Roomy'
    BY GoodCallStep DEF Roomy, Opts, Distinct
  <2> QED
    BY <2>1, GoodCallStep, TypeStep, PlanningStep, SeparateStep
<1> QED
  BY <1>1, <1>2, DistinctAddresses, PTL DEF Spec

\* The order of SetupVPCs' deletions and creations is right for every plan and every
\* leftover: at no time does an attachment refer to a VPC that is not there.
THEOREM NoDanglingAttachment == Spec => []AttachmentsHaveVPC
<1>1. Init => GoodCall /\ TypeOK /\ Planning /\ Stored
  BY GoodCallInit, TypeInit, PlanningInit, StoredInit
<1>2. GoodCall /\ TypeOK /\ Planning /\ Stored /\ [Next]_vars => (GoodCall /\ TypeOK /\ Planning /\ Stored)'
  BY GoodCallStep, TypeStep, PlanningStep, StoredStep
<1>3. Stored => AttachmentsHaveVPC
  BY DEF Stored
<1> QED
  BY <1>1, <1>2, <1>3, PTL DEF Spec

\* A SetupVPCs that returns without an error has left exactly its plan in the API and
\* on the servers, whatever was there before and however many attempts it took.
THEOREM SuccessIsPlanned == Spec => []SuccessMeansPlanned
<1> DEFINE Inv == GoodCall /\ TypeOK /\ Fabric /\ Planning /\ Stored /\ Configured
<1>1. Init => Inv
  BY GoodCallInit, TypeInit, FabricInit, PlanningInit, StoredInit
<1>2. Inv /\ [Next]_vars => Inv'
  BY GoodCallStep, TypeStep, FabricStep, PlanningStep, StoredStep, ConfiguredStep
<1>3. Inv => SuccessMeansPlanned
  <2> SUFFICES ASSUME Inv, pc = "done" PROVE SuccessMeansPlanned
    BY DEF SuccessMeansPlanned
  <2>1. vpcs = SameAs(PlannedVPCs(plan)) /\ attaches = SameAs(AttachKeys(plan))
    BY DEF Stored
  <2>2. PlannedServers(plan) \subseteq ServerIDs
    BY PlanFits
  <2>3. \A s \in PlannedServers(plan) : conf[s] = "new"
    BY <2>2 DEF Configured
  <2>4. ~Opts.keepPeerings => \A p \in peerings : ~sc.gw /\ p.kind = "gw"
    BY DEF Fabric, Peered, Stripped
  <2> QED
    BY <2>1, <2>3, <2>4 DEF SuccessMeansPlanned
<1> HIDE DEF Inv
<1> QED
  BY <1>1, <1>2, <1>3, PTL DEF Spec

-----------------------------------------------------------------------------
\* Natural numbers have a least one.
LEMMA Least == ASSUME NEW T \in SUBSET Nat, T # {} PROVE \E x \in T : \A y \in T : x <= y
<1> DEFINE R == OpToRel(<, Nat)
<1>1. IsWellFoundedOn(R, Nat)
  BY NatLessThanWellFounded
<1>2. \A x, y \in Nat : y < x => <<y, x>> \in R
  BY DEF OpToRel
<1> HIDE DEF R
<1>3. PICK x \in T : \A y \in T : ~(<<y, x>> \in R)
  BY <1>1, WFMin
<1>4. \A y \in T : ~(y < x)
  BY <1>2, <1>3
<1> QED
  BY <1>4

\* The configurations after each of the options are what the loop makes of them.
LEMMA Parsed ==
  ASSUME NEW opts, NEW external, Len(opts) \in Nat
  PROVE  LET g == ParsedUpTo(opts, external) IN
         g = [n \in 0..Len(opts) |-> IF n = 0 THEN NoOptions ELSE ParseOption(g[n - 1], opts[n], external)]
<1> DEFINE Upto(g, m) == g = [n \in 0..m |-> IF n = 0 THEN NoOptions ELSE ParseOption(g[n - 1], opts[n], external)]
           Bad == {m \in Nat : ~\E g : Upto(g, m)}
<1>1. Bad = {}
  <2> SUFFICES ASSUME Bad # {} PROVE FALSE
    OBVIOUS
  <2>1. PICK m \in Bad : \A k \in Bad : m <= k
    BY Least
  <2>2. CASE m = 0
    <3>1. [n \in 0..0 |-> NoOptions] = [n \in 0..0 |-> IF n = 0 THEN NoOptions ELSE ParseOption([k \in 0..0 |-> NoOptions][n - 1], opts[n], external)]
      BY \A n \in 0..0 : n = 0
    <3>2. Upto([n \in 0..0 |-> NoOptions], 0)
      BY <3>1
    <3> QED
      BY <2>1, <2>2, <3>2
  <2>3. CASE m # 0
    <3>1. m \in Nat /\ m - 1 \in Nat /\ m - 1 \notin Bad
      BY <2>1, <2>3, SMTT(40)
    <3>2. PICK g : Upto(g, m - 1)
      BY <3>1
    <3> DEFINE h == [n \in 0..m |-> IF n = m THEN ParseOption(g[m - 1], opts[m], external) ELSE g[n]]
    <3>3. \A n \in 0..m : h[n] = IF n = 0 THEN NoOptions ELSE ParseOption(h[n - 1], opts[n], external)
      <4> SUFFICES ASSUME NEW n \in 0..m PROVE h[n] = IF n = 0 THEN NoOptions ELSE ParseOption(h[n - 1], opts[n], external)
        OBVIOUS
      <4>1. \A k \in 0..(m - 1) : g[k] = IF k = 0 THEN NoOptions ELSE ParseOption(g[k - 1], opts[k], external)
        BY <3>2
      <4>2. n # 0 => n - 1 \in 0..m /\ n - 1 # m /\ h[n - 1] = g[n - 1]
        BY <3>1
      <4>3. CASE n = m
        BY <4>2, <4>3, <2>3
      <4>4. CASE n # m
        <5>1. n \in 0..(m - 1) /\ h[n] = g[n]
          BY <3>1, <4>4
        <5> QED
          BY <4>1, <4>2, <5>1
      <4> QED
        BY <4>3, <4>4
    <3>4. h = [n \in 0..m |-> h[n]]
      OBVIOUS
    <3> HIDE DEF h
    <3>5. Upto(h, m)
      BY <3>3, <3>4
    <3> QED
      BY <2>1, <3>5
  <2> QED
    BY <2>2, <2>3
<1>2. \E g : Upto(g, Len(opts))
  BY <1>1
<1> HIDE DEF Bad
<1> QED
  BY <1>2 DEF ParsedUpTo
\* An option is for one side and one purpose.
LEMMA KeysDiffer ==
  /\ \A w, x \in {"sub", "as", "nat", "pf"} : \A s, t \in Sides : SideKeys(w)[s] = SideKeys(x)[t] => w = x /\ s = t
  /\ \A w \in {"sub", "as", "nat", "pf"} : \A s \in Sides : SideKeys(w)[s] # "gw"
<1>1. \A s \in Sides : s = 1 \/ s = 2
  BY DEF Sides
<1>2. /\ SideKeys("sub")[1] = "sub1" /\ SideKeys("sub")[2] = "sub2" /\ SideKeys("as")[1] = "as1" /\ SideKeys("as")[2] = "as2"
      /\ SideKeys("nat")[1] = "nat1" /\ SideKeys("nat")[2] = "nat2" /\ SideKeys("pf")[1] = "pf1" /\ SideKeys("pf")[2] = "pf2"
  BY DEF SideKeys
<1> QED
  BY <1>1, <1>2

\* Types of NAT, the NAT options of one side, and what is kept of all the options.
NATTypes == {"static", "masquerade", "port-forward"}
NATs == [as : Seq(STRING), nat : NATTypes \cup {""}, pf : Seq(STRING)]

\* A type of NAT is one of the three or invalid.
LEMMA NatTypes == \A val : parseNatType(val) \in NATTypes \cup {"invalid"}
<1> SUFFICES ASSUME NEW val, val # <<>> /\ val[1] \in DOMAIN NATNames PROVE NATNames[val[1]] \in NATTypes
  BY DEF parseNatType
<1> QED
  BY DEF NATNames, NATTypes

IsCfg(cfg) ==
    /\ DOMAIN cfg = {"err", "gw", "sub", "nat"} /\ cfg.err \in BOOLEAN /\ cfg.gw \in BOOLEAN
    /\ cfg.nat \in [Sides -> NATs]
    /\ DOMAIN cfg.sub = Sides

\* What an option that is not refused does to the configuration.
Heeds(cfg, o, new) ==
    \/ o.key = "gw" /\ new.gw = TRUE /\ new.nat = cfg.nat
    \/ \E s \in Sides : /\ o.key = SideKeys("sub")[s]
                        /\ new.gw = cfg.gw /\ new.nat = cfg.nat
    \/ \E s \in Sides : /\ o.key = SideKeys("as")[s] /\ o.val # <<>>
                        /\ new.gw = cfg.gw /\ new.nat = [cfg.nat EXCEPT ![s] = [@ EXCEPT !.as = o.val]]
    \/ \E s \in Sides : /\ o.key = SideKeys("nat")[s] /\ parseNatType(o.val) # "invalid"
                        /\ cfg.nat[s].nat \in {"", parseNatType(o.val)}
                        /\ new.gw = cfg.gw /\ new.nat = [cfg.nat EXCEPT ![s] = [@ EXCEPT !.nat = parseNatType(o.val)]]
    \/ \E s \in Sides : /\ o.key = SideKeys("pf")[s] /\ o.val # <<>>
                        /\ new.gw = cfg.gw /\ new.nat = [cfg.nat EXCEPT ![s] = [@ EXCEPT !.pf = o.val]]

\* What an option does if it is for the names, the prefixes, the NAT type or the rules.
SubTaken(cfg, o, s, ext) ==
    IF o.val # <<>> THEN [cfg EXCEPT !.sub[s] = ToSet(o.val)]
    ELSE IF ext THEN Refuse(cfg) ELSE [cfg EXCEPT !.sub[s] = {""}]
AsTaken(cfg, o, s) ==
    IF o.val = <<>> \/ cfg.nat[s].as # <<>> THEN Refuse(cfg) ELSE [cfg EXCEPT !.nat[s].as = o.val]
NatTaken(cfg, n, s) ==
    IF n = "invalid" \/ cfg.nat[s].nat \notin {"", n} THEN Refuse(cfg) ELSE [cfg EXCEPT !.nat[s].nat = n]
PfTaken(cfg, o, s) ==
    IF o.val = <<>> \/ cfg.nat[s].pf # <<>> THEN Refuse(cfg) ELSE [cfg EXCEPT !.nat[s].pf = o.val]

\* What each option for a side does: no two of the cases overlap.
LEMMA SideCases ==
  \A cfg, o, ext : \A s \in Sides :
     /\ o.key = SideKeys("sub")[s] => ParseSide(cfg, o, s, ext) = SubTaken(cfg, o, s, ext)
     /\ o.key = SideKeys("as")[s] => ParseSide(cfg, o, s, ext) = AsTaken(cfg, o, s)
     /\ o.key = SideKeys("nat")[s] => ParseSide(cfg, o, s, ext) = NatTaken(cfg, parseNatType(o.val), s)
     /\ o.key = SideKeys("pf")[s] => ParseSide(cfg, o, s, ext) = PfTaken(cfg, o, s)
<1> TAKE cfg, o, ext
<1> TAKE s \in Sides
<1> DEFINE a == SideKeys("sub")[s]
           b == SideKeys("as")[s]
           c == SideKeys("nat")[s]
           d == SideKeys("pf")[s]
<1>1. a # b /\ a # c /\ a # d /\ b # c /\ b # d /\ c # d
  BY KeysDiffer
<1> HIDE DEF a, b, c, d
<1>2. ParseSide(cfg, o, s, ext) =
        CASE o.key = a -> SubTaken(cfg, o, s, ext) [] o.key = b -> AsTaken(cfg, o, s)
          [] o.key = c -> NatTaken(cfg, parseNatType(o.val), s) [] o.key = d -> PfTaken(cfg, o, s)
  BY Zenon DEF ParseSide, a, b, c, d, SubTaken, AsTaken, NatTaken, PfTaken
<1> QED
  BY Zenon, <1>1, <1>2 DEF a, b, c, d

\* One with other NAT options.
Alters(cfg, new, nat) == IsCfg(new) /\ new.err = cfg.err /\ new.gw = cfg.gw /\ new.nat = nat

\* Replacing one entry of one side keeps the configuration one.
LEMMA SideSet ==
  \A cfg : IsCfg(cfg) => \A s \in Sides : \A v :
     /\ Alters(cfg, [cfg EXCEPT !.sub[s] = v], cfg.nat)
     /\ v \in Seq(STRING) => Alters(cfg, [cfg EXCEPT !.nat[s].as = v], [cfg.nat EXCEPT ![s] = [@ EXCEPT !.as = v]])
     /\ v \in NATTypes => Alters(cfg, [cfg EXCEPT !.nat[s].nat = v], [cfg.nat EXCEPT ![s] = [@ EXCEPT !.nat = v]])
     /\ v \in Seq(STRING) => Alters(cfg, [cfg EXCEPT !.nat[s].pf = v], [cfg.nat EXCEPT ![s] = [@ EXCEPT !.pf = v]])
<1> TAKE cfg
<1> HAVE IsCfg(cfg)
<1> TAKE s \in Sides
<1> TAKE v
<1>1. cfg.nat[s] \in NATs
  BY DEF IsCfg
<1>2. Alters(cfg, [cfg EXCEPT !.sub[s] = v], cfg.nat)
  BY DEF IsCfg, Alters
<1>3. ASSUME NEW n \in NATs
      PROVE  Alters(cfg, [cfg EXCEPT !.nat = [@ EXCEPT ![s] = n]], [cfg.nat EXCEPT ![s] = n])
  BY <1>3 DEF IsCfg, Alters
<1>4. ASSUME v \in Seq(STRING) PROVE [cfg.nat[s] EXCEPT !.as = v] \in NATs /\ [cfg.nat[s] EXCEPT !.pf = v] \in NATs
  BY <1>1, <1>4 DEF NATs
<1>5. ASSUME v \in NATTypes PROVE [cfg.nat[s] EXCEPT !.nat = v] \in NATs
  BY <1>1, <1>5 DEF NATs
<1>6. v \in Seq(STRING) => Alters(cfg, [cfg EXCEPT !.nat[s].as = v], [cfg.nat EXCEPT ![s] = [@ EXCEPT !.as = v]])
  BY <1>3, <1>4
<1>7. v \in NATTypes => Alters(cfg, [cfg EXCEPT !.nat[s].nat = v], [cfg.nat EXCEPT ![s] = [@ EXCEPT !.nat = v]])
  BY <1>3, <1>5
<1>8. v \in Seq(STRING) => Alters(cfg, [cfg EXCEPT !.nat[s].pf = v], [cfg.nat EXCEPT ![s] = [@ EXCEPT !.pf = v]])
  BY <1>3, <1>4
<1> QED
  BY <1>2, <1>6, <1>7, <1>8

OptionsOf == [key : STRING, val : Seq(STRING)]

\* An option leaves a configuration, and if it is not refused it takes effect.
LEMMA OptionTaken ==
  ASSUME NEW cfg, IsCfg(cfg), NEW o \in OptionsOf, NEW ext \in BOOLEAN
  PROVE  /\ IsCfg(ParseOption(cfg, o, ext))
         /\ ~ParseOption(cfg, o, ext).err => ~cfg.err /\ Heeds(cfg, o, ParseOption(cfg, o, ext))
<1> DEFINE new == ParseOption(cfg, o, ext)
           Good(c) == IsCfg(c) /\ (~c.err => ~cfg.err /\ Heeds(cfg, o, c))
<1>0. o.val \in Seq(STRING) /\ parseNatType(o.val) \in NATTypes \cup {"invalid"}
  BY NatTypes DEF OptionsOf
<1>1. Good(Refuse(cfg))
  BY DEF Refuse, IsCfg
<1>2. CASE cfg.err
  BY <1>2 DEF ParseOption
<1>3. CASE ~cfg.err /\ o.key = "gw"
  <2>1. new = [cfg EXCEPT !.gw = TRUE]
    BY <1>3 DEF ParseOption
  <2>2. IsCfg(new) /\ new.gw = TRUE /\ new.nat = cfg.nat
    BY <2>1 DEF IsCfg
  <2> QED
    BY <1>3, <2>2 DEF Heeds
<1>4. ASSUME ~cfg.err, NEW s \in Sides, ForSide(o, s) PROVE Good(ParseSide(cfg, o, s, ext))
  <2> DEFINE side == ParseSide(cfg, o, s, ext)
             n == parseNatType(o.val)
  <2> SUFFICES Good(side)
    OBVIOUS
  <2>1. CASE o.key = SideKeys("sub")[s]
    <3>1. side = SubTaken(cfg, o, s, ext)
      BY Zenon, <2>1, SideCases
    <3>2. \/ side = Refuse(cfg)
          \/ \E v : side = [cfg EXCEPT !.sub[s] = v]
      BY <3>1 DEF SubTaken
    <3>3. ASSUME NEW v, side = [cfg EXCEPT !.sub[s] = v] PROVE Good(side)
      <4>1. Alters(cfg, [cfg EXCEPT !.sub[s] = v], cfg.nat)
        BY SideSet
      <4>2. Alters(cfg, side, cfg.nat)
        BY Zenon, <3>3, <4>1
      <4> HIDE DEF side
      <4> QED
        BY <1>4, <2>1, <4>2 DEF Alters, Heeds
    <3> HIDE DEF side, Good
    <3> QED
      BY Zenon, <1>1, <3>2, <3>3
  <2>2. CASE o.key = SideKeys("as")[s]
    <3>1. side = AsTaken(cfg, o, s)
      BY Zenon, <2>2, SideCases
    <3>2. \/ side = Refuse(cfg)
          \/ o.val # <<>> /\ side = [cfg EXCEPT !.nat[s].as = o.val]
      BY <3>1 DEF AsTaken
    <3>3. ASSUME o.val # <<>>, side = [cfg EXCEPT !.nat[s].as = o.val] PROVE Good(side)
      <4>1. Alters(cfg, [cfg EXCEPT !.nat[s].as = o.val], [cfg.nat EXCEPT ![s] = [@ EXCEPT !.as = o.val]])
        BY <1>0, <3>3, SideSet
      <4>2. Alters(cfg, side, [cfg.nat EXCEPT ![s] = [@ EXCEPT !.as = o.val]])
        BY Zenon, <3>3, <4>1
      <4> HIDE DEF side
      <4> QED
        BY <1>4, <2>2, <3>3, <4>2 DEF Alters, Heeds
    <3> HIDE DEF side, Good
    <3> QED
      BY Zenon, <1>1, <3>2, <3>3
  <2>3. CASE o.key = SideKeys("nat")[s]
    <3>1. side = NatTaken(cfg, n, s)
      BY Zenon, <2>3, SideCases
    <3>2. \/ side = Refuse(cfg)
          \/ n # "invalid" /\ cfg.nat[s].nat \in {"", n} /\ side = [cfg EXCEPT !.nat[s].nat = n]
      BY <3>1 DEF NatTaken
    <3>3. ASSUME n # "invalid", cfg.nat[s].nat \in {"", n}, side = [cfg EXCEPT !.nat[s].nat = n] PROVE Good(side)
      <4>1. Alters(cfg, [cfg EXCEPT !.nat[s].nat = n], [cfg.nat EXCEPT ![s] = [@ EXCEPT !.nat = n]])
        BY <1>0, <3>3, SideSet
      <4>2. Alters(cfg, side, [cfg.nat EXCEPT ![s] = [@ EXCEPT !.nat = n]])
        BY Zenon, <3>3, <4>1
      <4> HIDE DEF side
      <4> QED
        BY <1>4, <2>3, <3>3, <4>2 DEF Alters, Heeds
    <3> HIDE DEF side, Good
    <3> QED
      BY Zenon, <1>1, <3>2, <3>3
  <2>4. CASE o.key = SideKeys("pf")[s]
    <3>1. side = PfTaken(cfg, o, s)
      BY Zenon, <2>4, SideCases
    <3>2. \/ side = Refuse(cfg)
          \/ o.val # <<>> /\ side = [cfg EXCEPT !.nat[s].pf = o.val]
      BY <3>1 DEF PfTaken
    <3>3. ASSUME o.val # <<>>, side = [cfg EXCEPT !.nat[s].pf = o.val] PROVE Good(side)
      <4>1. Alters(cfg, [cfg EXCEPT !.nat[s].pf = o.val], [cfg.nat EXCEPT ![s] = [@ EXCEPT !.pf = o.val]])
        BY <1>0, <3>3, SideSet
      <4>2. Alters(cfg, side, [cfg.nat EXCEPT ![s] = [@ EXCEPT !.pf = o.val]])
        BY Zenon, <3>3, <4>1
      <4> HIDE DEF side
      <4> QED
        BY <1>4, <2>4, <3>3, <4>2 DEF Alters, Heeds
    <3> HIDE DEF side, Good
    <3> QED
      BY Zenon, <1>1, <3>2, <3>3
  <2> HIDE DEF side, Good
  <2> QED
    BY <1>4, <2>1, <2>2, <2>3, <2>4 DEF ForSide
<1>5. CASE ~cfg.err /\ o.key # "gw"
  <2>1. \/ \E s \in Sides : ForSide(o, s) /\ new = ParseSide(cfg, o, s, ext)
        \/ new = Refuse(cfg)
    BY <1>5 DEF ParseOption, Sides
  <2> HIDE DEF Good, new
  <2>2. Good(new)
    BY <1>1, <1>4, <1>5, <2>1
  <2> QED
    BY <2>2 DEF Good, new
<1> QED
  BY <1>2, <1>3, <1>5

\* One of the first n options has the key.
Seen(opts, n, key) == \E i \in 1..n : opts[i].key = key
\* What the configuration tells of the first n options, if none was refused.
Recorded(opts, n, cfg) ==
    ~cfg.err =>
        /\ cfg.gw <=> Seen(opts, n, "gw")
        /\ \A s \in Sides :
              /\ cfg.nat[s].as # <<>> <=> Seen(opts, n, SideKeys("as")[s])
              /\ cfg.nat[s].pf # <<>> <=> Seen(opts, n, SideKeys("pf")[s])
              /\ cfg.nat[s].nat # "" <=> Seen(opts, n, SideKeys("nat")[s])
              /\ \A i \in 1..n : opts[i].key = SideKeys("nat")[s] => cfg.nat[s].nat = parseNatType(opts[i].val)

\* One more option is one more key seen.
LEMMA SeenNext ==
  ASSUME NEW opts, NEW n \in Nat, NEW key
  PROVE  Seen(opts, n + 1, key) <=> Seen(opts, n, key) \/ opts[n + 1].key = key
<1>1. 1..(n + 1) = 1..n \cup {n + 1}
  OBVIOUS
<1> QED
  BY <1>1 DEF Seen

\* Reading one more option records it and nothing else.
LEMMA RecordedNext ==
  ASSUME NEW opts, NEW n \in Nat, opts[n + 1] \in OptionsOf, NEW ext \in BOOLEAN,
         NEW cfg, IsCfg(cfg), Recorded(opts, n, cfg)
  PROVE  /\ IsCfg(ParseOption(cfg, opts[n + 1], ext))
         /\ Recorded(opts, n + 1, ParseOption(cfg, opts[n + 1], ext))
<1> DEFINE o == opts[n + 1]
           new == ParseOption(cfg, o, ext)
<1>1. IsCfg(new) /\ (~new.err => ~cfg.err /\ Heeds(cfg, o, new))
  BY OptionTaken
<1> SUFFICES ASSUME ~new.err PROVE Recorded(opts, n + 1, new)
  BY <1>1 DEF Recorded
<1>2. ~cfg.err /\ Heeds(cfg, o, new) /\ cfg.gw \in BOOLEAN /\ new.gw \in BOOLEAN
  BY <1>1 DEF IsCfg
<1> HIDE DEF new, o
<1>3. /\ cfg.gw <=> Seen(opts, n, "gw")
      /\ \A s \in Sides : /\ cfg.nat[s] \in NATs
                          /\ cfg.nat[s].as # <<>> <=> Seen(opts, n, SideKeys("as")[s])
                          /\ cfg.nat[s].pf # <<>> <=> Seen(opts, n, SideKeys("pf")[s])
                          /\ cfg.nat[s].nat # "" <=> Seen(opts, n, SideKeys("nat")[s])
                          /\ \A i \in 1..n : opts[i].key = SideKeys("nat")[s] => cfg.nat[s].nat = parseNatType(opts[i].val)
  BY <1>2 DEF Recorded, IsCfg
<1>4. \A key : Seen(opts, n + 1, key) <=> Seen(opts, n, key) \/ o.key = key
  BY SeenNext DEF o
<1>5. new.gw <=> cfg.gw \/ o.key = "gw"
  BY <1>2, KeysDiffer DEF Heeds
<1>6. ASSUME NEW s \in Sides
      PROVE  /\ new.nat[s].as # <<>> <=> cfg.nat[s].as # <<>> \/ o.key = SideKeys("as")[s]
             /\ new.nat[s].pf # <<>> <=> cfg.nat[s].pf # <<>> \/ o.key = SideKeys("pf")[s]
             /\ o.key = SideKeys("nat")[s] => /\ new.nat[s].nat = parseNatType(o.val) /\ new.nat[s].nat \in NATTypes
                                              /\ cfg.nat[s].nat \in {"", new.nat[s].nat}
             /\ o.key # SideKeys("nat")[s] => new.nat[s].nat = cfg.nat[s].nat
  <2> DEFINE Effect ==
             /\ new.nat[s].as # <<>> <=> cfg.nat[s].as # <<>> \/ o.key = SideKeys("as")[s]
             /\ new.nat[s].pf # <<>> <=> cfg.nat[s].pf # <<>> \/ o.key = SideKeys("pf")[s]
             /\ o.key = SideKeys("nat")[s] => /\ new.nat[s].nat = parseNatType(o.val) /\ new.nat[s].nat \in NATTypes
                                              /\ cfg.nat[s].nat \in {"", new.nat[s].nat}
             /\ o.key # SideKeys("nat")[s] => new.nat[s].nat = cfg.nat[s].nat
  <2> SUFFICES Effect
    OBVIOUS
  <2>0. DOMAIN cfg.nat = Sides /\ DOMAIN cfg.nat[s] = {"as", "nat", "pf"} /\ parseNatType(o.val) \in NATTypes \cup {"invalid"}
    BY <1>3, NatTypes DEF IsCfg, NATs
  <2>1. CASE o.key = "gw" \/ \E t \in Sides : o.key = SideKeys("sub")[t]
    <3>1. \A w \in {"as", "nat", "pf"}, t \in Sides : o.key # SideKeys(w)[t]
      BY <2>1, KeysDiffer
    <3>2. new.nat = cfg.nat
      BY <1>2, <3>1 DEF Heeds
    <3> QED
      BY <3>1, <3>2
  <2>2. ASSUME NEW t \in Sides, o.key = SideKeys("as")[t], o.val # <<>>,
               new.nat = [cfg.nat EXCEPT ![t] = [@ EXCEPT !.as = o.val]]
        PROVE  Effect
    <3>0. o.key = SideKeys("as")[t]
      BY <2>2
    <3>1. /\ \A r \in Sides : o.key = SideKeys("as")[r] <=> r = t
          /\ \A w \in {"nat", "pf"}, r \in Sides : o.key # SideKeys(w)[r]
      BY <3>0, KeysDiffer
    <3>2. CASE s = t
      <4>1. new.nat[s] = [cfg.nat[s] EXCEPT !.as = o.val]
        BY <2>0, <2>2, <3>2
      <4>2. new.nat[s].as = o.val /\ new.nat[s].nat = cfg.nat[s].nat /\ new.nat[s].pf = cfg.nat[s].pf
        BY <2>0, <4>1
      <4> QED
        BY <2>0, <2>2, <3>1, <3>2, <4>2
    <3>3. CASE s # t
      <4>1. new.nat[s] = cfg.nat[s]
        BY <2>0, <2>2, <3>3
      <4> QED
        BY <3>1, <3>3, <4>1
    <3> QED
      BY <3>2, <3>3
  <2>3. ASSUME NEW t \in Sides, o.key = SideKeys("nat")[t], parseNatType(o.val) # "invalid", cfg.nat[t].nat \in {"", parseNatType(o.val)},
               new.nat = [cfg.nat EXCEPT ![t] = [@ EXCEPT !.nat = parseNatType(o.val)]]
        PROVE  Effect
    <3>0. o.key = SideKeys("nat")[t]
      BY <2>3
    <3>1. /\ \A r \in Sides : o.key = SideKeys("nat")[r] <=> r = t
          /\ \A w \in {"as", "pf"}, r \in Sides : o.key # SideKeys(w)[r]
      BY <3>0, KeysDiffer
    <3>2. CASE s = t
      <4>1. new.nat[s] = [cfg.nat[s] EXCEPT !.nat = parseNatType(o.val)]
        BY <2>0, <2>3, <3>2
      <4>2. new.nat[s].nat = parseNatType(o.val) /\ new.nat[s].as = cfg.nat[s].as /\ new.nat[s].pf = cfg.nat[s].pf
        BY <2>0, <4>1
      <4> QED
        BY <2>0, <2>3, <3>1, <3>2, <4>2
    <3>3. CASE s # t
      <4>1. new.nat[s] = cfg.nat[s]
        BY <2>0, <2>3, <3>3
      <4> QED
        BY <3>1, <3>3, <4>1
    <3> QED
      BY <3>2, <3>3
  <2>4. ASSUME NEW t \in Sides, o.key = SideKeys("pf")[t], o.val # <<>>,
               new.nat = [cfg.nat EXCEPT ![t] = [@ EXCEPT !.pf = o.val]]
        PROVE  Effect
    <3>0. o.key = SideKeys("pf")[t]
      BY <2>4
    <3>1. /\ \A r \in Sides : o.key = SideKeys("pf")[r] <=> r = t
          /\ \A w \in {"as", "nat"}, r \in Sides : o.key # SideKeys(w)[r]
      BY <3>0, KeysDiffer
    <3>2. CASE s = t
      <4>1. new.nat[s] = [cfg.nat[s] EXCEPT !.pf = o.val]
        BY <2>0, <2>4, <3>2
      <4>2. new.nat[s].pf = o.val /\ new.nat[s].as = cfg.nat[s].as /\ new.nat[s].nat = cfg.nat[s].nat
        BY <2>0, <4>1
      <4> QED
        BY <2>0, <2>4, <3>1, <3>2, <4>2
    <3>3. CASE s # t
      <4>1. new.nat[s] = cfg.nat[s]
        BY <2>0, <2>4, <3>3
      <4> QED
        BY <3>1, <3>3, <4>1
    <3> QED
      BY <3>2, <3>3
  <2> HIDE DEF Effect
  <2>5. \/ o.key = "gw" \/ \E t \in Sides : o.key = SideKeys("sub")[t]
        \/ \E t \in Sides : /\ o.key = SideKeys("as")[t] /\ o.val # <<>>
                            /\ new.nat = [cfg.nat EXCEPT ![t] = [@ EXCEPT !.as = o.val]]
        \/ \E t \in Sides : /\ o.key = SideKeys("nat")[t] /\ parseNatType(o.val) # "invalid"
                            /\ cfg.nat[t].nat \in {"", parseNatType(o.val)}
                            /\ new.nat = [cfg.nat EXCEPT ![t] = [@ EXCEPT !.nat = parseNatType(o.val)]]
        \/ \E t \in Sides : /\ o.key = SideKeys("pf")[t] /\ o.val # <<>>
                            /\ new.nat = [cfg.nat EXCEPT ![t] = [@ EXCEPT !.pf = o.val]]
    BY Zenon, <1>2 DEF Heeds
  <2> QED
    BY Zenon, <2>1, <2>2, <2>3, <2>4, <2>5
<1>7. new.gw <=> Seen(opts, n + 1, "gw")
  BY <1>3, <1>4, <1>5
<1>8. ASSUME NEW s \in Sides
      PROVE  /\ new.nat[s].as # <<>> <=> Seen(opts, n + 1, SideKeys("as")[s])
             /\ new.nat[s].pf # <<>> <=> Seen(opts, n + 1, SideKeys("pf")[s])
  BY <1>3, <1>4, <1>6
<1>9. ASSUME NEW s \in Sides
      PROVE  new.nat[s].nat # "" <=> Seen(opts, n + 1, SideKeys("nat")[s])
  <2>1. \A x \in NATTypes : x # ""
    BY DEF NATTypes
  <2> QED
    BY <1>3, <1>4, <1>6, <2>1
<1>10. ASSUME NEW s \in Sides, NEW i \in 1..(n + 1), opts[i].key = SideKeys("nat")[s]
       PROVE  new.nat[s].nat = parseNatType(opts[i].val)
  <2>1. CASE i = n + 1
    BY <1>6, <1>10, <2>1 DEF o
  <2>2. CASE i # n + 1
    <3>1. i \in 1..n
      BY <2>2
    <3>2. cfg.nat[s].nat = parseNatType(opts[i].val) /\ cfg.nat[s].nat # ""
      BY <1>3, <1>10, <3>1 DEF Seen
    <3> QED
      BY <1>6, <3>2
  <2> QED
    BY <2>1, <2>2
<1> QED
  BY <1>7, <1>8, <1>9, <1>10 DEF Recorded

\* What the configuration after all options tells.
LEMMA OptionsRecorded ==
  ASSUME NEW opts \in Seq(OptionsOf), NEW ext \in BOOLEAN
  PROVE  IsCfg(ParseOptions(opts, ext)) /\ Recorded(opts, Len(opts), ParseOptions(opts, ext))
<1> DEFINE g == ParsedUpTo(opts, ext)
           Bad == {n \in 0..Len(opts) : ~(IsCfg(g[n]) /\ Recorded(opts, n, g[n]))}
<1>1. Len(opts) \in Nat /\ \A n \in 1..Len(opts) : opts[n] \in OptionsOf
  BY LenProperties, ElementOfSeq
<1>2. g = [n \in 0..Len(opts) |-> IF n = 0 THEN NoOptions ELSE ParseOption(g[n - 1], opts[n], ext)]
  BY <1>1, Parsed
<1> HIDE DEF g
<1>3. ASSUME Bad # {} PROVE FALSE
  <2>1. Bad \in SUBSET Nat
    BY <1>1
  <2>2. PICK n \in Bad : \A k \in Bad : n <= k
    BY <1>3, <2>1, Least
  <2>3. CASE n = 0
    <3>1. g[0] = NoOptions
      BY <1>1, <1>2
    <3>2. IsCfg(NoOptions)
      <4>1. NoNAT \in NATs
        BY DEF NoNAT, NATs
      <4>2. <<NoNAT, NoNAT>> \in [Sides -> NATs]
        BY <4>1 DEF Sides
      <4>3. DOMAIN <<{}, {}>> = Sides
        BY DEF Sides
      <4> QED
        BY <4>2, <4>3 DEF NoOptions, IsCfg
    <3>3. Recorded(opts, 0, NoOptions)
      <4>1. \A key : ~Seen(opts, 0, key)
        BY DEF Seen
      <4>2. \A s \in Sides : NoOptions.nat[s] = NoNAT
        BY DEF NoOptions, Sides
      <4>3. ~NoOptions.gw /\ NoNAT.as = <<>> /\ NoNAT.pf = <<>> /\ NoNAT.nat = ""
        BY DEF NoOptions, NoNAT
      <4>4. \A i \in 1..0 : FALSE
        OBVIOUS
      <4> HIDE DEF NoOptions
      <4> QED
        BY <4>1, <4>2, <4>3, <4>4 DEF Recorded
    <3> QED
      BY <2>2, <2>3, <3>1, <3>2, <3>3
  <2>4. CASE n # 0
    <3> DEFINE m == n - 1
    <3>1. n \in 1..Len(opts) /\ m \in Nat /\ m \in 0..Len(opts) /\ m \notin Bad /\ m + 1 = n
      BY <1>1, <2>1, <2>2, <2>4
    <3>2. g[n] = ParseOption(g[m], opts[n], ext)
      BY <1>2, <2>4, <3>1
    <3>3. IsCfg(g[m]) /\ Recorded(opts, m, g[m])
      BY <3>1
    <3> HIDE DEF m
    <3>4. opts[m + 1] \in OptionsOf
      BY <1>1, <3>1
    <3>5. IsCfg(ParseOption(g[m], opts[m + 1], ext)) /\ Recorded(opts, m + 1, ParseOption(g[m], opts[m + 1], ext))
      BY <3>1, <3>3, <3>4, RecordedNext
    <3> QED
      BY <2>2, <3>1, <3>2, <3>5
  <2> QED
    BY <2>3, <2>4
<1>4. Len(opts) \in 0..Len(opts)
  BY <1>1
<1> QED
  BY <1>3, <1>4 DEF ParseOptions, g

\* A sequence that is not empty has a first element, and so has one with its domain.
LEMMA NotEmpty ==
  ASSUME NEW q \in Seq(STRING), NEW f, DOMAIN f = DOMAIN q
  PROVE  q # <<>> => f # <<>>
<1>1. q # <<>> => 1 \in DOMAIN q
  BY EmptySeq, LenProperties
<1>2. DOMAIN <<>> = {}
  OBVIOUS
<1> QED
  BY <1>1, <1>2

\* An expose before NAT is looked at.
Plain(e) == DOMAIN e = {"ips", "default", "as", "nat", "ports"} /\ e.as = <<>> /\ e.nat = "" /\ e.ports = <<>>
\* An expose with what the options of its side say.
Filled(expose, e, n) ==
    /\ expose.ips = e.ips /\ expose.default = e.default
    /\ n.nat # "" \/ n.pf # <<>> => n.as # <<>>
    /\ n.as # <<>> <=> expose.as # <<>>
    /\ n.as # <<>> <=> expose.nat # ""
    /\ n.as # <<>> /\ n.nat = "" => expose.nat = "static"
    /\ n.nat # "" => expose.nat = n.nat
    /\ n.pf # <<>> <=> expose.ports # <<>>
    /\ expose.ports # <<>> <=> expose.nat = "port-forward"

\* An expose is filled from what the options of its side say.
LEMMA NatFilled == \A e : \A n \in NATs : Plain(e) /\ ~NATRefused(n) => Filled(populateExposeNat(e, n), e, n)
<1> SUFFICES ASSUME NEW e, NEW n \in NATs, Plain(e), ~NATRefused(n) PROVE Filled(populateExposeNat(e, n), e, n)
  OBVIOUS
<1> DEFINE expose == populateExposeNat(e, n)
<1>1. n.as \in Seq(STRING) /\ n.pf \in Seq(STRING) /\ n.nat \in NATTypes \cup {""}
  BY DEF NATs
<1>2. CASE n.as = <<>>
  <2>1. n.nat = "" /\ n.pf = <<>>
    BY <1>2 DEF NATRefused
  <2>2. expose = e
    BY <1>2 DEF populateExposeNat
  <2> HIDE DEF expose
  <2>3. expose.nat # "port-forward"
    BY <2>2 DEF Plain
  <2> QED
    BY <1>2, <2>1, <2>2, <2>3 DEF expose, Plain, Filled
<1>3. CASE n.as # <<>>
  <2> DEFINE as == parsePeeringEntryAsList(n.as)
             nat == IF n.nat = "" THEN "static" ELSE n.nat
             ports == IF n.nat = "port-forward" THEN parsePortForwardRuleList(n.pf) ELSE <<>>
  <2>1. expose = [[[e EXCEPT !.as = as] EXCEPT !.nat = nat] EXCEPT !.ports = ports]
    BY <1>3 DEF populateExposeNat
  <2>2. as # <<>>
    BY <1>1, <1>3, NotEmpty DEF parsePeeringEntryAsList
  <2>3. n.pf # <<>> => parsePortForwardRuleList(n.pf) # <<>>
    BY <1>1, NotEmpty DEF parsePortForwardRuleList
  <2>4. /\ n.pf # <<>> => n.nat = "port-forward"
        /\ n.nat = "port-forward" => n.pf # <<>>
    BY <1>3 DEF NATRefused
  <2>5. nat # "" /\ (nat = "port-forward" <=> n.nat = "port-forward")
    BY <1>1 DEF NATTypes
  <2>6. ports # <<>> <=> n.nat = "port-forward"
    BY <2>3, <2>4
  <2>7. (n.nat = "" => nat = "static") /\ (n.nat # "" => nat = n.nat)
    OBVIOUS
  <2> HIDE DEF as, nat, ports, expose
  <2>8. expose.as = as /\ expose.nat = nat /\ expose.ports = ports /\ expose.ips = e.ips /\ expose.default = e.default
    BY <2>1 DEF Plain
  <2> QED
    BY <1>3, <2>2, <2>4, <2>5, <2>6, <2>7, <2>8 DEF expose, Filled
<1> QED
  BY <1>2, <1>3

\* So nothing the options of a side ask for is lost.
LEMMA SideHonoured ==
  ASSUME NEW r \in Requests, NEW ext \in BOOLEAN, NEW s \in Sides, NEW v, NEW names, NEW def,
         ~ParseOptions(r.opts, ext).err, ~NATRefused(ParseOptions(r.opts, ext).nat[s])
  PROVE  LET expose == populateExposeNat(Chosen(v, names, def), ParseOptions(r.opts, ext).nat[s])
         IN NATHonoured(r, expose, s) /\ expose.ips = {<<v, x>> : x \in names} /\ expose.default = def
<1> DEFINE cfg == ParseOptions(r.opts, ext)
           n == cfg.nat[s]
           e == Chosen(v, names, def)
           expose == populateExposeNat(e, n)
<1>1. r.opts \in Seq(OptionsOf)
  BY DEF Requests, OptionsOf
<1>2. IsCfg(cfg) /\ Recorded(r.opts, Len(r.opts), cfg)
  BY <1>1, OptionsRecorded
<1>3. DOMAIN r.opts = 1..Len(r.opts)
  BY <1>1, LenProperties
<1> HIDE DEF cfg
<1>4. /\ n \in NATs
      /\ n.as # <<>> <=> HasOpt(r, SideKeys("as")[s])
      /\ n.pf # <<>> <=> HasOpt(r, SideKeys("pf")[s])
      /\ n.nat # "" <=> HasOpt(r, SideKeys("nat")[s])
  BY <1>2, <1>3, ZenonT(40) DEF IsCfg, Recorded, HasOpt, Seen, cfg
<1>5. HasOpt(r, SideKeys("nat")[s]) => n.nat = parseNatType(ValueOf(r, SideKeys("nat")[s]))
  <2> DEFINE key == SideKeys("nat")[s]
             i == CHOOSE j \in DOMAIN r.opts : r.opts[j].key = key
  <2> SUFFICES ASSUME HasOpt(r, key) PROVE n.nat = parseNatType(ValueOf(r, key))
    OBVIOUS
  <2>1. i \in DOMAIN r.opts /\ r.opts[i].key = key
    BY DEF HasOpt
  <2>2. ValueOf(r, key) = r.opts[i].val
    BY DEF ValueOf
  <2> HIDE DEF i
  <2>3. n.nat = parseNatType(r.opts[i].val)
    BY <1>2, <1>3, <2>1 DEF Recorded, cfg
  <2> QED
    BY <2>2, <2>3
<1>6. Plain(e) /\ e.ips = {<<v, x>> : x \in names} /\ e.default = def
  BY DEF Chosen, Plain
<1>7. ~NATRefused(n)
  BY DEF cfg
<1> HIDE DEF e, n
<1>8. Filled(expose, e, n)
  BY Zenon, <1>4, <1>6, <1>7, NatFilled
<1> HIDE DEF expose
<1>9. NATHonoured(r, expose, s)
  BY <1>4, <1>5, <1>8 DEF NATHonoured, Filled
<1> QED
  BY <1>6, <1>8, <1>9 DEF Filled, expose, e, n, cfg

\* What is chosen for a side is chosen from that side's VPC.
LEMMA ChosenIps == \A v, names, def : \A ip \in Chosen(v, names, def).ips : ip[1] = v
<1> SUFFICES ASSUME NEW v, NEW names, NEW def, NEW ip \in Chosen(v, names, def).ips PROVE ip[1] = v
  OBVIOUS
<1>1. Chosen(v, names, def).ips = {<<v, x>> : x \in names}
  BY DEF Chosen
<1>2. PICK x \in names : ip = <<v, x>>
  BY <1>1
<1> QED
  BY <1>2

\* A peering parsed without an error is what its request asks for.
LEMMA RequestHonoured ==
  ASSUME NEW r \in Requests, NEW vs, ParseRequest(r, vs, {"ext"}) # Invalid
  PROVE  Honours(ParseRequest(r, vs, {"ext"}), r)
<1> DEFINE ext == r.sep = "~"
           cfg == ParseOptions(r.opts, ext)
           p == ParseRequest(r, vs, {"ext"})
           a == r.parts[1]
           b == r.parts[2]
<1>1. ext \in BOOLEAN /\ (ext <=> r.sep = "~")
  OBVIOUS
<1>2. ~InvalidName(r, {"ext"}) /\ ~cfg.err
  BY DEF ParseRequest
<1>3. /\ r.sep \in {"+", "~"} /\ a.vpc # 0 /\ (r.sep = "+" => b.vpc # 0) /\ (r.sep = "~" => b.ext = "ext")
      /\ a \in Words /\ b \in Words
  <2>1. r.parts \in Seq(Words) /\ Len(r.parts) = 2
    BY <1>2 DEF InvalidName, Requests
  <2>2. a \in Words /\ b \in Words
    BY <2>1, ElementOfSeq
  <2> QED
    BY <1>2, <2>2 DEF InvalidName
<1>4. (r.sep = "+" => b.ext = "") /\ (r.sep = "~" => b.vpc = 0)
  <2>1. b.vpc = 0 \/ b.ext = ""
    BY <1>3 DEF Words
  <2> QED
    BY <1>3, <2>1
<1>5. /\ IsCfg(cfg) /\ cfg.gw \in BOOLEAN
      /\ cfg.gw <=> HasOpt(r, "gw")
      /\ cfg.nat = <<NoNAT, NoNAT>> => \A s \in Sides, w \in {"as", "nat", "pf"} : ~HasOpt(r, SideKeys(w)[s])
  <2>1. r.opts \in Seq(OptionsOf)
    BY DEF Requests, OptionsOf
  <2> HIDE DEF ext
  <2>2. IsCfg(cfg) /\ Recorded(r.opts, Len(r.opts), cfg)
    BY <1>1, <2>1, OptionsRecorded
  <2>3. DOMAIN r.opts = 1..Len(r.opts)
    BY <2>1, LenProperties
  <2> HIDE DEF cfg
  <2>4. \A key : Seen(r.opts, Len(r.opts), key) <=> HasOpt(r, key)
    BY <2>3 DEF Seen, HasOpt
  <2>5. ASSUME cfg.nat = <<NoNAT, NoNAT>>, NEW s \in Sides PROVE cfg.nat[s].as = <<>> /\ cfg.nat[s].nat = "" /\ cfg.nat[s].pf = <<>>
    <3>1. s = 1 \/ s = 2
      BY DEF Sides
    <3>2. cfg.nat[s] = NoNAT
      BY <2>5, <3>1
    <3> QED
      BY <3>2, NoNAT.as = <<>> /\ NoNAT.nat = "" /\ NoNAT.pf = <<>> DEF NoNAT
  <2> QED
    BY <1>2, <2>2, <2>4, <2>5 DEF IsCfg, Recorded
<1>6. ASSUME NEW s \in Sides, NEW v, NEW names, NEW def, ~NATRefused(cfg.nat[s])
      PROVE  LET expose == populateExposeNat(Chosen(v, names, def), cfg.nat[s])
             IN  /\ NATHonoured(r, expose, s) /\ expose.ips = {<<v, x>> : x \in names} /\ expose.default = def
                 /\ \A ip \in expose.ips : ip[1] = v
  <2> HIDE DEF ext
  <2>1. ~ParseOptions(r.opts, ext).err /\ ~NATRefused(ParseOptions(r.opts, ext).nat[s])
    BY <1>2, <1>6
  <2>2. LET expose == populateExposeNat(Chosen(v, names, def), cfg.nat[s])
        IN  NATHonoured(r, expose, s) /\ expose.ips = {<<v, x>> : x \in names} /\ expose.default = def
    BY <1>1, <2>1, SideHonoured
  <2> HIDE DEF cfg
  <2> QED
    BY <2>2
<1> HIDE DEF cfg
<1>9. \A s \in Sides : ~NATRefused(cfg.nat[s]) => \A v, chosen : \A expose :
         expose = populateExposeNat(VPCExpose(vs, v, chosen), cfg.nat[s]) =>
            NATHonoured(r, expose, s) /\ \A ip \in expose.ips : ip[1] = v
  <2> SUFFICES ASSUME NEW s \in Sides, ~NATRefused(cfg.nat[s]), NEW v, NEW chosen
               PROVE  LET expose == populateExposeNat(VPCExpose(vs, v, chosen), cfg.nat[s])
                      IN NATHonoured(r, expose, s) /\ \A ip \in expose.ips : ip[1] = v
    OBVIOUS
  <2> DEFINE f == FALSE
             names == {x \in IF v \in DOMAIN vs THEN vs[v] ELSE {} : chosen = {} \/ x \in chosen}
  <2>1. VPCExpose(vs, v, chosen) = Chosen(v, names, f)
    BY DEF VPCExpose
  <2> HIDE DEF f, names
  <2>2. LET expose == populateExposeNat(Chosen(v, names, f), cfg.nat[s])
        IN NATHonoured(r, expose, s) /\ \A ip \in expose.ips : ip[1] = v
    BY <1>6
  <2> QED
    BY <2>1, <2>2
<1>7. CASE r.sep = "+"
  <2> DEFINE v == Sorted(a, b)
  <2>1. p = VPCRequest(r, cfg, vs)
    BY <1>2, <1>7 DEF ParseRequest, cfg
  <2>2. {v[1], v[2]} = {a.vpc, b.vpc} /\ v[3] = ""
    BY DEF Sorted
  <2> HIDE DEF v
  <2>3. CASE cfg.gw
    <3> DEFINE spec == [s \in Sides |-> populateExposeNat(VPCExpose(vs, v[s], cfg.sub[s]), cfg.nat[s])]
    <3>1. p = Peering("gw", v, spec) /\ \A s \in Sides : ~NATRefused(cfg.nat[s])
      BY <2>1, <2>3 DEF VPCRequest, v
    <3>2. ASSUME NEW s \in Sides PROVE NATHonoured(r, spec[s], s) /\ \A ip \in spec[s].ips : ip[1] = v[s]
      <4>1. spec[s] = populateExposeNat(VPCExpose(vs, v[s], cfg.sub[s]), cfg.nat[s])
        OBVIOUS
      <4> HIDE DEF spec
      <4> QED
        BY <1>9, <3>1, <4>1
    <3> HIDE DEF spec
    <3>3. p.kind = "gw" /\ p.name = v /\ p.spec = spec
      BY <3>1 DEF Peering
    <3> HIDE DEF p
    <3> QED
      BY <1>3, <1>4, <1>5, <1>7, <2>2, <2>3, <3>2, <3>3 DEF Honours, p
  <2>4. CASE ~cfg.gw
    <3> DEFINE spec == [s \in Sides |-> Chosen(v[s], cfg.sub[s], FALSE)]
    <3>1. p = Peering("vpc", v, spec) /\ cfg.nat = <<NoNAT, NoNAT>>
      BY <2>1, <2>4 DEF VPCRequest, v
    <3>2. \A s \in Sides : \A ip \in spec[s].ips : ip[1] = v[s]
      BY ChosenIps
    <3> HIDE DEF spec
    <3>3. p.kind = "vpc" /\ p.name = v /\ p.spec = spec
      BY <3>1 DEF Peering
    <3> HIDE DEF p
    <3> QED
      BY <1>3, <1>4, <1>5, <1>7, <2>2, <2>4, <3>1, <3>2, <3>3 DEF Honours, p
  <2> QED
    BY <1>5, <2>3, <2>4
<1>8. CASE r.sep = "~"
  <2> DEFINE v == <<a.vpc, 0, b.ext>>
             chosen == cfg.sub[2]
  <2>1. p = ExternalRequest(r, cfg, vs)
    BY <1>2, <1>8 DEF ParseRequest, cfg
  <2>2. {v[1], v[2]} = {a.vpc, b.vpc} /\ v[3] = b.ext /\ v[1] = a.vpc /\ v[2] = 0
    BY <1>4, <1>8
  <2>3. CASE cfg.gw
    <3> DEFINE spec == <<populateExposeNat(VPCExpose(vs, a.vpc, cfg.sub[1]), cfg.nat[1]),
                         populateExposeNat(ExtExpose(chosen), cfg.nat[2])>>
    <3>1. p = Peering("gw", v, spec) /\ (\A s \in Sides : ~NATRefused(cfg.nat[s])) /\ ~ExtRefused(chosen)
      BY <2>1, <2>3 DEF ExternalRequest
    <3>2. NATHonoured(r, spec[1], 1) /\ \A ip \in spec[1].ips : ip[1] = a.vpc
      <4>1. spec[1] = populateExposeNat(VPCExpose(vs, a.vpc, cfg.sub[1]), cfg.nat[1])
        OBVIOUS
      <4>2. 1 \in Sides
        BY DEF Sides
      <4> HIDE DEF spec
      <4> QED
        BY <1>9, <3>1, <4>1, <4>2
    <3>3. /\ NATHonoured(r, spec[2], 2) /\ \A ip \in spec[2].ips : ip[1] = 0
          /\ spec[2].ips = {<<0, x>> : x \in ExtPrefixes(chosen)} /\ spec[2].default = ExtDefault(chosen)
      <4>1. spec[2] = populateExposeNat(Chosen(0, ExtPrefixes(chosen), ExtDefault(chosen)), cfg.nat[2])
        BY DEF ExtExpose
      <4>2. 2 \in Sides
        BY DEF Sides
      <4> HIDE DEF spec
      <4> QED
        BY <1>6, <3>1, <4>1, <4>2
    <3>4. ExtDefault(chosen) <=> ExtPrefixes(chosen) = {}
      BY <3>1 DEF ExtRefused, ExtDefault, ExtPrefixes
    <3>5. spec[2].default <=> spec[2].ips = {}
      <4>1. ExtPrefixes(chosen) = {} <=> {<<0, x>> : x \in ExtPrefixes(chosen)} = {}
        OBVIOUS
      <4>2. ExtDefault(chosen) \in BOOLEAN
        BY DEF ExtDefault
      <4> QED
        BY <3>3, <3>4, <4>1, <4>2
    <3> HIDE DEF spec, v
    <3>6. p.kind = "gw" /\ p.name = v /\ p.spec = spec
      BY <3>1 DEF Peering
    <3>7. \A s \in Sides : s = 1 \/ s = 2
      BY DEF Sides
    <3>8. \A s \in Sides : NATHonoured(r, spec[s], s) /\ \A ip \in spec[s].ips : ip[1] = v[s]
      BY <2>2, <3>2, <3>3, <3>7
    <3> HIDE DEF p
    <3> QED
      BY <1>3, <1>4, <1>5, <1>8, <2>2, <2>3, <3>5, <3>6, <3>8 DEF Honours, p
  <2>4. CASE ~cfg.gw
    <3> DEFINE names == IF cfg.sub[1] = {} THEN {"default"} ELSE cfg.sub[1]
               spec == <<Chosen(a.vpc, names, FALSE), Chosen(0, ExtPrefixes(chosen), ExtDefault(chosen))>>
    <3>1. p = Peering("ext", v, spec) /\ cfg.nat = <<NoNAT, NoNAT>>
      BY <2>1, <2>4 DEF ExternalRequest
    <3>2. (\A ip \in spec[1].ips : ip[1] = a.vpc) /\ (\A ip \in spec[2].ips : ip[1] = 0)
      BY ChosenIps
    <3> HIDE DEF spec, v
    <3>3. p.kind = "ext" /\ p.name = v /\ p.spec = spec
      BY <3>1 DEF Peering
    <3>4. \A s \in Sides : s = 1 \/ s = 2
      BY DEF Sides
    <3>5. \A s \in Sides : \A ip \in spec[s].ips : ip[1] = v[s]
      BY <2>2, <3>2, <3>4
    <3> HIDE DEF p
    <3> QED
      BY <1>3, <1>4, <1>5, <1>8, <2>2, <2>4, <3>1, <3>3, <3>5 DEF Honours, p
  <2> QED
    BY <1>5, <2>3, <2>4
<1> QED
  BY <1>3, <1>7, <1>8

\* What SetupPeerings has done so far: the requests are parsed, the other peerings are
\* gone, the requested ones are there.
Asked ==
    /\ pc \in {"unpeer", "enforce", "pready", "pdone"} =>
         wanted = SetupPeerings(sc.reqs, SubnetsOf, {"ext"}) /\ Invalid \notin wanted
    /\ pc \in {"enforce", "pready", "pdone"} => \A p \in peerings : p.kind \in UNION ToSet(PeeringKinds) => Kept(p)
    /\ pc \in {"pready", "pdone"} => wanted \subseteq peerings

\* Every step keeps what SetupPeerings has done.
LEMMA AskedStep == GoodCall /\ TypeOK /\ Asked /\ [Next]_vars => Asked'
<1> SUFFICES ASSUME GoodCall, TypeOK, Asked, [Next]_vars PROVE Asked'
  OBVIOUS
<1> DEFINE After == {"unpeer", "enforce", "pready", "pdone"}
<1>s. sc' = sc /\ PeeringKinds' = PeeringKinds
  BY GoodCallStep DEF PeeringKinds
<1>f. Failed \in {"failed", "pfailed"}
  BY DEF Failed
<1>e. ASSUME pc' \notin After PROVE Asked'
  BY <1>e DEF Asked
<1>k. ASSUME UNCHANGED <<plan, vpcs, peerings, wanted>>, pc' = pc PROVE Asked'
  <2>1. SubnetsOf' = SubnetsOf
    BY <1>k DEF SubnetsOf
  <2>2. \A p : Kept(p)' <=> Kept(p)
    BY <1>k DEF Kept
  <2> QED
    BY <1>s, <1>k, <2>1, <2>2 DEF Asked
<1>1. CASE FabReadError \/ FabReady \/ AgentsReady \/ WaitTimeout
  BY <1>f, <1>e, <1>k, <1>1 DEF FabReadError, FabReady, AgentsReady, WaitTimeout, Fault, Fail, api
<1>2. CASE Start \/ DeletePeerings \/ PlanNext \/ Planned
  BY <1>f, <1>e, <1>2 DEF Start, DeletePeerings, PlanNext, Planned, Goto, WaitReadyThen, Fault, Fail
<1>3. CASE DeleteAttachments \/ DeleteVPCs \/ Settle
  BY <1>f, <1>e, <1>3 DEF DeleteAttachments, DeleteVPCs, Settle, Goto, WaitReadyThen, Fault, Fail
<1>4. CASE CreateOrUpdateVPCs \/ CreateOrUpdateAttachments \/ AwaitFabric
  BY <1>f, <1>e, <1>4 DEF CreateOrUpdateVPCs, CreateOrUpdateAttachments, AwaitFabric, Goto, WaitReadyThen, Fault, Fail
<1>5. CASE (\E s \in ServerIDs : CleanServer(s) \/ ConfigureServer(s)) \/ JoinServers
  BY <1>f, <1>e, <1>5 DEF CleanServer, ConfigureServer, JoinServers, At, Goto, Fault, Fail
<1>6. CASE Retry \/ StartPeerings
  BY <1>e, <1>6 DEF Retry, StartPeerings, Goto, WaitReadyThen
<1>7. CASE ParseRequests
  <2> DEFINE ps == SetupPeerings(sc.reqs, SubnetsOf, {"ext"})
  <2>1. UNCHANGED <<plan, vpcs>> /\ SubnetsOf' = SubnetsOf
    BY <1>7 DEF ParseRequests, api, SubnetsOf
  <2>2. pc' \in {"failed", "pfailed"} \/ (Invalid \notin ps /\ pc' = "unpeer" /\ wanted' = ps)
    BY <1>f, <1>7 DEF ParseRequests, Goto, Fail
  <2> HIDE DEF ps
  <2>3. CASE Invalid \notin ps /\ pc' = "unpeer" /\ wanted' = ps
    <3>1. ps' = ps
      BY <1>s, <2>1 DEF ps
    <3> QED
      BY <2>3, <3>1 DEF Asked, ps
  <2> QED
    BY <1>e, <2>2, <2>3
<1>8. CASE Unpeer
  <2> DEFINE kinds == UNION ToSet(PeeringKinds)
  <2>1. pc = "unpeer" /\ UNCHANGED <<plan, vpcs, wanted>> /\ SubnetsOf' = SubnetsOf
    BY <1>8 DEF Unpeer, At, SubnetsOf
  <2>2. pc' \in {"failed", "pfailed"} \/ (peerings' = peerings \ GoneWith(kinds) /\ pc' = "enforce")
    BY <1>f, <1>8 DEF Unpeer, Goto, Fault, Fail
  <2>3. CASE peerings' = peerings \ GoneWith(kinds) /\ pc' = "enforce"
    <3>1. \A p : Kept(p)' <=> Kept(p)
      BY <2>1 DEF Kept
    <3>2. \A p \in peerings' : p.kind \in kinds => Kept(p)
      BY <2>3 DEF GoneWith
    <3> QED
      BY <1>s, <2>1, <2>3, <3>1, <3>2 DEF Asked
  <2> QED
    BY <1>e, <2>2, <2>3
<1>9. CASE Enforce
  <2>1. pc = "enforce" /\ UNCHANGED <<plan, vpcs, wanted>> /\ SubnetsOf' = SubnetsOf
    BY <1>9 DEF Enforce, At, SubnetsOf
  <2>2. \/ pc' \in {"failed", "pfailed"}
        \/ peerings' = {p \in peerings : ~\E q \in wanted : SameObject(p, q)} \cup wanted /\ pc' = "pready"
    BY <1>f, <1>9 DEF Enforce, Goto, Fault, Fail
  <2>3. CASE peerings' = {p \in peerings : ~\E q \in wanted : SameObject(p, q)} \cup wanted /\ pc' = "pready"
    <3>1. \A p : Kept(p)' <=> Kept(p)
      BY <2>1 DEF Kept
    <3>2. \A p \in wanted : Kept(p)
      BY DEF Kept, SameObject
    <3>3. \A p \in peerings' : p.kind \in UNION ToSet(PeeringKinds) => Kept(p)
      BY <2>1, <2>3, <3>2 DEF Asked
    <3> QED
      BY <1>s, <2>1, <2>3, <3>1, <3>3 DEF Asked
  <2> QED
    BY <1>e, <2>2, <2>3
<1>10. CASE AwaitPeerings
  <2>1. pc = "pready" /\ pc' = "pdone" /\ UNCHANGED <<plan, vpcs, peerings, wanted>>
    BY <1>10 DEF AwaitPeerings, At, Goto, WaitReadyThen, api
  <2>2. SubnetsOf' = SubnetsOf /\ \A p : Kept(p)' <=> Kept(p)
    BY <2>1 DEF SubnetsOf, Kept
  <2> QED
    BY <1>s, <2>1, <2>2 DEF Asked
<1>11. CASE Reflect \/ (\E c \in Agents : Apply(c)) \/ Expire \/ Rest \/ UNCHANGED vars
  BY <1>k, <1>11 DEF Reflect, Apply, Expire, Rest, vars, api
<1> QED
  BY <1>1, <1>2, <1>3, <1>4, <1>5, <1>6, <1>7, <1>8, <1>9, <1>10, <1>11 DEF Next, Program

\* At the end the peerings are the ones asked for.
LEMMA AskedHonoured == GoodCall /\ Asked => RequestsHonoured
<1> SUFFICES ASSUME GoodCall, Asked, pc = "pdone" PROVE RequestsHonoured
  BY DEF RequestsHonoured, At
<1> DEFINE made(i) == ParseRequest(sc.reqs[i], SubnetsOf, {"ext"})
           alone(i) == \A j \in DOMAIN sc.reqs : j # i => ~SameObject(made(i), made(j))
           ps == [i \in DOMAIN sc.reqs |-> made(i)]
<1>1. DOMAIN sc.reqs = 1..Len(sc.reqs) /\ Len(sc.reqs) \in Nat /\ \A i \in DOMAIN sc.reqs : sc.reqs[i] \in Requests
  BY LenProperties, ElementOfSeq DEF GoodCall
<1>2. wanted = SetupPeerings(sc.reqs, SubnetsOf, {"ext"}) /\ Invalid \notin wanted
  BY DEF Asked
<1>3. /\ \A i \in DOMAIN ps : ps[i] # Invalid
      /\ wanted = {ps[i] : i \in {j \in DOMAIN ps : ~\E k \in DOMAIN ps : k > j /\ SameObject(ps[j], ps[k])}}
  BY <1>2 DEF SetupPeerings
<1>4. DOMAIN ps = DOMAIN sc.reqs /\ \A i \in DOMAIN sc.reqs : ps[i] = made(i)
  OBVIOUS
<1> HIDE DEF ps
<1>5. ASSUME NEW i \in DOMAIN sc.reqs, alone(i) PROVE \E p \in peerings : Honours(p, sc.reqs[i])
  <2>1. \A k \in DOMAIN ps : k > i => ~SameObject(ps[i], ps[k])
    <3> SUFFICES ASSUME NEW k \in DOMAIN ps, k > i PROVE ~SameObject(ps[i], ps[k])
      OBVIOUS
    <3>1. k \in DOMAIN sc.reqs /\ k # i
      BY <1>1, <1>4
    <3> HIDE DEF made
    <3> QED
      BY <1>4, <1>5, <3>1
  <2>2. ps[i] \in wanted
    BY <1>3, <1>4, <2>1
  <2>3. made(i) \in peerings
    BY <1>4, <2>2 DEF Asked
  <2>4. Honours(made(i), sc.reqs[i])
    BY <1>1, <1>3, <1>4, RequestHonoured
  <2> HIDE DEF made
  <2> QED
    BY <2>3, <2>4
<1>6. ASSUME NEW p \in peerings, p.kind \in UNION ToSet(PeeringKinds) PROVE \E i \in DOMAIN sc.reqs : SameObject(p, made(i))
  <2>1. PICK q \in wanted : SameObject(p, q)
    BY <1>6 DEF Asked, Kept
  <2>2. PICK i \in DOMAIN sc.reqs : q = made(i)
    BY <1>3, <1>4
  <2> HIDE DEF made
  <2> QED
    BY <2>1, <2>2
<1> QED
  BY <1>5, <1>6 DEF RequestsHonoured

\* When SetupPeerings succeeds, every request that is alone for its two ends has a
\* peering of its kind that drops no option of the request, and nobody else's is there,
\* whatever options the requests have and in whatever order.
THEOREM RequestsAreHonoured == Spec => []RequestsHonoured
<1>1. Init => GoodCall /\ TypeOK /\ Asked
  BY GoodCallInit, TypeInit DEF Init, Asked
<1>2. GoodCall /\ TypeOK /\ Asked /\ [Next]_vars => (GoodCall /\ TypeOK /\ Asked)'
  BY GoodCallStep, TypeStep, AskedStep
<1> QED
  BY <1>1, <1>2, AskedHonoured, PTL DEF Spec
=============================================================================
