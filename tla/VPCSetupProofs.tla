--------------------------- MODULE VPCSetupProofs ---------------------------
(***************************************************************************)
(* Proofs about VPCSetup, for every set of calls.                          *)
(***************************************************************************)
EXTENDS VPCSetup, FiniteSetTheorems, SequenceTheorems, TLAPS

\* What stays true of the call that is made.
GoodCall ==
    /\ sc.servers \in Seq([id : Nat, conns : Seq(STRING)])
    /\ \A i, j \in 1..Len(sc.servers) : i < j => sc.servers[i].id < sc.servers[j].id
    /\ IsOptions(Opts) /\ IsLeft(sc.left)
    /\ sc.vlans \in Seq(Nat) /\ sc.prefixes \in Seq(Nat)
    /\ sc.gw \in BOOLEAN /\ sc.faults \in Nat /\ sc.reqs \in Seq(Requests)

\* The calls of the scenarios are good ones: sorting keeps the servers' types and
\* their numbers increase.
LEMMA GoodCallInit == Init => GoodCall
<1> SUFFICES ASSUME Init PROVE GoodCall
  OBVIOUS
<1>0. PICK s \in Scenarios : \E r \in ServerSeqs(s.servers) : sc = [s EXCEPT !.servers = r]
  BY DEF Init
<1>1. PICK q \in ServerSeqs(s.servers) : sc = [s EXCEPT !.servers = q]
  BY <1>0
<1>2. IsScenario(s)
  BY SetupAssumption
<1>3. /\ sc.servers = q /\ sc.opts = s.opts /\ sc.left = s.left /\ sc.vlans = s.vlans /\ sc.prefixes = s.prefixes
      /\ sc.gw = s.gw /\ sc.faults = s.faults /\ sc.reqs = s.reqs
  BY <1>1, <1>2 DEF IsScenario
<1>4. Cardinality(s.servers) \in Nat
  BY <1>2, FS_CardinalityType DEF IsScenario
<1>5. q \in [1..Cardinality(s.servers) -> [id : Nat, conns : Seq(STRING)]]
  BY <1>1, <1>2 DEF ServerSeqs, IsScenario
<1>6. q \in Seq([id : Nat, conns : Seq(STRING)]) /\ DOMAIN q = 1..Len(q)
  <2> DEFINE S == [id : Nat, conns : Seq(STRING)]
  <2>0. \E n \in Nat : q \in [1..n -> S]
    BY <1>4, <1>5
  <2> HIDE DEF S
  <2>1. q \in Seq(S)
    BY <2>0, SeqDef
  <2> QED
    BY <2>1, LenProperties DEF S
<1>7. \A i, j \in 1..Len(q) : i < j => q[i].id < q[j].id
  BY <1>1, <1>6 DEF ServerSeqs
<1> QED
  BY <1>2, <1>3, <1>6, <1>7 DEF GoodCall, IsScenario, Opts

\* No step changes the call.
LEMMA GoodCallStep == GoodCall /\ [Next]_vars => GoodCall' /\ sc' = sc
<1> SUFFICES ASSUME GoodCall, [Next]_vars PROVE sc' = sc
  BY DEF GoodCall, Opts
<1>1. CASE FabReadError \/ FabReady \/ AgentsReady \/ WaitTimeout
  BY <1>1 DEF FabReadError, FabReady, AgentsReady, WaitTimeout
<1>2. CASE Start \/ DeletePeerings \/ PlanNext \/ Planned
  BY <1>2 DEF Start, DeletePeerings, PlanNext, Planned
<1>3. CASE DeleteAttachments \/ DeleteVPCs \/ Settle \/ CreateOrUpdateVPCs \/ CreateOrUpdateAttachments \/ AwaitFabric
  BY <1>3 DEF DeleteAttachments, DeleteVPCs, Settle, CreateOrUpdateVPCs, CreateOrUpdateAttachments, AwaitFabric
<1>4. CASE (\E s \in ServerIDs : CleanServer(s) \/ ConfigureServer(s)) \/ JoinServers \/ Retry
  BY <1>4 DEF CleanServer, ConfigureServer, JoinServers, Retry
<1>5. CASE StartPeerings \/ ParseRequests \/ Unpeer \/ Enforce \/ AwaitPeerings
  BY <1>5 DEF StartPeerings, ParseRequests, Unpeer, Enforce, AwaitPeerings
<1>6. CASE Reflect \/ (\E c \in Agents : Apply(c)) \/ Expire
  BY <1>6 DEF Reflect, Apply, Expire
<1>7. CASE Rest \/ UNCHANGED vars
  BY <1>7 DEF Rest, vars
<1> QED
  BY <1>1, <1>2, <1>3, <1>4, <1>5, <1>6, <1>7 DEF Next, Program

-----------------------------------------------------------------------------
(***************************************************************************)
(* Types                                                                   *)
(***************************************************************************)

\* SetupVPCs and SetupPeerings keep the types of their state, and a WaitReady is
\* under way only on the way to one of the steps that follow one.
LEMMA TypeInit == Init => TypeOK
<1> SUFFICES ASSUME Init PROVE TypeOK
  OBVIOUS
<1>1. GoodCall
  BY GoodCallInit
<1>2. Len(sc.servers) \in Nat
  BY <1>1, LenProperties DEF GoodCall
<1>3. srv \in [ServerIDs -> {"todo", "clean", "ok", "failed"}]
  BY DEF Init
<1>4. conf \in [ServerIDs -> {"none", "old", "new"}]
  BY <1>1 DEF Init, GoodCall, IsLeft
<1>5. 1 \in 1..MaxAttempts /\ 0 \in 0..MaxReadErrors
  BY SetupAssumption
<1>6. pend \subseteq {"vpc", "del", "peer"} /\ \A c \in Agents : unapplied[c] \subseteq {"vpc", "del", "peer"}
  BY DEF Init
<1>7. next \in 1..(Len(sc.servers) + 1) /\ faults \in Nat
  BY <1>1, <1>2 DEF Init, GoodCall
<1> QED
  BY <1>1, <1>2, <1>3, <1>4, <1>5, <1>6, <1>7 DEF Init, TypeOK, Ended

\* What the fabric still has to do stays a set of kinds of changes.
LEMMA NoteType ==
  ASSUME TypeOK, NEW kinds, kinds \subseteq {"vpc", "del", "peer"}, Note(kinds)
  PROVE  pend' \subseteq {"vpc", "del", "peer"} /\ \A c \in Agents : unapplied'[c] \subseteq {"vpc", "del", "peer"}
BY DEF TypeOK, Note

\* While the program sleeps only known changes are on their way.
LEMMA SleepType ==
  ASSUME TypeOK, Sleep
  PROVE  pend' \subseteq {"vpc", "del", "peer"} /\ \A c \in Agents : unapplied'[c] \subseteq {"vpc", "del", "peer"}
BY DEF TypeOK, Sleep, Merged

\* Every step keeps the types.
LEMMA TypeStep == GoodCall /\ TypeOK /\ [Next]_vars => TypeOK'
<1> SUFFICES ASSUME GoodCall, TypeOK, [Next]_vars PROVE TypeOK'
  OBVIOUS
<1> USE DEF Ended
<1>s. sc' = sc /\ ServerIDs' = ServerIDs /\ Opts' = Opts /\ Len(sc.servers) \in Nat /\ Opts.wait \in BOOLEAN
  BY GoodCallStep, LenProperties DEF ServerIDs, Opts, GoodCall, IsOptions
<1>f. Failed \in {"failed", "pfailed"}
  BY DEF Failed
<1>z. 0 \in 0..MaxReadErrors /\ 1 \in 1..(Len(sc.servers) + 1)
  BY <1>s, SetupAssumption
<1>1. CASE FabReadError
  BY <1>s, <1>1, SetupAssumption DEF FabReadError, TypeOK, api, servers, fabricState
<1>2. CASE FabReady
  BY <1>s, <1>f, <1>2 DEF FabReady, Fault, Fail, TypeOK, api, servers, fabricState
<1>3. CASE AgentsReady
  BY <1>s, <1>3 DEF AgentsReady, TypeOK, api, servers, fabricState
<1>4. CASE WaitTimeout
  BY <1>s, <1>f, <1>4 DEF WaitTimeout, Fail, TypeOK, api, servers, fabricState
<1>5. CASE Start
  BY <1>s, <1>f, <1>5 DEF Start, Fail, Goto, TypeOK, api, servers, fabricState
<1>6. CASE DeletePeerings
  <2>1. PICK kinds \in SUBSET {"peer"} : Note(kinds)
    BY <1>6 DEF DeletePeerings
  <2>2. pend' \subseteq {"vpc", "del", "peer"} /\ \A c \in Agents : unapplied'[c] \subseteq {"vpc", "del", "peer"}
    BY <2>1, NoteType
  <2>3. (Goto("plan") /\ UNCHANGED faults) \/ Fault
    BY <1>6 DEF DeletePeerings
  <2> QED
    BY <1>s, <1>f, <1>6, <2>2, <2>3 DEF DeletePeerings, Fault, Fail, Goto, TypeOK, servers
<1>7. CASE PlanNext
  BY <1>s, <1>f, <1>7 DEF PlanNext, At, Fault, Fail, Goto, TypeOK, api, servers, fabricState
<1>8. CASE Planned
  BY <1>s, <1>8, <1>z DEF At, Planned, Goto, WaitReadyThen, TypeOK, api, servers, fabricState
<1>9. CASE DeleteAttachments
  <2>1. PICK kinds \in SUBSET {"vpc"} : Note(kinds)
    BY <1>9 DEF DeleteAttachments
  <2>2. pend' \subseteq {"vpc", "del", "peer"} /\ \A c \in Agents : unapplied'[c] \subseteq {"vpc", "del", "peer"}
    BY <2>1, NoteType
  <2>3. ((Goto("delete") /\ UNCHANGED faults) \/ Fault) /\ changed' \in BOOLEAN
    BY <1>9 DEF DeleteAttachments
  <2> QED
    BY <1>s, <1>f, <1>9, <2>2, <2>3 DEF DeleteAttachments, Fault, Fail, Goto, TypeOK, servers
<1>10. CASE DeleteVPCs
  <2>1. PICK kinds \in SUBSET {"vpc", "del"} : Note(kinds)
    BY <1>10 DEF DeleteVPCs
  <2>2. pend' \subseteq {"vpc", "del", "peer"} /\ \A c \in Agents : unapplied'[c] \subseteq {"vpc", "del", "peer"}
    BY <2>1, NoteType
  <2>3. ((Goto("settle") /\ UNCHANGED faults) \/ Fault) /\ changed' \in BOOLEAN /\ deletedVPCs' \in BOOLEAN
    BY <1>10 DEF DeleteVPCs
  <2> QED
    BY <1>s, <1>f, <1>10, <2>2, <2>3 DEF DeleteVPCs, Fault, Fail, Goto, TypeOK, servers
<1>11. CASE Settle
  <2>1. pend' \subseteq {"vpc", "del", "peer"} /\ \A c \in Agents : unapplied'[c] \subseteq {"vpc", "del", "peer"}
    BY <1>11, SleepType DEF Settle, TypeOK, fabricState
  <2> QED
    BY <1>s, <1>11, <2>1, <1>z DEF At, Settle, Goto, WaitReadyThen, TypeOK, api, servers
<1>12. CASE CreateOrUpdateVPCs
  <2>1. PICK kinds \in SUBSET {"vpc"} : Note(kinds)
    BY <1>12 DEF CreateOrUpdateVPCs
  <2>2. pend' \subseteq {"vpc", "del", "peer"} /\ \A c \in Agents : unapplied'[c] \subseteq {"vpc", "del", "peer"}
    BY <2>1, NoteType
  <2>3. ((Goto("attach") /\ UNCHANGED faults) \/ Fault) /\ changed' \in BOOLEAN
    BY <1>12 DEF CreateOrUpdateVPCs
  <2> QED
    BY <1>s, <1>f, <1>12, <2>2, <2>3 DEF CreateOrUpdateVPCs, Fault, Fail, Goto, TypeOK, servers
<1>13. CASE CreateOrUpdateAttachments
  <2>1. PICK kinds \in SUBSET {"vpc"} : Note(kinds)
    BY <1>13 DEF CreateOrUpdateAttachments
  <2>2. pend' \subseteq {"vpc", "del", "peer"} /\ \A c \in Agents : unapplied'[c] \subseteq {"vpc", "del", "peer"}
    BY <2>1, NoteType
  <2>3. ((Goto("ready") /\ UNCHANGED faults) \/ Fault) /\ changed' \in BOOLEAN
    BY <1>13 DEF CreateOrUpdateAttachments
  <2> QED
    BY <1>s, <1>f, <1>13, <2>2, <2>3 DEF CreateOrUpdateAttachments, Fault, Fail, Goto, TypeOK, servers
<1>14. CASE AwaitFabric
  <2>1. pend' \subseteq {"vpc", "del", "peer"} /\ \A c \in Agents : unapplied'[c] \subseteq {"vpc", "del", "peer"}
    BY <1>14, SleepType DEF AwaitFabric, TypeOK, fabricState
  <2> QED
    BY <1>s, <1>14, <2>1, <1>z DEF At, AwaitFabric, Goto, WaitReadyThen, TypeOK, api, servers
<1>15. ASSUME NEW s \in ServerIDs, CleanServer(s) PROVE TypeOK'
  BY <1>s, <1>15 DEF CleanServer, TypeOK, api, fabricState
<1>16. ASSUME NEW s \in ServerIDs, ConfigureServer(s) PROVE TypeOK'
  BY <1>s, <1>16 DEF ConfigureServer, TypeOK, api, fabricState
<1>17. CASE JoinServers
  BY <1>s, <1>f, <1>17 DEF JoinServers, Fault, Fail, Goto, TypeOK, api, servers, fabricState
<1>18. CASE Retry
  <2>1. pend' \subseteq {"vpc", "del", "peer"} /\ \A c \in Agents : unapplied'[c] \subseteq {"vpc", "del", "peer"}
    BY <1>18, SleepType DEF Retry
  <2>2. attempt' \in 1..MaxAttempts
    BY <1>18, SetupAssumption DEF Retry, TypeOK
  <2> QED
    BY <1>s, <1>18, <2>1, <2>2, <1>z DEF Retry, Goto, TypeOK, api
<1>19. CASE StartPeerings
  BY <1>s, <1>19, <1>z DEF At, StartPeerings, Goto, WaitReadyThen, TypeOK, api, servers, fabricState
<1>20. CASE ParseRequests
  <2>1. Fail \/ Goto("unpeer")
    BY <1>20 DEF ParseRequests
  <2> QED
    BY <1>s, <1>f, <1>20, <2>1 DEF ParseRequests, Fail, Goto, TypeOK, api, servers, fabricState
<1>21. CASE Unpeer
  <2>1. PICK kinds \in SUBSET {"peer"} : Note(kinds)
    BY <1>21 DEF Unpeer
  <2>2. pend' \subseteq {"vpc", "del", "peer"} /\ \A c \in Agents : unapplied'[c] \subseteq {"vpc", "del", "peer"}
    BY <2>1, NoteType
  <2>3. ((Goto("enforce") /\ UNCHANGED faults) \/ Fault) /\ changed' \in BOOLEAN
    BY <1>21 DEF Unpeer
  <2> QED
    BY <1>s, <1>f, <1>21, <2>2, <2>3 DEF Unpeer, Fault, Fail, Goto, TypeOK, servers
<1>22. CASE Enforce
  <2>1. PICK kinds \in SUBSET {"peer"} : Note(kinds)
    BY <1>22 DEF Enforce
  <2>2. pend' \subseteq {"vpc", "del", "peer"} /\ \A c \in Agents : unapplied'[c] \subseteq {"vpc", "del", "peer"}
    BY <2>1, NoteType
  <2>3. ((Goto("pready") /\ UNCHANGED faults) \/ (Fail /\ UNCHANGED faults) \/ Fault) /\ changed' \in BOOLEAN
    BY <1>22 DEF Enforce
  <2> QED
    BY <1>s, <1>f, <1>22, <2>2, <2>3 DEF Enforce, Fault, Fail, Goto, TypeOK, servers
<1>23. CASE AwaitPeerings
  <2>1. pend' \subseteq {"vpc", "del", "peer"} /\ \A c \in Agents : unapplied'[c] \subseteq {"vpc", "del", "peer"}
    BY <1>23, SleepType DEF AwaitPeerings, TypeOK, fabricState
  <2> QED
    BY <1>s, <1>23, <2>1, <1>z DEF At, AwaitPeerings, Goto, WaitReadyThen, TypeOK, api, servers
<1>24. CASE Reflect
  <2>1. pend' \subseteq {"vpc", "del", "peer"} /\ \A c \in Agents : unapplied'[c] \subseteq {"vpc", "del", "peer"}
    BY <1>24, SleepType DEF Reflect
  <2> QED
    BY <1>s, <1>24, <2>1 DEF Reflect, TypeOK, api, servers
<1>25. ASSUME NEW c \in Agents, Apply(c) PROVE TypeOK'
  <2>1. \A d \in Agents : unapplied'[d] \subseteq {"vpc", "del", "peer"}
    BY <1>25 DEF Apply, TypeOK
  <2> QED
    BY <1>s, <1>25, <2>1 DEF Apply, TypeOK, api, servers
<1>26. CASE Expire
  BY <1>s, <1>26 DEF Expire, TypeOK, api, servers, fabricState
<1>27. CASE Rest \/ UNCHANGED vars
  BY <1>s, <1>27 DEF Rest, vars, TypeOK, api, servers, fabricState
<1> QED
  BY <1>1, <1>2, <1>3, <1>4, <1>5, <1>6, <1>7, <1>8, <1>9, <1>10, <1>11, <1>12, <1>13, <1>14, <1>15, <1>16, <1>17,
     <1>18, <1>19, <1>20, <1>21, <1>22, <1>23, <1>24, <1>25, <1>26, <1>27 DEF Next, Program

-----------------------------------------------------------------------------
(***************************************************************************)
(* The fabric                                                              *)
(***************************************************************************)

\* The only peerings left are of a gateway that is disabled.
Stripped == \A p \in peerings : ~sc.gw /\ p.kind = "gw"

\* Which peerings are there and which changes to them are on their way.  A deletion
\* of peerings that SetupVPCs left on its way is what SetupPeerings relies on to
\* find that it has something to change, and so something to wait for.
Peered ==
    /\ \A p \in peerings : p.kind \in {"vpc", "ext", "gw"}
    /\ ~Opts.keepPeerings /\ pc \in {"plan", "detach", "delete", "settle", "create", "attach", "ready", "servers", "done", "parse", "unpeer"}
         => Stripped
    /\ Opts.keepPeerings /\ pc \in {"start", "peerings", "plan", "detach", "delete", "settle", "create", "attach", "ready", "servers",
                                    "done", "parse", "unpeer"}
         => "peer" \notin pend
    /\ pc = "parse" => sc.reqs # <<>>
    /\ pc \in {"unpeer", "enforce"} =>
         wanted # {} /\ \A p \in wanted : p.kind \in {"vpc", "ext"} \/ (p.kind = "gw" /\ sc.gw)
    /\ pc = "enforce" /\ ~changed /\ "peer" \in pend => Stripped
    /\ pc = "pready" /\ ~changed => "peer" \notin pend

\* Which changes are on their way to the agents, where, and that changed and
\* deletedVPCs tell of all that the attempt has made since it found the fabric ready.
Lagging ==
    /\ pc = "start" => pend = {}
    /\ pc \in {"peerings", "plan", "detach"} => pend \subseteq {"peer"}
    /\ pc = "delete" => pend \subseteq {"peer", "vpc"} /\ (~changed => "vpc" \notin pend)
    /\ pc = "settle" =>
         /\ deletedVPCs => changed
         /\ ~changed => pend \subseteq {"peer"}
         /\ ~deletedVPCs => "del" \notin pend
    /\ pc = "create" =>
         /\ changed => pend = {}
         /\ ~changed => pend \subseteq {"peer"} /\ \A c \in Expected : unapplied[c] = {}
         /\ wait = "no" => \A c \in Expected : "del" \notin unapplied[c]
         /\ wait # "no" => changed
    /\ pc \in {"attach", "ready"} /\ ~changed => "vpc" \notin pend /\ \A c \in Expected : "vpc" \notin unapplied[c]
    /\ pc \in {"servers", "pdone"} /\ wait # "no" => pend = {}
    /\ pc = "servers" /\ wait = "no" => "vpc" \notin pend /\ \A c \in Expected : "vpc" \notin unapplied[c]
    /\ pc = "pdone" /\ wait = "no" => "peer" \notin pend /\ \A c \in Expected : "peer" \notin unapplied[c]
    /\ pc \in {"detach", "delete", "settle", "parse", "unpeer", "enforce", "pready"} /\ wait = "no" =>
         \A c \in Expected : unapplied[c] = {}

Fabric == Peered /\ (Opts.wait => Lagging)

\* All kinds of peerings SetupVPCs deletes, one DeleteAllOf after the other.
LEMMA AllKinds ==
  ASSUME GoodCall
  PROVE  /\ {"vpc", "ext"} \subseteq UNION {PeeringKinds[i] : i \in 1..Len(PeeringKinds)}
         /\ sc.gw => "gw" \in UNION {PeeringKinds[i] : i \in 1..Len(PeeringKinds)}
<1> DEFINE a == <<{"vpc"}, {"ext"}>>
           b == IF sc.gw THEN <<{"gw"}>> ELSE <<>>
           K == {{"vpc"}, {"ext"}, {"gw"}}
<1>1. a \in Seq(K) /\ Len(a) = 2 /\ a[1] = {"vpc"} /\ a[2] = {"ext"}
  OBVIOUS
<1>2. b \in Seq(K) /\ Len(b) \in 0..1 /\ (sc.gw => Len(b) = 1 /\ b[1] = {"gw"})
  <2>1. CASE sc.gw
    <3>1. b = <<{"gw"}>>
      BY <2>1
    <3> HIDE DEF b
    <3> QED
      BY <3>1
  <2>2. CASE ~sc.gw
    <3>1. b = <<>>
      BY <2>2
    <3> HIDE DEF b
    <3> QED
      BY <2>2, <3>1, EmptySeq
  <2> QED
    BY <2>1, <2>2
<1>3. PeeringKinds = a \o b
  BY DEF PeeringKinds
<1> HIDE DEF a, b, K
<1>4. /\ Len(PeeringKinds) = 2 + Len(b)
      /\ \A i \in 1..(2 + Len(b)) : PeeringKinds[i] = IF i <= 2 THEN a[i] ELSE b[i - 2]
  <2>1. /\ Len(a \o b) = Len(a) + Len(b)
        /\ \A i \in 1..(Len(a) + Len(b)) : (a \o b)[i] = IF i <= Len(a) THEN a[i] ELSE b[i - Len(a)]
    BY <1>1, <1>2, ConcatProperties
  <2> QED
    BY <1>1, <1>3, <2>1
<1>5. PeeringKinds[1] = {"vpc"} /\ PeeringKinds[2] = {"ext"} /\ 1 \in 1..Len(PeeringKinds) /\ 2 \in 1..Len(PeeringKinds)
  BY <1>1, <1>2, <1>4
<1>6. ASSUME sc.gw PROVE PeeringKinds[3] = {"gw"} /\ 3 \in 1..Len(PeeringKinds)
  <2>1. Len(b) = 1 /\ b[1] = {"gw"}
    BY <1>2, <1>6
  <2>2. Len(PeeringKinds) = 3 /\ 3 \in 1..3
    BY <1>4, <2>1
  <2>3. PeeringKinds[3] = b[3 - 2]
    BY <1>4, <2>1
  <2> QED
    BY <2>1, <2>2, <2>3
<1> QED
  BY <1>5, <1>6

\* A request that is not refused asks for a peering of one of the three kinds.
LEMMA RequestKind ==
  ASSUME NEW r, NEW v, NEW x, ParseRequest(r, v, x) # Invalid
  PROVE  ParseRequest(r, v, x).kind \in {"vpc", "ext", "gw"}
<1> DEFINE cfg == ParseOptions(r.opts, r.sep = "~")
<1>1. ParseRequest(r, v, x) \in {VPCRequest(r, cfg, v), ExternalRequest(r, cfg, v)}
  BY DEF ParseRequest
<1> HIDE DEF cfg
<1>2. VPCRequest(r, cfg, v) = Invalid \/ VPCRequest(r, cfg, v).kind \in {"vpc", "gw"}
  BY DEF VPCRequest, Peering
<1>3. ExternalRequest(r, cfg, v) = Invalid \/ ExternalRequest(r, cfg, v).kind \in {"ext", "gw"}
  BY DEF ExternalRequest, Peering
<1> QED
  BY <1>1, <1>2, <1>3

\* Requests that are all accepted ask for something.
LEMMA Requested ==
  ASSUME NEW rs \in Seq(Requests), rs # <<>>, NEW v, NEW x, Invalid \notin SetupPeerings(rs, v, x)
  PROVE  /\ SetupPeerings(rs, v, x) # {}
         /\ \A p \in SetupPeerings(rs, v, x) : p.kind \in {"vpc", "ext", "gw"}
<1> DEFINE ps == [i \in DOMAIN rs |-> ParseRequest(rs[i], v, x)]
           last == {j \in DOMAIN ps : ~\E k \in DOMAIN ps : k > j /\ SameObject(ps[j], ps[k])}
<1>1. Len(rs) \in Nat \ {0} /\ DOMAIN rs = 1..Len(rs)
  BY EmptySeq, LenProperties
<1>2. \A i \in DOMAIN ps : ps[i] # Invalid
  BY DEF SetupPeerings
<1>3. SetupPeerings(rs, v, x) = {ps[i] : i \in last}
  BY DEF SetupPeerings
<1>4. Len(rs) \in last
  <2>1. DOMAIN ps = 1..Len(rs)
    BY <1>1
  <2> HIDE DEF ps
  <2> QED
    BY <1>1, <2>1
<1>5. \A i \in DOMAIN ps : ps[i].kind \in {"vpc", "ext", "gw"}
  BY <1>2, RequestKind
<1> HIDE DEF ps
<1> QED
  BY <1>3, <1>4, <1>5

\* The first attempt starts with a fabric that Fabric allows.
LEMMA FabricInit == Init => Fabric
<1> SUFFICES ASSUME Init PROVE Fabric
  OBVIOUS
<1>1. GoodCall
  BY GoodCallInit
<1>2. \A p \in peerings : p.kind \in {"vpc", "ext", "gw"}
  BY <1>1 DEF Init, GoodCall, IsLeft
<1> QED
  BY <1>2 DEF Init, Fabric, Peered, Lagging

\* Every step keeps track of the peerings and of the changes to them.
LEMMA PeeredStep == GoodCall /\ TypeOK /\ Peered /\ [Next]_vars => Peered'
<1> SUFFICES ASSUME GoodCall, TypeOK, Peered, [Next]_vars PROVE Peered'
  OBVIOUS
<1>s. sc' = sc /\ Opts' = Opts /\ Opts.keepPeerings \in BOOLEAN
  BY GoodCallStep DEF Opts, GoodCall, IsOptions
<1>f. Failed \in {"failed", "pfailed"}
  BY DEF Failed
<1>1. CASE FabReadError
  BY <1>s, <1>1 DEF FabReadError, Peered, Stripped, api, fabricState
<1>2. CASE FabReady
  BY <1>s, <1>f, <1>2 DEF FabReady, Fault, Fail, Peered, Stripped, api, fabricState
<1>3. CASE AgentsReady
  BY <1>s, <1>3 DEF AgentsReady, Peered, Stripped, api, fabricState
<1>4. CASE WaitTimeout
  BY <1>s, <1>f, <1>4 DEF WaitTimeout, Fail, Peered, Stripped, api, fabricState
<1>5. CASE Start
  BY <1>s, <1>f, <1>5 DEF Start, At, Fail, Goto, Peered, Stripped, api, fabricState
<1>6. CASE DeletePeerings
  <2> DEFINE of(i) == {p \in peerings : p.kind \in PeeringKinds[i]}
             all(n) == UNION {of(i) : i \in 1..n}
             begun(n) == IF n < Len(PeeringKinds) THEN of(n + 1) ELSE {}
  <2>1. PICK n \in 0..Len(PeeringKinds) : \E part \in SUBSET begun(n) :
          /\ peerings' = IF Opts.keepPeerings THEN peerings ELSE peerings \ (all(n) \cup part)
          /\ Note(IF peerings' # peerings THEN {"peer"} ELSE {})
          /\ \/ n = Len(PeeringKinds) /\ Goto("plan") /\ UNCHANGED faults
             \/ n < Len(PeeringKinds) /\ ~Opts.keepPeerings /\ Fault
    BY <1>6 DEF DeletePeerings
  <2>2. peerings' \subseteq peerings /\ (Opts.keepPeerings => pend' = pend)
    BY <2>1, <1>s DEF Note
  <2>3. pc' = "plan" \/ pc' \in {"failed", "pfailed"}
    BY <2>1, <1>f DEF Goto, Fault, Fail
  <2>4. ASSUME pc' = "plan", ~Opts.keepPeerings PROVE Stripped'
    <3>1. n = Len(PeeringKinds)
      BY <2>1, <2>4, <1>f DEF Fault, Fail
    <3>2. begun(n) = {} /\ all(n) = {p \in peerings : p.kind \in UNION {PeeringKinds[i] : i \in 1..Len(PeeringKinds)}}
      BY <3>1
    <3> HIDE DEF all, begun
    <3>3. peerings' = peerings \ {p \in peerings : p.kind \in UNION {PeeringKinds[i] : i \in 1..Len(PeeringKinds)}}
      BY <2>1, <2>4, <3>2
    <3> QED
      BY <3>3, <1>s, AllKinds DEF Stripped, Peered, GoodCall
  <2> QED
    BY <1>s, <1>6, <2>2, <2>3, <2>4 DEF DeletePeerings, At, Peered
<1>7. CASE PlanNext
  BY <1>s, <1>f, <1>7 DEF PlanNext, At, Fault, Fail, Goto, Peered, Stripped, api, fabricState
<1>8. CASE Planned
  BY <1>s, <1>8 DEF Planned, At, Goto, WaitReadyThen, Peered, Stripped, api, fabricState
<1>9. CASE DeleteAttachments
  <2>1. /\ pc = "detach" /\ peerings' = peerings /\ wanted' = wanted /\ ("peer" \notin pend => "peer" \notin pend')
        /\ Goto("delete") \/ Fault
    BY <1>9 DEF DeleteAttachments, Note, At
  <2> QED
    BY <1>s, <1>f, <2>1 DEF Fault, Fail, Goto, Peered, Stripped
<1>10. CASE DeleteVPCs
  <2>1. /\ pc = "delete" /\ peerings' = peerings /\ wanted' = wanted /\ ("peer" \notin pend => "peer" \notin pend')
        /\ Goto("settle") \/ Fault
    BY <1>10 DEF DeleteVPCs, Note, At
  <2> QED
    BY <1>s, <1>f, <2>1 DEF Fault, Fail, Goto, Peered, Stripped
<1>11. CASE Settle
  BY <1>s, <1>11 DEF Settle, At, Sleep, Goto, WaitReadyThen, Peered, Stripped, api, fabricState
<1>12. CASE CreateOrUpdateVPCs
  <2>1. /\ pc = "create" /\ peerings' = peerings /\ wanted' = wanted /\ ("peer" \notin pend => "peer" \notin pend')
        /\ Goto("attach") \/ Fault
    BY <1>12 DEF CreateOrUpdateVPCs, Note, At
  <2> QED
    BY <1>s, <1>f, <2>1 DEF Fault, Fail, Goto, Peered, Stripped
<1>13. CASE CreateOrUpdateAttachments
  <2>1. /\ pc = "attach" /\ peerings' = peerings /\ wanted' = wanted /\ ("peer" \notin pend => "peer" \notin pend')
        /\ Goto("ready") \/ Fault
    BY <1>13 DEF CreateOrUpdateAttachments, Note, At
  <2> QED
    BY <1>s, <1>f, <2>1 DEF Fault, Fail, Goto, Peered, Stripped
<1>14. CASE AwaitFabric
  BY <1>s, <1>14 DEF AwaitFabric, At, Sleep, Goto, WaitReadyThen, Peered, Stripped, api, fabricState
<1>15. ASSUME NEW s \in ServerIDs, CleanServer(s) \/ ConfigureServer(s) PROVE Peered'
  BY <1>s, <1>15 DEF CleanServer, ConfigureServer, Peered, Stripped, api, fabricState
<1>17. CASE JoinServers
  <2>1. At("servers") /\ UNCHANGED <<api, fabricState, wanted>> /\ (Fail \/ Goto("done") \/ Fault)
    BY <1>17 DEF JoinServers
  <2> QED
    BY <1>s, <1>f, <2>1 DEF At, Fault, Fail, Goto, Peered, Stripped, api, fabricState
<1>18. CASE Retry
  BY <1>s, <1>18 DEF Retry, Sleep, Goto, Peered, Stripped, api
<1>19. CASE StartPeerings
  BY <1>s, <1>19 DEF StartPeerings, At, Goto, WaitReadyThen, Peered, Stripped, api, fabricState
<1>20. CASE ParseRequests
  <2> DEFINE ps == SetupPeerings(sc.reqs, SubnetsOf, {"ext"})
  <2>1. /\ IF Invalid \in ps \/ (~sc.gw /\ \E p \in ps : p.kind = "gw")
           THEN Fail /\ UNCHANGED wanted ELSE Goto("unpeer") /\ wanted' = ps
        /\ pc = "parse" /\ UNCHANGED <<peerings, pend>>
    BY <1>20 DEF ParseRequests, At, api, fabricState
  <2> HIDE DEF ps
  <2>2. CASE Fail
    BY <1>s, <1>f, <2>1, <2>2 DEF Fail, Peered
  <2>3. CASE Invalid \notin ps /\ ~(~sc.gw /\ \E p \in ps : p.kind = "gw") /\ Goto("unpeer") /\ wanted' = ps
    <3>1. ps # {} /\ \A p \in ps : p.kind \in {"vpc", "ext", "gw"}
      BY <2>1, <2>3, Requested DEF ps, GoodCall, Peered
    <3> QED
      BY <1>s, <2>1, <2>3, <3>1 DEF Goto, Peered, Stripped, GoodCall
  <2> QED
    BY <2>1, <2>2, <2>3
<1>21. CASE Unpeer
  <2>1. PICK gone : /\ peerings' = peerings \ gone /\ changed' = (gone # {})
                    /\ Note(IF gone # {} THEN {"peer"} ELSE {})
                    /\ Goto("enforce") \/ Fault
    BY <1>21 DEF Unpeer
  <2>2. pc = "unpeer" /\ wanted' = wanted
    BY <1>21 DEF Unpeer, At
  <2>3. CASE Fault
    BY <1>s, <1>f, <2>1, <2>3 DEF Fault, Fail, Peered
  <2>4. CASE Goto("enforce")
    BY <1>s, <2>1, <2>2, <2>4 DEF Goto, Note, Peered, Stripped
  <2> QED
    BY <2>1, <2>3, <2>4
<1>22. CASE Enforce
  <2>1. PICK made \in SUBSET wanted :
          /\ peerings' = {p \in peerings : ~\E q \in made : SameObject(p, q)} \cup made
          /\ changed' = (changed \/ peerings' # peerings)
          /\ Note(IF peerings' # peerings THEN {"peer"} ELSE {})
          /\ (made = wanted /\ Goto("pready")) \/ Fail
    BY <1>22 DEF Enforce, Fault
  <2>2. pc = "enforce" /\ wanted' = wanted
    BY <1>22 DEF Enforce, At
  <2>3. \A p \in peerings' : p.kind \in {"vpc", "ext", "gw"}
    BY <2>1, <2>2 DEF Peered
  <2>4. CASE Fail
    BY <1>s, <1>f, <2>3, <2>4 DEF Fail, Peered
  <2>5. CASE made = wanted /\ Goto("pready")
    <3>1. ASSUME ~changed' PROVE "peer" \notin pend'
      <4>1. ~changed /\ peerings' = peerings /\ pend' = pend
        BY <2>1, <3>1 DEF Note, TypeOK
      <4>2. PICK p \in wanted : p \in peerings
        BY <2>1, <2>2, <2>5, <4>1 DEF Peered
      <4>3. ~Stripped
        BY <2>2, <4>2 DEF Peered, Stripped
      <4> QED
        BY <2>2, <4>1, <4>3 DEF Peered
    <3> QED
      BY <1>s, <2>3, <2>5, <3>1 DEF Goto, Peered
  <2> QED
    BY <2>1, <2>4, <2>5
<1>23. CASE AwaitPeerings
  BY <1>s, <1>23 DEF AwaitPeerings, Sleep, Goto, WaitReadyThen, Peered, api
<1>24. CASE Reflect
  BY <1>s, <1>24 DEF Reflect, Sleep, Peered, Stripped, api
<1>25. ASSUME NEW c \in Agents, Apply(c) PROVE Peered'
  BY <1>s, <1>25 DEF Apply, Peered, Stripped, api
<1>26. CASE Expire \/ Rest \/ UNCHANGED vars
  BY <1>s, <1>26 DEF Expire, Rest, vars, Peered, Stripped, api, fabricState
<1> QED
  BY <1>1, <1>2, <1>3, <1>4, <1>5, <1>6, <1>7, <1>8, <1>9, <1>10, <1>11, <1>12, <1>13, <1>14, <1>15, <1>17,
     <1>18, <1>19, <1>20, <1>21, <1>22, <1>23, <1>24, <1>25, <1>26 DEF Next, Program

\* Every step of a call that waits keeps track of what is on its way.
LEMMA LaggingStep == GoodCall /\ TypeOK /\ Peered /\ Opts.wait /\ Lagging /\ [Next]_vars => Lagging'
<1> SUFFICES ASSUME GoodCall, TypeOK, Peered, Opts.wait, Lagging, [Next]_vars PROVE Lagging'
  OBVIOUS
<1>s. sc' = sc /\ Opts' = Opts /\ Expected' = Expected /\ Expected \subseteq Agents
  BY GoodCallStep DEF Opts, Expected, Agents
<1>f. Failed \in {"failed", "pfailed"}
  BY DEF Failed
<1>e. ASSUME Fail PROVE Lagging'
  BY <1>f, <1>e DEF Fail, Lagging
<1>1. CASE FabReadError
  BY <1>s, <1>1 DEF FabReadError, Lagging, fabricState
<1>2. CASE FabReady
  BY <1>s, <1>e, <1>2 DEF FabReady, Fault, Lagging, fabricState
<1>3. CASE AgentsReady
  BY <1>s, <1>3 DEF AgentsReady, Lagging, fabricState, TypeOK
<1>4. CASE WaitTimeout
  BY <1>e, <1>4 DEF WaitTimeout
<1>5. CASE Start
  BY <1>s, <1>e, <1>5 DEF Start, At, Goto, Lagging, fabricState
<1>6. CASE DeletePeerings
  <2>1. pc = "peerings" /\ pend' \subseteq pend \cup {"peer"} /\ (Goto("plan") \/ Fail)
    BY <1>6 DEF DeletePeerings, At, Note, Fault
  <2> QED
    BY <1>e, <2>1 DEF Goto, Lagging
<1>7. CASE PlanNext
  BY <1>e, <1>7 DEF PlanNext, At, Fault, Goto, Lagging, fabricState
<1>8. CASE Planned
  BY <1>s, <1>8 DEF Planned, At, WaitReadyThen, Lagging, fabricState
<1>9. CASE DeleteAttachments
  <2>1. PICK gone : /\ changed' = (changed \/ gone # {}) /\ Note(IF gone # {} THEN {"vpc"} ELSE {})
                    /\ Goto("delete") \/ Fail
    BY <1>9 DEF DeleteAttachments, Fault
  <2>2. pc = "detach" /\ wait = "no"
    BY <1>9 DEF DeleteAttachments, At
  <2> QED
    BY <1>s, <1>e, <2>1, <2>2 DEF Note, Goto, Lagging
<1>10. CASE DeleteVPCs
  <2>1. PICK gone : /\ changed' = (changed \/ gone # {}) /\ deletedVPCs' = (gone # {})
                    /\ Note(IF gone # {} THEN {"vpc", "del"} ELSE {})
                    /\ Goto("settle") \/ Fail
    BY <1>10 DEF DeleteVPCs, Fault
  <2>2. pc = "delete" /\ wait = "no"
    BY <1>10 DEF DeleteVPCs, At
  <2> QED
    BY <1>s, <1>e, <2>1, <2>2 DEF Note, Goto, Lagging, TypeOK
<1>11. CASE Settle
  <2>1. /\ pc = "settle" /\ wait = "no" /\ pc' = "create" /\ UNCHANGED <<changed, deletedVPCs>>
        /\ IF changed THEN Sleep ELSE UNCHANGED <<pend, unapplied>>
        /\ wait' = IF deletedVPCs THEN "fab" ELSE "no"
    BY <1>11 DEF Settle, At, Goto, WaitReadyThen, fabricState
  <2>2. \A c \in Expected : unapplied[c] = {}
    BY <2>1 DEF Lagging
  <2>3. CASE changed
    <3>1. pend' = {} /\ \A c \in Expected : unapplied'[c] = pend
      BY <1>s, <2>1, <2>2, <2>3 DEF Sleep, Merged
    <3> QED
      BY <1>s, <2>1, <2>3, <3>1 DEF Lagging
  <2>4. CASE ~changed
    BY <1>s, <2>1, <2>2, <2>4 DEF Lagging, TypeOK
  <2> QED
    BY <2>3, <2>4
<1>12. CASE CreateOrUpdateVPCs
  <2>1. /\ changed' = (changed \/ vpcs' # vpcs) /\ Note(IF vpcs' # vpcs THEN {"vpc"} ELSE {})
        /\ Goto("attach") \/ Fail
    BY <1>12 DEF CreateOrUpdateVPCs, Fault
  <2>2. pc = "create" /\ wait = "no"
    BY <1>12 DEF CreateOrUpdateVPCs, At
  <2> QED
    BY <1>s, <1>e, <2>1, <2>2 DEF Note, Goto, Lagging, TypeOK
<1>13. CASE CreateOrUpdateAttachments
  <2>1. /\ changed' = (changed \/ attaches' # attaches) /\ Note(IF attaches' # attaches THEN {"vpc"} ELSE {})
        /\ Goto("ready") \/ Fail
    BY <1>13 DEF CreateOrUpdateAttachments, Fault
  <2>2. pc = "attach" /\ wait = "no"
    BY <1>13 DEF CreateOrUpdateAttachments, At
  <2> QED
    BY <1>s, <1>e, <2>1, <2>2 DEF Note, Goto, Lagging, TypeOK
<1>14. CASE AwaitFabric
  BY <1>s, <1>14 DEF AwaitFabric, At, Sleep, Goto, WaitReadyThen, Lagging, fabricState, TypeOK
<1>15. ASSUME NEW s \in ServerIDs, CleanServer(s) \/ ConfigureServer(s) PROVE Lagging'
  BY <1>s, <1>15 DEF CleanServer, ConfigureServer, Lagging, fabricState
<1>17. CASE JoinServers
  <2>1. At("servers") /\ (Fail \/ Goto("done"))
    BY <1>17 DEF JoinServers, Fault
  <2> QED
    BY <1>e, <2>1 DEF Goto, Lagging
<1>18. CASE Retry
  BY <1>18 DEF Retry, Sleep, Goto, Lagging
<1>19. CASE StartPeerings
  BY <1>s, <1>19 DEF StartPeerings, WaitReadyThen, Lagging
<1>20. CASE ParseRequests
  <2>1. /\ pc = "parse" /\ wait = "no" /\ UNCHANGED <<pend, unapplied>>
        /\ Fail \/ Goto("unpeer")
    BY <1>20 DEF ParseRequests, At, fabricState
  <2> QED
    BY <1>s, <1>e, <2>1 DEF Goto, Lagging
<1>21. CASE Unpeer
  <2>1. /\ pc = "unpeer" /\ wait = "no" /\ UNCHANGED unapplied
        /\ Fail \/ Goto("enforce")
    BY <1>21 DEF Unpeer, At, Note, Fault
  <2> QED
    BY <1>s, <1>e, <2>1 DEF Goto, Lagging
<1>22. CASE Enforce
  <2>1. /\ pc = "enforce" /\ wait = "no" /\ UNCHANGED unapplied
        /\ Fail \/ Goto("pready")
    BY <1>22 DEF Enforce, At, Note, Fault
  <2> QED
    BY <1>s, <1>e, <2>1 DEF Goto, Lagging
<1>23. CASE AwaitPeerings
  BY <1>s, <1>23 DEF AwaitPeerings, At, Sleep, Goto, WaitReadyThen, Lagging, Peered, fabricState, TypeOK
<1>24. CASE Reflect
  BY <1>s, <1>24 DEF Reflect, Sleep, Lagging, TypeOK
<1>25. ASSUME NEW c \in Agents, Apply(c) PROVE Lagging'
  <2>1. \A d \in Expected : unapplied'[d] \in {unapplied[d], {}}
    BY <1>s, <1>25 DEF Apply
  <2> QED
    BY <1>s, <1>25, <2>1 DEF Apply, Lagging
<1>26. CASE Expire \/ Rest \/ UNCHANGED vars
  BY <1>s, <1>26 DEF Expire, Rest, vars, Lagging, fabricState
<1> QED
  BY <1>1, <1>2, <1>3, <1>4, <1>5, <1>6, <1>7, <1>8, <1>9, <1>10, <1>11, <1>12, <1>13, <1>14, <1>15, <1>17,
     <1>18, <1>19, <1>20, <1>21, <1>22, <1>23, <1>24, <1>25, <1>26 DEF Next, Program

\* What is on its way is known at every moment.
LEMMA FabricStep == GoodCall /\ TypeOK /\ Fabric /\ [Next]_vars => Fabric'
<1> SUFFICES ASSUME GoodCall, TypeOK, Fabric, [Next]_vars PROVE Fabric'
  OBVIOUS
<1>1. Peered'
  BY PeeredStep DEF Fabric
<1>2. Opts' = Opts
  BY GoodCallStep DEF Opts
<1>3. Opts.wait => Lagging'
  BY LaggingStep DEF Fabric
<1> QED
  BY <1>1, <1>2, <1>3 DEF Fabric

\* Type correctness of SetupVPCs, SetupPeerings and WaitReady: every variable keeps
\* its type, and no wait outlives the error that ended it.
THEOREM SetupTyped == Spec => []TypeOK
<1>1. Init => GoodCall /\ TypeOK
  BY GoodCallInit, TypeInit
<1>2. GoodCall /\ TypeOK /\ [Next]_vars => (GoodCall /\ TypeOK)'
  BY GoodCallStep, TypeStep
<1> QED
  BY <1>1, <1>2, PTL DEF Spec

\* The fabric as WaitReady leaves it, in every call and after every failed attempt.
LEMMA FabricKnown == Spec => [](GoodCall /\ TypeOK /\ Fabric)
<1>1. Init => GoodCall /\ TypeOK /\ Fabric
  BY GoodCallInit, TypeInit, FabricInit
<1>2. GoodCall /\ TypeOK /\ Fabric /\ [Next]_vars => (GoodCall /\ TypeOK /\ Fabric)'
  BY GoodCallStep, TypeStep, FabricStep
<1> QED
  BY <1>1, <1>2, PTL DEF Spec

\* AwaitFabric and AwaitPeerings (the sleep and WaitReady behind the changes) are
\* enough: with waiting asked for, no server is configured before all agents run the
\* VPCs, and SetupPeerings does not succeed before they run its peerings.
THEOREM ReadyIsApplied == Spec => []ReadyMeansApplied
<1>1. GoodCall /\ TypeOK /\ Fabric => ReadyMeansApplied
  BY DEF Fabric, Lagging, ReadyMeansApplied
<1> QED
  BY <1>1, FabricKnown, PTL

\* Settle (the sleep and WaitReady behind deletions) and the WaitReady before the
\* first change are enough: no VPC is created while the deletion of one is on its
\* way, whichever attempt deleted it.
THEOREM DeletionsFirst == Spec => []DeletionsSettled
<1>1. GoodCall /\ TypeOK /\ Fabric => DeletionsSettled
  BY DEF Fabric, Lagging, DeletionsSettled, At, TypeOK
<1> QED
  BY <1>1, FabricKnown, PTL
=============================================================================
