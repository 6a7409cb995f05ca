------------------------------ MODULE VPCSetup ------------------------------
(***************************************************************************)
(* `hhfab vlab setup-vpcs` and `setup-peerings` (pkg/hhfab/testing.go):    *)
(* SetupVPCs replaces whatever VPCs, attachments and peerings the API      *)
(* holds by its plan, waits for the fabric with WaitReady and configures   *)
(* all servers at once over SSH; SetupPeerings does the same for peerings. *)
(* Any call may fail, which ends the attempt where it stands; a new        *)
(* attempt starts from what is left.                                       *)
(*                                                                         *)
(* An object of the API is "same" when its spec is the planned one and     *)
(* "diff" when it is another one.  The fabric lags behind: pend holds the  *)
(* kinds of changes ("vpc", "del" for a deleted VPC, "peer") that have not *)
(* reached the agents' specs, unapplied[c] those that agent c has not      *)
(* applied.  Agents move only while the program waits for them or sleeps:  *)
(* moving earlier would only make the fabric more up to date.              *)
(***************************************************************************)
EXTENDS VPCPlan, PeeringRequests

CONSTANTS
    \* The calls to explore: what the API holds, the options and requests, and how
    \* many calls fail.
    Scenarios,
    \* How often a read of the Fabricator object may fail in a row.
    MaxReadErrors,
    \* How often SetupVPCs is called.
    MaxAttempts

IsOptions(o) ==
    /\ {o.wait, o.force, o.keepPeerings, o.hostBGP, o.p2p, o.hash, o.dns} \subseteq BOOLEAN
    /\ o.perSubnet \in Int /\ o.perVPC \in Int /\ o.mtu \in Nat
    /\ DOMAIN o = {"wait", "force", "keepPeerings", "hostBGP", "p2p", "hash", "dns", "perSubnet", "perVPC", "mtu", "mode"}
\* What an earlier call has left: VPCs and attachments by their names, "same" if
\* their spec is the planned one.  The API's webhook refuses an attachment to a VPC
\* that is not there.
IsLeft(left) ==
    /\ \A k \in DOMAIN left.attaches : k.vpc \in DOMAIN left.vpcs
    /\ \A p \in left.peerings : p.kind \in {"vpc", "ext", "gw"}
    /\ left.conf \in {"none", "old"}
\* A word means a VPC or an external.
Words == {w \in [rank : Nat, vpc : Nat, ext : STRING] : w.vpc = 0 \/ w.ext = ""}
Requests == [sep : STRING, parts : Seq(Words), opts : Seq([key : STRING, val : Seq(STRING)])]
IsScenario(s) ==
    /\ DOMAIN s = {"servers", "opts", "fabric", "gw", "vlans", "prefixes", "left", "reqs", "faults"}
    /\ IsFiniteSet(s.servers) /\ s.servers \subseteq [id : Nat, conns : Seq(STRING)]
    /\ IsOptions(s.opts) /\ IsLeft(s.left)
    /\ s.vlans \in Seq(Nat) /\ s.prefixes \in Seq(Nat)
    /\ s.gw \in BOOLEAN /\ s.faults \in Nat /\ s.reqs \in Seq(Requests)
ASSUME SetupAssumption ==
    /\ \A s \in Scenarios : IsScenario(s)
    /\ MaxReadErrors \in Nat /\ MaxAttempts \in Nat \ {0}

VARIABLES
    sc,                 \* the scenario, its servers in a sequence
    plan, next,         \* the plan so far and the next server to be planned
    pc, wait, expired,  \* where the program is, its WaitReady, and the timeout of that
    vpcs, attaches, peerings,               \* the API's objects
    changed, deletedVPCs,                   \* locals of SetupVPCs
    srv, conf,          \* goroutine and network configuration of each server
    pend, unapplied,    \* the fabric
    wanted,             \* the peerings SetupPeerings has parsed
    faults, readErrs, attempt

api == <<vpcs, attaches, peerings>>
fabricState == <<pend, unapplied>>
servers == <<srv, conf>>
vars == <<sc, plan, next, pc, wait, expired, api, changed, deletedVPCs, servers, fabricState, wanted, faults, readErrs, attempt>>

Opts == sc.opts
ServerIDs == {sc.servers[i].id : i \in DOMAIN sc.servers}
\* A gateway reports what its dataplane and its FRR have applied.
Agents == {"switch", "dataplane", "frr"}
Expected == IF sc.gw THEN Agents ELSE {"switch"}
Ended == {"done", "failed", "pdone", "pfailed"}

SameAs(keys) == [k \in keys |-> "same"]
\* The servers in the order of their numbers.
ServerSeqs(servers_) ==
    {q \in [1..Cardinality(servers_) -> servers_] : \A i, j \in DOMAIN q : i < j => q[i].id < q[j].id}

Init ==
    /\ \E s \in Scenarios : \E q \in ServerSeqs(s.servers) : sc = [s EXCEPT !.servers = q]
    /\ plan = EmptyPlan /\ next = 1
    /\ vpcs = sc.left.vpcs /\ attaches = sc.left.attaches /\ peerings = sc.left.peerings
    /\ pc = "start" /\ wait = "no" /\ expired = FALSE
    /\ changed = FALSE /\ deletedVPCs = FALSE
    /\ srv = [s \in ServerIDs |-> "todo"]
    /\ conf = [s \in ServerIDs |-> sc.left.conf]
    /\ pend = {} /\ unapplied = [c \in Agents |-> {}]
    /\ wanted = {} /\ faults = sc.faults /\ readErrs = 0 /\ attempt = 1

\* --- control --------------------------------------------------------------
At(p) == pc = p /\ wait = "no"
Goto(p) == pc' = p /\ wait' = "no" /\ UNCHANGED <<expired, readErrs>>
\* WaitReady with its own timeout, and then on to p.
WaitReadyThen(p) == pc' = p /\ wait' = "fab" /\ expired' = FALSE /\ readErrs' = 0
Failed == IF pc \in {"parse", "unpeer", "enforce", "pready", "pdone"} THEN "pfailed" ELSE "failed"
\* Mutant: the wait goes on behind the error.
FailWaiting == pc' = Failed /\ UNCHANGED <<wait, expired, readErrs>>
Fail == pc' = Failed /\ wait' = "no" /\ UNCHANGED <<expired, readErrs>>
Fault == faults > 0 /\ faults' = faults - 1 /\ Fail
Note(kinds) == pend' = pend \cup kinds /\ UNCHANGED unapplied
\* A sleep, by whose end the controllers have written the agents' specs.
Merged == [c \in Agents |-> unapplied[c] \cup pend]
Sleep == pend' = {} /\ unapplied' = Merged

\* --- WaitReady ------------------------------------------------------------
\* A failed read goes straight into the next one, without a pause and without a
\* look at the timeout.
FabReadError ==
    /\ wait = "fab" /\ readErrs < MaxReadErrors
    /\ readErrs' = readErrs + 1
    /\ UNCHANGED <<sc, plan, next, pc, wait, expired, api, changed, deletedVPCs, servers, fabricState, wanted, faults, attempt>>
\* Up to date, applied and ready; then the switches and gateways are listed.
FabReady ==
    /\ wait = "fab"
    /\ \/ wait' = "agents" /\ UNCHANGED <<pc, expired, readErrs, faults>>
       \/ Fault
    /\ UNCHANGED <<sc, plan, next, api, changed, deletedVPCs, servers, fabricState, wanted, attempt>>
AgentsReady ==
    /\ wait = "agents" /\ \A c \in Expected : unapplied[c] = {}
    /\ wait' = "no"
    /\ UNCHANGED <<sc, plan, next, pc, expired, api, changed, deletedVPCs, servers, fabricState, wanted, faults, readErrs, attempt>>
\* Mutant: only the wait for the Fabricator looks at the timeout.
WaitTimeoutFabOnly ==
    /\ wait = "fab" /\ expired
    /\ Fail
    /\ UNCHANGED <<sc, plan, next, api, changed, deletedVPCs, servers, fabricState, wanted, faults, attempt>>
\* Not ready at a poll after the timeout, for one reason or another: a stale
\* heartbeat, an old version, not applied for long enough.
WaitTimeout ==
    /\ wait # "no" /\ expired
    /\ Fail
    /\ UNCHANGED <<sc, plan, next, api, changed, deletedVPCs, servers, fabricState, wanted, faults, attempt>>

\* --- SetupVPCs ------------------------------------------------------------
\* Options, Cumulus and MTU are looked at before anything is changed.
Start ==
    /\ At("start")
    /\ IF ~ValidOptions(Opts) \/ P2PRefused(Opts, sc.fabric) THEN Fail ELSE Goto("peerings")
    /\ UNCHANGED <<sc, plan, next, api, changed, deletedVPCs, servers, fabricState, wanted, faults, attempt>>

\* One DeleteAllOf after the other, which may fail half-way; gateway peerings only
\* with a gateway.
PeeringKinds == <<{"vpc"}, {"ext"}>> \o IF sc.gw THEN <<{"gw"}>> ELSE <<>>
DeletePeerings ==
    /\ At("peerings")
    /\ \E n \in 0..Len(PeeringKinds) :
         LET of(i) == {p \in peerings : p.kind \in PeeringKinds[i]}
             all == UNION {of(i) : i \in 1..n}
             begun == IF n < Len(PeeringKinds) THEN of(n + 1) ELSE {}
         IN \E part \in SUBSET begun :
            /\ peerings' = IF Opts.keepPeerings THEN peerings ELSE peerings \ (all \cup part)
            /\ Note(IF peerings' # peerings THEN {"peer"} ELSE {})
            /\ \/ n = Len(PeeringKinds) /\ Goto("plan") /\ UNCHANGED faults
               \/ n < Len(PeeringKinds) /\ ~Opts.keepPeerings /\ Fault
    /\ UNCHANGED <<sc, plan, next, vpcs, attaches, changed, deletedVPCs, servers, wanted, attempt>>

\* One turn of the loop over the servers; the plan may turn out to be impossible,
\* or a read fails.
PlanNext ==
    /\ At("plan") /\ next <= Len(sc.servers)
    /\ \/ /\ plan' = PlanServer(Resolved(Opts, sc.fabric), Namespaces(sc.servers, sc.vlans, sc.prefixes), plan, sc.servers[next])
          /\ next' = next + 1
          /\ IF plan'.err THEN Fail ELSE Goto("plan")
          /\ UNCHANGED faults
       \/ Fault /\ UNCHANGED <<plan, next>>
    /\ UNCHANGED <<sc, api, changed, deletedVPCs, servers, fabricState, wanted, attempt>>

\* The fabric is to be ready before the first change to it.
Planned ==
    /\ At("plan") /\ next > Len(sc.servers)
    /\ IF Opts.wait THEN WaitReadyThen("detach") ELSE Goto("detach")
    /\ UNCHANGED <<sc, plan, next, api, changed, deletedVPCs, servers, fabricState, wanted, faults, attempt>>

Unwanted(objects, planned) == {k \in DOMAIN objects : Opts.force \/ k \notin planned}
Without(objects, gone) == [k \in DOMAIN objects \ gone |-> objects[k]]

\* Mutant: --force-cleanup is forgotten for attachments.
UnwantedAttachmentsUnforced == {k \in DOMAIN attaches : k \notin AttachKeys(plan)}
UnwantedAttachments == Unwanted(attaches, AttachKeys(plan))
DeleteAttachments ==
    LET victims == UnwantedAttachments
    IN /\ At("detach")
       /\ \E gone \in SUBSET victims :
            /\ attaches' = Without(attaches, gone)
            /\ changed' = (changed \/ gone # {})
            /\ Note(IF gone # {} THEN {"vpc"} ELSE {})
            /\ \/ gone = victims /\ Goto("delete") /\ UNCHANGED faults
               \/ Fault
       /\ UNCHANGED <<sc, plan, next, vpcs, peerings, deletedVPCs, servers, wanted, attempt>>

DeleteVPCs ==
    LET victims == Unwanted(vpcs, PlannedVPCs(plan))
    IN /\ At("delete")
       /\ \E gone \in SUBSET victims :
            /\ vpcs' = Without(vpcs, gone)
            /\ changed' = (changed \/ gone # {}) /\ deletedVPCs' = (gone # {})
            /\ Note(IF gone # {} THEN {"vpc", "del"} ELSE {})
            /\ \/ gone = victims /\ Goto("settle") /\ UNCHANGED faults
               \/ Fault
       /\ UNCHANGED <<sc, plan, next, attaches, peerings, servers, wanted, attempt>>

\* Mutant: a short sleep only.
SettleShort ==
    /\ At("settle")
    /\ IF changed THEN Sleep ELSE UNCHANGED fabricState
    /\ Goto("create")
    /\ UNCHANGED <<sc, plan, next, api, changed, deletedVPCs, servers, wanted, faults, attempt>>
\* Deleted VPCs must be gone from the switches before they are made again.
Settle ==
    /\ At("settle")
    /\ IF changed THEN Sleep ELSE UNCHANGED fabricState
    /\ IF deletedVPCs /\ Opts.wait THEN WaitReadyThen("create") ELSE Goto("create")
    /\ UNCHANGED <<sc, plan, next, api, changed, deletedVPCs, servers, wanted, faults, attempt>>

\* Mutant: an object that exists is left as it is.
CreateOnly(objects, keys) == [k \in DOMAIN objects \cup keys |-> IF k \in DOMAIN objects THEN objects[k] ELSE "same"]
\* CreateOrUpdate leaves the planned spec and reports whether it had to write; the
\* client's cache, from which it decides, is taken to be up to date.
CreateOrUpdate(objects, keys) == [k \in DOMAIN objects \cup keys |-> IF k \in keys THEN "same" ELSE objects[k]]

CreateOrUpdateVPCs ==
    /\ At("create")
    /\ \E made \in SUBSET PlannedVPCs(plan) :
         /\ vpcs' = CreateOrUpdate(vpcs, made)
         /\ changed' = (changed \/ vpcs' # vpcs)
         /\ Note(IF vpcs' # vpcs THEN {"vpc"} ELSE {})
         /\ \/ made = PlannedVPCs(plan) /\ Goto("attach") /\ UNCHANGED faults
            \/ (\A v \in made, w \in PlannedVPCs(plan) : w < v => w \in made) /\ Fault
    /\ UNCHANGED <<sc, plan, next, attaches, peerings, deletedVPCs, servers, wanted, attempt>>

CreateOrUpdateAttachments ==
    /\ At("attach")
    /\ \E made \in SUBSET AttachKeys(plan) :
         /\ attaches' = CreateOrUpdate(attaches, made)
         /\ changed' = (changed \/ attaches' # attaches)
         /\ Note(IF attaches' # attaches THEN {"vpc"} ELSE {})
         /\ \/ made = AttachKeys(plan) /\ Goto("ready") /\ UNCHANGED faults
            \/ Fault
    /\ UNCHANGED <<sc, plan, next, vpcs, peerings, deletedVPCs, servers, wanted, attempt>>

\* Mutant: the wait before the changes is taken to be enough.
AwaitNothing ==
    /\ At("ready")
    /\ UNCHANGED fabricState /\ Goto("servers")
    /\ UNCHANGED <<sc, plan, next, api, changed, deletedVPCs, servers, wanted, faults, attempt>>
\* A longer sleep, since nothing tells when a change has reached the agents.
AwaitFabric ==
    /\ At("ready")
    /\ IF changed /\ Opts.wait THEN Sleep /\ WaitReadyThen("servers") ELSE UNCHANGED fabricState /\ Goto("servers")
    /\ UNCHANGED <<sc, plan, next, api, changed, deletedVPCs, servers, wanted, faults, attempt>>

\* --- one goroutine per server ---------------------------------------------
\* The right host; stops a host-bgp container and removes bonds, VLANs and VIPs.
\* "none" stands for what is left then, a point-to-point link's address included.
CleanServer(s) ==
    /\ At("servers") /\ s \in PlannedServers(plan) /\ srv[s] = "todo"
    /\ \/ srv' = [srv EXCEPT ![s] = "clean"] /\ conf' = [conf EXCEPT ![s] = "none"] /\ UNCHANGED faults
       \/ faults > 0 /\ faults' = faults - 1 /\ srv' = [srv EXCEPT ![s] = "failed"]
            /\ conf' \in {conf, [conf EXCEPT ![s] = "none"]}
    /\ UNCHANGED <<sc, plan, next, pc, wait, expired, api, changed, deletedVPCs, fabricState, wanted, readErrs, attempt>>

\* The length of the prefix hhnet or host-bgp reports, and the expected one.
AcquiredBits(cmd) == IF cmd.kind \in {"vlan", "bond"} /\ Opts.mode # "l2vni" THEN 32 ELSE cmd.bits
ExpectedBits(cmd) == IF Opts.mode = "l2vni" /\ cmd.kind # "hostbgp" THEN cmd.bits ELSE 32

\* Runs the command, checks the address and starts the iperf3 daemon.
ConfigureServer(s) ==
    /\ At("servers") /\ s \in PlannedServers(plan) /\ srv[s] = "clean"
    /\ LET cmd == CommandOf(plan, s)
       IN \/ /\ conf' = [conf EXCEPT ![s] = "new"] /\ UNCHANGED faults
             /\ srv' = [srv EXCEPT ![s] = IF AcquiredBits(cmd) = ExpectedBits(cmd) THEN "ok" ELSE "failed"]
          \/ /\ faults > 0 /\ faults' = faults - 1 /\ srv' = [srv EXCEPT ![s] = "failed"]
             /\ conf' \in {conf, [conf EXCEPT ![s] = "new"]}
    /\ UNCHANGED <<sc, plan, next, pc, wait, expired, api, changed, deletedVPCs, fabricState, wanted, readErrs, attempt>>

\* g.Wait: the others are not cancelled when one fails.  Then the endpoints of
\* all servers are collected.
JoinServers ==
    /\ At("servers") /\ \A s \in PlannedServers(plan) : srv[s] \in {"ok", "failed"}
    /\ IF \E s \in PlannedServers(plan) : srv[s] = "failed" THEN Fail /\ UNCHANGED faults
       ELSE (Goto("done") /\ UNCHANGED faults) \/ Fault
    /\ UNCHANGED <<sc, plan, next, api, changed, deletedVPCs, servers, fabricState, wanted, attempt>>

\* The command is called again; its locals start afresh, the API and the servers
\* are as they are, and the controllers have had the time to catch up.
Retry ==
    /\ At("failed") /\ attempt < MaxAttempts
    /\ attempt' = attempt + 1
    /\ Goto("start") /\ changed' = FALSE /\ deletedVPCs' = FALSE
    /\ plan' = EmptyPlan /\ next' = 1
    /\ srv' = [s \in ServerIDs |-> "todo"]
    /\ Sleep
    /\ UNCHANGED <<sc, api, conf, wanted, faults>>

\* --- SetupPeerings --------------------------------------------------------
SubnetName(i) == <<"subnet-01", "subnet-02", "subnet-03">>[i + 1]
\* Names start at vpc-01.
SubnetsOf == [v \in {w + 1 : w \in DOMAIN vpcs} |->
                 {SubnetName(plan.subnets[i].subnet) : i \in {j \in DOMAIN plan.subnets : plan.subnets[j].vpc = v - 1}}]

StartPeerings ==
    /\ At("done") /\ sc.reqs # <<>>
    /\ IF Opts.wait THEN WaitReadyThen("parse") ELSE Goto("parse")
    /\ UNCHANGED <<sc, plan, next, api, changed, deletedVPCs, servers, fabricState, wanted, faults, attempt>>

\* All requests are read before the first change.
ParseRequests ==
    /\ At("parse")
    /\ LET ps == SetupPeerings(sc.reqs, SubnetsOf, {"ext"})
       IN IF Invalid \in ps \/ (~sc.gw /\ \E p \in ps : p.kind = "gw")
          THEN Fail /\ UNCHANGED wanted ELSE Goto("unpeer") /\ wanted' = ps
    /\ changed' = FALSE
    /\ UNCHANGED <<sc, plan, next, api, deletedVPCs, servers, fabricState, faults, attempt>>

Kept(p) == \E q \in wanted : SameObject(p, q)
GoneWith(kinds) == {p \in peerings : p.kind \in kinds /\ ~Kept(p)}
Unpeer ==
    /\ At("unpeer")
    /\ LET victims == GoneWith(UNION ToSet(PeeringKinds))
       IN \E gone \in SUBSET victims :
            /\ peerings' = peerings \ gone
            /\ changed' = (gone # {})
            /\ Note(IF gone # {} THEN {"peer"} ELSE {})
            /\ (gone = victims /\ Goto("enforce") /\ UNCHANGED faults) \/ Fault
    /\ UNCHANGED <<sc, plan, next, vpcs, attaches, deletedVPCs, servers, wanted, attempt>>

\* In the order of a Go map; a peering of a VPC with itself ends it.
Enforce ==
    /\ At("enforce")
    /\ \E made \in SUBSET wanted :
         /\ peerings' = {p \in peerings : ~\E q \in made : SameObject(p, q)} \cup made
         /\ changed' = (changed \/ peerings' # peerings)
         /\ Note(IF peerings' # peerings THEN {"peer"} ELSE {})
         /\ ~\E p \in made : OneSided(p)
         /\ \/ made = wanted /\ Goto("pready") /\ UNCHANGED faults
            \/ (\E p \in wanted : OneSided(p)) /\ Fail /\ UNCHANGED faults
            \/ Fault
    /\ UNCHANGED <<sc, plan, next, vpcs, attaches, deletedVPCs, servers, wanted, attempt>>

AwaitPeerings ==
    /\ At("pready")
    /\ IF changed /\ Opts.wait THEN Sleep /\ WaitReadyThen("pdone") ELSE UNCHANGED fabricState /\ Goto("pdone")
    /\ UNCHANGED <<sc, plan, next, api, changed, deletedVPCs, servers, wanted, faults, attempt>>

\* --- the fabric and the clock ---------------------------------------------
Reflect ==
    /\ wait # "no" /\ pend # {}
    /\ Sleep
    /\ UNCHANGED <<sc, plan, next, pc, wait, expired, api, changed, deletedVPCs, servers, wanted, faults, readErrs, attempt>>
Apply(c) ==
    /\ wait # "no" /\ unapplied[c] # {}
    /\ unapplied' = [unapplied EXCEPT ![c] = {}]
    /\ UNCHANGED <<sc, plan, next, pc, wait, expired, api, changed, deletedVPCs, servers, pend, wanted, faults, readErrs, attempt>>
Expire ==
    /\ wait # "no" /\ ~expired
    /\ expired' = TRUE
    /\ UNCHANGED <<sc, plan, next, pc, wait, api, changed, deletedVPCs, servers, fabricState, wanted, faults, readErrs, attempt>>

Program ==
    \/ FabReadError \/ FabReady \/ AgentsReady \/ WaitTimeout
    \/ Start \/ DeletePeerings \/ PlanNext \/ Planned \/ DeleteAttachments \/ DeleteVPCs \/ Settle
    \/ CreateOrUpdateVPCs \/ CreateOrUpdateAttachments \/ AwaitFabric
    \/ (\E s \in ServerIDs : CleanServer(s) \/ ConfigureServer(s)) \/ JoinServers
    \/ Retry \/ StartPeerings \/ ParseRequests \/ Unpeer \/ Enforce \/ AwaitPeerings
Finished ==
    /\ wait = "no" /\ pc \in Ended
    /\ ~(pc = "done" /\ sc.reqs # <<>>) /\ ~(pc = "failed" /\ attempt < MaxAttempts)
Rest == Finished /\ UNCHANGED vars

Next == Program \/ Reflect \/ (\E c \in Agents : Apply(c)) \/ Expire \/ Rest
\* The program's steps follow one another and time passes; agents owe nothing.
Spec == Init /\ [][Next]_vars /\ WF_vars(Program) /\ WF_vars(Expire)
-----------------------------------------------------------------------------
(***************************************************************************)
(* Properties                                                              *)
(***************************************************************************)

\* Every variable has its type, and a WaitReady is only under way on the way to a
\* step that SetupVPCs or SetupPeerings takes after it: a failed one is over.
TypeOK ==
    /\ pc \in {"start", "peerings", "plan", "detach", "delete", "settle", "create", "attach", "ready", "servers",
               "parse", "unpeer", "enforce", "pready"} \cup Ended
    /\ wait \in {"no", "fab", "agents"}
    /\ wait # "no" => Opts.wait /\ pc \in {"detach", "create", "servers", "parse", "pdone"}
    /\ expired \in BOOLEAN /\ changed \in BOOLEAN /\ deletedVPCs \in BOOLEAN
    /\ srv \in [ServerIDs -> {"todo", "clean", "ok", "failed"}]
    /\ conf \in [ServerIDs -> {"none", "old", "new"}]
    /\ pend \subseteq {"vpc", "del", "peer"} /\ \A c \in Agents : unapplied[c] \subseteq {"vpc", "del", "peer"}
    /\ next \in 1..(Len(sc.servers) + 1)
    /\ faults \in Nat /\ readErrs \in 0..MaxReadErrors /\ attempt \in 1..MaxAttempts

\* While a plan is made, after every turn of the loop.
AtPlan == pc = "plan"
PlannedSoFar == 1..(next - 1)
Subnets == ToSet(plan.subnets)
OfServer(id) == {a \in plan.attaches : a.conn[1] = id}
In(sub) == {a.conn[1] : a \in {b \in plan.attaches : b.vpc = sub.vpc /\ b.subnet = sub.subnet}}

\* The plan of SetupVPCs never mixes host-BGP servers with others in one subnet: a
\* host-BGP subnet has no DHCP and only plain links, every server of any other
\* subnet gets its address from DHCP or from a /31.
SubnetsUniform ==
    AtPlan => \A sub \in Subnets :
        \A i \in PlannedSoFar : sc.servers[i].id \in In(sub) =>
            LET cmd == CommandOf(plan, sc.servers[i].id)
            IN /\ sub.hostBGP <=> cmd.kind = "hostbgp"
               /\ sub.hostBGP => ~sub.dhcp /\ \A k \in DOMAIN sc.servers[i].conns : sc.servers[i].conns[k] = "unbundled"
               /\ cmd.kind \in {"vlan", "bond"} => sub.dhcp /\ cmd.vlan = sub.vlan

\* No two subnets share a prefix or a VLAN, no two servers a fixed address (a VIP
\* or either end of a /31), and every fixed address lies in the prefix of the
\* server's subnet, however the counters of the plan roll over.  Up to 128
\* point-to-point servers fit into a subnet, which is what the theorem about it asks.
AddressesDistinct ==
    AtPlan =>
        /\ \A i, j \in DOMAIN plan.subnets : i # j =>
              plan.subnets[i].prefix # plan.subnets[j].prefix /\ plan.subnets[i].vlan # plan.subnets[j].vlan
        /\ \A i, j \in DOMAIN plan.confs : i # j =>
              FixedAddresses(plan.confs[i].cmd) \cap FixedAddresses(plan.confs[j].cmd) = {}
        /\ \A sub \in Subnets, id \in PlannedServers(plan) : id \in In(sub) =>
              \A a \in FixedAddresses(CommandOf(plan, id)) : a \div PrefixSize = sub.prefix

\* Every server SetupVPCs does not pass over is attached to exactly one subnet, by
\* all of its links if it has several, and gets one command for just these links;
\* subnets and VPCs hold no more than was asked for.
EveryServerServed ==
    AtPlan =>
        /\ \A i \in PlannedSoFar :
              LET s == sc.servers[i]
              IN IF PassedOver(Opts, s) THEN OfServer(s.id) = {} /\ s.id \notin PlannedServers(plan)
                 ELSE /\ {a.conn[2] : a \in OfServer(s.id)} = DOMAIN s.conns
                      /\ Cardinality({<<a.vpc, a.subnet>> : a \in OfServer(s.id)}) = 1
                      /\ Cardinality({k \in DOMAIN plan.confs : plan.confs[k].server = s.id}) = 1
                      /\ CommandOf(plan, s.id).conns = {a.conn : a \in OfServer(s.id)}
        /\ \A sub \in Subnets : Cardinality(In(sub)) \in 1..Opts.perSubnet /\ sub.subnet < Opts.perVPC
        /\ \A a \in plan.attaches : \E sub \in Subnets : sub.vpc = a.vpc /\ sub.subnet = a.subnet

\* When SetupVPCs returns without an error, whatever earlier runs and failed
\* attempts left, the API holds exactly the planned VPCs and attachments with the
\* planned specs, every planned server has its new configuration, and no peering
\* is left unless they were to be kept or only a disabled gateway has them.
SuccessMeansPlanned ==
    pc = "done" =>
        /\ vpcs = SameAs(PlannedVPCs(plan)) /\ attaches = SameAs(AttachKeys(plan))
        /\ \A s \in PlannedServers(plan) : conf[s] = "new"
        /\ ~Opts.keepPeerings => \A p \in peerings : ~sc.gw /\ p.kind = "gw"

\* At no time, and after no failure, does an attachment refer to a VPC that the
\* API does not hold.
AttachmentsHaveVPC == \A k \in DOMAIN attaches : k.vpc \in DOMAIN vpcs

\* With waiting asked for, servers are only configured once every switch and
\* gateway runs the VPCs and attachments of the API, and SetupPeerings only
\* succeeds once they run its peerings, even if the changes were made by an
\* attempt that failed later.
ReadyMeansApplied ==
    Opts.wait /\ wait = "no" =>
        \A kind \in {"vpc", "peer"} :
            pc = (IF kind = "vpc" THEN "servers" ELSE "pdone") =>
                kind \notin pend /\ \A c \in Expected : kind \notin unapplied[c]

\* With waiting asked for, no VPC is created while a deletion of VPCs is still on
\* its way to a switch (fabric issue 656), whichever attempt deleted them.
DeletionsSettled ==
    Opts.wait /\ At("create") => "del" \notin pend /\ \A c \in Expected : "del" \notin unapplied[c]

HasOpt(r, key) == \E i \in DOMAIN r.opts : r.opts[i].key = key
ValueOf(r, key) == r.opts[CHOOSE i \in DOMAIN r.opts : r.opts[i].key = key].val
NATHonoured(r, expose, side) ==
    LET as == HasOpt(r, SideKeys("as")[side])
        nat == HasOpt(r, SideKeys("nat")[side])
        pf == HasOpt(r, SideKeys("pf")[side])
    IN /\ (nat \/ pf) => as
       /\ as <=> expose.as # <<>>
       /\ as <=> expose.nat # ""
       /\ as /\ ~nat => expose.nat = "static"
       /\ nat => expose.nat = parseNatType(ValueOf(r, SideKeys("nat")[side]))
       /\ pf <=> expose.ports # <<>>
       /\ expose.ports # <<>> <=> expose.nat = "port-forward"
Honours(p, r) ==
    /\ p.kind = (IF HasOpt(r, "gw") THEN "gw" ELSE IF r.sep = "+" THEN "vpc" ELSE "ext")
    /\ {p.name[1], p.name[2]} = {r.parts[1].vpc, r.parts[2].vpc} /\ p.name[3] = r.parts[2].ext
    /\ IF HasOpt(r, "gw")
       THEN \A side \in Sides : NATHonoured(r, p.spec[side], side)
       ELSE \A side \in Sides, w \in {"as", "nat", "pf"} : ~HasOpt(r, SideKeys(w)[side])
    /\ r.sep = "~" /\ p.kind = "gw" => (p.spec[2].default <=> p.spec[2].ips = {})
    /\ \A side \in Sides : \A ip \in p.spec[side].ips : ip[1] = p.name[side]
\* When SetupPeerings succeeds, each request that is alone for its two ends has a
\* peering of its kind in which no NAT prefix, NAT type or port-forward option of
\* the request was dropped (of a list of several, that it is not empty), and no
\* peering is there that nobody requested.
RequestsHonoured ==
    At("pdone") =>
        LET made(i) == ParseRequest(sc.reqs[i], SubnetsOf, {"ext"})
            alone(i) == \A j \in DOMAIN sc.reqs : j # i => ~SameObject(made(i), made(j))
        IN /\ \A i \in DOMAIN sc.reqs : alone(i) => \E p \in peerings : Honours(p, sc.reqs[i])
           /\ \A p \in peerings : p.kind \in UNION ToSet(PeeringKinds) => \E i \in DOMAIN sc.reqs : SameObject(p, made(i))

\* Every call ends, whatever the agents do: WaitReady's timeouts do not let the
\* program wait for ever (reads of the Fabricator failing only now and then).
EveryCallEnds == <>[](Finished)
=============================================================================
