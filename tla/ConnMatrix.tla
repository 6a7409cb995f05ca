------------------------------ MODULE ConnMatrix ------------------------------
(***************************************************************************)
(* The connectivity matrix (pkg/hhfab/matrix.go) and the discovery of the  *)
(* endpoints it is about (pkg/hhfab/endpoints.go).                         *)
(*                                                                         *)
(* A matrix m is a record: eps, the set of its endpoints; ip, the address  *)
(* of each server endpoint; ent, a partial function from <<source,         *)
(* destination, proto-port>> to an expectation [verdict, nat]; dropped,    *)
(* the servers with an attachment or address that gave no endpoint.        *)
(* Endpoints are identified by (server, VPC, subnet) or by the external:   *)
(* an update in place keeps exactly these.                                 *)
(***************************************************************************)
EXTENDS Reachability, TLC, Functions

DefaultPP == <<"", 0>>

NilNAT == [nil |-> TRUE, pool |-> FALSE, ip |-> 0, port |-> 0]
Expect(v, nat) == [verdict |-> v, nat |-> nat]

ServerEP(s, vpc, sub) == [srv |-> s, vpc |-> vpc, sub |-> sub, ext |-> ""]
ExternalEP(x) == [srv |-> "", vpc |-> "", sub |-> "", ext |-> x]
IsServer(ep) == ep.srv # ""
ServerInVPC(m, vpc) == {ep \in m.eps : IsServer(ep) /\ ep.vpc = vpc}
ExternalNamed(m, x) == {ep \in m.eps : ep.ext = x}
IsSameEndpointNode(a, b) == a.srv = b.srv /\ a.ext = b.ext

\* What f says wins over what g says.
Over(f, g) == [k \in DOMAIN f \cup DOMAIN g |-> IF k \in DOMAIN f THEN f[k] ELSE g[k]]

\* Inserts or replaces the expectations of f.
Add(m, f) == [m EXCEPT !.ent = Over(f, @)]

Lookup(m, src, dst, pp) ==
    IF <<src, dst, pp>> \in DOMAIN m.ent THEN m.ent[<<src, dst, pp>>]
    ELSE IF <<src, dst, DefaultPP>> \in DOMAIN m.ent THEN m.ent[<<src, dst, DefaultPP>>]
    ELSE Expect("deny", NilNAT)

ProtoPortEntries(m, src, dst) ==
    {k[3] : k \in {j \in DOMAIN m.ent : j[1] = src /\ j[2] = dst /\ j[3] # DefaultPP}}

HasProtoPortEntries(m, src, dst) == ProtoPortEntries(m, src, dst) # {}

reachabilityFromExpectation(e) == e.verdict = "allow"

-----------------------------------------------------------------------------
(* Populating and overlaying.                                               *)

\* External-originated traffic is not modelled, nor is a server to itself.
populateConnectivityMatrix(m, c) ==
    LET answer(p) == IF IsServer(p[2]) THEN IsServerReachable(c, p[1].srv, p[2].srv)
                                       ELSE IsExternalSubnetReachable(c, p[1].srv)
        pairs == {p \in m.eps \X m.eps : IsServer(p[1]) /\ ~IsSameEndpointNode(p[1], p[2])}
        known == {<<p[1], p[2], DefaultPP>> : p \in {q \in pairs : answer(q) # "no"}}
    IN  [m EXCEPT !.ent = [k \in known |->
            Expect(IF answer(<<k[1], k[2]>>) = "yes" THEN "allow" ELSE "unknown", NilNAT)]]

\* The mutator u changes what it names and keeps the NAT the entry has.
OverlayMatrixNAT(m, srcs, dsts, u) ==
    LET nat(k) == LET old == Lookup(m, k[1], k[2], DefaultPP).nat
                  IN  [nil |-> FALSE, pool |-> old.pool \/ u[k[2]].pool,
                       ip |-> IF u[k[2]].ip = 0 THEN old.ip ELSE u[k[2]].ip,
                       port |-> IF u[k[2]].port = 0 THEN old.port ELSE u[k[2]].port]
    IN  Add(m, [k \in srcs \X dsts \X {DefaultPP} |-> Expect("allow", nat(k))])

-----------------------------------------------------------------------------
(* Discovery.                                                               *)

\* addrs[s]: what discoverServerIPs finds on s, in the order of its interfaces.

\* Attachments of a host-BGP server to one subnet collapse to one candidate.
Candidates(c, srv) ==
    {i \in DOMAIN c.att :
        /\ c.att[i].srv = srv
        /\ c.att[i].hostBGP => \A j \in 1..(i - 1) : c.att[j] # c.att[i]}

\* The subnets of a server's attachments are disjoint in this lab: the
\* narrowest one that holds an address is the first one that does.
BestMatch(c, srv, ip) ==
    LET fits == {i \in Candidates(c, srv) : Holds(<<c.att[i].vpc, c.att[i].sub>>, ip)}
    IN  {i \in fits : \A j \in fits : i <= j}

\* A server without any address is skipped and not recorded as a drop.
CollectServerEndpoints(c, addrs, servers) ==
    LET seen     == {s \in servers : Candidates(c, s) # {} /\ addrs[s] # <<>>}
        used(s)  == UNION {BestMatch(c, s, addrs[s][k]) : k \in DOMAIN addrs[s]}
        firstOf(s, i) == addrs[s][CHOOSE k \in DOMAIN addrs[s] :
                              /\ BestMatch(c, s, addrs[s][k]) = {i}
                              /\ \A l \in 1..(k - 1) : BestMatch(c, s, addrs[s][l]) # {i}]
        ep(i)    == ServerEP(c.att[i].srv, c.att[i].vpc, c.att[i].sub)
        found    == UNION {used(s) : s \in seen}
    IN  [ip |-> [e \in {ep(i) : i \in found} |->
                    firstOf(e.srv, CHOOSE i \in found : ep(i) = e)],
         dropped |-> {s \in seen : \/ used(s) # Candidates(c, s)
                                   \/ \E k \in DOMAIN addrs[s] : BestMatch(c, s, addrs[s][k]) = {}}]

BuildConnectivityMatrix(c, col) ==
    LET exts == {ExternalEP(x) : x \in Externals}
    IN  populateConnectivityMatrix([eps |-> DOMAIN col.ip \cup exts, ip |-> col.ip,
                                    ent |-> <<>>, dropped |-> col.dropped], c)

\* Mutant: entries of endpoints that are gone stay.
ReplaceServerEndpointsKeep(m, srv, newIP) ==
    LET kept  == {ep \in m.eps : ep.srv # srv \/ ep \in DOMAIN newIP}
        others == Restrict(m.ip, {ep \in DOMAIN m.ip : ep.srv # srv})
    IN  [m EXCEPT !.eps = kept \cup DOMAIN newIP, !.ip = Over(newIP, others)]

\* Endpoints of the server that are gone leave the matrix with their entries;
\* the others keep theirs and take the new address.
ReplaceServerEndpoints(m, srv, newIP) ==
    LET kept  == {ep \in m.eps : ep.srv # srv \/ ep \in DOMAIN newIP}
        others == Restrict(m.ip, {ep \in DOMAIN m.ip : ep.srv # srv})
    IN  [m EXCEPT !.eps = kept \cup DOMAIN newIP, !.ip = Over(newIP, others),
                  !.ent = Restrict(@, {k \in DOMAIN @ : {k[1], k[2]} \subseteq kept})]

ReplaceServerDrops(m, srv, drops) ==
    [m EXCEPT !.dropped = (@ \ {srv}) \cup (drops \cap {srv})]

-----------------------------------------------------------------------------
(* Is the matrix fit to be an oracle?                                       *)

\* An external the curl phase may count on: allowed, and either untranslated
\* or behind a source pool.
externalCurlAllowed(m, src) ==
    \E dst \in m.eps :
        /\ ~IsServer(dst)
        /\ LET e == Lookup(m, src, dst, DefaultPP)
           IN  e.verdict = "allow" /\ (e.nat.nil \/ e.nat.pool)

defaultEntryShadowed(m, k) ==
    /\ k[3] = DefaultPP
    /\ IsServer(k[1]) /\ IsServer(k[2])
    /\ m.ent[k].nat.port = 0
    /\ HasProtoPortEntries(m, k[1], k[2])

Unknowns(m) ==
    {k \in DOMAIN m.ent :
        /\ m.ent[k].verdict = "unknown"
        /\ ~(~IsServer(k[2]) /\ externalCurlAllowed(m, k[1]))
        /\ ~defaultEntryShadowed(m, k)}

\* Mutants: a part of the topology that discovery did not see is fine; what
\* nobody could evaluate is a deny.
ValidateBlind(m) == m.eps # {} /\ Unknowns(m) = {}
ValidateTrusting(m) == m.eps # {} /\ m.dropped = {}

Validate(m) == m.eps # {} /\ m.dropped = {} /\ Unknowns(m) = {}
=============================================================================
