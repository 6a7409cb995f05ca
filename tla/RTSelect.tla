------------------------------- MODULE RTSelect -------------------------------
(***************************************************************************)
(* What RunReleaseTestSuites finds out about the fabric before the first   *)
(* suite: findExternals and the skip flags (rt_base.go).  An external is a *)
(* record of name, static, hw (it is hardware) and attach, the set of its  *)
(* attachments: [static, proxy, hw] (hw: the connection is hardware).      *)
(***************************************************************************)
EXTENDS Naturals, Sequences, FiniteSets, SequencesExt

hasAttachment(e) == e.attach # {}
hasStaticAttachments(e) == e.attach # {} /\ \A a \in e.attach : a.static /\ ~a.proxy
allAttachmentsHW(e) == \A a \in e.attach : a.hw

\* One pass over externals: the first of each kind that is still missing.
findPass(exts, found) ==
    LET first(P(_), have) ==
          LET hits == SelectSeq(exts, LAMBDA e : hasAttachment(e) /\ P(e))
          IN  IF have # "" \/ hits = <<>> THEN have ELSE hits[1].name
    IN  [bgp |-> first(LAMBDA e : ~e.static, found.bgp),
         static |-> first(LAMBDA e : e.static /\ hasStaticAttachments(e), found.static)]

\* Hardware externals, then those reached through hardware, then any.
findExternals(exts) ==
    LET one == findPass(SelectSeq(exts, LAMBDA e : e.hw), [bgp |-> "", static |-> ""])
        two == findPass(SelectSeq(exts, allAttachmentsHW), one)
    IN  findPass(exts, two)

\* The flags.  A switch is a record of leaf, virtual, subIf and roce; the fabric
\* one of servers (a number), mesh and spine (whether there are such links),
\* gwEnabled, gateways (a number), switches, externals, loki and prom.
skipFlags(f) ==
    LET leaves == {sw \in f.switches : sw.leaf}
        ext == findExternals(f.externals)
    IN  (IF f.servers = 0 THEN {"NoServers"} ELSE {})
        \cup (IF ~f.mesh THEN {"NoMeshLink"} ELSE {})
        \cup (IF ~f.spine THEN {"NoFabricLink"} ELSE {})
        \cup (IF ~f.gwEnabled \/ f.gateways = 0 THEN {"NoGateway"} ELSE {})
        \cup (IF \E sw \in f.switches : sw.virtual THEN {"VirtualSwitch"} ELSE {})
        \cup (IF \E sw \in leaves : ~sw.subIf THEN {"SubInterfaces"} ELSE {})
        \cup (IF \A sw \in leaves : ~sw.roce \/ sw.virtual THEN {"RoCE"} ELSE {})
        \cup (IF ext.bgp = "" THEN {"NoBGPExternals"} ELSE {})
        \cup (IF ext.static = "" THEN {"NoStaticExternals"} ELSE {})
        \cup (IF ~f.loki THEN {"NoLoki"} ELSE {})
        \cup (IF ~f.prom THEN {"NoProm"} ELSE {})
=============================================================================
