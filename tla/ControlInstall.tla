--------------------------- MODULE ControlInstall ---------------------------
(***************************************************************************)
(* The install recipe of the control node: DoInstall and ControlInstall.Run*)
(* of pkg/fab/recipe, started again by systemd until the install marker    *)
(* exists, over what one attempt leaves behind for the next: files of the  *)
(* node, objects of the cluster, and the Fabricator that the controller    *)
(* applies meanwhile.                                                      *)
(*                                                                         *)
(* A registry password is the attempt's own (zot.NewUsers), kept as a      *)
(* value of Pass; a CA is a value of CA.  Copying binaries, time sync and  *)
(* uploads to the registry are idempotent and belong to the step they      *)
(* precede.                                                                *)
(***************************************************************************)
EXTENDS Naturals

CONSTANTS
    Pass,        \* the password sets attempts can generate
    CA,          \* the certificate authorities attempts can generate
    None,        \* what has not been written yet
    NInc,        \* number of included wiring objects, created in order
    FaultSteps,  \* where an attempt may fail: error, timeout or crash
    MaxFaults    \* bound on such failures and on those of the reconciler

Steps == {"k8s", "namespace", "certManager", "caSecret", "caMap", "caFile",
          "reader", "htpasswd", "zot", "zotWait", "fabricator", "fabConfig",
          "applied", "include", "marker", "markerText"}

ASSUME InstallAssumption ==
    /\ None \notin Pass \cup CA
    /\ NInc \in Nat
    /\ FaultSteps \subseteq Steps
    /\ MaxFaults \in Nat

VARIABLES
    pc,         \* the step of the running attempt, or "idle"
    pass,       \* the attempt's password of the reader
    ca,         \* the CA the attempt works with
    marker,     \* /opt/hedgehog/.install: "absent", "empty" or "complete"
    regFile,    \* password in the node's registries.yaml
    caFile,     \* CA in the node's trust store
    ns,         \* the namespace exists
    caSecret,   \* CA in the fab-ca secret
    caMap,      \* CA in the fab-ca config map
    reader,     \* password in the reader's secrets
    htpasswd,   \* password zot accepts for the reader
    zot,        \* zot's chart exists
    zotCert,    \* the CA that signed zot's certificate
    f8r,        \* fabricator's chart exists
    fab,        \* the Fabricator object exists
    rec,        \* password the running Reconcile has read
    nodeRegs,   \* password in the fab-node-registries secret
    applied,    \* the Fabricator says Applied
    inc,        \* how many of the included objects exist
    at,         \* how many of them the attempt has created
    faults

attempt == <<pc, pass, ca, at>>
node    == <<marker, regFile, caFile>>
certs   == <<caSecret, caMap, zotCert>>
cluster == <<ns, certs, reader, htpasswd, zot, f8r, fab, inc>>
reconc  == <<rec, nodeRegs, applied>>
vars    == <<attempt, node, cluster, reconc, faults>>

Goto(l) == pc' = l

-----------------------------------------------------------------------------
(* One attempt.                                                            *)

\* systemd runs the recipe as long as there is no marker; every attempt
\* generates its registry users.
DoInstall(p) ==
    /\ pc = "idle" /\ marker = "absent"
    /\ p \notin {regFile, reader, htpasswd, rec, nodeRegs}
    /\ pass' = p
    /\ at' = 0
    /\ Goto("k8s")
    /\ UNCHANGED <<ca, node, cluster, reconc, faults>>

\* The attempt returns an error.
Return ==
    /\ Goto("idle")
    /\ pass' = None
    /\ ca' = None
    /\ at' = 0
    /\ UNCHANGED <<node, cluster, reconc>>

\* Writes registries.yaml and runs the k3s installer; a k3s that an earlier
\* attempt has started keeps the file it began with, which is not followed.
InstallK8s ==
    /\ pc = "k8s"
    /\ regFile' = pass
    /\ Goto("namespace")
    /\ UNCHANGED <<pass, ca, at, marker, caFile, cluster, reconc, faults>>

\* Mutant: a namespace that already exists is an error.
CreateNamespaceOnce ==
    /\ pc = "namespace"
    /\ \/ /\ ~ns /\ ns' = TRUE /\ Goto("certManager")
          /\ UNCHANGED <<pass, ca, at, node, certs, reader, htpasswd, zot,
                         f8r, fab, inc, reconc>>
       \/ ns /\ Return
    /\ UNCHANGED faults

CreateNamespace ==
    /\ pc = "namespace"
    /\ ns' = TRUE
    /\ Goto("certManager")
    /\ UNCHANGED <<pass, ca, at, node, certs, reader, htpasswd, zot, f8r,
                   fab, inc, reconc, faults>>

InstallCertManager ==
    /\ pc = "certManager"
    /\ Goto("caSecret")
    /\ UNCHANGED <<pass, ca, at, node, cluster, reconc, faults>>

\* Mutant: every attempt brings a CA of its own.
InstallFabCAAnew(k) ==
    /\ pc = "caSecret" /\ k # caSecret
    /\ ca' = k
    /\ caSecret' = k
    /\ Goto("caMap")
    /\ UNCHANGED <<pass, at, node, ns, caMap, reader, htpasswd, zot, zotCert,
                   f8r, fab, inc, reconc, faults>>

\* installFabCA takes the CA of the secret, or generates one.
InstallFabCA(k) ==
    /\ pc = "caSecret" /\ caSecret \in {None, k}
    /\ ca' = k
    /\ caSecret' = k
    /\ Goto("caMap")
    /\ UNCHANGED <<pass, at, node, ns, caMap, reader, htpasswd, zot, zotCert,
                   f8r, fab, inc, reconc, faults>>

InstallFabCAMap ==
    /\ pc = "caMap"
    /\ caMap' = ca
    /\ Goto("caFile")
    /\ UNCHANGED <<pass, ca, at, node, ns, caSecret, reader, htpasswd, zot,
                   zotCert, f8r, fab, inc, reconc, faults>>

WriteFabCA ==
    /\ pc = "caFile"
    /\ caFile' = ca
    /\ Goto("reader")
    /\ UNCHANGED <<pass, ca, at, marker, regFile, cluster, reconc, faults>>

\* zot.InstallUsers: the users' secrets, the htpasswd last.
InstallUsers ==
    /\ pc = "reader"
    /\ reader' = pass
    /\ Goto("htpasswd")
    /\ UNCHANGED <<pass, ca, at, node, ns, certs, htpasswd, zot, f8r, fab,
                   inc, reconc, faults>>

\* Mutant: an htpasswd that already exists is kept.
InstallHtpasswdOnce ==
    /\ pc = "htpasswd"
    /\ htpasswd' = IF htpasswd = None THEN pass ELSE htpasswd
    /\ Goto("zot")
    /\ UNCHANGED <<pass, ca, at, node, ns, certs, reader, zot, f8r, fab, inc,
                   reconc, faults>>

InstallHtpasswd ==
    /\ pc = "htpasswd"
    /\ htpasswd' = pass
    /\ Goto("zot")
    /\ UNCHANGED <<pass, ca, at, node, ns, certs, reader, zot, f8r, fab, inc,
                   reconc, faults>>

InstallZot ==
    /\ pc = "zot"
    /\ zot' = TRUE
    /\ Goto("zotWait")
    /\ UNCHANGED <<pass, ca, at, node, ns, certs, reader, htpasswd, f8r, fab,
                   inc, reconc, faults>>

\* waitURL trusts nothing but the attempt's CA: zot answers only with a
\* certificate of that one.
WaitZot ==
    /\ pc = "zotWait" /\ zotCert = ca
    /\ Goto("fabricator")
    /\ UNCHANGED <<pass, ca, at, node, cluster, reconc, faults>>

InstallFabricator ==
    /\ pc = "fabricator"
    /\ f8r' = TRUE
    /\ Goto("fabConfig")
    /\ UNCHANGED <<pass, ca, at, node, ns, certs, reader, htpasswd, zot, fab,
                   inc, reconc, faults>>

\* The same Fabricator as the last attempt's: nothing changes.
InstallFabConfig ==
    /\ pc = "fabConfig"
    /\ fab' = TRUE
    /\ Goto("applied")
    /\ UNCHANGED <<pass, ca, at, node, ns, certs, reader, htpasswd, zot, f8r,
                   inc, reconc, faults>>

WaitApplied ==
    /\ pc = "applied" /\ applied
    /\ Goto("include")
    /\ UNCHANGED <<pass, ca, at, node, cluster, reconc, faults>>

\* Mutant: one object too many.
InstallIncludePastEnd ==
    /\ pc = "include" /\ at = inc
    /\ inc' = inc + 1 /\ at' = at + 1
    /\ UNCHANGED <<pc, pass, ca, node, ns, certs, reader, htpasswd, zot, f8r,
                   fab, reconc, faults>>

\* installInclude creates object after object; one that exists already
\* fails the attempt, however often its creation is retried.
InstallInclude ==
    /\ pc = "include" /\ at < NInc
    /\ \/ /\ at = inc /\ inc' = inc + 1 /\ at' = at + 1
          /\ UNCHANGED <<pc, pass, ca, node, ns, certs, reader, htpasswd,
                         zot, f8r, fab, reconc>>
       \/ at < inc /\ Return
    /\ UNCHANGED faults

\* The response to a creation is lost and the creation retried.
LoseResponse ==
    /\ pc = "include" /\ at = inc /\ at < NInc
    /\ "include" \in FaultSteps /\ faults < MaxFaults
    /\ faults' = faults + 1
    /\ inc' = inc + 1
    /\ UNCHANGED <<attempt, node, ns, certs, reader, htpasswd, zot, f8r, fab,
                   reconc>>

IncludeDone ==
    /\ pc = "include" /\ at = NInc
    /\ Goto("marker")
    /\ UNCHANGED <<pass, ca, at, node, cluster, reconc, faults>>

\* os.WriteFile creates the marker and then fills it.
CreateMarker ==
    /\ pc = "marker"
    /\ marker' = "empty"
    /\ Goto("markerText")
    /\ UNCHANGED <<pass, ca, at, regFile, caFile, cluster, reconc, faults>>

WriteMarker ==
    /\ pc = "markerText"
    /\ marker' = "complete"
    /\ Goto("idle")
    /\ pass' = None
    /\ ca' = None
    /\ at' = 0
    /\ UNCHANGED <<regFile, caFile, cluster, reconc, faults>>

Fault ==
    /\ pc \in FaultSteps /\ faults < MaxFaults
    /\ faults' = faults + 1
    /\ Return

-----------------------------------------------------------------------------
(* What runs beside it.                                                    *)

\* cert-manager signs zot's certificate once; a later CA would not make it
\* sign again before the installer gives up.
IssueZotCert ==
    /\ zot /\ zotCert = None /\ caSecret # None
    /\ zotCert' = caSecret
    /\ UNCHANGED <<attempt, node, ns, caSecret, caMap, reader, htpasswd, zot,
                   f8r, fab, inc, reconc, faults>>

\* Reconcile applies a Fabricator that is not applied: it reads the reader's
\* password and, several writes later, stores it for the other nodes.
RecRead ==
    /\ f8r /\ fab /\ ~applied /\ rec = None
    /\ rec' = reader
    /\ UNCHANGED <<attempt, node, cluster, nodeRegs, applied, faults>>

RecApply ==
    /\ rec # None
    /\ nodeRegs' = rec
    /\ applied' = TRUE
    /\ rec' = None
    /\ UNCHANGED <<attempt, node, cluster, faults>>

RecFault ==
    /\ rec # None /\ faults < MaxFaults
    /\ faults' = faults + 1
    /\ \E p \in {nodeRegs, rec} : nodeRegs' = p
    /\ rec' = None
    /\ UNCHANGED <<attempt, node, cluster, applied>>

-----------------------------------------------------------------------------
Init ==
    /\ pc = "idle" /\ pass = None /\ ca = None /\ at = 0
    /\ marker = "absent" /\ regFile = None /\ caFile = None
    /\ ns = FALSE /\ caSecret = None /\ caMap = None /\ zotCert = None
    /\ reader = None /\ htpasswd = None /\ zot = FALSE
    /\ f8r = FALSE /\ fab = FALSE /\ inc = 0
    /\ rec = None /\ nodeRegs = None /\ applied = FALSE
    /\ faults = 0

Run ==
    \/ InstallK8s \/ CreateNamespace \/ InstallCertManager
    \/ (\E k \in CA : InstallFabCA(k)) \/ InstallFabCAMap \/ WriteFabCA
    \/ InstallUsers \/ InstallHtpasswd \/ InstallZot \/ WaitZot
    \/ InstallFabricator \/ InstallFabConfig \/ WaitApplied
    \/ InstallInclude \/ IncludeDone \/ CreateMarker \/ WriteMarker

\* Installed, with nothing left to apply: the end.
Done ==
    /\ pc = "idle" /\ marker # "absent" /\ applied /\ rec = None
    /\ UNCHANGED vars

Next ==
    \/ \E p \in Pass : DoInstall(p)
    \/ Run
    \/ LoseResponse
    \/ Fault
    \/ IssueZotCert
    \/ RecRead
    \/ RecApply
    \/ RecFault
    \/ Done

Spec == Init /\ [][Next]_vars

\* systemd restarts a failed recipe, a running one goes on, and so do
\* cert-manager and the controller.
FairSpec ==
    /\ Spec
    /\ WF_vars(\E p \in Pass : DoInstall(p))
    /\ WF_vars(Run)
    /\ WF_vars(IssueZotCert)
    /\ WF_vars(RecRead)
    /\ WF_vars(RecApply)

-----------------------------------------------------------------------------
(* Properties.                                                             *)

\* Every variable has its type.
TypeOK ==
    /\ pc \in Steps \cup {"idle"}
    /\ {pass, regFile, reader, htpasswd, rec, nodeRegs} \subseteq Pass \cup {None}
    /\ {ca, caFile, caSecret, caMap, zotCert} \subseteq CA \cup {None}
    /\ marker \in {"absent", "empty", "complete"}
    /\ ns \in BOOLEAN /\ zot \in BOOLEAN /\ f8r \in BOOLEAN
    /\ fab \in BOOLEAN /\ applied \in BOOLEAN
    /\ inc \in 0..NInc /\ at \in 0..inc
    /\ faults \in 0..MaxFaults

\* "Reuse the existing CA to avoid invalidating Zot's cert on retry": however
\* often and wherever attempts fail, zot's certificate is always of the CA
\* that the cluster and the node trust.
ZotCertValid ==
    zotCert # None => caSecret = zotCert /\ caMap = zotCert /\ caFile = zotCert

\* Once the marker exists, one and the same attempt's password is what the
\* node's registries.yaml and the secrets hold and what zot accepts, the
\* Fabricator is applied and all the included objects exist.  The nodes that
\* joined meanwhile (nodeRegs) may have an older one.
InstalledConsistent ==
    marker # "absent" =>
        /\ regFile = htpasswd /\ reader = htpasswd /\ htpasswd # None
        /\ zotCert # None
        /\ applied /\ inc = NInc

\* Attempts that fail before the first included object are repaired by a
\* later one: unless one ends between that object and the marker's text, the
\* installation completes.
Completes ==
    [](pc = "idle" => marker = "complete" \/ (marker = "absent" /\ inc = 0))
        => <>(marker = "complete")

\* "Restart=on-failure": a failed attempt is repaired by a later one,
\* wherever it failed, and the installation completes.
AlwaysCompletes == <>(marker = "complete")
=============================================================================
