------------------------ MODULE ControlInstallProofs ------------------------
(***************************************************************************)
(* Proofs about ControlInstall for every number of attempts, faults and    *)
(* included objects, whatever steps attempts fail at.                      *)
(***************************************************************************)
EXTENDS ControlInstall, TLAPS

USE InstallAssumption

\* The steps that come after the one that writes registries.yaml, the reader's
\* secrets, the htpasswd, the CA's file and so on.
AfterMarker   == {"markerText"}
AfterInclude  == AfterMarker \cup {"marker"}
AfterApplied  == AfterInclude \cup {"include"}
AfterZotWait  == AfterApplied \cup {"fabricator", "fabConfig", "applied"}
AfterHtpasswd == AfterZotWait \cup {"zot", "zotWait"}
AfterReader   == AfterHtpasswd \cup {"htpasswd"}
AfterCAFile   == AfterReader \cup {"reader"}
AfterCAMap    == AfterCAFile \cup {"caFile"}
AfterCASecret == AfterCAMap \cup {"caMap"}
AfterK8s      == AfterCASecret \cup {"namespace", "certManager", "caSecret"}

\* What an attempt has written so far carries its own password.
PassStages ==
    /\ pc # "idle" => pass # None
    /\ pc \in AfterK8s => regFile = pass
    /\ pc \in AfterReader => reader = pass
    /\ pc \in AfterHtpasswd => htpasswd = pass

\* The CA of an attempt is the one of the secret, and what was written from
\* it before, by whichever attempt, is the same CA.
CAStages ==
    /\ pc \in AfterCASecret => ca = caSecret /\ caSecret # None
    /\ pc \in AfterCAMap => caMap = caSecret
    /\ pc \in AfterCAFile => caFile = caSecret
    /\ caMap \in {None, caSecret} /\ caFile \in {None, caSecret}
    /\ zot => caSecret # None /\ caMap = caSecret /\ caFile = caSecret
    /\ zotCert # None => zot /\ zotCert = caSecret

\* How far the cluster has come when the attempt is at its last steps.
ClusterStages ==
    /\ pc \in AfterZotWait => zotCert # None
    /\ pc \in AfterApplied => applied
    /\ pc \in AfterInclude => inc = NInc
    /\ pc \in AfterMarker => marker = "empty"
    /\ marker # "absent" => pc \in AfterMarker \cup {"idle"}

Inv == TypeOK /\ PassStages /\ CAStages /\ ClusterStages /\ InstalledConsistent

\* The invariant holds before the first attempt.
LEMMA InvInit == Init => Inv
<1> SUFFICES ASSUME Init  PROVE Inv
  OBVIOUS
<1>1. TypeOK
  <2>1. /\ ns \in BOOLEAN /\ zot \in BOOLEAN /\ f8r \in BOOLEAN
        /\ fab \in BOOLEAN /\ applied \in BOOLEAN
    BY Zenon DEF Init
  <2>2. inc \in 0..NInc /\ at \in 0..inc /\ faults \in 0..MaxFaults
    BY DEF Init
  <2>3. /\ pc \in Steps \cup {"idle"} /\ marker \in {"absent", "empty", "complete"}
        /\ {pass, regFile, reader, htpasswd, rec, nodeRegs} \subseteq Pass \cup {None}
        /\ {ca, caFile, caSecret, caMap, zotCert} \subseteq CA \cup {None}
    BY DEF Init
  <2> QED  BY <2>1, <2>2, <2>3 DEF TypeOK
<1>2. PassStages /\ CAStages /\ ClusterStages
  BY DEF Init, PassStages, CAStages, ClusterStages, AfterMarker, AfterInclude,
         AfterApplied, AfterZotWait, AfterHtpasswd, AfterReader, AfterCAFile,
         AfterCAMap, AfterCASecret, AfterK8s
<1>3. InstalledConsistent  BY DEF Init, InstalledConsistent
<1> QED  BY <1>1, <1>2, <1>3 DEF Inv

\* An attempt that gives up leaves the invariant in place: it says of an idle
\* installer only what is already written.
LEMMA InvReturn ==
  ASSUME Inv, Return, faults' \in 0..MaxFaults, pc \in Steps
  PROVE  Inv'
  BY DEF Return, Goto, node, cluster, certs, reconc, Inv, TypeOK, PassStages,
         CAStages, ClusterStages, InstalledConsistent, AfterMarker, Steps,
         AfterInclude, AfterApplied, AfterZotWait, AfterHtpasswd, AfterReader,
         AfterCAFile, AfterCAMap, AfterCASecret, AfterK8s

\* Every step preserves the invariant.
LEMMA InvStep == Inv /\ [Next]_vars => Inv'
<1> SUFFICES ASSUME Inv, [Next]_vars  PROVE Inv'
  OBVIOUS
<1> USE DEF Goto, attempt, node, cluster, certs, reconc, vars, Inv, TypeOK, Steps,
        PassStages, CAStages, ClusterStages, InstalledConsistent, AfterMarker,
        AfterInclude, AfterApplied, AfterZotWait, AfterHtpasswd, AfterReader,
        AfterCAFile, AfterCAMap, AfterCASecret, AfterK8s
<1>1. ASSUME NEW p \in Pass, DoInstall(p)  PROVE Inv'  BY <1>1 DEF DoInstall
<1>2. CASE InstallK8s  BY <1>2 DEF InstallK8s
<1>3. CASE CreateNamespace  BY <1>3 DEF CreateNamespace
<1>4. CASE InstallCertManager  BY <1>4 DEF InstallCertManager
<1>5. ASSUME NEW k \in CA, InstallFabCA(k)  PROVE Inv'  BY <1>5 DEF InstallFabCA
<1>6. CASE InstallFabCAMap  BY <1>6 DEF InstallFabCAMap
<1>7. CASE WriteFabCA  BY <1>7 DEF WriteFabCA
<1>8. CASE InstallUsers  BY <1>8 DEF InstallUsers
<1>9. CASE InstallHtpasswd  BY <1>9 DEF InstallHtpasswd
<1>10. CASE InstallZot  BY <1>10 DEF InstallZot
<1>11. CASE WaitZot  BY <1>11 DEF WaitZot
<1>12. CASE InstallFabricator  BY <1>12 DEF InstallFabricator
<1>13. CASE InstallFabConfig  BY <1>13 DEF InstallFabConfig
<1>14. CASE WaitApplied  BY <1>14 DEF WaitApplied
<1>15. CASE InstallInclude
  <2>1. pc \in Steps /\ faults' \in 0..MaxFaults  BY <1>15 DEF InstallInclude
  <2>2. CASE Return  BY <2>1, <2>2, InvReturn
  <2>3. CASE /\ at = inc /\ inc' = inc + 1 /\ at' = at + 1
             /\ UNCHANGED <<pc, pass, ca, node, ns, certs, reader, htpasswd,
                            zot, f8r, fab, reconc>>
    BY <1>15, <2>3 DEF InstallInclude
  <2> QED  BY <1>15, <2>2, <2>3 DEF InstallInclude
<1>16. CASE LoseResponse  BY <1>16 DEF LoseResponse
<1>17. CASE IncludeDone  BY <1>17 DEF IncludeDone
<1>18. CASE CreateMarker  BY <1>18 DEF CreateMarker
<1>19. CASE WriteMarker  BY <1>19 DEF WriteMarker
<1>20. CASE Fault  BY <1>20, InvReturn DEF Fault
<1>21. CASE IssueZotCert  BY <1>21 DEF IssueZotCert
<1>22. CASE RecRead  BY <1>22 DEF RecRead
<1>23. CASE RecApply  BY <1>23 DEF RecApply
<1>24. CASE RecFault  BY <1>24 DEF RecFault
<1>25. CASE UNCHANGED vars  BY <1>25
<1> QED  BY <1>1, <1>2, <1>3, <1>4, <1>5, <1>6, <1>7, <1>8, <1>9, <1>10, <1>11,
            <1>12, <1>13, <1>14, <1>15, <1>16, <1>17, <1>18, <1>19, <1>20,
            <1>21, <1>22, <1>23, <1>24, <1>25 DEF Next, Run, Done

\* The inductive invariant in every reachable state.
LEMMA InvHolds == Spec => []Inv
  BY InvInit, InvStep, PTL DEF Spec

\* Every variable of the installation keeps its type.
THEOREM TypeCorrect == Spec => []TypeOK
<1>1. Inv => TypeOK  BY DEF Inv
<1> QED  BY <1>1, InvHolds, PTL

\* However often and wherever attempts fail, zot's certificate is of the CA
\* that installFabCA left in the secret, the config map and the trust store.
THEOREM CertSurvivesRetries == Spec => []ZotCertValid
<1>1. Inv => ZotCertValid  BY DEF Inv, CAStages, ZotCertValid
<1> QED  BY <1>1, InvHolds, PTL

\* The marker that DoInstall writes is never there before one attempt's
\* passwords are in registries.yaml, the secrets and zot, the Fabricator is
\* applied and the included objects exist.
THEOREM MarkerMeansInstalled == Spec => []InstalledConsistent
<1>1. Inv => InstalledConsistent  BY DEF Inv
<1> QED  BY <1>1, InvHolds, PTL
=============================================================================
