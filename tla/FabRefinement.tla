--------------------------- MODULE FabRefinement ---------------------------
(***************************************************************************)
(* FabReconciler implements ConfigService: the claim is the Applied        *)
(* condition and whether LastAppliedGen is the present generation, the     *)
(* objects are the charts of all components but fabricator itself.         *)
(***************************************************************************)
EXTENDS FabReconciler

Claim == IF ~fab.applied THEN "none" ELSE IF fab.genApplied THEN "present" ELSE "past"

Service == INSTANCE ConfigService WITH
    Object <- Comp \ {N},
    Release <- 1..MaxVer,
    NeededFor <- [c \in Cfg |-> {o \in Comp \ {N} : o \notin Gw \/ c \in GwCfgs}],
    want <- [cfg |-> fab.cfg, defs |-> fab.defs],
    claim <- Claim,
    made <- [o \in Comp \ {N} |-> chart[o]]

\* Whatever Reconcile, the status watcher, edits, errors and crashes do in
\* between, an observer of the Fabricator object and of the enforced objects only
\* ever sees steps of ConfigService: no claim without the objects, and no object
\* touched before the claim about the last request is withdrawn.
ImplementsConfigService == Service!Spec
=============================================================================
