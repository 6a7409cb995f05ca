-------------------------- MODULE MCFabReconciler --------------------------
(* The instances of FabReconciler that TLC checks.  With three components,  *)
(* component 1 stands for the required charts (fabric, zot, ...), 2 for the *)
(* gateway's alloy chart, a DaemonSet, and 3 for fabricator itself; with    *)
(* two, for a required chart and fabricator; with one, fabricator alone.    *)
EXTENDS FabRefinement
=============================================================================
