---------------------------- MODULE MCReleaseTest ----------------------------
(* The release tests for TLC: the cfg chooses the plans of RTPlans to run,    *)
(* and the assumption of RTTidyPlans is evaluated before the first of them.   *)
EXTENDS ReleaseTest, RTTidyPlans
=============================================================================
