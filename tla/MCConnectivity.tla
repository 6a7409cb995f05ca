---------------------------- MODULE MCConnectivity ----------------------------
(* Instances of Connectivity for TLC; the constants are in the .cfg files.  *)
EXTENDS Connectivity
=============================================================================
