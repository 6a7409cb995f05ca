-------------------------- MODULE MCControlInstall --------------------------
(* The instances of ControlInstall that TLC checks: a handful of passwords, *)
(* so that every attempt can have one that is not in use, two authorities   *)
(* and two included objects.                                                *)
EXTENDS ControlInstall
=============================================================================
