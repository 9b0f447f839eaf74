---------------------------- MODULE MCBeamLauncher ----------------------------
(***************************************************************************)
(* BeamLauncher for TLC; the instances are in the configurations.          *)
(***************************************************************************)
EXTENDS BeamLauncher
===============================================================================
