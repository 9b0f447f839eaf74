---------------------------- MODULE MCRfiSequencer ----------------------------
(***************************************************************************)
(* RfiSequencer, with the invariant of its proofs, for TLC; the instances  *)
(* are in the configurations.                                              *)
(***************************************************************************)
EXTENDS RfiSequencerProofs
===============================================================================
