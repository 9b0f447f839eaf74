-------------------------- MODULE MCSigProcFileStream --------------------------
(***************************************************************************)
(* SigProcFileStream for TLC; the instances are in the configurations.     *)
(***************************************************************************)
EXTENDS SigProcFileStream

\* The obstacles of the run with all of them
BadAndMissing == {Bad, Missing}
===============================================================================
