-------------------------- MODULE MCSigProcDadaStream --------------------------
(* SigProcDadaStream with transfers from two units of time too early to one     *)
(* too late.                                                                    *)
EXTENDS SigProcDadaStream

EarlyToLate == -2 .. 1
===============================================================================
