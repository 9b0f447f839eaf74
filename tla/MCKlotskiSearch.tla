--------------------------- MODULE MCKlotskiSearch ----------------------------
(***************************************************************************)
(* KlotskiSearch for TLC; the instances are in the configurations.         *)
(***************************************************************************)
EXTENDS KlotskiSearch
===============================================================================
