------------------------------ MODULE MCBuffering ------------------------------
(***************************************************************************)
(* Instances of Buffering for TLC.                                         *)
(***************************************************************************)
EXTENDS Buffering

\* Two formats whose windows chunks of 1 and 2 spectra fill exactly or not, one
\* with an overlap and one without, and two that are refused, each by one of the
\* two checks when MaxSpectra is 6: the overlap of 3 leaves no spectrum, that of
\* 4 is all of the buffer.
Spectra4 == [c \in 1 .. 4 |-> CASE c = 1 -> 4 [] c = 2 -> 2 [] c = 3 -> 7 [] c = 4 -> 4]
Overlap4 == [c \in 1 .. 4 |-> CASE c = 1 -> 2 [] c = 2 -> 0 [] c = 3 -> 5 [] c = 4 -> 4]
===============================================================================
