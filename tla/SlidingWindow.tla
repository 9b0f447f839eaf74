----------------------------- MODULE SlidingWindow ----------------------------
(***************************************************************************)
(* What dedispersion expects of its input: the data of one observation     *)
(* (between two changes of the data's format) arrives as windows of        *)
(* consecutive spectra, each stamped with the time of its first spectrum.  *)
(* Two successive windows overlap by a fixed number of spectra, so that no *)
(* pulse that crosses a boundary is missed and no spectrum is left out.    *)
(* When input is lost, nothing is promised until the format changes.       *)
(* A spectrum is identified by the time at which it was observed.          *)
(***************************************************************************)
EXTENDS Integers

VARIABLES format,     \* the format of the data
          intact,     \* no input was lost since the last change of format
          width,      \* spectra in a window
          overlap,    \* spectra shared by two successive windows
          first,      \* time of the first spectrum of the window being filled
          window      \* the last window handed on: its spectra and its stamp

windowVars == <<format, intact, width, overlap, first, window>>

WindowInit ==
    /\ format = 0
    /\ intact = TRUE
    /\ width = 0 /\ overlap = 0
    /\ first \in Nat
    /\ window = [spectra |-> {}, start |-> 0]

CurrentWindow == [spectra |-> first .. first + width - 1, start |-> first]

\* A change of format, and nothing else, starts a new series of windows, with
\* data later than where the old series got to.
Reformat ==
    /\ format' # format
    /\ overlap' < width'

Restart ==
    /\ Reformat
    /\ intact => first' >= first
    /\ UNCHANGED window

\* The data that causes a restart may fill the first window of the new series.
RestartAndHandOn ==
    /\ Reformat
    /\ window'.spectra = window'.start .. window'.start + width' - 1
    /\ intact => window'.start >= first
    /\ intact' => first' = window'.start + width' - overlap'

\* Within a format each window begins where the overlap of the last one does.
HandOn ==
    /\ intact /\ intact'
    /\ window' = CurrentWindow
    /\ first' = first + width - overlap
    /\ UNCHANGED <<format, width, overlap>>

\* Input is lost, maybe with the data that fills a window, which is still right.
Lose ==
    /\ ~intact'
    /\ intact => window' \in {window, CurrentWindow}
    /\ UNCHANGED <<format, width, overlap>>

WindowNext == Restart \/ HandOn \/ RestartAndHandOn \/ Lose

WindowSpec == WindowInit /\ [][WindowNext]_windowVars
===============================================================================
