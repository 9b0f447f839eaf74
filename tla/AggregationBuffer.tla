--------------------------- MODULE AggregationBuffer --------------------------
(***************************************************************************)
(* ddtr::AggregationBuffer (modules/ddtr/detail/AggregationBuffer.cpp) as  *)
(* a record and the operations AggregationBufferFiller uses.               *)
(*                                                                         *)
(* All channels of a buffer are filled alike, so one function of the       *)
(* spectrum number stands for the data.  A spectrum is represented by the  *)
(* time at which it was observed, in sample intervals from 1 on; Blank is  *)
(* a spectrum nobody has written.  start is the start time in the          *)
(* metadata, time is _current_time, the number of spectra inserted.        *)
(***************************************************************************)
EXTENDS Integers

Blank == 0

\* cap is _number_of_spectra, chan _number_of_channels, time _current_time,
\* start _metadata.start_time().
IsBuffer(b) ==
    /\ b \in [cap : Nat, chan : Nat, time : Nat, start : Nat, data : {b.data}]
    /\ b.time <= b.cap
    /\ b.data \in [0 .. b.cap - 1 -> Nat]

\* AggregationBuffer(number_of_spectra, number_of_channels)
NewBuffer(cap, chan) ==
    [cap |-> cap, chan |-> chan, time |-> 0, start |-> 0,
     data |-> [i \in 0 .. cap - 1 |-> Blank]]

\* metadata(): the start time of data with another origin is taken over
Stamped(b, t) == [b EXCEPT !.start = t]

Remaining(b) == b.cap - b.time

\* resize(): what was inserted is forgotten, the metadata is kept
Resize(b, cap, chan) == Stamped(NewBuffer(cap, chan), b.start)

\* A slip in Fitting: the last place of a buffer is not used.
FittingOneLess(b, n) == IF Remaining(b) > n THEN n ELSE Remaining(b) - 1

\* The number of spectra of a chunk of n that fit
Fitting(b, n) == IF Remaining(b) >= n THEN n ELSE Remaining(b)

\* A slip in Insert: the start time of every chunk is taken.
InsertAlwaysStamps(b, t, n) ==
    [cap |-> b.cap, chan |-> b.chan,
     start |-> t,
     time  |-> b.time + Fitting(b, n),
     data  |-> [i \in 0 .. b.cap - 1 |->
                   IF i \in b.time .. b.time + Fitting(b, n) - 1
                   THEN t + (i - b.time)
                   ELSE b.data[i]]]

\* insert() of a chunk of n spectra observed from time t on: the metadata of
\* the first chunk is taken; a chunk that does not fit is cut off
Insert(b, t, n) ==
    [cap |-> b.cap, chan |-> b.chan,
     start |-> IF b.time = 0 THEN t ELSE b.start,
     time  |-> b.time + Fitting(b, n),
     data  |-> [i \in 0 .. b.cap - 1 |->
                   IF i \in b.time .. b.time + Fitting(b, n) - 1
                   THEN t + (i - b.time)
                   ELSE b.data[i]]]

\* A slip in Transfer: the overlap is taken from the front of the source.
TransferFromFront(size, src, dest) ==
    [cap |-> dest.cap, chan |-> dest.chan,
     start |-> src.start + (src.cap - size),
     time  |-> dest.time + size,
     data  |-> [i \in 0 .. dest.cap - 1 |->
                   IF i < size THEN src.data[i] ELSE dest.data[i]]]

\* A slip in Transfer: the start time of the source is kept.
TransferKeepsStart(size, src, dest) ==
    [cap |-> dest.cap, chan |-> dest.chan,
     start |-> src.start,
     time  |-> dest.time + size,
     data  |-> [i \in 0 .. dest.cap - 1 |->
                   IF i < size THEN src.data[src.cap - size + i] ELSE dest.data[i]]]

\* transfer(size, dest): the last size spectra of the capacity go to the
\* front of dest, whose start time is moved accordingly
Transfer(size, src, dest) ==
    [cap |-> dest.cap, chan |-> dest.chan,
     start |-> src.start + (src.cap - size),
     time  |-> dest.time + size,
     data  |-> [i \in 0 .. dest.cap - 1 |->
                   IF i < size THEN src.data[src.cap - size + i] ELSE dest.data[i]]]
===============================================================================
