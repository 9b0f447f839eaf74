--------------------------- MODULE SigProcFileStream ---------------------------
(***************************************************************************)
(* sigproc::SigProcFileStream (sigproc/src/SigProcFileStream.cpp) reading  *)
(* the files that SigProcWriter has written: each call of process() makes  *)
(* a chunk of the next samples.                                            *)
(*                                                                         *)
(* The stream object is used for all files and never closed after a file   *)
(* that could be read; std::basic_filebuf::open() fails when a file is     *)
(* open, and since exceptions() was set this throws.  So fill_chunk()      *)
(* never gets to complete a chunk from the next file.  What throws also    *)
(* destroys the chunk being filled, which hands it to the consumer as it   *)
(* is.                                                                     *)
(***************************************************************************)
EXTENDS SigProcWriter, SequencesExt

CONSTANTS ReadSizes,    \* chunk_samples() of the configuration; 0 is a whole file
          Obstacles     \* what the configuration may list besides the files

Bad == 0                \* a file whose header cannot be parsed
Missing == -1           \* a file that does not exist

ASSUME ReaderAssumption == ReadSizes \subseteq Nat /\ Obstacles \subseteq {Bad, Missing}

VARIABLES
    list,       \* _filenames: numbers of files, and obstacles
    samples,    \* chunk_samples()
    at,         \* _file_it
    stream,     \* the file that is open, 0 if none
    pos,        \* spectra read from it
    armed,      \* _file_stream.exceptions() was set
    time,       \* _start_time
    chunks,     \* the chunks made: the format, the time of the first sample, the
                \* samples read, and how many follow that were not
    state       \* "off", "on", "ended" (process() was true), "failed" (it only throws)

readerVars == <<list, samples, at, stream, pos, armed, time, chunks, state>>
vars == <<writerVars, readerVars>>

ReaderInit ==
    /\ list = <<>> /\ samples = 0 /\ at = 1
    /\ stream = 0 /\ pos = 0 /\ armed = FALSE /\ time = 0
    /\ chunks = <<>> /\ state = "off"

Init == WriterInit /\ ReaderInit

\* When the writer is done its files are read, perhaps with something else among
\* them.
StartReading ==
    /\ state = "off" /\ Idle /\ files # <<>>
    /\ state' = "on"
    /\ samples' \in ReadSizes
    /\ LET all == [k \in DOMAIN files |-> k]
       IN  list' \in {all} \cup {InsertAt(all, k, o) : k \in 1 .. Len(files) + 1, o \in Obstacles}
    /\ UNCHANGED <<writerVars, at, stream, pos, armed, time, chunks>>

Data(k) == files[k].data

Exhausted == at > Len(list)

\* process() needs another file.
NoData == stream # 0 => pos = Len(Data(stream))

Reads == state = "on" /\ UNCHANGED <<writerVars, list, samples>>

\* next_file() finds no more files.
EndOfFiles ==
    /\ Reads
    /\ NoData /\ Exhausted
    /\ state' = "ended"
    /\ UNCHANGED <<at, stream, pos, armed, time, chunks>>

\* next_file() opens the next file while one is open.
OpenTwice ==
    /\ Reads
    /\ NoData /\ ~Exhausted /\ stream # 0
    /\ state' = "failed"
    /\ UNCHANGED <<at, stream, pos, armed, time, chunks>>

\* next_file() cannot open the file: at first it says that there is no more data.
CannotOpen ==
    /\ Reads
    /\ ~Exhausted /\ stream = 0 /\ list[at] = Missing
    /\ state' = IF armed THEN "failed" ELSE "ended"
    /\ UNCHANGED <<at, stream, pos, armed, time, chunks>>

\* next_file() cannot parse the header: it closes the file and throws, and the
\* next call goes on with the next file.
BadHeader ==
    /\ Reads
    /\ ~Exhausted /\ stream = 0 /\ list[at] = Bad
    /\ at' = at + 1
    /\ armed' = TRUE
    /\ UNCHANGED <<stream, pos, time, chunks, state>>

\* A slip in StartOf: the time is not taken from the header.
TimeGoesOn(k) == time

\* next_file() takes the start time from the header.
StartOf(k) == files[k].start

\* A slip in UnreadPart: a chunk that could not be filled is never resized.
UnreadAlways(missing, more) == missing

\* The samples without data in a chunk that lacks some: the chunk is resized if
\* there are no more files.
UnreadPart(missing, more) == IF more THEN missing ELSE 0

\* The time n samples after t by the header of file k
TimeAfter(k, t, n) == Moved([fmt |-> files[k].fmt, start |-> t], n).start

\* process() with file k open, read up to position from, its next spectrum at
\* time t: a chunk is filled, or gets what is left, which is the end of the data
\* or the failure to open another file.
FillChunk(k, from, t, more) ==
    LET size == IF samples = 0 THEN Len(Data(k)) ELSE samples
        left == Len(Data(k)) - from
        made(n, unread) ==
            /\ chunks' = Append(chunks,
                   [fmt |-> files[k].fmt, start |-> t,
                    data |-> SubSeq(Data(k), from + 1, from + n), unread |-> unread])
            /\ pos' = from + n
            /\ time' = TimeAfter(k, t, n)
    IN  /\ stream' = k
        /\ armed' = TRUE
        /\ \/ /\ left >= size
              /\ made(size, 0)
              /\ UNCHANGED state
           \/ /\ left < size
              /\ made(left, UnreadPart(size - left, more))
              /\ state' = IF more THEN "failed" ELSE "ended"

\* A slip in Continue: the file is read from its front.
ContinueAtFront ==
    /\ Reads
    /\ ~NoData
    /\ FillChunk(stream, 0, time, ~Exhausted)
    /\ UNCHANGED at

\* process() goes on with the open file, or opens the next one.
Continue ==
    /\ Reads
    /\ ~NoData
    /\ FillChunk(stream, pos, time, ~Exhausted)
    /\ UNCHANGED at

OpenFile ==
    /\ Reads
    /\ ~Exhausted /\ stream = 0 /\ list[at] > 0
    /\ at' = at + 1
    /\ FillChunk(list[at], 0, StartOf(list[at]), at < Len(list))

Process ==
    \/ EndOfFiles \/ OpenTwice \/ CannotOpen \/ BadHeader
    \/ Continue \/ OpenFile

Next ==
    \/ state = "off" /\ WriterStep /\ UNCHANGED readerVars
    \/ StartReading
    \/ Process

Spec == Init /\ [][Next]_vars

\* operator<<() runs to its end.
FairSpec == Spec /\ WF_vars(WritePart /\ UNCHANGED readerVars)

-------------------------------------------------------------------------------
(* Properties *)

TypeOK ==
    /\ WriterTypeOK
    /\ list \in Seq({Bad, Missing} \cup DOMAIN files)
    /\ samples \in ReadSizes \cup {0}
    /\ at \in 1 .. Len(list) + 1
    /\ stream \in {0} \cup DOMAIN files
    /\ stream # 0 => pos \in 0 .. Len(Data(stream))
    /\ armed \in BOOLEAN /\ time \in Nat
    /\ chunks \in Seq([fmt : Formats, start : Nat, data : Seq(Nat), unread : Nat])
    /\ state \in {"off", "on", "ended", "failed"}

\* The samples of the files listed, and those of the chunks
InList == FlattenSeq([k \in DOMAIN list |-> IF list[k] > 0 THEN Data(list[k]) ELSE <<>>])
Delivered == FlattenSeq([k \in DOMAIN chunks |-> chunks[k].data])

\* What is delivered is what the files hold, in order, from the first one on,
\* whatever the size of the chunks.
ReadInOrder == IsPrefix(Delivered, InList)

\* Each sample of a chunk is dated to less than half an interval by its place
\* behind the start time of the chunk, as in the file it is from.
ChunksDated ==
    once => \A k \in DOMAIN chunks : chunks[k].fmt \in Timed =>
                \A i \in DOMAIN chunks[k].data :
                    Near(chunks[k].data[i], After(chunks[k].start, i - 1))

\* A chunk with samples that were not read is delivered at most once, last, and
\* only when process() throws from then on.
UnreadOnlyAtFailure ==
    \A k \in DOMAIN chunks : chunks[k].unread > 0 =>
        k = Len(chunks) /\ state = "failed"

\* All files of the configuration are read.
AllFilesRead == state \in {"ended", "failed"} => Delivered = InList
===============================================================================
