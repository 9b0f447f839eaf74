----------------------------- MODULE SigProcWriter -----------------------------
(***************************************************************************)
(* sigproc::SigProcWriter (sigproc/detail/SigProcWriter.cpp): writes       *)
(* chunks of spectra to files of at most MaxCount spectra.  A file begins  *)
(* with a header; a new one is begun when the format changes, when the     *)
(* data is not the continuation of what was written, or when the open file *)
(* is full, in which case file_write() calls itself for the remainder.     *)
(*                                                                         *)
(* A spectrum is the time at which it was observed, in ticks; Period of    *)
(* them pass between two spectra, whether the data says so (its sample     *)
(* interval is set) or not (it is 0).  Start times may differ by less than *)
(* half an interval from where the data before them ended; headers are     *)
(* otherwise compared without them.  The operator for single spectra,      *)
(* which nobody uses, and the names of the files, which are chosen to be   *)
(* new, are left out.                                                      *)
(***************************************************************************)
EXTENDS Integers, Sequences

CONSTANTS Formats,      \* what headers can differ in: channels, bits, frequencies
          Timed,        \* those whose sample interval is set, the others have 0
          Period,       \* ticks between two spectra
          ChunkSizes,   \* numbers of spectra a chunk may have
          Gaps,         \* ticks that may be missing between two chunks
          MaxCount,     \* _max_samples_per_file, 0 if there is no limit
          MaxTime,      \* bound on the time of the data
          MaxFiles      \* bound on the number of files

ASSUME WriterAssumption ==
    /\ Timed \subseteq Formats /\ Period \in Nat \ {0}
    /\ ChunkSizes \subseteq Nat \ {0} /\ Gaps \subseteq Nat \ {0}
    /\ MaxCount \in Nat /\ MaxTime \in Nat /\ MaxFiles \in Nat

VARIABLES
    now,        \* the time of the next spectrum
    files,      \* the files written: format and start in the header, and spectra
    open,       \* _file_stream.is_open()
    header,     \* _header: format and start
    count,      \* _sample_count
    chunk,      \* the chunk being written
    spectrum,   \* the spectrum of the chunk file_write() begins with
    given,      \* the header passed to file_write()
    once        \* no spectrum was written a second time

writerVars == <<now, files, open, header, count, chunk, spectrum, given, once>>

NoChunk == [start |-> 0, size |-> 0]
Idle == chunk = NoChunk

\* The time n spectra after time t
After(t, n) == t + n * Period

\* Two times that differ by less than half an interval
Near(s, t) == 2 * (s - t) < Period /\ 2 * (t - s) < Period

WriterInit ==
    /\ now = 1
    /\ files = <<>> /\ open = FALSE /\ count = 0
    /\ header \in [fmt : Formats, start : {0}]
    /\ chunk = NoChunk /\ spectrum = 0 /\ given = header
    /\ once = TRUE

\* operator<<(): a chunk of n spectra is to be written.
Take(fmt, n) ==
    /\ Idle
    /\ After(now, n) <= MaxTime
    /\ now' = After(now, n)
    /\ chunk' = [start |-> now, size |-> n]
    /\ spectrum' = 0
    /\ given' = [fmt |-> fmt, start |-> now]
    /\ UNCHANGED <<files, open, header, count, once>>

\* file_header(): the open file is kept.  The start times are compared only if
\* there is an interval to compare them with.
Continues(h) ==
    /\ open /\ h.fmt = header.fmt
    /\ h.fmt \in Timed => Near(h.start, header.start)

\* The spectra in the file before
Counted == IF Continues(given) THEN count ELSE 0

\* A slip in Room: one place too few.
RoomOneLess == MaxCount - 1 - Counted

\* The room the file has for more
Room == MaxCount - Counted

\* A slip in Fills: only a file that is too small is closed.
Overfills(n) == MaxCount # 0 /\ n > Room

\* The file is full after n more spectra.
Fills(n) == MaxCount # 0 /\ n >= Room

\* How many of n spectra go to the file
Part(n) == IF Fills(n) THEN Room ELSE n

\* A slip in SpectraFrom: every file gets the front of the chunk.
SpectraFromFront(a, n) == [i \in 1 .. n |-> After(chunk.start, i - 1)]

\* Spectra a, a + 1 ... of the chunk, n of them
SpectraFrom(a, n) == [i \in 1 .. n |-> After(chunk.start, a + i - 1)]

\* A header moved on by n sample intervals of its own, which may be 0
Moved(h, n) == [fmt |-> h.fmt, start |-> IF h.fmt \in Timed THEN After(h.start, n) ELSE h.start]

\* A slip in HeaderAfter: the header follows the data.
HeaderOfData(n) == Moved(given, n)

\* The header after n spectra more: the one that was kept goes on by itself.
HeaderAfter(n) == Moved(IF Continues(given) THEN header ELSE given, n)

\* A slip in Rest: the remainder of the chunk is dropped.
RestDropped(n) == FALSE

\* Whether n spectra written leave a remainder, which is sent to the next file.
Rest(n) == chunk.size > n

\* file_write(): one file's part of the chunk.  The position at which the
\* remainder begins is the number of spectra written just now.
WritePart ==
    LET left == chunk.size - spectrum
        n    == Part(left)
        data == SpectraFrom(spectrum, n)
        last == Len(files)
    IN
    /\ ~Idle
    /\ Continues(given) \/ last < MaxFiles
    /\ files' = IF Continues(given)
                THEN [files EXCEPT ![last] =
                         [fmt |-> @.fmt, start |-> @.start, data |-> @.data \o data]]
                ELSE Append(files, [fmt |-> given.fmt, start |-> given.start, data |-> data])
    /\ header' = HeaderAfter(n)
    /\ open' = ~Fills(left)
    /\ count' = IF Fills(left) THEN Counted ELSE Counted + n
    /\ IF Fills(left) /\ Rest(n)
       THEN /\ spectrum' = n
            /\ given' = header'
            /\ once' = (once /\ n = spectrum + n)
            /\ UNCHANGED chunk
       ELSE /\ chunk' = NoChunk
            /\ UNCHANGED <<spectrum, given, once>>
    /\ UNCHANGED now

Flush ==
    /\ Idle /\ open
    /\ open' = FALSE
    /\ UNCHANGED <<now, files, header, count, chunk, spectrum, given, once>>

\* The source loses data for g ticks, or its clock is late.
Gap(g) ==
    /\ Idle /\ now + g <= MaxTime
    /\ now' = now + g
    /\ UNCHANGED <<files, open, header, count, chunk, spectrum, given, once>>

WriterStep ==
    \/ \E f \in Formats, n \in ChunkSizes : Take(f, n)
    \/ WritePart
    \/ Flush
    \/ \E g \in Gaps : Gap(g)

\* The writer on its own
WriterSpec == WriterInit /\ [][WriterStep]_writerVars

-------------------------------------------------------------------------------
(* Properties *)

File == [fmt : Formats, start : Nat, data : Seq(Nat)]

\* No file has more spectra than configured.
WriterTypeOK ==
    /\ now \in 1 .. MaxTime + 1
    /\ files \in Seq(File)
    /\ MaxCount # 0 => \A k \in DOMAIN files : Len(files[k].data) <= MaxCount
    /\ open \in BOOLEAN
    /\ header \in [fmt : Formats, start : Nat] /\ given \in [fmt : Formats, start : Nat]
    /\ count \in Nat /\ (MaxCount # 0 => count < MaxCount)
    /\ chunk \in [start : Nat, size : Nat] /\ spectrum \in Nat
    /\ once \in BOOLEAN

\* Each spectrum of a file is dated to less than half an interval by its place
\* behind the start time in the header, so none is missing in between, however
\* often the file was continued; unless the interval is unknown or the writer
\* has begun to repeat spectra.
FilesDated ==
    once => \A k \in DOMAIN files : files[k].fmt \in Timed =>
                \A i \in DOMAIN files[k].data :
                    Near(files[k].data[i], After(files[k].start, i - 1))

\* No spectrum is in two files, and they are in the order of observation, unless
\* the writer has begun to repeat spectra.
FilesInOrder ==
    once => \A k, m \in DOMAIN files : k < m =>
                \A i \in DOMAIN files[k].data, j \in DOMAIN files[m].data :
                    files[k].data[i] < files[m].data[j]

InFiles == UNION {{files[k].data[i] : i \in DOMAIN files[k].data} : k \in DOMAIN files}

\* When a chunk is done all its spectra are in the files, even if some are there
\* twice.
ChunkWritten ==
    [][chunk # NoChunk /\ chunk' = NoChunk =>
          \A i \in 0 .. chunk.size - 1 : After(chunk.start, i) \in InFiles']_writerVars

\* A chunk smaller than two files is written in the end.
WriteEnds == \A n \in 1 .. 2 * MaxCount - 1 : chunk.size = n ~> Idle
===============================================================================
