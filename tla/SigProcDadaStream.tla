--------------------------- MODULE SigProcDadaStream ---------------------------
(* psrdada/SigProcDadaStream: makes chunks of a fixed number of spectra from    *)
(* the transfers of a ring.  A chunk that meets the end of a transfer is filled *)
(* from the next one if that continues it.  Each handler posts the next one;    *)
(* a chunk is delivered when the handlers that hold it have returned.           *)
EXTENDS DadaReadClient

CONSTANTS
    Samples,        \* spectra of a chunk
    Channels,       \* numbers of channels
    Intervals,      \* sample intervals, in units of time
    Bits,           \* bits of a sample in the header
    Offsets,        \* start of a transfer, relative to where the last one ends
    MaxTransfers    \* bound: transfers

ASSUME StreamAssumption ==
    /\ Samples \in Nat \ {0}
    /\ Channels \subseteq Nat \ {0}
    /\ Intervals \subseteq Nat \ {0}
    /\ Bits \subseteq Nat
    /\ Offsets \subseteq Int
    /\ MaxTransfers \in Nat

VARIABLES
    posted,         \* the handler in the engine's queue, or "none"
    startTime,      \* _start_time
    chunk,          \* current_chunk, or NoChunk
    entry,          \* elements in the chunk when do_process() was entered
    error,          \* _error
    leaving,        \* chunks of handlers that have posted the next and not returned
    gone,           \* elements delivered
    transfers       \* headers read

streamVars == <<posted, startTime, chunk, entry, error, leaving, gone, transfers>>
vars == <<threads, flag, stopping, held, eod, block, opened, blocks, index, count,
          header, copied, want, pc, caller, posted, startTime, chunk, entry, error,
          leaving, gone, transfers>>

NoChunk == [start |-> 0, step |-> 1, chans |-> 1, size |-> -1]
Delivery(c, items) ==
    [start |-> c.start, step |-> c.step, chans |-> c.chans, size |-> c.size, items |-> items]

Init ==
    /\ ClientInit
    /\ posted = "none" /\ startTime = 0
    /\ chunk = NoChunk /\ entry = 0
    /\ error = FALSE
    /\ leaving = <<>>
    /\ gone = 0
    /\ transfers = 0

\* init()
Start ==
    /\ pc = "new"
    /\ pc' = "idle"
    /\ posted' = "next_sequence"
    /\ UNCHANGED <<threads, flag, stopping, held, eod, block, opened, blocks, index,
                   count, header, copied, want, caller>>
    /\ UNCHANGED <<startTime, chunk, entry, error, leaving, gone, transfers>>

\* A thread of the engine, or the caller of process(), can run the next handler.
CanRun ==
    /\ pc = "idle"
    /\ leaving = <<>> \/ Len(leaving) < threads
    /\ threads = 0 => stopping # "releasing"

\* The handler is about to return; its chunk, if it has one, goes with it.
LetGo(c) ==
    /\ leaving' = IF c = NoChunk THEN leaving ELSE Append(leaving, Delivery(c, copied))
    /\ chunk' = NoChunk
    /\ copied' = <<>> /\ want' = 0
    /\ pc' = "idle"

-------------------------------------------------------------------------------
(* do_next_sequence() and its callbacks                                        *)

NextSequence ==
    /\ posted = "next_sequence" /\ CanRun
    /\ ~flag
    /\ posted' = "none"
    /\ pc' = "header"
    /\ UNCHANGED <<threads, flag, stopping, held, eod, block, opened, blocks, index,
                   count, header, copied, want, caller>>
    /\ UNCHANGED <<startTime, chunk, entry, error, leaving, gone, transfers>>

\* The client was stopped, before the handler runs or while it waits for a header.
NoNextSequence ==
    /\ flag
    /\ \/ posted = "next_sequence" /\ CanRun
       \/ pc = "header"
    /\ posted' = "none"
    /\ LetGo(chunk)
    /\ UNCHANGED <<threads, flag, stopping, held, eod, block, opened, blocks, index,
                   count, header, caller>>
    /\ UNCHANGED <<startTime, entry, error, gone, transfers>>

\* The header cannot be read; either callback notes the error.
BadHeader ==
    /\ pc = "header"
    /\ error' = TRUE
    /\ LetGo(chunk)
    /\ UNCHANGED <<threads, flag, stopping, held, eod, block, opened, blocks, index,
                   count, header, caller>>
    /\ UNCHANGED <<posted, startTime, entry, gone, transfers>>

\* The header of the next transfer is there.
HeaderComes(h) ==
    /\ pc = "header" /\ transfers < MaxTransfers
    /\ header' = h
    /\ index' = 0
    /\ transfers' = transfers + 1

\* handle_new_sequence(in, eptr)
FirstSequence(h) ==
    /\ HeaderComes(h)
    /\ chunk = NoChunk
    /\ startTime' = h.start
    /\ posted' = "new_chunk"
    /\ pc' = "idle"
    /\ UNCHANGED <<threads, flag, stopping, held, eod, block, opened, blocks, count,
                   copied, want, caller>>
    /\ UNCHANGED <<chunk, entry, error, leaving, gone>>

\* The transfer does not continue the chunk: it begins later or has other channels;
\* its sample interval is not looked at.
Breaks(h) == h.start > startTime \/ h.chans # chunk.chans

\* The transfer begins at least one of its own intervals too early.
Overlaps(h) == h.start < startTime /\ startTime - h.start >= h.step

\* handle_new_sequence(in, chunk, it, eptr): the chunk is cut and a new one begun
NewSequence(h) ==
    /\ HeaderComes(h)
    /\ chunk # NoChunk
    /\ Breaks(h)
    /\ startTime' = h.start
    /\ posted' = "new_chunk"
    /\ LetGo([chunk EXCEPT !.size = Len(copied) \div chunk.chans])
    /\ UNCHANGED <<threads, flag, stopping, held, eod, block, opened, blocks, count, caller>>
    /\ UNCHANGED <<entry, error, gone>>

\* ... the stream is broken
BrokenSequence(h) ==
    /\ HeaderComes(h)
    /\ chunk # NoChunk
    /\ ~Breaks(h) /\ Overlaps(h)
    /\ error' = TRUE
    /\ LetGo(chunk)
    /\ UNCHANGED <<threads, flag, stopping, held, eod, block, opened, blocks, count, caller>>
    /\ UNCHANGED <<posted, startTime, entry, gone>>

\* ... the chunk is filled up from this transfer
SameSequence(h) ==
    /\ HeaderComes(h)
    /\ chunk # NoChunk
    /\ ~Breaks(h) /\ ~Overlaps(h)
    /\ posted' = "process"
    /\ pc' = "idle"
    /\ UNCHANGED <<threads, flag, stopping, held, eod, block, opened, blocks, count,
                   copied, want, caller>>
    /\ UNCHANGED <<startTime, chunk, entry, error, leaving, gone>>

Headers == {[start |-> startTime + d, step |-> s, chans |-> c, bits |-> b] :
                d \in Offsets, s \in Intervals, c \in Channels, b \in Bits}

-------------------------------------------------------------------------------
(* new_chunk_process() and do_process()                                        *)

\* do_process() on chunk c from its element n on: the iterators of the read
ReadFrom(c, n) ==
    IF header.bits = 8
    THEN /\ chunk' = c
         /\ entry' = n
         /\ copied' = SubSeq(copied, 1, n)
         /\ want' = c.size * c.chans - n
         /\ pc' = "read"
         /\ UNCHANGED <<error, leaving>>
    ELSE /\ error' = TRUE
         /\ LetGo(c)
         /\ UNCHANGED entry

NewChunk ==
    /\ posted = "new_chunk" /\ CanRun
    /\ posted' = "none"
    /\ ReadFrom([start |-> startTime, step |-> header.step, chans |-> header.chans,
                 size |-> Samples], 0)
    /\ UNCHANGED <<threads, flag, stopping, held, eod, block, opened, blocks, index,
                   count, header, caller>>
    /\ UNCHANGED <<startTime, gone, transfers>>

\* A slip in FillChunk: it begins at the front of the chunk.
FillFromFront ==
    /\ posted = "process" /\ CanRun
    /\ posted' = "none"
    /\ ReadFrom(chunk, 0)
    /\ UNCHANGED <<threads, flag, stopping, held, eod, block, opened, blocks, index,
                   count, header, caller>>
    /\ UNCHANGED <<startTime, gone, transfers>>

FillChunk ==
    /\ posted = "process" /\ CanRun
    /\ posted' = "none"
    /\ ReadFrom(chunk, Len(copied))
    /\ UNCHANGED <<threads, flag, stopping, held, eod, block, opened, blocks, index,
                   count, header, caller>>
    /\ UNCHANGED <<startTime, gone, transfers>>

\* A slip in Advanced: all elements of the chunk are taken as read now.
AdvancedByChunk == startTime + header.step * (Len(copied) \div header.chans)

\* _start_time after the elements read by this call of do_process(), by the interval
\* of the transfer they were read from
Advanced == startTime + header.step * ((Len(copied) - entry) \div header.chans)

Full ==
    /\ pc = "full"
    /\ startTime' = Advanced
    /\ posted' = "new_chunk"
    /\ LetGo(chunk)
    /\ UNCHANGED <<threads, flag, stopping, held, eod, block, opened, blocks, index,
                   count, header, caller>>
    /\ UNCHANGED <<entry, error, gone, transfers>>

\* The read ended early, at the end of data or by stop(), in the middle of a
\* spectrum or not.
WholeSpectra == (Len(copied) - entry) % header.chans = 0

Partial ==
    /\ pc = "partial" /\ WholeSpectra
    /\ startTime' = Advanced
    /\ pc' = "flush"
    /\ UNCHANGED <<threads, flag, stopping, held, eod, block, opened, blocks, index,
                   count, header, copied, want, caller>>
    /\ UNCHANGED <<posted, chunk, entry, error, leaving, gone, transfers>>

\* An exception ends do_process() and the stream.
Fails ==
    /\ \/ pc = "partial" /\ ~WholeSpectra
       \/ pc = "thrown"
    /\ error' = TRUE
    /\ LetGo(chunk)
    /\ UNCHANGED <<threads, flag, stopping, held, eod, block, opened, blocks, index,
                   count, header, caller>>
    /\ UNCHANGED <<posted, startTime, entry, gone, transfers>>

\* next_sequence() has flushed the client and posts its handler.
PostNextSequence ==
    /\ pc = "post"
    /\ posted' = "next_sequence"
    /\ pc' = "idle"
    /\ UNCHANGED <<threads, flag, stopping, held, eod, block, opened, blocks, index, count,
                   header, copied, want, caller>>
    /\ UNCHANGED <<startTime, chunk, entry, error, leaving, gone, transfers>>

\* A handler returns, and the last reference to its chunk with it.
Deliver(k) ==
    /\ gone' = gone + Len(leaving[k].items)
    /\ leaving' = SubSeq(leaving, 1, k - 1) \o SubSeq(leaving, k + 1, Len(leaving))
    /\ UNCHANGED clientVars
    /\ UNCHANGED <<posted, startTime, chunk, entry, error, transfers>>

-------------------------------------------------------------------------------
\* What happens in the ring
Ring ==
    \/ BadHeader
    \/ \E h \in Headers : h.start >= 0 /\
          (FirstSequence(h) \/ NewSequence(h) \/ BrokenSequence(h) \/ SameSequence(h))
    \/ \E n \in BlockSizes, which \in {"more", "last"} :
          OpenBlock(n, which) /\ UNCHANGED streamVars

\* What the engine's threads do on their own
Handler ==
    \/ NextSequence \/ NoNextSequence \/ NewChunk \/ FillChunk
    \/ Full \/ Partial \/ Fails \/ PostNextSequence
    \/ (Acquire \/ Read \/ Copy \/ Reset) /\ UNCHANGED streamVars

Stopping == StopReleases /\ UNCHANGED streamVars

Next ==
    \/ Start
    \/ Handler
    \/ Ring
    \/ \E k \in DOMAIN leaving : Deliver(k)
    \/ SetFlag /\ UNCHANGED streamVars
    \/ Stopping

Spec == Init /\ [][Next]_vars

\* Threads go on; nothing makes the writer write or anybody call stop().
FairSpec ==
    /\ Spec
    /\ WF_vars(Handler)
    /\ WF_vars(\E k \in DOMAIN leaving : Deliver(k))
    /\ WF_vars(Stopping)

-------------------------------------------------------------------------------
(* Properties *)

Item == [number : Nat, time : Int, step : Nat]

TypeOK ==
    /\ threads \in 0 .. 2
    /\ flag \in BOOLEAN /\ stopping \in {"no", "releasing", "done"}
    /\ held \in {"no", "more", "last"} /\ eod \in BOOLEAN
    /\ block \in Nat \cup {NoBlock} /\ opened \in Nat
    /\ blocks \in 0 .. MaxBlocks /\ index \in Nat /\ count \in Nat
    /\ copied \in Seq(Item) /\ want \in Nat
    /\ pc \in {"new", "idle", "header", "read", "copy", "full", "partial", "release",
               "open", "opened", "keep", "kept", "flush", "flushed", "reset", "relock",
               "post", "thrown", "crashed"}
    /\ posted \in {"none", "next_sequence", "new_chunk", "process"}
    /\ posted # "none" => pc = "idle"
    /\ pc = "read" => Len(copied) + want = chunk.size * chunk.chans
    /\ leaving \in Seq([start : Int, step : Nat, chans : Nat, size : Nat, items : Seq(Item)])

\* stop() may have come from another thread.
StoppedAside == flag /\ threads > 0

\* The chunks hold the elements of the ring, once and in their order, and a chunk is
\* not filled up only when the client was stopped or the stream has failed.  When stop()
\* comes from another thread, an element may be one of a block that was given back; the
\* others keep their places.  With two threads the next chunk may overtake one whose
\* handler has not returned.
WholeAndInOrder ==
    \A k \in DOMAIN leaving : LET c == leaving[k] IN
        /\ threads < 2 =>
              \A i \in DOMAIN c.items :
                  c.items[i].number = gone + i \/ (StoppedAside /\ c.items[i] = Garbage)
        /\ Len(c.items) = c.size * c.chans \/ flag \/ error

\* Time t is that of the item, or less than an interval of its transfer later.
Dates(t, item) == t - item.time \in 0 .. item.step - 1

\* A chunk's start time dates its first spectrum, whatever was read before it.  It dates
\* all of them if their transfers have the interval that the chunk took over, which is
\* not looked at when a transfer continues a chunk.
ChunksAreDated ==
    \A k \in DOMAIN leaving : LET c == leaving[k] IN
        /\ c.items # <<>> /\ c.items[1] # Garbage => Dates(c.start, c.items[1])
        /\ (\A i \in DOMAIN c.items : c.items[i].step = c.step) =>
              \A i \in DOMAIN c.items :
                  Dates(c.start + c.step * ((i - 1) \div c.chans), c.items[i])

\* After stop() the handlers come to their end, so the destructor's wait does.
Quiet == pc \in {"new", "idle", "crashed"} /\ posted = "none" /\ leaving = <<>>
StopEnds == flag ~> pc = "new" \/ []Quiet
===============================================================================
