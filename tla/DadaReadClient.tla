---------------------------- MODULE DadaReadClient ----------------------------
(* psrdada/DadaReadClient: reads the blocks of a shared-memory ring.  A        *)
(* transfer is a header block and data blocks up to an end-of-data mark.  One  *)
(* handler at a time runs in the engine; stop() comes from any thread.  The    *)
(* ring and its writer are external; a step on the ring is atomic.             *)
EXTENDS Integers, Sequences

CONSTANTS
    BlockSizes,     \* elements in a data block
    MaxBlocks       \* bound: data blocks of a transfer

ASSUME ClientAssumption == BlockSizes \subseteq Nat /\ MaxBlocks \in Nat

VARIABLES
    threads,        \* threads of the engine; 0: process() polls it
    flag,           \* *_destructor_flag
    stopping,       \* where stop() is: "no", "releasing" or "done"
    held,           \* the ring's open block: "no", "more" follow or it is the "last"
    eod,            \* the end of data was reached
    block,          \* elements left in _current_reader, or NoBlock
    opened,         \* elements of the block opened and not yet kept
    blocks,         \* blocks read of this transfer
    index,          \* elements read of this transfer
    count,          \* elements read of all transfers
    header,         \* the header of this transfer, the stream's _header
    copied,         \* elements copied to the chunk, up to the iterator
    want,           \* elements from the iterator to the end of the chunk
    pc,             \* where the handler is
    caller          \* who called acquire_data_block(): "read" or "flush"

clientVars == <<threads, flag, stopping, held, eod, block, opened, blocks, index,
                count, header, copied, want, pc, caller>>

NoBlock == -1
NoHeader == [start |-> 0, step |-> 1, chans |-> 1, bits |-> 8]

ClientInit ==
    /\ threads \in 0 .. 2
    /\ flag = FALSE /\ stopping = "no"
    /\ held = "no" /\ eod = FALSE
    /\ block = NoBlock /\ opened = 0
    /\ blocks = 0 /\ index = 0 /\ count = 0
    /\ header = NoHeader
    /\ copied = <<>> /\ want = 0
    /\ pc = "new" /\ caller = "read"

-------------------------------------------------------------------------------
(* release_data_block(), called with _block_mutex                              *)

\* Closing the ring's block fails, and throws, if the client has one and the ring
\* has not.
CanRelease == block = NoBlock \/ held # "no"

Released ==
    /\ block' = NoBlock
    /\ held' = "no"
    /\ eod' = (eod \/ held = "last")

Release ==
    /\ pc = "release"
    /\ IF CanRelease
       THEN Released /\ pc' = "open"
       ELSE pc' = "thrown" /\ UNCHANGED <<block, held, eod>>
    /\ UNCHANGED <<threads, flag, stopping, opened, blocks, index, count, header,
                   copied, want, caller>>

-------------------------------------------------------------------------------
(* acquire_data_block()                                                        *)

\* Where the handler goes on when there is no block
NoneAcquired == IF caller = "read" THEN "partial" ELSE "flushed"

OpenAtEod ==
    /\ pc = "open" /\ eod
    /\ block' = NoBlock
    /\ pc' = NoneAcquired
    /\ UNCHANGED <<threads, flag, stopping, held, eod, opened, blocks, index, count,
                   header, copied, want, caller>>

\* A slip in OpenStopped: the flag is not tested while no block comes.
KeepsPolling == pc = "open" /\ ~eod /\ flag /\ UNCHANGED clientVars

OpenStopped ==
    /\ pc = "open" /\ ~eod /\ flag
    /\ Released
    /\ pc' = NoneAcquired
    /\ UNCHANGED <<threads, flag, stopping, opened, blocks, index, count, header,
                   copied, want, caller>>

\* The writer has filled a block of n elements.
OpenBlock(n, which) ==
    /\ pc = "open" /\ ~eod /\ blocks < MaxBlocks
    /\ held' = which
    /\ opened' = n
    /\ blocks' = blocks + 1
    /\ pc' = "opened"
    /\ UNCHANGED <<threads, flag, stopping, eod, block, index, count, header, copied,
                   want, caller>>

\* The flag is tested when the block is open and before it is kept.
TestFlag ==
    /\ pc = "opened"
    /\ IF flag
       THEN Released /\ pc' = NoneAcquired
       ELSE pc' = "keep" /\ UNCHANGED <<block, held, eod>>
    /\ UNCHANGED <<threads, flag, stopping, opened, blocks, index, count, header,
                   copied, want, caller>>

Keep ==
    /\ pc = "keep"
    /\ block' = opened
    /\ opened' = 0
    /\ pc' = "kept"
    /\ UNCHANGED <<threads, flag, stopping, held, eod, blocks, index, count,
                   header, copied, want, caller>>

\* The caller looks at the reader that is returned.
Kept ==
    /\ pc = "kept"
    /\ pc' = IF block = NoBlock THEN NoneAcquired
             ELSE IF caller = "read" THEN "copy" ELSE "flush"
    /\ UNCHANGED <<threads, flag, stopping, held, eod, block, opened, blocks, index,
                   count, header, copied, want, caller>>

Acquire ==
    \/ Release \/ OpenAtEod \/ OpenStopped \/ TestFlag \/ Keep \/ Kept

-------------------------------------------------------------------------------
(* read()                                                                      *)

\* Whether read() has to acquire a block: none is kept or it is used up
Empty == block <= 0

\* The loop of read(), up to the use of the reader
Read ==
    /\ pc = "read"
    /\ pc' = IF want = 0 THEN "full"
             ELSE IF flag THEN "partial"
             ELSE IF Empty THEN "release" ELSE "copy"
    /\ caller' = "read"
    /\ UNCHANGED <<threads, flag, stopping, held, eod, block, opened, blocks, index,
                   count, header, copied, want>>

\* The element i of this transfer as it is observed
Element(i) == [number |-> count + i - index,
               time |-> header.start + header.step * ((i - 1) \div header.chans),
               step |-> header.step]

\* What is read from a block that was given back is anything.
Garbage == [number |-> 0, time |-> 0, step |-> 0]

\* A slip in Span: the end of the chunk is passed.
WholeBlock == block

\* How many elements are copied
Span == IF want > block THEN block ELSE want

\* RawBytesReader::read(); a reader destroyed by stop() in between is undefined
\* behaviour: the handler ends with "crashed".
Copy ==
    /\ pc = "copy"
    /\ IF block = NoBlock
       THEN pc' = "crashed" /\ UNCHANGED <<block, index, count, copied, want>>
       ELSE LET n == Span
            IN  /\ copied' = copied \o [i \in 1 .. n |->
                                 IF held = "no" THEN Garbage ELSE Element(index + i)]
                /\ block' = block - n
                /\ index' = index + n /\ count' = count + n
                /\ want' = want - n
                /\ pc' = "read"
    /\ UNCHANGED <<threads, flag, stopping, held, eod, opened, blocks, header, caller>>

-------------------------------------------------------------------------------
(* flush() and reset()                                                         *)

Flush ==
    /\ pc = "flush"
    /\ pc' = IF eod \/ flag THEN "flushed" ELSE "release"
    /\ caller' = "flush"
    /\ UNCHANGED <<threads, flag, stopping, held, eod, block, opened, blocks, index,
                   count, header, copied, want>>

\* The last release of flush()
LastRelease ==
    /\ pc = "flushed"
    /\ CanRelease
    /\ Released
    /\ pc' = "reset"
    /\ UNCHANGED <<threads, flag, stopping, opened, blocks, index, count, header, copied,
                   want, caller>>

FlushThrows ==
    /\ pc = "flushed"
    /\ ~CanRelease
    /\ pc' = "thrown"
    /\ UNCHANGED <<threads, flag, stopping, held, eod, block, opened, blocks, index,
                   count, header, copied, want, caller>>

\* reset() looks at the flag,
TestReset ==
    /\ pc = "reset"
    /\ pc' = IF flag THEN "post" ELSE "relock"
    /\ UNCHANGED <<threads, flag, stopping, held, eod, block, opened, blocks, index, count,
                   header, copied, want, caller>>

\* and unlocks and locks the ring, which makes it go on to its next transfer.
Relock ==
    /\ pc = "relock"
    /\ eod' = FALSE
    /\ blocks' = 0
    /\ pc' = "post"
    /\ UNCHANGED <<threads, flag, stopping, held, block, opened, index, count, header,
                   copied, want, caller>>

Reset ==
    \/ Flush \/ LastRelease \/ FlushThrows \/ TestReset \/ Relock

-------------------------------------------------------------------------------
(* stop(): the flag is set without the mutex.  Without engine threads it is     *)
(* called by the thread that polls, between two handlers.                      *)

SetFlag ==
    /\ ~flag
    /\ threads = 0 => pc \in {"new", "idle"}
    /\ flag' = TRUE
    /\ stopping' = "releasing"
    /\ UNCHANGED <<threads, held, eod, block, opened, blocks, index, count, header,
                   copied, want, pc, caller>>

StopReleases ==
    /\ stopping = "releasing"
    /\ CanRelease
    /\ Released
    /\ stopping' = "done"
    /\ UNCHANGED <<threads, flag, opened, blocks, index, count, header, copied, want,
                   pc, caller>>
===============================================================================
