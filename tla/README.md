# Formal models of the cheetah search pipeline

TLA+ models of the parts of cheetah (SKA time domain search) whose correctness
depends on the order in which threads, callbacks and data meet: the chain that
takes time-frequency data from the RFI stage through the dedispersion buffer to
the single pulse search, the launcher that runs one pipeline per beam, the
reader of PSRDADA rings at the front, and the files data is written to and read
from. TLC checks the models on small instances; TLAPS proves for all sizes the
safety of the RFI ring, of the buffering, of the dedispersion with its band
threads and of the search behind it, of the file writer and the
reader of its files, of the PSRDADA stream, and of the beam launcher. Paths below are relative to
`src/cheetah/`.

1. [The system](#1-the-system)
2. [Modules and code](#2-modules-and-code)
3. [Runs](#3-runs)
4. [Fairness and other assumptions](#4-fairness-and-other-assumptions)
5. [Proofs](#5-proofs)
6. [What the runs found](#6-what-the-runs-found)
7. [What is not modelled](#7-what-is-not-modelled)
8. [Plan](#8-plan)

## 1. The system

    PSRDADA ring --> DadaReadClient --> SigProcDadaStream
    SigProc files ----------------> SigProcFileStream
    UDP (panda)                        |
       |                               |              one thread per beam
       | chunks of time-frequency data v              (BeamLauncher)
       v
    RfiDetectionPipeline::operator()  -- jobs -->  RFI pool threads
       .                                              | RfiOutputHandler:
       .  ring of 300 addresses restores the order    | one at a time, in order
       v                                              v
    ddtr::Buffering  (plan, AggregationBuffer, overlap)
       | full buffers ("blocks")
       v
    DDTR task on the pool  -- flags -->  MultiThread: one thread per band
       | finished DM trials, swapped
       v
    SPDT task on the pool  -->  list of candidates  -->  sinks (files, SPEAD)

    SigProcWriter: chunks --> files of a limited length --> SigProcFileStream

### Components, state, operations, what is hard, what makes them correct

**RFI sequencing ring**
(`pipelines/search_pipeline/detail/RfiDetectionPipeline.cpp`). State: a ring of
addresses of the data in flight, `_last_data_sequence_index` (where the producer
writes) and `_next_data_sequence_index` (whose turn it is), both atomic modulo
numbers. Operations: `operator()` stores the address, advances `_last`, decides
whether to hold the caller back, submits the RFI job, takes the index back if
the submission throws; `RfiOutputHandler::operator()` runs on a pool thread,
spins until the slot at `_next` holds its own address, calls the output handler
and advances `_next`, also if the handler throws; the destructor spins until the
indices are equal. Hard: jobs end in any order, addresses are reused, equal
indices mean both *full* and *empty*, exceptions on both sides, jobs whose
algorithm fails before the handler is called. Correct when output is serialised,
in order and complete, no slot of pending data is overwritten, and the
destructor waits until all is handled and nobody uses the ring any more, and ends.

**Dedispersion buffering** (`modules/ddtr/detail/Buffering.cpp`,
`AggregationBufferFiller.cpp`, `AggregationBuffer.cpp`,
`CommonDedispersionPlan.cpp`). State: the buffer being filled, the overlap, the
number of channels they are made for, the plan. Operations: `operator()` with a
chunk (re-plans and resizes when the number of channels changes, may throw;
inserts; flushes a full buffer to the callback and copies the overlap to the
front of the next). One thread at a time, thanks to the ring. Hard: chunks that
do not divide buffers, gaps, format changes in the middle of a buffer, an
exception after the plan was replaced. Correct when full, hole-free, ordered
buffers are handed on, successive ones overlap exactly, stamps are right and
the algorithms' plan fits the buffer they get.

**Klotski dedispersion** (`modules/ddtr/klotski/detail/DdtrWorker.cpp`,
`DdtrProcessor.cpp`, `Ddtr.cpp`). State: the work area, the current DM range,
the sums per band, two sets of DM trials. Operations: a pool thread takes
`Ddtr`'s mutex, copies the block, and for every DM range clears the sums, raises
the bands' flags, awaits them, integrates and downsamples; then the two sets of
trials are swapped and the handler submits the search.

**Band threads** (`utils/detail/MultiThread.cpp`, `utils/src/MultiThread.cpp`).
State: a `std::vector<bool>` of flags, a mutex per flag, a thread per job.
Operations: `add_job`, `ready`, `finish`, and each thread's loop `wait`, job,
`reset`. Hard: the flags share a word but not a mutex; everything polls.

**Single pulse search** (`modules/spdt/klotski_common/detail/KlotskiCommon.cpp`,
`pipelines/search_pipeline/detail/SinglePulseImpl.cpp`). State: the DM trials it
shares with the dedispersion; the running sums and overlaps it carries from
block to block, members without a mutex. Operations: search, then make the
candidate list with the start time of the trials. Hard: nothing waits for a
search, so that the next block's dedispersion, or the next search, may run at the
same time; two pool threads with two blocks may get the mutex in the other order.
Correct (with the two components above) when every band is added up exactly once
per block and range, no job runs while the dispatcher clears, integrates or
downsamples, what is swapped for the search is whole, each block is searched once
and unmixed, a search continues the sums of the one before it, and lists are dated
right.

**Beam launcher** (`pipelines/search_pipeline/detail/BeamLauncher.cpp`). State:
`_threads`, `_exit`, `_execution_count`, `_mutex`, a condition variable; per beam
a `PipelineWrapper` with a mutex and `_stop`. Operations: `exec()`, `join()`, the
destructor, the thread of each beam, `PipelineWrapper::operator()` and `stop()`.
Hard: a stop at any point of a start, beams that end or throw while others run,
notifications against the predicate of the wait, which loads two counters one
after the other while threads change them. Correct when `exec()` outlives
its threads, does not stop waiting for no reason, and both `exec()` and `join()`
return when they should.

**SigProc file writer** (`sigproc/detail/SigProcWriter.cpp`). State: the open
file, `_header` (with the start time the next chunk must have to continue it),
`_sample_count`. Operations: `operator<<` with a chunk, which decides whether the
file goes on (`file_header`) and writes (`file_write`, which calls itself for what
does not fit); `flush`. Hard: the time in the header is moved by hand and compared
to less than half a sample interval (not at all if the interval is 0), so small
gaps might add up; a chunk may be spread over several files; format changes, gaps
and flushes come in between. Correct when every spectrum is less than half an
interval from the date its file gives it, files are in order, and all of a chunk
is written.

**SigProc file stream** (`sigproc/src/SigProcFileStream.cpp`). State: the list of
files and the place in it, one stream object for all of them and whether it
throws, `_start_time`. Operations: `process()`, `fill_chunk()` (which calls itself
to complete a chunk from the next file), `next_file()`. Hard: the stream is not
closed between files, exceptions are switched on by the first file, a chunk
whose filling throws is handed on by its destruction. Correct when the samples
arrive in order, dated, and a chunk that was not filled comes only before
failure.

**PSRDADA read client and stream** (`psrdada/src/DadaReadClient.cpp`,
`psrdada/detail/DadaReadClient.cpp`, `psrdada/src/SigProcDadaStream.cpp`). State:
the ring's open block, the reader on it, the destructor flag, the end-of-data
mark; the current chunk, `_start_time`, the header of the transfer. Operations:
handlers posted to an engine with no, one or two threads, each of which posts
the next: `do_next_sequence`, `handle_new_sequence`, `new_chunk_process`,
`do_process` with `read()`, `acquire_data_block()`, `flush()` and `reset()`;
`stop()`, from any thread, which sets the flag before it takes the mutex. Hard: a
transfer that ends in the middle of a chunk, or of a spectrum; whether the next
one continues it, which may have another sample interval; `stop()` between any two
steps; with two threads the order of delivery. Correct when chunks hold all
elements once and in order, spectra are within an interval of their dates, and
everything ends after `stop()`.

The other parts (SPEAD, UDP, the CPU and brute force algorithms, allocators, RFI
policies, configuration, device code) are listed with reasons in section 7 and
in `PROJECT.json`.

## 2. Modules and code

| module | models | kind |
|---|---|---|
| `OrderedStage` | what the pipeline relies on when a stage is spread over a pool: a bounded number of items, handed on one at a time, each once, in order | abstract specification |
| `RfiSequencer` | the RFI ring: producer, pool threads, destructor | component |
| `RfiSequencerProofs` | theorems about it, and its inductive invariant | proofs |
| `SlidingWindow` | what dedispersion expects: overlapping windows of consecutive spectra, each stamped with its first, in series that only a change of format begins anew | abstract specification |
| `AggregationBuffer` | the record of a buffer and its operations, as pure operators | data |
| `Buffering` | `Buffering` and `AggregationBufferFiller` | component |
| `BufferingProofs` | theorems about it | proofs |
| `MultiThread` | the band threads and their flags; actions without a `Next` of their own | component |
| `KlotskiSearch` | dedispersion and search on pool threads; composes `MultiThread` | composition |
| `KlotskiSearchProofs` | theorems about it | proofs |
| `BeamLauncher` | `exec`, `join`, beam threads, `PipelineWrapper` | component |
| `BeamLauncherProofs` | theorems about it | proofs |
| `SigProcWriter` | the file writer; a specification of its own (`WriterSpec`) | component |
| `SigProcWriterProofs` | theorems about it | proofs |
| `SigProcFileStream` | reading the files that `SigProcWriter` wrote | composition |
| `SequenceLemmas` | theorems about concatenations of any number of sequences | proofs |
| `SigProcFileStreamProofs` | theorems about the reader, with those of the writer | proofs |
| `DadaReadClient` | the read client; actions without a `Next` of their own | component |
| `SigProcDadaStream` | the stream on the client, its engine and the ring | composition |
| `SigProcDadaStreamProofs` | theorems about it | proofs |
| `MC...` | instances for TLC | |

Definitions whose comment begins with "A slip in" are plausible bugs of the
definition that follows; they are used to test that the properties can fail and
are part of no specification.

**RfiSequencer.** `slot`, `last`, `next` are the ring and its indices; `pc` is
where the producer is. `operator()` is `Store`, `Advance`, `CheckFull`, then
`Submit` or `SubmitThrows`, then `HoldEnds` if it was held back; one step for
each access to shared memory. A pool thread does `Take` (FIFO queue), `Match`
(the spinning loop finds its own address), `Release` (the output handler
returned or threw, both paths advance `next`) and, as a step of its own, `EndJob`
(the handler returns or throws again, and the job releases its data): in between
the destructor may already have seen the last index. Reading `next` and then the slot
is one step: only the thread whose turn it is advances `next`, and the slot a
stale index points to cannot hold the reader's own address, which is live and
stored elsewhere. `Fail` is a job that ends without calling the handler; `lost`
are the items this happened to. `Live` are the items whose data exists: an
address may be reused as soon as its job has ended. `given`, `taken`, `done`,
`addr`, `log`, `lost` are history variables. The relaxed atomics of the code are
interleaved as if they were sequentially consistent. `OrderedStage` sees which item
is handed on (`output` is `log`), how many are accepted and which failed; up to the
first failed item only the next in order may be handed on.

**Buffering.** A spectrum is the time of its observation, so order, gaps and
repetitions are visible; all channels are treated alike and one function stands
for them. `Feed` is the whole of `operator()` for a chunk that is accepted:
`agg_buffer_init`, `insert`, and `flush` with `transfer` when the buffer is full.
`Refuse` is the same with one of the two exceptions. `Gap` is the environment.
`SlidingWindow` has the data's format as a variable: only a change of it (`Reformat`)
begins a new series of windows, which is later than the old one; within a format
each window begins where the overlap of the last does (`HandOn`). When a chunk is
cut off or input is missing (`Lose`) nothing is promised until the format changes;
what holds even then is `SuccessiveBuffersOverlap` and `OnlyFullBuffersHandedOn`.
The results of the plan (spectra and overlap by number of channels) are
parameters. The old contents of a resized buffer count as unwritten (`Blank`).

**MultiThread and KlotskiSearch.** Setting a flag is a read and a write of the
shared word, under the mutex of that flag. `Racy` selects the executions: with
`FALSE` only those in which no two such writes overlap. A data item is its
origin: the work area is (block, times downsampled + 1), a band's sum is the
sequence of what was added up, a set of DM trials is the block of each range and
a start time. `Torn` is data of no block. A pool thread takes a block (`TakeBlock`)
and then waits for `Ddtr`'s mutex, so that blocks may be dedispersed out of turn;
`StartDdtr` is the lock, the copy and both start times in one step, as nobody but the
holder of the mutex sees anything of it before its last assignment. A search looks at the trials when it
begins and when it ends; whatever changes in between is in `seen`. `sums` is the
block whose sums and overlaps the last search left behind; `after` is what a
search has read there at its beginning and at its end. `MaxInFlight` blocks may be
on their way to the end of their search. The history `met` says in which ways they
have come too close: a block was dedispersed out of turn (`"order"`), began
(`"begin"`), or was swapped (`"swap"`) while a search was submitted or not over. The
properties say which of these they can bear.

**BeamLauncher.** `pc` has a place for each caller of `exec()`, each thread
(caller, beam) and the joiner. Each access to a shared variable and each lock
operation is a step. The predicate of the wait is two: `TestRunning` loads
`_execution_count`, `TestStarted` loads `execution_start`; `wait()` is these, `Block`, a
wake-up (a notification or a spurious one) and `Relock`. `_exit` is read by the threads without the mutex, so they may
see it before or after a change. A panda pipeline is `off`, `on` or `stopping`.
The beams in `endless`, any set chosen in `Init`, run until they are stopped; the
others may also end or throw. `Reap` is the loop that joins the threads, in
`exec()` and in `join()`.

**SigProcWriter and SigProcFileStream.** A spectrum is its time in ticks, of which
`Period` pass from one to the next, and a format what headers can differ in; the
formats in `Timed` have their sample interval set, in the others it is 0, and start
times are not compared (`Continues`). `HeaderAfter` moves the header that was kept,
not the chunk's, so that a difference the comparison lets pass is not taken over. `Take` is the entry of `operator<<`, and each `WritePart` one
call of `file_write()`: whether the file goes on, what fits, the header moved
on, the file closed when it is full, and the call for the remainder. That call
begins at the number of spectra written *just now*, not at their sum; `once` is
false from then on if the two differ. When the writer is idle its files are
read: `list` is what the configuration names, the files and perhaps a missing
one or one with a bad header. `FillChunk` is a chunk from the open file, the
samples read and how many were not; `Delivered` is what all chunks hold together.
`OpenTwice` is `next_file()` with a stream that is still open.

**DadaReadClient and SigProcDadaStream.** An element is its number and the time
its transfer gives it. `pc` is where the one handler that holds the client is; each
access to the reader and the flag and each call of the ring's library is a step
(closing a block and marking the end of the data with it is one, `Released`; so are
the `unlock()` and `lock()` of `reset()`, `Relock`), so `stop()` (`SetFlag`, then
`StopReleases` with the mutex) falls between any two. `Released`, `OpenBlock`,
`TestFlag`, `Keep`, `Kept` are `acquire_data_block()`; `Read` and `Copy` the loop of
`read()`; `Flush` is the loop of `flush()`, `LastRelease` its end, `TestReset` and `Relock`
are `reset()`. A block that was
given back under the reader yields `Garbage`; a reader that is gone, `crashed`. A
handler that has posted the next one still holds its chunk, in `leaving`, until
`Deliver`. The writer of the ring (`Ring`) opens transfers that begin before, at or
after the end of the last one, with any number of channels and any sample interval,
and ends them anywhere, also in the middle of a spectrum. A chunk keeps the interval
it began with, also when it goes on with a transfer that has another.

## 3. Runs

Distinct states are those of a full exploration (of a violation: until found).

| run | instance | states | shows |
|---|---|---|---|
| `rfi` | 2 slots, 3 threads, 3 addresses, 4 jobs, any of which may fail | 327 999 | `IInv` (with the type invariant), `SerialisedOutput`, `InOrder`, `PendingKeepTheirSlot`, `DestroyedWhenDrained`; the ring implements `OrderedStage`; a job is output unless it or one before it failed, and the destructor ends if none did |
| `rfi_hold` | 2 slots, 2 threads, 3 jobs | about 12 000 | *violation*: a held producer may spin for ever (`ProducerResumes`) |
| `buf` | 4 formats, 2 of them refused; chunks of 1, 2, 7; gaps of 1, 2; 13 spectra | 93 293 | `OnlyFullBuffersHandedOn`, `StampIsFirstSpectrum`, `LastSpectrumKept`, `SufficientForAcceptedPlan`, `SuccessiveBuffersOverlap`, `IInv`; buffers are sliding windows (`ImplementsSlidingWindow`) as long as nothing is cut off or missing |
| `beam` | 1 caller, 2 beams that may end, throw or be endless, 2 calls each of `exec` and `join` | 113 570 | `ExecOutlivesItsThreads`, `CountersTellAnEnd`; a `join()` that has the mutex returns (`LockedJoinReturns`) and ends the `exec()` it finds waiting (`LockedJoinEndsExec`) |
| `beam_race` | 1 call each | about 600 | *violation*: `exec()` stops waiting with every beam running (`WaitEndsForAReason`) |
| `beam_blocked` | 1 call each | 21 769 | *violation*: `exec()` joins with the mutex that `join()` needs (`JoinEndsExec`) |
| `klotski` | 2 bands, 2 ranges, 2 pool threads, 3 blocks of which 2 may be under way at once, no racing flag writes | 222 691 | `EveryBandOnce`, `JobsRestInBetween`, `TrialsAreWhole`, `EachBlockSearched`, `SearchGoesOn`, `DatedWhenOver`; every block leads to a list (`EveryBlockSearched`) |
| `klotski_racy` | 2 bands, flag writes may overlap | about 100 | *violation*: a band is added up twice or not at all (`EveryBandOnce`) |
| `klotski_overlap` | 2 bands, a second block before the first is searched | about 1 800 | *violation*: a list gets the next block's start time (`ListIsDated`) |
| `sigproc` | a format with and one without an interval, chunks of 1, 2, 4, files of 3, gaps of a third of an interval, 5 intervals; read whole or in chunks of 2, with a bad or missing file in the list | 755 787 | `FilesDated`, `FilesInOrder`, `ChunkWritten`; a chunk smaller than two files is written in the end (`WriteEnds`); `ReadInOrder`, `ChunksDated`, `UnreadOnlyAtFailure` |
| `sigproc_files` | 1 format, chunks of 2, files of 2, read by 2 | about 50 | *violation*: the second file is never read (`AllFilesRead`) |
| `dada` | blocks of 3 elements, 2 per transfer, chunks of 2 spectra of 1 or 2 channels, 2 transfers with intervals of 2 or 3, the second from 2 before to 1 after the end of the first, engine of 0, 1, 2 threads | 424 731 | `WholeAndInOrder`, `ChunksAreDated`; after `stop()` all comes to rest (`StopEnds`) |

Each run that passes also checks the type invariant of its module (in `rfi` and
`buf` it is part of `IInv`).

**Bounds.** *rfi*: with 2 slots and 4 items the indices wrap twice, the ring is
full and empty in turn, three threads overtake each other, and 3 addresses are
too few for 4 items, so reuse is forced, also of the address of a job that
failed; larger sizes are covered by the proofs. *buf*: chunk sizes below, equal
to and above the room in a buffer; overlaps of 0 and of up to all but one
spectrum; 13 spectra let several buffers pass between and after changes of
format. *beam*: two beams are the least for "some have ended, others have not";
a second `exec` and `join` meet the state the first left. *klotski*: two bands
for the first and the last of each loop, two ranges for one downsampling that is
used and one that is not; with two blocks under way a block begins, is swapped and
is searched before, during and after the search of the one before, and two threads
that have taken blocks can get the mutex in the other order; the third block meets
what both left behind. *sigproc*: chunks below and above the length of a file, and
together equal to it; times in thirds of an interval, so that one gap is let pass
and a second in the same file is not; the files of up to 5
spectra can be one, several of one chunk, or cut by a flush, a gap or a change of
format; a list of them can end in the middle of a chunk.
*dada*: blocks of 3 elements are less than a chunk of 4 and more than a chunk of
2, so that chunks are put together from several blocks and blocks cut by chunks;
a transfer of 1 block ends in the middle of a spectrum of 2 channels, one of 2
blocks does not; with intervals of 2 and 3 the offsets are one interval of either
length, or part of one, early, exact, and late, and the second transfer can go on
with a chunk of the other interval; the proofs cover more transfers. `MaxItems`, `MaxTime`, `MaxCalls`,
`MaxBlocks`, `MaxFiles`, `MaxTransfers` bound counters that the code does not
bound; `CHECK_DEADLOCK FALSE` is stated because the models stop there, as the
program does at the end of its input, after a failure or after `stop()`.

## 4. Fairness and other assumptions

* *rfi*: weak fairness of the producer's steps inside a call (never of new data,
  of the destruction or of a failing job) and of each pool thread. The loops
  call `std::this_thread::yield`, and the pool has ordinary threads.
* *beam*: strong fairness of the caller, of each beam's thread with the `stop()` it
  calls after an exception, and of the joiner with the `stop()` calls it makes,
  because a mutex that is requested for ever, with
  `lock` or in a loop of `try_lock`, is granted in the end if it is free again
  and again: the threads are preempted by the operating system and no other
  thread can take it infinitely often; weak fairness of the end of a pipeline
  that was asked to stop. No fairness of a stream that ends by itself, a
  pipeline that throws, a call, or a spurious wake-up.
* *klotski*: strong fairness of pool threads and band threads, for the same
  reason. No fairness of `HandOn`. The task queue is FIFO. `MaxInFlight` is a bound
  for TLC, not a pace: in the code nothing waits for a search, and only the speed of
  the machine, against the duration of the data by which the buffering delays a
  block (`clock_nanosleep` in `AggregationBufferFiller::flush`), keeps blocks apart.
  What holds only while they keep apart says so with `met`.
* *sigproc*: weak fairness of `WritePart`: `file_write()` calls itself without
  waiting. Chunks, flushes, gaps and reading are up to the caller.
* *dada*: weak fairness of the engine's handlers, of the return of a handler and
  of the part of `stop()` that has the mutex. None of the writer of the ring,
  and none of the call of `stop()`. A step on the ring (`ipcio`, external) is
  atomic; closing the ring's open block fails, and throws, if none is open.
* panda (pools, `AtomicModuloNumber`, pipelines, `copy`, the engine) and the
  psrdada library are not in the repository and are modelled by how the code
  uses it (`"external"` in `PROJECT.json`).

Every liveness property is checked under a specification with fairness; the
violations of `rfi_hold` and `beam_blocked` therefore are loops or waits that no
scheduling ends.

## 5. Proofs

All theorems hold for every value of the constants that satisfies the named
assumptions in the modules: `Slots >= 2`; numbers of channels and sizes of
chunks positive; other sizes and bounds natural numbers; processes that are told
apart are different, and the callers of `exec()` finitely many. What a theorem
assumes beyond that is said in it:

* on `KlotskiSearch`, that flag writes do not overlap (`Racy = FALSE`); without it the
  properties are false, as `klotski_racy` shows. The types and the absence of
  deadlock do not need it. None assumes anything about the number of blocks under
  way;
* the two theorems that say that nobody waits in vain, that there is a pool
  thread at all (`Workers # {}`, `Pool # {}`);
* on `BeamLauncher`, for what is said about the counters, one caller of `exec()`.

Each inductive invariant was also checked by TLC before it was proved; those of
`rfi` and `buf` are invariants of the runs. The definitions in the proof modules
that are stated by a theorem but are no property of a run were checked by TLC on
the instances of the runs, too.

**Liveness, and what is proved of it.** Fairness is out of reach, but the part
of a liveness property that can be wrong in the code is often safety: a count
that every step lowers, and that somebody can always take a step. Both are
proved for `stop()` of the PSRDADA stream (`StopIsBounded`, `StopGoesOn`); the
count for the calls of `file_write()` (`PartsEnd`); the other for the dedispersion
with its band threads (`NobodyWaitsInVain`), and for the ring up to the two ways in
which it really comes to a standstill (`OnlyTwoStandstills`). Conversely, that a thread waits for ever is an
action property: `HoldNeverEnds`, `ReapBlocksJoin` and `LargeChunkNeverDone` state
for all sizes what `rfi_hold`, `beam_blocked` and an observation about chunks of
two files found on small instances.

**RfiSequencer** (`RfiSequencerProofs`, 1006 obligations). `SerialisedOutput` and
`InOrder` are not inductive: nothing in them says why the address at `next` is
the handler's own *only* for the oldest pending item. `IInv` adds:

* the pending items `done+1 .. given` occupy consecutive slots from `next` on
  (`SlotsOfPending`), and the addresses of the items whose data exists differ
  (`AddressesDiffer`);
* `last` is as many slots ahead of `next` as there are items (`LastIndex`), modulo
  `Slots`, so that equal indices mean empty *or* full; which of the two, is known
  from where the producer is: outside a call the ring has room unless it is being
  held back (`HoldKeepsRoom`), so the destructor's test is safe;
* the item being stored has room, its slot and a fresh address (`CallHasRoom`);
* busy threads work on different items that were started and are not finished
  (`ItemsOfThreads`); unless a job has failed every started item has one
  (`StartedAreBusy`); the one in the output handler has the address at `next`, and,
  up to the first failed job, the first pending item, and `log` counts up to it
  (`OutputIsFirst`).

So a handler that finds its address works on item `done+1`, or on one that has
taken over the address of a failed job; as two threads never share an item or a
live address, at most one of them can be past the comparison. Proved:
`TypeCorrect`, `OutputIsSerialised`, `OutputIsInOrder`, `SlotsAreKept`, and
`DestructorWaits`: when the destructor's loop ends all items have been handled and
no thread will use the ring or the output handler again (that the threads have
returned from their jobs is not so, see section 6). `ImplementsStage` is the
refinement of `OrderedStage`: each step of the ring is a step or a stutter of a
stage that hands on the items themselves, one at a time, none twice, none that
failed, and in order unless a job failed. It rests on
`EachOnce`: an item in `log` did not fail, is there once, and no thread that waits for
its turn has it.

From the same invariant: while items are pending and none before failed, either
the oldest has not been started, and then every thread is free or about to return,
or its thread finds its address at `next` (`SomebodyCanStep`). So there are only two
ways in which all come to wait for each other (`OnlyTwoStandstills`): behind a job
that failed, and in `operator()`, held back by a ring that has become *empty*. The
second is for ever (`HoldNeverEnds`: the producer stays, the ring stays empty, and
only jobs that have had their turn still return).

**Buffering** (`BufferingProofs`, 1076 obligations). First the operations on one
buffer: what a new, resized, stamped or filled buffer and the successor of a
full one contain. `SuccessiveBuffersOverlap` relates the buffer handed on *now* to
the one handed on *before*, which may be many chunks ago; the strengthening is
`Linked`: the buffer being filled begins with the end of the last one out for as
long as the format stays, which needs `Formatted` (the overlap is always less
than the capacity: the two refusals of `agg_buffer_init` are what guarantees it)
and that a chunk is inserted behind it. `Fine` says that each buffer is in order
and earlier than the next data. For the data that is `whole`, with nothing cut
off or missing, `Unbroken` adds that the buffers have no gap, are stamped by
their first spectrum and end with the last spectrum of the input; from it follow
`StampIsFirstSpectrum`, `LastSpectrumKept` and, with the fact that the buffer being
filled begins no later than the next data (`FirstIsPast`), the refinement of
`SlidingWindow`: within a format every window begins where the overlap of the last
one does, and a new series begins with a change of format only, later than the old.
For the plan, `PlanOfBuffer` says that the buffer has the size of its own
format's plan, and that a plan for any other format is one that was refused;
so a buffer handed on with an accepted plan has more spectra than its delay.
Proved: `TypeCorrect`, `FullBuffers`, `TimeOrder`, `Overlap`, `Stamps`,
`NothingCut`, `PlanSuffices`, `ImplementsWindows`.

**BeamLauncher** (`BeamLauncherProofs`, 1233 obligations). `ExecOutlives`: a thread
that is not in `_threads` has not begun or has ended, since nobody takes a thread
out before it has ended; one that is in it belongs to a call that is under way.
So when a call is over, its threads are. This needs no assumption about who
calls `exec()` or `join()`, and how often.

Neither does `WrapperInv`: a wrapper's mutex is owned exactly by who is between
its lock and its release (`OwnersHold`), its pipeline runs exactly while the owner
is in it (`PipelinesOwned`), and while a thread that has looked at `_stop` starts or
runs the pipeline, `_stop` is not set (`StopSeen`). The three need each other: the
flag and the pipeline may only be changed by the owner. So a pipeline is run by
one thread at a time even if several calls of `exec()` started threads for its
beam (`PipelinesExclusive`), and a beam with a `_stop` is off, in whichever call
(`StopKeepsOff`).

The other theorems are about one caller.
`CountsThreads`: `_execution_count` is the number of threads between its two
changes, and `execution_start` the number of those that have begun; so at any
moment, when all have begun and the count is not the number of beams, one of them is
past the second change (`CountersAreRight`). This is what the comment at the two
increments is about, and it is not enough: the wait does not read the counters at one
moment (`beam_race`). The counts can be stated because `_mutex` is held while threads
are launched, tested and joined (`HoldsMutex`), so that the threads of two calls do
not mix. `TypeCorrect` is a consequence for the counters. With two callers
`_execution_count` would be the sum over both; nothing in the repository does this.
`HoldsMutex` is also what shuts `join()` out (`ReapBlocksJoin`).

**KlotskiSearch** (`KlotskiSearchProofs`, 1740 obligations). `TypesInv` says where
the task with `Ddtr`'s mutex, those that wait for it and the bands' threads may be
(`HolderInside`, `Dispatching`), whatever `Racy` and however close the blocks;
`WithinBounds` follows. `BandsInv` ties the flag of each band to the place of its
thread and to the loop of the dispatcher, the holder of the mutex: `BandsAt(Place)` says
for each place of the dispatcher which bands have been cleared, added, raised or
awaited, and what their sums are. Part of it is `OneWriter`: no two writes of
the flags overlap, which is why it needs `Racy = FALSE`. From it `BandsComplete`
and `BandsRest`. `Dedispersed` says which ranges of the trials the holder of the mutex
has filled with its block; no search can disturb that, so what is swapped is whole,
however close the blocks come (`TrialsHandedOnAreWhole`).

`TidyInv` is about the executions in which blocks are dedispersed in turn and none is
swapped while a search is submitted or not over (`met` is at most `"begin"`). In them
there is one search at most (`OneSearch`), for the block swapped last (`Swapped`), and
the trials, the sums and what the search has seen so far are those of that block or of
the one before it (`Searches`), whether or not the next block is being dedispersed
meanwhile: `OnceInOrder`, `Continued`. If no block even begins while a search is not
over, the start times stay too (`Dates`): `Dated`. These are the most that can be
said: the code does nothing to keep blocks apart, and for each of the three ways in
`met` to come too close TLC finds the properties broken without the condition.

`NobodyWaitsInVain` is about all executions again, those with overlapping flag
writes included: with `Raising` (a flag is being raised only by the task in that
loop, and the band it waits for has a thread) some pool thread or some band's
thread can go on for as long as there is a task. A lost write makes a band's
sum wrong, but never leaves everybody waiting.

**SigProcWriter** (`SigProcWriterProofs`, 1029 obligations). `OpenIsLast`: while a
file is open, the header kept is that of the file, moved on by as many intervals as
it has spectra, and `_sample_count` is their number. `InHand` says which part of the
chunk is written, and that the header given to `file_write()` is less than half an
interval from the spectrum it begins with: at first it is the chunk's own, for a
remainder the kept one, which was compared with the chunk's. So a spectrum is near
its date because of the comparison made for *its* chunk, and what the comparisons let
pass does not add up. `WrittenBefore` says that all else in the files is earlier,
`FrontWritten` that the front of the chunk is there. What is said about dates and
order needs `once`: a remainder that is begun at the wrong place breaks both. Proved:
`WithinLimit`, `Dated`, `Ordered`, and `Complete`, which needs no `once`.

`Remainder`: when `file_write()` calls itself, no file is open and the chunk is
resumed within the first file's length of it. Hence a chunk smaller than two
files advances with every call (`PartsEnd`), one of two files or more never gets
past that place (`LargeChunkNeverDone`), and spectra are repeated only by chunks
larger than a file (`RepeatsNeedLargeChunk`): if there are none, all files with an
interval are dated to half of it, and all are in order, without condition
(`SmallChunksAreSafe`).

**SigProcFileStream** (`SigProcFileStreamProofs`, 824 obligations;
`SequenceLemmas`, 448). The writer in the composition only makes its own steps
(`WritesAsBefore`), so all that is proved about it holds of the files read.
`ReaderIInv`: before reading nothing is delivered (`NotBegun`); until a file could
be opened all entries of the list were bad (`OnlyBad`); since then the stream has
stayed with that file, has delivered its front up to the position, and its
`_start_time` is that of the next sample (`FirstFile`). What was delivered is the
concatenation of any number of chunks, each of which is from one file (so `Dating` adds
no error to the writer's `Dated`); what is in the list that of any number
of files, so `InOrder` needs facts about concatenations of unbounded length,
which are inductions over data. The theorems of the library for that take an
operator as parameter, which the installed provers do not instantiate;
`SequenceLemmas` instead takes the *set* of lengths for which a fact fails and
shows with `NatLessThanWellFounded` and `WFMin` that it has no least element.
Proved: `ReaderTypes`, `InOrder`, `Dating`, `UnreadLast`. With `AtEnd`, what is true
where `process()` ends the stream: at most one file's samples are ever delivered
(`OneFile`, the finding of `sigproc_files` for all sizes), and a stream that ends
without an error has delivered everything, unless a file of the list is missing
(`SilentEndIsComplete`).

**SigProcDadaStream** (`SigProcDadaStreamProofs`, 1914 obligations). The
invariant has three layers, each proved from the ones before. `Basic`: the
types, what a chunk lacks at each place of `read()`, that it is cut or passed on
at whole spectra only (which is what the check at the end of `do_process()` is
for), and that a reader is there when it is used unless `stop()` came from
another thread (`BlockStays`). `InRingOrder`: the elements of the chunk follow those
that have left, as long as at most one handler that holds a chunk has not returned; a
`stop()` from another thread can replace elements by garbage, but not displace the
others. `InTime`: the stream's `_start_time` is the time of the transfer's next element,
less than an interval of that transfer off. This is an invariant although transfers
may begin early and have any intervals: one that begins early is only accepted if it
is early by less than its own interval, and the time is moved on by the interval of
the transfer that is read. A chunk, however, keeps the interval it began with: its
start is right always (`Timed`), the dates of the rest if all its elements are of
transfers with that interval (`Uniform`). Proved: `TypeCorrect`, `RingOrder`, `Dated`.

Once the destructor flag is set every step of a handler or of the ring lowers
`StepsLeft` (`StopIsBounded`), which is 24 at most, wherever the handlers were and
whatever the size of blocks and chunks: the handlers still go on to the next
chunk, but what that reads ends the chain. Until all is quiet a handler, the
return of one or the rest of `stop()` can go on (`StopGoesOn`).

**Only model-checked**: liveness as such (`EveryItemOutput`, `DestructorEnds`,
`LockedJoinReturns`, `LockedJoinEndsExec`, `EveryBlockSearched`, `WriteEnds`, `StopEnds`),
which is outside what TLAPS 1.4.5 can do with fairness. Every invariant and
every action property that a passing run checks is stated by a theorem.

## 6. What the runs found

* `rfi_hold`: after filling the ring, `operator()` spins while the indices are
  equal. If the jobs drain the *whole* ring before it looks, empty looks like
  full, and the producer, the only one who could change this, spins for ever
  (`RfiDetectionPipeline.cpp:88`).
* `beam_race`: the predicate of the wait in `exec()` loads `_execution_count` and then
  `execution_start` (`BeamLauncher.cpp:228-230`), while threads increment both without the
  mutex. If one of two beams has counted when the first load is made, and both have
  started when the second is, `exec()` stops waiting with every beam running, and
  holds `_mutex` from then on. The order of the increments, on which the comment at
  line 201 relies, does not help against this; the other order of the loads would.
* `beam_blocked`: as soon as one of several beams has ended, `exec()` joins the
  others with `_mutex` held, which `join()` needs to stop them.
* `klotski_racy`: the flags are bits of one word under different mutexes
  (`utils/src/MultiThread.cpp:24,32`); of two overlapping writes one is lost.
* `klotski_overlap`: `DdtrWorker.cpp:63` overwrites the start time of the trials
  under search when the next block begins.
* `sigproc_files`: `next_file()` opens every file with the same stream and does not
  close the one before (`SigProcFileStream.cpp:357`); opening an open file stream
  fails, and with exceptions switched on `process()` throws from the second file
  on.

Observed while modelling, outside the listed runs:

* *Buffering*: with chunks that do not divide the windows `AggregationBuffer::insert`
  cuts off the end of a chunk, which is not continued in the next buffer, and
  after that (or after a gap in the data) `transfer` derives a start time that is
  not that of the first spectrum. The properties about this therefore speak of
  what holds until data is cut off or missing (`whole`).
  `agg_buffer_init` installs the new plan before the checks that may throw
  (`Buffering.cpp:60`); data of the old format that follows is buffered with the old
  sizes under the refused plan. What comes of it is up to the algorithms: the klotski
  workers throw when a buffer is smaller than the delay (`ddtr/klotski/detail/DdtrWorker.cpp:50`,
  `klotski_bruteforce/detail/DdtrWorker.cpp:52`), the CPU worker makes the plan again from
  the data of the buffer (`ddtr/cpu/detail/Worker.cpp:50`).
* *Beams*: `_execution_count` is changed and the condition notified without the
  mutex (`BeamLauncher.cpp:211`), so the notification may fall between the
  predicate and the wait of `exec()`, which then sleeps although a beam has ended;
  `join()` wakes it. A `_stop` left by a `join()` that met a beam
  before it started makes the next `exec()` skip that beam. Two concurrent calls
  of `exec()`, which nothing in the repository makes, would both start all beams.
* *RFI*: the slot of a job that failed before its handler was called stays, so the
  ring is one shorter; all later handlers spin, until data at the same
  address takes the slot over and is output in the place of the failed job. The
  destructor's loop (`RfiDetectionPipeline.cpp:51`) may end while a pool thread is between
  the increment of `_next_data_sequence_index` (lines 119 and 124) and the end of its
  job: it touches neither the ring nor the output handler any more, but an exception
  that it throws on is still on its way through the task.
* *Klotski*: a pool thread takes a block before it has `Ddtr`'s mutex (`Ddtr.cpp:72`), so
  of two waiting blocks the later one may be dedispersed first; lists then come out of
  order, and a search continues the sums of the wrong block. A block that is swapped
  while a search is not over takes the trials from under it: a block is searched twice
  and another never. `EachBlockSearched` and `SearchGoesOn` name these conditions.
* *SigProc*: the remainder of a chunk that spans three files begins at the
  length of the part written last, not at the sum of the parts, so spectra are
  written again; a chunk of two files or more (`2 * MaxCount`) is written for ever.
  A file that does not exist ends the stream without an error if it is the first.
  A chunk whose filling throws is delivered with samples that were never read.
  A file goes on over a gap of less than half an interval, and its header time then
  differs by that from the data, until a file begins with a header of its own; data
  without a sample interval goes on over any gap.
* *PSRDADA*: `stop()` from another thread sets the flag without the mutex; a handler
  may then read from a block that was given back, or through a reader that is
  gone. A chunk that was not filled when the client is stopped, or the stream
  fails, is delivered with an unfilled tail. A transfer with another sample interval
  goes on with the chunk of the one before, which keeps its interval, as only the start
  time and the number of channels are compared (`SigProcDadaStream.cpp:94-110`): later
  spectra of that chunk are dated wrongly. With two engine threads the next
  chunk may be delivered before one whose handler has not returned yet. Header
  start times have no tolerance for lateness, so a transfer that begins a little late
  begins a new chunk, and a chunk cut before its first spectrum is empty.

## 7. What is not modelled

* Numerics: the RFI algorithms and policies, the dedispersion and search kernels,
  the strategy's floating-point planning, corner turn, channel mask, statistics.
  In the models they are delays, parameters or "what was added up".
* The change of a dedispersion plan while blocks are queued or running, the
  refusal of a buffer that is too small, and the band threads that a replaced
  strategy leaves polling: `Buffering` and `KlotskiSearch` are composed by what the
  one hands to the other, a full block, and not as one module, whose states would
  be the product of the two.
* A band thread that looks at its flag before `push_back` has made it (undefined
  behaviour: any outcome); `MultiThread::terminate()`, which nobody calls; the
  affinity of threads.
* SPEAD streams, UDP receivers: their order, timeouts and lifetimes are decided
  by spead2 and panda, which are not in the repository, and what is left here is
  layout and arithmetic on packet numbers.
* The PSRDADA write client, used by tests only; in the models it is the
  environment. Connecting to a ring, and the `unlock()` in the read client's destructor
  (`psrdada/src/DadaReadClient.cpp:72`).
* The caching allocator, all of whose calls hold one mutex and which nothing but
  its tests uses. The brute force and CPU dedispersion: one call per buffer,
  without the flags that make the klotski one hard.
* `SpSift` and `SpsClustering`, whose bodies are commented out, and `Fof`, which the
  pipeline does not call.
* Configuration, factories, generators, emulator, output of text: no state that
  changes later, or pure input and output. CUDA code: device memory and kernels.
  `thirdparty/` is vendored code.
* The delay of the buffering's callback; log output; the return values of beams;
  the conversion of samples to floats and back; the names of files.

`PROJECT.json` gives the components with their status, and the hazards of the
code at their lines, each with the properties about it or the reason why there
is none.

## 8. Plan

Everything that was planned as a module is there: `AggregationBuffer`, `Buffering`
against `SlidingWindow`; `RfiSequencer` against `OrderedStage`; `BeamLauncher`;
`MultiThread` and `KlotskiSearch` with the state the search carries between blocks;
`SigProcWriter` and `SigProcFileStream` as each other's inverse; `DadaReadClient` and
`SigProcDadaStream` on engines with and without threads.

What could come next, in this order:

1. `Buffering` composed with `KlotskiSearch` under a change of plan, with several
   strategies and refused buffers; this needs an abstraction of the dedispersion
   to one step, which `TrialsHandedOnAreWhole` justifies.
2. The sums of the search in parts, for searches that overlap and change them under
   each other.

And to prove:

1. Who can wait for whom in `BeamLauncher` besides `ReapBlocksJoin`: that with one
   beam, or beams that end, `exec()` and `join()` are never both stuck.
2. That `KlotskiSearch` implements one step per block in the executions of `TidyInv`,
   the abstraction the composition with `Buffering` would be built on.
