------------------------------- MODULE Buffering ------------------------------
(***************************************************************************)
(* The buffering in front of dedispersion: ddtr::Buffering and             *)
(* AggregationBufferFiller (modules/ddtr/detail/).                         *)
(*                                                                         *)
(* Chunks of time-frequency data arrive one after the other on one thread. *)
(* When the number of channels differs from the current one, the           *)
(* dedispersion plan is recomputed (and handed to the algorithms) and the  *)
(* buffer is resized.  The chunk is inserted into the current buffer; a    *)
(* full buffer is swapped for a new one, its last _overlap spectra are     *)
(* copied to the front of the new one, and it is handed to the full-buffer *)
(* callback, which submits it to the dedispersion task.                    *)
(*                                                                         *)
(* out, outPlan, outs and whole record what was handed on and what was     *)
(* lost.  The pacing of the callback (clock_nanosleep) only delays and is  *)
(* left out.                                                               *)
(***************************************************************************)
EXTENDS AggregationBuffer

CONSTANTS ChanCounts,        \* numbers of channels the data may have
          ChunkSizes,        \* numbers of spectra a chunk may have
          Gaps,              \* spectra that may be missing between two chunks
          StrategySpectra,   \* plan.dedispersion_strategy(data), by channels
          StrategyOverlap,   \* plan.buffer_overlap() after it, by channels
          MaxSpectra,        \* _max_spectra: config.dedispersion_samples()
          MaxTime            \* bound on the time of the data

ASSUME ConstantsAssumption ==
    /\ ChanCounts \subseteq Nat \ {0}
    /\ ChunkSizes \subseteq Nat \ {0}
    /\ Gaps \subseteq Nat
    /\ \A c \in ChanCounts : StrategySpectra[c] \in Nat
    /\ \A c \in ChanCounts : StrategyOverlap[c] \in Nat
    /\ MaxSpectra \in Nat
    /\ MaxTime \in Nat \ {0}

VARIABLES
    current,    \* _agg_buf_filler._current
    overlap,    \* _agg_buf_filler._overlap
    channels,   \* _current_number_of_channels
    planFor,    \* channels the plan, and the algorithms' copies, are made for
    now,        \* time of the next spectrum of the input
    out,        \* the buffer last handed to the callback
    outPlan,    \* planFor at that moment
    outs,       \* how many buffers were handed on since the last resize
    whole       \* no spectrum was cut off, refused or missing since then

vars == <<current, overlap, channels, planFor, now, out, outPlan, outs, whole>>

\* The default constructed filler has an empty buffer of capacity 0.
Init ==
    /\ current = NewBuffer(0, 0)
    /\ overlap = 0
    /\ channels = 0
    /\ planFor = 0
    /\ now = 1
    /\ out = NewBuffer(0, 0)
    /\ outPlan = 0
    /\ outs = 0
    /\ whole = TRUE

\* The two configuration errors of agg_buffer_init
PlanRefused(c) ==
    \/ MaxSpectra # 0 /\ StrategyOverlap[c] + 1 >= MaxSpectra
    \/ StrategyOverlap[c] >= StrategySpectra[c]

\* The current buffer after agg_buffer_init for a chunk of c channels that
\* starts at time t: resized, with the chunk's metadata, if c is new
Prepared(c, t) ==
    IF c = channels
    THEN current
    ELSE Stamped(Resize(current, StrategySpectra[c], c), t)

NextOverlap(c) == IF c = channels THEN overlap ELSE StrategyOverlap[c]

\* flush(): swap leaves the metadata in both buffers
Successor(b, o) ==
    LET fresh == Stamped(NewBuffer(b.cap, b.chan), b.start)
    IN  IF o = 0 THEN fresh ELSE Transfer(o, b, fresh)

\* A slip in IsFull: off by one.
IsNearlyFull(b) == Remaining(b) <= 1

\* insert() flushes when nothing more fits.
IsFull(b) == Remaining(b) = 0

\* A slip in PlanAfter: the algorithms keep the plan they have.
PlanNotPassedOn(c) == IF planFor = 0 THEN c ELSE planFor

\* dedispersion_strategy() runs, and passes the new plan to the algorithms,
\* when the number of channels changes.
PlanAfter(c) == IF c = channels THEN planFor ELSE c

\* operator()(data) with a chunk of n spectra of c channels that is accepted
Feed(c, n) ==
    LET filled == Insert(Prepared(c, now), now, n)
    IN  /\ c # channels => ~PlanRefused(c)
        /\ channels' = c
        /\ overlap' = NextOverlap(c)
        /\ planFor' = PlanAfter(c)
        /\ now' = now + n
        /\ whole' = /\ c = channels => whole
                    /\ n <= Remaining(Prepared(c, now))
        /\ \/ /\ IsFull(filled)
              /\ out' = filled
              /\ outPlan' = planFor'
              /\ outs' = (IF c = channels THEN outs ELSE 0) + 1
              /\ current' = Successor(filled, overlap')
           \/ /\ ~IsFull(filled)
              /\ outs' = (IF c = channels THEN outs ELSE 0)
              /\ current' = filled
              /\ UNCHANGED <<out, outPlan>>

\* operator()(data) with data of c channels for which agg_buffer_init throws:
\* the plan has been recomputed and handed on by then, all else is untouched,
\* and the chunk is lost
Refuse(c, n) ==
    /\ c # channels
    /\ PlanRefused(c)
    /\ planFor' = c
    /\ now' = now + n
    /\ whole' = FALSE
    /\ UNCHANGED <<current, overlap, channels, out, outPlan, outs>>

\* The source loses g spectra: the next chunk starts later.
Gap(g) ==
    /\ now + g <= MaxTime
    /\ now' = now + g
    /\ whole' = FALSE
    /\ UNCHANGED <<current, overlap, channels, planFor, out, outPlan, outs>>

Next ==
    \/ \E c \in ChanCounts, n \in ChunkSizes :
          now + n <= MaxTime /\ (Feed(c, n) \/ Refuse(c, n))
    \/ \E g \in Gaps : Gap(g)

Spec == Init /\ [][Next]_vars

-------------------------------------------------------------------------------
(* Properties *)

Spectra(b) == {b.data[i] : i \in 0 .. b.time - 1}

\* The scalar variables and their ranges
Scalars ==
    /\ overlap \in Nat
    /\ channels \in ChanCounts \cup {0}
    /\ planFor \in ChanCounts \cup {0}
    /\ outPlan \in ChanCounts \cup {0}
    /\ now \in 1 .. MaxTime
    /\ outs \in Nat
    /\ whole \in BOOLEAN

\* No buffer holds more than its capacity, and the bookkeeping is in range.
TypeOK == IsBuffer(current) /\ IsBuffer(out) /\ Scalars

\* Between two chunks the buffer being filled has room, so every chunk brings
\* at least one new spectrum, and what it holds has been written; a buffer
\* that was handed on is full and has no unwritten spectrum.
OnlyFullBuffersHandedOn ==
    /\ channels # 0 => current.time < current.cap
    /\ Blank \notin Spectra(current)
    /\ out.time = out.cap
    /\ Blank \notin Spectra(out)

\* The spectra of b are in the order in which they were observed.
Ordered(b) == \A i, j \in 0 .. b.time - 1 : i < j => b.data[i] < b.data[j]

\* Spectra are never repeated nor out of order inside a buffer, whatever the
\* sizes of chunks, buffers and overlaps.
InTimeOrder == Ordered(current) /\ Ordered(out)

\* Two successive buffers of the same format share their overlap, so that no
\* pulse is missed at the boundary: the end of one is the front of the next.
SuccessiveBuffersOverlap ==
    [][outs' > outs /\ outs > 0 =>
          \A i \in 0 .. overlap - 1 : out'.data[i] = out.data[out.cap - overlap + i]]_vars

\* A buffer is never handed to the algorithms with more delay than it has
\* spectra: what the plan that the algorithms hold needs is in the buffer,
\* unless that plan was refused.
SufficientForAcceptedPlan ==
    outPlan # 0 /\ ~PlanRefused(outPlan) => out.cap > StrategyOverlap[outPlan]

\* As long as nothing was cut off or missing, every spectrum of a chunk is in
\* the buffer being filled or in the one just handed on, up to the last one,
\* which is the first to be lost.
LastSpectrumKept ==
    whole /\ channels # 0 => now - 1 \in Spectra(current) \cup Spectra(out)

\* The spectra of b are consecutive from its start time on.
Consecutive(b) == \A i \in 0 .. b.time - 1 : b.data[i] = b.start + i

\* As long as nothing was cut off or missing, the start time of a buffer is the
\* time of its first spectrum, and the others follow without a gap.
StampIsFirstSpectrum == whole => Consecutive(current) /\ (outs > 0 => Consecutive(out))

\* All spectra of b were observed before time t, none is unwritten.
WrittenBefore(b, t) == \A i \in 0 .. b.time - 1 : b.data[i] \in 1 .. t - 1

Fine(b, t) == IsBuffer(b) /\ WrittenBefore(b, t) /\ Ordered(b)

\* Before the first data there is nothing; after it the buffer has room for
\* more than the overlap.
Formatted ==
    /\ channels = 0 => current.cap = 0 /\ overlap = 0 /\ outs = 0
    /\ channels # 0 => current.time < current.cap /\ overlap < current.cap

\* Once a buffer of this format was handed on, the buffer being filled begins
\* with the end of it.
Linked ==
    outs > 0 =>
        /\ channels # 0
        /\ out.cap = current.cap
        /\ overlap <= current.time
        /\ \A i \in 0 .. overlap - 1 : current.data[i] = out.data[out.cap - overlap + i]

\* All that is in the two buffers is earlier than the next data and in order,
\* and the buffer being filled begins with the end of the one handed on before
\* it, for as long as the format stays.
BufferInv ==
    /\ Scalars
    /\ Fine(current, now)
    /\ Fine(out, now) /\ out.time = out.cap
    /\ Formatted
    /\ Linked

\* If nothing was lost, the buffer being filled ends, or if it is still empty
\* the one handed on ended, with the last spectrum of the input.
Unbroken ==
    whole /\ channels # 0 =>
        /\ Consecutive(current) /\ (outs > 0 => Consecutive(out))
        /\ IF current.time > 0
           THEN current.start + current.time = now
           ELSE outs > 0 /\ out.cap > 0 /\ out.start + out.cap = now

\* The current buffer has the size of its own format's plan, which was not
\* refused; a plan for another format is one that was.
PlanOfBuffer ==
    /\ channels # 0 => current.cap = StrategySpectra[channels] /\ ~PlanRefused(channels)
    /\ planFor # channels => PlanRefused(planFor)

\* The inductive invariant
IInv == BufferInv /\ Unbroken

\* The buffers are the windows dedispersion expects, for as long as the input
\* is whole.
Window == INSTANCE SlidingWindow WITH
             format  <- channels,
             intact  <- whole,
             width   <- current.cap,
             overlap <- overlap,
             first   <- IF current.time = 0 THEN now ELSE current.start,
             window  <- [spectra |-> Spectra(out), start |-> out.start]

ImplementsSlidingWindow == Window!WindowSpec
===============================================================================
