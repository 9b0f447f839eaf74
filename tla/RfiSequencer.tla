----------------------------- MODULE RfiSequencer -----------------------------
(***************************************************************************)
(* The sequencing ring of RfiDetectionPipeline                             *)
(* (pipelines/search_pipeline/detail/RfiDetectionPipeline.cpp).            *)
(*                                                                         *)
(* One producer thread calls operator() with time-frequency data.  Each    *)
(* call writes the address of the data into the ring _data_sequence,       *)
(* advances _last_data_sequence_index and submits an asynchronous RFI job  *)
(* to a thread pool.  The jobs end in any order; RfiOutputHandler restores *)
(* the order by spinning until the slot at _next_data_sequence_index holds *)
(* the address of its own data, and only then calls the output handler     *)
(* (dedispersion, in the search pipelines), which is not thread safe.      *)
(*                                                                         *)
(* The ring identifies data by ADDRESS, and addresses are reused once data *)
(* is released, so items here carry an address from a small set.  The      *)
(* indices are panda::AtomicModuloNumber: each read or increment is one    *)
(* step.  taken, done, log, addr and lost are history: which item is the   *)
(* n-th submitted one, how many have been handled, in which order the      *)
(* output handler was called, which jobs never called it.  The slot of     *)
(* such a job stays, and its address may be used for other data.           *)
(*                                                                         *)
(* The atomics are relaxed in the code; the model interleaves their reads  *)
(* and writes as if they were sequentially consistent.                     *)
(***************************************************************************)
EXTENDS Naturals, Sequences

CONSTANTS Slots,       \* _data_sequence.size(), 300 in the code
          MaxItems,    \* bound on the number of jobs submitted
          Workers,     \* threads of the pool
          Addr,        \* addresses data may have
          NoAddr       \* an unwritten slot

\* With one slot every index equals every other and "full" is the only state.
ASSUME SlotsAssumption == Slots \in Nat /\ Slots >= 2
ASSUME MaxItemsAssumption == MaxItems \in Nat
ASSUME NoAddrAssumption == NoAddr \notin Addr

VARIABLES
    slot,     \* _data_sequence
    last,     \* _last_data_sequence_index
    next,     \* _next_data_sequence_index
    pc,       \* where the producer is in operator() or in the destructor
    cur,      \* address of the data passed to operator()
    hold,     \* the local variable hold of operator()
    given,    \* number of jobs submitted to the pool
    taken,    \* number of jobs the pool has started (it is a FIFO queue)
    done,     \* number of items whose handler has advanced next
    addr,     \* address of the n-th submitted item
    wpc,      \* where each pool thread is
    item,     \* the item each pool thread works on
    log,      \* items in the order in which the output handler was called
    lost      \* items whose job failed before it called the handler

producerVars == <<pc, cur, hold>>
workerVars == <<taken, done, wpc, item, log, next, lost>>
vars == <<slot, last, next, pc, cur, hold, given, taken, done, addr, wpc, item, log,
          lost>>

Ring == 0 .. Slots - 1

\* panda::AtomicModuloNumber operator++ and operator--
Inc(i) == IF i = Slots - 1 THEN 0 ELSE i + 1
Dec(i) == IF i = 0 THEN Slots - 1 ELSE i - 1

\* The submitted items, by the order of their slots, that no handler has passed
\* the turn on for.
Pending == done + 1 .. given

\* The items that wait for a thread or have one, also one that has had its turn
\* and whose job has not ended yet.
Live == (taken + 1 .. given) \cup {item[w] : w \in {v \in Workers : wpc[v] # "free"}}

\* Addresses that cannot be reused: the data is still referred to by a job,
\* or by the call of operator() in progress.
LiveAddr == {addr[n] : n \in Live}
            \cup (IF pc \in {"stored", "advanced", "submit"} THEN {cur} ELSE {})

Init ==
    /\ slot = [i \in Ring |-> NoAddr]
    /\ last = 0
    /\ next = 0
    /\ pc = "idle"
    /\ cur = NoAddr
    /\ hold = FALSE
    /\ given = 0
    /\ taken = 0
    /\ done = 0
    /\ addr = [n \in 1 .. MaxItems |-> NoAddr]
    /\ wpc = [w \in Workers |-> "free"]
    /\ item = [w \in Workers |-> 0]
    /\ log = <<>>
    /\ lost = {}

-------------------------------------------------------------------------------
(* The producer: RfiDetectionPipeline::operator() and the destructor *)

\* _data_sequence[_last_data_sequence_index] = &data, for data at address a
Store(a) ==
    /\ pc = "idle"
    /\ given < MaxItems
    /\ a \notin LiveAddr
    /\ cur' = a
    /\ slot' = [slot EXCEPT ![last] = a]
    /\ pc' = "stored"
    /\ UNCHANGED <<last, hold, given, addr, workerVars>>

\* ++_last_data_sequence_index
Advance ==
    /\ pc = "stored"
    /\ last' = Inc(last)
    /\ pc' = "advanced"
    /\ UNCHANGED <<slot, cur, hold, given, addr, workerVars>>

\* hold is set if the ring is now full, before the job is launched
CheckFull ==
    /\ pc = "advanced"
    /\ hold' = (last = next)
    /\ pc' = "submit"
    /\ UNCHANGED <<slot, last, cur, given, addr, workerVars>>

\* A slip in Submit: the ring is full and the producer is not held back.
SubmitWithoutHold ==
    /\ pc = "submit"
    /\ given' = given + 1
    /\ addr' = [addr EXCEPT ![given + 1] = cur]
    /\ pc' = "idle"
    /\ UNCHANGED <<slot, last, cur, hold, workerVars>>

\* _rfim.run(data): the job is in the pool's queue
Submit ==
    /\ pc = "submit"
    /\ given' = given + 1
    /\ addr' = [addr EXCEPT ![given + 1] = cur]
    /\ pc' = IF hold THEN "holding" ELSE "idle"
    /\ UNCHANGED <<slot, last, cur, hold, workerVars>>

\* A slip in SubmitThrows: the index is not rolled back.
SubmitThrowsNoRollback ==
    /\ pc = "submit"
    /\ pc' = "idle"
    /\ UNCHANGED <<slot, last, cur, hold, given, addr, workerVars>>

\* _rfim.run(data) throws: --_last_data_sequence_index, and the caller gets
\* the exception whatever hold says
SubmitThrows ==
    /\ pc = "submit"
    /\ last' = Dec(last)
    /\ pc' = "idle"
    /\ UNCHANGED <<slot, cur, hold, given, addr, workerVars>>

\* The producer was held back and sees that the indices differ again.
HoldEnds ==
    /\ pc = "holding"
    /\ last # next
    /\ pc' = "idle"
    /\ UNCHANGED <<slot, last, cur, hold, given, addr, workerVars>>

\* The thread that calls operator() destroys the pipeline.
Close ==
    /\ pc = "idle"
    /\ pc' = "closing"
    /\ UNCHANGED <<slot, last, cur, hold, given, addr, workerVars>>

\* The destructor's loop ends when the two indices are equal.
Destroyed ==
    /\ pc = "closing"
    /\ last = next
    /\ pc' = "closed"
    /\ UNCHANGED <<slot, last, cur, hold, given, addr, workerVars>>

-------------------------------------------------------------------------------
(* A pool thread w: the RFI algorithm and RfiOutputHandler::operator() *)

\* The pool starts the oldest job that is waiting.
Take(w) ==
    /\ wpc[w] = "free"
    /\ taken < given
    /\ taken' = taken + 1
    /\ item' = [item EXCEPT ![w] = taken + 1]
    /\ wpc' = [wpc EXCEPT ![w] = "sync"]
    /\ UNCHANGED <<slot, last, next, given, done, addr, log, lost, producerVars>>

\* A slip in Match: the handler does not resynchronise the data stream.
MatchAny(w) ==
    /\ wpc[w] = "sync"
    /\ wpc' = [wpc EXCEPT ![w] = "output"]
    /\ log' = Append(log, item[w])
    /\ UNCHANGED <<slot, last, next, given, taken, done, addr, item, lost, producerVars>>

\* The algorithm is finished and the handler finds its own data at next: it
\* starts to send the data and to call the output handler.
Match(w) ==
    /\ wpc[w] = "sync"
    /\ slot[next] = addr[item[w]]
    /\ wpc' = [wpc EXCEPT ![w] = "output"]
    /\ log' = Append(log, item[w])
    /\ UNCHANGED <<slot, last, next, given, taken, done, addr, item, lost, producerVars>>

\* A slip in Release: the handler ends, by an exception say, without passing
\* the turn on.
ReleaseWithoutTurn(w) ==
    /\ wpc[w] = "output"
    /\ wpc' = [wpc EXCEPT ![w] = "returning"]
    /\ done' = done + 1
    /\ UNCHANGED <<slot, last, next, given, taken, addr, item, log, lost, producerVars>>

\* The output handler returned or threw: both paths do
\* ++_next_data_sequence_index, before the handler returns or throws again.
Release(w) ==
    /\ wpc[w] = "output"
    /\ wpc' = [wpc EXCEPT ![w] = "returning"]
    /\ next' = Inc(next)
    /\ done' = done + 1
    /\ UNCHANGED <<slot, last, given, taken, addr, item, log, lost, producerVars>>

\* The handler has returned or thrown again, the job ends and its data is released.
EndJob(w) ==
    /\ wpc[w] = "returning"
    /\ wpc' = [wpc EXCEPT ![w] = "free"]
    /\ UNCHANGED <<slot, last, next, given, taken, done, addr, item, log, lost, producerVars>>

\* A slip in Fail: the handler is called in spite of the failure.
FailGoesOn(w) ==
    /\ wpc[w] = "sync"
    /\ lost' = lost \cup {item[w]}
    /\ UNCHANGED <<slot, last, next, given, taken, done, addr, wpc, item, log, producerVars>>

\* The algorithm throws: the job ends, its data is released, and no handler is
\* called.
Fail(w) ==
    /\ wpc[w] = "sync"
    /\ wpc' = [wpc EXCEPT ![w] = "free"]
    /\ lost' = lost \cup {item[w]}
    /\ UNCHANGED <<slot, last, next, given, taken, done, addr, item, log, producerVars>>

-------------------------------------------------------------------------------
Worker(w) == Take(w) \/ Match(w) \/ Release(w) \/ EndJob(w)

\* The steps the producer takes without needing new data from its caller.
ProducerStep ==
    \/ Advance
    \/ CheckFull
    \/ Submit
    \/ SubmitThrows
    \/ HoldEnds
    \/ Destroyed

Next ==
    \/ \E a \in Addr : Store(a)
    \/ ProducerStep
    \/ Close
    \/ \E w \in Workers : Worker(w) \/ Fail(w)

Spec == Init /\ [][Next]_vars

\* Every thread that can run does: the spinning loops yield, and the pool
\* threads are ordinary threads.  New data, and the destructor, may never come, and
\* no job has to fail.
Fairness ==
    /\ WF_vars(ProducerStep)
    /\ \A w \in Workers : WF_vars(Worker(w))

FairSpec == Spec /\ Fairness

-------------------------------------------------------------------------------
(* Properties *)

TypeOK ==
    /\ slot \in [Ring -> Addr \cup {NoAddr}]
    /\ last \in Ring
    /\ next \in Ring
    /\ pc \in {"idle", "stored", "advanced", "submit", "holding", "closing", "closed"}
    /\ cur \in Addr \cup {NoAddr}
    /\ hold \in BOOLEAN
    /\ given \in 0 .. MaxItems
    /\ taken \in 0 .. MaxItems
    /\ done \in 0 .. MaxItems
    /\ addr \in [1 .. MaxItems -> Addr \cup {NoAddr}]
    /\ wpc \in [Workers -> {"free", "sync", "output", "returning"}]
    /\ item \in [Workers -> 0 .. MaxItems]
    /\ log \in Seq(1 .. MaxItems)
    /\ lost \subseteq 1 .. MaxItems

\* The output handler (dedispersion) is never run by two pool threads at the
\* same time, although every RFI job calls it.
SerialisedOutput ==
    \A v, w \in Workers : wpc[v] = "output" /\ wpc[w] = "output" => v = w

\* A job up to the n-th failed before it called its handler.
LostUpTo(n) == \E m \in lost : m <= n

\* The output handler gets the data in the order in which operator() was
\* called, each item once, whatever order the RFI jobs end in and although
\* addresses are reused, up to the first job that failed.  Behind that, a job may
\* find the address of its data in the slot of the one that failed.
InOrder == \A k \in 1 .. Len(log) : log[k] = k \/ LostUpTo(k)

\* The producer never overwrites the slot of an item whose handler has not
\* finished: the ring index of each pending item still holds its address.
RingIndex(n) ==
    LET k == next + (n - done - 1)
    IN  IF k < Slots THEN k ELSE k - Slots

PendingKeepTheirSlot == \A n \in Pending : slot[RingIndex(n)] = addr[n]

\* When the destructor's loop has ended, every submitted item has been handled, and
\* no pool thread will look at the ring or use the output handler again: those that
\* are not free have passed the turn on and are about to return.  (That they have
\* returned is not so: the loop does not wait for it.)
DestroyedWhenDrained ==
    pc = "closed" => /\ given = done
                     /\ \A w \in Workers : wpc[w] \in {"free", "returning"}

\* Every job that was submitted gets its turn at the output handler, up to the
\* first that failed.
EveryItemOutput ==
    \A n \in 1 .. MaxItems : (given >= n) ~> (Len(log) >= n \/ LostUpTo(n))

\* The destructor always ends, also after calls of operator() that threw, if no
\* job failed.
DestructorEnds == (pc = "closing") ~> (pc = "closed" \/ lost # {})

\* A producer that is held back because the ring is full goes on once there
\* is room ("slow things down until buffer has caught up").
ProducerResumes == (pc = "holding") ~> (pc # "holding" \/ lost # {})

\* The ring is an ordered stage of the pipeline with room for Slots items: what its
\* threads hand on, and in which order, is what the stage's output allows.
Stage == INSTANCE OrderedStage WITH
             Capacity <- Slots,
             accepted <- given,
             output   <- log,
             emitting <- \E w \in Workers : wpc[w] = "output",
             failed   <- lost

ImplementsOrderedStage == Stage!StageSpec
===============================================================================
