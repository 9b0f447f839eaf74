---------------------------- MODULE KlotskiSearch -----------------------------
(***************************************************************************)
(* The single pulse search with the klotski algorithms, from a full buffer *)
(* to a list of candidates (modules/ddtr/klotski, modules/spdt).           *)
(*                                                                         *)
(* Buffering submits each full buffer (a block) to the dedispersion task;  *)
(* a pool thread takes it and waits for the mutex of Ddtr::operator(); its *)
(* holder copies the block to the work area and dedisperses it DM range by *)
(* DM range, every range by one thread per frequency band (MultiThread),   *)
(* whose results are then integrated into the DM trials; the work area is  *)
(* downsampled in between.  The finished trials are swapped with those of  *)
(* the search and the search is submitted to the pool, where another       *)
(* thread may run it.                                                      *)
(*                                                                         *)
(* A block is its number, which is also its start time; Torn is data that  *)
(* is of no block.  The search looks at the trials twice, when it begins   *)
(* and when it ends, and then makes its list.  It continues the running    *)
(* sums of the search before, which it leaves in members that have no      *)
(* mutex; they begin with zeros, as if block 0 had been searched.          *)
(*                                                                         *)
(* Nothing waits for a search.  The variable met is history: it says in    *)
(* which ways blocks have come too close for the two sets of trials.       *)
(***************************************************************************)
EXTENDS MultiThread

CONSTANTS Pool,         \* pool threads
          NoThread,     \* not a pool thread
          NRanges,      \* number_of_dm_ranges()
          MaxInFlight,  \* blocks that are handed on before their search ends
          MaxBlocks     \* bound on the number of blocks

ASSUME ConstantsAssumption ==
    /\ NoThread \notin Pool
    /\ NRanges \in Nat \ {0} /\ MaxInFlight \in Nat \ {0} /\ MaxBlocks \in Nat

Torn == 0
Search == 0             \* the task of searching; a block is the task of dedispersing it

VARIABLES
    blocks,     \* blocks handed on so far
    queue,      \* tasks waiting for a pool thread, in order
    pc,         \* where each pool thread is
    task,       \* the block each pool thread has taken
    mutex,      \* the thread that holds Ddtr's _mutex
    block,      \* the block being dedispersed, by the holder of the mutex
    range,      \* _current_dm_range, current_dm_range() of the plan
    band,       \* the band the holder's loop has come to
    area,       \* temp_work_area(): block, and how often it was downsampled, plus 1
    input,      \* what each job has begun to work on
    sub,        \* subanded_dm_trials(): what was added up for each band
    dm,         \* dm_trials(): the block each range is of, and the start time
    sp,         \* spdt_dm_trials(), likewise
    sums,       \* _overlap and _sum_array: the block they were left by
    seen,       \* the blocks a searching thread has seen
    after,      \* the blocks whose sums it has continued
    lists,      \* the candidate lists made: the blocks searched, the blocks whose
                \* sums were continued, the start time
    met         \* what has happened: a block was dedispersed out of turn ("order"), or
                \* began ("begin") or was swapped ("swap") while a search was not over

poolVars == <<blocks, queue>>
ddtrVars == <<block, range, band, area, sub>>
spdtVars == <<sums, seen, after, lists>>
vars == <<flagVars, poolVars, pc, task, mutex, ddtrVars, input, dm, sp, spdtVars, met>>

Bands == Jobs
Ranges == 1 .. NRanges
NoTrials == [rows |-> [r \in Ranges |-> Torn], start |-> 0]

Init ==
    /\ FlagsInit
    /\ blocks = 0 /\ queue = <<>>
    /\ pc = [t \in Pool |-> "idle"]
    /\ task = [t \in Pool |-> 0]
    /\ mutex = NoThread /\ block = 0 /\ range = 1 /\ band = 1
    /\ area = <<Torn, 1>>
    /\ input = [b \in Bands |-> area]
    /\ sub = [b \in Bands |-> <<>>]
    /\ dm = NoTrials /\ sp = NoTrials
    /\ sums = {0}
    /\ seen = [t \in Pool |-> {}] /\ after = [t \in Pool |-> {}]
    /\ lists = <<>> /\ met = {}

Go(t, from, to) == pc[t] = from /\ pc' = [pc EXCEPT ![t] = to]

-------------------------------------------------------------------------------
(* The pool *)

\* The buffering hands a block on, at the pace of the observation.
HandOn ==
    /\ blocks < MaxBlocks
    /\ blocks - Len(lists) < MaxInFlight
    /\ blocks' = blocks + 1
    /\ queue' = Append(queue, blocks + 1)
    /\ UNCHANGED <<flagVars, pc, task, mutex, ddtrVars, input, dm, sp, spdtVars, met>>

TakeBlock(t) ==
    /\ queue # <<>> /\ Head(queue) # Search
    /\ Go(t, "idle", "lock")
    /\ task' = [task EXCEPT ![t] = Head(queue)]
    /\ queue' = Tail(queue)
    /\ UNCHANGED <<flagVars, blocks, mutex, ddtrVars, input, dm, sp, spdtVars, met>>

\* A search is to be submitted, waits for a thread, or is not over.
Pending ==
    \/ \E i \in DOMAIN queue : queue[i] = Search
    \/ \E t \in Pool : pc[t] \in {"submit", "search", "list"}

Noting(what, when) == IF when THEN {what} ELSE {}

\* A slip in StartDdtr: the start times are not set.
StampForgotten(t) ==
    /\ Go(t, "lock", "clear")
    /\ mutex = NoThread /\ mutex' = t
    /\ block' = task[t] /\ range' = 1
    /\ area' = <<task[t], 1>>
    /\ met' = met \cup Noting("order", task[t] # block + 1) \cup Noting("begin", Pending)
    /\ UNCHANGED <<flagVars, poolVars, task, band, sub, input, dm, sp, spdtVars>>

\* Ddtr::operator() begins, for whichever thread gets the mutex: the copy to the work
\* area and the start times of both sets of trials.  This is one step, as nobody but
\* the holder of the mutex sees anything of it before the last of its assignments.
StartDdtr(t) ==
    /\ Go(t, "lock", "clear")
    /\ mutex = NoThread /\ mutex' = t
    /\ block' = task[t] /\ range' = 1
    /\ area' = <<task[t], 1>>
    /\ dm' = [dm EXCEPT !.start = task[t]]
    /\ sp' = [sp EXCEPT !.start = task[t]]
    /\ met' = met \cup Noting("order", task[t] # block + 1) \cup Noting("begin", Pending)
    /\ UNCHANGED <<flagVars, poolVars, task, band, sub, input, spdtVars>>

\* The data in the trials of the search.
Searched == {sp.rows[r] : r \in Ranges}

StartSearch(t) ==
    /\ queue # <<>> /\ Head(queue) = Search
    /\ Go(t, "idle", "search")
    /\ queue' = Tail(queue)
    /\ seen' = [seen EXCEPT ![t] = Searched]
    /\ after' = [after EXCEPT ![t] = sums]
    /\ UNCHANGED <<flagVars, blocks, task, mutex, ddtrVars, input, dm, sp, sums, lists, met>>

-------------------------------------------------------------------------------
(* DdtrProcessor::operator++ *)

\* A slip in Clear: what the bands hold is kept.
KeepBands(t) ==
    /\ Go(t, "clear", IF njobs = 0 THEN "add" ELSE "ready")
    /\ band' = 1
    /\ UNCHANGED <<flagVars, poolVars, task, mutex, block, range, area, sub, input, dm, sp, spdtVars, met>>

Clear(t) ==
    /\ Go(t, "clear", IF njobs = 0 THEN "add" ELSE "ready")
    /\ sub' = [b \in Bands |-> <<>>]
    /\ band' = 1
    /\ UNCHANGED <<flagVars, poolVars, task, mutex, block, range, area, input, dm, sp, spdtVars, met>>

\* The loops over the bands: the threads are added when there are none, all
\* flags are raised, all are waited for.
ForEachBand(t, loop, next) ==
    /\ Go(t, loop, IF band = NJobs THEN next ELSE loop)
    /\ band' = IF band = NJobs THEN 1 ELSE band + 1
    /\ UNCHANGED <<poolVars, task, mutex, block, range, area, sub, input, dm, sp, spdtVars, met>>

AddThread(t) == ForEachBand(t, "add", "ready") /\ AddJob

RaiseFlag(t) ==
    \/ /\ pc[t] = "ready" /\ ReadyRead(band)
       /\ UNCHANGED <<poolVars, pc, task, mutex, ddtrVars, input, dm, sp, spdtVars, met>>
    \/ ForEachBand(t, "ready", "finish") /\ ReadyWrite

AwaitBand(t) ==
    ForEachBand(t, "finish", "integrate") /\ Finished(band) /\ UNCHANGED flagVars

\* What was added up is of this block and this range, once for every band.
Complete == \A b \in Bands : sub[b] = << <<block, range>> >>

\* integrate_reference()
Integrate(t) ==
    /\ Go(t, "integrate", "downsample")
    /\ dm' = [rows  |-> [dm.rows EXCEPT ![range] = IF Complete THEN block ELSE Torn],
              start |-> dm.start]
    /\ UNCHANGED <<flagVars, poolVars, task, mutex, ddtrVars, input, sp, spdtVars, met>>

\* A slip in Downsample: one range too few.
DownsampleTooShort(t) ==
    /\ Go(t, "downsample", IF range >= NRanges - 1 THEN "swap" ELSE "clear")
    /\ area' = [area EXCEPT ![2] = @ + 1]
    /\ range' = IF range = NRanges THEN range ELSE range + 1
    /\ UNCHANGED <<flagVars, poolVars, task, mutex, block, band, sub, input, dm, sp, spdtVars, met>>

\* A slip in Downsample: one range too many.
DownsampleTooFar(t) ==
    /\ Go(t, "downsample", IF range > NRanges THEN "swap" ELSE "clear")
    /\ area' = [area EXCEPT ![2] = @ + 1]
    /\ range' = range + 1
    /\ UNCHANGED <<flagVars, poolVars, task, mutex, block, band, sub, input, dm, sp, spdtVars, met>>

Downsample(t) ==
    /\ Go(t, "downsample", IF range = NRanges THEN "swap" ELSE "clear")
    /\ area' = [area EXCEPT ![2] = @ + 1]
    /\ range' = IF range = NRanges THEN range ELSE range + 1
    /\ UNCHANGED <<flagVars, poolVars, task, mutex, block, band, sub, input, dm, sp, spdtVars, met>>

\* The jobs read the work area and the plan's range and add to their band.
JobBegins(b) ==
    /\ Wake(b)
    /\ input' = [input EXCEPT ![b] = <<area[1], range>>]
    /\ UNCHANGED <<poolVars, pc, task, mutex, ddtrVars, dm, sp, spdtVars, met>>

JobEnds(b) ==
    /\ JobDone(b)
    /\ sub' = [sub EXCEPT ![b] = Append(@, IF area = input[b] THEN area ELSE <<Torn, 0>>)]
    /\ UNCHANGED <<poolVars, pc, task, mutex, block, range, band, area, input, dm, sp, spdtVars, met>>

JobResets(b) ==
    /\ ResetRead(b) \/ ResetWrite(b)
    /\ UNCHANGED <<poolVars, pc, task, mutex, ddtrVars, input, dm, sp, spdtVars, met>>

-------------------------------------------------------------------------------
(* The end of Ddtr::operator(), and the search *)

\* A slip in Swap: the search gets the trials that are filled next.
SwapNothing(t) ==
    /\ Go(t, "swap", "submit")
    /\ mutex' = NoThread
    /\ met' = met \cup Noting("swap", Pending)
    /\ UNCHANGED <<flagVars, poolVars, task, ddtrVars, input, dm, sp, spdtVars>>

\* A slip in Swap: the mutex is not released.
SwapAndKeepMutex(t) ==
    /\ Go(t, "swap", "submit")
    /\ dm' = sp /\ sp' = dm
    /\ met' = met \cup Noting("swap", Pending)
    /\ UNCHANGED <<flagVars, poolVars, task, mutex, ddtrVars, input, spdtVars>>

Swap(t) ==
    /\ Go(t, "swap", "submit")
    /\ dm' = sp /\ sp' = dm
    /\ mutex' = NoThread
    /\ met' = met \cup Noting("swap", Pending)
    /\ UNCHANGED <<flagVars, poolVars, task, ddtrVars, input, spdtVars>>

\* The handler submits the search to the pool, without the mutex.
Submit(t) ==
    /\ Go(t, "submit", "idle")
    /\ queue' = Append(queue, Search)
    /\ UNCHANGED <<flagVars, blocks, task, mutex, ddtrVars, input, dm, sp, spdtVars, met>>

\* A slip in SearchEnds: the sums are not carried over.
SumsForgotten(t) ==
    /\ Go(t, "search", "list")
    /\ seen' = [seen EXCEPT ![t] = @ \cup Searched]
    /\ after' = [after EXCEPT ![t] = @ \cup sums]
    /\ UNCHANGED <<flagVars, poolVars, task, mutex, ddtrVars, input, dm, sp, sums, lists, met>>

SearchEnds(t) ==
    /\ Go(t, "search", "list")
    /\ seen' = [seen EXCEPT ![t] = @ \cup Searched]
    /\ after' = [after EXCEPT ![t] = @ \cup sums]
    /\ sums' = Searched
    /\ UNCHANGED <<flagVars, poolVars, task, mutex, ddtrVars, input, dm, sp, lists, met>>

MakeList(t) ==
    /\ Go(t, "list", "idle")
    /\ lists' = Append(lists, [blocks |-> seen[t], after |-> after[t], start |-> sp.start])
    /\ UNCHANGED <<flagVars, poolVars, task, mutex, ddtrVars, input, dm, sp, sums, seen, after, met>>

-------------------------------------------------------------------------------
PoolStep(t) ==
    \/ TakeBlock(t) \/ StartDdtr(t) \/ StartSearch(t)
    \/ Clear(t) \/ AddThread(t) \/ RaiseFlag(t) \/ AwaitBand(t)
    \/ Integrate(t) \/ Downsample(t) \/ Swap(t) \/ Submit(t)
    \/ SearchEnds(t) \/ MakeList(t)

JobStep(b) == JobBegins(b) \/ JobEnds(b) \/ JobResets(b)

Next ==
    \/ HandOn
    \/ \E t \in Pool : PoolStep(t)
    \/ \E b \in Bands : JobStep(b)

Spec == Init /\ [][Next]_vars

\* Threads that can go on do, also those that wait in turn for a mutex that the
\* others take again and again.
FairSpec ==
    /\ Spec
    /\ \A t \in Pool : SF_vars(PoolStep(t))
    /\ \A b \in Bands : SF_vars(JobStep(b))

-------------------------------------------------------------------------------
(* Properties *)

Blocks == 0 .. MaxBlocks
Trials == [rows : [Ranges -> Blocks], start : Blocks]

TypeOK ==
    /\ FlagsOK
    /\ blocks \in Blocks /\ queue \in Seq(Blocks)
    /\ pc \in [Pool -> {"idle", "lock", "clear", "add", "ready", "finish", "integrate",
                        "downsample", "swap", "submit", "search", "list"}]
    /\ task \in [Pool -> Blocks]
    /\ mutex \in Pool \cup {NoThread}
    /\ block \in Blocks /\ range \in Ranges /\ band \in Bands
    /\ area \in Blocks \X (1 .. NRanges + 1)
    /\ input \in [Bands -> Blocks \X (1 .. NRanges + 1)]
    /\ sub \in [Bands -> Seq(Blocks \X (0 .. NRanges + 1))]
    /\ dm \in Trials /\ sp \in Trials
    /\ sums \subseteq Blocks
    /\ seen \in [Pool -> SUBSET Blocks] /\ after \in [Pool -> SUBSET Blocks]
    /\ lists \in Seq([blocks : SUBSET Blocks, after : SUBSET Blocks, start : Blocks])
    /\ met \subseteq {"order", "begin", "swap"}

\* When the bands are integrated every band has been added up exactly once,
\* from the data of this block and range.
EveryBandOnce == \A t \in Pool : pc[t] = "integrate" => Complete

\* No job is at work while the bands are cleared or integrated or the work area
\* changes.
JobsRestInBetween ==
    \A t \in Pool, b \in Bands :
        pc[t] \in {"clear", "integrate", "downsample", "swap"} => jpc[b] # "run"

\* What is swapped for the search is of one block, in every range, and dated by it,
\* however close blocks come.
TrialsAreWhole ==
    \A t \in Pool : pc[t] = "swap" =>
        dm = [rows |-> [r \in Ranges |-> block], start |-> block]

\* The next block may begin before a search is over.  As long as blocks come in turn
\* and none is swapped so early, they are searched once each, in order, none mixed
\* with another,
EachBlockSearched ==
    met \subseteq {"begin"} => \A i \in DOMAIN lists : lists[i].blocks = {i}

\* and each search continues the sums of the search of the block before: a pulse
\* that is cut by the end of a block is found.
SearchGoesOn ==
    met \subseteq {"begin"} => \A i \in DOMAIN lists : lists[i].after = {i - 1}

\* The start time of a list of candidates is that of the data searched, as long as
\* no block even begins so early.
DatedWhenOver == met = {} => \A i \in DOMAIN lists : lists[i].start = i

\* The start time of a list of candidates is that of the data searched.
ListIsDated == \A i \in DOMAIN lists, k \in Blocks : k \in lists[i].blocks => lists[i].start = k

\* Every block that was handed on leads to a list, however close blocks come: lists
\* are made again and again until there is one for each block.
EveryBlockSearched ==
    []<>(Len(lists) = blocks) \/ []<><<Len(lists') > Len(lists)>>_lists
===============================================================================
