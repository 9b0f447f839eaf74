----------------------------- MODULE BeamLauncher -----------------------------
(***************************************************************************)
(* pipelines::search_pipeline::BeamLauncher (detail/BeamLauncher.cpp).  A  *)
(* caller of exec() starts one thread per beam and waits on a condition    *)
(* variable; join(), also called by the destructor, stops all beams; a     *)
(* beam may also end with its data stream, or throw.                       *)
(*                                                                         *)
(* _mutex protects _threads and the wait.  Each beam's PipelineWrapper has *)
(* a mutex, held while its pipeline runs, and a flag _stop that a stop()   *)
(* leaves for a beam that does not run.  Every access to shared memory is  *)
(* a step; _exit, a plain bool, is read without the mutex, so either value *)
(* may be seen.  The pipeline itself belongs to panda: it runs until it is *)
(* asked to stop, ends or throws.                                          *)
(***************************************************************************)
EXTENDS Integers, FiniteSets

CONSTANTS Callers,      \* threads that call exec()
          Joiner,       \* the thread that calls join()
          None,         \* no thread
          N,            \* number of active beams
          MaxCalls      \* bound on the calls of exec() and of join(), each

ASSUME ConstantsAssumption ==
    /\ IsFiniteSet(Callers)
    /\ Joiner \notin Callers /\ None \notin Callers /\ Joiner # None
    /\ N \in Nat \ {0} /\ MaxCalls \in Nat

Beams   == 1 .. N
Threads == Callers \X Beams          \* the thread of a caller for a beam

ASSUME ThreadsAreNoCallers == (Callers \cup {Joiner, None}) \cap Threads = {}

VARIABLES
    pc,         \* where each caller, each thread and the joiner is
    started,    \* execution_start of each caller
    target,     \* the beam the joiner is stopping
    mutex,      \* owner of _mutex
    exit,       \* _exit
    count,      \* _execution_count
    threads,    \* _threads
    owner,      \* owner of the mutex of each wrapper
    stop,       \* _stop of each wrapper
    pipeline,   \* each pipeline is "off", "on" or "stopping"
    endless,    \* the beams whose streams neither end nor throw by themselves
    execs,      \* calls of exec() so far
    joins       \* calls of join() so far

local == <<started, target, endless, execs, joins>>
beams == <<owner, stop, pipeline>>
vars  == <<pc, local, mutex, exit, count, threads, beams>>

Init ==
    /\ pc = [p \in Callers \cup {Joiner} \cup Threads |->
                 IF p \in Threads THEN "none" ELSE "idle"]
    /\ started = [c \in Callers |-> 0]
    /\ target = 0 /\ execs = 0 /\ joins = 0
    /\ mutex = None /\ exit = FALSE /\ count = 0 /\ threads = {}
    /\ owner = [b \in Beams |-> None]
    /\ stop = [b \in Beams |-> FALSE]
    /\ pipeline = [b \in Beams |-> "off"]
    /\ endless \in SUBSET Beams

Go(p, from, to) == pc[p] = from /\ pc' = [pc EXCEPT ![p] = to]
TakeMutex(p) == mutex = None /\ mutex' = p

-------------------------------------------------------------------------------
(* exec() *)

\* exec() returns at once when a beam is running.
Exec(c) ==
    /\ execs < MaxCalls
    /\ execs' = execs + 1
    /\ Go(c, "idle", IF count = 0 THEN "lock" ELSE "idle")
    /\ started' = [started EXCEPT ![c] = 0]
    /\ UNCHANGED <<target, endless, joins, mutex, exit, count, threads, beams>>

Lock(c) ==
    /\ Go(c, "lock", "launch")
    /\ TakeMutex(c)
    /\ exit' = FALSE
    /\ UNCHANGED <<local, count, threads, beams>>

\* Threads are started one by one: the first may end before the last starts.
Launch(c) ==
    \E b \in Beams :
        /\ pc[c] = "launch"
        /\ {k \in Beams : <<c, k>> \in threads} = 1 .. b - 1
        /\ pc' = [pc EXCEPT ![<<c, b>>] = "new",
                            ![c] = IF b = N THEN "test" ELSE "launch"]
        /\ threads' = threads \cup {<<c, b>>}
        /\ UNCHANGED <<local, mutex, exit, count, beams>>

IsRunning == count = N

\* The predicate of the wait, evaluated with the mutex held; but the threads change
\* the counters without it, and each of the two is loaded by a step of its own:
\* first _execution_count, in is_running()
TestRunning(c) ==
    /\ Go(c, "test", IF IsRunning THEN "block" ELSE "compare")
    /\ UNCHANGED <<local, mutex, exit, count, threads, beams>>

\* then, if some beam did not count, execution_start.
TestStarted(c) ==
    /\ Go(c, "compare", IF started[c] = N THEN "reap" ELSE "block")
    /\ UNCHANGED <<local, mutex, exit, count, threads, beams>>

\* wait() releases the mutex and waits for a notification, which may not come.
Block(c) ==
    /\ Go(c, "block", "asleep")
    /\ mutex' = None
    /\ UNCHANGED <<local, exit, count, threads, beams>>

SpuriousWakeup(c) ==
    /\ Go(c, "asleep", "awake")
    /\ UNCHANGED <<local, mutex, exit, count, threads, beams>>

Relock(c) ==
    /\ Go(c, "awake", "test")
    /\ TakeMutex(c)
    /\ UNCHANGED <<local, exit, count, threads, beams>>

\* A slip in Reap: the threads are let go.
DetachThreads(p) ==
    /\ pc[p] = "reap"
    /\ pc' = [pc EXCEPT ![p] = IF p = Joiner THEN "notify" ELSE "idle"]
    /\ threads' = {}
    /\ mutex' = None
    /\ UNCHANGED <<local, exit, count, beams>>

\* All threads are joined, with the mutex held; exec() returns, join() notifies.
Reap(p) ==
    /\ Go(p, "reap", IF p = Joiner THEN "notify" ELSE "idle")
    /\ \A t \in threads : pc[t] = "ended"
    /\ threads' = {}
    /\ mutex' = None
    /\ UNCHANGED <<local, exit, count, beams>>

\* A slip in Notify: nobody is woken.
NotifyNobody(p, to) ==
    /\ Go(p, "notify", to)
    /\ UNCHANGED <<local, mutex, exit, count, threads, beams>>

\* notify_one(), without the mutex
Notify(p, to) ==
    LET asleep == {c \in Callers : pc[c] = "asleep"}
    IN  /\ pc[p] = "notify"
        /\ \/ asleep = {} /\ pc' = [pc EXCEPT ![p] = to]
           \/ \E c \in asleep : pc' = [pc EXCEPT ![p] = to, ![c] = "awake"]
        /\ UNCHANGED <<local, mutex, exit, count, threads, beams>>

-------------------------------------------------------------------------------
(* beam_thread and PipelineWrapper::operator() *)

\* A slip in Count: the thread does not register.
NotCounted(t) ==
    /\ Go(t, "new", "counted")
    /\ UNCHANGED <<local, mutex, exit, count, threads, beams>>

Count(t) ==
    /\ Go(t, "new", "counted")
    /\ count' = count + 1
    /\ UNCHANGED <<local, mutex, exit, threads, beams>>

Start(t) ==
    /\ Go(t, "counted", "check")
    /\ started' = [started EXCEPT ![t[1]] = @ + 1]
    /\ UNCHANGED <<target, endless, execs, joins, mutex, exit, count, threads, beams>>

CheckExit(t) ==
    /\ Go(t, "check", IF exit THEN "uncount" ELSE "enter")
    /\ UNCHANGED <<local, mutex, exit, count, threads, beams>>

Enter(t) ==
    /\ Go(t, "enter", "decide")
    /\ owner[t[2]] = None
    /\ owner' = [owner EXCEPT ![t[2]] = t]
    /\ UNCHANGED <<local, mutex, exit, count, threads, stop, pipeline>>

\* A slip in Decide: the flag is not looked at.
StartAnyway(t) ==
    /\ Go(t, "decide", "starting")
    /\ UNCHANGED <<local, mutex, exit, count, threads, beams>>

\* A beam that was stopped before it was started does not run.
Decide(t) ==
    /\ Go(t, "decide", IF stop[t[2]] THEN "uncount" ELSE "starting")
    /\ owner' = [owner EXCEPT ![t[2]] = IF stop[t[2]] THEN None ELSE t]
    /\ UNCHANGED <<local, mutex, exit, count, threads, stop, pipeline>>

PipelineRuns(t) ==
    /\ Go(t, "starting", "running")
    /\ pipeline' = [pipeline EXCEPT ![t[2]] = "on"]
    /\ UNCHANGED <<local, mutex, exit, count, threads, owner, stop>>

\* A slip in PipelineEnds: the handler of the exception counts the beam out, too.
FailureUncounts(t, failed) ==
    /\ t[2] \notin endless \/ (~failed /\ pipeline[t[2]] = "stopping")
    /\ Go(t, "running", IF failed THEN "try" ELSE "uncount")
    /\ count' = IF failed THEN count - 1 ELSE count
    /\ pipeline' = [pipeline EXCEPT ![t[2]] = "off"]
    /\ owner' = [owner EXCEPT ![t[2]] = None]
    /\ UNCHANGED <<local, mutex, exit, threads, stop>>

\* exec() of the pipeline returns, or throws, and the lock is released; after
\* an exception stop() follows.
PipelineEnds(t, failed) ==
    /\ t[2] \notin endless \/ (~failed /\ pipeline[t[2]] = "stopping")
    /\ Go(t, "running", IF failed THEN "try" ELSE "uncount")
    /\ pipeline' = [pipeline EXCEPT ![t[2]] = "off"]
    /\ owner' = [owner EXCEPT ![t[2]] = None]
    /\ UNCHANGED <<local, mutex, exit, count, threads, stop>>

Uncount(t) ==
    /\ Go(t, "uncount", "notify")
    /\ count' = count - 1
    /\ UNCHANGED <<local, mutex, exit, threads, beams>>

-------------------------------------------------------------------------------
(* PipelineWrapper::stop(), called by the joiner for one beam after the      *)
(* other, and by the thread of a beam that threw                             *)

Target(p) == IF p = Joiner THEN target ELSE p[2]
Stoppers == Threads \cup {Joiner}

\* try_lock succeeds or fails, lock waits
TryLock(p, from, got, failed) ==
    /\ \/ /\ Go(p, from, got)
          /\ owner[Target(p)] = None
          /\ owner' = [owner EXCEPT ![Target(p)] = p]
       \/ /\ Go(p, from, failed)
          /\ owner[Target(p)] # None /\ from # "wait"
          /\ UNCHANGED owner
    /\ UNCHANGED <<local, mutex, exit, count, threads, stop, pipeline>>

\* The flag is set if the first try_lock succeeded, else reset; stop() returns.
SetStop(p) ==
    /\ pc[p] \in {"set", "reset"}
    /\ stop' = [stop EXCEPT ![Target(p)] = (pc[p] = "set")]
    /\ owner' = [owner EXCEPT ![Target(p)] = None]
    /\ pc' = [pc EXCEPT ![p] = IF p # Joiner THEN "uncount"
                               ELSE IF target = N THEN "reap" ELSE "try"]
    /\ target' = IF p = Joiner THEN target + 1 ELSE target
    /\ UNCHANGED <<started, endless, execs, joins, mutex, exit, count, threads, pipeline>>

\* The loop that waits for the pipeline to run, or for the lock
Spin(p) ==
    /\ Go(p, "spin", IF pipeline[Target(p)] = "off" THEN "retry" ELSE "ask")
    /\ UNCHANGED <<local, mutex, exit, count, threads, beams>>

\* A pipeline that has ended meanwhile cannot be stopped.
AskToStop(p) ==
    /\ Go(p, "ask", "wait")
    /\ pipeline' = [pipeline EXCEPT ![Target(p)] = IF @ = "on" THEN "stopping" ELSE @]
    /\ UNCHANGED <<local, mutex, exit, count, threads, owner, stop>>

-------------------------------------------------------------------------------
(* join() *)

Join ==
    /\ joins < MaxCalls
    /\ joins' = joins + 1
    /\ Go(Joiner, "idle", "lock")
    /\ UNCHANGED <<started, target, endless, execs, mutex, exit, count, threads, beams>>

\* A second join() finds nothing to do.
JoinLock ==
    /\ mutex = None
    /\ Go(Joiner, "lock", IF exit THEN "notify" ELSE "try")
    /\ mutex' = IF exit THEN None ELSE Joiner
    /\ target' = 1
    /\ exit' = TRUE
    /\ UNCHANGED <<started, endless, execs, joins, count, threads, beams>>

-------------------------------------------------------------------------------
CallerStep(c) ==
    \/ Lock(c) \/ Launch(c) \/ TestRunning(c) \/ TestStarted(c)
    \/ Block(c) \/ Relock(c) \/ Reap(c)

ThreadStep(t) ==
    \/ Count(t) \/ Start(t) \/ CheckExit(t) \/ Enter(t) \/ Decide(t)
    \/ PipelineRuns(t) \/ Uncount(t) \/ Notify(t, "ended")

StopStep(p) ==
    \/ TryLock(p, "try", "set", "spin")
    \/ Spin(p)
    \/ TryLock(p, "retry", "reset", "spin")
    \/ AskToStop(p)
    \/ TryLock(p, "wait", "reset", "wait")
    \/ SetStop(p)

JoinerStep == JoinLock \/ Reap(Joiner) \/ Notify(Joiner, "idle")

Next ==
    \/ \E c \in Callers : Exec(c) \/ CallerStep(c) \/ SpuriousWakeup(c)
    \/ \E t \in Threads : ThreadStep(t) \/ \E failed \in BOOLEAN : PipelineEnds(t, failed)
    \/ \E p \in Stoppers : StopStep(p)
    \/ Join
    \/ JoinerStep

Spec == Init /\ [][Next]_vars

\* Threads run, mutexes are granted to those who wait for them again and again,
\* and a pipeline that is asked to stop does.  Nothing makes a stream end, a
\* pipeline throw, a caller call, or wait() return without a notification.
Fairness ==
    /\ \A c \in Callers : SF_vars(CallerStep(c))
    /\ \A t \in Threads : SF_vars(ThreadStep(t) \/ StopStep(t))
    /\ \A t \in Threads : WF_vars(pipeline[t[2]] = "stopping" /\ PipelineEnds(t, FALSE))
    /\ SF_vars(JoinerStep \/ StopStep(Joiner))

FairSpec == Spec /\ Fairness

-------------------------------------------------------------------------------
(* Properties *)

Locations ==
    {"none", "idle", "lock", "launch", "test", "compare", "block", "asleep", "awake",
     "reap", "new", "counted", "check", "enter", "decide", "starting", "running",
     "uncount", "notify", "ended", "try", "set", "reset", "spin", "retry",
     "ask", "wait"}

TypeOK ==
    /\ pc \in [Callers \cup {Joiner} \cup Threads -> Locations]
    /\ started \in [Callers -> 0 .. N]
    /\ target \in 0 .. N + 1
    /\ execs \in 0 .. MaxCalls /\ joins \in 0 .. MaxCalls
    /\ mutex \in Callers \cup {Joiner, None}
    /\ exit \in BOOLEAN
    /\ count \in 0 .. Cardinality(Threads)
    /\ threads \subseteq Threads
    /\ owner \in [Beams -> Threads \cup {Joiner, None}]
    /\ stop \in [Beams -> BOOLEAN]
    /\ pipeline \in [Beams -> {"off", "on", "stopping"}]
    /\ endless \subseteq Beams

\* The threads of a call use its local variables (rv, execution_start): exec()
\* never returns before they have all ended, whoever joined them.
ExecOutlivesItsThreads ==
    \A t \in Threads : pc[t[1]] = "idle" => pc[t] \in {"none", "ended"}

\* exec() between the start of its first thread and its return
Launched == {"launch", "test", "compare", "block", "asleep", "awake", "reap"}

\* At any moment of a call of exec() the two counters tell what the wait wants to know:
\* when all its threads have started and fewer than all beams count as running, one
\* has ended.  The two increments have to be in this order for it.
CountersTellAnEnd ==
    \A c \in Callers :
        pc[c] \in Launched /\ started[c] = N /\ ~IsRunning =>
            \E b \in Beams : pc[<<c, b>>] \in {"notify", "ended"}

\* exec() stops waiting only when one of its beams has ended, not because it
\* saw the counters while threads were starting.
WaitEndsForAReason ==
    \A c \in Callers :
        pc[c] = "reap" => \E b \in Beams : pc[<<c, b>>] \in {"notify", "ended"}

\* exec() ends when join() is called: a join() that comes when one beam has ended and
\* is about to wake exec() makes it return, although other beams run.
JoinEndsExec ==
    \A c \in Callers :
        (/\ pc[Joiner] = "lock" /\ pc[c] = "asleep"
         /\ \E b \in Beams : pc[<<c, b>>] = "notify") ~> pc[c] = "idle"

\* A join() that has the mutex returns: each beam that it stops, at whatever point
\* of its start, of its run or of its failure, ends.
LockedJoinReturns == (pc[Joiner] = "try") ~> (pc[Joiner] = "idle")

\* And it makes the exec() return that it found waiting, which misses no notification.
LockedJoinEndsExec ==
    \A c \in Callers :
        (pc[Joiner] = "try" /\ pc[c] \in {"asleep", "awake"}) ~> pc[c] = "idle"
===============================================================================
