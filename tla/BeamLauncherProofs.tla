-------------------------- MODULE BeamLauncherProofs --------------------------
(***************************************************************************)
(* Theorems about BeamLauncher.  exec() outlives its threads, for every    *)
(* number of beams, callers and calls: the threads in _threads belong to   *)
(* calls that have locked _mutex and not yet returned, all others have not *)
(* begun or have ended, whoever joins them.  The mutex of each wrapper     *)
(* covers its flag and its pipeline.  With one caller the wait of exec()   *)
(* ends only after a beam has ended: the two counters are then the numbers *)
(* of threads at certain places; and exec(), once it joins its threads,    *)
(* shuts join() out for as long as one of its beams runs.                  *)
(***************************************************************************)
EXTENDS BeamLauncher, FiniteSetTheorems, TLAPS

\* A thread that runs, or may run, is in _threads, and its call is under way.
ThreadsHaveTheirCall ==
    \A t \in Threads :
        IF t \in threads THEN pc[t[1]] \in Launched ELSE pc[t] \in {"none", "ended"}

IInv == pc \in [Callers \cup {Joiner} \cup Threads -> Locations] /\ ThreadsHaveTheirCall

\* The places of threads, of callers and of the joiner do not mix.
LEMMA Apart ==
    ASSUME NEW t \in Threads
    PROVE  /\ t[1] \in Callers /\ t[2] \in Beams
           /\ t \notin Callers /\ t # Joiner
    BY ThreadsAreNoCallers DEF Threads

\* Nobody has been launched.
LEMMA InitIInv == Init => IInv
    BY Apart DEF Init, IInv, ThreadsHaveTheirCall, Locations

\* Steps of a caller that begin and end outside or inside the launch.
LEMMA CallerKeepsIInv ==
    ASSUME IInv, NEW c \in Callers,
           Exec(c) \/ CallerStep(c) \/ SpuriousWakeup(c)
    PROVE  IInv'
    <1> USE Apart, ConstantsAssumption
    <1>1. CASE Launch(c)
        <2>1. PICK b \in Beams :
                  /\ pc[c] = "launch"
                  /\ pc' = [pc EXCEPT ![<<c, b>>] = "new",
                                      ![c] = IF b = N THEN "test" ELSE "launch"]
                  /\ threads' = threads \cup {<<c, b>>}
            BY <1>1 DEF Launch
        <2>2. <<c, b>> \in Threads /\ <<c, b>>[1] = c
            BY DEF Threads
        <2>3. /\ <<c, b>> # c
              /\ pc'[<<c, b>>] = "new"
              /\ pc'[c] \in {"test", "launch"}
              /\ \A p \in Callers \cup {Joiner} \cup Threads :
                     p # c /\ p # <<c, b>> => pc'[p] = pc[p]
            BY <2>1, <2>2 DEF IInv
        <2>4. pc' \in [Callers \cup {Joiner} \cup Threads -> Locations]
            BY <2>1, <2>2 DEF IInv, Locations
        <2> QED  BY <2>1, <2>2, <2>3, <2>4 DEF IInv, ThreadsHaveTheirCall, Launched
    <1>2. CASE Reap(c)
        BY <1>2 DEF Reap, Go, IInv, ThreadsHaveTheirCall, Launched, Locations
    <1>3. CASE Exec(c)
        BY <1>3 DEF Exec, Go, IInv, ThreadsHaveTheirCall, Launched, Locations
    <1>4. CASE Lock(c) \/ TestRunning(c) \/ TestStarted(c) \/ Block(c) \/ Relock(c) \/ SpuriousWakeup(c)
        BY <1>4 DEF Lock, TestRunning, TestStarted, Block, Relock, SpuriousWakeup, Go, IInv,
                    ThreadsHaveTheirCall, Launched, Locations
    <1> QED  BY <1>1, <1>2, <1>3, <1>4 DEF CallerStep

\* A thread goes from "new" to "ended" and is in _threads until then.
LEMMA ThreadKeepsIInv ==
    ASSUME IInv, NEW t \in Threads,
           ThreadStep(t) \/ (\E failed \in BOOLEAN : PipelineEnds(t, failed))
    PROVE  IInv'
    <1> USE Apart
    <1>1. CASE Notify(t, "ended")
        BY <1>1 DEF Notify, IInv, ThreadsHaveTheirCall, Launched, Locations
    <1>2. CASE Count(t) \/ Start(t) \/ CheckExit(t) \/ Enter(t) \/ Decide(t)
               \/ PipelineRuns(t) \/ Uncount(t)
        BY <1>2 DEF Count, Start, CheckExit, Enter, Decide, PipelineRuns, Uncount, Go,
                    IInv, ThreadsHaveTheirCall, Launched, Locations
    <1>3. ASSUME NEW failed \in BOOLEAN, PipelineEnds(t, failed)
          PROVE  IInv'
        BY <1>3 DEF PipelineEnds, Go, IInv, ThreadsHaveTheirCall, Launched, Locations
    <1> QED  BY <1>1, <1>2, <1>3 DEF ThreadStep

\* A stop() touches only the place of who calls it: a failed thread or the joiner.
LEMMA StopKeepsIInv ==
    ASSUME IInv, NEW p \in Stoppers, StopStep(p)
    PROVE  IInv'
    <1> USE Apart, ConstantsAssumption
    <1>1. ASSUME NEW from \in {"try", "retry", "wait"}, NEW got \in {"set", "reset"},
                 NEW failed \in {"spin", "wait"}, TryLock(p, from, got, failed)
          PROVE  IInv'
        BY <1>1 DEF TryLock, Go, local, Stoppers, IInv, ThreadsHaveTheirCall, Launched, Locations
    <1>2. CASE Spin(p) \/ AskToStop(p)
        BY <1>2 DEF Spin, AskToStop, Go, Stoppers, IInv, ThreadsHaveTheirCall, Launched, Locations
    <1>3. CASE SetStop(p)
        BY <1>3 DEF SetStop, Stoppers, IInv, ThreadsHaveTheirCall, Launched, Locations
    <1> QED  BY <1>1, <1>2, <1>3 DEF StopStep

\* join() joins whatever threads there are.
LEMMA JoinerKeepsIInv ==
    ASSUME IInv, Join \/ JoinerStep
    PROVE  IInv'
    <1> USE Apart, ConstantsAssumption
    <1>1. CASE Reap(Joiner)
        BY <1>1 DEF Reap, Go, IInv, ThreadsHaveTheirCall, Launched, Locations
    <1>2. CASE Notify(Joiner, "idle")
        BY <1>2 DEF Notify, IInv, ThreadsHaveTheirCall, Launched, Locations
    <1>3. CASE Join \/ JoinLock
        BY <1>3 DEF Join, JoinLock, Go, IInv, ThreadsHaveTheirCall, Launched, Locations
    <1> QED  BY <1>1, <1>2, <1>3 DEF JoinerStep

LEMMA StepKeepsIInv == IInv /\ [Next]_vars => IInv'
    <1> SUFFICES ASSUME IInv, [Next]_vars PROVE IInv'
        OBVIOUS
    <1>1. CASE Next
        BY <1>1, CallerKeepsIInv, ThreadKeepsIInv, StopKeepsIInv, JoinerKeepsIInv DEF Next
    <1>2. CASE UNCHANGED vars
        BY <1>2 DEF vars, IInv, ThreadsHaveTheirCall
    <1> QED  BY <1>1, <1>2

\* ExecOutlivesItsThreads: whoever joins the threads of a call of exec(), it
\* does not return before they have ended.
THEOREM ExecOutlives == Spec => []ExecOutlivesItsThreads
    <1>1. IInv => ExecOutlivesItsThreads
        BY Apart DEF IInv, ThreadsHaveTheirCall, Launched, ExecOutlivesItsThreads
    <1> QED  BY InitIInv, StepKeepsIInv, <1>1, PTL DEF Spec

-------------------------------------------------------------------------------
(* The wrappers, with any number of callers                                  *)

\* Between the lock of a wrapper's mutex and its release
Holds(p) == pc[p] \in {"decide", "starting", "running", "set", "reset"}
Stopping == {"try", "set", "reset", "spin", "retry", "ask", "wait"}

\* The owner of each mutex is who is between the two.
OwnersHold ==
    \A p \in Stoppers, b \in Beams : owner[b] = p <=> Holds(p) /\ Target(p) = b

\* A pipeline runs exactly while a thread that owns its mutex is in it.
PipelinesOwned ==
    /\ \A t \in Threads : pc[t] = "running" => pipeline[t[2]] # "off"
    /\ \A b \in Beams : pipeline[b] # "off" => owner[b] \in Threads /\ pc[owner[b]] = "running"

\* _stop is not set behind the back of a thread that has looked at it.
StopSeen ==
    \A b \in Beams : stop[b] => owner[b] = None \/ pc[owner[b]] \notin {"starting", "running"}

WrapperInv ==
    /\ IInv
    /\ owner \in [Beams -> Stoppers \cup {None}]
    /\ stop \in [Beams -> BOOLEAN]
    /\ pipeline \in [Beams -> {"off", "on", "stopping"}]
    /\ pc[Joiner] \in Stopping => target \in Beams
    /\ OwnersHold /\ PipelinesOwned /\ StopSeen

\* However many calls of exec() are under way, a beam's pipeline is run by one thread
\* at a time.
OneThreadPerPipeline ==
    \A t, u \in Threads :
        t[2] = u[2] /\ pc[t] = "running" /\ pc[u] = "running" => t = u

\* A beam with a _stop that was left does not run, and a beam that runs gets no _stop.
StoppedBeamsAreOff == \A b \in Beams : stop[b] => pipeline[b] = "off"

LEMMA StoppersApart ==
    /\ None \notin Stoppers /\ Joiner \in Stoppers
    /\ \A p \in Stoppers : p = Joiner \/ (p \in Threads /\ p # Joiner /\ p[2] \in Beams)
    /\ \A c \in Callers : c \notin Stoppers
    /\ \A t \in Threads : t \in Stoppers /\ t # Joiner /\ t[2] \in Beams /\ Target(t) = t[2]
    BY Apart, ThreadsAreNoCallers, ConstantsAssumption DEF Stoppers, Target

\* Steps without a lock or a release.
LEMMA OutsideKeepsWrapper ==
    ASSUME WrapperInv, IInv', UNCHANGED <<owner, stop>>,
           pipeline' \in [Beams -> {"off", "on", "stopping"}],
           \A b \in Beams : pipeline'[b] = "off" <=> pipeline[b] = "off",
           \A p \in Stoppers : Holds(p) \/ Holds(p)' => pc'[p] = pc[p],
           pc'[Joiner] \in Stopping => target' \in Beams,
           Holds(Joiner) => target' = target
    PROVE  WrapperInv'
    <1> USE StoppersApart
    <1>1. \A p \in Stoppers : Holds(p)' = Holds(p)
        BY DEF Holds
    <1>2. \A p \in Stoppers : Holds(p) => Target(p)' = Target(p)
        BY DEF Target
    <1>3. \A b \in Beams : owner[b] # None => owner[b] \in Stoppers
        BY DEF WrapperInv
    <1>4. OwnersHold'
        BY <1>1, <1>2 DEF WrapperInv, OwnersHold
    <1>5. \A b \in Beams : owner[b] # None => pc'[owner[b]] = pc[owner[b]]
        BY <1>3 DEF WrapperInv, OwnersHold
    <1>6. \A t \in Threads : pc'[t] = "running" => pc[t] = "running"
        BY DEF Holds
    <1>7. PipelinesOwned'
        <2>1. \A t \in Threads : pc'[t] = "running" => pipeline'[t[2]] # "off"
            BY <1>6 DEF WrapperInv, PipelinesOwned
        <2>2. ASSUME NEW b \in Beams, pipeline'[b] # "off"
              PROVE  owner'[b] \in Threads /\ pc'[owner'[b]] = "running"
            BY <2>2, <1>5 DEF WrapperInv, PipelinesOwned
        <2> QED  BY <2>1, <2>2 DEF PipelinesOwned
    <1>8. StopSeen'
        BY <1>5 DEF WrapperInv, StopSeen
    <1> QED  BY <1>4, <1>7, <1>8 DEF WrapperInv

\* The mutex is taken by a thread or by a stop().
LEMMA LockKeepsWrapper ==
    ASSUME WrapperInv, IInv', NEW p \in Stoppers, NEW b \in Beams, Target(p) = b, ~Holds(p),
           owner[b] = None, owner' = [owner EXCEPT ![b] = p],
           NEW to \in {"decide", "set", "reset"}, pc' = [pc EXCEPT ![p] = to],
           p = Joiner => to # "decide",
           UNCHANGED <<target, stop, pipeline>>, p = Joiner => target \in Beams
    PROVE  WrapperInv'
    <1> USE StoppersApart
    <1>1. /\ pc'[p] = to /\ \A q \in Stoppers : q # p => pc'[q] = pc[q]
          /\ owner'[b] = p /\ \A k \in Beams : k # b => owner'[k] = owner[k]
          /\ owner' \in [Beams -> Stoppers \cup {None}]
        BY DEF WrapperInv, IInv, Stoppers
    <1>2. \A q \in Stoppers : Target(q)' = Target(q)
        BY DEF Target
    <1>3. \A k \in Beams : owner[k] # p
        BY DEF WrapperInv, OwnersHold
    <1>4. \A k \in Beams : owner[k] # None => owner[k] \in Stoppers
        BY DEF WrapperInv
    <1>5. OwnersHold'
        <2> SUFFICES ASSUME NEW q \in Stoppers, NEW k \in Beams
                     PROVE  owner'[k] = q <=> Holds(q)' /\ Target(q)' = k
            BY DEF OwnersHold
        <2>1. CASE q = p
            <3>1. Holds(q)'
                BY <1>1, <2>1 DEF Holds
            <3> QED  BY <1>1, <1>2, <1>3, <2>1, <3>1
        <2>2. CASE q # p
            <3>1. Holds(q)' = Holds(q)
                BY <1>1, <2>2 DEF Holds
            <3>2. owner[k] = q <=> Holds(q) /\ Target(q) = k
                BY DEF WrapperInv, OwnersHold
            <3> QED  BY <1>1, <1>2, <2>2, <3>1, <3>2
        <2> QED  BY <2>1, <2>2
    <1>6. PipelinesOwned'
        <2>1. pipeline[b] = "off"
            BY DEF WrapperInv, PipelinesOwned
        <2>2. \A t \in Threads : pc'[t] = "running" => pc[t] = "running"
            BY <1>1
        <2>3. ASSUME NEW k \in Beams, pipeline'[k] # "off"
              PROVE  owner'[k] \in Threads /\ pc'[owner'[k]] = "running"
            <3>1. k # b /\ owner[k] \in Threads /\ pc[owner[k]] = "running"
                BY <2>1, <2>3 DEF WrapperInv, PipelinesOwned
            <3> QED  BY <1>1, <1>3, <3>1
        <2> QED  BY <2>2, <2>3 DEF WrapperInv, PipelinesOwned
    <1>7. StopSeen'
        BY <1>1, <1>3, <1>4 DEF WrapperInv, StopSeen
    <1> QED  BY <1>1, <1>5, <1>6, <1>7 DEF WrapperInv

\* The mutex is released, the pipeline off, whatever _stop is then.
LEMMA UnlockKeepsWrapper ==
    ASSUME WrapperInv, IInv', NEW p \in Stoppers, NEW b \in Beams, Target(p) = b, Holds(p),
           owner' = [owner EXCEPT ![b] = None],
           NEW to \in Locations \ {"decide", "starting", "running", "set", "reset"},
           pc' = [pc EXCEPT ![p] = to],
           pipeline' = [pipeline EXCEPT ![b] = "off"], stop' \in [Beams -> BOOLEAN],
           \A k \in Beams : k # b => stop'[k] = stop[k],
           p # Joiner => target' = target,
           p = Joiner /\ to \in Stopping => target' \in Beams
    PROVE  WrapperInv'
    <1> USE StoppersApart
    <1>1. /\ pc'[p] = to /\ \A q \in Stoppers : q # p => pc'[q] = pc[q]
          /\ owner'[b] = None /\ \A k \in Beams : k # b => owner'[k] = owner[k]
          /\ pipeline'[b] = "off" /\ \A k \in Beams : k # b => pipeline'[k] = pipeline[k]
          /\ owner' \in [Beams -> Stoppers \cup {None}]
          /\ pipeline' \in [Beams -> {"off", "on", "stopping"}]
        BY DEF WrapperInv, IInv, Stoppers
    <1>2. \A q \in Stoppers : q # p => Target(q)' = Target(q)
        BY DEF Target
    <1>3. owner[b] = p /\ \A k \in Beams : k # b => owner[k] # p
        BY DEF WrapperInv, OwnersHold
    <1>4. \A k \in Beams : owner[k] # None => owner[k] \in Stoppers
        BY DEF WrapperInv
    <1>5. OwnersHold'
        <2> SUFFICES ASSUME NEW q \in Stoppers, NEW k \in Beams
                     PROVE  owner'[k] = q <=> Holds(q)' /\ Target(q)' = k
            BY DEF OwnersHold
        <2>1. CASE q = p
            <3>1. ~Holds(q)'
                BY <1>1, <2>1 DEF Holds
            <3> QED  BY <1>1, <1>3, <2>1, <3>1
        <2>2. CASE q # p
            <3>1. Holds(q)' = Holds(q)
                BY <1>1, <2>2 DEF Holds
            <3>2. owner[k] = q <=> Holds(q) /\ Target(q) = k
                BY DEF WrapperInv, OwnersHold
            <3> QED  BY <1>1, <1>2, <1>3, <2>2, <3>1, <3>2
        <2> QED  BY <2>1, <2>2
    <1>6. PipelinesOwned'
        <2>1. ASSUME NEW t \in Threads, pc'[t] = "running"  PROVE pipeline'[t[2]] # "off"
            <3>1. t # p /\ pc[t] = "running"
                BY <1>1, <2>1
            <3>2. owner[t[2]] = t
                BY <3>1 DEF Holds, WrapperInv, OwnersHold
            <3>3. t[2] # b
                BY <1>3, <3>1, <3>2
            <3> QED  BY <1>1, <3>1, <3>3 DEF WrapperInv, PipelinesOwned
        <2>2. ASSUME NEW k \in Beams, pipeline'[k] # "off"
              PROVE  owner'[k] \in Threads /\ pc'[owner'[k]] = "running"
            <3>1. k # b /\ owner[k] \in Threads /\ pc[owner[k]] = "running"
                BY <1>1, <2>2 DEF WrapperInv, PipelinesOwned
            <3> QED  BY <1>1, <1>3, <3>1
        <2> QED  BY <2>1, <2>2 DEF PipelinesOwned
    <1>7. StopSeen'
        BY <1>1, <1>3, <1>4 DEF WrapperInv, StopSeen
    <1>8. pc'[Joiner] \in Stopping => target' \in Beams
        BY <1>1 DEF WrapperInv
    <1> QED  BY <1>1, <1>5, <1>6, <1>7, <1>8 DEF WrapperInv

\* Steps of exec() and join(), which touch no wrapper
LEMMA CallsKeepWrapper ==
    ASSUME WrapperInv, IInv',
           \/ \E c \in Callers : Exec(c) \/ CallerStep(c) \/ SpuriousWakeup(c)
           \/ Join \/ JoinerStep
    PROVE  WrapperInv'
    <1> USE StoppersApart
    <1>1. pc \in [Callers \cup {Joiner} \cup Threads -> Locations]
        BY DEF WrapperInv, IInv
    <1> DEFINE Outside ==
                   /\ UNCHANGED beams
                   /\ \A p \in Stoppers : Holds(p) \/ Holds(p)' => pc'[p] = pc[p]
                   /\ pc'[Joiner] \in Stopping => target' \in Beams
                   /\ Holds(Joiner) => target' = target
    <1>2. ASSUME NEW c \in Callers, Launch(c)  PROVE Outside
        <2>1. PICK b \in Beams :
                  /\ {k \in Beams : <<c, k>> \in threads} = 1 .. b - 1
                  /\ pc' = [pc EXCEPT ![<<c, b>>] = "new",
                                      ![c] = IF b = N THEN "test" ELSE "launch"]
            BY <1>2 DEF Launch
        <2>2. UNCHANGED <<local, beams>>
            BY <1>2 DEF Launch
        <2>3. <<c, b>> \in Threads /\ b \notin 1 .. b - 1
            BY ConstantsAssumption DEF Threads, Beams
        <2>4. ~Holds(<<c, b>>)
            BY <2>1, <2>3 DEF WrapperInv, IInv, ThreadsHaveTheirCall, Holds
        <2>5. /\ pc'[<<c, b>>] = "new"
              /\ \A p \in Stoppers : p # <<c, b>> => pc'[p] = pc[p]
            BY <1>1, <2>1, <2>3
        <2> QED  BY <2>2, <2>3, <2>4, <2>5 DEF Holds, local, WrapperInv
    <1>3. ASSUME NEW c \in Callers,
                 \/ Exec(c) \/ Lock(c) \/ TestRunning(c) \/ TestStarted(c) \/ Block(c) \/ Relock(c) \/ Reap(c)
                 \/ SpuriousWakeup(c)
          PROVE  Outside
        <2>1. UNCHANGED <<target, beams>> /\ \A p \in Stoppers : pc'[p] = pc[p]
            BY <1>1, <1>3 DEF Exec, Lock, TestRunning, TestStarted, Block, Relock, Reap, SpuriousWakeup, Go, local
        <2> QED  BY <2>1 DEF WrapperInv
    <1>4. ASSUME Join \/ JoinLock  PROVE Outside
        <2>1. /\ UNCHANGED beams /\ pc[Joiner] \in {"idle", "lock"}
              /\ pc'[Joiner] \in {"lock", "notify", "try"} /\ (JoinLock => target' = 1)
              /\ pc'[Joiner] = "try" => target' = 1
              /\ \A p \in Stoppers : p # Joiner => pc'[p] = pc[p]
            BY <1>1, <1>4 DEF Join, JoinLock, Go
        <2>2. 1 \in Beams
            BY ConstantsAssumption DEF Beams
        <2>3. pc'[Joiner] \in Stopping => target' \in Beams
            BY <2>1, <2>2 DEF Stopping
        <2> QED  BY <2>1, <2>3 DEF Holds
    <1>5. ASSUME Reap(Joiner) \/ Notify(Joiner, "idle")  PROVE Outside
        <2>1. /\ UNCHANGED <<target, beams>> /\ pc[Joiner] \in {"reap", "notify"}
              /\ pc'[Joiner] \in {"notify", "idle"}
              /\ \A p \in Stoppers : p # Joiner => pc'[p] = pc[p]
            BY <1>1, <1>5 DEF Reap, Notify, Go, local
        <2>2. pc'[Joiner] \notin Stopping
            BY <2>1 DEF Stopping
        <2> QED  BY <2>1, <2>2 DEF Holds
    <1> HIDE DEF Outside
    <1>6. Outside
        BY <1>2, <1>3, <1>4, <1>5 DEF CallerStep, JoinerStep
    <1> QED  BY <1>6, OutsideKeepsWrapper DEF Outside, beams, WrapperInv

\* PipelineWrapper::operator() and what is around it
LEMMA ThreadKeepsWrapper ==
    ASSUME WrapperInv, IInv', NEW t \in Threads,
           ThreadStep(t) \/ \E failed \in BOOLEAN : PipelineEnds(t, failed)
    PROVE  WrapperInv'
    <1> USE StoppersApart
    <1>1. pc \in [Callers \cup {Joiner} \cup Threads -> Locations]
        BY DEF WrapperInv, IInv
    <1>2. CASE Count(t) \/ Start(t) \/ CheckExit(t) \/ Uncount(t) \/ Notify(t, "ended")
        <2>1. /\ UNCHANGED <<target, beams>> /\ ~Holds(t) /\ ~Holds(t)'
              /\ \A p \in Stoppers : p # t => pc'[p] = pc[p]
            BY <1>1, <1>2 DEF Count, Start, CheckExit, Uncount, Notify, Go, local, Holds
        <2> QED  BY <2>1, OutsideKeepsWrapper DEF beams, WrapperInv
    <1>3. CASE Enter(t)
        BY <1>3, LockKeepsWrapper DEF Enter, Go, Holds, local
    <1>4. CASE Decide(t)
        <2>1. Holds(t) /\ owner[t[2]] = t /\ pipeline[t[2]] = "off"
            BY <1>4 DEF Decide, Go, Holds, WrapperInv, OwnersHold, PipelinesOwned
        <2>2. UNCHANGED <<target, stop, pipeline>>
            BY <1>4 DEF Decide, local
        <2>3. CASE stop[t[2]]
            <3>1. /\ pc' = [pc EXCEPT ![t] = "uncount"]
                  /\ owner' = [owner EXCEPT ![t[2]] = None]
                BY <1>4, <2>3 DEF Decide, Go
            <3>2. pipeline' = [pipeline EXCEPT ![t[2]] = "off"]
                BY <2>1, <2>2 DEF WrapperInv
            <3>3. stop' \in [Beams -> BOOLEAN]
                BY <2>2 DEF WrapperInv
            <3> QED  BY <2>1, <2>2, <3>1, <3>2, <3>3, UnlockKeepsWrapper DEF Locations
        <2>4. CASE ~stop[t[2]]
            <3>1. pc' = [pc EXCEPT ![t] = "starting"] /\ owner' = [owner EXCEPT ![t[2]] = t]
                BY <1>4, <2>4 DEF Decide, Go
            <3>2. owner' = owner
                BY <2>1, <3>1 DEF WrapperInv
            <3>3. pc'[t] = "starting" /\ \A p \in Stoppers : p # t => pc'[p] = pc[p]
                BY <1>1, <3>1
            <3>4. \A p \in Stoppers : Holds(p)' = Holds(p) /\ Target(p)' = Target(p)
                BY <2>1, <2>2, <3>3 DEF Holds, Target
            <3>5. OwnersHold'
                BY <3>2, <3>4 DEF WrapperInv, OwnersHold
            <3>6. PipelinesOwned'
                <4>1. \A u \in Threads : pc'[u] = "running" => pc[u] = "running"
                    BY <3>3
                <4>2. \A b \in Beams : owner[b] = t => b = t[2]
                    BY DEF WrapperInv, OwnersHold
                <4>3. ASSUME NEW b \in Beams, pipeline'[b] # "off"
                      PROVE  owner'[b] \in Threads /\ pc'[owner'[b]] = "running"
                    <5>1. b # t[2] /\ owner[b] \in Threads /\ pc[owner[b]] = "running"
                        BY <2>1, <2>2, <4>3 DEF WrapperInv, PipelinesOwned
                    <5> QED  BY <3>2, <3>3, <4>2, <5>1
                <4> QED  BY <2>2, <4>1, <4>3 DEF WrapperInv, PipelinesOwned
            <3>7. StopSeen'
                <4>1. \A b \in Beams : owner[b] # None => owner[b] \in Stoppers
                    BY DEF WrapperInv
                <4>2. \A b \in Beams : owner[b] = t => b = t[2]
                    BY DEF WrapperInv, OwnersHold
                <4> QED  BY <2>2, <2>4, <3>2, <3>3, <4>1, <4>2 DEF WrapperInv, StopSeen
            <3> QED  BY <2>2, <3>2, <3>3, <3>5, <3>6, <3>7 DEF WrapperInv
        <2> QED  BY <2>3, <2>4
    <1>5. CASE PipelineRuns(t)
        <2>1. Holds(t) /\ owner[t[2]] = t /\ ~stop[t[2]]
            BY <1>5 DEF PipelineRuns, Go, Holds, WrapperInv, OwnersHold, StopSeen
        <2>2. UNCHANGED <<target, owner, stop>>
            BY <1>5 DEF PipelineRuns, local
        <2>3. pc'[t] = "running" /\ \A p \in Stoppers : p # t => pc'[p] = pc[p]
            BY <1>1, <1>5 DEF PipelineRuns, Go
        <2>4. /\ pipeline' \in [Beams -> {"off", "on", "stopping"}] /\ pipeline'[t[2]] = "on"
              /\ \A b \in Beams : b # t[2] => pipeline'[b] = pipeline[b]
            BY <1>5 DEF PipelineRuns, WrapperInv
        <2>5. \A p \in Stoppers : Holds(p)' = Holds(p) /\ Target(p)' = Target(p)
            BY <2>1, <2>2, <2>3 DEF Holds, Target
        <2>6. OwnersHold'
            BY <2>2, <2>5 DEF WrapperInv, OwnersHold
        <2>7. \A b \in Beams : owner[b] = t => b = t[2]
            BY DEF WrapperInv, OwnersHold
        <2>8. PipelinesOwned'
            <3>1. ASSUME NEW u \in Threads, pc'[u] = "running"  PROVE pipeline'[u[2]] # "off"
                <4>1. u # t => pipeline[u[2]] # "off"
                    BY <2>3, <3>1 DEF WrapperInv, PipelinesOwned
                <4> QED  BY <2>4, <4>1
            <3>2. ASSUME NEW b \in Beams, pipeline'[b] # "off"
                  PROVE  owner'[b] \in Threads /\ pc'[owner'[b]] = "running"
                <4>1. b # t[2] => owner[b] \in Threads /\ pc[owner[b]] = "running"
                    BY <2>4, <3>2 DEF WrapperInv, PipelinesOwned
                <4> QED  BY <2>1, <2>2, <2>3, <2>7, <4>1
            <3> QED  BY <3>1, <3>2 DEF PipelinesOwned
        <2>9. StopSeen'
            <3>1. \A b \in Beams : owner[b] # None => owner[b] \in Stoppers
                BY DEF WrapperInv
            <3> QED  BY <2>1, <2>2, <2>3, <2>7, <3>1 DEF WrapperInv, StopSeen
        <2> QED  BY <2>2, <2>3, <2>4, <2>6, <2>8, <2>9 DEF WrapperInv
    <1>6. ASSUME NEW failed \in BOOLEAN, PipelineEnds(t, failed)
          PROVE  WrapperInv'
        <2>1. /\ Holds(t) /\ UNCHANGED <<target, stop>>
              /\ owner' = [owner EXCEPT ![t[2]] = None]
              /\ pipeline' = [pipeline EXCEPT ![t[2]] = "off"]
              /\ pc' = [pc EXCEPT ![t] = IF failed THEN "try" ELSE "uncount"]
            BY <1>6 DEF PipelineEnds, Go, Holds, local
        <2>2. stop' \in [Beams -> BOOLEAN]
            BY <2>1 DEF WrapperInv
        <2>3. CASE failed
            BY <2>1, <2>2, <2>3, UnlockKeepsWrapper DEF Locations
        <2>4. CASE ~failed
            BY <2>1, <2>2, <2>4, UnlockKeepsWrapper DEF Locations
        <2> QED  BY <2>3, <2>4
    <1> QED  BY <1>2, <1>3, <1>4, <1>5, <1>6 DEF ThreadStep

\* PipelineWrapper::stop()
LEMMA StopKeepsWrapper ==
    ASSUME WrapperInv, IInv', NEW p \in Stoppers, StopStep(p)
    PROVE  WrapperInv'
    <1> USE StoppersApart
    <1>1. pc \in [Callers \cup {Joiner} \cup Threads -> Locations]
        BY DEF WrapperInv, IInv
    <1>2. pc[p] \in Stopping
        BY DEF StopStep, TryLock, Spin, AskToStop, SetStop, Go, Stopping
    <1>3. Target(p) \in Beams
        BY <1>2 DEF WrapperInv, Target
    <1>4. ASSUME NEW from \in {"try", "retry", "wait"}, NEW got \in {"set", "reset"},
                 NEW failed \in {"spin", "wait"}, TryLock(p, from, got, failed)
          PROVE  WrapperInv'
        <2>1. ~Holds(p) /\ UNCHANGED <<target, stop, pipeline>>
              /\ (p = Joiner => target \in Beams)
            BY <1>2, <1>4 DEF TryLock, Go, Holds, local, WrapperInv
        <2>2. CASE Go(p, from, got) /\ owner[Target(p)] = None
                   /\ owner' = [owner EXCEPT ![Target(p)] = p]
            BY <1>3, <2>1, <2>2, LockKeepsWrapper DEF Go
        <2>3. CASE Go(p, from, failed) /\ UNCHANGED owner
            <3>1. ~Holds(p)' /\ \A q \in Stoppers : q # p => pc'[q] = pc[q]
                BY <1>1, <2>3 DEF Go, Holds
            <3> QED  BY <1>2, <2>1, <2>3, <3>1, OutsideKeepsWrapper DEF WrapperInv
        <2> QED  BY <1>4, <2>2, <2>3 DEF TryLock
    <1>5. CASE Spin(p) \/ AskToStop(p)
        <2>1. /\ ~Holds(p) /\ ~Holds(p)' /\ UNCHANGED <<target, owner, stop>>
              /\ \A q \in Stoppers : q # p => pc'[q] = pc[q]
            BY <1>1, <1>5 DEF Spin, AskToStop, Go, Holds, local, beams
        <2>2. /\ pipeline' \in [Beams -> {"off", "on", "stopping"}]
              /\ \A b \in Beams : pipeline'[b] = "off" <=> pipeline[b] = "off"
            BY <1>3, <1>5 DEF Spin, AskToStop, beams, WrapperInv
        <2> QED  BY <1>2, <2>1, <2>2, OutsideKeepsWrapper DEF WrapperInv
    <1>6. CASE SetStop(p)
        <2>1. /\ pc[p] \in {"set", "reset"}
              /\ stop' = [stop EXCEPT ![Target(p)] = (pc[p] = "set")]
              /\ owner' = [owner EXCEPT ![Target(p)] = None]
              /\ UNCHANGED pipeline
              /\ target' = IF p = Joiner THEN target + 1 ELSE target
            BY <1>6 DEF SetStop
        <2>2. Holds(p) /\ owner[Target(p)] = p
            BY <1>3, <2>1 DEF Holds, WrapperInv, OwnersHold
        <2>3. pipeline[Target(p)] = "off"
            BY <1>3, <2>1, <2>2 DEF WrapperInv, PipelinesOwned
        <2>4. pipeline' = [pipeline EXCEPT ![Target(p)] = "off"]
            BY <2>1, <2>3 DEF WrapperInv
        <2>5. /\ stop' \in [Beams -> BOOLEAN]
              /\ \A k \in Beams : k # Target(p) => stop'[k] = stop[k]
            BY <2>1 DEF WrapperInv
        <2>6. PICK to \in {"uncount", "reap", "try"} :
                  /\ pc' = [pc EXCEPT ![p] = to]
                  /\ p = Joiner /\ to \in Stopping => target # N
            BY <1>6 DEF SetStop, Stopping
        <2>7. p = Joiner /\ to \in Stopping => target' \in Beams
            <3>1. p = Joiner => target \in 1 .. N
                BY <1>2 DEF WrapperInv, Beams
            <3> QED  BY <2>1, <2>6, <3>1, ConstantsAssumption DEF Beams
        <2>8. to \in Locations \ {"decide", "starting", "running", "set", "reset"}
            BY DEF Locations
        <2>9. p # Joiner => target' = target
            BY <2>1
        <2> QED  BY <1>3, <2>1, <2>2, <2>4, <2>5, <2>6, <2>7, <2>8, <2>9, UnlockKeepsWrapper
    <1> QED  BY <1>4, <1>5, <1>6 DEF StopStep

\* The mutex of a wrapper covers its flag and its pipeline, for any number of callers.
THEOREM WrapperInductive == Spec => []WrapperInv
    <1>1. Init => WrapperInv
        <2> SUFFICES ASSUME Init PROVE WrapperInv
            OBVIOUS
        <2> USE StoppersApart
        <2>1. \A p \in Stoppers : pc[p] \in {"none", "idle"}
            BY DEF Init, Stoppers
        <2>2. OwnersHold
            BY <2>1 DEF Init, OwnersHold, Holds
        <2>3. PipelinesOwned /\ StopSeen
            BY <2>1 DEF Init, PipelinesOwned, StopSeen
        <2> QED  BY <2>1, <2>2, <2>3, InitIInv DEF Init, WrapperInv, Stopping
    <1>2. WrapperInv /\ [Next]_vars => WrapperInv'
        <2> SUFFICES ASSUME WrapperInv, [Next]_vars PROVE WrapperInv'
            OBVIOUS
        <2>1. IInv'
            BY StepKeepsIInv DEF WrapperInv
        <2>2. CASE Next
            BY <2>1, <2>2, CallsKeepWrapper, ThreadKeepsWrapper, StopKeepsWrapper DEF Next
        <2>3. CASE UNCHANGED vars
            <3>1. UNCHANGED <<pc, target, beams>>
                BY <2>3 DEF vars, local
            <3> QED  BY <2>1, <3>1, OutsideKeepsWrapper DEF beams, WrapperInv
        <2> QED  BY <2>2, <2>3
    <1> QED  BY <1>1, <1>2, PTL DEF Spec

\* Each pipeline is run by one thread at a time.  Two concurrent calls of exec() may
\* both start all beams, since they look at _execution_count without the mutex; the
\* second thread of a beam then waits in PipelineWrapper::operator().
THEOREM PipelinesExclusive == Spec => []OneThreadPerPipeline
    <1>1. WrapperInv => OneThreadPerPipeline
        <2> SUFFICES ASSUME WrapperInv, NEW t \in Threads, NEW u \in Threads, t[2] = u[2],
                            pc[t] = "running", pc[u] = "running"
                     PROVE  t = u
            BY DEF OneThreadPerPipeline
        <2>1. owner[t[2]] = t /\ owner[u[2]] = u
            BY StoppersApart DEF WrapperInv, OwnersHold, Holds
        <2> QED  BY <2>1
    <1> QED  BY <1>1, WrapperInductive, PTL

\* The _stop a join() leaves for a beam that had not started keeps that beam off, until
\* another stop() that fails to get the mutex at once takes it back.
THEOREM StopKeepsOff == Spec => []StoppedBeamsAreOff
    <1>1. WrapperInv => StoppedBeamsAreOff
        BY StoppersApart DEF WrapperInv, PipelinesOwned, StopSeen, StoppedBeamsAreOff
    <1> QED  BY <1>1, WrapperInductive, PTL

-------------------------------------------------------------------------------
(* One caller *)

\* A thread between the two changes of _execution_count, and one that has added
\* itself to execution_start
Counted(t) == pc[t] \in {"counted", "check", "enter", "decide", "starting", "running",
                         "uncount", "try", "set", "reset", "spin", "retry", "ask", "wait"}
Begun(t) == pc[t] \notin {"none", "new", "counted"}
ThreadPlaces == {"none", "new", "counted", "check", "enter", "decide", "starting", "running",
                 "uncount", "try", "set", "reset", "spin", "retry", "ask", "wait", "notify",
                 "ended"}

CountedBeams(c) == {b \in Beams : Counted(<<c, b>>)}

\* During the launch threads of the call before have begun, and ended, too.
BegunBeams(c) ==
    {b \in Beams : Begun(<<c, b>>) /\ (pc[c] = "launch" => <<c, b>> \in threads)}

\* The two counters are the numbers of these threads.
CountsThreads(c) ==
    /\ started[c] \in Int
    /\ count = Cardinality(CountedBeams(c))
    /\ pc[c] = "lock" => started[c] = 0
    /\ pc[c] \in Launched => started[c] = Cardinality(BegunBeams(c))

\* _mutex is held during the launch, the test of the predicate and the joining of
\* threads.
HoldsMutex(c) ==
    /\ pc[c] \in {"launch", "test", "compare", "block", "reap"} => mutex = c
    /\ pc[Joiner] = "reap" => mutex = Joiner
    /\ pc[Joiner] \in {"try", "set", "reset", "spin", "retry", "ask", "wait"} => mutex = Joiner

CountInv(c) ==
    /\ IInv
    /\ \A b \in Beams : pc[<<c, b>>] \in ThreadPlaces
    /\ DOMAIN started = Callers
    /\ CountsThreads(c)
    /\ HoldsMutex(c)

LEMMA BeamsFinite ==
    /\ IsFiniteSet(Beams) /\ Cardinality(Beams) = N
    /\ \A S \in SUBSET Beams : IsFiniteSet(S) /\ Cardinality(S) \in Nat
    <1>1. IsFiniteSet(Beams) /\ Cardinality(Beams) = N
        BY FS_Interval, ConstantsAssumption DEF Beams
    <1>2. ASSUME NEW S \in SUBSET Beams
          PROVE  IsFiniteSet(S) /\ Cardinality(S) \in Nat
        <2>1. IsFiniteSet(S)
            BY <1>1, FS_Subset
        <2> QED  BY <2>1, FS_CardinalityType
    <1> QED  BY <1>1, <1>2

LEMMA OneCaller ==
    ASSUME NEW c, Callers = {c}
    PROVE  /\ \A t \in Threads : t[2] \in Beams /\ t = <<c, t[2]>>
           /\ \A b \in Beams : <<c, b>> \in Threads /\ <<c, b>>[1] = c /\ <<c, b>>[2] = b
           /\ \A b \in Beams : <<c, b>> # c /\ <<c, b>> # Joiner /\ <<c, b>> # None
           /\ c \in Callers /\ c # Joiner /\ c # None /\ Joiner # None
    BY ThreadsAreNoCallers, ConstantsAssumption DEF Threads

\* When all threads have begun and none has ended, all are counted.
LEMMA AnEndIsTold ==
    ASSUME NEW c, Callers = {c}, CountInv(c), pc[c] \in Launched,
           ~IsRunning, started[c] = N
    PROVE  \E b \in Beams : pc[<<c, b>>] \in {"notify", "ended"}
    <1>1. BegunBeams(c) = Beams
        <2>1. Cardinality(BegunBeams(c)) = N
            BY DEF CountInv, CountsThreads
        <2>2. BegunBeams(c) \in SUBSET Beams
            BY DEF BegunBeams
        <2> QED  BY <2>1, <2>2, BeamsFinite, FS_Subset
    <1>2. CountedBeams(c) # Beams
        BY BeamsFinite DEF CountInv, CountsThreads, IsRunning
    <1>3. PICK b \in Beams : Begun(<<c, b>>) /\ ~Counted(<<c, b>>)
        BY <1>1, <1>2 DEF CountedBeams, BegunBeams
    <1> QED  BY <1>3 DEF CountInv, Begun, Counted, ThreadPlaces

\* The counters are right after a step that leaves both sets as they are.
LEMMA SameCounts ==
    ASSUME NEW c, Callers = {c}, CountInv(c),
           started' = started, count' = count,
           CountedBeams(c)' = CountedBeams(c),
           pc'[c] = "lock" => pc[c] = "lock",
           pc'[c] \in Launched => pc[c] \in Launched /\ BegunBeams(c)' = BegunBeams(c)
    PROVE  CountsThreads(c)'
    BY DEF CountInv, CountsThreads

\* Who calls exec() changes no thread after the launch.
LEMMA CallerKeepsCounts ==
    ASSUME NEW c, Callers = {c}, CountInv(c), IInv',
           TestRunning(c) \/ TestStarted(c) \/ Block(c) \/ SpuriousWakeup(c) \/ Relock(c) \/ Reap(c)
    PROVE  CountInv(c)'
    <1> USE OneCaller
    <1>1. /\ pc[c] \in {"test", "compare", "block", "asleep", "awake", "reap"}
          /\ pc'[c] \in {"reap", "block", "asleep", "awake", "test", "compare", "idle"}
          /\ pc'[c] = "test" => pc[c] = "awake"
          /\ \A b \in Beams : pc'[<<c, b>>] = pc[<<c, b>>]
          /\ pc'[Joiner] = pc[Joiner]
          /\ started' = started /\ count' = count
        BY DEF CountInv, IInv, TestRunning, TestStarted, Block, SpuriousWakeup, Relock, Reap, Go, local, Launched
    <1>2. CountedBeams(c)' = CountedBeams(c)
        BY <1>1 DEF CountedBeams, Counted
    <1>3. BegunBeams(c)' = BegunBeams(c)
        BY <1>1 DEF BegunBeams, Begun
    <1>4. CountsThreads(c)'
        BY <1>1, <1>2, <1>3, SameCounts DEF Launched
    <1>5. HoldsMutex(c)'
        BY <1>1 DEF CountInv, IInv, HoldsMutex, TestRunning, TestStarted, Block, SpuriousWakeup, Relock, Reap,
                    Go, TakeMutex
    <1> QED  BY <1>1, <1>4, <1>5 DEF CountInv

\* exec() begins: no thread is in _threads.
LEMMA EntryKeepsCounts ==
    ASSUME NEW c, Callers = {c}, CountInv(c), IInv', Exec(c) \/ Lock(c)
    PROVE  CountInv(c)'
    <1> USE OneCaller
    <1>1. /\ pc[c] \in {"idle", "lock"}
          /\ pc'[c] \in {"idle", "lock", "launch"}
          /\ \A b \in Beams : pc'[<<c, b>>] = pc[<<c, b>>]
          /\ pc'[Joiner] = pc[Joiner]
          /\ count' = count /\ threads' = threads /\ DOMAIN started' = Callers
        BY DEF CountInv, IInv, Exec, Lock, Go, local
    <1>2. CountedBeams(c)' = CountedBeams(c)
        BY <1>1 DEF CountedBeams, Counted
    <1>3. pc'[c] = "launch" => BegunBeams(c)' = {}
        BY <1>1 DEF BegunBeams, CountInv, IInv, ThreadsHaveTheirCall, Launched
    <1>4. /\ started'[c] \in Int
          /\ pc'[c] \in {"lock", "launch"} => started'[c] = 0
        BY <1>1 DEF CountInv, CountsThreads, Exec, Lock, Go, local, IInv
    <1>5. CountsThreads(c)'
        BY <1>1, <1>2, <1>3, <1>4, FS_EmptySet DEF CountInv, CountsThreads, Launched
    <1>6. HoldsMutex(c)'
        BY <1>1 DEF CountInv, IInv, HoldsMutex, Exec, Lock, Go, TakeMutex
    <1> QED  BY <1>1, <1>5, <1>6 DEF CountInv

\* A thread that is launched was not counted and has not begun.
LEMMA LaunchKeepsCounts ==
    ASSUME NEW c, Callers = {c}, CountInv(c), IInv', Launch(c)
    PROVE  CountInv(c)'
    <1> USE OneCaller
    <1>1. PICK b \in Beams :
              /\ pc[c] = "launch"
              /\ {k \in Beams : <<c, k>> \in threads} = 1 .. b - 1
              /\ pc' = [pc EXCEPT ![<<c, b>>] = "new",
                                  ![c] = IF b = N THEN "test" ELSE "launch"]
              /\ threads' = threads \cup {<<c, b>>}
              /\ UNCHANGED <<local, mutex, exit, count, beams>>
        BY DEF Launch
    <1>2. /\ \A k \in Beams : k # b => pc'[<<c, k>>] = pc[<<c, k>>]
          /\ pc'[<<c, b>>] = "new"
          /\ pc'[c] = IF b = N THEN "test" ELSE "launch"
          /\ pc'[Joiner] = pc[Joiner]
        BY <1>1 DEF CountInv, IInv
    <1>3. <<c, b>> \notin threads /\ pc[<<c, b>>] \in {"none", "ended"}
        <2>1. b \notin 1 .. b - 1
            BY ConstantsAssumption DEF Beams
        <2>2. <<c, b>> \notin threads
            BY <1>1, <2>1
        <2> QED  BY <2>2 DEF CountInv, IInv, ThreadsHaveTheirCall
    <1>4. CountedBeams(c)' = CountedBeams(c)
        BY <1>2, <1>3 DEF CountedBeams, Counted
    <1>5. BegunBeams(c)' = BegunBeams(c)
        <2>1. b = N => \A k \in Beams : k # b => <<c, k>> \in threads
            <3> SUFFICES ASSUME b = N, NEW k \in Beams, k # b
                         PROVE  k \in 1 .. b - 1
                BY <1>1
            <3> QED  BY ConstantsAssumption DEF Beams
        <2>2. \A k \in Beams : k # b => (<<c, k>> \in threads' <=> <<c, k>> \in threads)
            BY <1>1
        <2>3. ~Begun(<<c, b>>)'
            BY <1>2 DEF Begun
        <2>4. \A k \in Beams : k # b => Begun(<<c, k>>)' = Begun(<<c, k>>)
            BY <1>2 DEF Begun
        <2> QED  BY <1>1, <1>2, <1>3, <2>1, <2>2, <2>3, <2>4 DEF BegunBeams
    <1>a. /\ pc[c] = "launch" /\ pc'[c] \in {"test", "launch"}
          /\ mutex' = mutex /\ started' = started /\ count' = count
        BY <1>1, <1>2 DEF local
    <1>6. CountsThreads(c)'
        BY <1>a, <1>4, <1>5, SameCounts DEF Launched
    <1>7. HoldsMutex(c)'
        BY <1>a, <1>2 DEF CountInv, HoldsMutex
    <1>8. \A k \in Beams : pc'[<<c, k>>] \in ThreadPlaces
        BY <1>2 DEF CountInv, ThreadPlaces
    <1>9. DOMAIN started' = Callers
        BY <1>1 DEF CountInv, local
    <1> QED  BY <1>6, <1>7, <1>8, <1>9 DEF CountInv

\* A thread that stays between the two changes of the count: the caller, the
\* joiner and the counters stay as they are.
LEMMA InnerStepKeepsCounts ==
    ASSUME NEW c, Callers = {c}, CountInv(c), IInv', NEW b \in Beams,
           NEW to \in ThreadPlaces \ {"none", "new", "counted", "notify", "ended"},
           pc[<<c, b>>] \in ThreadPlaces \ {"none", "new", "counted", "notify", "ended"},
           pc' = [pc EXCEPT ![<<c, b>>] = to],
           started' = started, count' = count, threads' = threads, mutex' = mutex
    PROVE  CountInv(c)'
    <1> USE OneCaller
    <1>1. /\ pc'[c] = pc[c] /\ pc'[Joiner] = pc[Joiner]
          /\ pc'[<<c, b>>] = to
          /\ \A k \in Beams : k # b => pc'[<<c, k>>] = pc[<<c, k>>]
        BY DEF CountInv, IInv
    <1>2. CountedBeams(c)' = CountedBeams(c)
        BY <1>1 DEF CountedBeams, Counted, ThreadPlaces
    <1>3. BegunBeams(c)' = BegunBeams(c)
        BY <1>1 DEF BegunBeams, Begun
    <1>4. CountsThreads(c)'
        BY <1>1, <1>2, <1>3, SameCounts
    <1>5. HoldsMutex(c)'
        BY <1>1 DEF CountInv, HoldsMutex
    <1> QED  BY <1>1, <1>4, <1>5 DEF CountInv

\* A thread that registers, begins, or is no longer counted: one set grows or
\* shrinks by its beam.
LEMMA CountStepKeepsCounts ==
    ASSUME NEW c, Callers = {c}, CountInv(c), IInv', NEW b \in Beams,
           Count(<<c, b>>) \/ Start(<<c, b>>) \/ Uncount(<<c, b>>)
    PROVE  CountInv(c)'
    <1> USE OneCaller
    <1>1. /\ pc'[c] = pc[c] /\ pc'[Joiner] = pc[Joiner]
          /\ \A k \in Beams : k # b => pc'[<<c, k>>] = pc[<<c, k>>]
          /\ pc[<<c, b>>] \in {"new", "counted", "uncount"}
          /\ pc'[<<c, b>>] \in {"counted", "check", "notify"}
          /\ mutex' = mutex /\ threads' = threads
        BY DEF CountInv, IInv, Count, Start, Uncount, Go, local
    <1>2. /\ IsFiniteSet(CountedBeams(c)) /\ Cardinality(CountedBeams(c)) \in Nat
          /\ IsFiniteSet(BegunBeams(c)) /\ Cardinality(BegunBeams(c)) \in Nat
        <2>1. CountedBeams(c) \in SUBSET Beams /\ BegunBeams(c) \in SUBSET Beams
            BY DEF CountedBeams, BegunBeams
        <2> QED  BY <2>1, BeamsFinite
    <1>3. pc[c] \in Launched /\ <<c, b>> \in threads
        BY <1>1 DEF CountInv, IInv, ThreadsHaveTheirCall
    <1>4. CASE Count(<<c, b>>)
        <2>1. /\ pc[<<c, b>>] = "new" /\ pc'[<<c, b>>] = "counted"
              /\ count' = count + 1 /\ started' = started
            BY <1>4 DEF CountInv, IInv, Count, Go, local
        <2>2. CountedBeams(c)' = CountedBeams(c) \cup {b} /\ b \notin CountedBeams(c)
            BY <1>1, <2>1 DEF CountedBeams, Counted
        <2>3. BegunBeams(c)' = BegunBeams(c)
            BY <1>1, <2>1 DEF BegunBeams, Begun
        <2>4. Cardinality(CountedBeams(c)') = Cardinality(CountedBeams(c)) + 1
            BY <1>2, <2>2, FS_AddElement
        <2> QED  BY <1>1, <2>1, <2>3, <2>4 DEF CountInv, CountsThreads, HoldsMutex, ThreadPlaces
    <1>5. CASE Start(<<c, b>>)
        <2>1. /\ pc[<<c, b>>] = "counted" /\ pc'[<<c, b>>] = "check"
              /\ count' = count /\ started'[c] = started[c] + 1 /\ DOMAIN started' = Callers
            BY <1>5 DEF CountInv, IInv, Start, Go
        <2>2. CountedBeams(c)' = CountedBeams(c)
            BY <1>1, <2>1 DEF CountedBeams, Counted
        <2>3. BegunBeams(c)' = BegunBeams(c) \cup {b} /\ b \notin BegunBeams(c)
            BY <1>1, <1>3, <2>1 DEF BegunBeams, Begun
        <2>4. Cardinality(BegunBeams(c)') = Cardinality(BegunBeams(c)) + 1
            BY <1>2, <2>3, FS_AddElement
        <2>5. CountsThreads(c)'
            BY <1>1, <1>3, <2>1, <2>2, <2>4 DEF CountInv, CountsThreads, Launched
        <2> QED  BY <1>1, <2>1, <2>5 DEF CountInv, HoldsMutex, ThreadPlaces
    <1>6. CASE Uncount(<<c, b>>)
        <2>1. /\ pc[<<c, b>>] = "uncount" /\ pc'[<<c, b>>] = "notify"
              /\ count' = count - 1 /\ started' = started
            BY <1>6 DEF CountInv, IInv, Uncount, Go, local
        <2>2. CountedBeams(c)' = CountedBeams(c) \ {b} /\ b \in CountedBeams(c)
            BY <1>1, <2>1 DEF CountedBeams, Counted
        <2>3. BegunBeams(c)' = BegunBeams(c)
            BY <1>1, <2>1 DEF BegunBeams, Begun
        <2>4. Cardinality(CountedBeams(c)') = Cardinality(CountedBeams(c)) - 1
            BY <1>2, <2>2, FS_RemoveElement
        <2> QED  BY <1>1, <2>1, <2>3, <2>4 DEF CountInv, CountsThreads, HoldsMutex, ThreadPlaces
    <1> QED  BY <1>4, <1>5, <1>6

\* A notification wakes the caller at most.
LEMMA NotifyKeepsCounts ==
    ASSUME NEW c, Callers = {c}, CountInv(c), IInv',
           \/ Notify(Joiner, "idle")
           \/ \E b \in Beams : Notify(<<c, b>>, "ended")
    PROVE  CountInv(c)'
    <1> USE OneCaller
    <1>1. /\ pc'[c] = pc[c] \/ (pc[c] = "asleep" /\ pc'[c] = "awake")
          /\ pc'[Joiner] = pc[Joiner] \/ (pc[Joiner] = "notify" /\ pc'[Joiner] = "idle")
          /\ \A b \in Beams : pc'[<<c, b>>] = pc[<<c, b>>]
                              \/ (pc[<<c, b>>] = "notify" /\ pc'[<<c, b>>] = "ended")
          /\ started' = started /\ count' = count /\ threads' = threads /\ mutex' = mutex
        <2>1. CASE Notify(Joiner, "idle")
            BY <2>1 DEF CountInv, IInv, Notify, local
        <2>2. ASSUME NEW b \in Beams, Notify(<<c, b>>, "ended")
              PROVE  /\ pc'[c] = pc[c] \/ (pc[c] = "asleep" /\ pc'[c] = "awake")
                     /\ pc'[Joiner] = pc[Joiner]
                     /\ pc[<<c, b>>] = "notify" /\ pc'[<<c, b>>] = "ended"
                     /\ \A k \in Beams : k # b => pc'[<<c, k>>] = pc[<<c, k>>]
                     /\ started' = started /\ count' = count
                     /\ threads' = threads /\ mutex' = mutex
            BY <2>2 DEF CountInv, IInv, Notify, local
        <2> QED  BY <2>1, <2>2
    <1>2. CountedBeams(c)' = CountedBeams(c)
        BY <1>1 DEF CountedBeams, Counted
    <1>3. BegunBeams(c)' = BegunBeams(c)
        BY <1>1 DEF BegunBeams, Begun
    <1>4. CountsThreads(c)'
        BY <1>1, <1>2, <1>3, SameCounts DEF Launched
    <1>5. HoldsMutex(c)'
        BY <1>1 DEF CountInv, HoldsMutex
    <1> QED  BY <1>1, <1>4, <1>5 DEF CountInv, ThreadPlaces

\* The joiner changes no thread; when it joins the threads it has the mutex, so
\* they are not being launched.
LEMMA JoinerKeepsCounts ==
    ASSUME NEW c, Callers = {c}, CountInv(c), IInv',
           Join \/ JoinLock \/ Reap(Joiner) \/ StopStep(Joiner)
    PROVE  CountInv(c)'
    <1> USE OneCaller
    <1>1. /\ pc'[c] = pc[c]
          /\ \A b \in Beams : pc'[<<c, b>>] = pc[<<c, b>>]
          /\ started' = started /\ count' = count
          /\ pc[c] = "launch" => threads' = threads
          /\ HoldsMutex(c)'
        <2> USE DEF CountInv, IInv, HoldsMutex, Go, local
        <2>1. CASE Join \/ JoinLock
            BY <2>1 DEF Join, JoinLock
        <2>2. CASE Reap(Joiner)
            BY <2>2 DEF Reap
        <2>3. CASE Spin(Joiner) \/ AskToStop(Joiner)
            BY <2>3 DEF Spin, AskToStop
        <2>4. CASE SetStop(Joiner)
            BY <2>4 DEF SetStop
        <2>5. ASSUME NEW from \in {"try", "retry", "wait"}, NEW got \in {"set", "reset"},
                     NEW failed \in {"spin", "wait"}, TryLock(Joiner, from, got, failed)
              PROVE  /\ pc'[c] = pc[c]
                     /\ \A b \in Beams : pc'[<<c, b>>] = pc[<<c, b>>]
                     /\ started' = started /\ count' = count /\ threads' = threads
                     /\ HoldsMutex(c)'
            BY <2>5 DEF TryLock
        <2> QED  BY <2>1, <2>2, <2>3, <2>4, <2>5 DEF StopStep
    <1>2. CountedBeams(c)' = CountedBeams(c)
        BY <1>1 DEF CountedBeams, Counted
    <1>3. BegunBeams(c)' = BegunBeams(c)
        BY <1>1 DEF BegunBeams, Begun
    <1>4. CountsThreads(c)'
        BY <1>1, <1>2, <1>3, SameCounts
    <1> QED  BY <1>1, <1>4 DEF CountInv

\* A thread that runs its pipeline, or stops it after an exception.
LEMMA PipelineKeepsCounts ==
    ASSUME NEW c, Callers = {c}, CountInv(c), IInv', NEW b \in Beams,
           \/ CheckExit(<<c, b>>) \/ Enter(<<c, b>>) \/ Decide(<<c, b>>)
           \/ PipelineRuns(<<c, b>>)
           \/ \E failed \in BOOLEAN : PipelineEnds(<<c, b>>, failed)
           \/ StopStep(<<c, b>>)
    PROVE  CountInv(c)'
    <1> USE OneCaller
    <1> DEFINE Inner == ThreadPlaces \ {"none", "new", "counted", "notify", "ended"}
    <1> DEFINE Goes == /\ pc[<<c, b>>] \in Inner
                       /\ \E to \in Inner : pc' = [pc EXCEPT ![<<c, b>>] = to]
                       /\ UNCHANGED <<started, count, threads, mutex>>
    <1>1. ASSUME CheckExit(<<c, b>>) \/ Enter(<<c, b>>) \/ Decide(<<c, b>>)
                 \/ PipelineRuns(<<c, b>>)
          PROVE  Goes
        BY <1>1 DEF CheckExit, Enter, Decide, PipelineRuns, Go, local, ThreadPlaces
    <1>2. ASSUME NEW failed \in BOOLEAN, PipelineEnds(<<c, b>>, failed)
          PROVE  Goes
        BY <1>2 DEF PipelineEnds, Go, local, ThreadPlaces
    <1>3. ASSUME NEW from \in {"try", "retry", "wait"}, NEW got \in {"set", "reset"},
                 NEW failed \in {"spin", "wait"}, TryLock(<<c, b>>, from, got, failed)
          PROVE  Goes
        BY <1>3 DEF TryLock, Go, local, ThreadPlaces
    <1>4. ASSUME Spin(<<c, b>>) \/ AskToStop(<<c, b>>)
          PROVE  Goes
        BY <1>4 DEF Spin, AskToStop, Go, local, ThreadPlaces
    <1>5. ASSUME SetStop(<<c, b>>)
          PROVE  Goes
        BY <1>5 DEF SetStop, ThreadPlaces
    <1>6. Goes
        BY <1>1, <1>2, <1>3, <1>4, <1>5 DEF StopStep
    <1> QED  BY <1>6, InnerStepKeepsCounts

\* At first there are no threads.
LEMMA InitCountInv ==
    ASSUME NEW c, Callers = {c}, Init
    PROVE  CountInv(c)
    <1> USE OneCaller
    <1>1. /\ \A b \in Beams : pc[<<c, b>>] = "none"
          /\ pc[c] = "idle" /\ pc[Joiner] = "idle"
          /\ started[c] = 0 /\ DOMAIN started = Callers /\ count = 0
        BY DEF Init
    <1>2. CountedBeams(c) = {}
        BY <1>1 DEF CountedBeams, Counted
    <1>3. CountsThreads(c)
        BY <1>1, <1>2, FS_EmptySet DEF CountsThreads, Launched
    <1> QED  BY <1>1, <1>3, InitIInv DEF CountInv, HoldsMutex, ThreadPlaces

\* The threads in _threads, the counters and the mutex, with one caller
THEOREM CountsInductive ==
    ASSUME NEW c, Callers = {c}
    PROVE  Spec => []CountInv(c)
    <1>1. CountInv(c) /\ [Next]_vars => CountInv(c)'
        <2> SUFFICES ASSUME CountInv(c), [Next]_vars PROVE CountInv(c)'
            OBVIOUS
        <2>1. IInv'
            BY StepKeepsIInv DEF CountInv
        <2>2. ASSUME Exec(c) \/ CallerStep(c) \/ SpuriousWakeup(c)
              PROVE  CountInv(c)'
            BY <2>1, <2>2, CallerKeepsCounts, EntryKeepsCounts, LaunchKeepsCounts
               DEF CallerStep
        <2>3. ASSUME NEW t \in Threads,
                     ThreadStep(t) \/ \E failed \in BOOLEAN : PipelineEnds(t, failed)
              PROVE  CountInv(c)'
            <3>1. PICK b \in Beams : t = <<c, b>>
                BY OneCaller
            <3> QED  BY <2>1, <2>3, <3>1, PipelineKeepsCounts, CountStepKeepsCounts,
                        NotifyKeepsCounts DEF ThreadStep
        <2>4. ASSUME NEW p \in Stoppers, StopStep(p)
              PROVE  CountInv(c)'
            <3>1. CASE p = Joiner
                BY <2>1, <2>4, <3>1, JoinerKeepsCounts
            <3>2. CASE p \in Threads
                <4>1. PICK b \in Beams : p = <<c, b>>
                    BY <3>2, OneCaller
                <4> QED  BY <2>1, <2>4, <4>1, PipelineKeepsCounts
            <3> QED  BY <3>1, <3>2 DEF Stoppers
        <2>5. ASSUME Join \/ JoinerStep
              PROVE  CountInv(c)'
            BY <2>1, <2>5, JoinerKeepsCounts, NotifyKeepsCounts DEF JoinerStep
        <2>6. CASE UNCHANGED vars
            BY <2>6 DEF vars, local, CountInv, IInv, ThreadsHaveTheirCall, CountsThreads,
                        CountedBeams, Counted, BegunBeams, Begun, HoldsMutex
        <2> QED  BY <2>2, <2>3, <2>4, <2>5, <2>6 DEF Next
    <1> QED  BY InitCountInv, <1>1, PTL DEF Spec

\* CountersTellAnEnd, with one caller: whatever the order in which the threads come and
\* go, the two counters, seen at one moment, are not mistaken about a beam's end.  The
\* wait may be, as it does not see them at one moment.
THEOREM CountersAreRight ==
    ASSUME NEW c, Callers = {c}
    PROVE  Spec => []CountersTellAnEnd
    <1>1. CountInv(c) => CountersTellAnEnd
        BY AnEndIsTold DEF CountersTellAnEnd
    <1> QED  BY CountsInductive, <1>1, PTL

\* exec() waits for its threads, with _mutex held, while a beam runs that does not end
\* by itself.
Blocked(c, b) ==
    /\ pc[c] = "reap"
    /\ pc[<<c, b>>] = "running" /\ pipeline[b] = "on" /\ b \in endless

StaysBlocked ==
    \A c \in Callers, b \in Beams :
        Blocked(c, b) => Blocked(c, b)' /\ (pc[Joiner] = "lock" => pc'[Joiner] = "lock")

\* From then on exec() does not return, the beam is not asked to stop, and a join() that
\* is called waits for _mutex.
BlockedForEver == [][StaysBlocked]_vars

\* join(), which would stop the beam, needs the mutex that exec() holds until the beam
\* has ended.
THEOREM ReapBlocksJoin ==
    ASSUME NEW c, Callers = {c}
    PROVE  Spec => BlockedForEver
    <1>1. CountInv(c) /\ [Next]_vars => [StaysBlocked]_vars
        <2> SUFFICES ASSUME CountInv(c), Next, NEW b \in Beams, Blocked(c, b)
                     PROVE  Blocked(c, b)' /\ (pc[Joiner] = "lock" => pc'[Joiner] = "lock")
            BY DEF StaysBlocked
        <2> DEFINE Stays == /\ pc'[c] = pc[c] /\ pc'[<<c, b>>] = pc[<<c, b>>]
                            /\ pipeline'[b] = pipeline[b] /\ endless' = endless
                            /\ pc[Joiner] = "lock" => pc'[Joiner] = "lock"
        <2> USE OneCaller
        <2>1. pc \in [Callers \cup {Joiner} \cup Threads -> Locations]
            BY DEF CountInv, IInv
        <2>2. /\ pc[c] = "reap" /\ pc[<<c, b>>] = "running" /\ pipeline[b] = "on"
              /\ b \in endless
            BY DEF Blocked
        <2>3. <<c, b>> \in threads
            BY <2>2 DEF CountInv, IInv, ThreadsHaveTheirCall
        <2>4. /\ mutex = c
              /\ pc[Joiner] \notin {"reap", "try", "set", "reset", "spin", "retry", "ask", "wait"}
            BY <2>2 DEF CountInv, HoldsMutex
        <2>5. ~Exec(c) /\ ~CallerStep(c) /\ ~SpuriousWakeup(c)
            BY <2>2, <2>3 DEF Exec, CallerStep, Lock, Launch, TestRunning, TestStarted, Block, Relock, Reap,
                              SpuriousWakeup, Go
        <2>6. ASSUME NEW k \in Beams,
                     ThreadStep(<<c, k>>) \/ \E failed \in BOOLEAN : PipelineEnds(<<c, k>>, failed)
              PROVE  Stays
            <3>1. CASE Notify(<<c, k>>, "ended")
                <4>1. {d \in Callers : pc[d] = "asleep"} = {}
                    BY <2>2
                <4>2. pc[<<c, k>>] = "notify" /\ pc' = [pc EXCEPT ![<<c, k>>] = "ended"]
                    BY <3>1, <4>1 DEF Notify
                <4>3. k # b
                    BY <2>2, <4>2
                <4> QED  BY <2>1, <2>2, <3>1, <4>2, <4>3 DEF Notify, local, beams
            <3>2. CASE Count(<<c, k>>) \/ Start(<<c, k>>) \/ CheckExit(<<c, k>>)
                       \/ Enter(<<c, k>>) \/ Decide(<<c, k>>) \/ Uncount(<<c, k>>)
                <4>1. k # b
                    BY <2>2, <3>2 DEF Count, Start, CheckExit, Enter, Decide, Uncount, Go
                <4> QED  BY <2>1, <2>2, <3>2, <4>1 DEF Count, Start, CheckExit, Enter, Decide,
                                                    Uncount, Go, local, beams
            <3>3. CASE PipelineRuns(<<c, k>>)
                <4>1. k # b
                    BY <2>2, <3>3 DEF PipelineRuns, Go
                <4> QED  BY <2>1, <2>2, <3>3, <4>1 DEF PipelineRuns, Go, local
            <3>4. ASSUME NEW failed \in BOOLEAN, PipelineEnds(<<c, k>>, failed)
                  PROVE  Stays
                <4>1. k # b
                    BY <2>2, <3>4 DEF PipelineEnds
                <4> QED  BY <2>1, <2>2, <3>4, <4>1 DEF PipelineEnds, Go, local
            <3> QED  BY <2>6, <3>1, <3>2, <3>3, <3>4 DEF ThreadStep
        <2>7. ASSUME NEW p \in Stoppers, StopStep(p)  PROVE Stays
            <3>1. pc[p] \in Stopping
                BY <2>7 DEF StopStep, TryLock, Spin, AskToStop, SetStop, Go, Stopping
            <3>2. p # Joiner
                BY <2>4, <3>1 DEF Stopping
            <3>3. PICK k \in Beams : p = <<c, k>>
                BY <3>2 DEF Stoppers
            <3>4. k # b /\ Target(p) = k
                BY <2>2, <3>1, <3>2, <3>3 DEF Stopping, Target
            <3> DEFINE Elsewhere == /\ \A q \in Callers \cup {Joiner} \cup Threads :
                                           q # <<c, k>> => pc'[q] = pc[q]
                                    /\ pipeline'[b] = pipeline[b] /\ endless' = endless
            <3>5. ASSUME NEW from \in {"try", "retry", "wait"}, NEW got \in {"set", "reset"},
                         NEW failed \in {"spin", "wait"}, TryLock(p, from, got, failed)
                  PROVE  Elsewhere
                BY <2>1, <3>3, <3>5 DEF TryLock, Go, local
            <3>6. ASSUME Spin(p)  PROVE Elsewhere
                BY <2>1, <3>3, <3>6 DEF Spin, Go, local, beams
            <3>7. ASSUME AskToStop(p)  PROVE Elsewhere
                BY <2>1, <3>3, <3>4, <3>7 DEF AskToStop, Go, local
            <3>8. ASSUME SetStop(p)  PROVE Elsewhere
                BY <2>1, <3>3, <3>8 DEF SetStop
            <3>9. Elsewhere
                BY <2>7, <3>5, <3>6, <3>7, <3>8 DEF StopStep
            <3> QED  BY <2>1, <3>4, <3>9
        <2>8. CASE Join \/ JoinerStep
            <3>1. ~JoinLock /\ ~Reap(Joiner)
                BY <2>4 DEF JoinLock, Reap, Go
            <3>2. CASE Join
                BY <2>1, <2>2, <3>2 DEF Join, Go, beams, Blocked
            <3>3. CASE Notify(Joiner, "idle")
                <4>1. {d \in Callers : pc[d] = "asleep"} = {}
                    BY <2>2
                <4>2. pc[Joiner] = "notify" /\ pc' = [pc EXCEPT ![Joiner] = "idle"]
                    BY <3>3, <4>1 DEF Notify
                <4> QED  BY <2>1, <2>2, <3>3, <4>2 DEF Notify, local, beams, Blocked
            <3> QED  BY <2>8, <3>1, <3>2, <3>3 DEF JoinerStep
        <2>9. Stays => Blocked(c, b)' /\ (pc[Joiner] = "lock" => pc'[Joiner] = "lock")
            BY <2>2 DEF Blocked
        <2> HIDE DEF Stays
        <2>10. ASSUME NEW t \in Threads,
                      ThreadStep(t) \/ \E failed \in BOOLEAN : PipelineEnds(t, failed)
               PROVE  Stays
            <3>1. PICK k \in Beams : t = <<c, k>>
                OBVIOUS
            <3> QED  BY <2>6, <2>10, <3>1
        <2>11. Stays \/ Join \/ JoinerStep
            BY <2>5, <2>7, <2>10 DEF Next
        <2> QED  BY <2>8, <2>9, <2>11
    <1> QED  BY CountsInductive, <1>1, PTL DEF Spec, BlockedForEver

-------------------------------------------------------------------------------
(* The types, with one caller *)

\* The types of all but pc and the count; the joiner stops the beams one after
\* the other.
TypeInv ==
    /\ started \in [Callers -> 0 .. N]
    /\ target \in 0 .. N + 1
    /\ execs \in 0 .. MaxCalls /\ joins \in 0 .. MaxCalls
    /\ mutex \in Callers \cup {Joiner, None}
    /\ exit \in BOOLEAN
    /\ threads \subseteq Threads
    /\ owner \in [Beams -> Threads \cup {Joiner, None}]
    /\ stop \in [Beams -> BOOLEAN]
    /\ pipeline \in [Beams -> {"off", "on", "stopping"}]
    /\ endless \subseteq Beams
    /\ pc[Joiner] \in {"try", "set", "reset", "spin", "retry", "ask", "wait"} =>
           target \in 1 .. N

\* The counters are bounded by the number of beams.
LEMMA CountersBounded ==
    ASSUME NEW c, Callers = {c}, CountInv(c)
    PROVE  /\ count \in 0 .. Cardinality(Threads)
           /\ pc[c] \in Launched => started[c] \in 0 .. N
    <1>1. Cardinality(Threads) = N
        <2>1. IsFiniteSet({c}) /\ Cardinality({c}) = 1
            BY FS_Singleton
        <2>2. Cardinality({c} \X Beams) = Cardinality({c}) * Cardinality(Beams)
            BY <2>1, BeamsFinite, FS_Product
        <2>3. Threads = {c} \X Beams
            BY DEF Threads
        <2>4. Cardinality(Threads) = 1 * N
            BY <2>1, <2>2, <2>3, BeamsFinite
        <2> QED  BY <2>4, ConstantsAssumption
    <1>2. /\ CountedBeams(c) \in SUBSET Beams
          /\ BegunBeams(c) \in SUBSET Beams
        BY DEF CountedBeams, BegunBeams
    <1>3. /\ Cardinality(CountedBeams(c)) \in 0 .. N
          /\ Cardinality(BegunBeams(c)) \in 0 .. N
        BY <1>2, BeamsFinite, FS_Subset, ConstantsAssumption
    <1> QED  BY <1>1, <1>3 DEF CountInv, CountsThreads

LEMMA InitTypeInv ==
    ASSUME NEW c, Callers = {c}, Init
    PROVE  TypeInv
    <1> USE ConstantsAssumption, OneCaller
    <1>1. pc[Joiner] = "idle"
        BY DEF Init
    <1>2. /\ started \in [Callers -> 0 .. N]
          /\ owner \in [Beams -> Threads \cup {Joiner, None}]
          /\ stop \in [Beams -> BOOLEAN]
          /\ pipeline \in [Beams -> {"off", "on", "stopping"}]
        BY DEF Init
    <1>3. target \in 0 .. N + 1 /\ execs \in 0 .. MaxCalls /\ joins \in 0 .. MaxCalls
        BY DEF Init
    <1> QED  BY <1>1, <1>2, <1>3 DEF Init, TypeInv

\* Steps of exec()
LEMMA CallerKeepsTypes ==
    ASSUME NEW c, Callers = {c}, TypeInv, CountInv(c),
           Exec(c) \/ CallerStep(c) \/ SpuriousWakeup(c)
    PROVE  TypeInv'
    <1> USE ConstantsAssumption, OneCaller
    <1>1. pc \in [Callers \cup {Joiner} \cup Threads -> Locations]
        BY DEF CountInv, IInv
    <1>2. CASE Exec(c)
        BY <1>1, <1>2 DEF Exec, Go, beams, TypeInv
    <1>3. CASE Launch(c)
        <2>1. PICK b \in Beams :
                  /\ pc' = [pc EXCEPT ![<<c, b>>] = "new",
                                      ![c] = IF b = N THEN "test" ELSE "launch"]
                  /\ threads' = threads \cup {<<c, b>>}
                  /\ UNCHANGED <<local, mutex, exit, count, beams>>
            BY <1>3 DEF Launch
        <2>2. pc'[Joiner] = pc[Joiner]
            BY <1>1, <2>1
        <2>3. threads' \subseteq Threads
            BY <2>1 DEF TypeInv
        <2> QED  BY <2>1, <2>2, <2>3 DEF local, beams, TypeInv
    <1>4. CASE Lock(c) \/ TestRunning(c) \/ TestStarted(c) \/ Block(c) \/ Relock(c) \/ Reap(c) \/ SpuriousWakeup(c)
        <2>1. /\ pc'[Joiner] = pc[Joiner]
              /\ mutex' \in {mutex, c, None} /\ exit' \in {exit, FALSE}
              /\ threads' \in {threads, {}}
              /\ UNCHANGED <<local, beams>>
            BY <1>1, <1>4 DEF Lock, TestRunning, TestStarted, Block, Relock, Reap, SpuriousWakeup, TakeMutex, Go,
                              local, beams
        <2> QED  BY <2>1 DEF local, beams, TypeInv
    <1> QED  BY <1>2, <1>3, <1>4 DEF CallerStep

\* Steps of a beam's thread
LEMMA ThreadKeepsTypes ==
    ASSUME NEW c, Callers = {c}, TypeInv, CountInv(c), CountInv(c)', NEW t \in Threads,
           ThreadStep(t) \/ \E failed \in BOOLEAN : PipelineEnds(t, failed)
    PROVE  TypeInv'
    <1> USE ConstantsAssumption, OneCaller
    <1>1. pc \in [Callers \cup {Joiner} \cup Threads -> Locations]
        BY DEF CountInv, IInv
    <1>2. t[1] = c /\ t[2] \in Beams /\ t # Joiner
        BY DEF Threads
    <1>3. CASE Start(t)
        <2>1. pc[c] \in Launched /\ pc'[c] = pc[c]
            BY <1>2, <1>3 DEF Start, Go, CountInv, IInv, ThreadsHaveTheirCall
        <2>2. started'[c] \in 0 .. N
            <3>1. BegunBeams(c)' \in SUBSET Beams
                BY DEF BegunBeams
            <3>2. Cardinality(BegunBeams(c)') \in 0 .. N
                BY <3>1, BeamsFinite, FS_Subset
            <3> QED  BY <2>1, <3>2 DEF CountInv, CountsThreads
        <2> QED  BY <1>1, <1>2, <1>3, <2>2 DEF Start, Go, beams, TypeInv
    <1>4. CASE Notify(t, "ended")
        BY <1>1, <1>2, <1>4 DEF Notify, local, beams, TypeInv
    <1>5. CASE Count(t) \/ CheckExit(t) \/ Uncount(t)
        BY <1>1, <1>2, <1>5 DEF Count, CheckExit, Uncount, Go, local, beams, TypeInv
    <1>6. CASE Enter(t) \/ Decide(t) \/ PipelineRuns(t)
        BY <1>1, <1>2, <1>6 DEF Enter, Decide, PipelineRuns, Go, local, beams, TypeInv
    <1>7. ASSUME NEW failed \in BOOLEAN, PipelineEnds(t, failed)
          PROVE  TypeInv'
        BY <1>1, <1>2, <1>7 DEF PipelineEnds, Go, local, beams, TypeInv
    <1> QED  BY <1>3, <1>4, <1>5, <1>6, <1>7 DEF ThreadStep

\* Steps of stop(): the joiner's target is a beam, and goes up.
LEMMA StopKeepsTypes ==
    ASSUME NEW c, Callers = {c}, TypeInv, CountInv(c), NEW p \in Stoppers, StopStep(p)
    PROVE  TypeInv'
    <1> USE ConstantsAssumption, OneCaller
    <1>1. pc \in [Callers \cup {Joiner} \cup Threads -> Locations]
        BY DEF CountInv, IInv
    <1>2. p = Joiner \/ (p \in Threads /\ p # Joiner /\ p[2] \in Beams)
        BY DEF Stoppers, Threads
    <1>3. ASSUME NEW from \in {"try", "retry", "wait"}, NEW got \in {"set", "reset"},
                 NEW failed \in {"spin", "wait"}, TryLock(p, from, got, failed)
          PROVE  TypeInv'
        BY <1>1, <1>2, <1>3 DEF TryLock, Go, local, beams, TypeInv
    <1>4. CASE Spin(p)
        BY <1>1, <1>2, <1>4 DEF Spin, Go, local, beams, TypeInv
    <1>5. CASE AskToStop(p)
        BY <1>1, <1>2, <1>5 DEF AskToStop, Go, local, beams, TypeInv
    <1>6. CASE SetStop(p)
        <2>1. Target(p) \in Beams
            BY <1>2, <1>6 DEF SetStop, Target, TypeInv, Beams
        <2>2. target' \in 0 .. N + 1
              /\ pc'[Joiner] \in {"try", "set", "reset", "spin", "retry", "ask", "wait"} =>
                     target' \in 1 .. N
            <3>1. CASE p = Joiner
                <4>1. target \in 1 .. N /\ target' = target + 1
                    BY <1>6, <3>1 DEF SetStop, TypeInv
                <4>2. pc'[Joiner] = IF target = N THEN "reap" ELSE "try"
                    BY <1>1, <1>6, <3>1 DEF SetStop
                <4> QED  BY <4>1, <4>2
            <3>2. CASE p # Joiner
                BY <1>1, <1>2, <1>6, <3>2 DEF SetStop, TypeInv
            <3> QED  BY <3>1, <3>2
        <2>3. /\ owner' \in [Beams -> Threads \cup {Joiner, None}]
              /\ stop' \in [Beams -> BOOLEAN]
            BY <1>6 DEF SetStop, TypeInv
        <2> QED  BY <1>6, <2>2, <2>3 DEF SetStop, TypeInv
    <1> QED  BY <1>3, <1>4, <1>5, <1>6 DEF StopStep

\* Steps of join()
LEMMA JoinerKeepsTypes ==
    ASSUME NEW c, Callers = {c}, TypeInv, CountInv(c), Join \/ JoinerStep
    PROVE  TypeInv'
    <1> USE ConstantsAssumption, OneCaller
    <1>1. pc \in [Callers \cup {Joiner} \cup Threads -> Locations]
        BY DEF CountInv, IInv
    <1>2. CASE Join \/ JoinLock
        <2>1. CASE Join
            BY <1>1, <2>1 DEF Join, Go, beams, TypeInv
        <2>2. CASE JoinLock
            <3>1. target' = 1 /\ mutex' \in {None, Joiner} /\ exit' = TRUE
                  /\ UNCHANGED <<started, endless, execs, joins, threads, beams>>
                BY <2>2 DEF JoinLock
            <3> QED  BY <3>1 DEF beams, TypeInv
        <2> QED  BY <1>2, <2>1, <2>2
    <1>3. CASE Reap(Joiner)
        BY <1>1, <1>3 DEF Reap, Go, local, beams, TypeInv
    <1>4. CASE Notify(Joiner, "idle")
        BY <1>1, <1>4 DEF Notify, local, beams, TypeInv
    <1> QED  BY <1>2, <1>3, <1>4 DEF JoinerStep

\* Every variable stays in its type, with one caller: the counters never exceed
\* the number of beams nor fall below 0.
THEOREM TypeCorrect ==
    ASSUME NEW c, Callers = {c}
    PROVE  Spec => []TypeOK
    <1>1. Init => TypeInv
        BY InitTypeInv
    <1>2. TypeInv /\ CountInv(c) /\ CountInv(c)' /\ [Next]_vars => TypeInv'
        <2> SUFFICES ASSUME TypeInv, CountInv(c), CountInv(c)', [Next]_vars
                     PROVE  TypeInv'
            OBVIOUS
        <2>1. CASE Next
            BY <2>1, CallerKeepsTypes, ThreadKeepsTypes, StopKeepsTypes, JoinerKeepsTypes
               DEF Next
        <2>2. CASE UNCHANGED vars
            BY <2>2 DEF vars, local, beams, TypeInv
        <2> QED  BY <2>1, <2>2
    <1>3. TypeInv /\ CountInv(c) => TypeOK
        BY CountersBounded DEF TypeInv, CountInv, IInv, TypeOK
    <1> QED  BY CountsInductive, <1>1, <1>2, <1>3, PTL DEF Spec
===============================================================================
