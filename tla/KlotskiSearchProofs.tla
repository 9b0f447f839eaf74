-------------------------- MODULE KlotskiSearchProofs --------------------------
(***************************************************************************)
(* Theorems about KlotskiSearch, for every number of pool threads, bands,  *)
(* DM ranges and blocks under way at the same time.  What the tasks do to  *)
(* the data is proved for the runs in which no two writes of the word of   *)
(* flags overlap (Racy = FALSE), as the others break it; the types, and    *)
(* that somebody can go on, hold in all of them.                           *)
(***************************************************************************)
EXTENDS KlotskiSearch, TLAPS

InDdtr == {"clear", "add", "ready", "finish", "integrate", "downsample", "swap"}
PoolPlaces == InDdtr \cup {"idle", "lock", "submit", "search", "list"}

\* The ranges of the variables of the band threads and of dedispersion; what
\* the trials hold is not needed here.
Shape ==
    /\ word \in [Jobs -> BOOLEAN]
    /\ njobs \in 0 .. NJobs
    /\ DOMAIN copy = Jobs \cup {Dispatcher}
    /\ jpc \in [Jobs -> {"none", "wait", "run", "reset", "write"}]
    /\ writing \in 0 .. NJobs
    /\ pc \in [Pool -> PoolPlaces]
    /\ mutex \in Pool \cup {NoThread}
    /\ range \in Ranges /\ band \in Bands
    /\ DOMAIN input = Bands
    /\ DOMAIN sub = Bands

\* One thread at most writes a flag, and nobody has changed the word since it
\* read it.
OneWriter ==
    /\ writing # 0 => copy[Dispatcher] = word
    /\ \A j \in Jobs : jpc[j] = "write" =>
           /\ writing = 0
           /\ copy[j] = word
           /\ \A i \in Jobs \ {j} : jpc[i] # "write"

\* The threads that exist; one that is at work or lowers its flag has it up.
Threads ==
    \A j \in Jobs :
        /\ jpc[j] = "none" <=> j > njobs
        /\ jpc[j] = "none" => ~word[j]
        /\ jpc[j] \in {"run", "reset", "write"} => word[j]

\* A band before its flag is raised, while it is up, and after it was lowered.
Rests(j) == jpc[j] \in {"none", "wait"} /\ ~word[j]
Fresh(j) == Rests(j) /\ sub[j] = <<>>
Busy(j) ==
    /\ word[j]
    /\ jpc[j] = "run" => input[j] = area
    /\ sub[j] = IF jpc[j] \in {"wait", "run"} THEN <<>> ELSE <<area>>
Done(j) == Rests(j) /\ sub[j] = <<area>>

\* Who holds the mutex is in Ddtr::operator(), and nobody else is.
HolderInside == \A t \in Pool : pc[t] \in InDdtr <=> mutex = t

\* Where the holder of the mutex is.
Place == IF mutex = NoThread THEN "idle" ELSE pc[mutex]

\* Where the bands are when the holder of the mutex is at a place of the loops
\* over the bands.
BandsAt(place) ==
    /\ place = "add" => njobs = band - 1 /\ writing = 0 /\ \A j \in Jobs : Fresh(j)
    /\ place # "add" => njobs \in {0, NJobs}
    /\ place = "ready" =>
           /\ writing \in {0, band}
           /\ \A j \in Jobs : IF j >= band THEN Fresh(j) ELSE Busy(j) \/ Done(j)
    /\ place = "finish" =>
           /\ writing = 0
           /\ \A j \in Jobs : IF j < band THEN Done(j) ELSE Busy(j) \/ Done(j)
    /\ place = "integrate" => writing = 0 /\ \A j \in Jobs : Done(j)
    /\ place \in {"ready", "finish", "integrate"} => njobs = NJobs
    /\ place \in {"clear", "add", "ready", "finish", "integrate", "downsample"} =>
           area = <<block, range>>
    /\ place \notin {"add", "ready", "finish", "integrate"} =>
           writing = 0 /\ \A j \in Jobs : Rests(j)

\* The inductive invariant
BandsInv ==
    /\ Shape
    /\ OneWriter
    /\ Threads
    /\ HolderInside
    /\ BandsAt(Place)

\* There are no threads, and nothing is raised.
LEMMA InitBandsInv == Init => BandsInv
    <1> SUFFICES ASSUME Init  PROVE  BandsInv
        OBVIOUS
    <1> USE FlagsAssumption, ConstantsAssumption
        DEF Init, FlagsInit, Jobs, Bands, Ranges, Dispatcher
    <1>1. Shape
        BY DEF Shape, PoolPlaces
    <1>2. OneWriter /\ Threads
        BY DEF OneWriter, Threads
    <1>3. HolderInside
        BY DEF HolderInside, InDdtr
    <1>4. BandsAt(Place)
        BY DEF BandsAt, Place, Rests
    <1> QED  BY <1>1, <1>2, <1>3, <1>4 DEF BandsInv

\* A thread in Ddtr::operator() is the holder of the mutex.
LEMMA Holder ==
    ASSUME BandsInv, NEW t \in Pool, pc[t] \in InDdtr
    PROVE  mutex = t /\ Place = pc[t]
    BY ConstantsAssumption DEF BandsInv, HolderInside, Place

\* Raised flags are found where bands are raised or waited for.
LEMMA RaisedWhere ==
    ASSUME BandsInv, NEW b \in Jobs, word[b]
    PROVE  Place \in {"ready", "finish"} /\ Busy(b)
    BY DEF BandsInv, BandsAt, Rests, Fresh, Done, Jobs, Shape, Ranges, Bands

-------------------------------------------------------------------------------
(* The steps of the bands' threads *)

LEMMA JobBeginsKeeps ==
    ASSUME BandsInv, NEW b \in Jobs, JobBegins(b)
    PROVE  BandsInv'
    <1> USE DEF JobBegins, Wake, flagVars, poolVars, ddtrVars, spdtVars
    <1>1. word[b] /\ Place \in {"ready", "finish"} /\ Busy(b)
        BY RaisedWhere
    <1>2. area = <<block, range>>
        BY <1>1 DEF BandsInv, BandsAt
    <1>3. Shape'
        BY DEF BandsInv, Shape, Bands
    <1>4. OneWriter' /\ Threads'
        BY <1>1 DEF BandsInv, Shape, OneWriter, Threads
    <1>5. HolderInside' /\ Place' = Place
        BY DEF BandsInv, HolderInside, Place
    <1>6. Busy(b)'
        BY <1>1, <1>2 DEF BandsInv, Shape, Busy, Bands
    <1>7. \A j \in Jobs : j # b => Busy(j)' = Busy(j) /\ Done(j)' = Done(j)
                                   /\ Fresh(j)' = Fresh(j) /\ Rests(j)' = Rests(j)
        BY DEF BandsInv, Shape, Busy, Done, Fresh, Rests
    <1>8. ~Done(b) /\ ~Fresh(b)
        BY <1>1 DEF Done, Fresh, Rests
    <1>9. BandsAt(Place)'
        BY <1>1, <1>5, <1>6, <1>7, <1>8 DEF BandsInv, BandsAt
    <1> QED  BY <1>3, <1>4, <1>5, <1>9 DEF BandsInv

LEMMA JobEndsKeeps ==
    ASSUME BandsInv, NEW b \in Jobs, JobEnds(b)
    PROVE  BandsInv'
    <1> USE DEF JobEnds, JobDone, flagVars, poolVars, ddtrVars, spdtVars
    <1>0. word[b]
        BY DEF BandsInv, Threads
    <1>1. Place \in {"ready", "finish"} /\ Busy(b)
        BY <1>0, RaisedWhere
    <1>2. sub[b] = <<>> /\ input[b] = area
        BY <1>1 DEF Busy
    <1>3. Shape'
        BY DEF BandsInv, Shape, Bands
    <1>4. OneWriter' /\ Threads'
        BY <1>0 DEF BandsInv, Shape, OneWriter, Threads
    <1>5. HolderInside' /\ Place' = Place
        BY DEF BandsInv, HolderInside, Place
    <1>6. Append(<<>>, area) = <<area>>
        OBVIOUS
    <1>6a. sub'[b] = <<area>>
        BY <1>2, <1>6 DEF BandsInv, Shape, Bands
    <1>6b. Busy(b)'
        BY <1>0, <1>6a DEF BandsInv, Shape, Busy
    <1>7. \A j \in Jobs : j # b => Busy(j)' = Busy(j) /\ Done(j)' = Done(j)
                                   /\ Fresh(j)' = Fresh(j) /\ Rests(j)' = Rests(j)
        BY DEF BandsInv, Shape, Busy, Done, Fresh, Rests, Bands
    <1>8. ~Done(b) /\ ~Fresh(b)
        BY <1>0 DEF Done, Fresh, Rests
    <1>9. BandsAt(Place)'
        BY <1>1, <1>5, <1>6b, <1>7, <1>8 DEF BandsInv, BandsAt
    <1> QED  BY <1>3, <1>4, <1>5, <1>9 DEF BandsInv

\* The thread reads the word while nobody writes, and lowers its flag in it.
LEMMA JobResetsKeeps ==
    ASSUME BandsInv, Racy = FALSE, NEW b \in Jobs, JobResets(b)
    PROVE  BandsInv'
    <1> USE DEF JobResets, flagVars, poolVars, ddtrVars, spdtVars
    <1>0. jpc[b] \in {"reset", "write"} /\ word[b]
        BY DEF BandsInv, Threads, ResetRead, ResetWrite
    <1>1. Place \in {"ready", "finish"} /\ Busy(b) /\ sub[b] = <<area>>
        BY <1>0, RaisedWhere DEF Busy
    <1>2. HolderInside' /\ Place' = Place
        BY DEF BandsInv, HolderInside, Place
    <1>3. ~Done(b) /\ ~Fresh(b)
        BY <1>0 DEF Done, Fresh, Rests
    <1>4. CASE ResetRead(b)
        <2> USE <1>4 DEF ResetRead, MayRead, Writers, Dispatcher
        <2>1. Shape'
            BY DEF BandsInv, Shape
        <2>2. writing = 0 /\ \A j \in Jobs : jpc[j] # "write"
            OBVIOUS
        <2>3. OneWriter'
            BY <2>2 DEF BandsInv, Shape, OneWriter
        <2>4. Threads'
            BY <1>0 DEF BandsInv, Shape, Threads
        <2>5. Busy(b)'
            BY <1>0, <1>1 DEF BandsInv, Shape, Busy
        <2>6. \A j \in Jobs : j # b => Busy(j)' = Busy(j) /\ Done(j)' = Done(j)
                                       /\ Fresh(j)' = Fresh(j) /\ Rests(j)' = Rests(j)
            BY DEF BandsInv, Shape, Busy, Done, Fresh, Rests
        <2>7. BandsAt(Place)'
            BY <1>1, <1>2, <1>3, <2>5, <2>6 DEF BandsInv, BandsAt
        <2> QED  BY <1>2, <2>1, <2>3, <2>4, <2>7 DEF BandsInv
    <1>5. CASE ResetWrite(b)
        <2> USE <1>5 DEF ResetWrite
        <2>1. copy[b] = word /\ writing = 0 /\ \A j \in Jobs \ {b} : jpc[j] # "write"
            BY DEF BandsInv, OneWriter
        <2>2. word' = [word EXCEPT ![b] = FALSE]
            BY <2>1
        <2>3. Shape'
            BY <2>2 DEF BandsInv, Shape
        <2>4. OneWriter'
            BY <2>1 DEF BandsInv, Shape, OneWriter
        <2>5. Threads'
            BY <1>0, <2>2 DEF BandsInv, Shape, Threads
        <2>6. Done(b)'
            BY <1>1, <2>2 DEF BandsInv, Shape, Done, Rests
        <2>7. \A j \in Jobs : j # b => Busy(j)' = Busy(j) /\ Done(j)' = Done(j)
                                       /\ Fresh(j)' = Fresh(j) /\ Rests(j)' = Rests(j)
            BY <2>2 DEF BandsInv, Shape, Busy, Done, Fresh, Rests
        <2>8. BandsAt(Place)'
            BY <1>1, <1>2, <1>3, <2>6, <2>7 DEF BandsInv, BandsAt
        <2> QED  BY <1>2, <2>3, <2>4, <2>5, <2>8 DEF BandsInv
    <1> QED  BY <1>4, <1>5

-------------------------------------------------------------------------------
(* The steps of the pool threads *)

\* What changes neither the bands nor anybody's place.
LEMMA OutsideKeeps ==
    ASSUME BandsInv, UNCHANGED <<flagVars, mutex, ddtrVars, input>>,
           \/ UNCHANGED pc
           \/ \E t \in Pool, from, to \in PoolPlaces \ InDdtr : Go(t, from, to)
    PROVE  BandsInv'
    <1> USE DEF flagVars, ddtrVars
    <1>1. pc' \in [Pool -> PoolPlaces]
          /\ \A u \in Pool : pc'[u] # pc[u] => pc[u] \notin InDdtr /\ pc'[u] \notin InDdtr
        BY DEF BandsInv, Shape, Go
    <1>2. HolderInside'
        BY <1>1 DEF BandsInv, HolderInside
    <1>3. Place' = Place
        BY <1>1, <1>2 DEF BandsInv, HolderInside, Place, Shape
    <1>4. Shape' /\ OneWriter' /\ Threads'
        BY <1>1 DEF BandsInv, Shape, OneWriter, Threads
    <1>5. BandsAt(Place)'
        BY <1>3 DEF BandsInv, BandsAt, Rests, Fresh, Busy, Done
    <1> QED  BY <1>2, <1>4, <1>5 DEF BandsInv

\* Another place in Ddtr::operator() for the holder
LEMMA GoInside ==
    ASSUME BandsInv, NEW t \in Pool, NEW from \in InDdtr, NEW to \in InDdtr, Go(t, from, to),
           mutex' = mutex
    PROVE  /\ mutex = t /\ Place = from /\ Place' = to
           /\ HolderInside' /\ pc' \in [Pool -> PoolPlaces]
    <1>1. pc[t] = from /\ pc' = [pc EXCEPT ![t] = to]
        BY DEF Go
    <1>2. mutex = t /\ Place = from
        BY <1>1, Holder
    <1>3. pc' \in [Pool -> PoolPlaces]
        BY <1>1 DEF BandsInv, Shape, PoolPlaces
    <1>4. Place' = to
        BY <1>1, <1>2, ConstantsAssumption DEF BandsInv, Shape, Place
    <1>5. HolderInside'
        BY <1>1, <1>2 DEF BandsInv, Shape, HolderInside
    <1> QED  BY <1>2, <1>3, <1>4, <1>5

LEMMA StartDdtrKeeps ==
    ASSUME BandsInv, NEW t \in Pool, StartDdtr(t)
    PROVE  BandsInv'
    <1> USE DEF StartDdtr, Go, flagVars
    <1>1. Place = "idle" /\ mutex = NoThread
        BY DEF Place
    <1>2. Shape'
        BY ConstantsAssumption DEF BandsInv, Shape, PoolPlaces, InDdtr, Ranges
    <1>3. OneWriter' /\ Threads'
        BY DEF BandsInv, OneWriter, Threads
    <1>4. Place' = "clear"
        BY ConstantsAssumption DEF BandsInv, Shape, Place
    <1>5. HolderInside'
        BY <1>1, ConstantsAssumption DEF BandsInv, Shape, HolderInside, InDdtr
    <1>6. BandsAt(Place)'
        BY <1>1, <1>4 DEF BandsInv, BandsAt, Rests
    <1> QED  BY <1>2, <1>3, <1>5, <1>6 DEF BandsInv

LEMMA ClearKeeps ==
    ASSUME BandsInv, NEW t \in Pool, Clear(t)
    PROVE  BandsInv'
    <1> DEFINE to == IF njobs = 0 THEN "add" ELSE "ready"
    <1> USE FlagsAssumption DEF Clear, flagVars, poolVars
    <1>0. "clear" \in InDdtr /\ to \in InDdtr /\ mutex' = mutex
        BY DEF InDdtr
    <1>1. /\ mutex = t /\ Place = "clear" /\ Place' = to
          /\ HolderInside' /\ pc' \in [Pool -> PoolPlaces]
        BY <1>0, GoInside
    <1>2. Shape'
        BY <1>1 DEF BandsInv, Shape, Bands, Jobs
    <1>3. OneWriter' /\ Threads'
        BY DEF BandsInv, OneWriter, Threads
    <1>4. writing = 0 /\ (\A j \in Jobs : Rests(j)) /\ njobs \in {0, NJobs}
          /\ area = <<block, range>>
        BY <1>1 DEF BandsInv, BandsAt
    <1>5. \A j \in Jobs : Fresh(j)'
        BY <1>4 DEF Fresh, Rests, Bands
    <1>6. BandsAt(Place)'
        BY <1>1, <1>4, <1>5 DEF BandsAt, Jobs
    <1> QED  BY <1>1, <1>2, <1>3, <1>6 DEF BandsInv

LEMMA AddThreadKeeps ==
    ASSUME BandsInv, NEW t \in Pool, AddThread(t)
    PROVE  BandsInv'
    <1> DEFINE to == IF band = NJobs THEN "ready" ELSE "add"
    <1> USE FlagsAssumption DEF AddThread, ForEachBand, AddJob, flagVars, poolVars
    <1>0. "add" \in InDdtr /\ to \in InDdtr /\ mutex' = mutex /\ Go(t, "add", to)
        BY DEF InDdtr
    <1>1. /\ mutex = t /\ Place = "add" /\ Place' = to
          /\ HolderInside' /\ pc' \in [Pool -> PoolPlaces]
        BY <1>0, GoInside
    <1>2. /\ njobs = band - 1 /\ writing = 0 /\ band \in 1 .. NJobs
          /\ area = <<block, range>>
          /\ \A j \in Jobs : Fresh(j)
        BY <1>1 DEF BandsInv, BandsAt, Shape, Bands, Jobs
    <1>3. Shape'
        BY <1>1, <1>2 DEF BandsInv, Shape, Bands, Jobs
    <1>4. /\ jpc' = [jpc EXCEPT ![band] = "wait"]
          /\ word' = [word EXCEPT ![band] = FALSE]
          /\ njobs' = band
        BY <1>2
    <1>5. \A j \in Jobs : Fresh(j)'
        BY <1>2, <1>4 DEF BandsInv, Shape, Fresh, Rests, Bands
    <1>6. OneWriter'
        BY <1>2, <1>5 DEF OneWriter, Fresh, Rests
    <1>7. Threads'
        BY <1>2, <1>4, <1>5 DEF BandsInv, Shape, Threads, Fresh, Rests, Jobs
    <1>8. BandsAt(Place)'
        BY <1>1, <1>2, <1>4, <1>5 DEF BandsAt, Jobs, BandsInv, Shape, Bands
    <1> QED  BY <1>1, <1>3, <1>6, <1>7, <1>8 DEF BandsInv

LEMMA RaiseFlagKeeps ==
    ASSUME BandsInv, Racy = FALSE, NEW t \in Pool, RaiseFlag(t)
    PROVE  BandsInv'
    <1> USE FlagsAssumption DEF flagVars, poolVars, ddtrVars
    <1>1. pc[t] = "ready" /\ "ready" \in InDdtr
        BY DEF RaiseFlag, ForEachBand, Go, InDdtr
    <1>2. mutex = t /\ Place = "ready"
        BY <1>1, Holder
    <1>3. /\ writing \in {0, band} /\ band \in 1 .. NJobs /\ njobs = NJobs
          /\ area = <<block, range>>
          /\ \A j \in Jobs : IF j >= band THEN Fresh(j) ELSE Busy(j) \/ Done(j)
        BY <1>2 DEF BandsInv, BandsAt, Shape, Bands, Jobs
    <1>4. CASE ReadyRead(band) /\ UNCHANGED <<poolVars, pc, mutex, ddtrVars, input>>
        <2> USE <1>4 DEF ReadyRead, MayRead, Writers
        <2>1. \A j \in Jobs : jpc[j] # "write"
            OBVIOUS
        <2>2. Shape' /\ HolderInside' /\ Threads'
            BY <1>3 DEF BandsInv, Shape, HolderInside, Threads
        <2>3. OneWriter'
            BY <2>1 DEF BandsInv, Shape, OneWriter
        <2>4. Place' = "ready"
            BY <1>2 DEF Place
        <2>5. BandsAt(Place)'
            BY <1>3, <2>4 DEF BandsAt, Fresh, Busy, Done, Rests
        <2> QED  BY <2>2, <2>3, <2>5 DEF BandsInv
    <1>5. CASE ForEachBand(t, "ready", "finish") /\ ReadyWrite
        <2> DEFINE to == IF band = NJobs THEN "finish" ELSE "ready"
        <2> USE <1>5 DEF ForEachBand, ReadyWrite
        <2>0. "ready" \in InDdtr /\ to \in InDdtr /\ mutex' = mutex /\ Go(t, "ready", to)
            BY DEF InDdtr
        <2>1. Place' = to /\ HolderInside' /\ pc' \in [Pool -> PoolPlaces]
            BY <2>0, GoInside
        <2>2. writing = band /\ copy[Dispatcher] = word /\ Fresh(band)
            BY <1>3 DEF BandsInv, OneWriter, Jobs
        <2>3. word' = [word EXCEPT ![band] = TRUE]
            BY <2>2
        <2>4a. word' \in [Jobs -> BOOLEAN]
            BY <2>3 DEF BandsInv, Shape
        <2>4b. band' \in 1 .. NJobs
            BY <1>3
        <2>4. Shape'
            BY <2>1, <2>4a, <2>4b DEF BandsInv, Shape, Bands, Jobs
        <2>5. \A j \in Jobs : jpc[j] # "write"
            BY <1>3, <2>2 DEF BandsInv, OneWriter
        <2>6. OneWriter'
            BY <2>5 DEF OneWriter
        <2>7. jpc[band] = "wait" /\ sub[band] = <<>>
            BY <1>3, <2>2 DEF BandsInv, Threads, Fresh, Rests, Jobs
        <2>8. Threads'
            BY <2>3, <2>7 DEF BandsInv, Shape, Threads
        <2>9. \A j \in Jobs : j = band => Busy(j)'
            BY <2>3, <2>7 DEF BandsInv, Shape, Busy
        <2>10. \A j \in Jobs : j # band => Busy(j)' = Busy(j) /\ Done(j)' = Done(j)
                                        /\ Fresh(j)' = Fresh(j) /\ Rests(j)' = Rests(j)
            BY <2>3 DEF BandsInv, Shape, Busy, Done, Fresh, Rests
        <2>11. band = NJobs => BandsAt(Place)'
            BY <1>3, <2>1, <2>9, <2>10 DEF BandsAt, Jobs
        <2>12. band # NJobs => BandsAt(Place)'
            BY <1>3, <2>1, <2>9, <2>10 DEF BandsAt, Jobs
        <2> QED  BY <2>1, <2>4, <2>6, <2>8, <2>11, <2>12 DEF BandsInv
    <1> QED  BY <1>4, <1>5 DEF RaiseFlag

LEMMA AwaitBandKeeps ==
    ASSUME BandsInv, NEW t \in Pool, AwaitBand(t)
    PROVE  BandsInv'
    <1> DEFINE to == IF band = NJobs THEN "integrate" ELSE "finish"
    <1> USE FlagsAssumption DEF AwaitBand, ForEachBand, Finished, flagVars, poolVars
    <1>0. "finish" \in InDdtr /\ to \in InDdtr /\ mutex' = mutex /\ Go(t, "finish", to)
        BY DEF InDdtr
    <1>1. /\ mutex = t /\ Place = "finish" /\ Place' = to
          /\ HolderInside' /\ pc' \in [Pool -> PoolPlaces]
        BY <1>0, GoInside
    <1>2. /\ writing = 0 /\ band \in 1 .. NJobs /\ njobs = NJobs
          /\ area = <<block, range>>
          /\ \A j \in Jobs : IF j < band THEN Done(j) ELSE Busy(j) \/ Done(j)
        BY <1>1 DEF BandsInv, BandsAt, Shape, Bands, Jobs
    <1>3. Done(band)
        BY <1>2 DEF Busy, Jobs
    <1>4. Shape'
        BY <1>1, <1>2 DEF BandsInv, Shape, Bands, Jobs
    <1>5. OneWriter' /\ Threads'
        BY DEF BandsInv, OneWriter, Threads
    <1>6. \A j \in Jobs : Busy(j)' = Busy(j) /\ Done(j)' = Done(j)
        BY DEF Busy, Done, Rests
    <1>7. band = NJobs => BandsAt(Place)'
        BY <1>1, <1>2, <1>3, <1>6 DEF BandsAt, Jobs
    <1>8. band # NJobs => BandsAt(Place)'
        BY <1>1, <1>2, <1>3, <1>6 DEF BandsAt, Jobs
    <1> QED  BY <1>1, <1>4, <1>5, <1>7, <1>8 DEF BandsInv

LEMMA IntegrateKeeps ==
    ASSUME BandsInv, NEW t \in Pool, Integrate(t)
    PROVE  BandsInv'
    <1> USE FlagsAssumption DEF Integrate, flagVars, poolVars, ddtrVars
    <1>0. "integrate" \in InDdtr /\ "downsample" \in InDdtr /\ mutex' = mutex
        BY DEF InDdtr
    <1>1. /\ mutex = t /\ Place = "integrate" /\ Place' = "downsample"
          /\ HolderInside' /\ pc' \in [Pool -> PoolPlaces]
        BY <1>0, GoInside
    <1>2. Shape' /\ OneWriter' /\ Threads'
        BY <1>1 DEF BandsInv, Shape, OneWriter, Threads
    <1>3. BandsAt(Place)'
        BY <1>1 DEF BandsInv, BandsAt, Done, Rests
    <1> QED  BY <1>1, <1>2, <1>3 DEF BandsInv

LEMMA DownsampleKeeps ==
    ASSUME BandsInv, NEW t \in Pool, Downsample(t)
    PROVE  BandsInv'
    <1> DEFINE to == IF range = NRanges THEN "swap" ELSE "clear"
    <1> USE FlagsAssumption, ConstantsAssumption DEF Downsample, flagVars, poolVars
    <1>0. "downsample" \in InDdtr /\ to \in InDdtr /\ mutex' = mutex
        BY DEF InDdtr
    <1>1. /\ mutex = t /\ Place = "downsample" /\ Place' = to
          /\ HolderInside' /\ pc' \in [Pool -> PoolPlaces]
        BY <1>0, GoInside
    <1>2. range \in 1 .. NRanges
        BY DEF BandsInv, Shape, Ranges
    <1>3. Shape' /\ OneWriter' /\ Threads'
        BY <1>1, <1>2 DEF BandsInv, Shape, OneWriter, Threads, Ranges
    <1>4. area = <<block, range>>
        BY <1>1 DEF BandsInv, BandsAt
    <1>5. range # NRanges => area' = <<block, range'>>
        BY <1>4
    <1>6. BandsAt(Place)'
        BY <1>1, <1>5 DEF BandsInv, BandsAt, Rests
    <1> QED  BY <1>1, <1>3, <1>6 DEF BandsInv

LEMMA SwapKeeps ==
    ASSUME BandsInv, NEW t \in Pool, Swap(t)
    PROVE  BandsInv'
    <1> USE DEF Swap, Go, flagVars, poolVars, ddtrVars
    <1>1. mutex = t /\ Place = "swap"
        BY Holder DEF InDdtr
    <1>2. Shape' /\ OneWriter' /\ Threads'
        BY DEF BandsInv, Shape, OneWriter, Threads, PoolPlaces
    <1>3. HolderInside'
        BY <1>1, ConstantsAssumption DEF BandsInv, Shape, HolderInside, InDdtr
    <1>4. Place' = "idle"
        BY DEF Place
    <1>5. BandsAt(Place)'
        BY <1>1, <1>4 DEF BandsInv, BandsAt, Rests
    <1> QED  BY <1>2, <1>3, <1>5 DEF BandsInv

LEMMA StepKeepsBandsInv ==
    ASSUME BandsInv, Racy = FALSE, [Next]_vars
    PROVE  BandsInv'
    <1>1. CASE HandOn \/ UNCHANGED vars
        BY <1>1, OutsideKeeps DEF HandOn, vars
    <1>2. ASSUME NEW t \in Pool, PoolStep(t)  PROVE  BandsInv'
        <2>1. CASE TakeBlock(t) \/ StartSearch(t) \/ Submit(t) \/ SearchEnds(t) \/ MakeList(t)
            <3>1. /\ UNCHANGED <<flagVars, mutex, ddtrVars, input>>
                  /\ \E from, to \in PoolPlaces \ InDdtr : Go(t, from, to)
                BY <2>1 DEF TakeBlock, StartSearch, Submit, SearchEnds, MakeList, PoolPlaces, InDdtr
            <3> QED  BY <3>1, OutsideKeeps
        <2> QED  BY <1>2, <2>1, StartDdtrKeeps, ClearKeeps, AddThreadKeeps, RaiseFlagKeeps,
                    AwaitBandKeeps, IntegrateKeeps, DownsampleKeeps, SwapKeeps DEF PoolStep
    <1>3. ASSUME NEW b \in Bands, JobStep(b)  PROVE  BandsInv'
        BY <1>3, JobBeginsKeeps, JobEndsKeeps, JobResetsKeeps DEF JobStep, Bands
    <1> QED  BY <1>1, <1>2, <1>3 DEF Next

\* The bands, their threads and the holder of the mutex keep step.
THEOREM BandsInductive ==
    ASSUME Racy = FALSE
    PROVE  Spec => []BandsInv
    <1>1. BandsInv /\ [Next]_vars => BandsInv'
        BY StepKeepsBandsInv
    <1> QED  BY <1>1, InitBandsInv, PTL DEF Spec

\* Every band is added up exactly once, from the data of its block and range
\* (DdtrProcessor::threaded_dedispersion), for every number of bands, ranges and
\* pool threads.
THEOREM BandsComplete ==
    ASSUME Racy = FALSE
    PROVE  Spec => []EveryBandOnce
    <1>1. BandsInv => EveryBandOnce
        <2> SUFFICES ASSUME BandsInv, NEW t \in Pool, pc[t] = "integrate"  PROVE  Complete
            BY DEF EveryBandOnce
        <2>1. Place = "integrate"
            BY Holder DEF InDdtr
        <2> QED  BY <2>1 DEF BandsInv, BandsAt, Done, Complete, Bands
    <1> QED  BY <1>1, BandsInductive, PTL

\* No thread of a band is at work while the bands are cleared or integrated or
\* the work area is downsampled.
THEOREM BandsRest ==
    ASSUME Racy = FALSE
    PROVE  Spec => []JobsRestInBetween
    <1>1. BandsInv => JobsRestInBetween
        <2> SUFFICES ASSUME BandsInv, NEW t \in Pool, NEW b \in Jobs,
                            pc[t] \in {"clear", "integrate", "downsample", "swap"}
                     PROVE  jpc[b] # "run"
            BY DEF JobsRestInBetween, Bands
        <2>1. Place = pc[t]
            BY Holder DEF InDdtr
        <2> QED  BY <2>1 DEF BandsInv, BandsAt, Done, Rests
    <1> QED  BY <1>1, BandsInductive, PTL

-------------------------------------------------------------------------------
(* Types, whether writes of the flags and blocks overlap or not *)

\* Who dedisperses: while the threads are added each band has one when the loop has
\* passed it, otherwise all bands or none have one, and the work area was downsampled
\* once for each range that is finished.
Dispatching ==
    /\ \A t \in Pool : pc[t] = "add" => njobs = band - 1
    /\ (\A t \in Pool : pc[t] # "add") => njobs \in {0, NJobs}
    /\ \A t \in Pool : pc[t] \in InDdtr \ {"swap"} => area[2] = range

TypesInv == TypeOK /\ HolderInside /\ Dispatching

LEMMA InitTypesInv == Init => TypesInv
    <1> SUFFICES ASSUME Init  PROVE  TypesInv
        OBVIOUS
    <1> USE FlagsAssumption, ConstantsAssumption DEF Init, FlagsInit
    <1>1. FlagsOK
        BY DEF FlagsOK, Jobs, Dispatcher
    <1>2. /\ blocks \in Blocks /\ queue \in Seq(Blocks) /\ block \in Blocks
          /\ pc \in [Pool -> PoolPlaces] /\ mutex \in Pool \cup {NoThread}
          /\ task \in [Pool -> Blocks] /\ range \in Ranges /\ band \in Bands
        BY DEF Blocks, PoolPlaces, InDdtr, Ranges, Bands, Jobs
    <1>3. area \in Blocks \X (1 .. NRanges + 1)
        BY DEF Torn, Blocks
    <1>4. /\ input \in [Bands -> Blocks \X (1 .. NRanges + 1)]
          /\ sub \in [Bands -> Seq(Blocks \X (0 .. NRanges + 1))]
        BY <1>3
    <1>5. dm \in Trials /\ sp \in Trials
        BY DEF NoTrials, Trials, Torn, Blocks
    <1>6. /\ sums \subseteq Blocks /\ met \subseteq {"order", "begin", "swap"}
          /\ lists \in Seq([blocks : SUBSET Blocks, after : SUBSET Blocks, start : Blocks])
          /\ seen \in [Pool -> SUBSET Blocks] /\ after \in [Pool -> SUBSET Blocks]
        BY DEF Blocks
    <1>7. TypeOK
        BY <1>1, <1>2, <1>3, <1>4, <1>5, <1>6 DEF TypeOK, PoolPlaces, InDdtr
    <1>8. HolderInside /\ Dispatching
        BY DEF HolderInside, Dispatching, InDdtr
    <1> QED  BY <1>7, <1>8 DEF TypesInv

\* A step from one place of Ddtr::operator() to another
LEMMA GoOnInside ==
    ASSUME TypesInv, NEW t \in Pool, NEW from \in InDdtr, NEW to \in InDdtr, Go(t, from, to),
           mutex' = mutex
    PROVE  /\ HolderInside' /\ pc' \in [Pool -> PoolPlaces]
           /\ pc[t] = from /\ pc'[t] = to
           /\ \A u \in Pool \ {t} : pc[u] \notin InDdtr /\ pc'[u] = pc[u]
    <1>1. pc[t] = from /\ pc' = [pc EXCEPT ![t] = to] /\ pc \in [Pool -> PoolPlaces]
        BY DEF Go, TypesInv, TypeOK, PoolPlaces, InDdtr
    <1>2. pc' \in [Pool -> PoolPlaces] /\ pc'[t] = to /\ \A u \in Pool \ {t} : pc'[u] = pc[u]
        BY <1>1 DEF PoolPlaces
    <1>3. mutex = t
        BY <1>1 DEF TypesInv, HolderInside
    <1>4. \A u \in Pool \ {t} : pc[u] \notin InDdtr
        BY <1>3 DEF TypesInv, HolderInside
    <1>5. HolderInside'
        BY <1>1, <1>2, <1>3, <1>4 DEF HolderInside
    <1> QED  BY <1>1, <1>2, <1>4, <1>5

\* The flags in a step that adds no thread
LEMMA FlagTypes ==
    ASSUME FlagsOK
    PROVE  /\ UNCHANGED flagVars => FlagsOK'
           /\ \A j \in Jobs : ReadyRead(j) \/ Wake(j) \/ JobDone(j) \/ ResetRead(j) \/ ResetWrite(j)
                 => FlagsOK' /\ njobs' = njobs
           /\ ReadyWrite => FlagsOK' /\ njobs' = njobs
    <1>1. UNCHANGED flagVars => FlagsOK'
        BY DEF flagVars, FlagsOK
    <1>2. ASSUME NEW j \in Jobs
          PROVE  /\ ReadyRead(j) => FlagsOK' /\ njobs' = njobs
                 /\ Wake(j) => FlagsOK' /\ njobs' = njobs
                 /\ JobDone(j) => FlagsOK' /\ njobs' = njobs
                 /\ ResetRead(j) => FlagsOK' /\ njobs' = njobs
                 /\ ResetWrite(j) => FlagsOK' /\ njobs' = njobs
        <2>1. j \in Jobs \cup {Dispatcher} /\ Dispatcher \in Jobs \cup {Dispatcher}
            OBVIOUS
        <2>2. ReadyRead(j) => FlagsOK' /\ njobs' = njobs
            BY <2>1 DEF FlagsOK, ReadyRead
        <2>3. Wake(j) \/ JobDone(j) => FlagsOK' /\ njobs' = njobs
            BY DEF FlagsOK, Wake, JobDone
        <2>4. ResetRead(j) => FlagsOK' /\ njobs' = njobs
            BY <2>1 DEF FlagsOK, ResetRead
        <2>5. ResetWrite(j) => FlagsOK' /\ njobs' = njobs
            BY <2>1 DEF FlagsOK, ResetWrite
        <2> QED  BY <2>2, <2>3, <2>4, <2>5
    <1>3. ReadyWrite => FlagsOK' /\ njobs' = njobs
        BY DEF FlagsOK, ReadyWrite, Dispatcher
    <1> QED  BY <1>1, <1>2, <1>3

\* The buffering and the searching threads leave dedispersion alone.
LEMMA HandOnTypes ==
    ASSUME TypesInv, HandOn
    PROVE  TypesInv'
    <1> USE DEF HandOn, ddtrVars, spdtVars
    <1>1. blocks' \in Blocks /\ queue' \in Seq(Blocks)
        <2>1. blocks + 1 \in Blocks
            BY ConstantsAssumption DEF TypesInv, TypeOK, Blocks
        <2> QED  BY <2>1 DEF TypesInv, TypeOK
    <1>2. FlagsOK'
        BY FlagTypes DEF TypesInv, TypeOK
    <1>3. TypeOK'
        BY <1>1, <1>2 DEF TypesInv, TypeOK
    <1>4. HolderInside' /\ Dispatching'
        BY DEF TypesInv, HolderInside, Dispatching, flagVars
    <1> QED  BY <1>3, <1>4 DEF TypesInv

LEMMA OutsideTypes ==
    ASSUME TypesInv, NEW t \in Pool,
           TakeBlock(t) \/ StartSearch(t) \/ Submit(t) \/ SearchEnds(t) \/ MakeList(t)
    PROVE  TypesInv'
    <1> USE DEF ddtrVars, spdtVars, poolVars
    <1>1. PICK from, to \in PoolPlaces \ InDdtr : Go(t, from, to)
        BY DEF TakeBlock, StartSearch, Submit, SearchEnds, MakeList, PoolPlaces, InDdtr
    <1>2. UNCHANGED <<flagVars, mutex, blocks, block, range, band, area, sub, input, dm, sp, met>>
        BY DEF TakeBlock, StartSearch, Submit, SearchEnds, MakeList
    <1>3. /\ pc \in [Pool -> PoolPlaces] /\ pc' \in [Pool -> PoolPlaces]
          /\ \A u \in Pool : pc'[u] # pc[u] => pc[u] \notin InDdtr /\ pc'[u] \notin InDdtr
        BY <1>1 DEF Go, TypesInv, TypeOK, PoolPlaces, InDdtr
    <1>4. HolderInside' /\ Dispatching'
        BY <1>2, <1>3 DEF TypesInv, HolderInside, Dispatching, InDdtr, flagVars
    <1>5. Searched \subseteq Blocks /\ sp.start \in Blocks
        BY DEF TypesInv, TypeOK, Trials, Searched
    <1>6. queue' \in Seq(Blocks)
        <2>1. queue \in Seq(Blocks) /\ Search \in Blocks
            BY ConstantsAssumption DEF TypesInv, TypeOK, Search, Blocks
        <2>2. CASE TakeBlock(t) \/ StartSearch(t)
            BY <2>1, <2>2 DEF TakeBlock, StartSearch
        <2>3. CASE Submit(t)
            BY <2>1, <2>3 DEF Submit
        <2>4. CASE SearchEnds(t) \/ MakeList(t)
            BY <2>1, <2>4 DEF SearchEnds, MakeList
        <2> QED  BY <2>2, <2>3, <2>4
    <1>6a. task' \in [Pool -> Blocks]
        <2>1. task \in [Pool -> Blocks] /\ queue \in Seq(Blocks)
            BY DEF TypesInv, TypeOK
        <2>2. CASE TakeBlock(t)
            BY <2>1, <2>2 DEF TakeBlock
        <2>3. CASE ~TakeBlock(t)
            BY <2>1, <2>3 DEF StartSearch, Submit, SearchEnds, MakeList
        <2> QED  BY <2>2, <2>3
    <1>7. /\ sums' \subseteq Blocks
          /\ lists' \in Seq([blocks : SUBSET Blocks, after : SUBSET Blocks, start : Blocks])
          /\ seen' \in [Pool -> SUBSET Blocks] /\ after' \in [Pool -> SUBSET Blocks]
        <2> USE DEF TypesInv, TypeOK
        <2>0. CASE TakeBlock(t)
            BY <2>0 DEF TakeBlock
        <2>1. CASE StartSearch(t)
            BY <1>5, <2>1 DEF StartSearch
        <2>2. CASE Submit(t)
            BY <2>2 DEF Submit
        <2>3. CASE SearchEnds(t)
            BY <1>5, <2>3 DEF SearchEnds
        <2>4. CASE MakeList(t)
            BY <1>5, <2>4 DEF MakeList
        <2> QED  BY <2>0, <2>1, <2>2, <2>3, <2>4
    <1>8. FlagsOK'
        BY <1>2, FlagTypes DEF TypesInv, TypeOK
    <1>9. pc' \in [Pool -> {"idle", "lock", "clear", "add", "ready", "finish", "integrate",
                            "downsample", "swap", "submit", "search", "list"}]
        BY <1>3 DEF PoolPlaces, InDdtr
    <1>10. TypeOK'
        BY <1>2, <1>6, <1>6a, <1>7, <1>8, <1>9 DEF TypesInv, TypeOK
    <1> QED  BY <1>4, <1>10 DEF TypesInv

LEMMA StartDdtrTypes ==
    ASSUME TypesInv, NEW t \in Pool, StartDdtr(t)
    PROVE  TypesInv'
    <1> USE DEF StartDdtr, poolVars, spdtVars
    <1>1. /\ pc \in [Pool -> PoolPlaces] /\ pc[t] = "lock" /\ pc' = [pc EXCEPT ![t] = "clear"]
          /\ mutex = NoThread /\ mutex' = t
        BY DEF TypesInv, TypeOK, Go, PoolPlaces, InDdtr
    <1>2. task[t] \in Blocks /\ met' \subseteq {"order", "begin", "swap"}
        BY DEF TypesInv, TypeOK, Noting
    <1>3. /\ pc' \in [Pool -> PoolPlaces] /\ pc'[t] = "clear"
          /\ \A u \in Pool : pc[u] \notin InDdtr
          /\ \A u \in Pool \ {t} : pc'[u] \notin InDdtr
        BY <1>1, ConstantsAssumption DEF TypesInv, HolderInside, PoolPlaces, InDdtr
    <1>4. HolderInside'
        BY <1>1, <1>3 DEF HolderInside, InDdtr
    <1>5. Dispatching'
        <2>1. njobs' = njobs /\ range' = 1 /\ area'[2] = 1
            BY DEF flagVars
        <2>2. njobs \in {0, NJobs}
            BY <1>3 DEF TypesInv, Dispatching, InDdtr
        <2> QED  BY <1>3, <2>1, <2>2 DEF Dispatching, InDdtr
    <1>6. /\ block' \in Blocks /\ range' \in Ranges
          /\ area' \in Blocks \X (1 .. NRanges + 1)
        BY <1>2, ConstantsAssumption DEF Ranges
    <1>7. dm' \in Trials /\ sp' \in Trials
        BY <1>2 DEF TypesInv, TypeOK, Trials
    <1>8. FlagsOK'
        BY FlagTypes DEF TypesInv, TypeOK
    <1>9. pc' \in [Pool -> {"idle", "lock", "clear", "add", "ready", "finish", "integrate",
                            "downsample", "swap", "submit", "search", "list"}]
        BY <1>3 DEF PoolPlaces, InDdtr
    <1>10. TypeOK'
        BY <1>1, <1>2, <1>6, <1>7, <1>8, <1>9 DEF TypesInv, TypeOK
    <1> QED  BY <1>4, <1>5, <1>10 DEF TypesInv

\* The loops over the bands
LEMMA ClearTypes ==
    ASSUME TypesInv, NEW t \in Pool, Clear(t)
    PROVE  TypesInv'
    <1> USE DEF Clear, poolVars, spdtVars
    <1> DEFINE to == IF njobs = 0 THEN "add" ELSE "ready"
    <1>1. /\ HolderInside' /\ pc' \in [Pool -> PoolPlaces]
          /\ pc[t] = "clear" /\ pc'[t] = to
          /\ \A u \in Pool \ {t} : pc[u] \notin InDdtr /\ pc'[u] = pc[u]
        <2>1. Go(t, "clear", to) /\ to \in InDdtr /\ "clear" \in InDdtr
            BY DEF InDdtr
        <2> HIDE DEF to
        <2> QED  BY <2>1, GoOnInside
    <1>2. njobs' = njobs /\ njobs \in {0, NJobs} /\ area' = area /\ range' = range /\ area[2] = range
        BY <1>1 DEF TypesInv, Dispatching, InDdtr, flagVars
    <1>3. band' = 1 /\ (pc'[t] = "add" => njobs = 0)
        BY <1>1
    <1>4. Dispatching'
        BY <1>1, <1>2, <1>3 DEF Dispatching, InDdtr
    <1>5. band' \in Bands
        BY FlagsAssumption DEF Bands, Jobs
    <1>6. sub' \in [Bands -> Seq(Blocks \X (0 .. NRanges + 1))]
        OBVIOUS
    <1>7. FlagsOK'
        BY FlagTypes DEF TypesInv, TypeOK
    <1>8. TypeOK'
        BY <1>1, <1>5, <1>6, <1>7 DEF TypesInv, TypeOK, PoolPlaces, InDdtr
    <1> QED  BY <1>1, <1>4, <1>8 DEF TypesInv

\* One round of a loop
LEMMA RoundTypes ==
    ASSUME TypesInv, NEW t \in Pool, NEW loop \in InDdtr \ {"swap"}, NEW next \in InDdtr \ {"add", "swap"},
           ForEachBand(t, loop, next), FlagsOK',
           IF loop = "add" THEN njobs' = njobs + 1 ELSE njobs' = njobs
    PROVE  TypesInv'
    <1> USE DEF ForEachBand, poolVars, spdtVars
    <1> DEFINE to == IF band = NJobs THEN next ELSE loop
    <1>1. /\ HolderInside' /\ pc' \in [Pool -> PoolPlaces]
          /\ pc[t] = loop /\ pc'[t] = to
          /\ \A u \in Pool \ {t} : pc[u] \notin InDdtr /\ pc'[u] = pc[u]
        <2>1. Go(t, loop, to) /\ to \in InDdtr /\ loop \in InDdtr
            OBVIOUS
        <2> HIDE DEF to
        <2> QED  BY <2>1, GoOnInside
    <1>2. /\ band \in 1 .. NJobs /\ NJobs \in Nat
          /\ band' = IF band = NJobs THEN 1 ELSE band + 1
        BY FlagsAssumption DEF TypesInv, TypeOK, Bands, Jobs
    <1>3. area' = area /\ range' = range /\ area[2] = range
        BY <1>1 DEF TypesInv, Dispatching
    <1>4. Dispatching'
        <2>1. CASE loop = "add"
            <3>1. njobs' = band
                BY <1>1, <1>2, <2>1 DEF TypesInv, Dispatching
            <3>2. CASE band = NJobs
                BY <1>1, <1>3, <2>1, <3>1, <3>2 DEF Dispatching, InDdtr
            <3>3. CASE band # NJobs
                <4>1. njobs' = band' - 1 /\ pc'[t] = "add"
                    BY <1>1, <1>2, <2>1, <3>1, <3>3
                <4> QED  BY <1>1, <1>3, <4>1 DEF Dispatching, InDdtr
            <3> QED  BY <3>2, <3>3
        <2>2. CASE loop # "add"
            <3>1. njobs' \in {0, NJobs}
                BY <1>1, <2>2 DEF TypesInv, Dispatching, InDdtr
            <3> QED  BY <1>1, <1>3, <2>2, <3>1 DEF Dispatching, InDdtr
        <2> QED  BY <2>1, <2>2
    <1>5. band' \in Bands
        BY <1>2 DEF Bands, Jobs
    <1>6. TypeOK'
        BY <1>1, <1>5 DEF TypesInv, TypeOK, PoolPlaces, InDdtr
    <1> QED  BY <1>1, <1>4, <1>6 DEF TypesInv

LEMMA LoopTypes ==
    ASSUME TypesInv, NEW t \in Pool, AddThread(t) \/ RaiseFlag(t) \/ AwaitBand(t)
    PROVE  TypesInv'
    <1>1. CASE AddThread(t)
        <2>1. ForEachBand(t, "add", "ready") /\ AddJob
            BY <1>1 DEF AddThread
        <2>2. pc[t] = "add"
            BY <2>1 DEF ForEachBand, Go
        <2>3. njobs + 1 \in Jobs /\ njobs' = njobs + 1
            BY <2>1, <2>2, FlagsAssumption DEF TypesInv, TypeOK, Dispatching, AddJob, Bands, Jobs
        <2>4. FlagsOK'
            <3>1. /\ word' = [word EXCEPT ![njobs + 1] = FALSE]
                  /\ jpc' = [jpc EXCEPT ![njobs + 1] = "wait"]
                  /\ UNCHANGED <<copy, writing>>
                BY <2>1 DEF AddJob
            <3> QED  BY <2>3, <3>1 DEF TypesInv, TypeOK, FlagsOK
        <2>5. "add" \in InDdtr \ {"swap"} /\ "ready" \in InDdtr \ {"add", "swap"}
            BY DEF InDdtr
        <2> QED  BY <2>1, <2>3, <2>4, <2>5, RoundTypes
    <1>2. CASE RaiseFlag(t)
        <2>1. FlagsOK' /\ njobs' = njobs
            BY <1>2, FlagTypes DEF RaiseFlag, TypesInv, TypeOK, Bands
        <2>2. CASE UNCHANGED <<poolVars, pc, task, mutex, ddtrVars, input, dm, sp, spdtVars, met>>
            <3>1. HolderInside' /\ Dispatching'
                BY <2>1, <2>2 DEF TypesInv, HolderInside, Dispatching, ddtrVars
            <3>2. TypeOK'
                BY <2>1, <2>2 DEF TypesInv, TypeOK, poolVars, ddtrVars, spdtVars
            <3> QED  BY <3>1, <3>2 DEF TypesInv
        <2>3. CASE ForEachBand(t, "ready", "finish")
            <3>1. "ready" \in InDdtr \ {"swap"} /\ "finish" \in InDdtr \ {"add", "swap"} /\ "ready" # "add"
                BY DEF InDdtr
            <3> QED  BY <2>1, <2>3, <3>1, RoundTypes
        <2> QED  BY <1>2, <2>2, <2>3 DEF RaiseFlag
    <1>3. CASE AwaitBand(t)
        <2>1. ForEachBand(t, "finish", "integrate") /\ FlagsOK' /\ njobs' = njobs
            BY <1>3, FlagTypes DEF AwaitBand, TypesInv, TypeOK, flagVars
        <2>2. "finish" \in InDdtr \ {"swap"} /\ "integrate" \in InDdtr \ {"add", "swap"} /\ "finish" # "add"
            BY DEF InDdtr
        <2> QED  BY <2>1, <2>2, RoundTypes
    <1> QED  BY <1>1, <1>2, <1>3

\* The rest of Ddtr::operator()
LEMMA IntegrateTypes ==
    ASSUME TypesInv, NEW t \in Pool, Integrate(t)
    PROVE  TypesInv'
    <1> USE DEF Integrate, poolVars, ddtrVars, spdtVars
    <1>1. /\ HolderInside' /\ pc' \in [Pool -> PoolPlaces]
          /\ pc[t] = "integrate" /\ pc'[t] = "downsample"
          /\ \A u \in Pool \ {t} : pc[u] \notin InDdtr /\ pc'[u] = pc[u]
        <2>1. Go(t, "integrate", "downsample") /\ "integrate" \in InDdtr /\ "downsample" \in InDdtr
            BY DEF InDdtr
        <2> QED  BY <2>1, GoOnInside
    <1>2. Dispatching'
        BY <1>1 DEF TypesInv, Dispatching, InDdtr, flagVars
    <1>3. dm' \in Trials
        <2>1. block \in Blocks /\ Torn \in Blocks /\ dm \in Trials
            BY ConstantsAssumption DEF TypesInv, TypeOK, Torn, Blocks
        <2> QED  BY <2>1 DEF Trials
    <1>4. FlagsOK'
        BY FlagTypes DEF TypesInv, TypeOK
    <1>5. TypeOK'
        BY <1>1, <1>3, <1>4 DEF TypesInv, TypeOK, PoolPlaces, InDdtr
    <1> QED  BY <1>1, <1>2, <1>5 DEF TypesInv

LEMMA DownsampleTypes ==
    ASSUME TypesInv, NEW t \in Pool, Downsample(t)
    PROVE  TypesInv'
    <1> USE DEF Downsample, poolVars, spdtVars
    <1> DEFINE to == IF range = NRanges THEN "swap" ELSE "clear"
    <1>1. /\ HolderInside' /\ pc' \in [Pool -> PoolPlaces]
          /\ pc[t] = "downsample" /\ pc'[t] = to
          /\ \A u \in Pool \ {t} : pc[u] \notin InDdtr /\ pc'[u] = pc[u]
        <2>1. Go(t, "downsample", to) /\ to \in InDdtr /\ "downsample" \in InDdtr
            BY DEF InDdtr
        <2> HIDE DEF to
        <2> QED  BY <2>1, GoOnInside
    <1>2. /\ area \in Blocks \X (1 .. NRanges + 1) /\ range \in 1 .. NRanges /\ NRanges \in Nat
          /\ area[2] = range /\ njobs \in {0, NJobs} /\ njobs' = njobs
        BY <1>1, ConstantsAssumption DEF TypesInv, TypeOK, Dispatching, InDdtr, Ranges, flagVars
    <1>3. /\ area' \in Blocks \X (1 .. NRanges + 1) /\ area'[2] = range + 1
          /\ range' \in Ranges /\ (range # NRanges => range' = range + 1)
        BY <1>2 DEF Ranges
    <1>4. Dispatching'
        BY <1>1, <1>2, <1>3 DEF Dispatching, InDdtr
    <1>5. FlagsOK'
        BY FlagTypes DEF TypesInv, TypeOK
    <1>6. TypeOK'
        BY <1>1, <1>3, <1>5 DEF TypesInv, TypeOK, PoolPlaces, InDdtr
    <1> QED  BY <1>1, <1>4, <1>6 DEF TypesInv

LEMMA SwapTypes ==
    ASSUME TypesInv, NEW t \in Pool, Swap(t)
    PROVE  TypesInv'
    <1> USE DEF Swap, poolVars, ddtrVars, spdtVars
    <1>1. /\ pc \in [Pool -> PoolPlaces] /\ pc[t] = "swap" /\ pc' = [pc EXCEPT ![t] = "submit"]
          /\ mutex' = NoThread
        BY DEF TypesInv, TypeOK, Go, PoolPlaces, InDdtr
    <1>2. /\ pc' \in [Pool -> PoolPlaces] /\ pc'[t] = "submit"
          /\ \A u \in Pool : pc'[u] \notin InDdtr
        BY <1>1 DEF TypesInv, HolderInside, PoolPlaces, InDdtr
    <1>3. HolderInside'
        BY <1>1, <1>2, ConstantsAssumption DEF HolderInside
    <1>4. \A u \in Pool : pc[u] # "add"
        BY <1>1 DEF TypesInv, HolderInside, InDdtr
    <1>5. Dispatching'
        BY <1>2, <1>4 DEF TypesInv, Dispatching, InDdtr, flagVars
    <1>6. FlagsOK' /\ met' \subseteq {"order", "begin", "swap"}
        BY FlagTypes DEF TypesInv, TypeOK, Noting
    <1>7. TypeOK'
        BY <1>1, <1>2, <1>6 DEF TypesInv, TypeOK, PoolPlaces, InDdtr
    <1> QED  BY <1>3, <1>5, <1>7 DEF TypesInv

\* The bands' threads
LEMMA JobTypes ==
    ASSUME TypesInv, NEW b \in Jobs, JobStep(b)
    PROVE  TypesInv'
    <1> USE DEF JobStep, JobBegins, JobEnds, JobResets, poolVars, spdtVars
    <1>1. FlagsOK' /\ njobs' = njobs
        BY FlagTypes DEF TypesInv, TypeOK
    <1>2. UNCHANGED <<blocks, queue, pc, task, mutex, block, range, band, area, dm, sp, sums,
                      seen, after, lists, met>>
        BY DEF ddtrVars
    <1>3. HolderInside' /\ Dispatching'
        BY <1>1, <1>2 DEF TypesInv, HolderInside, Dispatching
    <1>4. input' \in [Bands -> Blocks \X (1 .. NRanges + 1)]
        <2>1. /\ <<area[1], range>> \in Blocks \X (1 .. NRanges + 1)
              /\ input \in [Bands -> Blocks \X (1 .. NRanges + 1)]
            BY ConstantsAssumption DEF TypesInv, TypeOK, Ranges
        <2>2. input' = input \/ input' = [input EXCEPT ![b] = <<area[1], range>>]
            OBVIOUS
        <2> QED  BY <2>1, <2>2
    <1>5. sub' \in [Bands -> Seq(Blocks \X (0 .. NRanges + 1))]
        <2> DEFINE A == Blocks \X (0 .. NRanges + 1)
        <2>1. area \in A /\ <<Torn, 0>> \in A /\ sub \in [Bands -> Seq(A)]
            <3>1. area \in Blocks \X (1 .. NRanges + 1) /\ sub \in [Bands -> Seq(A)]
                BY DEF TypesInv, TypeOK
            <3>2. NRanges \in Nat /\ 0 \in Blocks
                BY ConstantsAssumption DEF Blocks
            <3>3. area \in A /\ <<Torn, 0>> \in A
                BY <3>1, <3>2 DEF Torn
            <3> QED  BY <3>1, <3>3
        <2>2. \/ sub' = sub
              \/ \E x \in {area, <<Torn, 0>>} : sub' = [sub EXCEPT ![b] = Append(@, x)]
            BY DEF ddtrVars
        <2> HIDE DEF A
        <2>3. ASSUME NEW x \in A, sub' = [sub EXCEPT ![b] = Append(@, x)]
              PROVE  sub' \in [Bands -> Seq(A)]
            BY <2>1, <2>3 DEF Bands
        <2> QED  BY <2>1, <2>2, <2>3 DEF A
    <1>6. TypeOK'
        BY <1>1, <1>2, <1>4, <1>5 DEF TypesInv, TypeOK
    <1> QED  BY <1>3, <1>6 DEF TypesInv

LEMMA StepTypes == TypesInv /\ [Next]_vars => TypesInv'
    <1> SUFFICES ASSUME TypesInv, [Next]_vars  PROVE  TypesInv'
        OBVIOUS
    <1>1. CASE HandOn
        BY <1>1, HandOnTypes
    <1>2. ASSUME NEW t \in Pool, PoolStep(t)  PROVE  TypesInv'
        BY <1>2, OutsideTypes, StartDdtrTypes, ClearTypes, LoopTypes, IntegrateTypes,
           DownsampleTypes, SwapTypes DEF PoolStep
    <1>3. ASSUME NEW b \in Bands, JobStep(b)  PROVE  TypesInv'
        BY <1>3, JobTypes DEF Bands
    <1>4. CASE UNCHANGED vars
        <2> USE <1>4 DEF vars, poolVars, ddtrVars, spdtVars
        <2>1. FlagsOK'
            BY FlagTypes DEF TypesInv, TypeOK
        <2>2. TypeOK'
            BY <2>1 DEF TypesInv, TypeOK
        <2>3. HolderInside' /\ Dispatching'
            BY DEF TypesInv, HolderInside, Dispatching, flagVars
        <2> QED  BY <2>2, <2>3 DEF TypesInv
    <1> QED  BY <1>1, <1>2, <1>3, <1>4 DEF Next

\* In all runs, also those in which writes of the flags and blocks overlap: one thread
\* at most is in Ddtr::operator(), each band gets one thread, and the work area is
\* never downsampled more often than there are ranges.
THEOREM DispatchInductive == Spec => []TypesInv
    <1> QED  BY InitTypesInv, StepTypes, PTL DEF Spec

\* The plan's range and the loop over the bands stay in bounds
\* (DdtrProcessor::operator++ and threaded_dedispersion).
THEOREM WithinBounds == Spec => []TypeOK
    <1>1. TypesInv => TypeOK
        BY DEF TypesInv
    <1> QED  BY DispatchInductive, <1>1, PTL

-------------------------------------------------------------------------------
(* Waiting, whether writes of the flags and blocks overlap or not *)

\* A pool thread t has something to do; everything else is polling.
CanGoOn(t) ==
    \/ pc[t] = "idle" /\ queue # <<>>
    \/ pc[t] = "lock" /\ mutex = NoThread
    \/ pc[t] = "ready" /\ (writing # 0 \/ MayRead(band))
    \/ pc[t] = "finish" /\ Finished(band)
    \/ pc[t] \in PoolPlaces \ {"idle", "lock", "ready", "finish"}

\* So has the thread of band b.
CanWork(b) ==
    \/ jpc[b] = "wait" /\ MutexFree(b) /\ word[b]
    \/ jpc[b] = "run"
    \/ jpc[b] = "reset" /\ MayRead(b)
    \/ jpc[b] = "write"

\* While there is a task, or one is under way, somebody has something to do.
NoDeadlock ==
    queue # <<>> \/ (\E t \in Pool : pc[t] # "idle") =>
        (\E t \in Pool : CanGoOn(t)) \/ (\E b \in Bands : CanWork(b))

\* Every band that was added has its thread, all are added before the first flag is
\* raised, and a flag is being raised only by who is in that loop, at that band.
Raising ==
    /\ \A j \in Jobs : j <= njobs => jpc[j] # "none"
    /\ \A t \in Pool : pc[t] \in {"ready", "finish"} => njobs = NJobs
    /\ writing # 0 => writing = band /\ \E t \in Pool : pc[t] = "ready"

\* The steps of t that leave the flags and the band alone
LEMMA ElsewhereRaising ==
    ASSUME TypesInv, Raising, UNCHANGED <<flagVars, band>>,
           \/ UNCHANGED pc
           \/ \E t \in Pool, from \in PoolPlaces \ {"ready"}, to \in PoolPlaces \ {"ready", "finish"} :
                 Go(t, from, to)
    PROVE  Raising'
    <1>1. pc \in [Pool -> PoolPlaces]
        BY DEF TypesInv, TypeOK, PoolPlaces, InDdtr
    <1>2. /\ \A u \in Pool : pc'[u] \in {"ready", "finish"} => pc[u] = pc'[u]
          /\ \A u \in Pool : pc[u] = "ready" => pc'[u] = "ready"
        BY <1>1 DEF Go
    <1> QED  BY <1>2 DEF Raising, flagVars

\* A step of the loops, of which nobody else is in any
LEMMA LoopRaising ==
    ASSUME TypesInv, Raising, NEW t \in Pool, Clear(t) \/ AddThread(t) \/ RaiseFlag(t) \/ AwaitBand(t)
    PROVE  Raising'
    <1> USE FlagsAssumption
    <1>1. /\ pc \in [Pool -> PoolPlaces] /\ FlagsOK
          /\ njobs \in Jobs \cup {0} /\ band \in Jobs /\ writing \in Jobs \cup {0}
          /\ jpc \in [Jobs -> {"none", "wait", "run", "reset", "write"}]
        BY DEF TypesInv, TypeOK, FlagsOK, PoolPlaces, InDdtr, Bands
    <1>2. pc[t] \in InDdtr
        BY DEF Clear, AddThread, RaiseFlag, AwaitBand, ForEachBand, Go, InDdtr
    <1>3. \A u \in Pool \ {t} : pc[u] \notin InDdtr
        BY <1>2 DEF TypesInv, HolderInside
    <1>4. pc[t] # "ready" => writing = 0
        BY <1>3 DEF Raising, InDdtr
    <1>5. CASE Clear(t)
        <2>1. /\ pc[t] = "clear" /\ UNCHANGED flagVars
              /\ pc' = [pc EXCEPT ![t] = IF njobs = 0 THEN "add" ELSE "ready"]
            BY <1>5 DEF Clear, Go
        <2>2. njobs \in {0, NJobs} /\ writing = 0
            BY <1>3, <1>4, <2>1 DEF TypesInv, Dispatching, InDdtr
        <2>3. \A u \in Pool : pc'[u] \in {"ready", "finish"} => njobs = NJobs
            BY <1>1, <1>3, <2>1, <2>2 DEF InDdtr
        <2> QED  BY <2>1, <2>2, <2>3 DEF Raising, flagVars
    <1>6. CASE AddThread(t)
        <2>1. /\ pc[t] = "add" /\ writing' = writing
              /\ pc' = [pc EXCEPT ![t] = IF band = NJobs THEN "ready" ELSE "add"]
              /\ jpc' = [jpc EXCEPT ![njobs + 1] = "wait"] /\ njobs' = njobs + 1
            BY <1>6 DEF AddThread, AddJob, ForEachBand, Go
        <2>2. njobs = band - 1 /\ writing = 0
            BY <1>4, <2>1 DEF TypesInv, Dispatching
        <2>3. \A u \in Pool : pc'[u] \in {"ready", "finish"} => njobs' = NJobs
            BY <1>1, <1>3, <2>1, <2>2 DEF InDdtr, Jobs
        <2>4. \A j \in Jobs : j <= njobs' => jpc'[j] # "none"
            BY <1>1, <2>1, <2>2 DEF Raising, Jobs
        <2> QED  BY <2>1, <2>2, <2>3, <2>4 DEF Raising
    <1>7. CASE pc[t] = "ready" /\ ReadyRead(band) /\ UNCHANGED <<pc, band>>
        BY <1>7 DEF Raising, ReadyRead
    <1>8. CASE ForEachBand(t, "ready", "finish") /\ ReadyWrite
        <2>1. /\ pc[t] = "ready" /\ writing' = 0 /\ UNCHANGED <<jpc, njobs>>
            BY <1>8 DEF ForEachBand, Go, ReadyWrite
        <2>2. njobs = NJobs
            BY <2>1 DEF Raising
        <2> QED  BY <2>1, <2>2 DEF Raising
    <1>9. CASE AwaitBand(t)
        <2>1. pc[t] = "finish" /\ UNCHANGED flagVars
            BY <1>9 DEF AwaitBand, ForEachBand, Go
        <2>2. njobs = NJobs /\ writing = 0
            BY <1>4, <2>1 DEF Raising
        <2> QED  BY <2>1, <2>2 DEF Raising, flagVars
    <1> QED  BY <1>5, <1>6, <1>7, <1>8, <1>9 DEF RaiseFlag, ddtrVars

LEMMA StepRaising == TypesInv /\ Raising /\ [Next]_vars => Raising'
    <1> SUFFICES ASSUME TypesInv, Raising, [Next]_vars  PROVE  Raising'
        OBVIOUS
    <1>1. CASE HandOn
        BY <1>1, ElsewhereRaising DEF HandOn, ddtrVars
    <1>2. ASSUME NEW t \in Pool,
                 \/ TakeBlock(t) \/ StartDdtr(t) \/ StartSearch(t) \/ Integrate(t)
                 \/ Downsample(t) \/ Swap(t) \/ Submit(t) \/ SearchEnds(t) \/ MakeList(t)
          PROVE  Raising'
        <2>1. UNCHANGED <<flagVars, band>>
            BY <1>2 DEF TakeBlock, StartDdtr, StartSearch, Integrate, Downsample, Swap, Submit,
                        SearchEnds, MakeList, ddtrVars
        <2>2. \E from \in PoolPlaces \ {"ready"}, to \in PoolPlaces \ {"ready", "finish"} :
                  Go(t, from, to)
            BY <1>2 DEF TakeBlock, StartDdtr, StartSearch, Integrate, Downsample, Swap, Submit,
                        SearchEnds, MakeList, PoolPlaces, InDdtr
        <2> QED  BY <2>1, <2>2, ElsewhereRaising
    <1>3. ASSUME NEW t \in Pool, Clear(t) \/ AddThread(t) \/ RaiseFlag(t) \/ AwaitBand(t)
          PROVE  Raising'
        BY <1>3, LoopRaising
    <1>4. ASSUME NEW b \in Bands, JobStep(b)  PROVE  Raising'
        <2>1. jpc \in [Jobs -> {"none", "wait", "run", "reset", "write"}]
            BY DEF TypesInv, TypeOK, FlagsOK
        <2>2. UNCHANGED <<pc, band, njobs, writing>>
            BY <1>4 DEF JobStep, JobBegins, JobEnds, JobResets, Wake, JobDone, ResetRead,
                        ResetWrite, ddtrVars
        <2>3. \E place \in {"wait", "run", "reset", "write"} : jpc' = [jpc EXCEPT ![b] = place]
            BY <1>4 DEF JobStep, JobBegins, JobEnds, JobResets, Wake, JobDone, ResetRead,
                        ResetWrite
        <2>4. \A j \in Jobs : jpc'[j] = "none" => jpc[j] = "none"
            BY <2>1, <2>3
        <2> QED  BY <2>2, <2>4 DEF Raising
    <1>5. CASE UNCHANGED vars
        BY <1>5, ElsewhereRaising DEF vars, ddtrVars
    <1> QED  BY <1>1, <1>2, <1>3, <1>4, <1>5 DEF Next, PoolStep

\* The pool threads, which wait for a mutex, and the dispatcher and the bands'
\* threads, which poll each other's flags, never all wait: not even when a write of a
\* flag is lost or blocks overtake each other.
THEOREM NobodyWaitsInVain ==
    ASSUME Pool # {}
    PROVE  Spec => []NoDeadlock
    <1>1. Init => Raising
        BY FlagsAssumption DEF Init, FlagsInit, Raising, Jobs
    <1>2. TypesInv /\ Raising => NoDeadlock
        <2> SUFFICES ASSUME TypesInv, Raising, queue # <<>> \/ (\E t \in Pool : pc[t] # "idle"),
                            \A t \in Pool : ~CanGoOn(t), \A b \in Bands : ~CanWork(b)
                     PROVE  FALSE
            BY DEF NoDeadlock
        <2>1. /\ pc \in [Pool -> PoolPlaces] /\ band \in Jobs /\ writing \in Jobs \cup {0}
              /\ jpc \in [Jobs -> {"none", "wait", "run", "reset", "write"}]
              /\ mutex \in Pool \cup {NoThread}
            BY DEF TypesInv, TypeOK, FlagsOK, PoolPlaces, InDdtr, Bands
        <2>2. \A t \in Pool : pc[t] \in {"idle", "lock", "ready", "finish"}
            BY <2>1 DEF CanGoOn
        <2>3. writing = 0
            BY <2>2 DEF Raising, CanGoOn
        <2>4. \A b \in Jobs : jpc[b] # "write"
            BY DEF CanWork, Bands
        <2>5. Writers = {} /\ \A b \in Jobs : MutexFree(b) /\ MayRead(b)
            BY <2>3, <2>4 DEF Writers, MutexFree, MayRead, Jobs
        <2>6. \A t \in Pool : pc[t] # "ready"
            BY <2>1, <2>5 DEF CanGoOn
        <2>7. \A t \in Pool : pc[t] # "finish"
            <3> SUFFICES ASSUME NEW t \in Pool, pc[t] = "finish"  PROVE  FALSE
                OBVIOUS
            <3>1. word[band]
                BY <2>1, <2>5 DEF CanGoOn, Finished
            <3>2. jpc[band] \in {"wait", "run", "reset", "write"}
                BY <2>1, FlagsAssumption DEF Raising, Jobs
            <3>3. CanWork(band)
                BY <2>1, <2>5, <3>1, <3>2 DEF CanWork
            <3> QED  BY <2>1, <3>3 DEF Bands
        <2>8. \A t \in Pool : pc[t] \in {"idle", "lock"}
            BY <2>2, <2>6, <2>7
        <2>9. mutex = NoThread
            BY <2>1, <2>8 DEF TypesInv, HolderInside, InDdtr
        <2> QED  BY <2>8, <2>9 DEF CanGoOn
    <1> QED  BY <1>1, <1>2, DispatchInductive, StepRaising, PTL DEF Spec

-------------------------------------------------------------------------------
(* The trials, however close blocks come *)

\* The ranges that are finished hold the block, and so will the others.
Dedispersed ==
    \A t \in Pool : pc[t] \in InDdtr =>
        /\ dm.start = block
        /\ \A r \in Ranges :
               r < range \/ (r = range /\ pc[t] \in {"downsample", "swap"}) => dm.rows[r] = block
        /\ pc[t] = "swap" => range = NRanges

WholeInv == TypesInv /\ BandsInv /\ Dedispersed

\* Only the thread that has the mutex can disturb it.
LEMMA DedispersedOf ==
    ASSUME TypesInv', NEW t \in Pool, pc'[t] \in InDdtr,
           dm'.start = block',
           \A r \in Ranges :
               r < range' \/ (r = range' /\ pc'[t] \in {"downsample", "swap"}) => dm'.rows[r] = block',
           pc'[t] = "swap" => range' = NRanges
    PROVE  Dedispersed'
    <1>1. \A u \in Pool \ {t} : pc'[u] \notin InDdtr
        BY DEF TypesInv, HolderInside
    <1> QED  BY <1>1 DEF Dedispersed

LEMMA StepKeepsDedispersed ==
    ASSUME WholeInv, TypesInv', [Next]_vars
    PROVE  Dedispersed'
    <1>1. /\ pc \in [Pool -> PoolPlaces] /\ range \in 1 .. NRanges /\ NRanges \in Nat
          /\ dm \in Trials /\ block \in Nat
        BY ConstantsAssumption DEF WholeInv, TypesInv, TypeOK, PoolPlaces, InDdtr, Ranges, Blocks
    <1>2. CASE HandOn \/ UNCHANGED vars \/ \E b \in Bands : JobStep(b)
        <2>1. UNCHANGED <<pc, block, range, dm>>
            BY <1>2 DEF HandOn, vars, JobStep, JobBegins, JobEnds, JobResets, ddtrVars
        <2> QED  BY <2>1 DEF WholeInv, Dedispersed
    <1>3. ASSUME NEW t \in Pool,
                 TakeBlock(t) \/ StartSearch(t) \/ Submit(t) \/ SearchEnds(t) \/ MakeList(t)
          PROVE  Dedispersed'
        <2>1. /\ UNCHANGED <<block, range, dm>>
              /\ \E from, to \in PoolPlaces \ InDdtr : Go(t, from, to)
            BY <1>3 DEF TakeBlock, StartSearch, Submit, SearchEnds, MakeList, ddtrVars,
                        PoolPlaces, InDdtr
        <2>2. \A u \in Pool : pc'[u] \in InDdtr => pc[u] = pc'[u]
            BY <1>1, <2>1 DEF Go
        <2> QED  BY <2>1, <2>2 DEF WholeInv, Dedispersed
    <1>4. ASSUME NEW t \in Pool, StartDdtr(t)  PROVE  Dedispersed'
        <2>1. /\ pc'[t] = "clear" /\ range' = 1 /\ block' = task[t]
              /\ dm' = [dm EXCEPT !.start = task[t]]
            BY <1>1, <1>4 DEF StartDdtr, Go
        <2>2. dm'.start = block' /\ \A r \in Ranges : ~(r < range')
            BY <1>1, <2>1 DEF Trials, Ranges
        <2> QED  BY <2>1, <2>2, DedispersedOf DEF InDdtr
    <1>5. ASSUME NEW t \in Pool, Clear(t) \/ AddThread(t) \/ RaiseFlag(t) \/ AwaitBand(t)
          PROVE  Dedispersed'
        <2> DEFINE Loops == {"clear", "add", "ready", "finish", "integrate"}
        <2>1. /\ UNCHANGED <<block, range, dm>> /\ pc[t] \in Loops
              /\ pc' = pc \/ \E to \in Loops : pc' = [pc EXCEPT ![t] = to]
            BY <1>5 DEF Clear, AddThread, RaiseFlag, AwaitBand, ForEachBand, Go, ddtrVars
        <2>2. pc'[t] \in Loops
            BY <1>1, <2>1
        <2>3. dm.start = block /\ \A r \in Ranges : r < range => dm.rows[r] = block
            BY <2>1 DEF WholeInv, Dedispersed, InDdtr
        <2> QED  BY <2>1, <2>2, <2>3, DedispersedOf DEF InDdtr
    <1>6. ASSUME NEW t \in Pool, Integrate(t)  PROVE  Dedispersed'
        <2>1. /\ pc[t] = "integrate" /\ pc'[t] = "downsample" /\ UNCHANGED <<block, range>>
              /\ dm'.start = dm.start
              /\ dm'.rows = [dm.rows EXCEPT ![range] = IF Complete THEN block ELSE Torn]
            BY <1>1, <1>6 DEF Integrate, Go, ddtrVars
        <2>2. Complete
            <3>1. Place = "integrate"
                BY <2>1, Holder DEF WholeInv, InDdtr
            <3> QED  BY <3>1 DEF WholeInv, BandsInv, BandsAt, Done, Complete, Bands
        <2>3. dm.start = block /\ \A r \in Ranges : r < range => dm.rows[r] = block
            BY <2>1 DEF WholeInv, Dedispersed, InDdtr
        <2>4. \A r \in Ranges : r < range \/ r = range => dm'.rows[r] = block
            BY <1>1, <2>1, <2>2, <2>3 DEF Trials, Ranges
        <2> QED  BY <2>1, <2>3, <2>4, DedispersedOf DEF InDdtr
    <1>7. ASSUME NEW t \in Pool, Downsample(t)  PROVE  Dedispersed'
        <2>1. /\ pc[t] = "downsample" /\ UNCHANGED <<block, dm>>
              /\ pc'[t] = IF range = NRanges THEN "swap" ELSE "clear"
              /\ range' = IF range = NRanges THEN range ELSE range + 1
            BY <1>1, <1>7 DEF Downsample, Go
        <2>2. dm.start = block /\ \A r \in Ranges : r <= range => dm.rows[r] = block
            BY <1>1, <2>1 DEF WholeInv, Dedispersed, InDdtr, Ranges
        <2>3. \A r \in Ranges : r < range' \/ (r = range' /\ pc'[t] = "swap") => dm'.rows[r] = block'
            BY <1>1, <2>1, <2>2 DEF Ranges
        <2>4. pc'[t] \in {"clear", "swap"} /\ (pc'[t] = "swap" => range' = NRanges)
            BY <2>1
        <2> QED  BY <2>1, <2>2, <2>3, <2>4, DedispersedOf DEF InDdtr
    <1>8. ASSUME NEW t \in Pool, Swap(t)  PROVE  Dedispersed'
        <2>1. mutex' = NoThread
            BY <1>8 DEF Swap
        <2>2. \A u \in Pool : pc'[u] \notin InDdtr
            BY <2>1, ConstantsAssumption DEF TypesInv, HolderInside
        <2> QED  BY <2>2 DEF Dedispersed
    <1> QED  BY <1>2, <1>3, <1>4, <1>5, <1>6, <1>7, <1>8 DEF Next, PoolStep

LEMMA Whole ==
    ASSUME WholeInv, NEW t \in Pool, pc[t] = "swap"
    PROVE  dm = [rows |-> [r \in Ranges |-> block], start |-> block]
    <1>1. dm \in Trials /\ range \in 1 .. NRanges /\ NRanges \in Nat
        BY ConstantsAssumption DEF WholeInv, TypesInv, TypeOK, Ranges
    <1>2. dm.start = block /\ range = NRanges /\ \A r \in Ranges : r <= range => dm.rows[r] = block
        BY <1>1 DEF WholeInv, Dedispersed, InDdtr, Ranges
    <1>3. \A r \in Ranges : dm.rows[r] = block
        BY <1>1, <1>2 DEF Ranges
    <1>4. dm.rows = [r \in Ranges |-> block]
        BY <1>1, <1>3 DEF Trials
    <1> QED  BY <1>1, <1>2, <1>4 DEF Trials

LEMMA WholeInductive ==
    ASSUME Racy = FALSE
    PROVE  Spec => []WholeInv
    <1>1. Init => Dedispersed
        BY DEF Init, Dedispersed, InDdtr
    <1>2. TypesInv /\ BandsInv /\ Dedispersed /\ TypesInv' /\ [Next]_vars => Dedispersed'
        BY StepKeepsDedispersed DEF WholeInv
    <1>3. Spec => []Dedispersed
        BY <1>1, <1>2, DispatchInductive, BandsInductive, PTL DEF Spec
    <1>4. TypesInv /\ BandsInv /\ Dedispersed => WholeInv
        BY DEF WholeInv
    <1> QED  BY <1>3, <1>4, DispatchInductive, BandsInductive, PTL

\* The trials that DdtrWorker::operator() swaps for those of the search are of one
\* block, in every range, and dated by it, whatever searches and blocks are under
\* way at the same time.
THEOREM TrialsHandedOnAreWhole ==
    ASSUME Racy = FALSE
    PROVE  Spec => []TrialsAreWhole
    <1>1. WholeInv => TrialsAreWhole
        BY Whole DEF TrialsAreWhole
    <1> QED  BY <1>1, WholeInductive, PTL

-------------------------------------------------------------------------------
(* The searches, as long as blocks come in turn and none is swapped while a search is *)
(* not over                                                                         *)

Places == {"submit", "search", "list"}
Waits(i) == i \in DOMAIN queue /\ queue[i] = Search

\* There is one search at most, in the queue or with a thread.
OneSearch ==
    /\ \A i, j \in Nat : Waits(i) /\ Waits(j) => i = j
    /\ \A t, u \in Pool : pc[t] \in Places /\ pc[u] \in Places => t = u
    /\ \A i \in Nat, t \in Pool : ~(Waits(i) /\ pc[t] \in Places)

\* The block that was swapped last.
Swapped == IF mutex = NoThread THEN block ELSE block - 1

\* There is a list for each block that was swapped, but for the one whose search is not
\* over; who has ended its search has left the sums of that block.
Searches ==
    /\ mutex # NoThread => block # 0
    /\ OneSearch
    /\ Swapped = IF Pending THEN Len(lists) + 1 ELSE Len(lists)
    /\ \A r \in Ranges : sp.rows[r] = Swapped
    /\ \A t \in Pool : pc[t] \in {"search", "list"} =>
           seen[t] = {Swapped} /\ after[t] = {Len(lists)}
    /\ sums = {IF \E t \in Pool : pc[t] = "list" THEN Swapped ELSE Len(lists)}
    /\ \A i \in DOMAIN lists : lists[i].blocks = {i} /\ lists[i].after = {i - 1}

\* The trials of a search are dated by its block, and are not while there is none.
Dates ==
    /\ Pending => mutex = NoThread /\ sp.start = Swapped
    /\ \A i \in DOMAIN lists : lists[i].start = i

TidyInv ==
    /\ met \subseteq {"begin"} => Searches
    /\ met = {} => Dates

LEMMA InitTidyInv == Init => TidyInv
    <1> SUFFICES ASSUME Init  PROVE  TidyInv
        OBVIOUS
    <1> USE DEF Init
    <1>1. ~Pending
        BY DEF Pending
    <1>2. OneSearch
        BY DEF OneSearch, Waits, Places
    <1>3. Swapped = 0 /\ Len(lists) = 0 /\ DOMAIN lists = {}
        BY DEF Swapped
    <1>4. \A r \in Ranges : sp.rows[r] = 0
        BY DEF NoTrials, Torn
    <1>5. Searches
        BY <1>1, <1>2, <1>3, <1>4 DEF Searches
    <1>6. Dates
        BY <1>1, <1>3 DEF Dates
    <1> QED  BY <1>5, <1>6 DEF TidyInv

\* What the types say here
LEMMA Ranging ==
    ASSUME TypesInv
    PROVE  /\ pc \in [Pool -> PoolPlaces] /\ queue \in Seq(Nat)
           /\ blocks \in Nat /\ block \in Nat /\ Len(lists) \in Nat
           /\ DOMAIN lists = 1 .. Len(lists)
           /\ lists \in Seq([blocks : SUBSET Blocks, after : SUBSET Blocks, start : Blocks])
           /\ dm \in Trials /\ sp \in Trials
           /\ DOMAIN seen = Pool /\ DOMAIN after = Pool
           /\ (Swapped \in Int)
    <1>1. /\ pc \in [Pool -> PoolPlaces] /\ queue \in Seq(Blocks)
          /\ lists \in Seq([blocks : SUBSET Blocks, after : SUBSET Blocks, start : Blocks])
          /\ blocks \in Blocks /\ block \in Blocks /\ dm \in Trials /\ sp \in Trials
          /\ DOMAIN seen = Pool /\ DOMAIN after = Pool
        BY DEF TypesInv, TypeOK, PoolPlaces, InDdtr
    <1>2. Blocks \subseteq Nat
        BY DEF Blocks
    <1>3. queue \in Seq(Nat) /\ blocks \in Nat /\ block \in Nat
        BY <1>1, <1>2
    <1>4. Len(lists) \in Nat /\ DOMAIN lists = 1 .. Len(lists)
        BY <1>1
    <1>5. Swapped \in Int
        BY <1>3 DEF Swapped
    <1> QED  BY <1>1, <1>3, <1>4, <1>5

\* A search is pending when it waits or is with a thread.
LEMMA PendingIs ==
    ASSUME queue \in Seq(Nat)
    PROVE  Pending <=> (\E i \in Nat : Waits(i)) \/ (\E t \in Pool : pc[t] \in Places)
    <1>1. DOMAIN queue \subseteq Nat
        OBVIOUS
    <1> QED  BY <1>1 DEF Pending, Waits, Places

\* The queue without its head, which is no search, or with another task that is none
LEMMA QueueMoves ==
    ASSUME queue \in Seq(Nat), NEW k \in Nat
    PROVE  /\ queue' = Append(queue, k) /\ k # Search => \A i \in Nat : Waits(i)' <=> Waits(i)
           /\ queue' = Append(queue, Search) => \A i \in Nat : Waits(i)' <=> Waits(i) \/ i = Len(queue) + 1
           /\ queue # <<>> /\ queue' = Tail(queue) => \A i \in Nat \ {0} : Waits(i)' <=> Waits(i + 1)
           /\ queue # <<>> /\ queue' = Tail(queue) => ~Waits(0)'
           /\ queue # <<>> => (Waits(1) <=> Head(queue) = Search)
           /\ ~Waits(0)
    <1>1. DOMAIN queue = 1 .. Len(queue) /\ Len(queue) \in Nat /\ Search \in Nat
        BY DEF Search
    <1>2. ~Waits(0)
        BY <1>1 DEF Waits
    <1>3. ASSUME NEW x \in Nat, queue' = Append(queue, x), NEW i \in Nat
          PROVE  Waits(i)' <=> Waits(i) \/ (i = Len(queue) + 1 /\ x = Search)
        <2>1. /\ DOMAIN queue' = 1 .. Len(queue) + 1
              /\ \A j \in 1 .. Len(queue) : queue'[j] = queue[j]
              /\ queue'[Len(queue) + 1] = x
            BY <1>1, <1>3
        <2> QED  BY <1>1, <2>1 DEF Waits
    <1>4. ASSUME queue # <<>>, queue' = Tail(queue), NEW i \in Nat
          PROVE  (i # 0 => (Waits(i)' <=> Waits(i + 1))) /\ (i = 0 => ~Waits(i)')
        <2>1. Len(queue) # 0
            BY <1>4
        <2>2. /\ DOMAIN queue' = 1 .. (Len(queue) - 1)
              /\ \A j \in 1 .. (Len(queue) - 1) : queue'[j] = queue[j + 1]
            BY <1>1, <1>4, <2>1
        <2> QED  BY <1>1, <2>1, <2>2 DEF Waits
    <1>5. queue # <<>> => (Waits(1) <=> Head(queue) = Search)
        BY <1>1 DEF Waits
    <1> QED  BY <1>1, <1>2, <1>3, <1>4, <1>5

\* What neither searches nor moves a search
LEMMA QuietKeeps ==
    ASSUME TidyInv, UNCHANGED <<block, mutex, sp, sums, seen, after, lists, met>>,
           \A u \in Pool : pc'[u] = pc[u] \/ (pc[u] \notin Places /\ pc'[u] \notin Places),
           Pending' <=> Pending, OneSearch => OneSearch'
    PROVE  TidyInv'
    <1>1. Swapped' = Swapped
        BY DEF Swapped
    <1>2. \A u \in Pool : (pc'[u] = "list" <=> pc[u] = "list")
                          /\ (pc'[u] \in {"search", "list"} <=> pc[u] \in {"search", "list"})
        BY DEF Places
    <1>3. Searches => Searches'
        BY <1>1, <1>2 DEF Searches
    <1>4. Dates => Dates'
        BY <1>1 DEF Dates
    <1> QED  BY <1>3, <1>4 DEF TidyInv

LEMMA NatTasks ==
    ASSUME NEW q \in Seq(Blocks)
    PROVE  q \in Seq(Nat)
    <1>1. Blocks \subseteq Nat
        BY DEF Blocks
    <1>2. Len(q) \in Nat /\ \A i \in 1 .. Len(q) : q[i] \in Nat
        <2>1. Len(q) \in Nat /\ \A i \in 1 .. Len(q) : q[i] \in Blocks
            OBVIOUS
        <2> QED  BY <1>1, <2>1
    <1>3. q = [i \in 1 .. Len(q) |-> q[i]]
        OBVIOUS
    <1>4. [i \in 1 .. Len(q) |-> q[i]] \in Seq(Nat)
        BY <1>2
    <1> QED  BY <1>3, <1>4

LEMMA QueueQuiet ==
    ASSUME TypesInv, TypesInv',
           \A u \in Pool : pc'[u] = pc[u] \/ (pc[u] \notin Places /\ pc'[u] \notin Places),
           \/ UNCHANGED queue
           \/ queue' = Append(queue, blocks + 1)
           \/ queue # <<>> /\ Head(queue) # Search /\ queue' = Tail(queue)
    PROVE  (Pending' <=> Pending) /\ (OneSearch => OneSearch')
    <1>1. queue \in Seq(Nat) /\ queue' \in Seq(Nat) /\ blocks + 1 \in Nat /\ blocks + 1 # Search
        <2>1. queue \in Seq(Nat) /\ blocks \in Nat
            BY Ranging
        <2>2. queue' \in Seq(Blocks)
            BY DEF TypesInv, TypeOK
        <2>3. queue' \in Seq(Nat)
            BY <2>2, NatTasks
        <2> QED  BY <2>1, <2>3 DEF Search
    <1>2. \A u \in Pool : pc'[u] \in Places <=> pc[u] \in Places
        OBVIOUS
    <1>3. (Pending <=> (\E i \in Nat : Waits(i)) \/ (\E t \in Pool : pc[t] \in Places))
          /\ (Pending' <=> (\E i \in Nat : Waits(i)') \/ (\E t \in Pool : pc'[t] \in Places))
        <2>1. Pending <=> (\E i \in Nat : Waits(i)) \/ (\E t \in Pool : pc[t] \in Places)
            BY <1>1, PendingIs
        <2>2. DOMAIN queue' \subseteq Nat
            BY <1>1
        <2>3. Pending' <=> (\E i \in Nat : Waits(i)') \/ (\E t \in Pool : pc'[t] \in Places)
            BY <2>2 DEF Pending, Waits, Places
        <2> QED  BY <2>1, <2>3
    <1>4. CASE \A i \in Nat : Waits(i)' <=> Waits(i)
        BY <1>2, <1>3, <1>4 DEF OneSearch
    <1>5. CASE queue # <<>> /\ Head(queue) # Search /\ queue' = Tail(queue)
        <2>1. /\ \A i \in Nat \ {0} : Waits(i)' <=> Waits(i + 1)
              /\ ~Waits(0)' /\ ~Waits(0) /\ ~Waits(1)
            BY <1>1, <1>5, QueueMoves
        <2>2. (\E i \in Nat : Waits(i)') <=> (\E i \in Nat : Waits(i))
            <3>1. ASSUME NEW i \in Nat, Waits(i)  PROVE  Waits(i - 1)' /\ i - 1 \in Nat
                <4>1. i - 1 \in Nat \ {0} /\ (i - 1) + 1 = i
                    BY <2>1, <3>1
                <4> QED  BY <2>1, <3>1, <4>1
            <3>2. ASSUME NEW i \in Nat, Waits(i)'  PROVE  Waits(i + 1) /\ i + 1 \in Nat
                BY <2>1, <3>2
            <3> QED  BY <3>1, <3>2
        <2>3. OneSearch => OneSearch'
            <3>1. SUFFICES ASSUME OneSearch  PROVE  OneSearch'
                OBVIOUS
            <3>2. \A i \in Nat : Waits(i)' => Waits(i + 1) /\ i + 1 \in Nat
                BY <2>1
            <3>3. \A i, j \in Nat : Waits(i)' /\ Waits(j)' => i = j
                BY <3>1, <3>2 DEF OneSearch
            <3>4. \A i \in Nat, u \in Pool : ~(Waits(i)' /\ pc'[u] \in Places)
                BY <1>2, <3>1, <3>2 DEF OneSearch
            <3> QED  BY <1>2, <3>1, <3>3, <3>4 DEF OneSearch
        <2> QED  BY <1>2, <1>3, <2>2, <2>3
    <1>6. CASE queue' = Append(queue, blocks + 1)
        BY <1>1, <1>4, <1>6, QueueMoves
    <1>7. CASE UNCHANGED queue
        BY <1>4, <1>7 DEF Waits
    <1> QED  BY <1>5, <1>6, <1>7

LEMMA StartDdtrTidy ==
    ASSUME TidyInv, TypesInv, TypesInv', NEW t \in Pool, StartDdtr(t)
    PROVE  TidyInv'
    <1>1. /\ pc[t] = "lock" /\ pc' = [pc EXCEPT ![t] = "clear"] /\ mutex = NoThread /\ mutex' = t
          /\ block' = task[t] /\ sp' = [sp EXCEPT !.start = task[t]]
          /\ met' = met \cup Noting("order", task[t] # block + 1) \cup Noting("begin", Pending)
          /\ UNCHANGED <<queue, sums, seen, after, lists>>
        BY DEF StartDdtr, Go, poolVars, spdtVars
    <1>2. \A u \in Pool : pc'[u] = pc[u] \/ (pc[u] \notin Places /\ pc'[u] \notin Places)
        BY <1>1, Ranging DEF Places
    <1>3. (Pending' <=> Pending) /\ (OneSearch => OneSearch')
        BY <1>1, <1>2, QueueQuiet
    <1>4. ASSUME met' \subseteq {"begin"}  PROVE  Searches'
        <2>1. met \subseteq {"begin"} /\ task[t] = block + 1
            BY <1>1, <1>4 DEF Noting
        <2>2. Searches
            BY <2>1 DEF TidyInv
        <2>3. Swapped' = Swapped /\ block' # 0
            <3>1. block \in Nat /\ t # NoThread
                BY Ranging, ConstantsAssumption
            <3>2. Swapped' = (block + 1) - 1 /\ Swapped = block
                BY <1>1, <2>1, <3>1 DEF Swapped
            <3> QED  BY <1>1, <2>1, <3>1, <3>2
        <2>4. sp'.rows = sp.rows
            BY <1>1, Ranging DEF Trials
        <2>5. \A u \in Pool : (pc'[u] = "list" <=> pc[u] = "list")
                              /\ (pc'[u] \in {"search", "list"} <=> pc[u] \in {"search", "list"})
            BY <1>2 DEF Places
        <2> QED  BY <1>1, <1>3, <2>2, <2>3, <2>4, <2>5 DEF Searches
    <1>5. ASSUME met' = {}  PROVE  Dates'
        <2>1. met = {} /\ ~Pending
            BY <1>1, <1>5 DEF Noting
        <2> QED  BY <1>1, <1>3, <2>1 DEF TidyInv, Dates
    <1> QED  BY <1>4, <1>5 DEF TidyInv

\* The search that waits at the head of the queue is the only one.
LEMMA StartSearchTidy ==
    ASSUME TidyInv, TypesInv, TypesInv', NEW t \in Pool, StartSearch(t)
    PROVE  TidyInv'
    <1>1. /\ queue # <<>> /\ Head(queue) = Search /\ queue' = Tail(queue)
          /\ pc[t] = "idle" /\ pc' = [pc EXCEPT ![t] = "search"]
          /\ seen' = [seen EXCEPT ![t] = Searched] /\ after' = [after EXCEPT ![t] = sums]
          /\ UNCHANGED <<block, mutex, sp, sums, lists, met>>
        BY DEF StartSearch, Go, ddtrVars
    <1>2. /\ queue \in Seq(Nat)
          /\ \A i \in Nat \ {0} : Waits(i)' <=> Waits(i + 1)
          /\ ~Waits(0)' /\ Waits(1)
        <2>1. queue \in Seq(Nat)
            BY Ranging
        <2> QED  BY <1>1, <2>1, QueueMoves
    <1>3. /\ pc'[t] = "search" /\ \A u \in Pool \ {t} : pc'[u] = pc[u]
          /\ seen'[t] = Searched /\ after'[t] = sums
          /\ \A u \in Pool \ {t} : seen'[u] = seen[u] /\ after'[u] = after[u]
        BY <1>1, Ranging
    <1>4. Pending /\ Pending'
        BY <1>2, <1>3, PendingIs DEF Pending, Places
    <1>5. Swapped' = Swapped
        BY <1>1 DEF Swapped
    <1>6. ASSUME met' \subseteq {"begin"}  PROVE  Searches'
        <2>1. Searches
            BY <1>1, <1>6 DEF TidyInv
        <2>2. /\ \A u \in Pool : pc[u] \notin Places
              /\ \A i \in Nat : ~Waits(i)'
            <3>1. \A u \in Pool : pc[u] \notin Places
                BY <1>2, <2>1 DEF Searches, OneSearch
            <3>2. ASSUME NEW i \in Nat, Waits(i)'  PROVE  FALSE
                <4>1. i # 0 /\ Waits(i + 1) /\ i + 1 \in Nat /\ i + 1 # 1
                    BY <1>2, <3>2
                <4> QED  BY <1>2, <2>1, <4>1 DEF Searches, OneSearch
            <3> QED  BY <3>1, <3>2
        <2>3. OneSearch'
            <3>1. \A u, v \in Pool : pc'[u] \in Places /\ pc'[v] \in Places => u = v
                BY <1>3, <2>2
            <3> QED  BY <2>2, <3>1 DEF OneSearch
        <2>4. \A u \in Pool : pc[u] # "list" /\ pc'[u] # "list"
            BY <1>3, <2>2 DEF Places
        <2>5. sums = {Len(lists)} /\ Searched = {Swapped}
            <3>1. 1 \in Ranges
                BY ConstantsAssumption DEF Ranges
            <3> QED  BY <2>1, <2>4, <3>1 DEF Searches, Searched
        <2>6. \A u \in Pool : pc'[u] \in {"search", "list"} =>
                  seen'[u] = {Swapped} /\ after'[u] = {Len(lists)}
            BY <1>3, <2>2, <2>5 DEF Places
        <2> QED  BY <1>1, <1>4, <1>5, <2>1, <2>3, <2>4, <2>6 DEF Searches
    <1>7. Dates => Dates'
        BY <1>1, <1>4, <1>5 DEF Dates
    <1> QED  BY <1>1, <1>6, <1>7 DEF TidyInv

LEMMA SwapTidy ==
    ASSUME TidyInv, WholeInv, TypesInv', NEW t \in Pool, Swap(t)
    PROVE  TidyInv'
    <1>0. TypesInv
        BY DEF WholeInv
    <1>1. /\ pc[t] = "swap" /\ pc' = [pc EXCEPT ![t] = "submit"] /\ mutex' = NoThread
          /\ dm' = sp /\ sp' = dm /\ met' = met \cup Noting("swap", Pending)
          /\ UNCHANGED <<queue, block, sums, seen, after, lists>>
        BY DEF Swap, Go, poolVars, ddtrVars, spdtVars
    <1>2. mutex = t /\ mutex # NoThread
        BY <1>0, <1>1, ConstantsAssumption DEF TypesInv, HolderInside, InDdtr
    <1>3. sp' = [rows |-> [r \in Ranges |-> block], start |-> block]
        BY <1>1, Whole
    <1>4. pc'[t] = "submit" /\ \A u \in Pool \ {t} : pc'[u] = pc[u]
        BY <1>0, <1>1, Ranging
    <1>5. Pending' /\ Swapped' = block
        BY <1>1, <1>4 DEF Pending, Swapped
    <1>6. ASSUME met' \subseteq {"begin"}  PROVE  Searches'
        <2>1. Searches /\ ~Pending
            BY <1>1, <1>6 DEF TidyInv, Noting
        <2>2. block = Len(lists) + 1
            BY <1>0, <1>2, <2>1, Ranging DEF Searches, Swapped
        <2>3. (\A i \in Nat : ~Waits(i)) /\ (\A u \in Pool : pc[u] \notin Places)
            BY <1>0, <2>1, PendingIs, Ranging
        <2>4. OneSearch'
            <3>1. \A i \in Nat : ~Waits(i)'
                BY <1>1, <2>3 DEF Waits
            <3>2. \A u, v \in Pool : pc'[u] \in Places /\ pc'[v] \in Places => u = v
                BY <1>4, <2>3
            <3> QED  BY <3>1, <3>2 DEF OneSearch
        <2>5. \A u \in Pool : pc[u] # "list" /\ pc'[u] \notin {"search", "list"}
            BY <1>4, <2>3 DEF Places
        <2>6. sums = {Len(lists)}
            BY <2>1, <2>5 DEF Searches
        <2>7. \A r \in Ranges : sp'.rows[r] = Swapped'
            BY <1>3, <1>5
        <2> QED  BY <1>1, <1>5, <2>1, <2>2, <2>4, <2>5, <2>6, <2>7 DEF Searches
    <1>7. ASSUME met' = {}  PROVE  Dates'
        <2>1. Dates
            BY <1>1, <1>7 DEF TidyInv
        <2> QED  BY <1>1, <1>3, <1>5, <2>1 DEF Dates
    <1> QED  BY <1>6, <1>7 DEF TidyInv

LEMMA SubmitTidy ==
    ASSUME TidyInv, TypesInv, TypesInv', NEW t \in Pool, Submit(t)
    PROVE  TidyInv'
    <1>1. /\ queue' = Append(queue, Search) /\ pc[t] = "submit" /\ pc' = [pc EXCEPT ![t] = "idle"]
          /\ UNCHANGED <<block, mutex, sp, sums, seen, after, lists, met>>
        BY DEF Submit, Go, ddtrVars, spdtVars
    <1>2. /\ queue \in Seq(Nat) /\ Len(queue) + 1 \in Nat
          /\ \A i \in Nat : Waits(i)' <=> Waits(i) \/ i = Len(queue) + 1
        BY <1>1, Ranging, QueueMoves
    <1>3. pc'[t] = "idle" /\ \A u \in Pool \ {t} : pc'[u] = pc[u]
        BY <1>1, Ranging
    <1>4. Pending /\ Pending'
        <2> DEFINE n == Len(queue) + 1
        <2>1. n \in DOMAIN queue' /\ queue'[n] = Search
            BY <1>1, <1>2
        <2> QED  BY <1>1, <2>1 DEF Pending
    <1>5. Swapped' = Swapped
        BY <1>1 DEF Swapped
    <1>6. ASSUME met' \subseteq {"begin"}  PROVE  Searches'
        <2>1. Searches
            BY <1>1, <1>6 DEF TidyInv
        <2>2. (\A i \in Nat : ~Waits(i)) /\ (\A u \in Pool \ {t} : pc[u] \notin Places)
            BY <1>1, <2>1 DEF Searches, OneSearch, Places
        <2>3. OneSearch'
            <3>1. \A u \in Pool : pc'[u] \notin Places
                BY <1>3, <2>2 DEF Places
            <3>2. \A i, j \in Nat : Waits(i)' /\ Waits(j)' => i = j
                BY <1>2, <2>2
            <3> QED  BY <3>1, <3>2 DEF OneSearch
        <2>4. \A u \in Pool : pc[u] # "list" /\ pc'[u] \notin {"search", "list"}
            BY <1>1, <1>3, <2>2 DEF Places
        <2> QED  BY <1>1, <1>4, <1>5, <2>1, <2>3, <2>4 DEF Searches
    <1>7. Dates => Dates'
        BY <1>1, <1>4, <1>5 DEF Dates
    <1> QED  BY <1>1, <1>6, <1>7 DEF TidyInv

LEMMA SearchEndsTidy ==
    ASSUME TidyInv, TypesInv, TypesInv', NEW t \in Pool, SearchEnds(t)
    PROVE  TidyInv'
    <1>1. /\ pc[t] = "search" /\ pc' = [pc EXCEPT ![t] = "list"]
          /\ seen' = [seen EXCEPT ![t] = @ \cup Searched] /\ after' = [after EXCEPT ![t] = @ \cup sums]
          /\ sums' = Searched /\ UNCHANGED <<queue, block, mutex, sp, lists, met>>
        BY DEF SearchEnds, Go, poolVars, ddtrVars
    <1>2. /\ pc'[t] = "list" /\ \A u \in Pool \ {t} : pc'[u] = pc[u]
          /\ seen'[t] = seen[t] \cup Searched /\ after'[t] = after[t] \cup sums
          /\ \A u \in Pool \ {t} : seen'[u] = seen[u] /\ after'[u] = after[u]
        BY <1>1, Ranging
    <1>3. Pending /\ Pending'
        BY <1>1, <1>2 DEF Pending
    <1>4. Swapped' = Swapped
        BY <1>1 DEF Swapped
    <1>5. ASSUME met' \subseteq {"begin"}  PROVE  Searches'
        <2>1. Searches
            BY <1>1, <1>5 DEF TidyInv
        <2>2. (\A i \in Nat : ~Waits(i)) /\ (\A u \in Pool \ {t} : pc[u] \notin Places)
            BY <1>1, <2>1 DEF Searches, OneSearch, Places
        <2>3. OneSearch'
            <3>1. \A i \in Nat : ~Waits(i)'
                BY <1>1, <2>2 DEF Waits
            <3>2. \A u, v \in Pool : pc'[u] \in Places /\ pc'[v] \in Places => u = v
                BY <1>2, <2>2
            <3> QED  BY <3>1, <3>2 DEF OneSearch
        <2>4. \A u \in Pool : pc[u] # "list"
            BY <1>1, <2>2 DEF Places
        <2>5. Searched = {Swapped}
            <3>1. 1 \in Ranges
                BY ConstantsAssumption DEF Ranges
            <3> QED  BY <2>1, <3>1 DEF Searches, Searched
        <2>6. /\ sums = {Len(lists)} /\ seen[t] = {Swapped} /\ after[t] = {Len(lists)}
            BY <1>1, <2>1, <2>4 DEF Searches
        <2>7. seen'[t] = {Swapped} /\ after'[t] = {Len(lists)}
            BY <1>2, <2>5, <2>6
        <2>8. \A u \in Pool : pc'[u] \in {"search", "list"} =>
                  seen'[u] = {Swapped} /\ after'[u] = {Len(lists)}
            BY <1>2, <2>2, <2>7 DEF Places
        <2> QED  BY <1>1, <1>2, <1>3, <1>4, <2>1, <2>3, <2>5, <2>8 DEF Searches
    <1>6. Dates => Dates'
        BY <1>1, <1>3, <1>4 DEF Dates
    <1> QED  BY <1>1, <1>5, <1>6 DEF TidyInv

LEMMA MakeListTidy ==
    ASSUME TidyInv, TypesInv, TypesInv', NEW t \in Pool, MakeList(t)
    PROVE  TidyInv'
    <1> DEFINE l == [blocks |-> seen[t], after |-> after[t], start |-> sp.start]
    <1>1. /\ pc[t] = "list" /\ pc' = [pc EXCEPT ![t] = "idle"] /\ lists' = Append(lists, l)
          /\ UNCHANGED <<queue, block, mutex, sp, sums, seen, after, met>>
        BY DEF MakeList, Go, poolVars, ddtrVars
    <1>2. pc'[t] = "idle" /\ \A u \in Pool \ {t} : pc'[u] = pc[u]
        BY <1>1, Ranging
    <1>3. Pending /\ Swapped' = Swapped
        BY <1>1 DEF Pending, Swapped
    <1> HIDE DEF l
    <1>4. /\ Len(lists) \in Nat /\ DOMAIN lists = 1 .. Len(lists)
          /\ Len(lists') = Len(lists) + 1 /\ DOMAIN lists' = 1 .. (Len(lists) + 1)
          /\ lists'[Len(lists) + 1] = l /\ \A i \in 1 .. Len(lists) : lists'[i] = lists[i]
        <2>1. /\ Len(lists) \in Nat /\ DOMAIN lists = 1 .. Len(lists)
              /\ lists \in Seq([blocks : SUBSET Blocks, after : SUBSET Blocks, start : Blocks])
            BY Ranging
        <2> QED  BY <1>1, <2>1
    <1>5. ASSUME met' \subseteq {"begin"}  PROVE  Searches' /\ Swapped = Len(lists) + 1
        <2>1. Searches
            BY <1>1, <1>5 DEF TidyInv
        <2>2. Swapped = Len(lists) + 1 /\ sums = {Swapped}
              /\ seen[t] = {Swapped} /\ after[t] = {Len(lists)}
            BY <1>1, <1>3, <2>1 DEF Searches
        <2>3. (\A i \in Nat : ~Waits(i)) /\ (\A u \in Pool \ {t} : pc[u] \notin Places)
            BY <1>1, <2>1 DEF Searches, OneSearch, Places
        <2>4. (\A i \in Nat : ~Waits(i)') /\ (\A u \in Pool : pc'[u] \notin Places)
            BY <1>1, <1>2, <2>3 DEF Waits, Places
        <2>5. OneSearch' /\ ~Pending'
            <3>1. DOMAIN queue' \subseteq Nat
                BY <1>1, Ranging
            <3> QED  BY <2>4, <3>1 DEF OneSearch, Pending, Waits, Places
        <2>6. l.blocks = {Len(lists) + 1} /\ l.after = {Len(lists)}
            BY <2>2 DEF l
        <2>7. \A i \in DOMAIN lists' : lists'[i].blocks = {i} /\ lists'[i].after = {i - 1}
            <3>1. \A i \in 1 .. Len(lists) : lists'[i].blocks = {i} /\ lists'[i].after = {i - 1}
                BY <1>4, <2>1 DEF Searches
            <3>2. (Len(lists) + 1) - 1 = Len(lists)
                BY <1>4
            <3>3. \A i \in 1 .. (Len(lists) + 1) : i \in 1 .. Len(lists) \/ i = Len(lists) + 1
                BY <1>4
            <3> QED  BY <1>4, <2>6, <3>1, <3>2, <3>3
        <2>8. \A u \in Pool : pc'[u] \notin {"search", "list"}
            BY <2>4 DEF Places
        <2> QED  BY <1>1, <1>3, <1>4, <2>1, <2>2, <2>5, <2>7, <2>8 DEF Searches
    <1>6. ASSUME met' = {}  PROVE  Dates'
        <2>1. Dates /\ Swapped = Len(lists) + 1
            BY <1>1, <1>5, <1>6 DEF TidyInv
        <2>2. l.start = Len(lists) + 1 /\ mutex = NoThread /\ sp.start = Swapped
            BY <1>3, <2>1 DEF l, Dates
        <2>3. \A i \in DOMAIN lists' : lists'[i].start = i
            <3>1. \A i \in 1 .. Len(lists) : lists'[i].start = i
                BY <1>4, <2>1 DEF Dates
            <3>2. \A i \in 1 .. (Len(lists) + 1) : i \in 1 .. Len(lists) \/ i = Len(lists) + 1
                BY <1>4
            <3> QED  BY <1>4, <2>2, <3>1, <3>2
        <2> QED  BY <1>1, <1>3, <2>2, <2>3 DEF Dates
    <1> QED  BY <1>5, <1>6 DEF TidyInv

LEMMA StepKeepsTidy ==
    ASSUME TidyInv, WholeInv, TypesInv', [Next]_vars
    PROVE  TidyInv'
    <1>0. TypesInv /\ pc \in [Pool -> PoolPlaces]
        BY Ranging DEF WholeInv
    <1>1. CASE \/ HandOn \/ UNCHANGED vars
               \/ \E b \in Bands : JobStep(b)
               \/ \E t \in Pool : \/ TakeBlock(t) \/ Clear(t) \/ AddThread(t) \/ RaiseFlag(t)
                                  \/ AwaitBand(t) \/ Integrate(t) \/ Downsample(t)
        <2>1. UNCHANGED <<block, mutex, sp, sums, seen, after, lists, met>>
            BY <1>1 DEF HandOn, vars, JobStep, JobBegins, JobEnds, JobResets, TakeBlock, Clear,
                        AddThread, RaiseFlag, AwaitBand, ForEachBand, Integrate, Downsample,
                        ddtrVars, spdtVars
        <2>2. \/ UNCHANGED queue
              \/ queue' = Append(queue, blocks + 1)
              \/ queue # <<>> /\ Head(queue) # Search /\ queue' = Tail(queue)
            BY <1>1 DEF HandOn, vars, JobStep, JobBegins, JobEnds, JobResets, TakeBlock, Clear,
                        AddThread, RaiseFlag, AwaitBand, ForEachBand, Integrate, Downsample,
                        poolVars
        <2>3. pc' = pc \/ \E t \in Pool, from, to \in PoolPlaces \ Places : Go(t, from, to)
            BY <1>1 DEF HandOn, vars, JobStep, JobBegins, JobEnds, JobResets, TakeBlock, Clear,
                        AddThread, RaiseFlag, AwaitBand, ForEachBand, Integrate, Downsample,
                        PoolPlaces, InDdtr, Places
        <2>4. \A u \in Pool : pc'[u] = pc[u] \/ (pc[u] \notin Places /\ pc'[u] \notin Places)
            BY <1>0, <2>3 DEF Go
        <2> QED  BY <1>0, <2>1, <2>2, <2>4, QueueQuiet, QuietKeeps
    <1> QED  BY <1>0, <1>1, StartDdtrTidy, StartSearchTidy, SwapTidy, SubmitTidy, SearchEndsTidy,
                MakeListTidy DEF Next, PoolStep

\* As long as blocks are dedispersed in turn and none is swapped while a search is not
\* over, there is one search at most, for the block that was swapped last; whether
\* the next block has begun makes no difference to it.
THEOREM TidyInductive ==
    ASSUME Racy = FALSE
    PROVE  Spec => []TidyInv
    <1>1. TidyInv /\ WholeInv /\ TypesInv' /\ [Next]_vars => TidyInv'
        BY StepKeepsTidy
    <1> QED  BY <1>1, InitTidyInv, WholeInductive, DispatchInductive, PTL DEF Spec

\* In those runs the blocks are searched once each, in order and unmixed
\* (DmTrials::swap and the submission of the search), for any number of blocks under
\* way,
THEOREM OnceInOrder ==
    ASSUME Racy = FALSE
    PROVE  Spec => []EachBlockSearched
    <1>1. TidyInv => EachBlockSearched
        BY DEF TidyInv, Searches, EachBlockSearched
    <1> QED  BY <1>1, TidyInductive, PTL

\* and each search continues the sums of the one before (KlotskiCommon::_overlap).
THEOREM Continued ==
    ASSUME Racy = FALSE
    PROVE  Spec => []SearchGoesOn
    <1>1. TidyInv => SearchGoesOn
        BY DEF TidyInv, Searches, SearchGoesOn
    <1> QED  BY <1>1, TidyInductive, PTL

\* If no block even begins while a search is not over, each list has the start time of
\* its data (DdtrWorker::operator()).
THEOREM Dated ==
    ASSUME Racy = FALSE
    PROVE  Spec => []DatedWhenOver
    <1>1. TidyInv => DatedWhenOver
        BY DEF TidyInv, Dates, DatedWhenOver
    <1> QED  BY <1>1, TidyInductive, PTL
===============================================================================
