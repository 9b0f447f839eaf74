-------------------------- MODULE RfiSequencerProofs --------------------------
(***************************************************************************)
(* Proofs about RfiSequencer, for every ring size of at least two, every   *)
(* pool of threads, every set of addresses and every number of items.      *)
(*                                                                         *)
(* The argument: the pending items done+1 .. given occupy consecutive ring *)
(* slots from next on, each slot holding the item's address, and no two    *)
(* live items have the same address.  So of the handlers at most one finds *)
(* its own address at next, and it works on item done+1 unless a job has   *)
(* failed: then the address may be that of the job's data in another item. *)
(***************************************************************************)
EXTENDS RfiSequencer, Integers, TLAPS

Busy(w) == wpc[w] # "free"

\* The producer is inside operator(), between the store and the submission.
InCall == pc \in {"stored", "advanced", "submit"}

\* The ring index k places after i, for k no larger than Slots.
After(i, k) == IF i + k < Slots THEN i + k ELSE i + k - Slots
At(k) == After(next, k)

\* Counters: a pool thread has started every item whose handler is finished,
\* and the ring is never asked to hold more than Slots items.
Counters ==
    /\ done <= taken
    /\ taken <= given
    /\ given - done <= Slots

\* The job of w has not had its turn, or has it now.
Working(w) == wpc[w] \in {"sync", "output"}

\* A working thread has an item that is started and not handled, and no two threads
\* have the same item.
ItemsOfThreads ==
    /\ \A w \in Workers : Busy(w) => item[w] \in 1 .. taken
    /\ \A w \in Workers : Working(w) => item[w] \in done + 1 .. taken
    /\ \A v, w \in Workers : Busy(v) /\ Busy(w) /\ item[v] = item[w] => v = w

\* The slots from next on hold the addresses of the pending items.
SlotsOfPending == \A n \in Pending : slot[At(n - done - 1)] = addr[n]

AddressesDiffer ==
    /\ \A n \in Pending : addr[n] # NoAddr
    /\ \A m, n \in Live : addr[m] = addr[n] => m = n

\* While operator() runs there is room for the item, its slot holds its
\* address, and no live item has that address.
CallHasRoom ==
    InCall => /\ given < MaxItems
              /\ given - done < Slots
              /\ cur # NoAddr
              /\ slot[At(given - done)] = cur
              /\ \A n \in Live : addr[n] # cur

\* last is as far ahead of next as there are items in the ring.
LastIndex ==
    last = At(given - done + (IF pc \in {"advanced", "submit"} THEN 1 ELSE 0))

\* Outside of operator() the ring has room for one more item, except while
\* the producer is held back; a submission that finds hold false leaves room.
HoldKeepsRoom ==
    /\ pc \in {"idle", "closing", "closed"} => given - done < Slots
    /\ pc = "submit" /\ ~hold => given - done + 1 < Slots

\* The output handler is called for the address at next, which is that of the
\* first pending item, and log is 1, 2, ... up to the item in the output handler, if
\* there is one, both unless a job has failed.
OutputIsFirst ==
    /\ \A w \in Workers : wpc[w] = "output" =>
          /\ addr[item[w]] = slot[next]
          /\ item[w] = done + 1 \/ LostUpTo(done + 1)
    /\ \A k \in 1 .. Len(log) : log[k] = k \/ LostUpTo(k)
    /\ (\E w \in Workers : wpc[w] = "output") => Len(log) = done + 1
    /\ (\A w \in Workers : wpc[w] # "output") => Len(log) = done

\* A thread works on each item that was started and has not had its turn, unless a
\* job has failed.
StartedAreBusy ==
    \A n \in done + 1 .. taken :
        LostUpTo(n) \/ \E w \in Workers : Working(w) /\ item[w] = n

\* Only items that were started are in log or failed, none twice, and none of a
\* thread that is still waiting for its turn.
EachOnce ==
    /\ \A k \in 1 .. Len(log) : log[k] \in 1 .. taken /\ log[k] \notin lost
    /\ \A j, k \in 1 .. Len(log) : log[j] = log[k] => j = k
    /\ \A w \in Workers : wpc[w] = "sync" =>
          item[w] \notin lost /\ \A k \in 1 .. Len(log) : log[k] # item[w]
    /\ lost \subseteq 1 .. taken

ClosedIsDrained == pc = "closed" => given = done

\* The inductive invariant.
IInv ==
    /\ TypeOK
    /\ Counters
    /\ ItemsOfThreads
    /\ SlotsOfPending
    /\ AddressesDiffer
    /\ CallHasRoom
    /\ LastIndex
    /\ HoldKeepsRoom
    /\ OutputIsFirst
    /\ StartedAreBusy
    /\ EachOnce
    /\ ClosedIsDrained
-------------------------------------------------------------------------------
(* Arithmetic of the ring *)

LEMMA AfterInRing ==
    ASSUME NEW i \in Ring, NEW k \in 0 .. Slots
    PROVE  After(i, k) \in Ring
  BY SlotsAssumption DEF After, Ring

LEMMA AfterInjective ==
    ASSUME NEW i \in Ring, NEW j \in 0 .. Slots - 1, NEW k \in 0 .. Slots - 1,
           After(i, j) = After(i, k)
    PROVE  j = k
  BY SlotsAssumption DEF After, Ring

LEMMA IncIsAfter ==
    ASSUME NEW i \in Ring, NEW k \in 0 .. Slots - 1
    PROVE  /\ Inc(After(i, k)) = After(i, k + 1)
           /\ After(Inc(i), k) = After(i, k + 1)
           /\ Inc(i) \in Ring
           /\ Dec(i) \in Ring
           /\ Dec(After(i, k + 1)) = After(i, k)
  BY SlotsAssumption DEF After, Ring, Inc, Dec

\* Equal indices mean an empty ring or a full one.
LEMMA AfterIsSelf ==
    ASSUME NEW i \in Ring, NEW k \in 0 .. Slots
    PROVE  After(i, k) = i <=> k = 0 \/ k = Slots
  BY SlotsAssumption DEF After, Ring

-------------------------------------------------------------------------------
LEMMA InitIInv == Init => IInv
<1> SUFFICES ASSUME Init PROVE IInv
  OBVIOUS
<1> USE DEF Init
<1>1. TypeOK
  <2>1. log \in Seq(1 .. MaxItems)
    OBVIOUS
  <2>2. last \in Ring /\ next \in Ring
    BY SlotsAssumption DEF Ring
  <2>3. slot \in [Ring -> Addr \cup {NoAddr}]
    OBVIOUS
  <2>4. addr \in [1 .. MaxItems -> Addr \cup {NoAddr}]
    OBVIOUS
  <2>5. given \in 0 .. MaxItems /\ taken \in 0 .. MaxItems /\ done \in 0 .. MaxItems
    BY MaxItemsAssumption
  <2>6. item \in [Workers -> 0 .. MaxItems]
    BY MaxItemsAssumption
  <2>7. QED
    BY <2>1, <2>2, <2>3, <2>4, <2>5, <2>6 DEF TypeOK
<1>2. Pending = {}
  BY DEF Pending
<1>3. Counters /\ ItemsOfThreads /\ HoldKeepsRoom /\ ClosedIsDrained
  BY SlotsAssumption DEF Counters, ItemsOfThreads, Busy, Working, HoldKeepsRoom, ClosedIsDrained
<1>4. SlotsOfPending /\ AddressesDiffer /\ CallHasRoom
  BY <1>2 DEF SlotsOfPending, AddressesDiffer, CallHasRoom, InCall, Live
<1>5. LastIndex
  BY SlotsAssumption DEF LastIndex, At, After
<1>6. OutputIsFirst /\ StartedAreBusy /\ EachOnce
  BY DEF OutputIsFirst, StartedAreBusy, EachOnce
<1>7. QED
  BY <1>1, <1>3, <1>4, <1>5, <1>6 DEF IInv

-------------------------------------------------------------------------------
LEMMA LiveIsGiven ==
    ASSUME IInv
    PROVE  Live \subseteq 1 .. given
  BY DEF IInv, Live, ItemsOfThreads, Busy, Counters, TypeOK

(* Each action preserves the invariant. *)

LEMMA StoreStep ==
    ASSUME IInv, NEW a \in Addr, Store(a)
    PROVE  IInv'
<1> USE DEF IInv, Store, workerVars
<1>1. TypeOK'
  BY DEF TypeOK
<1>2. given - done \in 0 .. Slots - 1 /\ last = At(given - done)
  BY SlotsAssumption DEF TypeOK, Counters, HoldKeepsRoom, LastIndex
<1>3. Pending' = Pending /\ \A k : At(k)' = At(k)
  BY DEF Pending, At, After
<1>4. \A n \in Pending : n - done - 1 \in 0 .. given - done - 1
  BY DEF Pending, TypeOK
<1>5. \A n \in Pending : last # At(n - done - 1)
  <2> TAKE n \in Pending
  <2>1. n - done - 1 \in 0 .. Slots - 1 /\ n - done - 1 # given - done
    BY <1>2, <1>4, SlotsAssumption DEF TypeOK
  <2>2. QED
    BY <1>2, <2>1, AfterInjective DEF At, TypeOK
<1>6. SlotsOfPending'
  BY <1>3, <1>4, <1>5 DEF SlotsOfPending, TypeOK
<1>. Live' = Live
  BY DEF Live
<1>7. AddressesDiffer'
  BY <1>3 DEF AddressesDiffer
<1>8. CallHasRoom'
  <2>1. \A n \in Live : addr[n] # a
    BY DEF LiveAddr
  <2>2. slot'[last] = a
    BY DEF TypeOK
  <2>3. slot'[At(given - done)'] = cur'
    BY <1>2, <1>3, <2>2 DEF At, After
  <2>4. given - done < Slots
    BY <1>2, SlotsAssumption
  <2>5. cur' # NoAddr
    BY NoAddrAssumption
  <2>6. \A n \in Live' : addr'[n] # cur'
    BY <2>1
  <2>7. QED
    BY <2>3, <2>4, <2>5, <2>6 DEF CallHasRoom
<1>9. LastIndex' /\ HoldKeepsRoom' /\ ClosedIsDrained' /\ Counters'
  BY <1>3 DEF LastIndex, HoldKeepsRoom, ClosedIsDrained, Counters, At, After
<1>10. ItemsOfThreads' /\ StartedAreBusy' /\ EachOnce'
  BY DEF ItemsOfThreads, Busy, Working, StartedAreBusy, LostUpTo, EachOnce
<1>11. OutputIsFirst'
  <2>1. ASSUME NEW w \in Workers, wpc[w] = "output"
        PROVE  slot'[next] = slot[next]
    <3>1. item[w] \in done + 1 .. taken
      BY <2>1 DEF ItemsOfThreads, Working
    <3>2. given - done # 0
      BY <3>1 DEF Counters, TypeOK
    <3>3. last # next
      BY <1>2, <3>2, AfterIsSelf, SlotsAssumption DEF At, TypeOK
    <3> QED
      BY <3>3 DEF TypeOK
  <2> QED
    BY <2>1 DEF OutputIsFirst, LostUpTo
<1>12. QED
  BY <1>1, <1>6, <1>7, <1>8, <1>9, <1>10, <1>11

LEMMA AdvanceStep ==
    ASSUME IInv, Advance
    PROVE  IInv'
<1> USE DEF IInv, Advance, workerVars
<1>1. given - done \in 0 .. Slots - 1 /\ last = At(given - done)
  BY SlotsAssumption DEF TypeOK, Counters, CallHasRoom, InCall, LastIndex
<1>2. last' = At(given - done + 1) /\ last' \in Ring
  BY <1>1, IncIsAfter DEF At, TypeOK
<1>3. TypeOK'
  BY <1>2 DEF TypeOK
<1>4. Pending' = Pending /\ Live' = Live /\ \A k : At(k)' = At(k)
  BY DEF Pending, Live, At, After
<1>5. SlotsOfPending' /\ AddressesDiffer'
  BY <1>4 DEF SlotsOfPending, AddressesDiffer
<1>6. CallHasRoom'
  BY <1>4 DEF CallHasRoom, InCall
<1>7. LastIndex' /\ HoldKeepsRoom' /\ ClosedIsDrained' /\ Counters'
  BY <1>2, <1>4 DEF LastIndex, HoldKeepsRoom, ClosedIsDrained, Counters
<1>8. ItemsOfThreads' /\ OutputIsFirst' /\ StartedAreBusy' /\ EachOnce'
  BY DEF ItemsOfThreads, Busy, Working, OutputIsFirst, StartedAreBusy, LostUpTo, EachOnce
<1>9. QED
  BY <1>3, <1>5, <1>6, <1>7, <1>8

LEMMA CheckFullStep ==
    ASSUME IInv, CheckFull
    PROVE  IInv'
<1> USE DEF IInv, CheckFull, workerVars
<1>1. /\ given - done \in 0 .. Slots - 1
      /\ last = At(given - done + 1)
      /\ given - done + 1 \in 1 .. Slots
  BY SlotsAssumption DEF TypeOK, Counters, CallHasRoom, InCall, LastIndex
<1>2. last = next <=> given - done + 1 = Slots
  BY <1>1, AfterIsSelf DEF At, TypeOK
<1>3. TypeOK'
  BY DEF TypeOK
<1>4. Pending' = Pending /\ Live' = Live /\ \A k : At(k)' = At(k)
  BY DEF Pending, Live, At, After
<1>5. SlotsOfPending' /\ AddressesDiffer'
  BY <1>4 DEF SlotsOfPending, AddressesDiffer
<1>6. CallHasRoom'
  BY <1>4 DEF CallHasRoom, InCall
<1>7. LastIndex' /\ ClosedIsDrained' /\ Counters'
  BY <1>4 DEF LastIndex, ClosedIsDrained, Counters
<1>8. HoldKeepsRoom'
  <2>1. ~hold' => given - done + 1 # Slots
    BY <1>2
  <2>2. pc' = "submit" /\ given' = given /\ done' = done
    OBVIOUS
  <2>3. ~hold' => given' - done' + 1 < Slots
    BY <1>1, <2>1, <2>2, SlotsAssumption
  <2>4. QED
    BY <2>2, <2>3 DEF HoldKeepsRoom
<1>9. ItemsOfThreads' /\ OutputIsFirst' /\ StartedAreBusy' /\ EachOnce'
  BY DEF ItemsOfThreads, Busy, Working, OutputIsFirst, StartedAreBusy, LostUpTo, EachOnce
<1>10. QED
  BY <1>3, <1>5, <1>6, <1>7, <1>8, <1>9

LEMMA SubmitStep ==
    ASSUME IInv, Submit
    PROVE  IInv'
<1> USE DEF IInv, Submit, workerVars
<1>1. /\ given < MaxItems
      /\ given \in Nat /\ done \in Nat
      /\ given - done \in 0 .. Slots - 1
      /\ given + 1 \in 1 .. MaxItems
  BY SlotsAssumption, MaxItemsAssumption DEF TypeOK, Counters, CallHasRoom, InCall
<1>2. /\ Pending' = Pending \cup {given + 1}
      /\ given + 1 \notin Pending
      /\ Pending \subseteq 1 .. MaxItems
  BY <1>1, MaxItemsAssumption DEF Pending, TypeOK
<1>3. /\ addr'[given + 1] = cur
      /\ \A n \in Pending : addr'[n] = addr[n]
  BY <1>1, <1>2 DEF TypeOK
<1>4. TypeOK'
  BY <1>1, MaxItemsAssumption DEF TypeOK
<1>5. Counters'
  BY <1>1, SlotsAssumption DEF Counters, TypeOK
<1>6. SlotsOfPending'
  <2>1. slot[After(next, given - done)] = cur
    BY DEF CallHasRoom, InCall, At
  <2>2. \A n \in Pending : slot[After(next, n - done - 1)] = addr[n]
    BY DEF SlotsOfPending, At
  <2>3. (given + 1) - done - 1 = given - done
    BY <1>1
  <2>4. \A n \in Pending' : slot[After(next, n - done - 1)] = addr'[n]
    BY <1>2, <1>3, <2>1, <2>2, <2>3
  <2>5. QED
    BY <2>4 DEF SlotsOfPending, At, After
<1>7. AddressesDiffer'
  <2>1. Live' = Live \cup {given + 1} /\ Live \subseteq 1 .. given
    BY <1>1, LiveIsGiven DEF Live, TypeOK, Counters
  <2>2. \A n \in Live : addr'[n] = addr[n] /\ addr'[n] # addr'[given + 1]
    BY <1>1, <1>3, <2>1 DEF CallHasRoom, InCall, TypeOK
  <2>3. \A m, n \in Live' : addr'[m] = addr'[n] => m = n
    BY <2>1, <2>2 DEF AddressesDiffer
  <2> QED
    BY <1>2, <1>3, <2>3 DEF AddressesDiffer, CallHasRoom, InCall
<1>8. CallHasRoom'
  BY DEF CallHasRoom, InCall
<1>9. LastIndex'
  <2>1. last = After(next, given - done + 1)
    BY DEF LastIndex, At
  <2>2. given' - done' + 0 = given - done + 1
    BY <1>1
  <2>3. last' = After(next', given' - done' + 0)
    BY <2>1, <2>2 DEF After
  <2>4. QED
    BY <2>3 DEF LastIndex, At, After
<1>10. HoldKeepsRoom'
  BY <1>1 DEF HoldKeepsRoom
<1>11. ClosedIsDrained'
  BY DEF ClosedIsDrained
<1>12. ItemsOfThreads' /\ StartedAreBusy' /\ EachOnce'
  BY DEF ItemsOfThreads, Busy, Working, StartedAreBusy, LostUpTo, EachOnce
<1>14. OutputIsFirst'
  <2>1. \A w \in Workers : wpc[w] = "output" => item[w] \in Pending
    BY DEF ItemsOfThreads, Working, Counters, Pending, TypeOK
  <2>2. \A w \in Workers : wpc[w] = "output" => addr'[item[w]] = slot[next]
    BY <1>3, <2>1 DEF OutputIsFirst
  <2> QED
    BY <2>2 DEF OutputIsFirst, LostUpTo
<1>13. QED
  BY <1>14, <1>4, <1>5, <1>6, <1>7, <1>8, <1>9, <1>10, <1>11, <1>12

LEMMA SubmitThrowsStep ==
    ASSUME IInv, SubmitThrows
    PROVE  IInv'
<1> USE DEF IInv, SubmitThrows, workerVars
<1>1. /\ given - done \in 0 .. Slots - 1
      /\ last = After(next, given - done + 1)
  BY SlotsAssumption DEF TypeOK, Counters, CallHasRoom, InCall, LastIndex, At
<1>2. last' = After(next, given - done) /\ last' \in Ring
  BY <1>1, IncIsAfter DEF TypeOK
<1>3. TypeOK'
  BY <1>2 DEF TypeOK
<1>4. Pending' = Pending /\ Live' = Live /\ \A k : At(k)' = At(k)
  BY DEF Pending, Live, At, After
<1>5. SlotsOfPending' /\ AddressesDiffer'
  BY <1>4 DEF SlotsOfPending, AddressesDiffer
<1>6. CallHasRoom'
  BY DEF CallHasRoom, InCall
<1>7. LastIndex'
  BY <1>1, <1>2 DEF LastIndex, At, After
<1>8. HoldKeepsRoom' /\ ClosedIsDrained' /\ Counters'
  BY <1>1, SlotsAssumption DEF HoldKeepsRoom, ClosedIsDrained, Counters, TypeOK
<1>9. ItemsOfThreads' /\ OutputIsFirst' /\ StartedAreBusy' /\ EachOnce'
  BY DEF ItemsOfThreads, Busy, Working, OutputIsFirst, StartedAreBusy, LostUpTo, EachOnce
<1>10. QED
  BY <1>3, <1>5, <1>6, <1>7, <1>8, <1>9

\* HoldEnds, Close and Destroyed change pc only.
LEMMA WaitSteps ==
    ASSUME IInv, HoldEnds \/ Close \/ Destroyed
    PROVE  IInv'
<1> USE DEF IInv, workerVars
<1>1. /\ pc \in {"idle", "holding", "closing"}
      /\ pc' \in {"idle", "closing", "closed"}
      /\ UNCHANGED <<slot, last, cur, hold, given, addr, workerVars>>
      /\ pc = "holding" => last # next
      /\ pc' = "closed" => last = next /\ pc = "closing"
  BY DEF HoldEnds, Close, Destroyed
<1>2. given - done \in 0 .. Slots /\ last = After(next, given - done)
  BY <1>1, SlotsAssumption DEF TypeOK, Counters, LastIndex, At
<1>3. last = next <=> given - done = 0 \/ given - done = Slots
  BY <1>2, AfterIsSelf DEF TypeOK
<1>4. Pending' = Pending /\ Live' = Live /\ \A k : At(k)' = At(k)
  BY <1>1 DEF Pending, Live, At, After
<1>5. TypeOK' /\ Counters' /\ SlotsOfPending' /\ AddressesDiffer'
  BY <1>1, <1>4 DEF TypeOK, Counters, SlotsOfPending, AddressesDiffer
<1>6. CallHasRoom'
  BY <1>1 DEF CallHasRoom, InCall
<1>7. LastIndex'
  BY <1>1, <1>2, <1>4 DEF LastIndex, At, After
<1>8. given - done < Slots
  BY <1>1, <1>2, <1>3, SlotsAssumption DEF HoldKeepsRoom
<1>9. HoldKeepsRoom'
  BY <1>1, <1>8 DEF HoldKeepsRoom
<1>10. ClosedIsDrained'
  BY <1>1, <1>2, <1>3, <1>8 DEF ClosedIsDrained, TypeOK
<1>11. ItemsOfThreads' /\ OutputIsFirst' /\ StartedAreBusy' /\ EachOnce'
  BY <1>1 DEF ItemsOfThreads, Busy, Working, OutputIsFirst, StartedAreBusy, LostUpTo, EachOnce
<1>12. QED
  BY <1>5, <1>6, <1>7, <1>9, <1>10, <1>11

LEMMA TakeStep ==
    ASSUME IInv, NEW w \in Workers, Take(w)
    PROVE  IInv'
<1> USE DEF IInv, Take, producerVars
<1>1. TypeOK'
  BY MaxItemsAssumption DEF TypeOK
<1>2. Counters'
  BY DEF Counters, TypeOK
<1>3. ItemsOfThreads'
  <2>1. /\ item'[w] = taken + 1
        /\ \A v \in Workers \ {w} : item'[v] = item[v] /\ wpc'[v] = wpc[v]
    BY DEF TypeOK
  <2>2. \A v \in Workers \ {w} : /\ Busy(v)' => item'[v] \in 1 .. taken
                                 /\ Working(v)' => item'[v] \in done + 1 .. taken
    BY <2>1 DEF ItemsOfThreads, Busy, Working
  <2>3. item'[w] \in done' + 1 .. taken' /\ item'[w] \in 1 .. taken'
    BY <2>1 DEF TypeOK, Counters
  <2>4. \A v \in Workers : /\ Busy(v)' => item'[v] \in 1 .. taken'
                           /\ Working(v)' => item'[v] \in done' + 1 .. taken'
    BY <2>2, <2>3 DEF TypeOK
  <2>5. \A v \in Workers \ {w} : Busy(v)' => item'[v] # item'[w]
    BY <2>1, <2>2 DEF TypeOK
  <2>6. \A u, v \in Workers : Busy(u)' /\ Busy(v)' /\ item'[u] = item'[v] => u = v
    BY <2>1, <2>5 DEF ItemsOfThreads, Busy
  <2>7. QED
    BY <2>4, <2>6 DEF ItemsOfThreads, Busy, Working
<1>9. /\ item'[w] = taken + 1 /\ wpc'[w] = "sync"
      /\ \A v \in Workers \ {w} : item'[v] = item[v] /\ wpc'[v] = wpc[v]
  BY DEF TypeOK
<1>4. Pending' = Pending /\ Live' \subseteq Live /\ \A k : At(k)' = At(k)
  <2>1. Live' \subseteq Live
    BY <1>9 DEF Live, TypeOK, Counters
  <2> QED
    BY <2>1 DEF Pending, At, After
<1>5. SlotsOfPending' /\ AddressesDiffer' /\ CallHasRoom'
  BY <1>4 DEF SlotsOfPending, AddressesDiffer, CallHasRoom, InCall
<1>6. LastIndex' /\ HoldKeepsRoom' /\ ClosedIsDrained'
  BY <1>4 DEF LastIndex, HoldKeepsRoom, ClosedIsDrained, At, After
<1>7. OutputIsFirst'
  BY <1>9 DEF OutputIsFirst, LostUpTo
<1>8. StartedAreBusy'
  <2>1. \A v \in Workers : Working(v) => Working(v)' /\ item'[v] = item[v]
    BY <1>9 DEF Working
  <2>2. Working(w)' /\ item'[w] = taken + 1
    BY <1>9 DEF Working
  <2>3. \A n \in done + 1 .. taken + 1 : n = taken + 1 \/ n \in done + 1 .. taken
    BY DEF TypeOK
  <2> QED
    BY <2>1, <2>2, <2>3 DEF StartedAreBusy, LostUpTo
<1>11. EachOnce'
  <2>1. \A k \in 1 .. Len(log) : log[k] \in 1 .. taken + 1 /\ log[k] # taken + 1
    BY DEF EachOnce, TypeOK
  <2>2. lost \subseteq 1 .. taken + 1 /\ taken + 1 \notin lost
    BY DEF EachOnce, TypeOK
  <2>3. \A v \in Workers : wpc'[v] = "sync" =>
            item'[v] \notin lost /\ \A k \in 1 .. Len(log) : log[k] # item'[v]
    BY <1>9, <2>1, <2>2 DEF EachOnce
  <2>4. QED
    BY <2>1, <2>2, <2>3 DEF EachOnce
<1>10. QED
  BY <1>1, <1>2, <1>3, <1>5, <1>6, <1>7, <1>8, <1>11

\* The heart of the argument: the comparison of addresses selects one live item, the
\* oldest pending one unless its job, or one before it, has failed.
LEMMA MatchSelectsOne ==
    ASSUME IInv, NEW w \in Workers, Match(w)
    PROVE  /\ item[w] = done + 1 \/ LostUpTo(done + 1)
           /\ addr[item[w]] = slot[next]
           /\ \A v \in Workers : wpc[v] # "output"
           /\ done < given
<1> USE DEF IInv
<1>1. item[w] \in done + 1 .. taken /\ item[w] \in Live /\ Busy(w)
  BY DEF Match, ItemsOfThreads, Busy, Working, Live
<1>2. done + 1 \in Pending /\ done < given /\ done + 1 \in done + 1 .. taken
  BY <1>1 DEF Pending, Counters, TypeOK
<1>3. slot[next] = addr[done + 1]
  <2>1. At((done + 1) - done - 1) = next
    BY SlotsAssumption DEF At, After, TypeOK, Ring
  <2>2. QED
    BY <1>2, <2>1 DEF SlotsOfPending
<1>4. addr[item[w]] = slot[next]
  BY DEF Match
<1>5. ASSUME NEW v \in Workers, Busy(v), addr[item[v]] = slot[next]
      PROVE  v = w
  <2>1. item[v] \in Live
    BY <1>5 DEF Live, Busy
  <2>2. item[v] = item[w]
    BY <1>1, <1>4, <1>5, <2>1 DEF AddressesDiffer
  <2>3. QED
    BY <1>1, <1>5, <2>2 DEF ItemsOfThreads
<1>6. \A v \in Workers : wpc[v] # "output"
  BY <1>5 DEF OutputIsFirst, Busy, Match
<1>7. item[w] = done + 1 \/ LostUpTo(done + 1)
  <2> SUFFICES ASSUME ~LostUpTo(done + 1) PROVE item[w] = done + 1
    OBVIOUS
  <2>1. PICK v \in Workers : Busy(v) /\ item[v] = done + 1
    BY <1>2 DEF StartedAreBusy, Working, Busy
  <2>2. v = w
    BY <1>3, <1>5, <2>1
  <2>3. QED
    BY <2>1, <2>2
<1>8. QED
  BY <1>2, <1>4, <1>6, <1>7

LEMMA MatchStep ==
    ASSUME IInv, NEW w \in Workers, Match(w)
    PROVE  IInv'
<1> USE DEF IInv, Match, producerVars
<1>1. /\ item[w] = done + 1 \/ LostUpTo(done + 1)
      /\ addr[item[w]] = slot[next]
      /\ \A v \in Workers : wpc[v] # "output"
      /\ done < given
  BY MatchSelectsOne
<1>2. Len(log) = done /\ item[w] \in 1 .. MaxItems /\ done \in Nat
  BY <1>1, MaxItemsAssumption DEF OutputIsFirst, ItemsOfThreads, Working, Counters, TypeOK
<1>3. /\ log' \in Seq(1 .. MaxItems)
      /\ Len(log') = done + 1
      /\ \A k \in 1 .. Len(log) : log'[k] = log[k]
      /\ log'[done + 1] = item[w]
  BY <1>2 DEF TypeOK
<1>4. /\ wpc'[w] = "output" /\ \A v \in Workers \ {w} : wpc'[v] = wpc[v]
      /\ \A v \in Workers : Busy(v)' <=> Busy(v)
      /\ \A v \in Workers : Working(v)' <=> Working(v)
  BY DEF TypeOK, Busy, Working
<1>5. TypeOK'
  BY <1>3 DEF TypeOK
<1>6. Counters' /\ ItemsOfThreads' /\ StartedAreBusy'
  BY <1>4 DEF Counters, ItemsOfThreads, StartedAreBusy, LostUpTo
<1>7. Pending' = Pending /\ Live' = Live /\ \A k : At(k)' = At(k)
  <2>1. Live' = Live
    BY <1>4 DEF Live, Busy
  <2> QED
    BY <2>1 DEF Pending, At, After
<1>8. SlotsOfPending' /\ AddressesDiffer' /\ CallHasRoom'
  BY <1>7 DEF SlotsOfPending, AddressesDiffer, CallHasRoom, InCall
<1>9. LastIndex' /\ HoldKeepsRoom' /\ ClosedIsDrained'
  BY <1>7 DEF LastIndex, HoldKeepsRoom, ClosedIsDrained, At, After
<1>10. OutputIsFirst'
  <2>1. \A k \in 1 .. Len(log') : k \in 1 .. Len(log) \/ k = done + 1
    BY <1>2, <1>3
  <2>2. \A k \in 1 .. Len(log') : log'[k] = k \/ LostUpTo(k)
    BY <1>1, <1>3, <2>1 DEF OutputIsFirst
  <2>3. \A k : LostUpTo(k)' <=> LostUpTo(k)
    BY DEF LostUpTo
  <2>4. \A v \in Workers : wpc'[v] = "output" => v = w
    BY <1>1, <1>4
  <2>5. QED
    BY <1>1, <1>3, <1>4, <2>2, <2>3, <2>4 DEF OutputIsFirst
<1>12. EachOnce'
  <2>1. /\ item[w] \in 1 .. taken /\ item[w] \notin lost
        /\ \A k \in 1 .. Len(log) : log[k] # item[w]
    BY DEF EachOnce, ItemsOfThreads, Busy
  <2>2. \A k \in 1 .. Len(log') : k \in 1 .. Len(log) \/ k = done + 1
    BY <1>2, <1>3
  <2>3. \A k \in 1 .. Len(log') : log'[k] \in 1 .. taken /\ log'[k] \notin lost
    BY <1>3, <2>1, <2>2 DEF EachOnce
  <2>4. \A j, k \in 1 .. Len(log') : log'[j] = log'[k] => j = k
    BY <1>3, <2>1, <2>2 DEF EachOnce
  <2>5. ASSUME NEW v \in Workers, wpc'[v] = "sync"
        PROVE  item[v] \notin lost /\ \A k \in 1 .. Len(log') : log'[k] # item[v]
    <3>1. v # w /\ wpc[v] = "sync"
      BY <1>4, <2>5
    <3>2. item[v] # item[w]
      BY <3>1 DEF ItemsOfThreads, Busy
    <3>3. QED
      BY <1>3, <2>2, <3>1, <3>2 DEF EachOnce
  <2>6. QED
    BY <2>3, <2>4, <2>5 DEF EachOnce
<1>11. QED
  BY <1>5, <1>6, <1>8, <1>9, <1>10, <1>12

\* A job that fails leaves its slot, and every counter.
LEMMA FailStep ==
    ASSUME IInv, NEW w \in Workers, Fail(w)
    PROVE  IInv'
<1> USE DEF IInv, Fail, producerVars
<1>1. /\ wpc'[w] = "free" /\ \A v \in Workers \ {w} : wpc'[v] = wpc[v]
      /\ \A v \in Workers : Busy(v)' <=> Busy(v) /\ v # w
      /\ \A v \in Workers : Working(v)' <=> Working(v) /\ v # w
  BY DEF TypeOK, Busy, Working
<1>2. /\ item[w] \in done + 1 .. taken
      /\ item[w] \in 1 .. taken
      /\ item[w] \in 1 .. MaxItems
  BY MaxItemsAssumption DEF ItemsOfThreads, Busy, Working, Counters, TypeOK
<1>3. \A k \in Int : LostUpTo(k) \/ item[w] <= k => LostUpTo(k)'
  BY DEF LostUpTo
<1>4. TypeOK'
  BY <1>1, <1>2 DEF TypeOK
<1>5. Counters' /\ ItemsOfThreads'
  BY <1>1 DEF Counters, ItemsOfThreads
<1>6. Pending' = Pending /\ Live' \subseteq Live /\ \A k : At(k)' = At(k)
  <2>1. Live' \subseteq Live
    BY <1>1 DEF Live, Busy
  <2> QED
    BY <2>1 DEF Pending, At, After
<1>7. SlotsOfPending' /\ AddressesDiffer' /\ CallHasRoom'
  BY <1>6 DEF SlotsOfPending, AddressesDiffer, CallHasRoom, InCall
<1>8. LastIndex' /\ HoldKeepsRoom' /\ ClosedIsDrained'
  BY <1>6 DEF LastIndex, HoldKeepsRoom, ClosedIsDrained, At, After
<1>9. StartedAreBusy'
  <2> SUFFICES ASSUME NEW n \in done + 1 .. taken
               PROVE  LostUpTo(n)' \/ \E v \in Workers : Working(v)' /\ item[v] = n
    BY DEF StartedAreBusy
  <2>1. n \in Int /\ done \in Int
    BY DEF TypeOK
  <2>2. CASE n = item[w]
    BY <1>3, <2>1, <2>2
  <2>3. CASE n # item[w]
    BY <1>1, <1>3, <2>1, <2>3 DEF StartedAreBusy
  <2> QED
    BY <2>2, <2>3
<1>10. OutputIsFirst'
  <2>1. \A v \in Workers : wpc'[v] = "output" <=> wpc[v] = "output"
    BY <1>1
  <2>2. LostUpTo(done + 1) => LostUpTo(done + 1)'
    BY <1>3 DEF TypeOK
  <2>3. \A k \in 1 .. Len(log) : LostUpTo(k) => LostUpTo(k)'
    BY <1>3
  <2>4. QED
    BY <2>1, <2>2, <2>3 DEF OutputIsFirst
<1>12. EachOnce'
  <2>1. \A v \in Workers : wpc'[v] = "sync" => wpc[v] = "sync" /\ item[v] # item[w]
    BY <1>1 DEF ItemsOfThreads, Busy
  <2>2. \A k \in 1 .. Len(log) : log[k] # item[w]
    BY DEF EachOnce
  <2>3. \A k \in 1 .. Len(log) : log[k] \in 1 .. taken /\ log[k] \notin lost'
    BY <2>2 DEF EachOnce
  <2>4. \A v \in Workers : wpc'[v] = "sync" =>
            item[v] \notin lost' /\ \A k \in 1 .. Len(log) : log[k] # item[v]
    BY <2>1 DEF EachOnce
  <2>5. lost' \subseteq 1 .. taken
    BY <1>2 DEF EachOnce
  <2>6. QED
    BY <2>3, <2>4, <2>5 DEF EachOnce
<1>11. QED
  BY <1>4, <1>5, <1>7, <1>8, <1>9, <1>10, <1>12

LEMMA ReleaseStep ==
    ASSUME IInv, NEW w \in Workers, Release(w)
    PROVE  IInv'
<1> USE DEF IInv, Release, producerVars
<1>0. /\ item[w] = done + 1 \/ LostUpTo(done + 1)
      /\ item[w] \in done + 1 .. taken /\ Busy(w)
      /\ addr[item[w]] = slot[next]
      /\ Len(log) = done + 1
  BY DEF OutputIsFirst, ItemsOfThreads, Busy, Working
<1>1. /\ done + 1 <= taken
      /\ done + 1 <= given
      /\ Len(log) = done + 1
      /\ given \in Nat /\ done \in Nat /\ taken \in Nat
      /\ given - done \in 1 .. Slots
  BY <1>0, SlotsAssumption DEF Counters, TypeOK
<1>2. /\ wpc'[w] = "returning"
      /\ \A v \in Workers \ {w} : wpc'[v] = wpc[v]
      /\ \A v \in Workers : Busy(v)' <=> Busy(v)
      /\ \A v \in Workers : Working(v)' <=> Working(v) /\ v # w
  BY DEF TypeOK, Busy, Working
<1>3. next' \in Ring
  BY IncIsAfter, SlotsAssumption DEF TypeOK
<1>4. TypeOK'
  <2>1. done' \in 0 .. MaxItems
    BY <1>1, MaxItemsAssumption DEF TypeOK
  <2>2. QED
    BY <1>3, <2>1 DEF TypeOK
<1>5. Counters'
  BY <1>1, SlotsAssumption DEF Counters, TypeOK
<1>6. Pending' = Pending \ {done + 1} /\ Live' \subseteq Live
  <2>1. Live' \subseteq Live
    BY <1>2 DEF Live, Busy
  <2> QED
    BY <1>1, <2>1 DEF Pending
\* One step of next and one item less: every index stays where it was.
<1>7. \A k \in 0 .. Slots - 1 : After(next', k) = After(next, k + 1)
  BY IncIsAfter DEF TypeOK
<1>8. SlotsOfPending'
  <2> SUFFICES ASSUME NEW n \in Pending'
               PROVE  slot[After(next', n - (done + 1) - 1)] = addr[n]
    BY DEF SlotsOfPending, At, After
  <2>1. /\ n \in Pending
        /\ n - (done + 1) - 1 \in 0 .. Slots - 1
        /\ n - (done + 1) - 1 + 1 = n - done - 1
    BY <1>1, <1>6, SlotsAssumption DEF Pending
  <2>2. After(next', n - (done + 1) - 1) = After(next, n - done - 1)
    BY <1>7, <2>1
  <2>3. QED
    BY <2>1, <2>2 DEF SlotsOfPending, At
<1>9. AddressesDiffer'
  BY <1>6 DEF AddressesDiffer
<1>10. CallHasRoom'
  <2> SUFFICES ASSUME InCall PROVE CallHasRoom'
    BY DEF CallHasRoom, InCall
  <2>1. /\ given - (done + 1) \in 0 .. Slots - 1
        /\ given - (done + 1) + 1 = given - done
        /\ given - (done + 1) < Slots
    BY <1>1, SlotsAssumption
  <2>2. After(next', given - (done + 1)) = After(next, given - done)
    BY <1>7, <2>1
  <2>3. slot[After(next', given - (done + 1))] = cur
    BY <2>2 DEF CallHasRoom, At
  <2>4. slot'[At(given - done)'] = cur'
    BY <2>3 DEF At, After
  <2>5. given' < MaxItems /\ cur' # NoAddr /\ \A n \in Live' : addr'[n] # cur'
    BY <1>6 DEF CallHasRoom
  <2>6. given' - done' < Slots
    BY <2>1
  <2>7. QED
    BY <2>4, <2>5, <2>6 DEF CallHasRoom
<1>11. LastIndex'
  <2> DEFINE one == IF pc \in {"advanced", "submit"} THEN 1 ELSE 0
  <2>1. last = After(next, given - done + one)
    BY DEF LastIndex, At
  <2>2. given - done + one \in 1 .. Slots
    BY <1>1, SlotsAssumption DEF CallHasRoom, InCall
  <2>3. /\ given - (done + 1) + one \in 0 .. Slots - 1
        /\ given - (done + 1) + one + 1 = given - done + one
    BY <1>1, <2>2, SlotsAssumption
  <2>4. After(next', given - (done + 1) + one) = After(next, given - done + one)
    BY <1>7, <2>3
  <2>5. last' = After(next', given' - done' + one')
    BY <2>1, <2>4
  <2>6. QED
    BY <2>5 DEF LastIndex, At, After
<1>12. HoldKeepsRoom' /\ ClosedIsDrained'
  BY <1>1, SlotsAssumption DEF HoldKeepsRoom, ClosedIsDrained
<1>13. \A v \in Workers \ {w} : wpc[v] # "output"
  <2> SUFFICES ASSUME NEW v \in Workers, wpc[v] = "output" PROVE v = w
    OBVIOUS
  <2>1. Busy(v) /\ addr[item[v]] = slot[next]
    BY DEF OutputIsFirst, Busy
  <2>2. item[v] \in Live /\ item[w] \in Live
    BY <1>0, <2>1 DEF Live, Busy
  <2>3. item[v] = item[w]
    BY <1>0, <2>1, <2>2 DEF AddressesDiffer
  <2>4. QED
    BY <1>0, <2>1, <2>3 DEF ItemsOfThreads
\* The item whose slot is passed is the thread's own, or has no thread any more.
<1>14. ItemsOfThreads'
  <2>1. ASSUME NEW v \in Workers, Busy(v), v # w
        PROVE  item[v] # done + 1
    <3> SUFFICES ASSUME item[v] = done + 1 PROVE FALSE
      OBVIOUS
    <3>1. At((done + 1) - done - 1) = next /\ done + 1 \in Pending
      BY <1>1, SlotsAssumption DEF At, After, TypeOK, Ring, Pending
    <3>2. addr[item[v]] = addr[item[w]]
      BY <1>0, <3>1 DEF SlotsOfPending
    <3>3. item[v] \in Live /\ item[w] \in Live
      BY <1>0, <2>1 DEF Live, Busy
    <3>4. item[v] = item[w]
      BY <3>2, <3>3 DEF AddressesDiffer
    <3>5. QED
      BY <1>0, <2>1, <3>4 DEF ItemsOfThreads
  <2>2. \A v \in Workers : Working(v)' => item[v] \in done + 1 .. taken /\ item[v] # done + 1
    BY <1>2, <2>1 DEF ItemsOfThreads, Busy, Working
  <2>3. \A v \in Workers : Working(v)' => item[v] \in (done + 1) + 1 .. taken
    BY <1>1, <2>2
  <2>4. QED
    BY <1>2, <2>3 DEF ItemsOfThreads
<1>15. OutputIsFirst'
  <2>1. \A v \in Workers : wpc'[v] # "output"
    BY <1>2, <1>13
  <2>2. QED
    BY <1>0, <2>1 DEF OutputIsFirst, LostUpTo
<1>17. StartedAreBusy'
  <2> SUFFICES ASSUME NEW n \in (done + 1) + 1 .. taken, ~LostUpTo(n)
               PROVE  \E v \in Workers : Working(v)' /\ item[v] = n
    BY DEF StartedAreBusy, LostUpTo
  <2>1. n \in done + 1 .. taken /\ n > done + 1 /\ lost \subseteq Int
    BY <1>1 DEF TypeOK
  <2>2. PICK v \in Workers : Working(v) /\ item[v] = n
    BY <2>1 DEF StartedAreBusy
  <2>3. ~LostUpTo(done + 1)
    BY <1>1, <2>1 DEF LostUpTo
  <2>4. v # w
    BY <1>0, <1>1, <2>1, <2>2, <2>3
  <2>5. QED
    BY <1>2, <2>2, <2>4
<1>18. EachOnce'
  BY <1>2 DEF EachOnce
<1>16. QED
  BY <1>4, <1>5, <1>8, <1>9, <1>10, <1>11, <1>12, <1>14, <1>15, <1>17, <1>18

\* A job that ends releases its data; its turn has been passed on before.
LEMMA EndJobStep ==
    ASSUME IInv, NEW w \in Workers, EndJob(w)
    PROVE  IInv'
<1> USE DEF IInv, EndJob, producerVars
<1>1. /\ wpc'[w] = "free" /\ \A v \in Workers \ {w} : wpc'[v] = wpc[v]
      /\ \A v \in Workers : Busy(v)' <=> Busy(v) /\ v # w
      /\ \A v \in Workers : Working(v)' <=> Working(v)
      /\ \A v \in Workers : wpc'[v] = "output" <=> wpc[v] = "output"
  BY DEF TypeOK, Busy, Working
<1>2. TypeOK'
  BY <1>1 DEF TypeOK
<1>3. Counters' /\ ItemsOfThreads' /\ EachOnce'
  BY <1>1 DEF Counters, ItemsOfThreads, EachOnce
<1>4. StartedAreBusy'
  BY <1>1 DEF StartedAreBusy, LostUpTo
<1>5. Pending' = Pending /\ Live' \subseteq Live /\ \A k : At(k)' = At(k)
  <2>1. Live' \subseteq Live
    BY <1>1 DEF Live, Busy
  <2> QED
    BY <2>1 DEF Pending, At, After
<1>6. SlotsOfPending' /\ AddressesDiffer' /\ CallHasRoom'
  BY <1>5 DEF SlotsOfPending, AddressesDiffer, CallHasRoom, InCall
<1>7. LastIndex' /\ HoldKeepsRoom' /\ ClosedIsDrained'
  BY <1>5 DEF LastIndex, HoldKeepsRoom, ClosedIsDrained, At, After
<1>8. OutputIsFirst'
  BY <1>1 DEF OutputIsFirst, LostUpTo
<1>9. QED
  BY <1>2, <1>3, <1>4, <1>6, <1>7, <1>8

-------------------------------------------------------------------------------
LEMMA StepIInv == IInv /\ [Next]_vars => IInv'
<1> SUFFICES ASSUME IInv, [Next]_vars PROVE IInv'
  OBVIOUS
<1>1. CASE \E a \in Addr : Store(a)
  BY <1>1, StoreStep
<1>2. CASE Advance
  BY <1>2, AdvanceStep
<1>3. CASE CheckFull
  BY <1>3, CheckFullStep
<1>4. CASE Submit
  BY <1>4, SubmitStep
<1>5. CASE SubmitThrows
  BY <1>5, SubmitThrowsStep
<1>6. CASE HoldEnds \/ Close \/ Destroyed
  BY <1>6, WaitSteps
<1>7. CASE \E w \in Workers : Take(w)
  BY <1>7, TakeStep
<1>8. CASE \E w \in Workers : Match(w)
  BY <1>8, MatchStep
<1>9. CASE \E w \in Workers : Release(w)
  BY <1>9, ReleaseStep
<1>12. CASE \E w \in Workers : Fail(w)
  BY <1>12, FailStep
<1>13. CASE \E w \in Workers : EndJob(w)
  BY <1>13, EndJobStep
<1>10. CASE UNCHANGED vars
  BY <1>10 DEF vars, StartedAreBusy, LostUpTo, Live, IInv, TypeOK, Counters, ItemsOfThreads,
               Busy, Working, EachOnce, SlotsOfPending,
               Pending, AddressesDiffer, CallHasRoom, InCall, LastIndex, At, After,
               HoldKeepsRoom, OutputIsFirst, ClosedIsDrained
<1>11. QED
  BY <1>1, <1>2, <1>3, <1>4, <1>5, <1>6, <1>7, <1>8, <1>9, <1>10, <1>12,
     <1>13 DEF Next, ProducerStep, Worker

\* The strengthened invariant holds in every reachable state of the ring.
THEOREM Inductive == Spec => []IInv
<1>1. QED
  BY InitIInv, StepIInv, PTL DEF Spec

\* Every variable keeps its type; in particular the counters stay in bounds.
THEOREM TypeCorrect == Spec => []TypeOK
<1>1. IInv => TypeOK
  BY DEF IInv
<1>2. QED
  BY Inductive, <1>1, PTL

LEMMA OutputIsOne == IInv => SerialisedOutput
<1> SUFFICES ASSUME IInv, NEW v \in Workers, NEW w \in Workers,
                    wpc[v] = "output", wpc[w] = "output"
             PROVE  v = w
  BY DEF SerialisedOutput
<1>1. addr[item[v]] = addr[item[w]] /\ Busy(v) /\ Busy(w)
  BY DEF IInv, OutputIsFirst, Busy
<1>2. item[v] \in Live /\ item[w] \in Live
  BY <1>1 DEF Live, Busy
<1>3. item[v] = item[w]
  BY <1>1, <1>2 DEF IInv, AddressesDiffer
<1>4. QED
  BY <1>1, <1>3 DEF IInv, ItemsOfThreads

\* RfiOutputHandler never runs the output handler in two threads at once, even
\* when jobs fail and addresses are used again.
THEOREM OutputIsSerialised == Spec => []SerialisedOutput
<1>1. QED
  BY Inductive, OutputIsOne, PTL

\* RfiOutputHandler passes the data on in the order of the operator() calls, up to
\* the first job that failed.
THEOREM OutputIsInOrder == Spec => []InOrder
<1>1. IInv => InOrder
  BY DEF IInv, OutputIsFirst, InOrder
<1>2. QED
  BY Inductive, <1>1, PTL

\* operator() never overwrites the ring slot of a pending item.
THEOREM SlotsAreKept == Spec => []PendingKeepTheirSlot
<1>1. IInv => PendingKeepTheirSlot
  <2> SUFFICES ASSUME IInv, NEW n \in Pending PROVE slot[RingIndex(n)] = addr[n]
    BY DEF PendingKeepTheirSlot
  <2>1. /\ next \in Nat /\ done \in Nat /\ n \in Nat /\ Slots \in Nat
        /\ n - done - 1 \in Nat
    BY SlotsAssumption DEF IInv, TypeOK, Ring, Pending
  <2>2. RingIndex(n) = At(n - done - 1)
    BY <2>1 DEF RingIndex, At, After
  <2>3. QED
    BY <2>2 DEF IInv, SlotsOfPending
<1>2. QED
  BY Inductive, <1>1, PTL

\* When the loop of ~RfiDetectionPipeline ends, all items have been handled and no
\* pool thread will use the ring or the output handler again.
THEOREM DestructorWaits == Spec => []DestroyedWhenDrained
<1>1. IInv => DestroyedWhenDrained
  <2> SUFFICES ASSUME IInv, pc = "closed"
               PROVE  given = done /\ \A w \in Workers : wpc[w] \in {"free", "returning"}
    BY DEF DestroyedWhenDrained
  <2>1. given = done
    BY DEF IInv, ClosedIsDrained
  <2>2. \A w \in Workers : ~Working(w)
    BY <2>1 DEF IInv, ItemsOfThreads, Counters, TypeOK
  <2>3. \A w \in Workers : wpc[w] \in {"free", "returning"}
    BY <2>2 DEF IInv, TypeOK, Working
  <2>4. QED
    BY <2>1, <2>3
<1>2. QED
  BY Inductive, <1>1, PTL

-------------------------------------------------------------------------------
LEMMA StageInitially == Init => Stage!StageInit
  BY DEF Init, Stage!StageInit

\* The stage's items in hand are those that were submitted and neither handed on nor
\* lost, and those not finished are as many as the pending ones.
LEMMA StageState ==
    ASSUME IInv
    PROVE  /\ Stage!Backlog = given - done
           /\ \A w \in Workers : wpc[w] = "sync" =>
                 item[w] \in 1 .. given /\ item[w] \in Stage!Held
<1> USE DEF IInv
<1>1. Stage!Backlog = given - done
  <2>1. CASE \E w \in Workers : wpc[w] = "output"
    <3>1. Len(log) = done + 1 /\ done \in Int
      BY <2>1 DEF OutputIsFirst, TypeOK
    <3>2. Len(log) - 1 = done
      BY <3>1
    <3>3. QED
      BY <2>1, <3>2 DEF Stage!Backlog
  <2>2. CASE ~\E w \in Workers : wpc[w] = "output"
    BY <2>2 DEF OutputIsFirst, Stage!Backlog
  <2>3. QED
    BY <2>1, <2>2
<1>2. ASSUME NEW w \in Workers, wpc[w] = "sync"
      PROVE  item[w] \in 1 .. given /\ item[w] \in Stage!Held
  <2>1. item[w] \in 1 .. given
    BY <1>2 DEF ItemsOfThreads, Busy, Counters, TypeOK
  <2>2. item[w] \notin lost /\ \A k \in 1 .. Len(log) : log[k] # item[w]
    BY <1>2 DEF EachOnce
  <2>3. QED
    BY <2>1, <2>2 DEF Stage!Held
<1>3. QED
  BY <1>1, <1>2

LEMMA StageStep == IInv /\ [Next]_vars => [Stage!StageNext]_(Stage!stageVars)
<1> DEFINE emits == \E w \in Workers : wpc[w] = "output"
<1> SUFFICES ASSUME IInv, [Next]_vars
             PROVE  Stage!StageNext \/ UNCHANGED <<given, log, emits, lost>>
  BY DEF Stage!stageVars
<1> USE DEF IInv
<1>1. CASE Submit
  <2>1. Stage!Backlog < Slots
    BY <1>1, StageState DEF CallHasRoom, InCall, Submit
  <2>2. Stage!Accept
    BY <1>1, <2>1 DEF Stage!Accept, Submit, workerVars
  <2>3. QED
    BY <2>2 DEF Stage!StageNext
<1>2. CASE \E w \in Workers : Match(w)
  <2> PICK w \in Workers : Match(w)
    BY <1>2
  <2>1. ~emits /\ (item[w] = done + 1 \/ LostUpTo(done + 1))
    BY MatchSelectsOne
  <2>2. wpc'[w] = "output"
    BY DEF Match, TypeOK
  <2>3. emits'
    BY <2>2
  <2>4. item[w] \in 1 .. given /\ item[w] \in Stage!Held
    BY StageState DEF Match
  <2>5. Len(log) = done
    BY <2>1 DEF OutputIsFirst
  <2>6. item[w] = Len(log) + 1 \/ \E m \in lost : m <= Len(log) + 1
    BY <2>1, <2>5 DEF LostUpTo
  <2>7. log' = Append(log, item[w]) /\ given' = given /\ lost' = lost
    BY DEF Match
  <2>8. PICK n \in 1 .. given : n = item[w]
    BY <2>4
  <2>9. Stage!StartEmit(n)
    BY <2>1, <2>3, <2>4, <2>6, <2>7, <2>8 DEF Stage!StartEmit
  <2>10. QED
    BY <2>9 DEF Stage!StageNext
<1>3. CASE \E w \in Workers : Release(w)
  <2> PICK w \in Workers : Release(w)
    BY <1>3
  <2>1. emits
    BY DEF Release
  <2>2. \A v \in Workers \ {w} : wpc[v] # "output"
    BY OutputIsOne DEF SerialisedOutput, Release
  <2>3. ~emits'
    BY <2>2 DEF Release, TypeOK
  <2>4. Stage!EndEmit
    BY <2>1, <2>3 DEF Stage!EndEmit, Release
  <2>5. QED
    BY <2>4 DEF Stage!StageNext
<1>4. CASE \E w \in Workers : Fail(w)
  <2> PICK w \in Workers : Fail(w)
    BY <1>4
  <2>1. \A v \in Workers : wpc'[v] = "output" <=> wpc[v] = "output"
    BY DEF Fail, TypeOK
  <2>2. emits' = emits
    BY <2>1
  <2>3. item[w] \in 1 .. given /\ item[w] \in Stage!Held
    BY StageState DEF Fail
  <2>4. PICK n \in 1 .. given : n = item[w]
    BY <2>3
  <2>5. Stage!FailItem(n)
    BY <2>2, <2>3, <2>4 DEF Stage!FailItem, Fail
  <2>6. QED
    BY <2>5 DEF Stage!StageNext
<1>5. CASE \E w \in Workers : Take(w) \/ EndJob(w)
  <2> PICK w \in Workers : Take(w) \/ EndJob(w)
    BY <1>5
  <2>1. \A v \in Workers : wpc'[v] = "output" <=> wpc[v] = "output"
    BY DEF Take, EndJob, TypeOK
  <2>2. emits' = emits
    BY <2>1
  <2>3. QED
    BY <2>2 DEF Take, EndJob
<1>6. CASE \/ \E a \in Addr : Store(a)
           \/ Advance \/ CheckFull \/ SubmitThrows
           \/ HoldEnds \/ Close \/ Destroyed
           \/ UNCHANGED vars
  BY <1>6 DEF Store, Advance, CheckFull, SubmitThrows, HoldEnds, Close, Destroyed,
              workerVars, vars
<1>7. QED
  BY <1>1, <1>2, <1>3, <1>4, <1>5, <1>6 DEF Next, ProducerStep, Worker

\* The ring implements the bounded stage that the pipelines rely on: its threads hand
\* the items on one at a time, none twice, none that failed, and in the order of the
\* operator() calls unless a job has failed.
THEOREM ImplementsStage == Spec => ImplementsOrderedStage
<1>1. QED
  BY Inductive, StageInitially, StageStep, PTL
     DEF Spec, ImplementsOrderedStage, Stage!StageSpec

-------------------------------------------------------------------------------
(* Waiting *)

\* A pool thread has something to do: a job to start, its turn, the output handler
\* to leave, or the job to end.
CanStep(w) ==
    \/ wpc[w] = "free" /\ taken < given
    \/ wpc[w] = "sync" /\ slot[next] = addr[item[w]]
    \/ wpc[w] \in {"output", "returning"}

\* The producer has nothing to do but to look at the indices again, or is not in
\* the pipeline's code.
ProducerWaits ==
    \/ pc \in {"idle", "closed"}
    \/ pc = "holding" /\ last = next
    \/ pc = "closing" /\ last # next

\* The producer is held back by a ring in which nothing is left.
HeldByEmptyRing == pc = "holding" /\ given = done

\* When nobody can go on, then a job whose turn it would be, or one before it,
\* failed; or the producer is held back by an empty ring; or all is well: every
\* item was handled and no call of operator() or of the destructor is in progress.
StandstillHasAReason ==
    ProducerWaits /\ (\A w \in Workers : ~CanStep(w)) =>
        \/ LostUpTo(done + 1)
        \/ HeldByEmptyRing
        \/ given = done /\ pc \in {"idle", "closed"}

\* Once it is held back by an empty ring the producer is held back for ever, by a
\* ring that stays empty.
HeldForEver == [][HeldByEmptyRing => HeldByEmptyRing']_vars

\* While items are pending there is a thread that can step.
LEMMA SomebodyCanStep ==
    ASSUME IInv, Workers # {}, Pending # {}, ~LostUpTo(done + 1)
    PROVE  \E w \in Workers : CanStep(w)
<1>1. /\ done \in Nat /\ taken \in Nat /\ given \in Nat
      /\ done <= taken /\ taken <= given /\ done < given
  BY MaxItemsAssumption DEF IInv, TypeOK, Counters, Pending
<1>2. CASE taken = done
  <2>1. PICK w \in Workers : TRUE
    OBVIOUS
  <2>2. ~Working(w)
    <3>1. Working(w) => item[w] \in done + 1 .. taken
      BY DEF IInv, ItemsOfThreads
    <3>2. QED
      BY <1>1, <1>2, <3>1
  <2>3. wpc[w] \in {"free", "returning"}
    BY <2>2 DEF IInv, TypeOK, Working
  <2>4. taken < given
    BY <1>1, <1>2
  <2>5. QED
    BY <2>3, <2>4 DEF CanStep
<1>3. CASE taken # done
  <2>1. done + 1 \in done + 1 .. taken /\ done + 1 \in Pending
    BY <1>1, <1>3 DEF Pending
  <2>2. PICK w \in Workers : Working(w) /\ item[w] = done + 1
    BY <2>1 DEF IInv, StartedAreBusy
  <2>3. slot[next] = addr[done + 1]
    <3>1. At(0) = next
      BY SlotsAssumption DEF IInv, TypeOK, Ring, At, After
    <3>2. PICK n \in Pending : n = done + 1
      BY <2>1
    <3>3. n - done - 1 = 0
      BY <1>1, <3>2
    <3>4. slot[At(n - done - 1)] = addr[n]
      BY DEF IInv, SlotsOfPending
    <3>5. slot[At(0)] = addr[n]
      BY <3>3, <3>4
    <3>6. QED
      BY <3>1, <3>2, <3>5
  <2>4. wpc[w] \in {"sync", "output"}
    BY <2>2 DEF Working
  <2>5. QED
    BY <2>2, <2>3, <2>4 DEF CanStep
<1>4. QED
  BY <1>2, <1>3

\* The spinning handlers, the producer that waits for room and the destructor that
\* waits for the end come to a standstill before the end in two ways only: behind a
\* job that failed, and in the wait of operator() for a ring that has become empty.
THEOREM OnlyTwoStandstills ==
    ASSUME Workers # {}
    PROVE  Spec => []StandstillHasAReason
<1>1. IInv => StandstillHasAReason
  <2> SUFFICES ASSUME IInv, ProducerWaits, \A w \in Workers : ~CanStep(w),
                      ~LostUpTo(done + 1)
               PROVE  HeldByEmptyRing \/ (given = done /\ pc \in {"idle", "closed"})
    BY DEF StandstillHasAReason
  <2>1. done \in Nat /\ given \in Nat /\ done <= given
    BY MaxItemsAssumption DEF IInv, TypeOK, Counters
  <2>2. given = done
    <3>1. Pending = {}
      BY SomebodyCanStep
    <3>2. done < given => done + 1 \in Pending
      BY <2>1 DEF Pending
    <3>3. QED
      BY <2>1, <3>1, <3>2
  <2>3. pc # "closing"
    <3> SUFFICES ASSUME pc = "closing" PROVE FALSE
      OBVIOUS
    <3>1. last = At(0)
      BY <2>1, <2>2 DEF IInv, LastIndex
    <3>2. At(0) = next
      BY SlotsAssumption DEF IInv, TypeOK, Ring, At, After
    <3>3. QED
      BY <3>1, <3>2 DEF ProducerWaits
  <2>4. QED
    BY <2>2, <2>3 DEF ProducerWaits, HeldByEmptyRing
<1>2. QED
  BY Inductive, <1>1, PTL

\* operator() sees a full ring, and the ring is empty when it looks again: equal
\* indices.  From then on the producer stays where it is and the ring stays empty;
\* all that can still happen is that jobs that had their turn end.
THEOREM HoldNeverEnds == Spec => HeldForEver
<1>1. IInv /\ [Next]_vars => [HeldByEmptyRing => HeldByEmptyRing']_vars
  <2> SUFFICES ASSUME IInv, Next, pc = "holding", given = done
               PROVE  pc' = "holding" /\ given' = done'
    BY DEF HeldByEmptyRing
  <2>1. taken = done /\ done \in Nat
    BY MaxItemsAssumption DEF IInv, TypeOK, Counters
  <2>2. last = next
    <3>1. last = At(0)
      BY <2>1 DEF IInv, LastIndex
    <3>2. At(0) = next
      BY SlotsAssumption DEF IInv, TypeOK, Ring, At, After
    <3>3. QED
      BY <3>1, <3>2
  <2>3. \A w \in Workers : ~Working(w)
    <3>1. \A w \in Workers : Working(w) => item[w] \in done + 1 .. taken
      BY DEF IInv, ItemsOfThreads
    <3>2. QED
      BY <2>1, <3>1
  <2>4. \A w \in Workers : ~Take(w) /\ ~Match(w) /\ ~Release(w) /\ ~Fail(w)
    BY <2>1, <2>3 DEF Take, Match, Release, Fail, Working
  <2>5. ~ProducerStep /\ ~Close /\ \A a \in Addr : ~Store(a)
    BY <2>2 DEF ProducerStep, Advance, CheckFull, Submit, SubmitThrows, HoldEnds,
                Destroyed, Close, Store
  <2>6. \E w \in Workers : EndJob(w)
    BY <2>4, <2>5 DEF Next, Worker
  <2>7. QED
    BY <2>6 DEF EndJob, producerVars
<1>2. QED
  BY Inductive, <1>1, PTL DEF HeldForEver, Spec
===============================================================================
