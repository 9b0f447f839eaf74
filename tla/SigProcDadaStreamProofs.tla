------------------------ MODULE SigProcDadaStreamProofs ------------------------
(* Theorems about SigProcDadaStream, for every size of blocks and chunks, every  *)
(* number of channels, all transfers and up to two threads.                      *)
(*                                                                               *)
(* The argument: what was copied to the current chunk follows what has left, and *)
(* as chunks end with whole spectra, the elements of a transfer that were read   *)
(* before a call of do_process() are whole spectra too: the start time of the    *)
(* stream is the one that the transfer's header gives its next element, but for  *)
(* less than an interval by which the transfer may have begun early.  Transfers  *)
(* may have any intervals: the time of the stream is advanced by each one's own. *)
EXTENDS SigProcDadaStream, SequenceTheorems, TLAPS

HasChunk == chunk # NoChunk

\* acquire_data_block(), for read() or for flush()
Acquiring == pc \in {"release", "open", "opened", "keep", "kept"}

\* do_process() from the entry to the end of its read
Reading == pc \in {"read", "copy", "full", "partial"} \/ (Acquiring /\ caller = "read")

\* Between two calls of do_process()
Between ==
    \/ pc \in {"flush", "flushed", "reset", "relock", "post", "idle", "header"}
    \/ (Acquiring /\ caller = "flush")

Types ==
    /\ header \in [start : Int, step : Nat \ {0}, chans : Nat \ {0}, bits : Nat]
    /\ HasChunk => chunk \in [start : Int, step : Nat \ {0}, chans : Nat \ {0}, size : Nat]
    /\ entry \in Nat /\ startTime \in Int /\ gone \in Nat /\ transfers \in Nat
    /\ caller \in {"read", "flush"} /\ error \in BOOLEAN
    /\ index <= count

\* stop() takes the block away from a handler only if it runs aside.
StopAside ==
    stopping = "releasing" => flag /\ (threads = 0 => pc \in {"new", "idle"})

BlockStays ==
    ~StoppedAside =>
        /\ block # NoBlock \/ pc \in {"opened", "keep"} => held # "no"
        /\ pc = "copy" => block # NoBlock

\* The chunk and what is missing in it
Filling ==
    /\ IF HasChunk
       THEN /\ header.chans = chunk.chans
            /\ Len(copied) + want = chunk.size * chunk.chans
            /\ posted # "new_chunk" /\ pc # "new"
       ELSE /\ copied = <<>>
            /\ pc \in {"new", "idle", "header"}
            /\ posted # "process"
    /\ pc = "full" => want = 0

\* Chunks are ended in the middle of a spectrum by an error only.
Whole ==
    HasChunk =>
        /\ Reading => entry <= Len(copied) /\ entry % chunk.chans = 0
        /\ Between => Len(copied) % chunk.chans = 0

Complete ==
    \A k \in DOMAIN leaving :
        Len(leaving[k].items) = leaving[k].size * leaving[k].chans \/ flag \/ error

Basic == TypeOK /\ Types /\ StopAside /\ BlockStays /\ Filling /\ Whole /\ Complete

\* With one thread, the elements that have left or are leaving
Out == IF leaving = <<>> THEN gone ELSE gone + Len(leaving[1].items)

\* The item is the n-th, or was read from a block that stop() gave back.
InPlace(item, n) == item.number = n \/ (StoppedAside /\ item = Garbage)

InRingOrder ==
    threads < 2 =>
        /\ Len(leaving) <= 1
        /\ pc \notin {"new", "idle"} => leaving = <<>>
        /\ \A i \in DOMAIN copied : InPlace(copied[i], Out + i)
        /\ count = Out + Len(copied)
        /\ \A k \in DOMAIN leaving : \A i \in DOMAIN leaving[k].items :
               InPlace(leaving[k].items[i], gone + i)

\* All items are of transfers with interval v.
Uniform(v, items) == \A i \in DOMAIN items : items[i].step = v

\* The start of a chunk dates its first item, and all if their interval is its own.
Timed(start, v, chans, items) ==
    /\ items # <<>> /\ items[1] # Garbage => Dates(start, items[1])
    /\ Uniform(v, items) =>
          \A i \in DOMAIN items : Dates(start + v * ((i - 1) \div chans), items[i])

\* The time t of the stream is that of the n-th element of this transfer, or less
\* than an interval later.
OnTime(t, n) ==
    /\ n >= 0
    /\ n % header.chans = 0
    /\ t - (header.start + header.step * (n \div header.chans)) \in 0 .. header.step - 1

\* The chunk with n elements ends at the time of the stream.
EndsOnTime(n) ==
    Uniform(chunk.step, copied) => startTime = chunk.start + chunk.step * (n \div chunk.chans)

InTime ==
    /\ HasChunk =>
         /\ Timed(chunk.start, chunk.step, chunk.chans, copied)
         /\ Reading =>
              /\ EndsOnTime(entry)
              /\ OnTime(startTime, index - (Len(copied) - entry))
              /\ \A i \in DOMAIN copied :
                     i > entry => copied[i] = Garbage \/ copied[i].step = header.step
         /\ Between => EndsOnTime(Len(copied))
    /\ posted \in {"new_chunk", "process"} => OnTime(startTime, index)
    /\ \A k \in DOMAIN leaving :
           Timed(leaving[k].start, leaving[k].step, leaving[k].chans, leaving[k].items)

\* The inductive invariant.
IInv == Basic /\ InRingOrder /\ InTime

-------------------------------------------------------------------------------
(* Arithmetic of whole spectra *)

LEMMA DivMod ==
    ASSUME NEW x \in Int, NEW c \in Nat \ {0}
    PROVE  /\ x \div c \in Int /\ x % c \in 0 .. c - 1
           /\ x = c * (x \div c) + (x % c)
  OBVIOUS

LEMMA DivUnique ==
    ASSUME NEW x \in Int, NEW c \in Nat \ {0}, NEW q \in Int, NEW r \in 0 .. c - 1,
           x = c * q + r
    PROVE  x \div c = q /\ x % c = r
  OBVIOUS

\* Whole spectra in front of b elements are counted on their own.
LEMMA DivShift ==
    ASSUME NEW x \in Int, NEW b \in Int, NEW c \in Nat \ {0}, x % c = 0
    PROVE  /\ (x + b) \div c = (x \div c) + (b \div c)
           /\ (x + b) % c = b % c
<1>1. /\ x \div c \in Int /\ x = c * (x \div c)
      /\ b \div c \in Int /\ b % c \in 0 .. c - 1 /\ b = c * (b \div c) + (b % c)
  BY DivMod
<1> DEFINE q == (x \div c) + (b \div c)
           y == x + b
           r == b % c
<1>2. q \in Int /\ y \in Int /\ r \in 0 .. c - 1
  BY <1>1
<1>3. y = c * q + r
  BY <1>1
<1> HIDE DEF q, y, r
<1>4. y \div c = q /\ y % c = r
  BY <1>2, <1>3, DivUnique
<1>5. QED
  BY <1>4 DEF q, y, r

\* The time of a + b spectra is that of a and that of b.
LEMMA Spread ==
    ASSUME NEW v \in Int, NEW a \in Int, NEW b \in Int
    PROVE  v * (a + b) = v * a + v * b /\ v * a \in Int /\ v * b \in Int
  OBVIOUS

-------------------------------------------------------------------------------
(* A handler lets its chunk go. *)

LEMMA DeliveryType ==
    ASSUME NEW c \in [start : Int, step : Nat \ {0}, chans : Nat \ {0}, size : Nat], copied \in Seq(Item)
    PROVE  /\ Delivery(c, copied) \in
                  [start : Int, step : Nat, chans : Nat, size : Nat, items : Seq(Item)]
           /\ Delivery(c, copied).start = c.start /\ Delivery(c, copied).step = c.step
           /\ Delivery(c, copied).chans = c.chans
           /\ Delivery(c, copied).size = c.size /\ Delivery(c, copied).items = copied
  BY DEF Delivery

Leaving == Seq([start : Int, step : Nat, chans : Nat, size : Nat, items : Seq(Item)])

LEMMA LetGoAdds ==
    ASSUME leaving \in Leaving, copied \in Seq(Item),
           NEW c, c = NoChunk \/ c \in [start : Int, step : Nat \ {0}, chans : Nat \ {0}, size : Nat],
           LetGo(c)
    PROVE  /\ leaving' \in Leaving
           /\ chunk' = NoChunk /\ copied' = <<>> /\ want' = 0 /\ pc' = "idle"
           /\ \A k \in DOMAIN leaving' :
                 \/ k \in DOMAIN leaving /\ leaving'[k] = leaving[k]
                 \/ /\ c # NoChunk
                    /\ k = Len(leaving) + 1
                    /\ leaving'[k].start = c.start /\ leaving'[k].step = c.step
                    /\ leaving'[k].chans = c.chans
                    /\ leaving'[k].size = c.size /\ leaving'[k].items = copied
           /\ c = NoChunk => leaving' = leaving
           /\ c # NoChunk => Len(leaving') = Len(leaving) + 1
<1>1. chunk' = NoChunk /\ copied' = <<>> /\ want' = 0 /\ pc' = "idle"
  BY DEF LetGo
<1>2. CASE c = NoChunk
  BY <1>1, <1>2 DEF LetGo, Leaving
<1>3. CASE c # NoChunk
  <2> DEFINE d == Delivery(c, copied)
  <2>1. leaving' = Append(leaving, d)
    BY <1>3 DEF LetGo
  <2>2. /\ d \in [start : Int, step : Nat, chans : Nat, size : Nat, items : Seq(Item)]
        /\ d.start = c.start /\ d.step = c.step
        /\ d.chans = c.chans /\ d.size = c.size /\ d.items = copied
    BY <1>3, DeliveryType
  <2> HIDE DEF d
  <2>3. /\ leaving' \in Leaving /\ Len(leaving') = Len(leaving) + 1
        /\ DOMAIN leaving' = 1 .. Len(leaving) + 1
        /\ \A k \in 1 .. Len(leaving) : leaving'[k] = leaving[k]
        /\ leaving'[Len(leaving) + 1] = d
    BY <2>1, <2>2 DEF Leaving
  <2>4. Len(leaving) \in Nat /\ DOMAIN leaving = 1 .. Len(leaving)
    BY DEF Leaving
  <2>5. QED
    BY <1>1, <1>3, <2>2, <2>3, <2>4
<1>4. QED
  BY <1>2, <1>3

\* Delivering a chunk leaves the others.
LEMMA DeliverRemoves ==
    ASSUME leaving \in Leaving, NEW k \in DOMAIN leaving, Deliver(k)
    PROVE  /\ leaving' \in Leaving
           /\ Len(leaving') = Len(leaving) - 1
           /\ \A m \in DOMAIN leaving' : \E n \in DOMAIN leaving : leaving'[m] = leaving[n]
<1> DEFINE R == [start : Int, step : Nat, chans : Nat, size : Nat, items : Seq(Item)]
           a == SubSeq(leaving, 1, k - 1)
           b == SubSeq(leaving, k + 1, Len(leaving))
           l == Len(leaving)
<1>0. leaving \in Seq(R)
  BY DEF Leaving
<1> HIDE DEF R
<1>1. /\ leaving \in Seq(R) /\ l \in Nat /\ k \in 1 .. l
      /\ leaving' = a \o b
  BY <1>0 DEF Deliver
<1>2. /\ a \in Seq(R) /\ Len(a) = k - 1
      /\ \A m \in 1 .. k - 1 : a[m] = leaving[m]
  BY <1>1, SubSeqProperties
<1>3. /\ b \in Seq(R) /\ Len(b) = l - k
      /\ \A m \in 1 .. l - k : b[m] = leaving[k + m]
  BY <1>1, SubSeqProperties
<1> HIDE DEF a, b
<1>4. /\ leaving' \in Seq(R) /\ Len(leaving') = l - 1
      /\ \A m \in 1 .. l - 1 : leaving'[m] = IF m <= k - 1 THEN a[m] ELSE b[m - (k - 1)]
  <2>1. /\ a \o b \in Seq(R) /\ Len(a \o b) = Len(a) + Len(b)
        /\ \A m \in 1 .. Len(a) + Len(b) :
               (a \o b)[m] = IF m <= Len(a) THEN a[m] ELSE b[m - Len(a)]
    BY <1>2, <1>3, ConcatProperties
  <2>2. Len(a) + Len(b) = l - 1
    BY <1>1, <1>2, <1>3
  <2>3. QED
    BY <1>1, <1>2, <2>1, <2>2
<1>5. ASSUME NEW m \in 1 .. l - 1
      PROVE  \E n \in 1 .. l : leaving'[m] = leaving[n]
  <2>1. CASE m <= k - 1
    <3>1. m \in 1 .. k - 1 /\ m \in 1 .. l
      BY <1>1, <2>1
    <3>2. leaving'[m] = leaving[m]
      BY <1>2, <1>4, <2>1, <3>1
    <3>3. QED
      BY <3>1, <3>2
  <2>2. CASE ~(m <= k - 1)
    <3>1. m - (k - 1) \in 1 .. l - k /\ k + (m - (k - 1)) = m + 1 /\ m + 1 \in 1 .. l
      BY <1>1, <2>2
    <3>2. leaving'[m] = b[m - (k - 1)]
      BY <1>4, <2>2
    <3>3. b[m - (k - 1)] = leaving[m + 1]
      BY <1>3, <3>1
    <3>4. QED
      BY <3>1, <3>2, <3>3
  <2>3. QED
    BY <2>1, <2>2
<1>6. DOMAIN leaving' = 1 .. l - 1 /\ DOMAIN leaving = 1 .. l
  BY <1>1, <1>4
<1>7. QED
  BY <1>4, <1>5, <1>6 DEF Leaving, R

-------------------------------------------------------------------------------
LEMMA InitBasic == Init => Basic
<1> SUFFICES ASSUME Init PROVE Basic
  OBVIOUS
<1>10. flag \in BOOLEAN /\ eod \in BOOLEAN /\ error \in BOOLEAN
  BY DEF Init, ClientInit
<1>1. /\ threads \in 0 .. 2 /\ stopping = "no" /\ held = "no"
      /\ block = NoBlock /\ opened = 0 /\ blocks = 0 /\ index = 0 /\ count = 0
      /\ want = 0 /\ pc = "new" /\ caller = "read" /\ posted = "none" /\ startTime = 0
      /\ chunk = NoChunk /\ entry = 0 /\ gone = 0 /\ transfers = 0
  BY DEF Init, ClientInit
<1>2. copied = <<>> /\ copied \in Seq(Item)
  BY DEF Init, ClientInit
<1>3. /\ leaving \in Seq([start : Int, step : Nat, chans : Nat, size : Nat, items : Seq(Item)])
      /\ DOMAIN leaving = {}
  BY DEF Init
<1>4. header \in [start : Int, step : Nat \ {0}, chans : Nat \ {0}, bits : Nat]
  BY DEF Init, ClientInit, NoHeader
<1>5. TypeOK
  BY <1>1, <1>2, <1>3, <1>10, ClientAssumption DEF TypeOK
<1>6. Types /\ StopAside
  BY <1>1, <1>4, <1>10 DEF Types, HasChunk, StopAside
<1>7. Complete
  BY <1>3 DEF Complete
<1>8. BlockStays /\ Filling /\ Whole
  BY <1>1, <1>2 DEF HasChunk, BlockStays, Filling, Whole
<1>9. QED
  BY <1>5, <1>6, <1>7, <1>8 DEF Basic

\* The client's steps that leave the chunk alone
LEMMA ClientBasic ==
    ASSUME Basic,
           \/ Release \/ OpenAtEod \/ OpenStopped \/ TestFlag \/ Keep \/ Kept
           \/ Read \/ Reset \/ SetFlag \/ StopReleases
           \/ (\E n \in BlockSizes, which \in {"more", "last"} : OpenBlock(n, which)),
           UNCHANGED streamVars
    PROVE  Basic'
<1> USE ClientAssumption DEF Basic, streamVars
<1>1. /\ UNCHANGED <<threads, index, count, header, copied, want>>
      /\ HasChunk' = HasChunk /\ (chunk.size)' = chunk.size /\ (chunk.chans)' = chunk.chans
  BY DEF Release, OpenAtEod, OpenStopped, TestFlag, Keep, Kept, Read, Reset, Flush,
         LastRelease, FlushThrows, TestReset, Relock, SetFlag, StopReleases, OpenBlock, HasChunk
<1>2. TypeOK'
  <2>1. /\ threads' \in 0 .. 2 /\ index' \in Nat /\ count' \in Nat
        /\ copied' \in Seq(Item) /\ want' \in Nat
        /\ posted' \in {"none", "next_sequence", "new_chunk", "process"}
        /\ leaving' \in Seq([start : Int, step : Nat, chans : Nat, size : Nat, items : Seq(Item)])
    BY <1>1 DEF TypeOK
  <2>2. eod' \in BOOLEAN /\ flag' \in BOOLEAN
    BY DEF TypeOK, Release, OpenAtEod, OpenStopped, TestFlag, Keep, Kept, Read, Reset, Flush,
         LastRelease, FlushThrows, TestReset, Relock, SetFlag, StopReleases, OpenBlock, Released, NoneAcquired
  <2>3. /\ block' \in Nat \cup {NoBlock} /\ opened' \in Nat /\ blocks' \in 0 .. MaxBlocks
    <3>1. CASE Reset
      <4>1. block' \in {block, NoBlock} /\ opened' = opened /\ blocks' \in {blocks, 0}
        BY <3>1 DEF Reset, Flush, LastRelease, FlushThrows, TestReset, Relock, Released
      <4>2. 0 \in 0 .. MaxBlocks
        BY DEF ClientAssumption
      <4>3. QED
        BY <4>1, <4>2 DEF TypeOK
    <3>2. CASE ~Reset
      BY <3>2 DEF TypeOK, Release, OpenAtEod, OpenStopped, TestFlag, Keep, Kept, Read,
                  SetFlag, StopReleases, OpenBlock, Released, NoneAcquired
    <3>3. QED
      BY <3>1, <3>2
  <2>4. /\ stopping' \in {"no", "releasing", "done"} /\ held' \in {"no", "more", "last"}
    BY DEF TypeOK, Release, OpenAtEod, OpenStopped, TestFlag, Keep, Kept, Read, Reset, Flush,
         LastRelease, FlushThrows, TestReset, Relock, SetFlag, StopReleases, OpenBlock, Released, NoneAcquired
  <2>5. /\ pc' \in {"new", "idle", "header", "read", "copy", "full", "partial", "release",
               "open", "opened", "keep", "kept", "flush", "flushed", "reset", "relock",
               "post", "thrown", "crashed"}
        /\ posted' # "none" => pc' = "idle"
    <3>1. CASE Reset
      BY <3>1 DEF TypeOK, Reset, Flush, LastRelease, FlushThrows, TestReset, Relock, Released
    <3>2. CASE ~Reset
      BY <3>2 DEF TypeOK, Release, OpenAtEod, OpenStopped, TestFlag, Keep, Kept, Read,
                  SetFlag, StopReleases, OpenBlock, Released, NoneAcquired
    <3>3. QED
      BY <3>1, <3>2
  <2>6. pc' = "read" => Len(copied') + want' = (chunk.size)' * (chunk.chans)'
    BY <1>1 DEF TypeOK, Release, OpenAtEod, OpenStopped, TestFlag, Keep, Kept, Read, Reset, Flush,
         LastRelease, FlushThrows, TestReset, Relock, SetFlag, StopReleases, OpenBlock, Released, NoneAcquired
  <2>7. QED
    BY <2>1, <2>2, <2>3, <2>4, <2>5, <2>6 DEF TypeOK
<1>3. Types'
  BY <1>1 DEF Types, HasChunk, TypeOK,
         Release, OpenAtEod, OpenStopped, TestFlag, Keep, Kept, Read, Reset, Flush,
         LastRelease, FlushThrows, TestReset, Relock, SetFlag, StopReleases, OpenBlock, Released, NoneAcquired
<1>4. StopAside'
  BY <1>1 DEF StopAside, StoppedAside, TypeOK, Filling,
         Release, OpenAtEod, OpenStopped, TestFlag, Keep, Kept, Read, Reset, Flush,
         LastRelease, FlushThrows, TestReset, Relock, SetFlag, StopReleases, OpenBlock, Released, NoneAcquired
<1>5. BlockStays'
  BY <1>1 DEF BlockStays, StoppedAside, StopAside, TypeOK, Empty, CanRelease, NoBlock,
         Release, OpenAtEod, OpenStopped, TestFlag, Keep, Kept, Read, Reset, Flush,
         LastRelease, FlushThrows, TestReset, Relock, SetFlag, StopReleases, OpenBlock, Released, NoneAcquired
<1>6. Filling'
  BY <1>1 DEF Filling, HasChunk, TypeOK, StopAside,
         Release, OpenAtEod, OpenStopped, TestFlag, Keep, Kept, Read, Reset, Flush,
         LastRelease, FlushThrows, TestReset, Relock, SetFlag, StopReleases, OpenBlock, Released, NoneAcquired
<1>7. Whole'
  <2>1. CASE Reset
    BY <1>1, <2>1 DEF Whole, HasChunk, Reading, Between, Acquiring, TypeOK, Types, Reset, Flush,
                      LastRelease, FlushThrows, TestReset, Relock
  <2>2. CASE ~Reset
    BY <1>1, <2>2 DEF Whole, HasChunk, Reading, Between, Acquiring, TypeOK, Types,
         Release, OpenAtEod, OpenStopped, TestFlag, Keep, Kept, Read, SetFlag, StopReleases,
         OpenBlock, Released, NoneAcquired
  <2>3. QED
    BY <2>1, <2>2
<1>8. Complete'
  BY <1>1 DEF Complete,
         Release, OpenAtEod, OpenStopped, TestFlag, Keep, Kept, Read, Reset, Flush,
         LastRelease, FlushThrows, TestReset, Relock, SetFlag, StopReleases, OpenBlock, Released, NoneAcquired
<1>9. QED
  BY <1>2, <1>3, <1>4, <1>5, <1>6, <1>7, <1>8

LEMMA ElementType ==
    ASSUME Basic, NEW i \in Nat \ {0}, i > index
    PROVE  Element(i) \in Item
<1>1. /\ header.start \in Int /\ header.step \in Nat \ {0} /\ header.chans \in Nat \ {0}
      /\ index \in Nat /\ count \in Nat /\ index <= count
  BY DEF Basic, Types, TypeOK
<1>2. (i - 1) \div header.chans \in Int
  <2> DEFINE x == i - 1
             c == header.chans
  <2>1. x \in Int /\ c \in Nat \ {0}
    BY <1>1
  <2> HIDE DEF x, c
  <2>2. x \div c \in Int
    BY <2>1, DivMod
  <2>3. QED
    BY <2>2 DEF x, c
<1>3. header.start + header.step * ((i - 1) \div header.chans) \in Int
  BY <1>1, <1>2, Spread
<1>4. count + i - index \in Nat
  BY <1>1
<1>5. QED
  BY <1>1, <1>3, <1>4 DEF Element, Item

\* What Copy adds to the chunk
LEMMA CopyAdds ==
    ASSUME Basic, Copy, block # NoBlock
    PROVE  /\ Span \in Nat /\ Span <= want /\ Span <= block
           /\ copied' \in Seq(Item)
           /\ Len(copied') = Len(copied) + Span
           /\ \A i \in 1 .. Len(copied) : copied'[i] = copied[i]
           /\ \A j \in 1 .. Span :
                 copied'[Len(copied) + j] = IF held = "no" THEN Garbage ELSE Element(index + j)
           /\ block' = block - Span /\ want' = want - Span
           /\ index' = index + Span /\ count' = count + Span
           /\ pc' = "read"
<1> DEFINE f == [i \in 1 .. Span |-> IF held = "no" THEN Garbage ELSE Element(index + i)]
<1>1. block \in Nat /\ want \in Nat /\ index \in Nat /\ copied \in Seq(Item)
  BY DEF Basic, TypeOK
<1>2. Span \in Nat /\ Span <= want /\ Span <= block
  BY <1>1 DEF Span
<1>3. Garbage \in Item
  BY DEF Garbage, Item
<1>4. ASSUME NEW i \in 1 .. Span
      PROVE  (IF held = "no" THEN Garbage ELSE Element(index + i)) \in Item
  <2>1. index + i \in Nat \ {0} /\ index + i > index
    BY <1>1, <1>2
  <2>2. Element(index + i) \in Item
    BY <2>1, ElementType
  <2>3. QED
    BY <1>3, <2>2
<1>5. f \in [1 .. Span -> Item]
  BY <1>4
<1>6. f \in Seq(Item) /\ Len(f) = Span
  BY <1>2, <1>5
<1>7. /\ copied' = copied \o f
      /\ block' = block - Span /\ want' = want - Span
      /\ index' = index + Span /\ count' = count + Span
      /\ pc' = "read"
  BY DEF Copy
<1>8. \A j \in 1 .. Span : f[j] = IF held = "no" THEN Garbage ELSE Element(index + j)
  OBVIOUS
<1> HIDE DEF f
<1>9. /\ copied \o f \in Seq(Item) /\ Len(copied \o f) = Len(copied) + Len(f)
      /\ \A i \in 1 .. Len(copied) + Len(f) :
             (copied \o f)[i] = IF i <= Len(copied) THEN copied[i] ELSE f[i - Len(copied)]
  BY <1>1, <1>6, ConcatProperties
<1>10. Len(copied) \in Nat
  BY <1>1
<1>11. \A i \in 1 .. Len(copied) : copied'[i] = copied[i]
  BY <1>2, <1>6, <1>7, <1>9, <1>10
<1>12. ASSUME NEW j \in 1 .. Span
       PROVE  copied'[Len(copied) + j] = f[j]
  <2>1. /\ Len(copied) + j \in 1 .. Len(copied) + Len(f)
        /\ ~(Len(copied) + j <= Len(copied)) /\ Len(copied) + j - Len(copied) = j
    BY <1>2, <1>6, <1>10
  <2>2. QED
    BY <1>7, <1>9, <2>1
<1>13. QED
  BY <1>2, <1>6, <1>7, <1>8, <1>9, <1>11, <1>12

LEMMA CopyBasic ==
    ASSUME Basic, Copy, UNCHANGED streamVars
    PROVE  Basic'
<1> USE DEF Basic
<1>1. /\ UNCHANGED <<threads, flag, stopping, held, eod, opened, blocks, header, caller>>
      /\ UNCHANGED <<posted, startTime, chunk, entry, error, leaving, gone, transfers>>
      /\ pc = "copy"
  BY DEF Copy, streamVars
<1>2. CASE block = NoBlock
  <2>1. /\ UNCHANGED <<block, index, count, copied, want>>
        /\ pc' = "crashed"
    BY <1>2 DEF Copy
  <2>2. StoppedAside
    BY <1>1, <1>2 DEF BlockStays
  <2>3. TypeOK' /\ StoppedAside'
    BY <1>1, <2>1, <2>2 DEF TypeOK, StoppedAside
  <2>4. Types' /\ Filling' /\ Complete'
    BY <1>1, <2>1 DEF Types, Filling, HasChunk, Complete
  <2>5. BlockStays'
    BY <2>3 DEF BlockStays
  <2>6. Whole'
    BY <1>1, <2>1 DEF Whole, HasChunk, Reading, Between, Acquiring
  <2>7. StopAside'
    BY <1>1, <2>1 DEF StopAside
  <2>8. QED
    BY <2>3, <2>4, <2>5, <2>6, <2>7
<1>3. CASE block # NoBlock
  <2>1. /\ Span \in Nat /\ Span <= want /\ Span <= block
        /\ copied' \in Seq(Item) /\ Len(copied') = Len(copied) + Span
        /\ block' = block - Span /\ want' = want - Span
        /\ index' = index + Span /\ count' = count + Span /\ pc' = "read"
    BY <1>3, CopyAdds
  <2>2. /\ block \in Nat /\ want \in Nat /\ index \in Nat /\ count \in Nat
        /\ Len(copied) \in Nat /\ HasChunk
        /\ Len(copied) + want = chunk.size * chunk.chans
        /\ chunk.size \in Nat /\ chunk.chans \in Nat
        /\ posted = "none"
    BY <1>1, <1>3 DEF TypeOK, Filling, Types
  <2>3. Len(copied') + want' = chunk.size * chunk.chans
    <3> DEFINE all == chunk.size * chunk.chans
    <3>1. all \in Nat
      BY <2>2
    <3> HIDE DEF all
    <3>2. Len(copied) + want = all
      BY <2>2 DEF all
    <3>3. Len(copied') + want' = all
      BY <2>1, <2>2, <3>1, <3>2
    <3>4. QED
      BY <3>3 DEF all
  <2>4. /\ block' \in Nat /\ want' \in Nat /\ index' \in Nat /\ count' \in Nat
        /\ (index <= count => index' <= count')
        /\ Len(copied) <= Len(copied')
    BY <2>1, <2>2
  <2>5. TypeOK'
    BY <1>1, <2>1, <2>2, <2>3, <2>4 DEF TypeOK
  <2>6. Types'
    BY <1>1, <2>4 DEF Types, HasChunk
  <2>7. StopAside' /\ Complete'
    BY <1>1, <2>1 DEF StopAside, Complete, StoppedAside
  <2>8. BlockStays'
    BY <1>1, <1>3, <2>1 DEF BlockStays, StoppedAside
  <2>9. Filling'
    BY <1>1, <2>1, <2>2, <2>3 DEF Filling, HasChunk
  <2>10. Whole'
    <3>1. entry <= Len(copied) /\ entry % chunk.chans = 0
      BY <1>1, <2>2 DEF Whole, Reading
    <3>2. entry \in Nat
      BY DEF Types
    <3>3. entry <= Len(copied')
      BY <2>2, <2>4, <3>1, <3>2, <2>1
    <3>4. QED
      BY <1>1, <2>1, <3>1, <3>3 DEF Whole, HasChunk, Reading, Between, Acquiring
  <2>11. QED
    BY <2>5, <2>6, <2>7, <2>8, <2>9, <2>10
<1>4. QED
  BY <1>2, <1>3

-------------------------------------------------------------------------------
(* The stream's steps that keep the chunk *)

LEMMA HeaderType ==
    ASSUME startTime \in Int, NEW h \in Headers
    PROVE  h \in [start : Int, step : Nat \ {0}, chans : Nat \ {0}, bits : Nat]
<1>1. PICK d \in Offsets, v \in Intervals, c \in Channels, b \in Bits :
          h = [start |-> startTime + d, step |-> v, chans |-> c, bits |-> b]
  BY DEF Headers
<1>2. d \in Int /\ v \in Nat \ {0} /\ c \in Nat \ {0} /\ b \in Nat
  BY StreamAssumption
<1>3. QED
  BY <1>1, <1>2

LEMMA KeepingBasic ==
    ASSUME Basic,
           \/ Start \/ NextSequence \/ PostNextSequence
           \/ (\E h \in Headers : h.start >= 0 /\ (FirstSequence(h) \/ SameSequence(h)))
    PROVE  Basic'
<1> USE DEF Basic
<1>1. /\ UNCHANGED <<threads, flag, stopping, opened, count, copied, want, caller>>
      /\ UNCHANGED <<chunk, entry, error, leaving, gone>>
      /\ pc \in {"new", "idle", "header", "post"} /\ pc' \in {"idle", "header"}
      /\ posted' # "none" => pc' = "idle"
      /\ (HasChunk => pc # "new")
      /\ (HasChunk \/ posted' # "process") /\ (~HasChunk \/ posted' # "new_chunk")
      /\ posted' \in {"none", "next_sequence", "new_chunk", "process"}
  BY DEF Start, NextSequence, PostNextSequence, FirstSequence, SameSequence,
         HeaderComes, CanRun, HasChunk, Filling
<1>2. /\ header' \in [start : Int, step : Nat \ {0}, chans : Nat \ {0}, bits : Nat]
      /\ (HasChunk => (header.chans)' = chunk.chans)
      /\ startTime' \in Int /\ transfers' \in Nat /\ index' \in Nat /\ index' <= count
  <2>1. CASE Start \/ NextSequence \/ PostNextSequence
    BY <2>1 DEF Start, NextSequence, PostNextSequence, Types, TypeOK, Filling, HasChunk
  <2>2. CASE \E h \in Headers : h.start >= 0 /\ (FirstSequence(h) \/ SameSequence(h))
    <3>1. PICK h \in Headers : FirstSequence(h) \/ SameSequence(h)
      BY <2>2
    <3>2. h \in [start : Int, step : Nat \ {0}, chans : Nat \ {0}, bits : Nat]
      BY <3>1, HeaderType DEF Types
    <3>3. header' = h /\ index' = 0 /\ transfers' = transfers + 1
      BY <3>1 DEF FirstSequence, SameSequence, HeaderComes
    <3>4. startTime' \in {startTime, h.start}
      BY <3>1 DEF FirstSequence, SameSequence
    <3>5. HasChunk => h.chans = chunk.chans
      BY <3>1 DEF HasChunk, FirstSequence, SameSequence, Breaks
    <3>6. QED
      BY <3>2, <3>3, <3>4, <3>5 DEF Types, TypeOK
  <2>3. QED
    BY <2>1, <2>2
<1>3. /\ block' \in Nat \cup {NoBlock} /\ held' \in {"no", "more", "last"}
      /\ blocks' \in 0 .. MaxBlocks
      /\ (block' # NoBlock => block' = block /\ held' = held)
  BY ClientAssumption
     DEF Start, NextSequence, PostNextSequence, FirstSequence, SameSequence,
         HeaderComes, TypeOK
<1>4. eod' \in BOOLEAN /\ flag \in BOOLEAN
  BY DEF Start, NextSequence, PostNextSequence, FirstSequence, SameSequence,
         HeaderComes, TypeOK
<1>5. TypeOK'
  BY <1>1, <1>2, <1>3, <1>4 DEF TypeOK
<1>6. Types'
  BY <1>1, <1>2 DEF Types, HasChunk
<1>7. StopAside'
  <2>1. threads = 0 /\ stopping = "releasing" => pc \in {"new", "idle"}
    BY DEF StopAside
  <2>2. threads = 0 /\ stopping = "releasing" => ~CanRun
    BY DEF CanRun
  <2>3. threads = 0 /\ stopping = "releasing" => Start
    BY <2>1, <2>2 DEF NextSequence, PostNextSequence, FirstSequence, SameSequence,
                      HeaderComes
  <2>4. Start => pc' = "idle"
    BY DEF Start
  <2>5. QED
    BY <1>1, <2>3, <2>4 DEF StopAside
<1>8. BlockStays' /\ Complete'
  BY <1>1, <1>3 DEF BlockStays, Complete, StoppedAside
<1>9. Filling'
  BY <1>1, <1>2 DEF Filling, HasChunk, Types
<1>10. Whole'
  <2>1. HasChunk => Between
    BY <1>1 DEF Between
  <2>2. HasChunk' => Len(copied') % (chunk.chans)' = 0
    BY <1>1, <2>1 DEF Whole, HasChunk
  <2>3. ~Reading'
    BY <1>1 DEF Reading, Acquiring
  <2>4. QED
    BY <2>2, <2>3 DEF Whole
<1>11. QED
  BY <1>5, <1>6, <1>7, <1>8, <1>9, <1>10

\* The elements that this call of do_process() has read are those of whole spectra.
LEMMA AdvancedType ==
    ASSUME Basic PROVE Advanced \in Int
<1> DEFINE d == Len(copied) - entry
           c == header.chans
           v == header.step
<1>1. d \in Int /\ c \in Nat \ {0} /\ v \in Int /\ startTime \in Int
  BY DEF Basic, Types, TypeOK
<1> HIDE DEF d, c, v
<1>2. d \div c \in Int
  BY <1>1, DivMod
<1>3. startTime + v * (d \div c) \in Int
  BY <1>1, <1>2, Spread
<1>4. QED
  BY <1>3 DEF Advanced, d, c, v

LEMMA PartialBasic ==
    ASSUME Basic, Partial
    PROVE  Basic'
<1> USE DEF Basic
<1>1. /\ UNCHANGED <<threads, flag, stopping, held, eod, block, opened, blocks, index,
                   count, header, copied, want, caller>>
      /\ UNCHANGED <<posted, chunk, entry, error, leaving, gone, transfers>>
      /\ pc = "partial" /\ pc' = "flush" /\ startTime' = Advanced
  BY DEF Partial
<1>2. startTime' \in Int
  BY <1>1, AdvancedType
<1>3. flag \in BOOLEAN /\ eod \in BOOLEAN
  BY DEF TypeOK
<1>4. TypeOK'
  BY <1>1, <1>3 DEF TypeOK
<1>5. Types' /\ StopAside' /\ BlockStays' /\ Complete' /\ Filling'
  BY <1>1, <1>2 DEF Types, StopAside, BlockStays, Complete, Filling, HasChunk,
                    StoppedAside
<1>6. Whole'
  <2>1. /\ entry \in Nat /\ entry <= Len(copied) /\ entry % chunk.chans = 0
        /\ header.chans = chunk.chans /\ chunk.chans \in Nat \ {0}
        /\ Len(copied) \in Nat /\ HasChunk
    BY <1>1 DEF Whole, Reading, Types, Filling, TypeOK
  <2> DEFINE d == Len(copied) - entry
             c == chunk.chans
  <2>2. d \in Int /\ entry \in Int /\ c \in Nat \ {0} /\ entry + d = Len(copied)
    BY <2>1
  <2>3. (d % c) = 0 /\ (entry % c) = 0
    BY <2>1 DEF Partial, WholeSpectra
  <2> HIDE DEF d, c
  <2>4. (entry + d) % c = d % c
    BY <2>2, <2>3, DivShift
  <2>5. Len(copied) % chunk.chans = 0
    BY <2>2, <2>3, <2>4 DEF c
  <2>6. QED
    BY <1>1, <2>5 DEF Whole, HasChunk, Reading, Acquiring
<1>7. QED
  BY <1>4, <1>5, <1>6

-------------------------------------------------------------------------------
(* The steps that let the chunk go *)

LEMMA LetGoBasic ==
    ASSUME Basic, NEW c,
           c = NoChunk \/ c \in [start : Int, step : Nat \ {0}, chans : Nat \ {0}, size : Nat],
           LetGo(c),
           c # NoChunk => Len(copied) = c.size * c.chans \/ flag \/ error',
           error \in BOOLEAN, error' \in BOOLEAN, error => error',
           UNCHANGED <<threads, flag, stopping, held, eod, block, opened, blocks, count,
                       caller, gone>>,
           header' \in [start : Int, step : Nat \ {0}, chans : Nat \ {0}, bits : Nat],
           index' \in Nat, index' <= count, entry' \in Nat, transfers' \in Nat,
           startTime' \in Int, posted' \in {"none", "next_sequence", "new_chunk"}
    PROVE  Basic'
<1> USE DEF Basic
<1>1. leaving \in Leaving /\ copied \in Seq(Item)
  BY DEF TypeOK, Leaving
<1>2. /\ leaving' \in Leaving
      /\ chunk' = NoChunk /\ copied' = <<>> /\ want' = 0 /\ pc' = "idle"
      /\ \A k \in DOMAIN leaving' :
            \/ k \in DOMAIN leaving /\ leaving'[k] = leaving[k]
            \/ /\ c # NoChunk
               /\ k = Len(leaving) + 1
               /\ leaving'[k].start = c.start /\ leaving'[k].step = c.step
               /\ leaving'[k].chans = c.chans
               /\ leaving'[k].size = c.size /\ leaving'[k].items = copied
  BY <1>1, LetGoAdds
<1>3. flag \in BOOLEAN /\ eod \in BOOLEAN
  BY DEF TypeOK
<1>4. /\ copied' \in Seq(Item)
      /\ leaving' \in Seq([start : Int, step : Nat, chans : Nat, size : Nat, items : Seq(Item)])
  BY <1>2 DEF Leaving
<1>5. TypeOK'
  BY <1>2, <1>3, <1>4 DEF TypeOK
<1>6. Types' /\ StopAside' /\ BlockStays' /\ Filling' /\ Whole'
  BY <1>2 DEF Types, HasChunk, StopAside, BlockStays, Filling, Whole, StoppedAside,
              TypeOK
<1>7. Complete'
  <2> SUFFICES ASSUME NEW k \in DOMAIN leaving'
               PROVE  Len(leaving'[k].items) = leaving'[k].size * leaving'[k].chans
                      \/ flag' \/ error'
    BY DEF Complete
  <2>1. CASE k \in DOMAIN leaving /\ leaving'[k] = leaving[k]
    BY <2>1 DEF Complete
  <2>2. CASE /\ c # NoChunk
             /\ leaving'[k].start = c.start /\ leaving'[k].step = c.step
             /\ leaving'[k].chans = c.chans
             /\ leaving'[k].size = c.size /\ leaving'[k].items = copied
    BY <2>2
  <2>3. QED
    BY <1>2, <2>1, <2>2
<1>8. QED
  BY <1>5, <1>6, <1>7

\* The stream ends, by stop() or by an error.
LEMMA EndsBasic ==
    ASSUME Basic,
           \/ NoNextSequence \/ BadHeader \/ Fails
           \/ (\E h \in Headers : h.start >= 0 /\ BrokenSequence(h))
    PROVE  Basic'
<1>1. /\ header \in [start : Int, step : Nat \ {0}, chans : Nat \ {0}, bits : Nat]
      /\ chunk = NoChunk \/ chunk \in [start : Int, step : Nat \ {0}, chans : Nat \ {0}, size : Nat]
      /\ entry \in Nat /\ transfers \in Nat /\ startTime \in Int
      /\ index \in Nat /\ count \in Nat /\ index <= count
      /\ posted # "none" => pc = "idle"
      /\ error \in BOOLEAN
  BY DEF Basic, Types, TypeOK, HasChunk
<1>2. /\ LetGo(chunk) /\ (flag \/ error')
      /\ error' \in BOOLEAN /\ (error => error')
      /\ UNCHANGED <<threads, flag, stopping, held, eod, block, opened, blocks, count,
                     caller, gone, entry, startTime>>
      /\ posted' = "none"
  <2>1. CASE NoNextSequence
    BY <2>1, <1>1 DEF NoNextSequence
  <2>2. CASE BadHeader \/ Fails
    <3>1. /\ LetGo(chunk) /\ error' = TRUE
          /\ UNCHANGED <<threads, flag, stopping, held, eod, block, opened, blocks, count,
                         caller, gone, entry, startTime, posted>>
          /\ pc \in {"header", "partial", "thrown"}
      BY <2>2 DEF BadHeader, Fails
    <3>2. posted' = "none"
      BY <1>1, <3>1 DEF Basic, TypeOK
    <3>3. QED
      BY <1>1, <3>1, <3>2
  <2>3. CASE \E h \in Headers : h.start >= 0 /\ BrokenSequence(h)
    <3>1. /\ LetGo(chunk) /\ error' = TRUE
          /\ UNCHANGED <<threads, flag, stopping, held, eod, block, opened, blocks, count,
                         caller, gone, entry, startTime, posted>>
          /\ pc = "header"
      BY <2>3 DEF BrokenSequence, HeaderComes
    <3>2. posted' = "none"
      BY <1>1, <3>1 DEF Basic, TypeOK
    <3>3. QED
      BY <1>1, <3>1, <3>2
  <2>4. QED
    BY <2>1, <2>2, <2>3
<1>3. /\ header' \in [start : Int, step : Nat \ {0}, chans : Nat \ {0}, bits : Nat]
      /\ index' \in Nat /\ index' <= count /\ transfers' \in Nat
  <2>1. CASE NoNextSequence \/ BadHeader \/ Fails
    BY <1>1, <2>1 DEF NoNextSequence, BadHeader, Fails
  <2>2. CASE \E h \in Headers : h.start >= 0 /\ BrokenSequence(h)
    <3>1. PICK h \in Headers : BrokenSequence(h)
      BY <2>2
    <3>2. h \in [start : Int, step : Nat \ {0}, chans : Nat \ {0}, bits : Nat]
      BY <1>1, HeaderType
    <3>3. header' = h /\ index' = 0 /\ transfers' = transfers + 1
      BY <3>1 DEF BrokenSequence, HeaderComes
    <3>4. QED
      BY <1>1, <3>2, <3>3
  <2>3. QED
    BY <2>1, <2>2
<1>4. QED
  BY <1>1, <1>2, <1>3, LetGoBasic

\* A chunk is cut between two calls of do_process(), so after a whole spectrum.
LEMMA CutChunk ==
    ASSUME Basic, HasChunk, Between, NEW b,
           b = [chunk EXCEPT !.size = Len(copied) \div chunk.chans]
    PROVE  /\ b \in [start : Int, step : Nat \ {0}, chans : Nat \ {0}, size : Nat]
           /\ Len(copied) = b.size * b.chans
           /\ b.start = chunk.start /\ b.step = chunk.step /\ b.chans = chunk.chans
<1> DEFINE l == Len(copied)
           c == chunk.chans
<1>1. /\ chunk \in [start : Int, step : Nat \ {0}, chans : Nat \ {0}, size : Nat]
      /\ l \in Nat /\ c \in Nat \ {0} /\ (l % c) = 0
  BY DEF Basic, Types, TypeOK, Whole
<1>2. /\ b.start = chunk.start /\ b.step = chunk.step
      /\ b.chans = chunk.chans /\ b.size = l \div c
      /\ b = [start |-> chunk.start, step |-> chunk.step, chans |-> chunk.chans,
              size |-> l \div c]
  BY <1>1
<1> HIDE DEF l, c
<1>3. l \in Int /\ l \div c \in Int /\ l = c * (l \div c) + (l % c)
  BY <1>1, DivMod
<1>4. l = (l \div c) * c /\ l \div c \in Nat
  <2> DEFINE q == l \div c
  <2>1. q \in Int /\ l = c * q
    BY <1>1, <1>3
  <2> HIDE DEF q
  <2>2. q < 0 => c * q < 0
    BY <1>1, <2>1
  <2>3. q \in Nat /\ c * q = q * c
    BY <1>1, <2>1, <2>2
  <2>4. QED
    BY <2>1, <2>3 DEF q
<1>5. QED
  BY <1>1, <1>2, <1>4 DEF l, c

LEMMA NewSequenceBasic ==
    ASSUME Basic, NEW h \in Headers, h.start >= 0, NewSequence(h)
    PROVE  Basic'
<1> DEFINE b == [chunk EXCEPT !.size = Len(copied) \div chunk.chans]
<1>1. /\ header \in [start : Int, step : Nat \ {0}, chans : Nat \ {0}, bits : Nat]
      /\ entry \in Nat /\ transfers \in Nat /\ startTime \in Int
      /\ count \in Nat /\ error \in BOOLEAN
  BY DEF Basic, Types, TypeOK
<1>2. h \in [start : Int, step : Nat \ {0}, chans : Nat \ {0}, bits : Nat]
  BY <1>1, HeaderType
<1>3. /\ LetGo(b) /\ HasChunk /\ Between
      /\ header' = h /\ index' = 0 /\ transfers' = transfers + 1
      /\ startTime' = h.start /\ posted' = "new_chunk"
      /\ UNCHANGED <<threads, flag, stopping, held, eod, block, opened, blocks, count, caller>>
      /\ UNCHANGED <<entry, error, gone>>
  BY DEF NewSequence, HeaderComes, HasChunk, Between
<1>4. b \in [start : Int, step : Nat \ {0}, chans : Nat \ {0}, size : Nat] /\ Len(copied) = b.size * b.chans
  <2> HIDE DEF b
  <2>1. b = [chunk EXCEPT !.size = Len(copied) \div chunk.chans]
    BY DEF b
  <2>2. QED
    BY <1>3, <2>1, CutChunk
<1> HIDE DEF b
<1>5. header' \in [start : Int, step : Nat \ {0}, chans : Nat \ {0}, bits : Nat]
  BY <1>2, <1>3
<1>6. /\ index' \in Nat /\ index' <= count /\ entry' \in Nat /\ transfers' \in Nat
      /\ startTime' \in Int /\ error' \in BOOLEAN /\ (error => error')
  BY <1>1, <1>2, <1>3
<1>7. QED
  BY <1>1, <1>3, <1>4, <1>5, <1>6, LetGoBasic

LEMMA FullBasic ==
    ASSUME Basic, Full
    PROVE  Basic'
<1>1. /\ LetGo(chunk) /\ startTime' = Advanced /\ posted' = "new_chunk" /\ pc = "full"
      /\ UNCHANGED <<threads, flag, stopping, held, eod, block, opened, blocks, index,
                     count, header, caller>>
      /\ UNCHANGED <<entry, error, gone, transfers>>
  BY DEF Full
<1>2. /\ header \in [start : Int, step : Nat \ {0}, chans : Nat \ {0}, bits : Nat]
      /\ entry \in Nat /\ transfers \in Nat
      /\ count \in Nat /\ index \in Nat /\ index <= count /\ error \in BOOLEAN
      /\ chunk \in [start : Int, step : Nat \ {0}, chans : Nat \ {0}, size : Nat]
      /\ Len(copied) + want = chunk.size * chunk.chans /\ want = 0 /\ Len(copied) \in Nat
  BY <1>1 DEF Basic, Types, TypeOK, Filling, HasChunk
<1>3. Len(copied) = chunk.size * chunk.chans
  BY <1>2
<1>4. startTime' \in Int
  BY <1>1, AdvancedType
<1>5. QED
  BY <1>1, <1>2, <1>3, <1>4, LetGoBasic

\* do_process() begins on chunk c, of which n elements are there.
LEMMA ReadFromBasic ==
    ASSUME Basic, NEW c, NEW n, ReadFrom(c, n), CanRun,
           c \in [start : Int, step : Nat \ {0}, chans : Nat \ {0}, size : Nat],
           c.chans = header.chans,
           n = Len(copied), n % c.chans = 0,
           Len(copied) + want = c.size * c.chans \/ n = 0,
           posted' = "none",
           UNCHANGED <<threads, flag, stopping, held, eod, block, opened, blocks, index,
                       count, header, caller>>,
           UNCHANGED <<startTime, gone, transfers>>
    PROVE  Basic'
<1>1. /\ header \in [start : Int, step : Nat \ {0}, chans : Nat \ {0}, bits : Nat]
      /\ entry \in Nat /\ transfers \in Nat /\ startTime \in Int
      /\ count \in Nat /\ index \in Nat /\ index <= count /\ error \in BOOLEAN
      /\ copied \in Seq(Item) /\ want \in Nat /\ pc = "idle"
      /\ c.size \in Nat /\ c.chans \in Nat \ {0} /\ c # NoChunk
      /\ flag \in BOOLEAN /\ eod \in BOOLEAN
  BY DEF Basic, Types, TypeOK, CanRun, NoChunk
<1>2. CASE header.bits = 8
  <2> DEFINE all == c.size * c.chans
  <2>1. /\ chunk' = c /\ entry' = n /\ copied' = SubSeq(copied, 1, n)
        /\ want' = all - n /\ pc' = "read" /\ UNCHANGED <<error, leaving>>
    BY <1>2 DEF ReadFrom
  <2>2. copied' = copied
    BY <1>1, <2>1
  <2>3. all \in Nat
    BY <1>1
  <2>4. n \in Nat /\ (n + want = all \/ n = 0)
    BY <1>1
  <2> HIDE DEF all
  <2>5. want' \in Nat /\ Len(copied') + want' = all
    BY <1>1, <2>1, <2>2, <2>3, <2>4
  <2>6. Len(copied') + want' = (chunk.size)' * (chunk.chans)'
    BY <2>1, <2>5 DEF all
  <2>7. TypeOK'
    BY <1>1, <2>1, <2>2, <2>5, <2>6 DEF TypeOK, Basic
  <2>8. Types' /\ BlockStays' /\ Complete'
    BY <1>1, <2>1, <2>4 DEF Types, HasChunk, BlockStays, Complete, StoppedAside, Basic
  <2>9. StopAside'
    BY <2>1 DEF StopAside, CanRun, Basic
  <2>10. Filling'
    BY <1>1, <2>1, <2>6 DEF Filling, HasChunk
  <2>11. Whole'
    BY <1>1, <2>1, <2>2, <2>4 DEF Whole, HasChunk, Reading, Between, Acquiring
  <2>12. QED
    BY <2>7, <2>8, <2>9, <2>10, <2>11 DEF Basic
<1>3. CASE header.bits # 8
  <2>1. LetGo(c) /\ error' = TRUE /\ entry' = entry
    BY <1>3 DEF ReadFrom
  <2>2. QED
    BY <1>1, <2>1, LetGoBasic
<1>4. QED
  BY <1>2, <1>3

LEMMA ZeroMod == \A c \in Nat \ {0} : (0 % c) = 0 /\ 0 \div c = 0
<1> TAKE c \in Nat \ {0}
<1>1. 0 = c * 0 + 0 /\ 0 \in 0 .. c - 1
  OBVIOUS
<1>2. QED
  BY <1>1, DivUnique

LEMMA ProcessBasic ==
    ASSUME Basic, NewChunk \/ FillChunk
    PROVE  Basic'
<1>1. CASE NewChunk
  <2> DEFINE c == [start |-> startTime, step |-> header.step, chans |-> header.chans,
                 size |-> Samples]
  <2>1. /\ posted = "new_chunk" /\ CanRun /\ posted' = "none" /\ ReadFrom(c, 0)
        /\ UNCHANGED <<threads, flag, stopping, held, eod, block, opened, blocks, index,
                       count, header, caller>>
        /\ UNCHANGED <<startTime, gone, transfers>>
    BY <1>1 DEF NewChunk
  <2>2. copied = <<>> /\ Len(copied) = 0
    BY <2>1 DEF Basic, Filling, HasChunk
  <2>3. c \in [start : Int, step : Nat \ {0}, chans : Nat \ {0}, size : Nat] /\ c.chans = header.chans
    BY StreamAssumption DEF Basic, Types
  <2> HIDE DEF c
  <2>4. (0 % c.chans) = 0
    BY <2>3, ZeroMod
  <2>5. QED
    BY <2>1, <2>2, <2>3, <2>4, ReadFromBasic
<1>2. CASE FillChunk
  <2>1. /\ posted = "process" /\ CanRun /\ posted' = "none" /\ ReadFrom(chunk, Len(copied))
        /\ UNCHANGED <<threads, flag, stopping, held, eod, block, opened, blocks, index,
                       count, header, caller>>
        /\ UNCHANGED <<startTime, gone, transfers>>
    BY <1>2 DEF FillChunk
  <2>2. /\ HasChunk /\ pc = "idle" /\ chunk.chans = header.chans
        /\ chunk \in [start : Int, step : Nat \ {0}, chans : Nat \ {0}, size : Nat]
        /\ Len(copied) + want = chunk.size * chunk.chans
        /\ (Len(copied) % chunk.chans) = 0
    BY <2>1 DEF Basic, Filling, HasChunk, CanRun, Types, Whole, Between
  <2>3. QED
    BY <2>1, <2>2, ReadFromBasic
<1>3. QED
  BY <1>1, <1>2

LEMMA DeliverBasic ==
    ASSUME Basic, NEW k \in DOMAIN leaving, Deliver(k)
    PROVE  Basic'
<1>1. leaving \in Leaving
  BY DEF Basic, TypeOK, Leaving
<1>2. /\ leaving' \in Leaving
      /\ \A m \in DOMAIN leaving' : \E n \in DOMAIN leaving : leaving'[m] = leaving[n]
  BY <1>1, DeliverRemoves
<1>3. /\ UNCHANGED <<threads, flag, stopping, held, eod, block, opened, blocks, index, count,
                     header, copied, want, pc, caller>>
      /\ UNCHANGED <<posted, startTime, chunk, entry, error, transfers>>
      /\ gone' = gone + Len(leaving[k].items)
  BY DEF Deliver, clientVars
<1>4. gone' \in Nat
  <2>1. leaving[k].items \in Seq(Item) /\ gone \in Nat
    <3> DEFINE R == [start : Int, step : Nat, chans : Nat, size : Nat, items : Seq(Item)]
    <3>1. leaving \in Seq(R)
      BY <1>1 DEF Leaving
    <3> HIDE DEF R
    <3>2. leaving[k] \in R
      BY <3>1
    <3>3. QED
      BY <3>2 DEF R, Basic, Types
  <2>2. QED
    BY <1>3, <2>1
<1>5. TypeOK'
  BY <1>2, <1>3 DEF Basic, TypeOK, Leaving
<1>6. Types' /\ StopAside' /\ BlockStays' /\ Filling'
  BY <1>3, <1>4 DEF Basic, Types, HasChunk, StopAside, BlockStays, Filling,
                    StoppedAside
<1>7. Whole'
  BY <1>3 DEF Basic, Whole, HasChunk, Reading, Between, Acquiring
<1>8. Complete'
  BY <1>2, <1>3 DEF Basic, Complete
<1>9. QED
  BY <1>5, <1>6, <1>7, <1>8 DEF Basic

\* The client's steps that leave the chunk alone, with the ring's and stop()
ClientStep ==
    /\ \/ Release \/ OpenAtEod \/ OpenStopped \/ TestFlag \/ Keep \/ Kept
       \/ Read \/ Reset \/ SetFlag \/ StopReleases
       \/ (\E n \in BlockSizes, which \in {"more", "last"} : OpenBlock(n, which))
    /\ UNCHANGED streamVars

\* The steps of Next, by what they do to the chunk
LEMMA StepCases ==
    ASSUME Next
    PROVE  \/ ClientStep
           \/ Copy /\ UNCHANGED streamVars
           \/ Start \/ NextSequence \/ PostNextSequence
           \/ \E h \in Headers : h.start >= 0 /\ (FirstSequence(h) \/ SameSequence(h))
           \/ Partial
           \/ NoNextSequence \/ BadHeader \/ Fails
           \/ \E h \in Headers : h.start >= 0 /\ BrokenSequence(h)
           \/ \E h \in Headers : h.start >= 0 /\ NewSequence(h)
           \/ Full
           \/ NewChunk \/ FillChunk
           \/ \E k \in DOMAIN leaving : Deliver(k)
  BY DEF Next, Handler, Ring, Stopping, Acquire, Reset, ClientStep

LEMMA StepBasic == Basic /\ [Next]_vars => Basic'
<1> SUFFICES ASSUME Basic, [Next]_vars PROVE Basic'
  OBVIOUS
<1>1. CASE ClientStep
  BY <1>1, ClientBasic DEF ClientStep
<1>2. CASE Copy /\ UNCHANGED streamVars
  BY <1>2, CopyBasic
<1>3. CASE \/ Start \/ NextSequence \/ PostNextSequence
           \/ \E h \in Headers : h.start >= 0 /\ (FirstSequence(h) \/ SameSequence(h))
  BY <1>3, KeepingBasic
<1>4. CASE Partial
  BY <1>4, PartialBasic
<1>5. CASE \/ NoNextSequence \/ BadHeader \/ Fails
           \/ \E h \in Headers : h.start >= 0 /\ BrokenSequence(h)
  BY <1>5, EndsBasic
<1>6. CASE \E h \in Headers : h.start >= 0 /\ NewSequence(h)
  BY <1>6, NewSequenceBasic
<1>7. CASE Full
  BY <1>7, FullBasic
<1>8. CASE NewChunk \/ FillChunk
  BY <1>8, ProcessBasic
<1>9. CASE \E k \in DOMAIN leaving : Deliver(k)
  BY <1>9, DeliverBasic
<1>10. CASE UNCHANGED vars
  BY <1>10 DEF vars, Basic, TypeOK, Types, HasChunk, StopAside, BlockStays, StoppedAside,
       Filling, Whole, Reading, Between, Acquiring, Complete
<1>11. QED
  BY <1>1, <1>2, <1>3, <1>4, <1>5, <1>6, <1>7, <1>8, <1>9, <1>10, StepCases

\* stop() is for ever.
LEMMA StopStays ==
    ASSUME [Next]_vars
    PROVE  threads' = threads /\ (StoppedAside => StoppedAside')
<1>1. threads' = threads /\ (flag => flag')
  BY DEF Next, Handler, Ring, Stopping, Acquire, Reset, vars, clientVars, Start, NextSequence,
         NoNextSequence, BadHeader, HeaderComes, FirstSequence, NewSequence, BrokenSequence,
         SameSequence, OpenBlock, NewChunk, FillChunk, Full, Partial, Fails, PostNextSequence,
         LastRelease, FlushThrows, TestReset, Relock, Release, OpenAtEod, OpenStopped, TestFlag, Keep, Kept, Read, Copy,
         Flush, Deliver, SetFlag, StopReleases
<1>2. QED
  BY <1>1 DEF StoppedAside

-------------------------------------------------------------------------------
(* InRingOrder *)

LEMMA ShortSeq ==
    ASSUME NEW s \in Leaving
    PROVE  /\ Len(s) \in Nat /\ DOMAIN s = 1 .. Len(s)
           /\ Len(s) = 0 => s = <<>> /\ DOMAIN s = {}
           /\ Len(s) = 1 => s # <<>> /\ DOMAIN s = {1}
<1> DEFINE R == [start : Int, step : Nat, chans : Nat, size : Nat, items : Seq(Item)]
<1>1. s \in Seq(R)
  BY DEF Leaving
<1> HIDE DEF R
<1>2. /\ Len(s) \in Nat /\ DOMAIN s = 1 .. Len(s)
      /\ (Len(s) = 0 => s = <<>>)
  BY <1>1
<1>3. 1 .. 0 = {} /\ 1 .. 1 = {1}
  OBVIOUS
<1>4. Len(s) = 1 => s # <<>>
  <2>1. Len(<<>>) = 0
    OBVIOUS
  <2>2. QED
    BY <2>1
<1>5. QED
  BY <1>2, <1>3, <1>4

\* A thread that can run a handler, if there is one only, has returned from the last.
LEMMA NoneLeaving ==
    ASSUME TypeOK, CanRun, threads < 2
    PROVE  leaving = <<>>
<1> DEFINE R == [start : Int, step : Nat, chans : Nat, size : Nat, items : Seq(Item)]
<1>1. leaving \in Seq(R) /\ threads \in 0 .. 2
  BY DEF TypeOK
<1> HIDE DEF R
<1>2. Len(leaving) \in Nat /\ (Len(leaving) = 0 => leaving = <<>>)
  BY <1>1
<1>3. QED
  BY <1>1, <1>2 DEF CanRun

LEMMA InitOrder == Init => InRingOrder
<1> SUFFICES ASSUME Init PROVE InRingOrder
  OBVIOUS
<1>1. /\ leaving = <<>> /\ copied = <<>> /\ count = 0 /\ gone = 0 /\ pc = "new"
  BY DEF Init, ClientInit
<1>2. Len(leaving) = 0 /\ DOMAIN leaving = {} /\ Len(copied) = 0 /\ DOMAIN copied = {}
  BY <1>1
<1>3. QED
  BY <1>1, <1>2 DEF InRingOrder, Out

\* Steps that neither copy nor deliver nor let a chunk go
LEMMA OrderKept ==
    ASSUME Basic, InRingOrder, threads' = threads, StoppedAside => StoppedAside',
           UNCHANGED <<copied, count, leaving, gone>>,
           pc' \in {"new", "idle"} \/ pc \notin {"new", "idle"} \/ CanRun
    PROVE  InRingOrder'
<1> SUFFICES ASSUME threads < 2 PROVE InRingOrder'
  BY DEF InRingOrder
<1>1. Out' = Out
  BY DEF Out
<1>2. CanRun => leaving = <<>>
  BY NoneLeaving DEF Basic
<1>3. QED
  BY <1>1, <1>2 DEF InRingOrder, InPlace

LEMMA OrderLetGo ==
    ASSUME Basic, InRingOrder, threads' = threads, StoppedAside => StoppedAside',
           NEW c, c = NoChunk \/ c \in [start : Int, step : Nat \ {0}, chans : Nat \ {0}, size : Nat],
           LetGo(c), c = NoChunk => copied = <<>>,
           pc \notin {"new", "idle"} \/ CanRun,
           UNCHANGED <<count, gone>>
    PROVE  InRingOrder'
<1> SUFFICES ASSUME threads < 2 PROVE InRingOrder'
  BY DEF InRingOrder
<1>1. /\ leaving \in Leaving /\ copied \in Seq(Item) /\ gone \in Nat
      /\ Len(copied) \in Nat
  BY DEF Basic, TypeOK, Types, Leaving
<1>2. leaving = <<>>
  BY NoneLeaving DEF Basic, InRingOrder
<1>3. Len(leaving) = 0 /\ DOMAIN leaving = {}
  BY <1>2
<1>4. /\ Out = gone /\ count = gone + Len(copied)
      /\ \A i \in DOMAIN copied : InPlace(copied[i], gone + i)
  BY <1>2 DEF InRingOrder, Out
<1>5. /\ leaving' \in Leaving
      /\ copied' = <<>> /\ pc' = "idle"
      /\ \A k \in DOMAIN leaving' : c # NoChunk /\ k = 1 /\ leaving'[k].items = copied
      /\ c = NoChunk => leaving' = leaving
      /\ c # NoChunk => Len(leaving') = 1
  BY <1>1, <1>3, LetGoAdds
<1>6. Len(copied') = 0 /\ DOMAIN copied' = {}
  BY <1>5
<1>7. CASE c = NoChunk
  <2>1. leaving' = <<>> /\ Len(leaving') = 0 /\ DOMAIN leaving' = {}
    BY <1>2, <1>5, <1>7
  <2>2. copied = <<>> /\ Len(copied) = 0
    BY <1>7
  <2>3. Out' = gone /\ count' = gone
    BY <1>1, <1>4, <2>1, <2>2 DEF Out
  <2>4. QED
    BY <1>1, <1>5, <1>6, <2>1, <2>3 DEF InRingOrder
<1>8. CASE c # NoChunk
  <2>1. Len(leaving') = 1 /\ DOMAIN leaving' = {1} /\ leaving' # <<>>
    BY <1>5, <1>8, ShortSeq
  <2>2. leaving'[1].items = copied
    BY <1>5, <2>1
  <2>3. Out' = gone + Len(copied) /\ count' = gone + Len(copied)
    BY <1>4, <2>1, <2>2 DEF Out
  <2>4. \A i \in DOMAIN leaving'[1].items : InPlace(leaving[1].items[i], gone + i)'
    BY <1>4, <2>2 DEF InPlace
  <2>5. QED
    BY <1>1, <1>5, <1>6, <2>1, <2>2, <2>3, <2>4 DEF InRingOrder
<1>9. QED
  BY <1>7, <1>8

LEMMA OrderProcess ==
    ASSUME Basic, InRingOrder, threads' = threads, StoppedAside => StoppedAside',
           NewChunk \/ FillChunk
    PROVE  InRingOrder'
<1>1. PICK c, n : /\ ReadFrom(c, n) /\ n = Len(copied)
                  /\ c \in [start : Int, step : Nat \ {0}, chans : Nat \ {0}, size : Nat]
  <2>1. CASE NewChunk
    <3> DEFINE c == [start |-> startTime, step |-> header.step, chans |-> header.chans,
                 size |-> Samples]
    <3>1. ReadFrom(c, 0) /\ posted = "new_chunk"
      BY <2>1 DEF NewChunk
    <3>2. Len(copied) = 0
      BY <3>1 DEF Basic, Filling, HasChunk
    <3>3. c \in [start : Int, step : Nat \ {0}, chans : Nat \ {0}, size : Nat]
      BY StreamAssumption DEF Basic, Types
    <3> HIDE DEF c
    <3>4. QED
      BY <3>1, <3>2, <3>3
  <2>2. CASE FillChunk
    BY <2>2 DEF FillChunk, Basic, Filling, HasChunk, Types
  <2>3. QED
    BY <2>1, <2>2
<1>2. CanRun /\ UNCHANGED <<count, gone>> /\ copied \in Seq(Item)
  BY DEF NewChunk, FillChunk, Basic, TypeOK
<1>3. CASE header.bits = 8
  <2>1. copied' = SubSeq(copied, 1, Len(copied)) /\ leaving' = leaving
    BY <1>1, <1>3 DEF ReadFrom
  <2>2. copied' = copied
    BY <1>2, <2>1
  <2>3. QED
    BY <1>2, <2>1, <2>2, OrderKept
<1>4. CASE header.bits # 8
  <2>1. LetGo(c) /\ c # NoChunk
    BY <1>1, <1>4 DEF ReadFrom, NoChunk
  <2>2. QED
    BY <1>1, <1>2, <2>1, OrderLetGo
<1>5. QED
  BY <1>3, <1>4

LEMMA OrderCopy ==
    ASSUME Basic, InRingOrder, Copy, UNCHANGED streamVars
    PROVE  InRingOrder'
<1>1. /\ UNCHANGED <<threads, flag, stopping, held, leaving, gone>> /\ pc = "copy"
      /\ StoppedAside' = StoppedAside /\ threads' = threads
  BY DEF Copy, streamVars, StoppedAside
<1>2. CASE block = NoBlock
  <2>1. UNCHANGED <<copied, count, leaving, gone>> /\ pc \notin {"new", "idle"}
    BY <1>1, <1>2 DEF Copy
  <2>2. QED
    BY <1>1, <2>1, OrderKept
<1>3. CASE block # NoBlock
  <2> SUFFICES ASSUME threads < 2 PROVE InRingOrder'
    BY <1>1 DEF InRingOrder
  <2>1. /\ Span \in Nat
        /\ copied' \in Seq(Item)
        /\ Len(copied') = Len(copied) + Span
        /\ \A i \in 1 .. Len(copied) : copied'[i] = copied[i]
        /\ \A j \in 1 .. Span :
              copied'[Len(copied) + j] = IF held = "no" THEN Garbage ELSE Element(index + j)
        /\ count' = count + Span /\ pc' = "read"
    BY <1>3, CopyAdds
  <2>2. /\ copied \in Seq(Item) /\ Len(copied) \in Nat /\ DOMAIN copied = 1 .. Len(copied)
        /\ index \in Nat /\ count \in Nat /\ gone \in Nat
        /\ DOMAIN copied' = 1 .. Len(copied')
        /\ held = "no" => StoppedAside
    BY <1>3, <2>1 DEF Basic, TypeOK, Types, BlockStays
  <2>3. /\ leaving = <<>> /\ Out = gone
        /\ count = gone + Len(copied)
        /\ \A i \in 1 .. Len(copied) : InPlace(copied[i], gone + i)
    BY <1>1, <2>2 DEF InRingOrder, Out
  <2>4. Out' = gone /\ Len(leaving) = 0 /\ DOMAIN leaving = {}
    BY <1>1, <2>3 DEF Out
  <2>5. ASSUME NEW i \in 1 .. Len(copied')
        PROVE  InPlace(copied[i], gone + i)'
    <3>1. CASE i <= Len(copied)
      <4>1. i \in 1 .. Len(copied) /\ copied'[i] = copied[i]
        BY <2>1, <2>2, <3>1
      <4>2. InPlace(copied[i], gone + i)
        BY <2>3, <4>1
      <4>3. QED
        BY <1>1, <4>1, <4>2 DEF InPlace
    <3>2. CASE i > Len(copied)
      <4> DEFINE j == i - Len(copied)
      <4>1. j \in 1 .. Span /\ i = Len(copied) + j
        BY <2>1, <2>2, <3>2
      <4> HIDE DEF j
      <4>2. copied'[i] = IF held = "no" THEN Garbage ELSE Element(index + j)
        BY <2>1, <4>1
      <4>3. CASE held = "no"
        BY <1>1, <2>2, <4>2, <4>3 DEF InPlace
      <4>4. CASE held # "no"
        <5>1. copied'[i].number = count + (index + j) - index
          BY <4>2, <4>4 DEF Element
        <5>2. copied'[i].number = gone + i
          BY <2>1, <2>2, <2>3, <4>1, <5>1
        <5>3. QED
          BY <1>1, <5>2 DEF InPlace
      <4>5. QED
        BY <4>3, <4>4
    <3>3. QED
      BY <2>1, <2>2, <3>1, <3>2
  <2>6. count' = gone + Len(copied')
    BY <2>1, <2>2, <2>3
  <2>7. \A i \in DOMAIN copied' : InPlace(copied[i], Out + i)'
    BY <1>1, <2>2, <2>4, <2>5 DEF InPlace
  <2>8. QED
    BY <1>1, <2>1, <2>3, <2>4, <2>6, <2>7 DEF InRingOrder
<1>4. QED
  BY <1>2, <1>3

LEMMA OrderDeliver ==
    ASSUME Basic, InRingOrder, NEW k \in DOMAIN leaving, Deliver(k)
    PROVE  InRingOrder'
<1>1. /\ UNCHANGED <<threads, flag, count, copied, pc>>
      /\ gone' = gone + Len(leaving[k].items)
  BY DEF Deliver, clientVars
<1> SUFFICES ASSUME threads < 2 PROVE InRingOrder'
  BY <1>1 DEF InRingOrder
<1>2. leaving \in Leaving
  BY DEF Basic, TypeOK, Leaving
<1>3. Len(leaving) = 1 /\ DOMAIN leaving = 1 .. 1 /\ k = 1 /\ leaving # <<>>
  <2>1. Len(leaving) \in Nat /\ Len(leaving) # 0
    BY <1>2, ShortSeq
  <2>2. Len(leaving) <= 1
    BY Zenon DEF InRingOrder
  <2>3. Len(leaving) = 1
    <3> DEFINE n == Len(leaving)
    <3>1. n \in Nat /\ n # 0 /\ n <= 1
      BY <2>1, <2>2, Zenon
    <3> HIDE DEF n
    <3>2. n = 1
      BY <3>1
    <3>3. QED
      BY <3>2 DEF n
  <2>4. QED
    BY <1>2, <2>3, ShortSeq
<1>4. leaving' \in Leaving /\ Len(leaving') = 0
  BY <1>2, <1>3, DeliverRemoves
<1>5. leaving' = <<>> /\ DOMAIN leaving' = {}
  BY <1>4 DEF Leaving
<1>6. Out' = Out
  BY <1>1, <1>3, <1>5 DEF Out
<1>7. \A i \in DOMAIN copied' : InPlace(copied[i], Out + i)'
  BY <1>1, <1>6 DEF InRingOrder, InPlace, StoppedAside
<1>8. QED
  BY <1>1, <1>4, <1>5, <1>6, <1>7 DEF InRingOrder

LEMMA StepOrder == Basic /\ InRingOrder /\ [Next]_vars => InRingOrder'
<1> SUFFICES ASSUME Basic, InRingOrder, [Next]_vars PROVE InRingOrder'
  OBVIOUS
<1>1. threads' = threads /\ (StoppedAside => StoppedAside')
  BY StopStays
<1>2. CASE ClientStep
  <2>1. /\ UNCHANGED <<copied, count, leaving, gone>>
        /\ pc' \in {"new", "idle"} \/ pc \notin {"new", "idle"}
    BY <1>2 DEF ClientStep, streamVars, Reset, LastRelease, FlushThrows, TestReset, Relock,
         Release, OpenAtEod, OpenStopped, TestFlag,
         Keep, Kept, Read, Flush, SetFlag, StopReleases, OpenBlock
  <2>2. QED
    BY <1>1, <2>1, OrderKept
<1>3. CASE Copy /\ UNCHANGED streamVars
  BY <1>3, OrderCopy
<1>4. CASE \/ Start \/ NextSequence \/ PostNextSequence
           \/ \E h \in Headers : h.start >= 0 /\ (FirstSequence(h) \/ SameSequence(h))
           \/ Partial
  <2>1. /\ UNCHANGED <<copied, count, leaving, gone>>
        /\ pc' \in {"new", "idle"} \/ pc \notin {"new", "idle"} \/ CanRun
    BY <1>4 DEF Start, NextSequence, PostNextSequence, FirstSequence, SameSequence,
                HeaderComes, Partial
  <2>2. QED
    BY <1>1, <2>1, OrderKept
<1>5. CASE \/ NoNextSequence \/ BadHeader \/ Fails \/ Full
           \/ \E h \in Headers : h.start >= 0 /\ BrokenSequence(h)
  <2>1. /\ LetGo(chunk) /\ UNCHANGED <<count, gone>>
        /\ pc \notin {"new", "idle"} \/ CanRun
    BY <1>5 DEF NoNextSequence, BadHeader, Fails, Full, BrokenSequence, HeaderComes
  <2>2. /\ chunk = NoChunk \/ chunk \in [start : Int, step : Nat \ {0}, chans : Nat \ {0}, size : Nat]
        /\ chunk = NoChunk => copied = <<>>
    BY DEF Basic, Types, Filling, HasChunk
  <2>3. QED
    BY <1>1, <2>1, <2>2, OrderLetGo
<1>6. CASE \E h \in Headers : h.start >= 0 /\ NewSequence(h)
  <2> DEFINE b == [chunk EXCEPT !.size = Len(copied) \div chunk.chans]
  <2>1. /\ LetGo(b) /\ UNCHANGED <<count, gone>> /\ pc = "header" /\ HasChunk
    BY <1>6 DEF NewSequence, HeaderComes, HasChunk
  <2>2. b \in [start : Int, step : Nat \ {0}, chans : Nat \ {0}, size : Nat]
    <3> HIDE DEF b
    <3>1. b = [chunk EXCEPT !.size = Len(copied) \div chunk.chans] /\ Between
      BY <2>1 DEF b, Between
    <3>2. QED
      BY <2>1, <3>1, CutChunk
  <2> HIDE DEF b
  <2>3. b # NoChunk
    BY <2>2 DEF NoChunk
  <2>4. QED
    BY <1>1, <2>1, <2>2, <2>3, OrderLetGo
<1>7. CASE NewChunk \/ FillChunk
  BY <1>1, <1>7, OrderProcess
<1>8. CASE \E k \in DOMAIN leaving : Deliver(k)
  BY <1>8, OrderDeliver
<1>9. CASE UNCHANGED vars
  BY <1>9 DEF vars, InRingOrder, Out, InPlace, StoppedAside
<1>10. QED
  BY <1>2, <1>3, <1>4, <1>5, <1>6, <1>7, <1>8, <1>9, StepCases

-------------------------------------------------------------------------------
(* InTime *)

LEMMA InitTime == Init => InTime
<1> SUFFICES ASSUME Init PROVE InTime
  OBVIOUS
<1>1. leaving = <<>> /\ ~HasChunk /\ posted = "none"
  BY DEF Init, HasChunk
<1>2. DOMAIN leaving = {}
  BY <1>1
<1>3. QED
  BY <1>1, <1>2 DEF InTime

\* Steps that change neither a chunk nor a time
LEMMA TimeKept ==
    ASSUME InTime,
           UNCHANGED <<startTime, chunk, entry, copied, index, header, leaving>>,
           HasChunk => (Reading' => Reading) /\ (Between' => Between),
           posted' \in {"new_chunk", "process"} => posted' = posted
    PROVE  InTime'
<1>1. HasChunk' = HasChunk
  BY DEF HasChunk
<1>2. HasChunk' =>
         /\ Timed(chunk.start, chunk.step, chunk.chans, copied)'
         /\ Reading' => /\ EndsOnTime(entry)'
                        /\ OnTime(startTime, index - (Len(copied) - entry))'
                        /\ \A i \in DOMAIN copied' :
                               i > entry' =>
                                   copied'[i] = Garbage \/ copied'[i].step = (header.step)'
         /\ Between' => EndsOnTime(Len(copied))'
  BY <1>1 DEF InTime, Timed, Uniform, Dates, OnTime, EndsOnTime
<1>3. posted' \in {"new_chunk", "process"} => OnTime(startTime, index)'
  BY DEF InTime, OnTime
<1>4. \A k \in DOMAIN leaving' :
          Timed(leaving[k].start, leaving[k].step, leaving[k].chans, leaving[k].items)'
  BY DEF InTime, Timed, Uniform, Dates
<1>5. QED
  BY <1>2, <1>3, <1>4 DEF InTime

LEMMA TimeLetGo ==
    ASSUME Basic, InTime,
           NEW c, c = NoChunk \/ c \in [start : Int, step : Nat \ {0}, chans : Nat \ {0}, size : Nat],
           LetGo(c), c # NoChunk => Timed(c.start, c.step, c.chans, copied),
           posted' \in {"new_chunk", "process"} => OnTime(startTime, index)'
    PROVE  InTime'
<1>1. leaving \in Leaving /\ copied \in Seq(Item)
  BY DEF Basic, TypeOK, Leaving
<1>2. /\ chunk' = NoChunk
      /\ \A k \in DOMAIN leaving' :
            \/ k \in DOMAIN leaving /\ leaving'[k] = leaving[k]
            \/ /\ c # NoChunk
               /\ leaving'[k].start = c.start /\ leaving'[k].step = c.step
               /\ leaving'[k].chans = c.chans
               /\ leaving'[k].items = copied
  BY <1>1, LetGoAdds
<1>3. ASSUME NEW k \in DOMAIN leaving'
      PROVE  Timed(leaving[k].start, leaving[k].step, leaving[k].chans, leaving[k].items)'
  <2>1. CASE k \in DOMAIN leaving /\ leaving'[k] = leaving[k]
    BY <2>1 DEF InTime, Timed, Uniform, Dates
  <2>2. CASE /\ c # NoChunk
             /\ leaving'[k].start = c.start /\ leaving'[k].step = c.step
             /\ leaving'[k].chans = c.chans
             /\ leaving'[k].items = copied
    BY <2>2 DEF Timed, Uniform, Dates
  <2>3. QED
    BY <1>2, <1>3, <2>1, <2>2
<1>4. QED
  BY <1>2, <1>3 DEF InTime, HasChunk

\* The first element of a transfer
LEMMA OnTimeAtStart ==
    ASSUME NEW h \in [start : Int, step : Nat \ {0}, chans : Nat \ {0}, bits : Nat],
           header' = h, index' = 0, startTime' \in Int, startTime' - h.start \in 0 .. h.step - 1
    PROVE  OnTime(startTime, index)'
<1>1. h.chans \in Nat \ {0} /\ h.start \in Int /\ h.step \in Nat \ {0}
  OBVIOUS
<1>2. (0 % h.chans) = 0 /\ 0 \div h.chans = 0
  BY <1>1, ZeroMod
<1>3. startTime' - (h.start + h.step * (0 \div h.chans)) \in 0 .. h.step - 1
  <2>1. h.step * 0 = 0
    BY <1>1
  <2>2. QED
    BY <1>1, <1>2, <2>1
<1>4. QED
  BY <1>2, <1>3 DEF OnTime

\* The time of the stream after a call of do_process() that ends with whole spectra
LEMMA OnTimeAdvanced ==
    ASSUME Basic, InTime, HasChunk, Reading, WholeSpectra
    PROVE  /\ OnTime(Advanced, index)
           /\ Uniform(chunk.step, copied) =>
                 Advanced = chunk.start + chunk.step * (Len(copied) \div chunk.chans)
<1> DEFINE c == header.chans
           v == header.step
           w == chunk.step
           d == Len(copied) - entry
           b == index - d
           e == entry
           l == Len(copied)
           s == chunk.start
           t == header.start
<1>1. /\ c \in Nat \ {0} /\ chunk.chans = c /\ s \in Int /\ t \in Int /\ startTime \in Int
      /\ v \in Nat \ {0} /\ w \in Nat \ {0}
      /\ l \in Nat /\ e \in Nat /\ index \in Nat
      /\ e <= l /\ (e % c) = 0 /\ (d % c) = 0
      /\ DOMAIN copied = 1 .. l
  BY DEF Basic, Types, TypeOK, Filling, Whole, WholeSpectra
<1>2. /\ b >= 0 /\ (b % c) = 0
      /\ startTime - (t + v * (b \div c)) \in 0 .. v - 1
  <2>1. OnTime(startTime, index - (Len(copied) - entry))
    BY DEF InTime
  <2>2. QED
    BY <1>1, <2>1 DEF OnTime
<1>3. Advanced = startTime + v * (d \div c)
  BY DEF Advanced
<1>4. d \in Int /\ b \in Int /\ e \in Int /\ index = b + d /\ l = e + d
  BY <1>1
<1>5. ASSUME Uniform(chunk.step, copied)
      PROVE  startTime = s + w * (e \div c) /\ (d = 0 \/ v = w)
  <2>1. startTime = s + w * (e \div c)
    BY <1>1, <1>5 DEF InTime, EndsOnTime
  <2>2. ASSUME d # 0 PROVE v = w
    <3> HIDE DEF c, b, s, t
    <3>1. l \in DOMAIN copied /\ l > entry
      <4>1. l \in Nat /\ e \in Nat /\ e <= l /\ DOMAIN copied = 1 .. l
        BY <1>1
      <4>2. l - e # 0
        BY <2>2
      <4> HIDE DEF l
      <4>3. l \in 1 .. l /\ l > e
        BY <4>1, <4>2
      <4>4. QED
        BY <4>1, <4>3
    <3>2. copied[l] = Garbage \/ copied[l].step = header.step
      BY <3>1 DEF InTime
    <3>3. copied[l].step = w
      BY <1>5, <3>1 DEF Uniform
    <3>4. Garbage.step = 0
      BY DEF Garbage
    <3>5. QED
      BY <1>1, <3>2, <3>3, <3>4
  <2>3. QED
    BY <2>1, <2>2
<1> HIDE DEF c, v, w, d, b, e, l, s, t
<1>6. /\ (b + d) \div c = (b \div c) + (d \div c) /\ (b + d) % c = d % c
      /\ (e + d) \div c = (e \div c) + (d \div c)
  <2>1. d \in Int /\ b \in Int /\ e \in Int /\ c \in Nat \ {0}
    BY <1>1, <1>4
  <2>2. (b % c) = 0 /\ (e % c) = 0
    BY <1>1, <1>2
  <2>3. (b + d) \div c = (b \div c) + (d \div c) /\ (b + d) % c = d % c
    BY <2>1, <2>2, DivShift
  <2>4. (e + d) \div c = (e \div c) + (d \div c)
    BY <2>1, <2>2, DivShift
  <2>5. QED
    BY <2>3, <2>4
<1> DEFINE bq == b \div c
           dq == d \div c
           eq == e \div c
<1>7. bq \in Int /\ dq \in Int /\ eq \in Int
  BY <1>1, <1>4, DivMod
<1>8. /\ index \div c = bq + dq /\ l \div c = eq + dq
      /\ Advanced = startTime + v * dq
      /\ startTime - (t + v * bq) \in 0 .. v - 1
  BY <1>2, <1>3, <1>4, <1>6
<1>9. index >= 0 /\ (index % c) = 0
  BY <1>1, <1>4, <1>6
<1>10. d = 0 => dq = 0
  BY <1>1, ZeroMod
<1> HIDE DEF bq, dq, eq
<1>11. v * (bq + dq) = v * bq + v * dq /\ v * bq \in Int /\ v * dq \in Int
  BY <1>1, <1>7, Spread
<1>12. Advanced - (t + v * (index \div c)) \in 0 .. v - 1
  <2>1. Advanced - (t + v * (index \div c)) = startTime - (t + v * bq)
    <3> DEFINE x == v * bq
               y == v * dq
    <3>1. x \in Int /\ y \in Int /\ v * (index \div c) = x + y /\ Advanced = startTime + y
      BY <1>8, <1>11
    <3> HIDE DEF x, y
    <3>2. startTime \in Int /\ t \in Int
      BY <1>1
    <3>3. (startTime + y) - (t + (x + y)) = startTime - (t + x)
      BY <3>1, <3>2
    <3>4. QED
      BY <3>1, <3>3 DEF x
  <2>2. QED
    BY <1>8, <2>1
<1>13. OnTime(Advanced, index)
  BY <1>9, <1>12 DEF OnTime, c, t, v
<1>14. ASSUME Uniform(chunk.step, copied)
       PROVE  Advanced = s + w * (l \div c)
  <2>1. startTime = s + w * eq /\ (d = 0 \/ v = w)
    BY <1>5, <1>14 DEF eq
  <2>2. w * (eq + dq) = w * eq + w * dq /\ w * eq \in Int /\ w * dq \in Int
    BY <1>1, <1>7, Spread
  <2>3. v * dq = w * dq
    <3>1. CASE d = 0
      <4>1. v * 0 = 0 /\ w * 0 = 0
        BY <1>1
      <4>2. QED
        BY <1>10, <3>1, <4>1
    <3>2. CASE v = w
      BY <3>2
    <3>3. QED
      BY <2>1, <3>1, <3>2
  <2>4. Advanced = s + w * eq + w * dq
    BY <1>8, <2>1, <2>3
  <2> DEFINE x == w * eq
             y == w * dq
  <2>5. x \in Int /\ y \in Int /\ w * (l \div c) = x + y /\ Advanced = s + x + y
    BY <1>8, <2>2, <2>4
  <2> HIDE DEF x, y
  <2>6. s + x + y = s + (x + y)
    BY <1>1, <2>5
  <2>7. QED
    BY <2>5, <2>6
<1>15. QED
  BY <1>1, <1>13, <1>14 DEF s, w, l

\* A chunk that is full ends with a whole spectrum.
LEMMA FullWhole ==
    ASSUME Basic, pc = "full"
    PROVE  HasChunk /\ Reading /\ WholeSpectra
<1> DEFINE c == chunk.chans
           z == chunk.size
           d == Len(copied) - entry
           e == entry
           l == Len(copied)
<1>1. HasChunk /\ Reading
  BY DEF Basic, Filling, Reading
<1>2. /\ c \in Nat \ {0} /\ z \in Nat /\ header.chans = c
      /\ l + want = z * c /\ want = 0 /\ l \in Nat /\ e \in Nat
      /\ e <= l /\ (e % c) = 0
  BY <1>1 DEF Basic, Filling, Types, Whole, TypeOK
<1>3. d \in Int /\ l = e + d
  BY <1>2
<1> HIDE DEF c, z, d, e, l
<1>4. l = c * z + 0 /\ 0 \in 0 .. c - 1
  BY <1>2
<1>5. (l % c) = 0
  BY <1>2, <1>4, DivUnique
<1>6. (e + d) % c = d % c
  <2>1. d \in Int /\ e \in Int /\ c \in Nat \ {0} /\ (e % c) = 0
    BY <1>2, <1>3
  <2>2. QED
    BY <2>1, DivShift
<1>7. (d % header.chans) = 0
  BY <1>2, <1>3, <1>5, <1>6
<1>8. QED
  BY <1>1, <1>7 DEF WholeSpectra, d

\* The (l + j)-th element of a chunk is the (index + j)-th of the transfer, and both
\* are counted from the whole spectra in front of the d + j that were read now.
LEMMA CopiedInTime ==
    ASSUME NEW c \in Nat \ {0}, NEW v \in Nat \ {0},
           NEW e \in Nat, NEW b \in Nat, NEW d \in Nat, NEW j \in Nat \ {0},
           NEW s \in Int, NEW t \in Int, NEW u \in Int,
           e % c = 0, b % c = 0,
           u = s + v * (e \div c),
           u - (t + v * (b \div c)) \in 0 .. v - 1
    PROVE  (s + v * ((e + d + j - 1) \div c)) - (t + v * ((b + d + j - 1) \div c))
               \in 0 .. v - 1
<1> DEFINE n == d + j - 1
<1>1. n \in Int /\ e + d + j - 1 = e + n /\ b + d + j - 1 = b + n /\ e \in Int /\ b \in Int
  OBVIOUS
<1> HIDE DEF n
<1>2. (e + n) \div c = (e \div c) + (n \div c)
  BY <1>1, DivShift
<1>3. (b + n) \div c = (b \div c) + (n \div c)
  BY <1>1, DivShift
<1> DEFINE eq == e \div c
           bq == b \div c
           nq == n \div c
<1>4. nq \in Int /\ bq \in Int /\ eq \in Int
  BY <1>1, DivMod
<1>5. (e + n) \div c = eq + nq /\ (b + n) \div c = bq + nq
      /\ u = s + v * eq /\ u - (t + v * bq) \in 0 .. v - 1
  BY <1>2, <1>3
<1> HIDE DEF eq, bq, nq
<1>6. /\ v * (eq + nq) = v * eq + v * nq /\ v * eq \in Int /\ v * nq \in Int
      /\ v * (bq + nq) = v * bq + v * nq /\ v * bq \in Int
  BY <1>4, Spread
<1>7. (s + v * (eq + nq)) - (t + v * (bq + nq)) = u - (t + v * bq)
  <2> DEFINE x == v * eq
             y == v * nq
             z == v * bq
  <2>1. /\ x \in Int /\ y \in Int /\ z \in Int /\ u = s + x
        /\ v * (eq + nq) = x + y /\ v * (bq + nq) = z + y
    BY <1>5, <1>6
  <2> HIDE DEF x, y, z
  <2>2. (s + (x + y)) - (t + (z + y)) = (s + x) - (t + z)
    BY <2>1
  <2>3. QED
    BY <2>1, <2>2 DEF z
<1>8. QED
  BY <1>1, <1>5, <1>7

LEMMA ElementTime ==
    ASSUME NEW i
    PROVE  /\ Element(i).time = header.start + header.step * ((i - 1) \div header.chans)
           /\ Element(i).step = header.step
<1> DEFINE n == count + i - index
           m == header.start + header.step * ((i - 1) \div header.chans)
<1>1. Element(i) = [number |-> n, time |-> m, step |-> header.step]
  BY DEF Element
<1> HIDE DEF n, m
<1>2. Element(i).time = m /\ Element(i).step = header.step
  BY <1>1
<1>3. QED
  BY <1>2 DEF m

LEMMA TimeCopy ==
    ASSUME Basic, InTime, Copy, block # NoBlock, UNCHANGED streamVars
    PROVE  InTime'
<1>1. /\ UNCHANGED <<threads, flag, held, header, posted, startTime, chunk, entry, leaving, caller>>
      /\ pc = "copy"
  BY DEF Copy, streamVars
<1>2. HasChunk /\ Reading /\ posted = "none"
  BY <1>1 DEF Basic, Filling, Reading, TypeOK
<1>3. /\ Span \in Nat
      /\ copied' \in Seq(Item)
      /\ Len(copied') = Len(copied) + Span
      /\ \A i \in 1 .. Len(copied) : copied'[i] = copied[i]
      /\ \A j \in 1 .. Span :
            copied'[Len(copied) + j] = IF held = "no" THEN Garbage ELSE Element(index + j)
      /\ index' = index + Span /\ pc' = "read"
  BY CopyAdds
<1> DEFINE c == chunk.chans
           v == header.step
           w == chunk.step
           d == Len(copied) - entry
           b == index - d
           e == entry
           l == Len(copied)
           s == chunk.start
           t == header.start
<1>4. /\ c \in Nat \ {0} /\ header.chans = c /\ s \in Int /\ t \in Int /\ startTime \in Int
      /\ v \in Nat \ {0} /\ w \in Nat \ {0}
      /\ l \in Nat /\ e \in Nat /\ index \in Nat /\ d \in Nat
      /\ (e % c) = 0 /\ l = e + d /\ index = b + d
  BY <1>2 DEF Basic, Types, TypeOK, Filling, Whole
<1>5. /\ Uniform(w, copied) => startTime = s + w * (e \div c)
      /\ b \in Nat /\ (b % c) = 0
      /\ startTime - (t + v * (b \div c)) \in 0 .. v - 1
      /\ \A i \in DOMAIN copied : i > e => copied[i] = Garbage \/ copied[i].step = v
  <2>1. /\ EndsOnTime(entry)
        /\ OnTime(startTime, index - (Len(copied) - entry))
        /\ \A i \in DOMAIN copied :
               i > entry => copied[i] = Garbage \/ copied[i].step = header.step
    BY <1>2 DEF InTime
  <2>2. b \in Int
    BY <1>4
  <2>3. QED
    BY <1>4, <2>1, <2>2 DEF OnTime, EndsOnTime
<1>6. Timed(s, w, c, copied)
  BY <1>2 DEF InTime
<1>7. DOMAIN copied = 1 .. l /\ DOMAIN copied' = 1 .. Len(copied') /\ (l = 0 => copied = <<>>)
  BY <1>3 DEF Basic, TypeOK
<1>8. Garbage.step = 0
  BY DEF Garbage
<1> HIDE DEF c, v, w, d, b, e, s, t
<1>9. ASSUME NEW i \in DOMAIN copied'
      PROVE  \/ i <= l /\ i \in DOMAIN copied /\ copied'[i] = copied[i]
             \/ i > l /\ copied'[i] = Garbage
             \/ \E j \in Nat \ {0} :
                    /\ i = l + j
                    /\ copied'[i].time = t + v * ((b + d + j - 1) \div c)
                    /\ copied'[i].step = v
  <2>1. i \in Nat \ {0}
    BY <1>3, <1>4, <1>7
  <2>2. CASE i <= l
    BY <1>3, <1>4, <1>7, <2>1, <2>2
  <2>3. CASE i > l
    <3> DEFINE j == i - l
    <3>1. j \in 1 .. Span /\ i = l + j /\ j \in Nat \ {0}
      BY <1>3, <1>4, <1>7, <2>3
    <3> HIDE DEF j
    <3>2. copied'[i] = IF held = "no" THEN Garbage ELSE Element(index + j)
      BY <1>3, <3>1
    <3>3. CASE held = "no"
      BY <2>3, <3>2, <3>3
    <3>4. CASE held # "no"
      <4>1. /\ copied'[i].time = header.start + header.step * (((index + j) - 1) \div header.chans)
            /\ copied'[i].step = header.step
        BY <3>2, <3>4, ElementTime
      <4>2. (index + j) - 1 = b + d + j - 1
        BY <1>4, <1>5, <3>1
      <4>3. /\ copied'[i].time = t + v * ((b + d + j - 1) \div c)
            /\ copied'[i].step = v
        BY <1>4, <4>1, <4>2 DEF t, v
      <4>4. QED
        BY <3>1, <4>3
    <3>5. QED
      BY <3>3, <3>4
  <2>4. QED
    BY <1>4, <2>1, <2>2, <2>3
\* the first item of the chunk
<1>10. ASSUME copied' # <<>>, copied'[1] # Garbage
       PROVE  Dates(s, copied'[1])
  <2>1. 1 \in DOMAIN copied'
    <3>1. Len(copied') # 0
      BY <1>3, <1>10
    <3>2. QED
      BY <1>3, <1>4, <1>7, <3>1
  <2>2. CASE 1 <= l /\ 1 \in DOMAIN copied /\ copied'[1] = copied[1]
    <3>1. copied # <<>>
      BY <2>2
    <3>2. QED
      BY <1>6, <1>10, <2>2, <3>1 DEF Timed
  <2>3. CASE \E j \in Nat \ {0} :
                /\ 1 = l + j
                /\ copied'[1].time = t + v * ((b + d + j - 1) \div c)
                /\ copied'[1].step = v
    <3>1. PICK j \in Nat \ {0} : /\ 1 = l + j
                                 /\ copied'[1].time = t + v * ((b + d + j - 1) \div c)
                                 /\ copied'[1].step = v
      BY <2>3
    <3>2. l = 0 /\ j = 1 /\ e = 0 /\ d = 0
      BY <1>4, <3>1
    <3>3. b + d + j - 1 = b
      BY <1>5, <3>2
    <3>4. Uniform(w, copied)
      BY <1>7, <3>2 DEF Uniform
    <3>5. startTime = s
      <4>1. w * 0 = 0 /\ 0 \div c = 0
        BY <1>4, ZeroMod
      <4>2. QED
        BY <1>4, <1>5, <3>2, <3>4, <4>1
    <3>6. s - (t + v * (b \div c)) \in 0 .. v - 1
      BY <1>5, <3>5
    <3>7. QED
      BY <3>1, <3>3, <3>6 DEF Dates
  <2>4. QED
    BY <1>9, <1>10, <2>1, <2>2, <2>3
\* all its items, if they have the chunk's interval
<1>11. ASSUME Uniform(w, copied'), NEW i \in DOMAIN copied'
       PROVE  Dates(s + w * ((i - 1) \div c), copied'[i])
  <2>1. Uniform(w, copied)
    <3> SUFFICES ASSUME NEW k \in DOMAIN copied PROVE copied[k].step = w
      BY DEF Uniform
    <3>1. k \in DOMAIN copied' /\ copied'[k] = copied[k]
      BY <1>3, <1>4, <1>7
    <3>2. QED
      BY <1>11, <3>1 DEF Uniform
  <2>2. copied'[i].step = w
    BY <1>11 DEF Uniform
  <2>3. CASE i <= l /\ i \in DOMAIN copied /\ copied'[i] = copied[i]
    BY <1>6, <2>1, <2>3 DEF Timed
  <2>4. CASE \E j \in Nat \ {0} :
                /\ i = l + j
                /\ copied'[i].time = t + v * ((b + d + j - 1) \div c)
                /\ copied'[i].step = v
    <3>1. PICK j \in Nat \ {0} : /\ i = l + j
                                 /\ copied'[i].time = t + v * ((b + d + j - 1) \div c)
                                 /\ copied'[i].step = v
      BY <2>4
    <3>2. v = w
      BY <2>2, <3>1
    <3>3. startTime = s + v * (e \div c)
      BY <1>5, <2>1, <3>2
    <3>4. (s + v * ((e + d + j - 1) \div c)) - (t + v * ((b + d + j - 1) \div c)) \in 0 .. v - 1
      BY <1>4, <1>5, <3>1, <3>3, CopiedInTime
    <3>5. i - 1 = e + d + j - 1
      BY <1>4, <3>1
    <3>6. QED
      BY <3>1, <3>2, <3>4, <3>5 DEF Dates
  <2>5. copied'[i] # Garbage
    BY <1>4, <1>8, <2>2
  <2>6. QED
    BY <1>9, <2>3, <2>4, <2>5
<1>12. Timed(chunk.start, chunk.step, chunk.chans, copied)'
  BY <1>1, <1>10, <1>11 DEF Timed, Uniform, Dates, s, c, w
<1>13. (index - (Len(copied) - entry))' = index - (Len(copied) - entry)
  BY <1>1, <1>3, <1>4 DEF e
<1>14. OnTime(startTime, index - (Len(copied) - entry))'
  <2>1. OnTime(startTime, index - (Len(copied) - entry))
    BY <1>2 DEF InTime
  <2>2. QED
    BY <1>1, <1>13, <2>1 DEF OnTime
<1>15. EndsOnTime(entry)'
  <2> SUFFICES ASSUME Uniform(chunk.step, copied)'
               PROVE  startTime' = (chunk.start + chunk.step * (entry \div chunk.chans))'
    BY DEF EndsOnTime
  <2>1. \A k \in DOMAIN copied' : copied'[k].step = w
    BY <1>1 DEF Uniform, w
  <2>2. Uniform(w, copied)
    <3> SUFFICES ASSUME NEW k \in DOMAIN copied PROVE copied[k].step = w
      BY DEF Uniform
    <3>1. k \in DOMAIN copied' /\ copied'[k] = copied[k]
      BY <1>3, <1>4, <1>7
    <3>2. QED
      BY <2>1, <3>1
  <2>3. QED
    BY <1>1, <1>5, <2>2 DEF s, w, e, c
<1>16. \A i \in DOMAIN copied' :
           i > entry' => copied'[i] = Garbage \/ copied'[i].step = (header.step)'
  <2> SUFFICES ASSUME NEW i \in DOMAIN copied', i > e
               PROVE  copied'[i] = Garbage \/ copied'[i].step = v
    BY <1>1 DEF e, v
  <2>1. QED
    BY <1>5, <1>9
<1>17. ~Between'
  BY <1>3 DEF Between, Acquiring
<1>18. \A k \in DOMAIN leaving' :
          Timed(leaving[k].start, leaving[k].step, leaving[k].chans, leaving[k].items)'
  BY <1>1 DEF InTime, Timed, Uniform, Dates
<1>19. QED
  BY <1>1, <1>2, <1>12, <1>14, <1>15, <1>16, <1>17, <1>18 DEF InTime

\* do_process() begins: the chunk, or what is there of it, ends at the time of the stream.
LEMMA TimeReadFrom ==
    ASSUME Basic, InTime,
           NEW c \in [start : Int, step : Nat \ {0}, chans : Nat \ {0}, size : Nat], NEW n, ReadFrom(c, n),
           n = Len(copied), Timed(c.start, c.step, c.chans, copied),
           Uniform(c.step, copied) => startTime = c.start + c.step * (n \div c.chans),
           OnTime(startTime, index),
           posted' = "none", UNCHANGED <<startTime, index, header>>
    PROVE  InTime'
<1>1. CASE header.bits = 8
  <2>1. /\ chunk' = c /\ entry' = n /\ copied' = SubSeq(copied, 1, n)
        /\ leaving' = leaving /\ pc' = "read"
    BY <1>1 DEF ReadFrom
  <2>2. /\ copied' = copied /\ n \in Nat /\ index \in Nat
        /\ DOMAIN copied = 1 .. n
    BY <2>1 DEF Basic, TypeOK
  <2>3. Timed(chunk.start, chunk.step, chunk.chans, copied)'
    BY <2>1, <2>2 DEF Timed, Uniform, Dates
  <2>4. EndsOnTime(entry)'
    BY <2>1, <2>2 DEF EndsOnTime, Uniform
  <2>5. (index - (Len(copied) - entry))' = index
    BY <2>1, <2>2
  <2>6. OnTime(startTime, index - (Len(copied) - entry))'
    BY <2>5 DEF OnTime
  <2>7. \A k \in DOMAIN leaving' :
            Timed(leaving[k].start, leaving[k].step, leaving[k].chans, leaving[k].items)'
    <3>1. \A k \in DOMAIN leaving :
              Timed(leaving[k].start, leaving[k].step, leaving[k].chans, leaving[k].items)
      BY DEF InTime
    <3>2. leaving' = leaving
      BY <2>1
    <3>3. QED
      BY <3>1, <3>2 DEF Timed, Uniform, Dates
  <2>8. ~Between'
    BY <2>1 DEF Between, Acquiring
  <2>9. \A i \in DOMAIN copied' : ~(i > entry')
    BY <2>1, <2>2
  <2>10. QED
    BY <2>3, <2>4, <2>6, <2>7, <2>8, <2>9 DEF InTime
<1>2. CASE header.bits # 8
  <2>1. LetGo(c)
    BY <1>2 DEF ReadFrom
  <2>2. QED
    BY <2>1, TimeLetGo
<1>3. QED
  BY <1>1, <1>2

LEMMA TimeProcess ==
    ASSUME Basic, InTime, NewChunk \/ FillChunk
    PROVE  InTime'
<1>1. CASE NewChunk
  <2> DEFINE c == [start |-> startTime, step |-> header.step, chans |-> header.chans,
                 size |-> Samples]
  <2>1. /\ posted = "new_chunk" /\ posted' = "none" /\ ReadFrom(c, 0)
        /\ UNCHANGED <<startTime, index, header>>
    BY <1>1 DEF NewChunk
  <2>2. copied = <<>> /\ 0 = Len(copied) /\ DOMAIN copied = {}
    BY <2>1 DEF Basic, Filling, HasChunk
  <2>3. /\ c \in [start : Int, step : Nat \ {0}, chans : Nat \ {0}, size : Nat]
        /\ c.start = startTime /\ startTime \in Int /\ c.chans \in Nat \ {0}
        /\ c.step \in Nat \ {0}
    BY StreamAssumption DEF Basic, Types
  <2>4. OnTime(startTime, index)
    BY <2>1 DEF InTime
  <2> HIDE DEF c
  <2>5. startTime = c.start + c.step * (0 \div c.chans)
    <3>1. c.step * 0 = 0 /\ 0 \div c.chans = 0
      BY <2>3, ZeroMod
    <3>2. QED
      BY <2>3, <3>1
  <2>6. Timed(c.start, c.step, c.chans, copied)
    BY <2>2 DEF Timed
  <2>7. QED
    BY <2>1, <2>2, <2>3, <2>4, <2>5, <2>6, TimeReadFrom
<1>2. CASE FillChunk
  <2>1. /\ posted = "process" /\ CanRun /\ posted' = "none" /\ ReadFrom(chunk, Len(copied))
        /\ UNCHANGED <<startTime, index, header>>
    BY <1>2 DEF FillChunk
  <2>2. /\ HasChunk /\ Between
        /\ chunk \in [start : Int, step : Nat \ {0}, chans : Nat \ {0}, size : Nat]
    BY <2>1 DEF Basic, Filling, HasChunk, CanRun, Types, Between
  <2>3. /\ EndsOnTime(Len(copied))
        /\ Timed(chunk.start, chunk.step, chunk.chans, copied) /\ OnTime(startTime, index)
    BY <2>1, <2>2 DEF InTime
  <2>4. Uniform(chunk.step, copied) =>
            startTime = chunk.start + chunk.step * (Len(copied) \div chunk.chans)
    BY <2>3 DEF EndsOnTime
  <2>5. QED
    BY <2>1, <2>2, <2>3, <2>4, TimeReadFrom
<1>3. QED
  BY <1>1, <1>2

LEMMA TimeDeliver ==
    ASSUME Basic, InTime, NEW k \in DOMAIN leaving, Deliver(k)
    PROVE  InTime'
<1>1. /\ UNCHANGED <<threads, flag, index, header, copied, pc, caller>>
      /\ UNCHANGED <<posted, startTime, chunk, entry>>
  BY DEF Deliver, clientVars
<1>2. leaving \in Leaving
  BY DEF Basic, TypeOK, Leaving
<1>3. \A m \in DOMAIN leaving' : \E n \in DOMAIN leaving : leaving'[m] = leaving[n]
  BY <1>2, DeliverRemoves
<1>4. \A m \in DOMAIN leaving' :
          Timed(leaving[m].start, leaving[m].step, leaving[m].chans, leaving[m].items)'
  BY <1>3 DEF InTime, Timed, Uniform, Dates
<1>5. (HasChunk => Reading' = Reading /\ Between' = Between) /\ HasChunk' = HasChunk
  BY <1>1 DEF HasChunk, Reading, Between, Acquiring
<1>6. HasChunk' =>
         /\ Timed(chunk.start, chunk.step, chunk.chans, copied)'
         /\ Reading' => /\ EndsOnTime(entry)'
                        /\ OnTime(startTime, index - (Len(copied) - entry))'
                        /\ \A i \in DOMAIN copied' :
                               i > entry' =>
                                   copied'[i] = Garbage \/ copied'[i].step = (header.step)'
         /\ Between' => EndsOnTime(Len(copied))'
  BY <1>1, <1>5 DEF InTime, Timed, Uniform, Dates, OnTime, EndsOnTime
<1>7. posted' \in {"new_chunk", "process"} => OnTime(startTime, index)'
  BY <1>1 DEF InTime, OnTime
<1>8. QED
  BY <1>4, <1>6, <1>7 DEF InTime

LEMMA StepTime == Basic /\ InTime /\ [Next]_vars => InTime'
<1> SUFFICES ASSUME Basic, InTime, [Next]_vars PROVE InTime'
  OBVIOUS
<1>2. startTime \in Int
  BY DEF Basic, Types
<1>3. CASE ClientStep
  <2>1. UNCHANGED <<startTime, chunk, entry, copied, index, header, leaving, posted>>
    BY <1>3 DEF ClientStep, streamVars, Reset, LastRelease, FlushThrows, TestReset, Relock,
         Release, OpenAtEod, OpenStopped, TestFlag,
         Keep, Kept, Read, Flush, SetFlag, StopReleases, OpenBlock
  <2>2. (Reading' => Reading) /\ (Between' => Between)
    BY <1>3 DEF Reading, Between, Acquiring, ClientStep, Reset, LastRelease, FlushThrows, TestReset, Relock,
         Release, Released, OpenAtEod,
         OpenStopped, TestFlag, NoneAcquired, Keep, Kept, Read, Flush, SetFlag, StopReleases,
         OpenBlock, Basic, Types
  <2>3. QED
    BY <2>1, <2>2, TimeKept
<1>4. CASE Copy /\ UNCHANGED streamVars
  <2>1. CASE block # NoBlock
    BY <1>4, <2>1, TimeCopy
  <2>2. CASE block = NoBlock
    <3>1. /\ UNCHANGED <<startTime, chunk, entry, copied, index, header, leaving, posted>>
          /\ pc' = "crashed"
      BY <1>4, <2>2 DEF Copy, streamVars
    <3>2. ~Reading' /\ ~Between'
      BY <3>1 DEF Reading, Between, Acquiring
    <3>3. QED
      BY <3>1, <3>2, TimeKept
  <2>3. QED
    BY <2>1, <2>2
<1>5. CASE Start \/ NextSequence \/ PostNextSequence
  <2>1. /\ UNCHANGED <<startTime, chunk, entry, copied, index, header, leaving>>
        /\ posted' \in {"none", "next_sequence"}
        /\ pc \in {"new", "idle", "post"} /\ pc' \in {"idle", "header"}
    BY <1>5 DEF Start, NextSequence, PostNextSequence, CanRun
  <2>2. HasChunk => (Reading' => Reading) /\ (Between' => Between)
    BY <2>1 DEF Reading, Between, Acquiring, Basic, Filling
  <2>3. QED
    BY <2>1, <2>2, TimeKept
<1>6. CASE \E h \in Headers : h.start >= 0 /\ FirstSequence(h)
  <2>1. PICK h \in Headers : FirstSequence(h)
    BY <1>6
  <2>2. /\ header' = h /\ index' = 0 /\ startTime' = h.start
        /\ h \in [start : Int, step : Nat \ {0}, chans : Nat \ {0}, bits : Nat]
        /\ ~HasChunk /\ chunk' = chunk /\ leaving' = leaving
    BY <1>2, <2>1, HeaderType DEF FirstSequence, HeaderComes, HasChunk
  <2>3. startTime' \in Int /\ startTime' - h.start \in 0 .. h.step - 1
    BY <2>2
  <2>4. OnTime(startTime, index)'
    BY <2>2, <2>3, OnTimeAtStart
  <2>5. \A k \in DOMAIN leaving' :
            Timed(leaving[k].start, leaving[k].step, leaving[k].chans, leaving[k].items)'
    BY <2>2 DEF InTime, Timed, Uniform, Dates
  <2>6. QED
    BY <2>2, <2>4, <2>5 DEF InTime, HasChunk
<1>7. CASE \E h \in Headers : h.start >= 0 /\ SameSequence(h)
  <2>1. PICK h \in Headers : SameSequence(h)
    BY <1>7
  <2>2. /\ header' = h /\ index' = 0 /\ startTime' = startTime
        /\ h \in [start : Int, step : Nat \ {0}, chans : Nat \ {0}, bits : Nat]
        /\ HasChunk /\ pc = "header" /\ pc' = "idle"
        /\ UNCHANGED <<chunk, leaving, copied, entry>>
        /\ ~(h.start > startTime) /\ ~(h.start < startTime /\ startTime - h.start >= h.step)
    BY <1>2, <2>1, HeaderType DEF SameSequence, HeaderComes, HasChunk, Breaks, Overlaps
  <2>3. startTime' \in Int /\ startTime' - h.start \in 0 .. h.step - 1
    BY <1>2, <2>2
  <2>4. OnTime(startTime, index)'
    BY <2>2, <2>3, OnTimeAtStart
  <2>5. \A k \in DOMAIN leaving' :
            Timed(leaving[k].start, leaving[k].step, leaving[k].chans, leaving[k].items)'
    BY <2>2 DEF InTime, Timed, Uniform, Dates
  <2>6. Between /\ ~Reading'
    BY <2>2 DEF Between, Reading, Acquiring
  <2>7. Timed(chunk.start, chunk.step, chunk.chans, copied)' /\ EndsOnTime(Len(copied))'
    BY <2>2, <2>6 DEF InTime, Timed, Uniform, Dates, EndsOnTime
  <2>8. QED
    BY <2>4, <2>5, <2>6, <2>7 DEF InTime
<1>8. CASE Partial
  <2>1. /\ UNCHANGED <<chunk, leaving, copied, posted, index, header>> /\ pc = "partial"
        /\ pc' = "flush" /\ startTime' = Advanced /\ WholeSpectra
    BY <1>8 DEF Partial
  <2>2. HasChunk /\ Reading /\ posted = "none" /\ ~Reading'
    BY <2>1 DEF Basic, Filling, Reading, Acquiring, TypeOK
  <2>3. Uniform(chunk.step, copied) =>
            Advanced = chunk.start + chunk.step * (Len(copied) \div chunk.chans)
    BY <2>1, <2>2, OnTimeAdvanced
  <2>4. Timed(chunk.start, chunk.step, chunk.chans, copied)' /\ EndsOnTime(Len(copied))'
    BY <2>1, <2>2, <2>3 DEF InTime, Timed, Uniform, Dates, EndsOnTime
  <2>5. \A k \in DOMAIN leaving' :
            Timed(leaving[k].start, leaving[k].step, leaving[k].chans, leaving[k].items)'
    BY <2>1 DEF InTime, Timed, Uniform, Dates
  <2>6. QED
    BY <2>1, <2>2, <2>4, <2>5 DEF InTime
<1>9. CASE \/ NoNextSequence \/ BadHeader \/ Fails \/ Full
           \/ \E h \in Headers : h.start >= 0 /\ BrokenSequence(h)
  <2>1. /\ LetGo(chunk)
        /\ posted' \in {"new_chunk", "process"} =>
               \/ Full
               \/ posted \in {"new_chunk", "process"} /\ pc # "idle"
    BY <1>9 DEF NoNextSequence, BadHeader, Fails, Full, BrokenSequence, HeaderComes
  <2>2. chunk = NoChunk \/ chunk \in [start : Int, step : Nat \ {0}, chans : Nat \ {0}, size : Nat]
    BY DEF Basic, Types, HasChunk
  <2>3. chunk # NoChunk => Timed(chunk.start, chunk.step, chunk.chans, copied)
    BY DEF InTime, HasChunk
  <2>4. ~(posted \in {"new_chunk", "process"} /\ pc # "idle")
    BY DEF Basic, TypeOK
  <2>5. ASSUME Full PROVE OnTime(startTime, index)'
    <3>1. pc = "full" /\ startTime' = Advanced /\ UNCHANGED <<index, header>>
      BY <2>5 DEF Full
    <3>2. OnTime(Advanced, index)
      BY <3>1, FullWhole, OnTimeAdvanced
    <3>3. QED
      BY <3>1, <3>2 DEF OnTime
  <2>6. QED
    BY <2>1, <2>2, <2>3, <2>4, <2>5, TimeLetGo
<1>10. CASE \E h \in Headers : h.start >= 0 /\ NewSequence(h)
  <2> DEFINE b == [chunk EXCEPT !.size = Len(copied) \div chunk.chans]
  <2>1. PICK h \in Headers : NewSequence(h)
    BY <1>10
  <2>2. /\ LetGo(b) /\ pc = "header" /\ HasChunk
        /\ header' = h /\ index' = 0 /\ startTime' = h.start
        /\ h \in [start : Int, step : Nat \ {0}, chans : Nat \ {0}, bits : Nat]
    BY <1>2, <2>1, HeaderType DEF NewSequence, HeaderComes, HasChunk
  <2>3. /\ b \in [start : Int, step : Nat \ {0}, chans : Nat \ {0}, size : Nat]
        /\ b.start = chunk.start /\ b.step = chunk.step /\ b.chans = chunk.chans
    <3> HIDE DEF b
    <3>1. b = [chunk EXCEPT !.size = Len(copied) \div chunk.chans] /\ Between
      BY <2>2 DEF b, Between
    <3>2. QED
      BY <2>2, <3>1, CutChunk
  <2> HIDE DEF b
  <2>4. Timed(b.start, b.step, b.chans, copied)
    BY <2>2, <2>3 DEF InTime
  <2>5. startTime' \in Int /\ startTime' - h.start \in 0 .. h.step - 1
    BY <2>2
  <2>6. OnTime(startTime, index)'
    BY <2>2, <2>5, OnTimeAtStart
  <2>7. QED
    BY <2>2, <2>3, <2>4, <2>6, TimeLetGo
<1>11. CASE NewChunk \/ FillChunk
  BY <1>11, TimeProcess
<1>12. CASE \E k \in DOMAIN leaving : Deliver(k)
  BY <1>12, TimeDeliver
<1>13. CASE UNCHANGED vars
  <2>1. /\ UNCHANGED <<startTime, chunk, entry, copied, index, header, leaving, posted>>
        /\ Reading' = Reading /\ Between' = Between
    BY <1>13 DEF vars, Reading, Between, Acquiring
  <2>2. QED
    BY <2>1, TimeKept
<1>14. QED
  BY <1>3, <1>4, <1>5, <1>6, <1>7, <1>8, <1>9, <1>10, <1>11, <1>12, <1>13, StepCases

-------------------------------------------------------------------------------
(* The theorems *)

\* The parts of the invariant hold of every behaviour, fair or not.
THEOREM Inductive == Spec => []IInv
<1>1. Init => IInv
  BY InitBasic, InitOrder, InitTime DEF IInv
<1>2. IInv /\ [Next]_vars => IInv'
  BY StepBasic, StepOrder, StepTime DEF IInv
<1>3. QED
  BY <1>1, <1>2, PTL DEF Spec

\* The state keeps its types, and read() what it has to fill in the chunk.
THEOREM TypeCorrect == Spec => []TypeOK
<1>1. IInv => TypeOK
  BY DEF IInv, Basic
<1>2. QED
  BY <1>1, Inductive, PTL

\* With one thread the chunks hold the elements of the ring, once and in order, and
\* they are full, for blocks and chunks of any size, over any number of transfers.
THEOREM RingOrder == Spec => []WholeAndInOrder
<1>1. IInv => WholeAndInOrder
  BY DEF IInv, Basic, Complete, InRingOrder, InPlace, WholeAndInOrder
<1>2. QED
  BY <1>1, Inductive, PTL

\* The start time of a chunk dates its first spectrum, and all of them if their transfers
\* have the chunk's interval, over any number of transfers of any intervals.
THEOREM Dated == Spec => []ChunksAreDated
<1>1. IInv => ChunksAreDated
  BY DEF IInv, InTime, Timed, Uniform, ChunksAreDated
<1>2. QED
  BY <1>1, Inductive, PTL

-------------------------------------------------------------------------------
(* After stop()                                                                *)

\* An upper bound on the steps the handlers still make when the flag is set
StepsLeft ==
    CASE pc = "new"     -> 2
      [] pc = "idle"    -> (CASE posted = "none"          -> 0
                              [] posted = "next_sequence" -> 1
                              [] posted = "new_chunk"     -> 14
                              [] posted = "process"       -> 17)
      [] pc = "crashed" -> 0
      [] pc = "thrown"  -> 1
      [] pc = "post"    -> 2
      [] pc = "relock"  -> 3
      [] pc = "reset"   -> 4
      [] pc = "flushed" -> 5
      [] pc = "flush"   -> 6
      [] pc = "kept"    -> IF caller = "read" THEN 20 ELSE 7
      [] pc = "keep"    -> IF caller = "read" THEN 21 ELSE 8
      [] pc = "opened"  -> IF caller = "read" THEN 22 ELSE 9
      [] pc = "open"    -> IF caller = "read" THEN 23 ELSE 10
      [] pc = "release" -> IF caller = "read" THEN 24 ELSE 11
      [] pc = "partial" -> 12
      [] pc = "read"    -> IF want > 0 THEN 13 ELSE 16
      [] pc = "full"    -> 15
      [] pc = "header"  -> 18
      [] pc = "copy"    -> 19

\* Every step of a handler and of the ring, once the flag is set, is one of these, for
\* blocks and chunks of any size and as many transfers as there may be.
StopAdvances ==
    [][flag /\ (Start \/ Handler \/ Ring) => StepsLeft' < StepsLeft]_vars

\* A handler is at work or can be run.
HandlerCanStep == pc \notin {"new", "idle", "crashed"} \/ (posted # "none" /\ CanRun)

\* A handler, the return of one, or stop() itself can go on until all is quiet.
StopNotBlocked ==
    flag => pc = "new" \/ Quiet \/ HandlerCanStep \/ leaving # <<>>
            \/ (stopping = "releasing" /\ CanRelease)

\* acquire_data_block(), the loops around it, and copying
LEMMA ClientStepsEnd ==
    ASSUME Basic, flag,
           Acquire \/ Read \/ Copy \/ Reset \/ PostNextSequence
    PROVE  StepsLeft' < StepsLeft
<1>1. want \in Nat /\ caller \in {"read", "flush"}
  BY DEF Basic, TypeOK, Types
<1>2. CASE Read
  BY <1>1, <1>2 DEF Read, StepsLeft
<1>3. CASE Copy
  <2>1. pc = "copy" /\ pc' \in {"read", "crashed"}
    BY <1>3 DEF Copy
  <2>2. QED
    BY <2>1 DEF StepsLeft
<1>4. CASE Reset
  <2>1. \/ pc = "flush" /\ pc' = "flushed"
        \/ pc = "flushed" /\ pc' \in {"reset", "thrown"}
        \/ pc = "reset" /\ pc' = "post"
        \/ pc = "relock" /\ pc' = "post"
    BY <1>4 DEF Reset, Flush, LastRelease, FlushThrows, TestReset, Relock
  <2>2. QED
    BY <2>1 DEF StepsLeft
<1>5. CASE PostNextSequence
  BY <1>5 DEF PostNextSequence, StepsLeft
<1>6. CASE Acquire
  <2>1. \/ pc = "release" /\ pc' \in {"open", "thrown"}
        \/ pc = "open" /\ pc' = NoneAcquired
        \/ pc = "opened" /\ pc' \in {NoneAcquired, "keep"}
        \/ pc = "keep" /\ pc' = "kept"
        \/ pc = "kept" /\ pc' \in {NoneAcquired, IF caller = "read" THEN "copy" ELSE "flush"}
    BY <1>6 DEF Acquire, Release, OpenAtEod, OpenStopped, TestFlag, Keep, Kept
  <2>2. caller' = caller
    BY <1>6 DEF Acquire, Release, OpenAtEod, OpenStopped, TestFlag, Keep, Kept
  <2>3. CASE caller = "read"
    BY <2>1, <2>2, <2>3 DEF StepsLeft, NoneAcquired
  <2>4. CASE caller = "flush"
    BY <2>1, <2>2, <2>4 DEF StepsLeft, NoneAcquired
  <2>5. QED
    BY <1>1, <2>3, <2>4
<1>7. QED
  BY <1>2, <1>3, <1>4, <1>5, <1>6

\* A chunk that is begun anew has room.
LEMMA NewChunkHasRoom ==
    ASSUME Basic, NewChunk, pc' = "read"
    PROVE  want' > 0
<1>1. header.chans \in Nat \ {0} /\ Samples \in Nat \ {0}
  BY StreamAssumption DEF Basic, Types
<1>2. Samples * header.chans - 0 > 0
  BY <1>1
<1>3. want' = Samples * header.chans - 0
  BY DEF NewChunk, ReadFrom, LetGo
<1>4. QED
  BY <1>2, <1>3

\* The handlers that post others, and the ring
LEMMA StreamStepsEnd ==
    ASSUME Basic, flag,
           \/ Start \/ NextSequence \/ NoNextSequence \/ NewChunk \/ FillChunk
           \/ Full \/ Partial \/ Fails \/ Ring
    PROVE  StepsLeft' < StepsLeft
<1>1. posted # "none" => pc = "idle"
  BY DEF Basic, TypeOK
<1>2. CASE Start \/ NextSequence
  BY <1>2 DEF Start, NextSequence, StepsLeft
<1>3. CASE NoNextSequence
  BY <1>1, <1>3 DEF NoNextSequence, LetGo, CanRun, StepsLeft
<1>4. CASE NewChunk
  <2>1. /\ pc = "idle" /\ posted = "new_chunk" /\ posted' = "none" /\ pc' \in {"read", "idle"}
    BY <1>4 DEF NewChunk, CanRun, ReadFrom, LetGo
  <2>2. pc' = "read" => want' > 0
    BY <1>4, NewChunkHasRoom
  <2>3. QED
    BY <2>1, <2>2 DEF StepsLeft
<1>5. CASE FillChunk
  <2>1. /\ pc = "idle" /\ posted = "process" /\ posted' = "none" /\ pc' \in {"read", "idle"}
    BY <1>5 DEF FillChunk, CanRun, ReadFrom, LetGo
  <2>2. QED
    BY <2>1 DEF StepsLeft
<1>6. CASE Full
  BY <1>6 DEF Full, LetGo, StepsLeft
<1>7. CASE Partial
  BY <1>7 DEF Partial, StepsLeft
<1>8. CASE Fails
  <2>1. pc \in {"partial", "thrown"} /\ pc' = "idle" /\ posted' = "none"
    <3>1. posted \in {"none", "next_sequence", "new_chunk", "process"}
      BY DEF Basic, TypeOK
    <3>2. QED
      BY <1>1, <1>8, <3>1 DEF Fails, LetGo
  <2>2. QED
    BY <2>1 DEF StepsLeft
<1>9. CASE BadHeader
  BY <1>1, <1>9 DEF BadHeader, LetGo, StepsLeft
<1>10. ASSUME NEW h, FirstSequence(h) \/ NewSequence(h) \/ BrokenSequence(h) \/ SameSequence(h)
       PROVE  StepsLeft' < StepsLeft
  <2>1. pc = "header" /\ pc' = "idle" /\ posted' \in {"none", "new_chunk", "process"}
    BY <1>1, <1>10 DEF FirstSequence, NewSequence, BrokenSequence, SameSequence, HeaderComes,
                       LetGo
  <2>2. QED
    BY <2>1 DEF StepsLeft
<1>11. ASSUME NEW n, NEW which, OpenBlock(n, which)
       PROVE  StepsLeft' < StepsLeft
  <2>1. pc = "open" /\ pc' = "opened" /\ caller' = caller
    BY <1>11 DEF OpenBlock
  <2>2. QED
    BY <2>1 DEF StepsLeft
<1>12. QED
  BY <1>2, <1>3, <1>4, <1>5, <1>6, <1>7, <1>8, <1>9, <1>10, <1>11 DEF Ring

\* Once the destructor flag is set the handlers make 24 steps at most, wherever they
\* were, although they still go on to the next chunk, and the ring to its next header.
THEOREM StopIsBounded == Spec => StopAdvances
<1>1. IInv /\ [Next]_vars =>
          [flag /\ (Start \/ Handler \/ Ring) => StepsLeft' < StepsLeft]_vars
  <2> SUFFICES ASSUME IInv, flag, Start \/ Handler \/ Ring
               PROVE  StepsLeft' < StepsLeft
    OBVIOUS
  <2>1. Basic
    BY DEF IInv
  <2>2. QED
    BY <2>1, ClientStepsEnd, StreamStepsEnd DEF Handler
<1>2. QED
  BY <1>1, Inductive, PTL DEF Spec, StopAdvances

\* Until then nobody waits in vain: not a posted handler for a thread, nor a thread
\* for the stop() that gives the block back.
THEOREM StopGoesOn == Spec => []StopNotBlocked
<1>1. IInv => StopNotBlocked
  <2> SUFFICES ASSUME Basic, flag, pc # "new", ~Quiet, ~HandlerCanStep, leaving = <<>>
               PROVE  stopping = "releasing" /\ CanRelease
    BY DEF IInv, StopNotBlocked
  <2>1. pc \in {"idle", "crashed"} /\ posted # "none" /\ ~CanRun
    BY DEF HandlerCanStep, Quiet
  <2>2. pc = "idle"
    BY <2>1 DEF Basic, TypeOK
  <2>3. threads = 0 /\ stopping = "releasing"
    BY <2>2, <2>1 DEF CanRun
  <2>4. block # NoBlock => held # "no"
    BY <2>3 DEF Basic, BlockStays, StoppedAside
  <2>5. QED
    BY <2>3, <2>4 DEF CanRelease
<1>2. QED
  BY <1>1, Inductive, PTL
===============================================================================
