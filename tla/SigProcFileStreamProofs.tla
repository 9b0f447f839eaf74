------------------------ MODULE SigProcFileStreamProofs ------------------------
(***************************************************************************)
(* Proofs about SigProcFileStream, for files of any number and length,     *)
(* chunks of any size, and any list of the files with one obstacle.        *)
(*                                                                         *)
(* While the stream reads, the writer does nothing: its invariant carries  *)
(* over by refinement.  What is delivered is a concatenation of any number *)
(* of chunks, so the lemmas about FlattenSeq are needed.                   *)
(***************************************************************************)
EXTENDS SigProcFileStream, SigProcWriterProofs, SequenceLemmas

\* Nothing is read before the writer is done.
NotBegun ==
    state = "off" =>
        /\ list = <<>> /\ samples = 0 /\ at = 1
        /\ stream = 0 /\ pos = 0 /\ time = 0 /\ chunks = <<>>

\* Until a file can be read all of the list was bad.
OnlyBad ==
    stream = 0 =>
        /\ chunks = <<>>
        /\ \A k \in 1 .. at - 1 : list[k] = Bad

\* Since then the stream has stayed with this file; the chunks are its front, up
\* to the position, and the time is that of the next spectrum.
FirstFile ==
    stream # 0 =>
        /\ at - 1 \in 1 .. Len(list) /\ list[at - 1] = stream
        /\ \A k \in 1 .. at - 2 : list[k] = Bad
        /\ Delivered = SubSeq(Data(stream), 1, pos)
        /\ files[stream].fmt \in Timed => time = After(files[stream].start, pos)

ReaderIInv ==
    /\ TypeOK
    /\ NotBegun /\ OnlyBad /\ FirstFile
    /\ ChunksDated /\ UnreadOnlyAtFailure

-------------------------------------------------------------------------------
(* The writer's steps *)

\* Whatever the reader does, the writer stays as it is or makes a step of its own.
LEMMA WriterStays == [Next]_vars => [WriterStep]_writerVars
<1>1. Process => UNCHANGED writerVars
  BY DEF Process, EndOfFiles, OpenTwice, CannotOpen, BadHeader, Continue, OpenFile, Reads
<1>2. StartReading => UNCHANGED writerVars
  BY DEF StartReading
<1>3. UNCHANGED vars => UNCHANGED writerVars
  BY DEF vars
<1>4. QED
  BY <1>1, <1>2, <1>3 DEF Next

\* Files that are read later are written as SigProcWriter says.
THEOREM WritesAsBefore == Spec => WriterSpec
<1>1. Init => WriterInit
  BY DEF Init
<1>2. QED
  BY <1>1, WriterStays, PTL DEF Spec, WriterSpec

-------------------------------------------------------------------------------
(* Chunks *)

Chunk == [fmt : Formats, start : Nat, data : Seq(Nat), unread : Nat]

LEMMA NoneDelivered ==
    ASSUME chunks = <<>>
    PROVE  Delivered = <<>>
<1>1. [k \in DOMAIN chunks |-> chunks[k].data] = <<>>
  OBVIOUS
<1>2. QED
  BY <1>1, FlattenEmpty DEF Delivered

\* One chunk more
LEMMA DeliveredAfter ==
    ASSUME chunks \in Seq(Chunk), NEW c \in Chunk, chunks' = Append(chunks, c)
    PROVE  Delivered' = Delivered \o c.data
<1> DEFINE d == [k \in DOMAIN chunks |-> chunks[k].data]
<1>1. /\ Len(chunks) \in Nat /\ DOMAIN chunks = 1 .. Len(chunks)
      /\ DOMAIN chunks' = 1 .. Len(chunks) + 1
      /\ \A k \in 1 .. Len(chunks) : chunks'[k] = chunks[k]
      /\ chunks'[Len(chunks) + 1] = c
  BY AppendProperties, LenProperties
<1>2. c.data \in Seq(Nat) /\ \A k \in DOMAIN chunks : chunks[k].data \in Seq(Nat)
  <2>1. \A k \in DOMAIN chunks : chunks[k] \in Chunk
    BY <1>1, ElementOfSeq
  <2>2. QED
    BY <2>1 DEF Chunk
<1>3. d \in Seq(Seq(Nat)) /\ Len(d) = Len(chunks)
  <2>1. d \in [1 .. Len(chunks) -> Seq(Nat)]
    BY <1>1, <1>2
  <2> HIDE DEF d
  <2>2. QED
    BY <1>1, <2>1
<1>4. d' = Append(d, c.data)
  <2>1. d' = [k \in 1 .. Len(chunks) + 1 |-> chunks'[k].data]
    BY <1>1
  <2>2. /\ Append(d, c.data) \in Seq(Seq(Nat)) /\ Len(Append(d, c.data)) = Len(chunks) + 1
        /\ \A k \in 1 .. Len(chunks) : Append(d, c.data)[k] = d[k]
        /\ Append(d, c.data)[Len(chunks) + 1] = c.data
    BY <1>2, <1>3, AppendProperties
  <2>3. \A k \in 1 .. Len(chunks) : d[k] = chunks[k].data
    BY <1>1
  <2> HIDE DEF d
  <2>4. Append(d, c.data) = [k \in 1 .. Len(chunks) + 1 |-> Append(d, c.data)[k]]
    BY <2>2, LenProperties
  <2>5. \A k \in 1 .. Len(chunks) + 1 : Append(d, c.data)[k] = chunks'[k].data
    BY <1>1, <2>2, <2>3
  <2>6. QED
    BY <2>1, <2>4, <2>5
<1>5. FlattenSeq(d') = FlattenSeq(d) \o c.data
  BY <1>2, <1>3, <1>4, FlattenAppend
<1>6. QED
  BY <1>5 DEF Delivered

\* A file's front up to one place and the part from there to another are its front
\* up to the other.
LEMMA FrontGrows ==
    ASSUME NEW d \in Seq(Nat), NEW from \in 0 .. Len(d), NEW n \in 0 .. Len(d) - from
    PROVE  SubSeq(d, 1, from) \o SubSeq(d, from + 1, from + n) = SubSeq(d, 1, from + n)
<1>1. Len(d) \in Nat
  BY LenProperties
<1>2. 1 \in 1 .. Len(d) + 1 /\ from \in 1 - 1 .. Len(d) /\ from + n \in from .. Len(d)
  BY <1>1
<1>3. QED
  BY <1>2, ConcatAdjacentSubSeq

LEMMA PartOf ==
    ASSUME NEW d \in Seq(Nat), NEW from \in 0 .. Len(d), NEW n \in 0 .. Len(d) - from
    PROVE  /\ SubSeq(d, from + 1, from + n) \in Seq(Nat)
           /\ Len(SubSeq(d, from + 1, from + n)) = n
           /\ \A i \in 1 .. n : SubSeq(d, from + 1, from + n)[i] = d[from + i]
<1>1. Len(d) \in Nat /\ from + 1 \in Int /\ from + n \in Int
  BY LenProperties
<1>2. \A i \in from + 1 .. from + n : i \in 1 .. Len(d)
  BY <1>1
<1>3. \A i \in from + 1 .. from + n : d[i] \in Nat
  BY <1>2, ElementOfSeq
<1> DEFINE a == from + 1
           b == from + n
<1>4. /\ b - a + 1 = n /\ (IF a <= b THEN b - a + 1 ELSE 0) = n
      /\ \A i \in 1 .. n : a + i - 1 = from + i
  BY <1>1
<1> HIDE DEF a, b
<1>5. /\ SubSeq(d, a, b) \in Seq(Nat)
      /\ Len(SubSeq(d, a, b)) = n
      /\ \A i \in 1 .. n : SubSeq(d, a, b)[i] = d[a + i - 1]
  <2>1. a \in Int /\ b \in Int /\ \A i \in a .. b : d[i] \in Nat
    BY <1>1, <1>3 DEF a, b
  <2>2. /\ SubSeq(d, a, b) \in Seq(Nat)
        /\ Len(SubSeq(d, a, b)) = IF a <= b THEN b - a + 1 ELSE 0
        /\ \A i \in 1 .. b - a + 1 : SubSeq(d, a, b)[i] = d[a + i - 1]
    BY <2>1, SubSeqProperties
  <2>3. QED
    BY <1>4, <2>2
<1>6. QED
  BY <1>4, <1>5 DEF a, b

\* fill_chunk() delivers what follows in the file, dated.
LEMMA FillChunkStep ==
    ASSUME ReaderIInv, IInv, state = "on", UNCHANGED writerVars, UNCHANGED <<list, samples>>,
           NEW k \in DOMAIN files, NEW from \in 0 .. Len(Data(k)), NEW t \in Nat,
           NEW more \in BOOLEAN,
           FillChunk(k, from, t, more),
           Delivered = SubSeq(Data(k), 1, from), files[k].fmt \in Timed => t = After(files[k].start, from)
    PROVE  /\ stream' = k /\ pos' \in 0 .. Len(Data(k)) /\ armed' \in BOOLEAN
           /\ time' \in Nat /\ chunks' \in Seq(Chunk)
           /\ state' \in {"on", "ended", "failed"}
           /\ Delivered' = SubSeq(Data(k), 1, pos')
           /\ files[k].fmt \in Timed => time' = After(files[k].start, pos')
           /\ ChunksDated' /\ UnreadOnlyAtFailure'
<1> DEFINE d == Data(k)
           part(n) == SubSeq(d, from + 1, from + n)
           c(n, u) == [fmt |-> files[k].fmt, start |-> t, data |-> part(n), unread |-> u]
           size == IF samples = 0 THEN Len(d) ELSE samples
<1>1. files \in Seq(File) /\ FilesDated
  BY DEF IInv, WriterTypeOK
<1>2. d \in Seq(Nat) /\ Len(d) \in Nat /\ DOMAIN d = 1 .. Len(d) /\ files[k].start \in Nat
      /\ files[k].fmt \in Formats
  BY <1>1, DataOfFile DEF Data
<1>3. size \in Nat
  BY <1>2, ReaderAssumption DEF ReaderIInv, TypeOK
<1>4. \/ /\ Len(d) - from >= size
         /\ chunks' = Append(chunks, c(size, 0))
         /\ pos' = from + size /\ time' = TimeAfter(k, t, size)
         /\ UNCHANGED state
      \/ /\ Len(d) - from < size
         /\ chunks' = Append(chunks, c(Len(d) - from, UnreadPart(size - (Len(d) - from), more)))
         /\ pos' = from + (Len(d) - from) /\ time' = TimeAfter(k, t, Len(d) - from)
         /\ state' = IF more THEN "failed" ELSE "ended"
  BY Zenon DEF FillChunk
<1> HIDE DEF size, c
<1>5. PICK n \in 0 .. Len(d) - from, u \in Nat :
        /\ chunks' = Append(chunks, c(n, u))
        /\ pos' = from + n /\ time' = TimeAfter(k, t, n)
        /\ state' \in {"on", "ended", "failed"}
        /\ u > 0 => state' = "failed"
  <2>1. CASE Len(d) - from >= size
    <3>1. size \in 0 .. Len(d) - from
      BY <1>2, <1>3, <2>1
    <3>2. /\ chunks' = Append(chunks, c(size, 0))
          /\ pos' = from + size /\ time' = TimeAfter(k, t, size) /\ state' = state
      BY <1>2, <1>3, <1>4, <2>1
    <3>3. QED
      BY <3>1, <3>2
  <2>2. CASE ~(Len(d) - from >= size)
    <3> DEFINE left == Len(d) - from
               un == UnreadPart(size - left, more)
    <3>1. left \in 0 .. Len(d) - from /\ un \in Nat /\ (un > 0 => more)
      BY <1>2, <1>3, <2>2 DEF UnreadPart
    <3>2. /\ chunks' = Append(chunks, c(left, un))
          /\ pos' = from + left /\ time' = TimeAfter(k, t, left)
          /\ state' = IF more THEN "failed" ELSE "ended"
      BY <1>4, <2>2
    <3> HIDE DEF left, un
    <3>3. QED
      BY <3>1, <3>2
  <2>3. QED
    BY <2>1, <2>2
<1> USE DEF c
<1>6. part(n) \in Seq(Nat) /\ Len(part(n)) = n /\ \A i \in 1 .. n : part(n)[i] = d[from + i]
  BY <1>2, PartOf
<1>7. Delivered' = SubSeq(d, 1, from) \o part(n)
  <2>1. c(n, u) \in Chunk
    BY <1>2, <1>6 DEF Chunk
  <2>2. chunks \in Seq(Chunk)
    BY DEF ReaderIInv, TypeOK, Chunk
  <2>3. c(n, u).data = part(n)
    OBVIOUS
  <2> HIDE DEF c, part
  <2>4. Delivered' = Delivered \o c(n, u).data
    BY <1>5, <2>1, <2>2, DeliveredAfter
  <2>5. QED
    BY <2>3, <2>4 DEF d
<1>8. SubSeq(d, 1, from) \o part(n) = SubSeq(d, 1, from + n)
  BY <1>2, FrontGrows
<1>9. chunks \in Seq(Chunk) /\ c(n, u) \in Chunk
  BY <1>2, <1>6 DEF ReaderIInv, TypeOK, Chunk
<1> HIDE DEF part
<1>10. PICK new \in Chunk : /\ chunks' = Append(chunks, new)
                            /\ new.data = part(n) /\ new.start = t /\ new.unread = u
                            /\ new.fmt = files[k].fmt
  BY <1>5, <1>9
<1> HIDE DEF c
<1>11. /\ chunks' \in Seq(Chunk)
       /\ \A m \in DOMAIN chunks : chunks'[m] = chunks[m]
       /\ \A m \in DOMAIN chunks' :
             m \in DOMAIN chunks \/ (m = Len(chunks') /\ chunks'[m] = new)
  BY <1>9, <1>10, AppendPlaces
<1>12. ChunksDated'
  <2> SUFFICES ASSUME once, NEW m \in DOMAIN chunks', chunks'[m].fmt \in Timed,
                      NEW i \in DOMAIN chunks'[m].data
               PROVE  Near(chunks'[m].data[i], After(chunks'[m].start, i - 1))
    BY DEF ChunksDated, writerVars
  <2>1. CASE m \in DOMAIN chunks
    BY <1>11, <2>1 DEF ReaderIInv, ChunksDated
  <2>2. CASE chunks'[m] = new
    <3>1. chunks'[m].data = part(n) /\ chunks'[m].start = t /\ files[k].fmt \in Timed
      BY <1>10, <2>2
    <3>2. i \in 1 .. n
      BY <1>6, <3>1
    <3>3. from + i \in DOMAIN d
      BY <1>2, <3>2
    <3>4. Near(d[from + i], After(files[k].start, (from + i) - 1))
      <4>1. \A l \in DOMAIN d : Near(d[l], After(files[k].start, l - 1))
        BY <1>1, <3>1 DEF FilesDated, Data
      <4> HIDE DEF d
      <4> DEFINE l == from + i
      <4>2. l \in DOMAIN d
        BY <3>3
      <4> HIDE DEF l
      <4>3. Near(d[l], After(files[k].start, l - 1))
        BY <4>1, <4>2, Zenon
      <4>4. QED
        BY <4>3, Zenon DEF l
    <3>5. chunks'[m].data[i] = d[from + i]
      BY <1>6, <3>1, <3>2
    <3> DEFINE st == files[k].start
               j == i - 1
    <3>6. j \in Nat /\ from \in Nat /\ st \in Nat /\ (from + i) - 1 = from + j
      BY <1>2, <3>2
    <3>7. t = After(st, from)
      BY <3>1
    <3> HIDE DEF st, j
    <3>8. After(After(st, from), j) = After(st, from + j)
      BY <3>6, AfterAfter
    <3>9. Near(d[from + i], After(t, j))
      BY <3>4, <3>6, <3>7, <3>8 DEF st
    <3>10. QED
      BY <3>1, <3>5, <3>9 DEF j
  <2>3. QED
    BY <1>11, <2>1, <2>2
<1>13. UnreadOnlyAtFailure'
  <2> SUFFICES ASSUME NEW m \in DOMAIN chunks', chunks'[m].unread > 0
               PROVE  m = Len(chunks') /\ state' = "failed"
    BY DEF UnreadOnlyAtFailure
  <2>1. m \notin DOMAIN chunks
    BY <1>11 DEF ReaderIInv, UnreadOnlyAtFailure
  <2>2. m = Len(chunks') /\ chunks'[m] = new
    BY <1>11, <2>1
  <2>3. u > 0
    BY <1>10, <2>2
  <2>4. QED
    BY <1>5, <2>2, <2>3, Zenon
<1>14. files[k].fmt \in Timed => time' = After(files[k].start, pos')
  <2> SUFFICES ASSUME files[k].fmt \in Timed PROVE time' = After(files[k].start, pos')
    OBVIOUS
  <2> DEFINE st == files[k].start
  <2>1. st \in Nat /\ from \in Nat /\ n \in Nat /\ t = After(st, from)
    BY <1>2
  <2>2. pos' = from + n /\ time' = After(t, n)
    BY <1>5 DEF TimeAfter, Moved
  <2> HIDE DEF st
  <2>3. After(After(st, from), n) = After(st, from + n)
    BY <2>1, AfterAfter
  <2>4. QED
    BY <2>1, <2>2, <2>3 DEF st
<1>15. stream' = k /\ armed' = TRUE
  BY DEF FillChunk
<1>16. pos' \in 0 .. Len(d) /\ time' \in Nat
  <2>1. n \in Nat
    BY <1>2
  <2>2. After(t, n) \in Nat
    BY <2>1, AfterFacts
  <2>3. QED
    BY <1>2, <1>5, <2>1, <2>2 DEF TimeAfter, Moved
<1>17. QED
  BY <1>5, <1>7, <1>8, <1>11, <1>12, <1>13, <1>14, <1>15, <1>16

-------------------------------------------------------------------------------
(* The steps *)

LEMMA InitReader == Init => ReaderIInv
<1> SUFFICES ASSUME Init PROVE ReaderIInv
  OBVIOUS
<1>1. WriterTypeOK
  BY InitIInv DEF Init, IInv
<1>2. /\ list = <<>> /\ samples = 0 /\ at = 1 /\ stream = 0 /\ pos = 0 /\ armed = FALSE
      /\ time = 0 /\ chunks = <<>> /\ state = "off"
  BY DEF Init, ReaderInit
<1>3. TypeOK
  <2>1. /\ list \in Seq({Bad, Missing} \cup DOMAIN files)
        /\ chunks \in Seq([fmt : Formats, start : Nat, data : Seq(Nat), unread : Nat])
        /\ at \in 1 .. Len(list) + 1
    BY <1>2, EmptySeq
  <2>2. QED
    BY <1>1, <1>2, <2>1 DEF TypeOK
<1>4. NotBegun /\ OnlyBad /\ FirstFile /\ ChunksDated /\ UnreadOnlyAtFailure
  BY <1>2 DEF NotBegun, OnlyBad, FirstFile, ChunksDated, UnreadOnlyAtFailure
<1>5. QED
  BY <1>3, <1>4 DEF ReaderIInv

\* Steps of the writer
LEMMA WriterStepStep ==
    ASSUME ReaderIInv, IInv', state = "off", UNCHANGED readerVars
    PROVE  ReaderIInv'
<1>1. /\ list' = <<>> /\ samples' = 0 /\ at' = 1 /\ stream' = 0 /\ pos' = 0
      /\ armed' \in BOOLEAN /\ time' = 0 /\ chunks' = <<>> /\ state' = "off"
  BY DEF ReaderIInv, TypeOK, NotBegun, readerVars
<1>2. TypeOK'
  <2>1. /\ list' \in Seq({Bad, Missing} \cup DOMAIN files')
        /\ chunks' \in Seq([fmt : Formats, start : Nat, data : Seq(Nat), unread : Nat])
        /\ at' \in 1 .. Len(list') + 1
    BY <1>1, EmptySeq
  <2>2. WriterTypeOK'
    BY DEF IInv
  <2>3. QED
    BY <1>1, <2>1, <2>2 DEF TypeOK
<1>3. (NotBegun /\ OnlyBad /\ FirstFile /\ ChunksDated /\ UnreadOnlyAtFailure)'
  BY <1>1 DEF NotBegun, OnlyBad, FirstFile, ChunksDated, UnreadOnlyAtFailure
<1>4. QED
  BY <1>2, <1>3 DEF ReaderIInv

\* The list is the files, perhaps with an obstacle.
LEMMA ListTypes ==
    ASSUME WriterTypeOK, StartReading
    PROVE  list' \in Seq({Bad, Missing} \cup DOMAIN files)
<1> DEFINE all == [k \in DOMAIN files |-> k]
           L == {Bad, Missing} \cup DOMAIN files
<1>1. DOMAIN files = 1 .. Len(files) /\ Len(files) \in Nat
  BY LenProperties DEF WriterTypeOK
<1>2. all \in Seq(L) /\ Len(all) = Len(files) /\ \A i \in 1 .. Len(files) : all[i] \in L
  BY <1>1
<1>3. list' = all \/ \E k \in 1 .. Len(files) + 1, o \in Obstacles : list' = InsertAt(all, k, o)
  BY DEF StartReading
<1> HIDE DEF all, L
<1>4. ASSUME NEW k \in 1 .. Len(files) + 1, NEW o \in Obstacles
      PROVE  InsertAt(all, k, o) \in Seq(L)
  <2>1. k \in Int /\ k - 1 \in Int /\ Len(all) \in Int /\ 1 \in Int
    BY <1>1, <1>2
  <2>2. /\ \A i \in 1 .. k - 1 : all[i] \in L
        /\ \A i \in k .. Len(all) : all[i] \in L
    BY <1>1, <1>2
  <2>3. SubSeq(all, 1, k - 1) \in Seq(L) /\ SubSeq(all, k, Len(all)) \in Seq(L)
    BY <2>1, <2>2, SubSeqProperties
  <2>4. <<o>> \in Seq(L)
    BY ReaderAssumption DEF L
  <2>5. SubSeq(all, 1, k - 1) \o <<o>> \in Seq(L)
    BY <2>3, <2>4, ConcatProperties
  <2>6. QED
    BY <2>3, <2>5, ConcatProperties DEF InsertAt
<1>5. QED
  BY <1>2, <1>3, <1>4 DEF L

LEMMA StartReadingStep ==
    ASSUME ReaderIInv, IInv', StartReading
    PROVE  ReaderIInv'
<1>1. /\ at' = 1 /\ stream' = 0 /\ pos' = 0 /\ armed' \in BOOLEAN /\ time' = 0
      /\ chunks' = <<>> /\ state' = "on" /\ samples' \in ReadSizes /\ files' = files
  BY DEF ReaderIInv, TypeOK, NotBegun, StartReading, writerVars
<1>2. TypeOK'
  <2>1. list' \in Seq({Bad, Missing} \cup DOMAIN files')
    BY <1>1, ListTypes DEF ReaderIInv, TypeOK
  <2>2. at' \in 1 .. Len(list') + 1
    BY <1>1, <2>1, LenProperties
  <2>3. chunks' \in Seq([fmt : Formats, start : Nat, data : Seq(Nat), unread : Nat])
    BY <1>1, EmptySeq
  <2>4. WriterTypeOK'
    BY DEF IInv
  <2>5. QED
    BY <1>1, <2>1, <2>2, <2>3, <2>4 DEF TypeOK
<1>3. (NotBegun /\ OnlyBad /\ FirstFile /\ ChunksDated /\ UnreadOnlyAtFailure)'
  BY <1>1 DEF NotBegun, OnlyBad, FirstFile, ChunksDated, UnreadOnlyAtFailure
<1>4. QED
  BY <1>2, <1>3 DEF ReaderIInv

\* Nothing more is delivered.
LEMMA EndStep ==
    ASSUME ReaderIInv, IInv', EndOfFiles \/ OpenTwice \/ CannotOpen
    PROVE  ReaderIInv'
<1>1. /\ state = "on" /\ state' \in {"ended", "failed"}
      /\ UNCHANGED <<list, samples, at, stream, pos, armed, time, chunks, files, once>>
  BY DEF EndOfFiles, OpenTwice, CannotOpen, Reads, writerVars
<1>2. TypeOK'
  <2>1. WriterTypeOK'
    BY DEF IInv
  <2>2. QED
    BY <1>1, <2>1 DEF ReaderIInv, TypeOK, Data
<1>3. Delivered' = Delivered
  BY <1>1 DEF Delivered
<1>4. (NotBegun /\ OnlyBad /\ FirstFile)'
  BY <1>1, <1>3 DEF ReaderIInv, NotBegun, OnlyBad, FirstFile, Data
<1>5. (ChunksDated /\ UnreadOnlyAtFailure)'
  BY <1>1 DEF ReaderIInv, ChunksDated, UnreadOnlyAtFailure
<1>6. QED
  BY <1>2, <1>4, <1>5 DEF ReaderIInv

LEMMA BadHeaderStep ==
    ASSUME ReaderIInv, IInv', BadHeader
    PROVE  ReaderIInv'
<1>1. /\ stream = 0 /\ state = "on" /\ list[at] = Bad /\ at' = at + 1 /\ armed' = TRUE
      /\ at <= Len(list)
      /\ UNCHANGED <<list, samples, stream, pos, time, chunks, files, once, state>>
  <2>1. BadHeader
    OBVIOUS
  <2>2. at \in 1 .. Len(list) + 1 /\ Len(list) \in Nat
    BY LenProperties DEF ReaderIInv, TypeOK
  <2>3. QED
    BY <2>1, <2>2 DEF BadHeader, Reads, writerVars, Exhausted
<1>2. at \in 1 .. Len(list) + 1 /\ Len(list) \in Nat
  BY LenProperties DEF ReaderIInv, TypeOK
<1>3. TypeOK'
  <2>1. WriterTypeOK'
    BY DEF IInv
  <2>2. at' \in 1 .. Len(list') + 1
    BY <1>1, <1>2
  <2>3. QED
    BY <1>1, <2>1, <2>2 DEF ReaderIInv, TypeOK, Data
<1>4. NotBegun' /\ FirstFile'
  BY <1>1 DEF NotBegun, FirstFile
<1>5. OnlyBad'
  <2>1. chunks' = <<>> /\ \A k \in 1 .. at - 1 : list[k] = Bad
    BY <1>1 DEF ReaderIInv, OnlyBad
  <2>2. \A k \in 1 .. at' - 1 : k \in 1 .. at - 1 \/ k = at
    BY <1>1, <1>2
  <2>3. QED
    BY <1>1, <2>1, <2>2 DEF OnlyBad
<1>6. (ChunksDated /\ UnreadOnlyAtFailure)'
  BY <1>1 DEF ReaderIInv, ChunksDated, UnreadOnlyAtFailure
<1>7. QED
  BY <1>3, <1>4, <1>5, <1>6 DEF ReaderIInv

\* Samples are delivered from the file before at.
LEMMA DeliverStep ==
    ASSUME ReaderIInv, IInv, IInv', state = "on", UNCHANGED writerVars,
           UNCHANGED <<list, samples>>,
           NEW k \in DOMAIN files, NEW from \in 0 .. Len(Data(k)), NEW t \in Nat,
           NEW more \in BOOLEAN,
           FillChunk(k, from, t, more),
           Delivered = SubSeq(Data(k), 1, from), files[k].fmt \in Timed => t = After(files[k].start, from),
           at' - 1 \in 1 .. Len(list), list[at' - 1] = k, at' \in Int,
           \A m \in 1 .. at' - 2 : list[m] = Bad
    PROVE  ReaderIInv'
<1>1. /\ stream' = k /\ pos' \in 0 .. Len(Data(k)) /\ armed' \in BOOLEAN
      /\ time' \in Nat /\ chunks' \in Seq(Chunk)
      /\ state' \in {"on", "ended", "failed"}
      /\ Delivered' = SubSeq(Data(k), 1, pos')
      /\ files[k].fmt \in Timed => time' = After(files[k].start, pos')
      /\ ChunksDated' /\ UnreadOnlyAtFailure'
  BY FillChunkStep
<1>2. files' = files /\ once' = once /\ list' = list /\ samples' = samples
  BY DEF writerVars
<1>3. k # 0
  <2>1. DOMAIN files = 1 .. Len(files)
    BY LenProperties DEF IInv, WriterTypeOK
  <2>2. QED
    BY <2>1
<1>4. TypeOK'
  <2>1. WriterTypeOK'
    BY DEF IInv
  <2>2. list \in Seq({Bad, Missing} \cup DOMAIN files) /\ samples \in ReadSizes \cup {0}
    BY DEF ReaderIInv, TypeOK
  <2>3. at' \in 1 .. Len(list) + 1
    BY <2>2, LenProperties
  <2>4. QED
    BY <1>1, <1>2, <2>1, <2>2, <2>3 DEF TypeOK, Data, Chunk
<1>5. NotBegun' /\ OnlyBad'
  BY <1>1, <1>3 DEF NotBegun, OnlyBad
<1>6. FirstFile'
  BY <1>1, <1>2 DEF FirstFile, Data
<1>7. QED
  BY <1>1, <1>4, <1>5, <1>6 DEF ReaderIInv

LEMMA ContinueStep ==
    ASSUME ReaderIInv, IInv, IInv', Continue
    PROVE  ReaderIInv'
<1>1. /\ state = "on" /\ UNCHANGED writerVars /\ UNCHANGED <<list, samples>>
      /\ stream # 0 /\ at' = at
      /\ FillChunk(stream, pos, time, ~Exhausted)
  BY DEF Continue, Reads, NoData
<1>2. stream \in DOMAIN files /\ pos \in 0 .. Len(Data(stream)) /\ time \in Nat /\ at \in Int
  BY <1>1 DEF ReaderIInv, TypeOK
<1>3. /\ at - 1 \in 1 .. Len(list) /\ list[at - 1] = stream
      /\ \A m \in 1 .. at - 2 : list[m] = Bad
      /\ Delivered = SubSeq(Data(stream), 1, pos)
      /\ files[stream].fmt \in Timed => time = After(files[stream].start, pos)
  BY <1>1 DEF ReaderIInv, FirstFile
<1>4. QED
  BY <1>1, <1>2, <1>3, DeliverStep

LEMMA OpenFileStep ==
    ASSUME ReaderIInv, IInv, IInv', OpenFile
    PROVE  ReaderIInv'
<1> DEFINE k == list[at]
<1>1. /\ state = "on" /\ UNCHANGED writerVars /\ UNCHANGED <<list, samples>>
      /\ stream = 0 /\ ~Exhausted /\ k > 0 /\ at' = at + 1
      /\ FillChunk(k, 0, StartOf(k), at < Len(list))
  BY DEF OpenFile, Reads
<1>2. /\ at \in 1 .. Len(list) + 1 /\ Len(list) \in Nat
      /\ list \in Seq({Bad, Missing} \cup DOMAIN files)
  BY LenProperties DEF ReaderIInv, TypeOK
<1>3. at \in 1 .. Len(list)
  BY <1>1, <1>2 DEF Exhausted
<1>4. k \in DOMAIN files
  <2>1. k \in {Bad, Missing} \cup DOMAIN files
    BY <1>2, <1>3, ElementOfSeq
  <2>2. QED
    BY <1>1, <2>1 DEF Bad, Missing
<1>5. Data(k) \in Seq(Nat) /\ Len(Data(k)) \in Nat /\ files[k].start \in Nat
  <2>1. files \in Seq(File)
    BY DEF IInv, WriterTypeOK
  <2>2. QED
    BY <1>4, <2>1, DataOfFile DEF Data
<1>6. Delivered = SubSeq(Data(k), 1, 0)
  <2>1. chunks = <<>>
    BY <1>1 DEF ReaderIInv, OnlyBad
  <2>2. SubSeq(Data(k), 1, 0) = <<>>
    BY SubSeqEmpty
  <2>3. QED
    BY <2>1, <2>2, NoneDelivered
<1>7. \A m \in 1 .. at - 1 : list[m] = Bad
  BY <1>1 DEF ReaderIInv, OnlyBad
<1> HIDE DEF k
<1>8. /\ at' - 1 = at /\ at' - 2 = at - 1 /\ at' \in Int /\ 0 \in 0 .. Len(Data(k))
      /\ (at < Len(list)) \in BOOLEAN
      /\ StartOf(k) \in Nat /\ StartOf(k) = After(files[k].start, 0)
  <2>1. After(files[k].start, 0) = files[k].start
    BY <1>5, AfterFacts
  <2>2. QED
    BY <1>1, <1>2, <1>5, <2>1 DEF StartOf
<1>9. at' - 1 \in 1 .. Len(list) /\ list[at' - 1] = k /\ \A m \in 1 .. at' - 2 : list[m] = Bad
  BY <1>3, <1>7, <1>8 DEF k
<1>10. QED
  BY <1>1, <1>4, <1>6, <1>8, <1>9, DeliverStep

LEMMA StepReader == ReaderIInv /\ IInv /\ [Next]_vars => ReaderIInv'
<1> SUFFICES ASSUME ReaderIInv, IInv, [Next]_vars PROVE ReaderIInv'
  OBVIOUS
<1>1. IInv'
  BY WriterStays, StepIInv
<1>2. CASE state = "off" /\ WriterStep /\ UNCHANGED readerVars
  BY <1>1, <1>2, WriterStepStep
<1>3. CASE StartReading
  BY <1>1, <1>3, StartReadingStep
<1>4. CASE EndOfFiles \/ OpenTwice \/ CannotOpen
  BY <1>1, <1>4, EndStep
<1>5. CASE BadHeader
  BY <1>1, <1>5, BadHeaderStep
<1>6. CASE Continue
  BY <1>1, <1>6, ContinueStep
<1>7. CASE OpenFile
  BY <1>1, <1>7, OpenFileStep
<1>8. CASE UNCHANGED vars
  <2>1. /\ UNCHANGED <<now, files, open, header, count, chunk, spectrum, given, once>>
        /\ UNCHANGED <<list, samples, at, stream, pos, armed, time, chunks, state>>
    BY <1>8 DEF vars, writerVars, readerVars
  <2>2. TypeOK'
    BY <1>1, <2>1 DEF ReaderIInv, TypeOK, Data, IInv
  <2>3. Delivered' = Delivered
    BY <2>1 DEF Delivered
  <2>4. (NotBegun /\ OnlyBad /\ FirstFile)'
    BY <2>1, <2>3 DEF ReaderIInv, NotBegun, OnlyBad, FirstFile, Data
  <2>5. (ChunksDated /\ UnreadOnlyAtFailure)'
    BY <2>1 DEF ReaderIInv, ChunksDated, UnreadOnlyAtFailure
  <2>6. QED
    BY <2>2, <2>4, <2>5 DEF ReaderIInv
<1>9. QED
  BY <1>2, <1>3, <1>4, <1>5, <1>6, <1>7, <1>8 DEF Next, Process

-------------------------------------------------------------------------------
(* The theorems *)

\* The invariant, with that of the writer.
THEOREM ReaderInductive == Spec => [](IInv /\ ReaderIInv)
<1>1. Init => IInv /\ ReaderIInv
  BY InitIInv, InitReader DEF Init
<1>2. IInv /\ ReaderIInv /\ [Next]_vars => (IInv /\ ReaderIInv)'
  BY WriterStays, StepIInv, StepReader
<1>3. QED
  BY <1>1, <1>2, PTL DEF Spec

\* The position stays inside the file, _file_it inside the list, and the limit of a
\* file is kept: for every list the configuration may have.
THEOREM ReaderTypes == Spec => []TypeOK
<1>1. ReaderIInv => TypeOK
  BY DEF ReaderIInv
<1>2. QED
  BY ReaderInductive, <1>1, PTL

\* The samples of the list, in terms of the entries of the list
LEMMA ListFlattens ==
    ASSUME WriterTypeOK, TypeOK
    PROVE  LET l == [k \in DOMAIN list |-> IF list[k] > 0 THEN Data(list[k]) ELSE <<>>]
           IN  /\ InList = FlattenSeq(l) /\ l \in Seq(Seq(Nat)) /\ Len(l) = Len(list)
               /\ \A k \in 1 .. Len(list) : list[k] \in DOMAIN files => l[k] = Data(list[k])
               /\ \A k \in 1 .. Len(list) : list[k] = Bad => l[k] = <<>>
<1> DEFINE l == [k \in DOMAIN list |-> IF list[k] > 0 THEN Data(list[k]) ELSE <<>>]
<1>1. /\ DOMAIN list = 1 .. Len(list) /\ Len(list) \in Nat
      /\ \A k \in 1 .. Len(list) : list[k] \in {Bad, Missing} \cup DOMAIN files
  BY LenProperties, ElementOfSeq DEF TypeOK
<1>2. files \in Seq(File)
  BY DEF WriterTypeOK
<1>3. DOMAIN files = 1 .. Len(files) /\ Len(files) \in Nat
  BY <1>2, LenProperties
<1>4. \A k \in DOMAIN files : Data(k) \in Seq(Nat) /\ k > 0
  BY <1>2, <1>3, DataOfFile DEF Data
<1>5. ASSUME NEW k \in 1 .. Len(list)
      PROVE  /\ l[k] \in Seq(Nat)
             /\ list[k] \in DOMAIN files => l[k] = Data(list[k])
             /\ list[k] = Bad => l[k] = <<>>
  <2>1. CASE list[k] \in DOMAIN files
    <3>1. l[k] = Data(list[k]) /\ list[k] # Bad
      BY <1>1, <1>4, <2>1 DEF Bad
    <3>2. QED
      BY <1>4, <2>1, <3>1
  <2>2. CASE list[k] \in {Bad, Missing}
    <3>1. ~(list[k] > 0)
      BY <2>2 DEF Bad, Missing
    <3>2. l[k] = <<>> /\ list[k] \notin DOMAIN files
      BY <1>1, <1>4, <3>1
    <3>3. QED
      BY <3>2, EmptySeq
  <2>3. QED
    BY <1>1, <2>1, <2>2
<1>6. l \in [1 .. Len(list) -> Seq(Nat)]
  <2>1. l = [k \in 1 .. Len(list) |-> l[k]]
    BY <1>1
  <2> HIDE DEF l
  <2>2. QED
    BY <1>5, <2>1
<1>7. InList = FlattenSeq(l)
  BY DEF InList
<1> HIDE DEF l
<1>8. l \in Seq(Seq(Nat)) /\ Len(l) = Len(list)
  BY <1>1, <1>6
<1>9. QED
  BY <1>5, <1>7, <1>8 DEF l

\* Wherever process() has got to, what it has delivered are the files' samples from the
\* first of the list on, none skipped, none repeated, whatever the size of the chunks.
THEOREM InOrder == Spec => []ReadInOrder
<1>1. IInv /\ ReaderIInv => ReadInOrder
  <2> SUFFICES ASSUME IInv, ReaderIInv PROVE IsPrefix(Delivered, InList)
    BY DEF ReadInOrder
  <2> DEFINE l == [k \in DOMAIN list |-> IF list[k] > 0 THEN Data(list[k]) ELSE <<>>]
  <2>1. WriterTypeOK /\ TypeOK
    BY DEF IInv, ReaderIInv
  <2>2. /\ InList = FlattenSeq(l) /\ l \in Seq(Seq(Nat)) /\ Len(l) = Len(list)
        /\ \A k \in 1 .. Len(list) : list[k] \in DOMAIN files => l[k] = Data(list[k])
        /\ \A k \in 1 .. Len(list) : list[k] = Bad => l[k] = <<>>
    BY <2>1, ListFlattens
  <2>3. Len(list) \in Nat
    BY <2>1, LenProperties DEF TypeOK
  <2> HIDE DEF l
  <2>4. CASE stream = 0
    <3>1. Delivered = <<>>
      BY <2>4, NoneDelivered DEF ReaderIInv, OnlyBad
    <3>2. InList \in Seq(Nat) /\ Len(InList) \in Nat
      BY <2>2, FlattenType, LenProperties
    <3>3. SubSeq(<<>>, 1, 0) = <<>> /\ SubSeq(InList, 1, 0) = <<>> /\ Len(<<>>) = 0
      BY SubSeqEmpty
    <3>4. QED
      BY <3>1, <3>2, <3>3 DEF IsPrefix
  <2>5. CASE stream # 0
    <3> DEFINE m == at - 1
    <3>1. /\ m \in 1 .. Len(list) /\ list[m] = stream
          /\ \A k \in 1 .. at - 2 : list[k] = Bad
          /\ Delivered = SubSeq(Data(stream), 1, pos)
      BY <2>5 DEF ReaderIInv, FirstFile
    <3>2. stream \in DOMAIN files /\ pos \in 0 .. Len(Data(stream)) /\ at \in Int
      BY <2>1, <2>5 DEF TypeOK
    <3>3. at - 2 = m - 1 /\ m \in Nat \ {0} /\ m <= Len(l)
      BY <2>2, <2>3, <3>1, <3>2
    <3> HIDE DEF m
    <3>4. \A k \in 1 .. m - 1 : k \in 1 .. Len(list)
      BY <2>3, <3>1
    <3>5. \A k \in 1 .. m - 1 : l[k] = <<>>
      BY <2>2, <3>1, <3>3, <3>4
    <3>6. PICK r \in Seq(Nat) : FlattenSeq(l) = l[m] \o r
      BY <2>2, <3>3, <3>5, FlattenFirst
    <3>7. l[m] = Data(stream)
      BY <2>2, <3>1, <3>2
    <3>8. Data(stream) \in Seq(Nat)
      BY <2>1, <3>2, DataOfFile DEF WriterTypeOK, Data
    <3>9. IsPrefix(SubSeq(Data(stream), 1, pos), Data(stream) \o r)
      BY <3>2, <3>8, PrefixOfConcat
    <3>10. QED
      BY <2>2, <3>1, <3>6, <3>7, <3>9
  <2>6. QED
    BY <2>4, <2>5
<1>2. QED
  BY ReaderInductive, <1>1, PTL

\* Counting from the start time that process() gives a chunk, every sample of it is
\* within half an interval of its date, if the file's interval is set and the writer has
\* repeated nothing: the stream adds no error to the writer's.
THEOREM Dating == Spec => []ChunksDated
<1>1. ReaderIInv => ChunksDated
  BY DEF ReaderIInv
<1>2. QED
  BY ReaderInductive, <1>1, PTL

\* A chunk is handed on with samples that were not read only as the last one, when
\* another file could not be opened.
THEOREM UnreadLast == Spec => []UnreadOnlyAtFailure
<1>1. ReaderIInv => UnreadOnlyAtFailure
  BY DEF ReaderIInv
<1>2. QED
  BY ReaderInductive, <1>1, PTL

-------------------------------------------------------------------------------
(* The end of the stream *)

\* process() returns true, or begins to throw, at the end of a file if one is open; it
\* returns true only when there are no more files, or the next one is missing.
AtEnd ==
    /\ state \in {"ended", "failed"} /\ stream # 0 => pos = Len(Data(stream))
    /\ state = "ended" => Exhausted \/ (stream = 0 /\ list[at] = Missing)

\* A chunk that ends the stream takes all that is left of the file.
LEMMA FillChunkEnds ==
    ASSUME NEW k, NEW from \in Nat, NEW t, NEW more \in BOOLEAN, Len(Data(k)) \in Nat,
           FillChunk(k, from, t, more), state = "on", state' # "on"
    PROVE  /\ stream' = k /\ pos' = Len(Data(k))
           /\ state' = "ended" => ~more
<1>1. stream' = k
  BY DEF FillChunk
<1>2. /\ pos' = from + (Len(Data(k)) - from)
      /\ state' = IF more THEN "failed" ELSE "ended"
  BY DEF FillChunk
<1>3. QED
  BY <1>1, <1>2

LEMMA AtEndStep == ReaderIInv /\ IInv /\ AtEnd /\ [Next]_vars => AtEnd'
<1> SUFFICES ASSUME ReaderIInv, IInv, AtEnd, [Next]_vars PROVE AtEnd'
  OBVIOUS
<1>1. /\ at \in 1 .. Len(list) + 1 /\ Len(list) \in Nat
      /\ stream # 0 => stream \in DOMAIN files /\ pos \in 0 .. Len(Data(stream))
      /\ list \in Seq({Bad, Missing} \cup DOMAIN files)
  BY LenProperties DEF ReaderIInv, TypeOK
<1>2. \A k \in DOMAIN files : Len(Data(k)) \in Nat
  BY DataOfFile DEF IInv, WriterTypeOK, Data
<1>3. CASE (state = "off" /\ WriterStep /\ UNCHANGED readerVars) \/ StartReading
  <2>1. state' \in {"off", "on"}
    BY <1>3 DEF readerVars, StartReading
  <2>2. QED
    BY <2>1 DEF AtEnd
<1>4. CASE EndOfFiles \/ OpenTwice \/ CannotOpen
  <2>1. UNCHANGED <<files, list, at, stream, pos>>
    BY <1>4 DEF EndOfFiles, OpenTwice, CannotOpen, Reads, writerVars
  <2>2. /\ stream # 0 => pos = Len(Data(stream))
        /\ state' = "ended" => Exhausted \/ (stream = 0 /\ list[at] = Missing)
    BY <1>4 DEF EndOfFiles, OpenTwice, CannotOpen, NoData
  <2>3. QED
    BY <2>1, <2>2 DEF AtEnd, Data, Exhausted
<1>5. CASE BadHeader
  BY <1>5 DEF BadHeader, Reads, AtEnd
<1>6. CASE Continue
  <2>1. /\ FillChunk(stream, pos, time, ~Exhausted) /\ state = "on" /\ stream # 0
        /\ at' = at /\ list' = list /\ files' = files
    BY <1>6 DEF Continue, Reads, NoData, writerVars
  <2> SUFFICES ASSUME state' # "on" PROVE AtEnd'
    BY DEF AtEnd
  <2>2. pos \in Nat /\ Len(Data(stream)) \in Nat
    BY <1>1, <1>2, <2>1
  <2>3. stream' = stream /\ pos' = Len(Data(stream)) /\ (state' = "ended" => Exhausted)
    BY <2>1, <2>2, FillChunkEnds
  <2>4. QED
    BY <2>1, <2>3 DEF AtEnd, Data, Exhausted
<1>7. CASE OpenFile
  <2> DEFINE k == list[at]
  <2>1. /\ FillChunk(k, 0, StartOf(k), at < Len(list)) /\ state = "on"
        /\ k > 0 /\ ~Exhausted
        /\ at' = at + 1 /\ list' = list /\ files' = files
    BY <1>7 DEF OpenFile, Reads, writerVars
  <2> SUFFICES ASSUME state' # "on" PROVE AtEnd'
    BY DEF AtEnd
  <2>2. k \in DOMAIN files
    <3>1. at \in 1 .. Len(list)
      BY <1>1, <2>1 DEF Exhausted
    <3>2. k \in {Bad, Missing} \cup DOMAIN files
      BY <1>1, <3>1, ElementOfSeq
    <3>3. QED
      BY <2>1, <3>2 DEF Bad, Missing
  <2> HIDE DEF k
  <2>3. 0 \in Nat /\ (at < Len(list)) \in BOOLEAN /\ Len(Data(k)) \in Nat
    BY <1>1, <1>2, <2>2
  <2>4. stream' = k /\ pos' = Len(Data(k)) /\ (state' = "ended" => ~(at < Len(list)))
    BY <2>1, <2>3, FillChunkEnds
  <2>5. ~(at < Len(list)) => at + 1 > Len(list)
    BY <1>1
  <2>6. QED
    BY <2>1, <2>4, <2>5 DEF AtEnd, Data, Exhausted
<1>8. CASE UNCHANGED vars
  BY <1>8 DEF vars, readerVars, writerVars, AtEnd, Data, Exhausted
<1>9. QED
  BY <1>3, <1>4, <1>5, <1>6, <1>7, <1>8 DEF Next, Process

\* process() ends the stream only where AtEnd says.
THEOREM EndInductive == Spec => [](IInv /\ ReaderIInv /\ AtEnd)
<1>1. Init => AtEnd
  BY DEF Init, ReaderInit, AtEnd
<1>2. IInv /\ ReaderIInv /\ AtEnd /\ [Next]_vars => AtEnd'
  BY AtEndStep
<1>3. QED
  BY ReaderInductive, <1>1, <1>2, PTL DEF Spec

\* When the stream is at an end it has delivered one file in full or nothing.
OneFileAtMost ==
    state \in {"ended", "failed"} =>
        Delivered = IF stream = 0 THEN <<>> ELSE Data(stream)

\* process() returns true, which ends the stream without an error, only when all
\* samples of the list were delivered, unless a file of the list is missing.
EndIsComplete ==
    state = "ended" /\ (\A k \in DOMAIN list : list[k] # Missing) => Delivered = InList

\* next_file() gets no further than the first file that can be read.
THEOREM OneFile == Spec => []OneFileAtMost
<1>1. IInv /\ ReaderIInv /\ AtEnd => OneFileAtMost
  <2> SUFFICES ASSUME IInv, ReaderIInv, AtEnd, state \in {"ended", "failed"}
               PROVE  Delivered = IF stream = 0 THEN <<>> ELSE Data(stream)
    BY DEF OneFileAtMost
  <2>1. CASE stream = 0
    BY <2>1, NoneDelivered DEF ReaderIInv, OnlyBad
  <2>2. CASE stream # 0
    <3>1. Delivered = SubSeq(Data(stream), 1, Len(Data(stream)))
      BY <2>2 DEF ReaderIInv, FirstFile, AtEnd
    <3>2. Data(stream) \in Seq(Nat)
      BY <2>2, DataOfFile DEF ReaderIInv, TypeOK, IInv, WriterTypeOK, Data
    <3>3. QED
      BY <2>2, <3>1, <3>2, SubSeqFull
  <2>3. QED
    BY <2>1, <2>2
<1>2. QED
  BY EndInductive, <1>1, PTL

\* So process() does not pass over a file in silence: it throws.
THEOREM SilentEndIsComplete == Spec => []EndIsComplete
<1>1. IInv /\ ReaderIInv /\ AtEnd /\ OneFileAtMost => EndIsComplete
  <2> SUFFICES ASSUME IInv, ReaderIInv, AtEnd, OneFileAtMost, state = "ended",
                      \A k \in DOMAIN list : list[k] # Missing
               PROVE  Delivered = InList
    BY DEF EndIsComplete
  <2> DEFINE l == [k \in DOMAIN list |-> IF list[k] > 0 THEN Data(list[k]) ELSE <<>>]
  <2>1. WriterTypeOK /\ TypeOK
    BY DEF IInv, ReaderIInv
  <2>2. /\ InList = FlattenSeq(l) /\ l \in Seq(Seq(Nat)) /\ Len(l) = Len(list)
        /\ \A k \in 1 .. Len(list) : list[k] \in DOMAIN files => l[k] = Data(list[k])
        /\ \A k \in 1 .. Len(list) : list[k] = Bad => l[k] = <<>>
    BY <2>1, ListFlattens
  <2> HIDE DEF l
  <2>3. /\ Len(list) \in Nat /\ at \in 1 .. Len(list) + 1 /\ DOMAIN list = 1 .. Len(list)
    BY <2>1, LenProperties DEF TypeOK
  <2>4. at = Len(list) + 1
    <3>1. ~Exhausted => at \in DOMAIN list
      BY <2>3 DEF Exhausted
    <3>2. Exhausted
      BY <3>1 DEF AtEnd
    <3>3. QED
      BY <2>3, <3>2 DEF Exhausted
  <2>5. CASE stream = 0
    <3>1. \A k \in 1 .. Len(list) : list[k] = Bad
      BY <2>3, <2>4, <2>5 DEF ReaderIInv, OnlyBad
    <3>2. \A k \in 1 .. Len(l) : l[k] = <<>>
      BY <2>2, <3>1
    <3>3. FlattenSeq(l) = <<>>
      BY <2>2, <3>2, FlattenEmpties
    <3>4. QED
      BY <2>2, <2>5, <3>3 DEF OneFileAtMost
  <2>6. CASE stream # 0
    <3>1. /\ Len(list) \in 1 .. Len(list) /\ list[Len(list)] = stream
          /\ \A k \in 1 .. Len(list) - 1 : list[k] = Bad
      <4>1. at - 1 = Len(list) /\ at - 2 = Len(list) - 1
        BY <2>3, <2>4
      <4>2. QED
        BY <2>6, <4>1 DEF ReaderIInv, FirstFile
    <3>2. stream \in DOMAIN files
      BY <2>1, <2>6 DEF TypeOK
    <3>3. l[Len(l)] = Data(stream)
      BY <2>2, <3>1, <3>2
    <3>4. \A k \in 1 .. Len(l) - 1 : l[k] = <<>>
      BY <2>2, <2>3, <3>1
    <3>5. l # <<>>
      BY <2>2, <3>1
    <3>6. FlattenSeq(l) = l[Len(l)]
      BY <2>2, <3>4, <3>5, FlattenLast
    <3>7. QED
      BY <2>2, <2>6, <3>3, <3>6 DEF OneFileAtMost
  <2>7. QED
    BY <2>5, <2>6
<1>2. QED
  BY EndInductive, OneFile, <1>1, PTL
===============================================================================
