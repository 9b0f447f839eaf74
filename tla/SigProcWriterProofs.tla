------------------------- MODULE SigProcWriterProofs -------------------------
(***************************************************************************)
(* Theorems about SigProcWriter, for every limit of a file, every size of  *)
(* chunks and every sequence of formats and gaps.                          *)
(*                                                                         *)
(* The argument: the header kept is the open file's, moved on by as many   *)
(* intervals as it has spectra, whatever times the data had.  While the    *)
(* writer has repeated nothing, the header given to file_write() is less   *)
(* than half an interval from the spectrum it begins with: it is the       *)
(* chunk's, or for a remainder the kept one, which file_header() compared  *)
(* with the chunk's.  So no error adds up.  All spectra in the files are   *)
(* older than the one to be written next.  What was repeated or not, the   *)
(* front of the chunk up to the position it is continued from is always in *)
(* the files.                                                              *)
(***************************************************************************)
EXTENDS SigProcWriter, SequenceTheorems, TLAPS

LastFile == Len(files)

\* The part of the chunk that is left begins inside it, near the given time.
InHand ==
    ~Idle => /\ chunk.size > 0
             /\ spectrum < chunk.size
             /\ After(chunk.start, chunk.size) <= now
             /\ spectrum = 0 => given.start = chunk.start
             /\ spectrum # 0 => ~open
             /\ once /\ given.fmt \in Timed =>
                    Near(given.start, After(chunk.start, spectrum))

\* The open file is the last one, with as many spectra as counted, and the
\* header is that of its continuation.
OpenIsLast ==
    open => /\ LastFile # 0
            /\ count = Len(files[LastFile].data)
            /\ header.fmt = files[LastFile].fmt
            /\ header.fmt \in Timed => header.start = After(files[LastFile].start, count)

\* The time of the next spectrum to be written, or later
FrontTime == IF Idle THEN now ELSE After(chunk.start, spectrum)

WrittenBefore ==
    once => \A k \in DOMAIN files : \A i \in DOMAIN files[k].data :
                files[k].data[i] < FrontTime

\* The chunk is in the files up to the spectrum it is continued from.
FrontWritten ==
    ~Idle => \A i \in 0 .. spectrum - 1 : After(chunk.start, i) \in InFiles

\* The inductive invariant.
IInv ==
    /\ WriterTypeOK
    /\ InHand
    /\ OpenIsLast
    /\ FilesDated
    /\ FilesInOrder
    /\ WrittenBefore
    /\ FrontWritten

-------------------------------------------------------------------------------
(* Times *)

LEMMA AfterFacts ==
    ASSUME NEW t \in Nat, NEW n \in Nat
    PROVE  After(t, n) \in Nat /\ After(t, n) >= t /\ After(t, 0) = t
<1>1. n * Period \in Nat /\ 0 * Period = 0
  BY WriterAssumption
<1>2. QED
  BY <1>1 DEF After

LEMMA AfterAfter ==
    ASSUME NEW t \in Nat, NEW m \in Nat, NEW n \in Nat
    PROVE  After(After(t, m), n) = After(t, m + n)
  BY WriterAssumption DEF After

LEMMA AfterLess ==
    ASSUME NEW t \in Nat, NEW m \in Nat, NEW n \in Nat, m < n
    PROVE  After(t, m) < After(t, n)
<1>1. n = m + (n - m - 1) + 1 /\ n - m - 1 \in Nat
  OBVIOUS
<1>2. ASSUME NEW d \in Nat, n = m + d + 1 PROVE After(t, m) < After(t, n)
  <2>1. n * Period = m * Period + d * Period + Period
    BY <1>2, WriterAssumption
  <2>2. d * Period \in Nat /\ m * Period \in Nat /\ Period > 0
    BY WriterAssumption
  <2>3. QED
    BY <2>1, <2>2, WriterAssumption DEF After
<1>3. QED
  BY <1>1, <1>2

LEMMA AfterNotLess ==
    ASSUME NEW t \in Nat, NEW m \in Nat, NEW n \in Nat \ {0}
    PROVE  After(t, m) <= After(t, m + n - 1)
<1>1. CASE n = 1
  <2>1. m + n - 1 = m
    BY <1>1
  <2>2. After(t, m) \in Nat
    BY AfterFacts
  <2>3. QED
    BY <2>1, <2>2
<1>2. CASE n # 1
  <2>1. m + n - 1 \in Nat /\ m < m + n - 1
    BY <1>2
  <2>2. After(t, m) < After(t, m + n - 1) /\ After(t, m) \in Nat /\ After(t, m + n - 1) \in Nat
    BY <2>1, AfterLess, AfterFacts
  <2>3. QED
    BY <2>2
<1>3. QED
  BY <1>1, <1>2

LEMMA NearAfter ==
    ASSUME NEW s \in Nat, NEW t \in Nat, NEW n \in Nat, Near(s, t)
    PROVE  Near(After(s, n), After(t, n)) /\ Near(t, s)
<1>1. n * Period \in Nat
  BY WriterAssumption
<1>2. QED
  BY <1>1, WriterAssumption DEF After, Near

LEMMA NearSelf ==
    ASSUME NEW t \in Nat
    PROVE  Near(t, t)
  BY WriterAssumption DEF Near

LEMMA DataOfFile ==
    ASSUME NEW fs \in Seq(File), NEW k \in DOMAIN fs
    PROVE  /\ fs[k].fmt \in Formats
           /\ fs[k].data \in Seq(Nat) /\ fs[k].start \in Nat
           /\ Len(fs[k].data) \in Nat
           /\ DOMAIN fs[k].data = 1 .. Len(fs[k].data)
           /\ \A i \in DOMAIN fs[k].data : fs[k].data[i] \in Nat
<1>1. fs[k] \in File
  OBVIOUS
<1>2. fs[k].data \in Seq(Nat) /\ fs[k].start \in Nat /\ fs[k].fmt \in Formats
  BY <1>1 DEF File
<1>3. QED
  BY <1>2

(* The part of a chunk that goes to one file *)

\* It is not empty, is no more than is left, and fits in the file.
LEMMA PartFits ==
    ASSUME WriterTypeOK, NEW l \in Nat \ {0}
    PROVE  /\ Part(l) \in 1 .. l
           /\ Counted \in Nat
           /\ MaxCount # 0 => Counted < MaxCount /\ Counted + Part(l) <= MaxCount
           /\ ~Fills(l) => Part(l) = l /\ (MaxCount # 0 => Counted + l < MaxCount)
  BY WriterAssumption DEF WriterTypeOK, Part, Fills, Room, Counted

\* The spectra that are left, and those that WritePart writes
Left == chunk.size - spectrum
Written == Part(Left)

\* The file WritePart writes to, and how many spectra are in it before
Into == IF Continues(given) THEN LastFile ELSE LastFile + 1
Before == IF Continues(given) THEN Len(files[LastFile].data) ELSE 0

LEMMA LeftIsSome ==
    ASSUME IInv, WritePart
    PROVE  /\ Left \in Nat \ {0}
           /\ Written \in 1 .. Left
           /\ chunk.start \in Nat /\ chunk.size \in Nat /\ spectrum \in Nat
           /\ Into \in Nat \ {0}
           /\ Before \in Nat /\ Before = Counted
           /\ Continues(given) => LastFile \in DOMAIN files
<1>1. chunk.start \in Nat /\ chunk.size \in Nat /\ spectrum \in Nat /\ LastFile \in Nat
  BY DEF IInv, WriterTypeOK, LastFile
<1>2. Left \in Nat \ {0}
  BY <1>1 DEF Left, IInv, InHand, WritePart
<1>3. Continues(given) => LastFile # 0 /\ count = Len(files[LastFile].data)
  BY DEF Continues, IInv, OpenIsLast
<1>4. Written \in 1 .. Left /\ Counted \in Nat
  BY <1>2, PartFits DEF Written, IInv
<1>5. Before = Counted
  BY <1>3 DEF Before, Counted
<1>6. QED
  BY <1>1, <1>2, <1>3, <1>4, <1>5 DEF Into, LastFile

\* What the files hold after WritePart: everything from before, at the same
\* places, and the part behind it in one file.
LEMMA FilesAfter ==
    ASSUME IInv, WritePart
    PROVE  /\ files' \in Seq(File)
           /\ Len(files') = Into
           /\ DOMAIN files' = DOMAIN files \cup {Into}
           /\ \A k \in DOMAIN files : k # Into => files'[k] = files[k]
           /\ files'[Into].start = IF Continues(given) THEN files[LastFile].start ELSE given.start
           /\ files'[Into].fmt = given.fmt
           /\ Len(files'[Into].data) = Before + Written
           /\ \A i \in 1 .. Before :
                  /\ Into \in DOMAIN files /\ i \in DOMAIN files[Into].data
                  /\ files'[Into].data[i] = files[Into].data[i]
           /\ \A j \in 1 .. Written :
                  files'[Into].data[Before + j] = After(chunk.start, spectrum + j - 1)
<1> DEFINE data == SpectraFrom(spectrum, Written)
<1>0. /\ files \in Seq(File) /\ given \in [fmt : Formats, start : Nat]
      /\ LastFile \in Nat /\ DOMAIN files = 1 .. LastFile
  BY DEF IInv, WriterTypeOK, LastFile
<1>1. /\ Written \in Nat
      /\ data \in Seq(Nat) /\ Len(data) = Written
      /\ \A j \in 1 .. Written : data[j] = After(chunk.start, spectrum + j - 1)
  <2>1. /\ Written \in Nat /\ chunk.start \in Nat /\ spectrum \in Nat
    BY LeftIsSome
  <2>2. data = [j \in 1 .. Written |-> After(chunk.start, spectrum + j - 1)]
    BY DEF SpectraFrom
  <2>3. \A j \in 1 .. Written : After(chunk.start, spectrum + j - 1) \in Nat
    BY <2>1, AfterFacts
  <2>4. data \in [1 .. Written -> Nat]
    BY <2>2, <2>3
  <2> HIDE DEF data
  <2>5. \A j \in 1 .. Written : data[j] = After(chunk.start, spectrum + j - 1)
    BY <2>2, Zenon
  <2>6. QED
    BY <2>1, <2>4, <2>5
<1> HIDE DEF data
<1>2. CASE Continues(given)
  <2> DEFINE f == files[LastFile]
             g == [fmt |-> f.fmt, start |-> f.start, data |-> f.data \o data]
  <2>1. files' = [files EXCEPT ![LastFile] = g]
    BY <1>2 DEF WritePart, LastFile, Left, Written, data
  <2>2. /\ LastFile \in DOMAIN files /\ Into = LastFile
        /\ Before = Len(f.data) /\ Before \in Nat
    BY <1>2, LeftIsSome DEF Into, Before
  <2>3. f \in File
    BY <1>0, <2>2
  <2>4. f.fmt \in Formats /\ f.start \in Nat /\ f.data \in Seq(Nat)
    BY <2>3 DEF File
  <2>5. g.fmt = f.fmt /\ g.start = f.start /\ g.data = f.data \o data
    OBVIOUS
  <2>6. ASSUME NEW d \in Seq(Nat), d = f.data
        PROVE  /\ d \o data \in Seq(Nat)
               /\ Len(d \o data) = Len(d) + Written
               /\ \A i \in 1 .. Len(d) : (d \o data)[i] = d[i]
               /\ \A j \in 1 .. Written : (d \o data)[Len(d) + j] = data[j]
    <3>1. Len(d) \in Nat
      OBVIOUS
    <3>2. /\ d \o data \in Seq(Nat)
          /\ Len(d \o data) = Len(d) + Len(data)
          /\ \A i \in 1 .. Len(d) + Len(data) :
                 (d \o data)[i] = IF i <= Len(d) THEN d[i] ELSE data[i - Len(d)]
      BY <1>1, ConcatProperties
    <3>3. \A i \in 1 .. Len(d) : (d \o data)[i] = d[i]
      BY <1>1, <3>1, <3>2
    <3>4. ASSUME NEW j \in 1 .. Written
          PROVE  (d \o data)[Len(d) + j] = data[j]
      <4>1. /\ Len(d) + j \in 1 .. Len(d) + Len(data)
            /\ ~(Len(d) + j <= Len(d)) /\ Len(d) + j - Len(d) = j
        BY <1>1, <3>1
      <4>2. QED
        BY <3>2, <4>1
    <3>5. QED
      BY <1>1, <3>2, <3>3, <3>4
  <2>7. /\ g.data \in Seq(Nat)
        /\ Len(g.data) = Before + Written
        /\ \A i \in 1 .. Before : g.data[i] = f.data[i]
        /\ \A j \in 1 .. Written : g.data[Before + j] = data[j]
    BY <2>2, <2>4, <2>5, <2>6
  <2>8. g \in File
    BY <2>4, <2>5, <2>7 DEF File
  <2>9. DOMAIN f.data = 1 .. Before
    BY <2>2, <2>4
  <2> HIDE DEF f, g
  <2>10. files' \in Seq(File) /\ Len(files') = LastFile
    <3>1. files \in [1 .. LastFile -> File]
      BY <1>0
    <3>2. files' \in [1 .. LastFile -> File]
      BY <2>1, <2>8, <3>1
    <3>3. QED
      BY <1>0, <3>2
  <2>11. /\ DOMAIN files' = DOMAIN files
         /\ \A k \in DOMAIN files : k # LastFile => files'[k] = files[k]
         /\ files'[LastFile] = g
    BY <1>0, <2>1, <2>2
  <2>12. /\ files'[Into].start = files[LastFile].start
         /\ files'[Into].fmt = files[LastFile].fmt
         /\ \A i \in 1 .. Before :
                /\ Into \in DOMAIN files /\ i \in DOMAIN files[Into].data
                /\ files'[Into].data[i] = files[Into].data[i]
    BY <2>2, <2>5, <2>7, <2>9, <2>11 DEF f
  <2>13. \A j \in 1 .. Written :
             files'[Into].data[Before + j] = After(chunk.start, spectrum + j - 1)
    BY <1>1, <2>2, <2>7, <2>11
  <2>14. Len(files'[Into].data) = Before + Written
    BY <2>2, <2>7, <2>11
  <2>15. DOMAIN files' = DOMAIN files \cup {Into}
    BY <2>2, <2>11
  <2>16. files[LastFile].fmt = given.fmt
    BY <1>2 DEF Continues, IInv, OpenIsLast
  <2>17. QED
    BY <1>2, <2>2, <2>10, <2>11, <2>12, <2>13, <2>14, <2>15, <2>16
<1>3. CASE ~Continues(given)
  <2> DEFINE f == [fmt |-> given.fmt, start |-> given.start, data |-> data]
  <2>1. files' = Append(files, f)
    BY <1>3 DEF WritePart, LastFile, Left, Written, data
  <2>2. Into = LastFile + 1 /\ Before = 0
    BY <1>3 DEF Into, Before
  <2>3. f \in File
    BY <1>0, <1>1 DEF File
  <2>4. f.start = given.start /\ f.fmt = given.fmt /\ f.data = data
    OBVIOUS
  <2> HIDE DEF f
  <2>5. /\ files' \in Seq(File) /\ Len(files') = LastFile + 1
        /\ \A k \in 1 .. LastFile : files'[k] = files[k]
        /\ files'[LastFile + 1] = f
    BY <1>0, <2>1, <2>3 DEF LastFile
  <2>6. DOMAIN files' = DOMAIN files \cup {LastFile + 1}
    BY <1>0, <2>5
  <2>7. QED
    BY <1>0, <1>1, <1>3, <2>2, <2>4, <2>5, <2>6
<1>4. QED
  BY <1>2, <1>3

\* Each spectrum in the files is from before or of the part written now.
LEMMA OldOrNew ==
    ASSUME IInv, WritePart, NEW k \in DOMAIN files', NEW i \in DOMAIN files'[k].data
    PROVE  \/ /\ k \in DOMAIN files /\ i \in DOMAIN files[k].data
              /\ files'[k].data[i] = files[k].data[i]
           \/ \E j \in 1 .. Written :
              /\ k = Into /\ i = Before + j
              /\ files'[k].data[i] = After(chunk.start, spectrum + j - 1)
<1>1. CASE k # Into
  <2>1. k \in DOMAIN files
    <3>1. DOMAIN files' = DOMAIN files \cup {Into}
      BY FilesAfter
    <3>2. QED
      BY <1>1, <3>1
  <2>2. files'[k] = files[k]
    <3>1. \A m \in DOMAIN files : m # Into => files'[m] = files[m]
      BY FilesAfter
    <3>2. QED
      BY <1>1, <2>1, <3>1, Zenon
  <2>3. QED
    BY <2>1, <2>2
<1>2. CASE k = Into
  <2>1. files'[k] \in File /\ Before \in Nat /\ Written \in Nat
    BY FilesAfter, LeftIsSome
  <2>2. i \in 1 .. Before + Written
    BY <1>2, <2>1, FilesAfter DEF File
  <2>3. CASE i <= Before
    <3>1. i \in 1 .. Before
      BY <2>1, <2>2, <2>3
    <3>2. QED
      BY <1>2, <3>1, FilesAfter
  <2>4. CASE i > Before
    <3>1. i - Before \in 1 .. Written /\ i = Before + (i - Before)
      BY <2>1, <2>2, <2>4
    <3>2. QED
      BY <1>2, <3>1, FilesAfter
  <2>5. QED
    BY <2>1, <2>2, <2>3, <2>4
<1>3. QED
  BY <1>1, <1>2

-------------------------------------------------------------------------------
(* Steps other than WritePart leave the files alone. *)

LEMMA InitIInv == WriterInit => IInv
<1> SUFFICES ASSUME WriterInit PROVE IInv
  OBVIOUS
<1>1. files \in Seq(File) /\ DOMAIN files = {} /\ Idle
  BY DEF WriterInit, Idle
<1>2. chunk \in [start : Nat, size : Nat]
  BY DEF WriterInit, NoChunk
<1>3. header \in [fmt : Formats, start : Nat] /\ given \in [fmt : Formats, start : Nat]
  BY DEF WriterInit
<1>5. now \in 1 .. MaxTime + 1 /\ (MaxCount # 0 => count < MaxCount)
  BY WriterAssumption DEF WriterInit
<1>6. WriterTypeOK
  BY <1>1, <1>2, <1>3, <1>5 DEF WriterInit, WriterTypeOK
<1>4. QED
  BY <1>1, <1>6 DEF WriterInit, IInv, InHand, OpenIsLast, FilesDated, FilesInOrder,
                    WrittenBefore, FrontWritten

LEMMA TakeStep ==
    ASSUME IInv, NEW fmt \in Formats, NEW n \in ChunkSizes, Take(fmt, n)
    PROVE  IInv'
<1> USE DEF IInv, Take
<1>1. /\ n \in Nat \ {0} /\ now \in Nat \ {0} /\ MaxTime \in Nat
      /\ After(now, n) <= MaxTime /\ After(now, n) \in Nat /\ After(now, n) >= now
      /\ After(now, 0) = now /\ Near(now, now)
  BY WriterAssumption, AfterFacts, NearSelf DEF WriterTypeOK
<1>2. /\ chunk' \in [start : Nat, size : Nat]
      /\ chunk'.start = now /\ chunk'.size = n /\ spectrum' = 0
      /\ now' = After(now, n)
      /\ given' \in [fmt : Formats, start : Nat] /\ given'.start = now
  BY <1>1
<1>3. ~Idle' /\ Idle
  BY <1>1, <1>2 DEF Idle, NoChunk
<1>4. WriterTypeOK'
  BY <1>1, <1>2 DEF WriterTypeOK
<1>5. InHand' /\ FrontWritten'
  BY <1>1, <1>2 DEF InHand, FrontWritten
<1>6. OpenIsLast' /\ FilesDated' /\ FilesInOrder'
  BY DEF OpenIsLast, LastFile, FilesDated, FilesInOrder
<1>7. WrittenBefore'
  BY <1>1, <1>2, <1>3 DEF WrittenBefore, FrontTime
<1>8. QED
  BY <1>4, <1>5, <1>6, <1>7

LEMMA IdleSteps ==
    ASSUME IInv, Flush \/ (\E g \in Gaps : Gap(g)) \/ UNCHANGED writerVars
    PROVE  IInv'
<1> USE DEF IInv
<1>1. CASE Flush
  BY <1>1 DEF Flush, WriterTypeOK, InHand, Idle, OpenIsLast, FilesDated, FilesInOrder,
              WrittenBefore, FrontTime, FrontWritten
<1>2. CASE \E g \in Gaps : Gap(g)
  <2> PICK g \in Gaps : Gap(g)
    BY <1>2
  <2>1. g \in Nat \ {0} /\ now \in Nat \ {0} /\ now' = now + g /\ now + g <= MaxTime
        /\ MaxTime \in Nat
    BY WriterAssumption DEF Gap, WriterTypeOK
  <2>2. UNCHANGED <<files, open, header, count, chunk, spectrum, given, once>> /\ Idle
    BY DEF Gap
  <2>3. WriterTypeOK'
    BY <2>1, <2>2 DEF WriterTypeOK
  <2>4. InHand' /\ OpenIsLast' /\ FilesDated' /\ FilesInOrder' /\ FrontWritten'
    BY <2>2 DEF InHand, Idle, OpenIsLast, LastFile, FilesDated, FilesInOrder, FrontWritten
  <2>5. WrittenBefore'
    <3> SUFFICES ASSUME once, NEW k \in DOMAIN files, NEW i \in DOMAIN files[k].data
                 PROVE  files[k].data[i] < now + g
      BY <2>1, <2>2 DEF WrittenBefore, FrontTime, Idle
    <3>1. files[k].data[i] < now
      BY <2>2 DEF WrittenBefore, FrontTime
    <3>2. files[k].data[i] \in Nat
      BY DataOfFile DEF WriterTypeOK
    <3>3. QED
      BY <2>1, <3>1, <3>2
  <2>6. QED
    BY <2>3, <2>4, <2>5
<1>3. CASE UNCHANGED writerVars
  BY <1>3 DEF writerVars, WriterTypeOK, InHand, Idle, OpenIsLast, LastFile, FilesDated,
              FilesInOrder, WrittenBefore, FrontTime, FrontWritten, InFiles
<1>4. QED
  BY <1>1, <1>2, <1>3

-------------------------------------------------------------------------------
(* WritePart *)

\* What becomes of the chunk: the rest goes on in another file or the chunk is done,
\* and then to its end.
LEMMA ChunkAfter ==
    ASSUME IInv, WritePart
    PROVE  /\ \/ /\ Fills(Left) /\ chunk.size > Written
                 /\ chunk' = chunk /\ spectrum' = Written /\ given' = header'
                 /\ once' = (once /\ spectrum = 0)
                 /\ ~Idle'
              \/ /\ chunk' = NoChunk /\ Idle'
                 /\ UNCHANGED <<spectrum, given, once>>
                 /\ spectrum + Written = chunk.size
           /\ now' = now
           /\ header' = HeaderAfter(Written)
           /\ open' = ~Fills(Left)
           /\ count' = IF Fills(Left) THEN Counted ELSE Counted + Written
           /\ ~Idle
<1>1. /\ IF Fills(Left) /\ Rest(Written)
         THEN /\ spectrum' = Written
              /\ given' = header'
              /\ once' = (once /\ Written = spectrum + Written)
              /\ UNCHANGED chunk
         ELSE /\ chunk' = NoChunk
              /\ UNCHANGED <<spectrum, given, once>>
      /\ now' = now
      /\ header' = HeaderAfter(Written)
      /\ open' = ~Fills(Left)
      /\ count' = IF Fills(Left) THEN Counted ELSE Counted + Written
      /\ ~Idle
  BY DEF WritePart, Left, Written
<1>2. /\ Written \in 1 .. Left /\ Left = chunk.size - spectrum
      /\ chunk.size \in Nat /\ spectrum \in Nat
  BY LeftIsSome DEF Left
<1>3. Rest(Written) <=> chunk.size > Written
  BY DEF Rest
<1>4. ~Fills(Left) => Written = Left
  BY <1>2, LeftIsSome, PartFits DEF IInv, Written
<1>5. CASE Fills(Left) /\ Rest(Written)
  <2>1. Written = spectrum + Written <=> spectrum = 0
    BY <1>2
  <2>2. Idle' <=> Idle
    BY <1>1, <1>5 DEF Idle, NoChunk
  <2>3. QED
    BY <1>1, <1>3, <1>5, <2>1, <2>2
<1>6. CASE ~(Fills(Left) /\ Rest(Written))
  <2>1. spectrum + Written = chunk.size
    BY <1>2, <1>3, <1>4, <1>6
  <2>2. Idle'
    BY <1>1, <1>6 DEF Idle, NoChunk
  <2>3. QED
    BY <1>1, <1>6, <2>1, <2>2
<1>7. QED
  BY <1>5, <1>6

\* The chunk up to the end of the part is in the files.
LEMMA PartIsInFiles ==
    ASSUME IInv, WritePart, NEW i \in 0 .. spectrum + Written - 1
    PROVE  After(chunk.start, i) \in InFiles'
<1>1. /\ spectrum \in Nat /\ Written \in Nat /\ chunk.start \in Nat /\ Before \in Nat
      /\ ~Idle
  BY LeftIsSome DEF WritePart
<1>2. CASE i < spectrum
  <2>1. After(chunk.start, i) \in InFiles
    BY <1>1, <1>2 DEF IInv, FrontWritten
  <2>2. PICK k \in DOMAIN files : \E m \in DOMAIN files[k].data :
            files[k].data[m] = After(chunk.start, i)
    BY <2>1 DEF InFiles
  <2> PICK m \in DOMAIN files[k].data : files[k].data[m] = After(chunk.start, i)
    BY <2>2
  <2>3. k \in DOMAIN files'
    BY FilesAfter
  <2>4. files[k].data \in Seq(Nat)
    BY DataOfFile DEF IInv, WriterTypeOK
  <2>5. m \in DOMAIN files'[k].data /\ files'[k].data[m] = files[k].data[m]
    <3>1. CASE k # Into
      BY <3>1, FilesAfter
    <3>2. CASE k = Into
      <4>1. Continues(given) /\ Before = Len(files[k].data)
        <5>1. files \in Seq(File)
          BY DEF IInv, WriterTypeOK
        <5>2. k <= LastFile
          BY <5>1 DEF LastFile
        <5>3. QED
          BY <3>2, <5>1, <5>2 DEF Into, Before, LastFile
      <4>2. m \in 1 .. Before
        BY <2>4, <4>1
      <4>3. files'[k].data[m] = files[k].data[m]
        BY <3>2, <4>2, FilesAfter
      <4>4. files'[k].data \in Seq(Nat) /\ Len(files'[k].data) = Before + Written
        BY <2>3, <3>2, FilesAfter, DataOfFile
      <4>5. m \in DOMAIN files'[k].data
        BY <1>1, <4>2, <4>4
      <4>6. QED
        BY <4>3, <4>5
    <3>3. QED
      BY <3>1, <3>2
  <2>6. QED
    BY <2>3, <2>5 DEF InFiles
<1>3. CASE i >= spectrum
  <2> DEFINE j == i - spectrum + 1
  <2>1. j \in 1 .. Written /\ spectrum + j - 1 = i
    BY <1>1, <1>3
  <2> HIDE DEF j
  <2>2. files'[Into].data[Before + j] = After(chunk.start, i)
    BY <2>1, FilesAfter
  <2>3. /\ Into \in DOMAIN files' /\ files'[Into].data \in Seq(Nat)
        /\ Len(files'[Into].data) = Before + Written
    <3>1. files' \in Seq(File) /\ Into \in DOMAIN files'
      BY FilesAfter
    <3>2. QED
      BY <3>1, DataOfFile, FilesAfter
  <2>4. Before + j \in DOMAIN files'[Into].data
    BY <1>1, <2>1, <2>3
  <2>5. QED
    BY <2>2, <2>3, <2>4 DEF InFiles
<1>4. QED
  BY <1>1, <1>2, <1>3

LEMMA WritePartTypes ==
    ASSUME IInv, WritePart
    PROVE  WriterTypeOK'
<1> USE DEF IInv
<1>1. /\ Written \in Nat /\ Counted \in Nat /\ Before = Counted /\ Into \in Nat
      /\ MaxCount # 0 => Counted < MaxCount /\ Counted + Written <= MaxCount
      /\ ~Fills(Left) => (MaxCount # 0 => Counted + Written < MaxCount)
  BY LeftIsSome, PartFits DEF Written
<1>2. files' \in Seq(File)
  BY FilesAfter
<1>3. MaxCount # 0 => \A k \in DOMAIN files' : Len(files'[k].data) <= MaxCount
  <2> SUFFICES ASSUME MaxCount # 0, NEW k \in DOMAIN files'
               PROVE  Len(files'[k].data) <= MaxCount
    OBVIOUS
  <2>1. CASE k = Into
    <3>1. Len(files'[k].data) = Before + Written
      BY <2>1, FilesAfter
    <3>2. QED
      BY <1>1, <3>1
  <2>2. CASE k # Into
    <3>1. /\ DOMAIN files' = DOMAIN files \cup {Into}
          /\ \A m \in DOMAIN files : m # Into => files'[m] = files[m]
      BY FilesAfter
    <3>2. k \in DOMAIN files /\ files'[k] = files[k]
      BY <2>2, <3>1
    <3>3. QED
      BY <3>2 DEF WriterTypeOK
  <2>3. QED
    BY <2>1, <2>2
<1>4. /\ given.start \in Nat /\ given.fmt \in Formats
      /\ given \in [fmt : Formats, start : Nat]
  BY DEF WriterTypeOK
<1>5. header' \in [fmt : Formats, start : Nat]
  <2>1. header.start \in Nat /\ header.fmt \in Formats
    BY DEF WriterTypeOK
  <2>2. After(header.start, Written) \in Nat /\ After(given.start, Written) \in Nat
    BY <1>1, <1>4, <2>1, AfterFacts
  <2>3. header' = HeaderAfter(Written)
    BY ChunkAfter
  <2>4. QED
    BY <1>4, <2>1, <2>2, <2>3 DEF HeaderAfter, Moved
<1>6. given' \in [fmt : Formats, start : Nat] /\ spectrum' \in Nat
  BY <1>1, <1>4, <1>5, ChunkAfter DEF WriterTypeOK
<1>7. chunk' \in [start : Nat, size : Nat]
  BY ChunkAfter DEF WriterTypeOK, NoChunk
<1>8. open' \in BOOLEAN
  BY ChunkAfter DEF Fills
<1>9. count' \in Nat /\ (MaxCount # 0 => count' < MaxCount)
  BY <1>1, ChunkAfter
<1>10. once' \in BOOLEAN
  BY ChunkAfter DEF WriterTypeOK
<1>11. now' \in 1 .. MaxTime + 1
  BY ChunkAfter DEF WriterTypeOK
<1>12. QED
  BY <1>2, <1>3, <1>5, <1>6, <1>7, <1>8, <1>9, <1>10, <1>11 DEF WriterTypeOK

\* The file goes on from where its header says, and the header kept goes on
\* with it; what is written first is near there.
LEMMA HeaderGoesOn ==
    ASSUME IInv, WritePart
    PROVE  /\ files'[Into].start \in Nat
           /\ header'.fmt = given.fmt
           /\ given.fmt \in Timed =>
                  /\ header'.start = After(files'[Into].start, Before + Written)
                  /\ once => Near(After(chunk.start, spectrum), After(files'[Into].start, Before))
                  /\ once /\ spectrum = 0 => Near(header'.start, After(chunk.start, Written))
<1> USE DEF IInv
<1>1. /\ chunk.start \in Nat /\ spectrum \in Nat /\ Written \in Nat
      /\ Before \in Nat /\ Before = Counted /\ Into \in Nat
      /\ given.start \in Nat /\ header.start \in Nat /\ ~Idle
  BY LeftIsSome, ChunkAfter DEF WriterTypeOK
<1>2. files' \in Seq(File) /\ Into \in DOMAIN files'
  BY FilesAfter
<1>3. files'[Into].start \in Nat
  BY <1>2, DataOfFile
<1>4. header' = HeaderAfter(Written)
  BY ChunkAfter
<1>5. /\ spectrum = 0 => given.start = chunk.start
      /\ spectrum # 0 => ~open
      /\ once /\ given.fmt \in Timed => Near(given.start, After(chunk.start, spectrum))
  BY <1>1 DEF InHand
<1>6. CASE Continues(given)
  <2>1. spectrum = 0 /\ given.start = chunk.start /\ header.fmt = given.fmt
    BY <1>5, <1>6 DEF Continues
  <2>2. header' = Moved(header, Written)
    BY <1>4, <1>6 DEF HeaderAfter
  <2>3. files'[Into].start = files[LastFile].start
    BY <1>6, FilesAfter
  <2> SUFFICES ASSUME given.fmt \in Timed
               PROVE  /\ header'.start = After(files'[Into].start, Before + Written)
                      /\ Near(After(chunk.start, spectrum), After(files'[Into].start, Before))
                      /\ Near(header'.start, After(chunk.start, Written))
    BY <1>3, <2>1, <2>2 DEF Moved
  <2>4. Before = count
    BY <1>1, <1>6 DEF Counted
  <2>5. header.start = After(files'[Into].start, Before)
    BY <1>6, <2>1, <2>3, <2>4 DEF Continues, OpenIsLast
  <2>6. header'.start = After(header.start, Written)
    BY <2>1, <2>2 DEF Moved
  <2>7. header'.start = After(files'[Into].start, Before + Written)
    <3>1. After(After(files'[Into].start, Before), Written) = After(files'[Into].start, Before + Written)
      BY <1>1, <1>3, AfterAfter
    <3>2. QED
      BY <2>5, <2>6, <3>1
  <2>8. Near(given.start, header.start)
    BY <1>6 DEF Continues
  <2>9. After(chunk.start, spectrum) = given.start
    BY <1>1, <2>1, AfterFacts
  <2>10. Near(header.start, given.start)
    BY <1>1, <2>8, NearAfter
  <2>11. Near(After(header.start, Written), After(given.start, Written))
    BY <1>1, <2>10, NearAfter
  <2>12. QED
    BY <2>1, <2>5, <2>6, <2>7, <2>8, <2>9, <2>11
<1>7. CASE ~Continues(given)
  <2>1. header' = Moved(given, Written)
    BY <1>4, <1>7 DEF HeaderAfter
  <2>2. files'[Into].start = given.start /\ Before = 0
    BY <1>7, FilesAfter DEF Before
  <2> SUFFICES ASSUME given.fmt \in Timed
               PROVE  /\ header'.start = After(files'[Into].start, Before + Written)
                      /\ once => Near(After(chunk.start, spectrum), After(files'[Into].start, Before))
                      /\ once /\ spectrum = 0 => Near(header'.start, After(chunk.start, Written))
    BY <1>3, <2>1 DEF Moved
  <2>3. header'.start = After(given.start, Written)
    BY <2>1 DEF Moved
  <2>4. Before + Written = Written
    BY <1>1, <2>2
  <2>5. After(chunk.start, spectrum) \in Nat /\ After(given.start, Written) \in Nat
    BY <1>1, AfterFacts
  <2>6. After(files'[Into].start, Before) = given.start
    BY <1>1, <2>2, AfterFacts
  <2>7. once => Near(After(chunk.start, spectrum), given.start)
    BY <1>1, <1>5, <2>5, NearAfter
  <2>8. spectrum = 0 => Near(header'.start, After(chunk.start, Written))
    BY <1>5, <2>3, <2>5, NearSelf
  <2>9. QED
    BY <2>2, <2>3, <2>4, <2>6, <2>7, <2>8
<1>8. QED
  BY <1>6, <1>7

LEMMA WritePartStep ==
    ASSUME IInv, WritePart
    PROVE  IInv'
<1> USE DEF IInv
<1>1. /\ chunk.start \in Nat /\ chunk.size \in Nat /\ spectrum \in Nat
      /\ Written \in Nat \ {0} /\ Before \in Nat /\ Before = Counted /\ Into \in Nat \ {0}
      /\ now \in Nat /\ After(chunk.start, chunk.size) <= now
      /\ spectrum < chunk.size
      /\ Continues(given) => LastFile \in DOMAIN files
  <2>1. After(chunk.start, chunk.size) <= now /\ spectrum < chunk.size
    BY ChunkAfter DEF InHand
  <2>2. now \in Nat
    BY DEF WriterTypeOK
  <2>3. QED
    BY <2>1, <2>2, LeftIsSome
<1>2. once' => once
  BY ChunkAfter
<1>3. files \in Seq(File) /\ files' \in Seq(File) /\ DOMAIN files = 1 .. LastFile /\ LastFile \in Nat
  BY FilesAfter DEF WriterTypeOK, LastFile
<1>4. InHand'
  <2>1. CASE Idle'
    BY <2>1 DEF InHand
  <2>2. CASE ~Idle'
    <3>1. /\ chunk.size > Written /\ chunk' = chunk /\ spectrum' = Written
          /\ given' = header' /\ once' = (once /\ spectrum = 0) /\ now' = now
          /\ open' = FALSE
      BY <2>2, ChunkAfter
    <3>2. once' /\ header'.fmt \in Timed => Near(header'.start, After(chunk.start, Written))
      BY <3>1, HeaderGoesOn
    <3>3. QED
      BY <1>1, <3>1, <3>2 DEF InHand
  <2>3. QED
    BY <2>1, <2>2
<1>5. OpenIsLast'
  <2> SUFFICES ASSUME open'
               PROVE  /\ Len(files') # 0
                      /\ count' = Len(files'[Len(files')].data)
                      /\ header'.fmt = files'[Len(files')].fmt
                      /\ header'.fmt \in Timed =>
                             header'.start = After(files'[Len(files')].start, count')
    BY DEF OpenIsLast, LastFile
  <2>1. /\ Len(files') = Into /\ Len(files'[Into].data) = Before + Written
        /\ files'[Into].fmt = given.fmt
    BY FilesAfter
  <2>2. count' = Before + Written
    <3>1. ~Fills(Left)
      BY ChunkAfter
    <3>2. QED
      BY <1>1, <3>1, ChunkAfter
  <2>3. QED
    BY <1>1, <2>1, <2>2, HeaderGoesOn
<1>6. FilesDated'
  <2> SUFFICES ASSUME once', NEW k \in DOMAIN files', files'[k].fmt \in Timed,
                      NEW i \in DOMAIN files'[k].data
               PROVE  Near(files'[k].data[i], After(files'[k].start, i - 1))
    BY DEF FilesDated
  <2>1. CASE /\ k \in DOMAIN files /\ i \in DOMAIN files[k].data
             /\ files'[k].data[i] = files[k].data[i]
    <3>1. files'[k].start = files[k].start /\ files'[k].fmt = files[k].fmt
      <4>1. CASE k # Into
        BY <2>1, <4>1, FilesAfter
      <4>2. CASE k = Into
        <5>1. Continues(given) /\ k = LastFile
          BY <1>3, <2>1, <4>2 DEF Into
        <5>2. files[LastFile].fmt = given.fmt
          BY <5>1 DEF Continues, OpenIsLast
        <5>3. QED
          BY <4>2, <5>1, <5>2, FilesAfter
      <4>3. QED
        BY <4>1, <4>2
    <3>2. QED
      BY <1>2, <2>1, <3>1 DEF FilesDated
  <2>2. CASE \E j \in 1 .. Written :
                 /\ k = Into /\ i = Before + j
                 /\ files'[k].data[i] = After(chunk.start, spectrum + j - 1)
    <3> PICK j \in 1 .. Written :
                 /\ k = Into /\ i = Before + j
                 /\ files'[k].data[i] = After(chunk.start, spectrum + j - 1)
      BY <2>2
    <3>1. /\ files'[Into].start \in Nat
          /\ Near(After(chunk.start, spectrum), After(files'[Into].start, Before))
      BY <1>2, FilesAfter, HeaderGoesOn
    <3> DEFINE st == files'[Into].start
               m == j - 1
    <3>2. /\ m \in Nat /\ spectrum + j - 1 = spectrum + m /\ i - 1 = Before + m
      BY <1>1
    <3> HIDE DEF m, st
    <3>3. st \in Nat /\ After(chunk.start, spectrum) \in Nat /\ After(st, Before) \in Nat
      BY <1>1, <3>1, AfterFacts DEF st
    <3>4. Near(After(After(chunk.start, spectrum), m), After(After(st, Before), m))
      BY <3>1, <3>2, <3>3, NearAfter DEF st
    <3>5. /\ After(After(chunk.start, spectrum), m) = After(chunk.start, spectrum + m)
          /\ After(After(st, Before), m) = After(st, Before + m)
      <4>1. m \in Nat /\ chunk.start \in Nat /\ spectrum \in Nat
        BY <1>1, <3>2
      <4>2. After(After(chunk.start, spectrum), m) = After(chunk.start, spectrum + m)
        BY <4>1, AfterAfter
      <4>3. After(After(st, Before), m) = After(st, Before + m)
        BY <1>1, <3>3, <4>1, AfterAfter
      <4>4. QED
        BY <4>2, <4>3
    <3>6. QED
      BY <3>2, <3>4, <3>5 DEF st
  <2>3. QED
    BY <2>1, <2>2, OldOrNew
<1>7. \A k \in DOMAIN files : \A i \in DOMAIN files[k].data :
          /\ files[k].data[i] \in Nat
          /\ once => files[k].data[i] < After(chunk.start, spectrum)
  BY <1>3, DataOfFile, ChunkAfter DEF WrittenBefore, FrontTime
<1>8. FilesInOrder'
  <2> SUFFICES ASSUME once', NEW k \in DOMAIN files', NEW m \in DOMAIN files', k < m,
                      NEW i \in DOMAIN files'[k].data, NEW j \in DOMAIN files'[m].data
               PROVE  files'[k].data[i] < files'[m].data[j]
    BY DEF FilesInOrder
  <2>1. k # Into
    <3>1. DOMAIN files' = 1 .. Into
      BY <1>3, FilesAfter
    <3>2. QED
      BY <1>1, <3>1
  <2>2. /\ k \in DOMAIN files /\ i \in DOMAIN files[k].data
        /\ files'[k].data[i] = files[k].data[i]
    BY <2>1, OldOrNew
  <2>3. CASE /\ m \in DOMAIN files /\ j \in DOMAIN files[m].data
             /\ files'[m].data[j] = files[m].data[j]
    BY <1>2, <2>2, <2>3 DEF FilesInOrder
  <2>4. CASE \E l \in 1 .. Written :
                 /\ m = Into /\ j = Before + l
                 /\ files'[m].data[j] = After(chunk.start, spectrum + l - 1)
    <3> PICK l \in 1 .. Written : files'[m].data[j] = After(chunk.start, spectrum + l - 1)
      BY <2>4
    <3>1. files[k].data[i] < After(chunk.start, spectrum) /\ files[k].data[i] \in Nat
      BY <1>2, <1>7, <2>2
    <3>2. /\ After(chunk.start, spectrum) <= After(chunk.start, spectrum + l - 1)
          /\ After(chunk.start, spectrum) \in Nat /\ After(chunk.start, spectrum + l - 1) \in Nat
      <4>1. l \in Nat \ {0} /\ spectrum + l - 1 \in Nat
        BY <1>1
      <4>2. After(chunk.start, spectrum) <= After(chunk.start, spectrum + l - 1)
        BY <1>1, <4>1, AfterNotLess
      <4>3. QED
        BY <1>1, <4>1, <4>2, AfterFacts
    <3>3. QED
      BY <2>2, <3>1, <3>2
  <2>5. QED
    BY <2>3, <2>4, OldOrNew
<1>9. WrittenBefore'
  <2> SUFFICES ASSUME once', NEW k \in DOMAIN files', NEW i \in DOMAIN files'[k].data
               PROVE  files'[k].data[i] < FrontTime'
    BY DEF WrittenBefore
  <2>1. files'[k].data[i] < After(chunk.start, spectrum + Written) /\ files'[k].data[i] \in Nat
    <3>1. files'[k].data[i] \in Nat
      BY <1>3, DataOfFile
    <3>2. CASE /\ k \in DOMAIN files /\ i \in DOMAIN files[k].data
               /\ files'[k].data[i] = files[k].data[i]
      <4>1. files[k].data[i] < After(chunk.start, spectrum)
        BY <1>2, <1>7, <3>2
      <4>2. /\ After(chunk.start, spectrum) < After(chunk.start, spectrum + Written)
            /\ After(chunk.start, spectrum) \in Nat /\ After(chunk.start, spectrum + Written) \in Nat
        <5>1. spectrum + Written \in Nat /\ spectrum < spectrum + Written
          BY <1>1
        <5>2. QED
          BY <1>1, <5>1, AfterFacts, AfterLess
      <4>3. QED
        BY <3>1, <3>2, <4>1, <4>2
    <3>3. CASE \E j \in 1 .. Written :
                   files'[k].data[i] = After(chunk.start, spectrum + j - 1)
      <4> PICK j \in 1 .. Written : files'[k].data[i] = After(chunk.start, spectrum + j - 1)
        BY <3>3
      <4>1. spectrum + j - 1 \in Nat /\ spectrum + j - 1 < spectrum + Written /\ spectrum + Written \in Nat
        BY <1>1
      <4>2. QED
        BY <1>1, <3>1, <4>1, AfterLess
    <3>4. QED
      BY <3>1, <3>2, <3>3, OldOrNew
  <2>2. FrontTime' >= After(chunk.start, spectrum + Written) /\ FrontTime' \in Nat
    <3>1. CASE Idle'
      <4>1. FrontTime' = now /\ spectrum + Written = chunk.size
        BY <3>1, ChunkAfter DEF FrontTime
      <4>2. After(chunk.start, spectrum + Written) <= now
        BY <1>1, <4>1
      <4>3. After(chunk.start, spectrum + Written) \in Nat
        <5>1. spectrum + Written \in Nat
          BY <1>1
        <5>2. QED
          BY <1>1, <5>1, AfterFacts
      <4>4. QED
        BY <1>1, <4>1, <4>2, <4>3
    <3>2. CASE ~Idle'
      <4>1. FrontTime' = After(chunk.start, Written) /\ spectrum = 0
        BY <3>2, ChunkAfter DEF FrontTime
      <4>2. spectrum + Written = Written
        BY <1>1, <4>1
      <4>3. After(chunk.start, Written) \in Nat
        BY <1>1, AfterFacts
      <4>4. QED
        BY <4>1, <4>2, <4>3
    <3>3. QED
      BY <3>1, <3>2
  <2>3. After(chunk.start, spectrum + Written) \in Nat
    <3>1. spectrum + Written \in Nat
      BY <1>1
    <3>2. QED
      BY <1>1, <3>1, AfterFacts
  <2>4. QED
    BY <2>1, <2>2, <2>3
<1>10. FrontWritten'
  <2> SUFFICES ASSUME ~Idle', NEW i \in 0 .. spectrum' - 1
               PROVE  After(chunk'.start, i) \in InFiles'
    BY DEF FrontWritten
  <2>1. spectrum' = Written /\ chunk' = chunk
    BY ChunkAfter
  <2>2. i \in 0 .. spectrum + Written - 1
    BY <1>1, <2>1
  <2>3. QED
    BY <2>1, <2>2, PartIsInFiles
<1>11. QED
  BY <1>4, <1>5, <1>6, <1>8, <1>9, <1>10, WritePartTypes

-------------------------------------------------------------------------------
LEMMA StepIInv == IInv /\ [WriterStep]_writerVars => IInv'
<1> SUFFICES ASSUME IInv, [WriterStep]_writerVars PROVE IInv'
  OBVIOUS
<1>1. CASE \E f \in Formats, n \in ChunkSizes : Take(f, n)
  BY <1>1, TakeStep
<1>2. CASE WritePart
  BY <1>2, WritePartStep
<1>3. CASE Flush \/ (\E g \in Gaps : Gap(g)) \/ UNCHANGED writerVars
  BY <1>3, IdleSteps
<1>4. QED
  BY <1>1, <1>2, <1>3 DEF WriterStep

THEOREM Inductive == WriterSpec => []IInv
<1>1. QED
  BY InitIInv, StepIInv, PTL DEF WriterSpec

\* No file ever has more spectra than the configuration allows, whatever the sizes of
\* the chunks that operator<< is given.
THEOREM WithinLimit == WriterSpec => []WriterTypeOK
<1>1. IInv => WriterTypeOK
  BY DEF IInv
<1>2. QED
  BY Inductive, <1>1, PTL

\* The header file_header() writes dates every spectrum of its file to less than half
\* an interval, if the interval is set, until file_write() repeats spectra.
THEOREM Dated == WriterSpec => []FilesDated
<1>1. IInv => FilesDated
  BY DEF IInv
<1>2. QED
  BY Inductive, <1>1, PTL

\* Until then no spectrum is in two files and they are in the order of observation.
THEOREM Ordered == WriterSpec => []FilesInOrder
<1>1. IInv => FilesInOrder
  BY DEF IInv
<1>2. QED
  BY Inductive, <1>1, PTL

\* operator<< returns only when every spectrum of the chunk is in the files.
THEOREM Complete == WriterSpec => ChunkWritten
<1> DEFINE Done == chunk # NoChunk /\ chunk' = NoChunk =>
                       \A i \in 0 .. chunk.size - 1 : After(chunk.start, i) \in InFiles'
<1>1. IInv /\ [WriterStep]_writerVars => [Done]_writerVars
  <2> SUFFICES ASSUME IInv, [WriterStep]_writerVars, chunk # NoChunk, chunk' = NoChunk,
                      NEW i \in 0 .. chunk.size - 1
               PROVE  After(chunk.start, i) \in InFiles'
    OBVIOUS
  <2>1. WritePart
    BY DEF WriterStep, Take, Flush, Gap, Idle, writerVars
  <2>2. spectrum + Written = chunk.size
    BY <2>1, ChunkAfter DEF Idle
  <2>3. i \in 0 .. spectrum + Written - 1
    BY <2>1, <2>2, LeftIsSome
  <2>4. QED
    BY <2>1, <2>3, PartIsInFiles
<1>2. QED
  BY Inductive, <1>1, PTL DEF ChunkWritten, WriterSpec

-------------------------------------------------------------------------------
(* How a chunk is spread over files *)

\* A remainder begins in a new file, at most a file's length into the chunk.
Remainder ==
    ~Idle /\ spectrum # 0 => ~open /\ MaxCount # 0 /\ spectrum <= MaxCount

\* WritePart with the sizes spelt out
LEMMA PartSizes ==
    ASSUME IInv, WritePart
    PROVE  /\ chunk.size \in Nat /\ spectrum \in 0 .. chunk.size - 1
           /\ Left = chunk.size - spectrum
           /\ Fills(Left) <=> MaxCount # 0 /\ Left >= MaxCount - Counted
           /\ Written = IF Fills(Left) THEN MaxCount - Counted ELSE Left
           /\ Counted \in Nat /\ (MaxCount # 0 => Counted < MaxCount)
           /\ ~open => Counted = 0
<1>1. chunk.size \in Nat /\ spectrum \in 0 .. chunk.size - 1
  BY DEF IInv, WriterTypeOK, InHand, WritePart
<1>2. Counted \in Nat /\ (MaxCount # 0 => Counted < MaxCount)
  BY WriterAssumption DEF Counted, IInv, WriterTypeOK
<1>3. ~open => Counted = 0
  BY DEF Counted, Continues
<1>4. QED
  BY <1>1, <1>2, <1>3 DEF Left, Written, Part, Fills, Room

LEMMA RemainderStep == IInv /\ Remainder /\ [WriterStep]_writerVars => Remainder'
<1> SUFFICES ASSUME IInv, Remainder, [WriterStep]_writerVars PROVE Remainder'
  OBVIOUS
<1>1. CASE WritePart
  <2> SUFFICES ASSUME ~Idle' PROVE ~open' /\ MaxCount # 0 /\ spectrum' <= MaxCount
    BY DEF Remainder
  <2>1. Fills(Left) /\ spectrum' = Written /\ open' = ~Fills(Left)
    BY <1>1, ChunkAfter
  <2>2. ~open'
    BY <2>1
  <2>3. MaxCount # 0 /\ Written <= MaxCount
    BY <1>1, <2>1, PartSizes, WriterAssumption
  <2>4. QED
    BY <2>1, <2>2, <2>3
<1>2. CASE \E f \in Formats, n \in ChunkSizes : Take(f, n)
  BY <1>2 DEF Take, Remainder
<1>3. CASE Flush \/ (\E g \in Gaps : Gap(g))
  BY <1>3 DEF Flush, Gap, Remainder, Idle
<1>4. CASE UNCHANGED writerVars
  BY <1>4 DEF writerVars, Remainder, Idle
<1>5. QED
  BY <1>1, <1>2, <1>3, <1>4 DEF WriterStep

\* Whatever was open when the chunk came, file_write() is called again only for a file
\* that is not begun yet, and at a place within the first file's length of the chunk.
THEOREM Spread == WriterSpec => [](IInv /\ Remainder)
<1>1. WriterInit => Remainder
  BY DEF WriterInit, Remainder, Idle
<1>2. QED
  BY InitIInv, StepIInv, <1>1, RemainderStep, PTL DEF WriterSpec

\* A chunk smaller than two files: every call of file_write() that does not end it
\* begins further on in it, so the calls come to an end.
PartsAdvance ==
    [][WritePart /\ (MaxCount = 0 \/ chunk.size < 2 * MaxCount) =>
          Idle' \/ spectrum' \in spectrum + 1 .. chunk.size - 1]_writerVars

\* A chunk of two files or more is never done: from the third file on its remainder
\* begins at the same place every time.
NeverDone ==
    [][MaxCount # 0 /\ chunk.size >= 2 * MaxCount => chunk' = chunk]_writerVars

\* Spectra are written a second time only for a chunk that is larger than a file.
RepeatsOnlyLargeChunks ==
    [][once /\ ~once' => MaxCount # 0 /\ chunk.size > MaxCount]_writerVars

\* file_write() calls itself a bounded number of times for such a chunk.
THEOREM PartsEnd == WriterSpec => PartsAdvance
<1> DEFINE A == WritePart /\ (MaxCount = 0 \/ chunk.size < 2 * MaxCount) =>
                    Idle' \/ spectrum' \in spectrum + 1 .. chunk.size - 1
<1>1. IInv /\ Remainder /\ [WriterStep]_writerVars => [A]_writerVars
  <2> SUFFICES ASSUME IInv, Remainder, WritePart, ~Idle',
                      MaxCount = 0 \/ chunk.size < 2 * MaxCount
               PROVE  spectrum' \in spectrum + 1 .. chunk.size - 1
    OBVIOUS
  <2>1. Fills(Left) /\ chunk.size > Written /\ spectrum' = Written /\ ~Idle
    BY ChunkAfter
  <2>2. spectrum # 0 => Counted = 0 /\ spectrum <= MaxCount
    BY <2>1, PartSizes DEF Remainder
  <2>3. QED
    BY <2>1, <2>2, PartSizes, WriterAssumption
<1>2. QED
  BY Spread, <1>1, PTL DEF PartsAdvance, WriterSpec

\* operator<< does not return from a chunk of two files or more.
THEOREM LargeChunkNeverDone == WriterSpec => NeverDone
<1> DEFINE A == MaxCount # 0 /\ chunk.size >= 2 * MaxCount => chunk' = chunk
<1>1. IInv /\ Remainder /\ [WriterStep]_writerVars => [A]_writerVars
  <2> SUFFICES ASSUME IInv, Remainder, [WriterStep]_writerVars,
                      MaxCount # 0, chunk.size >= 2 * MaxCount
               PROVE  chunk' = chunk
    OBVIOUS
  <2>1. ~Idle
    BY WriterAssumption DEF Idle, NoChunk
  <2>2. CASE WritePart
    <3>1. Fills(Left) /\ Written <= MaxCount
      <4>1. spectrum <= MaxCount /\ (spectrum # 0 => Counted = 0)
        BY <2>1, <2>2, PartSizes, WriterAssumption DEF Remainder
      <4>2. QED
        BY <2>2, <4>1, PartSizes, WriterAssumption
    <3>2. chunk.size > Written
      BY <2>2, <3>1, PartSizes, WriterAssumption
    <3>3. WritePart => IF Fills(Left) /\ Rest(Written) THEN chunk' = chunk ELSE TRUE
      BY DEF WritePart, Left, Written
    <3>4. QED
      BY <2>2, <3>1, <3>2, <3>3 DEF Rest
  <2>3. CASE UNCHANGED writerVars
    BY <2>3 DEF writerVars
  <2>4. QED
    BY <2>1, <2>2, <2>3 DEF WriterStep, Take, Flush, Gap
<1>2. QED
  BY Spread, <1>1, PTL DEF NeverDone, WriterSpec

\* A part that begins at another place than the parts before end is the third, at least.
LEMMA RepeatNeedsSize ==
    ASSUME IInv, Remainder, [WriterStep]_writerVars, once, ~once'
    PROVE  MaxCount # 0 /\ chunk.size > MaxCount
<1>1. WritePart
  BY DEF WriterStep, Take, Flush, Gap, writerVars
<1>2. Fills(Left) /\ spectrum # 0 /\ ~Idle
  BY <1>1, ChunkAfter
<1>3. ~open /\ MaxCount # 0
  BY <1>2 DEF Remainder
<1>4. QED
  BY <1>1, <1>2, <1>3, PartSizes, WriterAssumption

\* once, under which Dated and Ordered are stated, is lost only to a chunk larger than
\* a file.
THEOREM RepeatsNeedLargeChunk == WriterSpec => RepeatsOnlyLargeChunks
<1> DEFINE A == once /\ ~once' => MaxCount # 0 /\ chunk.size > MaxCount
<1>1. IInv /\ Remainder /\ [WriterStep]_writerVars => [A]_writerVars
  BY RepeatNeedsSize
<1>2. QED
  BY Spread, <1>1, PTL DEF RepeatsOnlyLargeChunks, WriterSpec

\* The dates and the order of the files, whether spectra were repeated or not
AllDated ==
    \A k \in DOMAIN files : files[k].fmt \in Timed =>
        \A i \in DOMAIN files[k].data :
            Near(files[k].data[i], After(files[k].start, i - 1))

AllInOrder ==
    \A k, m \in DOMAIN files : k < m =>
        \A i \in DOMAIN files[k].data, j \in DOMAIN files[m].data :
            files[k].data[i] < files[m].data[j]

\* When no chunk is larger than a file the writer repeats nothing: the files are in
\* order, and every spectrum with an interval is within half of it of its date.
THEOREM SmallChunksAreSafe ==
    ASSUME MaxCount = 0 \/ \A n \in ChunkSizes : n <= MaxCount
    PROVE  WriterSpec => [](AllDated /\ AllInOrder)
<1> DEFINE Small == MaxCount = 0 \/ chunk.size <= MaxCount
<1>1. WriterInit => once /\ Small
  BY WriterAssumption DEF WriterInit, NoChunk
<1>2. IInv /\ Remainder /\ once /\ Small /\ [WriterStep]_writerVars => (once /\ Small)'
  <2> SUFFICES ASSUME IInv, Remainder, once, Small, [WriterStep]_writerVars
               PROVE  (once /\ Small)'
    OBVIOUS
  <2>1. Small'
    <3>1. CASE \E f \in Formats, n \in ChunkSizes : Take(f, n)
      <4>1. PICK n \in ChunkSizes : chunk' = [start |-> now, size |-> n]
        BY <3>1 DEF Take
      <4>2. chunk'.size = n
        BY <4>1
      <4>3. QED
        BY <4>2
    <3>2. CASE WritePart
      <4>1. chunk' = chunk \/ chunk' = NoChunk
        BY <3>2 DEF WritePart
      <4>2. NoChunk.size <= MaxCount
        BY WriterAssumption DEF NoChunk
      <4>3. QED
        BY <4>1, <4>2
    <3>3. CASE Flush \/ (\E g \in Gaps : Gap(g)) \/ UNCHANGED writerVars
      <4>1. chunk' = chunk
        BY <3>3 DEF Flush, Gap, writerVars
      <4>2. QED
        BY <4>1
    <3>4. QED
      BY <3>1, <3>2, <3>3 DEF WriterStep
  <2>2. once'
    <3> SUFFICES ASSUME ~once' PROVE FALSE
      BY DEF IInv, WriterTypeOK
    <3>1. MaxCount # 0 /\ chunk.size > MaxCount
      BY RepeatNeedsSize
    <3>2. chunk.size \in Nat
      BY DEF IInv, WriterTypeOK
    <3>3. QED
      BY <3>1, <3>2, WriterAssumption
  <2>3. QED
    BY <2>1, <2>2
<1>3. IInv /\ once => AllDated /\ AllInOrder
  BY DEF IInv, FilesDated, FilesInOrder, AllDated, AllInOrder
<1>4. QED
  BY Spread, <1>1, <1>2, <1>3, PTL DEF WriterSpec
===============================================================================
