---------------------------- MODULE BufferingProofs ----------------------------
(***************************************************************************)
(* Safety of Buffering for all formats, chunk sizes, gaps and overlaps.    *)
(*                                                                         *)
(* First what the operations on one buffer return, then that every step    *)
(* keeps BufferInv, then the properties, which follow from it.             *)
(***************************************************************************)
EXTENDS Buffering, TLAPS

-------------------------------------------------------------------------------
(* The operations on one buffer *)

\* A new buffer holds nothing.
LEMMA NewFields ==
    ASSUME NEW cap \in Nat, NEW chan \in Nat
    PROVE  /\ IsBuffer(NewBuffer(cap, chan))
           /\ NewBuffer(cap, chan).time = 0
           /\ NewBuffer(cap, chan).cap = cap
  <1> SUFFICES ASSUME NEW b, b = NewBuffer(cap, chan)
               PROVE  IsBuffer(b) /\ b.time = 0 /\ b.cap = cap
    OBVIOUS
  <1> DEFINE d == [i \in 0 .. cap - 1 |-> Blank]
  <1>1. d \in [0 .. cap - 1 -> Nat]
    BY DEF Blank
  <1>2. b = [cap |-> cap, chan |-> chan, time |-> 0, start |-> 0, data |-> d]
    BY DEF NewBuffer
  <1> HIDE DEF d
  <1>3. /\ b.time = 0 /\ b.cap = cap /\ b.chan = chan /\ b.data = d
        /\ b \in [cap : Nat, chan : Nat, time : Nat, start : Nat, data : {d}]
    BY <1>2
  <1>4. QED  BY <1>1, <1>3 DEF IsBuffer, d

\* Other metadata change nothing else.
LEMMA StampedFields ==
    ASSUME NEW b, IsBuffer(b), NEW t \in Nat
    PROVE  /\ IsBuffer(Stamped(b, t))
           /\ Stamped(b, t).time = b.time
           /\ Stamped(b, t).cap = b.cap
  <1> SUFFICES ASSUME NEW s, s = Stamped(b, t)
               PROVE  IsBuffer(s) /\ s.time = b.time /\ s.cap = b.cap
    OBVIOUS
  <1> DEFINE d == b.data
  <1>1. b \in [cap : Nat, chan : Nat, time : Nat, start : Nat, data : {d}]
    BY DEF IsBuffer
  <1>2. s = [b EXCEPT !.start = t]
    BY DEF Stamped
  <1>3. s.time = b.time /\ s.cap = b.cap /\ s.data = b.data
    BY <1>1, <1>2
  <1> HIDE DEF d
  <1>4. s \in [cap : Nat, chan : Nat, time : Nat, start : Nat, data : {d}]
    BY <1>1, <1>2
  <1>5. QED  BY <1>3, <1>4 DEF IsBuffer, d

\* A resized buffer holds nothing either.
LEMMA ResizeFields ==
    ASSUME NEW b, IsBuffer(b), NEW cap \in Nat, NEW chan \in Nat
    PROVE  /\ IsBuffer(Resize(b, cap, chan))
           /\ Resize(b, cap, chan).time = 0
           /\ Resize(b, cap, chan).cap = cap
  <1>1. b.start \in Nat
    BY DEF IsBuffer
  <1> DEFINE n == NewBuffer(cap, chan)
  <1>2. IsBuffer(n) /\ n.time = 0 /\ n.cap = cap
    BY NewFields
  <1>3. Resize(b, cap, chan) = Stamped(n, b.start)
    BY DEF Resize
  <1> HIDE DEF n
  <1>4. /\ IsBuffer(Stamped(n, b.start))
        /\ Stamped(n, b.start).time = n.time /\ Stamped(n, b.start).cap = n.cap
    BY <1>1, <1>2, StampedFields
  <1>5. QED  BY <1>2, <1>3, <1>4

\* A chunk is appended, as far as there is room.
LEMMA InsertFields ==
    ASSUME NEW b, IsBuffer(b), NEW t \in Nat, NEW n \in Nat
    PROVE  LET f == Insert(b, t, n)
           IN  /\ IsBuffer(f)
               /\ f.cap = b.cap /\ f.time = b.time + Fitting(b, n)
               /\ f.start = IF b.time = 0 THEN t ELSE b.start
               /\ \A i \in 0 .. b.time - 1 : f.data[i] = b.data[i]
               /\ \A i \in b.time .. f.time - 1 : f.data[i] = t + (i - b.time)
  <1> SUFFICES ASSUME NEW f, f = Insert(b, t, n)
               PROVE  /\ IsBuffer(f)
                      /\ f.cap = b.cap /\ f.time = b.time + Fitting(b, n)
                      /\ f.start = IF b.time = 0 THEN t ELSE b.start
                      /\ \A i \in 0 .. b.time - 1 : f.data[i] = b.data[i]
                      /\ \A i \in b.time .. f.time - 1 : f.data[i] = t + (i - b.time)
    OBVIOUS
  <1> DEFINE m == Fitting(b, n)
             d == [i \in 0 .. b.cap - 1 |->
                      IF i \in b.time .. b.time + m - 1 THEN t + (i - b.time) ELSE b.data[i]]
             s == IF b.time = 0 THEN t ELSE b.start
  <1>1. /\ b.cap \in Nat /\ b.time \in 0 .. b.cap /\ m \in Nat /\ b.time + m \in 0 .. b.cap
        /\ b.data \in [0 .. b.cap - 1 -> Nat]
    BY DEF IsBuffer, Remaining, Fitting
  <1>2. d \in [0 .. b.cap - 1 -> Nat] /\ s \in Nat
    BY <1>1 DEF IsBuffer
  <1>3. f = [cap |-> b.cap, chan |-> b.chan, start |-> s, time |-> b.time + m, data |-> d]
    BY DEF Insert
  <1> HIDE DEF m, d, s
  <1>4. /\ f.cap = b.cap /\ f.time = b.time + m /\ f.start = s /\ f.data = d
        /\ f \in [cap : Nat, chan : Nat, time : Nat, start : Nat, data : {d}]
    <2>1. b.cap \in Nat /\ b.chan \in Nat
      BY DEF IsBuffer
    <2>2. b.time + m \in Nat
      BY <1>1
    <2>3. QED  BY <1>2, <1>3, <2>1, <2>2
  <1>5. \A i \in 0 .. b.time - 1 : d[i] = b.data[i]
    BY <1>1 DEF d
  <1>6. \A i \in b.time .. b.time + m - 1 : d[i] = t + (i - b.time)
    BY <1>1 DEF d
  <1>7. IsBuffer(f)
    BY <1>1, <1>2, <1>4 DEF IsBuffer
  <1>8. QED  BY <1>1, <1>4, <1>5, <1>6, <1>7 DEF m, s

\* What is appended is later than what the buffer holds.
LEMMA InsertFine ==
    ASSUME NEW t \in Nat \ {0}, NEW b, Fine(b, t), NEW n \in Nat
    PROVE  Fine(Insert(b, t, n), t + n)
  <1> DEFINE f == Insert(b, t, n)
  <1>1. /\ IsBuffer(b) /\ WrittenBefore(b, t) /\ Ordered(b)
        /\ b.cap \in Nat /\ b.time \in 0 .. b.cap
    BY DEF Fine, IsBuffer
  <1>2. /\ IsBuffer(f) /\ f.time = b.time + Fitting(b, n)
        /\ \A i \in 0 .. b.time - 1 : f.data[i] = b.data[i]
        /\ \A i \in b.time .. f.time - 1 : f.data[i] = t + (i - b.time)
    BY <1>1, InsertFields
  <1> HIDE DEF f
  <1>3. f.time \in Nat /\ f.time <= b.time + n
    BY <1>1, <1>2 DEF Fitting, Remaining
  <1>4. WrittenBefore(f, t + n)
    <2> SUFFICES ASSUME NEW i \in 0 .. f.time - 1 PROVE f.data[i] \in 1 .. t + n - 1
      BY DEF WrittenBefore
    <2>1. CASE i < b.time
      BY <2>1, <1>1, <1>2 DEF WrittenBefore
    <2>2. CASE i >= b.time
      BY <2>2, <1>1, <1>2, <1>3
    <2>3. QED  BY <2>1, <2>2, <1>1
  <1>5. Ordered(f)
    <2> SUFFICES ASSUME NEW i \in 0 .. f.time - 1, NEW j \in 0 .. f.time - 1, i < j
                 PROVE f.data[i] < f.data[j]
      BY DEF Ordered
    <2>1. CASE j < b.time
      BY <2>1, <1>1, <1>2 DEF Ordered
    <2>2. CASE i < b.time /\ j >= b.time
      BY <2>2, <1>1, <1>2, <1>3 DEF WrittenBefore
    <2>3. CASE i >= b.time
      BY <2>3, <1>1, <1>2, <1>3
    <2>4. QED  BY <2>1, <2>2, <2>3, <1>1
  <1>6. QED  BY <1>2, <1>4, <1>5 DEF Fine, f

\* The next buffer begins with the end of a full one.
LEMMA SuccessorFine ==
    ASSUME NEW t \in Nat, NEW b, Fine(b, t), b.time = b.cap, NEW o \in Nat, o < b.cap,
           NEW s, s = Successor(b, o)
    PROVE  /\ Fine(s, t) /\ s.cap = b.cap /\ s.time = o
           /\ o > 0 => s.start = b.start + (b.cap - o)
           /\ \A i \in 0 .. o - 1 : s.data[i] = b.data[b.cap - o + i]
  <1> DEFINE new == NewBuffer(b.cap, b.chan)
             fresh == Stamped(new, b.start)
             d == [i \in 0 .. fresh.cap - 1 |->
                      IF i < o THEN b.data[b.cap - o + i] ELSE fresh.data[i]]
  <1>1. /\ b.cap \in Nat /\ b.chan \in Nat /\ b.start \in Nat
        /\ b.data \in [0 .. b.cap - 1 -> Nat]
        /\ WrittenBefore(b, t) /\ Ordered(b)
    BY DEF Fine, IsBuffer
  <1>2. s = IF o = 0 THEN fresh ELSE Transfer(o, b, fresh)
    BY DEF Successor
  <1>3. IsBuffer(new) /\ new.time = 0 /\ new.cap = b.cap
    BY <1>1, NewFields
  <1>4. IsBuffer(fresh) /\ fresh.time = 0 /\ fresh.cap = b.cap
    <2> HIDE DEF new
    <2>1. QED  BY <1>1, <1>3, StampedFields
  <1> HIDE DEF new, fresh
  <1>5. /\ IsBuffer(s) /\ s.cap = b.cap /\ s.time = o
        /\ o > 0 => s.start = b.start + (b.cap - o)
        /\ \A i \in 0 .. o - 1 : s.data[i] = b.data[b.cap - o + i]
    <2>1. CASE o = 0
      BY <2>1, <1>2, <1>4
    <2>2. CASE o # 0
      <3>1. s = [cap |-> fresh.cap, chan |-> fresh.chan, start |-> b.start + (b.cap - o),
                 time |-> fresh.time + o, data |-> d]
        BY <2>2, <1>2 DEF Transfer
      <3>2. /\ d \in [0 .. b.cap - 1 -> Nat]
            /\ \A i \in 0 .. o - 1 : d[i] = b.data[b.cap - o + i]
        <4>1. fresh.data \in [0 .. b.cap - 1 -> Nat]
          BY <1>4 DEF IsBuffer
        <4>2. /\ d = [i \in 0 .. b.cap - 1 |->
                         IF i < o THEN b.data[b.cap - o + i] ELSE fresh.data[i]]
              /\ 0 .. o - 1 \subseteq 0 .. b.cap - 1
          BY <1>1, <1>4
        <4>3. \A i \in 0 .. b.cap - 1 : i < o => b.cap - o + i \in 0 .. b.cap - 1
          BY <1>1
        <4> HIDE DEF d
        <4>4. QED  BY <4>1, <4>2, <4>3, <1>1
      <3> HIDE DEF d
      <3>3. /\ fresh.cap \in Nat /\ fresh.chan \in Nat /\ b.start + (b.cap - o) \in Nat
            /\ fresh.time + o = o
        BY <1>1, <1>4 DEF IsBuffer
      <3>4. /\ s.cap = b.cap /\ s.time = o /\ s.data = d
            /\ s.start = b.start + (b.cap - o)
            /\ s \in [cap : Nat, chan : Nat, time : Nat, start : Nat, data : {d}]
        BY <3>1, <3>3, <1>4
      <3>5. QED  BY <1>1, <3>2, <3>4 DEF IsBuffer
    <2>3. QED  BY <2>1, <2>2
  <1>6. \A i \in 0 .. o - 1 : s.data[i] = b.data[b.cap - o + i]
    BY <1>5
  <1>7. \A i \in 0 .. o - 1 : b.cap - o + i \in 0 .. b.time - 1
    BY <1>1
  <1>8. WrittenBefore(s, t)
    <2> SUFFICES ASSUME NEW i \in 0 .. o - 1 PROVE s.data[i] \in 1 .. t - 1
      BY <1>5 DEF WrittenBefore
    <2>1. b.data[b.cap - o + i] \in 1 .. t - 1
      BY <1>1, <1>7 DEF WrittenBefore
    <2>2. QED  BY <1>6, <2>1
  <1>9. Ordered(s)
    <2> SUFFICES ASSUME NEW i \in 0 .. o - 1, NEW j \in 0 .. o - 1, i < j
                 PROVE s.data[i] < s.data[j]
      BY <1>5 DEF Ordered
    <2>1. b.cap - o + i < b.cap - o + j
      BY <1>1
    <2>2. b.data[b.cap - o + i] < b.data[b.cap - o + j]
      BY <1>1, <1>7, <2>1 DEF Ordered
    <2>3. QED  BY <1>6, <2>2
  <1>10. QED  BY <1>5, <1>6, <1>8, <1>9 DEF Fine

-------------------------------------------------------------------------------
(* The inductive invariant and the steps *)

\* What is written before one time is written before any later one.
LEMMA LaterFine ==
    ASSUME NEW b, NEW t \in Nat, NEW u \in Nat, t <= u, Fine(b, t)
    PROVE  Fine(b, u)
  <1>1. b.time \in Nat
    BY DEF Fine, IsBuffer
  <1>2. WrittenBefore(b, u)
    BY <1>1 DEF Fine, WrittenBefore
  <1>3. QED  BY <1>2 DEF Fine

\* The invariant holds of the empty filler.
LEMMA InitInv == Init => BufferInv
  <1> SUFFICES ASSUME Init PROVE BufferInv
    OBVIOUS
  <1>1. Scalars
    BY ConstantsAssumption DEF Init, Scalars
  <1>2. current.time = 0 /\ current.cap = 0 /\ IsBuffer(current) /\ out = current
    BY NewFields DEF Init
  <1>3. Fine(current, now)
    BY <1>2 DEF Fine, WrittenBefore, Ordered
  <1>4. Formatted /\ Linked
    BY <1>2 DEF Init, Formatted, Linked
  <1>5. QED  BY <1>1, <1>2, <1>3, <1>4 DEF BufferInv

\* The buffer a chunk is inserted into has room, also after a change of format.
LEMMA PreparedFine ==
    ASSUME BufferInv, NEW c \in ChanCounts, c # channels => ~PlanRefused(c)
    PROVE  /\ Fine(Prepared(c, now), now)
           /\ Prepared(c, now).time < Prepared(c, now).cap
           /\ NextOverlap(c) \in Nat
           /\ NextOverlap(c) < Prepared(c, now).cap
           /\ c = channels => Prepared(c, now) = current /\ NextOverlap(c) = overlap
           /\ c # channels => Prepared(c, now).time = 0
  <1>1. c \in Nat /\ c # 0 /\ now \in Nat
    BY ConstantsAssumption DEF BufferInv, Scalars
  <1>2. CASE c = channels
    <2>1. Prepared(c, now) = current /\ NextOverlap(c) = overlap
      BY <1>2 DEF Prepared, NextOverlap
    <2>2. Fine(current, now) /\ overlap \in Nat
      BY DEF BufferInv, Scalars
    <2>3. current.time < current.cap /\ overlap < current.cap
      BY <1>1, <1>2 DEF BufferInv, Formatted
    <2>4. QED  BY <1>2, <2>1, <2>2, <2>3
  <1>3. CASE c # channels
    <2> DEFINE cap == StrategySpectra[c]
               r == Resize(current, cap, c)
    <2>1. cap \in Nat /\ StrategyOverlap[c] \in Nat /\ StrategyOverlap[c] < cap
      BY <1>3, ConstantsAssumption DEF PlanRefused
    <2>2. Prepared(c, now) = Stamped(r, now) /\ NextOverlap(c) = StrategyOverlap[c]
      BY <1>3 DEF Prepared, NextOverlap
    <2>3. IsBuffer(r) /\ r.time = 0 /\ r.cap = cap
      <3> HIDE DEF cap
      <3>1. IsBuffer(current)
        BY DEF BufferInv, Fine
      <3>2. QED  BY <1>1, <2>1, <3>1, ResizeFields
    <2> HIDE DEF r
    <2>4. /\ IsBuffer(Stamped(r, now))
          /\ Stamped(r, now).time = 0 /\ Stamped(r, now).cap = cap
      BY <1>1, <2>3, StampedFields
    <2>5. Fine(Stamped(r, now), now)
      BY <2>4 DEF Fine, WrittenBefore, Ordered
    <2>6. QED  BY <1>3, <2>1, <2>2, <2>4, <2>5
  <1>4. QED  BY <1>2, <1>3

\* What one chunk does: the buffer after the insertion, full or not.
LEMMA FilledFine ==
    ASSUME BufferInv, NEW c \in ChanCounts, c # channels => ~PlanRefused(c),
           NEW n \in ChunkSizes, NEW f, f = Insert(Prepared(c, now), now, n)
    PROVE  /\ Fine(f, now + n) /\ f.time \in 0 .. f.cap
           /\ NextOverlap(c) \in Nat /\ NextOverlap(c) < f.cap
           /\ c = channels =>
                 /\ f.cap = current.cap /\ NextOverlap(c) = overlap /\ current.time <= f.time
                 /\ \A i \in 0 .. current.time - 1 : f.data[i] = current.data[i]
  <1> DEFINE p == Prepared(c, now)
  <1>1. /\ Fine(p, now) /\ NextOverlap(c) \in Nat /\ NextOverlap(c) < p.cap
        /\ c = channels => p = current /\ NextOverlap(c) = overlap
    BY PreparedFine
  <1>2. n \in Nat /\ now \in Nat \ {0}
    BY ConstantsAssumption DEF BufferInv, Scalars
  <1>3. f = Insert(p, now, n)
    OBVIOUS
  <1> HIDE DEF p
  <1>4. IsBuffer(p) /\ p.cap \in Nat /\ p.time \in 0 .. p.cap
    BY <1>1 DEF Fine, IsBuffer
  <1>5. Fine(f, now + n)
    BY <1>1, <1>2, <1>3, InsertFine
  <1>6. /\ f.cap = p.cap /\ f.time = p.time + Fitting(p, n)
        /\ \A i \in 0 .. p.time - 1 : f.data[i] = p.data[i]
    <2> DEFINE g == Insert(p, now, n)
    <2>1. /\ g.cap = p.cap /\ g.time = p.time + Fitting(p, n)
          /\ \A i \in 0 .. p.time - 1 : g.data[i] = p.data[i]
      BY <1>2, <1>4, InsertFields
    <2> HIDE DEF g
    <2>2. f = g
      BY <1>3 DEF g
    <2>3. QED  BY <2>1, <2>2
  <1>7. f.time \in 0 .. f.cap /\ p.time <= f.time
    BY <1>2, <1>4, <1>6 DEF Fitting, Remaining
  <1>8. QED  BY <1>1, <1>5, <1>6, <1>7

\* A chunk that is accepted keeps the invariant, and a buffer handed on after
\* another of its format begins with the end of that.
LEMMA FeedStep ==
    ASSUME BufferInv, NEW c \in ChanCounts, NEW n \in ChunkSizes, now + n <= MaxTime, Feed(c, n)
    PROVE  /\ BufferInv'
           /\ outs' > outs /\ outs > 0 =>
                 \A i \in 0 .. overlap - 1 : out'.data[i] = out.data[out.cap - overlap + i]
  <1> DEFINE f == Insert(Prepared(c, now), now, n)
             o == NextOverlap(c)
  <1>1. /\ c # channels => ~PlanRefused(c)
        /\ channels' = c /\ overlap' = o /\ planFor' = PlanAfter(c) /\ now' = now + n
    BY DEF Feed
  <1>2. /\ Fine(f, now + n) /\ f.time \in 0 .. f.cap /\ o \in Nat /\ o < f.cap
        /\ c = channels =>
              /\ f.cap = current.cap /\ o = overlap /\ current.time <= f.time
              /\ \A i \in 0 .. current.time - 1 : f.data[i] = current.data[i]
    BY <1>1, FilledFine
  <1>3. \/ /\ IsFull(f) /\ out' = f /\ outPlan' = planFor'
           /\ outs' = (IF c = channels THEN outs ELSE 0) + 1
           /\ current' = Successor(f, o)
        \/ /\ ~IsFull(f) /\ outs' = (IF c = channels THEN outs ELSE 0)
           /\ current' = f /\ out' = out /\ outPlan' = outPlan
    BY <1>1 DEF Feed
  <1> HIDE DEF f, o
  <1>4. /\ c \in Nat /\ c # 0 /\ n \in Nat /\ now \in Nat /\ outs \in Nat /\ overlap \in Nat
    BY ConstantsAssumption DEF BufferInv, Scalars
  <1>5. f.cap \in Nat
    BY <1>2 DEF Fine, IsBuffer
  <1>6. outs' > outs /\ outs > 0 => c = channels
    BY <1>3, <1>4
  <1>7. Scalars'
    <2>1. planFor' \in ChanCounts \cup {0} /\ outPlan' \in ChanCounts \cup {0}
      BY <1>1, <1>3 DEF BufferInv, Scalars, PlanAfter
    <2>2. now' \in 1 .. MaxTime
      BY <1>1, <1>4, ConstantsAssumption DEF BufferInv, Scalars
    <2>3. outs' \in Nat
      BY <1>3, <1>4
    <2>4. whole' \in BOOLEAN
      BY DEF Feed
    <2>5. QED  BY <1>1, <1>2, <2>1, <2>2, <2>3, <2>4 DEF Scalars
  \* What the buffer being filled begins with, if one of this format is out.
  <1>8. ASSUME c = channels, outs > 0
        PROVE  /\ out.cap = f.cap /\ o <= f.time
               /\ \A i \in 0 .. o - 1 : f.data[i] = out.data[out.cap - o + i]
    <2>1. /\ out.cap = current.cap /\ overlap <= current.time
          /\ \A i \in 0 .. overlap - 1 : current.data[i] = out.data[out.cap - overlap + i]
      BY <1>8 DEF BufferInv, Linked
    <2>2. current.time \in Nat /\ f.time \in Nat
      BY <1>2, <1>5 DEF BufferInv, Fine, IsBuffer
    <2>3. \A i \in 0 .. o - 1 : i \in 0 .. current.time - 1
      BY <1>2, <1>4, <1>8, <2>1, <2>2
    <2>4. QED  BY <1>2, <1>4, <1>8, <2>1, <2>2, <2>3
  <1>9. CASE IsFull(f)
    <2>1. /\ out' = f /\ outs' = (IF c = channels THEN outs ELSE 0) + 1
          /\ current' = Successor(f, o)
      BY <1>3, <1>9
    <2>2. f.time = f.cap
      BY <1>2, <1>5, <1>9 DEF IsFull, Remaining
    <2>3. /\ Fine(Successor(f, o), now + n)
          /\ Successor(f, o).cap = f.cap /\ Successor(f, o).time = o
          /\ \A i \in 0 .. o - 1 : Successor(f, o).data[i] = f.data[f.cap - o + i]
      <3>1. now + n \in Nat
        BY <1>4
      <3>2. QED  BY <1>2, <2>2, <3>1, SuccessorFine
    <2>4. Fine(current, now)' /\ Fine(out, now)' /\ (out.time = out.cap)'
      BY <1>1, <1>2, <2>1, <2>2, <2>3 DEF Fine, WrittenBefore, Ordered, IsBuffer
    <2>5. Formatted'
      BY <1>1, <1>2, <1>4, <2>1, <2>3 DEF Formatted
    <2>6. Linked'
      BY <1>1, <1>2, <1>4, <2>1, <2>3 DEF Linked
    <2>7. outs' > outs /\ outs > 0 =>
             \A i \in 0 .. overlap - 1 : out'.data[i] = out.data[out.cap - overlap + i]
      BY <1>2, <1>6, <1>8, <2>1
    <2>8. QED  BY <1>7, <2>4, <2>5, <2>6, <2>7 DEF BufferInv
  <1>10. CASE ~IsFull(f)
    <2>1. /\ out' = out /\ outs' = (IF c = channels THEN outs ELSE 0)
          /\ current' = f
      BY <1>3, <1>10
    <2>2. f.time < f.cap
      BY <1>2, <1>5, <1>10 DEF IsFull, Remaining
    <2>3. Fine(out, now + n) /\ out.time = out.cap
      <3>1. Fine(out, now) /\ out.time = out.cap
        BY DEF BufferInv
      <3>2. now + n \in Nat /\ now <= now + n
        BY <1>4
      <3>3. QED  BY <1>4, <3>1, <3>2, LaterFine
    <2>4. Fine(current, now)' /\ Fine(out, now)' /\ (out.time = out.cap)'
      BY <1>1, <1>2, <2>1, <2>3 DEF Fine, WrittenBefore, Ordered, IsBuffer
    <2>5. Formatted'
      BY <1>1, <1>2, <1>4, <2>1, <2>2 DEF Formatted
    <2>6. Linked'
      <3> SUFFICES ASSUME outs' > 0
                   PROVE  /\ c # 0 /\ out.cap = f.cap /\ o <= f.time
                          /\ \A i \in 0 .. o - 1 : f.data[i] = out.data[out.cap - o + i]
        BY <1>1, <2>1 DEF Linked
      <3>1. c = channels /\ outs > 0
        BY <1>4, <2>1
      <3>2. QED  BY <1>4, <1>8, <3>1
    <2>7. ~(outs' > outs /\ outs > 0)
      BY <1>4, <2>1
    <2>8. QED  BY <1>7, <2>4, <2>5, <2>6, <2>7 DEF BufferInv
  <1>11. QED  BY <1>9, <1>10

\* Nothing but the plan and the time changes when a chunk is refused or lost.
LEMMA WaitStep ==
    ASSUME BufferInv, NEW n \in Nat, now + n <= MaxTime, now' = now + n,
           planFor' \in ChanCounts \cup {0}, whole' \in BOOLEAN,
           UNCHANGED <<current, overlap, channels, out, outPlan, outs>>
    PROVE  BufferInv'
  <1>1. now \in Nat /\ now + n \in Nat /\ now <= now + n
    BY ConstantsAssumption DEF BufferInv, Scalars
  <1>2. Fine(current, now + n) /\ Fine(out, now + n)
    <2>1. Fine(current, now) /\ Fine(out, now)
      BY DEF BufferInv
    <2>2. QED  BY <1>1, <2>1, LaterFine
  <1>3. Fine(current, now)' /\ Fine(out, now)'
    BY <1>2 DEF Fine, WrittenBefore, Ordered, IsBuffer
  <1>4. Scalars'
    BY <1>1, ConstantsAssumption DEF BufferInv, Scalars
  <1>5. Formatted' /\ Linked'
    BY DEF BufferInv, Formatted, Linked
  <1>6. (out.time = out.cap)'
    BY DEF BufferInv
  <1>7. QED  BY <1>3, <1>4, <1>5, <1>6 DEF BufferInv

\* Every step keeps the invariant: chunks accepted and refused, gaps, stuttering.
LEMMA NextInv == BufferInv /\ [Next]_vars => BufferInv'
  <1> SUFFICES ASSUME BufferInv, [Next]_vars PROVE BufferInv'
    OBVIOUS
  <1>1. ASSUME NEW c \in ChanCounts, NEW n \in ChunkSizes, now + n <= MaxTime, Feed(c, n)
        PROVE  BufferInv'
    BY <1>1, FeedStep
  <1>2. ASSUME NEW c \in ChanCounts, NEW n \in ChunkSizes, now + n <= MaxTime, Refuse(c, n)
        PROVE  BufferInv'
    <2>1. /\ n \in Nat /\ now' = now + n /\ planFor' \in ChanCounts \cup {0} /\ whole' \in BOOLEAN
          /\ UNCHANGED <<current, overlap, channels, out, outPlan, outs>>
      BY <1>2, ConstantsAssumption DEF Refuse
    <2>2. QED  BY <1>2, <2>1, WaitStep
  <1>3. ASSUME NEW g \in Gaps, Gap(g)
        PROVE  BufferInv'
    <2>1. /\ g \in Nat /\ now + g <= MaxTime /\ now' = now + g
          /\ planFor' \in ChanCounts \cup {0} /\ whole' \in BOOLEAN
          /\ UNCHANGED <<current, overlap, channels, out, outPlan, outs>>
      BY <1>3, ConstantsAssumption DEF Gap, BufferInv, Scalars
    <2>2. QED  BY <2>1, WaitStep
  <1>4. CASE UNCHANGED vars
    BY <1>4 DEF vars, BufferInv, Scalars, Fine, WrittenBefore, Ordered, IsBuffer, Formatted, Linked
  <1>5. QED  BY <1>1, <1>2, <1>3, <1>4 DEF Next

\* In every reachable state both buffers are in order and written before the
\* next data, and the one being filled begins with the end of the last one out.
THEOREM BuffersInductive == Spec => []BufferInv
  BY InitInv, NextInv, PTL DEF Spec

-------------------------------------------------------------------------------
(* Input that is whole *)

\* The time of the first spectrum of the buffer being filled
First == IF current.time = 0 THEN now ELSE current.start

\* A chunk, cut or not, continues a buffer without a gap, or begins a new one.
LEMMA FilledUnbroken ==
    ASSUME IInv, NEW c \in ChanCounts, c # channels => ~PlanRefused(c), c = channels => whole,
           NEW n \in ChunkSizes, NEW f, f = Insert(Prepared(c, now), now, n)
    PROVE  /\ Consecutive(f) /\ f.time > 0
           /\ n <= Remaining(Prepared(c, now)) => f.start + f.time = now + n
           /\ f.start = IF c = channels THEN First ELSE now
  <1> DEFINE p == Prepared(c, now)
             g == Insert(p, now, n)
  <1>1. /\ IsBuffer(p) /\ p.time < p.cap
        /\ c = channels => p = current
        /\ c # channels => p.time = 0
    BY PreparedFine DEF IInv, Fine
  <1>2. n \in Nat \ {0} /\ now \in Nat /\ c # 0
    BY ConstantsAssumption DEF IInv, BufferInv, Scalars
  <1>3. f = g
    OBVIOUS
  <1> HIDE DEF p
  <1>4. p.time \in Nat /\ p.cap \in Nat /\ p.start \in Nat
    BY <1>1 DEF IsBuffer
  <1>5. /\ g.time = p.time + Fitting(p, n)
        /\ g.start = IF p.time = 0 THEN now ELSE p.start
        /\ \A i \in 0 .. p.time - 1 : g.data[i] = p.data[i]
        /\ \A i \in p.time .. g.time - 1 : g.data[i] = now + (i - p.time)
    BY <1>1, <1>2, InsertFields
  <1> HIDE DEF g
  <1>6. /\ g.time \in Nat /\ g.time > p.time
        /\ n <= Remaining(p) => g.time = p.time + n
    BY <1>1, <1>2, <1>4, <1>5 DEF Fitting, Remaining
  <1>7. g.start = IF c = channels THEN First ELSE now
    BY <1>1, <1>5 DEF First
  <1>8. Consecutive(g) /\ (n <= Remaining(p) => g.start + g.time = now + n)
    <2>1. CASE p.time = 0
      BY <1>2, <1>5, <1>6, <2>1 DEF Consecutive
    <2>2. CASE p.time # 0
      <3>1. p = current /\ c = channels
        BY <1>1, <2>2
      <3>2. whole /\ current.time > 0 /\ channels # 0
        BY <1>2, <1>4, <2>2, <3>1
      <3>3. Consecutive(p) /\ p.start + p.time = now
        BY <3>1, <3>2 DEF IInv, Unbroken
      <3>4. g.start = p.start
        BY <1>5, <2>2
      <3>5. \A i \in 0 .. g.time - 1 : g.data[i] = g.start + i
        <4> TAKE i \in 0 .. g.time - 1
        <4>1. CASE i < p.time
          BY <1>4, <1>5, <3>3, <3>4, <4>1 DEF Consecutive
        <4>2. CASE i >= p.time
          <5>1. g.data[i] = now + (i - p.time)
            BY <1>2, <1>4, <1>5, <1>6, <4>2
          <5>2. QED  BY <1>2, <1>4, <3>3, <3>4, <5>1
        <4>3. QED  BY <1>4, <4>1, <4>2
      <3>6. n <= Remaining(p) => g.start + g.time = now + n
        BY <1>2, <1>4, <1>6, <3>3, <3>4
      <3>7. QED  BY <3>5, <3>6 DEF Consecutive
    <2>3. QED  BY <2>1, <2>2
  <1>9. g.time > 0
    BY <1>4, <1>6
  <1>10. QED  BY <1>3, <1>7, <1>8, <1>9 DEF p

\* A chunk that is accepted whole leaves both buffers unbroken.
LEMMA FeedUnbroken ==
    ASSUME IInv, NEW c \in ChanCounts, NEW n \in ChunkSizes, now + n <= MaxTime, Feed(c, n)
    PROVE  Unbroken'
  <1> DEFINE p == Prepared(c, now)
             f == Insert(p, now, n)
             o == NextOverlap(c)
  <1>1. /\ c # channels => ~PlanRefused(c)
        /\ channels' = c /\ overlap' = o /\ now' = now + n
        /\ whole' = ((c = channels => whole) /\ n <= Remaining(p))
    BY DEF Feed
  <1>2. \/ /\ IsFull(f) /\ out' = f
           /\ outs' = (IF c = channels THEN outs ELSE 0) + 1
           /\ current' = Successor(f, o)
        \/ /\ ~IsFull(f) /\ outs' = (IF c = channels THEN outs ELSE 0)
           /\ current' = f /\ out' = out
    BY <1>1 DEF Feed
  <1>3. Fine(f, now + n) /\ f.time \in 0 .. f.cap /\ o \in Nat /\ o < f.cap
    BY <1>1, FilledFine DEF IInv
  <1>4. n \in Nat /\ now \in Nat /\ outs \in Nat /\ c # 0
    BY ConstantsAssumption DEF IInv, BufferInv, Scalars
  <1>5. f.cap \in Nat /\ f.start \in Nat
    BY <1>3 DEF Fine, IsBuffer
  <1>6. SUFFICES ASSUME whole'
                 PROVE  /\ Consecutive(current)' /\ (outs' > 0 => Consecutive(out)')
                        /\ IF current'.time > 0
                           THEN current'.start + current'.time = now + n
                           ELSE outs' > 0 /\ out'.cap > 0 /\ out'.start + out'.cap = now + n
    BY <1>1 DEF Unbroken
  <1>7. Consecutive(f) /\ f.time > 0 /\ f.start + f.time = now + n
    BY <1>1, <1>6, FilledUnbroken
  <1> HIDE DEF f, o, p
  <1>8. CASE IsFull(f)
    <2>1. /\ out' = f /\ outs' = (IF c = channels THEN outs ELSE 0) + 1
          /\ current' = Successor(f, o)
      BY <1>2, <1>8
    <2>2. f.time = f.cap
      BY <1>3, <1>5, <1>8 DEF IsFull, Remaining
    <2>3. /\ current'.time = o
          /\ o > 0 => current'.start = f.start + (f.cap - o)
          /\ \A i \in 0 .. o - 1 : current'.data[i] = f.data[f.cap - o + i]
      <3>1. now + n \in Nat
        BY <1>4
      <3>2. QED  BY <1>3, <2>1, <2>2, <3>1, SuccessorFine
    <2>4. Consecutive(current)'
      <3> SUFFICES ASSUME NEW i \in 0 .. o - 1 PROVE current'.data[i] = current'.start + i
        BY <2>3 DEF Consecutive
      <3>1. f.cap - o + i \in 0 .. f.time - 1
        BY <1>3, <1>5, <2>2
      <3>2. f.data[f.cap - o + i] = f.start + (f.cap - o + i)
        BY <1>7, <3>1 DEF Consecutive
      <3>3. QED  BY <1>3, <1>5, <2>3, <3>2
    <2>5. Consecutive(out)'
      BY <1>7, <2>1 DEF Consecutive
    <2>6. outs' > 0
      BY <1>4, <2>1
    <2>7. QED  BY <1>3, <1>5, <1>7, <2>1, <2>2, <2>3, <2>4, <2>5, <2>6
  <1>9. CASE ~IsFull(f)
    <2>1. /\ out' = out /\ outs' = (IF c = channels THEN outs ELSE 0)
          /\ current' = f
      BY <1>2, <1>9
    <2>2. Consecutive(current)'
      BY <1>7, <2>1 DEF Consecutive
    <2>3. ASSUME outs' > 0 PROVE Consecutive(out)'
      <3>1. c = channels /\ outs > 0
        BY <2>1, <2>3
      <3>2. whole
        BY <1>1, <1>6, <3>1
      <3>3. Consecutive(out)
        BY <1>4, <3>1, <3>2 DEF IInv, Unbroken
      <3>4. QED  BY <2>1, <3>3 DEF Consecutive
    <2>4. QED  BY <1>7, <2>1, <2>2, <2>3
  <1>10. QED  BY <1>8, <1>9

\* Lost input is not whole; otherwise only the plan changes.
LEMMA NextUnbroken == IInv /\ [Next]_vars => Unbroken'
  <1> SUFFICES ASSUME IInv, [Next]_vars PROVE Unbroken'
    OBVIOUS
  <1>1. ASSUME NEW c \in ChanCounts, NEW n \in ChunkSizes, now + n <= MaxTime, Feed(c, n)
        PROVE  Unbroken'
    BY <1>1, FeedUnbroken
  <1>2. CASE \E c \in ChanCounts, n \in ChunkSizes : Refuse(c, n)
    BY <1>2 DEF Refuse, Unbroken
  <1>3. CASE \E g \in Gaps : Gap(g)
    BY <1>3 DEF Gap, Unbroken
  <1>4. CASE UNCHANGED vars
    BY <1>4 DEF vars, IInv, Unbroken, Consecutive
  <1>5. QED  BY <1>1, <1>2, <1>3, <1>4 DEF Next

\* The invariant the runs check is inductive for every plan and every input.
THEOREM Inductive == Spec => []IInv
  <1>1. Init => IInv
    BY InitInv DEF Init, IInv, Unbroken
  <1>2. IInv /\ [Next]_vars => IInv'
    BY NextInv, NextUnbroken DEF IInv
  <1>3. QED  BY <1>1, <1>2, PTL DEF Spec

-------------------------------------------------------------------------------
(* The theorems *)

\* The state is of its type: no buffer holds more than its capacity.
THEOREM TypeCorrect == Spec => []TypeOK
  <1>1. BufferInv => TypeOK
    BY DEF BufferInv, Scalars, Fine, TypeOK
  <1>2. QED  BY <1>1, BuffersInductive, PTL

\* Only full buffers without holes are handed on, whatever the sizes of the
\* chunks and the windows; the buffer being filled always has room.
THEOREM FullBuffers == Spec => []OnlyFullBuffersHandedOn
  <1>1. ASSUME NEW b, NEW t, WrittenBefore(b, t), t \in Nat
        PROVE  Blank \notin Spectra(b)
    BY <1>1 DEF WrittenBefore, Spectra, Blank
  <1>2. BufferInv => OnlyFullBuffersHandedOn
    <2> SUFFICES ASSUME BufferInv PROVE OnlyFullBuffersHandedOn
      OBVIOUS
    <2>1. WrittenBefore(current, now) /\ WrittenBefore(out, now) /\ now \in Nat
      BY ConstantsAssumption DEF BufferInv, Fine, Scalars
    <2>2. Blank \notin Spectra(current) /\ Blank \notin Spectra(out)
      BY <1>1, <2>1
    <2>3. QED  BY <2>2 DEF OnlyFullBuffersHandedOn, BufferInv, Formatted
  <1>3. QED  BY <1>2, BuffersInductive, PTL

\* No buffer holds a spectrum twice or out of order.
THEOREM TimeOrder == Spec => []InTimeOrder
  <1>1. BufferInv => InTimeOrder
    BY DEF BufferInv, Fine, InTimeOrder
  <1>2. QED  BY <1>1, BuffersInductive, PTL

\* Two successive buffers of one format share their overlap: no candidate that
\* crosses the boundary of a buffer is lost.
THEOREM Overlap == Spec => SuccessiveBuffersOverlap
  <1> DEFINE Shared == outs' > outs /\ outs > 0 =>
                          \A i \in 0 .. overlap - 1 :
                              out'.data[i] = out.data[out.cap - overlap + i]
  <1>1. BufferInv /\ [Next]_vars => [Shared]_vars
    <2> SUFFICES ASSUME BufferInv, Next PROVE Shared
      OBVIOUS
    <2>1. ASSUME NEW c \in ChanCounts, NEW n \in ChunkSizes, now + n <= MaxTime, Feed(c, n)
          PROVE  Shared
      BY <2>1, FeedStep
    <2>2. outs \in Nat
      BY DEF BufferInv, Scalars
    <2>3. ASSUME outs' = outs PROVE Shared
      BY <2>2, <2>3
    <2>4. QED  BY <2>1, <2>3 DEF Next, Refuse, Gap
  <1>2. QED  BY <1>1, BuffersInductive, PTL DEF Spec, SuccessiveBuffersOverlap

\* A buffer is dated by its first spectrum, and its spectra are consecutive, for
\* as long as no input was lost.
THEOREM Stamps == Spec => []StampIsFirstSpectrum
  <1>1. IInv => StampIsFirstSpectrum
    <2> SUFFICES ASSUME IInv, whole
                 PROVE  Consecutive(current) /\ (outs > 0 => Consecutive(out))
      BY DEF StampIsFirstSpectrum
    <2>1. CASE channels # 0
      BY <2>1 DEF IInv, Unbroken
    <2>2. CASE channels = 0
      <3>1. current.cap = 0 /\ outs = 0 /\ IsBuffer(current)
        BY <2>2 DEF IInv, BufferInv, Formatted, Fine
      <3>2. current.time \in Nat /\ current.time <= 0
        BY <3>1 DEF IsBuffer
      <3>3. QED  BY <3>1, <3>2 DEF Consecutive
    <2>3. QED  BY <2>1, <2>2
  <1>2. QED  BY <1>1, Inductive, PTL

\* The end of the input is in one of the two buffers, for as long as no input
\* was lost before it.
THEOREM NothingCut == Spec => []LastSpectrumKept
  <1>1. IInv => LastSpectrumKept
    <2> SUFFICES ASSUME IInv, whole, channels # 0
                 PROVE  now - 1 \in Spectra(current) \cup Spectra(out)
      BY DEF LastSpectrumKept
    <2>1. /\ current.time \in Nat /\ current.start \in Nat /\ now \in Nat
          /\ out.cap \in Nat /\ out.start \in Nat /\ out.time = out.cap
      BY DEF IInv, BufferInv, Fine, IsBuffer, Scalars
    <2>2. CASE current.time > 0
      <3>1. Consecutive(current) /\ current.start + current.time = now
        BY <2>2 DEF IInv, Unbroken
      <3>2. current.time - 1 \in 0 .. current.time - 1
        BY <2>1, <2>2
      <3>3. current.data[current.time - 1] = now - 1
        BY <2>1, <3>1, <3>2 DEF Consecutive
      <3>4. QED  BY <3>2, <3>3 DEF Spectra
    <2>3. CASE current.time = 0
      <3>1. Consecutive(out) /\ out.cap > 0 /\ out.start + out.cap = now
        BY <2>3 DEF IInv, Unbroken
      <3>2. out.time - 1 \in 0 .. out.time - 1
        BY <2>1, <3>1
      <3>3. out.data[out.time - 1] = now - 1
        BY <2>1, <3>1, <3>2 DEF Consecutive
      <3>4. QED  BY <3>2, <3>3 DEF Spectra
    <2>4. QED  BY <2>1, <2>2, <2>3
  <1>2. QED  BY <1>1, Inductive, PTL

-------------------------------------------------------------------------------
(* The plan that a buffer is handed on with *)

\* A chunk that is accepted leaves a buffer of the size of its format, and so
\* is the buffer it may fill.
LEMMA FeedPlan ==
    ASSUME BufferInv, PlanOfBuffer, SufficientForAcceptedPlan,
           NEW c \in ChanCounts, NEW n \in ChunkSizes, Feed(c, n)
    PROVE  PlanOfBuffer' /\ SufficientForAcceptedPlan'
  <1> DEFINE p == Prepared(c, now)
             f == Insert(p, now, n)
             o == NextOverlap(c)
  <1>1. /\ c # channels => ~PlanRefused(c)
        /\ channels' = c /\ overlap' = o /\ planFor' = PlanAfter(c)
    BY DEF Feed
  <1>2. \/ /\ IsFull(f) /\ out' = f /\ outPlan' = planFor'
           /\ current' = Successor(f, o)
        \/ current' = f /\ out' = out /\ outPlan' = outPlan
    BY <1>1 DEF Feed
  <1>3. /\ c \in Nat /\ c # 0 /\ now \in Nat \ {0} /\ n \in Nat
        /\ StrategySpectra[c] \in Nat
    BY ConstantsAssumption DEF BufferInv, Scalars
  <1>4. ~PlanRefused(c)
    BY <1>1, <1>3 DEF PlanOfBuffer
  <1>5. p.cap = StrategySpectra[c]
    <2>1. CASE c = channels
      BY <1>3, <2>1 DEF PlanOfBuffer, Prepared
    <2>2. CASE c # channels
      <3> DEFINE cap == StrategySpectra[c]
                 r == Resize(current, cap, c)
      <3>1. IsBuffer(current) /\ cap \in Nat
        BY <1>3 DEF BufferInv, Fine
      <3>2. p = Stamped(r, now)
        BY <2>2 DEF Prepared
      <3> HIDE DEF cap, p
      <3>3. IsBuffer(r) /\ r.cap = cap
        BY <1>3, <3>1, ResizeFields
      <3> HIDE DEF r
      <3>4. Stamped(r, now).cap = cap
        BY <1>3, <3>3, StampedFields
      <3>5. QED  BY <3>2, <3>4 DEF cap
    <2>3. QED  BY <2>1, <2>2
  <1>6. Fine(p, now) /\ IsBuffer(p)
    BY <1>1, PreparedFine DEF Fine
  <1>7. Fine(f, now + n) /\ f.time \in 0 .. f.cap /\ o \in Nat /\ o < f.cap
    BY <1>1, FilledFine
  <1> HIDE DEF p
  <1>8. f.cap = StrategySpectra[c]
    BY <1>3, <1>5, <1>6, InsertFields
  <1> HIDE DEF f, o
  <1>9. IsFull(f) => Successor(f, o).cap = f.cap
    <2> SUFFICES ASSUME IsFull(f) PROVE Successor(f, o).cap = f.cap
      OBVIOUS
    <2>1. f.time = f.cap /\ now + n \in Nat
      BY <1>3, <1>7, <1>8 DEF IsFull, Remaining
    <2>2. QED  BY <1>7, <2>1, SuccessorFine
  <1>10. current'.cap = StrategySpectra[c]
    BY <1>2, <1>8, <1>9
  <1>11. planFor' = c \/ PlanRefused(planFor')
    BY <1>1 DEF PlanAfter, PlanOfBuffer
  <1>12. PlanOfBuffer'
    BY <1>1, <1>4, <1>10, <1>11 DEF PlanOfBuffer, PlanRefused
  <1>13. SufficientForAcceptedPlan'
    <2>1. CASE IsFull(f) /\ out' = f /\ outPlan' = planFor'
      <3>1. StrategyOverlap[c] \in Nat /\ f.cap > StrategyOverlap[c]
        BY <1>3, <1>4, <1>8, ConstantsAssumption DEF PlanRefused
      <3>2. QED  BY <1>11, <2>1, <3>1 DEF SufficientForAcceptedPlan, PlanRefused
    <2>2. CASE out' = out /\ outPlan' = outPlan
      BY <2>2 DEF SufficientForAcceptedPlan, PlanRefused
    <2>3. QED  BY <1>2, <2>1, <2>2
  <1>14. QED  BY <1>12, <1>13

\* Unless its plan was refused, a buffer has more spectra than the delay of the
\* plan the algorithms hold when they get it.
THEOREM PlanSuffices == Spec => []SufficientForAcceptedPlan
  <1> DEFINE Inv == PlanOfBuffer /\ SufficientForAcceptedPlan
  <1>1. Init => Inv
    BY DEF Init, PlanOfBuffer, SufficientForAcceptedPlan
  <1>2. BufferInv /\ Inv /\ [Next]_vars => Inv'
    <2> SUFFICES ASSUME BufferInv, Inv, [Next]_vars PROVE Inv'
      OBVIOUS
    <2>1. ASSUME NEW c \in ChanCounts, NEW n \in ChunkSizes, Feed(c, n)
          PROVE  Inv'
      BY <2>1, FeedPlan
    <2>2. ASSUME NEW c \in ChanCounts, NEW n \in ChunkSizes, Refuse(c, n)
          PROVE  Inv'
      BY <2>2 DEF Refuse, PlanOfBuffer, SufficientForAcceptedPlan, PlanRefused
    <2>3. ASSUME NEW g \in Gaps, Gap(g)
          PROVE  Inv'
      BY <2>3 DEF Gap, PlanOfBuffer, SufficientForAcceptedPlan, PlanRefused
    <2>4. CASE UNCHANGED vars
      BY <2>4 DEF vars, PlanOfBuffer, SufficientForAcceptedPlan, PlanRefused
    <2>5. QED  BY <2>1, <2>2, <2>3, <2>4 DEF Next
  <1>3. QED  BY <1>1, <1>2, BuffersInductive, PTL DEF Spec

-------------------------------------------------------------------------------
(* The buffers are sliding windows *)

\* What a full buffer holds, as a set
LEMMA FullSpectra ==
    ASSUME NEW b, Consecutive(b), b.time = b.cap, b.cap \in Nat, b.start \in Nat
    PROVE  Spectra(b) = b.start .. b.start + b.cap - 1
  <1>1. ASSUME NEW i \in 0 .. b.time - 1
        PROVE  b.data[i] \in b.start .. b.start + b.cap - 1
    BY <1>1 DEF Consecutive
  <1>2. ASSUME NEW t \in b.start .. b.start + b.cap - 1
        PROVE  t - b.start \in 0 .. b.time - 1 /\ b.data[t - b.start] = t
    BY DEF Consecutive
  <1>3. QED  BY <1>1, <1>2 DEF Spectra

\* Where the next window begins after a chunk that was not cut
LEMMA FirstAfterFeed ==
    ASSUME IInv, NEW c \in ChanCounts, NEW n \in ChunkSizes, now + n <= MaxTime, Feed(c, n),
           whole', NEW f, f = Insert(Prepared(c, now), now, n)
    PROVE  First' = IF IsFull(f) THEN f.start + f.cap - overlap' ELSE f.start
  <1> DEFINE o == NextOverlap(c)
  <1>1. /\ c # channels => ~PlanRefused(c)
        /\ overlap' = o /\ now' = now + n
        /\ c = channels => whole
        /\ n <= Remaining(Prepared(c, now))
    BY DEF Feed
  <1>2. /\ IsFull(f) => current' = Successor(f, o)
        /\ ~IsFull(f) => current' = f
    BY <1>1 DEF Feed
  <1>3. Fine(f, now + n) /\ f.time \in 0 .. f.cap /\ o \in Nat /\ o < f.cap
    BY <1>1, FilledFine DEF IInv
  <1>4. n \in Nat /\ now \in Nat /\ f.cap \in Nat /\ f.start \in Nat
    BY <1>3, ConstantsAssumption DEF IInv, BufferInv, Scalars, Fine, IsBuffer
  <1>5. f.time > 0 /\ f.start + f.time = now + n
    BY <1>1, FilledUnbroken
  <1> HIDE DEF o
  <1>6. CASE IsFull(f)
    <2>1. f.time = f.cap
      BY <1>3, <1>4, <1>6 DEF IsFull, Remaining
    <2>2. current'.time = o /\ (o > 0 => current'.start = f.start + (f.cap - o))
      <3>1. now + n \in Nat
        BY <1>4
      <3>2. QED  BY <1>2, <1>3, <1>6, <2>1, <3>1, SuccessorFine
    <2>3. CASE o = 0
      BY <1>1, <1>4, <1>5, <1>6, <2>1, <2>2, <2>3 DEF First
    <2>4. CASE o # 0
      BY <1>1, <1>3, <1>4, <1>6, <2>2, <2>4 DEF First
    <2>5. QED  BY <2>3, <2>4
  <1>7. CASE ~IsFull(f)
    BY <1>2, <1>5, <1>7 DEF First
  <1>8. QED  BY <1>6, <1>7

\* As long as the input is whole, the window being filled began in the past.
LEMMA FirstIsPast ==
    ASSUME IInv, whole
    PROVE  First \in Nat /\ First <= now
  <1>1. current.time \in Nat /\ current.start \in Nat /\ now \in Nat
    BY DEF IInv, BufferInv, Fine, IsBuffer, Scalars
  <1>2. CASE current.time = 0
    BY <1>1, <1>2 DEF First
  <1>3. CASE current.time # 0
    <2>1. channels # 0
      BY <1>1, <1>3 DEF IInv, BufferInv, Formatted, Fine, IsBuffer
    <2>2. current.start + current.time = now
      BY <1>1, <1>3, <2>1 DEF IInv, Unbroken
    <2>3. QED  BY <1>1, <1>3, <2>2 DEF First
  <1>4. QED  BY <1>2, <1>3

\* A chunk maps to a step of the windows: to the continuation of the current
\* series, to its interruption, or to the start of a new one.
LEMMA FeedWindow ==
    ASSUME IInv, NEW c \in ChanCounts, NEW n \in ChunkSizes, now + n <= MaxTime, Feed(c, n)
    PROVE  [Window!WindowNext]_(Window!windowVars)
  <1> DEFINE f == Insert(Prepared(c, now), now, n)
             o == NextOverlap(c)
  <1>1. /\ c # channels => ~PlanRefused(c)
        /\ channels' = c /\ overlap' = o /\ now' = now + n
        /\ whole' = ((c = channels => whole) /\ n <= Remaining(Prepared(c, now)))
    BY DEF Feed
  <1>2. \/ IsFull(f) /\ out' = f /\ current' = Successor(f, o)
        \/ ~IsFull(f) /\ current' = f /\ out' = out
    BY <1>1 DEF Feed
  <1>3. /\ Fine(f, now + n) /\ f.time \in 0 .. f.cap /\ o \in Nat /\ o < f.cap
        /\ c = channels => f.cap = current.cap /\ o = overlap
    BY <1>1, FilledFine DEF IInv
  <1>4. f.cap \in Nat /\ f.start \in Nat /\ n \in Nat /\ now \in Nat /\ c # 0
    BY <1>3, ConstantsAssumption DEF IInv, BufferInv, Scalars, Fine, IsBuffer
  <1>5. (c = channels => whole) =>
            /\ Consecutive(f)
            /\ f.start = IF c = channels THEN First ELSE now
    BY <1>1, FilledUnbroken
  <1>6. whole' => First' = IF IsFull(f) THEN f.start + f.cap - o ELSE f.start
    BY <1>1, FirstAfterFeed
  <1> HIDE DEF f, o
  <1>7. current'.cap = f.cap
    <2>1. CASE IsFull(f)
      <3>1. f.time = f.cap
        BY <1>3, <1>4, <2>1 DEF IsFull, Remaining
      <3>2. now + n \in Nat
        BY <1>4
      <3>3. QED  BY <1>2, <1>3, <2>1, <3>1, <3>2, SuccessorFine
    <2>2. QED  BY <1>2, <2>1
  <1>8. IsFull(f) /\ Consecutive(f) =>
            Spectra(out)' = f.start .. f.start + f.cap - 1 /\ out'.start = f.start
    <2> SUFFICES ASSUME IsFull(f), Consecutive(f)
                 PROVE  Spectra(f) = f.start .. f.start + f.cap - 1
      BY <1>2 DEF Spectra
    <2>1. f.time = f.cap
      BY <1>3, <1>4 DEF IsFull, Remaining
    <2>2. QED  BY <1>4, <2>1, FullSpectra
  <1> USE DEF Window!WindowNext, Window!windowVars
  <1>9. CASE c # channels /\ IsFull(f)
    <2>1. /\ overlap' < current'.cap
          /\ Spectra(out)' = out'.start .. out'.start + current'.cap - 1
          /\ whole' => First' = out'.start + current'.cap - overlap'
      BY <1>1, <1>2, <1>3, <1>4, <1>5, <1>6, <1>7, <1>8, <1>9
    <2>2. whole => out'.start >= First
      BY <1>2, <1>4, <1>5, <1>9, FirstIsPast
    <2>3. Window!RestartAndHandOn
      BY <1>1, <1>9, <2>1, <2>2 DEF Window!RestartAndHandOn, Window!Reformat, First
    <2>4. QED  BY <2>3
  <1>10. CASE c # channels /\ ~IsFull(f)
    <2>1. overlap' < current'.cap /\ Spectra(out)' = Spectra(out) /\ out' = out
      BY <1>1, <1>2, <1>3, <1>7, <1>10 DEF Spectra
    <2>2. whole => First' >= First
      <3> SUFFICES ASSUME whole PROVE First' >= First
        OBVIOUS
      <3>1. f.start = now /\ current' = f
        BY <1>2, <1>5, <1>10
      <3>2. First' \in {now, now + n}
        BY <1>1, <3>1 DEF First
      <3>3. First \in Nat /\ First <= now
        BY FirstIsPast
      <3>4. QED  BY <1>4, <3>2, <3>3
    <2>3. Window!Restart
      BY <1>1, <1>10, <2>1, <2>2 DEF Window!Restart, Window!Reformat, First
    <2>4. QED  BY <2>3
  <1>11. CASE c = channels /\ whole' /\ IsFull(f)
    <2>1. /\ whole /\ overlap' = overlap /\ current'.cap = current.cap
          /\ Spectra(out)' = First .. First + current.cap - 1 /\ out'.start = First
          /\ First' = First + current.cap - overlap
      BY <1>1, <1>3, <1>5, <1>6, <1>7, <1>8, <1>11
    <2>2. Window!HandOn
      BY <1>1, <1>11, <2>1 DEF Window!HandOn, Window!CurrentWindow, First
    <2>3. QED  BY <2>2
  <1>12. CASE c = channels /\ whole' /\ ~IsFull(f)
    <2>1. /\ whole /\ overlap' = overlap /\ current'.cap = current.cap
          /\ Spectra(out)' = Spectra(out) /\ out' = out /\ First' = First
      BY <1>1, <1>2, <1>3, <1>5, <1>6, <1>7, <1>12 DEF Spectra
    <2>2. QED  BY <1>1, <1>12, <2>1 DEF First
  <1>13. CASE c = channels /\ ~whole'
    <2>1. overlap' = overlap /\ current'.cap = current.cap
      BY <1>1, <1>3, <1>7, <1>13
    <2>2. whole => \/ Spectra(out)' = Spectra(out) /\ out' = out
                   \/ Spectra(out)' = First .. First + current.cap - 1 /\ out'.start = First
      BY <1>2, <1>3, <1>5, <1>8, <1>13 DEF Spectra
    <2>3. Window!Lose
      BY <1>1, <1>13, <2>1, <2>2 DEF Window!Lose, Window!CurrentWindow, First
    <2>4. QED  BY <2>3
  <1>14. QED  BY <1>9, <1>10, <1>11, <1>12, <1>13

\* Buffering implements the sliding windows: whatever the sizes of chunks and
\* windows, as long as no input is lost.
THEOREM ImplementsWindows == Spec => ImplementsSlidingWindow
  <1>1. Init => Window!WindowInit
    <2> SUFFICES ASSUME Init PROVE Window!WindowInit
      OBVIOUS
    <2>1. current.cap = 0 /\ current.time = 0 /\ out = current /\ overlap = 0 /\ now = 1 /\ whole
      BY NewFields DEF Init
    <2>2. out.start = 0 /\ Spectra(out) = {}
      BY <2>1 DEF Init, NewBuffer, Spectra
    <2>3. QED  BY <2>1, <2>2 DEF Window!WindowInit, Init
  <1>2. IInv /\ [Next]_vars => [Window!WindowNext]_(Window!windowVars)
    <2> SUFFICES ASSUME IInv, [Next]_vars
                 PROVE  [Window!WindowNext]_(Window!windowVars)
      OBVIOUS
    <2>1. ASSUME NEW c \in ChanCounts, NEW n \in ChunkSizes, now + n <= MaxTime, Feed(c, n)
          PROVE  [Window!WindowNext]_(Window!windowVars)
      BY <2>1, FeedWindow
    <2>2. CASE (\E c \in ChanCounts, n \in ChunkSizes : Refuse(c, n)) \/ (\E g \in Gaps : Gap(g))
      <3>1. ~whole' /\ UNCHANGED <<current, overlap, channels, out>>
        BY <2>2 DEF Refuse, Gap
      <3>2. Window!Lose
        BY <3>1 DEF Window!Lose, Spectra
      <3>3. QED  BY <3>2 DEF Window!WindowNext
    <2>3. CASE UNCHANGED vars
      BY <2>3 DEF vars, Spectra, Window!windowVars
    <2>4. QED  BY <2>1, <2>2, <2>3 DEF Next
  <1>3. QED  BY <1>1, <1>2, Inductive, PTL DEF Spec, ImplementsSlidingWindow, Window!WindowSpec
===============================================================================
