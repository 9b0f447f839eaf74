----------------------------- MODULE SequenceLemmas ----------------------------
(***************************************************************************)
(* Induction over the natural numbers, and what FlattenSeq of SequencesExt *)
(* computes: lemmas for the proofs about concatenations of any number of   *)
(* sequences.                                                              *)
(*                                                                         *)
(* The library's induction theorems are about predicates, that is, about   *)
(* operators; the one used here is about sets, and follows from the        *)
(* theorem that each non-empty subset of a well-founded order has a        *)
(* minimal element.                                                        *)
(***************************************************************************)
EXTENDS Integers, SequencesExt, SequenceTheorems, WellFoundedInduction, TLAPS

-------------------------------------------------------------------------------
(* Induction *)

\* A set of numbers that is not empty has a least element.
LEMMA LeastElement ==
    ASSUME NEW T, T \subseteq Nat, T # {}
    PROVE  \E x \in T : \A y \in T : x <= y
  <1> DEFINE R == {ss \in Nat \X Nat : ss[1] < ss[2]}
  <1>1. IsWellFoundedOn(R, Nat)
    BY NatLessThanWellFounded DEF OpToRel
  <1>2. \A x, y \in Nat : <<y, x>> \notin R => x <= y
    OBVIOUS
  <1> HIDE DEF R
  <1>3. \E x \in T : \A y \in T : <<y, x>> \notin R
    BY <1>1, WFMin
  <1>4. QED  BY <1>2, <1>3

\* A set that has 0 and with each number the next one has all numbers.
LEMMA Induction ==
    ASSUME NEW S, 0 \in S, \A n \in Nat : n \in S => n + 1 \in S
    PROVE  Nat \subseteq S
  <1> SUFFICES ASSUME Nat \ S # {} PROVE FALSE
    OBVIOUS
  <1>1. PICK x \in Nat \ S : \A y \in Nat \ S : x <= y
    BY LeastElement
  <1>2. x - 1 \in Nat
    BY <1>1
  <1>3. x - 1 \in S
    BY <1>1, <1>2
  <1>4. QED  BY <1>1, <1>2, <1>3

\* A set that has the empty sequence and with each sequence those one element
\* longer has all sequences.
LEMMA SequenceInduction ==
    ASSUME NEW S, NEW T, <<>> \in T,
           \A s \in Seq(S), e \in S : s \in T => Append(s, e) \in T
    PROVE  Seq(S) \subseteq T
  <1> DEFINE L == {n \in Nat : \A s \in Seq(S) : Len(s) = n => s \in T}
  <1>1. 0 \in L
    BY EmptySeq
  <1>2. ASSUME NEW n \in Nat, n \in L
        PROVE  n + 1 \in L
    <2> SUFFICES ASSUME NEW s \in Seq(S), Len(s) = n + 1 PROVE s \in T
      OBVIOUS
    <2>1. s # <<>>
      OBVIOUS
    <2>2. PICK u \in Seq(S), e \in S : s = Append(u, e)
      BY <2>1, SequenceEmptyOrAppend
    <2>3. Len(u) = n
      BY <2>2, AppendProperties, LenProperties
    <2>4. u \in T
      BY <1>2, <2>3
    <2>5. QED  BY <2>2, <2>4
  <1> HIDE DEF L
  <1>3. Nat \subseteq L
    BY <1>1, <1>2, Induction
  <1>4. ASSUME NEW s \in Seq(S)
        PROVE  s \in T
    <2>1. Len(s) \in L
      BY <1>3, LenProperties
    <2>2. QED  BY <2>1 DEF L
  <1>5. QED  BY <1>4

\* The places of a sequence one element longer are the old ones and the last.
LEMMA AppendPlaces ==
    ASSUME NEW S, NEW s \in Seq(S), NEW e \in S, NEW t, t = Append(s, e)
    PROVE  /\ t \in Seq(S) /\ Len(t) = Len(s) + 1
           /\ \A m \in DOMAIN s : t[m] = s[m]
           /\ \A m \in DOMAIN t : m \in DOMAIN s \/ (m = Len(t) /\ t[m] = e)
  <1>1. /\ t \in Seq(S) /\ Len(t) = Len(s) + 1 /\ Len(s) \in Nat
        /\ DOMAIN s = 1 .. Len(s) /\ DOMAIN t = 1 .. Len(t)
        /\ \A m \in 1 .. Len(s) : t[m] = s[m]
        /\ t[Len(s) + 1] = e
    BY AppendProperties, LenProperties
  <1>2. ASSUME NEW m \in DOMAIN t, m \notin DOMAIN s
        PROVE  m = Len(t) /\ t[m] = e
    <2>1. m = Len(s) + 1
      BY <1>1, <1>2
    <2>2. QED  BY <1>1, <2>1, Zenon
  <1>3. QED  BY <1>1, <1>2

-------------------------------------------------------------------------------
(* FlattenSeq *)

\* A name for concatenation, so that the steps that only pass it on need not look
\* into it
Concat(a, b) == a \o b

\* f is the function that FlattenSeq chooses, for the first n sequences of s.
Flattens(f, s, n) ==
    f = [i \in 1 .. n |-> IF i = 1 THEN s[i] ELSE Concat(f[i - 1], s[i])]

\* What it is at one place
LEMMA FlattensAt ==
    ASSUME NEW f, NEW s, NEW n, Flattens(f, s, n), NEW i \in 1 .. n
    PROVE  f[i] = IF i = 1 THEN s[i] ELSE Concat(f[i - 1], s[i])
  <1> DEFINE g == [j \in 1 .. n |-> IF j = 1 THEN s[j] ELSE Concat(f[j - 1], s[j])]
  <1>1. f = g
    BY Zenon DEF Flattens
  <1>2. g[i] = IF i = 1 THEN s[i] ELSE Concat(f[i - 1], s[i])
    OBVIOUS
  <1> HIDE DEF g
  <1>3. QED  BY <1>1, <1>2

\* There is such a function.
LEMMA FlattensExists ==
    ASSUME NEW s, NEW m \in Nat
    PROVE  \E f : Flattens(f, s, m)
  <1> DEFINE S == {n \in Nat : \E f : Flattens(f, s, n)}
  <1>1. 0 \in S
    <2> DEFINE f == [i \in 1 .. 0 |-> s[i]]
    <2>1. Flattens(f, s, 0)
      BY DEF Flattens
    <2>2. QED  BY <2>1
  <1>2. ASSUME NEW n \in Nat, n \in S
        PROVE  n + 1 \in S
    <2>1. PICK f : Flattens(f, s, n)
      BY <1>2
    <2> DEFINE g == [i \in 1 .. n + 1 |->
                        IF i = 1 THEN s[i]
                        ELSE IF i = n + 1 THEN Concat(f[n], s[i]) ELSE f[i]]
    <2>2. ASSUME NEW i \in 1 .. n + 1
          PROVE  g[i] = IF i = 1 THEN s[i] ELSE Concat(g[i - 1], s[i])
      <3>1. CASE i = 1
        BY <3>1
      <3>2. CASE i # 1
        <4>1. i - 1 \in 1 .. n /\ i - 1 # n + 1
          BY <3>2
        <4>2. g[i - 1] = f[i - 1]
          <5>1. CASE i - 1 = 1
            <6>1. 1 \in 1 .. n
              BY <4>1, <5>1
            <6>2. f[1] = s[1]
              BY <2>1, <6>1, FlattensAt
            <6>3. QED  BY <4>1, <5>1, <6>2
          <5>2. CASE i - 1 # 1
            BY <4>1, <5>2
          <5>3. QED  BY <5>1, <5>2
        <4>3. CASE i = n + 1
          BY <3>2, <4>2, <4>3
        <4>4. CASE i # n + 1
          <5>1. f[i] = Concat(f[i - 1], s[i])
            <6>1. i \in 1 .. n
              BY <4>4
            <6>2. QED  BY <2>1, <3>2, <6>1, FlattensAt
          <5>2. g[i] = f[i]
            BY <3>2, <4>4
          <5>3. QED  BY <3>2, <4>2, <5>1, <5>2
        <4>5. QED  BY <4>3, <4>4
      <3>3. QED  BY <3>1, <3>2
    <2>3. g = [i \in 1 .. n + 1 |-> g[i]]
      OBVIOUS
    <2> HIDE DEF g
    <2>4. [i \in 1 .. n + 1 |-> g[i]] =
             [i \in 1 .. n + 1 |-> IF i = 1 THEN s[i] ELSE Concat(g[i - 1], s[i])]
      BY <2>2
    <2>5. Flattens(g, s, n + 1)
      BY <2>3, <2>4, Zenon DEF Flattens
    <2>6. QED  BY <2>5
  <1> HIDE DEF S
  <1>3. m \in S
    BY <1>1, <1>2, Induction
  <1>4. QED  BY <1>3 DEF S

\* Flattening computes it.
LEMMA FlattenByEquation ==
    ASSUME NEW s, Len(s) \in Nat \ {0}
    PROVE  \E f : Flattens(f, s, Len(s)) /\ FlattenSeq(s) = f[Len(s)]
  <1> DEFINE f == CHOOSE f : f = [i \in 1 .. Len(s) |->
                                     IF i = 1 THEN s[i] ELSE Concat(f[i - 1], s[i])]
  <1>1. FlattenSeq(s) = f[Len(s)]
    BY DEF FlattenSeq, Concat
  <1>2. \E g : Flattens(g, s, Len(s))
    BY FlattensExists
  <1>3. f = [i \in 1 .. Len(s) |-> IF i = 1 THEN s[i] ELSE Concat(f[i - 1], s[i])]
    BY <1>2, Zenon DEF Flattens
  <1>4. QED  BY <1>1, <1>3 DEF Flattens

\* The first k places of s are those of t.
AgreeUpTo(s, t, k) == \A i \in 1 .. k : s[i] = t[i]

\* The function is the same for two sequences as far as they agree.
LEMMA FlattensAgree ==
    ASSUME NEW s, NEW t, NEW k \in Nat, NEW n \in Nat, NEW m \in 1 .. k, k <= n,
           AgreeUpTo(s, t, k),
           NEW f, Flattens(f, s, k), NEW g, Flattens(g, t, n)
    PROVE  f[m] = g[m]
  <1> DEFINE S == {i \in Nat : i \in 1 .. k => f[i] = g[i]}
  <1>1. 0 \in S
    OBVIOUS
  <1>2. ASSUME NEW i \in Nat, i \in S
        PROVE  i + 1 \in S
    <2> SUFFICES ASSUME i + 1 \in 1 .. k PROVE f[i + 1] = g[i + 1]
      OBVIOUS
    <2>1. i + 1 \in 1 .. k /\ i + 1 \in 1 .. n /\ s[i + 1] = t[i + 1]
      BY DEF AgreeUpTo
    <2>2. CASE i = 0
      <3>1. f[i + 1] = s[i + 1] /\ g[i + 1] = t[i + 1]
        <4>1. i + 1 = 1
          BY <2>2
        <4>2. QED  BY <2>1, <4>1, FlattensAt
      <3>2. QED  BY <2>1, <3>1
    <2>3. CASE i # 0
      <3>1. f[i] = g[i]
        BY <1>2, <2>3
      <3>2. f[i + 1] = Concat(f[i], s[i + 1]) /\ g[i + 1] = Concat(g[i], t[i + 1])
        <4>1. i + 1 # 1 /\ i + 1 - 1 = i
          BY <2>3
        <4>2. f[i + 1] = Concat(f[i + 1 - 1], s[i + 1]) /\ g[i + 1] = Concat(g[i + 1 - 1], t[i + 1])
          BY <2>1, <4>1, FlattensAt
        <4>3. QED  BY <4>1, <4>2
      <3>3. QED  BY <2>1, <3>1, <3>2
    <2>4. QED  BY <2>2, <2>3
  <1> HIDE DEF S
  <1>3. m \in S
    BY <1>1, <1>2, Induction
  <1>4. QED  BY <1>3 DEF S

\* Nothing is the concatenation of nothing.
LEMMA FlattenEmpty == FlattenSeq(<<>>) = <<>>
  BY DEF FlattenSeq

\* One sequence more is appended to the concatenation of the others.
LEMMA FlattenAppend ==
    ASSUME NEW S, NEW s \in Seq(Seq(S)), NEW x \in Seq(S)
    PROVE  FlattenSeq(Append(s, x)) = FlattenSeq(s) \o x
  <1> DEFINE t == Append(s, x)
             n == Len(s)
  <1>1. /\ t \in Seq(Seq(S)) /\ Len(t) = n + 1 /\ Len(s) = n /\ n \in Nat
        /\ \A i \in 1 .. n : t[i] = s[i]
        /\ t[n + 1] = x
    BY AppendProperties
  <1> HIDE DEF t, n
  <1>2. PICK g : Flattens(g, t, n + 1) /\ FlattenSeq(t) = g[n + 1]
    <2>1. Len(t) \in Nat \ {0}
      BY <1>1
    <2>2. QED  BY <1>1, <2>1, FlattenByEquation
  <1>3. n + 1 \in Nat /\ n + 1 \in 1 .. n + 1 /\ n + 1 - 1 = n
    BY <1>1
  <1>4. CASE n = 0
    <2>1. s = <<>> /\ FlattenSeq(s) = <<>>
      BY <1>1, <1>4, FlattenEmpty
    <2>2. g[n + 1] = t[n + 1]
      <3>1. n + 1 = 1
        BY <1>4
      <3>2. QED  BY <1>1, <1>2, <1>3, <3>1, FlattensAt
    <2>3. FlattenSeq(s) \o x = x
      BY <2>1, ConcatEmptySeq
    <2>4. QED  BY <1>1, <1>2, <2>1, <2>2, <2>3 DEF t
  <1>5. CASE n # 0
    <2>1. PICK f : Flattens(f, s, n) /\ FlattenSeq(s) = f[n]
      BY <1>1, <1>5, FlattenByEquation
    <2>2. f[n] = g[n]
      <3>1. n \in 1 .. n /\ n <= n + 1
        BY <1>1, <1>5
      <3>2. AgreeUpTo(s, t, n)
        BY <1>1 DEF AgreeUpTo
      <3>3. n \in Nat /\ n + 1 \in Nat
        BY <1>1
      <3>4. Flattens(f, s, n) /\ Flattens(g, t, n + 1)
        BY <1>2, <2>1
      <3>5. QED  BY <3>1, <3>2, <3>3, <3>4, FlattensAgree
    <2>3. g[n + 1] = Concat(g[n + 1 - 1], t[n + 1])
      <3>1. n + 1 # 1
        BY <1>1, <1>5
      <3>2. QED  BY <1>1, <1>2, <1>3, <3>1, FlattensAt
    <2>4. QED  BY <1>1, <1>2, <1>3, <2>1, <2>2, <2>3 DEF Concat, t
  <1>6. QED  BY <1>4, <1>5

\* Flattening sequences of S gives a sequence of S.
LEMMA FlattenType ==
    ASSUME NEW S
    PROVE  \A s \in Seq(Seq(S)) : FlattenSeq(s) \in Seq(S)
  <1> DEFINE T == {s \in Seq(Seq(S)) : FlattenSeq(s) \in Seq(S)}
  <1>1. <<>> \in T
    BY FlattenEmpty, EmptySeq
  <1>2. ASSUME NEW s \in Seq(Seq(S)), NEW x \in Seq(S), s \in T
        PROVE  Append(s, x) \in T
    <2>1. FlattenSeq(Append(s, x)) = FlattenSeq(s) \o x
      BY FlattenAppend
    <2>2. FlattenSeq(s) \in Seq(S)
      BY <1>2
    <2>3. FlattenSeq(s) \o x \in Seq(S)
      BY <2>2, ConcatProperties
    <2>4. Append(s, x) \in Seq(Seq(S))
      BY AppendProperties
    <2>5. QED  BY <2>1, <2>3, <2>4
  <1> HIDE DEF T
  <1>3. Seq(Seq(S)) \subseteq T
    BY <1>1, <1>2, SequenceInduction
  <1>4. QED  BY <1>3 DEF T

\* Empty sequences add nothing.
LEMMA FlattenEmpties ==
    ASSUME NEW S
    PROVE  \A s \in Seq(Seq(S)) :
              (\A k \in 1 .. Len(s) : s[k] = <<>>) => FlattenSeq(s) = <<>>
  <1> DEFINE T == {s \in Seq(Seq(S)) :
                      (\A k \in 1 .. Len(s) : s[k] = <<>>) => FlattenSeq(s) = <<>>}
  <1>1. <<>> \in T
    BY FlattenEmpty, EmptySeq
  <1>2. ASSUME NEW s \in Seq(Seq(S)), NEW x \in Seq(S), s \in T
        PROVE  Append(s, x) \in T
    <2>1. /\ Append(s, x) \in Seq(Seq(S)) /\ Len(Append(s, x)) = Len(s) + 1
          /\ \A i \in 1 .. Len(s) : Append(s, x)[i] = s[i]
          /\ Append(s, x)[Len(s) + 1] = x
      BY AppendProperties
    <2> SUFFICES ASSUME \A k \in 1 .. Len(s) + 1 : Append(s, x)[k] = <<>>
                 PROVE  FlattenSeq(Append(s, x)) = <<>>
      BY <2>1
    <2>2. Len(s) \in Nat
      BY LenProperties
    <2>3. x = <<>>
      BY <2>1, <2>2
    <2>4. \A k \in 1 .. Len(s) : s[k] = <<>>
      BY <2>1, <2>2
    <2>5. FlattenSeq(s) = <<>>
      BY <1>2, <2>4
    <2>6. FlattenSeq(Append(s, x)) = FlattenSeq(s) \o x
      BY FlattenAppend
    <2>7. <<>> \o <<>> = <<>>
      BY EmptySeq, ConcatEmptySeq
    <2>8. QED  BY <2>3, <2>5, <2>6, <2>7
  <1> HIDE DEF T
  <1>3. Seq(Seq(S)) \subseteq T
    BY <1>1, <1>2, SequenceInduction
  <1>4. QED  BY <1>3 DEF T

\* If all sequences but the last are empty, flattening gives the last.
LEMMA FlattenLast ==
    ASSUME NEW S, NEW s \in Seq(Seq(S)), s # <<>>,
           \A k \in 1 .. Len(s) - 1 : s[k] = <<>>
    PROVE  FlattenSeq(s) = s[Len(s)]
  <1>1. PICK u \in Seq(Seq(S)), x \in Seq(S) : s = Append(u, x)
    BY SequenceEmptyOrAppend
  <1>2. /\ Len(s) = Len(u) + 1 /\ Len(u) \in Nat
        /\ \A k \in 1 .. Len(u) : s[k] = u[k]
        /\ s[Len(u) + 1] = x
    BY <1>1, AppendProperties, LenProperties
  <1>3. \A k \in 1 .. Len(u) : u[k] = <<>>
    <2>1. 1 .. Len(s) - 1 = 1 .. Len(u)
      BY <1>2
    <2>2. QED  BY <1>2, <2>1, Zenon
  <1>4. FlattenSeq(u) = <<>>
    BY <1>3, FlattenEmpties
  <1>5. FlattenSeq(s) = <<>> \o x
    BY <1>1, <1>4, FlattenAppend
  <1>6. <<>> \o x = x
    BY ConcatEmptySeq
  <1>7. QED  BY <1>2, <1>5, <1>6

\* What is flattened begins with the first sequence that is not empty.
LEMMA FlattenFirst ==
    ASSUME NEW S, NEW m \in Nat \ {0}
    PROVE  \A s \in Seq(Seq(S)) :
              m <= Len(s) /\ (\A k \in 1 .. m - 1 : s[k] = <<>>)
                 => \E r \in Seq(S) : FlattenSeq(s) = s[m] \o r
  <1> DEFINE P(s) == m <= Len(s) /\ (\A k \in 1 .. m - 1 : s[k] = <<>>)
                        => \E r \in Seq(S) : FlattenSeq(s) = s[m] \o r
             T == {s \in Seq(Seq(S)) : P(s)}
  <1>1. <<>> \in T
    <2>1. Len(<<>>) = 0
      OBVIOUS
    <2>2. P(<<>>)
      BY <2>1
    <2>3. QED  BY <2>2, EmptySeq
  <1>2. ASSUME NEW s \in Seq(Seq(S)), NEW x \in Seq(S), s \in T
        PROVE  Append(s, x) \in T
    <2> DEFINE t == Append(s, x)
    <2>1. /\ t \in Seq(Seq(S)) /\ Len(t) = Len(s) + 1 /\ Len(s) \in Nat
          /\ \A i \in 1 .. Len(s) : t[i] = s[i]
          /\ t[Len(s) + 1] = x
      BY AppendProperties, LenProperties
    <2>2. FlattenSeq(t) = FlattenSeq(s) \o x
      BY FlattenAppend
    <2> HIDE DEF t
    <2> SUFFICES ASSUME m <= Len(s) + 1, \A k \in 1 .. m - 1 : t[k] = <<>>
                 PROVE  \E r \in Seq(S) : FlattenSeq(t) = t[m] \o r
      BY <2>1 DEF t
    <2> DEFINE n == Len(s)
    <2> HIDE DEF n
    <2>3. ASSUME NEW k \in 1 .. m - 1
          PROVE  s[k] = <<>>
      <3>1. n \in Nat /\ m <= n + 1
        BY <2>1 DEF n
      <3>2. k \in 1 .. n
        BY <3>1
      <3>3. s[k] = t[k]
        BY <2>1, <3>2 DEF n
      <3>4. QED  BY <3>3
    <2>4. CASE m <= Len(s)
      <3>1. PICK r \in Seq(S) : FlattenSeq(s) = s[m] \o r
        BY <1>2, <2>3, <2>4
      <3>2. s[m] \in Seq(S) /\ t[m] = s[m]
        BY <2>1, <2>4, ElementOfSeq
      <3>3. \A u \in Seq(S) : (u \o r) \o x = u \o (r \o x)
        BY ConcatAssociative
      <3>4. r \o x \in Seq(S)
        BY ConcatProperties
      <3>5. FlattenSeq(t) = t[m] \o (r \o x)
        BY <2>2, <3>1, <3>2, <3>3
      <3>6. QED  BY <3>4, <3>5
    <2>5. CASE m = Len(s) + 1
      <3>1. \A k \in 1 .. Len(s) : s[k] = <<>>
        BY <2>1, <2>3, <2>5
      <3>2. FlattenSeq(s) = <<>>
        BY <3>1, FlattenEmpties
      <3>3. <<>> \o x = x /\ x \o <<>> = x /\ <<>> \in Seq(S)
        BY ConcatEmptySeq, EmptySeq
      <3>4. FlattenSeq(t) = t[m] \o <<>>
        BY <2>1, <2>2, <2>5, <3>2, <3>3
      <3>5. QED  BY <3>3, <3>4
    <2>6. m <= Len(s) \/ m = Len(s) + 1
      <3>1. n \in Nat /\ m <= n + 1
        BY <2>1 DEF n
      <3>2. m <= n \/ m = n + 1
        BY <3>1
      <3>3. QED  BY <3>2 DEF n
    <2>7. QED  BY <2>4, <2>5, <2>6
  <1> HIDE DEF T
  <1>3. Seq(Seq(S)) \subseteq T
    BY <1>1, <1>2, SequenceInduction
  <1>4. QED  BY <1>3 DEF T

\* A sequence is a prefix of what it begins, and so are its own beginnings.
LEMMA PrefixOfConcat ==
    ASSUME NEW S, NEW s \in Seq(S), NEW r \in Seq(S), NEW n \in 0 .. Len(s)
    PROVE  IsPrefix(SubSeq(s, 1, n), s \o r)
  <1> DEFINE p == SubSeq(s, 1, n)
             c == s \o r
  <1>1. /\ Len(s) \in Nat /\ Len(r) \in Nat
        /\ c \in Seq(S) /\ Len(c) = Len(s) + Len(r)
        /\ \A i \in 1 .. Len(s) : c[i] = s[i]
    BY ConcatProperties, LenProperties
  <1>2. \A i \in 1 .. n : s[i] \in S
    BY <1>1, ElementOfSeq
  <1>3. p \in Seq(S) /\ Len(p) = n /\ \A i \in 1 .. n : p[i] = s[i]
    BY <1>1, <1>2, SubSeqProperties
  <1> HIDE DEF p, c
  <1>4. n \in Nat /\ n <= Len(s)
    BY <1>1
  <1>5. SubSeq(p, 1, n) = p
    BY <1>3, SubSeqFull
  <1>6. SubSeq(c, 1, n) = p
    <2>1. /\ SubSeq(c, 1, n) \in Seq(S) /\ Len(SubSeq(c, 1, n)) = n
          /\ \A i \in 1 .. n : SubSeq(c, 1, n)[i] = c[i]
      <3>1. \A i \in 1 .. n : c[i] \in S
        BY <1>1, <1>2, <1>4
      <3>2. QED  BY <1>4, <3>1, SubSeqProperties
    <2>2. \A i \in 1 .. n : SubSeq(c, 1, n)[i] = p[i]
      BY <1>1, <1>3, <1>4, <2>1
    <2>3. QED  BY <1>3, <2>1, <2>2, SeqEqual
  <1>7. QED  BY <1>1, <1>3, <1>4, <1>5, <1>6 DEF IsPrefix, p, c
===============================================================================
