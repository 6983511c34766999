--------------------------- MODULE NaturalLemmas ---------------------------
(***************************************************************************)
(* Induction over the natural numbers in a first-order form: the least     *)
(* element of a set.  The offsets of the ring's search, the stream the      *)
(* driver's files read and the lowest free descriptor of the server rest   *)
(* on it.                                                                  *)
(***************************************************************************)
EXTENDS Integers, SequencesExt, WellFoundedInduction, SequenceTheorems, TLAPS

\* Every non-empty set of naturals has a least element.
LEMMA LeastNat ==
  ASSUME NEW T \in SUBSET Nat, T # {}
  PROVE  \E x \in T : \A y \in T : x <= y
<1> DEFINE R == OpToRel(<, Nat)
<1>1. IsWellFoundedOn(R, Nat)
  BY NatLessThanWellFounded
<1>2. \A y, x \in Nat : y < x => <<y, x>> \in R
  BY DEF OpToRel
<1> HIDE DEF R
<1>3. PICK x \in T : \A y \in T : ~ (<<y, x>> \in R)
  BY <1>1, WFMin
<1>4. \A y \in T : ~ (y < x)
  BY <1>2, <1>3
<1>5. \A y \in T : x <= y
  BY <1>4
<1> QED BY <1>5

\* A set that has 0 and is closed under successor has every natural number.
LEMMA SetInduction ==
  ASSUME NEW S, 0 \in S, \A n \in Nat : n \in S => n + 1 \in S
  PROVE  \A n \in Nat : n \in S
<1> SUFFICES ASSUME Nat \ S # {} PROVE FALSE
  OBVIOUS
<1>1. PICK x \in Nat \ S : \A y \in Nat \ S : x <= y
  BY LeastNat
<1>2. x # 0 /\ x - 1 \in Nat /\ ~ (x <= x - 1)
  BY <1>1
<1>3. x - 1 \in S
  BY <1>1, <1>2
<1>4. (x - 1) + 1 \in S
  BY <1>2, <1>3
<1>5. (x - 1) + 1 = x
  BY <1>1
<1> QED BY <1>1, <1>4, <1>5

\* Partial sums exist.
LEMMA PrefixSums ==
  ASSUME NEW N \in Nat, NEW g, \A i \in 0 .. N - 1 : g[i] \in Nat
  PROVE  \E f \in [0 .. N -> Nat] :
           f[0] = 0 /\ \A i \in 1 .. N : f[i] = f[i - 1] + g[i - 1]
<1> DEFINE Sums(m, f) ==
             /\ f \in [0 .. m -> Nat] /\ f[0] = 0
             /\ \A i \in 1 .. m : f[i] = f[i - 1] + g[i - 1]
           S == {m \in Nat : m <= N => \E f : Sums(m, f)}
<1>1. 0 \in S
  <2>1. Sums(0, [i \in 0 .. 0 |-> 0])
    OBVIOUS
  <2> QED BY <2>1
<1>2. ASSUME NEW m \in Nat, m \in S, m + 1 <= N PROVE \E f : Sums(m + 1, f)
  <2>1. PICK f : Sums(m, f)
    BY <1>2
  <2> DEFINE h == [i \in 0 .. m + 1 |-> IF i <= m THEN f[i] ELSE f[m] + g[m]]
  <2>2. g[m] \in Nat /\ m \in 0 .. m /\ f[m] \in Nat
    BY <1>2, <2>1
  <2>3. h \in [0 .. m + 1 -> Nat] /\ h[0] = 0
    BY <2>1, <2>2
  <2>4. ASSUME NEW i \in 1 .. m + 1 PROVE h[i] = h[i - 1] + g[i - 1]
    <3>1. CASE i <= m
      BY <3>1, <2>1
    <3>2. CASE i = m + 1
      <4>1. i - 1 = m /\ ~ (i <= m)
        BY <3>2
      <4> QED BY <4>1, <3>2, <2>2
    <3> QED BY <3>1, <3>2
  <2>5. Sums(m + 1, h)
    BY <2>3, <2>4
  <2> QED BY <2>5
<1>3. ASSUME NEW m \in Nat, m \in S PROVE m + 1 \in S
  <2>1. m + 1 <= N => \E f : Sums(m + 1, f)
    BY <1>2, <1>3
  <2> QED BY <2>1, SMTT(30)
<1> HIDE DEF S
<1>4. N \in S
  BY <1>1, <1>3, SetInduction
<1>5. PICK f : Sums(N, f)
  BY <1>4 DEF S
<1> QED BY <1>5

-----------------------------------------------------------------------------
(* Concatenation.                                                          *)

\* Partial sums grow.
LEMMA SumsGrow ==
  ASSUME NEW n \in Nat, NEW off,
         \A i \in 0 .. n : off[i] \in Nat,
         \A i \in 0 .. n - 1 : off[i] <= off[i + 1]
  PROVE  \A i, j \in 0 .. n : i <= j => off[i] <= off[j]
<1> DEFINE S == {j \in Nat : j <= n => \A i \in 0 .. j : off[i] <= off[j]}
<1>1. 0 \in S
  BY DEF S
<1>2. ASSUME NEW j \in Nat, j \in S PROVE j + 1 \in S
  <2> SUFFICES ASSUME j + 1 <= n, NEW i \in 0 .. j + 1 PROVE off[i] <= off[j + 1]
    BY DEF S
  <2>1. j \in 0 .. n - 1 /\ j \in 0 .. n /\ j + 1 \in 0 .. n /\ i \in 0 .. n
    OBVIOUS
  <2>2. CASE i = j + 1
    BY <2>1, <2>2
  <2>3. CASE i \in 0 .. j
    <3>1. off[i] <= off[j] /\ off[j] <= off[j + 1]
      BY <1>2, <2>1, <2>3
    <3> QED BY <2>1, <3>1
  <2> QED BY <2>2, <2>3
<1> HIDE DEF S
<1>3. \A j \in Nat : j \in S
  BY <1>1, <1>2, SetInduction
<1> SUFFICES ASSUME NEW i \in 0 .. n, NEW j \in 0 .. n, i <= j PROVE off[i] <= off[j]
  OBVIOUS
<1>4. j \in S /\ j <= n /\ i \in 0 .. j
  BY <1>3
<1> QED BY <1>4 DEF S

\* The recursive function inside FlattenSeq exists.
LEMMA FlattenExists ==
  ASSUME NEW S, NEW seqs \in Seq(Seq(S)), NEW n \in Nat, n = Len(seqs)
  PROVE  \E f : f = [i \in 1 .. n |-> IF i = 1 THEN seqs[i] ELSE f[i - 1] \o seqs[i]]
<1> DEFINE Part(m, f) == f = [i \in 1 .. m |-> IF i = 1 THEN seqs[i] ELSE f[i - 1] \o seqs[i]]
           T == {m \in Nat : \E f : Part(m, f)}
<1>1. 0 \in T
  <2>1. Part(0, [i \in 1 .. 0 |-> 0])
    OBVIOUS
  <2> QED BY <2>1
<1>2. ASSUME NEW m \in Nat, m \in T PROVE m + 1 \in T
  <2>1. PICK f : Part(m, f)
    BY <1>2
  <2> DEFINE last == IF m = 0 THEN seqs[1] ELSE f[m] \o seqs[m + 1]
             g == [i \in 1 .. m + 1 |-> IF i = m + 1 THEN last ELSE f[i]]
  <2>2. ASSUME NEW i \in 1 .. m + 1
        PROVE  g[i] = IF i = 1 THEN seqs[i] ELSE g[i - 1] \o seqs[i]
    <3>1. CASE i = m + 1
      <4>1. CASE m = 0
        BY <3>1, <4>1
      <4>2. CASE m # 0
        <5>1. m \in 1 .. m + 1 /\ m # m + 1 /\ i - 1 = m /\ i # 1
          BY <3>1, <4>2
        <5>2. g[m] = f[m] /\ g[i] = f[m] \o seqs[m + 1]
          BY <3>1, <4>2, <5>1
        <5> QED BY <3>1, <5>1, <5>2
      <4> QED BY <4>1, <4>2
    <3>2. CASE i # m + 1
      <4>1. i \in 1 .. m
        BY <3>2
      <4>2. f[i] = IF i = 1 THEN seqs[i] ELSE f[i - 1] \o seqs[i]
        BY <2>1, <4>1
      <4>3. i # 1 => i - 1 \in 1 .. m + 1 /\ i - 1 # m + 1
        BY <4>1
      <4>4. g[i] = f[i] /\ (i # 1 => g[i - 1] = f[i - 1])
        BY <3>2, <4>3
      <4> QED BY <4>2, <4>4
    <3> QED BY <3>1, <3>2
  <2>3. Part(m + 1, g)
    <3>1. g = [i \in 1 .. m + 1 |-> g[i]]
      OBVIOUS
    <3> HIDE DEF g
    <3> QED BY <2>2, <3>1
  <2> HIDE DEF g
  <2>4. \E h : Part(m + 1, h)
    BY <2>3
  <2> HIDE DEF Part
  <2> QED BY <2>4
<1> HIDE DEF T
<1>3. n \in T
  BY <1>1, <1>2, SetInduction
<1> QED BY <1>3 DEF T

\* off[i - 1] elements come before the i-th part.
PartsBegin(off, seqs, n) ==
  /\ \A i \in 0 .. n : off[i] \in Nat
  /\ off[0] = 0
  /\ \A i \in 1 .. n : off[i] = off[i - 1] + Len(seqs[i])

\* Where the parts of a concatenation are.
LEMMA FlattenParts ==
  ASSUME NEW S, NEW seqs \in Seq(Seq(S)), NEW n \in Nat, n = Len(seqs),
         NEW off, PartsBegin(off, seqs, n)
  PROVE  /\ FlattenSeq(seqs) \in Seq(S)
         /\ Len(FlattenSeq(seqs)) = off[n]
         /\ \A k \in 1 .. n : \A j \in 1 .. Len(seqs[k]) :
              FlattenSeq(seqs)[off[k - 1] + j] = seqs[k][j]
<1> USE DEF PartsBegin
<1> DEFINE Full(f) == f = [i \in 1 .. n |-> IF i = 1 THEN seqs[i] ELSE f[i - 1] \o seqs[i]]
           flatten == CHOOSE f : Full(f)
<1>0. CASE n = 0
  <2>1. FlattenSeq(seqs) = seqs
    BY <1>0 DEF FlattenSeq
  <2>2. seqs = <<>>
    BY <1>0, EmptySeq
  <2> QED BY <1>0, <2>1, <2>2
<1>1. CASE n # 0
  <2>1. FlattenSeq(seqs) = flatten[n]
    BY <1>1 DEF FlattenSeq
  <2>2. Full(flatten)
    <3>1. \E f : Full(f)
      BY FlattenExists
    <3> HIDE DEF Full
    <3> QED BY <3>1
  <2> HIDE DEF flatten
  <2>3. \A i \in 1 .. n : flatten[i] = IF i = 1 THEN seqs[i] ELSE flatten[i - 1] \o seqs[i]
    BY <2>2
  <2> DEFINE Good(i) == /\ flatten[i] \in Seq(S)
                        /\ Len(flatten[i]) = off[i]
                        /\ \A k \in 1 .. i : off[k] <= off[i]
                        /\ \A k \in 1 .. i : \A j \in 1 .. Len(seqs[k]) :
                             flatten[i][off[k - 1] + j] = seqs[k][j]
             T == {i \in Nat : i \in 1 .. n => Good(i)}
  <2>4. 0 \in T
    OBVIOUS
  <2>5. ASSUME NEW i \in Nat, i \in T, i + 1 \in 1 .. n PROVE Good(i + 1)
    <3>1. seqs[i + 1] \in Seq(S) /\ off[i + 1] = off[i] + Len(seqs[i + 1])
      <4>1. (i + 1) - 1 = i
        OBVIOUS
      <4>2. seqs[i + 1] \in Seq(S)
        BY <2>5, ElementOfSeq
      <4> QED BY <2>5, <4>1, <4>2
    <3>2. Len(seqs[i + 1]) \in Nat /\ off[i] \in Nat /\ off[i + 1] \in Nat
      BY <2>5, <3>1, LenProperties
    <3>3. CASE i = 0
      <4>1. flatten[1] = seqs[1] /\ 0 + 1 = 1
        BY <2>3, <2>5, <3>3
      <4>2. off[1] = Len(seqs[1]) /\ seqs[1] \in Seq(S) /\ Len(seqs[1]) \in Nat
        BY <3>1, <3>2, <3>3, <4>1
      <4>3. \A k \in 1 .. 1 : k = 1 /\ k - 1 = 0
        OBVIOUS
      <4>4. \A j \in 1 .. Len(seqs[1]) : flatten[1][off[0] + j] = seqs[1][j]
        BY <4>1
      <4> QED BY <3>3, <4>1, <4>2, <4>3, <4>4
    <3>4. CASE i # 0
      <4>1. i \in 1 .. n
        BY <2>5, <3>4
      <4>2. Good(i)
        BY <2>5, <4>1
      <4> DEFINE s == flatten[i]
                 t == seqs[i + 1]
      <4>3. flatten[i + 1] = s \o t
        <5>1. i + 1 # 1 /\ (i + 1) - 1 = i
          BY <3>4
        <5> QED BY <2>3, <2>5, <5>1
      <4>4. s \in Seq(S) /\ t \in Seq(S) /\ Len(s) = off[i]
        BY <3>1, <4>2
      <4> HIDE DEF s, t
      <4>5. /\ s \o t \in Seq(S) /\ Len(s \o t) = off[i] + Len(t)
            /\ \A j \in 1 .. off[i] : (s \o t)[j] = s[j]
            /\ \A j \in 1 .. Len(t) : (s \o t)[off[i] + j] = t[j]
        <5>1. off[i] \in Nat /\ Len(t) \in Nat
          BY <3>2, <4>4
        <5>2. /\ s \o t \in Seq(S) /\ Len(s \o t) = off[i] + Len(t)
              /\ \A j \in 1 .. off[i] + Len(t) :
                   (s \o t)[j] = IF j <= off[i] THEN s[j] ELSE t[j - off[i]]
          BY <4>4, ConcatProperties, SMTT(30)
        <5>3. \A j \in 1 .. off[i] : j \in 1 .. off[i] + Len(t) /\ j <= off[i]
          BY <5>1
        <5>4. \A j \in 1 .. Len(t) : /\ off[i] + j \in 1 .. off[i] + Len(t)
                                     /\ ~ (off[i] + j <= off[i])
                                     /\ (off[i] + j) - off[i] = j
          BY <5>1
        <5> QED BY <5>2, <5>3, <5>4
      <4>6. \A k \in 1 .. i + 1 : off[k] <= off[i + 1]
        <5> TAKE k \in 1 .. i + 1
        <5>1. CASE k = i + 1
          BY <3>2, <5>1
        <5>2. CASE k \in 1 .. i
          <6>1. off[k] <= off[i] /\ off[k] \in Nat
            BY <4>1, <4>2, <5>2
          <6> QED BY <3>1, <3>2, <6>1
        <5> QED BY <5>1, <5>2
      <4>7. ASSUME NEW k \in 1 .. i + 1, NEW j \in 1 .. Len(seqs[k])
            PROVE  flatten[i + 1][off[k - 1] + j] = seqs[k][j]
        <5>1. CASE k = i + 1
          <6>1. k - 1 = i /\ seqs[k] = t
            BY <5>1 DEF t
          <6> QED BY <4>3, <4>5, <6>1
        <5>2. CASE k \in 1 .. i
          <6>1. off[k] <= off[i] /\ off[k] \in Nat /\ off[k] = off[k - 1] + Len(seqs[k])
            BY <4>1, <4>2, <5>2
          <6>2. k - 1 \in 0 .. n /\ k \in 1 .. Len(seqs)
            BY <4>1, <5>2
          <6>3. off[k - 1] \in Nat /\ Len(seqs[k]) \in Nat
            BY <6>2, ElementOfSeq, LenProperties
          <6>4. off[k - 1] + j \in 1 .. off[i]
            <7>1. \A a, l, b, c \in Nat : b = a + l /\ b <= c =>
                    \A x \in 1 .. l : a + x \in 1 .. c
              OBVIOUS
            <7>2. \A x \in 1 .. Len(seqs[k]) : off[k - 1] + x \in 1 .. off[i]
              BY <3>2, <6>1, <6>3, <7>1
            <7> QED BY <7>2
          <6>5. s[off[k - 1] + j] = seqs[k][j]
            BY <4>2, <5>2 DEF s
          <6> QED BY <4>3, <4>5, <6>4, <6>5
        <5> QED BY <5>1, <5>2
      <4>8. flatten[i + 1] \in Seq(S) /\ Len(flatten[i + 1]) = off[i + 1]
        BY <3>1, <4>3, <4>5 DEF t
      <4> QED BY <4>6, <4>7, <4>8
    <3> QED BY <3>3, <3>4
  <2>6. ASSUME NEW i \in Nat, i \in T PROVE i + 1 \in T
    <3>1. i + 1 \in 1 .. n => Good(i + 1)
      BY <2>5, <2>6
    <3> HIDE DEF Good
    <3> QED BY <3>1
  <2> HIDE DEF T
  <2>7. n \in T
    BY <2>4, <2>6, SetInduction
  <2>8. Good(n)
    BY <1>1, <2>7 DEF T
  <2> QED BY <2>1, <2>8
<1> QED BY <1>0, <1>1

\* A concatenation of sequences over a set is a sequence over it.
LEMMA FlattenInSeq ==
  ASSUME NEW S, NEW seqs \in Seq(Seq(S))
  PROVE  FlattenSeq(seqs) \in Seq(S)
<1> DEFINE n == Len(seqs)
           g == [i \in 0 .. n - 1 |-> Len(seqs[i + 1])]
<1>1. n \in Nat
  OBVIOUS
<1>2. \A i \in 0 .. n - 1 : g[i] \in Nat
  <2> TAKE i \in 0 .. n - 1
  <2>1. i + 1 \in 1 .. n
    BY <1>1
  <2> QED BY <2>1, ElementOfSeq, LenProperties
<1>3. \A i \in 1 .. n : g[i - 1] = Len(seqs[i])
  BY <1>1
<1> HIDE DEF n, g
<1>4. PICK off \in [0 .. n -> Nat] : off[0] = 0 /\ \A i \in 1 .. n : off[i] = off[i - 1] + g[i - 1]
  BY <1>1, <1>2, PrefixSums
<1>5. PartsBegin(off, seqs, n)
  BY <1>3, <1>4 DEF PartsBegin
<1> QED BY <1>1, <1>5, FlattenParts DEF n

\* FlattenSeq by its equations.
LEMMA FlattenUnfolds ==
  ASSUME NEW S, NEW seqs \in Seq(Seq(S))
  PROVE  \E f : /\ Len(seqs) # 0 => FlattenSeq(seqs) = f[Len(seqs)]
                /\ \A i \in 1 .. Len(seqs) : f[i] = IF i = 1 THEN seqs[i] ELSE f[i - 1] \o seqs[i]
<1> DEFINE n == Len(seqs)
           Full(f) == f = [i \in 1 .. n |-> IF i = 1 THEN seqs[i] ELSE f[i - 1] \o seqs[i]]
           flatten == CHOOSE f : Full(f)
<1>1. n # 0 => FlattenSeq(seqs) = flatten[n]
  BY DEF FlattenSeq
<1>2. Full(flatten)
  <2>1. n \in Nat /\ n = Len(seqs)
    OBVIOUS
  <2>2. \E f : Full(f)
    <3> HIDE DEF n
    <3> QED BY <2>1, FlattenExists
  <2> HIDE DEF Full
  <2> QED BY <2>2
<1> HIDE DEF flatten
<1>3. \A i \in 1 .. n : flatten[i] = IF i = 1 THEN seqs[i] ELSE flatten[i - 1] \o seqs[i]
  BY <1>2
<1> QED BY <1>1, <1>3

\* Nothing, and one sequence, concatenated.
LEMMA FlattenFew ==
  ASSUME NEW S
  PROVE  /\ FlattenSeq(<<>>) = <<>>
         /\ \A x \in Seq(S) : FlattenSeq(<<x>>) = x
<1>1. FlattenSeq(<<>>) = <<>>
  BY DEF FlattenSeq
<1>2. ASSUME NEW x \in Seq(S) PROVE FlattenSeq(<<x>>) = x
  <2>1. <<x>> \in Seq(Seq(S)) /\ Len(<<x>>) = 1 /\ <<x>>[1] = x
    OBVIOUS
  <2>2. PICK f : /\ Len(<<x>>) # 0 => FlattenSeq(<<x>>) = f[Len(<<x>>)]
                 /\ \A i \in 1 .. Len(<<x>>) :
                      f[i] = IF i = 1 THEN <<x>>[i] ELSE f[i - 1] \o <<x>>[i]
    BY <2>1, FlattenUnfolds
  <2> QED BY <2>1, <2>2
<1> QED BY <1>1, <1>2

\* One more sequence is concatenated at the end.
LEMMA FlattenAppend ==
  ASSUME NEW S, NEW seqs \in Seq(Seq(S)), NEW x \in Seq(S)
  PROVE  FlattenSeq(Append(seqs, x)) = FlattenSeq(seqs) \o x
<1> DEFINE n == Len(seqs)
           longer == Append(seqs, x)
<1>1. /\ n \in Nat /\ longer \in Seq(Seq(S)) /\ Len(longer) = n + 1 /\ longer[n + 1] = x
      /\ \A i \in 1 .. n : longer[i] = seqs[i]
  OBVIOUS
<1>2. PICK f : /\ n # 0 => FlattenSeq(seqs) = f[n]
               /\ \A i \in 1 .. n : f[i] = IF i = 1 THEN seqs[i] ELSE f[i - 1] \o seqs[i]
  BY FlattenUnfolds
<1> HIDE DEF longer
<1>3. PICK g : /\ n + 1 # 0 => FlattenSeq(longer) = g[n + 1]
               /\ \A i \in 1 .. n + 1 : g[i] = IF i = 1 THEN longer[i] ELSE g[i - 1] \o longer[i]
  <2>1. \E g : /\ Len(longer) # 0 => FlattenSeq(longer) = g[Len(longer)]
               /\ \A i \in 1 .. Len(longer) :
                    g[i] = IF i = 1 THEN longer[i] ELSE g[i - 1] \o longer[i]
    BY <1>1, FlattenUnfolds
  <2> QED BY <1>1, <2>1
<1> HIDE DEF n
<1>4. CASE n = 0
  <2>1. seqs = <<>>
    BY <1>4, EmptySeq DEF n
  <2>2. FlattenSeq(seqs) = <<>>
    BY <2>1, FlattenFew
  <2>3. FlattenSeq(longer) = x
    BY <1>1, <1>3, <1>4
  <2>4. <<>> \o x = x
    BY ConcatEmptySeq
  <2> QED BY <2>2, <2>3, <2>4 DEF longer
<1>5. CASE n # 0
  <2> DEFINE T == {i \in Nat : i \in 1 .. n => g[i] = f[i]}
  <2>1. 0 \in T
    OBVIOUS
  <2>2. ASSUME NEW i \in Nat, i \in T PROVE i + 1 \in T
    <3> SUFFICES ASSUME i + 1 \in 1 .. n PROVE g[i + 1] = f[i + 1]
      OBVIOUS
    <3>1. i + 1 \in 1 .. n + 1 /\ (i + 1) - 1 = i /\ (i + 1 # 1 => i \in 1 .. n)
      BY <1>1
    <3>2. longer[i + 1] = seqs[i + 1]
      BY <1>1
    <3>3. i + 1 # 1 => g[i] = f[i]
      BY <2>2, <3>1
    <3>4. g[i + 1] = IF i + 1 = 1 THEN longer[i + 1] ELSE g[i] \o longer[i + 1]
      BY <1>3, <3>1
    <3>5. f[i + 1] = IF i + 1 = 1 THEN seqs[i + 1] ELSE f[i] \o seqs[i + 1]
      BY <1>2, <3>1
    <3> QED BY <3>2, <3>3, <3>4, <3>5
  <2> HIDE DEF T
  <2>3. n \in T
    BY <1>1, <2>1, <2>2, SetInduction
  <2>4. g[n] = f[n]
    BY <1>1, <1>5, <2>3 DEF T
  <2>5. n + 1 \in 1 .. n + 1 /\ n + 1 # 1 /\ (n + 1) - 1 = n
    BY <1>1, <1>5
  <2>6. g[n + 1] = g[n] \o x
    BY <1>1, <1>3, <2>5
  <2>7. FlattenSeq(longer) = g[n + 1] /\ FlattenSeq(seqs) = f[n]
    BY <1>1, <1>2, <1>3, <1>5
  <2> QED BY <2>4, <2>6, <2>7 DEF longer
<1> QED BY <1>4, <1>5

\* Concatenation is associative.
LEMMA Associative ==
  ASSUME NEW S
  PROVE  \A a, b, d \in Seq(S) : (a \o b) \o d = a \o (b \o d)
BY ConcatAssociative

\* Four sequences in a row may be grouped in any way.
Regrouped(p, q, r, t) ==
  /\ (p \o (q \o r)) \o t = (p \o q) \o (r \o t)
  /\ ((p \o q) \o r) \o t = (p \o q) \o (r \o t)
  /\ ((p \o q) \o r) \o t = p \o (q \o (r \o t))

\* Concatenation is associative for four.
LEMMA Regroup ==
  ASSUME NEW S, NEW p \in Seq(S), NEW q \in Seq(S), NEW r \in Seq(S), NEW t \in Seq(S)
  PROVE  Regrouped(p, q, r, t)
<1>1. \A a, b, d \in Seq(S) : (a \o b) \o d = a \o (b \o d)
  BY Associative, SMTT(30)
<1>2. PICK u \in Seq(S), v \in Seq(S) : u = p \o q /\ v = r \o t
  BY ConcatProperties
<1>3. (p \o q) \o r = p \o (q \o r)
  BY ConcatAssociative, SMTT(30)
<1>4. (u \o r) \o t = u \o (r \o t)
  BY ConcatAssociative, SMTT(30)
<1>5. (p \o q) \o v = p \o (q \o v)
  BY ConcatAssociative, SMTT(30)
<1> QED BY <1>2, <1>3, <1>4, <1>5, Zenon DEF Regrouped

\* Two lists of sequences are concatenated one after the other.
LEMMA FlattenConcat ==
  ASSUME NEW S, NEW s \in Seq(Seq(S)), NEW t \in Seq(Seq(S))
  PROVE  FlattenSeq(s \o t) = FlattenSeq(s) \o FlattenSeq(t)
<1>0. /\ \A a, b, d \in Seq(Seq(S)) : (a \o b) \o d = a \o (b \o d)
      /\ \A a, b, d \in Seq(S) : (a \o b) \o d = a \o (b \o d)
  <2>1. \A a, b, d \in Seq(S) : (a \o b) \o d = a \o (b \o d)
    BY Associative, SMTT(30)
  <2> DEFINE Q == Seq(S)
  <2> HIDE DEF Q
  <2>2. \A a, b, d \in Seq(Q) : (a \o b) \o d = a \o (b \o d)
    BY Associative, SMTT(30)
  <2> QED BY <2>1, <2>2 DEF Q
<1> DEFINE Joins(u) == FlattenSeq(s \o u) = FlattenSeq(s) \o FlattenSeq(u)
           T == {n \in Nat : \A u \in Seq(Seq(S)) : Len(u) = n => Joins(u)}
<1>1. 0 \in T
  <2> SUFFICES ASSUME NEW u \in Seq(Seq(S)), Len(u) = 0 PROVE Joins(u)
    OBVIOUS
  <2>1. u = <<>>
    BY EmptySeq
  <2>2. FlattenSeq(u) = <<>> /\ s \o u = s
    BY <2>1, FlattenFew, ConcatEmptySeq
  <2>3. FlattenSeq(s) \in Seq(S)
    BY FlattenInSeq
  <2>4. FlattenSeq(s) \o <<>> = FlattenSeq(s)
    BY <2>3, ConcatEmptySeq
  <2> QED BY <2>2, <2>4
<1>2. ASSUME NEW n \in Nat, n \in T PROVE n + 1 \in T
  <2> SUFFICES ASSUME NEW u \in Seq(Seq(S)), Len(u) = n + 1 PROVE Joins(u)
    OBVIOUS
  <2> DEFINE front == SubSeq(u, 1, n)
             x == u[n + 1]
  <2>1. x \in Seq(S)
    BY ElementOfSeq
  <2>2. front \in Seq(Seq(S)) /\ Len(front) = n /\ \A i \in 1 .. n : front[i] = u[i]
    OBVIOUS
  <2> HIDE DEF front, x
  <2>3. u = Append(front, x)
    <3>1. Append(front, x) \in Seq(Seq(S)) /\ Len(Append(front, x)) = n + 1
      BY <2>1, <2>2
    <3>2. \A i \in 1 .. n + 1 : Append(front, x)[i] = u[i]
      BY <2>1, <2>2 DEF x
    <3> QED BY <3>1, <3>2, SeqEqual
  <2>4. s \o Append(front, x) = Append(s \o front, x)
    <3>1. Append(front, x) = front \o <<x>> /\ s \o front \in Seq(Seq(S)) /\ <<x>> \in Seq(Seq(S))
      BY <2>1, <2>2, AppendIsConcat
    <3>2. Append(s \o front, x) = (s \o front) \o <<x>>
      BY <2>1, <3>1, AppendIsConcat
    <3>3. (s \o front) \o <<x>> = s \o (front \o <<x>>)
      BY <1>0, <2>2, <3>1, Zenon
    <3> QED BY <3>1, <3>2, <3>3
  <2>5. Joins(front)
    BY <1>2, <2>2
  <2>6. s \o front \in Seq(Seq(S))
    BY <2>2
  <2>7. FlattenSeq(Append(s \o front, x)) = FlattenSeq(s \o front) \o x
    BY <2>1, <2>6, FlattenAppend
  <2>8. FlattenSeq(u) = FlattenSeq(front) \o x
    BY <2>1, <2>2, <2>3, FlattenAppend
  <2>9. FlattenSeq(s) \in Seq(S) /\ FlattenSeq(front) \in Seq(S)
    BY <2>2, FlattenInSeq
  <2>10. (FlattenSeq(s) \o FlattenSeq(front)) \o x = FlattenSeq(s) \o (FlattenSeq(front) \o x)
    BY <1>0, <2>1, <2>9, Zenon
  <2> QED BY <2>3, <2>4, <2>5, <2>7, <2>8, <2>10
<1> HIDE DEF T
<1>3. Len(t) \in Nat
  OBVIOUS
<1>4. Len(t) \in T
  BY <1>1, <1>2, <1>3, SetInduction
<1> QED BY <1>4 DEF T
=============================================================================
