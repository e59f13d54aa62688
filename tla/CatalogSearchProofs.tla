-------------------------- MODULE CatalogSearchProofs --------------------------
(***************************************************************************)
(* Proofs about CatalogSearch: what the recursive functions of the         *)
(* response compute for every sequence, and from that what a response says *)
(* of every source, for any sources and pages.                             *)
(***************************************************************************)
EXTENDS CatalogSearch, FiniteSetTheorems, SequenceTheorems, TLAPS

(* Induction over the natural numbers for a set instead of a predicate: the
   numbers up to one that is not in the set, and not in it, would map into
   themselves without their last one, by a function that repeats no value.   *)
LEMMA SetInduction ==
  ASSUME NEW S, 0 \in S, \A n \in Nat : n \in S => n + 1 \in S
  PROVE  Nat \subseteq S
<1>1. SUFFICES ASSUME NEW m \in Nat, m \notin S PROVE FALSE
  OBVIOUS
<1> DEFINE T == {k \in 0..m : k \notin S}
           U == T \ {m}
           f == [k \in T |-> k - 1]
<1>2. IsFiniteSet(T) /\ m \in T
  <2>1. IsFiniteSet(0..m)
    BY FS_Interval
  <2>2. QED BY <1>1, <2>1, FS_Subset
<1>3. IsFiniteSet(U) /\ Cardinality(U) < Cardinality(T)
  <2>1. IsFiniteSet(U) /\ Cardinality(U) = Cardinality(T) - 1
    <3> HIDE DEF T
    <3> QED BY <1>2, FS_RemoveElement
  <2>2. Cardinality(T) \in Nat
    <3> HIDE DEF T
    <3> QED BY <1>2, FS_CardinalityType
  <2>3. QED BY <2>1, <2>2
<1>4. f \in [T -> U]
  <2>1. ASSUME NEW k \in T PROVE k - 1 \in U
    <3>1. k \in Nat /\ k # 0 /\ k <= m
      OBVIOUS
    <3>2. k - 1 \in Nat /\ k = (k - 1) + 1
      BY <3>1
    <3>3. k - 1 \notin S
      BY <3>2
    <3>4. QED BY <3>1, <3>2, <3>3
  <2>2. QED BY <2>1
<1>5. \E x, y \in T : x # y /\ f[x] = f[y]
  <2> HIDE DEF T, U, f
  <2> QED BY <1>2, <1>3, <1>4, FS_PigeonHole
<1>6. QED BY <1>5

-----------------------------------------------------------------------------
(* Pick and Flatten.                                                        *)

(* What the function in the definition of Pick satisfies, up to a place. *)
PicksUpTo(g, seq, places, n) ==
  g = [i \in 0..n |-> IF i = 0 THEN <<>>
                      ELSE IF i \in places THEN Append(g[i - 1], seq[i])
                      ELSE g[i - 1]]

PickedUpTo(seq, places) == CHOOSE g : PicksUpTo(g, seq, places, Len(seq))

(* There is one. *)
LEMMA PickFunction ==
  ASSUME NEW seq, NEW places, NEW n \in Nat
  PROVE  \E g : PicksUpTo(g, seq, places, n)
<1> DEFINE Step(g, i) == IF i \in places THEN Append(g[i - 1], seq[i]) ELSE g[i - 1]
           S == {m \in Nat : \E g : PicksUpTo(g, seq, places, m)}
<1>1. 0 \in S
  <2>1. PicksUpTo([i \in 0..0 |-> <<>>], seq, places, 0)
    BY DEF PicksUpTo
  <2>2. QED BY <2>1
<1>2. ASSUME NEW m \in Nat, m \in S PROVE m + 1 \in S
  <2>1. PICK g : PicksUpTo(g, seq, places, m)
    BY <1>2
  <2> DEFINE h == [i \in 0..(m + 1) |-> IF i = 0 THEN <<>> ELSE Step(g, i)]
  <2>2. ASSUME NEW i \in 0..m PROVE h[i] = g[i]
    <3>1. i \in 0..(m + 1)
      OBVIOUS
    <3>2. g[i] = IF i = 0 THEN <<>> ELSE Step(g, i)
      BY <2>1 DEF PicksUpTo
    <3>3. QED BY <3>1, <3>2
  <2>3. ASSUME NEW i \in 0..(m + 1), i # 0 PROVE Step(h, i) = Step(g, i)
    <3>1. i - 1 \in 0..m
      BY <2>3
    <3>2. h[i - 1] = g[i - 1]
      BY <2>2, <3>1
    <3>3. QED BY <3>2
  <2>4. PicksUpTo(h, seq, places, m + 1)
    BY <2>3 DEF PicksUpTo
  <2>5. QED BY <2>4
<1>3. n \in S
  <2> HIDE DEF S
  <2> QED BY <1>1, <1>2, SetInduction
<1>4. QED BY <1>3

(* So Pick computes it step by step. *)
LEMMA PickSteps ==
  ASSUME NEW S, NEW seq \in Seq(S), NEW places
  PROVE  /\ Pick(seq, places) = PickedUpTo(seq, places)[Len(seq)]
         /\ PickedUpTo(seq, places)[0] = <<>>
         /\ \A i \in 1..Len(seq) :
              PickedUpTo(seq, places)[i] =
                IF i \in places THEN Append(PickedUpTo(seq, places)[i - 1], seq[i])
                                ELSE PickedUpTo(seq, places)[i - 1]
<1>1. Len(seq) \in Nat
  BY LenProperties
<1>2. Pick(seq, places) = PickedUpTo(seq, places)[Len(seq)]
  BY DEF Pick, PickedUpTo, PicksUpTo
<1> DEFINE p == PickedUpTo(seq, places)
<1>3. PicksUpTo(p, seq, places, Len(seq))
  BY <1>1, PickFunction DEF PickedUpTo
<1> HIDE DEF p
<1>4. p[0] = <<>>
  BY <1>1, <1>3 DEF PicksUpTo
<1>5. ASSUME NEW i \in 1..Len(seq)
      PROVE  p[i] = IF i \in places THEN Append(p[i - 1], seq[i]) ELSE p[i - 1]
  <2>1. i \in 0..Len(seq) /\ i # 0
    BY <1>1
  <2>2. QED BY <1>3, <2>1 DEF PicksUpTo
<1>6. QED BY <1>2, <1>4, <1>5 DEF p

(* Pick takes the elements at the places, in order: at gives the place each came from. *)
Picks(at, picked, seq, places) ==
  /\ at \in [1..Len(picked) -> places]
  /\ \A n \in 1..Len(picked) : picked[n] = seq[at[n]]
  /\ \A q \in places : \E n \in 1..Len(picked) : at[n] = q
  /\ \A m, n \in 1..Len(picked) : m < n => at[m] < at[n]

PickedWell(S, seq, places, m) ==
  LET p == PickedUpTo(seq, places)[m]
  IN  p \in Seq(S) /\ \E at : Picks(at, p, seq, places \cap 1..m)

LEMMA PickProperties ==
  ASSUME NEW S, NEW seq \in Seq(S), NEW places \in SUBSET (1..Len(seq))
  PROVE  /\ Pick(seq, places) \in Seq(S)
         /\ \E at : Picks(at, Pick(seq, places), seq, places)
<1> DEFINE p == PickedUpTo(seq, places)
           upTo(m) == places \cap 1..m
           N == {m \in Nat : m <= Len(seq) => PickedWell(S, seq, places, m)}
<1>1. Len(seq) \in Nat
  BY LenProperties
<1>2. 0 \in N
  <2>1. p[0] = <<>>
    BY PickSteps
  <2>2. Picks(<<>>, <<>>, seq, upTo(0))
    BY DEF Picks
  <2>3. PickedWell(S, seq, places, 0)
    BY <2>1, <2>2, EmptySeq DEF PickedWell
  <2>4. QED BY <2>3
<1>3. ASSUME NEW m \in Nat, m \in N PROVE m + 1 \in N
  <2>1. SUFFICES ASSUME m + 1 <= Len(seq) PROVE PickedWell(S, seq, places, m + 1)
    OBVIOUS
  <2>2. p[m] \in Seq(S) /\ \E at : Picks(at, p[m], seq, upTo(m))
    <3>1. PickedWell(S, seq, places, m)
      BY <1>1, <1>3, <2>1
    <3>2. QED BY <3>1 DEF PickedWell
  <2>3. PICK at : Picks(at, p[m], seq, upTo(m))
    BY <2>2
  <2>4. m + 1 \in 1..Len(seq) /\ seq[m + 1] \in S
    BY <1>1, <2>1, ElementOfSeq
  <2>5. p[m + 1] = IF m + 1 \in places THEN Append(p[m], seq[m + 1]) ELSE p[m]
    BY <2>4, PickSteps
  <2>6. CASE m + 1 \notin places
    <3>1. upTo(m + 1) = upTo(m)
      BY <2>6
    <3>2. QED BY <2>2, <2>5, <2>6, <3>1 DEF PickedWell
  <2>7. CASE m + 1 \in places
    <3> DEFINE at2 == [n \in 1..(Len(p[m]) + 1) |-> IF n = Len(p[m]) + 1 THEN m + 1 ELSE at[n]]
               q == p[m + 1]
    <3>1. upTo(m + 1) = upTo(m) \cup {m + 1} /\ m + 1 \notin upTo(m)
      BY <2>7
    <3>2. Len(p[m]) \in Nat
      BY <2>2, LenProperties
    <3>3. /\ q \in Seq(S) /\ Len(q) = Len(p[m]) + 1
          /\ \A n \in 1..Len(p[m]) : q[n] = p[m][n]
          /\ q[Len(p[m]) + 1] = seq[m + 1]
      BY <2>2, <2>4, <2>5, <2>7, AppendProperties
    <3> HIDE DEF p, q
    <3>4. at2 \in [1..Len(q) -> upTo(m + 1)]
      BY <2>3, <3>1, <3>2, <3>3 DEF Picks
    <3>5. \A n \in 1..Len(q) : q[n] = seq[at2[n]]
      BY <2>3, <3>2, <3>3 DEF Picks
    <3>6. \A x \in upTo(m + 1) : \E n \in 1..Len(q) : at2[n] = x
      <4>1. ASSUME NEW x \in upTo(m) PROVE \E n \in 1..Len(q) : at2[n] = x
        <5>1. PICK n \in 1..Len(p[m]) : at[n] = x
          BY <2>3 DEF Picks
        <5>2. n \in 1..Len(q) /\ at2[n] = x
          BY <3>2, <3>3, <5>1
        <5>3. QED BY <5>2
      <4>2. at2[Len(q)] = m + 1 /\ Len(q) \in 1..Len(q)
        BY <3>2, <3>3
      <4>3. QED BY <3>1, <4>1, <4>2
    <3>7. \A k, n \in 1..Len(q) : k < n => at2[k] < at2[n]
      <4>1. ASSUME NEW k \in 1..Len(q), NEW n \in 1..Len(q), k < n
            PROVE  at2[k] < at2[n]
        <5> DEFINE l == Len(p[m])
        <5>0. l \in Nat /\ Len(q) = l + 1 /\ at \in [1..l -> upTo(m)]
          BY <2>3, <3>2, <3>3 DEF Picks
        <5> HIDE DEF l
        <5>1. k \in 1..l /\ k \in 1..(l + 1) /\ k # l + 1 /\ at[k] \in 1..m
          BY <5>0, <4>1
        <5>1a. at2[k] = at[k]
          BY <5>1 DEF l
        <5>2. CASE n = l + 1
          <6>1. at2[n] = m + 1
            BY <5>0, <5>2 DEF l
          <6>2. QED BY <5>1, <5>1a, <6>1
        <5>3. CASE n # l + 1
          <6>1. n \in 1..l /\ at2[n] = at[n]
            BY <5>0, <5>3 DEF l
          <6>2. at[k] < at[n]
            BY <2>3, <4>1, <5>1, <6>1 DEF Picks, l
          <6>3. QED BY <5>1a, <6>1, <6>2
        <5>4. QED BY <5>2, <5>3
      <4>2. QED BY <4>1
    <3>8. Picks(at2, q, seq, upTo(m + 1))
      BY <3>4, <3>5, <3>6, <3>7 DEF Picks
    <3>9. QED BY <3>3, <3>8 DEF q, p, PickedWell
  <2>8. QED BY <2>6, <2>7
<1>4. Len(seq) \in N
  <2> HIDE DEF N
  <2> QED BY <1>1, <1>2, <1>3, SetInduction
<1>5. upTo(Len(seq)) = places
  BY <1>1
<1>6. PickedWell(S, seq, places, Len(seq))
  BY <1>1, <1>4
<1>7. Pick(seq, places) = p[Len(seq)]
  BY PickSteps
<1>8. /\ p[Len(seq)] \in Seq(S)
      /\ \E at : Picks(at, p[Len(seq)], seq, upTo(Len(seq)))
  BY <1>6 DEF PickedWell
<1>9. QED
  <2> HIDE DEF p, upTo
  <2> QED BY <1>5, <1>7, <1>8

(* The same for Flatten. *)
FlattensUpTo(g, seqs, n) ==
  g = [i \in 0..n |-> IF i = 0 THEN <<>> ELSE g[i - 1] \o seqs[i]]

FlattenedUpTo(seqs) == CHOOSE g : FlattensUpTo(g, seqs, Len(seqs))

LEMMA FlattenFunction ==
  ASSUME NEW seqs, NEW n \in Nat
  PROVE  \E g : FlattensUpTo(g, seqs, n)
<1> DEFINE Step(g, i) == g[i - 1] \o seqs[i]
           S == {m \in Nat : \E g : FlattensUpTo(g, seqs, m)}
<1>1. 0 \in S
  <2>1. FlattensUpTo([i \in 0..0 |-> <<>>], seqs, 0)
    BY DEF FlattensUpTo
  <2>2. QED BY <2>1
<1>2. ASSUME NEW m \in Nat, m \in S PROVE m + 1 \in S
  <2>1. PICK g : FlattensUpTo(g, seqs, m)
    BY <1>2
  <2> DEFINE h == [i \in 0..(m + 1) |-> IF i = 0 THEN <<>> ELSE Step(g, i)]
  <2>2. ASSUME NEW i \in 0..m PROVE h[i] = g[i]
    <3>1. i \in 0..(m + 1)
      OBVIOUS
    <3>2. g[i] = IF i = 0 THEN <<>> ELSE Step(g, i)
      BY <2>1 DEF FlattensUpTo
    <3>3. QED BY <3>1, <3>2
  <2>3. ASSUME NEW i \in 0..(m + 1), i # 0 PROVE Step(h, i) = Step(g, i)
    <3>1. i - 1 \in 0..m
      BY <2>3
    <3>2. h[i - 1] = g[i - 1]
      BY <2>2, <3>1
    <3>3. QED BY <3>2
  <2>4. FlattensUpTo(h, seqs, m + 1)
    BY <2>3 DEF FlattensUpTo
  <2>5. QED BY <2>4
<1>3. n \in S
  <2> HIDE DEF S
  <2> QED BY <1>1, <1>2, SetInduction
<1>4. QED BY <1>3

LEMMA FlattenSteps ==
  ASSUME NEW S, NEW seqs \in Seq(S)
  PROVE  /\ Flatten(seqs) = FlattenedUpTo(seqs)[Len(seqs)]
         /\ FlattenedUpTo(seqs)[0] = <<>>
         /\ \A i \in 1..Len(seqs) : FlattenedUpTo(seqs)[i] = FlattenedUpTo(seqs)[i - 1] \o seqs[i]
<1>1. Len(seqs) \in Nat
  BY LenProperties
<1>2. Flatten(seqs) = FlattenedUpTo(seqs)[Len(seqs)]
  BY DEF Flatten, FlattenedUpTo, FlattensUpTo
<1> DEFINE p == FlattenedUpTo(seqs)
<1>3. FlattensUpTo(p, seqs, Len(seqs))
  BY <1>1, FlattenFunction DEF FlattenedUpTo
<1> HIDE DEF p
<1>4. p[0] = <<>>
  BY <1>1, <1>3 DEF FlattensUpTo
<1>5. ASSUME NEW i \in 1..Len(seqs)
      PROVE  p[i] = p[i - 1] \o seqs[i]
  <2>1. i \in 0..Len(seqs) /\ i # 0
    BY <1>1
  <2>2. QED BY <1>3, <2>1 DEF FlattensUpTo
<1>6. QED BY <1>2, <1>4, <1>5 DEF p

(* Every element of the first rows once, one row after the other: row and col give the
   place each came from.                                                               *)
Flattens(row, col, flat, seqs, rows) ==
  /\ row \in [1..Len(flat) -> 1..rows] /\ col \in [1..Len(flat) -> Nat]
  /\ \A n \in 1..Len(flat) : col[n] \in 1..Len(seqs[row[n]]) /\ flat[n] = seqs[row[n]][col[n]]
  /\ \A i \in 1..rows : \A j \in 1..Len(seqs[i]) :
       \E n \in 1..Len(flat) : row[n] = i /\ col[n] = j
  /\ \A m, n \in 1..Len(flat) : row[m] = row[n] /\ col[m] = col[n] => m = n
  /\ \A m, n \in 1..Len(flat) : m < n => row[m] <= row[n]

FlattenedWell(T, seqs, m) ==
  LET p == FlattenedUpTo(seqs)[m]
  IN  p \in Seq(T) /\ \E row, col : Flattens(row, col, p, seqs, m)

LEMMA FlattenProperties ==
  ASSUME NEW T, NEW seqs \in Seq(Seq(T))
  PROVE  /\ Flatten(seqs) \in Seq(T)
         /\ \E row, col : Flattens(row, col, Flatten(seqs), seqs, Len(seqs))
<1> DEFINE p == FlattenedUpTo(seqs)
           N == {m \in Nat : m <= Len(seqs) => FlattenedWell(T, seqs, m)}
<1>1. Len(seqs) \in Nat
  BY LenProperties
<1>2. 0 \in N
  <2>1. p[0] = <<>>
    BY FlattenSteps
  <2>2. Flattens(<<>>, <<>>, <<>>, seqs, 0)
    BY DEF Flattens
  <2>3. FlattenedWell(T, seqs, 0)
    BY <2>1, <2>2, EmptySeq DEF FlattenedWell
  <2>4. QED BY <2>3
<1>3. ASSUME NEW m \in Nat, m \in N PROVE m + 1 \in N
  <2>1. SUFFICES ASSUME m + 1 <= Len(seqs) PROVE FlattenedWell(T, seqs, m + 1)
    OBVIOUS
  <2>2. p[m] \in Seq(T) /\ \E row, col : Flattens(row, col, p[m], seqs, m)
    <3>1. FlattenedWell(T, seqs, m)
      BY <1>1, <1>3, <2>1
    <3>2. QED BY <3>1 DEF FlattenedWell
  <2>3. PICK row, col : Flattens(row, col, p[m], seqs, m)
    BY <2>2
  <2>4. m + 1 \in 1..Len(seqs) /\ seqs[m + 1] \in Seq(T)
    BY <1>1, <2>1, ElementOfSeq
  <2>5. p[m + 1] = p[m] \o seqs[m + 1]
    <3>1. p[m + 1] = p[(m + 1) - 1] \o seqs[m + 1]
      BY <2>4, FlattenSteps
    <3>2. (m + 1) - 1 = m
      OBVIOUS
    <3>3. QED BY <3>1, <3>2
  <2> DEFINE k == Len(p[m])
             l == Len(seqs[m + 1])
             q == p[m + 1]
             row2 == [n \in 1..(k + l) |-> IF n <= k THEN row[n] ELSE m + 1]
             col2 == [n \in 1..(k + l) |-> IF n <= k THEN col[n] ELSE n - k]
  <2>6. k \in Nat /\ l \in Nat
    BY <2>2, <2>4, LenProperties
  <2>7. /\ q \in Seq(T) /\ Len(q) = k + l
        /\ \A n \in 1..(k + l) : q[n] = IF n <= k THEN p[m][n] ELSE seqs[m + 1][n - k]
    <3>1. ASSUME NEW a \in Seq(T), NEW b \in Seq(T)
          PROVE  /\ a \o b \in Seq(T) /\ Len(a \o b) = Len(a) + Len(b)
                 /\ \A n \in 1..(Len(a) + Len(b)) :
                      (a \o b)[n] = IF n <= Len(a) THEN a[n] ELSE b[n - Len(a)]
      BY ConcatProperties
    <3>2. p[m] \in Seq(T) /\ seqs[m + 1] \in Seq(T) /\ q = p[m] \o seqs[m + 1]
      BY <2>2, <2>4, <2>5
    <3> HIDE DEF p, q
    <3>3. QED BY <3>1, <3>2
  <2>8. /\ row \in [1..k -> 1..m] /\ col \in [1..k -> Nat]
        /\ \A n \in 1..k : col[n] \in 1..Len(seqs[row[n]]) /\ p[m][n] = seqs[row[n]][col[n]]
        /\ \A i \in 1..m : \A j \in 1..Len(seqs[i]) : \E n \in 1..k : row[n] = i /\ col[n] = j
        /\ \A n, o \in 1..k : row[n] = row[o] /\ col[n] = col[o] => n = o
        /\ \A n, o \in 1..k : n < o => row[n] <= row[o]
    BY <2>3 DEF Flattens
  <2>9. l = Len(seqs[m + 1])
    OBVIOUS
  <2> HIDE DEF k, l, p, q
  <2>10. Flattens(row2, col2, q, seqs, m + 1)
    <3>1. row2 \in [1..(k + l) -> 1..(m + 1)] /\ col2 \in [1..(k + l) -> Nat]
      BY <2>6, <2>8
    <3>2. ASSUME NEW n \in 1..(k + l)
          PROVE  col2[n] \in 1..Len(seqs[row2[n]]) /\ q[n] = seqs[row2[n]][col2[n]]
      <4>1. CASE n <= k
        <5>1. n \in 1..k /\ row2[n] = row[n] /\ col2[n] = col[n] /\ q[n] = p[m][n]
          BY <2>6, <2>7, <4>1
        <5>2. QED BY <2>8, <5>1
      <4>2. CASE ~(n <= k)
        <5>1. row2[n] = m + 1 /\ col2[n] = n - k /\ q[n] = seqs[m + 1][n - k]
          BY <2>6, <2>7, <4>2
        <5>2. n - k \in 1..l
          BY <2>6, <4>2
        <5>3. QED BY <2>9, <5>1, <5>2
      <4>3. QED BY <4>1, <4>2
    <3>3. ASSUME NEW i \in 1..(m + 1), NEW j \in 1..Len(seqs[i])
          PROVE  \E n \in 1..(k + l) : row2[n] = i /\ col2[n] = j
      <4>1. CASE i <= m
        <5>1. PICK n \in 1..k : row[n] = i /\ col[n] = j
          BY <2>8, <4>1
        <5>2. n \in 1..(k + l) /\ n <= k
          BY <2>6
        <5>3. QED BY <5>1, <5>2
      <4>2. CASE i = m + 1
        <5>1. j \in 1..l
          BY <2>9, <4>2
        <5>2. k + j \in 1..(k + l) /\ ~(k + j <= k) /\ (k + j) - k = j
          BY <2>6, <5>1
        <5>3. QED BY <4>2, <5>2
      <4>3. QED BY <4>1, <4>2
    <3>4. ASSUME NEW n \in 1..(k + l), NEW o \in 1..(k + l),
                 row2[n] = row2[o], col2[n] = col2[o]
          PROVE  n = o
      <4>1. CASE n <= k /\ o <= k
        <5>1. n \in 1..k /\ o \in 1..k
          BY <2>6, <4>1
        <5>2. row[n] = row[o] /\ col[n] = col[o]
          BY <3>4, <4>1
        <5>3. QED BY <2>8, <5>1, <5>2
      <4>2. CASE n <= k /\ ~(o <= k)
        <5>1. n \in 1..k /\ row[n] = m + 1
          BY <2>6, <3>4, <4>2
        <5>2. QED BY <2>8, <5>1
      <4>3. CASE ~(n <= k) /\ o <= k
        <5>1. o \in 1..k /\ row[o] = m + 1
          BY <2>6, <3>4, <4>3
        <5>2. QED BY <2>8, <5>1
      <4>4. CASE ~(n <= k) /\ ~(o <= k)
        BY <2>6, <3>4, <4>4
      <4>5. QED BY <4>1, <4>2, <4>3, <4>4
    <3>5. ASSUME NEW n \in 1..(k + l), NEW o \in 1..(k + l), n < o
          PROVE  row2[n] <= row2[o]
      <4>1. CASE o <= k
        <5>1. n \in 1..k /\ o \in 1..k /\ n <= k
          BY <2>6, <3>5, <4>1
        <5>2. QED BY <2>8, <3>5, <4>1, <5>1
      <4>2. CASE ~(o <= k)
        BY <3>1, <4>2
      <4>3. QED BY <4>1, <4>2
    <3>6. QED BY <2>7, <3>1, <3>2, <3>3, <3>4, <3>5 DEF Flattens
  <2>11. QED BY <2>7, <2>10 DEF FlattenedWell, p, q
<1>4. FlattenedWell(T, seqs, Len(seqs))
  <2>1. Len(seqs) \in N
    <3> HIDE DEF N
    <3> QED BY <1>1, <1>2, <1>3, SetInduction
  <2>2. QED BY <1>1, <2>1
<1>5. Flatten(seqs) = FlattenedUpTo(seqs)[Len(seqs)]
  BY FlattenSteps
<1>6. QED BY <1>4, <1>5 DEF FlattenedWell

-----------------------------------------------------------------------------
(* Sequences.                                                               *)

(* A set of natural numbers has a least one. *)
LEMMA LeastNumber ==
  ASSUME NEW S \in SUBSET Nat, S # {}
  PROVE  \E m \in S : \A k \in S : m <= k
<1> SUFFICES ASSUME \A m \in S : \E k \in S : ~(m <= k) PROVE FALSE
  OBVIOUS
<1> DEFINE N == {n \in Nat : \A k \in 0..n : k \notin S}
<1>1. 0 \in N
  OBVIOUS
<1>2. ASSUME NEW n \in Nat, n \in N PROVE n + 1 \in N
  <2>1. n + 1 \notin S
    BY <1>2
  <2>2. QED BY <1>2, <2>1
<1>3. Nat \subseteq N
  <2> HIDE DEF N
  <2> QED BY <1>1, <1>2, SetInduction
<1>4. PICK m \in S : TRUE
  OBVIOUS
<1>5. m \in N /\ m \in 0..m
  BY <1>3
<1>6. QED BY <1>5

LEMMA FunctionIsSeq ==
  ASSUME NEW S, NEW n \in Nat, NEW f \in [1..n -> S]
  PROVE  f \in Seq(S) /\ Len(f) = n /\ DOMAIN f = 1..n
<1>1. f \in Seq(S)
  BY SeqDef
<1>2. DOMAIN f = 1..n /\ DOMAIN f = 1..Len(f) /\ Len(f) \in Nat
  BY <1>1, LenProperties
<1>3. QED BY <1>1, <1>2

LEMMA ToSetOfSeq ==
  ASSUME NEW S, NEW seq \in Seq(S)
  PROVE  /\ ToSet(seq) \in SUBSET S
         /\ \A n \in 1..Len(seq) : seq[n] \in ToSet(seq)
         /\ \A x \in ToSet(seq) : \E n \in 1..Len(seq) : seq[n] = x
BY LenProperties, ElementOfSeq DEF ToSet

(* Firsts has the same values, each once. *)
LEMMA FirstsProperties ==
  ASSUME NEW S, NEW seq \in Seq(S)
  PROVE  /\ Firsts(seq) \in Seq(S)
         /\ ToSet(Firsts(seq)) = ToSet(seq)
         /\ \A m, n \in 1..Len(Firsts(seq)) : Firsts(seq)[m] = Firsts(seq)[n] => m = n
<1> DEFINE places == {n \in DOMAIN seq : \A m \in 1..(n - 1) : seq[m] # seq[n]}
           q == Firsts(seq)
<1>1. DOMAIN seq = 1..Len(seq) /\ Len(seq) \in Nat
  BY LenProperties
<1>2. places \in SUBSET (1..Len(seq)) /\ q = Pick(seq, places)
  BY <1>1 DEF Firsts
<1>3. q \in Seq(S) /\ \E at : Picks(at, q, seq, places)
  <2> HIDE DEF places, q
  <2> QED BY <1>2, PickProperties
<1>4. PICK at : Picks(at, q, seq, places)
  BY <1>3
<1>5. Len(q) \in Nat /\ DOMAIN q = 1..Len(q)
  <2> HIDE DEF q
  <2> QED BY <1>3, LenProperties
<1>6. ASSUME NEW x \in ToSet(seq) PROVE x \in ToSet(q)
  <2> DEFINE X == {n \in 1..Len(seq) : seq[n] = x}
  <2>1. X \in SUBSET Nat /\ X # {}
    BY <1>6, ToSetOfSeq
  <2>2. PICK n \in X : \A k \in X : n <= k
    BY <2>1, LeastNumber
  <2>3. n \in places
    BY <1>1, <2>2
  <2>4. PICK k \in 1..Len(q) : at[k] = n
    BY <1>4, <2>3 DEF Picks
  <2>5. q[k] = x
    BY <1>4, <2>2, <2>4 DEF Picks
  <2>6. QED BY <1>5, <2>5 DEF ToSet
<1>7. ASSUME NEW n \in 1..Len(q)
      PROVE  q[n] \in ToSet(seq) /\ at[n] \in places /\ q[n] = seq[at[n]]
  <2>1. at[n] \in places /\ q[n] = seq[at[n]]
    BY <1>4 DEF Picks
  <2>2. QED BY <2>1 DEF ToSet
<1>8. ASSUME NEW m \in 1..Len(q), NEW n \in 1..Len(q), m < n PROVE q[m] # q[n]
  <2>1. at[m] < at[n]
    BY <1>4, <1>8 DEF Picks
  <2>2. at[m] \in 1..(at[n] - 1) /\ at[n] \in places
    BY <1>1, <1>7, <2>1
  <2>3. QED BY <1>7, <2>2
<1>9. \A m, n \in 1..Len(q) : q[m] = q[n] => m = n
  BY <1>5, <1>8
<1>10. ToSet(q) = ToSet(seq)
  BY <1>5, <1>6, <1>7 DEF ToSet
<1>11. QED BY <1>3, <1>9, <1>10

-----------------------------------------------------------------------------
(* The response.                                                            *)

Place(s) == CHOOSE n \in DOMAIN Sources : Sources[n] = s

LEMMA PlaceOfSource ==
  ASSUME NEW n \in 1..Len(Sources)
  PROVE  Sources[n] \in ToSet(Sources) /\ Place(Sources[n]) = n
<1>1. DOMAIN Sources = 1..Len(Sources)
  BY SearchAssumption, LenProperties
<1>2. \A m \in DOMAIN Sources : Sources[m] = Sources[n] => m = n
  BY <1>1, SearchAssumption DEF IsInjective
<1>3. QED BY <1>1, <1>2 DEF Place, ToSet

LEMMA PlaceType == \A s \in ToSet(Sources) : Place(s) \in Nat
<1>1. Sources \in Seq(ToSet(Sources))
  BY SearchAssumption
<1>2. Len(Sources) \in Nat
  BY <1>1, LenProperties
<1>3. ASSUME NEW s \in ToSet(Sources) PROVE Place(s) \in Nat
  <2>1. PICK n \in 1..Len(Sources) : Sources[n] = s
    BY <1>1, ToSetOfSeq
  <2>2. QED BY <1>2, <2>1, PlaceOfSource
<1>4. QED BY <1>3

(* The eligible sources are the sources that consent and can search, in their order. *)
LEMMA EligibleProperties ==
  /\ Eligible \in Seq(ToSet(Sources))
  /\ ToSet(Eligible) = Consented \cap Searchable
  /\ Len(Eligible) \in Nat /\ DOMAIN Eligible = 1..Len(Eligible)
  /\ \A m, n \in 1..Len(Eligible) : m < n => Place(Eligible[m]) < Place(Eligible[n])
<1> DEFINE places == {n \in DOMAIN Sources : Sources[n] \in Consented \cap Searchable}
<1>1. Sources \in Seq(ToSet(Sources)) /\ Consented \cap Searchable \subseteq ToSet(Sources)
  BY SearchAssumption
<1>2. DOMAIN Sources = 1..Len(Sources) /\ Len(Sources) \in Nat
  BY <1>1, LenProperties
<1>3. places \in SUBSET (1..Len(Sources)) /\ Eligible = Pick(Sources, places)
  BY <1>2 DEF Eligible
<1>4. Eligible \in Seq(ToSet(Sources)) /\ \E at : Picks(at, Eligible, Sources, places)
  <2> HIDE DEF places
  <2> QED BY <1>1, <1>3, PickProperties
<1>5. PICK at : Picks(at, Eligible, Sources, places)
  BY <1>4
<1>6. Len(Eligible) \in Nat /\ DOMAIN Eligible = 1..Len(Eligible)
  BY <1>4, LenProperties
<1>7. ASSUME NEW n \in 1..Len(Eligible)
      PROVE  /\ at[n] \in places /\ Eligible[n] = Sources[at[n]]
             /\ Place(Eligible[n]) = at[n]
  <2>1. at[n] \in places /\ Eligible[n] = Sources[at[n]]
    BY <1>5 DEF Picks
  <2>2. QED BY <1>2, <2>1, PlaceOfSource
<1>8. \A m, n \in 1..Len(Eligible) : m < n => Place(Eligible[m]) < Place(Eligible[n])
  BY <1>5, <1>7 DEF Picks
<1>9. ASSUME NEW s \in Consented \cap Searchable PROVE s \in ToSet(Eligible)
  <2>1. PICK n \in 1..Len(Sources) : Sources[n] = s
    BY <1>1, <1>9, ToSetOfSeq
  <2>2. n \in places
    BY <1>2, <1>9, <2>1
  <2>3. PICK k \in 1..Len(Eligible) : at[k] = n
    BY <1>5, <2>2 DEF Picks
  <2>4. QED BY <1>6, <1>7, <2>1, <2>3 DEF ToSet
<1>10. ToSet(Eligible) = Consented \cap Searchable
  BY <1>6, <1>7, <1>9 DEF ToSet
<1>11. QED BY <1>4, <1>6, <1>8, <1>10

Finding == [source: ToSet(Sources), candidate: Candidate]
Track == [source: ToSet(Sources), track: Tracks]

(* The findings of a source come before those of the sources after it. *)
InPlace(found) ==
  \A m, n \in 1..Len(found) : m < n => Place(found[m].source) <= Place(found[n].source)

(* The candidates are the findings of all eligible sources, in the order of the sources. *)
LEMMA CandidatesProperties ==
  ASSUME NEW outcome, \A s \in ToSet(Eligible) : outcome[s].page \in Page
  PROVE  /\ Candidates(outcome, Eligible) \in Seq(Finding)
         /\ InPlace(Candidates(outcome, Eligible))
         /\ \A f \in ToSet(Candidates(outcome, Eligible)) :
              f.source \in ToSet(Eligible) /\ f.candidate \in ToSet(outcome[f.source].page.results)
         /\ \A s \in ToSet(Eligible) : \A c \in ToSet(outcome[s].page.results) :
              [source |-> s, candidate |-> c] \in ToSet(Candidates(outcome, Eligible))
<1> DEFINE rows == [n \in DOMAIN Eligible |-> Found(Eligible[n], outcome[Eligible[n]].page)]
           flat == Candidates(outcome, Eligible)
           l == Len(Eligible)
<1>1. l \in Nat /\ DOMAIN Eligible = 1..l /\ \A n \in 1..l : Eligible[n] \in ToSet(Eligible)
  BY EligibleProperties, ToSetOfSeq
<1>2. ToSet(Eligible) \subseteq ToSet(Sources)
  BY EligibleProperties, ToSetOfSeq
<1>3. ASSUME NEW n \in 1..l
      PROVE  LET results == outcome[Eligible[n]].page.results
             IN  /\ results \in Seq(Candidate)
                 /\ rows[n] \in Seq(Finding) /\ Len(rows[n]) = Len(results)
                 /\ \A j \in 1..Len(results) :
                      rows[n][j] = [source |-> Eligible[n], candidate |-> results[j]]
  <2> DEFINE results == outcome[Eligible[n]].page.results
             row == [j \in 1..Len(results) |-> [source |-> Eligible[n], candidate |-> results[j]]]
  <2>1. results \in Seq(Candidate)
    BY <1>1 DEF Page
  <2>2. Len(results) \in Nat /\ DOMAIN results = 1..Len(results)
        /\ \A j \in 1..Len(results) : results[j] \in Candidate
    <3> HIDE DEF results
    <3> QED BY <2>1, LenProperties, ElementOfSeq
  <2>3. row \in [1..Len(results) -> Finding]
    BY <1>1, <1>2, <2>2 DEF Finding
  <2>4. row \in Seq(Finding) /\ Len(row) = Len(results)
    <3> HIDE DEF row, results
    <3> QED BY <2>2, <2>3, FunctionIsSeq
  <2>5. rows[n] = row
    BY <1>1, <2>2 DEF Found
  <2>6. QED BY <2>1, <2>4, <2>5
<1>4. rows \in Seq(Seq(Finding)) /\ Len(rows) = l
  <2>1. rows \in [1..l -> Seq(Finding)]
    BY <1>1, <1>3
  <2>2. QED
    <3> HIDE DEF rows, l
    <3> QED BY <1>1, <2>1, FunctionIsSeq
<1>5. flat = Flatten(rows)
  BY DEF Candidates
<1>6. flat \in Seq(Finding) /\ \E row, col : Flattens(row, col, flat, rows, l)
  <2> HIDE DEF flat, rows, l
  <2> QED BY <1>4, <1>5, FlattenProperties
<1>7. PICK row, col : Flattens(row, col, flat, rows, l)
  BY <1>6
<1>8. Len(flat) \in Nat /\ DOMAIN flat = 1..Len(flat)
  <2> HIDE DEF flat
  <2> QED BY <1>6, LenProperties
<1> HIDE DEF rows, flat, l
<1>9. ASSUME NEW n \in 1..Len(flat)
      PROVE  LET s == Eligible[row[n]]
                 results == outcome[s].page.results
             IN  /\ row[n] \in 1..l /\ s \in ToSet(Eligible)
                 /\ results \in Seq(Candidate) /\ col[n] \in 1..Len(results)
                 /\ flat[n] = [source |-> s, candidate |-> results[col[n]]]
  <2>1. row[n] \in 1..l /\ col[n] \in 1..Len(rows[row[n]]) /\ flat[n] = rows[row[n]][col[n]]
    BY <1>7 DEF Flattens
  <2>2. QED BY <1>1, <1>3, <2>1
<1>14. ASSUME NEW n \in 1..Len(flat)
       PROVE  /\ flat[n].source = Eligible[row[n]]
              /\ flat[n].candidate = outcome[Eligible[row[n]]].page.results[col[n]]
  <2>1. flat[n] = [source |-> Eligible[row[n]],
                   candidate |-> outcome[Eligible[row[n]]].page.results[col[n]]]
    BY <1>9
  <2>2. QED BY <2>1
<1>10. InPlace(flat)
  <2>1. ASSUME NEW m \in 1..Len(flat), NEW n \in 1..Len(flat), m < n
        PROVE  Place(flat[m].source) <= Place(flat[n].source)
    <3>1. row[m] <= row[n] /\ row[m] \in 1..l /\ row[n] \in 1..l
      BY <1>7, <1>9, <2>1 DEF Flattens
    <3>2. flat[m].source = Eligible[row[m]] /\ flat[n].source = Eligible[row[n]]
      BY <1>14
    <3>3. Place(Eligible[row[n]]) \in Nat
      BY <1>2, <1>9, PlaceType
    <3>4. CASE row[m] = row[n]
      BY <3>2, <3>3, <3>4
    <3>5. CASE row[m] < row[n]
      <4>1. Place(Eligible[row[m]]) < Place(Eligible[row[n]])
        BY <3>1, <3>5, EligibleProperties DEF l
      <4>2. Place(Eligible[row[m]]) \in Nat
        BY <1>2, <1>9, PlaceType
      <4>3. QED BY <3>2, <3>3, <4>1, <4>2
    <3>6. QED BY <1>1, <3>1, <3>4, <3>5
  <2>2. QED BY <2>1 DEF InPlace
<1>11. ASSUME NEW f \in ToSet(flat)
       PROVE  f.source \in ToSet(Eligible) /\ f.candidate \in ToSet(outcome[f.source].page.results)
  <2>1. PICK n \in 1..Len(flat) : flat[n] = f
    BY <1>6, ToSetOfSeq
  <2> DEFINE results == outcome[f.source].page.results
  <2>2. f.source = Eligible[row[n]] /\ f.candidate = results[col[n]]
    BY <1>14, <2>1
  <2>3. f.source \in ToSet(Eligible) /\ results \in Seq(Candidate) /\ col[n] \in 1..Len(results)
    BY <1>9, <2>2
  <2>4. results[col[n]] \in ToSet(results)
    <3> HIDE DEF results
    <3> QED BY <2>3, ToSetOfSeq
  <2>5. QED BY <2>2, <2>3, <2>4
<1>12. ASSUME NEW s \in ToSet(Eligible), NEW c \in ToSet(outcome[s].page.results)
       PROVE  [source |-> s, candidate |-> c] \in ToSet(flat)
  <2>1. PICK i \in 1..l : Eligible[i] = s
    BY <1>1 DEF ToSet
  <2>2. outcome[s].page.results \in Seq(Candidate)
    BY <1>3, <2>1
  <2>3. PICK j \in 1..Len(outcome[s].page.results) : outcome[s].page.results[j] = c
    BY <2>2, ToSetOfSeq
  <2>4. j \in 1..Len(rows[i]) /\ rows[i][j] = [source |-> s, candidate |-> c]
    BY <1>3, <2>1, <2>3
  <2>5. PICK n \in 1..Len(flat) : row[n] = i /\ col[n] = j
    BY <1>7, <2>4 DEF Flattens
  <2>6. flat[n] = [source |-> s, candidate |-> c]
    BY <1>7, <2>4, <2>5 DEF Flattens
  <2>7. QED BY <1>8, <2>6 DEF ToSet
<1>13. QED BY <1>6, <1>10, <1>11, <1>12 DEF flat

(* The findings of a key, the earliest source's first. *)
LEMMA KeyedProperties ==
  ASSUME NEW found \in Seq(Finding), InPlace(found), NEW f \in ToSet(found)
  PROVE  LET same == Keyed(found, f.candidate.key)
         IN  /\ same \in Seq(Finding) /\ Len(same) \in Nat \ {0}
             /\ ToSet(same) = {g \in ToSet(found) : g.candidate.key = f.candidate.key}
             /\ \A n \in 1..Len(same) : Place(same[1].source) <= Place(same[n].source)
<1> DEFINE key == f.candidate.key
           places == {i \in DOMAIN found : found[i].candidate.key = key}
           same == Keyed(found, key)
<1>1. DOMAIN found = 1..Len(found) /\ Len(found) \in Nat
  BY LenProperties
<1>2. places \in SUBSET (1..Len(found)) /\ same = Pick(found, places)
  BY <1>1 DEF Keyed
<1>3. same \in Seq(Finding) /\ \E at : Picks(at, same, found, places)
  <2> HIDE DEF places, same
  <2> QED BY <1>2, PickProperties
<1>4. PICK at : Picks(at, same, found, places)
  BY <1>3
<1>5. Len(same) \in Nat /\ DOMAIN same = 1..Len(same)
  <2> HIDE DEF same
  <2> QED BY <1>3, LenProperties
<1>6. ASSUME NEW n \in 1..Len(same)
      PROVE  at[n] \in 1..Len(found) /\ same[n] = found[at[n]] /\ same[n].candidate.key = key
  <2>1. at[n] \in places /\ same[n] = found[at[n]]
    BY <1>4 DEF Picks
  <2>2. QED BY <1>1, <2>1
<1>7. ASSUME NEW g \in ToSet(found), g.candidate.key = key
      PROVE  \E n \in 1..Len(same) : same[n] = g
  <2>1. PICK i \in 1..Len(found) : found[i] = g
    BY ToSetOfSeq
  <2>2. i \in places
    BY <1>1, <1>7, <2>1
  <2>3. PICK n \in 1..Len(same) : at[n] = i
    BY <1>4, <2>2 DEF Picks
  <2>4. QED BY <1>6, <2>1, <2>3
<1>8. ToSet(same) = {g \in ToSet(found) : g.candidate.key = key}
  <2>1. ASSUME NEW g \in ToSet(same) PROVE g \in ToSet(found) /\ g.candidate.key = key
    <3>1. PICK n \in 1..Len(same) : same[n] = g
      BY <1>5 DEF ToSet
    <3>2. QED BY <1>1, <1>6, <3>1 DEF ToSet
  <2>2. ASSUME NEW g \in ToSet(found), g.candidate.key = key PROVE g \in ToSet(same)
    BY <1>5, <1>7, <2>2 DEF ToSet
  <2>3. QED BY <2>1, <2>2
<1>9. Len(same) # 0
  <2>1. \E n \in 1..Len(same) : same[n] = f
    BY <1>7
  <2>2. QED BY <1>5, <2>1
<1>10. ASSUME NEW n \in 1..Len(same) PROVE Place(same[1].source) <= Place(same[n].source)
  <2>1. 1 \in 1..Len(same)
    BY <1>5, <1>9
  <2>2. CASE n = 1
    <3>1. same[1] \in Finding
      <4> HIDE DEF same
      <4> QED BY <1>3, <2>1, ElementOfSeq
    <3>2. Place(same[1].source) \in Nat
      BY <3>1, PlaceType DEF Finding
    <3>3. QED BY <2>2, <3>2
  <2>3. CASE n # 1
    <3>1. 1 < n
      BY <1>5, <2>3
    <3>2. at[1] < at[n]
      BY <1>4, <2>1, <3>1 DEF Picks
    <3>3. QED BY <1>6, <2>1, <3>2 DEF InPlace
  <2>4. QED BY <2>2, <2>3
<1>11. QED BY <1>3, <1>5, <1>8, <1>9, <1>10

(* Their variants: each pair of a source and a track that was found, once. *)
LEMMA VariantsProperties ==
  ASSUME NEW found \in Seq(Finding)
  PROVE  LET variants == VariantsOf(found)
         IN  /\ variants \in Seq(Track)
             /\ \A m, n \in 1..Len(variants) : variants[m] = variants[n] => m = n
             /\ \A v \in ToSet(variants) : \E f \in ToSet(found) :
                  v = [source |-> f.source, track |-> f.candidate.track]
             /\ \A f \in ToSet(found) :
                  [source |-> f.source, track |-> f.candidate.track] \in ToSet(variants)
<1> DEFINE all == Variants(found)
<1>1. Len(found) \in Nat /\ DOMAIN found = 1..Len(found)
      /\ \A n \in 1..Len(found) : found[n] \in Finding
  BY LenProperties, ElementOfSeq
<1>2. all \in [1..Len(found) -> Track]
  BY <1>1 DEF Variants, Finding, Track, Candidate
<1>3. all \in Seq(Track) /\ Len(all) = Len(found) /\ DOMAIN all = 1..Len(found)
  <2> HIDE DEF all
  <2> QED BY <1>1, <1>2, FunctionIsSeq
<1>4. \A n \in 1..Len(found) :
        all[n] = [source |-> found[n].source, track |-> found[n].candidate.track]
  BY <1>1 DEF Variants
<1>5. VariantsOf(found) = Firsts(all)
  BY DEF VariantsOf
<1> HIDE DEF all
<1>6. /\ Firsts(all) \in Seq(Track) /\ ToSet(Firsts(all)) = ToSet(all)
      /\ \A m, n \in 1..Len(Firsts(all)) : Firsts(all)[m] = Firsts(all)[n] => m = n
  BY <1>3, FirstsProperties
<1>7. ASSUME NEW v \in ToSet(all)
      PROVE  \E f \in ToSet(found) : v = [source |-> f.source, track |-> f.candidate.track]
  <2>1. PICK n \in 1..Len(found) : all[n] = v
    BY <1>3, ToSetOfSeq
  <2>2. found[n] \in ToSet(found)
    BY ToSetOfSeq
  <2>3. QED BY <1>4, <2>1, <2>2
<1>8. ASSUME NEW f \in ToSet(found)
      PROVE  [source |-> f.source, track |-> f.candidate.track] \in ToSet(all)
  <2>1. PICK n \in 1..Len(found) : found[n] = f
    BY ToSetOfSeq
  <2>2. QED BY <1>3, <1>4, <2>1 DEF ToSet
<1>9. QED BY <1>5, <1>6, <1>7, <1>8

(* What the results say of the findings: each title once, described by the earliest
   source that found it, with all its tracks and none else.                           *)
TitleOf(f) == f.candidate.key
TrackOf(f) == [source |-> f.source, track |-> f.candidate.track]

Describes(result, found) ==
  /\ result.about \in ToSet(found) /\ TitleOf(result.about) = result.key
  /\ result.variants \in Seq(Track)
  /\ \A m, n \in 1..Len(result.variants) : result.variants[m] = result.variants[n] => m = n
  /\ \A v \in ToSet(result.variants) :
       /\ \E f \in ToSet(found) : TitleOf(f) = result.key /\ v = TrackOf(f)
       /\ Place(result.about.source) <= Place(v.source)
  /\ \A f \in ToSet(found) : TitleOf(f) = result.key => TrackOf(f) \in ToSet(result.variants)

DescribesAll(results, found) ==
  /\ Len(results) \in Nat /\ DOMAIN results = 1..Len(results)
  /\ \A i \in 1..Len(results) : Describes(results[i], found)
  /\ \A i, j \in 1..Len(results) : results[i].key = results[j].key => i = j
  /\ \A f \in ToSet(found) : \E i \in 1..Len(results) : results[i].key = TitleOf(f)

LEMMA KeyDescribes ==
  ASSUME NEW found \in Seq(Finding), InPlace(found), NEW f \in ToSet(found)
  PROVE  Describes([key |-> TitleOf(f), about |-> Keyed(found, TitleOf(f))[1],
                    variants |-> VariantsOf(Keyed(found, TitleOf(f)))], found)
<1> DEFINE same == Keyed(found, TitleOf(f))
           variants == VariantsOf(same)
           result == [key |-> TitleOf(f), about |-> same[1], variants |-> variants]
<1>1. /\ same \in Seq(Finding) /\ Len(same) \in Nat \ {0}
      /\ ToSet(same) = {g \in ToSet(found) : TitleOf(g) = TitleOf(f)}
      /\ \A n \in 1..Len(same) : Place(same[1].source) <= Place(same[n].source)
  BY KeyedProperties DEF TitleOf
<1> HIDE DEF same
<1>2. /\ variants \in Seq(Track)
      /\ \A m, n \in 1..Len(variants) : variants[m] = variants[n] => m = n
      /\ \A v \in ToSet(variants) : \E g \in ToSet(same) : v = TrackOf(g)
      /\ \A g \in ToSet(same) : TrackOf(g) \in ToSet(variants)
  BY <1>1, VariantsProperties DEF TrackOf
<1> HIDE DEF variants
<1>3. result.key = TitleOf(f) /\ result.about = same[1] /\ result.variants = variants
  OBVIOUS
<1> HIDE DEF result
<1>4. same[1] \in ToSet(same)
  BY <1>1, ToSetOfSeq
<1>5. ASSUME NEW v \in ToSet(variants)
      PROVE  /\ \E g \in ToSet(found) : TitleOf(g) = TitleOf(f) /\ v = TrackOf(g)
             /\ Place(same[1].source) <= Place(v.source)
  <2>1. PICK g \in ToSet(same) : v = TrackOf(g)
    BY <1>2
  <2>2. PICK n \in 1..Len(same) : same[n] = g
    BY <1>1, ToSetOfSeq
  <2>3. v.source = g.source
    BY <2>1 DEF TrackOf
  <2>4. QED BY <1>1, <2>1, <2>2, <2>3
<1>6. Describes(result, found)
  <2>1. result.about \in ToSet(found) /\ TitleOf(result.about) = result.key
    BY <1>1, <1>3, <1>4
  <2>2. \A g \in ToSet(found) : TitleOf(g) = result.key => TrackOf(g) \in ToSet(result.variants)
    BY <1>1, <1>2, <1>3
  <2>3. QED BY <1>2, <1>3, <1>5, <2>1, <2>2 DEF Describes
<1>7. QED BY <1>6 DEF result, variants, same

LEMMA ResultsProperties ==
  ASSUME NEW found \in Seq(Finding), InPlace(found)
  PROVE  DescribesAll(Results(found), found)
<1> DEFINE all == [i \in DOMAIN found |-> found[i].candidate.key]
           keys == Firsts(all)
           results == Results(found)
<1>1. Len(found) \in Nat /\ DOMAIN found = 1..Len(found)
      /\ \A n \in 1..Len(found) : found[n] \in Finding
  BY LenProperties, ElementOfSeq
<1>2. all \in [1..Len(found) -> Keys]
  BY <1>1 DEF Finding, Candidate
<1>3. all \in Seq(Keys) /\ Len(all) = Len(found) /\ DOMAIN all = 1..Len(found)
  <2> HIDE DEF all
  <2> QED BY <1>1, <1>2, FunctionIsSeq
<1>4. \A n \in 1..Len(found) : all[n] = TitleOf(found[n])
  BY <1>1 DEF TitleOf
<1>5. results = [n \in DOMAIN keys |->
                   [key |-> keys[n], about |-> Keyed(found, keys[n])[1],
                    variants |-> VariantsOf(Keyed(found, keys[n]))]]
  BY DEF Results
<1> HIDE DEF all
<1>6. /\ keys \in Seq(Keys) /\ ToSet(keys) = ToSet(all)
      /\ \A m, n \in 1..Len(keys) : keys[m] = keys[n] => m = n
  BY <1>3, FirstsProperties
<1>7. Len(keys) \in Nat /\ DOMAIN keys = 1..Len(keys)
  <2> HIDE DEF keys
  <2> QED BY <1>6, LenProperties
<1> HIDE DEF keys, results
<1>8. results \in [1..Len(keys) -> {results[n] : n \in 1..Len(keys)}]
  BY <1>5, <1>7
<1>9. Len(results) = Len(keys) /\ DOMAIN results = 1..Len(keys)
  BY <1>7, <1>8, FunctionIsSeq
<1>10. ASSUME NEW n \in 1..Len(keys)
       PROVE  results[n].key = keys[n] /\ Describes(results[n], found)
  <2>1. keys[n] \in ToSet(all)
    BY <1>6, <1>7 DEF ToSet
  <2>2. PICK m \in 1..Len(found) : all[m] = keys[n]
    BY <1>3, <2>1, ToSetOfSeq
  <2>3. found[m] \in ToSet(found) /\ TitleOf(found[m]) = keys[n]
    BY <1>4, <2>2, ToSetOfSeq
  <2>4. results[n] = [key |-> keys[n], about |-> Keyed(found, keys[n])[1],
                      variants |-> VariantsOf(Keyed(found, keys[n]))]
    BY <1>5, <1>7
  <2>5. QED BY <2>3, <2>4, KeyDescribes
<1>11. ASSUME NEW f \in ToSet(found) PROVE \E n \in 1..Len(keys) : keys[n] = TitleOf(f)
  <2>1. PICK m \in 1..Len(found) : found[m] = f
    BY ToSetOfSeq
  <2>2. TitleOf(f) \in ToSet(keys)
    BY <1>3, <1>4, <1>6, <2>1 DEF ToSet
  <2>3. QED BY <1>7, <2>2 DEF ToSet
<1>12. QED BY <1>6, <1>7, <1>9, <1>10, <1>11 DEF DescribesAll, results

(* The issues blame each eligible source that failed or was late, once, and no other. *)
Issue == [source: ToSet(Sources), type: {"provider", "failure", "timeout"}, retryable: BOOLEAN]
SettledOutcome == [kind: {"page", "failure", "timeout"}, page: Page]
Blames(issues, s) == {n \in DOMAIN issues : issues[n].source = s /\ issues[n].type # "provider"}

LEMMA IssuesOfSource ==
  ASSUME NEW s \in ToSet(Sources), NEW o \in SettledOutcome
  PROVE  LET issues == Issues(s, o)
         IN  /\ issues \in Seq(Issue)
             /\ \A n \in 1..Len(issues) : issues[n].source = s
                  /\ (issues[n].type # "provider" <=> o.kind # "page")
             /\ o.kind # "page" => Len(issues) = 1
<1>1. CASE o.kind = "page"
  <2> DEFINE flags == o.page.issues
             issues == [i \in 1..Len(flags) |->
                          [source |-> s, type |-> "provider", retryable |-> flags[i]]]
  <2>1. flags \in Seq(BOOLEAN)
    BY DEF SettledOutcome, Page
  <2>2. Len(flags) \in Nat /\ DOMAIN flags = 1..Len(flags)
        /\ \A i \in 1..Len(flags) : flags[i] \in BOOLEAN
    <3> HIDE DEF flags
    <3> QED BY <2>1, LenProperties, ElementOfSeq
  <2>3. Issues(s, o) = issues
    BY <1>1, <2>2 DEF Issues
  <2>4. issues \in [1..Len(flags) -> Issue]
    BY <2>2 DEF Issue
  <2>5. issues \in Seq(Issue) /\ Len(issues) = Len(flags)
    <3> HIDE DEF issues, flags
    <3> QED BY <2>2, <2>4, FunctionIsSeq
  <2>6. \A n \in 1..Len(flags) : issues[n].source = s /\ issues[n].type = "provider"
    OBVIOUS
  <2>7. QED BY <1>1, <2>3, <2>5, <2>6
<1>2. CASE o.kind # "page"
  <2> DEFINE issue == [source |-> s, type |-> o.kind, retryable |-> TRUE]
  <2>1. Issues(s, o) = <<issue>>
    BY <1>2 DEF Issues
  <2>2. issue \in Issue /\ issue.source = s /\ issue.type = o.kind /\ o.kind # "provider"
    BY <1>2 DEF Issue, SettledOutcome
  <2> HIDE DEF issue
  <2>3. QED BY <1>2, <2>1, <2>2
<1>3. QED BY <1>1, <1>2

LEMMA IssuesProperties ==
  ASSUME NEW outcome, \A s \in ToSet(Eligible) : outcome[s] \in SettledOutcome,
         NEW s \in ToSet(Sources)
  PROVE  LET blames == Blames(Aggregate(outcome, Eligible).issues, s)
         IN  /\ s \notin ToSet(Eligible) => blames = {}
             /\ s \in ToSet(Eligible) =>
                  Cardinality(blames) = IF outcome[s].kind = "page" THEN 0 ELSE 1
<1> DEFINE rows == [n \in DOMAIN Eligible |-> Issues(Eligible[n], outcome[Eligible[n]])]
           flat == Aggregate(outcome, Eligible).issues
           l == Len(Eligible)
           blames == Blames(flat, s)
<1>1. l \in Nat /\ DOMAIN Eligible = 1..l /\ \A n \in 1..l : Eligible[n] \in ToSet(Eligible)
  BY EligibleProperties, ToSetOfSeq
<1>2. ToSet(Eligible) \subseteq ToSet(Sources)
  BY EligibleProperties, ToSetOfSeq
<1>3. ASSUME NEW n \in 1..l
      PROVE  /\ rows[n] \in Seq(Issue)
             /\ \A j \in 1..Len(rows[n]) : rows[n][j].source = Eligible[n]
                  /\ (rows[n][j].type # "provider" <=> outcome[Eligible[n]].kind # "page")
             /\ outcome[Eligible[n]].kind # "page" => Len(rows[n]) = 1
  <2>1. rows[n] = Issues(Eligible[n], outcome[Eligible[n]])
    BY <1>1
  <2>2. Eligible[n] \in ToSet(Sources) /\ outcome[Eligible[n]] \in SettledOutcome
    BY <1>1, <1>2
  <2> HIDE DEF rows
  <2>3. QED BY <2>1, <2>2, IssuesOfSource
<1>4. rows \in Seq(Seq(Issue)) /\ Len(rows) = l
  <2>1. rows \in [1..l -> Seq(Issue)]
    BY <1>1, <1>3
  <2>2. QED
    <3> HIDE DEF rows, l
    <3> QED BY <1>1, <2>1, FunctionIsSeq
<1>5. flat = Flatten(rows)
  BY DEF Aggregate
<1>6. flat \in Seq(Issue) /\ \E row, col : Flattens(row, col, flat, rows, l)
  <2> HIDE DEF flat, rows, l
  <2> QED BY <1>4, <1>5, FlattenProperties
<1>7. PICK row, col : Flattens(row, col, flat, rows, l)
  BY <1>6
<1>8. Len(flat) \in Nat /\ DOMAIN flat = 1..Len(flat)
  <2> HIDE DEF flat
  <2> QED BY <1>6, LenProperties
<1> HIDE DEF rows, flat, l
<1>9. ASSUME NEW n \in blames
      PROVE  /\ n \in 1..Len(flat) /\ row[n] \in 1..l /\ Eligible[row[n]] = s
             /\ outcome[s].kind # "page" /\ col[n] = 1
  <2>1. n \in 1..Len(flat) /\ flat[n].source = s /\ flat[n].type # "provider"
    BY <1>8 DEF Blames
  <2>2. row[n] \in 1..l /\ col[n] \in 1..Len(rows[row[n]]) /\ flat[n] = rows[row[n]][col[n]]
    BY <1>7, <2>1 DEF Flattens
  <2>3. Eligible[row[n]] = s /\ outcome[s].kind # "page"
    BY <1>3, <2>1, <2>2
  <2>4. QED BY <1>3, <2>1, <2>2, <2>3
<1>10. \A i, j \in 1..l : Eligible[i] = Eligible[j] => i = j
  <2>1. ASSUME NEW i \in 1..l, NEW j \in 1..l, i < j PROVE Eligible[i] # Eligible[j]
    <3>1. Place(Eligible[i]) < Place(Eligible[j])
      BY <2>1, EligibleProperties DEF l
    <3>2. Place(Eligible[i]) \in Nat
      BY <1>1, <1>2, PlaceType
    <3>3. QED BY <3>1, <3>2
  <2>2. QED BY <1>1, <2>1
<1>11. s \notin ToSet(Eligible) => blames = {}
  BY <1>1, <1>9
<1>12. ASSUME s \in ToSet(Eligible), outcome[s].kind = "page" PROVE blames = {}
  BY <1>9, <1>12
<1>13. ASSUME s \in ToSet(Eligible), outcome[s].kind # "page" PROVE \E n : blames = {n}
  <2>1. PICK i \in 1..l : Eligible[i] = s
    BY <1>1, <1>13 DEF ToSet
  <2>2. 1 \in 1..Len(rows[i]) /\ rows[i][1].source = s /\ rows[i][1].type # "provider"
    BY <1>3, <1>13, <2>1
  <2>3. PICK n \in 1..Len(flat) : row[n] = i /\ col[n] = 1
    BY <1>7, <2>1, <2>2 DEF Flattens
  <2>4. flat[n] = rows[i][1]
    BY <1>7, <2>3 DEF Flattens
  <2>5. n \in blames
    BY <1>8, <2>2, <2>4 DEF Blames
  <2>6. ASSUME NEW k \in blames PROVE k = n
    <3>1. k \in 1..Len(flat) /\ row[k] = i /\ col[k] = 1
      BY <1>9, <1>10, <2>1
    <3>2. QED BY <1>7, <2>3, <3>1 DEF Flattens
  <2>7. QED BY <2>5, <2>6
<1>14. Cardinality({}) = 0 /\ \A n : Cardinality({n}) = 1
  BY FS_EmptySet, FS_Singleton
<1>15. QED
  <2> HIDE DEF blames
  <2>1. s \in ToSet(Eligible) => Cardinality(blames) = IF outcome[s].kind = "page" THEN 0 ELSE 1
    BY <1>12, <1>13, <1>14
  <2>2. QED BY <1>11, <2>1 DEF blames, flat

(* A cursor of the response is that of the page of one of the sources. *)
LEMMA CursorOfSource ==
  ASSUME NEW outcome, NEW n \in DOMAIN NextPages(outcome, Eligible)
  PROVE  \E s \in ToSet(Eligible) :
           NextPages(outcome, Eligible)[n].cursor = outcome[s].page.cursor
<1> DEFINE places == {i \in DOMAIN Eligible : outcome[Eligible[i]].page.cursor # "none"}
           more == Pick(Eligible, places)
<1>1. /\ Eligible \in Seq(ToSet(Sources)) /\ DOMAIN Eligible = 1..Len(Eligible)
      /\ places \in SUBSET (1..Len(Eligible))
  BY EligibleProperties
<1>2. /\ DOMAIN NextPages(outcome, Eligible) = DOMAIN more
      /\ NextPages(outcome, Eligible)[n].cursor = outcome[more[n]].page.cursor
  BY DEF NextPages
<1> HIDE DEF places
<1>3. more \in Seq(ToSet(Sources)) /\ \E at : Picks(at, more, Eligible, places)
  BY <1>1, PickProperties
<1> HIDE DEF more
<1>4. PICK at : Picks(at, more, Eligible, places)
  BY <1>3
<1>5. n \in 1..Len(more)
  BY <1>2, <1>3, LenProperties
<1>6. at[n] \in 1..Len(Eligible) /\ more[n] = Eligible[at[n]]
  BY <1>1, <1>4, <1>5 DEF Picks
<1>7. more[n] \in ToSet(Eligible)
  BY <1>1, <1>6, ToSetOfSeq
<1>8. QED BY <1>2, <1>7

-----------------------------------------------------------------------------
(* The inductive invariant.                                                 *)

(* One search is under way while the panel is loading, for the last query; a response is
   that of outcomes which have all settled.                                               *)
SearchOK(r) ==
  /\ DOMAIN r = {"query", "stage", "arrival", "response", "outcome"}
  /\ r.query = asked
  /\ r.stage \in {"sent", "asking", "ok", "not_found", "down", "unavailable"}
  /\ r.outcome \in [ToSet(Eligible) -> Outcomes]
  /\ \A s \in ToSet(Eligible) : r.outcome[s].kind # "page" => r.outcome[s].page = NoPage
  /\ r.stage = "ok" => AllSettled(r) /\ r.response = AggregateOutcomes(r) /\ Parses(r.response)
  /\ r.stage # "ok" => r.response = Empty
  /\ r.stage = "unavailable" => AllSettled(r) /\ ~Parses(AggregateOutcomes(r))

SearchInv ==
  /\ panel \in {"idle", "loading", "unavailable"}
  /\ asked \in 0..MaxQueries
  /\ shown.query \in {0, asked}
  /\ adding \in {"none", "plain", "blind"}
  /\ panel = "loading" => asked # 0 /\ \E r : searches = {r}
  /\ panel # "loading" => searches = {}
  /\ \A r \in searches : SearchOK(r)

LEMMA SearchInvInit == Init => SearchInv
BY SearchAssumption DEF Init, SearchInv, NoResponse

LEMMA OutcomeTypes ==
  /\ \A kind \in {"asked", "details", "failure", "timeout"} : Waiting(kind) \in Outcomes
  /\ \A p \in Pages : [kind |-> "page", page |-> p] \in Outcomes
  /\ \A c \in {"none", "short"} : [kind |-> "page", page |-> [NoPage EXCEPT !.cursor = c]] \in Outcomes
<1>1. NoPage \in Pages
  BY SearchAssumption
<1>2. [NoPage EXCEPT !.cursor = "none"] = NoPage
  <2>1. ASSUME NEW e, NEW c
        PROVE  [[cursor |-> "none", issues |-> e, results |-> e] EXCEPT !.cursor = c]
                 = [cursor |-> c, issues |-> e, results |-> e]
    OBVIOUS
  <2>2. QED BY <2>1 DEF NoPage
<1>3. QED BY <1>1, <1>2 DEF Waiting, Outcomes

(* A search that is under way is the only one, and asks the last query. *)
LEMMA UnderWay ==
  ASSUME SearchInv, NEW r \in searches
  PROVE  panel = "loading" /\ searches = {r} /\ SearchOK(r) /\ asked # 0
BY DEF SearchInv

LEMMA BecomesKeepsInv ==
  ASSUME SearchInv, NEW r \in searches, NEW t, Becomes(r, t), SearchOK(t)
  PROVE  SearchInv'
<1>1. panel = "loading" /\ searches = {r} /\ asked # 0
  BY UnderWay
<1>2. searches' = {t} /\ UNCHANGED <<panel, asked, shown, adding>>
  BY <1>1 DEF Becomes
<1>3. SearchOK(t)'
  BY <1>2 DEF SearchOK, AllSettled, Settled, AggregateOutcomes, Parses
<1>4. QED BY <1>1, <1>2, <1>3 DEF SearchInv

(* An outcome that settles, or waits for its details, while the sources are asked. *)
LEMMA OutcomeKeepsOK ==
  ASSUME NEW r, SearchOK(r), r.stage = "asking", NEW s \in ToSet(Eligible),
         NEW o \in Outcomes, o.kind # "page" => o.page = NoPage, NEW arrival
  PROVE  /\ SearchOK([r EXCEPT !.outcome[s] = o])
         /\ SearchOK([r EXCEPT !.outcome[s] = o, !.arrival = arrival])
<1> DEFINE outcome == [r.outcome EXCEPT ![s] = o]
           t == [r EXCEPT !.outcome[s] = o]
           u == [r EXCEPT !.outcome[s] = o, !.arrival = arrival]
<1>1. DOMAIN r = {"query", "stage", "arrival", "response", "outcome"} /\ r.query = asked
  BY DEF SearchOK
<1>2. DOMAIN t = DOMAIN r /\ t.query = asked /\ t.stage = "asking" /\ t.outcome = outcome
        /\ t.response = r.response
  BY <1>1
<1>3. DOMAIN u = DOMAIN r /\ u.query = asked /\ u.stage = "asking" /\ u.outcome = outcome
        /\ u.response = r.response
  BY <1>1
<1>4. /\ outcome \in [ToSet(Eligible) -> Outcomes]
      /\ \A x \in ToSet(Eligible) : outcome[x].kind # "page" => outcome[x].page = NoPage
  BY DEF SearchOK
<1> HIDE DEF outcome, t, u
<1>5. SearchOK(t)
  BY <1>1, <1>2, <1>4 DEF SearchOK
<1>6. SearchOK(u)
  BY <1>1, <1>3, <1>4 DEF SearchOK
<1>7. QED BY <1>5, <1>6 DEF t, u

LEMMA StageKeepsOK ==
  ASSUME NEW r, SearchOK(r), r.stage = "sent", NEW stage \in {"asking", "not_found", "down"}
  PROVE  SearchOK([r EXCEPT !.stage = stage])
<1> DEFINE t == [r EXCEPT !.stage = stage]
<1>1. /\ DOMAIN t = DOMAIN r /\ t.query = r.query /\ t.stage = stage
      /\ t.outcome = r.outcome /\ t.response = r.response
  BY DEF SearchOK
<1> HIDE DEF t
<1>2. SearchOK(t)
  BY <1>1 DEF SearchOK
<1>3. QED BY <1>2 DEF t

LEMMA ResponseKeepsOK ==
  ASSUME NEW r, SearchOK(r), r.stage = "asking", AllSettled(r)
  PROVE  /\ Parses(AggregateOutcomes(r)) =>
              SearchOK([r EXCEPT !.stage = "ok", !.response = AggregateOutcomes(r)])
         /\ ~Parses(AggregateOutcomes(r)) => SearchOK([r EXCEPT !.stage = "unavailable"])
<1> DEFINE response == AggregateOutcomes(r)
           t == [r EXCEPT !.stage = "ok", !.response = response]
           u == [r EXCEPT !.stage = "unavailable"]
<1>1. DOMAIN r = {"query", "stage", "arrival", "response", "outcome"} /\ r.query = asked
  BY DEF SearchOK
<1>2. /\ DOMAIN t = DOMAIN r /\ t.query = asked /\ t.stage = "ok"
      /\ t.response = response /\ t.outcome = r.outcome
  <2> HIDE DEF response
  <2> QED BY <1>1
<1>3. /\ DOMAIN u = DOMAIN r /\ u.query = asked /\ u.stage = "unavailable"
      /\ u.outcome = r.outcome /\ u.response = Empty
  BY <1>1 DEF SearchOK
<1> HIDE DEF t, u
<1>4. /\ AllSettled(t) /\ AggregateOutcomes(t) = response
      /\ AllSettled(u) /\ AggregateOutcomes(u) = response
  BY <1>2, <1>3 DEF AllSettled, AggregateOutcomes
<1> HIDE DEF response
<1>5. Parses(response) => SearchOK(t)
  BY <1>1, <1>2, <1>4 DEF SearchOK
<1>6. ~Parses(response) => SearchOK(u)
  BY <1>1, <1>3, <1>4 DEF SearchOK
<1>7. QED BY <1>5, <1>6 DEF t, u, response

LEMMA ServerKeepsInv ==
  ASSUME SearchInv, NEW r \in searches, Server(r)
  PROVE  SearchInv'
<1>1. SearchOK(r)
  BY UnderWay
<1>2. CASE LooksUp(r)
  <2>1. PICK stage \in {"asking", "not_found", "down"} : Becomes(r, [r EXCEPT !.stage = stage])
    BY <1>2 DEF LooksUp
  <2>2. SearchOK([r EXCEPT !.stage = stage])
    BY <1>1, <1>2, StageKeepsOK DEF LooksUp
  <2>3. QED BY <2>1, <2>2, BecomesKeepsInv
<1>3. CASE Responds(r)
  <2>1. AllSettled(r) /\ r.stage = "asking"
    BY <1>3 DEF Responds
  <2>2. CASE Parses(AggregateOutcomes(r))
    <3>1. Becomes(r, [r EXCEPT !.stage = "ok", !.response = AggregateOutcomes(r)])
      BY <1>3, <2>2 DEF Responds
    <3>2. QED BY <1>1, <2>1, <2>2, <3>1, ResponseKeepsOK, BecomesKeepsInv
  <2>3. CASE ~Parses(AggregateOutcomes(r))
    <3>1. Becomes(r, [r EXCEPT !.stage = "unavailable"])
      BY <1>3, <2>3 DEF Responds
    <3>2. QED BY <1>1, <2>1, <2>3, <3>1, ResponseKeepsOK, BecomesKeepsInv
  <2>4. QED BY <2>2, <2>3
<1>4. ASSUME NEW s \in ToSet(Eligible), NEW o \in Outcomes,
             o.kind # "page" => o.page = NoPage, Settles(r, s, o)
      PROVE  SearchInv'
  <2>1. /\ r.stage = "asking"
        /\ Becomes(r, [r EXCEPT !.outcome[s] = o, !.arrival = Append(r.arrival, s)])
    BY <1>4 DEF Settles
  <2>2. SearchOK([r EXCEPT !.outcome[s] = o, !.arrival = Append(r.arrival, s)])
    BY <1>1, <1>4, <2>1, OutcomeKeepsOK
  <2>3. QED BY <2>1, <2>2, BecomesKeepsInv
<1>5. ASSUME NEW s \in ToSet(Eligible), NEW kind \in {"failure", "timeout"},
             Settles(r, s, Waiting(kind))
      PROVE  SearchInv'
  <2>1. Waiting(kind) \in Outcomes /\ Waiting(kind).page = NoPage
    BY OutcomeTypes DEF Waiting
  <2>2. QED BY <1>4, <1>5, <2>1
<1>6. ASSUME NEW s \in ToSet(Eligible), SourceAnswers(r, s) PROVE SearchInv'
  <2>1. PICK p \in Pages : Settles(r, s, [kind |-> "page", page |-> p])
    BY <1>6 DEF SourceAnswers
  <2>2. QED BY <1>4, <2>1, OutcomeTypes
<1>7. ASSUME NEW s \in ToSet(Eligible), SourceNames(r, s) PROVE SearchInv'
  <2>1. CASE r.stage = "asking" /\ Becomes(r, [r EXCEPT !.outcome[s] = Waiting("details")])
    <3>1. Waiting("details") \in Outcomes /\ Waiting("details").page = NoPage
      BY OutcomeTypes DEF Waiting
    <3>2. SearchOK([r EXCEPT !.outcome[s] = Waiting("details")])
      BY <1>1, <2>1, <3>1, OutcomeKeepsOK
    <3>3. QED BY <2>1, <3>2, BecomesKeepsInv
  <2>2. CASE \E cursor \in {"none", "short"} :
               Settles(r, s, [kind |-> "page", page |-> [NoPage EXCEPT !.cursor = cursor]])
    BY <1>4, <2>2, OutcomeTypes
  <2>3. QED BY <1>7, <2>1, <2>2 DEF SourceNames
<1>8. ASSUME NEW s \in ToSet(Eligible), SourceFails(r, s) PROVE SearchInv'
  BY <1>5, <1>8 DEF SourceFails
<1>9. ASSUME NEW s \in ToSet(Eligible), TimerStrikes(r, s) PROVE SearchInv'
  BY <1>5, <1>9 DEF TimerStrikes
<1>10. QED BY <1>2, <1>3, <1>6, <1>7, <1>8, <1>9 DEF Server

LEMMA PanelKeepsInv ==
  ASSUME SearchInv,
         \/ Submit \/ AddResult \/ Added \/ Remount
         \/ \E r \in searches : Receive(r) \/ Lose(r)
  PROVE  SearchInv'
<1>1. CASE Submit
  <2>1. /\ panel' = "loading" /\ asked' = asked + 1 /\ asked' \in 1..MaxQueries
        /\ shown'.query = 0 /\ searches' = {NewSearch} /\ adding' = adding
    BY <1>1, SearchAssumption DEF SearchInv, Submit, NoResponse
  <2> DEFINE t == NewSearch
  <2>2. /\ DOMAIN t = {"query", "stage", "arrival", "response", "outcome"}
        /\ t.query = asked' /\ t.stage = "sent"
        /\ t.outcome = [s \in ToSet(Eligible) |-> Waiting("asked")] /\ t.response = Empty
    BY <2>1 DEF NewSearch
  <2>3. Waiting("asked") \in Outcomes /\ Waiting("asked").page = NoPage
    BY OutcomeTypes DEF Waiting
  <2> HIDE DEF t
  <2>4. /\ t.outcome \in [ToSet(Eligible) -> Outcomes]
        /\ \A s \in ToSet(Eligible) : t.outcome[s].kind # "page" => t.outcome[s].page = NoPage
    BY <2>2, <2>3
  <2>5. \A r \in searches' : SearchOK(r)'
    <3>1. searches' = {t}
      BY <2>1 DEF t
    <3>2. ASSUME NEW r \in searches' PROVE SearchOK(r)'
      <4>1. r = t
        BY <3>1
      <4>2. QED BY <2>2, <2>4, <4>1 DEF SearchOK
    <3>3. QED BY <3>2
  <2>6. QED BY <2>1, <2>5 DEF SearchInv
<1>2. CASE AddResult
  BY <1>2 DEF AddResult, SearchInv, SearchOK, AllSettled, Settled, AggregateOutcomes, Parses
<1>3. CASE Added
  <2>1. shown'.query \in {0, asked} /\ adding' = "none" /\ UNCHANGED <<panel, asked, searches>>
    BY <1>3 DEF Added, SearchInv, NoResponse
  <2>2. QED BY <2>1 DEF SearchInv, SearchOK, AllSettled, Settled, AggregateOutcomes, Parses
<1>4. ASSUME NEW r \in searches, Receive(r) PROVE SearchInv'
  <2>1. searches = {r} /\ r.query = asked
    BY UnderWay DEF SearchOK
  <2>2. searches' = {} /\ panel' \in {"idle", "unavailable"} /\ shown'.query \in {0, asked}
        /\ UNCHANGED <<asked, adding>>
    BY <1>4, <2>1 DEF Receive, SearchInv
  <2>3. QED BY <2>2 DEF SearchInv
<1>5. ASSUME NEW r \in searches, Lose(r) PROVE SearchInv'
  <2>1. searches' = {} /\ panel' = "unavailable" /\ UNCHANGED <<asked, shown, adding>>
    BY <1>5, UnderWay DEF Lose
  <2>2. QED BY <2>1 DEF SearchInv
<1>6. CASE Remount
  BY <1>6 DEF Remount, SearchInv, NoResponse
<1>7. QED BY <1>1, <1>2, <1>3, <1>4, <1>5, <1>6

LEMMA StutterKeepsInv == SearchInv /\ UNCHANGED vars => SearchInv'
BY DEF vars, SearchInv, SearchOK, AllSettled, Settled, AggregateOutcomes, Parses

THEOREM SearchInvariant == Spec => []SearchInv
<1>1. SearchInv /\ [Next]_vars => SearchInv'
  <2> SUFFICES ASSUME SearchInv, [Next]_vars PROVE SearchInv'
    OBVIOUS
  <2>1. CASE UNCHANGED vars
    BY <2>1, StutterKeepsInv
  <2>2. CASE \E r \in searches : Server(r)
    BY <2>2, ServerKeepsInv
  <2>3. CASE Submit \/ AddResult \/ Added \/ Remount \/ \E r \in searches : Receive(r) \/ Lose(r)
    BY <2>3, PanelKeepsInv
  <2>4. QED BY <2>1, <2>2, <2>3 DEF Next
<1>2. QED BY <1>1, SearchInvInit, PTL DEF Spec

-----------------------------------------------------------------------------
(* The theorems.                                                            *)

(* The panel waits for one search, or for none, and its state and that of the search are
   of their types (SearchPanel and CatalogSearchService).                                 *)
THEOREM SearchTypeCorrect == Spec => []SearchTypeOK
<1>1. SearchInv => SearchTypeOK
  <2> SUFFICES ASSUME SearchInv PROVE SearchTypeOK
    OBVIOUS
  <2>1. MaxQueries \in Nat /\ asked \in 0..MaxQueries /\ shown.query \in 0..asked
    BY SearchAssumption DEF SearchInv
  <2>2. Cardinality({}) = 0 /\ \A r : Cardinality({r}) = 1
    BY FS_EmptySet, FS_Singleton
  <2>3. /\ panel = "loading" <=> Cardinality(searches) = 1
        /\ panel # "loading" <=> searches = {}
    BY <2>2 DEF SearchInv
  <2>4. ASSUME NEW r \in searches
        PROVE  /\ r.query \in 1..asked
               /\ r.stage \in {"sent", "asking", "ok", "not_found", "down", "unavailable"}
               /\ \A s \in ToSet(Eligible) : r.outcome[s] \in Outcomes
    BY <2>1, UnderWay DEF SearchOK
  <2>5. QED BY <2>1, <2>3, <2>4 DEF SearchInv, SearchTypeOK
<1>2. QED BY <1>1, SearchInvariant, PTL

(* What the panel shows answers the query that was typed last: a search that has been
   replaced or lost, or an addition that clears the results, never brings back another
   (SearchPanel, handleSearch).                                                          *)
THEOREM LastQueryIsShown == Spec => []ShownAnswersLastQuery
<1>1. SearchInv => ShownAnswersLastQuery
  BY DEF SearchInv, ShownAnswersLastQuery
<1>2. QED BY <1>1, SearchInvariant, PTL

(* Once all sources have settled, the findings are those of the pages, and the results
   describe them.                                                                        *)
Findings(r) == Candidates(r.outcome, Eligible)

LEMMA SettledFindings ==
  ASSUME SearchInv, NEW r \in searches, AllSettled(r)
  PROVE  /\ \A s \in ToSet(Eligible) : r.outcome[s] \in SettledOutcome
         /\ Findings(r) \in Seq(Finding)
         /\ \A f \in ToSet(Findings(r)) :
              f.source \in ToSet(Eligible) /\ f.candidate \in ToSet(r.outcome[f.source].page.results)
         /\ \A s \in ToSet(Eligible) : \A c \in ToSet(r.outcome[s].page.results) :
              [source |-> s, candidate |-> c] \in ToSet(Findings(r))
         /\ DescribesAll(AggregateOutcomes(r).results, Findings(r))
<1>1. NoPage \in Page /\ Pages \subseteq Page
  BY SearchAssumption
<1>2. [NoPage EXCEPT !.cursor = "short"] \in Page
  BY <1>1 DEF Page, Cursors
<1>3. ASSUME NEW s \in ToSet(Eligible) PROVE r.outcome[s] \in SettledOutcome
  <2>1. r.outcome[s] \in Outcomes /\ Settled(r.outcome[s])
    BY UnderWay DEF SearchOK, AllSettled
  <2> DEFINE o == r.outcome[s]
  <2> HIDE DEF o
  <2>2. ASSUME o \in Outcomes, Settled(o) PROVE o \in SettledOutcome
    BY <1>1, <1>2, <2>2 DEF Outcomes, Settled, SettledOutcome
  <2>3. QED BY <2>1, <2>2 DEF o
<1>4. \A s \in ToSet(Eligible) : r.outcome[s].page \in Page
  BY <1>3 DEF SettledOutcome
<1> DEFINE found == Candidates(r.outcome, Eligible)
<1>5. /\ found \in Seq(Finding) /\ InPlace(found)
      /\ \A f \in ToSet(found) :
           f.source \in ToSet(Eligible) /\ f.candidate \in ToSet(r.outcome[f.source].page.results)
      /\ \A s \in ToSet(Eligible) : \A c \in ToSet(r.outcome[s].page.results) :
           [source |-> s, candidate |-> c] \in ToSet(found)
  BY <1>4, CandidatesProperties
<1>6. AggregateOutcomes(r).results = Results(found)
  BY DEF AggregateOutcomes, Aggregate
<1> HIDE DEF found
<1>7. DescribesAll(Results(found), found)
  BY <1>5, ResultsProperties
<1>8. QED BY <1>3, <1>5, <1>6, <1>7 DEF found, Findings

(* The variants of a result that the schema accepts. *)
LEMMA EntryProperties ==
  ASSUME NEW response, NEW found, DescribesAll(response.results, found), NEW s,
         NEW e \in Entries(response, s)
  PROVE  /\ e = <<e[1], e[2]>> /\ e[1] \in 1..Len(response.results)
         /\ e[2] \in 1..Len(response.results[e[1]].variants)
         /\ response.results[e[1]].variants[e[2]].source = s
<1>1. /\ e \in (1..Len(response.results)) \X (1..MaxVariants)
      /\ e[2] <= Len(response.results[e[1]].variants)
      /\ response.results[e[1]].variants[e[2]].source = s
  BY DEF Entries
<1>2. e = <<e[1], e[2]>> /\ e[1] \in 1..Len(response.results) /\ e[2] \in 1..MaxVariants
  BY <1>1
<1>3. response.results[e[1]].variants \in Seq(Track)
  BY <1>2 DEF DescribesAll, Describes
<1>4. Len(response.results[e[1]].variants) \in Nat /\ MaxVariants \in Nat
  BY <1>3, LenProperties, SearchAssumption
<1>5. QED BY <1>1, <1>2, <1>4

HasEntry(response, i, v) ==
  \E e \in Entries(response, v.source) : e[1] = i /\ response.results[i].variants[e[2]] = v

LEMMA EntryExists ==
  ASSUME NEW response, NEW found, DescribesAll(response.results, found), Parses(response),
         NEW i \in 1..Len(response.results), NEW v \in ToSet(response.results[i].variants)
  PROVE  HasEntry(response, i, v)
<1> DEFINE variants == response.results[i].variants
<1>1. variants \in Seq(Track) /\ i \in DOMAIN response.results
  BY DEF DescribesAll, Describes
<1>2. Len(variants) \in Nat /\ Len(variants) <= MaxVariants /\ MaxVariants \in Nat
  <2>1. Len(variants) <= MaxVariants
    BY <1>1 DEF Parses, ResultParses
  <2> HIDE DEF variants
  <2>2. QED BY <1>1, <2>1, LenProperties, SearchAssumption
<1>3. PICK j \in 1..Len(variants) : variants[j] = v
  <2> v \in ToSet(variants)
    OBVIOUS
  <2> HIDE DEF variants
  <2> QED BY <1>1, ToSetOfSeq
<1>4. j \in 1..MaxVariants /\ j <= Len(variants)
  BY <1>2
<1> DEFINE e == <<i, j>>
<1>5. e \in Entries(response, v.source) /\ e[1] = i /\ e[2] = j
  BY <1>3, <1>4 DEF Entries
<1> HIDE DEF e
<1>6. QED BY <1>3, <1>5 DEF HasEntry

(* A response holds of each source that was asked all it found, each track once under
   each of its titles, or one issue, and nothing of any other source, whatever order the
   sources settled in and however each ended (CatalogSearchService, aggregateOutcomes).  *)
THEOREM SourcesAccounted == Spec => []EachSourceAccounted
<1>1. ASSUME SearchInv, NEW r \in searches, NEW s \in ToSet(Sources), r.stage = "ok"
      PROVE  LET results == r.response.results
                 issues == r.response.issues
                 entries == Entries(r.response, s)
                 blames == Blames(issues, s)
             IN  IF s \in Consented \cap Searchable
                   THEN /\ {<<results[e[1]].key, results[e[1]].variants[e[2]].track>> : e \in entries}
                             = {<<c.key, c.track>> : c \in ToSet(r.outcome[s].page.results)}
                        /\ \A d, e \in entries :
                             /\ results[d[1]].key = results[e[1]].key
                             /\ results[d[1]].variants[d[2]] = results[e[1]].variants[e[2]]
                             => d = e
                        /\ Cardinality(blames) = IF r.outcome[s].kind = "page" THEN 0 ELSE 1
                   ELSE entries = {} /\ blames = {}
  <2> DEFINE results == r.response.results
             entries == Entries(r.response, s)
             blames == Blames(r.response.issues, s)
             found == Findings(r)
             finds == ToSet(r.outcome[s].page.results)
             told == {<<results[e[1]].key, results[e[1]].variants[e[2]].track>> : e \in entries}
             known == {<<c.key, c.track>> : c \in finds}
  <2>1. AllSettled(r) /\ r.response = AggregateOutcomes(r) /\ Parses(r.response)
    BY <1>1, UnderWay DEF SearchOK
  <2>2. DescribesAll(results, found)
    BY <1>1, <2>1, SettledFindings
  <2>3. /\ \A f \in ToSet(found) :
             f.source \in ToSet(Eligible) /\ f.candidate \in ToSet(r.outcome[f.source].page.results)
        /\ s \in ToSet(Eligible) => \A c \in finds : [source |-> s, candidate |-> c] \in ToSet(found)
    BY <1>1, <2>1, SettledFindings
  <2>4. ToSet(Eligible) = Consented \cap Searchable
    BY EligibleProperties
  <2>5. /\ s \notin ToSet(Eligible) => blames = {}
        /\ s \in ToSet(Eligible) => Cardinality(blames) = IF r.outcome[s].kind = "page" THEN 0 ELSE 1
    <3>1. \A x \in ToSet(Eligible) : r.outcome[x] \in SettledOutcome
      BY <1>1, <2>1, SettledFindings
    <3>2. r.response.issues = Aggregate(r.outcome, Eligible).issues
      BY <2>1 DEF AggregateOutcomes
    <3>3. QED BY <3>1, <3>2, IssuesProperties
  <2> HIDE DEF results, found, finds
  <2>6. ASSUME NEW e \in entries
        PROVE  /\ e = <<e[1], e[2]>> /\ e[1] \in 1..Len(results)
               /\ e[2] \in 1..Len(results[e[1]].variants)
               /\ results[e[1]].variants[e[2]].source = s
    BY <2>2, EntryProperties DEF results
  <2>7. ASSUME NEW e \in entries
        PROVE  /\ s \in ToSet(Eligible)
               /\ <<results[e[1]].key, results[e[1]].variants[e[2]].track>> \in known
    <3> DEFINE v == results[e[1]].variants[e[2]]
    <3>1. Describes(results[e[1]], found)
      BY <2>2, <2>6 DEF DescribesAll
    <3>2. v \in ToSet(results[e[1]].variants)
      BY <2>6, <3>1, ToSetOfSeq DEF Describes
    <3>3. PICK f \in ToSet(found) : TitleOf(f) = results[e[1]].key /\ v = TrackOf(f)
      BY <3>1, <3>2 DEF Describes
    <3>4. f.source = s /\ f.candidate.track = v.track
      BY <2>6, <3>3 DEF TrackOf
    <3>5. s \in ToSet(Eligible) /\ f.candidate \in finds
      BY <2>3, <3>4 DEF finds
    <3>6. QED BY <3>3, <3>4, <3>5 DEF TitleOf
  <2>8. ASSUME s \in ToSet(Eligible), NEW c \in finds PROVE <<c.key, c.track>> \in told
    <3> DEFINE f == [source |-> s, candidate |-> c]
    <3>1. f \in ToSet(found) /\ TitleOf(f) = c.key /\ TrackOf(f) = [source |-> s, track |-> c.track]
      BY <2>3, <2>8 DEF TitleOf, TrackOf
    <3> HIDE DEF f
    <3>2. PICK i \in 1..Len(results) : results[i].key = c.key
      BY <2>2, <3>1 DEF DescribesAll
    <3>3. TrackOf(f) \in ToSet(results[i].variants)
      BY <2>2, <3>1, <3>2 DEF DescribesAll, Describes
    <3>4. TrackOf(f).source = s /\ TrackOf(f).track = c.track
      BY <3>1
    <3>5. PICK e \in entries : e[1] = i /\ results[i].variants[e[2]] = TrackOf(f)
      <4>1. /\ DescribesAll(r.response.results, found) /\ i \in 1..Len(r.response.results)
            /\ TrackOf(f) \in ToSet(r.response.results[i].variants)
        BY <2>2, <3>3 DEF results
      <4> DEFINE v == TrackOf(f)
                 response == r.response
      <4>2. v \in ToSet(response.results[i].variants) /\ i \in 1..Len(response.results)
            /\ DescribesAll(response.results, found) /\ Parses(response)
        BY <2>1, <4>1
      <4> HIDE DEF v, response
      <4>3. HasEntry(response, i, v)
        BY <4>2, EntryExists
      <4>4. QED BY <3>4, <4>3 DEF HasEntry, results, response, v
    <3>6. <<results[e[1]].key, results[e[1]].variants[e[2]].track>> = <<c.key, c.track>>
      BY <3>2, <3>4, <3>5
    <3>7. QED BY <3>5, <3>6
  <2>9. ASSUME NEW d \in entries, NEW e \in entries,
               results[d[1]].key = results[e[1]].key,
               results[d[1]].variants[d[2]] = results[e[1]].variants[e[2]]
        PROVE  d = e
    <3>1. d[1] = e[1]
      BY <2>2, <2>6, <2>9 DEF DescribesAll
    <3>2. Describes(results[e[1]], found)
      BY <2>2, <2>6 DEF DescribesAll
    <3>3. d[2] = e[2]
      BY <2>6, <2>9, <3>1, <3>2 DEF Describes
    <3>4. QED BY <2>6, <3>1, <3>3
  <2>10. CASE s \in Consented \cap Searchable
    <3>1. told = known
      BY <2>4, <2>7, <2>8, <2>10
    <3>2. QED BY <2>4, <2>5, <2>9, <2>10, <3>1 DEF results, finds
  <2>11. CASE s \notin Consented \cap Searchable
    <3>1. entries = {} /\ blames = {}
      BY <2>4, <2>5, <2>7, <2>11
    <3>2. QED BY <2>11, <3>1
  <2>12. QED BY <2>10, <2>11
<1>2. SearchInv => EachSourceAccounted
  BY <1>1 DEF EachSourceAccounted, Blames
<1>3. QED BY <1>2, SearchInvariant, PTL

(* A title is described by the first source of the list that found it, so that a source
   that answers late changes nothing of how a title reads (aggregateOutcomes).           *)
THEOREM FirstSourceIsShown == Spec => []FirstSourceDescribes
<1>1. ASSUME SearchInv, NEW r \in searches, NEW i \in DOMAIN r.response.results,
             NEW v \in ToSet(r.response.results[i].variants)
      PROVE  Place(r.response.results[i].about.source) <= Place(v.source)
  <2>1. CASE r.stage = "ok"
    <3>1. AllSettled(r) /\ r.response = AggregateOutcomes(r)
      BY <1>1, <2>1, UnderWay DEF SearchOK
    <3>2. DescribesAll(r.response.results, Findings(r))
      BY <1>1, <3>1, SettledFindings
    <3>3. QED BY <1>1, <3>2 DEF DescribesAll, Describes
  <2>2. CASE r.stage # "ok"
    <3>1. r.response = Empty
      BY <1>1, <2>2, UnderWay DEF SearchOK
    <3>2. QED BY <1>1, <3>1 DEF Empty
  <2>3. QED BY <2>1, <2>2
<1>2. SearchInv => FirstSourceDescribes
  BY <1>1 DEF FirstSourceDescribes, Place
<1>3. QED BY <1>2, SearchInvariant, PTL

(* A response is refused only for a description, a track or a cursor that the schema
   refuses, or a title with too many variants, never because a source failed or was late
   (CatalogSearchService.search and the outcome requestSource makes of every exception).  *)
THEOREM FailuresAreIsolated == Spec => []OneFailureIsIsolated
<1>1. ASSUME SearchInv, NEW r \in searches, r.stage = "unavailable"
      PROVE  LET finds(s) == ToSet(r.outcome[s].page.results)
                 titled(k) == {v \in ToSet(Eligible) \X Tracks :
                                 \E c \in finds(v[1]) : c.key = k /\ c.track = v[2]}
             IN  \E s \in ToSet(Eligible) :
                   \/ r.outcome[s].page.cursor = "long"
                   \/ \E c \in finds(s) : \/ ~c.fits \/ c.track \in Malformed
                                         \/ Cardinality(titled(c.key)) > MaxVariants
  <2> DEFINE results == AggregateOutcomes(r).results
             found == Findings(r)
             finds(s) == ToSet(r.outcome[s].page.results)
             titled(k) == {v \in ToSet(Eligible) \X Tracks :
                             \E c \in finds(v[1]) : c.key = k /\ c.track = v[2]}
  <2>1. AllSettled(r) /\ ~Parses(AggregateOutcomes(r))
    BY <1>1, UnderWay DEF SearchOK
  <2>2. /\ found \in Seq(Finding) /\ DescribesAll(results, found)
        /\ \A f \in ToSet(found) : f.source \in ToSet(Eligible) /\ f.candidate \in finds(f.source)
        /\ \A s \in ToSet(Eligible) : \A c \in finds(s) :
             [source |-> s, candidate |-> c] \in ToSet(found)
    BY <1>1, <2>1, SettledFindings
  <2>3. CASE \E n \in DOMAIN NextPages(r.outcome, Eligible) :
                NextPages(r.outcome, Eligible)[n].cursor = "long"
    BY <2>3, CursorOfSource
  <2>4. CASE \A n \in DOMAIN NextPages(r.outcome, Eligible) :
                NextPages(r.outcome, Eligible)[n].cursor # "long"
    <3>1. PICK i \in DOMAIN results : ~ResultParses(results[i])
      BY <2>1, <2>4 DEF Parses, AggregateOutcomes, Aggregate
    <3> HIDE DEF results, found, finds
    <3> DEFINE about == results[i].about
               variants == results[i].variants
               key == results[i].key
               c == about.candidate
               all == titled(key)
    <3>2. Describes(results[i], found)
      BY <2>2 DEF DescribesAll
    <3>3. about \in ToSet(found) /\ c.key = key
      BY <3>2 DEF Describes, TitleOf
    <3>4. about.source \in ToSet(Eligible) /\ c \in finds(about.source)
      BY <2>2, <3>3
    <3>5. /\ variants \in Seq(Track)
          /\ \A m, n \in 1..Len(variants) : variants[m] = variants[n] => m = n
          /\ \A v \in ToSet(variants) : \E f \in ToSet(found) : TitleOf(f) = key /\ v = TrackOf(f)
          /\ \A f \in ToSet(found) : TitleOf(f) = key => TrackOf(f) \in ToSet(variants)
      BY <3>2 DEF Describes
    <3> HIDE DEF variants, key
    <3>6. Len(variants) \in Nat /\ \A n \in 1..Len(variants) : variants[n] \in Track
      BY <3>5, LenProperties, ElementOfSeq
    <3> DEFINE pair == [n \in 1..Len(variants) |-> <<variants[n].source, variants[n].track>>]
    <3>7. ASSUME NEW n \in 1..Len(variants) PROVE pair[n] \in all
      <4>1. variants[n] \in ToSet(variants)
        BY <3>5, ToSetOfSeq
      <4>2. PICK f \in ToSet(found) : TitleOf(f) = key /\ variants[n] = TrackOf(f)
        BY <3>5, <4>1
      <4>3. variants[n].source = f.source /\ variants[n].track = f.candidate.track
        BY <4>2 DEF TrackOf
      <4>4. f.source \in ToSet(Eligible) /\ f.candidate \in finds(f.source)
        BY <2>2
      <4>5. variants[n].track \in Tracks
        BY <3>6 DEF Track
      <4>6. pair[n] = <<f.source, f.candidate.track>> /\ f.candidate.track \in Tracks
        BY <4>3, <4>5
      <4>7. QED BY <4>2, <4>4, <4>6 DEF TitleOf
    <3>8. ASSUME NEW v \in all PROVE \E n \in 1..Len(variants) : pair[n] = v
      <4>1. v = <<v[1], v[2]>> /\ v[1] \in ToSet(Eligible)
        OBVIOUS
      <4>2. PICK d \in finds(v[1]) : d.key = key /\ d.track = v[2]
        BY <3>8
      <4> DEFINE f == [source |-> v[1], candidate |-> d]
      <4>3. f \in ToSet(found)
        BY <2>2, <4>1, <4>2
      <4>4. TitleOf(f) = key /\ TrackOf(f).source = v[1] /\ TrackOf(f).track = v[2]
        BY <4>2 DEF TitleOf, TrackOf
      <4> HIDE DEF f
      <4>5. PICK n \in 1..Len(variants) : variants[n] = TrackOf(f)
        BY <3>5, <4>3, <4>4, ToSetOfSeq
      <4>6. pair[n] = <<v[1], v[2]>>
        BY <4>4, <4>5
      <4>7. QED BY <4>1, <4>6
    <3>9. ASSUME NEW m \in 1..Len(variants), NEW n \in 1..Len(variants), pair[m] = pair[n]
           PROVE  m = n
      <4>1. variants[m].source = variants[n].source /\ variants[m].track = variants[n].track
        BY <3>9
      <4>2. variants[m] \in Track /\ variants[n] \in Track
        BY <3>6
      <4>3. variants[m] = variants[n]
        BY <4>1, <4>2 DEF Track
      <4>4. QED BY <3>5, <4>3
    <3>10. Cardinality(all) = Len(variants)
      <4>1. pair \in Bijection(1..Len(variants), all)
        <5>1. DOMAIN pair = 1..Len(variants) /\ pair \in [1..Len(variants) -> all]
          BY <3>7
        <5> HIDE DEF pair, all
        <5>2. QED BY <3>8, <3>9, <5>1 DEF Bijection, Injection, Surjection, IsInjective
      <4> HIDE DEF pair, all
      <4>2. QED BY <3>6, <4>1, FS_CountingElements DEF ExistsBijection
    <3>11. CASE ~c.fits
      BY <3>4, <3>11 DEF finds
    <3>12. CASE \E v \in ToSet(variants) : v.track \in Malformed
      <4>1. PICK v \in ToSet(variants) : v.track \in Malformed
        BY <3>12
      <4>2. PICK f \in ToSet(found) : v = TrackOf(f)
        BY <3>5, <4>1
      <4>3. f.source \in ToSet(Eligible) /\ f.candidate \in finds(f.source)
        BY <2>2
      <4>4. f.candidate.track \in Malformed
        BY <4>1, <4>2 DEF TrackOf
      <4>5. QED BY <4>3, <4>4 DEF finds
    <3>13. CASE ~(Len(variants) <= MaxVariants)
      <4>1. Len(variants) > MaxVariants
        BY <3>6, <3>13, SearchAssumption
      <4>2. Cardinality(titled(c.key)) = Len(variants)
        BY <3>3, <3>10
      <4>3. QED BY <3>4, <4>1, <4>2 DEF finds
    <3>14. QED BY <3>1, <3>11, <3>12, <3>13 DEF ResultParses, variants
  <2>5. QED BY <2>3, <2>4
<1>2. SearchInv => OneFailureIsIsolated
  BY <1>1 DEF OneFailureIsIsolated
<1>3. QED BY <1>2, SearchInvariant, PTL
=============================================================================
