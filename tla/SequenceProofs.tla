--------------------------- MODULE SequenceProofs ---------------------------
(***************************************************************************)
(* Facts about numbers, sequences and rows of sequences that the proofs    *)
(* about data rest on.                                                     *)
(***************************************************************************)
EXTENDS Integers, Sequences, FiniteSets, SequencesExt, FiniteSetTheorems,
        SequenceTheorems, WellFoundedInduction, TLAPS

-----------------------------------------------------------------------------
(* Sequences and rows that agree wherever they have an element.            *)

\* A function on the first n numbers is a sequence of n elements.
LEMMA RowIsSeq ==
    ASSUME NEW S, NEW n \in Nat, NEW s \in [1..n -> S]
    PROVE  s \in Seq(S) /\ Len(s) = n
<1>1. s \in Seq(S)
  BY SeqDef
<1> DEFINE k == Len(s)
<1>2. k \in Nat /\ 1..k = 1..n
  BY <1>1, LenProperties
<1> HIDE DEF k
<1>3. (n \in 1..k <=> n \in 1..n) /\ (k \in 1..k <=> k \in 1..n)
  BY <1>2
<1>4. k = n
  BY <1>2, <1>3
<1> QED
  BY <1>1, <1>4 DEF k

LEMMA FirstOf ==
    ASSUME NEW S, NEW s \in Seq(S), NEW t \in Seq(S), Len(t) <= Len(s),
           \A i \in 1..Len(t) : s[i] = t[i]
    PROVE  SubSeq(s, 1, Len(t)) = t
<1> DEFINE n == Len(t)
<1>1. n \in Nat /\ \A i \in 1..n : s[i] \in S
  BY ElementOfSeq, LenProperties
<1>2. /\ SubSeq(s, 1, n) \in Seq(S)
      /\ Len(SubSeq(s, 1, n)) = IF 1 <= n THEN n - 1 + 1 ELSE 0
      /\ \A i \in 1..(n - 1 + 1) : SubSeq(s, 1, n)[i] = s[1 + i - 1]
  BY <1>1, SubSeqProperties
<1> QED
  BY <1>1, <1>2, SeqEqual

LEMMA LeastNumber ==
    ASSUME NEW T \in SUBSET Nat, T # {}
    PROVE  Min(T) \in T /\ \A y \in T : Min(T) <= y
<1> DEFINE R == OpToRel(<, Nat)
<1>1. \A x, y \in Nat : <<y, x>> \in R <=> y < x
  BY DEF OpToRel
<1>2. IsWellFoundedOn(R, Nat)
  BY NatLessThanWellFounded
<1> HIDE DEF R
<1>3. PICK x \in T : \A y \in Nat : <<y, x>> \in R => ~(y \in T)
  BY <1>2, WFMin
<1>4. ASSUME NEW y \in T
      PROVE  x <= y
  <2>1. ~(y < x)
    BY <1>1, <1>3
  <2> QED
    BY <2>1
<1>5. \E z \in T : \A y \in T : z <= y
  BY <1>4
<1> QED
  BY <1>5 DEF Min

\* A row of n sequences over S, each of which continues the one before with
\* an element of seqs.
IsRow(F, seqs, S, n) ==
    /\ F \in [1..n -> Seq(S)]
    /\ F[1] = seqs[1]
    /\ \A i \in 2..n : F[i] = F[i - 1] \o seqs[i]

\* What flattening answers: the last of such a row.
LEMMA FlattenIs ==
    ASSUME NEW S, NEW n \in Nat \ {0}, NEW seqs \in [1..n -> Seq(S)], NEW F, IsRow(F, seqs, S, n)
    PROVE  FlattenSeq(seqs) = F[n]
<1> USE DEF IsRow
<1> DEFINE Unfolded(f) == [i \in 1..n |-> IF i = 1 THEN seqs[i] ELSE f[i - 1] \o seqs[i]]
           G == CHOOSE f : f = Unfolded(f)
<1>1. F = Unfolded(F)
  <2>1. F = [i \in 1..n |-> F[i]]
    OBVIOUS
  <2>2. \A i \in 1..n : F[i] = IF i = 1 THEN seqs[i] ELSE F[i - 1] \o seqs[i]
    <3>1. ASSUME NEW i \in 1..n
          PROVE  i = 1 \/ i \in 2..n
      OBVIOUS
    <3> QED
      BY <3>1
  <2>3. [i \in 1..n |-> F[i]] = [i \in 1..n |-> IF i = 1 THEN seqs[i] ELSE F[i - 1] \o seqs[i]]
    BY <2>2
  <2> QED
    BY <2>1, <2>3
<1>2. G = Unfolded(G)
  BY <1>1, Zenon
<1>3. FlattenSeq(seqs) = G[n]
  <2>1. seqs \in Seq(Seq(S)) /\ Len(seqs) = n
    BY SeqDef
  <2> QED
    BY <2>1 DEF FlattenSeq
<1> HIDE DEF G
<1>4. ASSUME NEW i \in 1..n, G[i] # F[i]
      PROVE  FALSE
  <2> DEFINE T == {k \in 1..n : G[k] # F[k]}
             m == Min(T)
  <2>1. T \in SUBSET Nat /\ T # {}
    <3>1. i \in T
      BY <1>4
    <3>2. \A k \in T : k \in Nat
      OBVIOUS
    <3> QED
      BY <3>1, <3>2
  <2>2. m \in T /\ \A k \in T : m <= k
    BY <2>1, LeastNumber
  <2> HIDE DEF m
  <2>3. G[m] = IF m = 1 THEN seqs[m] ELSE G[m - 1] \o seqs[m]
    BY <1>2, <2>2
  <2>4. m # 1 => m - 1 \in 1..n /\ m \in 2..n /\ G[m - 1] = F[m - 1]
    BY <2>2
  <2> QED
    BY <2>2, <2>3, <2>4
<1> QED
  BY <1>3, <1>4

LEMMA FlattenRow ==
    ASSUME NEW S, NEW n \in Nat \ {0}, NEW seqs \in [1..n -> Seq(S)]
    PROVE  \E F : IsRow(F, seqs, S, n)
<1> DEFINE Short == {m \in 1..n : ~\E F : IsRow(F, seqs, S, m)}
           m == Min(Short)
<1>1. SUFFICES ASSUME Short # {} PROVE FALSE
  <2>1. n \in 1..n
    OBVIOUS
  <2> QED
    BY <1>1, <2>1
<1>2. Short \in SUBSET Nat
  <2>1. \A k \in Short : k \in Nat
    OBVIOUS
  <2> QED
    BY <2>1
<1>3. m \in 1..n /\ (~\E F : IsRow(F, seqs, S, m)) /\ \A k \in Short : m <= k
  <2>1. m \in Short /\ \A k \in Short : m <= k
    BY <1>1, <1>2, LeastNumber
  <2> QED
    BY <2>1
<1> HIDE DEF m
<1>4. CASE m = 1
  <2> DEFINE G == [i \in 1..1 |-> seqs[1]]
  <2>1. 1 \in 1..n /\ seqs[1] \in Seq(S)
    OBVIOUS
  <2>2. G \in [1..1 -> Seq(S)] /\ G[1] = seqs[1] /\ \A i \in 2..1 : G[i] = G[i - 1] \o seqs[i]
    BY <2>1
  <2> HIDE DEF G
  <2>3. IsRow(G, seqs, S, 1)
    BY <2>2 DEF IsRow
  <2> QED
    BY <1>3, <1>4, <2>3
<1>5. CASE m # 1
  <2>1. m - 1 \in 1..n /\ m - 1 \notin Short
    <3> HIDE DEF Short
    <3>1. m \in Int /\ m - 1 \in 1..n
      BY <1>3, <1>5
    <3>2. m - 1 \in Short => m <= m - 1
      BY <1>3
    <3> QED
      BY <3>1, <3>2
  <2>2. PICK F : IsRow(F, seqs, S, m - 1)
    BY <2>1
  <2> DEFINE G == [i \in 1..m |-> IF i = m THEN F[m - 1] \o seqs[m] ELSE F[i]]
  <2>3. F[m - 1] \in Seq(S) /\ seqs[m] \in Seq(S)
    BY <1>3, <2>1, <2>2 DEF IsRow
  <2>4. F[m - 1] \o seqs[m] \in Seq(S)
    BY <2>3
  <2>5. G \in [1..m -> Seq(S)]
    <3>1. \A i \in 1..m : i # m => i \in 1..(m - 1)
      BY <1>3
    <3> QED
      BY <2>2, <2>4, <3>1 DEF IsRow
  <2>6. G[1] = seqs[1]
    BY <1>3, <1>5, <2>2 DEF IsRow
  <2>7. ASSUME NEW i \in 2..m
        PROVE  G[i] = G[i - 1] \o seqs[i]
    <3>1. i \in 1..m /\ i - 1 \in 1..m /\ i - 1 # m
      BY <1>3
    <3>2. G[i - 1] = F[i - 1]
      BY <3>1
    <3>3. CASE i = m
      BY <3>1, <3>2, <3>3
    <3>4. CASE i # m
      <4>1. i \in 2..(m - 1)
        BY <1>3, <3>4
      <4> QED
        BY <2>2, <3>1, <3>2, <3>4, <4>1 DEF IsRow
    <3> QED
      BY <3>3, <3>4
  <2> HIDE DEF G
  <2>8. IsRow(G, seqs, S, m)
    BY <2>5, <2>6, <2>7 DEF IsRow
  <2> QED
    BY <1>3, <2>8
<1> QED
  BY <1>4, <1>5

\* A part of a sequence.
LEMMA PartOf ==
    ASSUME NEW S, NEW s \in Seq(S), NEW m \in Nat, m >= 1, NEW n \in Int, n <= Len(s)
    PROVE  /\ SubSeq(s, m, n) \in Seq(S)
           /\ Len(SubSeq(s, m, n)) = IF m <= n THEN n - m + 1 ELSE 0
           /\ \A i \in 1..(n - m + 1) : SubSeq(s, m, n)[i] = s[m + i - 1]
<1>1. m \in Int /\ \A i \in m..n : i \in 1..Len(s)
  BY LenProperties
<1>2. \A i \in m..n : s[i] \in S
  BY <1>1, ElementOfSeq
<1> QED
  BY <1>1, <1>2, SubSeqProperties

LEMMA FirstPart ==
    ASSUME NEW S, NEW s \in Seq(S), NEW n \in Int, n <= Len(s)
    PROVE  /\ SubSeq(s, 1, n) \in Seq(S)
           /\ Len(SubSeq(s, 1, n)) = IF 1 <= n THEN n ELSE 0
           /\ \A i \in 1..n : SubSeq(s, 1, n)[i] = s[i]
<1> DEFINE m == 1
<1>1. m \in Nat /\ m >= 1
  OBVIOUS
<1> HIDE DEF m
<1>2. /\ SubSeq(s, m, n) \in Seq(S)
      /\ Len(SubSeq(s, m, n)) = IF m <= n THEN n - m + 1 ELSE 0
      /\ \A i \in 1..(n - m + 1) : SubSeq(s, m, n)[i] = s[m + i - 1]
  BY <1>1, PartOf
<1> QED
  BY <1>2 DEF m

LEMMA SeqOfMore ==
    ASSUME NEW S, NEW T, S \subseteq T, NEW s \in Seq(S)
    PROVE  s \in Seq(T)
<1>1. Len(s) \in Nat /\ s \in [1..Len(s) -> T]
  BY LenProperties
<1> QED
  BY <1>1, RowIsSeq

LEMMA ToSetIn ==
    ASSUME NEW S, NEW s \in Seq(S)
    PROVE  ToSet(s) \subseteq S
BY LenProperties, ElementOfSeq DEF ToSet

LEMMA JoinParts ==
    ASSUME NEW S, NEW s \in Seq(S), NEW p \in Nat, NEW q \in Nat, p <= q, q <= Len(s)
    PROVE  SubSeq(s, 1, p) \o SubSeq(s, p + 1, q) = SubSeq(s, 1, q)
<1> DEFINE m == p + 1
           first == SubSeq(s, 1, p)
           rest == SubSeq(s, m, q)
           whole == SubSeq(s, 1, q)
<1>1. m \in Nat /\ m >= 1 /\ p <= Len(s) /\ p \in Int /\ q \in Int /\ Len(s) \in Nat
  BY LenProperties
<1>2. /\ first \in Seq(S) /\ Len(first) = p
      /\ \A i \in 1..p : first[i] = s[i]
  BY <1>1, FirstPart
<1>3. /\ whole \in Seq(S) /\ Len(whole) = q
      /\ \A i \in 1..q : whole[i] = s[i]
  BY <1>1, FirstPart
<1> HIDE DEF m
<1>4. /\ rest \in Seq(S)
      /\ Len(rest) = IF m <= q THEN q - m + 1 ELSE 0
      /\ \A i \in 1..(q - m + 1) : rest[i] = s[m + i - 1]
  BY <1>1, PartOf
<1> HIDE DEF first, rest, whole
<1>5. /\ Len(rest) = q - p
      /\ \A i \in 1..(q - p) : rest[i] = s[p + i]
  BY <1>1, <1>4 DEF m
<1>6. /\ first \o rest \in Seq(S)
      /\ Len(first \o rest) = p + (q - p)
      /\ \A i \in 1..(p + (q - p)) : (first \o rest)[i] = IF i <= p THEN first[i] ELSE rest[i - p]
  <2>1. /\ first \o rest \in Seq(S)
        /\ Len(first \o rest) = Len(first) + Len(rest)
        /\ \A i \in 1..(Len(first) + Len(rest)) :
             (first \o rest)[i] = IF i <= Len(first) THEN first[i] ELSE rest[i - Len(first)]
    BY <1>2, <1>4, ConcatProperties
  <2> QED
    BY <1>2, <1>5, <2>1
<1>7. Len(first \o rest) = q
  BY <1>1, <1>6
<1>8. ASSUME NEW i \in 1..q
      PROVE  (first \o rest)[i] = whole[i]
  <2>1. i \in 1..(p + (q - p))
    BY <1>1
  <2>2. CASE i <= p
    <3>1. i \in 1..p
      BY <1>1, <2>2
    <3> QED
      BY <1>2, <1>3, <1>6, <2>1, <2>2, <3>1
  <2>3. CASE ~(i <= p)
    <3>1. i - p \in 1..(q - p) /\ p + (i - p) = i
      BY <1>1, <2>3
    <3>2. rest[i - p] = s[p + (i - p)]
      BY <1>5, <3>1
    <3> QED
      BY <1>3, <1>6, <2>1, <2>3, <3>1, <3>2
  <2> QED
    BY <2>2, <2>3
<1>9. first \o rest = whole
  BY <1>3, <1>6, <1>7, <1>8, SeqEqual
<1> QED
  BY <1>9 DEF first, rest, whole, m

LEMMA FlattenIn ==
    ASSUME NEW S, NEW n \in Nat \ {0}, NEW seqs \in [1..n -> Seq(S)]
    PROVE  FlattenSeq(seqs) \in Seq(S)
<1>1. PICK F : IsRow(F, seqs, S, n)
  BY FlattenRow
<1>2. FlattenSeq(seqs) = F[n]
  BY <1>1, FlattenIs
<1>3. n \in 1..n
  OBVIOUS
<1> QED
  BY <1>1, <1>2, <1>3 DEF IsRow

\* Of two rows of sequences the lengths differ in one place, by one.
ShorterAt(others, seqs, m, n) ==
    /\ Len(others[m]) = Len(seqs[m]) - 1
    /\ \A k \in 1..n : k # m => Len(others[k]) = Len(seqs[k])

LEMMA OneShorter ==
    ASSUME NEW S, NEW n \in Nat \ {0}, NEW seqs \in [1..n -> Seq(S)], NEW others \in [1..n -> Seq(S)],
           NEW m \in 1..n, ShorterAt(others, seqs, m, n)
    PROVE  Len(FlattenSeq(others)) = Len(FlattenSeq(seqs)) - 1
<1> USE DEF ShorterAt
<1>1. PICK F : IsRow(F, seqs, S, n)
  BY FlattenRow
<1>2. PICK G : IsRow(G, others, S, n)
  BY FlattenRow
<1>3. FlattenSeq(seqs) = F[n] /\ FlattenSeq(others) = G[n]
  BY <1>1, <1>2, FlattenIs
<1>4. \A k \in 1..n : Len(F[k]) \in Nat /\ Len(G[k]) \in Nat
  BY <1>1, <1>2, LenProperties DEF IsRow
<1>5. ASSUME NEW k \in 2..n
      PROVE  /\ Len(F[k]) = Len(F[k - 1]) + Len(seqs[k]) /\ Len(seqs[k]) \in Nat
             /\ Len(G[k]) = Len(G[k - 1]) + Len(others[k]) /\ Len(others[k]) \in Nat
  <2>1. k \in 1..n /\ k - 1 \in 1..n
    OBVIOUS
  <2>2. F[k] = F[k - 1] \o seqs[k] /\ G[k] = G[k - 1] \o others[k]
    BY <1>1, <1>2 DEF IsRow
  <2>3. F[k - 1] \in Seq(S) /\ G[k - 1] \in Seq(S) /\ seqs[k] \in Seq(S) /\ others[k] \in Seq(S)
    BY <1>1, <1>2, <2>1 DEF IsRow
  <2> QED
    BY <2>2, <2>3, ConcatProperties, LenProperties
<1> DEFINE Lost(k) == IF k < m THEN 0 ELSE 1
           Wrong == {k \in 1..n : Len(G[k]) # Len(F[k]) - Lost(k)}
           w == Min(Wrong)
<1>6. ASSUME Wrong # {}
      PROVE  FALSE
  <2>1. Wrong \in SUBSET Nat
    <3>1. \A k \in Wrong : k \in Nat
      OBVIOUS
    <3> QED
      BY <3>1
  <2>2. w \in Wrong /\ \A k \in Wrong : w <= k
    BY <1>6, <2>1, LeastNumber
  <2> HIDE DEF w
  <2>3. w \in 1..n /\ Len(G[w]) # Len(F[w]) - Lost(w)
    BY <2>2
  <2>4. CASE w = 1
    <3>1. F[1] = seqs[1] /\ G[1] = others[1]
      BY <1>1, <1>2 DEF IsRow
    <3>2. Len(seqs[1]) \in Nat
      BY <1>4, <2>3, <2>4, <3>1
    <3>3. CASE m = 1
      BY <2>3, <2>4, <3>1, <3>3
    <3>4. CASE m # 1
      <4>1. 1 < m /\ Len(others[1]) = Len(seqs[1])
        BY <2>3, <2>4, <3>4
      <4> QED
        BY <2>3, <2>4, <3>1, <3>2, <4>1
    <3> QED
      BY <3>3, <3>4
  <2>5. CASE w # 1
    <3>1. w \in 2..n /\ w - 1 \in 1..n /\ w \in Int
      BY <2>3, <2>5
    <3>2. w - 1 \notin Wrong
      <4> HIDE DEF Wrong
      <4>1. w - 1 \in Wrong => w <= w - 1
        BY <2>2
      <4> QED
        BY <3>1, <4>1
    <3>3. Len(G[w - 1]) = Len(F[w - 1]) - Lost(w - 1)
      BY <3>1, <3>2
    <3>4. /\ Len(F[w]) = Len(F[w - 1]) + Len(seqs[w]) /\ Len(seqs[w]) \in Nat
          /\ Len(G[w]) = Len(G[w - 1]) + Len(others[w]) /\ Len(F[w - 1]) \in Nat
      BY <1>4, <1>5, <3>1
    <3> HIDE DEF Wrong
    <3>5. CASE w = m
      <4>1. Lost(w - 1) = 0 /\ Lost(w) = 1 /\ Len(others[w]) = Len(seqs[w]) - 1
        BY <3>1, <3>5
      <4> DEFINE p == Len(F[w - 1])
                 q == Len(G[w - 1])
                 s == Len(seqs[w])
                 o == Len(others[w])
      <4>2. /\ p \in Nat /\ s \in Nat /\ o = s - 1 /\ q = p - Lost(w - 1)
            /\ Len(F[w]) = p + s /\ Len(G[w]) = q + o
        BY <3>3, <3>4, <4>1
      <4> HIDE DEF Lost, p, q, s, o
      <4>3. Len(G[w]) = Len(F[w]) - Lost(w)
        BY <4>1, <4>2
      <4> QED
        BY <2>3, <4>3
    <3>6. CASE w # m
      <4>1. Lost(w - 1) = Lost(w) /\ Lost(w) \in Int /\ Len(others[w]) = Len(seqs[w])
        BY <2>3, <3>1, <3>6
      <4> DEFINE p == Len(F[w - 1])
                 q == Len(G[w - 1])
                 s == Len(seqs[w])
                 o == Len(others[w])
      <4>2. /\ p \in Nat /\ s \in Nat /\ o = s /\ q = p - Lost(w - 1)
            /\ Len(F[w]) = p + s /\ Len(G[w]) = q + o
        BY <3>3, <3>4, <4>1
      <4> HIDE DEF Lost, p, q, s, o
      <4>3. Len(G[w]) = Len(F[w]) - Lost(w)
        BY <4>1, <4>2
      <4> QED
        BY <2>3, <4>3
    <3> QED
      BY <3>5, <3>6
  <2> QED
    BY <2>4, <2>5
<1>7. n \in 1..n /\ ~(n < m)
  OBVIOUS
<1> QED
  BY <1>3, <1>6, <1>7

-----------------------------------------------------------------------------
(* Rows that are computed one element after another, and what holds of them*)

\* What holds of 0, and of the next number whenever it holds of one, holds
\* up to n.
LEMMA UpTo ==
    ASSUME NEW n \in Nat, NEW Good, 0 \in Good,
           \A k \in 0..(n - 1) : k \in Good => k + 1 \in Good
    PROVE  \A k \in 0..n : k \in Good
<1> DEFINE Wrong == {k \in 0..n : k \notin Good}
           m == Min(Wrong)
<1>1. SUFFICES ASSUME Wrong # {} PROVE FALSE
  BY <1>1
<1>2. Wrong \in SUBSET Nat
  <2>1. \A k \in Wrong : k \in Nat
    OBVIOUS
  <2> QED
    BY <2>1
<1>3. m \in Wrong /\ \A k \in Wrong : m <= k
  BY <1>1, <1>2, LeastNumber
<1> HIDE DEF m
<1>4. m \in 0..n /\ m \notin Good
  BY <1>3
<1>5. m - 1 \in 0..(n - 1) /\ m - 1 \in 0..n /\ (m - 1) + 1 = m /\ ~(m <= m - 1)
  BY <1>4
<1>6. m - 1 \notin Good
  BY <1>4, <1>5
<1>7. m - 1 \in Wrong
  BY <1>5, <1>6
<1> QED
  BY <1>3, <1>5, <1>7

\* A row each of whose elements is computed from the one before.
Computed(F, S, n, base, step) ==
    F \in [0..n -> S] /\ F[0] = base /\ \A i \in 1..n : F[i] = step[i][F[i - 1]]

LEMMA RowExists ==
    ASSUME NEW S, NEW n \in Nat, NEW base \in S, NEW step \in [1..n -> [S -> S]]
    PROVE  \E F : Computed(F, S, n, base, step)
<1> DEFINE Row(k) == \E F \in [0..k -> S] : F[0] = base /\ \A i \in 1..k : F[i] = step[i][F[i - 1]]
           Good == {k \in 0..n : Row(k)}
<1>1. 0 \in Good
  <2> DEFINE F == [i \in 0..0 |-> base]
  <2>1. F \in [0..0 -> S] /\ F[0] = base /\ \A i \in 1..0 : F[i] = step[i][F[i - 1]]
    OBVIOUS
  <2> HIDE DEF F
  <2>2. Row(0) /\ 0 \in 0..n
    BY <2>1
  <2> QED
    BY <2>2
<1>2. ASSUME NEW k \in 0..(n - 1), k \in Good
      PROVE  k + 1 \in Good
  <2>1. PICK F \in [0..k -> S] : F[0] = base /\ \A i \in 1..k : F[i] = step[i][F[i - 1]]
    BY <1>2
  <2>2. k \in 0..k /\ k + 1 \in 1..n /\ k + 1 \in 0..n
    OBVIOUS
  <2>3. F[k] \in S /\ step[k + 1] \in [S -> S]
    BY <2>2
  <2>4. step[k + 1][F[k]] \in S
    BY <2>3
  <2> DEFINE G == [i \in 0..(k + 1) |-> IF i = k + 1 THEN step[k + 1][F[k]] ELSE F[i]]
  <2>5. \A i \in 0..(k + 1) : i # k + 1 => i \in 0..k
    OBVIOUS
  <2>6. G \in [0..(k + 1) -> S]
    BY <2>4, <2>5
  <2>7. G[0] = base
    BY <2>1
  <2>8. ASSUME NEW i \in 1..(k + 1)
        PROVE  G[i] = step[i][G[i - 1]]
    <3>1. i - 1 \in 0..(k + 1) /\ i - 1 # k + 1 /\ i \in 0..(k + 1)
      OBVIOUS
    <3>2. G[i - 1] = F[i - 1]
      BY <3>1
    <3>3. CASE i = k + 1
      <4>1. i - 1 = k
        BY <3>3
      <4> QED
        BY <3>1, <3>2, <3>3, <4>1
    <3>4. CASE i # k + 1
      <4>1. i \in 1..k
        BY <3>4
      <4> QED
        BY <2>1, <3>1, <3>2, <3>4, <4>1
    <3> QED
      BY <3>3, <3>4
  <2> HIDE DEF G
  <2>9. Row(k + 1)
    BY <2>6, <2>7, <2>8
  <2> QED
    BY <2>2, <2>9
<1> HIDE DEF Good
<1>3. n \in Good
  <2>1. \A k \in 0..n : k \in Good
    BY <1>1, <1>2, UpTo
  <2> QED
    BY <2>1
<1> QED
  BY <1>3 DEF Good, Computed

\* Rows that start alike and go on alike are alike.
Alike(F, G, n) ==
    F[0] = G[0] /\ \A i \in 1..n : F[i - 1] = G[i - 1] => F[i] = G[i]

LEMMA RowsAgree ==
    ASSUME NEW n \in Nat, NEW F, NEW G, Alike(F, G, n)
    PROVE  \A i \in 0..n : F[i] = G[i]
<1> DEFINE Good == {k \in 0..n : F[k] = G[k]}
<1>1. 0 \in Good
  BY DEF Alike
<1>2. ASSUME NEW k \in 0..(n - 1), k \in Good
      PROVE  k + 1 \in Good
  <2>1. k + 1 \in 1..n /\ k + 1 \in 0..n /\ (k + 1) - 1 = k
    OBVIOUS
  <2> QED
    BY <1>2, <2>1 DEF Alike
<1> HIDE DEF Good
<1>3. \A k \in 0..n : k \in Good
  BY <1>1, <1>2, UpTo
<1> QED
  BY <1>3 DEF Good

LEMMA GreatestNumber ==
    ASSUME NEW n \in Nat, NEW T \in SUBSET (0..n), T # {}
    PROVE  Max(T) \in T /\ \A y \in T : y <= Max(T)
<1> DEFINE Below == {n - x : x \in T}
           m == Min(Below)
<1>1. Below \in SUBSET Nat /\ Below # {}
  <2>1. \A x \in T : x \in 0..n /\ n - x \in Nat
    OBVIOUS
  <2> QED
    BY <2>1
<1>2. m \in Below /\ \A y \in Below : m <= y
  BY <1>1, LeastNumber
<1> HIDE DEF m
<1>3. PICK x \in T : m = n - x
  BY <1>2
<1>4. ASSUME NEW y \in T
      PROVE  x >= y
  <2>1. n - y \in Below
    OBVIOUS
  <2>2. m <= n - y
    BY <1>2, <2>1
  <2>3. x \in 0..n /\ y \in 0..n
    OBVIOUS
  <2> HIDE DEF Below
  <2> QED
    BY <1>3, <2>2, <2>3
<1> HIDE DEF Below
<1>5. \E z \in T : \A y \in T : z >= y
  BY <1>4
<1>6. Max(T) \in T /\ \A y \in T : Max(T) >= y
  BY <1>5 DEF Max
<1>7. \A y \in T : y \in 0..n
  OBVIOUS
<1> QED
  BY <1>6, <1>7

LEMMA LeastOfTwo ==
    ASSUME NEW a \in Int, NEW b \in Int
    PROVE  Min({a, b}) = IF a <= b THEN a ELSE b
<1>1. \E x \in {a, b} : \A y \in {a, b} : x <= y
  OBVIOUS
<1>2. Min({a, b}) \in {a, b} /\ \A y \in {a, b} : Min({a, b}) <= y
  BY <1>1 DEF Min
<1> DEFINE m == Min({a, b})
<1>3. (m = a \/ m = b) /\ m <= a /\ m <= b
  BY <1>2
<1> HIDE DEF m
<1>4. m = IF a <= b THEN a ELSE b
  BY <1>3
<1> QED
  BY <1>4 DEF m

LEMMA FlattenEmpty == FlattenSeq(<<>>) = <<>>
BY DEF FlattenSeq

\* Flattening one sequence more.
LEMMA FlattenAppend ==
    ASSUME NEW S, NEW seqs \in Seq(Seq(S)), NEW t \in Seq(S)
    PROVE  FlattenSeq(Append(seqs, t)) = FlattenSeq(seqs) \o t /\ FlattenSeq(seqs) \in Seq(S)
<1> DEFINE n == Len(seqs)
           more == Append(seqs, t)
<1>1. n \in Nat /\ seqs \in [1..n -> Seq(S)] /\ n + 1 \in Nat \ {0}
  BY LenProperties
<1>2. /\ more \in Seq(Seq(S)) /\ Len(more) = n + 1
      /\ \A i \in 1..n : more[i] = seqs[i]
      /\ more[n + 1] = t
  BY AppendProperties
<1>3. more \in [1..(n + 1) -> Seq(S)]
  BY <1>2, LenProperties
<1>4. PICK F : IsRow(F, more, S, n + 1)
  BY <1>1, <1>3, FlattenRow
<1> HIDE DEF more, n
<1>5. FlattenSeq(more) = F[n + 1]
  BY <1>1, <1>3, <1>4, FlattenIs
<1>6. CASE n = 0
  <2>1. seqs = <<>>
    BY <1>6, EmptySeq DEF n
  <2>2. FlattenSeq(seqs) = <<>>
    BY <2>1, FlattenEmpty
  <2>3. F[n + 1] = more[n + 1]
    BY <1>4, <1>6 DEF IsRow
  <2> QED
    BY <1>2, <1>5, <2>2, <2>3, ConcatEmptySeq, EmptySeq DEF more
<1>7. CASE n # 0
  <2> DEFINE G == [i \in 1..n |-> F[i]]
  <2>1. n \in Nat \ {0} /\ n + 1 \in 2..(n + 1) /\ (n + 1) - 1 = n /\ n \in 1..n /\ n \in 1..(n + 1)
    BY <1>1, <1>7
  <2>2. IsRow(G, seqs, S, n)
    <3>1. \A i \in 1..n : i \in 1..(n + 1) /\ F[i] \in Seq(S) /\ G[i] = F[i]
      BY <1>1, <1>4 DEF IsRow
    <3>2. G \in [1..n -> Seq(S)]
      BY <3>1
    <3>3. G[1] = seqs[1]
      BY <1>2, <1>4, <2>1 DEF IsRow
    <3>4. ASSUME NEW i \in 2..n
          PROVE  G[i] = G[i - 1] \o seqs[i]
      <4>1. i \in 2..(n + 1) /\ i \in 1..n /\ i - 1 \in 1..n
        BY <1>1
      <4>2. F[i] = F[i - 1] \o more[i]
        BY <1>4, <4>1 DEF IsRow
      <4> QED
        BY <1>2, <4>1, <4>2
    <3> HIDE DEF G
    <3> QED
      BY <3>2, <3>3, <3>4 DEF IsRow
  <2>3. FlattenSeq(seqs) = G[n]
    <3>1. n \in Nat \ {0} /\ seqs \in [1..n -> Seq(S)]
      BY <1>1, <2>1
    <3> HIDE DEF G
    <3> QED
      BY <2>2, <3>1, FlattenIs
  <2>4. G[n] = F[n] /\ F[n] \in Seq(S)
    BY <1>4, <2>1 DEF IsRow
  <2>5. F[n + 1] = F[n] \o t
    <3>1. F[n + 1] = F[(n + 1) - 1] \o more[n + 1]
      BY <1>4, <2>1 DEF IsRow
    <3> QED
      BY <1>2, <2>1, <3>1
  <2> QED
    BY <1>5, <2>3, <2>4, <2>5 DEF more
<1> QED
  BY <1>1, <1>6, <1>7
=============================================================================
