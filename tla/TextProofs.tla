----------------------------- MODULE TextProofs -----------------------------
(***************************************************************************)
(* Theorems about the text operations of Strings and the scanners and      *)
(* parsers of Scan.  Either specification lets its text grow by any        *)
(* character, so what they promise of every reachable text is proved of    *)
(* every sequence of characters.  The loops of split(), tokenize() and     *)
(* get_integer() are rows of states, each computed from the one before     *)
(* (RowExists in SequenceProofs); what a turn keeps holds of the last.     *)
(***************************************************************************)
EXTENDS Strings, Scan, SequenceProofs

-----------------------------------------------------------------------------
(* Searches: src/strings.hpp                                               *)

LEMMA SubIs ==
    ASSUME NEW S, NEW s \in Seq(S), NEW i, NEW j \in Int, j <= Len(s)
    PROVE  Sub(s, i, j) = SubSeq(s, i, j)
<1>1. Len(s) \in Int
  BY LenProperties
<1>2. Min({j, Len(s)}) = j
  BY <1>1, LeastOfTwo
<1> QED
  BY <1>2 DEF Sub

LEMMA OnwardIs ==
    ASSUME NEW S, NEW s \in Seq(S), NEW i
    PROVE  Onward(s, i) = SubSeq(s, i, Len(s))
<1>1. Len(s) \in Int /\ Len(s) <= Len(s)
  BY LenProperties
<1> QED
  BY <1>1, SubIs DEF Onward

\* What a search forwards and a search backwards answer.
FirstAt(s, C, from, r) ==
    /\ r \in from..(Len(s) + 1)
    /\ \A i \in from..(r - 1) : s[i] \notin C
    /\ r # Len(s) + 1 => s[r] \in C

FirstNotAt(s, C, from, r) ==
    /\ r \in from..(Len(s) + 1)
    /\ \A i \in from..(r - 1) : s[i] \in C
    /\ r # Len(s) + 1 => s[r] \notin C

LastNotAt(s, C, r) ==
    /\ r \in 0..Len(s)
    /\ \A i \in (r + 1)..Len(s) : s[i] \in C
    /\ r # 0 => s[r] \notin C

\* The searches of std::string answer the first place, or the last, there is.
LEMMA FindsFirst ==
    ASSUME NEW S, NEW s \in Seq(S), NEW C, NEW from \in 1..(Len(s) + 1)
    PROVE  FirstAt(s, C, from, find_first_of(s, C, from))
<1> DEFINE T == {i \in from..Len(s) : s[i] \in C} \cup {Npos(s)}
           r == Min(T)
           n == Len(s)
<1>1. n \in Nat /\ Npos(s) = n + 1
  BY LenProperties DEF Npos
<1> HIDE DEF n
<1>2. T \in SUBSET Nat /\ T # {}
  BY <1>1 DEF n
<1>3. r \in T /\ \A y \in T : r <= y
  BY <1>2, LeastNumber
<1> HIDE DEF r
<1>4. r \in from..(n + 1) /\ (r # n + 1 => s[r] \in C)
  BY <1>1, <1>3 DEF n
<1>5. ASSUME NEW i \in from..(r - 1), s[i] \in C
      PROVE  FALSE
  <2>1. i \in T /\ ~(r <= i)
    BY <1>1, <1>4, <1>5 DEF n
  <2> QED
    BY <1>3, <2>1
<1>6. FirstAt(s, C, from, r)
  BY <1>4, <1>5 DEF FirstAt, n
<1> QED
  BY <1>6 DEF r, find_first_of

LEMMA FindsFirstNot ==
    ASSUME NEW S, NEW s \in Seq(S), NEW C, NEW from \in 1..(Len(s) + 1)
    PROVE  FirstNotAt(s, C, from, find_first_not_of(s, C, from))
<1> DEFINE T == {i \in from..Len(s) : s[i] \notin C} \cup {Npos(s)}
           r == Min(T)
           n == Len(s)
<1>1. n \in Nat /\ Npos(s) = n + 1
  BY LenProperties DEF Npos
<1> HIDE DEF n
<1>2. T \in SUBSET Nat /\ T # {}
  BY <1>1 DEF n
<1>3. r \in T /\ \A y \in T : r <= y
  BY <1>2, LeastNumber
<1> HIDE DEF r
<1>4. r \in from..(n + 1) /\ (r # n + 1 => s[r] \notin C)
  BY <1>1, <1>3 DEF n
<1>5. ASSUME NEW i \in from..(r - 1), s[i] \notin C
      PROVE  FALSE
  <2>1. i \in T /\ ~(r <= i)
    BY <1>1, <1>4, <1>5 DEF n
  <2> QED
    BY <1>3, <2>1
<1>6. FirstNotAt(s, C, from, r)
  BY <1>4, <1>5 DEF FirstNotAt, n
<1> QED
  BY <1>6 DEF r, find_first_not_of

LEMMA FindsLastNot ==
    ASSUME NEW S, NEW s \in Seq(S), NEW C
    PROVE  LastNotAt(s, C, find_last_not_of(s, C))
<1> DEFINE T == {i \in 1..Len(s) : s[i] \notin C} \cup {0}
           r == Max(T)
           n == Len(s)
<1>1. n \in Nat
  BY LenProperties
<1> HIDE DEF n
<1>2. T \in SUBSET (0..n) /\ T # {}
  BY <1>1 DEF n
<1>3. r \in T /\ \A y \in T : y <= r
  BY <1>1, <1>2, GreatestNumber
<1> HIDE DEF r
<1>4. r \in 0..n /\ (r # 0 => s[r] \notin C)
  BY <1>1, <1>3 DEF n
<1>5. ASSUME NEW i \in (r + 1)..n, s[i] \notin C
      PROVE  FALSE
  <2>1. i \in T /\ ~(i <= r)
    BY <1>1, <1>4, <1>5 DEF n
  <2> QED
    BY <1>3, <2>1
<1>6. LastNotAt(s, C, r)
  BY <1>4, <1>5 DEF LastNotAt, n
<1> QED
  BY <1>6 DEF r, find_last_not_of

\* The piece p stands in s from place i.
StandsAt(s, p, i) == \A k \in 1..Len(p) : s[i + k - 1] = p[k]

\* find() finds a piece wherever it stands.
LEMMA FindsWhere ==
    ASSUME NEW S, NEW s \in Seq(S), NEW p \in Seq(S), NEW i \in Nat \ {0}
    PROVE  i \in Finds(s, p) <=> i + Len(p) <= Len(s) + 1 /\ StandsAt(s, p, i)
<1> DEFINE n == Len(s)
           m == Len(p)
           last == i + m - 1
           part == SubSeq(s, i, last)
<1>1. n \in Nat /\ m \in Nat
  BY LenProperties
<1> HIDE DEF n, m
<1>2. /\ i \in 1..(n - m + 1) <=> i + m <= n + 1
      /\ last \in Int /\ last - i + 1 = m /\ (i <= last <=> m # 0)
      /\ i + m <= n + 1 => last <= n
  BY <1>1
<1> HIDE DEF last
<1>3. ASSUME i + m <= n + 1
      PROVE  Sub(s, i, last) = p <=> StandsAt(s, p, i)
  <2>1. Sub(s, i, last) = part
    BY <1>1, <1>2, <1>3, SubIs DEF n
  <2>2. /\ part \in Seq(S)
        /\ Len(part) = IF i <= last THEN last - i + 1 ELSE 0
        /\ \A k \in 1..(last - i + 1) : part[k] = s[i + k - 1]
    BY <1>1, <1>2, <1>3, PartOf DEF n
  <2> HIDE DEF part
  <2>3. Len(part) = m
    BY <1>1, <1>2, <2>2
  <2>4. \A k \in 1..m : part[k] = s[i + k - 1]
    BY <1>2, <2>2
  <2>5. part = p <=> \A k \in 1..m : part[k] = p[k]
    BY <2>2, <2>3, SeqEqual DEF m
  <2> QED
    BY <2>1, <2>4, <2>5 DEF StandsAt, m
<1> QED
  BY <1>2, <1>3 DEF Finds, n, m, last

\* starts_with() compares the start, the empty piece included.
LEMMA StartsWhere ==
    ASSUME NEW S, NEW s \in Seq(S), NEW p \in Seq(S)
    PROVE  starts_with(s, p) <=> Len(p) <= Len(s) /\ StandsAt(s, p, 1)
<1>1. Len(s) \in Nat /\ Len(p) \in Nat
  BY LenProperties
<1>2. Finds(s, p) \in SUBSET Nat /\ \A i \in Finds(s, p) : i >= 1
  BY <1>1 DEF Finds
<1>3. starts_with(s, p) <=> 1 \in Finds(s, p)
  <2> HIDE DEF Finds
  <2>1. Finds(s, p) # {} => Min(Finds(s, p)) \in Finds(s, p) /\ \A y \in Finds(s, p) : Min(Finds(s, p)) <= y
    BY <1>2, LeastNumber
  <2> DEFINE m == Min(Finds(s, p))
  <2>2. 1 \in Finds(s, p) => m \in Nat /\ m >= 1 /\ m <= 1
    BY <1>2, <2>1
  <2> HIDE DEF m
  <2>3. 1 \in Finds(s, p) => m = 1
    BY <2>2
  <2> QED
    BY <2>1, <2>3 DEF starts_with, m
<1>4. 1 \in Finds(s, p) <=> 1 + Len(p) <= Len(s) + 1 /\ StandsAt(s, p, 1)
  BY FindsWhere
<1> QED
  BY <1>1, <1>3, <1>4

LEMMA PrefixWhere ==
    ASSUME NEW S, NEW s \in Seq(S), NEW p \in Seq(S)
    PROVE  IsPrefix(p, s) <=> Len(p) <= Len(s) /\ StandsAt(s, p, 1)
<1> DEFINE n == Len(s)
           m == Len(p)
           part == SubSeq(s, 1, m)
<1>1. n \in Nat /\ m \in Nat
  BY LenProperties
<1>2. SubSeq(p, 1, Len(p)) = p
  BY SubSeqFull
<1>3. ASSUME m <= n
      PROVE  part = p <=> StandsAt(s, p, 1)
  <2>1. /\ part \in Seq(S)
        /\ Len(part) = IF 1 <= m THEN m ELSE 0
        /\ \A k \in 1..m : part[k] = s[k]
    BY <1>1, <1>3, FirstPart
  <2> HIDE DEF part, n, m
  <2>2. Len(part) = m
    BY <1>1, <2>1
  <2>3. part = p <=> \A k \in 1..m : part[k] = p[k]
    BY <2>1, <2>2, SeqEqual DEF m
  <2>4. \A k \in 1..m : 1 + k - 1 = k
    BY <1>1
  <2> QED
    BY <2>1, <2>3, <2>4 DEF StandsAt, m
<1> QED
  BY <1>2, <1>3 DEF IsPrefix

LEMMA SuffixWhere ==
    ASSUME NEW S, NEW s \in Seq(S), NEW p \in Seq(S)
    PROVE  IsSuffix(p, s) <=> Len(p) <= Len(s) /\ StandsAt(s, p, Len(s) - Len(p) + 1)
<1> DEFINE n == Len(s)
           m == Len(p)
           back == Reverse(s)
           end == Reverse(p)
<1>1. n \in Nat /\ m \in Nat /\ s \in [1..n -> S] /\ p \in [1..m -> S]
  BY LenProperties
<1> HIDE DEF n, m
<1>2. /\ back \in [1..n -> S] /\ end \in [1..m -> S]
      /\ \A i \in 1..n : back[i] = s[(n - i) + 1]
      /\ \A i \in 1..m : end[i] = p[(m - i) + 1]
  <2>1. back = [i \in 1..n |-> s[(n - i) + 1]] /\ end = [i \in 1..m |-> p[(m - i) + 1]]
    BY DEF Reverse, n, m
  <2>2. \A i \in 1..n : (n - i) + 1 \in 1..n
    BY <1>1
  <2>3. \A i \in 1..m : (m - i) + 1 \in 1..m
    BY <1>1
  <2> QED
    BY <1>1, <2>1, <2>2, <2>3
<1> HIDE DEF back, end
<1>3. back \in Seq(S) /\ Len(back) = n /\ end \in Seq(S) /\ Len(end) = m
  BY <1>1, <1>2, RowIsSeq
<1>4. IsPrefix(end, back) <=> m <= n /\ StandsAt(back, end, 1)
  BY <1>3, PrefixWhere
<1>5. ASSUME m <= n
      PROVE  StandsAt(back, end, 1) <=> StandsAt(s, p, n - m + 1)
  <2>1. ASSUME StandsAt(back, end, 1), NEW k \in 1..m
        PROVE  s[(n - m + 1) + k - 1] = p[k]
    <3> DEFINE i == (m - k) + 1
    <3>1. i \in 1..m /\ i \in 1..n /\ 1 + i - 1 = i
      BY <1>1, <1>5
    <3>2. (n - i) + 1 = (n - m + 1) + k - 1 /\ (m - i) + 1 = k
      BY <1>1
    <3> HIDE DEF i
    <3>3. back[i] = end[i]
      BY <1>3, <2>1, <3>1 DEF StandsAt
    <3> QED
      BY <1>2, <3>1, <3>2, <3>3
  <2>2. ASSUME StandsAt(s, p, n - m + 1), NEW i \in 1..m
        PROVE  back[1 + i - 1] = end[i]
    <3> DEFINE k == (m - i) + 1
    <3>1. k \in 1..m /\ i \in 1..n /\ 1 + i - 1 = i
      BY <1>1, <1>5
    <3>2. (n - i) + 1 = (n - m + 1) + k - 1
      BY <1>1
    <3>3. back[i] = s[(n - i) + 1] /\ end[i] = p[k]
      BY <1>2, <3>1
    <3> HIDE DEF k
    <3>4. s[(n - m + 1) + k - 1] = p[k]
      BY <2>2, <3>1 DEF StandsAt, m
    <3> QED
      BY <3>1, <3>2, <3>3, <3>4
  <2>3. StandsAt(back, end, 1) => StandsAt(s, p, n - m + 1)
    BY <2>1 DEF StandsAt, m
  <2>4. StandsAt(s, p, n - m + 1) => StandsAt(back, end, 1)
    BY <1>3, <2>2 DEF StandsAt
  <2> QED
    BY <2>3, <2>4
<1> QED
  BY <1>4, <1>5 DEF IsSuffix, back, end, n, m

\* ends_with(), which goes by the last place that rfind() answers, compares
\* the end.
LEMMA EndsWhere ==
    ASSUME NEW S, NEW s \in Seq(S), NEW p \in Seq(S)
    PROVE  ends_with(s, p) <=> Len(p) <= Len(s) /\ StandsAt(s, p, Len(s) - Len(p) + 1)
<1> DEFINE n == Len(s)
           m == Len(p)
           q == n - m + 1
           F == Finds(s, p)
           x == Max(F)
<1>1. n \in Nat /\ m \in Nat /\ p \in Seq(S)
  BY LenProperties
<1>2. \A i \in F : i \in 1..q /\ i \in Nat \ {0} /\ i <= n + 1
  BY <1>1 DEF Finds
<1> HIDE DEF n, m, F
<1>3. n + 1 \in Nat /\ F \in SUBSET (0..(n + 1))
  BY <1>1, <1>2
<1>4. F # {} => x \in F /\ \A y \in F : y <= x
  BY <1>3, GreatestNumber
<1> HIDE DEF x
<1>5. ASSUME m <= n, StandsAt(s, p, q)
      PROVE  F # {} /\ Onward(s, x) = p
  <2>1. q \in Nat \ {0} /\ q + m <= n + 1 /\ n \in Int /\ n - q + 1 = m /\ (q <= n <=> m # 0) /\ q >= 1
    BY <1>1, <1>5
  <2> HIDE DEF q
  <2>2. q \in F
    BY <1>5, <2>1, FindsWhere DEF F, n, m
  <2>3. x \in 1..q /\ q <= x
    BY <1>2, <1>4, <2>2
  <2>4. x = q
    BY <2>1, <2>3
  <2> DEFINE part == SubSeq(s, q, n)
  <2>5. Onward(s, x) = part
    BY <2>4, OnwardIs DEF n
  <2>6. /\ part \in Seq(S)
        /\ Len(part) = IF q <= n THEN n - q + 1 ELSE 0
        /\ \A i \in 1..(n - q + 1) : part[i] = s[q + i - 1]
    <3>1. q \in Nat /\ q >= 1 /\ n \in Int /\ n <= Len(s)
      BY <1>1, <2>1 DEF n
    <3> QED
      BY <3>1, PartOf
  <2> HIDE DEF part
  <2>7. Len(part) = m
    BY <1>1, <2>1, <2>6
  <2>8. \A i \in 1..m : part[i] = p[i]
    BY <1>5, <2>1, <2>6 DEF StandsAt, m
  <2>9. part = p
    BY <2>6, <2>7, <2>8, SeqEqual DEF m
  <2> QED
    BY <2>2, <2>5, <2>9
<1>6. ASSUME m <= n, F # {}, Onward(s, x) = p
      PROVE  StandsAt(s, p, q)
  <2>1. x \in F /\ x \in Nat \ {0} /\ x >= 1 /\ x \in 1..q /\ n \in Int /\ x <= n + 1
    BY <1>1, <1>2, <1>4, <1>6
  <2> HIDE DEF q
  <2>2. Onward(s, x) = SubSeq(s, x, n)
    BY OnwardIs DEF n
  <2>3. Len(SubSeq(s, x, n)) = IF x <= n THEN n - x + 1 ELSE 0
    BY <2>1, PartOf DEF n
  <2>4. m = IF x <= n THEN n - x + 1 ELSE 0
    BY <1>6, <2>2, <2>3 DEF m
  <2>5. x = q
    BY <1>1, <2>1, <2>4 DEF q
  <2>6. StandsAt(s, p, x)
    BY <2>1, FindsWhere DEF F
  <2> QED
    BY <2>5, <2>6
<1> QED
  BY <1>5, <1>6 DEF ends_with, n, m, F, x, q

\* From place i on, a text starts with what stands at i.
LEMMA StartsOnward ==
    ASSUME NEW S, NEW s \in Seq(S), NEW p \in Seq(S), NEW i \in 0..Len(s)
    PROVE  starts_with(Onward(s, i + 1), p) <=> i + 1 \in Finds(s, p)
<1> DEFINE n == Len(s)
           m == Len(p)
           j == i + 1
           part == SubSeq(s, j, n)
<1>1. n \in Nat /\ m \in Nat
  BY LenProperties
<1> HIDE DEF n, m
<1>2. j \in Nat \ {0} /\ j \in Nat /\ j >= 1 /\ n \in Int /\ n - j + 1 = n - i /\ j <= n + 1
  BY <1>1 DEF n
<1> HIDE DEF j
<1>3. /\ part \in Seq(S)
      /\ Len(part) = IF j <= n THEN n - j + 1 ELSE 0
      /\ \A k \in 1..(n - j + 1) : part[k] = s[j + k - 1]
  BY <1>1, <1>2, PartOf DEF n
<1>4. Onward(s, j) = part
  BY OnwardIs DEF n
<1> HIDE DEF part
<1>5. Len(part) = n - j + 1
  BY <1>1, <1>2, <1>3
<1>6. starts_with(part, p) <=> m <= n - j + 1 /\ StandsAt(part, p, 1)
  BY <1>3, <1>5, StartsWhere DEF m
<1>7. ASSUME m <= n - j + 1
      PROVE  StandsAt(part, p, 1) <=> StandsAt(s, p, j)
  <2>1. \A k \in 1..m : 1 + k - 1 = k /\ k \in 1..(n - j + 1)
    BY <1>1, <1>2, <1>7
  <2>2. \A k \in 1..m : part[1 + k - 1] = s[j + k - 1]
    BY <1>3, <2>1
  <2> QED
    BY <2>2 DEF StandsAt, m
<1>8. j \in Finds(s, p) <=> j + m <= n + 1 /\ StandsAt(s, p, j)
  BY <1>2, FindsWhere DEF n, m
<1>9. m <= n - j + 1 <=> j + m <= n + 1
  BY <1>1, <1>2
<1> QED
  BY <1>4, <1>6, <1>7, <1>8, <1>9 DEF j

LEMMA ContainsWhere ==
    ASSUME NEW S, NEW s \in Seq(S), NEW p \in Seq(S)
    PROVE  contains(s, p) <=> \E i \in 0..Len(s) : starts_with(Onward(s, i + 1), p)
<1>1. Len(s) \in Nat /\ Len(p) \in Nat
  BY LenProperties
<1>2. \A i \in Finds(s, p) : i - 1 \in 0..Len(s) /\ (i - 1) + 1 = i
  BY <1>1 DEF Finds
<1>3. \A i \in Finds(s, p) : starts_with(Onward(s, (i - 1) + 1), p)
  BY <1>2, StartsOnward
<1>4. \A i \in 0..Len(s) : starts_with(Onward(s, i + 1), p) => i + 1 \in Finds(s, p)
  BY StartsOnward
<1> QED
  BY <1>2, <1>3, <1>4 DEF contains

\* A letter of one case has the small letter and the capital of the other.
LEMMA OtherCase ==
    ASSUME NEW x
    PROVE  Lower(Upper(x)) = Lower(x) /\ Upper(Lower(x)) = Upper(x)
<1> DEFINE Raised == \E d \in DOMAIN SmallOf : SmallOf[d] = x
           up == CHOOSE d \in DOMAIN SmallOf : SmallOf[d] = x
<1>1. CASE x \in DOMAIN SmallOf
  <2>1. \A d \in DOMAIN SmallOf : SmallOf[d] # x
    BY <1>1, StringsAssumption
  <2>2. Upper(x) = x
    BY <2>1 DEF Upper
  <2>3. Lower(x) = SmallOf[x]
    BY <1>1 DEF Lower
  <2> DEFINE y == SmallOf[x]
             back == CHOOSE d \in DOMAIN SmallOf : SmallOf[d] = y
  <2>4. back \in DOMAIN SmallOf /\ SmallOf[back] = SmallOf[x] /\ Upper(y) = back
    BY <1>1 DEF Upper
  <2> HIDE DEF back
  <2>5. back = x
    BY <1>1, <2>4, StringsAssumption
  <2> QED
    BY <2>2, <2>3, <2>4, <2>5
<1>2. CASE x \notin DOMAIN SmallOf /\ Raised
  <2>1. up \in DOMAIN SmallOf /\ SmallOf[up] = x /\ Upper(x) = up
    BY <1>2 DEF Upper
  <2> HIDE DEF up
  <2> QED
    BY <1>2, <2>1 DEF Lower
<1>3. CASE x \notin DOMAIN SmallOf /\ ~Raised
  BY <1>3 DEF Lower, Upper
<1> QED
  BY <1>1, <1>2, <1>3

LEMMA CasesAgree ==
    ASSUME NEW x, NEW y
    PROVE  Lower(x) = Lower(y) <=> Upper(x) = Upper(y)
BY OtherCase

Cased(S) == S \cup {Lower(c) : c \in S} \cup {Upper(c) : c \in S}

LEMMA LowerText ==
    ASSUME NEW S, NEW s \in Seq(S)
    PROVE  /\ to_lower(s) \in Seq(Cased(S)) /\ Len(to_lower(s)) = Len(s)
           /\ \A i \in 1..Len(s) : to_lower(s)[i] = Lower(s[i])
<1> DEFINE n == Len(s)
           t == [i \in 1..n |-> Lower(s[i])]
<1>1. n \in Nat /\ s \in [1..n -> S] /\ DOMAIN s = 1..n
  BY LenProperties
<1>2. \A i \in 1..n : Lower(s[i]) \in Cased(S)
  BY <1>1 DEF Cased
<1>3. t \in [1..n -> Cased(S)]
  BY <1>2
<1>4. t \in Seq(Cased(S)) /\ Len(t) = n
  BY <1>1, <1>3, RowIsSeq
<1>5. to_lower(s) = t
  BY <1>1 DEF to_lower
<1> QED
  BY <1>4, <1>5

LEMMA UpperText ==
    ASSUME NEW S, NEW s \in Seq(S)
    PROVE  /\ to_upper(s) \in Seq(Cased(S)) /\ Len(to_upper(s)) = Len(s)
           /\ \A i \in 1..Len(s) : to_upper(s)[i] = Upper(s[i])
<1> DEFINE n == Len(s)
           t == [i \in 1..n |-> Upper(s[i])]
<1>1. n \in Nat /\ s \in [1..n -> S] /\ DOMAIN s = 1..n
  BY LenProperties
<1>2. \A i \in 1..n : Upper(s[i]) \in Cased(S)
  BY <1>1 DEF Cased
<1>3. t \in [1..n -> Cased(S)]
  BY <1>2
<1>4. t \in Seq(Cased(S)) /\ Len(t) = n
  BY <1>1, <1>3, RowIsSeq
<1>5. to_upper(s) = t
  BY <1>1 DEF to_upper
<1> QED
  BY <1>4, <1>5

\* The searches that ignore case answer as the others on texts of one case.
LEMMA StartsCase ==
    ASSUME NEW S, NEW s \in Seq(S), NEW p \in Seq(S)
    PROVE  starts_case(s, p) <=> p # <<>> /\ starts_with(to_upper(s), to_upper(p))
<1> DEFINE n == Len(s)
           m == Len(p)
           part == SubSeq(s, 1, m)
<1>1. n \in Nat /\ m \in Nat /\ m \in Int /\ DOMAIN p = 1..m
  BY LenProperties
<1> HIDE DEF n, m
<1>2. ASSUME m <= n
      PROVE  \A i \in 1..m : to_lower(Sub(s, 1, m))[i] = Lower(s[i])
  <2>1. Sub(s, 1, m) = part
    BY <1>1, <1>2, SubIs DEF n
  <2>2. /\ part \in Seq(S) /\ Len(part) = IF 1 <= m THEN m ELSE 0
        /\ \A i \in 1..m : part[i] = s[i]
    BY <1>1, <1>2, FirstPart DEF n
  <2> HIDE DEF part
  <2>3. Len(part) = m
    BY <1>1, <2>2
  <2>4. \A i \in 1..m : to_lower(part)[i] = Lower(part[i])
    BY <2>2, <2>3, LowerText
  <2> QED
    BY <2>1, <2>2, <2>4
<1>3. \A i \in 1..m : to_lower(p)[i] = Lower(p[i])
  BY LowerText DEF m
<1>4. starts_case(s, p) <=> p # <<>> /\ m <= n /\ \A i \in 1..m : Lower(s[i]) = Lower(p[i])
  <2>1. n >= m <=> m <= n
    BY <1>1
  <2> QED
    BY <1>1, <1>2, <1>3, <2>1 DEF starts_case, n, m
<1>5. /\ to_upper(s) \in Seq(Cased(S)) /\ to_upper(p) \in Seq(Cased(S))
      /\ Len(to_upper(s)) = n /\ Len(to_upper(p)) = m
      /\ \A i \in 1..n : to_upper(s)[i] = Upper(s[i])
      /\ \A i \in 1..m : to_upper(p)[i] = Upper(p[i])
  BY UpperText DEF n, m
<1>6. starts_with(to_upper(s), to_upper(p)) <=> m <= n /\ StandsAt(to_upper(s), to_upper(p), 1)
  BY <1>5, StartsWhere
<1>7. ASSUME m <= n
      PROVE  StandsAt(to_upper(s), to_upper(p), 1) <=> \A i \in 1..m : Upper(s[i]) = Upper(p[i])
  <2>1. \A i \in 1..m : 1 + i - 1 = i /\ i \in 1..n
    BY <1>1, <1>7
  <2>2. \A i \in 1..m : to_upper(s)[1 + i - 1] = Upper(s[i])
    BY <1>5, <2>1
  <2> QED
    BY <1>5, <2>2 DEF StandsAt
<1> QED
  BY <1>4, <1>6, <1>7, CasesAgree

LEMMA EndsCase ==
    ASSUME NEW S, NEW s \in Seq(S), NEW p \in Seq(S)
    PROVE  ends_case(s, p) <=> p # <<>> /\ ends_with(to_lower(s), to_lower(p))
<1> DEFINE n == Len(s)
           m == Len(p)
           q == n - m + 1
           part == SubSeq(s, q, n)
<1>1. n \in Nat /\ m \in Nat /\ m \in Int /\ DOMAIN p = 1..m
  BY LenProperties
<1> HIDE DEF n, m
<1>2. ASSUME m <= n
      PROVE  \A i \in 1..m : to_lower(Onward(s, q))[i] = Lower(s[q + i - 1])
  <2>1. q \in Nat /\ q >= 1 /\ n \in Int /\ n - q + 1 = m /\ (q <= n <=> m # 0)
    BY <1>1, <1>2
  <2> HIDE DEF q
  <2>2. Onward(s, q) = part
    BY OnwardIs DEF n
  <2>3. /\ part \in Seq(S) /\ Len(part) = IF q <= n THEN n - q + 1 ELSE 0
        /\ \A i \in 1..(n - q + 1) : part[i] = s[q + i - 1]
    BY <2>1, PartOf DEF n
  <2> HIDE DEF part
  <2>4. Len(part) = m
    BY <1>1, <2>1, <2>3
  <2>5. \A i \in 1..m : to_lower(part)[i] = Lower(part[i])
    BY <2>3, <2>4, LowerText
  <2> QED
    BY <2>1, <2>2, <2>3, <2>5
<1>3. \A i \in 1..m : to_lower(p)[i] = Lower(p[i])
  BY LowerText DEF m
<1>4. ends_case(s, p) <=> p # <<>> /\ m <= n /\ \A i \in 1..m : Lower(s[q + i - 1]) = Lower(p[i])
  <2>1. n >= m <=> m <= n
    BY <1>1
  <2>2. ends_case(s, p) <=> p # <<>> /\ n >= m /\ \A i \in 1..m : to_lower(Onward(s, q))[i] = to_lower(p)[i]
    BY <1>1 DEF ends_case, n, m
  <2> QED
    BY <1>2, <1>3, <2>1, <2>2
<1>5. /\ to_lower(s) \in Seq(Cased(S)) /\ to_lower(p) \in Seq(Cased(S))
      /\ Len(to_lower(s)) = n /\ Len(to_lower(p)) = m
      /\ \A i \in 1..n : to_lower(s)[i] = Lower(s[i])
  BY LowerText DEF n, m
<1>6. ends_with(to_lower(s), to_lower(p)) <=> m <= n /\ StandsAt(to_lower(s), to_lower(p), q)
  BY <1>5, EndsWhere
<1>7. ASSUME m <= n
      PROVE  StandsAt(to_lower(s), to_lower(p), q) <=> \A i \in 1..m : Lower(s[q + i - 1]) = Lower(p[i])
  <2>1. \A i \in 1..m : q + i - 1 \in 1..n
    BY <1>1, <1>7
  <2>2. \A i \in 1..m : to_lower(s)[q + i - 1] = Lower(s[q + i - 1])
    BY <1>5, <2>1
  <2>3. StandsAt(to_lower(s), to_lower(p), q) <=>
          \A i \in 1..m : to_lower(s)[q + i - 1] = to_lower(p)[i]
    BY <1>5 DEF StandsAt
  <2> QED
    BY <1>3, <2>2, <2>3
<1> QED
  BY <1>4, <1>6, <1>7

\* Every text is searched as comparing its ends would.
LEMMA SearchesExact ==
    ASSUME str \in Seq(Symbols)
    PROVE  SearchExact
<1>1. SUFFICES ASSUME NEW p \in Pieces
               PROVE  /\ starts_with(str, p) <=> IsPrefix(p, str)
                      /\ ends_with(str, p) <=> IsSuffix(p, str)
                      /\ contains(str, p) <=> \E i \in 0..Len(str) : starts_with(Onward(str, i + 1), p)
                      /\ starts_case(str, p) <=> p # <<>> /\ starts_with(to_upper(str), to_upper(p))
                      /\ ends_case(str, p) <=> p # <<>> /\ ends_with(to_lower(str), to_lower(p))
  BY DEF SearchExact
<1>2. p \in Seq(Symbols)
  BY StringsAssumption
<1>3. starts_with(str, p) <=> IsPrefix(p, str)
  BY <1>2, StartsWhere, PrefixWhere
<1>4. ends_with(str, p) <=> IsSuffix(p, str)
  BY <1>2, EndsWhere, SuffixWhere
<1>5. contains(str, p) <=> \E i \in 0..Len(str) : starts_with(Onward(str, i + 1), p)
  BY <1>2, ContainsWhere
<1>6. starts_case(str, p) <=> p # <<>> /\ starts_with(to_upper(str), to_upper(p))
  BY <1>2, StartsCase
<1>7. ends_case(str, p) <=> p # <<>> /\ ends_with(to_lower(str), to_lower(p))
  BY <1>2, EndsCase
<1> QED
  BY <1>3, <1>4, <1>5, <1>6, <1>7

-----------------------------------------------------------------------------
(* Texts without some of their characters; trim and strip                  *)

LEMMA PrefixGrows ==
    ASSUME NEW S, NEW s \in Seq(S), NEW k \in 0..(Len(s) - 1)
    PROVE  /\ SubSeq(s, 1, k) \in Seq(S) /\ s[k + 1] \in S
           /\ SubSeq(s, 1, k + 1) = Append(SubSeq(s, 1, k), s[k + 1])
<1>1. Len(s) \in Nat
  BY LenProperties
<1> DEFINE j == k + 1
           part == SubSeq(s, 1, k)
           more == SubSeq(s, 1, j)
<1>2. k \in Int /\ j \in Int /\ k <= Len(s) /\ j <= Len(s) /\ j \in 1..Len(s) /\ 1 <= j
  BY <1>1
<1>3. s[j] \in S
  BY <1>2, ElementOfSeq
<1>4. /\ part \in Seq(S) /\ Len(part) = IF 1 <= k THEN k ELSE 0
      /\ \A i \in 1..k : part[i] = s[i]
  BY <1>2, FirstPart
<1> HIDE DEF j
<1>5. /\ more \in Seq(S) /\ Len(more) = IF 1 <= j THEN j ELSE 0
      /\ \A i \in 1..j : more[i] = s[i]
  BY <1>2, FirstPart
<1> HIDE DEF part, more
<1>6. Len(part) = k /\ Len(more) = j /\ j = k + 1
  BY <1>2, <1>4, <1>5 DEF j
<1>7. /\ Append(part, s[j]) \in Seq(S) /\ Len(Append(part, s[j])) = k + 1
      /\ \A i \in 1..k : Append(part, s[j])[i] = part[i]
      /\ Append(part, s[j])[k + 1] = s[j]
  BY <1>3, <1>4, <1>6, AppendProperties
<1>8. \A i \in 1..j : i \in 1..k \/ i = k + 1
  BY <1>6
<1>9. \A i \in 1..j : more[i] = Append(part, s[j])[i]
  BY <1>4, <1>5, <1>6, <1>7, <1>8
<1>10. more = Append(part, s[j])
  BY <1>5, <1>6, <1>7, <1>9, SeqEqual
<1> QED
  BY <1>3, <1>4, <1>10 DEF j, part, more

LEMMA ConcatAppend ==
    ASSUME NEW S, NEW s \in Seq(S), NEW t \in Seq(S), NEW c \in S
    PROVE  s \o Append(t, c) = Append(s \o t, c)
<1>1. <<c>> \in Seq(S)
  OBVIOUS
<1>2. Append(t, c) = t \o <<c>> /\ s \o t \in Seq(S)
  BY AppendIsConcat, ConcatProperties
<1>3. Append(s \o t, c) = (s \o t) \o <<c>>
  BY <1>2, AppendIsConcat
<1> QED
  BY <1>1, <1>2, <1>3, ConcatAssociative

\* What is left of a text without the characters in C.
LEMMA LessAppend ==
    ASSUME NEW S, NEW C, NEW s \in Seq(S), NEW c \in S
    PROVE  /\ Less(s, C) \in Seq(S)
           /\ Less(Append(s, c), C) = IF c \in C THEN Less(s, C) ELSE Append(Less(s, C), c)
<1> DEFINE n == Len(s)
           more == Append(s, c)
           One(x) == IF x \in C THEN <<>> ELSE <<x>>
           row == [i \in 1..n |-> One(s[i])]
           rows == [i \in 1..(n + 1) |-> One(more[i])]
<1>1. n \in Nat /\ n + 1 \in Nat /\ DOMAIN s = 1..n /\ \A i \in 1..n : s[i] \in S
  BY LenProperties, ElementOfSeq
<1>2. /\ more \in Seq(S) /\ Len(more) = n + 1 /\ DOMAIN more = 1..(n + 1)
      /\ \A i \in 1..n : more[i] = s[i]
      /\ more[n + 1] = c
  BY AppendProperties, LenProperties
<1> HIDE DEF n, more
<1>3. \A x \in S : One(x) \in Seq(S)
  OBVIOUS
<1>4. One(c) \in Seq(S)
  BY <1>3
<1>5. row \in [1..n -> Seq(S)]
  BY <1>1, <1>3
<1>6. row \in Seq(Seq(S)) /\ Len(row) = n
  BY <1>1, <1>5, RowIsSeq
<1>7. Less(s, C) = FlattenSeq(row) /\ Less(more, C) = FlattenSeq(rows)
  BY <1>1, <1>2 DEF Less
<1>8. rows = Append(row, One(c))
  <2> HIDE DEF One, row
  <2>1. /\ Append(row, One(c)) \in Seq(Seq(S)) /\ Len(Append(row, One(c))) = n + 1
        /\ \A i \in 1..n : Append(row, One(c))[i] = row[i]
        /\ Append(row, One(c))[n + 1] = One(c)
    BY <1>6, <1>4, AppendProperties
  <2> USE DEF row
  <2>2. \A i \in 1..(n + 1) : more[i] \in S
    BY <1>2, ElementOfSeq
  <2>3. rows \in [1..(n + 1) -> Seq(S)]
    BY <1>3, <2>2
  <2>4. rows \in Seq(Seq(S)) /\ Len(rows) = n + 1
    BY <1>1, <2>3, RowIsSeq
  <2>5. \A i \in 1..n : i \in 1..(n + 1) /\ rows[i] = row[i]
    BY <1>1, <1>2
  <2>6. rows[n + 1] = One(c)
    BY <1>1, <1>2
  <2>7. \A i \in 1..(n + 1) : i \in 1..n \/ i = n + 1
    BY <1>1
  <2> HIDE DEF row, rows, One
  <2>8. \A i \in 1..(n + 1) : rows[i] = Append(row, One(c))[i]
    BY <2>1, <2>5, <2>6, <2>7
  <2> QED
    BY <2>1, <2>4, <2>8, SeqEqual
<1> HIDE DEF row, rows
<1>9. FlattenSeq(Append(row, One(c))) = FlattenSeq(row) \o One(c) /\ FlattenSeq(row) \in Seq(S)
  BY <1>3, <1>6, FlattenAppend
<1>10. Less(more, C) = Less(s, C) \o One(c) /\ Less(s, C) \in Seq(S)
  BY <1>7, <1>8, <1>9
<1>11. CASE c \in C
  <2>1. One(c) = <<>>
    BY <1>11
  <2> QED
    BY <1>10, <1>11, <2>1, ConcatEmptySeq DEF more
<1>12. CASE c \notin C
  <2>1. One(c) = <<c>>
    BY <1>12
  <2> QED
    BY <1>10, <1>12, <2>1, AppendIsConcat DEF more
<1> QED
  BY <1>11, <1>12, <1>10

LEMMA LessEmpty == \A C : Less(<<>>, C) = <<>>
<1> SUFFICES ASSUME NEW C PROVE Less(<<>>, C) = <<>>
  OBVIOUS
<1> DEFINE row == [i \in DOMAIN <<>> |-> IF <<>>[i] \in C THEN <<>> ELSE << <<>>[i] >>]
<1>1. <<>> \in Seq({}) /\ Len(<<>>) = 0 /\ DOMAIN <<>> = 1..0
  BY EmptySeq, LenProperties
<1>2. row \in [1..0 -> {}]
  BY <1>1
<1>3. row \in Seq({}) /\ Len(row) = 0
  BY <1>2, RowIsSeq
<1> HIDE DEF row
<1>4. row = <<>>
  BY <1>3, EmptySeq
<1>5. Less(<<>>, C) = FlattenSeq(row)
  BY DEF Less, row
<1> QED
  BY <1>4, <1>5, FlattenEmpty

LEMMA LessIn ==
    ASSUME NEW S, NEW C, NEW s \in Seq(S)
    PROVE  Less(s, C) \in Seq(S)
<1>1. CASE s = <<>>
  BY <1>1, LessEmpty, EmptySeq
<1>2. CASE s # <<>>
  <2>1. Len(s) \in Nat \ {0}
    BY <1>2, EmptySeq
  <2>2. s[1] \in S
    BY <2>1, ElementOfSeq
  <2> QED
    BY <2>2, LessAppend
<1> QED
  BY <1>1, <1>2

\* Of two texts together no more is left than of each.
LEMMA LessConcat ==
    ASSUME NEW S, NEW C, NEW s \in Seq(S), NEW t \in Seq(S)
    PROVE  Less(s \o t, C) = Less(s, C) \o Less(t, C)
<1> DEFINE n == Len(t)
           Good == {k \in 0..n : Less(s \o SubSeq(t, 1, k), C) = Less(s, C) \o Less(SubSeq(t, 1, k), C)}
<1>1. n \in Nat
  BY LenProperties
<1>2. 0 \in Good
  <2> DEFINE p == SubSeq(t, 1, 0)
  <2>1. p = <<>>
    BY SubSeqEmpty
  <2>2. s \o <<>> = s /\ Less(s, C) \o <<>> = Less(s, C)
    BY LessIn, ConcatEmptySeq
  <2>3. Less(s \o p, C) = Less(s, C) \o Less(p, C)
    BY <2>1, <2>2, LessEmpty
  <2> QED
    BY <1>1, <2>3
<1>3. ASSUME NEW k \in 0..(n - 1), k \in Good
      PROVE  k + 1 \in Good
  <2> DEFINE p == SubSeq(t, 1, k)
             q == SubSeq(t, 1, k + 1)
             c == t[k + 1]
  <2>1. p \in Seq(S) /\ c \in S /\ q = Append(p, c)
    BY PrefixGrows
  <2>2. Less(s \o p, C) = Less(s, C) \o Less(p, C)
    BY <1>3
  <2>3. k + 1 \in 0..n
    BY <1>1
  <2> HIDE DEF p, q, c, n
  <2>4. s \o q = Append(s \o p, c) /\ s \o p \in Seq(S)
    BY <2>1, ConcatAppend, ConcatProperties
  <2> DEFINE whole == s \o p
  <2> HIDE DEF whole
  <2>5. /\ Less(Append(whole, c), C) = IF c \in C THEN Less(whole, C) ELSE Append(Less(whole, C), c)
        /\ Less(Append(p, c), C) = IF c \in C THEN Less(p, C) ELSE Append(Less(p, C), c)
    <3>1. whole \in Seq(S)
      BY <2>4 DEF whole
    <3>2. Less(Append(whole, c), C) = IF c \in C THEN Less(whole, C) ELSE Append(Less(whole, C), c)
      BY <2>1, <3>1, LessAppend
    <3>3. Less(Append(p, c), C) = IF c \in C THEN Less(p, C) ELSE Append(Less(p, C), c)
      BY <2>1, LessAppend
    <3> QED
      BY <3>2, <3>3
  <2>6. Less(s, C) \in Seq(S) /\ Less(p, C) \in Seq(S)
    BY <2>1, LessIn
  <2>7. Less(s, C) \o Append(Less(p, C), c) = Append(Less(s, C) \o Less(p, C), c)
    BY <2>1, <2>6, ConcatAppend
  <2>8. Less(s \o q, C) = Less(s, C) \o Less(q, C)
    BY <2>1, <2>2, <2>4, <2>5, <2>7 DEF whole
  <2> QED
    BY <2>3, <2>8 DEF q
<1> HIDE DEF Good
<1>4. \A k \in 0..n : k \in Good
  BY <1>1, <1>2, <1>3, UpTo
<1>5. n \in Good
  BY <1>1, <1>4
<1>6. SubSeq(t, 1, n) = t
  BY SubSeqFull
<1> QED
  BY <1>5, <1>6 DEF Good

LEMMA LessNone ==
    ASSUME NEW S, NEW C, NEW s \in Seq(S), \A i \in 1..Len(s) : s[i] \in C
    PROVE  Less(s, C) = <<>>
<1> DEFINE n == Len(s)
           Good == {k \in 0..n : Less(SubSeq(s, 1, k), C) = <<>>}
<1>1. n \in Nat
  BY LenProperties
<1>2. 0 \in Good
  <2> DEFINE p == SubSeq(s, 1, 0)
  <2>1. p = <<>>
    BY SubSeqEmpty
  <2>2. Less(p, C) = <<>>
    BY <2>1, LessEmpty
  <2> QED
    BY <1>1, <2>2
<1>3. ASSUME NEW k \in 0..(n - 1), k \in Good
      PROVE  k + 1 \in Good
  <2> DEFINE p == SubSeq(s, 1, k)
             q == SubSeq(s, 1, k + 1)
             c == s[k + 1]
  <2>1. p \in Seq(S) /\ c \in S /\ q = Append(p, c)
    BY PrefixGrows
  <2>2. k + 1 \in 0..n /\ k + 1 \in 1..n
    BY <1>1
  <2>3. c \in C
    BY <2>2
  <2>4. Less(p, C) = <<>>
    BY <1>3
  <2> HIDE DEF p, q, c, n
  <2>5. Less(q, C) = <<>>
    BY <2>1, <2>3, <2>4, LessAppend
  <2> QED
    BY <2>2, <2>5 DEF q
<1> HIDE DEF Good
<1>4. \A k \in 0..n : k \in Good
  BY <1>1, <1>2, <1>3, UpTo
<1>5. n \in Good
  BY <1>1, <1>4
<1>6. SubSeq(s, 1, n) = s
  BY SubSeqFull
<1> QED
  BY <1>5, <1>6 DEF Good

LEMMA FirstNotUnique ==
    ASSUME NEW S, NEW s \in Seq(S), NEW C, NEW from \in 1..(Len(s) + 1), NEW q, NEW r,
           FirstNotAt(s, C, from, q), FirstNotAt(s, C, from, r)
    PROVE  q = r
<1>1. Len(s) \in Nat
  BY LenProperties
<1>2. q \in from..(Len(s) + 1) /\ r \in from..(Len(s) + 1)
  BY DEF FirstNotAt
<1>3. ~(q < r)
  <2>1. q < r => q \in from..(r - 1) /\ q # Len(s) + 1
    BY <1>1, <1>2
  <2> QED
    BY <2>1 DEF FirstNotAt
<1>4. ~(r < q)
  <2>1. r < q => r \in from..(q - 1) /\ r # Len(s) + 1
    BY <1>1, <1>2
  <2> QED
    BY <2>1 DEF FirstNotAt
<1> QED
  BY <1>1, <1>2, <1>3, <1>4

LEMMA LastNotUnique ==
    ASSUME NEW S, NEW s \in Seq(S), NEW C, NEW q, NEW r, LastNotAt(s, C, q), LastNotAt(s, C, r)
    PROVE  q = r
<1>1. Len(s) \in Nat
  BY LenProperties
<1>2. q \in 0..Len(s) /\ r \in 0..Len(s)
  BY DEF LastNotAt
<1>3. ~(q < r)
  <2>1. q < r => r \in (q + 1)..Len(s) /\ r # 0
    BY <1>1, <1>2
  <2> QED
    BY <2>1 DEF LastNotAt
<1>4. ~(r < q)
  <2>1. r < q => q \in (r + 1)..Len(s) /\ q # 0
    BY <1>1, <1>2
  <2> QED
    BY <2>1 DEF LastNotAt
<1> QED
  BY <1>1, <1>2, <1>3, <1>4

\* What trim and strip leave of a text that is not all blank: up to place
\* last, and from place first.
Ends(s, first, last) ==
    /\ first \in 1..last
    /\ last \in 1..Len(s)
    /\ \A i \in 1..(first - 1) : s[i] \in Blanks
    /\ s[first] \notin Blanks
    /\ s[last] \notin Blanks
    /\ \A i \in (last + 1)..Len(s) : s[i] \in Blanks

LEMMA TrimIs ==
    ASSUME NEW S, NEW s \in Seq(S), NEW first, NEW last, Ends(s, first, last)
    PROVE  /\ trim(s) = SubSeq(s, 1, last)
           /\ strip(s) = SubSeq(s, first, last)
<1> DEFINE n == Len(s)
<1>1. n \in Nat /\ 1 \in 1..(n + 1)
  BY LenProperties
<1>2. /\ last \in 1..n /\ first \in 1..last /\ first \in 1..n /\ last \in Int /\ last <= n
  BY <1>1 DEF Ends
<1>3. LastNotAt(s, Blanks, last)
  BY <1>1, <1>2 DEF LastNotAt, Ends
<1>4. FirstNotAt(s, Blanks, 1, first)
  BY <1>1, <1>2 DEF FirstNotAt, Ends
<1>5. find_last_not_of(s, Blanks) = last
  BY <1>3, FindsLastNot, LastNotUnique
<1>6. find_first_not_of(s, Blanks, 1) = first
  BY <1>1, <1>4, FindsFirstNot, FirstNotUnique
<1>7. Sub(s, 1, last) = SubSeq(s, 1, last) /\ Sub(s, first, last) = SubSeq(s, first, last)
  BY <1>2, SubIs
<1> QED
  BY <1>2, <1>5, <1>6, <1>7 DEF trim, strip

LEMMA BlankIs ==
    ASSUME NEW S, NEW s \in Seq(S), \A i \in 1..Len(s) : s[i] \in Blanks
    PROVE  trim(s) = <<>> /\ strip(s) = <<>>
<1>1. Len(s) \in Nat /\ 0 \in Int /\ 0 <= Len(s)
  BY LenProperties
<1>2. LastNotAt(s, Blanks, 0)
  BY <1>1 DEF LastNotAt
<1>3. find_last_not_of(s, Blanks) = 0
  BY <1>2, FindsLastNot, LastNotUnique
<1>4. Sub(s, 1, 0) = SubSeq(s, 1, 0)
  BY <1>1, SubIs
<1>5. SubSeq(s, 1, 0) = <<>>
  BY SubSeqEmpty
<1> QED
  BY <1>3, <1>4, <1>5 DEF trim, strip

LEMMA EndsExist ==
    ASSUME NEW S, NEW s \in Seq(S), NEW i \in 1..Len(s), s[i] \notin Blanks
    PROVE  \E first, last : Ends(s, first, last)
<1> DEFINE n == Len(s)
           first == find_first_not_of(s, Blanks, 1)
           last == find_last_not_of(s, Blanks)
<1>1. n \in Nat /\ 1 \in 1..(n + 1)
  BY LenProperties
<1>2. FirstNotAt(s, Blanks, 1, first) /\ LastNotAt(s, Blanks, last)
  BY <1>1, FindsFirstNot, FindsLastNot
<1> HIDE DEF first, last
<1>3. ~(i \in 1..(first - 1)) /\ ~(i \in (last + 1)..n)
  BY <1>2 DEF FirstNotAt, LastNotAt
<1>4. first \in 1..(n + 1) /\ last \in 0..n
  BY <1>2 DEF FirstNotAt, LastNotAt
<1>5. first <= i /\ i <= last /\ first \in 1..last /\ last \in 1..n /\ last # 0 /\ first # n + 1
  BY <1>1, <1>3, <1>4
<1>6. Ends(s, first, last)
  BY <1>2, <1>5 DEF FirstNotAt, LastNotAt, Ends
<1> QED
  BY <1>6

\* strip() and trim() are idempotent, whichever comes first.
LEMMA StripsOnceAnywhere ==
    ASSUME NEW S, NEW s \in Seq(S)
    PROVE  /\ strip(strip(s)) = strip(s)
           /\ trim(strip(s)) = strip(s)
           /\ strip(trim(s)) = strip(s)
           /\ IsPrefix(trim(s), s)
           /\ Less(strip(s), Blanks) = Less(s, Blanks)
<1> DEFINE n == Len(s)
<1>1. n \in Nat
  BY LenProperties
<1>2. CASE \A i \in 1..n : s[i] \in Blanks
  <2>1. trim(s) = <<>> /\ strip(s) = <<>> /\ Less(s, Blanks) = <<>>
    BY <1>2, BlankIs, LessNone
  <2> DEFINE none == <<>>
  <2>2. none \in Seq(S) /\ Len(none) = 0
    BY EmptySeq
  <2> HIDE DEF none
  <2>3. trim(none) = <<>> /\ strip(none) = <<>>
    <3>1. \A i \in 1..Len(none) : none[i] \in Blanks
      BY <2>2
    <3> QED
      BY <2>2, <3>1, BlankIs
  <2>4. IsPrefix(none, s)
    <3>1. StandsAt(s, none, 1)
      BY <2>2 DEF StandsAt
    <3>2. IsPrefix(none, s) <=> Len(none) <= Len(s) /\ StandsAt(s, none, 1)
      BY <2>2, PrefixWhere
    <3> QED
      BY <1>1, <2>2, <3>1, <3>2
  <2>5. Less(none, Blanks) = <<>>
    BY LessEmpty DEF none
  <2> QED
    BY <2>1, <2>3, <2>4, <2>5 DEF none
<1>3. CASE \E i \in 1..n : s[i] \notin Blanks
  <2>1. PICK first, last : Ends(s, first, last)
    BY <1>3, EndsExist
  <2> DEFINE t == SubSeq(s, first, last)
             u == SubSeq(s, 1, last)
             m == last - first + 1
  <2>2. /\ first \in 1..last /\ last \in 1..n /\ first \in Nat /\ first >= 1 /\ last \in Int /\ last <= n
        /\ m \in 1..n /\ first <= last /\ 1 <= last
    BY <1>1, <2>1 DEF Ends
  <2>3. trim(s) = u /\ strip(s) = t
    BY <2>1, TrimIs
  <2>4. /\ t \in Seq(S) /\ Len(t) = IF first <= last THEN last - first + 1 ELSE 0
        /\ \A i \in 1..(last - first + 1) : t[i] = s[first + i - 1]
    BY <2>2, PartOf
  <2>5. /\ u \in Seq(S) /\ Len(u) = IF 1 <= last THEN last ELSE 0
        /\ \A i \in 1..last : u[i] = s[i]
    BY <2>2, FirstPart
  <2> HIDE DEF t, u
  <2>6. Len(t) = m /\ Len(u) = last
    BY <2>2, <2>4, <2>5
  <2>7. Ends(t, 1, m)
    <3>1. first + 1 - 1 = first /\ first + m - 1 = last /\ 1 \in 1..m /\ m \in 1..m
      BY <2>2
    <3>2. t[1] = s[first] /\ t[m] = s[last]
      BY <2>4, <3>1
    <3>3. \A i \in 1..(1 - 1) : FALSE
      OBVIOUS
    <3>4. \A i \in (m + 1)..m : FALSE
      BY <2>2
    <3> HIDE DEF m
    <3> QED
      BY <2>1, <2>6, <3>1, <3>2, <3>3, <3>4 DEF Ends
  <2>8. trim(t) = SubSeq(t, 1, m) /\ strip(t) = SubSeq(t, 1, m) /\ SubSeq(t, 1, m) = t
    <3> HIDE DEF m
    <3>1. t \in Seq(S)
      BY <2>4
    <3>2. trim(t) = SubSeq(t, 1, m) /\ strip(t) = SubSeq(t, 1, m)
      BY <2>7, <3>1, TrimIs
    <3>3. SubSeq(t, 1, Len(t)) = t
      BY <3>1, SubSeqFull
    <3> QED
      BY <2>6, <3>2, <3>3
  <2>9. Ends(u, first, last)
    <3>1. u[first] = s[first] /\ u[last] = s[last]
      BY <2>2, <2>5
    <3>2. \A i \in 1..(first - 1) : u[i] = s[i]
      BY <2>2, <2>5
    <3>3. \A i \in (last + 1)..last : FALSE
      BY <2>2
    <3> QED
      BY <2>1, <2>2, <2>6, <3>1, <3>2, <3>3 DEF Ends
  <2>10. strip(u) = SubSeq(u, first, last)
    BY <2>5, <2>9, TrimIs
  <2>11. SubSeq(u, first, last) = t
    <3> DEFINE v == SubSeq(u, first, last)
    <3>1. last <= Len(u)
      BY <2>2, <2>6
    <3>2. /\ v \in Seq(S) /\ Len(v) = IF first <= last THEN last - first + 1 ELSE 0
          /\ \A i \in 1..(last - first + 1) : v[i] = u[first + i - 1]
      BY <2>2, <2>5, <3>1, PartOf
    <3> HIDE DEF v
    <3>3. \A i \in 1..m : first + i - 1 \in 1..last
      BY <2>2
    <3>4. \A i \in 1..m : v[i] = t[i]
      BY <2>4, <2>5, <3>2, <3>3
    <3>5. Len(v) = m
      BY <2>2, <3>2
    <3>6. v = t
      BY <2>4, <2>6, <3>2, <3>4, <3>5, SeqEqual
    <3> QED
      BY <3>6 DEF v
  <2>12. IsPrefix(u, s)
    <3>1. \A k \in 1..last : 1 + k - 1 = k /\ s[k] = u[k]
      BY <2>2, <2>5
    <3>2. StandsAt(s, u, 1)
      BY <2>6, <3>1 DEF StandsAt
    <3> QED
      BY <2>2, <2>5, <2>6, <3>2, PrefixWhere
  <2>13. Less(t, Blanks) = Less(s, Blanks)
    <3> DEFINE before == SubSeq(s, 1, first - 1)
               after == SubSeq(s, last + 1, n)
               behind == SubSeq(s, last + 1, n)
               p == first - 1
               q == last + 1
    <3>1. /\ p \in Nat /\ p <= n /\ p \in Int /\ p + 1 = first /\ p <= last
          /\ q \in Nat /\ q >= 1 /\ n \in Int /\ last \in Nat
      BY <1>1, <2>2
    <3>2. before \o SubSeq(s, p + 1, last) = SubSeq(s, 1, last)
      BY <2>2, <3>1, JoinParts
    <3>3. SubSeq(s, 1, last) \o after = SubSeq(s, 1, n)
      BY <2>2, <3>1, JoinParts
    <3>4. SubSeq(s, 1, n) = s
      BY SubSeqFull
    <3>5. /\ before \in Seq(S) /\ Len(before) = IF 1 <= p THEN p ELSE 0
          /\ \A i \in 1..p : before[i] = s[i]
      BY <3>1, FirstPart
    <3> HIDE DEF q
    <3>6. /\ SubSeq(s, q, n) \in Seq(S) /\ Len(SubSeq(s, q, n)) = IF q <= n THEN n - q + 1 ELSE 0
          /\ \A i \in 1..(n - q + 1) : SubSeq(s, q, n)[i] = s[q + i - 1]
      BY <3>1, PartOf
    <3>7. SubSeq(s, q, n) = after
      BY DEF q
    <3> HIDE DEF before, after
    <3>8. \A i \in 1..Len(before) : before[i] \in Blanks
      <4>1. Len(before) = p
        BY <3>1, <3>5
      <4> QED
        BY <2>1, <3>5, <4>1 DEF Ends
    <3>9. \A i \in 1..Len(after) : after[i] \in Blanks
      <4>1. \A i \in 1..Len(after) : i \in 1..(n - q + 1)
        BY <3>1, <3>6, <3>7
      <4>2. \A i \in 1..(n - q + 1) : q + i - 1 \in (last + 1)..n
        BY <1>1, <2>2 DEF q
      <4> QED
        BY <2>1, <3>6, <3>7, <4>1, <4>2 DEF Ends
    <3>10. Less(before, Blanks) = <<>> /\ Less(after, Blanks) = <<>>
      <4>1. Less(before, Blanks) = <<>>
        BY <3>5, <3>8, LessNone
      <4>2. after \in Seq(S)
        BY <3>6, <3>7
      <4>3. Less(after, Blanks) = <<>>
        BY <3>9, <4>2, LessNone
      <4> QED
        BY <4>1, <4>3
    <3>11. u = before \o t /\ s = u \o after
      <4>1. u = before \o SubSeq(s, p + 1, last)
        BY <3>2 DEF u
      <4>2. t = SubSeq(s, p + 1, last)
        BY <3>1 DEF t
      <4>3. s = u \o after
        BY <3>3, <3>4 DEF u
      <4> HIDE DEF p
      <4> QED
        BY <4>1, <4>2, <4>3, Zenon
    <3>12. Less(u, Blanks) = Less(before, Blanks) \o Less(t, Blanks)
      BY <2>4, <3>5, <3>11, LessConcat
    <3>13. Less(s, Blanks) = Less(u, Blanks) \o Less(after, Blanks)
      BY <2>5, <3>6, <3>7, <3>11, LessConcat
    <3>14. Less(t, Blanks) \in Seq(S) /\ Less(u, Blanks) \in Seq(S)
      BY <2>4, <2>5, LessIn
    <3> QED
      BY <3>10, <3>12, <3>13, <3>14, ConcatEmptySeq
  <2> QED
    BY <2>3, <2>8, <2>10, <2>11, <2>12, <2>13
<1> QED
  BY <1>2, <1>3

-----------------------------------------------------------------------------
(* Quotes; split and join                                                  *)

LEMMA MarksDiffer ==
    /\ Quote # Apostrophe /\ Quote # Brace /\ Quote # EndBrace
    /\ Apostrophe # Brace /\ Apostrophe # EndBrace /\ Brace # EndBrace
BY Zenon DEF Quote, Apostrophe, Brace, EndBrace

\* The places of the marks in the list of pairs.
LEMMA PairPlaces ==
    ASSUME NEW c
    PROVE  /\ c = Quote => PairOf(c) = 0
           /\ c = Apostrophe => PairOf(c) = 2
           /\ c = Brace => PairOf(c) = 4
           /\ c = EndBrace => PairOf(c) = 5
           /\ c \notin {Quote, Apostrophe, Brace, EndBrace} => PairOf(c) = 6
<1> DEFINE r == find_first_of(Pairs, {c}, 1)
<1>1. Pairs \in Seq({Quote, Apostrophe, Brace, EndBrace}) /\ Len(Pairs) = 6
  BY DEF Pairs
<1>2. FirstAt(Pairs, {c}, 1, r)
  <2>1. 1 \in 1..(Len(Pairs) + 1)
    BY <1>1
  <2> QED
    BY <1>1, <2>1, FindsFirst
<1> HIDE DEF r
<1>3. r \in 1..7 /\ (\A i \in 1..(r - 1) : Pairs[i] # c) /\ (r # 7 => Pairs[r] = c)
  BY <1>1, <1>2 DEF FirstAt
<1>4. /\ Pairs[1] = Quote /\ Pairs[2] = Quote /\ Pairs[3] = Apostrophe /\ Pairs[4] = Apostrophe
      /\ Pairs[5] = Brace /\ Pairs[6] = EndBrace
  BY DEF Pairs
<1>5. PairOf(c) = r - 1
  BY DEF PairOf, r
<1>6. /\ r > 1 => Pairs[1] # c
      /\ r > 3 => Pairs[3] # c
      /\ r > 5 => Pairs[5] # c
      /\ r > 6 => Pairs[6] # c
  BY <1>3
<1>7. \/ r = 1 /\ c = Quote
      \/ r = 3 /\ c = Apostrophe
      \/ r = 5 /\ c = Brace
      \/ r = 6 /\ c = EndBrace
      \/ r = 7 /\ c \notin {Quote, Apostrophe, Brace, EndBrace}
  <2>1. r = 1 \/ r = 2 \/ r = 3 \/ r = 4 \/ r = 5 \/ r = 6 \/ r = 7
    BY <1>3
  <2> QED
    BY <1>3, <1>4, <1>6, <2>1
<1> QED
  BY <1>5, <1>7, MarksDiffer

LEMMA OpensWhich ==
    ASSUME NEW c
    PROVE  Opens(c) <=> c \in {Quote, Apostrophe, Brace}
<1>1. Len(Pairs) = 6
  BY DEF Pairs
<1>2. Opens(c) <=> PairOf(c) < 6 /\ PairOf(c) % 2 = 0
  BY <1>1 DEF Opens
<1>3. 0 % 2 = 0 /\ 2 % 2 = 0 /\ 4 % 2 = 0 /\ 5 % 2 = 1
  OBVIOUS
<1>4. CASE c = Quote
  BY <1>2, <1>3, <1>4, PairPlaces
<1>5. CASE c = Apostrophe
  BY <1>2, <1>3, <1>5, PairPlaces
<1>6. CASE c = Brace
  BY <1>2, <1>3, <1>6, PairPlaces
<1>7. CASE c = EndBrace
  BY <1>2, <1>3, <1>7, PairPlaces
<1>8. CASE c \notin {Quote, Apostrophe, Brace, EndBrace}
  BY <1>2, <1>8, PairPlaces
<1> QED
  BY <1>4, <1>5, <1>6, <1>7, <1>8

\* unquote() and is_quoted() agree but for short texts in braces.
LEMMA UnquotesAnywhere ==
    ASSUME NEW S, NEW s \in Seq(S)
    PROVE  unquote(s) = IF is_quoted(s) /\ (s[1] = Brace => Len(s) >= 4) THEN Sub(s, 2, Len(s) - 1) ELSE s
<1>1. Len(s) \in Nat
  BY LenProperties
<1>2. CASE ~(Len(s) >= 2 /\ Opens(s[1]))
  <2>1. ~is_quoted(s)
    BY <1>2 DEF is_quoted
  <2>2. Len(s) < 2 \/ ~Opens(s[1])
    BY <1>1, <1>2
  <2>3. unquote(s) = s
    BY <2>2 DEF unquote
  <2> QED
    BY <2>1, <2>3
<1>3. CASE Len(s) >= 2 /\ Opens(s[1])
  <2> DEFINE d == PairOf(s[1])
             n == Len(s)
             marked == s[n] = Pairs[d + 2]
  <2>1. s[1] \in {Quote, Apostrophe, Brace}
    BY <1>3, OpensWhich
  <2>2. \/ s[1] = Quote /\ d = 0
        \/ s[1] = Apostrophe /\ d = 2
        \/ s[1] = Brace /\ d = 4
    BY <2>1, PairPlaces
  <2>3. n \in Nat /\ n >= 2 /\ ~(n < 2)
    BY <1>1, <1>3
  <2>4. is_quoted(s) <=> marked
    BY <1>3 DEF is_quoted
  <2>5. unquote(s) = IF d > n THEN s ELSE IF marked THEN Sub(s, 2, n - 1) ELSE s
    BY <1>3, <2>3 DEF unquote
  <2> HIDE DEF d, n, marked
  <2>6. d > n <=> s[1] = Brace /\ ~(n >= 4)
    BY <2>2, <2>3, MarksDiffer
  <2>7. unquote(s) = IF is_quoted(s) /\ (s[1] = Brace => n >= 4) THEN Sub(s, 2, n - 1) ELSE s
    BY <2>4, <2>5, <2>6
  <2> QED
    BY <2>7 DEF n
<1> QED
  BY <1>2, <1>3

\* join() of one piece more.
LEMMA JoinAppend ==
    ASSUME NEW S, NEW list \in Seq(Seq(S)), NEW delim \in Seq(S), NEW s \in Seq(S)
    PROVE  /\ join(list, delim) \in Seq(S)
           /\ join(Append(list, s), delim) = IF list = <<>> THEN s ELSE join(list, delim) \o (delim \o s)
<1> DEFINE n == Len(list)
           more == Append(list, s)
           row == [k \in 1..n |-> IF k = 1 THEN list[k] ELSE delim \o list[k]]
           rows == [k \in 1..(n + 1) |-> IF k = 1 THEN more[k] ELSE delim \o more[k]]
           new == IF n = 0 THEN s ELSE delim \o s
<1>1. n \in Nat /\ n + 1 \in Nat /\ DOMAIN list = 1..n /\ \A k \in 1..n : list[k] \in Seq(S)
  BY LenProperties, ElementOfSeq
<1>2. /\ more \in Seq(Seq(S)) /\ Len(more) = n + 1 /\ DOMAIN more = 1..(n + 1)
      /\ \A k \in 1..n : more[k] = list[k]
      /\ more[n + 1] = s
  BY AppendProperties, LenProperties
<1> HIDE DEF n, more
<1>3. \A t \in Seq(S) : delim \o t \in Seq(S)
  BY ConcatProperties
<1>4. new \in Seq(S)
  BY <1>3
<1>5. row \in [1..n -> Seq(S)]
  BY <1>1, <1>3
<1>6. row \in Seq(Seq(S)) /\ Len(row) = n
  BY <1>1, <1>5, RowIsSeq
<1>7. join(list, delim) = FlattenSeq(row) /\ join(more, delim) = FlattenSeq(rows)
  BY <1>1, <1>2 DEF join
<1>8. rows = Append(row, new)
  <2>1. \A k \in 1..(n + 1) : more[k] \in Seq(S)
    BY <1>2, ElementOfSeq
  <2>2. rows \in [1..(n + 1) -> Seq(S)]
    BY <1>3, <2>1
  <2>3. rows \in Seq(Seq(S)) /\ Len(rows) = n + 1
    BY <1>1, <2>2, RowIsSeq
  <2>4. \A k \in 1..n : k \in 1..(n + 1) /\ rows[k] = row[k]
    BY <1>1, <1>2
  <2>5. rows[n + 1] = new
    BY <1>1, <1>2
  <2>6. \A k \in 1..(n + 1) : k \in 1..n \/ k = n + 1
    BY <1>1
  <2> HIDE DEF row, rows, new
  <2>7. /\ Append(row, new) \in Seq(Seq(S)) /\ Len(Append(row, new)) = n + 1
        /\ \A k \in 1..n : Append(row, new)[k] = row[k]
        /\ Append(row, new)[n + 1] = new
    BY <1>4, <1>6, AppendProperties
  <2>8. \A k \in 1..(n + 1) : rows[k] = Append(row, new)[k]
    BY <2>4, <2>5, <2>6, <2>7
  <2> QED
    BY <2>3, <2>7, <2>8, SeqEqual
<1> HIDE DEF row, rows, new
<1>9. FlattenSeq(Append(row, new)) = FlattenSeq(row) \o new /\ FlattenSeq(row) \in Seq(S)
  BY <1>4, <1>6, FlattenAppend
<1>10. CASE n = 0
  <2>1. list = <<>> /\ row = <<>>
    BY <1>6, <1>10, EmptySeq DEF n
  <2>2. FlattenSeq(row) = <<>> /\ new = s
    BY <1>10, <2>1, FlattenEmpty DEF new
  <2>3. <<>> \o s = s
    BY ConcatEmptySeq
  <2> QED
    BY <1>7, <1>8, <1>9, <2>1, <2>2, <2>3 DEF more
<1>11. CASE n # 0
  <2>1. list # <<>>
    BY <1>11, EmptySeq DEF n
  <2>2. new = delim \o s
    BY <1>11 DEF new
  <2> QED
    BY <1>7, <1>8, <1>9, <2>1, <2>2 DEF more
<1> QED
  BY <1>10, <1>11

\* What stands before the next piece that is joined.
Lead(list, delim) == IF Len(list) = 0 THEN <<>> ELSE join(list, delim) \o delim

LEMMA JoinLead ==
    ASSUME NEW S, NEW list \in Seq(Seq(S)), NEW delim \in Seq(S), NEW s \in Seq(S)
    PROVE  /\ Lead(list, delim) \in Seq(S)
           /\ join(Append(list, s), delim) = Lead(list, delim) \o s
<1>1. /\ join(list, delim) \in Seq(S)
      /\ join(Append(list, s), delim) = IF list = <<>> THEN s ELSE join(list, delim) \o (delim \o s)
  BY JoinAppend
<1>2. CASE list = <<>>
  <2>1. Lead(list, delim) = <<>> /\ <<>> \in Seq(S) /\ <<>> \o s = s
    BY <1>2, EmptySeq, ConcatEmptySeq DEF Lead
  <2> QED
    BY <1>1, <1>2, <2>1
<1>3. CASE list # <<>>
  <2> DEFINE joined == join(list, delim)
  <2>1. joined \in Seq(S) /\ Lead(list, delim) = joined \o delim
    <3>1. Len(list) # 0
      BY <1>3, EmptySeq
    <3> QED
      BY <1>1, <3>1 DEF Lead
  <2> HIDE DEF joined
  <2>2. (joined \o delim) \o s = joined \o (delim \o s) /\ joined \o delim \in Seq(S)
    BY <2>1, ConcatAssociative, ConcatProperties
  <2> QED
    BY <1>1, <1>3, <2>1, <2>2 DEF joined
<1> QED
  BY <1>2, <1>3

\* The states that the loop of split() can be in.
Loops(S, n) == [prev : 1..(n + 1), result : Seq(Seq(S))]

\* The states of the loop of split(), one for each turn that a text could take.
SplitLoop(F, S, s, C, max) ==
    /\ F \in [0..Len(s) -> Loops(S, Len(s))]
    /\ F[0] = [prev |-> 1, result |-> <<>>]
    /\ \A i \in 1..Len(s) : F[i] = SplitStep(s, C, max, i, F[i - 1])

\* A turn ends the piece at the next delimiter, or leaves things as they are.
Turns(S, s, C, max, i, loop, r) ==
    /\ FirstAt(s, C, loop.prev, r)
    /\ \/ SplitStep(s, C, max, i, loop) = loop /\ (r = Len(s) + 1 \/ (max # 0 /\ i >= max))
       \/ /\ r \in loop.prev..Len(s) /\ (max = 0 \/ ~(i >= max))
          /\ SubSeq(s, loop.prev, r - 1) \in Seq(S)
          /\ SplitStep(s, C, max, i, loop) =
               [prev |-> r + 1, result |-> Append(loop.result, SubSeq(s, loop.prev, r - 1))]

LEMMA SplitTurn ==
    ASSUME NEW S, NEW s \in Seq(S), NEW C, NEW max, NEW i, NEW loop \in Loops(S, Len(s))
    PROVE  Turns(S, s, C, max, i, loop, find_first_of(s, C, loop.prev))
<1> DEFINE r == find_first_of(s, C, loop.prev)
<1>1. r = find_first_of(s, C, loop.prev)
  OBVIOUS
<1>. SUFFICES Turns(S, s, C, max, i, loop, r)
  OBVIOUS
<1> HIDE DEF r
<1> DEFINE n == Len(s)
           last == r - 1
<1>2. n \in Nat /\ loop.prev \in 1..(n + 1) /\ loop.prev \in Nat /\ loop.prev >= 1
  BY LenProperties DEF Loops
<1>3. FirstAt(s, C, loop.prev, r)
  BY <1>1, <1>2, FindsFirst
<1>4. r \in loop.prev..(n + 1)
  BY <1>3 DEF FirstAt
<1>5. CASE r = n + 1 \/ (max # 0 /\ i >= max)
  BY <1>1, <1>3, <1>5 DEF SplitStep, Npos, Turns
<1>6. CASE ~(r = n + 1 \/ (max # 0 /\ i >= max))
  <2>1. last \in Int /\ last <= n /\ r \in loop.prev..n
    BY <1>2, <1>4, <1>6
  <2>2. Sub(s, loop.prev, last) = SubSeq(s, loop.prev, last)
    BY <2>1, SubIs
  <2>3. SubSeq(s, loop.prev, last) \in Seq(S)
    BY <1>2, <2>1, PartOf
  <2>4. SplitStep(s, C, max, i, loop) = [prev |-> r + 1, result |-> Append(loop.result, SubSeq(s, loop.prev, last))]
    BY <1>1, <1>6, <2>2 DEF SplitStep, Npos
  <2> QED
    BY <1>3, <1>6, <2>1, <2>3, <2>4 DEF Turns
<1> QED
  BY <1>5, <1>6

\* split() answers what the last state of its loop holds, and the rest.
LEMMA SplitLoopExists ==
    ASSUME NEW S, NEW s \in Seq(S), NEW C, NEW max
    PROVE  \E F : /\ SplitLoop(F, S, s, C, max)
                  /\ split(s, C, max) = Append(F[Len(s)].result, Onward(s, F[Len(s)].prev))
<1> DEFINE n == Len(s)
           L == Loops(S, n)
           base == [prev |-> 1, result |-> <<>>]
           step == [i \in 1..n |-> [loop \in L |-> SplitStep(s, C, max, i, loop)]]
<1>1. n \in Nat /\ n \in 0..n
  BY LenProperties
<1>2. base \in L
  BY <1>1, EmptySeq DEF Loops
<1>3. ASSUME NEW i \in 1..n, NEW loop \in L
      PROVE  SplitStep(s, C, max, i, loop) \in L
  <2> DEFINE r == find_first_of(s, C, loop.prev)
             p == SubSeq(s, loop.prev, r - 1)
             new == [prev |-> r + 1, result |-> Append(loop.result, p)]
  <2>1. \/ SplitStep(s, C, max, i, loop) = loop
        \/ r \in loop.prev..n /\ p \in Seq(S) /\ SplitStep(s, C, max, i, loop) = new
    BY SplitTurn DEF Turns
  <2> HIDE DEF r, p
  <2>2. loop.prev \in 1..(n + 1) /\ loop.result \in Seq(Seq(S))
    BY DEF Loops
  <2>3. r \in loop.prev..n => r + 1 \in 1..(n + 1)
    BY <1>1, <2>2
  <2>4. p \in Seq(S) => Append(loop.result, p) \in Seq(Seq(S))
    BY <2>2, AppendProperties
  <2>5. r \in loop.prev..n /\ p \in Seq(S) => new \in L
    BY <2>3, <2>4 DEF Loops
  <2> HIDE DEF L, new
  <2> QED
    BY <2>1, <2>5
<1> HIDE DEF L, base
<1>4. step \in [1..n -> [L -> L]]
  BY <1>3
<1> HIDE DEF step, n
<1>5. PICK F \in [0..n -> L] : F[0] = base /\ \A i \in 1..n : F[i] = step[i][F[i - 1]]
  <2>1. n \in Nat
    BY <1>1
  <2>2. PICK F : Computed(F, L, n, base, step)
    BY <2>1, <1>2, <1>4, RowExists
  <2> QED
    BY <2>2 DEF Computed
<1> DEFINE Unfolded(f) == [i \in 0..n |-> IF i = 0 THEN base ELSE SplitStep(s, C, max, i, f[i - 1])]
           G == CHOOSE f : f = Unfolded(f)
<1>6. ASSUME NEW i \in 1..n
      PROVE  F[i] = SplitStep(s, C, max, i, F[i - 1])
  <2>1. i - 1 \in 0..n
    BY <1>1
  <2> QED
    BY <1>5, <2>1 DEF step
<1>7. F = Unfolded(F)
  <2>1. F = [i \in 0..n |-> F[i]]
    BY <1>5
  <2>2. \A i \in 0..n : F[i] = IF i = 0 THEN base ELSE SplitStep(s, C, max, i, F[i - 1])
    <3>1. \A i \in 0..n : i = 0 \/ i \in 1..n
      BY <1>1
    <3> QED
      BY <1>5, <1>6, <3>1
  <2> QED
    BY <2>1, <2>2, Zenon
<1>8. G = Unfolded(G)
  BY <1>7, Zenon
<1> HIDE DEF G
<1>9. G[n] = F[n]
  <2>1. G[0] = base
    BY <1>1, <1>8
  <2>2. \A i \in 1..n : G[i] = SplitStep(s, C, max, i, G[i - 1])
    <3>1. \A i \in 1..n : i \in 0..n /\ i # 0
      BY <1>1
    <3> QED
      BY <1>8, <3>1
  <2>3. \A i \in 1..n : F[i - 1] = G[i - 1] => F[i] = G[i]
    BY <1>6, <2>2
  <2>4. F[0] = G[0]
    BY <1>5, <2>1
  <2>5. n \in Nat
    BY <1>1
  <2>6. Alike(F, G, n)
    BY <2>3, <2>4 DEF Alike
  <2>7. \A i \in 0..n : F[i] = G[i]
    BY <2>5, <2>6, RowsAgree
  <2> QED
    BY <1>1, <2>7
<1>10. split(s, C, max) = Append(G[n].result, Onward(s, G[n].prev))
  BY DEF split, G, base, n
<1>11. SplitLoop(F, S, s, C, max)
  BY <1>5, <1>6 DEF SplitLoop, L, base, n
<1> QED
  BY <1>9, <1>10, <1>11 DEF n

LEMMA NoneIn ==
    ASSUME NEW S, NEW s \in Seq(S), NEW d
    PROVE  d \notin ToSet(s) <=> \A i \in 1..Len(s) : s[i] # d
<1>1. DOMAIN s = 1..Len(s)
  BY LenProperties
<1> QED
  BY <1>1 DEF ToSet

\* What holds of the loop of split() after k turns.
SplitKept(s, d, max, k, loop) ==
    /\ Lead(loop.result, <<d>>) = SubSeq(s, 1, loop.prev - 1)
    /\ \A i \in 1..Len(loop.result) : d \notin ToSet(loop.result[i])
    /\ Len(loop.result) <= k
    /\ max > 0 => Len(loop.result) <= max - 1
    /\ \/ loop.prev > k /\ Len(loop.result) = k
       \/ find_first_of(s, {d}, loop.prev) = Len(s) + 1
       \/ max > 0 /\ Len(loop.result) >= max - 1

\* A turn keeps it.
LEMMA SplitKeeps ==
    ASSUME NEW S, NEW s \in Seq(S), NEW d \in S, NEW max \in Nat, NEW i \in 1..Len(s),
           NEW loop \in Loops(S, Len(s)), SplitKept(s, d, max, i - 1, loop)
    PROVE  SplitKept(s, d, max, i, SplitStep(s, {d}, max, i, loop))
<1> DEFINE n == Len(s)
           r == find_first_of(s, {d}, loop.prev)
           last == r - 1
           p == SubSeq(s, loop.prev, last)
           list == loop.result
           k == Len(list)
           next == SplitStep(s, {d}, max, i, loop)
           one == <<d>>
<1>1. n \in Nat /\ i \in Nat /\ loop.prev \in 1..(n + 1) /\ list \in Seq(Seq(S)) /\ k \in Nat
  BY LenProperties DEF Loops
<1>2. /\ FirstAt(s, {d}, loop.prev, r)
      /\ \/ next = loop /\ (r = n + 1 \/ (max # 0 /\ i >= max))
         \/ /\ r \in loop.prev..n /\ (max = 0 \/ ~(i >= max))
            /\ p \in Seq(S) /\ next = [prev |-> r + 1, result |-> Append(list, p)]
  <2>1. Turns(S, s, {d}, max, i, loop, r)
    BY SplitTurn
  <2> QED
    BY <2>1 DEF Turns
<1>3. /\ Lead(list, one) = SubSeq(s, 1, loop.prev - 1)
      /\ \A j \in 1..k : d \notin ToSet(list[j])
      /\ k <= i - 1
      /\ max > 0 => k <= max - 1
      /\ (loop.prev > i - 1 /\ k = i - 1) \/ r = n + 1 \/ (max > 0 /\ k >= max - 1)
  BY DEF SplitKept
<1> HIDE DEF next, r, k, n
<1>4. CASE next = loop /\ (r = n + 1 \/ (max # 0 /\ i >= max))
  <2>1. k <= i /\ (r = n + 1 \/ (max > 0 /\ k >= max - 1))
    BY <1>1, <1>3, <1>4
  <2>2. SplitKept(s, d, max, i, loop)
    BY <1>3, <2>1 DEF SplitKept, r, k, n
  <2> QED
    BY <1>4, <2>2 DEF next
<1>5. CASE /\ r \in loop.prev..n /\ (max = 0 \/ ~(i >= max))
           /\ p \in Seq(S) /\ next = [prev |-> r + 1, result |-> Append(list, p)]
  <2> DEFINE more == Append(list, p)
             before == SubSeq(s, 1, loop.prev - 1)
  <2>1. p \in Seq(S) /\ r \in loop.prev..n /\ last \in Int /\ r \in Nat /\ s[r] = d
    BY <1>1, <1>2, <1>5 DEF FirstAt, n
  <2> HIDE DEF p, list
  <2>2. /\ more \in Seq(Seq(S)) /\ Len(more) = k + 1
        /\ \A j \in 1..k : more[j] = list[j]
        /\ more[k + 1] = p
    BY <1>1, <2>1, AppendProperties DEF k
  <2>3. next.prev = r + 1 /\ next.result = more
    BY <1>5
  <2>4. Lead(more, one) = SubSeq(s, 1, r)
    <3>1. one \in Seq(S)
      OBVIOUS
    <3> HIDE DEF one
    <3>2. Lead(list, one) \in Seq(S) /\ join(more, one) = Lead(list, one) \o p
      BY <1>1, <2>1, <3>1, JoinLead
    <3>3. Len(more) # 0
      BY <1>1, <2>2
    <3>4. Lead(more, one) = (before \o p) \o one
      BY <1>3, <3>2, <3>3 DEF Lead
    <3> DEFINE from == loop.prev
    <3>5. /\ from \in Nat /\ 1 \in 1..(n + 1) /\ from - 1 \in Int /\ from - 1 \in (1 - 1)..n /\ last \in (from - 1)..n
          /\ (from - 1) + 1 = from /\ r \in 1..n /\ 1 \in 1..n /\ r \in 1..r
      BY <1>1, <2>1
    <3> HIDE DEF from, last
    <3>6. before \o p = SubSeq(s, 1, last)
      <4>1. SubSeq(s, 1, from - 1) \o SubSeq(s, (from - 1) + 1, last) = SubSeq(s, 1, last)
        BY <3>5, ConcatAdjacentSubSeq DEF n
      <4> QED
        BY <3>5, <4>1 DEF from, p
    <3>7. SubSeq(s, 1, r) = SubSeq(s, 1, last) \o one
      <4>1. 1 \in 1..Len(s) /\ r \in 1..Len(s)
        BY <3>5 DEF n
      <4>2. SubSeq(s, 1, r) = SubSeq(s, 1, r - 1) \o <<s[r]>>
        BY <4>1, SubSeqRecursiveSecond
      <4> QED
        BY <2>1, <4>2 DEF one, last
    <3> QED
      BY <3>4, <3>6, <3>7
  <2>5. d \notin ToSet(p)
    <3>1. \A j \in loop.prev..last : s[j] # d
      BY <1>2 DEF FirstAt
    <3>2. last <= n /\ loop.prev >= 1 /\ loop.prev \in Nat /\ loop.prev <= last + 1
      BY <1>1, <2>1
    <3> HIDE DEF last
    <3>3. /\ Len(p) = IF loop.prev <= last THEN last - loop.prev + 1 ELSE 0
          /\ \A j \in 1..(last - loop.prev + 1) : p[j] = s[loop.prev + j - 1]
      BY <2>1, <3>2, PartOf DEF n, p
    <3> DEFINE from == loop.prev
               size == Len(p)
    <3>4. size = last - from + 1 /\ from \in Nat /\ last \in Int
      BY <2>1, <3>2, <3>3 DEF last
    <3> HIDE DEF from, size
    <3>5. \A j \in 1..size : from + j - 1 \in from..last
      BY <3>4
    <3>6. \A j \in 1..Len(p) : p[j] # d
      BY <3>1, <3>3, <3>4, <3>5 DEF from, size
    <3> QED
      BY <2>1, <3>6, NoneIn
  <2>6. ASSUME NEW j \in 1..(k + 1)
        PROVE  d \notin ToSet(more[j])
    <3>1. j \in 1..k \/ j = k + 1
      BY <1>1
    <3> QED
      BY <1>3, <2>2, <2>5, <3>1
  <2>7. k + 1 <= i /\ (max > 0 => k + 1 <= max - 1) /\ r + 1 > i /\ k + 1 = i
    BY <1>1, <1>3, <1>5, <2>1
  <2>8. (r + 1) - 1 = r
    BY <2>1
  <2> HIDE DEF more
  <2> QED
    BY <2>2, <2>3, <2>4, <2>6, <2>7, <2>8 DEF SplitKept, next
<1> QED
  BY <1>2, <1>4, <1>5 DEF next, r, n, k

\* Joining the pieces gives the text back; there are no more pieces than the
\* limit, and only the last may hold a delimiter, where the limit is reached.
Pieced(s, d, max, list) ==
    /\ join(list, <<d>>) = s
    /\ max > 0 => Len(list) <= max
    /\ \A k \in 1..(Len(list) - 1) : d \notin ToSet(list[k])
    /\ (max = 0 \/ Len(list) < max) => d \notin ToSet(list[Len(list)])

LEMMA SplitsBackAnywhere ==
    ASSUME NEW S, NEW s \in Seq(S), NEW d \in S, NEW max \in Nat
    PROVE  Pieced(s, d, max, split(s, {d}, max))
<1> DEFINE n == Len(s)
           list == split(s, {d}, max)
           one == <<d>>
<1>1. PICK F : SplitLoop(F, S, s, {d}, max) /\ list = Append(F[n].result, Onward(s, F[n].prev))
  <2> DEFINE C == {d}
  <2> HIDE DEF C
  <2>1. PICK F : SplitLoop(F, S, s, C, max) /\ split(s, C, max) = Append(F[n].result, Onward(s, F[n].prev))
    BY SplitLoopExists
  <2> QED
    BY <2>1 DEF C
<1>2. /\ n \in Nat /\ F \in [0..n -> Loops(S, n)] /\ F[0] = [prev |-> 1, result |-> <<>>]
      /\ \A i \in 1..n : F[i] = SplitStep(s, {d}, max, i, F[i - 1])
  BY <1>1, LenProperties DEF SplitLoop
<1> DEFINE Good == {k \in 0..n : SplitKept(s, d, max, k, F[k])}
<1>3. 0 \in Good
  <2> DEFINE none == <<>>
  <2>1. F[0].prev = 1 /\ F[0].result = none
    BY <1>2
  <2>2. none = <<>> /\ Len(none) = 0
    OBVIOUS
  <2>3. SubSeq(s, 1, 0) = none
    BY SubSeqEmpty
  <2> HIDE DEF none
  <2>4. Lead(none, one) = none
    BY <2>2 DEF Lead
  <2>5. \A i \in 1..Len(none) : d \notin ToSet(none[i])
    BY <2>2
  <2>6. SplitKept(s, d, max, 0, F[0])
    <3>1. Len(none) = 0 /\ Len(none) <= 0 /\ (max > 0 => Len(none) <= max - 1) /\ 1 > 0 /\ 1 - 1 = 0
      BY <2>2
    <3> QED
      BY <2>1, <2>3, <2>4, <2>5, <3>1 DEF SplitKept
  <2> QED
    BY <1>2, <2>6
<1>4. ASSUME NEW k \in 0..(n - 1), k \in Good
      PROVE  k + 1 \in Good
  <2>1. k + 1 \in 1..n /\ k + 1 \in 0..n /\ (k + 1) - 1 = k /\ k \in 0..n
    BY <1>2
  <2>2. F[k] \in Loops(S, n) /\ SplitKept(s, d, max, k, F[k])
    BY <1>2, <1>4, <2>1
  <2>3. F[k + 1] = SplitStep(s, {d}, max, k + 1, F[k])
    BY <1>2, <2>1
  <2>4. SplitKept(s, d, max, (k + 1) - 1, F[k])
    BY <2>1, <2>2
  <2>5. SplitKept(s, d, max, k + 1, SplitStep(s, {d}, max, k + 1, F[k]))
    BY <2>1, <2>2, <2>4, SplitKeeps
  <2> QED
    BY <2>1, <2>3, <2>5
<1> HIDE DEF Good
<1>5. SplitKept(s, d, max, n, F[n]) /\ F[n] \in Loops(S, n)
  <2>1. \A k \in 0..n : k \in Good
    BY <1>2, <1>3, <1>4, UpTo
  <2>2. n \in 0..n
    BY <1>2
  <2> QED
    BY <1>2, <2>1, <2>2 DEF Good
<1> DEFINE result == F[n].result
           prev == F[n].prev
           rest == SubSeq(s, prev, n)
           m == Len(result)
<1>6. result \in Seq(Seq(S)) /\ prev \in 1..(n + 1) /\ m \in Nat
  BY <1>5, LenProperties DEF Loops
<1>7. /\ Lead(result, one) = SubSeq(s, 1, prev - 1)
      /\ \A i \in 1..m : d \notin ToSet(result[i])
      /\ max > 0 => m <= max - 1
      /\ prev > n \/ find_first_of(s, {d}, prev) = n + 1 \/ (max > 0 /\ m >= max - 1)
  BY <1>5 DEF SplitKept
<1> HIDE DEF result, prev
<1>8. rest \in Seq(S) /\ Len(rest) = n - prev + 1 /\ \A i \in 1..(n - prev + 1) : rest[i] = s[prev + i - 1]
  <2>1. /\ rest \in Seq(S)
        /\ Len(rest) = IF prev <= n THEN n - prev + 1 ELSE 0
        /\ \A i \in 1..(n - prev + 1) : rest[i] = s[prev + i - 1]
    BY <1>2, <1>6, PartOf
  <2>2. n - prev + 1 \in Int /\ (IF prev <= n THEN n - prev + 1 ELSE 0) = n - prev + 1
    BY <1>2, <1>6
  <2> HIDE DEF rest, n
  <2> QED
    BY <2>1, <2>2
<1> HIDE DEF m, rest, n, list
<1>9. rest \in Seq(S) /\ result \in Seq(Seq(S))
  BY <1>6, <1>8
<1>10. list = Append(result, rest)
  BY <1>1, OnwardIs DEF result, prev, rest, n, list
<1>11. /\ Len(list) = m + 1 /\ list[m + 1] = rest
       /\ \A i \in 1..m : list[i] = result[i]
  BY <1>10, <1>9, AppendProperties DEF m
<1>12. join(list, one) = s
  <2>1. one \in Seq(S)
    OBVIOUS
  <2> HIDE DEF one
  <2>2. join(list, one) = Lead(result, one) \o rest
    BY <1>10, <1>9, <2>1, JoinLead
  <2>3. 1 \in 1..(n + 1) /\ prev - 1 \in (1 - 1)..n /\ n \in (prev - 1)..n /\ (prev - 1) + 1 = prev
    BY <1>2, <1>6
  <2>4. SubSeq(s, 1, prev - 1) \o SubSeq(s, (prev - 1) + 1, n) = SubSeq(s, 1, n)
    BY <2>3, ConcatAdjacentSubSeq DEF n
  <2>5. SubSeq(s, 1, n) = s
    BY SubSeqFull DEF n
  <2> QED
    BY <1>7, <2>2, <2>3, <2>4, <2>5 DEF rest, n
<1>13. (max = 0 \/ m + 1 < max) => d \notin ToSet(rest)
  <2>1. FirstAt(s, {d}, prev, find_first_of(s, {d}, prev))
    BY <1>6, FindsFirst DEF n
  <2>2. find_first_of(s, {d}, prev) = n + 1 => \A i \in prev..((n + 1) - 1) : s[i] # d
    BY <2>1 DEF FirstAt, n
  <2>3. find_first_of(s, {d}, prev) = n + 1 => \A i \in 1..(n - prev + 1) : prev + i - 1 \in prev..((n + 1) - 1) /\ s[prev + i - 1] # d
    BY <1>2, <1>6, <2>2
  <2>4. prev > n => n - prev + 1 <= 0
    BY <1>2, <1>6
  <2>5. ASSUME max = 0 \/ m + 1 < max, NEW i \in 1..Len(rest)
        PROVE  rest[i] # d
    <3>1. i \in 1..(n - prev + 1) /\ rest[i] = s[prev + i - 1]
      BY <1>8
    <3>2. n - prev + 1 \in Int /\ i \in Int /\ 1 <= i /\ i <= n - prev + 1
      BY <1>2, <1>6, <3>1
    <3>3. ~(prev > n)
      BY <2>4, <3>2
    <3>4. find_first_of(s, {d}, prev) = n + 1
      BY <1>6, <1>7, <2>5, <3>3
    <3> QED
      BY <2>3, <3>1, <3>4
  <2> QED
    BY <1>8, <2>5, NoneIn
<1>14. max > 0 => Len(list) <= max
  BY <1>6, <1>7, <1>11
<1>15. \A k \in 1..(Len(list) - 1) : d \notin ToSet(list[k])
  <2>1. \A k \in 1..(Len(list) - 1) : k \in 1..m
    BY <1>6, <1>11
  <2> QED
    BY <1>7, <1>11, <2>1
<1>16. list[Len(list)] = rest
  BY <1>11
<1> HIDE DEF one
<1>17. Pieced(s, d, max, list)
  BY <1>11, <1>12, <1>13, <1>14, <1>15, <1>16 DEF one, Pieced
<1> QED
  BY <1>17 DEF list

LEMMA SplitsBackHere ==
    ASSUME str \in Seq(Symbols)
    PROVE  SplitsBack /\ \A max \in Nat : SplitsWithin(max)
<1> DEFINE S == Symbols \cup {Space}
<1>1. str \in Seq(S) /\ Space \in S
  <2>1. Symbols \subseteq S /\ Space \in S
    OBVIOUS
  <2> HIDE DEF S
  <2> QED
    BY <2>1, SeqOfMore
<1> HIDE DEF S
<1>2. ASSUME NEW max \in Nat
      PROVE  SplitsWithin(max)
  <2>1. Pieced(str, Space, max, split(str, {Space}, max))
    BY <1>1, SplitsBackAnywhere
  <2> QED
    BY <2>1 DEF SplitsWithin, Pieced
<1> QED
  BY <1>2 DEF SplitsBack

\* Texts are sequences of symbols.
LEMMA TextsTyped == StringsSpec => [](str \in Seq(Symbols))
<1>1. StringsInit => str \in Seq(Symbols)
  BY EmptySeq DEF StringsInit
<1>2. str \in Seq(Symbols) /\ [Types]_str => (str \in Seq(Symbols))'
  BY AppendProperties DEF Types
<1> QED
  BY <1>1, <1>2, PTL DEF StringsSpec

\* The searches of strings.hpp answer what comparing the ends of a text would;
\* join() undoes split(), whatever the limit; strip() and trim() are
\* idempotent and take blanks only; and unquote() takes off the marks that
\* is_quoted() names: of every text that can be written in any alphabet.
THEOREM StringsSafe == StringsSpec => [](StringsInv /\ \A max \in Nat : SplitsWithin(max))
<1>1. str \in Seq(Symbols) => StringsInv /\ \A max \in Nat : SplitsWithin(max)
  <2> SUFFICES ASSUME str \in Seq(Symbols) PROVE StringsInv /\ \A max \in Nat : SplitsWithin(max)
    OBVIOUS
  <2>1. SearchExact
    BY SearchesExact
  <2>2. SplitsBack /\ \A max \in Nat : SplitsWithin(max)
    BY SplitsBackHere
  <2>3. StripsOnce
    BY StripsOnceAnywhere DEF StripsOnce
  <2>4. UnquoteMatches
    BY UnquotesAnywhere DEF UnquoteMatches
  <2> QED
    BY <2>1, <2>2, <2>3, <2>4 DEF StringsInv
<1> QED
  BY <1>1, TextsTyped, PTL

-----------------------------------------------------------------------------
(* tokenize: a turn of its loop                                            *)

LEMMA FirstUnique ==
    ASSUME NEW S, NEW s \in Seq(S), NEW C, NEW from \in 1..(Len(s) + 1), NEW q, NEW r,
           FirstAt(s, C, from, q), FirstAt(s, C, from, r)
    PROVE  q = r
<1> DEFINE n == Len(s)
<1>1. n \in Nat
  BY LenProperties
<1> HIDE DEF n
<1>2. q \in Nat /\ r \in Nat /\ from \in Nat /\ q >= from /\ r >= from /\ q <= n + 1 /\ r <= n + 1
  BY <1>1 DEF FirstAt, n
<1>3. (q # n + 1 => s[q] \in C) /\ (r # n + 1 => s[r] \in C)
  BY DEF FirstAt, n
<1>4. \A i \in from..(q - 1) : s[i] \notin C
  BY DEF FirstAt
<1>5. \A i \in from..(r - 1) : s[i] \notin C
  BY DEF FirstAt
<1>6. q < r => q \in from..(r - 1) /\ q # n + 1
  BY <1>1, <1>2
<1>7. r < q => r \in from..(q - 1) /\ r # n + 1
  BY <1>1, <1>2
<1>8. ~(q < r) /\ ~(r < q)
  BY <1>3, <1>4, <1>5, <1>6, <1>7
<1> QED
  BY <1>2, <1>8

\* Where a quoted token ends, if it does.
LEMMA QuoteWhere ==
    ASSUME NEW S, NEW s \in Seq(S), NEW i \in 1..Len(s)
    PROVE  QuoteEnds(s, i) \in {0} \cup (i + 1)..Len(s)
<1> DEFINE n == Len(s)
           C == {Pairs[PairOf(s[i]) + 2]}
           r == find_first_of(s, C, i + 1)
<1>1. n \in Nat /\ i + 1 \in 1..(n + 1) /\ i + 1 \in Nat
  BY LenProperties
<1> HIDE DEF C
<1>2. FirstAt(s, C, i + 1, r)
  BY <1>1, FindsFirst
<1> HIDE DEF r
<1>3. r \in (i + 1)..(n + 1)
  BY <1>2 DEF FirstAt
<1>4. QuoteEnds(s, i) = IF ~Opens(s[i]) \/ r = n + 1 THEN 0 ELSE r
  BY DEF QuoteEnds, Npos, r, C
<1> HIDE DEF n
<1>5. r # n + 1 => r \in (i + 1)..n
  BY <1>1, <1>3
<1> QED
  BY <1>4, <1>5 DEF n

\* Where the token that starts a turn ends, the token, and where the next starts.
TokenEnd(s, loop) ==
    IF QuoteEnds(s, loop.prev) # 0 THEN QuoteEnds(s, loop.prev) ELSE loop.current
Token(s, loop) ==
    SubSeq(s, loop.prev, IF QuoteEnds(s, loop.prev) # 0 THEN TokenEnd(s, loop) ELSE TokenEnd(s, loop) - 1)
NextToken(s, C, loop) ==
    IF find_first_not_of(s, C, TokenEnd(s, loop) + 1) = Len(s) + 1 THEN TokenEnd(s, loop) + 1
    ELSE find_first_not_of(s, C, TokenEnd(s, loop) + 1)

\* A turn of tokenize() adds a token and goes on after it.
TokensTurned(S, s, C, loop) ==
    /\ TokenEnd(s, loop) \in loop.prev..Len(s)
    /\ Token(s, loop) \in Seq(S)
    /\ NextToken(s, C, loop) \in (TokenEnd(s, loop) + 1)..(Len(s) + 1)
    /\ \A i \in (TokenEnd(s, loop) + 1)..(NextToken(s, C, loop) - 1) : s[i] \in C
    /\ TokensStep(s, C, loop) =
         [prev |-> NextToken(s, C, loop), current |-> find_first_of(s, C, NextToken(s, C, loop)),
          result |-> Append(loop.result, Token(s, loop))]

LEMMA TokensTurn ==
    ASSUME NEW S, NEW s \in Seq(S), NEW C, NEW loop, loop.prev \in 1..Len(s),
           loop.current \in loop.prev..Len(s)
    PROVE  TokensTurned(S, s, C, loop)
<1> DEFINE n == Len(s)
           prev == loop.prev
           quote == QuoteEnds(s, prev)
           end == TokenEnd(s, loop)
           last == IF quote # 0 THEN end ELSE end - 1
           after == find_first_not_of(s, C, end + 1)
           next == NextToken(s, C, loop)
<1>1. n \in Nat /\ prev \in 1..n /\ prev \in Nat /\ prev >= 1 /\ loop.current \in prev..n
  BY LenProperties
<1>2. quote \in {0} \cup (prev + 1)..n
  BY <1>1, QuoteWhere
<1>3. end = IF quote # 0 THEN quote ELSE loop.current
  BY DEF TokenEnd
<1>4. next = IF after = n + 1 THEN end + 1 ELSE after
  BY DEF NextToken
<1>5. Token(s, loop) = SubSeq(s, prev, last)
  BY DEF Token
<1>6. TokensStep(s, C, loop) =
        LET token == IF quote # 0 THEN Sub(s, prev, quote)
                     ELSE IF end < prev THEN Onward(s, prev)
                     ELSE Sub(s, prev, end - 1)
        IN  [prev |-> next, current |-> find_first_of(s, C, next), result |-> Append(loop.result, token)]
  BY DEF TokensStep, NextToken, TokenEnd, Npos
<1> HIDE DEF quote, end, next, n
<1>7. end \in prev..n /\ end + 1 \in 1..(n + 1) /\ end \in Nat /\ last \in Int /\ last <= n /\ ~(end < prev)
      /\ end - 1 \in Int /\ end - 1 <= n
  BY <1>1, <1>2, <1>3
<1>8. FirstNotAt(s, C, end + 1, after)
  BY <1>7, FindsFirstNot DEF n
<1> HIDE DEF after
<1>9. after \in (end + 1)..(n + 1) /\ \A i \in (end + 1)..(after - 1) : s[i] \in C
  BY <1>8 DEF FirstNotAt, n
<1>10. next \in (end + 1)..(n + 1)
  BY <1>1, <1>4, <1>7, <1>9
<1>11. \A i \in (end + 1)..(next - 1) : s[i] \in C
  <2>1. next = end + 1 => \A i \in (end + 1)..(next - 1) : FALSE
    BY <1>7
  <2> QED
    BY <1>4, <1>9, <2>1
<1>12. TokensStep(s, C, loop) =
         [prev |-> next, current |-> find_first_of(s, C, next), result |-> Append(loop.result, SubSeq(s, prev, last))]
  <2>1. quote # 0 => Sub(s, prev, quote) = SubSeq(s, prev, last)
    <3>1. quote # 0 => quote \in Int /\ quote <= n /\ quote = last
      BY <1>1, <1>2, <1>3
    <3> QED
      BY <3>1, SubIs DEF n
  <2>2. quote = 0 => Sub(s, prev, end - 1) = SubSeq(s, prev, last)
    BY <1>7, SubIs DEF n
  <2> QED
    BY <1>6, <1>7, <2>1, <2>2
<1>13. SubSeq(s, prev, last) \in Seq(S)
  BY <1>1, <1>7, PartOf DEF n
<1> HIDE DEF last
<1> QED
  BY <1>5, <1>7, <1>10, <1>11, <1>12, <1>13 DEF TokensTurned, end, next, n

\* The states of the loop of tokenize() once a search has started at its token.
TokenLoops(S, s, C) ==
    {loop \in [prev : 1..(Len(s) + 1), current : 1..(Len(s) + 1), result : Seq(Seq(S))] :
        loop.current = find_first_of(s, C, loop.prev)}

\* One turn, and where the turns end.
TokensNext(s, C, loop) == IF loop.current = Len(s) + 1 THEN loop ELSE TokensStep(s, C, loop)

\* What tokenize() answers when its loop is done.
TokensDone(s, done) ==
    IF done.prev <= Len(s) THEN Append(done.result, Onward(s, done.prev)) ELSE done.result

\* The states of the loop, one for each turn that a text could take.
TokensRow(F, s, C) ==
    /\ F = [i \in 0..Len(s) |-> F[i]]
    /\ F[0] = TokensStart(s, C)
    /\ \A i \in 1..Len(s) : F[i] = TokensNext(s, C, F[i - 1])

LEMMA TokenLoop ==
    ASSUME NEW S, NEW s \in Seq(S), NEW C, NEW loop \in TokenLoops(S, s, C)
    PROVE  /\ loop.prev \in 1..(Len(s) + 1)
           /\ loop.current \in loop.prev..(Len(s) + 1)
           /\ loop.result \in Seq(Seq(S))
           /\ loop.current = find_first_of(s, C, loop.prev)
           /\ loop.current # Len(s) + 1 => loop.prev \in 1..Len(s) /\ loop.current \in loop.prev..Len(s)
<1> DEFINE n == Len(s)
           r == find_first_of(s, C, loop.prev)
<1>1. n \in Nat /\ loop.prev \in 1..(n + 1) /\ loop.result \in Seq(Seq(S)) /\ loop.current = r
  BY LenProperties DEF TokenLoops
<1>2. FirstAt(s, C, loop.prev, r)
  BY <1>1, FindsFirst
<1> HIDE DEF r
<1>3. r \in loop.prev..(n + 1)
  BY <1>2 DEF FirstAt
<1> HIDE DEF n
<1>4. r # n + 1 => loop.prev \in 1..n /\ r \in loop.prev..n
  BY <1>1, <1>3
<1> QED
  BY <1>1, <1>3, <1>4 DEF r, n

LEMMA TokensTyped ==
    ASSUME NEW S, NEW s \in Seq(S), NEW C, NEW loop \in TokenLoops(S, s, C)
    PROVE  /\ TokensNext(s, C, loop) \in TokenLoops(S, s, C)
           /\ loop.current # Len(s) + 1 => TokensNext(s, C, loop).prev > loop.prev
<1>1. CASE loop.current = Len(s) + 1
  BY <1>1 DEF TokensNext
<1>2. CASE loop.current # Len(s) + 1
  <2> DEFINE n == Len(s)
             next == NextToken(s, C, loop)
             r == find_first_of(s, C, next)
             end == TokenEnd(s, loop)
             token == Token(s, loop)
             list == loop.result
             new == [prev |-> next, current |-> r, result |-> Append(list, token)]
  <2>1. n \in Nat /\ loop.prev \in 1..n /\ loop.current \in loop.prev..n /\ list \in Seq(Seq(S))
    BY <1>2, TokenLoop, LenProperties
  <2>2. TokensTurned(S, s, C, loop)
    BY <2>1, TokensTurn
  <2>3. end \in loop.prev..n /\ token \in Seq(S) /\ next \in (end + 1)..(n + 1) /\ TokensStep(s, C, loop) = new
    BY <2>2 DEF TokensTurned
  <2>4. TokensNext(s, C, loop) = new
    BY <1>2, <2>3 DEF TokensNext
  <2> HIDE DEF n, next, end, token, list
  <2>5. next \in 1..(n + 1) /\ next > loop.prev /\ next \in Nat
    BY <2>1, <2>3
  <2>6. Append(list, token) \in Seq(Seq(S))
    BY <2>1, <2>3, AppendProperties
  <2>7. FirstAt(s, C, next, r)
    BY <2>5, FindsFirst DEF n
  <2>8. r = find_first_of(s, C, next)
    OBVIOUS
  <2> HIDE DEF r
  <2>9. r \in next..(n + 1)
    BY <2>7 DEF FirstAt, n
  <2>10. r \in 1..(n + 1)
    BY <2>1, <2>5, <2>9
  <2>11. new \in TokenLoops(S, s, C)
    BY <2>5, <2>6, <2>8, <2>10 DEF TokenLoops, n
  <2> QED
    BY <2>4, <2>5, <2>11
<1> QED
  BY <1>1, <1>2

LEMMA TokenizeIs ==
    ASSUME NEW S, NEW s \in Seq(S), NEW C, NEW F, TokensRow(F, s, C)
    PROVE  tokenize(s, C) = TokensDone(s, F[Len(s)])
<1> DEFINE n == Len(s)
           base == TokensStart(s, C)
           Unfolded(f) ==
               [i \in 0..n |-> IF i = 0 THEN base
                               ELSE IF f[i - 1].current = Npos(s) THEN f[i - 1]
                               ELSE TokensStep(s, C, f[i - 1])]
           G == CHOOSE f : f = Unfolded(f)
<1>1. n \in Nat /\ n \in 0..n
  BY LenProperties
<1>2. /\ F = [i \in 0..n |-> F[i]] /\ F[0] = base
      /\ \A i \in 1..n : F[i] = IF F[i - 1].current = Npos(s) THEN F[i - 1] ELSE TokensStep(s, C, F[i - 1])
  BY DEF TokensRow, TokensNext, Npos
<1>3. tokenize(s, C) = TokensDone(s, G[n])
  BY DEF tokenize, TokensDone
<1> HIDE DEF n, base
<1>4. F = Unfolded(F)
  <2>1. \A i \in 0..n : i = 0 \/ i \in 1..n
    BY <1>1
  <2>2. \A i \in 0..n : F[i] = IF i = 0 THEN base
                               ELSE IF F[i - 1].current = Npos(s) THEN F[i - 1]
                               ELSE TokensStep(s, C, F[i - 1])
    BY <1>2, <2>1
  <2> QED
    BY <1>2, <2>2, Zenon
<1>5. G = Unfolded(G)
  BY <1>4, Zenon
<1> HIDE DEF G
<1>6. G[0] = base
  BY <1>1, <1>5
<1>7. \A i \in 1..n : G[i] = IF G[i - 1].current = Npos(s) THEN G[i - 1] ELSE TokensStep(s, C, G[i - 1])
  <2>1. \A i \in 1..n : i \in 0..n /\ i # 0
    BY <1>1
  <2> QED
    BY <1>5, <2>1
<1>8. \A i \in 1..n : F[i - 1] = G[i - 1] => F[i] = G[i]
  BY <1>2, <1>7
<1>9. F[0] = G[0]
  BY <1>2, <1>6
<1>10. \A i \in 0..n : F[i] = G[i]
  <2>1. n \in Nat
    BY <1>1
  <2>2. Alike(F, G, n)
    BY <1>8, <1>9 DEF Alike
  <2> QED
    BY <2>1, <2>2, RowsAgree
<1> QED
  BY <1>1, <1>3, <1>10 DEF n

TokensComputed(F, S, s, C) == F \in [0..Len(s) -> TokenLoops(S, s, C)] /\ TokensRow(F, s, C)

LEMMA TokensRowExists ==
    ASSUME NEW S, NEW s \in Seq(S), NEW C, TokensStart(s, C) \in TokenLoops(S, s, C)
    PROVE  \E F : TokensComputed(F, S, s, C)
<1> DEFINE n == Len(s)
           T == TokenLoops(S, s, C)
           base == TokensStart(s, C)
           step == [i \in 1..n |-> [loop \in T |-> TokensNext(s, C, loop)]]
<1>1. n \in Nat /\ base \in T
  BY LenProperties
<1>2. \A loop \in T : TokensNext(s, C, loop) \in T
  BY TokensTyped
<1> HIDE DEF T, base
<1>3. step \in [1..n -> [T -> T]]
  BY <1>2
<1>4. n \in Nat
  BY <1>1
<1> HIDE DEF step, n
<1>5. PICK F : Computed(F, T, n, base, step)
  BY <1>1, <1>3, RowExists
<1>6. F \in [0..n -> T] /\ F[0] = base /\ \A i \in 1..n : F[i] = step[i][F[i - 1]]
  BY <1>5 DEF Computed
<1>7. ASSUME NEW i \in 1..n
      PROVE  F[i] = TokensNext(s, C, F[i - 1])
  <2>1. i - 1 \in 0..n
    BY <1>4
  <2> QED
    BY <1>6, <2>1 DEF step
<1>8. F = [i \in 0..n |-> F[i]]
  BY <1>6
<1> QED
  BY <1>6, <1>7, <1>8 DEF TokensComputed, TokensRow, T, base, n

\* The tokens so far hold the characters of the text so far.
TokensKept(s, C, loop) == Less(FlattenSeq(loop.result), C) = Less(SubSeq(s, 1, loop.prev - 1), C)

LEMMA LessFlatten ==
    ASSUME NEW S, NEW C, NEW list \in Seq(Seq(S)), NEW t \in Seq(S)
    PROVE  /\ FlattenSeq(list) \in Seq(S)
           /\ Less(FlattenSeq(Append(list, t)), C) = Less(FlattenSeq(list), C) \o Less(t, C)
<1>1. FlattenSeq(Append(list, t)) = FlattenSeq(list) \o t /\ FlattenSeq(list) \in Seq(S)
  BY FlattenAppend
<1> DEFINE flat == FlattenSeq(list)
<1>2. flat \in Seq(S) /\ FlattenSeq(Append(list, t)) = flat \o t
  BY <1>1
<1> HIDE DEF flat
<1>3. Less(flat \o t, C) = Less(flat, C) \o Less(t, C)
  BY <1>2, LessConcat
<1> QED
  BY <1>2, <1>3 DEF flat

\* Text between two places, in two parts.
LEMMA LessParts ==
    ASSUME NEW S, NEW s \in Seq(S), NEW C, NEW from \in 1..(Len(s) + 1), NEW k \in (from - 1)..Len(s),
           NEW to \in k..Len(s)
    PROVE  /\ SubSeq(s, from, k) \in Seq(S) /\ SubSeq(s, k + 1, to) \in Seq(S)
           /\ Less(SubSeq(s, from, to), C) = Less(SubSeq(s, from, k), C) \o Less(SubSeq(s, k + 1, to), C)
<1> DEFINE a == SubSeq(s, from, k)
           b == SubSeq(s, k + 1, to)
<1>1. Len(s) \in Nat /\ from \in Nat /\ from >= 1 /\ k \in Int /\ to \in Int /\ k <= Len(s) /\ to <= Len(s)
      /\ k + 1 \in Nat /\ k + 1 >= 1
  BY LenProperties
<1>2. a \in Seq(S)
  BY <1>1, PartOf
<1>3. b \in Seq(S)
  <2> DEFINE next == k + 1
  <2>1. next \in Nat /\ next >= 1
    BY <1>1
  <2> HIDE DEF next
  <2>2. SubSeq(s, next, to) \in Seq(S)
    BY <1>1, <2>1, PartOf
  <2> QED
    BY <2>2 DEF next
<1>4. a \o b = SubSeq(s, from, to)
  BY ConcatAdjacentSubSeq
<1> HIDE DEF a, b
<1>5. Less(a \o b, C) = Less(a, C) \o Less(b, C)
  BY <1>2, <1>3, LessConcat
<1> QED
  BY <1>2, <1>3, <1>4, <1>5 DEF a, b

\* Nothing is left of a part that is all delimiters.
LEMMA LessDelimiters ==
    ASSUME NEW S, NEW s \in Seq(S), NEW C, NEW from \in Nat \ {0}, NEW to \in Int, to <= Len(s),
           \A i \in from..to : s[i] \in C
    PROVE  Less(SubSeq(s, from, to), C) = <<>>
<1> DEFINE t == SubSeq(s, from, to)
<1>1. /\ t \in Seq(S)
      /\ Len(t) = IF from <= to THEN to - from + 1 ELSE 0
      /\ \A i \in 1..(to - from + 1) : t[i] = s[from + i - 1]
  BY PartOf
<1> HIDE DEF t
<1>2. ASSUME NEW i \in 1..Len(t)
      PROVE  t[i] \in C
  <2>1. i \in 1..(to - from + 1) /\ from + i - 1 \in from..to
    BY <1>1
  <2> QED
    BY <1>1, <2>1
<1>3. Less(t, C) = <<>>
  BY <1>1, <1>2, LessNone
<1> QED
  BY <1>3 DEF t

\* A turn keeps it: between a token and the next there are delimiters only.
LEMMA TokensKeep ==
    ASSUME NEW S, NEW s \in Seq(S), NEW C, NEW loop \in TokenLoops(S, s, C), TokensKept(s, C, loop)
    PROVE  TokensKept(s, C, TokensNext(s, C, loop))
<1>1. CASE loop.current = Len(s) + 1
  BY <1>1 DEF TokensNext
<1>2. CASE loop.current # Len(s) + 1
  <2> DEFINE n == Len(s)
             next == NextToken(s, C, loop)
             end == TokenEnd(s, loop)
             token == Token(s, loop)
             list == loop.result
             prev == loop.prev
             quoted == QuoteEnds(s, prev) # 0
             last == IF quoted THEN end ELSE end - 1
             final == next - 1
  <2>1. /\ n \in Nat /\ prev \in 1..n /\ list \in Seq(Seq(S))
        /\ loop.current \in prev..n /\ loop.current = find_first_of(s, C, prev) /\ prev \in 1..(n + 1)
    BY <1>2, TokenLoop, LenProperties
  <2>2. TokensTurned(S, s, C, loop)
    BY <2>1, TokensTurn
  <2>3. /\ end \in prev..n /\ token \in Seq(S) /\ next \in (end + 1)..(n + 1)
        /\ \A i \in (end + 1)..(next - 1) : s[i] \in C
        /\ TokensStep(s, C, loop).prev = next /\ TokensStep(s, C, loop).result = Append(list, token)
    BY <2>2 DEF TokensTurned
  <2>4. TokensNext(s, C, loop).prev = next /\ TokensNext(s, C, loop).result = Append(list, token)
    BY <1>2, <2>3 DEF TokensNext
  <2>5. token = SubSeq(s, prev, last)
    BY DEF Token
  <2>6. ~quoted => s[end] \in C
    <3>1. FirstAt(s, C, prev, loop.current)
      BY <2>1, FindsFirst
    <3>2. loop.current # n + 1 => s[loop.current] \in C
      BY <3>1 DEF FirstAt
    <3> QED
      BY <1>2, <3>2 DEF TokenEnd
  <2>7. Less(FlattenSeq(list), C) = Less(SubSeq(s, 1, prev - 1), C)
    BY DEF TokensKept
  <2> HIDE DEF n, next, end, token, list, prev, quoted
  <2>8. /\ last \in Int /\ last \in (prev - 1)..n /\ last + 1 \in Nat \ {0} /\ final \in last..n /\ final <= n /\ final \in Int
        /\ prev \in 1..(n + 1) /\ prev - 1 \in (1 - 1)..n /\ final \in (prev - 1)..n /\ 1 \in 1..(n + 1) /\ (prev - 1) + 1 = prev
    BY <2>1, <2>3
  <2>9. \A i \in (last + 1)..final : s[i] \in C
    <3>1. \A i \in (last + 1)..final : i \in (end + 1)..(next - 1) \/ (~quoted /\ i = end)
      BY <2>1, <2>3
    <3> QED
      BY <2>3, <2>6, <3>1
  <2> HIDE DEF last, final
  <2>10. Less(SubSeq(s, last + 1, final), C) = <<>>
    <3> DEFINE from == last + 1
    <3>1. from \in Nat \ {0} /\ \A i \in from..final : s[i] \in C
      BY <2>8, <2>9
    <3> HIDE DEF from
    <3>2. Less(SubSeq(s, from, final), C) = <<>>
      BY <2>8, <3>1, LessDelimiters DEF n
    <3> QED
      BY <3>2 DEF from
  <2>11. Less(SubSeq(s, prev, final), C) = Less(token, C)
    <3>1. /\ SubSeq(s, prev, last) \in Seq(S)
          /\ Less(SubSeq(s, prev, final), C) = Less(SubSeq(s, prev, last), C) \o Less(SubSeq(s, last + 1, final), C)
      <4>1. prev \in 1..(Len(s) + 1) /\ last \in (prev - 1)..Len(s) /\ final \in last..Len(s)
        BY <2>8 DEF n
      <4> QED
        BY <4>1, LessParts
    <3> DEFINE t == Less(token, C)
    <3>2. t \in Seq(S)
      BY <2>3, LessIn
    <3> HIDE DEF t
    <3>3. t \o <<>> = t
      BY <3>2, ConcatEmptySeq
    <3> QED
      BY <2>5, <2>10, <3>1, <3>3 DEF t
  <2>12. Less(SubSeq(s, 1, final), C) = Less(SubSeq(s, 1, prev - 1), C) \o Less(SubSeq(s, (prev - 1) + 1, final), C)
    <3> DEFINE k == prev - 1
    <3>1. 1 \in 1..(Len(s) + 1) /\ k \in (1 - 1)..Len(s) /\ final \in k..Len(s)
      BY <2>8 DEF n
    <3> HIDE DEF k
    <3>2. Less(SubSeq(s, 1, final), C) = Less(SubSeq(s, 1, k), C) \o Less(SubSeq(s, k + 1, final), C)
      BY <3>1, LessParts
    <3> QED
      BY <3>2 DEF k
  <2>13. Less(FlattenSeq(Append(list, token)), C) = Less(FlattenSeq(list), C) \o Less(token, C)
    BY <2>1, <2>3, LessFlatten
  <2>14. Less(FlattenSeq(Append(list, token)), C) = Less(SubSeq(s, 1, final), C)
    BY <2>7, <2>8, <2>11, <2>12, <2>13
  <2> QED
    BY <2>4, <2>14 DEF TokensKept, final
<1> QED
  BY <1>1, <1>2

\* The tokens of a text that does not start with a delimiter.
LEMMA TokensWholeAnywhere ==
    ASSUME NEW S, NEW s \in Seq(S), NEW C, find_first_not_of(s, C, 1) = 1
    PROVE  Less(FlattenSeq(tokenize(s, C)), C) = Less(s, C)
<1> DEFINE n == Len(s)
           r == find_first_of(s, C, 1)
           none == <<>>
<1>1. n \in Nat /\ n \in 0..n /\ 1 \in 1..(n + 1)
  BY LenProperties
<1>2. TokensStart(s, C) = [prev |-> 1, current |-> r, result |-> none]
  BY DEF TokensStart
<1>3. r \in 1..(n + 1)
  BY <1>1, FindsFirst DEF FirstAt
<1>4. TokensStart(s, C) \in TokenLoops(S, s, C)
  <2>1. none \in Seq(Seq(S))
    BY EmptySeq
  <2>2. r = find_first_of(s, C, 1)
    OBVIOUS
  <2> HIDE DEF none, r
  <2> QED
    BY <1>1, <1>2, <1>3, <2>1, <2>2 DEF TokenLoops
<1>5. PICK F : TokensComputed(F, S, s, C)
  BY <1>4, TokensRowExists
<1>6. /\ F \in [0..n -> TokenLoops(S, s, C)] /\ F[0] = TokensStart(s, C)
      /\ \A i \in 1..n : F[i] = TokensNext(s, C, F[i - 1])
  BY <1>5 DEF TokensComputed, TokensRow
<1> DEFINE Good == {k \in 0..n : TokensKept(s, C, F[k])}
<1>7. 0 \in Good
  <2>1. F[0].prev = 1 /\ F[0].result = none
    BY <1>2, <1>6
  <2>2. FlattenSeq(none) = none
    BY FlattenEmpty
  <2>3. SubSeq(s, 1, 0) = none
    BY SubSeqEmpty
  <2> HIDE DEF none
  <2>4. 1 - 1 = 0
    OBVIOUS
  <2>5. TokensKept(s, C, F[0])
    BY <2>1, <2>2, <2>3, <2>4 DEF TokensKept
  <2> QED
    BY <1>1, <2>5
<1>8. ASSUME NEW k \in 0..(n - 1), k \in Good
      PROVE  k + 1 \in Good
  <2>1. k + 1 \in 1..n /\ k + 1 \in 0..n /\ (k + 1) - 1 = k /\ k \in 0..n
    BY <1>1
  <2>2. F[k] \in TokenLoops(S, s, C) /\ TokensKept(s, C, F[k])
    BY <1>6, <1>8, <2>1
  <2>3. F[k + 1] = TokensNext(s, C, F[k])
    BY <1>6, <2>1
  <2>4. TokensKept(s, C, TokensNext(s, C, F[k]))
    BY <2>2, TokensKeep
  <2> QED
    BY <2>1, <2>3, <2>4
<1> HIDE DEF Good
<1>9. TokensKept(s, C, F[n]) /\ F[n] \in TokenLoops(S, s, C)
  <2>1. \A k \in 0..n : k \in Good
    BY <1>1, <1>7, <1>8, UpTo
  <2> QED
    BY <1>1, <1>6, <2>1 DEF Good
<1> DEFINE done == F[n]
           list == done.result
           rest == SubSeq(s, done.prev, n)
<1>10. list \in Seq(Seq(S)) /\ done.prev \in 1..(n + 1) /\ done.prev \in Nat /\ done.prev >= 1
  BY <1>1, <1>9, TokenLoop
<1>11. tokenize(s, C) = IF done.prev <= n THEN Append(list, rest) ELSE list
  BY <1>5, TokenizeIs, OnwardIs DEF TokensComputed, TokensDone
<1>12. Less(FlattenSeq(list), C) = Less(SubSeq(s, 1, done.prev - 1), C)
  BY <1>9 DEF TokensKept
<1>13. SubSeq(s, 1, n) = s
  BY SubSeqFull
<1>14. CASE done.prev <= n
  <2>1. done.prev - 1 \in (1 - 1)..n /\ n \in (done.prev - 1)..n /\ (done.prev - 1) + 1 = done.prev
    BY <1>1, <1>10, <1>14
  <2>2. /\ SubSeq(s, (done.prev - 1) + 1, n) \in Seq(S)
        /\ Less(SubSeq(s, 1, n), C) = Less(SubSeq(s, 1, done.prev - 1), C) \o Less(SubSeq(s, (done.prev - 1) + 1, n), C)
    BY <1>1, <2>1, LessParts
  <2>3. rest \in Seq(S)
    BY <2>1, <2>2
  <2> HIDE DEF list, done, n
  <2>4. Less(FlattenSeq(Append(list, rest)), C) = Less(FlattenSeq(list), C) \o Less(rest, C)
    BY <1>10, <2>3, LessFlatten
  <2> QED
    BY <1>11, <1>12, <1>13, <1>14, <2>1, <2>2, <2>4
<1>15. CASE ~(done.prev <= n)
  <2>1. done.prev - 1 = n
    BY <1>1, <1>10, <1>15
  <2> QED
    BY <1>11, <1>12, <1>13, <1>15, <2>1
<1> QED
  BY <1>14, <1>15

-----------------------------------------------------------------------------
(* tokenize behind a delimiter: the loop of a text and that of its rest    *)

\* t is what follows the first o characters of s.
After(S, s, o, t) ==
    /\ s \in Seq(S) /\ t \in Seq(S) /\ o \in Nat
    /\ Len(s) = Len(t) + o
    /\ \A i \in 1..Len(t) : s[i + o] = t[i]

\* The searches, the quotes and the parts of a text are those of what
\* follows, further on.
LEMMA FirstShifts ==
    ASSUME NEW S, NEW s, NEW o, NEW t, After(S, s, o, t), NEW C, NEW i, i \in 1..(Len(t) + 1),
           NEW from, from = i + o
    PROVE  find_first_of(s, C, from) = find_first_of(t, C, i) + o
<1> DEFINE m == Len(t)
           n == Len(s)
           r == find_first_of(t, C, i)
<1>1. m \in Nat /\ o \in Nat /\ n = m + o /\ s \in Seq(S) /\ t \in Seq(S) /\ \A j \in 1..m : s[j + o] = t[j]
  BY LenProperties DEF After
<1>2. FirstAt(t, C, i, r)
  BY <1>1, FindsFirst
<1> HIDE DEF r
<1>3. r \in i..(m + 1) /\ (r # m + 1 => t[r] \in C) /\ \A j \in i..(r - 1) : t[j] \notin C
  BY <1>2 DEF FirstAt
<1> HIDE DEF m, n
<1>4. r + o \in (i + o)..(n + 1) /\ i + o \in 1..(n + 1) /\ (r + o # n + 1 => r \in 1..m /\ r # m + 1)
  <2>1. r \in i..(m + 1) /\ i \in 1..(m + 1) /\ m \in Nat /\ o \in Nat /\ n = m + o
    BY <1>1, <1>3 DEF m
  <2> QED
    BY <2>1
<1>5. r + o # n + 1 => s[r + o] \in C
  BY <1>1, <1>3, <1>4
<1>6. ASSUME NEW j \in (i + o)..((r + o) - 1)
      PROVE  s[j] \notin C
  <2>1. j - o \in i..(r - 1) /\ j - o \in 1..m /\ (j - o) + o = j
    BY <1>1, <1>3 DEF m
  <2> QED
    BY <1>1, <1>3, <2>1
<1>7. FirstAt(s, C, i + o, r + o)
  BY <1>4, <1>5, <1>6 DEF FirstAt, n
<1> DEFINE p == find_first_of(s, C, from)
<1>8. from \in 1..(Len(s) + 1)
  BY <1>4 DEF n
<1>9. FirstAt(s, C, from, p)
  BY <1>1, <1>8, FindsFirst
<1> HIDE DEF p
<1> DEFINE q == r + o
<1>10. FirstAt(s, C, from, q)
  BY <1>7
<1> HIDE DEF q
<1>11. p = q
  BY <1>1, <1>8, <1>9, <1>10, FirstUnique
<1> QED
  BY <1>11 DEF p, q, r

LEMMA NotShifts ==
    ASSUME NEW S, NEW s, NEW o, NEW t, After(S, s, o, t), NEW C, NEW i, i \in 1..(Len(t) + 1),
           NEW from, from = i + o
    PROVE  find_first_not_of(s, C, from) = find_first_not_of(t, C, i) + o
<1> DEFINE m == Len(t)
           n == Len(s)
           r == find_first_not_of(t, C, i)
<1>1. m \in Nat /\ o \in Nat /\ n = m + o /\ s \in Seq(S) /\ t \in Seq(S) /\ \A j \in 1..m : s[j + o] = t[j]
  BY LenProperties DEF After
<1>2. FirstNotAt(t, C, i, r)
  BY <1>1, FindsFirstNot
<1> HIDE DEF r
<1>3. r \in i..(m + 1) /\ (r # m + 1 => t[r] \notin C) /\ \A j \in i..(r - 1) : t[j] \in C
  BY <1>2 DEF FirstNotAt
<1> HIDE DEF m, n
<1>4. r + o \in (i + o)..(n + 1) /\ i + o \in 1..(n + 1) /\ (r + o # n + 1 => r \in 1..m /\ r # m + 1)
  <2>1. r \in i..(m + 1) /\ i \in 1..(m + 1) /\ m \in Nat /\ o \in Nat /\ n = m + o
    BY <1>1, <1>3 DEF m
  <2> QED
    BY <2>1
<1>5. r + o # n + 1 => s[r + o] \notin C
  BY <1>1, <1>3, <1>4
<1>6. ASSUME NEW j \in (i + o)..((r + o) - 1)
      PROVE  s[j] \in C
  <2>1. j - o \in i..(r - 1) /\ j - o \in 1..m /\ (j - o) + o = j
    BY <1>1, <1>3 DEF m
  <2> QED
    BY <1>1, <1>3, <2>1
<1>7. FirstNotAt(s, C, i + o, r + o)
  BY <1>4, <1>5, <1>6 DEF FirstNotAt, n
<1> DEFINE p == find_first_not_of(s, C, from)
<1>8. from \in 1..(Len(s) + 1)
  BY <1>4 DEF n
<1>9. FirstNotAt(s, C, from, p)
  BY <1>1, <1>8, FindsFirstNot
<1> HIDE DEF p
<1> DEFINE q == r + o
<1>10. FirstNotAt(s, C, from, q)
  BY <1>7
<1> HIDE DEF q
<1>11. p = q
  BY <1>1, <1>8, <1>9, <1>10, FirstNotUnique
<1> QED
  BY <1>11 DEF p, q, r

LEMMA QuoteShifts ==
    ASSUME NEW S, NEW s, NEW o, NEW t, After(S, s, o, t), NEW i, i \in 1..Len(t),
           NEW from, from = i + o
    PROVE  /\ QuoteEnds(s, from) = IF QuoteEnds(t, i) = 0 THEN 0 ELSE QuoteEnds(t, i) + o
           /\ QuoteEnds(t, i) \in {0} \cup (i + 1)..Len(t)
<1> DEFINE m == Len(t)
           C == {Pairs[PairOf(t[i]) + 2]}
           r == find_first_of(t, C, i + 1)
<1>1. m \in Nat /\ o \in Nat /\ Len(s) = m + o /\ t \in Seq(S) /\ s[i + o] = t[i]
  BY LenProperties DEF After
<1>2. i + 1 \in 1..(m + 1) /\ (i + 1) + o = (i + o) + 1 /\ i \in Nat
  BY <1>1
<1>3. QuoteEnds(t, i) = IF ~Opens(t[i]) \/ r = m + 1 THEN 0 ELSE r
  BY DEF QuoteEnds, Npos
<1>4. QuoteEnds(s, from) = IF ~Opens(t[i]) \/ find_first_of(s, C, (i + o) + 1) = (m + o) + 1
                            THEN 0 ELSE find_first_of(s, C, (i + o) + 1)
  BY <1>1 DEF QuoteEnds, Npos
<1> HIDE DEF C
<1>5. find_first_of(s, C, (i + 1) + o) = r + o
  <2> DEFINE j == i + 1
             far == j + o
  <2>1. j \in 1..(Len(t) + 1) /\ far = j + o
    BY <1>2
  <2> HIDE DEF j, far
  <2>2. find_first_of(s, C, far) = find_first_of(t, C, j) + o
    BY <2>1, FirstShifts
  <2> QED
    BY <2>2 DEF j, far
<1>6. QuoteEnds(t, i) \in {0} \cup (i + 1)..m
  BY <1>1, QuoteWhere
<1>7. FirstAt(t, C, i + 1, r)
  BY <1>1, <1>2, FindsFirst
<1> HIDE DEF r
<1>8. r \in (i + 1)..(m + 1)
  BY <1>7 DEF FirstAt
<1> HIDE DEF m
<1>9. r \in Nat /\ r # 0 /\ (r + o = (m + o) + 1 <=> r = m + 1)
  BY <1>1, <1>2, <1>8
<1> QED
  BY <1>2, <1>3, <1>4, <1>5, <1>6, <1>9 DEF m

\* A part of one text is a part of the other.
SamePart(s, from, to, t, a, b) == SubSeq(s, from, to) = SubSeq(t, a, b)

LEMMA PartShifts ==
    ASSUME NEW S, NEW s, NEW o, NEW t, After(S, s, o, t), NEW a \in Nat \ {0}, NEW b \in Int, b <= Len(t),
           NEW from, from = a + o, NEW to, to = b + o
    PROVE  SamePart(s, from, to, t, a, b)
<1> DEFINE m == Len(t)
           p == SubSeq(s, from, to)
           q == SubSeq(t, a, b)
<1>1. m \in Nat /\ o \in Nat /\ Len(s) = m + o /\ s \in Seq(S) /\ t \in Seq(S) /\ \A j \in 1..m : s[j + o] = t[j]
  BY LenProperties DEF After
<1>2. from \in Nat /\ from >= 1 /\ to \in Int /\ to <= Len(s) /\ to - from + 1 = b - a + 1 /\ (from <= to <=> a <= b)
      /\ a \in Nat /\ a >= 1
  BY <1>1
<1>3. /\ q \in Seq(S)
      /\ Len(q) = IF a <= b THEN b - a + 1 ELSE 0
      /\ \A i \in 1..(b - a + 1) : q[i] = t[a + i - 1]
  BY <1>1, <1>2, PartOf
<1> HIDE DEF q
<1>4. /\ p \in Seq(S)
      /\ Len(p) = IF from <= to THEN to - from + 1 ELSE 0
      /\ \A i \in 1..(to - from + 1) : p[i] = s[from + i - 1]
  BY <1>1, <1>2, PartOf
<1> HIDE DEF p
<1>5. Len(p) = Len(q)
  BY <1>2, <1>3, <1>4
<1>6. ASSUME NEW i \in 1..Len(p)
      PROVE  p[i] = q[i]
  <2>1. i \in 1..(b - a + 1)
    BY <1>2, <1>4
  <2>2. p[i] = s[from + i - 1] /\ q[i] = t[a + i - 1]
    BY <1>2, <1>3, <1>4, <2>1
  <2>3. a + i - 1 \in 1..m /\ from + i - 1 = (a + i - 1) + o
    BY <1>1, <2>1
  <2> QED
    BY <1>1, <2>2, <2>3
<1>7. p = q
  BY <1>3, <1>4, <1>5, <1>6, SeqEqual
<1> QED
  BY <1>7 DEF p, q, SamePart

Shifted(loop, o, w) ==
    [prev |-> loop.prev + o, current |-> loop.current + o, result |-> <<w>> \o loop.result]

\* A turn does the same further on in the text, after one more token.
LEMMA TokensShift ==
    ASSUME NEW S, NEW s, NEW o, NEW t, After(S, s, o, t), NEW C, NEW w \in Seq(S),
           NEW loop \in TokenLoops(S, t, C)
    PROVE  TokensNext(s, C, Shifted(loop, o, w)) = Shifted(TokensNext(t, C, loop), o, w)
<1> DEFINE m == Len(t)
           n == Len(s)
           far == Shifted(loop, o, w)
           prev == loop.prev
           list == loop.result
           one == <<w>>
<1>1. /\ m \in Nat /\ o \in Nat /\ n = m + o /\ s \in Seq(S) /\ t \in Seq(S)
      /\ prev \in 1..(m + 1) /\ loop.current \in prev..(m + 1) /\ list \in Seq(Seq(S))
      /\ loop.current # m + 1 => prev \in 1..m /\ loop.current \in prev..m
  <2>1. t \in Seq(S) /\ s \in Seq(S) /\ o \in Nat /\ n = m + o
    BY DEF After
  <2> QED
    BY <2>1, TokenLoop, LenProperties
<1>2. far.prev = prev + o /\ far.current = loop.current + o /\ far.result = one \o list
  BY DEF Shifted
<1>3. CASE loop.current = m + 1
  <2>1. far.current = n + 1
    BY <1>1, <1>2, <1>3
  <2> QED
    BY <1>3, <2>1 DEF TokensNext
<1>4. CASE loop.current # m + 1
  <2> DEFINE quote == QuoteEnds(t, prev)
             end == TokenEnd(t, loop)
             last == IF quote # 0 THEN end ELSE end - 1
             token == Token(t, loop)
             next == NextToken(t, C, loop)
             after == end + 1
  <2>1. prev \in 1..m /\ loop.current \in prev..m /\ far.current # n + 1
    BY <1>1, <1>2, <1>4
  <2>2. far.prev \in 1..n /\ far.current \in far.prev..n
    <3> DEFINE current == loop.current
    <3>1. /\ far.prev = prev + o /\ far.current = current + o /\ n = m + o /\ o \in Nat /\ m \in Nat
          /\ prev \in 1..m /\ current \in prev..m
      BY <1>1, <1>2, <2>1
    <3> HIDE DEF prev, current, n, m
    <3>2. prev + o \in 1..n /\ current + o \in (prev + o)..n
      BY <3>1
    <3> QED
      BY <3>1, <3>2
  <2>3. TokensTurned(S, t, C, loop)
    BY <1>1, <2>1, TokensTurn
  <2>4. TokensTurned(S, s, C, far)
    <3> HIDE DEF far
    <3> QED
      BY <1>1, <2>2, TokensTurn
  <2>5. /\ end \in prev..m /\ token \in Seq(S) /\ next \in (end + 1)..(m + 1)
        /\ TokensNext(t, C, loop) = [prev |-> next, current |-> find_first_of(t, C, next), result |-> Append(list, token)]
    BY <1>4, <2>3 DEF TokensTurned, TokensNext
  <2>6. TokensNext(s, C, far) =
          [prev |-> NextToken(s, C, far), current |-> find_first_of(s, C, NextToken(s, C, far)),
           result |-> Append(far.result, Token(s, far))]
    BY <2>1, <2>4 DEF TokensTurned, TokensNext
  <2>7. QuoteEnds(s, prev + o) = (IF quote = 0 THEN 0 ELSE quote + o) /\ quote \in {0} \cup (prev + 1)..m
    <3> DEFINE from == prev + o
    <3>1. from = prev + o /\ prev \in 1..Len(t)
      BY <2>1
    <3> HIDE DEF from, prev
    <3> QED
      BY <3>1, QuoteShifts DEF from
  <2>8. QuoteEnds(s, far.prev) = 0 <=> quote = 0
    BY <1>1, <1>2, <2>7
  <2>9. TokenEnd(s, far) = end + o
    BY <1>2, <2>7, <2>8 DEF TokenEnd
  <2>10. token = SubSeq(t, prev, last)
    BY DEF Token
  <2>11. Token(s, far) = token
    <3>1. Token(s, far) = SubSeq(s, prev + o, IF quote # 0 THEN end + o ELSE (end + o) - 1)
      BY <1>2, <2>8, <2>9 DEF Token
    <3> HIDE DEF far, token, end, quote, prev, m
    <3>2. (IF quote # 0 THEN end + o ELSE (end + o) - 1) = last + o /\ last \in Int /\ last <= m /\ prev \in Nat \ {0}
      BY <1>1, <2>1, <2>5
    <3> HIDE DEF last
    <3>3. SubSeq(s, prev + o, last + o) = SubSeq(t, prev, last)
      <4> DEFINE from == prev + o
                 to == last + o
      <4>1. from = prev + o /\ to = last + o /\ last <= Len(t) /\ last \in Int /\ prev \in Nat \ {0}
        BY <3>2 DEF m
      <4> HIDE DEF from, to
      <4>2. SamePart(s, from, to, t, prev, last)
        BY <4>1, PartShifts
      <4> QED
        BY <4>2 DEF from, to, SamePart
    <3> QED
      BY <2>10, <3>1, <3>2, <3>3
  <2> HIDE DEF last, token
  <2>12. find_first_not_of(s, C, after + o) = find_first_not_of(t, C, after) + o
    <3> DEFINE from == after + o
    <3>1. after \in 1..(Len(t) + 1) /\ from = after + o
      BY <1>1, <2>5
    <3> HIDE DEF after, from
    <3>2. find_first_not_of(s, C, from) = find_first_not_of(t, C, after) + o
      BY <3>1, NotShifts
    <3> QED
      BY <3>2 DEF from
  <2>13. NextToken(s, C, far) = next + o
    <3>1. FirstNotAt(t, C, after, find_first_not_of(t, C, after))
      <4>1. after \in 1..(Len(t) + 1)
        BY <1>1, <2>5
      <4> HIDE DEF after
      <4> QED
        BY <1>1, <4>1, FindsFirstNot
    <3> DEFINE r == find_first_not_of(t, C, after)
    <3>2. r \in after..(m + 1)
      BY <3>1 DEF FirstNotAt
    <3>3. next = IF r = m + 1 THEN end + 1 ELSE r
      BY DEF NextToken
    <3>4. after + o = TokenEnd(s, far) + 1
      BY <1>1, <2>5, <2>9
    <3>5. NextToken(s, C, far) = IF r + o = n + 1 THEN after + o ELSE r + o
      BY <2>12, <3>4 DEF NextToken
    <3> HIDE DEF r, next, far, end, m, n
    <3>6. r \in Int /\ (r + o = n + 1 <=> r = m + 1) /\ after + o = (end + 1) + o
      BY <1>1, <2>5, <3>2
    <3> QED
      BY <3>3, <3>5, <3>6
  <2> HIDE DEF next, far
  <2>14. find_first_of(s, C, next + o) = find_first_of(t, C, next) + o
    <3> DEFINE from == next + o
    <3>1. next \in 1..(Len(t) + 1) /\ from = next + o
      BY <1>1, <2>5
    <3> HIDE DEF from
    <3>2. find_first_of(s, C, from) = find_first_of(t, C, next) + o
      BY <3>1, FirstShifts
    <3> QED
      BY <3>2 DEF from
  <2>15. Append(one \o list, token) = one \o Append(list, token)
    <3>1. one \in Seq(Seq(S))
      OBVIOUS
    <3> DEFINE T == Seq(S)
    <3>2. token \in T /\ list \in Seq(T) /\ one \in Seq(T)
      BY <1>1, <2>5, <3>1
    <3> HIDE DEF one, list, T
    <3>3. one \o Append(list, token) = Append(one \o list, token)
      BY <3>2, ConcatAppend
    <3> QED
      BY <3>3
  <2> HIDE DEF one, list
  <2>16. TokensNext(s, C, far) =
          [prev |-> next + o, current |-> find_first_of(t, C, next) + o, result |-> one \o Append(list, token)]
    BY <1>2, <2>6, <2>11, <2>13, <2>14, <2>15
  <2> QED
    BY <2>5, <2>16 DEF Shifted, far, one
<1> QED
  BY <1>3, <1>4

LEMMA StartsTyped ==
    ASSUME NEW S, NEW s \in Seq(S), NEW C, find_first_not_of(s, C, 1) = 1
    PROVE  /\ TokensStart(s, C) = [prev |-> 1, current |-> find_first_of(s, C, 1), result |-> <<>>]
           /\ TokensStart(s, C) \in TokenLoops(S, s, C)
<1> DEFINE n == Len(s)
           r == find_first_of(s, C, 1)
           none == <<>>
<1>1. n \in Nat /\ n \in 0..n /\ 1 \in 1..(n + 1)
  BY LenProperties
<1>2. TokensStart(s, C) = [prev |-> 1, current |-> r, result |-> none]
  BY DEF TokensStart
<1>3. r \in 1..(n + 1)
  BY <1>1, FindsFirst DEF FirstAt
<1>4. TokensStart(s, C) \in TokenLoops(S, s, C)
  <2>1. none \in Seq(Seq(S))
    BY EmptySeq
  <2>2. r = find_first_of(s, C, 1)
    OBVIOUS
  <2> HIDE DEF none, r
  <2> QED
    BY <1>1, <1>2, <1>3, <2>1, <2>2 DEF TokenLoops
<1> QED
  BY <1>2, <1>4

\* The loop has no turn left for the last place of a text.
LEMMA TokensEnd ==
    ASSUME NEW S, NEW t \in Seq(S), NEW C, NEW F, TokensComputed(F, S, t, C)
    PROVE  F[Len(t)].current = Len(t) + 1
<1> DEFINE m == Len(t)
           Good == {k \in 0..m : F[k].current = m + 1 \/ F[k].prev > k}
<1>1. m \in Nat /\ 0 \in 0..m /\ m \in 0..m
  BY LenProperties
<1>2. F \in [0..m -> TokenLoops(S, t, C)] /\ \A i \in 1..m : F[i] = TokensNext(t, C, F[i - 1])
  BY DEF TokensComputed, TokensRow
<1>3. 0 \in Good
  <2>1. F[0].prev \in 1..(m + 1)
    BY <1>1, <1>2, TokenLoop
  <2>2. F[0].prev > 0
    BY <1>1, <2>1
  <2> QED
    BY <1>1, <2>2
<1>4. ASSUME NEW k \in 0..(m - 1), k \in Good
      PROVE  k + 1 \in Good
  <2> DEFINE loop == F[k]
             next == F[k + 1]
  <2>1. k + 1 \in 1..m /\ k + 1 \in 0..m /\ (k + 1) - 1 = k /\ k \in 0..m
    BY <1>1
  <2>2. loop \in TokenLoops(S, t, C) /\ next = TokensNext(t, C, loop)
    BY <1>2, <2>1
  <2>3. loop.current = m + 1 \/ loop.prev > k
    BY <1>4
  <2> HIDE DEF loop, next
  <2>4. loop.current = m + 1 => next = loop
    BY <2>2 DEF TokensNext
  <2>5. loop.current # m + 1 => next.prev > loop.prev
    BY <2>2, TokensTyped
  <2>6. next \in TokenLoops(S, t, C)
    BY <2>2, TokensTyped
  <2>7. loop.prev \in 1..(m + 1) /\ next.prev \in 1..(m + 1)
    <3>1. loop.prev \in 1..(m + 1)
      BY <2>2, TokenLoop
    <3>2. next.prev \in 1..(m + 1)
      BY <2>6, TokenLoop
    <3> QED
      BY <3>1, <3>2
  <2>8. next.current = m + 1 \/ next.prev > k + 1
    <3>1. CASE loop.current = m + 1
      BY <2>4, <3>1
    <3>2. CASE loop.current # m + 1
      <4>1. loop.prev > k /\ next.prev > loop.prev
        BY <2>3, <2>5, <3>2
      <4>2. loop.prev \in Int /\ next.prev \in Int
        BY <1>1, <2>7
      <4> QED
        BY <2>1, <4>1, <4>2
    <3> QED
      BY <3>1, <3>2
  <2> QED
    BY <2>1, <2>8 DEF next
<1> HIDE DEF Good
<1>5. F[m].current = m + 1 \/ F[m].prev > m
  <2>1. \A k \in 0..m : k \in Good
    BY <1>1, <1>3, <1>4, UpTo
  <2> QED
    BY <1>1, <2>1 DEF Good
<1>6. F[m] \in TokenLoops(S, t, C)
  BY <1>1, <1>2
<1> DEFINE done == F[m]
<1>7. done \in TokenLoops(S, t, C) /\ (done.current = m + 1 \/ done.prev > m)
  BY <1>5, <1>6
<1> HIDE DEF done
<1>8. done.prev \in 1..(m + 1) /\ done.current \in done.prev..(m + 1)
  BY <1>7, TokenLoop
<1> HIDE DEF m
<1>9. done.current = m + 1
  BY <1>1, <1>7, <1>8
<1> QED
  BY <1>9 DEF done, m

LEMMA AfterIs ==
    ASSUME NEW S, NEW s \in Seq(S), NEW f \in 1..Len(s), NEW t, t = SubSeq(s, f, Len(s)), NEW o, o = f - 1
    PROVE  After(S, s, o, t) /\ Len(t) = Len(s) - o
<1> DEFINE n == Len(s)
<1>1. n \in Nat /\ f \in Nat /\ f >= 1 /\ n \in Int /\ n <= n /\ f <= n
  BY LenProperties
<1>2. /\ t \in Seq(S)
      /\ Len(t) = IF f <= n THEN n - f + 1 ELSE 0
      /\ \A i \in 1..(n - f + 1) : t[i] = s[f + i - 1]
  BY <1>1, PartOf
<1> HIDE DEF n
<1>3. Len(t) = n - o /\ n - f + 1 = n - o /\ o \in Nat
  BY <1>1, <1>2
<1>4. \A i \in 1..Len(t) : s[i + o] = t[i]
  <2>1. \A i \in 1..Len(t) : i + o = f + i - 1 /\ i \in 1..(n - f + 1)
    BY <1>1, <1>3
  <2> QED
    BY <1>2, <2>1
<1>5. n = Len(t) + o
  BY <1>1, <1>3
<1> QED
  BY <1>2, <1>3, <1>4, <1>5 DEF After, n

\* A delimiter in front of a first token that is not quoted: the first turn
\* takes the rest of the text, and starts again at its first character.
Restarts(s, C, f, t, o) ==
    /\ f \in 2..Len(s) /\ f = find_first_not_of(s, C, 1)
    /\ t = SubSeq(s, f, Len(s)) /\ QuoteEnds(t, 1) = 0
    /\ o = f - 1

LEMMA TokensRestart ==
    ASSUME NEW S, NEW s \in Seq(S), NEW C, NEW f, NEW t, NEW o, Restarts(s, C, f, t, o)
    PROVE  /\ find_first_not_of(t, C, 1) = 1
           /\ TokensNext(s, C, TokensStart(s, C)) = Shifted(TokensStart(t, C), o, t)
<1> DEFINE n == Len(s)
           m == Len(t)
<1>1. n \in Nat /\ f \in 1..n /\ f \in Nat /\ 1 \in 1..(n + 1) /\ 2 \in 1..(n + 1) /\ f \in 1..(n + 1)
      /\ 1 < f /\ f # n + 1 /\ 1 \in Nat /\ 1 # n + 1
  <2>1. n \in Nat /\ f \in 2..n
    BY LenProperties DEF Restarts
  <2> QED
    BY <2>1
<1>2. After(S, s, o, t) /\ m = n - o
  BY <1>1, AfterIs DEF Restarts
<1>3. m \in Nat /\ t \in Seq(S) /\ o \in Nat /\ 1 + o = f /\ 1 \in 1..m /\ 1 \in 1..(m + 1) /\ m >= 1
  <2>1. o \in Nat /\ t \in Seq(S) /\ m \in Nat
    BY <1>2, LenProperties DEF After
  <2>2. o + 1 = f /\ f <= n /\ n \in Nat /\ f \in Nat /\ m = n - o
    BY <1>1, <1>2 DEF Restarts
  <2> HIDE DEF n, m
  <2> QED
    BY <2>1, <2>2
<1>4. FirstNotAt(s, C, 1, f)
  BY <1>1, FindsFirstNot DEF Restarts
<1>5. s[f] \notin C /\ \A i \in 1..(f - 1) : s[i] \in C
  BY <1>1, <1>4 DEF FirstNotAt
<1> DEFINE r == find_first_of(s, C, 1)
           p == find_first_not_of(s, C, f)
           q == find_first_not_of(s, C, 2)
<1>6. FirstAt(s, C, 1, r) /\ FirstNotAt(s, C, f, p) /\ FirstNotAt(s, C, 2, q)
  BY <1>1, FindsFirst, FindsFirstNot
<1> HIDE DEF r, p, q, n, m
<1>7. r = 1
  <2>1. 1 \in 1..(f - 1)
    BY <1>1
  <2>2. s[1] \in C
    BY <1>5, <2>1
  <2>3. r \in 1..(n + 1) /\ \A i \in 1..(r - 1) : s[i] \notin C
    BY <1>6 DEF FirstAt, n
  <2>4. r # 1 => 1 \in 1..(r - 1)
    BY <1>1, <2>3
  <2> QED
    BY <2>2, <2>3, <2>4
<1>8. p = f
  <2>1. p \in f..(n + 1) /\ \A i \in f..(p - 1) : s[i] \in C
    BY <1>6 DEF FirstNotAt, n
  <2>2. p # f => f \in f..(p - 1)
    BY <1>1, <2>1
  <2> QED
    BY <1>5, <2>1, <2>2
<1>9. q = f
  <2>1. q \in 2..(n + 1) /\ (\A i \in 2..(q - 1) : s[i] \in C) /\ (q # n + 1 => s[q] \notin C)
    BY <1>6 DEF FirstNotAt, n
  <2>2. q > f => f \in 2..(q - 1)
    BY <1>1, <2>1
  <2>3. q < f => q \in 1..(f - 1) /\ q # n + 1
    BY <1>1, <2>1
  <2>4. ~(q > f) /\ ~(q < f)
    BY <1>5, <2>1, <2>2, <2>3
  <2> QED
    BY <1>1, <2>1, <2>4
<1>10. find_first_not_of(t, C, 1) = 1
  <2> DEFINE from == 1
             x == find_first_not_of(t, C, from)
  <2>1. from \in 1..(Len(t) + 1) /\ from + o = f
    BY <1>3 DEF m
  <2>2. FirstNotAt(t, C, from, x)
    BY <1>3, <2>1, FindsFirstNot
  <2> HIDE DEF from
  <2>3. find_first_not_of(s, C, f) = x + o
    BY <1>2, <2>1, NotShifts
  <2> HIDE DEF x
  <2>4. x \in from..(m + 1)
    BY <2>2 DEF FirstNotAt, m
  <2>5. x + o = f
    BY <1>8, <2>3 DEF p
  <2>6. x = 1
    BY <1>3, <2>4, <2>5 DEF from
  <2> QED
    BY <2>6 DEF x, from
<1> DEFINE none == <<>>
           one == <<t>>
           c == find_first_of(t, C, 1)
<1>11. TokensStart(s, C) = [prev |-> f, current |-> 1, result |-> none]
  BY <1>1, <1>7 DEF TokensStart, Npos, r, n, Restarts
<1>12. TokensStart(t, C) = [prev |-> 1, current |-> c, result |-> none]
  BY <1>3, <1>10, StartsTyped
<1>13. QuoteEnds(s, f) = 0
  <2> DEFINE from == 1
  <2>1. from \in 1..Len(t) /\ f = from + o /\ QuoteEnds(t, from) = 0
    BY <1>3 DEF m, Restarts
  <2> HIDE DEF from
  <2>2. QuoteEnds(s, f) = IF QuoteEnds(t, from) = 0 THEN 0 ELSE QuoteEnds(t, from) + o
    BY <1>2, <2>1, QuoteShifts
  <2> QED
    BY <2>1, <2>2
<1>14. find_first_of(s, C, f) = c + o
  <2> DEFINE from == 1
  <2>1. from \in 1..(Len(t) + 1) /\ f = from + o
    BY <1>3 DEF m
  <2> HIDE DEF from
  <2>2. find_first_of(s, C, f) = find_first_of(t, C, from) + o
    BY <1>2, <2>1, FirstShifts
  <2> QED
    BY <2>2 DEF from
<1>15. Append(none, t) = one /\ one \o none = one
  <2>1. one \in Seq(Seq(S)) /\ none \in Seq(Seq(S))
    BY <1>3
  <2>2. one \o none = one
    <3> HIDE DEF one
    <3> QED
      BY <2>1, ConcatEmptySeq
  <2> QED
    BY <1>3, <2>2
<1>16. Onward(s, f) = t
  BY OnwardIs DEF Restarts
<1> HIDE DEF none, one, c
<1>17. TokensNext(s, C, TokensStart(s, C)) = [prev |-> f, current |-> c + o, result |-> one]
  <2> DEFINE loop == [prev |-> f, current |-> 1, result |-> none]
  <2>1. loop.prev = f /\ loop.current = 1 /\ loop.result = none
    OBVIOUS
  <2> HIDE DEF loop
  <2>2. find_first_not_of(s, C, 1 + 1) = f
    BY <1>9 DEF q
  <2>3. TokensStep(s, C, loop) = [prev |-> f, current |-> c + o, result |-> one]
    BY <1>1, <1>13, <1>14, <1>15, <1>16, <2>1, <2>2 DEF TokensStep, Npos, n
  <2>4. TokensNext(s, C, loop) = TokensStep(s, C, loop)
    BY <1>1, <2>1 DEF TokensNext, n
  <2> QED
    BY <1>11, <2>3, <2>4 DEF loop
<1>18. Shifted(TokensStart(t, C), o, t) = [prev |-> f, current |-> c + o, result |-> one]
  <2> DEFINE loop == TokensStart(t, C)
  <2>1. loop.prev = 1 /\ loop.current = c /\ loop.result = none
    BY <1>12
  <2> HIDE DEF loop
  <2>2. Shifted(loop, o, t) = [prev |-> 1 + o, current |-> c + o, result |-> one \o none]
    BY <2>1 DEF Shifted, one
  <2> QED
    BY <1>3, <1>15, <2>2 DEF loop
<1> QED
  BY <1>10, <1>17, <1>18

\* What is done further on, after one more token.
LEMMA DoneShifts ==
    ASSUME NEW S, NEW s, NEW o, NEW t, After(S, s, o, t), NEW C, NEW w \in Seq(S),
           NEW loop \in TokenLoops(S, t, C)
    PROVE  TokensDone(s, Shifted(loop, o, w)) = <<w>> \o TokensDone(t, loop)
<1> DEFINE m == Len(t)
           n == Len(s)
           far == Shifted(loop, o, w)
           prev == loop.prev
           from == prev + o
           list == loop.result
           one == <<w>>
           rest == SubSeq(t, prev, m)
<1>1. m \in Nat /\ o \in Nat /\ n = m + o /\ s \in Seq(S) /\ t \in Seq(S)
      /\ prev \in 1..(m + 1) /\ list \in Seq(Seq(S))
  <2>1. t \in Seq(S) /\ s \in Seq(S) /\ o \in Nat /\ n = m + o
    BY DEF After
  <2> QED
    BY <2>1, TokenLoop, LenProperties
<1>2. far.prev = from /\ far.result = one \o list
  BY DEF Shifted
<1>3. (from <= n <=> prev <= m) /\ prev \in Nat \ {0} /\ m \in Int /\ m <= Len(t) /\ from = prev + o /\ n = m + o /\ prev >= 1
  BY <1>1
<1>4. rest \in Seq(S)
  BY <1>1, <1>3, PartOf
<1>5. Onward(s, from) = rest
  <2>1. Onward(s, from) = SubSeq(s, from, n)
    BY <1>1, OnwardIs
  <2> HIDE DEF from, n, m, prev
  <2>2. SamePart(s, from, n, t, prev, m)
    BY <1>3, PartShifts
  <2> QED
    BY <2>1, <2>2 DEF SamePart
<1>6. Onward(t, prev) = rest
  BY <1>1, OnwardIs
<1>7. one \o Append(list, rest) = Append(one \o list, rest)
  <2> DEFINE T == Seq(S)
  <2>1. rest \in T /\ list \in Seq(T) /\ one \in Seq(T)
    BY <1>1, <1>4
  <2> HIDE DEF one, list, T, rest
  <2> QED
    BY <2>1, ConcatAppend
<1>8. TokensDone(s, far) = IF from <= n THEN Append(one \o list, rest) ELSE one \o list
  BY <1>2, <1>5 DEF TokensDone
<1>9. TokensDone(t, loop) = IF prev <= m THEN Append(list, rest) ELSE list
  BY <1>6 DEF TokensDone
<1> HIDE DEF far, from, prev, rest, list, one, m, n
<1>10. TokensDone(s, far) = one \o TokensDone(t, loop)
  BY <1>3, <1>7, <1>8, <1>9
<1> QED
  BY <1>10 DEF far, one

\* Then the tokens are those of the rest of the text, behind the rest itself.
LEMMA TokensAgain ==
    ASSUME NEW S, NEW s \in Seq(S), NEW C, NEW f, NEW t, NEW o, Restarts(s, C, f, t, o)
    PROVE  tokenize(s, C) = <<t>> \o tokenize(t, C)
<1> DEFINE n == Len(s)
           m == Len(t)
<1>1. n \in Nat /\ f \in 1..n /\ f \in 2..n /\ t = SubSeq(s, f, Len(s)) /\ o = f - 1
  <2>1. n \in Nat /\ f \in 2..n /\ t = SubSeq(s, f, Len(s)) /\ o = f - 1
    BY LenProperties DEF Restarts
  <2> HIDE DEF n
  <2> QED
    BY <2>1
<1>2. After(S, s, o, t) /\ m = n - o
  <2>1. f \in 1..Len(s) /\ t = SubSeq(s, f, Len(s)) /\ o = f - 1
    BY <1>1
  <2> HIDE DEF n
  <2>2. After(S, s, o, t) /\ Len(t) = Len(s) - o
    BY <2>1, AfterIs, Zenon
  <2> QED
    BY <2>2 DEF n
<1>3. t \in Seq(S) /\ m \in Nat
  BY <1>2, LenProperties DEF After
<1>4. o \in Nat /\ m \in Nat /\ m <= n - 1 /\ n >= 2 /\ n \in Nat /\ m = n - o
  <2> HIDE DEF n, m
  <2>1. o \in Nat /\ o >= 1
    BY <1>1
  <2> QED
    BY <1>1, <1>2, <1>3, <2>1
<1>5. /\ find_first_not_of(t, C, 1) = 1
      /\ TokensNext(s, C, TokensStart(s, C)) = Shifted(TokensStart(t, C), o, t)
  BY TokensRestart
<1>6. TokensStart(t, C) \in TokenLoops(S, t, C)
  BY <1>3, <1>5, StartsTyped
<1>7. PICK R : TokensComputed(R, S, t, C)
  BY <1>3, <1>6, TokensRowExists
<1>8. /\ R \in [0..m -> TokenLoops(S, t, C)] /\ R[0] = TokensStart(t, C) /\ TokensRow(R, t, C)
      /\ \A i \in 1..m : R[i] = TokensNext(t, C, R[i - 1])
  BY <1>7 DEF TokensComputed, TokensRow
<1>9. R[m].current = m + 1
  BY <1>3, <1>7, TokensEnd
<1> DEFINE at(i) == IF i - 1 <= m THEN i - 1 ELSE m
           F == [i \in 0..n |-> IF i = 0 THEN TokensStart(s, C) ELSE Shifted(R[at(i)], o, t)]
<1> HIDE DEF n, m
<1>10. \A k \in 0..m : TokensNext(s, C, Shifted(R[k], o, t)) = Shifted(TokensNext(t, C, R[k]), o, t)
  <2> SUFFICES ASSUME NEW k \in 0..m
               PROVE  TokensNext(s, C, Shifted(R[k], o, t)) = Shifted(TokensNext(t, C, R[k]), o, t)
    OBVIOUS
  <2> DEFINE loop == R[k]
  <2>1. loop \in TokenLoops(S, t, C)
    BY <1>8 DEF m
  <2> HIDE DEF loop
  <2>2. TokensNext(s, C, Shifted(loop, o, t)) = Shifted(TokensNext(t, C, loop), o, t)
    BY <1>2, <1>3, <2>1, TokensShift
  <2> QED
    BY <2>2 DEF loop
<1>11. TokensNext(t, C, R[m]) = R[m]
  BY <1>9 DEF TokensNext, m
<1>12. F[0] = TokensStart(s, C) /\ \A i \in 1..n : F[i] = Shifted(R[at(i)], o, t)
  <2>1. 0 \in 0..n /\ \A i \in 1..n : i \in 0..n /\ i # 0
    BY <1>4
  <2> QED
    BY <2>1
<1>13. ASSUME NEW i \in 1..n
       PROVE  F[i] = TokensNext(s, C, F[i - 1])
  <2> HIDE DEF F
  <2>1. CASE i = 1
    <3>1. at(i) = 0 /\ i - 1 = 0
      BY <1>4, <2>1
    <3> HIDE DEF at
    <3>2. F[i] = Shifted(R[0], o, t)
      BY <1>12, <3>1
    <3> QED
      BY <1>5, <1>8, <1>12, <3>1, <3>2
  <2>2. CASE i # 1
    <3>1. i - 1 \in 1..n
      BY <1>4, <2>2
    <3>2. F[i] = Shifted(R[at(i)], o, t) /\ F[i - 1] = Shifted(R[at(i - 1)], o, t)
      BY <1>12, <3>1
    <3>3. CASE i - 1 <= m
      <4>1. at(i) \in 1..m /\ at(i - 1) = at(i) - 1 /\ at(i - 1) \in 0..m
        BY <1>4, <2>2, <3>3
      <4> HIDE DEF at
      <4>2. R[at(i)] = TokensNext(t, C, R[at(i - 1)])
        BY <1>8, <4>1 DEF m
      <4> QED
        BY <1>10, <3>2, <4>1, <4>2
    <3>4. CASE ~(i - 1 <= m)
      <4>1. at(i) = m /\ at(i - 1) = m /\ m \in 0..m
        BY <1>4, <3>4
      <4> HIDE DEF at
      <4> QED
        BY <1>10, <1>11, <3>2, <4>1
    <3> QED
      BY <3>3, <3>4
  <2> QED
    BY <2>1, <2>2
<1>14. F[n] = Shifted(R[m], o, t)
  <2>1. n \in 1..n /\ at(n) = m
    BY <1>4
  <2> HIDE DEF F, at
  <2> QED
    BY <1>12, <2>1
<1>15. F = [i \in 0..n |-> F[i]]
  OBVIOUS
<1> HIDE DEF F
<1>16. tokenize(s, C) = TokensDone(s, F[n])
  <2>1. TokensRow(F, s, C)
    BY <1>12, <1>13, <1>15 DEF TokensRow, n
  <2> QED
    BY <2>1, TokenizeIs DEF n
<1>17. tokenize(t, C) = TokensDone(t, R[m])
  BY <1>3, <1>8, TokenizeIs DEF m
<1>18. R[m] \in TokenLoops(S, t, C)
  BY <1>4, <1>8 DEF m
<1> DEFINE done == R[m]
<1>19. done \in TokenLoops(S, t, C)
  BY <1>18
<1> HIDE DEF done
<1>20. TokensDone(s, Shifted(done, o, t)) = <<t>> \o TokensDone(t, done)
  BY <1>2, <1>3, <1>19, DoneShifts
<1> QED
  BY <1>14, <1>16, <1>17, <1>20 DEF done

LEMMA TokensWholeHere ==
    ASSUME str \in Seq(Symbols)
    PROVE  TokensWhole
<1> DEFINE C == {Space}
           n == Len(str)
           f == find_first_not_of(str, C, 1)
           start == Onward(str, f)
<1> HIDE DEF C
<1>1. n \in Nat /\ 1 \in 1..(n + 1) /\ n \in Int /\ n <= n
  BY LenProperties
<1>2. FirstNotAt(str, C, 1, f)
  BY <1>1, FindsFirstNot
<1>3. f \in 1..(n + 1)
  BY <1>2 DEF FirstNotAt
<1>4. start = SubSeq(str, f, n)
  BY OnwardIs
<1> HIDE DEF f
<1>5. Len(start) = n - f + 1
  <2>1. f \in Nat /\ f >= 1
    BY <1>3
  <2>2. Len(SubSeq(str, f, n)) = IF f <= n THEN n - f + 1 ELSE 0
    BY <1>1, <2>1, PartOf
  <2> HIDE DEF n, start
  <2> QED
    BY <1>1, <1>3, <1>4, <2>2
<1>6. ASSUME start = str
      PROVE  Less(FlattenSeq(tokenize(str, C)), C) = Less(str, C)
  <2>1. Len(start) = n
    BY <1>6
  <2> HIDE DEF n, start
  <2>2. f = 1
    BY <1>1, <1>3, <1>5, <2>1
  <2> QED
    BY <2>2, TokensWholeAnywhere DEF f
<1>7. ASSUME start \notin {str, <<>>}, QuoteEnds(start, 1) = 0
      PROVE  tokenize(str, C) = <<start>> \o tokenize(start, C)
  <2>1. f # 1
    <3>1. SubSeq(str, 1, n) = str
      BY SubSeqFull
    <3> QED
      BY <1>4, <1>7, <3>1
  <2>2. f # n + 1
    <3>1. n < n + 1 /\ n + 1 \in Int
      BY <1>1
    <3>2. SubSeq(str, n + 1, n) = <<>>
      BY <1>1, <3>1, SubSeqEmpty
    <3> QED
      BY <1>4, <1>7, <3>2
  <2>3. f \in 2..n
    <3> HIDE DEF n
    <3> QED
      BY <1>1, <1>3, <2>1, <2>2
  <2> DEFINE o == f - 1
  <2>4. Restarts(str, C, f, start, o)
    BY <1>4, <1>7, <2>3 DEF Restarts, f
  <2> HIDE DEF o, start
  <2> QED
    BY <2>4, TokensAgain
<1> QED
  BY <1>6, <1>7 DEF TokensWhole, f, C

\* tokenize() loses and repeats no character of a text that does not start
\* with a delimiter; behind one, it answers the tokens of the rest and the rest
\* itself before them.
THEOREM TokensSafe == StringsSpec => []TokensWhole
<1>1. str \in Seq(Symbols) => TokensWhole
  BY TokensWholeHere
<1> QED
  BY <1>1, TextsTyped, PTL

-----------------------------------------------------------------------------
(* Remainders and numbers: src/scan.hpp                                    *)

\* Remainders.
LEMMA Remainder ==
    ASSUME NEW a \in Nat, NEW b \in Nat \ {0}
    PROVE  /\ a % b \in Nat /\ a % b < b /\ a % b <= a
           /\ a \div b \in Nat /\ a = (b * (a \div b)) + (a % b)
           /\ a < b => a % b = a
  BY SMT

LEMMA RemainderIs ==
    ASSUME NEW b \in Nat \ {0}, NEW q \in Nat, NEW r \in Nat, r < b
    PROVE  (b * q + r) % b = r
  BY SMT

\* What a remainder is multiplied by and added to may as well be the number.
LEMMA RemainderStep ==
    ASSUME NEW b \in Nat \ {0}, NEW x \in Nat, NEW u \in Nat, NEW d \in Nat
    PROVE  ((x % b) * u + d) % b = (x * u + d) % b
<1> DEFINE r == x % b
           q == x \div b
           y == r * u + d
           p == y \div b
           z == y % b
<1>1. r \in Nat /\ q \in Nat /\ x = b * q + r
  BY Remainder
<1> HIDE DEF r, q
<1>2. y \in Nat
  BY <1>1, SMT
<1>3. p \in Nat /\ z \in Nat /\ z < b /\ y = b * p + z
  BY <1>2, Remainder
<1> DEFINE k == q * u + p
<1>4. k \in Nat /\ x * u + d = b * k + z
  <2> HIDE DEF p, z
  <2>1. q * u \in Nat
    BY <1>1, SMT
  <2>2. x * u = b * (q * u) + r * u
    BY <1>1, SMT
  <2>3. b * (q * u) + b * p = b * (q * u + p)
    BY <1>3, <2>1, SMT
  <2> DEFINE bq == b * (q * u)
             bp == b * p
             ru == r * u
             bk == b * k
             xu == x * u
  <2>4. xu = bq + ru /\ bq + bp = bk /\ ru + d = bp + z
    BY <1>3, <2>2, <2>3
  <2>5. bq \in Int /\ bp \in Int /\ ru \in Int /\ xu \in Int /\ z \in Int
    BY <1>1, <1>3, <2>1, SMT
  <2> HIDE DEF bq, bp, ru, bk, xu
  <2>6. xu + d = bk + z
    BY <2>4, <2>5
  <2> QED
    BY <1>3, <2>1, <2>6 DEF xu, bk
<1> HIDE DEF k, z
<1>5. (b * k + z) % b = z
  BY <1>3, <1>4, RemainderIs
<1> QED
  BY <1>4, <1>5 DEF z, r

LEMMA RemainderTimes ==
    ASSUME NEW b \in Nat \ {0}, NEW x \in Nat, NEW u \in Nat
    PROVE  ((x % b) * u) % b = (x * u) % b
<1>1. ((x % b) * u + 0) % b = (x * u + 0) % b
  <2> DEFINE d == 0
  <2>1. d \in Nat
    OBVIOUS
  <2> HIDE DEF d
  <2>2. ((x % b) * u + d) % b = (x * u + d) % b
    BY <2>1, RemainderStep, Zenon
  <2> QED
    BY <2>2 DEF d
<1>2. x % b \in Nat
  BY Remainder
<1> DEFINE r == x % b
<1>3. r * u \in Int /\ x * u \in Int
  BY <1>2, SMT
<1>4. r * u + 0 = r * u /\ x * u + 0 = x * u
  BY <1>3
<1> QED
  BY <1>1, <1>4

LEMMA RemainderOfRemainder ==
    ASSUME NEW b \in Nat \ {0}, NEW c \in Nat \ {0}, b % c = 0, NEW x \in Nat
    PROVE  (x % b) % c = x % c
<1> DEFINE m == b \div c
           q == x \div b
           r == x % b
           p == r \div c
           z == r % c
<1>1. m \in Nat /\ b = c * m
  <2>1. b = (c * m) + (b % c) /\ m \in Nat
    BY Remainder
  <2>2. c * m \in Int
    BY <2>1, SMT
  <2> QED
    BY <2>1, <2>2
<1>2. q \in Nat /\ r \in Nat /\ x = b * q + r
  BY Remainder
<1> HIDE DEF m, q, r
<1>3. p \in Nat /\ z \in Nat /\ z < c /\ r = c * p + z
  BY <1>2, Remainder
<1> HIDE DEF p, z
<1> DEFINE k == m * q + p
<1>4. k \in Nat /\ x = c * k + z
  <2>1. m * q \in Nat
    BY <1>1, <1>2, SMT
  <2>2. b * q = c * (m * q)
    BY <1>1, <1>2, SMT
  <2>3. c * (m * q) + c * p = c * (m * q + p)
    BY <1>3, <2>1, SMT
  <2> DEFINE mq == c * (m * q)
             cp == c * p
             ck == c * k
  <2>4. x = mq + r /\ r = cp + z /\ mq + cp = ck
    BY <1>2, <1>3, <2>2, <2>3
  <2>5. mq \in Int /\ cp \in Int /\ ck \in Int
    BY <1>3, <2>1, SMT
  <2> HIDE DEF mq, cp, ck
  <2>6. x = ck + z
    BY <1>3, <2>4, <2>5
  <2> QED
    BY <1>3, <2>1, <2>6 DEF ck
<1> HIDE DEF k
<1>5. (c * k + z) % c = z
  BY <1>3, <1>4, RemainderIs
<1> QED
  BY <1>4, <1>5 DEF z, r

LEMMA Scales ==
    ASSUME NEW r \in Nat \ {0}, NEW x \in Nat, NEW d \in Nat
    PROVE  r * x + d \in Nat /\ r * x + d >= x
<1>1. r * x \in Nat /\ r * x >= x
  BY SMT
<1> DEFINE y == r * x
<1>2. y \in Nat /\ y >= x
  BY <1>1
<1> HIDE DEF y
<1>3. y + d \in Nat /\ y + d >= x
  BY <1>2
<1> QED
  BY <1>3 DEF y

\* The numbers that the first digits of a row make.
NumberRow(F, radix, start, ds) ==
    /\ F \in [0..Len(ds) -> Nat]
    /\ F[0] = start
    /\ \A i \in 1..Len(ds) : F[i] = radix * F[i - 1] + ds[i]

\* Number answers the last of them.
LEMMA NumberIs ==
    ASSUME NEW radix, NEW start, NEW S, NEW ds \in Seq(S), NEW F, NumberRow(F, radix, start, ds)
    PROVE  Number(radix, start, ds) = F[Len(ds)]
<1> DEFINE n == Len(ds)
           Unfolded(f) == [i \in 0..n |-> IF i = 0 THEN start ELSE radix * f[i - 1] + ds[i]]
           G == CHOOSE f : f = Unfolded(f)
<1>1. n \in Nat /\ n \in 0..n
  BY LenProperties
<1>2. F \in [0..n -> Nat] /\ F[0] = start /\ \A i \in 1..n : F[i] = radix * F[i - 1] + ds[i]
  BY DEF NumberRow
<1>3. Number(radix, start, ds) = G[n]
  BY DEF Number
<1> HIDE DEF n
<1>4. F = Unfolded(F)
  <2>1. F = [i \in 0..n |-> F[i]]
    BY <1>2
  <2>2. \A i \in 0..n : F[i] = IF i = 0 THEN start ELSE radix * F[i - 1] + ds[i]
    <3>1. \A i \in 0..n : i = 0 \/ i \in 1..n
      BY <1>1
    <3> QED
      BY <1>2, <3>1
  <2> QED
    BY <2>1, <2>2, Zenon
<1>5. G = Unfolded(G)
  BY <1>4, Zenon
<1> HIDE DEF G
<1>6. G[0] = start
  BY <1>1, <1>5
<1>7. \A i \in 1..n : G[i] = radix * G[i - 1] + ds[i]
  <2>1. \A i \in 1..n : i \in 0..n /\ i # 0
    BY <1>1
  <2> QED
    BY <1>5, <2>1
<1>8. \A i \in 1..n : F[i - 1] = G[i - 1] => F[i] = G[i]
  BY <1>2, <1>7
<1>9. F[0] = G[0]
  BY <1>2, <1>6
<1>10. \A i \in 0..n : F[i] = G[i]
  <2>1. n \in Nat
    BY <1>1
  <2>2. Alike(F, G, n)
    BY <1>8, <1>9 DEF Alike
  <2> QED
    BY <2>1, <2>2, RowsAgree
<1> QED
  BY <1>1, <1>3, <1>10 DEF n

LEMMA NumberRowExists ==
    ASSUME NEW radix \in Nat \ {0}, NEW start \in Nat, NEW ds \in Seq(Nat)
    PROVE  \E F : NumberRow(F, radix, start, ds)
<1> DEFINE n == Len(ds)
           step == [i \in 1..n |-> [x \in Nat |-> radix * x + ds[i]]]
           T == Nat
<1>1. n \in Nat /\ \A i \in 1..n : ds[i] \in Nat
  BY LenProperties, ElementOfSeq
<1>2. step \in [1..n -> [Nat -> Nat]]
  <2>1. \A i \in 1..n, x \in Nat : radix * x + ds[i] \in Nat
    BY <1>1, Scales
  <2> QED
    BY <2>1
<1>3. step \in [1..n -> [T -> T]] /\ start \in T /\ n \in Nat
  BY <1>1, <1>2
<1> HIDE DEF step, n, T
<1>4. PICK F : Computed(F, T, n, start, step)
  BY <1>3, RowExists
<1>5. F \in [0..n -> Nat] /\ F[0] = start /\ \A i \in 1..n : F[i] = step[i][F[i - 1]]
  BY <1>4 DEF Computed, T
<1>6. ASSUME NEW i \in 1..n
      PROVE  F[i] = radix * F[i - 1] + ds[i]
  <2>1. i - 1 \in 0..n
    BY <1>1
  <2>2. F[i - 1] \in Nat
    BY <1>5, <2>1
  <2> QED
    BY <1>5, <2>2 DEF step
<1> QED
  BY <1>5, <1>6 DEF NumberRow, n

\* A row starts with the row of the digits it starts with.
LEMMA NumberRowStarts ==
    ASSUME NEW radix, NEW start, NEW ds \in Seq(Nat), NEW F, NumberRow(F, radix, start, ds),
           NEW es \in Seq(Nat), Len(es) <= Len(ds), \A i \in 1..Len(es) : es[i] = ds[i]
    PROVE  Number(radix, start, es) = F[Len(es)]
<1> DEFINE n == Len(ds)
           k == Len(es)
           G == [i \in 0..k |-> F[i]]
<1>1. n \in Nat /\ k \in Nat /\ k <= n
  BY LenProperties
<1>2. F \in [0..n -> Nat] /\ F[0] = start /\ \A i \in 1..n : F[i] = radix * F[i - 1] + ds[i]
  BY DEF NumberRow
<1>3. \A i \in 1..k : es[i] = ds[i]
  OBVIOUS
<1> HIDE DEF n, k
<1>4. \A i \in 0..k : i \in 0..n /\ F[i] \in Nat
  BY <1>1, <1>2
<1>5. G \in [0..k -> Nat] /\ G[0] = start
  <2>1. 0 \in 0..k
    BY <1>1
  <2> QED
    BY <1>2, <1>4, <2>1
<1>6. ASSUME NEW i \in 1..k
      PROVE  G[i] = radix * G[i - 1] + es[i]
  <2>1. i \in 0..k /\ i - 1 \in 0..k /\ i \in 1..n
    BY <1>1
  <2> QED
    BY <1>2, <1>3, <2>1
<1>7. G[k] = F[k]
  BY <1>1
<1> HIDE DEF G
<1>8. NumberRow(G, radix, start, es)
  BY <1>5, <1>6 DEF NumberRow, k
<1> QED
  BY <1>7, <1>8, NumberIs DEF k

\* More digits make no smaller number.
LEMMA NumberRowGrows ==
    ASSUME NEW radix \in Nat \ {0}, NEW start, NEW ds \in Seq(Nat), NEW F, NumberRow(F, radix, start, ds),
           NEW i \in 0..Len(ds)
    PROVE  F[i] <= F[Len(ds)]
<1> DEFINE n == Len(ds)
           Good == {k \in 0..(n - i) : F[i] <= F[i + k]}
<1>1. n \in Nat /\ \A j \in 1..n : ds[j] \in Nat
  BY LenProperties, ElementOfSeq
<1>2. F \in [0..n -> Nat] /\ \A j \in 1..n : F[j] = radix * F[j - 1] + ds[j]
  BY DEF NumberRow
<1> HIDE DEF n
<1>3. i \in 0..n
  BY DEF n
<1>4. 0 \in Good
  <2>1. F[i] \in Nat /\ i + 0 = i /\ 0 \in 0..(n - i)
    BY <1>1, <1>2, <1>3
  <2> QED
    BY <2>1
<1>5. ASSUME NEW k \in 0..((n - i) - 1), k \in Good
      PROVE  k + 1 \in Good
  <2> DEFINE j == i + k
             x == F[j]
  <2>1. j \in 0..n /\ j + 1 \in 1..n /\ j + 1 = i + (k + 1) /\ (j + 1) - 1 = j /\ k + 1 \in 0..(n - i) /\ j + 1 \in 0..n
    BY <1>1, <1>3
  <2>2. F[i] <= x
    BY <1>5
  <2> HIDE DEF j
  <2>3. F[j + 1] = radix * x + ds[j + 1] /\ ds[j + 1] \in Nat /\ x \in Nat /\ F[i] \in Nat
    BY <1>1, <1>2, <1>3, <2>1
  <2> HIDE DEF x
  <2>4. radix * x + ds[j + 1] \in Nat /\ radix * x + ds[j + 1] >= x
    BY <2>3, Scales
  <2> DEFINE y == F[j + 1]
  <2>5. y \in Nat /\ y >= x
    BY <2>3, <2>4
  <2> HIDE DEF y
  <2>6. F[i] <= y
    BY <2>2, <2>3, <2>5
  <2> QED
    BY <2>1, <2>6 DEF y
<1> HIDE DEF Good
<1>6. n - i \in Nat /\ n - i \in 0..(n - i) /\ i + (n - i) = n
  BY <1>1, <1>3
<1> DEFINE m == n - i
<1>7. m \in Nat /\ m \in 0..m /\ 0 \in Good /\ \A k \in 0..(m - 1) : k \in Good => k + 1 \in Good
  BY <1>4, <1>5, <1>6
<1> HIDE DEF m
<1>8. m \in Good
  <2>1. \A k \in 0..m : k \in Good
    BY <1>7, UpTo
  <2> QED
    BY <1>7, <2>1
<1> QED
  BY <1>6, <1>8 DEF Good, m, n

-----------------------------------------------------------------------------
(* The digits that a text starts with                                      *)

\* The digits have values.
LEMMA DigitValues ==
    /\ \A c \in DOMAIN DigitOf : DigitOf[c] \in 0..15
    /\ \A c \in Decimal : c \in DOMAIN DigitOf /\ DigitOf[c] \in 0..9
<1> DEFINE At(c) == CHOOSE i \in DOMAIN hex_digits : hex_digits[i] = c
<1>1. DOMAIN hex_digits = 1..16
  BY DEF hex_digits
<1>2. \A c \in ToSet(hex_digits) : \E i \in 1..16 : hex_digits[i] = c
  BY <1>1 DEF ToSet
<1>3. \A c \in ToSet(hex_digits) : At(c) \in 1..16 /\ hex_digits[At(c)] = c
  BY <1>1, <1>2
<1>4. \A i \in 11..16 : hex_digits[i] \notin Decimal
  <2>1. \A i \in 11..16 : i = 11 \/ i = 12 \/ i = 13 \/ i = 14 \/ i = 15 \/ i = 16
    OBVIOUS
  <2>2. /\ hex_digits[11] = "a" /\ hex_digits[12] = "b" /\ hex_digits[13] = "c"
        /\ hex_digits[14] = "d" /\ hex_digits[15] = "e" /\ hex_digits[16] = "f"
    BY DEF hex_digits
  <2> QED
    BY <2>1, <2>2 DEF Decimal
<1>5. Decimal \subseteq ToSet(hex_digits)
  <2>1. /\ hex_digits[1] = "0" /\ hex_digits[2] = "1" /\ hex_digits[3] = "2" /\ hex_digits[4] = "3"
        /\ hex_digits[5] = "4" /\ hex_digits[6] = "5" /\ hex_digits[7] = "6" /\ hex_digits[8] = "7"
        /\ hex_digits[9] = "8" /\ hex_digits[10] = "9"
    BY DEF hex_digits
  <2> HIDE DEF hex_digits
  <2>2. \A c \in Decimal : \E i \in 1..10 : hex_digits[i] = c
    BY <2>1 DEF Decimal
  <2> QED
    BY <1>1, <2>2 DEF ToSet
<1>6. DOMAIN DigitOf = ToSet(hex_digits) /\ \A c \in ToSet(hex_digits) : DigitOf[c] = At(c) - 1
  BY DEF DigitOf
<1> HIDE DEF At
<1>7. ASSUME NEW c \in Decimal
      PROVE  c \in DOMAIN DigitOf /\ DigitOf[c] \in 0..9
  <2>1. c \in ToSet(hex_digits) /\ At(c) \in 1..16 /\ hex_digits[At(c)] = c
    BY <1>3, <1>5
  <2>2. At(c) \notin 11..16
    BY <1>4, <2>1
  <2> QED
    BY <1>6, <2>1, <2>2
<1> QED
  BY <1>3, <1>6, <1>7

\* Where the digits of a text end.
LEMMA DigitRunIs ==
    ASSUME NEW S, NEW s \in Seq(S)
    PROVE  /\ DigitRun(s) \in 0..Len(s)
           /\ \A i \in 1..DigitRun(s) : s[i] \in Decimal
           /\ DigitRun(s) < Len(s) => s[DigitRun(s) + 1] \notin Decimal
<1> DEFINE T == {i \in 1..Len(s) : s[i] \notin Decimal} \cup {Len(s) + 1}
           r == Min(T)
           n == Len(s)
<1>1. n \in Nat
  BY LenProperties
<1> HIDE DEF n
<1>2. T \in SUBSET Nat /\ T # {}
  BY <1>1 DEF n
<1>3. r \in T /\ \A y \in T : r <= y
  BY <1>2, LeastNumber
<1> HIDE DEF r
<1>4. r \in 1..(n + 1) /\ (r # n + 1 => s[r] \notin Decimal)
  BY <1>1, <1>3 DEF n
<1>5. ASSUME NEW i \in 1..(r - 1), s[i] \notin Decimal
      PROVE  FALSE
  <2>1. i \in T /\ ~(r <= i)
    BY <1>1, <1>4, <1>5 DEF n
  <2> QED
    BY <1>3, <2>1
<1>6. DigitRun(s) = r - 1
  BY DEF DigitRun, r
<1>7. r - 1 \in 0..n /\ (r - 1) + 1 = r
  BY <1>1, <1>4
<1>8. r - 1 < n => r # n + 1
  BY <1>1, <1>4
<1> QED
  BY <1>4, <1>5, <1>6, <1>7, <1>8 DEF n

LEMMA DigitRunOf ==
    ASSUME NEW S, NEW s \in Seq(S), NEW p \in 0..Len(s), \A i \in 1..p : s[i] \in Decimal,
           p < Len(s) => s[p + 1] \notin Decimal
    PROVE  DigitRun(s) = p
<1> DEFINE r == DigitRun(s)
           n == Len(s)
<1>1. n \in Nat /\ r \in 0..n /\ p \in 0..n
  BY DigitRunIs, LenProperties
<1>2. (\A i \in 1..r : s[i] \in Decimal) /\ (r < n => s[r + 1] \notin Decimal)
  BY DigitRunIs
<1> HIDE DEF r
<1>3. ~(r < p)
  <2>1. r < p => r + 1 \in 1..p /\ r < n
    BY <1>1
  <2> QED
    BY <1>2, <2>1
<1>4. ~(p < r)
  <2>1. p < r => p + 1 \in 1..r /\ p < n
    BY <1>1
  <2> QED
    BY <1>2, <2>1
<1> QED
  BY <1>1, <1>3, <1>4 DEF r

\* What a scanner leaves of a text.
LEMMA ScanFromIs ==
    ASSUME NEW S, NEW s \in Seq(S), NEW n \in 0..Len(s)
    PROVE  /\ ScanFrom(s, n) \in Seq(S)
           /\ Len(ScanFrom(s, n)) = Len(s) - n
           /\ \A i \in 1..(Len(s) - n) : ScanFrom(s, n)[i] = s[n + i]
<1> DEFINE k == Len(s)
           m == n + 1
<1>1. k \in Nat /\ n \in 0..k
  BY LenProperties
<1>2. m \in Nat /\ m >= 1 /\ k \in Int /\ k <= k
  BY <1>1
<1> HIDE DEF m
<1>3. /\ SubSeq(s, m, k) \in Seq(S)
      /\ Len(SubSeq(s, m, k)) = IF m <= k THEN k - m + 1 ELSE 0
      /\ \A i \in 1..(k - m + 1) : SubSeq(s, m, k)[i] = s[m + i - 1]
  BY <1>2, PartOf
<1>4. ScanFrom(s, n) = SubSeq(s, m, k)
  BY DEF ScanFrom, m
<1> HIDE DEF k
<1>5. k - m + 1 = k - n /\ (IF m <= k THEN k - m + 1 ELSE 0) = k - n
  BY <1>1 DEF m
<1>6. \A i \in 1..(k - n) : m + i - 1 = n + i
  BY <1>1 DEF m
<1> QED
  BY <1>3, <1>4, <1>5, <1>6 DEF k

LEMMA NothingFollows ==
    ASSUME NEW S, NEW s \in Seq(S), NEW n \in 0..Len(s)
    PROVE  (ScanFrom(s, n) = <<>>) <=> (n = Len(s))
<1>1. ScanFrom(s, n) \in Seq(S) /\ Len(ScanFrom(s, n)) = Len(s) - n
  BY ScanFromIs
<1>2. (ScanFrom(s, n) = <<>>) <=> (Len(ScanFrom(s, n)) = 0)
  BY <1>1, EmptySeq
<1>3. Len(s) \in Nat
  BY LenProperties
<1> QED
  BY <1>1, <1>2, <1>3

\* starts_with() compares the start, the empty piece included.
LEMMA LeftStarts ==
    ASSUME NEW S, NEW s \in Seq(S), NEW n \in 0..Len(s), NEW c
    PROVE  Starts(ScanFrom(s, n), c) <=> (n < Len(s) /\ s[n + 1] = c)
<1> DEFINE k == Len(s)
           rest == ScanFrom(s, n)
<1>1. k \in Nat /\ n \in 0..k
  BY LenProperties
<1>2. (rest = <<>>) <=> (n = k)
  BY NothingFollows
<1>3. \A i \in 1..(k - n) : rest[i] = s[n + i]
  BY ScanFromIs
<1> HIDE DEF k, rest
<1>4. n < k => 1 \in 1..(k - n)
  BY <1>1
<1>5. n < k => rest[1] = s[n + 1]
  BY <1>3, <1>4
<1> QED
  BY <1>1, <1>2, <1>5 DEF Starts, k, rest

LEMMA WholeText ==
    ASSUME NEW S, NEW s \in Seq(S)
    PROVE  ScanFrom(s, 0) = s /\ SubSeq(s, 1, Len(s)) = s
<1>1. SubSeq(s, 1, Len(s)) = s
  BY FirstOf, LenProperties
<1>2. 0 + 1 = 1
  OBVIOUS
<1> QED
  BY <1>1, <1>2 DEF ScanFrom

\* The numbers that the digits a text starts with make.
DigitsRow(F, s) ==
    /\ F \in [0..DigitRun(s) -> Nat]
    /\ F[0] = 0
    /\ \A i \in 1..DigitRun(s) : F[i] = 10 * F[i - 1] + DigitOf[s[i]]

LEMMA ValuesTyped ==
    ASSUME NEW S, NEW s \in Seq(S), \A i \in 1..Len(s) : s[i] \in Decimal
    PROVE  Values(s) \in Seq(Nat) /\ Len(Values(s)) = Len(s) /\ \A i \in 1..Len(s) : Values(s)[i] = DigitOf[s[i]]
<1> DEFINE n == Len(s)
           v == Values(s)
<1>1. n \in Nat /\ DOMAIN s = 1..n
  BY LenProperties
<1>2. \A i \in 1..n : s[i] \in Decimal
  OBVIOUS
<1> HIDE DEF n
<1>3. v = [i \in 1..n |-> DigitOf[s[i]]]
  BY <1>1 DEF Values
<1> HIDE DEF v
<1>4. \A i \in 1..n : DigitOf[s[i]] \in Nat
  <2>1. \A c \in Decimal : DigitOf[c] \in Nat
    BY DigitValues
  <2> QED
    BY <1>2, <2>1
<1>5. v \in [1..n -> Nat]
  BY <1>3, <1>4
<1>6. v \in Seq(Nat) /\ Len(v) = n
  BY <1>1, <1>5, RowIsSeq
<1> QED
  BY <1>3, <1>6 DEF v, n

\* The digits among the first k characters.
LEMMA FirstDigits ==
    ASSUME NEW S, NEW s \in Seq(S), NEW k \in 0..DigitRun(s)
    PROVE  /\ SubSeq(s, 1, k) \in Seq(S) /\ Len(SubSeq(s, 1, k)) = k
           /\ \A i \in 1..k : SubSeq(s, 1, k)[i] = s[i] /\ s[i] \in Decimal
<1> DEFINE r == DigitRun(s)
           n == Len(s)
<1>1. n \in Nat /\ r \in 0..n /\ k \in 0..r /\ \A i \in 1..r : s[i] \in Decimal
  BY DigitRunIs, LenProperties
<1> HIDE DEF r, n
<1>2. k \in Int /\ k <= n /\ (IF 1 <= k THEN k ELSE 0) = k
  BY <1>1
<1>3. k \in Int /\ k <= Len(s)
  BY <1>2 DEF n
<1>4. /\ SubSeq(s, 1, k) \in Seq(S)
      /\ Len(SubSeq(s, 1, k)) = IF 1 <= k THEN k ELSE 0
      /\ \A i \in 1..k : SubSeq(s, 1, k)[i] = s[i]
  BY <1>3, FirstPart
<1>5. \A i \in 1..k : i \in 1..r
  BY <1>1
<1> QED
  BY <1>1, <1>2, <1>4, <1>5

\* The row of the digits in a text is that of a row of digits.
LEMMA DigitsRowIs ==
    ASSUME NEW S, NEW s \in Seq(S), NEW F
    PROVE  DigitsRow(F, s) <=> NumberRow(F, 10, 0, Values(SubSeq(s, 1, DigitRun(s))))
<1> DEFINE r == DigitRun(s)
           t == SubSeq(s, 1, r)
           ds == Values(t)
<1>1. r \in Nat /\ r \in 0..r
  BY DigitRunIs, LenProperties
<1> HIDE DEF r
<1>2. t \in Seq(S) /\ Len(t) = r /\ \A i \in 1..r : t[i] = s[i] /\ s[i] \in Decimal
  BY <1>1, FirstDigits DEF r
<1> HIDE DEF t
<1>3. t \in Seq(S) /\ \A i \in 1..Len(t) : t[i] \in Decimal
  BY <1>2
<1>4. ds \in Seq(Nat) /\ Len(ds) = Len(t) /\ \A i \in 1..Len(t) : ds[i] = DigitOf[t[i]]
  BY <1>3, ValuesTyped
<1> HIDE DEF ds
<1>5. Len(ds) = r /\ \A i \in 1..r : ds[i] = DigitOf[s[i]]
  BY <1>2, <1>4
<1> QED
  BY <1>5 DEF DigitsRow, NumberRow, r, t, ds

LEMMA DigitsRowExists ==
    ASSUME NEW S, NEW s \in Seq(S)
    PROVE  \E F : DigitsRow(F, s)
<1> DEFINE r == DigitRun(s)
           t == SubSeq(s, 1, r)
           ds == Values(t)
           radix == 10
           start == 0
<1>1. r \in Nat /\ r \in 0..r
  BY DigitRunIs, LenProperties
<1> HIDE DEF r
<1>2. t \in Seq(S) /\ Len(t) = r /\ \A i \in 1..r : t[i] = s[i] /\ s[i] \in Decimal
  BY <1>1, FirstDigits DEF r
<1> HIDE DEF t
<1>3. t \in Seq(S) /\ \A i \in 1..Len(t) : t[i] \in Decimal
  BY <1>2
<1>4. ds \in Seq(Nat)
  BY <1>3, ValuesTyped
<1>5. radix \in Nat \ {0} /\ start \in Nat
  OBVIOUS
<1> HIDE DEF ds, radix, start
<1>6. \E F : NumberRow(F, radix, start, ds)
  BY <1>4, <1>5, NumberRowExists
<1> QED
  BY <1>6, DigitsRowIs DEF radix, start, ds, t, r

\* It answers what the first k digits write.
LEMMA DigitsRowWrites ==
    ASSUME NEW S, NEW s \in Seq(S), NEW F, DigitsRow(F, s), NEW k \in 0..DigitRun(s)
    PROVE  Written(SubSeq(s, 1, k)) = F[k]
<1> DEFINE r == DigitRun(s)
           t == SubSeq(s, 1, r)
           u == SubSeq(s, 1, k)
           ds == Values(t)
           es == Values(u)
           radix == 10
           start == 0
<1>1. r \in Nat /\ r \in 0..r /\ k \in 0..r
  BY DigitRunIs, LenProperties
<1> HIDE DEF r
<1>2. t \in Seq(S) /\ Len(t) = r /\ \A i \in 1..r : t[i] = s[i] /\ s[i] \in Decimal
  BY <1>1, FirstDigits DEF r
<1>3. u \in Seq(S) /\ Len(u) = k /\ \A i \in 1..k : u[i] = s[i] /\ s[i] \in Decimal
  BY FirstDigits
<1>4. NumberRow(F, radix, start, ds)
  BY DigitsRowIs DEF r, t
<1> HIDE DEF t, u
<1>5. t \in Seq(S) /\ \A i \in 1..Len(t) : t[i] \in Decimal
  BY <1>2
<1>6. u \in Seq(S) /\ \A i \in 1..Len(u) : u[i] \in Decimal
  BY <1>3
<1>7. ds \in Seq(Nat) /\ Len(ds) = r /\ \A i \in 1..r : ds[i] = DigitOf[t[i]]
  BY <1>2, <1>5, ValuesTyped
<1>8. es \in Seq(Nat) /\ Len(es) = k /\ \A i \in 1..k : es[i] = DigitOf[u[i]]
  BY <1>3, <1>6, ValuesTyped
<1>9. Written(u) = Number(radix, start, es)
  BY DEF Written
<1> HIDE DEF ds, es, radix, start
<1>10. Len(es) <= Len(ds) /\ \A i \in 1..Len(es) : es[i] = ds[i]
  <2>1. k <= r /\ \A i \in 1..k : i \in 1..r
    BY <1>1
  <2>2. \A i \in 1..k : t[i] = s[i] /\ u[i] = s[i]
    BY <1>2, <1>3, <2>1
  <2>3. \A i \in 1..k : ds[i] = DigitOf[t[i]] /\ es[i] = DigitOf[u[i]]
    BY <1>7, <1>8, <2>1
  <2> QED
    <3>1. Len(ds) = r /\ Len(es) = k /\ k <= r
      BY <1>7, <1>8, <2>1
    <3>2. \A i \in 1..k : es[i] = ds[i]
      BY <2>2, <2>3
    <3> QED
      BY <3>1, <3>2
<1>11. ds \in Seq(Nat) /\ es \in Seq(Nat)
  BY <1>7, <1>8
<1>12. Number(radix, start, es) = F[Len(es)]
  BY <1>4, <1>10, <1>11, NumberRowStarts
<1> QED
  BY <1>8, <1>9, <1>12 DEF u

LEMMA DigitsRowGrows ==
    ASSUME NEW S, NEW s \in Seq(S), NEW F, DigitsRow(F, s), NEW k \in 0..DigitRun(s)
    PROVE  F[k] \in Nat /\ F[k] <= F[DigitRun(s)]
<1> DEFINE r == DigitRun(s)
           t == SubSeq(s, 1, r)
           ds == Values(t)
           radix == 10
           start == 0
<1>1. r \in Nat /\ r \in 0..r /\ k \in 0..r
  BY DigitRunIs, LenProperties
<1> HIDE DEF r
<1>2. t \in Seq(S) /\ Len(t) = r /\ \A i \in 1..r : t[i] = s[i] /\ s[i] \in Decimal
  BY <1>1, FirstDigits DEF r
<1>3. NumberRow(F, radix, start, ds)
  BY DigitsRowIs DEF r, t
<1> HIDE DEF t
<1>4. t \in Seq(S) /\ \A i \in 1..Len(t) : t[i] \in Decimal
  BY <1>2
<1>5. ds \in Seq(Nat) /\ Len(ds) = r
  BY <1>2, <1>4, ValuesTyped
<1>6. radix \in Nat \ {0} /\ k \in 0..Len(ds)
  BY <1>1, <1>5
<1> HIDE DEF ds, radix, start
<1>7. F[k] <= F[Len(ds)]
  BY <1>3, <1>5, <1>6, NumberRowGrows
<1>8. F[k] \in Nat
  BY DEF DigitsRow
<1> QED
  BY <1>5, <1>7, <1>8 DEF r

-----------------------------------------------------------------------------
(* get_integer                                                             *)

LEMMA Constants ==
    /\ Big \in Nat \ {0} /\ Small \in Nat \ {0} /\ Kilo \in Nat \ {0} /\ HexDigits \in Nat \ {0}
    /\ Big % Small = 0 /\ 10 * Small <= Big /\ Small > 10 /\ AllOnes(HexDigits) < Big
BY ScanAssumption

\* What get_integer has accumulated is what 64 bits hold of the number.
LEMMA AccumulatedIs ==
    ASSUME NEW S, NEW s \in Seq(S), NEW F, DigitsRow(F, s), NEW n \in 0..DigitRun(s)
    PROVE  Accumulated(s, n) = F[n] % Big
<1> DEFINE r == DigitRun(s)
           Unfolded(f) == [k \in 0..n |-> IF k = 0 THEN 0 ELSE ((10 * f[k - 1]) + DigitOf[s[k]]) % Big]
           G == CHOOSE f : f = Unfolded(f)
           H == [k \in 0..n |-> F[k] % Big]
<1>1. r \in Nat /\ n \in 0..r /\ Big \in Nat \ {0}
  BY DigitRunIs, LenProperties, Constants
<1>2. F \in [0..r -> Nat] /\ F[0] = 0 /\ \A i \in 1..r : F[i] = 10 * F[i - 1] + DigitOf[s[i]]
  BY DEF DigitsRow
<1>3. Accumulated(s, n) = G[n]
  BY DEF Accumulated
<1>4. \A i \in 1..r : DigitOf[s[i]] \in Nat
  <2>1. \A c \in Decimal : DigitOf[c] \in Nat
    BY DigitValues
  <2> QED
    BY <2>1, DigitRunIs
<1> HIDE DEF r
<1>5. n \in 0..n /\ \A k \in 0..n : k \in 0..r /\ (k = 0 \/ (k \in 1..r /\ k - 1 \in 0..n /\ k - 1 \in 0..r))
  BY <1>1
<1>6. H[0] = 0
  <2>1. 0 \in 0..n
    BY <1>1
  <2>2. 0 % Big = 0
    BY <1>1, SMT
  <2> QED
    BY <1>2, <2>1, <2>2
<1>7. ASSUME NEW k \in 1..n
      PROVE  H[k] = ((10 * H[k - 1]) + DigitOf[s[k]]) % Big
  <2>1. k \in 0..n /\ k \in 1..r /\ k - 1 \in 0..n /\ k - 1 \in 0..r
    BY <1>1, <1>5
  <2> DEFINE x == F[k - 1]
             d == DigitOf[s[k]]
             u == 10
  <2>2. x \in Nat /\ d \in Nat /\ u \in Nat
    BY <1>2, <1>4, <2>1
  <2>3. F[k] = u * x + d
    BY <1>2, <2>1
  <2>4. H[k] = F[k] % Big /\ H[k - 1] = x % Big
    BY <2>1
  <2>5. x % Big \in Nat
    BY <1>1, <2>2, Remainder
  <2> HIDE DEF x, d, u
  <2>6. ((x % Big) * u + d) % Big = (x * u + d) % Big
    <3>1. Big \in Nat \ {0} /\ x \in Nat /\ u \in Nat /\ d \in Nat
      BY <1>1, <2>2
    <3> QED
      BY <3>1, RemainderStep, Zenon
  <2> DEFINE m == x % Big
  <2>7. m * u = u * m /\ x * u = u * x
    BY <2>2, <2>5, SMT
  <2>8. (u * m + d) % Big = (u * x + d) % Big
    BY <2>6, <2>7
  <2> QED
    BY <2>3, <2>4, <2>8 DEF u, d
<1> HIDE DEF H
<1>8. H = Unfolded(H)
  <2>1. H = [k \in 0..n |-> H[k]]
    BY DEF H
  <2>2. \A k \in 0..n : H[k] = IF k = 0 THEN 0 ELSE ((10 * H[k - 1]) + DigitOf[s[k]]) % Big
    <3>1. \A k \in 0..n : k = 0 \/ k \in 1..n
      BY <1>1
    <3> QED
      BY <1>6, <1>7, <3>1
  <2> QED
    BY <2>1, <2>2, Zenon
<1>9. G = Unfolded(G)
  BY <1>8, Zenon
<1> HIDE DEF G
<1>10. G[0] = 0
  <2>1. 0 \in 0..n
    BY <1>1
  <2> QED
    BY <1>9, <2>1
<1>11. \A k \in 1..n : G[k] = ((10 * G[k - 1]) + DigitOf[s[k]]) % Big
  <2>1. \A k \in 1..n : k \in 0..n /\ k # 0
    BY <1>1
  <2> QED
    BY <1>9, <2>1
<1>12. \A k \in 1..n : H[k - 1] = G[k - 1] => H[k] = G[k]
  BY <1>7, <1>11
<1>13. H[0] = G[0]
  BY <1>6, <1>10
<1>14. \A k \in 0..n : H[k] = G[k]
  <2>1. n \in Nat
    BY <1>1
  <2>2. Alike(H, G, n)
    BY <1>12, <1>13 DEF Alike
  <2> QED
    BY <2>1, <2>2, RowsAgree
<1> QED
  BY <1>3, <1>5, <1>14 DEF H

LEMMA AccumulatedSmall ==
    ASSUME NEW S, NEW s \in Seq(S), NEW F, DigitsRow(F, s), NEW n \in 0..DigitRun(s), F[n] < Big
    PROVE  Accumulated(s, n) = F[n]
<1>1. F[n] \in Nat /\ Big \in Nat \ {0}
  BY Constants DEF DigitsRow
<1> DEFINE x == F[n]
<1>2. x \in Nat /\ x < Big
  BY <1>1
<1>3. Accumulated(s, n) = x % Big
  BY AccumulatedIs
<1> HIDE DEF x
<1>4. x % Big = x
  BY <1>1, <1>2, Remainder
<1> QED
  BY <1>3, <1>4 DEF x

\* A number that fits is answered.
LEMMA IntegerFits ==
    ASSUME NEW S, NEW s \in Seq(S), NEW F, DigitsRow(F, s), NEW max \in Nat, max < Big,
           F[DigitRun(s)] <= max
    PROVE  get_integer(s, max) = [value |-> F[DigitRun(s)], rest |-> ScanFrom(s, DigitRun(s))]
<1> DEFINE r == DigitRun(s)
           over == {i \in 1..r : Accumulated(s, i) > max}
<1>1. r \in Nat /\ r \in 0..r /\ Big \in Nat
  BY DigitRunIs, LenProperties, Constants
<1>2. \A i \in 0..r : F[i] \in Nat /\ F[i] <= F[r]
  BY DigitsRowGrows
<1>3. F[r] \in Nat /\ F[r] <= max
  BY <1>1, <1>2
<1>4. \A i \in 0..r : F[i] < Big /\ F[i] <= max
  <2> SUFFICES ASSUME NEW i \in 0..r PROVE F[i] < Big /\ F[i] <= max
    OBVIOUS
  <2> DEFINE x == F[i]
             y == F[r]
  <2>1. x \in Nat /\ x <= y /\ y \in Nat /\ y <= max
    BY <1>2, <1>3
  <2> HIDE DEF x, y
  <2>2. x < Big /\ x <= max
    BY <1>1, <2>1
  <2> QED
    BY <2>2 DEF x
<1>5. \A i \in 0..r : Accumulated(s, i) = F[i]
  BY <1>4, AccumulatedSmall
<1> HIDE DEF r
<1>6. over = {}
  <2> SUFFICES ASSUME NEW i \in 1..r, Accumulated(s, i) > max PROVE FALSE
    OBVIOUS
  <2>1. i \in 0..r
    BY <1>1
  <2>2. Accumulated(s, i) = F[i] /\ F[i] <= max /\ F[i] \in Nat
    BY <1>2, <1>4, <1>5, <2>1
  <2> DEFINE x == F[i]
  <2>3. x > max /\ x <= max /\ x \in Nat
    BY <2>2
  <2> HIDE DEF x
  <2> QED
    BY <2>3
<1>7. get_integer(s, max) = [value |-> Accumulated(s, r), rest |-> ScanFrom(s, r)]
  BY <1>6 DEF get_integer, over, r
<1> QED
  BY <1>1, <1>5, <1>7 DEF r

\* A number that does not is left with a digit in front.
Stopped(s, max, scanned) ==
    \E n \in 0..Len(s) :
        /\ n < DigitRun(s)
        /\ scanned.value \in Nat
        /\ scanned.rest = ScanFrom(s, n)

LEMMA IntegerStops ==
    ASSUME NEW S, NEW s \in Seq(S), NEW F, DigitsRow(F, s), NEW max \in Nat, 10 * max + 9 < Big,
           F[DigitRun(s)] > max
    PROVE  Stopped(s, max, get_integer(s, max))
<1> DEFINE r == DigitRun(s)
           over == {i \in 1..r : Accumulated(s, i) > max}
           n == IF over = {} THEN r ELSE Min(over) - 1
           T == {i \in 0..r : F[i] > max}
           m == Min(T)
<1>1. r \in Nat /\ r \in 0..r /\ Big \in Nat \ {0} /\ r \in 0..Len(s) /\ Len(s) \in Nat
  BY DigitRunIs, LenProperties, Constants
<1>2. F \in [0..r -> Nat] /\ F[0] = 0 /\ \A i \in 1..r : F[i] = 10 * F[i - 1] + DigitOf[s[i]]
  BY DEF DigitsRow
<1>3. \A i \in 1..r : DigitOf[s[i]] \in 0..9
  BY DigitRunIs, DigitValues
<1>4. get_integer(s, max) = [value |-> Accumulated(s, n), rest |-> ScanFrom(s, n)]
  BY DEF get_integer
<1>5. F[r] > max
  OBVIOUS
<1> HIDE DEF r
<1>6. T \in SUBSET Nat /\ T # {}
  BY <1>1, <1>5
<1>7. m \in T /\ \A i \in T : m <= i
  BY <1>6, LeastNumber
<1> HIDE DEF m
<1>8. m \in 0..r /\ F[m] > max /\ F[m] \in Nat
  BY <1>2, <1>7
<1>9. m \in 1..r /\ m - 1 \in 0..r /\ ~(m <= m - 1)
  BY <1>1, <1>2, <1>8
<1> DEFINE x == F[m - 1]
           y == F[m]
           d == DigitOf[s[m]]
<1>10. x \in Nat /\ x <= max
  <2>1. m - 1 \notin T
    <3> HIDE DEF T
    <3> QED
      BY <1>7, <1>9
  <2>2. x \in Nat
    BY <1>2, <1>9
  <2>3. ~(x > max)
    BY <1>9, <2>1
  <2> HIDE DEF x
  <2> QED
    BY <2>2, <2>3
<1>11. y \in Nat /\ y > max /\ y = 10 * x + d /\ d \in 0..9
  BY <1>2, <1>3, <1>8, <1>9
<1> HIDE DEF x, y, d
<1>12. y < Big
  BY <1>1, <1>10, <1>11
<1>13. m \in over
  <2>1. DigitsRow(F, s) /\ m \in 0..DigitRun(s) /\ F[m] < Big
    BY <1>8, <1>12 DEF r, y
  <2>2. Accumulated(s, m) = F[m]
    BY <2>1, AccumulatedSmall
  <2> QED
    BY <1>8, <1>9, <2>2
<1>14. over \in SUBSET Nat /\ over # {}
  BY <1>13
<1>15. Min(over) \in over /\ Min(over) <= m
  BY <1>13, <1>14, LeastNumber
<1>16. Min(over) \in 1..r /\ n = Min(over) - 1
  BY <1>14, <1>15
<1> HIDE DEF over, n
<1>17. n \in 0..r /\ n < r /\ n \in 0..Len(s)
  BY <1>1, <1>16
<1>18. Accumulated(s, n) \in Nat
  <2>1. Accumulated(s, n) = F[n] % Big
    BY <1>17, AccumulatedIs DEF r
  <2>2. F[n] \in Nat
    BY <1>2, <1>17
  <2> QED
    BY <1>1, <2>1, <2>2, Remainder
<1> QED
  BY <1>4, <1>17, <1>18 DEF Stopped, r

\* At the widest bound no number is too large.
LEMMA IntegerWraps ==
    ASSUME NEW S, NEW s \in Seq(S), NEW F, DigitsRow(F, s)
    PROVE  get_integer(s, Big - 1) = [value |-> F[DigitRun(s)] % Big, rest |-> ScanFrom(s, DigitRun(s))]
<1> DEFINE r == DigitRun(s)
           max == Big - 1
           over == {i \in 1..r : Accumulated(s, i) > max}
<1>1. r \in Nat /\ r \in 0..r /\ Big \in Nat \ {0} /\ max \in Nat
  BY DigitRunIs, LenProperties, Constants
<1>2. F \in [0..r -> Nat]
  BY DEF DigitsRow
<1>3. \A i \in 0..r : Accumulated(s, i) = F[i] % Big
  BY AccumulatedIs
<1> HIDE DEF r
<1>4. over = {}
  <2> SUFFICES ASSUME NEW i \in 1..r, Accumulated(s, i) > max PROVE FALSE
    OBVIOUS
  <2>1. i \in 0..r
    BY <1>1
  <2>2. F[i] \in Nat /\ Accumulated(s, i) = F[i] % Big
    BY <1>2, <1>3, <2>1
  <2> DEFINE x == Accumulated(s, i)
  <2>3. x \in Nat /\ x < Big
    BY <1>1, <2>2, Remainder
  <2>4. x > max
    OBVIOUS
  <2> HIDE DEF x
  <2> QED
    BY <1>1, <2>3, <2>4
<1>5. get_integer(s, max) = [value |-> Accumulated(s, r), rest |-> ScanFrom(s, r)]
  BY <1>4 DEF get_integer, over, r
<1> QED
  BY <1>1, <1>3, <1>5 DEF r

LEMMA AllDigitsWhere ==
    ASSUME NEW S, NEW s \in Seq(S)
    PROVE  AllDigits(s) <=> DigitRun(s) = Len(s)
<1> DEFINE r == DigitRun(s)
           n == Len(s)
<1>1. n \in Nat /\ r \in 0..n /\ DOMAIN s = 1..n
  BY DigitRunIs, LenProperties
<1>2. (\A i \in 1..r : s[i] \in Decimal) /\ (r < n => s[r + 1] \notin Decimal)
  BY DigitRunIs
<1>3. AllDigits(s) <=> \A i \in 1..n : s[i] \in Decimal
  BY <1>1 DEF AllDigits, ToSet
<1> HIDE DEF r, n
<1>4. r < n => r + 1 \in 1..n
  BY <1>1
<1>5. AllDigits(s) => r = n
  <2>1. r < n => ~AllDigits(s)
    BY <1>2, <1>3, <1>4
  <2> QED
    BY <1>1, <2>1
<1>6. r = n => AllDigits(s)
  BY <1>2, <1>3
<1> QED
  BY <1>5, <1>6 DEF r, n

LEMMA WholeWritten ==
    ASSUME NEW S, NEW s \in Seq(S), NEW F, DigitsRow(F, s), DigitRun(s) = Len(s)
    PROVE  Written(s) = F[DigitRun(s)] /\ ScanFrom(s, DigitRun(s)) = <<>>
<1> DEFINE r == DigitRun(s)
<1>1. r \in Nat /\ r \in 0..r /\ r \in 0..Len(s)
  BY DigitRunIs, LenProperties
<1>2. Written(SubSeq(s, 1, r)) = F[r]
  BY <1>1, DigitsRowWrites
<1>3. SubSeq(s, 1, r) = s
  BY WholeText
<1>4. ScanFrom(s, r) = <<>>
  BY <1>1, NothingFollows
<1> QED
  BY <1>2, <1>3, <1>4

LEMMA StoppedShort ==
    ASSUME NEW S, NEW s \in Seq(S), NEW max, NEW scanned, Stopped(s, max, scanned)
    PROVE  scanned.rest # <<>> /\ scanned.rest \in Seq(S) /\ scanned.rest[1] \in Decimal
<1>1. PICK n \in 0..Len(s) : n < DigitRun(s) /\ scanned.rest = ScanFrom(s, n)
  BY DEF Stopped
<1> DEFINE r == DigitRun(s)
           k == Len(s)
<1>2. r \in 0..k /\ k \in Nat /\ \A i \in 1..r : s[i] \in Decimal
  BY DigitRunIs, LenProperties
<1>3. ScanFrom(s, n) \in Seq(S) /\ \A i \in 1..(k - n) : ScanFrom(s, n)[i] = s[n + i]
  BY ScanFromIs
<1>4. (ScanFrom(s, n) = <<>>) <=> (n = k)
  BY NothingFollows
<1>5. n < r /\ n \in 0..k
  BY <1>1
<1> HIDE DEF r, k
<1>6. n # k /\ 1 \in 1..(k - n) /\ n + 1 \in 1..r
  BY <1>2, <1>5
<1> QED
  BY <1>1, <1>2, <1>3, <1>4, <1>6

\* What get_integer answers at a bound that another digit does not overflow.
Reads(s, max, scanned) ==
    IF AllDigits(s) /\ Written(s) <= max
      THEN scanned.rest = <<>> /\ scanned.value = Written(s) /\ Written(s) \in Nat
      ELSE scanned.rest # <<>>

LEMMA IntegerReads ==
    ASSUME NEW S, NEW s \in Seq(S), NEW max \in Nat, 10 * max + 9 < Big
    PROVE  Reads(s, max, get_integer(s, max))
<1> DEFINE r == DigitRun(s)
           scanned == get_integer(s, max)
<1>1. PICK F : DigitsRow(F, s)
  BY DigitsRowExists
<1> DEFINE x == F[r]
<1>2. r \in 0..Len(s) /\ Len(s) \in Nat /\ x \in Nat
  BY <1>1, DigitRunIs, LenProperties DEF DigitsRow
<1>3. max < Big
  BY Constants
<1>4. CASE x > max
  <2>1. Stopped(s, max, scanned)
    BY <1>1, <1>4, IntegerStops
  <2>2. scanned.rest # <<>>
    BY <2>1, StoppedShort
  <2>3. AllDigits(s) => Written(s) = x
    BY <1>1, AllDigitsWhere, WholeWritten
  <2> HIDE DEF x, scanned
  <2>4. ~(x <= max)
    BY <1>2, <1>4
  <2> QED
    BY <2>2, <2>3, <2>4 DEF Reads, scanned
<1>5. CASE x <= max
  <2>1. scanned = [value |-> x, rest |-> ScanFrom(s, r)]
    BY <1>1, <1>3, <1>5, IntegerFits
  <2>2. scanned.value = x /\ scanned.rest = ScanFrom(s, r)
    BY <2>1
  <2>3. (ScanFrom(s, r) = <<>>) <=> (r = Len(s))
    BY <1>2, NothingFollows
  <2>4. AllDigits(s) <=> r = Len(s)
    BY AllDigitsWhere
  <2>5. r = Len(s) => Written(s) = x
    BY <1>1, WholeWritten
  <2> HIDE DEF x, r, scanned
  <2> QED
    BY <1>2, <1>5, <2>2, <2>3, <2>4, <2>5 DEF Reads, scanned
<1> QED
  BY <1>2, <1>4, <1>5

\* A bound of a narrow type is the same in 64 bits, with and without sign.
LEMMA Narrow ==
    ASSUME NEW max \in 0..(Small - 1)
    PROVE  /\ max \in Nat /\ 10 * max + 9 < Big /\ max < Big
           /\ max % Big = max /\ Signed(max) = max
<1>1. max \in Nat /\ 10 * max + 9 < Big /\ max < Big /\ 2 * max + 2 < Big /\ Big \in Nat \ {0}
  BY Constants
<1>2. max % Big = max
  BY <1>1, Remainder
<1>3. ~(max >= Big \div 2)
  <2>1. Big \div 2 \in Nat /\ Big <= 2 * (Big \div 2) + 1
    BY <1>1
  <2> QED
    BY <1>1, <2>1
<1> QED
  BY <1>1, <1>2, <1>3 DEF Signed

\* What a parser for a narrow type is to answer.
Exact(s, min, max) ==
    IF AllDigits(s) /\ Written(s) \in min..max THEN <<Written(s)>> ELSE Throws

\* parse_unsigned and parse_integer of a narrow type.
LEMMA NarrowParsed ==
    ASSUME NEW S, NEW s \in Seq(S), NEW min \in 0..(Small - 1), NEW max \in 0..(Small - 1)
    PROVE  parse_unsigned(s, min, max) = Exact(s, min, max) /\ parse_integer(s, min, max) = Exact(s, min, max)
<1> DEFINE scanned == get_integer(s, max)
           x == Written(s)
<1>1. /\ max \in Nat /\ 10 * max + 9 < Big /\ max < Big /\ max % Big = max /\ Signed(max) = max
  BY Narrow
<1>2. min \in Nat /\ Signed(min) = min
  BY Narrow
<1>3. Reads(s, max, scanned)
  BY <1>1, IntegerReads
<1>4. AllDigits(s) => ~Starts(s, "-")
  <2>1. AllDigits(s) => DigitRun(s) = Len(s)
    BY AllDigitsWhere
  <2>2. Starts(s, "-") => Len(s) # 0 /\ s[1] = "-"
    BY EmptySeq DEF Starts
  <2>3. "-" \notin Decimal
    BY DEF Decimal
  <2>4. \A i \in 1..DigitRun(s) : s[i] \in Decimal
    BY DigitRunIs
  <2>5. Len(s) \in Nat /\ (Len(s) # 0 => 1 \in 1..Len(s))
    BY LenProperties
  <2> QED
    BY <2>1, <2>2, <2>3, <2>4, <2>5
<1>5. parse_integer(s, min, max) = Within(scanned, Signed(scanned.value), min, max)
  BY <1>1, <1>2 DEF parse_integer
<1>6. parse_unsigned(s, min, max) = IF Starts(s, "-") THEN Throws ELSE Within(scanned, scanned.value, min, max)
  BY DEF parse_unsigned
<1> HIDE DEF scanned
<1>7. CASE AllDigits(s) /\ x <= max
  <2>1. scanned.rest = <<>> /\ scanned.value = x /\ x \in Nat
    BY <1>3, <1>7 DEF Reads
  <2>2. x \in 0..(Small - 1)
    BY <1>7, <2>1, Constants
  <2>3. Signed(x) = x
    BY <2>2, Narrow
  <2>4. x \in min..max <=> ~(x < min \/ x > max)
    BY <1>1, <1>2, <2>1
  <2> HIDE DEF x
  <2>5. Within(scanned, x, min, max) = IF x \in min..max THEN <<x>> ELSE Throws
    BY <2>1, <2>4 DEF Within
  <2>6. Exact(s, min, max) = IF x \in min..max THEN <<x>> ELSE Throws
    BY <1>7 DEF Exact, x
  <2> QED
    BY <1>4, <1>5, <1>6, <1>7, <2>1, <2>3, <2>5, <2>6
<1>8. CASE ~(AllDigits(s) /\ x <= max)
  <2>1. scanned.rest # <<>>
    BY <1>3, <1>8 DEF Reads
  <2>2. ~(AllDigits(s) /\ x \in min..max)
    BY <1>8
  <2>3. \A v : Within(scanned, v, min, max) = Throws
    BY <2>1 DEF Within
  <2> QED
    BY <1>5, <1>6, <2>2, <2>3 DEF Exact
<1> QED
  BY <1>7, <1>8

LEMMA NarrowHolds ==
    ASSUME text \in Seq(Letters)
    PROVE  NarrowExact
<1> SUFFICES ASSUME NEW bounds \in {<<0, 0>>, <<0, 9>>, <<1, 10>>, <<0, Small \div 2 - 1>>,
                   <<1, Small - 1>>, <<Small - 1, Small - 1>>}
             PROVE  /\ parse_unsigned(text, bounds[1], bounds[2]) = Exact(text, bounds[1], bounds[2])
                    /\ parse_integer(text, bounds[1], bounds[2]) = Exact(text, bounds[1], bounds[2])
  BY Zenon DEF NarrowExact, Exact
<1>1. Small \in Nat /\ Small > 10 /\ Small \div 2 - 1 \in 0..(Small - 1)
  BY Constants
<1>2. bounds[1] \in 0..(Small - 1) /\ bounds[2] \in 0..(Small - 1)
  BY <1>1
<1> QED
  BY <1>2, NarrowParsed

LEMMA WideHolds ==
    ASSUME text \in Seq(Letters)
    PROVE  WideWraps
<1> DEFINE r == DigitRun(text)
           top == Big - 1
           scanned == get_integer(text, top)
<1>1. PICK F : DigitsRow(F, text)
  BY DigitsRowExists
<1> DEFINE x == F[r]
<1>2. Big \in Nat /\ top \in Nat /\ top < Big /\ 0 < Big /\ 10 < Big /\ Big \in Nat \ {0}
  BY Constants
<1>3. r \in 0..Len(text) /\ Len(text) \in Nat /\ x \in Nat
  BY <1>1, DigitRunIs, LenProperties DEF DigitsRow
<1>4. scanned = [value |-> x % Big, rest |-> ScanFrom(text, r)]
  BY <1>1, IntegerWraps
<1>5. scanned.value = x % Big /\ scanned.rest = ScanFrom(text, r)
  BY <1>4
<1>6. (scanned.rest = <<>>) <=> AllDigits(text)
  BY <1>3, <1>5, NothingFollows, AllDigitsWhere
<1>7. AllDigits(text) => Written(text) = x
  BY <1>1, AllDigitsWhere, WholeWritten
<1>8. AllDigits(text) => ~Starts(text, "-")
  <2>1. AllDigits(text) => DigitRun(text) = Len(text)
    BY AllDigitsWhere
  <2>2. Starts(text, "-") => Len(text) # 0 /\ text[1] = "-"
    BY EmptySeq DEF Starts
  <2>3. "-" \notin Decimal
    BY DEF Decimal
  <2>4. \A i \in 1..DigitRun(text) : text[i] \in Decimal
    BY DigitRunIs
  <2>5. Len(text) \in Nat /\ (Len(text) # 0 => 1 \in 1..Len(text))
    BY LenProperties
  <2> QED
    BY <2>1, <2>2, <2>3, <2>4, <2>5
<1>9. x % Big \in Nat /\ x % Big < Big
  BY <1>2, <1>3, Remainder
<1> HIDE DEF r
<1> DEFINE v == x % Big
<1>10. v \in Nat /\ v < Big /\ scanned.value = v
  BY <1>5, <1>9
<1>11. top % Big = top /\ v % Big = v /\ 0 % Big = 0
  BY <1>2, <1>10, Remainder
<1>12. parse_unsigned(text, 0, top) = IF Starts(text, "-") THEN Throws ELSE Within(scanned, v, 0, top)
  BY <1>10 DEF parse_unsigned
<1>13. parse_integer(text, 0, top) = Within(scanned, Signed(v), Signed(0), Signed(top))
  BY <1>10, <1>11 DEF parse_integer
<1> HIDE DEF scanned, v, x
<1>14. Big \div 2 \in Nat /\ Big \div 2 > 0 /\ Big \div 2 <= top
  BY <1>2 DEF top
<1>15. Signed(0) = 0
  BY <1>11, <1>14 DEF Signed
<1>16. Signed(top) = -1
  <2>1. Signed(top) = top - Big
    BY <1>2, <1>11, <1>14 DEF Signed
  <2> QED
    BY <1>2, <2>1 DEF top
<1> HIDE DEF top
<1>17. Signed(v) \in Int
  BY <1>2, <1>10, <1>11 DEF Signed
<1>18. parse_integer(text, 0, top) = Throws
  <2>1. Signed(v) < 0 \/ Signed(v) > -1
    BY <1>17
  <2> QED
    BY <1>13, <1>15, <1>16, <2>1 DEF Within
<1>19. parse_unsigned(text, 0, top) = IF AllDigits(text) THEN <<v>> ELSE Throws
  <2>1. ~(v < 0 \/ v > top)
    BY <1>2, <1>10 DEF top
  <2>2. Within(scanned, v, 0, top) = IF scanned.rest # <<>> THEN Throws ELSE <<v>>
    BY <2>1 DEF Within
  <2> QED
    BY <1>6, <1>8, <1>12, <2>2
<1>20. AllDigits(text) => <<v>> = <<Written(text) % Big>>
  BY <1>7 DEF v
<1>21. parse_unsigned(text, 0, top) = IF AllDigits(text) THEN <<Written(text) % Big>> ELSE Throws
  BY <1>19, <1>20
<1> QED
  BY <1>18, <1>21 DEF WideWraps, top

-----------------------------------------------------------------------------
(* parse_hex                                                               *)

\* A row of nibbles makes no more than a row of ones as long or longer.
LEMMA NibblesBelow ==
    ASSUME NEW ds \in Seq(0..15), NEW m \in Nat, Len(ds) <= m
    PROVE  Number(16, 0, ds) \in Nat /\ Number(16, 0, ds) <= AllOnes(m)
<1> DEFINE n == Len(ds)
           ones == [i \in 1..m |-> 15]
           radix == 16
           start == 0
<1>1. n \in Nat /\ \A i \in 1..n : ds[i] \in 0..15
  BY LenProperties, ElementOfSeq
<1>2. ones \in [1..m -> Nat] /\ \A i \in 1..m : ones[i] = 15
  OBVIOUS
<1>3. ones \in Seq(Nat) /\ Len(ones) = m
  BY <1>2, RowIsSeq
<1>4. ds \in Seq(Nat)
  <2>1. 0..15 \subseteq Nat
    OBVIOUS
  <2> QED
    BY <2>1, SeqOfMore
<1>5. radix \in Nat \ {0} /\ start \in Nat
  OBVIOUS
<1> HIDE DEF ones, start
<1>6. AllOnes(m) = Number(radix, start, ones)
  BY DEF AllOnes, ones, start
<1>7. PICK F : NumberRow(F, radix, start, ds)
  <2> HIDE DEF radix
  <2> QED
    BY <1>4, <1>5, NumberRowExists
<1>8. PICK G : NumberRow(G, radix, start, ones)
  <2> HIDE DEF radix
  <2> QED
    BY <1>3, <1>5, NumberRowExists
<1>9. Number(radix, start, ds) = F[n]
  <2> HIDE DEF radix
  <2> QED
    BY <1>4, <1>7, NumberIs
<1>10. Number(radix, start, ones) = G[m]
  <2> HIDE DEF radix
  <2>1. Number(radix, start, ones) = G[Len(ones)]
    BY <1>3, <1>8, NumberIs
  <2> QED
    BY <1>3, <2>1
<1> HIDE DEF n
<1>11. F \in [0..n -> Nat] /\ F[0] = start /\ \A i \in 1..n : F[i] = 16 * F[i - 1] + ds[i]
  BY <1>7 DEF NumberRow, n
<1>12. G \in [0..m -> Nat] /\ G[0] = start /\ \A i \in 1..m : G[i] = 16 * G[i - 1] + 15
  BY <1>2, <1>3, <1>8 DEF NumberRow
<1>13. n <= m
  BY DEF n
<1> DEFINE Good == {i \in 0..n : F[i] <= G[i]}
<1>14. 0 \in Good
  BY <1>1, <1>5, <1>11, <1>12
<1>15. ASSUME NEW k \in 0..(n - 1), k \in Good
       PROVE  k + 1 \in Good
  <2> DEFINE x == F[k]
             y == G[k]
             d == ds[k + 1]
  <2>1. /\ k \in 0..n /\ k \in 0..m /\ k + 1 \in 1..n /\ k + 1 \in 1..m /\ k + 1 \in 0..n
        /\ (k + 1) - 1 = k
    BY <1>1, <1>13
  <2>2. x \in Nat /\ y \in Nat /\ x <= y /\ d \in 0..15
    BY <1>1, <1>11, <1>12, <1>15, <2>1
  <2>3. F[k + 1] = 16 * x + d /\ G[k + 1] = 16 * y + 15
    BY <1>11, <1>12, <2>1
  <2> HIDE DEF x, y, d
  <2>4. 16 * x + d <= 16 * y + 15
    BY <2>2
  <2> QED
    BY <2>1, <2>3, <2>4
<1> HIDE DEF Good
<1>16. \A i \in 0..n : i \in Good
  BY <1>1, <1>14, <1>15, UpTo
<1>17. n \in 0..n /\ n \in 0..m /\ n \in 0..Len(ones)
  BY <1>1, <1>3, <1>13
<1>18. F[n] <= G[n] /\ F[n] \in Nat /\ G[n] \in Nat /\ G[m] \in Nat
  BY <1>11, <1>12, <1>16, <1>17 DEF Good
<1>19. G[n] <= G[m]
  <2> HIDE DEF radix
  <2>1. G[n] <= G[Len(ones)]
    BY <1>3, <1>5, <1>8, <1>17, NumberRowGrows
  <2> QED
    BY <1>3, <2>1
<1> DEFINE x == F[n]
           y == G[n]
           z == G[m]
<1>20. x \in Nat /\ y \in Nat /\ z \in Nat /\ x <= y /\ y <= z
  BY <1>18, <1>19
<1> HIDE DEF x, y, z
<1>21. x <= z
  BY <1>20
<1> QED
  BY <1>6, <1>9, <1>10, <1>20, <1>21 DEF x, z, start

LEMMA Decoded ==
    ASSUME NEW c
    PROVE  IF Lowered(c) \in DOMAIN DigitOf
             THEN decode_hex(c) = DigitOf[Lowered(c)] /\ decode_hex(c) \in 0..15 /\ decode_hex(c) # 255
             ELSE decode_hex(c) = 255
<1>1. Lowered(c) \in DOMAIN DigitOf => DigitOf[Lowered(c)] \in 0..15
  BY DigitValues
<1> QED
  BY <1>1 DEF decode_hex

\* What is left of a text when it has lost its prefix.
LEMMA BodyTyped ==
    ASSUME NEW S, NEW s \in Seq(S), NEW T, NEW prefix \in Seq(T)
    PROVE  consume_prefix(s, prefix) \in Seq(S)
<1>1. Len(s) \in Nat /\ Len(prefix) \in Nat
  BY LenProperties
<1>2. IsPrefix(prefix, s) => Len(prefix) <= Len(s)
  BY DEF IsPrefix
<1>3. CASE IsPrefix(prefix, s)
  <2>1. Len(prefix) \in 0..Len(s)
    BY <1>1, <1>2, <1>3
  <2> QED
    BY <1>3, <2>1, ScanFromIs DEF consume_prefix
<1>4. CASE ~IsPrefix(prefix, s) /\ Starts(s, "$")
  <2> DEFINE one == 1
  <2>1. one \in 0..Len(s)
    BY <1>1, <1>4, EmptySeq DEF Starts
  <2> HIDE DEF one
  <2>2. ScanFrom(s, one) \in Seq(S)
    BY <2>1, ScanFromIs
  <2> QED
    BY <1>4, <2>2 DEF consume_prefix, one
<1> QED
  BY <1>3, <1>4 DEF consume_prefix

\* All characters of a text are hexadecimal digits.
Hexadecimal(s) == \A i \in DOMAIN s : Lowered(s[i]) \in DOMAIN DigitOf
HexValue(s) == Number(16, 0, [i \in DOMAIN s |-> DigitOf[Lowered(s[i])]])

\* get_hex reads a text of as many digits as it may.
LEMMA HexRead ==
    ASSUME NEW S, NEW s \in Seq(S), NEW nibbles \in 1..HexDigits, Hexadecimal(s), Len(s) <= nibbles
    PROVE  get_hex(s, nibbles) = [value |-> HexValue(s), rest |-> <<>>]
<1> DEFINE n == Len(s)
           m == Min({nibbles, n})
           bad == {i \in 1..m : decode_hex(s[i]) = 255}
<1>1. n \in Nat /\ nibbles \in Nat /\ HexDigits \in Nat /\ DOMAIN s = 1..n /\ ~(nibbles > HexDigits)
  BY LenProperties, Constants
<1>2. n \in 0..n /\ n <= nibbles
  BY <1>1
<1>3. m = n
  <2>1. nibbles \in Int /\ n \in Int
    BY <1>1
  <2>2. m = IF nibbles <= n THEN nibbles ELSE n
    BY <2>1, LeastOfTwo
  <2> HIDE DEF m, n
  <2> QED
    BY <1>1, <1>2, <2>2
<1>4. \A i \in 1..n : decode_hex(s[i]) = DigitOf[Lowered(s[i])] /\ decode_hex(s[i]) # 255
  BY <1>1, Decoded DEF Hexadecimal
<1> HIDE DEF m
<1>5. bad = {}
  BY <1>3, <1>4
<1>6. get_hex(s, nibbles) = [value |-> Nibbles(s, m), rest |-> ScanFrom(s, m)]
  BY <1>1, <1>5 DEF get_hex, bad, m
<1> HIDE DEF bad
<1>7. ScanFrom(s, n) = <<>>
  BY <1>2, NothingFollows
<1> HIDE DEF n
<1>8. [i \in 1..n |-> decode_hex(s[i])] = [i \in DOMAIN s |-> DigitOf[Lowered(s[i])]]
  BY <1>1, <1>4
<1>9. Nibbles(s, n) = HexValue(s)
  BY <1>8 DEF Nibbles, HexValue
<1> QED
  BY <1>3, <1>6, <1>7, <1>9

\* It leaves something of any other text.
LEMMA HexLeft ==
    ASSUME NEW S, NEW s \in Seq(S), NEW nibbles \in 1..HexDigits, ~(Hexadecimal(s) /\ Len(s) <= nibbles)
    PROVE  get_hex(s, nibbles).rest # <<>>
<1> DEFINE n == Len(s)
           m == Min({nibbles, n})
           bad == {i \in 1..m : decode_hex(s[i]) = 255}
<1>1. n \in Nat /\ nibbles \in Nat /\ HexDigits \in Nat /\ DOMAIN s = 1..n /\ ~(nibbles > HexDigits)
  BY LenProperties, Constants
<1>2. m = IF nibbles <= n THEN nibbles ELSE n
  <2>1. nibbles \in Int /\ n \in Int
    BY <1>1
  <2> QED
    BY <2>1, LeastOfTwo
<1> HIDE DEF m
<1>3. m \in 0..n /\ (m = n => n <= nibbles)
  <2> HIDE DEF n
  <2>1. m = nibbles \/ m = n
    BY <1>2
  <2>2. m <= n /\ m \in Nat /\ (m = n => n <= nibbles)
    BY <1>1, <1>2, <2>1
  <2> QED
    BY <1>1, <2>2
<1>4. CASE bad # {}
  <2> DEFINE b == Min(bad)
  <2>1. bad \in SUBSET Nat
    BY <1>3
  <2>2. b \in bad
    BY <1>4, <2>1, LeastNumber
  <2>3. b \in 1..m
    BY <2>2
  <2>4. get_hex(s, nibbles).rest = ScanFrom(s, b - 1)
    BY <1>1, <1>4 DEF get_hex, m
  <2> HIDE DEF b, n
  <2>5. b - 1 \in 0..n /\ b - 1 # n
    BY <1>1, <1>3, <2>3
  <2>6. b - 1 \in 0..Len(s) /\ b - 1 # Len(s)
    BY <2>5 DEF n
  <2> QED
    BY <2>4, <2>6, NothingFollows
<1>5. CASE bad = {}
  <2>1. get_hex(s, nibbles).rest = ScanFrom(s, m)
    BY <1>1, <1>5 DEF get_hex, m
  <2>2. \A i \in 1..m : Lowered(s[i]) \in DOMAIN DigitOf
    BY <1>5, Decoded
  <2>3. m # n
    <3>1. m = n => Hexadecimal(s)
      BY <1>1, <2>2 DEF Hexadecimal
    <3> QED
      BY <1>3, <3>1
  <2>4. m \in 0..Len(s) /\ m # Len(s)
    BY <1>3, <2>3
  <2> QED
    BY <2>1, <2>4, NothingFollows
<1> QED
  BY <1>4, <1>5

LEMMA HexHolds ==
    ASSUME text \in Seq(Letters)
    PROVE  HexExact
<1> DEFINE prefix == <<"0", "x">>
           body == consume_prefix(text, prefix)
<1>1. prefix \in Seq({"0", "x"})
  OBVIOUS
<1>2. body \in Seq(Letters)
  <2> HIDE DEF prefix
  <2> QED
    BY <1>1, BodyTyped
<1>3. \A s, n, min, max : parse_hex(s, n, min, max) =
        Within(get_hex(consume_prefix(s, prefix), n), get_hex(consume_prefix(s, prefix), n).value, min, max)
  BY DEF parse_hex
<1> HIDE DEF body
<1>4. \A n, min, max : parse_hex(text, n, min, max) = Within(get_hex(body, n), get_hex(body, n).value, min, max)
  BY <1>3 DEF body
<1>5. ASSUME NEW nibbles \in 1..HexDigits
      PROVE  parse_hex(text, nibbles, 0, AllOnes(nibbles))
               = IF Hexadecimal(body) /\ Len(body) <= nibbles THEN <<HexValue(body)>> ELSE Throws
  <2> DEFINE hex == get_hex(body, nibbles)
             top == AllOnes(nibbles)
             value == HexValue(body)
  <2>1. CASE Hexadecimal(body) /\ Len(body) <= nibbles
    <3>1. hex = [value |-> value, rest |-> <<>>]
      BY <1>2, <2>1, HexRead
    <3>2. value \in Nat /\ value <= top
      <4> DEFINE ds == [i \in DOMAIN body |-> DigitOf[Lowered(body[i])]]
                 n == Len(body)
      <4>1. n \in Nat /\ DOMAIN body = 1..n
        BY <1>2, LenProperties
      <4>2. \A i \in DOMAIN body : DigitOf[Lowered(body[i])] \in 0..15
        BY <2>1, DigitValues DEF Hexadecimal
      <4>3. ds \in [1..n -> 0..15]
        BY <4>1, <4>2
      <4> HIDE DEF ds
      <4>4. ds \in Seq(0..15) /\ Len(ds) = n
        BY <4>1, <4>3, RowIsSeq
      <4>5. nibbles \in Nat /\ Len(ds) <= nibbles
        BY <2>1, <4>4, Constants
      <4> HIDE DEF n
      <4>6. Number(16, 0, ds) \in Nat /\ Number(16, 0, ds) <= AllOnes(nibbles)
        BY <4>4, <4>5, NibblesBelow
      <4> QED
        BY <4>6 DEF HexValue, ds
    <3>3. hex.value = value /\ hex.rest = <<>>
      BY <3>1
    <3>4. top \in Int
      <4> DEFINE ones == [i \in 1..nibbles |-> 15]
      <4>1. nibbles \in Nat /\ ones \in [1..nibbles -> 0..15]
        BY Constants
      <4> HIDE DEF ones
      <4>2. ones \in Seq(0..15) /\ Len(ones) <= nibbles
        BY <4>1, RowIsSeq
      <4>3. Number(16, 0, ones) \in Nat
        BY <4>1, <4>2, NibblesBelow
      <4> QED
        BY <4>3 DEF AllOnes, ones
    <3>5. parse_hex(text, nibbles, 0, top) = Within(hex, hex.value, 0, top)
      BY <1>4
    <3> HIDE DEF hex, value, top
    <3>6. ~(value < 0 \/ value > top)
      BY <3>2, <3>4
    <3>7. Within(hex, hex.value, 0, top) = <<value>>
      BY <3>3, <3>6 DEF Within
    <3> QED
      BY <2>1, <3>5, <3>7 DEF value, top
  <2>2. CASE ~(Hexadecimal(body) /\ Len(body) <= nibbles)
    <3>1. hex.rest # <<>>
      BY <1>2, <2>2, HexLeft
    <3>2. parse_hex(text, nibbles, 0, top) = Within(hex, hex.value, 0, top)
      BY <1>4
    <3> QED
      BY <2>2, <3>1, <3>2 DEF Within
  <2> QED
    BY <2>1, <2>2
<1>6. parse_hex(text, HexDigits + 1, 0, Big - 1) = IF body = <<>> THEN <<0>> ELSE Throws
  <2>1. HexDigits + 1 > HexDigits /\ Big \in Nat \ {0}
    BY Constants
  <2>2. get_hex(body, HexDigits + 1) = [value |-> 0, rest |-> body]
    BY <2>1 DEF get_hex
  <2>3. get_hex(body, HexDigits + 1).value = 0 /\ get_hex(body, HexDigits + 1).rest = body
    BY <2>2
  <2>4. ~(0 < 0 \/ 0 > Big - 1)
    BY <2>1
  <2>5. Within(get_hex(body, HexDigits + 1), 0, 0, Big - 1) = IF body = <<>> THEN <<0>> ELSE Throws
    BY <2>3, <2>4 DEF Within
  <2> QED
    BY <1>4, <2>3, <2>5
<1>7. HexExact <=>
        /\ \A nibbles \in 1..HexDigits : parse_hex(text, nibbles, 0, AllOnes(nibbles))
             = IF Hexadecimal(body) /\ Len(body) <= nibbles THEN <<HexValue(body)>> ELSE Throws
        /\ parse_hex(text, HexDigits + 1, 0, Big - 1) = IF body = <<>> THEN <<0>> ELSE Throws
  BY Zenon DEF HexExact, Hexadecimal, HexValue, body
<1> QED
  BY <1>5, <1>6, <1>7

-----------------------------------------------------------------------------
(* parse_size and parse_duration                                           *)

\* A text with a sign starts with no digit.
LEMMA SignFirst ==
    ASSUME NEW S, NEW s \in Seq(S), NEW c, c \notin Decimal, Starts(s, c)
    PROVE  DigitRun(s) = 0 /\ Len(s) # 0 /\ s[0 + 1] = c
<1> DEFINE r == DigitRun(s)
           n == Len(s)
<1>1. n \in Nat /\ r \in 0..n /\ \A i \in 1..r : s[i] \in Decimal
  BY DigitRunIs, LenProperties
<1>2. n # 0 /\ s[1] = c
  BY EmptySeq DEF Starts
<1> HIDE DEF r, n
<1>3. r # 0 => 1 \in 1..r
  BY <1>1
<1>4. r = 0
  BY <1>1, <1>2, <1>3
<1>5. 0 + 1 = 1
  OBVIOUS
<1> QED
  BY <1>2, <1>4, <1>5 DEF r, n

\* What a narrow type holds of a product is the same whether or not the
\* wider type has wrapped before.
LEMMA NarrowTimes ==
    ASSUME NEW x \in Nat, NEW u \in Nat
    PROVE  ((x % Big) * u) % Small = (x * u) % Small
<1>1. Big \in Nat \ {0} /\ Small \in Nat \ {0} /\ Big % Small = 0
  BY Constants
<1> DEFINE y == x % Big
<1>2. y \in Nat
  BY <1>1, Remainder
<1>3. y % Small = x % Small
  BY <1>1, RemainderOfRemainder
<1> HIDE DEF y
<1>4. ((y % Small) * u) % Small = (y * u) % Small
  BY <1>1, <1>2, RemainderTimes
<1>5. ((x % Small) * u) % Small = (x * u) % Small
  BY <1>1, RemainderTimes
<1>6. (y * u) % Small = (x * u) % Small
  BY <1>3, <1>4, <1>5
<1> QED
  BY <1>6 DEF y

LEMMA SizeUnitsAre ==
    /\ DOMAIN SizeUnits = {"b", "k", "m", "g"}
    /\ \A u \in DOMAIN SizeUnits : SizeUnits[u] \in Nat
    /\ SizeUnits["g"] = Kilo * Kilo * Kilo
<1>1. Kilo \in Nat
  BY Constants
<1>2. Kilo * Kilo \in Nat
  BY <1>1, SMT
<1> DEFINE k2 == Kilo * Kilo
<1>3. k2 * Kilo \in Nat
  <2>1. k2 \in Nat
    BY <1>2
  <2> HIDE DEF k2
  <2> QED
    BY <1>1, <2>1, SMT
<1> DEFINE k3 == k2 * Kilo
<1>4. k2 \in Nat /\ k3 \in Nat
  BY <1>2, <1>3
<1>5. SizeUnits = [b |-> 1, k |-> Kilo, m |-> k2, g |-> k3]
  BY DEF SizeUnits
<1>6. k3 = Kilo * Kilo * Kilo
  OBVIOUS
<1> HIDE DEF k2, k3
<1>7. DOMAIN SizeUnits = {"b", "k", "m", "g"}
  BY <1>5
<1>8. SizeUnits["b"] = 1 /\ SizeUnits["k"] = Kilo /\ SizeUnits["m"] = k2 /\ SizeUnits["g"] = k3
  BY <1>5
<1>9. \A u \in DOMAIN SizeUnits : SizeUnits[u] \in Nat
  BY <1>1, <1>4, <1>7, <1>8
<1> QED
  BY <1>6, <1>7, <1>8, <1>9

LEMMA SecondsAre ==
    /\ DOMAIN Seconds = {"s", "m", "h", "d"}
    /\ \A u \in DOMAIN Seconds : Seconds[u] \in Nat
<1>1. DOMAIN Seconds = {"s", "m", "h", "d"}
  BY DEF Seconds
<1>2. Seconds["s"] = 1 /\ Seconds["m"] = 60 /\ Seconds["h"] = 3600 /\ Seconds["d"] = 86400
  BY DEF Seconds
<1> QED
  BY <1>1, <1>2

\* What a size is to be: a number of decimal digits and one unit.
SizeOf(s, x) ==
    LET n == DigitRun(s)
        unit == Lowered(s[n + 1])
        last == Len(s) = n + 1
    IN  IF Len(s) = n THEN <<x % Big>>
        ELSE IF last /\ unit = "g" THEN <<(x * (Kilo * Kilo * Kilo)) % Small>>
        ELSE IF last /\ unit \in DOMAIN SizeUnits THEN <<(x * SizeUnits[unit]) % Big>>
        ELSE Throws

LEMMA SizeParsed ==
    ASSUME NEW S, NEW s \in Seq(S), NEW F, DigitsRow(F, s)
    PROVE  parse_size(s) = SizeOf(s, F[DigitRun(s)])
<1> DEFINE n == DigitRun(s)
           k == Len(s)
           x == F[n]
           scanned == get_integer(s, Big - 1)
           rest == ScanFrom(s, n)
           unit == Lowered(s[n + 1])
<1>1. k \in Nat /\ n \in 0..k /\ x \in Nat
  BY DigitRunIs, LenProperties DEF DigitsRow
<1>2. scanned = [value |-> x % Big, rest |-> rest]
  BY IntegerWraps
<1>3. scanned.value = x % Big /\ scanned.rest = rest
  BY <1>2
<1>4. ((rest = <<>>) <=> (n = k)) /\ Len(rest) = k - n /\ \A i \in 1..(k - n) : rest[i] = s[n + i]
  <2>1. n \in 0..Len(s)
    BY <1>1
  <2> HIDE DEF n
  <2>2. (rest = <<>>) <=> (n = k)
    BY <2>1, NothingFollows
  <2>3. Len(rest) = k - n /\ \A i \in 1..(k - n) : rest[i] = s[n + i]
    BY <2>1, ScanFromIs
  <2> QED
    BY <2>2, <2>3
<1>5. DOMAIN SizeUnits = {"b", "k", "m", "g"} /\ SizeUnits["g"] = Kilo * Kilo * Kilo
  BY SizeUnitsAre
<1>6. CASE Starts(s, "-")
  <2>1. "-" \notin Decimal
    BY DEF Decimal
  <2>2. n = 0 /\ k # 0 /\ s[n + 1] = "-"
    BY <1>6, <2>1, SignFirst
  <2>3. unit = "-"
    BY <2>2 DEF Lowered
  <2>4. parse_size(s) = Throws
    BY <1>6 DEF parse_size
  <2> HIDE DEF unit
  <2>5. unit # "g" /\ unit \notin DOMAIN SizeUnits
    BY <1>5, <2>3
  <2> QED
    BY <2>2, <2>4, <2>5 DEF SizeOf, unit
<1>7. CASE ~Starts(s, "-") /\ n = k
  <2>1. parse_size(s) = <<x % Big>>
    BY <1>3, <1>4, <1>7 DEF parse_size
  <2> QED
    BY <1>7, <2>1 DEF SizeOf
<1>8. CASE ~Starts(s, "-") /\ n # k
  <2>1. 1 \in 1..(k - n) /\ (Len(rest) > 1 <=> k # n + 1)
    <3> HIDE DEF n, k, rest
    <3> QED
      BY <1>1, <1>4, <1>8
  <2>2. rest[1] = s[n + 1]
    BY <1>4, <2>1
  <2>3. parse_size(s) =
          IF Len(rest) > 1 \/ unit \notin DOMAIN SizeUnits THEN Throws
          ELSE <<((x % Big) * SizeUnits[unit]) % (IF unit = "g" THEN Small ELSE Big)>>
    BY <1>3, <1>4, <1>8, <2>2 DEF parse_size
  <2>4. SizeOf(s, x) =
          IF k = n + 1 /\ unit = "g" THEN <<(x * (Kilo * Kilo * Kilo)) % Small>>
          ELSE IF k = n + 1 /\ unit \in DOMAIN SizeUnits THEN <<(x * SizeUnits[unit]) % Big>>
          ELSE Throws
    BY <1>8 DEF SizeOf
  <2> DEFINE u == SizeUnits[unit]
  <2>5. unit \in DOMAIN SizeUnits => u \in Nat
    BY SizeUnitsAre
  <2>6. unit = "g" => u = Kilo * Kilo * Kilo /\ unit \in DOMAIN SizeUnits
    BY <1>5
  <2> HIDE DEF unit, x
  <2>7. CASE k # n + 1 \/ unit \notin DOMAIN SizeUnits
    BY <2>1, <2>3, <2>4, <2>6, <2>7 DEF x
  <2>8. CASE k = n + 1 /\ unit = "g"
    <3>1. u \in Nat
      BY <2>5, <2>6, <2>8
    <3>2. parse_size(s) = <<((x % Big) * u) % Small>>
      BY <2>1, <2>3, <2>6, <2>8
    <3>3. SizeOf(s, x) = <<(x * u) % Small>>
      BY <2>4, <2>6, <2>8
    <3> HIDE DEF u
    <3>4. ((x % Big) * u) % Small = (x * u) % Small
      BY <1>1, <3>1, NarrowTimes
    <3> QED
      BY <3>2, <3>3, <3>4 DEF x
  <2>9. CASE k = n + 1 /\ unit # "g" /\ unit \in DOMAIN SizeUnits
    <3>1. u \in Nat
      BY <2>5, <2>9
    <3>2. parse_size(s) = <<((x % Big) * u) % Big>>
      BY <2>1, <2>3, <2>9
    <3>3. SizeOf(s, x) = <<(x * u) % Big>>
      BY <2>4, <2>9
    <3> HIDE DEF u
    <3>4. ((x % Big) * u) % Big = (x * u) % Big
      BY <1>1, <3>1, RemainderTimes, Constants
    <3> QED
      BY <3>2, <3>3, <3>4 DEF x
  <2> QED
    BY <2>7, <2>8, <2>9
<1> QED
  BY <1>6, <1>7, <1>8

\* What a duration is to be.
DurationOf(s, ms, x) ==
    LET n == DigitRun(s)
        unit == Lowered(s[n + 1])
        last == Len(s) = n + 1
    IN  IF x >= Small THEN Throws
        ELSE IF Len(s) = n \/ (ms /\ ScanFrom(s, n) = <<"m", "s">>) THEN <<x>>
        ELSE IF last /\ unit \in DOMAIN Seconds
          THEN <<(x * (IF ms THEN 1000 ELSE 1) * (Seconds[unit] % Small)) % Small>>
        ELSE Throws

\* Each product is taken in the narrow type.
LEMMA NarrowScaled ==
    ASSUME NEW x \in Nat, NEW scale \in Nat, NEW u \in Nat
    PROVE  (((x * scale) % Small) * u) % Small = (x * scale * (u % Small)) % Small
<1> DEFINE y == x * scale
<1>1. Small \in Nat \ {0}
  BY Constants
<1>2. y \in Nat
  BY SMT
<1> HIDE DEF y
<1>3. ((y % Small) * u) % Small = (y * u) % Small
  BY <1>1, <1>2, RemainderTimes
<1>4. ((u % Small) * y) % Small = (u * y) % Small
  BY <1>1, <1>2, RemainderTimes
<1>5. u % Small \in Nat
  BY <1>1, Remainder
<1> DEFINE v == u % Small
<1>6. v * y = y * v /\ u * y = y * u
  BY <1>2, <1>5, SMT
<1>7. (y * v) % Small = (y * u) % Small
  BY <1>4, <1>6
<1> QED
  BY <1>3, <1>7 DEF y, v

LEMMA DurationParsed ==
    ASSUME NEW S, NEW s \in Seq(S), NEW F, DigitsRow(F, s), NEW ms \in BOOLEAN
    PROVE  parse_duration(s, ms) = DurationOf(s, ms, F[DigitRun(s)])
<1> DEFINE n == DigitRun(s)
           k == Len(s)
           x == F[n]
           max == Small - 1
           scanned == get_integer(s, max)
           rest == ScanFrom(s, n)
           unit == Lowered(s[n + 1])
           scale == IF ms THEN 1000 ELSE 1
           both == <<"m", "s">>
<1>1. k \in Nat /\ n \in 0..k /\ x \in Nat /\ n \in 0..Len(s)
  BY DigitRunIs, LenProperties DEF DigitsRow
<1>2. max \in Nat /\ 10 * max + 9 < Big /\ max < Big /\ Small \in Nat /\ max \in 0..(Small - 1)
  BY Constants
<1>3. DOMAIN Seconds = {"s", "m", "h", "d"} /\ \A u \in DOMAIN Seconds : Seconds[u] \in Nat
  BY SecondsAre
<1>4. "m" \notin Decimal /\ "-" \notin Decimal /\ both[1] = "m"
  BY DEF Decimal
<1>5. parse_duration(s, ms) =
        IF Starts(s, "-") THEN Throws
        ELSE IF scanned.rest = <<>> \/ (ms /\ scanned.rest = both) THEN <<scanned.value>>
        ELSE IF Len(scanned.rest) > 1 \/ Lowered(scanned.rest[1]) \notin DOMAIN Seconds THEN Throws
        ELSE <<(((scanned.value * scale) % Small) * Seconds[Lowered(scanned.rest[1])]) % Small>>
  BY DEF parse_duration
<1>6. CASE x > max
  <2>1. Stopped(s, max, scanned)
    BY <1>2, <1>6, IntegerStops
  <2>2. scanned.rest # <<>> /\ scanned.rest[1] \in Decimal
    BY <2>1, StoppedShort
  <2>3. scanned.rest # both
    BY <1>4, <2>2
  <2>4. \A c \in Decimal : Lowered(c) \notin DOMAIN Seconds
    <3>1. \A c \in Decimal : Lowered(c) = c
      BY DEF Decimal, Lowered
    <3> QED
      BY <1>3, <3>1 DEF Decimal
  <2>5. x >= Small
    BY <1>1, <1>2, <1>6
  <2> HIDE DEF scanned, both
  <2>6. parse_duration(s, ms) = Throws
    BY <1>5, <2>2, <2>3, <2>4
  <2> QED
    BY <2>5, <2>6 DEF DurationOf
<1>7. CASE x <= max
  <2>1. scanned = [value |-> x, rest |-> rest]
    BY <1>2, <1>7, IntegerFits
  <2>2. scanned.value = x /\ scanned.rest = rest
    BY <2>1
  <2>3. (rest = <<>>) <=> (n = k)
    BY <1>1, NothingFollows
  <2>4. Len(rest) = k - n /\ \A i \in 1..(k - n) : rest[i] = s[n + i]
    BY <1>1, ScanFromIs
  <2>5. n # k => 1 \in 1..(k - n) /\ (Len(rest) > 1 <=> k # n + 1)
    <3> HIDE DEF n, k, rest
    <3> QED
      BY <1>1, <2>4
  <2>6. n # k => rest[1] = s[n + 1]
    BY <2>4, <2>5
  <2>7. ~(x >= Small)
    BY <1>1, <1>2, <1>7
  <2>8. DurationOf(s, ms, x) =
          IF k = n \/ (ms /\ rest = both) THEN <<x>>
          ELSE IF k = n + 1 /\ unit \in DOMAIN Seconds
            THEN <<(x * scale * (Seconds[unit] % Small)) % Small>>
          ELSE Throws
    BY <2>7 DEF DurationOf
  <2> HIDE DEF scanned, both, rest, x
  <2>9. CASE Starts(s, "-")
    <3>1. n = 0 /\ k # 0 /\ s[n + 1] = "-"
      BY <1>4, <2>9, SignFirst
    <3>2. unit = "-"
      BY <3>1 DEF Lowered
    <3>3. rest # both
      BY <1>4, <2>6, <3>1
    <3> HIDE DEF unit
    <3>4. unit \notin DOMAIN Seconds
      BY <1>3, <3>2
    <3>5. DurationOf(s, ms, x) = Throws
      BY <2>8, <3>1, <3>3, <3>4
    <3> QED
      BY <1>5, <2>9, <3>5 DEF x
  <2>10. CASE ~Starts(s, "-") /\ (k = n \/ (ms /\ rest = both))
    <3>1. parse_duration(s, ms) = <<x>>
      BY <1>5, <2>2, <2>3, <2>10
    <3>2. DurationOf(s, ms, x) = <<x>>
      BY <2>8, <2>10
    <3> QED
      BY <3>1, <3>2 DEF x
  <2>11. CASE ~Starts(s, "-") /\ k # n /\ ~(ms /\ rest = both)
    <3>1. parse_duration(s, ms) =
            IF k # n + 1 \/ unit \notin DOMAIN Seconds THEN Throws
            ELSE <<(((x * scale) % Small) * Seconds[unit]) % Small>>
      BY <1>5, <2>2, <2>3, <2>5, <2>6, <2>11
    <3>2. unit \in DOMAIN Seconds => Seconds[unit] \in Nat
      BY <1>3
    <3> DEFINE u == Seconds[unit]
    <3> HIDE DEF unit
    <3>3. scale \in Nat
      OBVIOUS
    <3>4. CASE k = n + 1 /\ unit \in DOMAIN Seconds
      <4>1. u \in Nat
        BY <3>2, <3>4
      <4>2. parse_duration(s, ms) = <<(((x * scale) % Small) * u) % Small>>
        BY <3>1, <3>4
      <4>3. DurationOf(s, ms, x) = <<(x * scale * (u % Small)) % Small>>
        BY <2>8, <2>11, <3>4
      <4> HIDE DEF u, scale
      <4>4. (((x * scale) % Small) * u) % Small = (x * scale * (u % Small)) % Small
        BY <1>1, <3>3, <4>1, NarrowScaled
      <4> QED
        BY <4>2, <4>3, <4>4 DEF x
    <3>5. CASE ~(k = n + 1 /\ unit \in DOMAIN Seconds)
      <4>1. parse_duration(s, ms) = Throws
        BY <3>1, <3>5
      <4>2. DurationOf(s, ms, x) = Throws
        BY <2>8, <2>11, <3>5
      <4> QED
        BY <4>1, <4>2 DEF x
    <3> QED
      BY <3>4, <3>5
  <2> QED
    BY <2>9, <2>10, <2>11
<1> QED
  BY <1>1, <1>2, <1>6, <1>7

LEMMA UnitsHold ==
    ASSUME text \in Seq(Letters)
    PROVE  UnitsWrap
<1>1. PICK F : DigitsRow(F, text)
  BY DigitsRowExists
<1> DEFINE n == DigitRun(text)
           x == F[n]
<1>2. n \in 0..n
  BY DigitRunIs, LenProperties
<1>3. Written(SubSeq(text, 1, n)) = x
  BY <1>1, <1>2, DigitsRowWrites
<1>4. parse_size(text) = SizeOf(text, x)
  BY <1>1, SizeParsed
<1>5. \A ms \in BOOLEAN : parse_duration(text, ms) = DurationOf(text, ms, x)
  BY <1>1, DurationParsed
<1> HIDE DEF x
<1>6. UnitsWrap <=>
        /\ parse_size(text) = SizeOf(text, Written(SubSeq(text, 1, n)))
        /\ \A ms \in BOOLEAN : parse_duration(text, ms) = DurationOf(text, ms, Written(SubSeq(text, 1, n)))
  BY Zenon DEF UnitsWrap, SizeOf, DurationOf
<1> QED
  BY <1>3, <1>4, <1>5, <1>6

-----------------------------------------------------------------------------
(* parse_decimal and parse_real                                            *)

\* A number read in two parts.
LEMMA NumberJoins ==
    ASSUME NEW radix \in Nat \ {0}, NEW start \in Nat, NEW ds \in Seq(Nat), NEW es \in Seq(Nat)
    PROVE  Number(radix, Number(radix, start, ds), es) = Number(radix, start, ds \o es)
<1> DEFINE all == ds \o es
           n == Len(ds)
           m == Len(es)
<1>1. /\ all \in Seq(Nat) /\ Len(all) = n + m /\ n \in Nat /\ m \in Nat
      /\ \A i \in 1..Len(all) : all[i] = IF i <= n THEN ds[i] ELSE es[i - n]
  BY ConcatProperties, LenProperties
<1> HIDE DEF all
<1>2. PICK H : NumberRow(H, radix, start, all)
  BY <1>1, NumberRowExists
<1>3. Number(radix, start, all) = H[n + m]
  <2>1. Number(radix, start, all) = H[Len(all)]
    BY <1>1, <1>2, NumberIs
  <2> QED
    BY <1>1, <2>1
<1>4. Len(ds) <= Len(all) /\ \A i \in 1..Len(ds) : ds[i] = all[i]
  <2>1. \A i \in 1..n : i \in 1..Len(all) /\ i <= n
    BY <1>1
  <2> QED
    BY <1>1, <2>1
<1>5. Number(radix, start, ds) = H[n]
  <2>1. all \in Seq(Nat) /\ ds \in Seq(Nat)
    BY <1>1
  <2> QED
    BY <1>2, <1>4, <2>1, NumberRowStarts
<1> HIDE DEF n, m
<1> DEFINE G == [i \in 0..m |-> H[n + i]]
<1>6. H \in [0..(n + m) -> Nat] /\ \A i \in 1..(n + m) : H[i] = radix * H[i - 1] + all[i]
  BY <1>1, <1>2 DEF NumberRow
<1>7. \A i \in 0..m : n + i \in 0..(n + m)
  BY <1>1
<1>8. G \in [0..m -> Nat]
  BY <1>6, <1>7
<1>9. G[0] = H[n] /\ G[m] = H[n + m]
  <2>1. 0 \in 0..m /\ m \in 0..m /\ n + 0 = n
    BY <1>1
  <2> QED
    BY <2>1
<1>10. ASSUME NEW i \in 1..m
       PROVE  G[i] = radix * G[i - 1] + es[i]
  <2> DEFINE j == n + i
  <2>1. j \in 1..(n + m) /\ j - 1 = n + (i - 1) /\ i \in 0..m /\ i - 1 \in 0..m /\ ~(j <= n) /\ j - n = i
    BY <1>1
  <2>2. G[i] = H[j] /\ G[i - 1] = H[j - 1]
    BY <2>1
  <2> HIDE DEF j
  <2>3. all[j] = es[i]
    BY <1>1, <2>1
  <2> HIDE DEF G
  <2> QED
    BY <1>6, <2>1, <2>2, <2>3
<1> HIDE DEF G
<1>11. NumberRow(G, radix, H[n], es)
  BY <1>8, <1>9, <1>10 DEF NumberRow, m
<1>12. Number(radix, H[n], es) = G[m]
  BY <1>11, NumberIs DEF m
<1> QED
  BY <1>3, <1>5, <1>9, <1>12 DEF all

LEMMA WrittenJoins ==
    ASSUME NEW S, NEW s \in Seq(S), NEW t \in Seq(S),
           \A i \in 1..Len(s) : s[i] \in Decimal, \A i \in 1..Len(t) : t[i] \in Decimal
    PROVE  Written(s \o t) = Number(10, Written(s), Values(t))
<1> DEFINE all == s \o t
           n == Len(s)
           m == Len(t)
           ds == Values(s)
           es == Values(t)
           both == ds \o es
<1>1. n \in Nat /\ m \in Nat /\ \A i \in 1..n : s[i] \in Decimal
  BY LenProperties
<1>2. \A i \in 1..m : t[i] \in Decimal
  OBVIOUS
<1>3. /\ all \in Seq(S) /\ Len(all) = n + m
      /\ \A i \in 1..Len(all) : all[i] = IF i <= n THEN s[i] ELSE t[i - n]
  BY ConcatProperties
<1>4. ds \in Seq(Nat) /\ Len(ds) = n /\ \A i \in 1..n : ds[i] = DigitOf[s[i]]
  BY ValuesTyped
<1>5. es \in Seq(Nat) /\ Len(es) = m /\ \A i \in 1..m : es[i] = DigitOf[t[i]]
  BY ValuesTyped
<1> HIDE DEF all, ds, es
<1>6. /\ both \in Seq(Nat) /\ Len(both) = Len(ds) + Len(es)
      /\ \A i \in 1..Len(both) : both[i] = IF i <= Len(ds) THEN ds[i] ELSE es[i - Len(ds)]
  <2>1. ds \in Seq(Nat) /\ es \in Seq(Nat)
    BY <1>4, <1>5
  <2> DEFINE T == Nat
  <2>2. ds \in Seq(T) /\ es \in Seq(T)
    BY <2>1
  <2> HIDE DEF T
  <2>3. /\ both \in Seq(T) /\ Len(both) = Len(ds) + Len(es)
        /\ \A i \in 1..(Len(ds) + Len(es)) : both[i] = IF i <= Len(ds) THEN ds[i] ELSE es[i - Len(ds)]
    BY <2>2, ConcatProperties
  <2> QED
    BY <2>3 DEF T
<1> HIDE DEF n, m, both
<1>7. \A i \in 1..(n + m) : (i <= n => i \in 1..n) /\ (~(i <= n) => i - n \in 1..m)
  BY <1>1
<1>8. ASSUME NEW i \in 1..(n + m)
      PROVE  all[i] \in Decimal /\ both[i] = DigitOf[all[i]]
  <2>1. all[i] = (IF i <= n THEN s[i] ELSE t[i - n]) /\ both[i] = (IF i <= n THEN ds[i] ELSE es[i - n])
    BY <1>3, <1>4, <1>5, <1>6
  <2>2. CASE i <= n
    <3>1. i \in 1..n
      BY <1>7, <2>2
    <3>2. s[i] \in Decimal /\ ds[i] = DigitOf[s[i]]
      BY <1>1, <1>4, <3>1
    <3> QED
      BY <2>1, <2>2, <3>2
  <2>3. CASE ~(i <= n)
    <3> DEFINE j == i - n
    <3>1. j \in 1..m
      BY <1>7, <2>3
    <3>2. all[i] = t[j] /\ both[i] = es[j]
      BY <2>1, <2>3
    <3> HIDE DEF j
    <3>3. t[j] \in Decimal /\ es[j] = DigitOf[t[j]]
      BY <1>2, <1>5, <3>1
    <3> QED
      BY <3>2, <3>3
  <2> QED
    BY <2>2, <2>3
<1>9. all \in Seq(S) /\ \A i \in 1..Len(all) : all[i] \in Decimal
  BY <1>3, <1>8
<1> DEFINE v == Values(all)
<1>10. v \in Seq(Nat) /\ Len(v) = Len(all) /\ \A i \in 1..Len(all) : v[i] = DigitOf[all[i]]
  BY <1>9, ValuesTyped
<1> HIDE DEF v
<1>11. Len(v) = Len(both) /\ \A i \in 1..Len(v) : v[i] = both[i]
  <2>1. Len(v) = n + m /\ Len(both) = n + m /\ Len(all) = n + m
    BY <1>3, <1>4, <1>5, <1>6, <1>10
  <2>2. \A i \in 1..(n + m) : v[i] = DigitOf[all[i]]
    BY <1>10, <2>1
  <2> QED
    BY <1>8, <2>1, <2>2
<1>12. v \in Seq(Nat) /\ both \in Seq(Nat)
  BY <1>6, <1>10
<1>13. v = both
  BY <1>11, <1>12, SeqEqual
<1> DEFINE radix == 10
           start == 0
<1>14. radix \in Nat \ {0} /\ start \in Nat /\ ds \in Seq(Nat) /\ es \in Seq(Nat)
  BY <1>4, <1>5
<1>15. Written(all) = Number(radix, start, v) /\ Written(s) = Number(radix, start, ds)
  BY DEF Written, v, ds
<1> HIDE DEF radix, start
<1>16. Number(radix, Number(radix, start, ds), es) = Number(radix, start, ds \o es)
  BY <1>14, NumberJoins
<1> QED
  BY <1>13, <1>15, <1>16 DEF both, es, all, radix

\* Dropping one more character.
LEMMA ScanOneMore ==
    ASSUME NEW S, NEW s \in Seq(S), NEW p \in 0..Len(s), p < Len(s)
    PROVE  ScanFrom(ScanFrom(s, p), 1) = ScanFrom(s, p + 1)
<1> DEFINE k == Len(s)
           t == ScanFrom(s, p)
           one == 1
           q == p + 1
           u == ScanFrom(t, one)
           v == ScanFrom(s, q)
<1>1. k \in Nat /\ p \in 0..k /\ p < k
  BY LenProperties
<1>2. t \in Seq(S) /\ Len(t) = k - p /\ \A i \in 1..(k - p) : t[i] = s[p + i]
  BY ScanFromIs
<1> HIDE DEF t
<1>3. one \in 0..Len(t) /\ q \in 0..Len(s)
  BY <1>1, <1>2
<1> HIDE DEF one, q
<1>4. u \in Seq(S) /\ Len(u) = Len(t) - one /\ \A i \in 1..(Len(t) - one) : u[i] = t[one + i]
  <2>1. t \in Seq(S) /\ one \in 0..Len(t)
    BY <1>2, <1>3
  <2> QED
    BY <2>1, ScanFromIs
<1>5. v \in Seq(S) /\ Len(v) = k - q /\ \A i \in 1..(k - q) : v[i] = s[q + i]
  BY <1>3, ScanFromIs
<1> HIDE DEF k, u, v
<1>6. Len(t) - one = k - q /\ k - q \in Int
  BY <1>1, <1>2 DEF one, q
<1>7. ASSUME NEW i \in 1..(k - q)
      PROVE  u[i] = v[i]
  <2>1. one + i \in 1..(k - p) /\ p + (one + i) = q + i
    BY <1>1 DEF one, q
  <2>2. u[i] = t[one + i]
    BY <1>4, <1>6
  <2>3. t[one + i] = s[p + (one + i)]
    BY <1>2, <2>1
  <2>4. v[i] = s[q + i]
    BY <1>5
  <2> QED
    BY <2>1, <2>2, <2>3, <2>4
<1>8. Len(u) = Len(v) /\ \A i \in 1..Len(u) : u[i] = v[i]
  BY <1>4, <1>5, <1>6, <1>7
<1>9. u \in Seq(S) /\ v \in Seq(S)
  BY <1>4, <1>5
<1>10. u = v
  BY <1>8, <1>9, SeqEqual
<1> QED
  BY <1>10 DEF u, v, t, one, q

\* The digits of a row, when they end the text or another character follows.
LEMMA DecimalRow ==
    ASSUME NEW S, NEW s \in Seq(S), AllDigits(s)
    PROVE  \A i \in 1..Len(s) : s[i] \in Decimal
<1>1. DOMAIN s = 1..Len(s)
  BY LenProperties
<1> QED
  BY <1>1 DEF AllDigits, ToSet

\* What parse_decimal and parse_real answer to a scanned text.
Signless(scanned) ==
    IF scanned.rest # <<>> THEN Throws ELSE <<[negative |-> FALSE, number |-> scanned.value]>>

\* A number with a point is read in two parts, unless the first is stopped.
LEMMA PointRead ==
    ASSUME NEW S, NEW s \in Seq(S), NEW p \in 0..Len(s), p < Len(s), s[p + 1] = ".",
           AllDigits(SubSeq(s, 1, p)), AllDigits(ScanFrom(s, p + 1)),
           NEW max \in Nat, 10 * max + 9 < Big, NEW x, x = Written(SubSeq(s, 1, p))
    PROVE  /\ ~Starts(s, "-")
           /\ x \in Nat
           /\ x > max => get_double(s, max).rest # <<>>
           /\ x <= max => get_double(s, max) =
                [value |-> <<Written(SubSeq(s, 1, p) \o ScanFrom(s, p + 1)), -Len(ScanFrom(s, p + 1))>>,
                 rest |-> <<>>]
<1> DEFINE k == Len(s)
           whole == SubSeq(s, 1, p)
           places == ScanFrom(s, p + 1)
           scanned == get_integer(s, max)
           after == ScanFrom(scanned.rest, 1)
           number == get_decimal(s, max)
           m == DigitRun(after)
           digits == Number(10, scanned.value, Values(SubSeq(after, 1, m)))
<1>1. k \in Nat /\ p \in 0..k /\ p < k /\ p + 1 \in 0..Len(s) /\ p \in Int /\ p <= Len(s)
  BY LenProperties
<1>2. /\ whole \in Seq(S) /\ Len(whole) = p /\ \A i \in 1..p : whole[i] = s[i]
  <2>1. /\ whole \in Seq(S) /\ Len(whole) = (IF 1 <= p THEN p ELSE 0) /\ \A i \in 1..p : whole[i] = s[i]
    BY <1>1, FirstPart
  <2>2. (IF 1 <= p THEN p ELSE 0) = p
    BY <1>1
  <2> QED
    BY <2>1, <2>2
<1>3. \A i \in 1..p : whole[i] \in Decimal /\ s[i] \in Decimal
  BY <1>2, DecimalRow
<1>4. places \in Seq(S) /\ \A i \in 1..Len(places) : places[i] \in Decimal
  <2>1. places \in Seq(S)
    BY <1>1, ScanFromIs
  <2> QED
    BY <2>1, DecimalRow
<1>5. "." \notin Decimal /\ "-" \notin Decimal /\ "e" \notin Decimal /\ "E" \notin Decimal
  BY DEF Decimal
<1>6. DigitRun(s) = p
  <2>1. \A i \in 1..p : s[i] \in Decimal
    BY <1>3
  <2>2. p < Len(s) => s[p + 1] \notin Decimal
    BY <1>5
  <2> QED
    BY <2>1, <2>2, DigitRunOf
<1>7. ~Starts(s, "-")
  <2>1. Starts(s, "-") => DigitRun(s) = 0 /\ s[0 + 1] = "-"
    BY <1>5, SignFirst
  <2> QED
    BY <1>6, <2>1
<1>8. PICK F : DigitsRow(F, s)
  BY DigitsRowExists
<1>9. F[p] = x /\ x \in Nat
  <2>1. p \in 0..DigitRun(s)
    BY <1>1, <1>6
  <2>2. Written(SubSeq(s, 1, p)) = F[p]
    BY <1>8, <2>1, DigitsRowWrites
  <2> QED
    BY <1>8, <2>1, <2>2 DEF DigitsRow
<1>10. ASSUME x > max
       PROVE  get_double(s, max).rest # <<>>
  <2>1. Stopped(s, max, scanned)
    BY <1>6, <1>8, <1>9, <1>10, IntegerStops
  <2>2. scanned.rest # <<>> /\ scanned.rest[1] \in Decimal
    BY <2>1, StoppedShort
  <2> HIDE DEF scanned
  <2>3. ~Starts(scanned.rest, ".") /\ ~Starts(scanned.rest, "e") /\ ~Starts(scanned.rest, "E")
    BY <1>5, <2>2 DEF Starts
  <2>4. number = [value |-> <<scanned.value, 0>>, rest |-> scanned.rest]
    BY <2>3 DEF get_decimal, scanned
  <2>5. number.rest = scanned.rest
    BY <2>4
  <2> HIDE DEF number
  <2>6. get_double(s, max) = number
    BY <2>3, <2>5 DEF get_double, number
  <2> QED
    BY <2>2, <2>5, <2>6
<1>11. ASSUME x <= max
       PROVE  get_double(s, max) =
                [value |-> <<Written(whole \o places), -Len(places)>>, rest |-> <<>>]
  <2>1. max < Big
    BY Constants
  <2>2. scanned = [value |-> x, rest |-> ScanFrom(s, p)]
    BY <1>6, <1>8, <1>9, <1>11, <2>1, IntegerFits
  <2>3. scanned.value = x /\ scanned.rest = ScanFrom(s, p)
    BY <2>2
  <2>4. Starts(scanned.rest, ".")
    BY <1>1, <2>3, LeftStarts
  <2>5. ScanFrom(ScanFrom(s, p), 1) = places
    BY <1>1, ScanOneMore
  <2>6. after = places
    BY <2>3, <2>5
  <2>7. m = Len(places) /\ ScanFrom(places, Len(places)) = <<>> /\ SubSeq(places, 1, Len(places)) = places
    <3> DEFINE n == Len(places)
    <3>1. n \in 0..Len(places)
      BY <1>4, LenProperties
    <3>2. DigitRun(places) = Len(places)
      BY <1>4, AllDigitsWhere
    <3>3. ScanFrom(places, n) = <<>>
      BY <1>4, <3>1, NothingFollows
    <3>4. SubSeq(places, 1, Len(places)) = places
      BY <1>4, WholeText
    <3> QED
      BY <2>6, <3>2, <3>3, <3>4
  <2>8. Written(whole \o places) = Number(10, x, Values(places))
    <3>1. \A i \in 1..Len(whole) : whole[i] \in Decimal
      BY <1>2, <1>3
    <3>2. whole \in Seq(S) /\ places \in Seq(S) /\ \A i \in 1..Len(places) : places[i] \in Decimal
      BY <1>2, <1>4
    <3> HIDE DEF whole, places
    <3>3. Written(whole \o places) = Number(10, Written(whole), Values(places))
      BY <3>1, <3>2, WrittenJoins
    <3> QED
      BY <3>3 DEF whole
  <2>9. number = [value |-> <<digits, -m>>, rest |-> ScanFrom(after, m)]
    BY <2>4 DEF get_decimal
  <2> HIDE DEF number, scanned, after, m, places, whole
  <2>10. digits = Written(whole \o places)
    BY <2>3, <2>6, <2>7, <2>8
  <2> HIDE DEF digits
  <2>11. number = [value |-> <<Written(whole \o places), -Len(places)>>, rest |-> <<>>]
    BY <2>6, <2>7, <2>9, <2>10
  <2>12. number.rest = <<>>
    BY <2>11
  <2>13. ~Starts(number.rest, "e") /\ ~Starts(number.rest, "E")
    BY <2>12 DEF Starts
  <2>14. get_double(s, max) = number
    BY <2>13 DEF get_double, number
  <2> QED
    BY <2>11, <2>14
<1> QED
  BY <1>7, <1>9, <1>10, <1>11

LEMMA RealHolds ==
    ASSUME text \in Seq(Letters)
    PROVE  RealExact
<1> DEFINE max == Small \div 2 - 1
           Tail1 == IF Starts(text, "-") THEN ScanFrom(text, 1) ELSE text
           dec == get_decimal(Tail1, max)
           dbl == get_double(Tail1, max)
<1>1. max \in 0..(Small - 1) /\ Small \in Nat /\ max + 1 = Small \div 2
  BY Constants
<1>2. max \in Nat /\ 10 * max + 9 < Big
  BY <1>1, Narrow
<1>3. parse_decimal(text) = IF dec.rest # <<>> THEN Throws
                            ELSE <<[negative |-> Starts(text, "-"), number |-> dec.value]>>
  BY DEF parse_decimal, Negatable
<1>4. parse_real(text) = IF dbl.rest # <<>> THEN Throws
                         ELSE <<[negative |-> Starts(text, "-"), number |-> dbl.value]>>
  BY DEF parse_real, Negatable
<1>5. parse_decimal(text) # Throws => parse_real(text) = parse_decimal(text)
  <2> SUFFICES ASSUME parse_decimal(text) # Throws PROVE parse_real(text) = parse_decimal(text)
    OBVIOUS
  <2>1. dec.rest = <<>>
    BY <1>3
  <2>2. ~Starts(dec.rest, "e") /\ ~Starts(dec.rest, "E")
    BY <2>1 DEF Starts
  <2> HIDE DEF Tail1, max
  <2>3. dbl = dec
    BY <2>2 DEF get_double
  <2> QED
    BY <1>3, <1>4, <2>3
<1>6. ASSUME NEW p \in 0..Len(text), p < Len(text), text[p + 1] = ".",
             AllDigits(SubSeq(text, 1, p)), AllDigits(ScanFrom(text, p + 1))
      PROVE  parse_real(text) =
                 IF Written(SubSeq(text, 1, p)) >= Small \div 2 THEN Throws
                 ELSE <<[negative |-> FALSE,
                         number |-> <<Written(SubSeq(text, 1, p) \o ScanFrom(text, p + 1)),
                                      -Len(ScanFrom(text, p + 1))>>]>>
  <2> DEFINE x == Written(SubSeq(text, 1, p))
             value == <<Written(SubSeq(text, 1, p) \o ScanFrom(text, p + 1)), -Len(ScanFrom(text, p + 1))>>
             double == get_double(text, max)
  <2> HIDE DEF max
  <2>1. /\ ~Starts(text, "-")
        /\ x \in Nat
        /\ x > max => get_double(text, max).rest # <<>>
        /\ x <= max => get_double(text, max) = [value |-> value, rest |-> <<>>]
    BY <1>2, <1>6, PointRead
  <2>2. parse_real(text) = IF double.rest # <<>> THEN Throws
                           ELSE <<[negative |-> FALSE, number |-> double.value]>>
    <3>1. dbl = double
      BY <2>1
    <3>2. Starts(text, "-") = FALSE
      BY <2>1 DEF Starts
    <3> HIDE DEF dbl, double
    <3> QED
      BY <1>4, <3>1, <3>2, Zenon
  <2>3. x >= Small \div 2 <=> x > max
    BY <1>1, <2>1
  <2>4. x > max \/ x <= max
    BY <1>2, <2>1
  <2> HIDE DEF x, value
  <2>5. CASE x > max
    BY <2>1, <2>2, <2>3, <2>5 DEF x
  <2>6. CASE x <= max
    <3>1. double.rest = <<>> /\ double.value = value
      BY <2>1, <2>6
    <3>2. ~(x >= Small \div 2)
      BY <1>2, <2>1, <2>3, <2>6
    <3> HIDE DEF double
    <3> QED
      BY <2>2, <3>1, <3>2 DEF x, value
  <2> QED
    BY <2>4, <2>5, <2>6
<1> QED
  BY <1>5, <1>6, Zenon DEF RealExact

\* The parsers of scan.hpp answer the number written or throw: those of narrow
\* types exactly, those of 64 bits modulo their width, hexadecimal ones as far
\* as get_hex reads, sizes and durations modulo the width of their result, and
\* parse_real whatever parse_decimal accepts: of every text, for every width
\* that leaves a narrow type ten times below the wide one.
THEOREM ScanSafe == ScanSpec => []ScanInv
<1> DEFINE TextIn == text \in Seq(Letters)
<1>1. ScanInit => TextIn
  <2>1. <<>> \in Seq(Letters)
    BY EmptySeq
  <2> QED
    BY <2>1 DEF ScanInit
<1>2. TextIn /\ [Grows]_text => TextIn'
  <2> SUFFICES ASSUME TextIn, [Grows]_text PROVE TextIn'
    OBVIOUS
  <2>1. CASE Grows
    <3>1. PICK c \in Letters : text' = Append(text, c)
      BY <2>1 DEF Grows
    <3> QED
      BY <3>1, AppendProperties
  <2>2. CASE UNCHANGED text
    BY <2>2
  <2> QED
    BY <2>1, <2>2
<1>3. TextIn => ScanInv
  BY NarrowHolds, WideHolds, HexHolds, UnitsHold, RealHolds DEF ScanInv
<1> QED
  BY <1>1, <1>2, <1>3, PTL DEF ScanSpec
=============================================================================
