----------------------------- MODULE ListLemmas -----------------------------
(***************************************************************************)
(* Lemmas about finite lists and numbers that the proofs about slots, warm *)
(* pools and gates rest on.  Entries of a list are distinct, as those of   *)
(* an array of ids are.                                                    *)
(***************************************************************************)
EXTENDS Integers, Sequences, FiniteSets, SequencesExt, FiniteSetsExt,
        FiniteSetTheorems, WellFoundedInduction, TLAPS

\* A set of numbers has a least element: what induction is done with here.
LEMMA LeastNumber ==
    ASSUME NEW T, T \subseteq Nat, T # {}
    PROVE  \E x \in T : \A y \in T : x <= y
<1> DEFINE R == OpToRel(<, Nat)
<1>1. IsWellFoundedOn(R, Nat)
  BY NatLessThanWellFounded
<1>2. PICK x \in T : \A y \in T : ~ (<<y, x>> \in R)
  <2> HIDE DEF R
  <2> QED BY <1>1, WFMin
<1>3. \A y \in T : ~ (y < x)
  BY <1>2 DEF OpToRel
<1> QED BY <1>3

\* The first of some places of a list is one of its places.
LEMMA FoundPlace ==
    ASSUME NEW n \in Nat, NEW I, I \subseteq 1..n, I # {}
    PROVE  Min(I) \in 1..n
<1>1. I \subseteq Nat
  OBVIOUS
<1>2. PICK x \in I : \A y \in I : x <= y
  BY <1>1, LeastNumber
<1> QED BY <1>2 DEF Min

\* A list without its first entry ...
LEMMA RestOfList ==
    ASSUME NEW T, NEW seq \in Seq(T), seq # <<>>, IsInjective(seq)
    PROVE  /\ seq[1] \in ToSet(seq)
           /\ SubSeq(seq, 2, Len(seq)) \in Seq(T)
           /\ ToSet(SubSeq(seq, 2, Len(seq))) = ToSet(seq) \ {seq[1]}
           /\ IsInjective(SubSeq(seq, 2, Len(seq)))
<1> DEFINE rest == SubSeq(seq, 2, Len(seq))
           n == Len(seq)
<1>1. n \in Nat /\ n >= 1 /\ DOMAIN seq = 1..n
  OBVIOUS
<1>2. rest \in Seq(T) /\ DOMAIN rest = 1..(n - 1)
      /\ \A i \in 1..(n - 1) : rest[i] = seq[i + 1]
  BY <1>1
<1>3. ASSUME NEW i \in 2..n
      PROVE  seq[i] \in ToSet(rest)
  <2>1. i - 1 \in 1..(n - 1) /\ rest[i - 1] = seq[i]
    BY <1>1, <1>2
  <2> HIDE DEF rest
  <2> QED BY <2>1, <1>2 DEF ToSet
<1>4. \A i \in 2..n : seq[i] # seq[1]
  BY <1>1 DEF IsInjective
<1>5. ASSUME NEW i \in 1..(n - 1)
      PROVE  rest[i] \in ToSet(seq) \ {seq[1]}
  <2>1. i + 1 \in 2..n /\ i + 1 \in 1..n
    BY <1>1
  <2>2. rest[i] = seq[i + 1]
    BY <1>2
  <2> QED BY <1>1, <1>4, <2>1, <2>2 DEF ToSet
<1>6. ToSet(rest) = ToSet(seq) \ {seq[1]}
  <2>1. ToSet(rest) \subseteq ToSet(seq) \ {seq[1]}
    <3> HIDE DEF rest
    <3> QED BY <1>2, <1>5 DEF ToSet
  <2>2. ASSUME NEW s \in ToSet(seq) \ {seq[1]} PROVE s \in ToSet(rest)
    <3>1. PICK i \in 1..n : s = seq[i]
      BY <1>1 DEF ToSet
    <3>2. i \in 2..n
      BY <1>1, <3>1
    <3> QED BY <1>3, <3>1, <3>2
  <2> QED BY <2>1, <2>2
<1>7. IsInjective(rest)
  <2>1. ASSUME NEW i \in 1..(n - 1), NEW j \in 1..(n - 1), rest[i] = rest[j]
        PROVE  i = j
    <3>1. i + 1 \in DOMAIN seq /\ j + 1 \in DOMAIN seq /\ seq[i + 1] = seq[j + 1]
      BY <1>1, <1>2, <2>1
    <3>2. i + 1 = j + 1
      BY <3>1 DEF IsInjective
    <3> QED BY <3>2
  <2> HIDE DEF rest
  <2> QED BY <1>2, <2>1 DEF IsInjective
<1>8. seq[1] \in ToSet(seq)
  BY <1>1 DEF ToSet
<1> QED BY <1>2, <1>6, <1>7, <1>8

\* ... and with an entry put at its end.
LEMMA LongerList ==
    ASSUME NEW T, NEW seq \in Seq(T), IsInjective(seq),
           NEW s \in T, s \notin ToSet(seq)
    PROVE  /\ Append(seq, s) \in Seq(T)
           /\ ToSet(Append(seq, s)) = ToSet(seq) \cup {s}
           /\ IsInjective(Append(seq, s))
<1> DEFINE long == Append(seq, s)
           n == Len(seq)
<1>1. n \in Nat /\ DOMAIN seq = 1..n
  OBVIOUS
<1>2. /\ long \in Seq(T) /\ DOMAIN long = 1..(n + 1) /\ long[n + 1] = s
      /\ \A i \in 1..n : long[i] = seq[i]
  BY <1>1
<1> HIDE DEF long
<1>3. \A i \in 1..(n + 1) : i = n + 1 \/ i \in 1..n
  BY <1>1
<1>4. \A i \in 1..n : i \in 1..(n + 1) /\ i # n + 1
  BY <1>1
<1>5. n + 1 \in 1..(n + 1)
  BY <1>1
<1>6. ToSet(long) = ToSet(seq) \cup {s}
  BY <1>1, <1>2, <1>3, <1>4, <1>5 DEF ToSet
<1>7. \A i \in 1..n : seq[i] # s
  BY <1>1 DEF ToSet
<1>8. IsInjective(long)
  BY <1>1, <1>2, <1>3, <1>7 DEF IsInjective
<1> QED BY <1>2, <1>6, <1>8 DEF long

\* An entry that is not on a list is not taken off it.
LEMMA NotListed ==
    ASSUME NEW T, NEW seq \in Seq(T), NEW s, s \notin ToSet(seq)
    PROVE  RemoveFirst(seq, s) = seq
BY DEF RemoveFirst, ToSet

\* A list with an entry taken off, if it is there, is a list.
LEMMA ShorterList ==
    ASSUME NEW T, NEW seq \in Seq(T), NEW s
    PROVE  RemoveFirst(seq, s) \in Seq(T)
<1> DEFINE n == Len(seq)
           I == {i \in 1..n : seq[i] = s}
<1>1. CASE I = {}
  BY <1>1 DEF RemoveFirst
<1>2. CASE I # {}
  <2>1. Min(I) \in 1..n /\ n \in Nat
    <3>1. n \in Nat /\ I \subseteq 1..n
      OBVIOUS
    <3> HIDE DEF I, n
    <3> QED BY <1>2, <3>1, FoundPlace
  <2>2. RemoveFirst(seq, s) = RemoveAt(seq, Min(I))
    BY <1>2 DEF RemoveFirst, SelectInSeq
  <2> DEFINE i == Min(I)
             before == SubSeq(seq, 1, i - 1)
             after == SubSeq(seq, i + 1, n)
  <2>3. before \in Seq(T) /\ after \in Seq(T)
    <3>1. i \in 1..n /\ n \in Nat
      BY <2>1
    <3> HIDE DEF i
    <3> QED BY <3>1
  <2>4. RemoveFirst(seq, s) = before \o after
    BY <2>2 DEF RemoveAt
  <2> HIDE DEF before, after
  <2> QED BY <2>3, <2>4
<1> QED BY <1>1, <1>2

\* A list from its k-th entry on.
LEMMA EndOfList ==
    ASSUME NEW T, NEW seq \in Seq(T), NEW n \in Nat, n = Len(seq),
           NEW k \in Nat, 1 <= k, k <= n + 1
    PROVE  /\ SubSeq(seq, k, n) \in Seq(T)
           /\ Len(SubSeq(seq, k, n)) = (n + 1) - k
           /\ DOMAIN SubSeq(seq, k, n) = 1..((n + 1) - k)
           /\ \A j \in 1..((n + 1) - k) : SubSeq(seq, k, n)[j] = seq[(k + j) - 1]
<1>1. ASSUME NEW j \in 1..((n + 1) - k)
      PROVE  SubSeq(seq, k, n)[j] = seq[(k + j) - 1]
  OBVIOUS
<1>2. /\ SubSeq(seq, k, n) \in Seq(T)
      /\ Len(SubSeq(seq, k, n)) = (n + 1) - k
      /\ DOMAIN SubSeq(seq, k, n) = 1..((n + 1) - k)
  OBVIOUS
<1> QED BY <1>1, <1>2

\* A list cut after its i-th entry: the two parts hold its entries.
LEMMA CutList ==
    ASSUME NEW T, NEW seq \in Seq(T), IsInjective(seq), NEW i \in 1..Len(seq)
    PROVE  /\ SubSeq(seq, i + 1, Len(seq)) \in Seq(T)
           /\ Len(SubSeq(seq, i + 1, Len(seq))) <= Len(seq)
           /\ IsInjective(SubSeq(seq, i + 1, Len(seq)))
           /\ ToSet(SubSeq(seq, i + 1, Len(seq))) \subseteq ToSet(seq)
           /\ ToSet(seq) \subseteq ToSet(SubSeq(seq, 1, i))
                                 \cup ToSet(SubSeq(seq, i + 1, Len(seq)))
<1> DEFINE rest == SubSeq(seq, i + 1, Len(seq))
           start == SubSeq(seq, 1, i)
           n == Len(seq)
<1>1. n \in Nat /\ DOMAIN seq = 1..n /\ i \in 1..n /\ n - i \in Nat
  OBVIOUS
<1>2. /\ rest \in Seq(T) /\ DOMAIN rest = 1..(n - i) /\ Len(rest) = n - i
      /\ \A j \in 1..(n - i) : rest[j] = seq[j + i]
  <2>1. PICK k \in Nat : k = i + 1 /\ 1 <= k /\ k <= n + 1 /\ (n + 1) - k = n - i
    BY <1>1
  <2>2. /\ rest \in Seq(T) /\ DOMAIN rest = 1..(n - i) /\ Len(rest) = n - i
        /\ \A j \in 1..(n - i) : rest[j] = seq[(k + j) - 1]
    <3>1. PICK m \in Nat : m = n
      BY <1>1
    <3>2. rest = SubSeq(seq, k, m) /\ m = Len(seq) /\ k <= m + 1
          /\ (m + 1) - k = n - i
      BY <2>1, <3>1
    <3> HIDE DEF rest, n
    <3>3. /\ SubSeq(seq, k, m) \in Seq(T)
          /\ Len(SubSeq(seq, k, m)) = (m + 1) - k
          /\ DOMAIN SubSeq(seq, k, m) = 1..((m + 1) - k)
          /\ \A j \in 1..((m + 1) - k) : SubSeq(seq, k, m)[j] = seq[(k + j) - 1]
      BY <2>1, <3>2, EndOfList
    <3> QED BY <3>2, <3>3
  <2>3. \A j \in 1..(n - i) : (k + j) - 1 = j + i
    BY <1>1, <2>1
  <2> HIDE DEF rest
  <2> QED BY <2>2, <2>3
<1>3. DOMAIN start = 1..i /\ \A j \in 1..i : start[j] = seq[j]
  BY <1>1
<1> HIDE DEF rest, start, n
<1>4. Len(rest) <= n
  BY <1>1, <1>2
<1>5. \A j \in 1..(n - i) : j + i \in 1..n
  BY <1>1
<1>6. IsInjective(rest)
  <2>1. ASSUME NEW a \in 1..(n - i), NEW b \in 1..(n - i), rest[a] = rest[b]
        PROVE  a = b
    <3>1. a + i \in DOMAIN seq /\ b + i \in DOMAIN seq /\ seq[a + i] = seq[b + i]
      BY <1>1, <1>2, <1>5, <2>1
    <3>2. a + i = b + i
      BY <3>1 DEF IsInjective
    <3> QED BY <1>1, <3>2
  <2> QED BY <1>2, <2>1 DEF IsInjective
<1>7. ToSet(rest) \subseteq ToSet(seq)
  BY <1>1, <1>2, <1>5 DEF ToSet
<1>8. ASSUME NEW x \in ToSet(seq) PROVE x \in ToSet(start) \cup ToSet(rest)
  <2>1. PICK j \in 1..n : x = seq[j]
    BY <1>1 DEF ToSet
  <2>2. CASE j <= i
    <3>1. j \in 1..i
      BY <1>1, <2>2
    <3> QED BY <1>3, <2>1, <3>1 DEF ToSet
  <2>3. CASE ~ (j <= i)
    <3>1. j - i \in 1..(n - i) /\ (j - i) + i = j
      BY <1>1, <2>3
    <3>2. rest[j - i] = x
      BY <1>2, <2>1, <3>1
    <3> QED BY <1>2, <3>1, <3>2 DEF ToSet
  <2> QED BY <2>2, <2>3
<1> QED BY <1>2, <1>4, <1>6, <1>7, <1>8 DEF rest, start, n

\* A finite set of entries can be made a list.
LEMMA SetAsList ==
    ASSUME NEW T, NEW S, S \subseteq T, IsFiniteSet(S)
    PROVE  SetToSeq(S) \in Seq(T)
<1>1. Cardinality(S) \in Nat /\ ExistsBijection(1..Cardinality(S), S)
  BY FS_CardinalityType
<1>2. PICK f \in [1..Cardinality(S) -> S] : IsInjective(f)
  BY <1>1 DEF ExistsBijection, Bijection, Injection, IsInjective
<1>3. SetToSeq(S) \in [1..Cardinality(S) -> S]
  BY <1>2 DEF SetToSeq
<1> QED BY <1>1, <1>3

\* The least of two and of three numbers.
LEMMA MinTwo ==
    ASSUME NEW a \in Int, NEW b \in Int
    PROVE  Min({a, b}) \in {a, b} /\ Min({a, b}) <= a /\ Min({a, b}) <= b
<1>1. \E x \in {a, b} : \A y \in {a, b} : x <= y
  OBVIOUS
<1> QED BY <1>1 DEF Min

LEMMA MinThree ==
    ASSUME NEW a \in Int, NEW b \in Int, NEW c \in Int
    PROVE  Min({a, b, c}) \in {a, b, c} /\ Min({a, b, c}) <= a
<1>1. \E x \in {a, b, c} : \A y \in {a, b, c} : x <= y
  OBVIOUS
<1> QED BY <1>1 DEF Min

LEMMA MaxTwo ==
    ASSUME NEW a \in Int, NEW b \in Int
    PROVE  Max({a, b}) \in {a, b} /\ Max({a, b}) >= a /\ Max({a, b}) >= b
<1>1. \E x \in {a, b} : \A y \in {a, b} : x >= y
  OBVIOUS
<1> QED BY <1>1 DEF Max
=============================================================================
