---------------------------- MODULE SequenceFacts ----------------------------
(***************************************************************************)
(* Facts about the operators on sequences that the models are built from:  *)
(* what is in a sequence and where, after an element is appended, taken    *)
(* from its head or removed from its middle.                               *)
(***************************************************************************)
EXTENDS Integers, Sequences, FiniteSets, SequencesExt, FiniteSetTheorems,
        WellFoundedInduction, TLAPS

\* Appending a new element keeps a sequence free of repetitions.
LEMMA AppendFacts ==
    ASSUME NEW S, NEW q \in Seq(S), NEW c \in S
    PROVE  /\ Append(q, c) \in Seq(S)
           /\ Append(q, c) # <<>>
           /\ Len(Append(q, c)) = Len(q) + 1
           /\ ToSet(Append(q, c)) = ToSet(q) \cup {c}
           /\ IsInjective(q) /\ c \notin ToSet(q) => IsInjective(Append(q, c))
<1>1. /\ Append(q, c) \in Seq(S)
      /\ Append(q, c) # <<>>
      /\ Len(Append(q, c)) = Len(q) + 1
      /\ DOMAIN Append(q, c) = 1 .. (Len(q) + 1)
      /\ DOMAIN q = 1 .. Len(q)
      /\ Len(q) \in Nat
  OBVIOUS
<1>2. /\ \A i \in 1 .. Len(q) : Append(q, c)[i] = q[i]
      /\ Append(q, c)[Len(q) + 1] = c
  OBVIOUS
<1>3. ToSet(Append(q, c)) = ToSet(q) \cup {c}
  BY <1>1, <1>2 DEF ToSet
<1>4. IsInjective(q) /\ c \notin ToSet(q) => IsInjective(Append(q, c))
  BY <1>1, <1>2 DEF ToSet, IsInjective
<1>. QED  BY <1>1, <1>3, <1>4

\* The tail of a sequence without repetitions holds all but the head.
LEMMA TailFacts ==
    ASSUME NEW S, NEW q \in Seq(S), q # <<>>, IsInjective(q)
    PROVE  /\ Head(q) \in S
           /\ Head(q) \in ToSet(q)
           /\ Tail(q) \in Seq(S)
           /\ Len(Tail(q)) = Len(q) - 1
           /\ ToSet(Tail(q)) = ToSet(q) \ {Head(q)}
           /\ IsInjective(Tail(q))
<1>1. /\ Tail(q) \in Seq(S)
      /\ Len(Tail(q)) = Len(q) - 1
      /\ DOMAIN Tail(q) = 1 .. (Len(q) - 1)
      /\ DOMAIN q = 1 .. Len(q)
      /\ Len(q) \in Nat \ {0}
      /\ Head(q) = q[1]
      /\ Head(q) \in S
  OBVIOUS
<1>2. \A i \in 1 .. (Len(q) - 1) : Tail(q)[i] = q[i + 1]
  OBVIOUS
<1>3. \A i, j \in 1 .. Len(q) : q[i] = q[j] => i = j
  BY <1>1 DEF IsInjective
<1>4. ToSet(Tail(q)) = ToSet(q) \ {Head(q)}
  <2>1. ASSUME NEW x \in ToSet(Tail(q))  PROVE x \in ToSet(q) \ {Head(q)}
    <3>1. PICK i \in 1 .. (Len(q) - 1) : x = q[i + 1]
      BY <1>1, <1>2, <2>1 DEF ToSet
    <3>2. i + 1 \in 1 .. Len(q) /\ i + 1 # 1
      BY <1>1
    <3>. QED  BY <1>1, <1>3, <3>1, <3>2 DEF ToSet
  <2>2. ASSUME NEW x \in ToSet(q), x # Head(q)  PROVE x \in ToSet(Tail(q))
    <3>1. PICK i \in 1 .. Len(q) : x = q[i]
      BY <1>1, <2>2 DEF ToSet
    <3>2. i - 1 \in 1 .. (Len(q) - 1) /\ x = Tail(q)[i - 1]
      BY <1>1, <1>2, <2>2, <3>1
    <3>. QED  BY <1>1, <3>2 DEF ToSet
  <2>. QED  BY <2>1, <2>2
<1>5. IsInjective(Tail(q))
  BY <1>1, <1>2, <1>3 DEF IsInjective
<1>6. Head(q) \in ToSet(q)
  BY <1>1 DEF ToSet
<1>. QED  BY <1>1, <1>4, <1>5, <1>6

\* The places of the elements when the one at position i is removed.
LEMMA RemoveAtPlaces ==
    ASSUME NEW S, NEW q \in Seq(S), NEW i \in DOMAIN q
    PROVE  /\ RemoveAt(q, i) \in Seq(S)
           /\ Len(RemoveAt(q, i)) = Len(q) - 1
           /\ DOMAIN RemoveAt(q, i) = 1 .. (Len(q) - 1)
           /\ \A j \in 1 .. (Len(q) - 1) :
                 RemoveAt(q, i)[j] = IF j < i THEN q[j] ELSE q[j + 1]
<1> DEFINE r == RemoveAt(q, i)
           n == Len(q)
<1>1. /\ DOMAIN q = 1 .. n
      /\ n \in Nat
      /\ i \in 1 .. n
      /\ q[i] \in S
  OBVIOUS
<1>2. PICK a \in Seq(S), b \in Seq(S) :
         /\ r = a \o b
         /\ Len(a) = i - 1
         /\ Len(b) = n - i
         /\ \A j \in 1 .. (i - 1) : a[j] = q[j]
         /\ \A j \in 1 .. (n - i) : b[j] = q[j + i]
  <2>1. /\ SubSeq(q, 1, i - 1) \in Seq(S)
        /\ SubSeq(q, i + 1, n) \in Seq(S)
        /\ Len(SubSeq(q, 1, i - 1)) = i - 1
        /\ Len(SubSeq(q, i + 1, n)) = n - i
        /\ \A j \in 1 .. (i - 1) : SubSeq(q, 1, i - 1)[j] = q[j]
        /\ \A j \in 1 .. (n - i) : SubSeq(q, i + 1, n)[j] = q[j + i]
    <3>1. /\ SubSeq(q, 1, i - 1) \in Seq(S)
          /\ Len(SubSeq(q, 1, i - 1)) = i - 1
          /\ \A j \in 1 .. (i - 1) : SubSeq(q, 1, i - 1)[j] = q[j]
      BY <1>1
    <3>2. SubSeq(q, i + 1, n) \in Seq(S) /\ Len(SubSeq(q, i + 1, n)) = n - i
      BY <1>1
    <3>3. \A j \in 1 .. (n - i) : SubSeq(q, i + 1, n)[j] = q[j + i]
      BY <1>1
    <3>. QED  BY <3>1, <3>2, <3>3
  <2>2. r = SubSeq(q, 1, i - 1) \o SubSeq(q, i + 1, n)
    BY Zenon DEF RemoveAt
  <2>. QED  BY <2>1, <2>2
<1> HIDE DEF r
<1>3. /\ r \in Seq(S)
      /\ Len(r) = n - 1
      /\ DOMAIN r = 1 .. (n - 1)
  <2>1. a \o b \in Seq(S) /\ Len(a \o b) = Len(a) + Len(b)
    OBVIOUS
  <2>2. Len(a) + Len(b) = n - 1
    BY <1>1, <1>2
  <2>. QED  BY <1>2, <2>1, <2>2
<1>4. \A j \in 1 .. (n - 1) : r[j] = IF j < i THEN q[j] ELSE q[j + 1]
  <2> SUFFICES ASSUME NEW j \in 1 .. (n - 1)
               PROVE  r[j] = IF j < i THEN q[j] ELSE q[j + 1]
    OBVIOUS
  <2>1. CASE j < i
    BY <1>1, <1>2, <2>1
  <2>2. CASE j >= i
    <3>1. r[j] = b[j - (i - 1)]
      BY <1>1, <1>2, <2>2
    <3>2. j - (i - 1) \in 1 .. (n - i) /\ j - (i - 1) + i = j + 1
      BY <1>1, <2>2
    <3>3. b[j - (i - 1)] = q[j - (i - 1) + i]
      BY <1>2, <3>2
    <3>. QED  BY <1>1, <2>2, <3>1, <3>2, <3>3
  <2>. QED  BY <1>1, <2>1, <2>2
<1>. QED  BY <1>3, <1>4 DEF r

\* Removing position i removes exactly the element that stands there.
LEMMA RemoveAtFacts ==
    ASSUME NEW S, NEW q \in Seq(S), NEW i \in DOMAIN q, IsInjective(q)
    PROVE  /\ q[i] \in S
           /\ q[i] \in ToSet(q)
           /\ RemoveAt(q, i) \in Seq(S)
           /\ Len(RemoveAt(q, i)) = Len(q) - 1
           /\ ToSet(RemoveAt(q, i)) = ToSet(q) \ {q[i]}
           /\ IsInjective(RemoveAt(q, i))
<1> DEFINE r == RemoveAt(q, i)
           n == Len(q)
<1>1. /\ DOMAIN q = 1 .. n
      /\ n \in Nat
      /\ i \in 1 .. n
      /\ q[i] \in S
  OBVIOUS
<1>2. /\ r \in Seq(S)
      /\ Len(r) = n - 1
      /\ DOMAIN r = 1 .. (n - 1)
      /\ \A j \in 1 .. (n - 1) : r[j] = IF j < i THEN q[j] ELSE q[j + 1]
  BY RemoveAtPlaces
<1> HIDE DEF r
<1>3. r \in Seq(S) /\ Len(r) = n - 1 /\ DOMAIN r = 1 .. (n - 1)
  BY <1>2
<1>4. \A j \in 1 .. (n - 1) : r[j] = IF j < i THEN q[j] ELSE q[j + 1]
  BY <1>2
<1>5. \A j, k \in 1 .. n : q[j] = q[k] => j = k
  BY <1>1 DEF IsInjective
<1>6. ToSet(r) = ToSet(q) \ {q[i]}
  <2>1. ASSUME NEW x \in ToSet(r)  PROVE x \in ToSet(q) \ {q[i]}
    <3>1. PICK j \in 1 .. (n - 1) : x = r[j]
      BY <1>3, <2>1 DEF ToSet
    <3>2. PICK k \in 1 .. n : k # i /\ x = q[k]
      BY <1>1, <1>4, <3>1
    <3>. QED  BY <1>1, <1>5, <3>2 DEF ToSet
  <2>2. ASSUME NEW x \in ToSet(q), x # q[i]  PROVE x \in ToSet(r)
    <3>1. PICK k \in 1 .. n : x = q[k]
      BY <1>1, <2>2 DEF ToSet
    <3>2. CASE k < i
      <4>1. k \in 1 .. (n - 1) /\ r[k] = x
        BY <1>1, <1>4, <3>1, <3>2
      <4>. QED  BY <1>3, <4>1 DEF ToSet
    <3>3. CASE k > i
      <4>1. k - 1 \in 1 .. (n - 1) /\ r[k - 1] = x
        BY <1>1, <1>4, <3>1, <3>3
      <4>. QED  BY <1>3, <4>1 DEF ToSet
    <3>. QED  BY <1>1, <2>2, <3>1, <3>2, <3>3
  <2>. QED  BY <2>1, <2>2
<1>7. IsInjective(r)
  <2> SUFFICES ASSUME NEW j \in 1 .. (n - 1), NEW k \in 1 .. (n - 1), r[j] = r[k]
               PROVE  j = k
    BY <1>3 DEF IsInjective
  <2>. QED  BY <1>1, <1>4, <1>5
<1>8. q[i] \in ToSet(q)
  BY <1>1 DEF ToSet
<1>. QED  BY <1>1, <1>3, <1>6, <1>7, <1>8 DEF r

\* A concatenation has no repetitions iff its parts have none and are disjoint.
LEMMA ConcatFacts ==
    ASSUME NEW S, NEW p \in Seq(S), NEW q \in Seq(S)
    PROVE  /\ ToSet(p \o q) = ToSet(p) \cup ToSet(q)
           /\ IsInjective(p \o q) <=> /\ IsInjective(p) /\ IsInjective(q)
                                      /\ ToSet(p) \cap ToSet(q) = {}
<1> DEFINE r == p \o q
           k == Len(p)
           n == Len(q)
<1>1. /\ k \in Nat /\ n \in Nat
      /\ DOMAIN p = 1 .. k /\ DOMAIN q = 1 .. n
      /\ DOMAIN r = 1 .. (k + n)
      /\ \A i \in 1 .. k : r[i] = p[i]
      /\ \A i \in 1 .. n : r[k + i] = q[i]
  OBVIOUS
<1>2. \A i \in 1 .. (k + n) : i \in 1 .. k \/ (i - k \in 1 .. n /\ i = k + (i - k))
  BY <1>1
<1>3. ToSet(r) = ToSet(p) \cup ToSet(q)
  <2>1. ASSUME NEW x \in ToSet(r)  PROVE x \in ToSet(p) \cup ToSet(q)
    BY <1>1, <1>2, <2>1 DEF ToSet
  <2>2. ASSUME NEW x \in ToSet(p)  PROVE x \in ToSet(r)
    <3>1. PICK i \in 1 .. k : x = p[i]
      BY <1>1 DEF ToSet
    <3>2. i \in 1 .. (k + n)
      BY <1>1
    <3>. QED  BY <1>1, <3>1, <3>2 DEF ToSet
  <2>3. ASSUME NEW x \in ToSet(q)  PROVE x \in ToSet(r)
    <3>1. PICK i \in 1 .. n : x = q[i]
      BY <1>1 DEF ToSet
    <3>2. k + i \in 1 .. (k + n)
      BY <1>1
    <3>. QED  BY <1>1, <3>1, <3>2 DEF ToSet
  <2>. QED  BY <2>1, <2>2, <2>3
<1>4. ASSUME IsInjective(r)
      PROVE  IsInjective(p) /\ IsInjective(q) /\ ToSet(p) \cap ToSet(q) = {}
  <2>1. IsInjective(p)
    <3> SUFFICES ASSUME NEW i \in 1 .. k, NEW j \in 1 .. k, p[i] = p[j]  PROVE i = j
      BY <1>1 DEF IsInjective
    <3>1. i \in 1 .. (k + n) /\ j \in 1 .. (k + n)
      BY <1>1
    <3>. QED  BY <1>1, <1>4, <3>1 DEF IsInjective
  <2>2. IsInjective(q)
    <3> SUFFICES ASSUME NEW i \in 1 .. n, NEW j \in 1 .. n, q[i] = q[j]  PROVE i = j
      BY <1>1 DEF IsInjective
    <3>1. k + i \in 1 .. (k + n) /\ k + j \in 1 .. (k + n) /\ r[k + i] = r[k + j]
      BY <1>1
    <3>2. k + i = k + j
      BY <1>1, <1>4, <3>1 DEF IsInjective
    <3>. QED  BY <1>1, <3>2
  <2>3. ASSUME NEW x \in ToSet(p), x \in ToSet(q)  PROVE FALSE
    <3>1. PICK i \in 1 .. k : x = p[i]
      BY <1>1 DEF ToSet
    <3>2. PICK j \in 1 .. n : x = q[j]
      BY <1>1, <2>3 DEF ToSet
    <3>3. i \in 1 .. (k + n) /\ k + j \in 1 .. (k + n) /\ r[i] = r[k + j]
      <4>1. r[i] = p[i] /\ r[k + j] = q[j]
        BY <1>1
      <4>. QED  BY <1>1, <3>1, <3>2, <4>1
    <3>4. i = k + j
      BY <1>1, <1>4, <3>3 DEF IsInjective
    <3>. QED  BY <1>1, <3>4
  <2>. QED  BY <2>1, <2>2, <2>3
<1>5. ASSUME IsInjective(p), IsInjective(q), ToSet(p) \cap ToSet(q) = {}
      PROVE  IsInjective(r)
  <2> SUFFICES ASSUME NEW i \in 1 .. (k + n), NEW j \in 1 .. (k + n), r[i] = r[j]
               PROVE  i = j
    BY <1>1 DEF IsInjective
  <2>1. CASE i \in 1 .. k /\ j \in 1 .. k
    BY <1>1, <1>5, <2>1 DEF IsInjective
  <2>2. CASE i - k \in 1 .. n /\ j - k \in 1 .. n
    <3>1. q[i - k] = q[j - k]
      BY <1>1, <1>2, <2>2
    <3>2. i - k = j - k
      BY <1>1, <1>5, <2>2, <3>1 DEF IsInjective
    <3>. QED  BY <1>1, <3>2
  <2>3. CASE i \in 1 .. k /\ j - k \in 1 .. n
    <3>1. r[i] \in ToSet(p) /\ r[k + (j - k)] \in ToSet(q)
      BY <1>1, <2>3 DEF ToSet
    <3>. QED  BY <1>1, <1>5, <2>3, <3>1
  <2>4. CASE i - k \in 1 .. n /\ j \in 1 .. k
    <3>1. r[j] \in ToSet(p) /\ r[k + (i - k)] \in ToSet(q)
      BY <1>1, <2>4 DEF ToSet
    <3>. QED  BY <1>1, <1>5, <2>4, <3>1
  <2>. QED  BY <1>2, <2>1, <2>2, <2>3, <2>4
<1>. QED  BY <1>3, <1>4, <1>5

-----------------------------------------------------------------------------
(* What is in a sequence, and in which order *)

\* Every element stands in relation R to all that follow it.
OrderedBy(q, R) ==
    \A i, j \in DOMAIN q : i < j => <<q[i], q[j]>> \in R

\* Removing an element keeps the order of the others, each of which stood
\* before it or after it.
LEMMA RemoveAtOrdered ==
    ASSUME NEW S, NEW q \in Seq(S), NEW i \in DOMAIN q, NEW R, OrderedBy(q, R)
    PROVE  /\ RemoveAt(q, i) \in Seq(S)
           /\ OrderedBy(RemoveAt(q, i), R)
           /\ ToSet(RemoveAt(q, i)) \subseteq ToSet(q)
           /\ ToSet(q) \subseteq ToSet(RemoveAt(q, i)) \cup {q[i]}
           /\ \A c \in ToSet(RemoveAt(q, i)) : <<c, q[i]>> \in R \/ <<q[i], c>> \in R
<1> DEFINE r == RemoveAt(q, i)
           n == Len(q)
           Old(j) == IF j < i THEN j ELSE j + 1
<1>1. /\ DOMAIN q = 1 .. n
      /\ n \in Nat
      /\ i \in 1 .. n
  OBVIOUS
<1>2. /\ r \in Seq(S)
      /\ DOMAIN r = 1 .. (n - 1)
      /\ \A j \in 1 .. (n - 1) : r[j] = IF j < i THEN q[j] ELSE q[j + 1]
  BY RemoveAtPlaces
<1> HIDE DEF r
<1>3. \A j \in 1 .. (n - 1) : Old(j) \in 1 .. n /\ Old(j) # i /\ r[j] = q[Old(j)]
  BY <1>1, <1>2
<1>4. OrderedBy(r, R)
  <2> SUFFICES ASSUME NEW j \in 1 .. (n - 1), NEW k \in 1 .. (n - 1), j < k
               PROVE  <<r[j], r[k]>> \in R
    BY <1>2 DEF OrderedBy
  <2>1. Old(j) < Old(k)
    BY <1>1
  <2> HIDE DEF Old
  <2>. QED  BY <1>1, <1>3, <2>1 DEF OrderedBy
<1>5. ASSUME NEW c \in ToSet(r)
      PROVE  /\ c \in ToSet(q)
             /\ <<c, q[i]>> \in R \/ <<q[i], c>> \in R
  <2>1. PICK j \in 1 .. (n - 1) : c = r[j]
    BY <1>2 DEF ToSet
  <2>2. PICK k \in 1 .. n : k # i /\ c = q[k]
    BY <1>3, <2>1
  <2>3. k < i \/ i < k
    BY <1>1, <2>2
  <2>. QED  BY <1>1, <2>2, <2>3 DEF OrderedBy, ToSet
<1>6. ASSUME NEW c \in ToSet(q), c # q[i]
      PROVE  c \in ToSet(r)
  <2>1. PICK k \in 1 .. n : c = q[k]
    BY <1>1 DEF ToSet
  <2>2. CASE k < i
    <3>1. k \in 1 .. (n - 1) /\ r[k] = c
      BY <1>1, <1>2, <2>1, <2>2
    <3>. QED  BY <1>2, <3>1 DEF ToSet
  <2>3. CASE k > i
    <3>1. k - 1 \in 1 .. (n - 1) /\ r[k - 1] = c
      BY <1>1, <1>2, <2>1, <2>3
    <3>. QED  BY <1>2, <3>1 DEF ToSet
  <2>. QED  BY <1>1, <1>6, <2>1, <2>2, <2>3
<1>. QED  BY <1>2, <1>4, <1>5, <1>6 DEF r

\* When no element before position i has property P, each other element that
\* has it follows.
LEMMA RemoveAtFirst ==
    ASSUME NEW S, NEW q \in Seq(S), NEW i \in DOMAIN q, NEW R, OrderedBy(q, R),
           NEW P, \A j \in 1 .. (i - 1) : q[j] \notin P
    PROVE  \A c \in ToSet(RemoveAt(q, i)) : c \in P => <<q[i], c>> \in R
<1> SUFFICES ASSUME NEW c \in ToSet(RemoveAt(q, i)), c \in P
             PROVE  <<q[i], c>> \in R
  OBVIOUS
<1> DEFINE n == Len(q)
           r == RemoveAt(q, i)
<1>1. DOMAIN q = 1 .. n /\ n \in Nat /\ i \in 1 .. n
  OBVIOUS
<1>2. /\ DOMAIN r = 1 .. (n - 1)
      /\ \A j \in 1 .. (n - 1) : r[j] = IF j < i THEN q[j] ELSE q[j + 1]
  BY RemoveAtPlaces
<1> HIDE DEF r
<1>3. PICK j \in 1 .. (n - 1) : c = r[j]
  BY <1>2 DEF ToSet, r
<1>4. ~(j < i)
  <2> SUFFICES ASSUME j < i  PROVE FALSE
    OBVIOUS
  <2>1. c = q[j] /\ j \in 1 .. (i - 1)
    BY <1>1, <1>2, <1>3
  <2>. QED  BY <2>1
<1>5. c = q[j + 1] /\ j + 1 \in 1 .. n /\ i < j + 1
  BY <1>1, <1>2, <1>3, <1>4
<1>. QED  BY <1>1, <1>5 DEF OrderedBy

\* A sequence stays ordered when all its elements relate to the new last one.
LEMMA AppendOrdered ==
    ASSUME NEW S, NEW q \in Seq(S), NEW c \in S, NEW R, OrderedBy(q, R),
           \A x \in ToSet(q) : <<x, c>> \in R
    PROVE  /\ Append(q, c) \in Seq(S)
           /\ OrderedBy(Append(q, c), R)
           /\ ToSet(Append(q, c)) = ToSet(q) \cup {c}
<1>1. /\ Append(q, c) \in Seq(S)
      /\ DOMAIN Append(q, c) = 1 .. (Len(q) + 1)
      /\ DOMAIN q = 1 .. Len(q)
      /\ Len(q) \in Nat
      /\ \A i \in 1 .. Len(q) : Append(q, c)[i] = q[i]
      /\ Append(q, c)[Len(q) + 1] = c
  OBVIOUS
<1>2. ToSet(Append(q, c)) = ToSet(q) \cup {c}
  BY AppendFacts
<1>3. ASSUME NEW i \in 1 .. (Len(q) + 1), NEW j \in 1 .. (Len(q) + 1), i < j
      PROVE  <<Append(q, c)[i], Append(q, c)[j]>> \in R
  <2>1. i \in 1 .. Len(q) /\ Append(q, c)[i] = q[i] /\ q[i] \in ToSet(q)
    BY <1>1, <1>3 DEF ToSet
  <2>2. CASE j \in 1 .. Len(q)
    BY <1>1, <1>3, <2>1, <2>2 DEF OrderedBy
  <2>3. CASE j = Len(q) + 1
    BY <1>1, <2>1, <2>3
  <2>. QED  BY <1>1, <2>2, <2>3
<1>4. OrderedBy(Append(q, c), R)
  BY <1>1, <1>3 DEF OrderedBy
<1>. QED  BY <1>1, <1>2, <1>4

\* So it does when a second sequence follows, if each part is ordered.
LEMMA ConcatOrdered ==
    ASSUME NEW S, NEW p \in Seq(S), NEW q \in Seq(S), NEW R,
           OrderedBy(p, R), OrderedBy(q, R),
           \A x \in ToSet(p), y \in ToSet(q) : <<x, y>> \in R
    PROVE  /\ p \o q \in Seq(S)
           /\ OrderedBy(p \o q, R)
           /\ ToSet(p \o q) = ToSet(p) \cup ToSet(q)
<1> DEFINE r == p \o q
           k == Len(p)
           n == Len(q)
<1>1. /\ r \in Seq(S)
      /\ k \in Nat /\ n \in Nat
      /\ DOMAIN p = 1 .. k /\ DOMAIN q = 1 .. n
      /\ DOMAIN r = 1 .. (k + n)
      /\ \A i \in 1 .. k : r[i] = p[i]
      /\ \A i \in 1 .. n : r[k + i] = q[i]
  OBVIOUS
<1>2. \A i \in 1 .. (k + n) : i \in 1 .. k \/ (i - k \in 1 .. n /\ i = k + (i - k))
  BY <1>1
<1>3. ToSet(r) = ToSet(p) \cup ToSet(q)
  BY ConcatFacts
<1>4. ASSUME NEW i \in 1 .. (k + n), NEW j \in 1 .. (k + n), i < j
      PROVE  <<r[i], r[j]>> \in R
  <2>1. CASE i \in 1 .. k /\ j \in 1 .. k
    BY <1>1, <1>4, <2>1 DEF OrderedBy
  <2>2. CASE i - k \in 1 .. n /\ j - k \in 1 .. n
    <3>1. r[i] = q[i - k] /\ r[j] = q[j - k] /\ i - k < j - k
      BY <1>1, <1>2, <1>4, <2>2
    <3>. QED  BY <1>1, <2>2, <3>1 DEF OrderedBy
  <2>3. CASE i \in 1 .. k /\ j - k \in 1 .. n
    <3>1. r[i] = p[i] /\ r[j] = q[j - k]
      BY <1>1, <1>2, <2>3
    <3>. QED  BY <1>1, <2>3, <3>1 DEF ToSet
  <2>4. ~(i - k \in 1 .. n /\ j \in 1 .. k)
    BY <1>1, <1>4
  <2>. QED  BY <1>2, <2>1, <2>2, <2>3, <2>4
<1>5. OrderedBy(r, R)
  BY <1>1, <1>4 DEF OrderedBy
<1>. QED  BY <1>1, <1>3, <1>5

\* SetToSeq lists every element of a finite set.
LEMMA SetToSeqFacts ==
    ASSUME NEW S, IsFiniteSet(S)
    PROVE  SetToSeq(S) \in Seq(S) /\ ToSet(SetToSeq(S)) = S
<1> DEFINE n == Cardinality(S)
<1>1. PICK f \in Bijection(1 .. n, S) : TRUE
  BY FS_CardinalityType, Zenon DEF ExistsBijection
<1>2. n \in Nat
  BY FS_CardinalityType
<1>3. f \in [1 .. n -> S] /\ IsInjective(f) /\ \A x \in S : \E i \in 1 .. n : f[i] = x
  BY <1>1 DEF Bijection, Injection, Surjection, IsInjective
<1>4. /\ SetToSeq(S) \in [1 .. n -> S] 
      /\ IsInjective(SetToSeq(S))
  BY <1>3, Zenon DEF SetToSeq
<1> DEFINE g == SetToSeq(S)
<1> HIDE DEF g
<1>5. g \in Injection(1 .. n, S)
  BY <1>4 DEF g, Injection, IsInjective
<1>6. IsFiniteSet(1 .. n) /\ Cardinality(1 .. n) = n
  BY <1>2, FS_Interval
<1>7. g \in Surjection(1 .. n, S)
  BY <1>5, <1>6, FS_Injection
<1>8. g \in Seq(S) /\ DOMAIN g = 1 .. n
  BY <1>2, <1>5 DEF Injection
<1>9. ToSet(g) = S
  BY <1>7, <1>8 DEF Surjection, ToSet
<1>. QED  BY <1>8, <1>9 DEF g

-----------------------------------------------------------------------------
(* Induction *)

\* The order of the natural numbers, as a set of pairs, ...
Less == {ss \in Nat \X Nat : ss[1] < ss[2]}
\* ... is well-founded: the one fact about all numbers that no prover has.
LEMMA LessWF == IsWellFoundedOn(Less, Nat)
  BY NatLessThanWellFounded, Zenon DEF OpToRel, Less

\* Every non-empty set of natural numbers has a least element.
LEMMA Least ==
    ASSUME NEW T \in SUBSET Nat, T # {}
    PROVE  \E x \in T : \A y \in T : x <= y
<1>1. IsWellFoundedOn(Less, Nat)
  BY LessWF
<1>2. PICK x \in T : \A y \in T : ~ (<<y, x>> \in Less)
  BY <1>1, WFMin
<1>3. ASSUME NEW y \in T PROVE x <= y
  <2>1. x \in Nat /\ y \in Nat
    OBVIOUS
  <2>2. CASE y < x
    <3>1. <<y, x>> \in Less
      BY <2>1, <2>2 DEF Less
    <3>. QED BY <1>2, <3>1
  <2>. QED BY <2>1, <2>2
<1>. QED BY <1>3

\* Induction, over a set instead of a predicate.
LEMMA Induction ==
    ASSUME NEW S \in SUBSET Nat, 0 \in S, \A n \in S : n + 1 \in S
    PROVE  S = Nat
<1>1. SUFFICES ASSUME S # Nat PROVE FALSE
  OBVIOUS
<1>2. PICK x \in Nat \ S : \A y \in Nat \ S : x <= y
  BY <1>1, Least
<1>3. x # 0
  BY <1>2
<1>4. x - 1 \in Nat /\ x - 1 \in S
  BY <1>2, <1>3
<1>. QED BY <1>2, <1>4

\* A non-empty set of positions has a last one.
LEMMA MaxFacts ==
    ASSUME NEW n \in Nat, NEW T \in SUBSET (1 .. n), T # {}
    PROVE  Max(T) \in T /\ \A y \in T : y <= Max(T)
<1> DEFINE U == {n - x : x \in T}
<1>0. /\ \A x \in T : x \in 1 .. n /\ n - x \in Nat /\ n - x \in U
      /\ U # {}
  <2>1. PICK x \in T : TRUE
    OBVIOUS
  <2>. QED BY <2>1
<1>1. PICK u \in U : \A v \in U : u <= v
  <2>1. U \in SUBSET Nat
    BY <1>0
  <2> HIDE DEF U
  <2>. QED BY <1>0, <2>1, Least
<1>2. PICK x \in T : u = n - x
  OBVIOUS
<1>3. \A y \in T : x >= y
  <2> SUFFICES ASSUME NEW y \in T PROVE x >= y
    OBVIOUS
  <2>1. n - x <= n - y /\ x \in 1 .. n /\ y \in 1 .. n
    BY <1>0, <1>1, <1>2
  <2>. QED BY <2>1
<1>. QED BY <1>2, <1>3 DEF Max
=============================================================================
