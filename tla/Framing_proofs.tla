--------------------------- MODULE Framing_proofs ---------------------------
(***************************************************************************)
(* Theorem of Framing, for any messages: a daemon that reads undisturbed   *)
(* parses what was sent, wherever the pieces are cut.                      *)
(***************************************************************************)
EXTENDS Framing, SequenceFacts

-----------------------------------------------------------------------------
(* The loop *)

\* One turn of the loop at p, when f is what the turns after it give.
Turn(buf, f, p) ==
  IF WholeAt(buf, p)
  THEN [messages |-> <<SubSeq(buf, p + 3, p + 2 + buf[p + 2])>>
                        \o f[NextAt(buf, p)].messages,
        rest |-> f[NextAt(buf, p)].rest]
  ELSE [messages |-> <<>>, rest |-> SubSeq(buf, p, Len(buf))]

LEMMA ByteFacts == \A b \in Byte : b \in Nat
BY DEF Byte

\* A turn looks at what comes after it only.
LEMMA Onward ==
  ASSUME NEW buf \in Seq(Byte), NEW p \in 1 .. Len(buf) + 1, WholeAt(buf, p)
  PROVE  NextAt(buf, p) \in p + 1 .. Len(buf) + 1
<1>1. Len(buf) \in Nat /\ p + 2 \in 1 .. Len(buf)
  BY DEF WholeAt
<1>2. buf[p + 2] \in Byte
  BY <1>1
<1> PICK b \in Byte : b = buf[p + 2]
  BY <1>2
<1>3. Len(buf) - p + 1 >= b + 3 /\ NextAt(buf, p) = p + b + 3
  BY DEF WholeAt, NextAt
<1>4. b \in Nat
  BY ByteFacts
<1>5. p + b + 3 \in p + 1 .. Len(buf) + 1
  BY <1>1, <1>3, <1>4
<1>. QED  BY <1>3, <1>5

\* ... so that the recursion is well-founded.
LEMMA LoopExists ==
  ASSUME NEW buf \in Seq(Byte)
  PROVE  \E f : f = [p \in 1 .. Len(buf) + 1 |-> Turn(buf, f, p)]
<1> DEFINE L == Len(buf)
           From(n) == L + 2 - n .. L + 1
           S == {n \in Nat : n <= L + 1 => \E f : f = [p \in From(n) |-> Turn(buf, f, p)]}
<1>1. L \in Nat
  OBVIOUS
<1>2. 0 \in S
  <2>1. [p \in From(0) |-> 0] = [p \in From(0) |-> Turn(buf, [q \in From(0) |-> 0], p)]
    <3>1. From(0) = {}
      BY <1>1
    <3>. QED  BY <3>1
  <2>. QED  BY <2>1
<1>3. ASSUME NEW n \in S  PROVE n + 1 \in S
  <2> SUFFICES ASSUME n + 1 <= L + 1
               PROVE  \E f : f = [p \in From(n + 1) |-> Turn(buf, f, p)]
    OBVIOUS
  <2>0. n \in Nat /\ n <= L + 1
    BY <1>1
  <2>1. PICK f : f = [p \in From(n) |-> Turn(buf, f, p)]
    BY <1>3, <2>0, Zenon
  <2> DEFINE k == L + 1 - n
             g == [p \in From(n + 1) |-> IF p = k THEN Turn(buf, f, k) ELSE f[p]]
  <2>2. /\ k \in 1 .. L + 1
        /\ \A p \in From(n + 1) : p = k \/ p \in From(n)
        /\ \A p \in From(n + 1) : p \in 1 .. L + 1 /\ p >= k
        /\ \A p \in 1 .. L + 1 : p > k => p \in From(n) /\ p \in From(n + 1)
    BY <1>1, <2>0
  <2> HIDE DEF From
  <2>3. ASSUME NEW p \in From(n + 1)  PROVE g[p] = Turn(buf, g, p)
    <3>1. WholeAt(buf, p) => NextAt(buf, p) \in From(n) /\ g[NextAt(buf, p)] = f[NextAt(buf, p)]
      <4> SUFFICES ASSUME WholeAt(buf, p)
                   PROVE  NextAt(buf, p) \in From(n) /\ g[NextAt(buf, p)] = f[NextAt(buf, p)]
        OBVIOUS
      <4>1. NextAt(buf, p) \in p + 1 .. L + 1
        BY <2>2, Onward
      <4>2. NextAt(buf, p) \in 1 .. L + 1 /\ NextAt(buf, p) > k
        BY <1>1, <2>2, <4>1
      <4>. QED  BY <2>2, <4>2
    <3>2. Turn(buf, g, p) = Turn(buf, f, p)
      <4> HIDE DEF g
      <4>. QED  BY <3>1 DEF Turn
    <3>3. g[p] = Turn(buf, f, p)
      BY <2>1, <2>2
    <3>. QED  BY <3>2, <3>3
  <2>4. g = [p \in From(n + 1) |-> Turn(buf, g, p)]
    <3>1. g = [p \in From(n + 1) |-> g[p]]
      OBVIOUS
    <3> HIDE DEF g
    <3>. QED  BY <2>3, <3>1, Zenon
  <2>. QED  BY <2>4
<1>4. S = Nat
  <2>1. S \in SUBSET Nat
    OBVIOUS
  <2> HIDE DEF S
  <2>. QED  BY <1>2, <1>3, <2>1, Induction
<1>5. L + 1 \in S
  BY <1>1, <1>4
<1>6. From(L + 1) = 1 .. L + 1
  BY <1>1
<1>. QED  BY <1>1, <1>5, <1>6

LEMMA LoopTurns ==
  ASSUME NEW buf \in Seq(Byte), NEW p \in 1 .. Len(buf) + 1
  PROVE  CutFrom(buf)[p] = Turn(buf, CutFrom(buf), p)
<1>1. CutFrom(buf) = [q \in 1 .. Len(buf) + 1 |-> Turn(buf, CutFrom(buf), q)]
  BY LoopExists, Zenon DEF CutFrom, Turn
<1>. QED  BY <1>1

-----------------------------------------------------------------------------
(* Bytes that carry messages *)

\* Message t stands in x after place p.
FrameAt(x, p, t) ==
  /\ p + 3 + Len(t) <= Len(x)
  /\ x[p + 1] = 42 /\ x[p + 2] = 66 /\ x[p + 3] = Len(t)
  /\ \A i \in 1 .. Len(t) : x[p + 3 + i] = t[i]

\* x is what follows message k of T; off[j] is where message j ends.
Carries(T, x, k, off) ==
  /\ off \in [k .. Len(T) -> Nat]
  /\ off[k] = 0 /\ off[Len(T)] = Len(x)
  /\ \A j \in k + 1 .. Len(T) :
        /\ off[j] = off[j - 1] + 3 + Len(T[j])
        /\ FrameAt(x, off[j - 1], T[j])

LEMMA MessageFacts ==
  ASSUME NEW t \in Messages
  PROVE  t \in Seq(Byte) /\ Len(t) \in Nat /\ Len(t) > 0 /\ Len(t) \in Byte
<1>1. t \in Seq(Byte) /\ Len(t) \in 1 .. 127
  BY MessagesAssumption
<1>2. \A n \in 1 .. 127 : n \in Nat /\ n > 0 /\ n \in Byte
  BY DEF Byte
<1>. QED  BY <1>1, <1>2

\* Message i + 1 in what is sent.
LEMMA NextCarried ==
  ASSUME NEW T \in Seq(Messages), NEW x \in Seq(Byte), NEW k \in 0 .. Len(T), NEW off,
         Carries(T, x, k, off), NEW i \in k .. Len(T), i < Len(T)
  PROVE  /\ i + 1 \in k .. Len(T) /\ off[i] \in Nat /\ off[i + 1] \in Nat
         /\ T[i + 1] \in Messages /\ Len(T[i + 1]) \in Nat /\ Len(T[i + 1]) > 0
         /\ off[i + 1] = off[i] + 3 + Len(T[i + 1])
         /\ FrameAt(x, off[i], T[i + 1])
<1>1. i + 1 \in k + 1 .. Len(T) /\ i + 1 \in k .. Len(T) /\ i + 1 - 1 = i /\ i + 1 \in 1 .. Len(T)
  OBVIOUS
<1>2. T[i + 1] \in Messages
  BY <1>1
<1>3. Len(T[i + 1]) \in Nat /\ Len(T[i + 1]) > 0
  BY <1>2, MessageFacts
<1>4. off[i] \in Nat /\ off[i + 1] \in Nat
  BY <1>1 DEF Carries
<1>5. \A j \in k + 1 .. Len(T) :
        /\ off[j] = off[j - 1] + 3 + Len(T[j])
        /\ FrameAt(x, off[j - 1], T[j])
  BY Zenon DEF Carries
<1>. QED  BY <1>1, <1>2, <1>3, <1>4, <1>5

LEMMA OffsetsGrow ==
  ASSUME NEW T \in Seq(Messages), NEW x \in Seq(Byte), NEW k \in 0 .. Len(T), NEW off,
         Carries(T, x, k, off), NEW i \in k .. Len(T), NEW j \in i .. Len(T)
  PROVE  off[i] \in Nat /\ off[j] \in Nat /\ off[i] <= off[j]
<1> DEFINE n == Len(T)
           S == {a \in Nat : i + a <= n => off[i] <= off[i + a]}
<1>1. n \in Nat /\ k \in Nat /\ i \in Nat /\ j \in Nat /\ \A a \in k .. n : off[a] \in Nat
  <2>1. \A a \in k .. n : off[a] \in Nat
    BY Zenon DEF Carries
  <2>. QED  BY <2>1
<1>2. 0 \in S
  BY <1>1
<1>3. ASSUME NEW a \in S  PROVE a + 1 \in S
  <2> SUFFICES ASSUME i + (a + 1) <= n  PROVE off[i] <= off[i + (a + 1)]
    OBVIOUS
  <2>1. a \in Nat /\ off[i] <= off[i + a]
    BY <1>1, <1>3
  <2> DEFINE b == i + a
  <2>2. b \in k .. n /\ b < n /\ i + (a + 1) = b + 1 /\ i \in k .. n
    BY <1>1, <2>1
  <2> HIDE DEF b
  <2>3. off[b + 1] = off[b] + 3 + Len(T[b + 1]) /\ Len(T[b + 1]) \in Nat
    BY <2>2, NextCarried
  <2>4. off[i] \in Nat /\ off[b] \in Nat /\ off[i] <= off[b]
    BY <1>1, <2>1, <2>2 DEF b
  <2> HIDE DEF S, n
  <2>5. off[i] <= off[b + 1]
    BY <2>3, <2>4
  <2>. QED  BY <2>2, <2>5
<1>4. S = Nat
  <2>1. S \in SUBSET Nat
    OBVIOUS
  <2> HIDE DEF S
  <2>. QED  BY <1>2, <1>3, <2>1, Induction
<1>5. j - i \in Nat /\ i + (j - i) = j /\ j <= n
  BY <1>1
<1>6. j - i \in S
  BY <1>4, <1>5
<1>7. off[i] <= off[i + (j - i)]
  BY <1>5, <1>6
<1>. QED  BY <1>1, <1>5, <1>7

\* A buffer that begins with a header is read from its beginning.
LEMMA HeaderFirst ==
  ASSUME NEW buf \in Seq(Byte), Len(buf) >= 2, buf[1] = 42, buf[2] = 66
  PROVE  FromHeader(buf) = buf
<1> DEFINE at == {i \in 1 .. Len(buf) - 1 : SubSeq(buf, i, i + 1) = Header}
           first == CHOOSE i \in at : \A j \in at : i <= j
<1>0. Len(buf) \in Nat
  OBVIOUS
<1>1. 1 \in at
  <2>1. 1 \in 1 .. Len(buf) - 1
    BY <1>0
  <2>2. SubSeq(buf, 1, 1 + 1) = [i \in 1 .. 2 |-> buf[i]]
    BY <1>0
  <2>3. <<buf[1], buf[2]>> = [i \in 1 .. 2 |-> buf[i]]
    OBVIOUS
  <2>4. SubSeq(buf, 1, 1 + 1) = Header
    <3> DEFINE two == [i \in 1 .. 2 |-> buf[i]]
    <3> HIDE DEF two
    <3>. QED  BY <2>2, <2>3 DEF Header, two
  <2>. QED  BY <2>1, <2>4
<1>2. \A j \in at : j \in Int /\ 1 <= j
  OBVIOUS
<1>3. FromHeader(buf) = IF at = {} THEN <<>> ELSE SubSeq(buf, first, Len(buf))
  BY Zenon DEF FromHeader
<1> HIDE DEF at
<1>4. first \in at /\ \A j \in at : first <= j
  BY <1>1, <1>2
<1>5. first = 1
  <2>1. first \in Int /\ first <= 1 /\ 1 <= first
    BY <1>1, <1>2, <1>4
  <2>. QED  BY <2>1
<1> HIDE DEF first
<1>6. FromHeader(buf) = SubSeq(buf, 1, Len(buf))
  BY <1>1, <1>3, <1>5
<1>. QED  BY <1>0, <1>6

LEMMA TooShort ==
  ASSUME NEW n \in Nat, NEW o \in Nat, NEW u \in Nat, n < o + 3 + u
  PROVE  ~(n - (o + 1) + 1 >= u + 3)
OBVIOUS

\* The places of a whole message of u bytes that follows o others.
LEMMA FrameLength ==
  ASSUME NEW a \in Nat, NEW b \in Nat
  PROVE  a + 3 + b \in Nat
OBVIOUS

LEMMA AtMost ==
  ASSUME NEW a \in Nat, NEW b \in Nat, NEW c \in Nat, a <= b, b <= c
  PROVE  a <= c
OBVIOUS

LEMMA Places ==
  ASSUME NEW n \in Nat, NEW o \in Nat, NEW u \in Nat, o + 3 + u <= n
  PROVE  /\ o + 1 \in 1 .. n + 1 /\ o + 3 \in 1 .. n
         /\ o + 1 \in 1 .. n /\ o + 2 \in 1 .. n
         /\ n - (o + 1) + 1 > 2 /\ n - (o + 1) + 1 >= u + 3
         /\ \A j \in 1 .. u : o + 3 + j \in 1 .. n
OBVIOUS

LEMMA SameMessages ==
  ASSUME NEW p \in Seq(Messages), NEW q \in Seq(Messages), Len(p) = Len(q),
         \A i \in 1 .. Len(q) : p[i] = q[i]
  PROVE  p = q
OBVIOUS

\* Two values that differ from two others by the same.
LEMMA Difference ==
  ASSUME NEW a \in Nat, NEW b \in Nat, NEW w \in Nat, w + b = a
  PROVE  w - w = 0 /\ a - w = b
OBVIOUS

LEMMA SameBytes ==
  ASSUME NEW p \in Seq(Byte), NEW q \in Seq(Byte), Len(p) = Len(q),
         \A i \in 1 .. Len(q) : p[i] = q[i]
  PROVE  p = q
OBVIOUS

LEMMA CutOut ==
  ASSUME NEW s \in Seq(Byte), NEW t \in Seq(Byte), NEW o \in Nat, o + 3 + Len(t) <= Len(s),
         \A j \in 1 .. Len(t) : s[o + 3 + j] = t[j]
  PROVE  SubSeq(s, o + 4, o + 3 + Len(t)) = t
<1> DEFINE r == SubSeq(s, o + 4, o + 3 + Len(t))
           a == o + 4
           b == o + 3 + Len(t)
<1>0. a \in 1 .. Len(s) + 1 /\ b \in a - 1 .. Len(s) /\ b - a + 1 = Len(t)
      /\ Len(t) \in Nat /\ \A j \in 1 .. Len(t) : a + j - 1 = o + 3 + j
  OBVIOUS
<1>1. r \in Seq(Byte) /\ Len(r) = Len(t) /\ \A j \in 1 .. Len(t) : r[j] = s[o + 3 + j]
  <2> HIDE DEF a, b
  <2>1. SubSeq(s, a, b) \in Seq(Byte) /\ Len(SubSeq(s, a, b)) = b - a + 1
        /\ \A j \in 1 .. b - a + 1 : SubSeq(s, a, b)[j] = s[a + j - 1]
    BY <1>0
  <2>. QED  BY <1>0, <2>1 DEF a, b
<1> HIDE DEF r
<1>2. r = t
  BY <1>1, SameBytes
<1>. QED  BY <1>2 DEF r

\* What the loop does with the first n bytes of x, in which the messages up to K
\* are whole.
LEMMA CutWhole ==
  ASSUME NEW T \in Seq(Messages), NEW x \in Seq(Byte), NEW k \in 0 .. Len(T), NEW off,
         Carries(T, x, k, off), NEW n \in 0 .. Len(x), NEW K \in k .. Len(T),
         off[K] <= n, K < Len(T) => n < off[K + 1],
         NEW buf \in Seq(Byte), Len(buf) = n, \A i \in 1 .. n : buf[i] = x[i]
  PROVE  Cut(buf) = [messages |-> SubSeq(T, k + 1, K),
                     rest |-> SubSeq(buf, off[K] + 1, n)]
<1> DEFINE N == Len(T)
           R == SubSeq(buf, off[K] + 1, n)
           Left(i) == [messages |-> SubSeq(T, i + 1, K), rest |-> R]
           S == {a \in Nat : K - a >= k => CutFrom(buf)[off[K - a] + 1] = Left(K - a)}
<1>1. N \in Nat /\ k \in Nat /\ K \in Nat /\ n \in Nat /\ k <= K /\ K <= N /\ Len(x) \in Nat
  OBVIOUS
<1>2. off[K] \in Nat /\ \A i \in k .. K : off[i] \in Nat /\ off[i] <= off[K]
  <2>1. \A i \in k .. K : i \in k .. N /\ K \in i .. N
    BY <1>1
  <2>2. \A i \in k .. K : off[i] \in Nat /\ off[K] \in Nat /\ off[i] <= off[K]
    BY <2>1, OffsetsGrow
  <2>3. k \in k .. K
    BY <1>1
  <2>. QED  BY <2>2, <2>3
<1>3. 0 \in S
  <2>1. off[K] + 1 \in 1 .. Len(buf) + 1
    BY <1>1, <1>2
  <2>2. ~WholeAt(buf, off[K] + 1)
    <3> SUFFICES ASSUME WholeAt(buf, off[K] + 1)  PROVE FALSE
      OBVIOUS
    <3>1. n - (off[K] + 1) + 1 > 2 /\ n - (off[K] + 1) + 1 >= buf[off[K] + 1 + 2] + 3
      BY DEF WholeAt
    <3>2. K < N
      <4> SUFFICES ASSUME K = N  PROVE FALSE
        BY <1>1
      <4>1. off[N] = Len(x)
        BY Zenon DEF Carries
      <4>. QED  BY <1>1, <1>2, <3>1, <4>1
    <3>3. /\ off[K + 1] = off[K] + 3 + Len(T[K + 1])
          /\ Len(T[K + 1]) \in Nat
          /\ x[off[K] + 3] = Len(T[K + 1])
      <4>1. FrameAt(x, off[K], T[K + 1]) /\ off[K + 1] = off[K] + 3 + Len(T[K + 1])
            /\ Len(T[K + 1]) \in Nat
        BY <3>2, NextCarried
      <4>. QED  BY <4>1 DEF FrameAt
    <3>4. off[K] + 1 + 2 = off[K] + 3 /\ off[K] + 3 \in 1 .. n
      BY <1>1, <1>2, <3>1
    <3>5. buf[off[K] + 1 + 2] = Len(T[K + 1])
      BY <3>3, <3>4
    <3> PICK o \in Nat : o = off[K]
      BY <1>2
    <3> PICK u \in Nat : u = Len(T[K + 1])
      BY <3>3
    <3>6. n - (o + 1) + 1 >= u + 3 /\ n < o + 3 + u
      BY <3>1, <3>2, <3>3, <3>5
    <3>. QED  BY <1>1, <3>6, TooShort
  <2>3. off[K] + 1 \in Nat
    BY <1>2
  <2> DEFINE p == off[K] + 1
  <2>4. CutFrom(buf)[p] = [messages |-> <<>>, rest |-> SubSeq(buf, p, Len(buf))]
    <3>1. CutFrom(buf)[p] = Turn(buf, CutFrom(buf), p)
      BY <2>1, LoopTurns
    <3> HIDE DEF p
    <3>2. ~WholeAt(buf, p)
      BY <2>2 DEF p
    <3>. QED  BY <3>1, <3>2, Zenon DEF Turn
  <2>5. SubSeq(T, K + 1, K) = <<>>
    BY <1>1
  <2>6. CutFrom(buf)[off[K] + 1] = Left(K)
    BY <2>4, <2>5, Zenon
  <2>7. K - 0 = K
    BY <1>1
  <2> HIDE DEF Left
  <2>. QED  BY <2>6, <2>7
<1>4. ASSUME NEW a \in S  PROVE a + 1 \in S
  <2> HIDE DEF Left
  <2> SUFFICES ASSUME K - (a + 1) >= k
               PROVE  CutFrom(buf)[off[K - (a + 1)] + 1] = Left(K - (a + 1))
    OBVIOUS
  <2> DEFINE i == K - (a + 1)
             p == off[i] + 1
             t == T[i + 1]
  <2>1. a \in Nat /\ K - a = i + 1 /\ K - a >= k /\ i \in k .. N /\ i \in k .. K
        /\ i < N /\ i + 1 \in k .. K
    BY <1>1
  <2>2. CutFrom(buf)[off[i + 1] + 1] = Left(i + 1)
    <3> HIDE DEF i
    <3>1. CutFrom(buf)[off[K - a] + 1] = Left(K - a)
      BY <1>4, <2>1
    <3>. QED  BY <2>1, <3>1
  <2> HIDE DEF i
  <2>3. off[i] \in Nat /\ off[i + 1] = off[i] + 3 + Len(t) /\ FrameAt(x, off[i], t)
        /\ t \in Messages /\ Len(t) \in Nat
    BY <2>1, NextCarried
  <2> HIDE DEF t
  <2> PICK o \in Nat : o = off[i]
    BY <2>3
  <2> PICK u \in Nat : u = Len(t)
    BY <2>3
  <2>4. o + 3 + u <= n
    <3>1. off[i + 1] <= off[K]
      BY <1>2, <2>1
    <3>2. o + 3 + u <= off[K]
      BY <2>3, <3>1
    <3>3. off[K] \in Nat /\ off[K] <= n /\ n \in Nat
      BY <1>1, <1>2
    <3>4. o + 3 + u \in Nat
      OBVIOUS
    <3>. QED  BY <3>2, <3>3, <3>4, AtMost, Zenon
  <2>5. /\ o + 1 \in 1 .. n + 1 /\ o + 3 \in 1 .. n
        /\ n - (o + 1) + 1 > 2 /\ n - (o + 1) + 1 >= u + 3
        /\ \A j \in 1 .. u : o + 3 + j \in 1 .. n
    BY <1>1, <2>4, Places
  <2>6. p = o + 1 /\ p + 2 = o + 3 /\ p + 3 = o + 4 /\ p + 2 + u = o + 3 + u
    OBVIOUS
  <2> HIDE DEF p
  <2>7. buf[o + 3] = u /\ \A j \in 1 .. u : buf[o + 3 + j] = t[j]
    <3>1. x[o + 3] = u /\ \A j \in 1 .. u : x[o + 3 + j] = t[j]
      BY <2>3, Zenon DEF FrameAt
    <3>. QED  BY <2>5, <3>1
  <2>8. WholeAt(buf, p)
    BY <2>5, <2>6, <2>7 DEF WholeAt
  <2>9. NextAt(buf, p) = off[i + 1] + 1
    <3>1. NextAt(buf, p) = o + 1 + u + 3
      BY <2>6, <2>7 DEF NextAt
    <3>2. off[i + 1] = o + 3 + u
      BY <2>3
    <3>3. o + 1 + u + 3 = o + 3 + u + 1
      OBVIOUS
    <3>. QED  BY <3>1, <3>2, <3>3
  <2>10. SubSeq(buf, p + 3, p + 2 + buf[p + 2]) = t
    <3>1. t \in Seq(Byte)
      BY <2>3, MessageFacts
    <3>2. o + 3 + Len(t) <= Len(buf) /\ \A j \in 1 .. Len(t) : buf[o + 3 + j] = t[j]
      BY <2>4, <2>7
    <3>3. SubSeq(buf, o + 4, o + 3 + Len(t)) = t
      BY <3>1, <3>2, CutOut
    <3>. QED  BY <2>6, <2>7, <3>3
  <2>11. CutFrom(buf)[p] = [messages |-> <<t>> \o Left(i + 1).messages,
                            rest |-> Left(i + 1).rest]
    <3>1. CutFrom(buf)[p] = Turn(buf, CutFrom(buf), p)
      BY <2>5, <2>6, LoopTurns
    <3>. QED  BY <2>2, <2>8, <2>9, <2>10, <3>1, Zenon DEF Turn
  <2>12. <<t>> \o SubSeq(T, i + 1 + 1, K) = SubSeq(T, i + 1, K)
    <3> DEFINE r == SubSeq(T, i + 1 + 1, K)
               s == SubSeq(T, i + 1, K)
    <3>0. i \in Nat
      BY <1>1, <2>1
    <3>1. r \in Seq(Messages) /\ Len(r) = K - i - 1 /\ \A j \in 1 .. K - i - 1 : r[j] = T[i + 1 + j]
      BY <1>1, <2>1, <3>0
    <3>2. s \in Seq(Messages) /\ Len(s) = K - i /\ \A j \in 1 .. K - i : s[j] = T[i + j]
      BY <1>1, <2>1, <3>0
    <3> HIDE DEF r, s
    <3>3. <<t>> \o r \in Seq(Messages) /\ Len(<<t>> \o r) = K - i /\ K - i \in Nat
      BY <1>1, <2>1, <2>3, <3>0, <3>1
    <3>4. \A j \in 1 .. K - i : (<<t>> \o r)[j] = s[j]
      <4> SUFFICES ASSUME NEW j \in 1 .. K - i  PROVE (<<t>> \o r)[j] = s[j]
        OBVIOUS
      <4>1. CASE j = 1
        <5>1. s[1] = T[i + 1]
          BY <1>1, <2>1, <3>0, <3>2
        <5>2. (<<t>> \o r)[1] = t
          BY <3>1
        <5>. QED  BY <4>1, <5>1, <5>2, Zenon DEF t
      <4>2. CASE j # 1
        <5>1. j - 1 \in 1 .. K - i - 1 /\ i + 1 + (j - 1) = i + j
          BY <1>1, <2>1, <3>0, <4>2
        <5>2. (<<t>> \o r)[j] = r[j - 1]
          BY <3>1, <5>1, <4>2
        <5>3. r[j - 1] = T[i + 1 + (j - 1)]
          BY <3>1, <5>1
        <5>. QED  BY <3>2, <5>1, <5>2, <5>3, Zenon
      <4>. QED  BY <4>1, <4>2
    <3>5. <<t>> \o r = s
      <4>1. Len(<<t>> \o r) = Len(s) /\ Len(s) = K - i
        BY <3>2, <3>3
      <4>. QED  BY <3>2, <3>3, <3>4, <4>1, SameMessages, Zenon
    <3>. QED  BY <3>5 DEF r, s
  <2>13. CutFrom(buf)[p] = Left(i)
    <3>1. Left(i + 1).messages = SubSeq(T, i + 1 + 1, K) /\ Left(i + 1).rest = R
          /\ Left(i) = [messages |-> SubSeq(T, i + 1, K), rest |-> R]
      BY Zenon DEF Left
    <3>. QED  BY <2>11, <2>12, <3>1
  <2>. QED  BY <2>13 DEF i, p
<1>5. S = Nat
  <2>1. S \in SUBSET Nat
    OBVIOUS
  <2> HIDE DEF S
  <2>. QED  BY <1>3, <1>4, <2>1, Induction
<1>6. K - k \in Nat /\ K - (K - k) = k /\ K - (K - k) >= k
  BY <1>1
<1>7. CutFrom(buf)[off[k] + 1] = Left(k)
  <2> HIDE DEF Left
  <2>1. K - k \in S
    BY <1>5, <1>6
  <2>. QED  BY <1>6, <2>1
<1>8. off[k] + 1 = 1
  <2>1. off[k] = 0
    BY Zenon DEF Carries
  <2>. QED  BY <2>1
<1>. QED  BY <1>7, <1>8 DEF Cut

-----------------------------------------------------------------------------
(* Sending and reading *)

LEMMA JoinFacts ==
  ASSUME NEW p \in Seq(Byte), NEW q \in Seq(Byte)
  PROVE  /\ p \o q \in Seq(Byte) /\ Len(p \o q) = Len(p) + Len(q)
         /\ \A i \in 1 .. Len(p) : (p \o q)[i] = p[i]
         /\ \A i \in 1 .. Len(q) : (p \o q)[Len(p) + i] = q[i]
OBVIOUS

LEMMA FrameFacts ==
  ASSUME NEW t \in Messages
  PROVE  /\ Frame(t) \in Seq(Byte) /\ Len(Frame(t)) = 3 + Len(t)
         /\ Frame(t)[1] = 42 /\ Frame(t)[2] = 66 /\ Frame(t)[3] = Len(t)
         /\ \A i \in 1 .. Len(t) : Frame(t)[3 + i] = t[i]
<1>1. t \in Seq(Byte) /\ Len(t) \in Nat /\ Len(t) \in Byte
  BY MessageFacts
<1>2. 42 \in Byte /\ 66 \in Byte
  BY DEF Byte
<1> DEFINE g == <<42, 66>>
           e == <<Len(t)>>
           h == g \o e
<1>3. /\ g \in Seq(Byte) /\ Len(g) = 2 /\ g[1] = 42 /\ g[2] = 66
      /\ e \in Seq(Byte) /\ Len(e) = 1 /\ e[1] = Len(t)
  BY <1>1, <1>2
<1>4. Frame(t) = h \o t
  BY DEF Frame, Header
<1> HIDE DEF g, e
<1>5. h \in Seq(Byte) /\ Len(h) = 3 /\ h[1] = 42 /\ h[2] = 66 /\ h[3] = Len(t)
  <2>1. /\ h \in Seq(Byte) /\ Len(h) = Len(g) + Len(e)
        /\ \A i \in 1 .. Len(g) : h[i] = g[i]
        /\ \A i \in 1 .. Len(e) : h[Len(g) + i] = e[i]
    <3>1. g \in Seq(Byte) /\ e \in Seq(Byte)
      BY <1>3
    <3>. QED  BY <3>1, JoinFacts, Zenon
  <2> HIDE DEF h
  <2>. QED  BY <1>3, <2>1
<1> HIDE DEF h
<1>0. h \in Seq(Byte) /\ t \in Seq(Byte)
  BY <1>1, <1>5
<1>6. h \o t \in Seq(Byte) /\ Len(h \o t) = Len(h) + Len(t)
      /\ (\A i \in 1 .. Len(h) : (h \o t)[i] = h[i])
      /\ \A i \in 1 .. Len(t) : (h \o t)[Len(h) + i] = t[i]
  BY <1>0, JoinFacts, Zenon
<1>7. 1 \in 1 .. Len(h) /\ 2 \in 1 .. Len(h) /\ 3 \in 1 .. Len(h)
  BY <1>5
<1>8. (h \o t)[1] = 42 /\ (h \o t)[2] = 66 /\ (h \o t)[3] = Len(t)
  BY <1>5, <1>6, <1>7
<1>9. \A i \in 1 .. Len(t) : (h \o t)[3 + i] = t[i]
  BY <1>5, <1>6, Zenon
<1>10. Len(h \o t) = 3 + Len(t)
  BY <1>5, <1>6, Zenon
<1>. QED  BY <1>4, <1>6, <1>8, <1>9, <1>10, Zenon

\* A message that is sent stands behind what was.
LEMMA SendCarries ==
  ASSUME NEW T \in Seq(Messages), NEW x \in Seq(Byte), NEW k \in 0 .. Len(T), NEW off,
         Carries(T, x, k, off), NEW m \in Messages
  PROVE  \E o : /\ Carries(Append(T, m), x \o Frame(m), k, o)
                /\ \A j \in k .. Len(T) : o[j] = off[j]
<1> DEFINE n == Len(T)
           A == Append(T, m)
           y == x \o Frame(m)
           o == [j \in k .. n + 1 |-> IF j = n + 1 THEN Len(x) + 3 + Len(m) ELSE off[j]]
<1>1. n \in Nat /\ k \in Nat /\ k <= n /\ Len(x) \in Nat /\ Len(m) \in Nat
  BY MessageFacts
<1>2. A \in Seq(Messages) /\ Len(A) = n + 1 /\ A[n + 1] = m /\ \A j \in 1 .. n : A[j] = T[j]
  BY AppendFacts
<1>3. /\ y \in Seq(Byte) /\ Len(y) = Len(x) + 3 + Len(m)
      /\ \A i \in 1 .. Len(x) : y[i] = x[i]
      /\ \A i \in 1 .. 3 + Len(m) : y[Len(x) + i] = Frame(m)[i]
  <2>1. Frame(m) \in Seq(Byte) /\ Len(Frame(m)) = 3 + Len(m)
    BY FrameFacts
  <2> DEFINE z == Frame(m)
  <2> HIDE DEF z
  <2>2. z \in Seq(Byte) /\ Len(z) = 3 + Len(m)
    BY <2>1 DEF z
  <2>3. /\ x \o z \in Seq(Byte) /\ Len(x \o z) = Len(x) + Len(z)
        /\ \A i \in 1 .. Len(x) : (x \o z)[i] = x[i]
        /\ \A i \in 1 .. Len(z) : (x \o z)[Len(x) + i] = z[i]
    BY <2>2, JoinFacts
  <2>4. Len(x) + Len(z) = Len(x) + 3 + Len(m)
    BY <1>1, <2>2
  <2>5. \A i \in 1 .. 3 + Len(m) : (x \o z)[Len(x) + i] = z[i]
    BY <2>2, <2>3, Zenon
  <2>. QED  BY <2>3, <2>4, <2>5, Zenon DEF z
<1>4. \A j \in k .. n : off[j] \in Nat /\ o[j] = off[j]
  <2>1. \A j \in k .. n : off[j] \in Nat
    BY Zenon DEF Carries
  <2>. QED  BY <1>1, <2>1
<1>5. o[n + 1] = Len(x) + 3 + Len(m) /\ off[k] = 0 /\ off[n] = Len(x)
  <2>1. off[k] = 0 /\ off[n] = Len(x)
    BY Zenon DEF Carries
  <2>. QED  BY <1>1, <2>1
<1>6. o \in [k .. n + 1 -> Nat]
  <2>1. \A j \in k .. n + 1 : j = n + 1 \/ j \in k .. n
    BY <1>1
  <2>2. Len(x) + 3 + Len(m) \in Nat
    BY <1>1
  <2>. QED  BY <1>4, <2>1, <2>2
<1> HIDE DEF o, y, A
<1>7. ASSUME NEW j \in k + 1 .. n + 1
      PROVE  o[j] = o[j - 1] + 3 + Len(A[j]) /\ FrameAt(y, o[j - 1], A[j])
  <2>1. CASE j = n + 1
    <3>1. j - 1 = n /\ n \in k .. n
      BY <1>1, <2>1
    <3>2. o[j - 1] = Len(x) /\ A[j] = m
      BY <1>2, <1>4, <1>5, <2>1, <3>1
    <3>3. FrameAt(y, Len(x), m)
      <4>1. Len(x) + 3 + Len(m) <= Len(y)
        BY <1>1, <1>3
      <4>2. y[Len(x) + 1] = 42 /\ y[Len(x) + 2] = 66 /\ y[Len(x) + 3] = Len(m)
        <5>1. 1 \in 1 .. 3 + Len(m) /\ 2 \in 1 .. 3 + Len(m) /\ 3 \in 1 .. 3 + Len(m)
          BY <1>1
        <5>2. y[Len(x) + 1] = Frame(m)[1] /\ y[Len(x) + 2] = Frame(m)[2]
              /\ y[Len(x) + 3] = Frame(m)[3]
          BY <1>3, <5>1
        <5>3. Frame(m)[1] = 42 /\ Frame(m)[2] = 66 /\ Frame(m)[3] = Len(m)
          BY FrameFacts
        <5>. QED  BY <5>2, <5>3
      <4>3. ASSUME NEW i \in 1 .. Len(m)  PROVE y[Len(x) + 3 + i] = m[i]
        <5>1. 3 + i \in 1 .. 3 + Len(m) /\ Len(x) + 3 + i = Len(x) + (3 + i)
          BY <1>1
        <5>. QED  BY <1>3, <5>1, FrameFacts
      <4>. QED  BY <4>1, <4>2, <4>3 DEF FrameAt
    <3>. QED  BY <1>5, <2>1, <3>2, <3>3
  <2>2. CASE j # n + 1
    <3>1. j \in k + 1 .. n /\ j \in k .. n /\ j - 1 \in k .. n /\ j - 1 < n /\ j - 1 + 1 = j
          /\ j \in 1 .. n /\ n \in j .. n
      BY <1>1, <2>2
    <3>2. A[j] = T[j] /\ o[j] = off[j] /\ o[j - 1] = off[j - 1]
      BY <1>2, <1>4, <3>1
    <3> DEFINE i == j - 1
    <3> HIDE DEF i
    <3>3. off[i + 1] = off[i] + 3 + Len(T[i + 1]) /\ FrameAt(x, off[i], T[i + 1])
          /\ off[i] \in Nat /\ Len(T[i + 1]) \in Nat
      BY <3>1, NextCarried DEF i
    <3>4. off[j] = off[j - 1] + 3 + Len(T[j]) /\ FrameAt(x, off[j - 1], T[j])
          /\ off[j - 1] \in Nat /\ Len(T[j]) \in Nat
      BY <3>1, <3>3 DEF i
    <3> PICK p \in Nat : p = off[j - 1]
      BY <3>4
    <3> PICK u \in Nat : u = Len(T[j])
      BY <3>4
    <3>5. FrameAt(y, p, T[j])
      <4>1. p + 3 + u <= Len(x) /\ x[p + 1] = 42 /\ x[p + 2] = 66 /\ x[p + 3] = Len(T[j])
            /\ \A a \in 1 .. u : x[p + 3 + a] = T[j][a]
        BY <3>4, Zenon DEF FrameAt
      <4>2. p + 1 \in 1 .. Len(x) /\ p + 2 \in 1 .. Len(x) /\ p + 3 \in 1 .. Len(x)
            /\ p + 3 + u <= Len(y) /\ \A a \in 1 .. u : p + 3 + a \in 1 .. Len(x)
        <5>1. Len(x) <= Len(y)
          BY <1>1, <1>3
        <5>2. Len(y) \in Nat /\ p + 3 + u \in Nat
          <6>1. Len(y) \in Nat
            BY <1>3
          <6>2. p + 3 + u \in Nat
            BY FrameLength, Zenon
          <6>. QED  BY <6>1, <6>2, Zenon
        <5>3. p + 3 + u <= Len(y)
          <6>1. Len(x) \in Nat
            BY <1>1
          <6>. QED  BY <4>1, <5>1, <5>2, <6>1, AtMost, Zenon
        <5>4. Len(x) \in Nat
          BY <1>1
        <5>. QED  BY <4>1, <5>3, <5>4, Places, Zenon
      <4>3. y[p + 1] = 42 /\ y[p + 2] = 66 /\ y[p + 3] = Len(T[j])
            /\ \A a \in 1 .. u : y[p + 3 + a] = T[j][a]
        BY <1>3, <4>1, <4>2
      <4>. QED  BY <4>2, <4>3 DEF FrameAt
    <3>. QED  BY <3>2, <3>4, <3>5
  <2>. QED  BY <2>1, <2>2
<1>8. o[k] = 0 /\ o[n + 1] = Len(y)
  <2>1. k \in k .. n
    BY <1>1
  <2>. QED  BY <1>3, <1>4, <1>5, <2>1
<1>9. Carries(A, y, k, o)
  BY <1>2, <1>6, <1>7, <1>8, Zenon DEF Carries
<1>. QED  BY <1>4, <1>9 DEF A, y

\* y is what follows place w in x.
Behind(x, w, y) ==
  /\ w + Len(y) = Len(x)
  /\ \A i \in 1 .. Len(y) : y[i] = x[w + i]

\* Places seen from w on.
LEMMA Shift ==
  ASSUME NEW p \in Nat, NEW w \in Nat, NEW q \in Nat, NEW u \in Nat, NEW l \in Nat,
         p = w + q, p + 3 + u <= w + l
  PROVE  /\ p - w = q /\ p + 3 + u - w = q + 3 + u /\ q + 3 + u <= l
         /\ w + (q + 1) = p + 1 /\ w + (q + 2) = p + 2 /\ w + (q + 3) = p + 3
         /\ \A a \in 1 .. u : w + (q + 3 + a) = p + 3 + a
OBVIOUS

\* What follows message K.
LEMMA RestCarries ==
  ASSUME NEW T \in Seq(Messages), NEW x \in Seq(Byte), NEW k \in 0 .. Len(T), NEW off,
         Carries(T, x, k, off), NEW K \in k .. Len(T),
         NEW y \in Seq(Byte), Behind(x, off[K], y)
  PROVE  Carries(T, y, K, [j \in K .. Len(T) |-> off[j] - off[K]])
<1> DEFINE n == Len(T)
           o == [j \in K .. n |-> off[j] - off[K]]
<1>1. n \in Nat /\ k \in Nat /\ K \in Nat /\ k <= K /\ K <= n
  OBVIOUS
<1>2. off[K] \in Nat /\ \A j \in K .. n : off[j] \in Nat /\ off[K] <= off[j]
  <2>1. K \in k .. n /\ K \in K .. n
    BY <1>1
  <2>. QED  BY <2>1, OffsetsGrow
<1>3. off[n] = Len(x)
  BY Zenon DEF Carries
<1>10. PICK w \in Nat : w = off[K]
  BY <1>2
<1>9. w + Len(y) = Len(x) /\ \A a \in 1 .. Len(y) : y[a] = x[w + a]
  BY <1>10 DEF Behind
<1>4. \A j \in K .. n : o[j] = off[j] - w /\ o[j] \in Nat
  BY <1>2, <1>10
<1>5. o \in [K .. n -> Nat]
  BY <1>4
<1>6. o[K] = 0 /\ o[n] = Len(y)
  <2>1. K \in K .. n /\ n \in K .. n /\ Len(y) \in Nat
    BY <1>1
  <2>2. o[K] = off[K] - w /\ o[n] = off[n] - w
    BY <1>4, <2>1
  <2>3. Len(x) \in Nat
    OBVIOUS
  <2> HIDE DEF o, n
  <2>4. w - w = 0 /\ Len(x) - w = Len(y)
    <3>1. w \in Nat /\ w + Len(y) = Len(x)
      BY <1>9, <1>10
    <3>2. Len(x) \in Nat /\ Len(y) \in Nat
      BY <2>1, <2>3, Zenon
    <3>. QED  BY <3>1, <3>2, Difference
  <2>5. o[K] = 0
    BY <1>10, <2>2, <2>4
  <2>6. o[n] = Len(y)
    BY <1>3, <2>2, <2>4
  <2>. QED  BY <2>5, <2>6
<1> HIDE DEF o
<1>7. ASSUME NEW j \in K + 1 .. n
      PROVE  o[j] = o[j - 1] + 3 + Len(T[j]) /\ FrameAt(y, o[j - 1], T[j])
  <2> DEFINE i == j - 1
  <2>1. j \in K .. n /\ i \in k .. n /\ i \in K .. n /\ i < n /\ i + 1 = j
    BY <1>1
  <2> HIDE DEF i
  <2>2. off[i + 1] = off[i] + 3 + Len(T[i + 1]) /\ FrameAt(x, off[i], T[i + 1])
        /\ off[i] \in Nat /\ Len(T[i + 1]) \in Nat
    BY <2>1, NextCarried
  <2>3. PICK p \in Nat : p = off[i]
    BY <2>2
  <2>4. PICK u \in Nat : u = Len(T[j])
    BY <2>1, <2>2
  <2>5. off[j] = p + 3 + u /\ FrameAt(x, p, T[j]) /\ w <= p
    BY <1>2, <1>10, <2>1, <2>2, <2>3, <2>4
  <2>6. PICK q \in Nat : p = w + q
    <3>1. p - w \in Nat /\ p = w + (p - w)
      BY <2>5
    <3>. QED  BY <3>1
  <2>7. p + 3 + u <= Len(x) /\ x[p + 1] = 42 /\ x[p + 2] = 66 /\ x[p + 3] = Len(T[j])
        /\ \A a \in 1 .. u : x[p + 3 + a] = T[j][a]
    BY <2>4, <2>5, Zenon DEF FrameAt
  <2>8. /\ p - w = q /\ p + 3 + u - w = q + 3 + u /\ q + 3 + u <= Len(y)
        /\ w + (q + 1) = p + 1 /\ w + (q + 2) = p + 2 /\ w + (q + 3) = p + 3
        /\ \A a \in 1 .. u : w + (q + 3 + a) = p + 3 + a
    <3>1. Len(y) \in Nat /\ p + 3 + u <= w + Len(y)
      BY <1>9, <2>7
    <3>. QED  BY <2>6, <3>1, Shift
  <2>9. o[i] = q /\ o[j] = q + 3 + u
    <3>1. o[i] = off[i] - w /\ o[j] = off[j] - w
      BY <1>4, <2>1
    <3>2. off[i] - w = q /\ off[j] - w = q + 3 + u
      <4>1. off[i] = p /\ off[j] = p + 3 + u
        BY <2>3, <2>5
      <4>2. p - w = q /\ p + 3 + u - w = q + 3 + u
        BY <2>8
      <4>3. off[i] - w = p - w /\ off[j] - w = p + 3 + u - w
        BY <4>1
      <4>. QED  BY <4>2, <4>3
    <3>. QED  BY <3>1, <3>2, Zenon
  <2>10. FrameAt(y, q, T[j])
    <3>3. q + 1 \in 1 .. Len(y) /\ q + 2 \in 1 .. Len(y) /\ q + 3 \in 1 .. Len(y)
          /\ \A a \in 1 .. u : q + 3 + a \in 1 .. Len(y)
      <4>1. Len(y) \in Nat
        OBVIOUS
      <4>. QED  BY <2>8, <4>1, Places
    <3>5. y[q + 1] = 42 /\ y[q + 2] = 66 /\ y[q + 3] = Len(T[j])
      <4>1. y[q + 1] = x[w + (q + 1)] /\ y[q + 2] = x[w + (q + 2)] /\ y[q + 3] = x[w + (q + 3)]
        BY <1>9, <3>3, Zenon
      <4>2. w + (q + 1) = p + 1 /\ w + (q + 2) = p + 2 /\ w + (q + 3) = p + 3
        BY <2>8
      <4>3. x[p + 1] = 42 /\ x[p + 2] = 66 /\ x[p + 3] = Len(T[j])
        BY <2>7
      <4>4. Len(T[j]) = u
        BY <2>4
      <4>. QED  BY <4>1, <4>2, <4>3, <4>4, Zenon
    <3>6. \A a \in 1 .. u : y[q + 3 + a] = T[j][a]
      <4> SUFFICES ASSUME NEW a \in 1 .. u  PROVE y[q + 3 + a] = T[j][a]
        OBVIOUS
      <4>1. q + 3 + a \in 1 .. Len(y)
        BY <3>3, Zenon
      <4>2. y[q + 3 + a] = x[w + (q + 3 + a)]
        BY <1>9, <4>1, Zenon
      <4>. QED  BY <2>7, <2>8, <4>2, Zenon
    <3>. QED  BY <2>4, <2>8, <3>5, <3>6 DEF FrameAt
  <2>. QED  BY <2>1, <2>4, <2>9, <2>10 DEF i
<1>8. Carries(T, y, K, o)
  BY <1>5, <1>6, <1>7, Zenon DEF Carries
<1>. QED  BY <1>8 DEF o

\* The last message that is whole in the first n bytes.
LEMMA LastWhole ==
  ASSUME NEW T \in Seq(Messages), NEW x \in Seq(Byte), NEW k \in 0 .. Len(T), NEW off,
         Carries(T, x, k, off), NEW n \in 0 .. Len(x)
  PROVE  \E K \in k .. Len(T) : off[K] <= n /\ (K < Len(T) => n < off[K + 1])
<1> DEFINE N == Len(T)
           U == {a \in Nat : a <= N - k /\ off[N - a] <= n}
<1>1. N \in Nat /\ k \in Nat /\ k <= N /\ n \in Nat /\ off[k] = 0 /\ \A j \in k .. N : off[j] \in Nat
  <2>1. off[k] = 0 /\ \A j \in k .. N : off[j] \in Nat
    BY Zenon DEF Carries
  <2>. QED  BY <2>1
<1>2. U \in SUBSET Nat /\ U # {}
  <2>1. N - k \in Nat /\ N - (N - k) = k
    BY <1>1
  <2>2. N - k \in U
    BY <1>1, <2>1
  <2>. QED  BY <2>2
<1>3. PICK a \in U : \A b \in U : a <= b
  <2> HIDE DEF U
  <2>. QED  BY <1>2, Least
<1> DEFINE K == N - a
<1>4. a \in Nat /\ a <= N - k /\ off[K] <= n /\ K \in k .. N
  BY <1>1
<1>5. ASSUME K < N  PROVE n < off[K + 1]
  <2>1. a - 1 \in Nat /\ a - 1 <= N - k /\ ~(a <= a - 1) /\ N - (a - 1) = K + 1 /\ K + 1 \in k .. N
    BY <1>1, <1>4, <1>5
  <2>2. a - 1 \notin U
    BY <1>3, <2>1
  <2>3. ~(off[N - (a - 1)] <= n)
    BY <2>1, <2>2, Zenon
  <2> HIDE DEF K
  <2>4. off[K + 1] \in Nat /\ ~(off[K + 1] <= n)
    BY <1>1, <2>1, <2>3
  <2>. QED  BY <1>1, <2>4
<1>. QED  BY <1>4, <1>5

\* Of T, done is parsed, and kept is the front of the next message, ahead what follows it.
Reads(T, kept, ahead, done) ==
  /\ kept \in Seq(Byte)
  /\ \E k \in 0 .. Len(T) : \E off \in [k .. Len(T) -> Nat] :
       /\ done = SubSeq(T, 1, k)
       /\ Carries(T, kept \o ahead, k, off)
       /\ kept = <<>> \/ (k < Len(T) /\ Len(kept) < off[k + 1])

LEMMA NothingReads == Reads(<<>>, <<>>, <<>>, <<>>)
<1> DEFINE off == [j \in 0 .. 0 |-> 0]
<1>1. off \in [0 .. 0 -> Nat] /\ off[0] = 0 /\ 0 \in 0 .. 0 /\ 1 .. 0 = {}
  OBVIOUS
<1>2. Len(<<>>) = 0 /\ SubSeq(<<>>, 1, 0) = <<>> /\ <<>> \o <<>> = <<>> /\ <<>> \in Seq(Byte)
  OBVIOUS
<1>3. Carries(<<>>, <<>>, 0, off)
  <2> HIDE DEF off
  <2>1. 0 + 1 = 1
    OBVIOUS
  <2>. QED  BY <1>1, <1>2, <2>1, Zenon DEF Carries
<1>4. 0 \in 0 .. Len(<<>>) /\ off \in [0 .. Len(<<>>) -> Nat]
  BY <1>1, <1>2
<1>5. Carries(<<>>, <<>> \o <<>>, 0, off) /\ <<>> = SubSeq(<<>>, 1, 0)
  BY <1>2, <1>3
<1> HIDE DEF off
<1>6. \E k \in 0 .. Len(<<>>) : \E f \in [k .. Len(<<>>) -> Nat] :
        /\ <<>> = SubSeq(<<>>, 1, k)
        /\ Carries(<<>>, <<>> \o <<>>, k, f)
        /\ <<>> = <<>> \/ (k < Len(<<>>) /\ Len(<<>>) < f[k + 1])
  BY <1>4, <1>5
<1>. QED  BY <1>2, <1>6 DEF Reads

LEMMA SendReads ==
  ASSUME NEW T \in Seq(Messages), NEW kept, NEW ahead \in Seq(Byte), NEW done,
         Reads(T, kept, ahead, done), NEW m \in Messages
  PROVE  Reads(Append(T, m), kept, ahead \o Frame(m), done)
<1> DEFINE A == Append(T, m)
<1>0. kept \in Seq(Byte)
  BY DEF Reads
<1>1. PICK k \in 0 .. Len(T) : \E off \in [k .. Len(T) -> Nat] :
        /\ done = SubSeq(T, 1, k)
        /\ Carries(T, kept \o ahead, k, off)
        /\ kept = <<>> \/ (k < Len(T) /\ Len(kept) < off[k + 1])
  BY Zenon DEF Reads
<1>2. PICK off \in [k .. Len(T) -> Nat] :
        /\ done = SubSeq(T, 1, k)
        /\ Carries(T, kept \o ahead, k, off)
        /\ kept = <<>> \/ (k < Len(T) /\ Len(kept) < off[k + 1])
  BY <1>1, Zenon
<1>3. kept \o ahead \in Seq(Byte)
  BY <1>0
<1>4. PICK o : Carries(A, (kept \o ahead) \o Frame(m), k, o) /\ \A j \in k .. Len(T) : o[j] = off[j]
  <2> DEFINE x == kept \o ahead
  <2>1. x \in Seq(Byte) /\ Carries(T, x, k, off)
    BY <1>2, <1>3, Zenon
  <2> HIDE DEF x
  <2>2. \E o : Carries(A, x \o Frame(m), k, o) /\ \A j \in k .. Len(T) : o[j] = off[j]
    BY <2>1, SendCarries
  <2>. QED  BY <2>2, Zenon DEF x
<1>5. (kept \o ahead) \o Frame(m) = kept \o (ahead \o Frame(m))
  <2> DEFINE z == Frame(m)
  <2>1. z \in Seq(Byte)
    BY FrameFacts
  <2> HIDE DEF z
  <2>2. (kept \o ahead) \o z = kept \o (ahead \o z)
    <3>1. \A x, y, v \in Seq(Byte) : (x \o y) \o v = x \o (y \o v)
      OBVIOUS
    <3>. QED  BY <1>0, <2>1, <3>1, Zenon
  <2>. QED  BY <2>2 DEF z
<1>6. A \in Seq(Messages) /\ Len(A) = Len(T) + 1 /\ k \in 0 .. Len(A) /\ (k < Len(T) => k + 1 \in k .. Len(T))
  OBVIOUS
<1>7. SubSeq(A, 1, k) = SubSeq(T, 1, k)
  OBVIOUS
<1>8. kept = <<>> \/ (k < Len(A) /\ Len(kept) < o[k + 1])
  <2> HIDE DEF A
  <2> SUFFICES ASSUME k < Len(T), Len(kept) < off[k + 1]
               PROVE  k < Len(A) /\ Len(kept) < o[k + 1]
    BY <1>2, Zenon
  <2>1. k + 1 \in k .. Len(T) /\ k < Len(A)
    BY <1>6
  <2>. QED  BY <1>4, <2>1
<1>9. o \in [k .. Len(A) -> Nat]
  BY <1>4, Zenon DEF Carries
<1>10. k \in 0 .. Len(A)
  BY <1>6
<1> HIDE DEF A
<1>11. Carries(A, kept \o (ahead \o Frame(m)), k, o)
  BY <1>4, <1>5 DEF A
<1>12. done = SubSeq(A, 1, k)
  BY <1>2, <1>7 DEF A
<1>13. Reads(A, kept, ahead \o Frame(m), done)
  BY <1>0, <1>8, <1>9, <1>10, <1>11, <1>12, Zenon DEF Reads
<1>. QED  BY <1>13 DEF A

LEMMA JoinMessages ==
  ASSUME NEW p \in Seq(Messages), NEW q \in Seq(Messages)
  PROVE  /\ p \o q \in Seq(Messages) /\ Len(p \o q) = Len(p) + Len(q)
         /\ \A i \in 1 .. Len(p) : (p \o q)[i] = p[i]
         /\ \A i \in 1 .. Len(q) : (p \o q)[Len(p) + i] = q[i]
OBVIOUS

\* A piece of n bytes is read.
LEMMA PieceReads ==
  ASSUME NEW T \in Seq(Messages), NEW kept, NEW ahead \in Seq(Byte), NEW done,
         Reads(T, kept, ahead, done), NEW n \in 1 .. Len(ahead),
         Len(kept \o SubSeq(ahead, 1, n)) # 1
  PROVE  LET step == Cut(FromHeader(kept \o SubSeq(ahead, 1, n)))
         IN  Reads(T, step.rest, SubSeq(ahead, n + 1, Len(ahead)), done \o step.messages)
<1> DEFINE N == Len(T)
           x == kept \o ahead
           piece == SubSeq(ahead, 1, n)
           later == SubSeq(ahead, n + 1, Len(ahead))
           buf == kept \o piece
           step == Cut(FromHeader(buf))
           L == Len(buf)
<1>1. kept \in Seq(Byte)
  BY DEF Reads
<1>2. PICK k \in 0 .. Len(T) : \E off \in [k .. Len(T) -> Nat] :
        /\ done = SubSeq(T, 1, k)
        /\ Carries(T, x, k, off)
        /\ kept = <<>> \/ (k < Len(T) /\ Len(kept) < off[k + 1])
  BY Zenon DEF Reads
<1>3. PICK off \in [k .. Len(T) -> Nat] :
        /\ done = SubSeq(T, 1, k)
        /\ Carries(T, x, k, off)
        /\ kept = <<>> \/ (k < Len(T) /\ Len(kept) < off[k + 1])
  BY <1>2, Zenon
<1>4. /\ n \in Nat /\ n > 0 /\ n <= Len(ahead) /\ Len(ahead) \in Nat /\ Len(kept) \in Nat
      /\ piece \in Seq(Byte) /\ Len(piece) = n
      /\ \A i \in 1 .. n : piece[i] = ahead[i]
      /\ later \in Seq(Byte) /\ Len(later) = Len(ahead) - n
      /\ \A i \in 1 .. Len(ahead) - n : later[i] = ahead[n + i]
  BY <1>1
<1>5. /\ x \in Seq(Byte) /\ Len(x) = Len(kept) + Len(ahead)
      /\ \A i \in 1 .. Len(kept) : x[i] = kept[i]
      /\ \A i \in 1 .. Len(ahead) : x[Len(kept) + i] = ahead[i]
  BY <1>1, JoinFacts
<1> HIDE DEF piece, later
<1>6. /\ buf \in Seq(Byte) /\ L = Len(kept) + n
      /\ \A i \in 1 .. Len(kept) : buf[i] = kept[i]
      /\ \A i \in 1 .. n : buf[Len(kept) + i] = piece[i]
  <2>1. /\ buf \in Seq(Byte) /\ L = Len(kept) + Len(piece)
        /\ \A i \in 1 .. Len(kept) : buf[i] = kept[i]
        /\ \A i \in 1 .. Len(piece) : buf[Len(kept) + i] = piece[i]
    BY <1>1, <1>4, JoinFacts
  <2> HIDE DEF buf
  <2>. QED  BY <1>4, <2>1
<1>7. L # 1
  BY DEF piece
<1> HIDE DEF x, buf
<1>8. L \in 2 .. Len(x) /\ L \in Nat
  BY <1>4, <1>5, <1>6, <1>7
<1>9. \A i \in 1 .. L : buf[i] = x[i]
  <2> SUFFICES ASSUME NEW i \in 1 .. L  PROVE buf[i] = x[i]
    OBVIOUS
  <2>1. CASE i \in 1 .. Len(kept)
    BY <1>5, <1>6, <2>1
  <2>2. CASE i \notin 1 .. Len(kept)
    <3> DEFINE j == i - Len(kept)
    <3>1. j \in 1 .. n /\ j \in 1 .. Len(ahead) /\ i = Len(kept) + j
      BY <1>4, <1>6, <2>2
    <3> HIDE DEF j
    <3>2. buf[Len(kept) + j] = piece[j] /\ piece[j] = ahead[j] /\ x[Len(kept) + j] = ahead[j]
      BY <1>4, <1>5, <1>6, <3>1, Zenon
    <3>. QED  BY <3>1, <3>2
  <2>. QED  BY <2>1, <2>2
<1>10. FromHeader(buf) = buf
  <2>1. k < N
    <3> SUFFICES ASSUME k = N  PROVE FALSE
      OBVIOUS
    <3>1. off[k] = 0 /\ off[N] = Len(x)
      BY <1>3, Zenon DEF Carries
    <3>2. Len(x) = 0
      BY <3>1
    <3>. QED  BY <1>8, <3>2
  <2>2. FrameAt(x, off[k], T[k + 1]) /\ off[k] = 0
    <3>1. k \in k .. N
      OBVIOUS
    <3>2. off[k] = 0
      BY <1>3, Zenon DEF Carries
    <3>. QED  BY <1>3, <1>5, <2>1, <3>1, <3>2, NextCarried
  <2>3. x[1] = 42 /\ x[2] = 66
    <3>1. x[0 + 1] = 42 /\ x[0 + 2] = 66
      BY <2>2, Zenon DEF FrameAt
    <3>. QED  BY <3>1
  <2>4. 1 \in 1 .. L /\ 2 \in 1 .. L /\ L >= 2
    BY <1>8
  <2>5. buf[1] = 42 /\ buf[2] = 66
    BY <1>9, <2>3, <2>4
  <2>. QED  BY <1>6, <2>4, <2>5, HeaderFirst
<1>11. PICK K \in k .. N : off[K] <= L /\ (K < N => L < off[K + 1])
  <2>1. L \in 0 .. Len(x)
    BY <1>8
  <2>. QED  BY <1>3, <1>5, <2>1, LastWhole
<1>12. off[K] \in Nat /\ K \in Nat /\ N \in Nat /\ K <= N /\ k <= K /\ k \in Nat
  OBVIOUS
<1> DEFINE rest == SubSeq(buf, off[K] + 1, L)
           whole == SubSeq(T, k + 1, K)
<1>13. step.messages = whole /\ step.rest = rest
  <2>1. L \in 0 .. Len(x)
    BY <1>8
  <2>2. Cut(buf) = [messages |-> whole, rest |-> rest]
    BY <1>3, <1>5, <1>6, <1>9, <1>11, <2>1, CutWhole
  <2>3. step = Cut(buf)
    BY <1>10
  <2> HIDE DEF step, whole, rest
  <2>. QED  BY <2>2, <2>3
<1>14. /\ rest \in Seq(Byte) /\ Len(rest) = L - off[K]
       /\ \A i \in 1 .. L - off[K] : rest[i] = buf[off[K] + i]
  <2>1. PICK w \in Nat : w = off[K]
    BY <1>12
  <2> DEFINE r == SubSeq(buf, w + 1, L)
  <2>2. w <= L
    BY <1>11, <2>1
  <2>3. r \in Seq(Byte) /\ Len(r) = L - w /\ \A i \in 1 .. L - w : r[i] = buf[w + i]
    <3> DEFINE a == w + 1
    <3>1. a \in Int /\ L \in Int /\ a - 1 = w /\ a <= L + 1 /\ L - a + 1 = L - w
          /\ \A i \in a .. L : buf[i] \in Byte
      BY <1>6, <1>8, <2>2
    <3>2. \A i \in 1 .. L - w : a + i - 1 = w + i
      OBVIOUS
    <3>3. (IF a <= L THEN L - a + 1 ELSE 0) = L - w
      BY <1>8, <2>2
    <3> HIDE DEF a
    <3>4. /\ SubSeq(buf, a, L) \in Seq(Byte)
          /\ Len(SubSeq(buf, a, L)) = IF a <= L THEN L - a + 1 ELSE 0
          /\ \A i \in 1 .. L - a + 1 : SubSeq(buf, a, L)[i] = buf[a + i - 1]
      BY <3>1
    <3>. QED  BY <3>1, <3>2, <3>3, <3>4 DEF a
  <2>. QED  BY <2>1, <2>3
<1>15. done \o whole = SubSeq(T, 1, K)
  <2>1. done = SubSeq(T, 1, k)
    BY <1>3
  <2>2. /\ done \in Seq(Messages) /\ Len(done) = k /\ \A i \in 1 .. k : done[i] = T[i]
    BY <2>1
  <2>3. /\ whole \in Seq(Messages) /\ Len(whole) = K - k /\ \A i \in 1 .. K - k : whole[i] = T[k + i]
    BY <1>12
  <2> DEFINE s == SubSeq(T, 1, K)
  <2>4. s \in Seq(Messages) /\ Len(s) = K /\ \A i \in 1 .. K : s[i] = T[i]
    BY <1>12
  <2> HIDE DEF s, whole
  <2> DEFINE r == done \o whole
  <2>5. r \in Seq(Messages) /\ Len(r) = K /\ (\A i \in 1 .. k : r[i] = done[i])
        /\ \A i \in 1 .. K - k : r[k + i] = whole[i]
    <3>1. /\ r \in Seq(Messages) /\ Len(r) = Len(done) + Len(whole)
          /\ \A i \in 1 .. Len(done) : r[i] = done[i]
          /\ \A i \in 1 .. Len(whole) : r[Len(done) + i] = whole[i]
      BY <2>2, <2>3, JoinMessages
    <3>2. Len(done) = k /\ Len(whole) = K - k /\ k + (K - k) = K
      BY <1>12, <2>2, <2>3
    <3> HIDE DEF r
    <3>3. r \in Seq(Messages) /\ Len(r) = K
      BY <3>1, <3>2
    <3>. QED  BY <3>1, <3>2, <3>3, Zenon
  <2> HIDE DEF r
  <2>6. \A i \in 1 .. K : r[i] = s[i]
    <3> SUFFICES ASSUME NEW i \in 1 .. K  PROVE r[i] = s[i]
      OBVIOUS
    <3>1. CASE i <= k
      <4>1. i \in 1 .. k
        BY <1>12, <3>1
      <4>. QED  BY <2>2, <2>4, <2>5, <4>1, Zenon
    <3>2. CASE i > k
      <4>1. i - k \in 1 .. K - k /\ k + (i - k) = i
        BY <1>12, <3>2
      <4>2. r[k + (i - k)] = T[k + (i - k)]
        BY <2>3, <2>5, <4>1
      <4>. QED  BY <2>4, <4>1, <4>2
    <3>. QED  BY <1>12, <3>1, <3>2
  <2>7. r = s
    BY <2>4, <2>5, <2>6
  <2>. QED  BY <2>7 DEF r, s
<1> HIDE DEF rest, whole, step
<1> DEFINE y == rest \o later
<1>16. y \in Seq(Byte) /\ Behind(x, off[K], y)
  <2>1. PICK w \in Nat : w = off[K]
    BY <1>12
  <2>2. w <= L /\ Len(rest) = L - w /\ rest \in Seq(Byte)
        /\ \A i \in 1 .. L - w : rest[i] = buf[w + i]
    BY <1>11, <1>14, <2>1
  <2>3. /\ y \in Seq(Byte) /\ Len(y) = Len(rest) + Len(later)
        /\ \A i \in 1 .. Len(rest) : y[i] = rest[i]
        /\ \A i \in 1 .. Len(later) : y[Len(rest) + i] = later[i]
    BY <1>4, <2>2, JoinFacts
  <2> HIDE DEF y
  <2>4. w + Len(y) = Len(x)
    BY <1>4, <1>5, <1>6, <1>8, <2>2, <2>3
  <2>5. ASSUME NEW i \in 1 .. Len(y)  PROVE y[i] = x[w + i]
    <3>1. CASE i \in 1 .. L - w
      <4>1. w + i \in 1 .. L
        BY <1>8, <2>2, <3>1
      <4>2. y[i] = rest[i] /\ rest[i] = buf[w + i]
        BY <2>2, <2>3, <3>1
      <4>. QED  BY <1>9, <4>1, <4>2
    <3>2. CASE i \notin 1 .. L - w
      <4> DEFINE j == i - (L - w)
      <4>1. j \in 1 .. Len(later) /\ j \in 1 .. Len(ahead) - n /\ i = L - w + j
            /\ n + j \in 1 .. Len(ahead) /\ Len(kept) + (n + j) = w + i
        <5>1. PICK c \in Nat : c = Len(kept)
          BY <1>4
        <5>2. PICK d \in Nat : d = Len(ahead)
          BY <1>4
        <5>3. L = c + n /\ Len(rest) = c + n - w /\ Len(later) = d - n /\ Len(y) = c + n - w + (d - n)
              /\ w <= c + n /\ n <= d
          BY <1>4, <1>6, <2>2, <2>3, <5>1, <5>2
        <5>4. i \in 1 .. c + n - w + (d - n) /\ i \notin 1 .. c + n - w
          BY <3>2, <5>3
        <5>5. LET e == i - (c + n - w)
              IN  e \in 1 .. d - n /\ i = c + n - w + e /\ n + e \in 1 .. d /\ c + (n + e) = w + i
          BY <1>4, <5>3, <5>4
        <5>. QED  BY <5>1, <5>2, <5>3, <5>5
      <4> HIDE DEF j
      <4>2. y[L - w + j] = later[j]
        BY <2>2, <2>3, <4>1
      <4>3. later[j] = ahead[n + j] /\ x[Len(kept) + (n + j)] = ahead[n + j]
        BY <1>4, <1>5, <4>1
      <4>. QED  BY <4>1, <4>2, <4>3
    <3>. QED  BY <3>1, <3>2
  <2>. QED  BY <2>1, <2>3, <2>4, <2>5, Zenon DEF Behind
<1> DEFINE o == [j \in K .. N |-> off[j] - off[K]]
<1>17. Carries(T, y, K, o)
  <2> HIDE DEF y
  <2>. QED  BY <1>3, <1>5, <1>11, <1>16, RestCarries
<1>18. o \in [K .. N -> Nat]
  <2> HIDE DEF o
  <2>. QED  BY <1>17, Zenon DEF Carries
<1>19. rest = <<>> \/ (K < N /\ Len(rest) < o[K + 1])
  <2> HIDE DEF o, y
  <2> SUFFICES ASSUME rest # <<>>  PROVE K < N /\ Len(rest) < o[K + 1]
    BY Zenon
  <2>1. PICK w \in Nat : w = off[K]
    BY <1>12
  <2>2. Len(rest) = L - w /\ L - w > 0
    BY <1>8, <1>11, <1>14, <2>1
  <2>3. K < N
    <3> SUFFICES ASSUME K = N  PROVE FALSE
      BY <1>12
    <3>1. off[N] = Len(x)
      BY <1>3, Zenon DEF Carries
    <3>. QED  BY <1>8, <2>1, <2>2, <3>1
  <2>4. K + 1 \in K .. N /\ K + 1 \in k .. N
    BY <1>12, <2>3
  <2>5. PICK v \in Nat : v = off[K + 1]
    BY <2>4
  <2>6. o[K + 1] = v - w
    BY <2>1, <2>4, <2>5 DEF o
  <2>7. L < v
    BY <1>11, <2>3, <2>5
  <2>8. L - w < v - w
    BY <1>8, <2>7
  <2>. QED  BY <2>2, <2>3, <2>6, <2>8
<1> HIDE DEF o
<1>20. K \in 0 .. N
  BY <1>12
<1>21. Reads(T, rest, later, SubSeq(T, 1, K))
  BY <1>14, <1>17, <1>18, <1>19, <1>20, Zenon DEF Reads
<1>22. Reads(T, step.rest, later, done \o step.messages)
  BY <1>13, <1>15, <1>21
<1>. QED  BY <1>22 DEF step, later, buf, piece

-----------------------------------------------------------------------------
(* The theorem *)

FTyped ==
  /\ line \in Seq(Byte) /\ late \in BOOLEAN /\ clean \in BOOLEAN
  /\ sent \in Seq(Messages)

\* Undisturbed, what is kept and what is on the way carry the messages that are not
\* parsed yet; what is kept ends before the first of them does.
FRead == clean => Reads(sent, Kept, line, parsed)

FInv == FTyped /\ FRead

LEMMA FInvInit ==
  ASSUME Init
  PROVE  FInv
<1>1. FTyped
  <2>1. <<>> \in Seq(Byte) /\ <<>> \in Seq(Messages)
    OBVIOUS
  <2>. QED  BY <2>1 DEF Init, FTyped
<1>2. Kept = <<>> /\ sent = <<>> /\ line = <<>> /\ parsed = <<>>
  BY DEF Init, Kept
<1>3. Reads(sent, Kept, line, parsed)
  BY <1>2, NothingReads
<1>. QED  BY <1>1, <1>3 DEF FInv, FRead

LEMMA FInvSend ==
  ASSUME FInv, NEW m \in Messages, Send(m)
  PROVE  FInv'
<1>1. /\ line \in Seq(Byte) /\ late \in BOOLEAN /\ clean \in BOOLEAN
      /\ sent \in Seq(Messages)
  BY DEF FInv, FTyped
<1>2. line' = line \o Frame(m) /\ sent' = Append(sent, m) /\ late' = late /\ clean' = clean
      /\ parsed' = parsed /\ Kept' = Kept
  BY DEF Send, Kept
<1>3. FTyped'
  <2>1. Frame(m) \in Seq(Byte)
    BY FrameFacts
  <2>2. line \o Frame(m) \in Seq(Byte)
    BY <1>1, <2>1, JoinFacts
  <2>3. Append(sent, m) \in Seq(Messages)
    BY <1>1
  <2>. QED  BY <1>1, <1>2, <2>2, <2>3 DEF FTyped
<1>4. ASSUME clean'  PROVE Reads(sent', Kept', line', parsed')
  <2>1. Reads(sent, Kept, line, parsed)
    BY <1>2, <1>4 DEF FInv, FRead
  <2>2. Reads(Append(sent, m), Kept, line \o Frame(m), parsed)
    BY <1>1, <2>1, SendReads
  <2>. QED  BY <1>2, <2>2
<1>. QED  BY <1>3, <1>4 DEF FInv, FRead

LEMMA FInvPause ==
  ASSUME FInv, Pause
  PROVE  FInv'
<1>1. /\ line \in Seq(Byte) /\ late \in BOOLEAN /\ clean \in BOOLEAN
      /\ sent \in Seq(Messages)
  BY DEF FInv, FTyped
<1>2. line' = line /\ late' = TRUE /\ Kept' = <<>>
  BY DEF Pause, Kept
<1>3. CASE line = <<>>
  <2>1. sent' = <<>> /\ parsed' = <<>> /\ line' = <<>> /\ clean' = TRUE
    BY <1>2, <1>3 DEF Pause
  <2>2. FTyped'
    BY <1>2, <2>1 DEF FTyped
  <2>3. Reads(sent', Kept', line', parsed')
    BY <1>2, <2>1, NothingReads
  <2>. QED  BY <2>2, <2>3 DEF FInv, FRead
<1>4. CASE line # <<>>
  <2>1. sent' = sent /\ parsed' = parsed /\ clean' = (clean /\ readData = <<>>) /\ ~late
    BY <1>4 DEF Pause
  <2>2. FTyped'
    BY <1>1, <1>2, <2>1 DEF FTyped
  <2>3. ASSUME clean'  PROVE Reads(sent', Kept', line', parsed')
    <3>1. clean /\ Kept = <<>>
      BY <2>1, <2>3 DEF Kept
    <3>2. Reads(sent, Kept, line, parsed)
      BY <3>1 DEF FInv, FRead
    <3>. QED  BY <1>2, <2>1, <3>1, <3>2
  <2>. QED  BY <2>2, <2>3 DEF FInv, FRead
<1>. QED  BY <1>3, <1>4

LEMMA FInvRead ==
  ASSUME FInv, NEW n \in 1 .. Len(line), SpHandleReadyRead(n)
  PROVE  FInv'
<1> DEFINE buf == Kept \o SubSeq(line, 1, n)
           step == Cut(FromHeader(buf))
<1>1. /\ line \in Seq(Byte) /\ late \in BOOLEAN /\ clean \in BOOLEAN
      /\ sent \in Seq(Messages)
  BY DEF FInv, FTyped
<1>2. /\ parsed' = parsed \o step.messages /\ readData' = step.rest
      /\ line' = SubSeq(line, n + 1, Len(line)) /\ late' = FALSE
      /\ clean' = (clean /\ Len(buf) # 1) /\ sent' = sent
  BY Zenon DEF SpHandleReadyRead
<1>3. Kept' = step.rest
  <2> HIDE DEF step
  <2>. QED  BY <1>2 DEF Kept
<1>4. FTyped'
  <2>1. SubSeq(line, n + 1, Len(line)) \in Seq(Byte)
    BY <1>1
  <2>2. (clean /\ Len(buf) # 1) \in BOOLEAN
    OBVIOUS
  <2> HIDE DEF buf
  <2>. QED  BY <1>1, <1>2, <2>1, <2>2 DEF FTyped
<1>5. ASSUME clean'  PROVE Reads(sent', Kept', line', parsed')
  <2>1. clean /\ Len(buf) # 1
    BY <1>2, <1>5, Zenon
  <2>2. Reads(sent, Kept, line, parsed)
    BY <2>1 DEF FInv, FRead
  <2>3. Reads(sent, step.rest, SubSeq(line, n + 1, Len(line)), parsed \o step.messages)
    BY <1>1, <2>1, <2>2, PieceReads
  <2> HIDE DEF step
  <2>. QED  BY <1>2, <1>3, <2>3
<1>. QED  BY <1>4, <1>5 DEF FInv, FRead

LEMMA FInvLose ==
  ASSUME FInv, NEW i \in 1 .. Len(line), Lose(i)
  PROVE  FInv'
<1>1. line \in Seq(Byte) /\ late \in BOOLEAN /\ sent \in Seq(Messages)
  BY DEF FInv, FTyped
<1>2. line' = RemoveAt(line, i) /\ clean' = FALSE /\ late' = late /\ sent' = sent
  BY DEF Lose
<1>3. RemoveAt(line, i) \in Seq(Byte)
  BY <1>1, RemoveAtPlaces
<1>. QED  BY <1>1, <1>2, <1>3 DEF FInv, FTyped, FRead

LEMMA FInvNext ==
  ASSUME FInv, [Next]_vars
  PROVE  FInv'
<1>1. CASE UNCHANGED vars
  BY <1>1 DEF vars, FInv, FTyped, FRead, Kept
<1>2. ASSUME NEW m \in Messages, Send(m)  PROVE FInv'
  BY <1>2, FInvSend
<1>3. CASE Pause
  BY <1>3, FInvPause
<1>4. ASSUME NEW n \in 1 .. Len(line), SpHandleReadyRead(n)  PROVE FInv'
  BY <1>4, FInvRead
<1>5. ASSUME NEW i \in 1 .. Len(line), Lose(i)  PROVE FInv'
  BY <1>5, FInvLose
<1>. QED  BY <1>1, <1>2, <1>3, <1>4, <1>5 DEF Next

\* What is kept is the front of the next message.
LEMMA FrontOfFrame ==
  ASSUME NEW kept \in Seq(Byte), NEW ahead \in Seq(Byte), NEW t \in Messages,
         Len(kept) < 3 + Len(t), FrameAt(kept \o ahead, 0, t)
  PROVE  IsStrictPrefix(kept, Frame(t))
<1> DEFINE f == Frame(t)
           x == kept \o ahead
<1>1. /\ f \in Seq(Byte) /\ Len(f) = 3 + Len(t)
      /\ f[1] = 42 /\ f[2] = 66 /\ f[3] = Len(t)
      /\ \A i \in 1 .. Len(t) : f[3 + i] = t[i]
  BY FrameFacts
<1>2. \A i \in 1 .. Len(kept) : x[i] = kept[i]
  BY JoinFacts
<1>3. Len(kept) \in Nat /\ Len(t) \in Nat
  BY MessageFacts
<1>4. /\ x[0 + 1] = 42 /\ x[0 + 2] = 66 /\ x[0 + 3] = Len(t)
      /\ \A i \in 1 .. Len(t) : x[0 + 3 + i] = t[i]
  BY Zenon DEF FrameAt
<1> HIDE DEF f, x
<1>5. \A i \in 1 .. Len(kept) : kept[i] = f[i]
  <2> SUFFICES ASSUME NEW i \in 1 .. Len(kept)  PROVE x[i] = f[i]
    BY <1>2
  <2>1. CASE i \in {1, 2, 3}
    <3>1. x[1] = 42 /\ x[2] = 66 /\ x[3] = Len(t)
      BY <1>4
    <3>. QED  BY <1>1, <2>1, <3>1
  <2>2. CASE i \notin {1, 2, 3}
    <3> DEFINE j == i - 3
    <3>1. j \in 1 .. Len(t) /\ i = 3 + j /\ 0 + 3 + j = 3 + j
      BY <1>3, <2>2
    <3> HIDE DEF j
    <3>2. x[3 + j] = t[j] /\ f[3 + j] = t[j]
      BY <1>1, <1>4, <3>1
    <3>. QED  BY <3>1, <3>2
  <2>. QED  BY <2>1, <2>2
<1>6. Len(kept) <= Len(f) /\ kept # f
  BY <1>1, <1>3
<1>7. SubSeq(kept, 1, Len(kept)) = SubSeq(f, 1, Len(kept))
  BY <1>1, <1>3, <1>5, <1>6
<1>. QED  BY <1>6, <1>7 DEF IsStrictPrefix, IsPrefix, f

LEMMA FInvParsedAsSent ==
  ASSUME FInv
  PROVE  ParsedAsSent
<1> SUFFICES ASSUME clean
             PROVE  /\ IsPrefix(parsed, sent)
                    /\ ~late /\ line = <<>> => parsed = sent
                    /\ ~late => \/ readData = <<>>
                                \/ /\ Len(parsed) < Len(sent)
                                   /\ IsStrictPrefix(readData, Frame(sent[Len(parsed) + 1]))
  BY DEF ParsedAsSent
<1> DEFINE N == Len(sent)
<1>1. line \in Seq(Byte) /\ sent \in Seq(Messages) /\ N \in Nat
  BY DEF FInv, FTyped
<1>2. Kept \in Seq(Byte) /\ \E k \in 0 .. N : \E off \in [k .. N -> Nat] :
        /\ parsed = SubSeq(sent, 1, k)
        /\ Carries(sent, Kept \o line, k, off)
        /\ Kept = <<>> \/ (k < N /\ Len(Kept) < off[k + 1])
  BY Zenon DEF FInv, FRead, Reads
<1>3. PICK k \in 0 .. N : \E off \in [k .. N -> Nat] :
        /\ parsed = SubSeq(sent, 1, k)
        /\ Carries(sent, Kept \o line, k, off)
        /\ Kept = <<>> \/ (k < N /\ Len(Kept) < off[k + 1])
  BY <1>2, Zenon
<1>4. PICK off \in [k .. N -> Nat] :
        /\ parsed = SubSeq(sent, 1, k)
        /\ Carries(sent, Kept \o line, k, off)
        /\ Kept = <<>> \/ (k < N /\ Len(Kept) < off[k + 1])
  BY <1>3, Zenon
<1>5. k \in Nat /\ k <= N /\ Len(parsed) = k /\ k \in k .. N
  BY <1>1, <1>4
<1>6. IsPrefix(parsed, sent)
  <2>1. SubSeq(sent, 1, k) \in Seq(Messages) /\ Len(SubSeq(sent, 1, k)) = k
    BY <1>1, <1>5
  <2>2. SubSeq(SubSeq(sent, 1, k), 1, k) = SubSeq(sent, 1, k)
    BY <2>1, <1>5
  <2>. QED  BY <1>4, <1>5, <2>2 DEF IsPrefix
<1>7. off[k] = 0 /\ off[N] = Len(Kept \o line)
  BY <1>4, Zenon DEF Carries
<1>8. ASSUME k < N
      PROVE  /\ off[k + 1] = 3 + Len(sent[k + 1]) /\ Len(sent[k + 1]) \in Nat
             /\ sent[k + 1] \in Messages
             /\ off[k + 1] <= off[N] /\ off[N] \in Nat
             /\ FrameAt(Kept \o line, 0, sent[k + 1])
  <2> DEFINE x == Kept \o line
  <2>1. x \in Seq(Byte) /\ Carries(sent, x, k, off)
    BY <1>1, <1>2, <1>4, JoinFacts
  <2> HIDE DEF x
  <2>2. /\ k + 1 \in k .. N /\ off[k + 1] = off[k] + 3 + Len(sent[k + 1])
        /\ Len(sent[k + 1]) \in Nat /\ sent[k + 1] \in Messages
        /\ FrameAt(x, off[k], sent[k + 1])
    <3>1. k \in k .. N /\ k < N /\ k \in 0 .. N
      BY <1>1, <1>5, <1>8
    <3>2. k + 1 \in k .. N
      BY <1>1, <3>1
    <3>3. sent \in Seq(Messages)
      BY <1>1
    <3>. QED  BY <2>1, <3>1, <3>2, <3>3, NextCarried
  <2>3. k + 1 \in k .. N /\ N \in k + 1 .. N
    BY <1>1, <1>5, <2>2
  <2>4. off[k + 1] <= off[N] /\ off[N] \in Nat
    BY <1>1, <2>1, <2>3, OffsetsGrow
  <2>5. off[k] + 3 + Len(sent[k + 1]) = 3 + Len(sent[k + 1])
    BY <1>7, <2>2
  <2>. QED  BY <1>7, <2>2, <2>4, <2>5 DEF x
<1>9. ASSUME ~late, line = <<>>  PROVE parsed = sent
  <2>1. Len(Kept \o line) = Len(Kept) /\ Len(Kept) \in Nat
    BY <1>2, <1>9
  <2>2. k = N
    <3> SUFFICES ASSUME k < N  PROVE FALSE
      BY <1>1, <1>5
    <3>1. off[k + 1] = 3 + Len(sent[k + 1]) /\ Len(sent[k + 1]) \in Nat /\ off[k + 1] <= off[N]
      BY <1>8
    <3>2. off[k + 1] <= Len(Kept)
      BY <1>7, <2>1, <3>1
    <3>3. Len(<<>>) = 0
      OBVIOUS
    <3>4. Kept # <<>>
      BY <2>1, <3>1, <3>2, <3>3
    <3>. QED  BY <1>4, <2>1, <3>1, <3>2, <3>4
  <2>3. SubSeq(sent, 1, N) = sent
    BY <1>1
  <2>. QED  BY <1>4, <2>2, <2>3
<1>10. ASSUME ~late, readData # <<>>
       PROVE  Len(parsed) < N /\ IsStrictPrefix(readData, Frame(sent[Len(parsed) + 1]))
  <2>1. Kept = readData
    BY <1>10 DEF Kept
  <2>2. k < N /\ Len(Kept) < off[k + 1]
    BY <1>4, <1>10, <2>1, Zenon
  <2>3. /\ Len(Kept) < 3 + Len(sent[k + 1]) /\ sent[k + 1] \in Messages
        /\ FrameAt(Kept \o line, 0, sent[k + 1])
    BY <1>8, <2>2
  <2>4. IsStrictPrefix(Kept, Frame(sent[k + 1]))
    BY <1>1, <1>2, <2>3, FrontOfFrame
  <2>. QED  BY <1>5, <2>1, <2>2, <2>4
<1>. QED  BY <1>6, <1>9, <1>10

\* Undisturbed, spHandleReadyRead parses the messages that were sent, in their order,
\* wherever the pieces are cut, and keeps no more than the front of the next.
THEOREM ReadsWhatWasSent == Spec => []ParsedAsSent
<1>1. Init => FInv
  BY FInvInit
<1>2. FInv /\ [Next]_vars => FInv'
  BY FInvNext
<1>3. FInv => ParsedAsSent
  BY FInvParsedAsSent
<1>. QED  BY <1>1, <1>2, <1>3, PTL DEF Spec

=============================================================================
