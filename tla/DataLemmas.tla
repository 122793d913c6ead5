----------------------------- MODULE DataLemmas -----------------------------
(***************************************************************************)
(* Facts about the data the models are built of, cited by the proofs about *)
(* them: remainders by a positive modulus that is not a literal (ring      *)
(* indices), sequences without repetitions (lists of slots and of          *)
(* buffers), and prefixes of paths.                                        *)
(***************************************************************************)
EXTENDS Integers, FiniteSets, SequencesExt, SequenceTheorems, FiniteSetTheorems, TLAPS

----------------------------------------------------------------------------
(* Remainders.  The solver knows linear arithmetic and what \div and % are; *)
(* these lemmas supply the rest.                                           *)

\* A nonzero multiple of M is at least M away from zero.
LEMMA MultipleNotSmall ==
    \A M \in Nat \ {0}, x \in Int : /\ x >= 1 => M * x >= M
                                    /\ x <= -1 => M * x <= -M
<1>1. \A M \in Nat \ {0}, x \in Int : x >= 1 => M * x >= M
  OBVIOUS
<1>2. \A M \in Nat \ {0}, x \in Int : x <= -1 => M * x <= -M
  OBVIOUS
<1> QED BY <1>1, <1>2

\* Multiplication distributes over sums and differences.
LEMMA Distributes ==
    \A M \in Nat \ {0}, x, y \in Int : /\ M * (x + y) = M * x + M * y
                                       /\ M * (x - y) = M * x - M * y
<1>1. \A M \in Nat \ {0}, x, y \in Int : M * (x + y) = M * x + M * y
  OBVIOUS
<1>2. \A M \in Nat \ {0}, x, y \in Int : M * (x - y) = M * x - M * y
  OBVIOUS
<1> QED BY <1>1, <1>2

\* Division with remainder.
LEMMA DivMod ==
    ASSUME NEW M \in Nat \ {0}, NEW a \in Int
    PROVE  /\ a \div M \in Int
           /\ a % M \in 0..(M - 1)
           /\ a = M * (a \div M) + (a % M)
<1>1. a \div M \in Int  OBVIOUS
<1>2. a % M \in 0..(M - 1)  OBVIOUS
<1>3. a = M * (a \div M) + (a % M)  OBVIOUS
<1> QED BY <1>1, <1>2, <1>3

\* The remainder is determined by any such decomposition.
LEMMA RemainderUnique ==
    ASSUME NEW M \in Nat \ {0}, NEW q \in Int, NEW r \in 0..(M - 1)
    PROVE  (M * q + r) % M = r
<1> DEFINE a == M * q + r
           p == a \div M
           s == a % M
<1>1. a \in Int /\ p \in Int /\ s \in 0..(M - 1) /\ a = M * p + s
  BY DivMod
<1> HIDE DEF p, s
<1>2. M * (q - p) = s - r
  <2>1. M * (q - p) = M * q - M * p
    BY <1>1, Distributes
  <2>2. M * q \in Int /\ M * p \in Int
    BY <1>1
  <2> QED BY <2>1, <2>2, <1>1
<1> HIDE DEF a
<1>3. q - p < 1 /\ q - p > -1
  BY <1>1, <1>2, MultipleNotSmall
<1>4. q = p
  BY <1>1, <1>3
<1>5. s = r
  BY <1>1, <1>2, <1>4
<1> QED BY <1>5 DEF s, a

\* Adding a multiple of the modulus changes nothing.
LEMMA ModAddMultiple ==
    ASSUME NEW M \in Nat \ {0}, NEW a \in Int, NEW k \in Int
    PROVE  (a + M * k) % M = a % M
<1> DEFINE p == a \div M
           s == a % M
<1>1. p \in Int /\ s \in 0..(M - 1) /\ a = M * p + s
  BY DivMod
<1> HIDE DEF p, s
<1>2. a + M * k = M * (p + k) + s
  <2>1. M * (p + k) = M * p + M * k
    BY <1>1, Distributes
  <2>2. M * p \in Int /\ M * k \in Int
    BY <1>1
  <2> QED BY <1>1, <2>1, <2>2
<1>3. (M * (p + k) + s) % M = s
  BY <1>1, RemainderUnique
<1> QED BY <1>2, <1>3 DEF s

\* A summand may be replaced by its remainder.
LEMMA ModPlus ==
    ASSUME NEW M \in Nat \ {0}, NEW a \in Int, NEW b \in Int
    PROVE  (a + b) % M = ((a % M) + b) % M
<1> DEFINE p == a \div M
           s == a % M
<1>1. p \in Int /\ s \in 0..(M - 1) /\ a = M * p + s
  BY DivMod
<1> HIDE DEF p, s
<1> DEFINE c == s + b
<1>2. c \in Int /\ a + b = c + M * p
  BY <1>1
<1> HIDE DEF c
<1>3. (c + M * p) % M = c % M
  BY <1>1, <1>2, ModAddMultiple
<1> QED BY <1>2, <1>3 DEF s, c

\* A number already in range is its own remainder.
LEMMA ModSmall ==
    ASSUME NEW M \in Nat \ {0}, NEW a \in 0..(M - 1)
    PROVE  a % M = a
  OBVIOUS

\* A number at most one modulus out of range is brought back by adding or
\* subtracting it once.
LEMMA ModNear ==
    ASSUME NEW M \in Nat \ {0}, NEW a \in Int
    PROVE  /\ a \in 0..(M - 1) => a % M = a
           /\ a \in (-M)..(-1) => a % M = a + M
           /\ a \in M..(M + M - 1) => a % M = a - M
<1>1. M * 1 = M /\ M * (-1) = -M
  OBVIOUS
<1>2. ASSUME a \in (-M)..(-1) PROVE a % M = a + M
  <2>1. a + M \in 0..(M - 1)
    BY <1>2
  <2>2. (M * (-1) + (a + M)) % M = a + M
    BY <2>1, RemainderUnique
  <2>3. M * (-1) + (a + M) = a
    BY <1>1
  <2> QED BY <2>2, <2>3
<1>3. ASSUME a \in M..(M + M - 1) PROVE a % M = a - M
  <2>1. a - M \in 0..(M - 1)
    BY <1>3
  <2>2. (M * 1 + (a - M)) % M = a - M
    BY <2>1, RemainderUnique
  <2>3. M * 1 + (a - M) = a
    BY <1>1
  <2> QED BY <2>2, <2>3
<1> QED BY <1>2, <1>3, ModSmall

\* Sums and differences of indices.
LEMMA ModSum ==
    ASSUME NEW M \in Nat \ {0}, NEW a \in 0..(M - 1), NEW b \in 0..M
    PROVE  (a + b) % M = IF a + b < M THEN a + b ELSE a + b - M
<1> DEFINE c == a + b
<1>1. c \in 0..(M + M - 1) /\ c \in Int
  OBVIOUS
<1> HIDE DEF c
<1>2. c \in 0..(M - 1) \/ c \in M..(M + M - 1)
  BY <1>1
<1>3. (c \in 0..(M - 1) => c % M = c) /\ (c \in M..(M + M - 1) => c % M = c - M)
  BY <1>1, ModNear, Zenon
<1>4. (c < M => c % M = c) /\ (c >= M => c % M = c - M)
  BY <1>1, <1>2, <1>3
<1> QED BY <1>1, <1>4 DEF c

LEMMA ModDiff ==
    ASSUME NEW M \in Nat \ {0}, NEW a \in 0..(M - 1), NEW b \in 0..(M - 1)
    PROVE  (a - b) % M = IF a >= b THEN a - b ELSE a - b + M
<1> DEFINE c == a - b
<1>1. c \in (-M)..(M - 1)
  OBVIOUS
<1> HIDE DEF c
<1>2. c \in 0..(M - 1) \/ c \in (-M)..(-1)
  BY <1>1
<1>3. (c >= 0 => c % M = c) /\ (c < 0 => c % M = c + M)
  BY <1>1, <1>2, ModNear
<1> QED BY <1>1, <1>3 DEF c

\* Equal distances from the same point mean equal residues.
LEMMA ModCancel ==
    ASSUME NEW M \in Nat \ {0}, NEW a \in Int, NEW b \in Int, NEW c \in Int,
           (a - c) % M = (b - c) % M
    PROVE  a % M = b % M
<1> DEFINE d == a - c
           e == b - c
<1>1. d \in Int /\ e \in Int /\ d + c = a /\ e + c = b
  OBVIOUS
<1>2. d % M = e % M
  OBVIOUS
<1> HIDE DEF d, e
<1>3. (d + c) % M = ((d % M) + c) % M
  BY <1>1, ModPlus
<1>4. (e + c) % M = ((e % M) + c) % M
  BY <1>1, ModPlus
<1> QED BY <1>1, <1>2, <1>3, <1>4

\* Stepping a counter that wraps at a multiple of M moves its distance, in
\* either direction, by one modulo M.
LEMMA WrappingStep ==
    ASSUME NEW M \in Nat \ {0}, NEW W \in Nat \ {0}, NEW a \in 0..(W - 1),
           NEW b \in Int, W % M = 0
    PROVE  /\ (a + 1) % W \in 0..(W - 1)
           /\ (((a + 1) % W) - b) % M = (((a - b) % M) + 1) % M
           /\ (b - ((a + 1) % W)) % M = (((b - a) % M) - 1) % M
<1> DEFINE k == W \div M
           n == (a + 1) % W
<1>1. k \in Int /\ W = M * k
  BY DivMod
<1>2. n \in 0..(W - 1)
  BY DivMod
<1>3. n = a + 1 \/ n = (a + 1) - W
  <2>1. CASE a + 1 < W
    BY <2>1, ModSmall
  <2>2. CASE a + 1 = W
    <3>1. (W * 1 + 0) % W = 0
      BY RemainderUnique
    <3> QED BY <2>2, <3>1
  <2> QED BY <2>1, <2>2
<1> HIDE DEF k, n
<1>4. (n - b) % M = ((a - b) + 1) % M
  <2> DEFINE c == (a - b) + 1
  <2>1. c \in Int
    OBVIOUS
  <2>2. n - b = c \/ n - b = c + M * (-k)
    <3>1. M * (-k) = -W
      BY <1>1, Distributes
    <3> QED BY <1>3, <3>1
  <2> HIDE DEF c
  <2>3. (c + M * (-k)) % M = c % M
    <3> DEFINE j == -k
    <3>1. j \in Int
      BY <1>1
    <3> HIDE DEF j
    <3>2. (c + M * j) % M = c % M
      BY <2>1, <3>1, ModAddMultiple
    <3> QED BY <3>2 DEF j
  <2>4. (n - b) % M = c % M
    BY <2>2, <2>3
  <2> QED BY <2>4 DEF c
<1>5. (b - n) % M = ((b - a) - 1) % M
  <2> DEFINE c == (b - a) - 1
  <2>1. c \in Int
    OBVIOUS
  <2>2. b - n = c \/ b - n = c + M * k
    BY <1>1, <1>3
  <2> HIDE DEF c
  <2>3. (c + M * k) % M = c % M
    BY <1>1, <2>1, ModAddMultiple
  <2>4. (b - n) % M = c % M
    BY <2>2, <2>3
  <2> QED BY <2>4 DEF c
<1>6. ((a - b) + 1) % M = (((a - b) % M) + 1) % M
  <2> DEFINE d == a - b
             o == 1
  <2>1. d \in Int /\ o \in Int
    OBVIOUS
  <2> HIDE DEF d, o
  <2>2. (d + o) % M = ((d % M) + o) % M
    BY <2>1, ModPlus
  <2> QED BY <2>2 DEF d, o
<1>7. ((b - a) - 1) % M = (((b - a) % M) - 1) % M
  <2> DEFINE d == b - a
             e == d % M
             o == -1
  <2>1. d \in Int /\ e \in Int /\ o \in Int
    BY DivMod
  <2> HIDE DEF d, o
  <2>2. (d + o) % M = ((d % M) + o) % M
    BY <2>1, ModPlus
  <2>3. d + o = d - 1 /\ e + o = e - 1
    BY <2>1 DEF o
  <2> QED BY <2>2, <2>3 DEF d, e
<1> QED BY <1>2, <1>4, <1>5, <1>6, <1>7 DEF n

\* The same for the modulus at which the counter wraps.
LEMMA WrappingDistance ==
    ASSUME NEW W \in Nat \ {0}, NEW a \in 0..(W - 1), NEW b \in Int
    PROVE  /\ (a + 1) % W \in 0..(W - 1)
           /\ (((a + 1) % W) - b) % W = (((a - b) % W) + 1) % W
<1> DEFINE n == (a + 1) % W
           d == a - b
           c == d + 1
           o == 1
           k == -1
<1>1. n \in 0..(W - 1) /\ (n = a + 1 \/ n = a + 1 - W)
  <2>1. CASE a + 1 < W
    BY <2>1, ModSmall
  <2>2. CASE a + 1 = W
    <3>1. (W * 1 + 0) % W = 0
      BY RemainderUnique
    <3> QED BY <2>2, <3>1
  <2> QED BY <2>1, <2>2
<1>2. d \in Int /\ c \in Int /\ o \in Int /\ k \in Int /\ W * k = -W
  OBVIOUS
<1> HIDE DEF n
<1>3. n - b = c \/ n - b = c + W * k
  BY <1>1, <1>2
<1>4. c = d + o
  OBVIOUS
<1> HIDE DEF c, d, k, o
<1>5. (c + W * k) % W = c % W
  BY <1>2, ModAddMultiple
<1>6. (d + o) % W = ((d % W) + o) % W
  BY <1>2, ModPlus
<1>7. (n - b) % W = ((d % W) + o) % W
  BY <1>3, <1>4, <1>5, <1>6
<1> QED BY <1>1, <1>7 DEF n, d, o

\* A set of numbers has a least one.
LEMMA LeastElement ==
    ASSUME NEW T \in SUBSET Nat, T # {}
    PROVE  \E x \in T : \A y \in T : x <= y
<1> DEFINE R == OpToRel(<, Nat)
<1>1. \A x, y \in Nat : <<y, x>> \in R <=> y < x
  BY Zenon DEF OpToRel
<1>2. IsWellFoundedOn(R, Nat)
  BY NatLessThanWellFounded, Zenon
<1>3. \A x, y \in Nat : ~ (y < x) => x <= y
  OBVIOUS
<1>4. \A x \in T : x \in Nat
  OBVIOUS
<1> HIDE DEF R
<1>5. \E x \in T : \A y \in T : ~ (<<y, x>> \in R)
  BY <1>2, WFMin, T \subseteq Nat
<1> QED BY <1>1, <1>3, <1>4, <1>5, Zenon

----------------------------------------------------------------------------
(* Sequences.                                                              *)

\* A sequence is its elements, and its set is theirs.
LEMMA ElementsOfSeq ==
    ASSUME NEW S, NEW s \in Seq(S)
    PROVE  /\ DOMAIN s = 1..Len(s) /\ Len(s) \in Nat
           /\ ToSet(s) \subseteq S
           /\ \A x : x \in ToSet(s) <=> \E i \in 1..Len(s) : s[i] = x
<1>1. DOMAIN s = 1..Len(s) /\ Len(s) \in Nat /\ s \in [1..Len(s) -> S]
  BY LenProperties
<1> QED BY <1>1 DEF ToSet

\* A sequence over a set is one over a larger set.
LEMMA SeqSubset ==
    ASSUME NEW S, NEW T, S \subseteq T, NEW s \in Seq(S)
    PROVE  s \in Seq(T)
<1>1. s \in [1..Len(s) -> S] /\ Len(s) \in Nat
  BY LenProperties
<1>2. s \in [1..Len(s) -> T]
  BY <1>1
<1> QED BY <1>1, <1>2, SeqDef

LEMMA NoElements ==
    /\ ToSet(<<>>) = {} /\ IsInjective(<<>>)
    /\ \A S : \A s \in Seq(S) : ToSet(s) = {} <=> s = <<>>
<1>1. \A S : <<>> \in Seq(S) /\ Len(<<>>) = 0
  BY EmptySeq
<1>2. DOMAIN <<>> = {}
  BY <1>1
<1>3. ASSUME NEW S, NEW s \in Seq(S) PROVE ToSet(s) = {} <=> s = <<>>
  <2>1. s # <<>> => Len(s) \in Nat \ {0}
    BY EmptySeq
  <2>2. s # <<>> => s[1] \in ToSet(s)
    BY <2>1, ElementsOfSeq
  <2> QED BY <1>2, <2>2 DEF ToSet
<1> QED BY <1>2, <1>3 DEF ToSet, IsInjective

LEMMA OneElement ==
    ASSUME NEW S, NEW x \in S
    PROVE  <<x>> \in Seq(S) /\ Len(<<x>>) = 1 /\ ToSet(<<x>>) = {x} /\ IsInjective(<<x>>)
  BY DEF ToSet, IsInjective

\* A concatenation repeats nothing if neither part does and they share nothing.
LEMMA ConcatSets ==
    ASSUME NEW S, NEW s \in Seq(S), NEW t \in Seq(S)
    PROVE  /\ s \o t \in Seq(S) /\ Len(s \o t) = Len(s) + Len(t)
           /\ ToSet(s \o t) = ToSet(s) \cup ToSet(t)
           /\ IsInjective(s \o t) <=>
                 IsInjective(s) /\ IsInjective(t) /\ ToSet(s) \cap ToSet(t) = {}
<1> DEFINE u == s \o t
           m == Len(s)
           n == Len(t)
<1>1. /\ u \in Seq(S) /\ Len(u) = m + n /\ m \in Nat /\ n \in Nat
      /\ \A i \in 1..m : u[i] = s[i]
      /\ \A i \in 1..n : u[m + i] = t[i]
  OBVIOUS
<1>2. DOMAIN u = 1..(m + n) /\ DOMAIN s = 1..m /\ DOMAIN t = 1..n
  BY <1>1, LenProperties
<1>3. \A i \in 1..(m + n) : i \in 1..m \/ (i - m \in 1..n /\ u[i] = t[i - m])
  <2> HIDE DEF u, m, n
  <2> TAKE i \in 1..(m + n)
  <2>1. CASE i <= m
    BY <1>1, <2>1
  <2>2. CASE i > m
    <3>1. i - m \in 1..n /\ m + (i - m) = i
      BY <1>1, <2>2
    <3>2. u[m + (i - m)] = t[i - m]
      BY <1>1, <3>1
    <3> QED BY <3>1, <3>2
  <2> QED BY <1>1, <2>1, <2>2
<1>4. (\A i \in 1..m : i \in 1..(m + n)) /\ (\A i \in 1..n : m + i \in 1..(m + n))
  BY <1>1
<1> HIDE DEF u
<1>5. ToSet(u) = ToSet(s) \cup ToSet(t)
  <2> HIDE DEF m, n
  <2>1. \A x \in ToSet(u) : x \in ToSet(s) \cup ToSet(t)
    <3> TAKE x \in ToSet(u)
    <3>1. PICK i \in 1..(m + n) : x = u[i]
      BY <1>2 DEF ToSet
    <3>2. CASE i \in 1..m
      BY <1>1, <1>2, <3>1, <3>2 DEF ToSet
    <3>3. CASE i - m \in 1..n /\ u[i] = t[i - m]
      BY <1>2, <3>1, <3>3 DEF ToSet
    <3> QED BY <1>3, <3>2, <3>3
  <2>2. \A x \in ToSet(s) : x \in ToSet(u)
    BY <1>1, <1>2, <1>4 DEF ToSet
  <2>3. \A x \in ToSet(t) : x \in ToSet(u)
    BY <1>1, <1>2, <1>4 DEF ToSet
  <2> QED BY <2>1, <2>2, <2>3
<1>6. ASSUME IsInjective(u)
      PROVE  IsInjective(s) /\ IsInjective(t) /\ ToSet(s) \cap ToSet(t) = {}
  <2> HIDE DEF m, n
  <2>1. IsInjective(s)
    BY <1>1, <1>2, <1>4, <1>6 DEF IsInjective
  <2>2. IsInjective(t)
    <3> SUFFICES ASSUME NEW i \in 1..n, NEW j \in 1..n, t[i] = t[j] PROVE i = j
      BY <1>2 DEF IsInjective
    <3>1. m + i = m + j
      BY <1>1, <1>2, <1>4, <1>6 DEF IsInjective
    <3> QED BY <1>1, <3>1
  <2>3. ASSUME NEW i \in 1..m, NEW j \in 1..n, s[i] = t[j] PROVE FALSE
    <3>1. i = m + j
      BY <1>1, <1>2, <1>4, <1>6, <2>3 DEF IsInjective
    <3> QED BY <1>1, <3>1
  <2>4. ToSet(s) \cap ToSet(t) = {}
    BY <1>2, <2>3 DEF ToSet
  <2> QED BY <2>1, <2>2, <2>4
<1>7. ASSUME IsInjective(s), IsInjective(t), ToSet(s) \cap ToSet(t) = {}
      PROVE  IsInjective(u)
  <2> HIDE DEF m, n
  <2>1. \A i \in 1..m, j \in 1..n : s[i] # t[j]
    BY <1>2, <1>7 DEF ToSet
  <2> SUFFICES ASSUME NEW i \in 1..(m + n), NEW j \in 1..(m + n), u[i] = u[j] PROVE i = j
    BY <1>2 DEF IsInjective
  <2>2. CASE i \in 1..m /\ j \in 1..m
    BY <1>1, <1>2, <1>7, <2>2 DEF IsInjective
  <2>3. CASE i \notin 1..m /\ j \notin 1..m
    <3>1. i - m = j - m
      BY <1>2, <1>3, <1>7, <2>3 DEF IsInjective
    <3> QED BY <1>1, <3>1
  <2>4. CASE i \in 1..m /\ j \notin 1..m
    BY <1>1, <1>3, <2>1, <2>4
  <2>5. CASE i \notin 1..m /\ j \in 1..m
    BY <1>1, <1>3, <2>1, <2>5
  <2> QED BY <2>2, <2>3, <2>4, <2>5
<1> QED BY <1>1, <1>5, <1>6, <1>7 DEF u

\* Its two parts, for where only one is needed.
LEMMA ConcatToSet ==
    ASSUME NEW S, NEW s \in Seq(S), NEW t \in Seq(S)
    PROVE  ToSet(s \o t) = ToSet(s) \cup ToSet(t)
  BY ConcatSets

LEMMA ConcatInjective ==
    ASSUME NEW S, NEW s \in Seq(S), NEW t \in Seq(S)
    PROVE  IsInjective(s \o t) <=>
              IsInjective(s) /\ IsInjective(t) /\ ToSet(s) \cap ToSet(t) = {}
  BY ConcatSets

LEMMA AppendSets ==
    ASSUME NEW S, NEW s \in Seq(S), NEW x \in S
    PROVE  /\ Append(s, x) \in Seq(S) /\ Len(Append(s, x)) = Len(s) + 1
           /\ ToSet(Append(s, x)) = ToSet(s) \cup {x}
           /\ IsInjective(Append(s, x)) <=> IsInjective(s) /\ x \notin ToSet(s)
<1> DEFINE o == <<x>>
<1>1. Append(s, x) = s \o o
  BY AppendIsConcat
<1>2. o \in Seq(S) /\ Len(o) = 1 /\ ToSet(o) = {x} /\ IsInjective(o)
  BY OneElement
<1> HIDE DEF o
<1>3. /\ s \o o \in Seq(S) /\ Len(s \o o) = Len(s) + Len(o)
      /\ ToSet(s \o o) = ToSet(s) \cup ToSet(o)
      /\ IsInjective(s \o o) <=>
            IsInjective(s) /\ IsInjective(o) /\ ToSet(s) \cap ToSet(o) = {}
  BY <1>2, ConcatSets, Zenon
<1>4. ToSet(s) \cap {x} = {} <=> x \notin ToSet(s)
  OBVIOUS
<1> QED BY <1>1, <1>2, <1>3, <1>4, Zenon

LEMMA HeadTailSets ==
    ASSUME NEW S, NEW s \in Seq(S), s # <<>>
    PROVE  /\ Head(s) \in S /\ Tail(s) \in Seq(S) /\ Len(s) = Len(Tail(s)) + 1
           /\ s = <<Head(s)>> \o Tail(s)
           /\ ToSet(s) = {Head(s)} \cup ToSet(Tail(s))
           /\ IsInjective(s) <=> IsInjective(Tail(s)) /\ Head(s) \notin ToSet(Tail(s))
<1> DEFINE h == Head(s)
           t == Tail(s)
           o == <<h>>
<1>1. h \in S /\ t \in Seq(S) /\ Len(s) = Len(t) + 1
  BY HeadTailProperties, LenProperties
<1>2. s = o \o t
  OBVIOUS
<1> HIDE DEF h, t
<1>3. o \in Seq(S) /\ ToSet(o) = {h} /\ IsInjective(o)
  BY <1>1, OneElement
<1> HIDE DEF o
<1>4. /\ ToSet(o \o t) = ToSet(o) \cup ToSet(t)
      /\ IsInjective(o \o t) <=> IsInjective(o) /\ IsInjective(t) /\ ToSet(o) \cap ToSet(t) = {}
  BY <1>1, <1>3, ConcatSets, Zenon
<1>5. {h} \cap ToSet(t) = {} <=> h \notin ToSet(t)
  OBVIOUS
<1> QED BY <1>1, <1>2, <1>3, <1>4, <1>5, Zenon DEF h, t, o

LEMMA PushedFirst ==
    ASSUME NEW S, NEW s \in Seq(S), NEW x \in S
    PROVE  LET p == <<x>> \o s
           IN  p \in Seq(S) /\ p # <<>> /\ Head(p) = x /\ Tail(p) = s
  OBVIOUS

\* The first n elements.
LEMMA PrefixSets ==
    ASSUME NEW S, NEW s \in Seq(S), NEW n \in 0..Len(s)
    PROVE  /\ SubSeq(s, 1, n) \in Seq(S) /\ Len(SubSeq(s, 1, n)) = n
           /\ \A i \in 1..n : SubSeq(s, 1, n)[i] = s[i]
           /\ ToSet(SubSeq(s, 1, n)) \subseteq ToSet(s)
           /\ IsInjective(s) => IsInjective(SubSeq(s, 1, n))
<1> DEFINE p == SubSeq(s, 1, n)
<1>1. /\ p \in Seq(S) /\ Len(p) = n /\ n \in Nat /\ n <= Len(s)
      /\ \A i \in 1..n : p[i] = s[i]
  BY LenProperties
<1>2. DOMAIN p = 1..n /\ DOMAIN s = 1..Len(s) /\ Len(s) \in Nat
  BY <1>1, LenProperties
<1> HIDE DEF p
<1>3. 1..n \subseteq 1..Len(s)
  BY <1>1, <1>2
<1>4. ToSet(p) \subseteq ToSet(s)
  BY <1>1, <1>2, <1>3 DEF ToSet
<1>5. IsInjective(s) => IsInjective(p)
  BY <1>1, <1>2, <1>3 DEF IsInjective
<1> QED BY <1>1, <1>4, <1>5 DEF p

\* A finite set can be listed; a list that has all of it is no shorter.
LEMMA Listed ==
    ASSUME NEW S, IsFiniteSet(S)
    PROVE  \E s \in Seq(S) : Len(s) = Cardinality(S) /\ ToSet(s) = S
<1> DEFINE n == Cardinality(S)
<1>1. n \in Nat /\ ExistsBijection(1..n, S)
  BY FS_CardinalityType
<1> HIDE DEF n
<1>2. PICK f \in [1..n -> S] : \A x \in S : \E i \in 1..n : f[i] = x
  BY <1>1 DEF ExistsBijection, Bijection, Injection, Surjection
<1>3. f \in Seq(S)
  BY <1>1, <1>2, SeqDef
<1>4. Len(f) = n /\ DOMAIN f = 1..n
  BY <1>1, <1>2, <1>3, LenProperties
<1>5. ToSet(f) = S
  BY <1>2, <1>4 DEF ToSet
<1> QED BY <1>3, <1>4, <1>5 DEF n

LEMMA ListCovers ==
    ASSUME NEW S, NEW s \in Seq(S), ToSet(s) = S
    PROVE  Cardinality(S) <= Len(s)
<1> DEFINE n == Len(s)
<1>1. n \in Nat /\ DOMAIN s = 1..n /\ s \in [1..n -> S]
  BY LenProperties
<1> HIDE DEF n
<1>2. \A x \in S : \E i \in 1..n : s[i] = x
  BY <1>1 DEF ToSet
<1>3. s \in Surjection(1..n, S)
  BY <1>1, <1>2 DEF Surjection
<1>4. ExistsSurjection(1..n, S)
  BY <1>3 DEF ExistsSurjection
<1> QED BY <1>1, <1>4, FS_SurjCardinalityBound DEF n

LEMMA ReverseType ==
    ASSUME NEW S, NEW s \in Seq(S)
    PROVE  Reverse(s) \in Seq(S) /\ Len(Reverse(s)) = Len(s)
<1>1. Len(s) \in Nat /\ \A i \in 1..Len(s) : Len(s) - i + 1 \in 1..Len(s)
  OBVIOUS
<1>2. \A i \in 1..Len(s) : s[(Len(s) - i) + 1] \in S
  BY <1>1, ElementOfSeq
<1>3. Reverse(s) \in [1..Len(s) -> S]
  BY <1>2 DEF Reverse
<1>4. Reverse(s) \in Seq(S)
  BY <1>1, <1>3, SeqDef
<1> QED BY <1>1, <1>3, <1>4, LenProperties

\* A push on the list is an append to the reversed list.
LEMMA ReversePush ==
    ASSUME NEW S, NEW s \in Seq(S), NEW x \in S
    PROVE  Reverse(<<x>> \o s) = Append(Reverse(s), x)
<1> DEFINE t == <<x>> \o s
           n == Len(s)
<1>1. /\ t \in Seq(S) /\ Len(t) = n + 1 /\ n \in Nat
      /\ t[1] = x /\ \A i \in 1..n : t[i + 1] = s[i]
  OBVIOUS
<1>2. /\ Reverse(t) \in Seq(S) /\ Len(Reverse(t)) = n + 1
      /\ Reverse(s) \in Seq(S) /\ Len(Reverse(s)) = n
  BY <1>1, ReverseType
<1>3. Append(Reverse(s), x) \in Seq(S) /\ Len(Append(Reverse(s), x)) = n + 1
  BY <1>1, <1>2
<1>4. ASSUME NEW i \in 1..(n + 1)
      PROVE  Reverse(t)[i] = Append(Reverse(s), x)[i]
  <2>1. Reverse(t)[i] = t[(n + 1 - i) + 1]
    BY <1>1 DEF Reverse
  <2>2. CASE i = n + 1
    <3>1. (n + 1 - i) + 1 = 1
      BY <1>1, <2>2
    <3>2. Append(Reverse(s), x)[i] = x
      BY <1>2, <2>2
    <3> QED BY <1>1, <2>1, <3>1, <3>2
  <2>3. CASE i \in 1..n
    <3>1. Reverse(s)[i] = s[(n - i) + 1]
      BY <2>3 DEF Reverse
    <3>2. (n - i) + 1 \in 1..n /\ (n + 1 - i) + 1 = ((n - i) + 1) + 1
      BY <1>1, <2>3
    <3>3. t[(n + 1 - i) + 1] = s[(n - i) + 1]
      BY <1>1, <3>2
    <3>4. Append(Reverse(s), x)[i] = Reverse(s)[i]
      BY <1>2, <2>3
    <3> QED BY <2>1, <3>1, <3>3, <3>4
  <2>4. i = n + 1 \/ i \in 1..n
    <3> HIDE DEF t, n
    <3> QED BY <1>1
  <2> QED BY <2>2, <2>3, <2>4
<1> HIDE DEF t, n
<1> QED BY <1>1, <1>2, <1>3, <1>4, SeqEqual DEF t

LEMMA AppendOfConcat ==
    ASSUME NEW S, NEW p \in Seq(S), NEW x \in S
    PROVE  \A q \in Seq(S) : Append(p \o q, x) = p \o Append(q, x)
  OBVIOUS

LEMMA PushIsAppend ==
    ASSUME NEW S, NEW p \in Seq(S), NEW d \in Seq(S), NEW x \in S
    PROVE  Append(p \o Reverse(d), x) = p \o Reverse(<<x>> \o d)
<1>1. Reverse(d) \in Seq(S)
  BY ReverseType
<1>2. Append(p \o Reverse(d), x) = p \o Append(Reverse(d), x)
  BY <1>1, AppendOfConcat
<1>3. Reverse(<<x>> \o d) = Append(Reverse(d), x)
  BY ReversePush
<1> QED BY <1>2, <1>3, Zenon

LEMMA ReverseEmpty == Reverse(<<>>) = <<>>
  BY DEF Reverse

LEMMA ReverseSets ==
    ASSUME NEW S, NEW s \in Seq(S)
    PROVE  /\ Reverse(s) \in Seq(S) /\ Len(Reverse(s)) = Len(s)
           /\ ToSet(Reverse(s)) = ToSet(s)
           /\ IsInjective(s) => IsInjective(Reverse(s))
<1> DEFINE r == Reverse(s)
           n == Len(s)
<1>1. r \in Seq(S) /\ Len(r) = n /\ n \in Nat
  BY ReverseType, LenProperties
<1>2. /\ \A i \in 1..n : r[i] = s[(n - i) + 1]
      /\ DOMAIN r = 1..n /\ DOMAIN s = 1..n
  BY <1>1, LenProperties DEF Reverse
<1> HIDE DEF r, n
<1>3. \A i \in 1..n : (n - i) + 1 \in 1..n /\ (n - ((n - i) + 1)) + 1 = i
  BY <1>1
<1>4. ToSet(r) = ToSet(s)
  <2>1. \A x \in ToSet(r) : x \in ToSet(s)
    BY <1>2, <1>3 DEF ToSet
  <2>2. ASSUME NEW i \in 1..n PROVE s[i] \in ToSet(r)
    <3>1. r[(n - i) + 1] = s[i]
      BY <1>2, <1>3
    <3> QED BY <1>2, <1>3, <3>1 DEF ToSet
  <2>3. \A x \in ToSet(s) : x \in ToSet(r)
    BY <1>2, <2>2 DEF ToSet
  <2> QED BY <2>1, <2>3
<1>5. ASSUME IsInjective(s) PROVE IsInjective(r)
  <2> SUFFICES ASSUME NEW i \in 1..n, NEW j \in 1..n, r[i] = r[j] PROVE i = j
    BY <1>2 DEF IsInjective
  <2>1. (n - i) + 1 = (n - j) + 1
    BY <1>2, <1>3, <1>5 DEF IsInjective
  <2> QED BY <1>1, <2>1
<1> QED BY <1>1, <1>4, <1>5 DEF r, n

----------------------------------------------------------------------------
(* A pipeline of three sequences, read as one: what moves inside it leaves *)
(* the whole alone, what enters is its last element, what leaves its first. *)

LEMMA PipelineMoves ==
    ASSUME NEW S, NEW s \in Seq(S), NEW t \in Seq(S), NEW u \in Seq(S)
    PROVE  /\ s \o (t \o u) \o <<>> = s \o t \o u
           /\ t # <<>> => Append(s, Head(t)) \o Tail(t) \o u = s \o t \o u
<1>1. s \o (t \o u) \o <<>> = s \o t \o u
  <2>1. t \o u \in Seq(S) /\ s \o (t \o u) \in Seq(S)
    BY ConcatProperties
  <2>2. s \o (t \o u) \o <<>> = s \o (t \o u)
    BY <2>1, ConcatEmptySeq
  <2> QED BY <2>2, ConcatAssociative, SMTT(30)
<1>2. ASSUME t # <<>> PROVE Append(s, Head(t)) \o Tail(t) \o u = s \o t \o u
  <2> DEFINE h == Head(t)
             r == Tail(t)
             o == <<h>>
  <2>1. h \in S /\ r \in Seq(S) /\ t = o \o r
    BY <1>2, HeadTailSets
  <2> HIDE DEF h, r
  <2>2. o \in Seq(S) /\ Append(s, h) = s \o o
    BY <2>1, OneElement, AppendIsConcat
  <2> HIDE DEF o
  <2>3. (s \o o) \o r = s \o (o \o r)
    BY <2>1, <2>2, ConcatAssociative
  <2> QED BY <2>1, <2>2, <2>3 DEF h, r
<1> QED BY <1>1, <1>2

LEMMA PipelineEnter ==
    ASSUME NEW S, NEW s \in Seq(S), NEW t \in Seq(S), NEW u \in Seq(S), NEW x \in S
    PROVE  s \o t \o Append(u, x) = Append(s \o t \o u, x)
<1> DEFINE v == s \o t
<1>1. v \in Seq(S)
  BY ConcatProperties
<1> HIDE DEF v
<1>2. Append(v \o u, x) = v \o Append(u, x)
  BY <1>1, AppendOfConcat
<1> QED BY <1>2 DEF v

LEMMA PipelineLeave ==
    ASSUME NEW S, NEW s \in Seq(S), NEW t \in Seq(S), NEW u \in Seq(S), s # <<>>
    PROVE  Tail(s) \o t \o u = Tail(s \o t \o u) /\ s \o t \o u # <<>>
<1> DEFINE v == s \o t
<1>1. v \in Seq(S) /\ v # <<>> /\ Tail(v) = Tail(s) \o t
  OBVIOUS
<1> HIDE DEF v
<1>2. v \o u # <<>> /\ Tail(v \o u) = Tail(v) \o u
  BY <1>1
<1> QED BY <1>1, <1>2 DEF v

----------------------------------------------------------------------------
(* Paths.                                                                  *)

\* A directory and a name in it make the head of a path that agrees on both.
LEMMA ChildPrefix ==
    ASSUME NEW S, NEW p \in Seq(S), NEW q \in Seq(S), NEW n \in 0..(Len(q) - 1), NEW s \in S
    PROVE  IsPrefix(Append(SubSeq(q, 1, n), s), p) <=>
              /\ n + 1 <= Len(p)
              /\ \A i \in 1..n : p[i] = q[i]
              /\ p[n + 1] = s
<1> DEFINE c == SubSeq(q, 1, n)
           d == Append(c, s)
           e == SubSeq(p, 1, n + 1)
<1>1. n \in Nat /\ Len(q) \in Nat /\ Len(p) \in Nat /\ n <= Len(q)
  BY LenProperties
<1>2. c \in Seq(S) /\ Len(c) = n /\ \A i \in 1..n : c[i] = q[i]
  BY <1>1, SubSeqProperties
<1> HIDE DEF c
<1>3. /\ d \in Seq(S) /\ Len(d) = n + 1 /\ d[n + 1] = s
      /\ \A i \in 1..n : d[i] = q[i]
  BY <1>1, <1>2, AppendProperties
<1> HIDE DEF d
<1>4. SubSeq(d, 1, n + 1) = d
  BY <1>1, <1>3
<1>5. ASSUME n + 1 <= Len(p)
      PROVE  e \in Seq(S) /\ Len(e) = n + 1 /\ \A i \in 1..(n + 1) : e[i] = p[i]
  BY <1>1, <1>5, SubSeqProperties
<1> HIDE DEF e
<1>6. ASSUME n + 1 <= Len(p)
      PROVE  d = e <=> \A i \in 1..(n + 1) : d[i] = p[i]
  BY <1>1, <1>3, <1>5, <1>6, SeqEqual
<1>7. (\A i \in 1..(n + 1) : d[i] = p[i]) <=> (\A i \in 1..n : p[i] = q[i]) /\ p[n + 1] = s
  BY <1>1, <1>3
<1>8. IsPrefix(d, p) <=> n + 1 <= Len(p) /\ d = e
  BY <1>3, <1>4 DEF IsPrefix, e
<1> QED BY <1>6, <1>7, <1>8 DEF c, d
=============================================================================
