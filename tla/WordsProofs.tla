----------------------------- MODULE WordsProofs -----------------------------
(***************************************************************************)
(* The integers of the language, at every width.  Wrapping gives the one   *)
(* word that is congruent to a number, so sums, differences and products   *)
(* may wrap at every step or once at the end; floor division and its       *)
(* remainder satisfy their law for every pair of words; an index, a slice  *)
(* and a range stay in their sequence.                                     *)
(*                                                                         *)
(* The provers do not know what a power is.  The library knows that a set  *)
(* of n elements has 2^n subsets; counting those of 1..n + 1 that contain  *)
(* n + 1 and those that do not gives 2^(n + 1) = 2 * 2^n.                   *)
(***************************************************************************)
EXTENDS Words, Integers, FiniteSetTheorems, FunctionTheorems, TLAPS

\* A power of two is positive, and the next one is its double: the subsets of
\* 1..n + 1 are those of 1..n, and the same ones with n + 1 added.
LEMMA PowersDouble ==
  ASSUME NEW n \in Nat
  PROVE  2^n \in Nat \ {0} /\ 2^(n + 1) = 2 * 2^n
<1> DEFINE P == SUBSET (1..n)
           R == {T \cup {n + 1} : T \in P}
           f == [T \in P |-> T \cup {n + 1}]
<1>1. IsFiniteSet(P) /\ Cardinality(P) = 2^n
  <2>1. IsFiniteSet(1..n) /\ Cardinality(1..n) = n
    BY FS_Interval
  <2>2. QED
    BY <2>1, FS_SUBSET
<1>2. IsFiniteSet(SUBSET (1..(n + 1))) /\ Cardinality(SUBSET (1..(n + 1))) = 2^(n + 1)
  <2>1. IsFiniteSet(1..(n + 1)) /\ Cardinality(1..(n + 1)) = n + 1
    BY FS_Interval
  <2>2. QED
    BY <2>1, FS_SUBSET
<1>3. SUBSET (1..(n + 1)) = P \cup R
  <2>1. ASSUME NEW T \in SUBSET (1..(n + 1)) PROVE T \in P \cup R
    <3>1. CASE n + 1 \in T
      <4>1. T \ {n + 1} \in P
        OBVIOUS
      <4>2. T = (T \ {n + 1}) \cup {n + 1}
        BY <3>1
      <4>3. QED
        BY <4>1, <4>2
    <3>2. CASE n + 1 \notin T
      BY <3>2
    <3>3. QED
      BY <3>1, <3>2
  <2>2. P \cup R \subseteq SUBSET (1..(n + 1))
    <3>1. ASSUME NEW T \in P PROVE T \subseteq 1..(n + 1) /\ T \cup {n + 1} \subseteq 1..(n + 1)
      <4>1. 1..n \subseteq 1..(n + 1) /\ n + 1 \in 1..(n + 1)
        OBVIOUS
      <4>2. QED
        BY <4>1
    <3>2. QED
      BY <3>1
  <2>3. QED
    BY <2>1, <2>2
<1>4. P \cap R = {}
  <2>1. \A T \in R : n + 1 \in T
    OBVIOUS
  <2>2. \A T \in P : n + 1 \notin T
    OBVIOUS
  <2>3. QED
    BY <2>1, <2>2
<1>5. IsFiniteSet(R) /\ Cardinality(R) = 2^n
  <2>1. f \in Bijection(P, R)
    <3>1. f \in [P -> R]
      OBVIOUS
    <3>2. ASSUME NEW T \in P, NEW U \in P, f[T] = f[U] PROVE T = U
      <4>1. n + 1 \notin T /\ n + 1 \notin U
        OBVIOUS
      <4>2. T \cup {n + 1} = U \cup {n + 1}
        BY <3>2
      <4>3. QED
        BY <4>1, <4>2
    <3>3. \A V \in R : \E T \in P : f[T] = V
      OBVIOUS
    <3> HIDE DEF f, P, R
    <3>4. QED
      BY <3>1, <3>2, <3>3 DEF Bijection, Injection, Surjection, IsInjective
  <2> HIDE DEF f, P, R
  <2>2. ExistsBijection(P, R)
    BY <2>1 DEF ExistsBijection
  <2>3. QED
    BY <2>2, <1>1, FS_Bijection
<1> HIDE DEF P, R, f
<1>6. 2^n \in Nat
  BY <1>1, FS_CardinalityType
<1>7. 2^n # 0
  <2>1. P # {}
    BY DEF P
  <2>2. QED
    BY <2>1, <1>1, FS_EmptySet
<1>8. 2^(n + 1) = Cardinality(P) + Cardinality(R) - Cardinality(P \cap R)
  BY <1>1, <1>2, <1>3, <1>5, FS_Union
<1>9. Cardinality(P \cap R) = 0
  BY <1>4, FS_EmptySet
<1>10. QED
  BY <1>1, <1>5, <1>6, <1>7, <1>8, <1>9

\* A positive multiple of a number is not below it.
LEMMA MultiplesAreFar ==
  ASSUME NEW k \in Int, NEW m \in Nat, k >= 1
  PROVE  k * m >= m
OBVIOUS

\* The quotient and the remainder by a positive number.
LEMMA Quotient ==
  ASSUME NEW n \in Int, NEW d \in Nat \ {0}
  PROVE  /\ n \div d \in Int
         /\ n % d \in 0..(d - 1)
         /\ n = d * (n \div d) + (n % d)
OBVIOUS

\* Two remainders that differ by a multiple of the divisor are equal.
LEMMA RemainderIsUnique ==
  ASSUME NEW d \in Nat \ {0}, NEW x \in 0..(d - 1), NEW y \in 0..(d - 1), NEW k \in Int, x = y + k * d
  PROVE  x = y
<1>1. k < 1
  <2>1. SUFFICES ASSUME k >= 1 PROVE FALSE
    OBVIOUS
  <2>2. k * d >= d
    BY <2>1, MultiplesAreFar
  <2>3. QED
    BY <2>2
<1>2. k > -1
  <2>1. SUFFICES ASSUME -k >= 1 PROVE FALSE
    OBVIOUS
  <2>2. (-k) * d >= d
    BY <2>1, MultiplesAreFar
  <2>3. (-k) * d = -(k * d)
    OBVIOUS
  <2>4. QED
    BY <2>2, <2>3
<1>3. k = 0
  BY <1>1, <1>2
<1>4. QED
  BY <1>3

-----------------------------------------------------------------------------
(* Wrapping *)

\* The integers a value holds.
Representable == IntMin..IntMax

\* The words are 2^Width consecutive integers, one more below zero than above.
LEMMA WordBounds ==
  /\ 2^Width \in Nat \ {0}
  /\ IntMin \in Int /\ IntMax \in Int
  /\ IntMax - IntMin = 2^Width - 1
  /\ IntMin = -IntMax - 1 /\ IntMax >= 0
<1>1. Width - 1 \in Nat /\ (Width - 1) + 1 = Width
  BY WidthAssumption
<1>2. 2^(Width - 1) \in Nat \ {0} /\ 2^((Width - 1) + 1) = 2 * 2^(Width - 1)
  BY <1>1, PowersDouble
<1>3. 2^Width = 2 * 2^(Width - 1)
  BY <1>1, <1>2
<1>4. QED
  BY <1>2, <1>3 DEF IntMin, IntMax

\* Wrapping yields a word that differs from the number by a multiple of
\* 2^Width (wrapAdd, wrapSub, wrapMul, wrapNeg of object.hpp, which compute in
\* unsigned arithmetic and convert back).
THEOREM WrapIsAWord ==
  ASSUME NEW n \in Int
  PROVE  Wrap(n) \in Representable /\ \E k \in Int : n = Wrap(n) + k * 2^Width
<1> DEFINE M == 2^Width
           x == n - IntMin
<1>1. M \in Nat \ {0} /\ IntMin \in Int /\ IntMax \in Int /\ IntMax - IntMin = M - 1
  BY WordBounds
<1>2. x \in Int /\ n = x + IntMin
  BY <1>1
<1>3. Wrap(n) = (x % M) + IntMin
  BY DEF Wrap
<1> HIDE DEF M, x
<1>4. x \div M \in Int /\ x % M \in 0..(M - 1) /\ x = M * (x \div M) + (x % M)
  BY <1>1, <1>2, Quotient
<1>5. M * (x \div M) = (x \div M) * M
  BY <1>1, <1>4
<1>6. n = Wrap(n) + (x \div M) * M
  BY <1>1, <1>2, <1>3, <1>4, <1>5
<1>7. Wrap(n) \in Representable
  BY <1>1, <1>3, <1>4 DEF Representable
<1>8. QED
  BY <1>4, <1>6, <1>7 DEF M

\* Products of sums, differences and negations.
LEMMA SplitProduct ==
  ASSUME NEW k \in Int, NEW j \in Int, NEW m \in Int
  PROVE  (k + j) * m = k * m + j * m /\ (k - j) * m = k * m - j * m /\ (-k) * m = -(k * m)
OBVIOUS

\* Words that differ by a multiple of 2^Width are equal.
LEMMA WordIsUnique ==
  ASSUME NEW v \in Representable, NEW w \in Representable, NEW k \in Int, v = w + k * 2^Width
  PROVE  v = w
<1> DEFINE M == 2^Width
<1>1. M \in Nat \ {0} /\ IntMin \in Int /\ IntMax \in Int /\ IntMax - IntMin = M - 1
  BY WordBounds
<1>2. v = w + k * M
  OBVIOUS
<1> HIDE DEF M
<1>3. v - IntMin \in 0..(M - 1) /\ w - IntMin \in 0..(M - 1) /\ v \in Int /\ w \in Int
  BY <1>1 DEF Representable
<1>4. v - IntMin = (w - IntMin) + k * M
  BY <1>1, <1>2, <1>3
<1>5. v - IntMin = w - IntMin
  BY <1>1, <1>3, <1>4, RemainderIsUnique
<1>6. QED
  BY <1>1, <1>3, <1>5

\* The result of wrapping is the only word that is congruent to the number: the
\* code's promise of identical bits on every platform leaves no choice.
THEOREM WrapIsUnique ==
  ASSUME NEW n \in Int, NEW w \in Representable, NEW k \in Int, n = w + k * 2^Width
  PROVE  Wrap(n) = w
<1>1. 2^Width \in Nat /\ w \in Int
  BY WordBounds DEF Representable
<1>2. PICK j \in Int : n = Wrap(n) + j * 2^Width
  BY WrapIsAWord
<1>3. Wrap(n) \in Representable /\ Wrap(n) \in Int
  BY WrapIsAWord, WordBounds DEF Representable
<1>4. Wrap(n) = w + (k - j) * 2^Width
  <2>1. (k - j) * 2^Width = k * 2^Width - j * 2^Width
    BY <1>1, SplitProduct
  <2>2. k * 2^Width \in Int /\ j * 2^Width \in Int
    BY <1>1
  <2>3. w + k * 2^Width = Wrap(n) + j * 2^Width
    BY <1>2
  <2> DEFINE u == k * 2^Width
             v == j * 2^Width
  <2>4. u \in Int /\ v \in Int /\ w + u = Wrap(n) + v /\ (k - j) * 2^Width = u - v
    BY <2>1, <2>2, <2>3
  <2> HIDE DEF u, v
  <2>5. QED
    BY <1>1, <1>3, <2>4
<1>5. k - j \in Int
  OBVIOUS
<1>6. QED
  BY <1>3, <1>4, <1>5, WordIsUnique

\* A number that fits is not changed by wrapping.
THEOREM WordsAreKept ==
  ASSUME NEW w \in Representable
  PROVE  Wrap(w) = w
<1>1. w \in Int /\ 2^Width \in Nat
  BY WordBounds DEF Representable
<1>2. w = w + 0 * 2^Width
  BY <1>1
<1>3. QED
  BY <1>1, <1>2, WrapIsUnique

\* Numbers that differ by a multiple of 2^Width wrap to the same word.
LEMMA CongruentWraps ==
  ASSUME NEW x \in Int, NEW y \in Int, NEW i \in Int, x = y + i * 2^Width
  PROVE  Wrap(y) = Wrap(x)
<1>1. 2^Width \in Int
  BY WordBounds
<1>2. PICK j \in Int : y = Wrap(y) + j * 2^Width
  BY WrapIsAWord
<1>3. Wrap(y) \in Representable
  BY WrapIsAWord
<1>4. Wrap(y) \in Int
  BY <1>3, WordBounds DEF Representable
<1>5. (i + j) * 2^Width = i * 2^Width + j * 2^Width
  BY <1>1, SplitProduct
<1>6. i * 2^Width \in Int /\ j * 2^Width \in Int
  BY <1>1
<1>7. x = Wrap(y) + (i + j) * 2^Width
  BY <1>2, <1>4, <1>5, <1>6
<1>8. i + j \in Int
  OBVIOUS
<1>9. QED
  BY <1>3, <1>7, <1>8, WrapIsUnique

\* A term of a sum, a difference or a product may be wrapped first: a chain of
\* wrapping operations computes what one wrap of the exact result would, in the
\* interpreter's order, the order of a fold (sum of base.hpp) or any other.
THEOREM WrappedTermsAgree ==
  ASSUME NEW a \in Int, NEW b \in Int
  PROVE  /\ Wrap(Wrap(a) + b) = Wrap(a + b)
         /\ Wrap(Wrap(a) - b) = Wrap(a - b)
         /\ Wrap(b - Wrap(a)) = Wrap(b - a)
         /\ Wrap(Wrap(a) * b) = Wrap(a * b)
<1> DEFINE M == 2^Width
<1>1. M \in Nat
  BY WordBounds
<1>2. PICK k \in Int : a = Wrap(a) + k * M
  BY WrapIsAWord
<1>3. Wrap(a) \in Int
  BY WrapIsAWord, WordBounds DEF Representable
<1>4. \A x, y, i \in Int : x = y + i * M => Wrap(y) = Wrap(x)
  BY CongruentWraps
<1> HIDE DEF M
<1>5. a + b = (Wrap(a) + b) + k * M /\ a - b = (Wrap(a) - b) + k * M /\ b - a = (b - Wrap(a)) + (-k) * M
  <2>1. (-k) * M = -(k * M) /\ k * M \in Int
    BY <1>1, SplitProduct
  <2>2. QED
    BY <1>2, <1>3, <2>1
<1>6. a * b = (Wrap(a) * b) + (k * b) * M
  <2>1. (k * b) * M = (k * M) * b
    BY <1>1
  <2>2. (Wrap(a) + k * M) * b = Wrap(a) * b + (k * M) * b
    BY <1>1, <1>3
  <2>3. QED
    BY <1>2, <2>1, <2>2
<1>7. /\ a + b \in Int /\ a - b \in Int /\ b - a \in Int /\ a * b \in Int
      /\ Wrap(a) + b \in Int /\ Wrap(a) - b \in Int /\ b - Wrap(a) \in Int /\ Wrap(a) * b \in Int
      /\ -k \in Int /\ k * b \in Int
  BY <1>3
<1>8. QED
  BY <1>4, <1>5, <1>6, <1>7

-----------------------------------------------------------------------------
(* Division *)

\* Truncating division divides the magnitudes; the quotient has the sign of the
\* product, the remainder that of the dividend.
LEMMA Truncation ==
  ASSUME NEW l \in Int, NEW r \in Int \ {0}
  PROVE  \E q, m \in Nat :
           /\ Magnitude(l) = Magnitude(r) * q + m
           /\ m < Magnitude(r)
           /\ TruncDiv(l, r) = (IF (l < 0) = (r < 0) THEN q ELSE -q)
           /\ TruncRem(l, r) = (IF l < 0 THEN -m ELSE m)
<1> DEFINE a == Magnitude(l)
           b == Magnitude(r)
           q == a \div b
           m == a % b
<1>1. a \in Nat /\ b \in Nat \ {0}
  BY DEF Magnitude
<1>2. q \in Int /\ m \in 0..(b - 1) /\ a = b * q + m
  <2> HIDE DEF a, b
  <2>1. QED
    BY <1>1, Quotient
<1>3. TruncDiv(l, r) = Signum(l) * Signum(r) * q
  BY DEF TruncDiv
<1>4. TruncRem(l, r) = l - r * TruncDiv(l, r)
  BY DEF TruncRem
<1> HIDE DEF q, m
<1>5. q \in Nat
  <2> HIDE DEF a, b
  <2>1. SUFFICES ASSUME -q >= 1 PROVE FALSE
    BY <1>2
  <2>2. (-q) * b >= b /\ (-q) * b = -(q * b) /\ b * q = q * b
    BY <1>1, <1>2, <2>1, MultiplesAreFar, SplitProduct
  <2>3. QED
    BY <1>1, <1>2, <2>2
<1>6. a = 0 => q = 0
  <2> HIDE DEF a, b
  <2>1. SUFFICES ASSUME a = 0, q >= 1 PROVE FALSE
    BY <1>5
  <2>2. q * b >= b /\ b * q = q * b
    BY <1>1, <1>2, <2>1, MultiplesAreFar
  <2>3. QED
    BY <1>1, <1>2, <2>1, <2>2
<1>7. TruncDiv(l, r) = IF (l < 0) = (r < 0) THEN q ELSE -q
  <2>1. CASE l = 0
    <3>1. q = 0
      BY <1>6, <2>1 DEF Magnitude
    <3>2. Signum(l) * Signum(r) = 0
      BY <2>1 DEF Signum
    <3>3. QED
      BY <1>3, <3>1, <3>2
  <2>2. CASE l < 0 /\ r < 0
    <3>1. Signum(l) * Signum(r) = 1
      BY <2>2 DEF Signum
    <3>2. QED
      BY <1>2, <1>3, <2>2, <3>1
  <2>3. CASE l < 0 /\ r > 0
    <3>1. Signum(l) * Signum(r) = -1
      BY <2>3 DEF Signum
    <3>2. QED
      BY <1>2, <1>3, <2>3, <3>1
  <2>4. CASE l > 0 /\ r < 0
    <3>1. Signum(l) * Signum(r) = -1
      BY <2>4 DEF Signum
    <3>2. QED
      BY <1>2, <1>3, <2>4, <3>1
  <2>5. CASE l > 0 /\ r > 0
    <3>1. Signum(l) * Signum(r) = 1
      BY <2>5 DEF Signum
    <3>2. QED
      BY <1>2, <1>3, <2>5, <3>1
  <2>6. QED
    BY <2>1, <2>2, <2>3, <2>4, <2>5
<1>8. TruncRem(l, r) = IF l < 0 THEN -m ELSE m
  <2>1. b * q \in Int /\ r * q = (IF r < 0 THEN -(b * q) ELSE b * q) /\ r * (-q) = -(r * q)
    BY <1>1, <1>5 DEF Magnitude
  <2>2. CASE l < 0 /\ r < 0
    BY <1>2, <1>4, <1>7, <2>1, <2>2 DEF Magnitude
  <2>3. CASE l < 0 /\ r > 0
    BY <1>2, <1>4, <1>7, <2>1, <2>3 DEF Magnitude
  <2>4. CASE l >= 0 /\ r < 0
    BY <1>2, <1>4, <1>7, <2>1, <2>4 DEF Magnitude
  <2>5. CASE l >= 0 /\ r > 0
    BY <1>2, <1>4, <1>7, <2>1, <2>5 DEF Magnitude
  <2>6. QED
    BY <2>2, <2>3, <2>4, <2>5
<1>9. m \in Nat /\ m < b
  <2> HIDE DEF a, b
  <2>1. QED
    BY <1>1, <1>2
<1>10. QED
  BY <1>2, <1>5, <1>7, <1>8, <1>9

\* Except for the divisor -1, the truncated quotient of two words is a word, and
\* it still is when one is taken off it to round down.
LEMMA QuotientsAreWords ==
  ASSUME NEW l \in Representable, NEW r \in Representable \ {0, -1}
  PROVE  /\ TruncDiv(l, r) \in Representable /\ TruncRem(l, r) \in Int
         /\ l = r * TruncDiv(l, r) + TruncRem(l, r)
         /\ IF l < 0 THEN TruncRem(l, r) <= 0 ELSE TruncRem(l, r) >= 0
         /\ Magnitude(TruncRem(l, r)) < Magnitude(r)
         /\ TruncRem(l, r) # 0 /\ (l < 0) # (r < 0) => TruncDiv(l, r) - 1 \in Representable
<1>1. IntMin \in Int /\ IntMax \in Int /\ IntMin = -IntMax - 1 /\ IntMax >= 0
  BY WordBounds
<1>2. l \in Int /\ r \in Int /\ r # 0 /\ r # -1 /\ IntMin <= l /\ l <= IntMax
  BY <1>1 DEF Representable
<1>3. PICK q, m \in Nat :
        /\ Magnitude(l) = Magnitude(r) * q + m
        /\ m < Magnitude(r)
        /\ TruncDiv(l, r) = (IF (l < 0) = (r < 0) THEN q ELSE -q)
        /\ TruncRem(l, r) = (IF l < 0 THEN -m ELSE m)
  BY <1>2, Truncation
<1>4. TruncDiv(l, r) \in Int /\ TruncRem(l, r) \in Int
  BY <1>2, <1>3
<1>5. q + m <= Magnitude(l) /\ (r < 0 => 2 * q + m <= Magnitude(l))
  <2> DEFINE a == Magnitude(l)
             b == Magnitude(r)
  <2>1. a \in Nat /\ b \in Nat \ {0} /\ (r < 0 => b >= 2) /\ a = b * q + m
    BY <1>2, <1>3 DEF Magnitude
  <2> HIDE DEF a, b
  <2>2. b * q = (b - 1) * q + q /\ (b - 1) * q \in Nat
    BY <2>1
  <2>3. b >= 2 => (b - 1) * q >= q
    BY <2>1, MultiplesAreFar
  <2>4. q + m <= a
    BY <2>1, <2>2
  <2>5. b >= 2 => 2 * q + m <= a
    BY <2>1, <2>2, <2>3
  <2>6. QED
    BY <2>1, <2>4, <2>5 DEF a
<1>6. TruncDiv(l, r) \in Representable
  BY <1>1, <1>2, <1>3, <1>5 DEF Representable, Magnitude
<1>7. l = r * TruncDiv(l, r) + TruncRem(l, r)
  <2>1. \A x, y \in Int : x = y - (y - x)
    OBVIOUS
  <2>2. r * TruncDiv(l, r) \in Int
    BY <1>2, <1>4
  <2>3. QED
    BY <1>2, <2>2 DEF TruncRem
<1>8. TruncRem(l, r) # 0 /\ (l < 0) # (r < 0) => TruncDiv(l, r) - 1 \in Representable
  BY <1>1, <1>2, <1>3, <1>5 DEF Representable, Magnitude
<1>9. /\ IF l < 0 THEN TruncRem(l, r) <= 0 ELSE TruncRem(l, r) >= 0
      /\ Magnitude(TruncRem(l, r)) < Magnitude(r)
  BY <1>2, <1>3 DEF Magnitude
<1>10. QED
  BY <1>4, <1>6, <1>7, <1>8, <1>9

\* For every pair of words with a divisor other than 0, FLOOR_DIV and MOD of
\* vm.hpp yield words, the remainder is between 0 and the divisor with the
\* divisor's sign, and dividend = divisor * quotient + remainder, except for the
\* one pair whose quotient is not a word: there the quotient wraps to IntMin.
THEOREM DivisionsFloor ==
  ASSUME NEW l \in Representable, NEW r \in Representable \ {0}
  PROVE  LET q == FloorDiv(l, r)
             m == FloorMod(l, r)
         IN /\ q \in Representable /\ m \in Representable
            /\ IF r > 0 THEN 0 <= m /\ m < r ELSE r < m /\ m <= 0
            /\ IF l = IntMin /\ r = -1 THEN q = IntMin ELSE l = r * q + m
<1>1. IntMin \in Int /\ IntMax \in Int /\ IntMin = -IntMax - 1 /\ IntMax >= 0
  BY WordBounds
<1>2. l \in Int /\ r \in Int /\ r # 0
  BY <1>1 DEF Representable
<1>3. CASE r = -1
  <2>1. FloorDiv(l, r) = Wrap(-l) /\ FloorMod(l, r) = 0
    BY <1>3 DEF FloorDiv, FloorMod
  <2>2. CASE l = IntMin
    <3>1. -l = IntMin + 1 * 2^Width
      BY <2>2, WordBounds
    <3>2. IntMin \in Representable /\ -l \in Int
      BY <1>1, <1>2 DEF Representable
    <3>3. Wrap(-l) = IntMin
      BY <3>1, <3>2, WrapIsUnique
    <3>4. QED
      BY <1>1, <1>3, <2>1, <2>2, <3>2, <3>3 DEF Representable
  <2>3. CASE l # IntMin
    <3>1. -l \in Representable
      BY <1>1, <1>2, <2>3 DEF Representable
    <3>2. Wrap(-l) = -l
      BY <3>1, WordsAreKept
    <3>3. QED
      BY <1>1, <1>2, <1>3, <2>1, <2>3, <3>1, <3>2 DEF Representable
  <2>4. QED
    BY <2>2, <2>3
<1>4. CASE r # -1
  <2> DEFINE t == TruncDiv(l, r)
             m == TruncRem(l, r)
  <2>1. /\ t \in Representable /\ m \in Int /\ t \in Int
        /\ l = r * t + m
        /\ IF l < 0 THEN m <= 0 ELSE m >= 0
        /\ Magnitude(m) < Magnitude(r)
        /\ m # 0 /\ (l < 0) # (r < 0) => t - 1 \in Representable
    BY <1>1, <1>2, <1>4, QuotientsAreWords DEF Representable
  <2>2. /\ FloorDiv(l, r) = IF m # 0 /\ (l < 0) # (r < 0) THEN t - 1 ELSE t
        /\ FloorMod(l, r) = IF m # 0 /\ (m < 0) # (r < 0) THEN m + r ELSE m
    BY <1>4 DEF FloorDiv, FloorMod
  <2> HIDE DEF t, m
  <2>3. m # 0 => ((l < 0) = (m < 0))
    BY <1>2, <2>1
  <2>4. CASE m # 0 /\ (l < 0) # (r < 0)
    <3>1. FloorDiv(l, r) = t - 1 /\ FloorMod(l, r) = m + r
      BY <2>2, <2>3, <2>4
    <3>2. r * (t - 1) = r * t - r /\ r * t \in Int
      BY <1>2, <2>1
    <3>3. l = r * (t - 1) + (m + r)
      BY <1>2, <2>1, <3>2
    <3>4. IF r > 0 THEN 0 <= m + r /\ m + r < r ELSE r < m + r /\ m + r <= 0
      BY <1>2, <2>1, <2>3, <2>4 DEF Magnitude
    <3>5. m + r \in Representable
      BY <1>1, <1>2, <2>1, <3>4 DEF Representable
    <3>6. QED
      BY <1>4, <2>1, <2>4, <3>1, <3>3, <3>4, <3>5
  <2>5. CASE ~(m # 0 /\ (l < 0) # (r < 0))
    <3>1. FloorDiv(l, r) = t /\ FloorMod(l, r) = m
      BY <2>2, <2>3, <2>5
    <3>2. IF r > 0 THEN 0 <= m /\ m < r ELSE r < m /\ m <= 0
      BY <1>2, <2>1, <2>3, <2>5 DEF Magnitude
    <3>3. m \in Representable
      BY <1>1, <1>2, <2>1, <3>2 DEF Representable
    <3>4. QED
      BY <1>4, <2>1, <3>1, <3>2, <3>3
  <2>6. QED
    BY <2>4, <2>5
<1>5. QED
  BY <1>3, <1>4

-----------------------------------------------------------------------------
(* Places and lengths *)

\* An index is in its sequence or refused, exactly when it is not between -n and
\* n - 1; a slice bound is always in 0..n, and the two agree where an element
\* exists (evalIndexAccess of runtime.hpp, norm of sliceOp in vm.hpp).
THEOREM PlacesExist ==
  ASSUME NEW i \in Int, NEW n \in Nat
  PROVE  /\ FromEnd(i, n) \in 0..n /\ Norm(i, n) \in 0..n
         /\ FromEnd(i, n) = 0 <=> ~(-n <= i /\ i < n)
         /\ FromEnd(i, n) # 0 => Norm(i, n) = FromEnd(i, n) - 1
BY DEF FromEnd, Norm

\* Dividing the distance rounded up by the step counts the steps that stay below
\* the distance.
LEMMA CeilingCounts ==
  ASSUME NEW d \in Nat \ {0}, NEW s \in Nat \ {0}, d + s - 1 <= IntMax
  PROVE  LET c == TruncDiv(Wrap(d + s - 1), s)
         IN c \in Nat /\ \A k \in Nat : k < c <=> k * s < d
<1> DEFINE gap == d + s - 1
           c == TruncDiv(gap, s)
<1>1. gap \in Nat /\ gap = d + s - 1 /\ gap \in Representable
  BY WordBounds DEF Representable
<1> HIDE DEF gap
<1>2. Wrap(gap) = gap
  BY <1>1, WordsAreKept
<1>3. gap \in Int /\ s \in Int \ {0}
  BY <1>1
<1>4. PICK q, m \in Nat :
        /\ Magnitude(gap) = Magnitude(s) * q + m
        /\ m < Magnitude(s)
        /\ TruncDiv(gap, s) = (IF (gap < 0) = (s < 0) THEN q ELSE -q)
        /\ TruncRem(gap, s) = (IF gap < 0 THEN -m ELSE m)
  BY <1>3, Truncation
<1>5. c = q /\ gap = s * q + m /\ m < s
  BY <1>1, <1>4 DEF Magnitude
<1> HIDE DEF c
<1>6. s * q = q * s /\ q * s \in Nat
  OBVIOUS
<1>7. ASSUME NEW k \in Nat PROVE k < q <=> k * s < d
  <2>1. k * s \in Nat
    OBVIOUS
  <2>2. CASE k < q
    <3>1. (q - k) * s >= s /\ (q - k) * s = q * s - k * s
      BY <2>2, MultiplesAreFar, SplitProduct
    <3>2. QED
      BY <1>1, <1>5, <1>6, <2>1, <2>2, <3>1
  <2>3. CASE k >= q
    <3>1. (k - q) * s \in Nat /\ (k - q) * s = k * s - q * s
      BY <2>3, SplitProduct
    <3>2. QED
      BY <1>1, <1>5, <1>6, <2>1, <2>3, <3>1
  <2>4. QED
    BY <2>2, <2>3
<1>8. QED
  BY <1>1, <1>2, <1>5, <1>7 DEF c

\* The length of a range counts from, from + step, ... up to its end, with a step
\* up or down, while its distance plus a step fits a word: RangeObject's length
\* adds in plain arithmetic, and the quotient truncates (length of object.hpp).
THEOREM RangesCountTheirSteps ==
  ASSUME NEW r, r.from \in Representable, r.to \in Representable, r.step \in Representable \ {0},
         (IF r.step > 0 THEN r.to - r.from + r.step - 1 ELSE r.from - r.to - r.step - 1) <= IntMax
  PROVE  /\ RangeLength(r) \in Nat
         /\ \A k \in Nat : k < RangeLength(r) <=>
              IF r.step > 0 THEN r.from + k * r.step < r.to ELSE r.from + k * r.step > r.to
<1> DEFINE from == r.from
           to == r.to
           step == r.step
           length == RangeLength(r)
<1>1. IntMin \in Int /\ IntMax \in Int /\ IntMin = -IntMax - 1
  BY WordBounds
<1>2. from \in Int /\ to \in Int /\ step \in Int /\ step # 0 /\ step >= IntMin /\ step <= IntMax
  BY <1>1 DEF Representable
<1>3. (IF step > 0 THEN to - from + step - 1 ELSE from - to - step - 1) <= IntMax
  OBVIOUS
<1>4. length =
        IF step > 0
        THEN IF to <= from THEN 0 ELSE TruncDiv(Wrap(to - from + step - 1), step)
        ELSE IF to >= from THEN 0 ELSE TruncDiv(Wrap(from - to - step - 1), Wrap(-step))
  BY DEF RangeLength
<1> SUFFICES /\ length \in Nat
             /\ \A k \in Nat : k < length <=>
                  IF step > 0 THEN from + k * step < to ELSE from + k * step > to
  OBVIOUS
<1> HIDE DEF from, to, step, length
<1>5. CASE step > 0 /\ to > from
  <2>1. to - from \in Nat \ {0} /\ step \in Nat \ {0} /\ (to - from) + step - 1 <= IntMax
    BY <1>2, <1>3, <1>5
  <2>2. length = TruncDiv(Wrap((to - from) + step - 1), step)
    BY <1>2, <1>4, <1>5
  <2>3. length \in Nat /\ \A k \in Nat : k < length <=> k * step < to - from
    BY <2>1, <2>2, CeilingCounts
  <2>4. \A k \in Nat : k * step \in Int
    BY <1>2
  <2>5. QED
    BY <1>2, <1>5, <2>3, <2>4
<1>6. CASE step < 0 /\ to < from
  <2>1. from - to \in Nat \ {0} /\ -step \in Nat \ {0} /\ (from - to) + (-step) - 1 <= IntMax
    BY <1>2, <1>3, <1>6
  <2>2. Wrap(-step) = -step
    <3>1. -step \in Representable
      BY <1>1, <1>2, <2>1 DEF Representable
    <3>2. QED
      BY <3>1, WordsAreKept
  <2>3. from - to - step - 1 = (from - to) + (-step) - 1
    BY <1>2
  <2>4. length = TruncDiv(Wrap((from - to) + (-step) - 1), -step)
    BY <1>2, <1>4, <1>6, <2>2, <2>3
  <2>5. length \in Nat /\ \A k \in Nat : k < length <=> k * (-step) < from - to
    BY <2>1, <2>4, CeilingCounts
  <2>6. \A k \in Nat : k * step \in Int /\ k * (-step) = -(k * step)
    BY <1>2
  <2>7. QED
    BY <1>2, <1>6, <2>5, <2>6
<1>7. CASE (step > 0 /\ to <= from) \/ (step < 0 /\ to >= from)
  <2>1. length = 0
    BY <1>2, <1>4, <1>7
  <2>2. ASSUME NEW k \in Nat, step > 0 PROVE k * step \in Nat
    BY <1>2, <2>2
  <2>3. ASSUME NEW k \in Nat, step < 0 PROVE k * step \in Int /\ -(k * step) \in Nat
    <3>1. k * (-step) \in Nat /\ k * (-step) = -(k * step)
      BY <1>2, <2>3
    <3>2. QED
      BY <1>2, <3>1
  <2>4. QED
    BY <1>2, <1>7, <2>1, <2>2, <2>3
<1>8. QED
  BY <1>2, <1>5, <1>6, <1>7
=============================================================================
